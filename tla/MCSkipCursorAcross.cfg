SPECIFICATION Spec
CONSTANTS
  BlkSz = 4
  MetaBlkAddr = 0
  Base = 5
  Length = 13
  Lengths <- CallLengths
CHECK_DEADLOCK FALSE
PROPERTY SkipMovesForward
