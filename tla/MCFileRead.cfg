SPECIFICATION FairReadSpec
CONSTANTS
  BlkSz = 16
  MetaBlkAddr = 2
  NullAddr = 255
  ImgLen = 2000
  Inodes <- FileInodes
  Offsets <- ReadOffsets
  Sizes <- ReadSizes
CHECK_DEADLOCK FALSE
INVARIANTS TypeOK PrefixExact
PROPERTIES LoopProgress ImplementsFileService RequestAnswered
