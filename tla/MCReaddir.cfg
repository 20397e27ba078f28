SPECIFICATION FairSpec
CONSTANTS
  BlkSz = 64
  MetaBlkAddr = 1
  NullAddr = 255
  ImgLen = 4096
  Dirs <- SomeDirs
  Clients = {"fuse", "position", "library"}
  SmallReplies = {"position", "library"}
  Offsets <- SomeOffsets
  Skips <- SomeSkips
  MaxCalls = 6
INVARIANTS
  TypeOK
  FillExact
  WholeBlocks
  EndsComplete
PROPERTY
  ListingEnds
\* A listing that has ended stops.
CHECK_DEADLOCK FALSE
