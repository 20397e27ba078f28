SPECIFICATION Spec
CONSTANTS
  BlkSz = 64
  MetaBlkAddr = 1
  NullAddr = 255
  ImgLen = 4096
  Dirs <- SomeDirs
  Clients = {"fuse"}
  SmallReplies = {"fuse"}
  Offsets <- SomeOffsets
  Skips <- SomeSkips
  MaxCalls = 4
INVARIANT
  EndsComplete
\* A listing that has ended stops.
CHECK_DEADLOCK FALSE
