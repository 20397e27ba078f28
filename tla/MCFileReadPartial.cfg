SPECIFICATION ReadSpec
CONSTANTS
  BlkSz = 16
  MetaBlkAddr = 2
  NullAddr = 255
  ImgLen = 2000
  Inodes <- PartInodes
  Offsets <- ReadOffsets
  Sizes <- ReadSizes
INVARIANT EndsWithTheFile
