SPECIFICATION FairSpec
CONSTANTS
  BlkSz = 64
  MetaBlkAddr = 1
  NullAddr = 255
  ImgLen = 4096
  Tree <- FullTree
  Leaves <- Files
  Paths <- SomePaths
  Blank = ""
INVARIANTS TypeOK OnThePath LookupExact
PROPERTY LookupEnds
