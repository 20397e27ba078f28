SPECIFICATION FairSpec
CONSTANTS
  BlkSz = 64
  MetaBlkAddr = 1
  NullAddr = 255
  ImgLen = 1088
  Inodes <- Table
  Children <- Tree
  Names <- AllNames
  BadNames <- NotUtf8
  Reads <- Parts
  Sector = 16
  BlkValues = 8
  Root = 2
  RootValues = 16
  NidValues = 256
  MaxKnown = 2
  MaxHandles = 1
INVARIANTS TypeOK NumbersExact CacheExact FillsInBlock AllOrNothing
PROPERTIES ImplementsService RequestAnswered
\* A panic stops the server.
CHECK_DEADLOCK FALSE
