SPECIFICATION FairSpec
CONSTANTS
  BlkSz = 32
  MetaBlkAddr = 0
  NullAddr = 255
  ImgLen = 640
  XattrBlk = 18
  Endless = 200000
  Image <- SomeImage
  Infixes <- SomeInfixes
  Requests <- SomeRequests
CHECK_DEADLOCK FALSE
INVARIANTS TypeOK FillsInAttributes GetExact ListExact PanicsOnlyWhenFull
PROPERTY ScanEnds
