SPECIFICATION FairSpec
CONSTANTS
  BlkSz = 256
  MetaBlkAddr = 1
  OffSize = 16777216
  Images <- MCImages
INVARIANTS TypeOK DevicesExact MaskExact InfixesInTable PanicCauses AlignedTablesPanic
PROPERTY MountEnds
\* A mount ends.
CHECK_DEADLOCK FALSE
