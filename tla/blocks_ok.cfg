SPECIFICATION FairSpec
CONSTANTS
  t1 = t1  t2 = t2  none = none
  NoThread = none
  Threads <- Two
  Regions <- ToASlab
  Taken <- Outer
  Spare <- Between
  Slab = 2
  MinBinned = 2
  HugeBin = 2
  Requests <- AllKinds
  Threshold = 1
  MaxCalls = 1
INVARIANTS TypeOK Tiled HeadersAgree BinsDisjoint MaskCovers ProcessingCounted NullSeesAligned
PROPERTIES IsHeap CallsEnd
