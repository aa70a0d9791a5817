SPECIFICATION Spec
CONSTANTS
  t1 = t1  t2 = t2  none = none
  NoThread = none
  Threads <- Two
  Regions <- OffSlabs
  Taken <- OuterOff
  Spare <- BetweenOff
  Slab = 2
  MinBinned = 2
  HugeBin = 2
  Requests <- LargeOnly
  Threshold = 1
  MaxCalls = 1
INVARIANT NullMeansNone
