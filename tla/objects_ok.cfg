SPECIFICATION ObjectsSpec
CONSTANTS
  t1 = t1  t2 = t2
  NoThread = NoThread
  Threads <- Two
  Cap = 1
  InitLeaves = 2
  RawLeaves = 3
  DataSz = 2
  MaxLeaves = 4
  MaxCalls = 4
SYMMETRY Symmetric
INVARIANTS EveryRefHasOneOwner UsedSizeDrift BitMaskCovers
PROPERTY KeepsToTable
CHECK_DEADLOCK FALSE
