SPECIFICATION ObjectsSpec
CONSTANTS
  t1 = t1  t2 = t2
  NoThread = NoThread
  Threads <- One
  Cap = 1
  InitLeaves = 2
  RawLeaves = 3
  DataSz = 2
  MaxLeaves = 4
  MaxCalls = 5
INVARIANT NeverWaitsForItself
CHECK_DEADLOCK FALSE
