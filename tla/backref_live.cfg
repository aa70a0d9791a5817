SPECIFICATION FairSpec
CONSTANTS
  t1 = t1  t2 = t2
  NoThread = NoThread
  Threads <- Two
  Cap = 2
  InitLeaves = 2
  DataSz = 1
  MaxLeaves = 3
  MaxCalls = 5
INVARIANTS TypeOK SlotsPartition ListIsChain
PROPERTIES StrayRecovered CallsEnd
CHECK_DEADLOCK FALSE
