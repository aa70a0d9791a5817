SPECIFICATION FairSpec
CONSTANTS
  t1 = t1  t2 = t2  f1 = f1  f2 = f2
  c1 = c1  c2 = c2  c3 = c3
  NoCall = NoCall
  Threads <- TwoThreads
  Functions <- TwoLoops
  Calls <- TwoCalls
  CallersOf <- CallersShared
  Annotated <- OneLoop
  NumIters = {1}
  Hints <- Runtime
  EnvHints <- NoUnset
  OutsideInit = FALSE
  Word = 6
  MaxUpper = 0
  TbbRuntime = FALSE
  MaxInits = 1
  Faults = {"build", "kernel", "enqueue", "finish"}
PROPERTY CallsReturn
