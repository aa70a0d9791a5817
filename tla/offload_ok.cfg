SPECIFICATION Spec
CONSTANTS
  t1 = t1  t2 = t2  f1 = f1  f2 = f2
  c1 = c1  c2 = c2  c3 = c3
  NoCall = NoCall
  Threads <- TwoThreads
  Functions <- TwoLoops
  Calls <- ThreeCalls
  CallersOf <- CallersDistinct
  Annotated <- TwoLoops
  NumIters = {0, 2}
  Hints <- Declared
  EnvHints <- AnyEnv
  OutsideInit = TRUE
  Word = 6
  MaxUpper = 0
  TbbRuntime = TRUE
  MaxInits = 2
  Faults = {"init", "build", "kernel"}
SYMMETRY Symmetric
INVARIANTS TypeOK AllOrNothing ExitOnlyAfterReinit ArgumentsOwn
PROPERTIES QuietAfterReturn ImplementsLoop CacheIsStable
