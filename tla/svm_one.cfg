SPECIFICATION Spec
CONSTANTS
  t1 = t1  t2 = t2
  NoThread = NoThread
  Threads <- One
  Page = 2
  SvmBase = 4
  SvmSize = 30
  Slab = 2
  Bootstrap = 6
  Master = 2
  SlabRegion = 8
  RegionsPerMiss = 2
  RequestsPerRegion = 2
  LargeSizes = {6, 8}
  Header = 2
  MinBlock = 2
  SemaLimit = 3
  MaxRequests = 4
INVARIANTS TypeOK NoOverlap OverrunBounded
PROPERTY NullIsLastResort
