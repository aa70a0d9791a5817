SPECIFICATION FairSpec
CONSTANTS
  t1 = t1  t2 = t2
  NoThread = NoThread
  Threads <- Two
  Page = 2
  SvmBase = 4
  SvmSize = 8
  Slab = 2
  Bootstrap = 6
  Master = 2
  SlabRegion = 6
  RegionsPerMiss = 1
  RequestsPerRegion = 2
  LargeSizes = {4}
  Header = 2
  MinBlock = 2
  SemaLimit = 1
  MaxRequests = 2
INVARIANTS BytesConserved SemaExact
PROPERTY RequestsEnd
