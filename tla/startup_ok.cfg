SPECIFICATION VirtualSpec
CONSTANTS
  Word = 128
  Page = 8
  SvmSize = 40
  Addresses <- SomePlaces
  Surfaces <- TwoSurfaces
  Classes <- Three
  Slots = {0, 1}
  PtrSize = 2
  Programs <- SomePrograms
INVARIANTS RegionAllocated RegionInOneWord TranslationExact FormsAgree BufferInOneWord TargetsExact CallRunsOverride
