SPECIFICATION VirtualSpec
CONSTANTS
  Word = 128
  Page = 8
  SvmSize = 40
  Addresses = {4}
  Surfaces = {100}
  Classes <- Three
  Slots = {0, 1}
  PtrSize = 2
  Programs <- PlainPrograms
INVARIANT EntriesExact
