----------------------------- MODULE SvmPlacement -----------------------------
(****************************************************************************)
(* Where the shared virtual memory region lies, and what a shared pointer   *)
(* means on the two sides: initMemoryManager (tbbmalloc/frontend.cpp) puts  *)
(* the region into a malloc'ed block, init_ocl (runtime/src/hetero.c) makes *)
(* an OpenCL buffer of it, and the code HeteroGPUTransform generates turns  *)
(* CPU pointers into GPU pointers and back by adding a constant, keeping    *)
(* only their lower word.                                                   *)
(****************************************************************************)
EXTENDS Integers

CONSTANTS
    Word,       \* 2^32, scaled
    Page,       \* allocationGranularity and PAGE_SIZE
    SvmSize,    \* SVM_SIZE
    Addresses,  \* what malloc may return, 0 is NULL
    Surfaces    \* GPU addresses (svmArea) at which the device maps the buffer

ASSUME PlacementAssumption ==
    /\ Page \in Nat \ {0} /\ Page % 4 = 0 /\ SvmSize \in Nat \ {0} /\ SvmSize % Page = 0
    /\ Word \in Nat /\ Word % (2 * Page) = 0 /\ 2 * SvmSize <= Word
    /\ Addresses \subseteq Nat /\ \A a \in Addresses : a % 4 = 0
    /\ Surfaces \subseteq 0 .. Word - 1 /\ \A g \in Surfaces : g % 4 = 0

VARIABLES
    step,         \* start, ready (malloc initialised), mapped or exited
    block,        \* what malloc returned
    svmRegion,    \* svmRegion, also nextSVMAvailable at this point
    limit,        \* svmRegionLimit
    written,      \* end of the bytes the zeroing loop wrote
    buffer,       \* SharedMemoryBuffer
    surface       \* where the device sees it

vars == <<step, block, svmRegion, limit, written, buffer, surface>>

Low(a)     == a % Word
RoundUp(a) == ((a + Page - 1) \div Page) * Page

Init ==
    /\ step = "start"
    /\ block = 0 /\ svmRegion = 0 /\ limit = 0 /\ written = 0 /\ buffer = 0 /\ surface = 0

(* Mutant: the end is not reduced to its lower word.                        *)
Away4GBWide(r) == IF r + SvmSize < Low(r) THEN r + SvmSize ELSE r

(* Mutant: a region ending exactly at a boundary stays where it is.         *)
Away4GBExact(r) == IF Low(r + SvmSize - 1) < Low(r) THEN r + SvmSize ELSE r

(* A region that would cross a boundary of Word is moved by its own size.   *)
Away4GB(r) == IF Low(r + SvmSize) < Low(r) THEN r + SvmSize ELSE r

(* Mutant: the first page of the block is kept whatever its alignment.      *)
InitMemoryManagerTight(a) ==
    /\ step = "start" /\ a # 0
    /\ block' = a
    /\ svmRegion' = Away4GB(RoundUp(a) + Page)
    /\ limit' = svmRegion' + SvmSize
    /\ written' = limit' - 1 + 4
    /\ step' = "ready"
    /\ UNCHANGED <<buffer, surface>>

(* Mutant: the block is used from its first byte.                           *)
InitMemoryManagerUnaligned(a) ==
    /\ step = "start" /\ a # 0
    /\ block' = a
    /\ svmRegion' = Away4GB(a)
    /\ limit' = svmRegion' + SvmSize
    /\ written' = limit' - 1 + 4
    /\ step' = "ready"
    /\ UNCHANGED <<buffer, surface>>

(* The loop that clears the region stores an unsigned int at every byte     *)
(* address, so it ends three bytes after the last one.                      *)
InitMemoryManager(a) ==
    /\ step = "start" /\ a # 0
    /\ block' = a
    /\ svmRegion' = Away4GB(RoundUp(a))
    /\ limit' = svmRegion' + SvmSize
    /\ written' = limit' - 1 + 4
    /\ step' = "ready"
    /\ UNCHANGED <<buffer, surface>>

NoMemory ==
    /\ step = "start" /\ 0 \in Addresses
    /\ step' = "exited"
    /\ UNCHANGED <<block, svmRegion, limit, written, buffer, surface>>

(* init_ocl: (get_svm_region() & PAGE_ALIGNMENT_MASK) + PAGE_SIZE.          *)
InitOcl(g) ==
    /\ step = "ready"
    /\ buffer' = (svmRegion \div Page) * Page + Page
    /\ surface' = g
    /\ step' = "mapped"
    /\ UNCHANGED <<block, svmRegion, limit, written>>

(* Nothing moves the region afterwards.                                     *)
Placed == step \in {"mapped", "exited"} /\ UNCHANGED vars

Next ==
    \/ \E a \in Addresses : InitMemoryManager(a)
    \/ NoMemory
    \/ \E g \in Surfaces : InitOcl(g)
    \/ Placed

Spec == Init /\ [][Next]_vars

-----------------------------------------------------------------------------
(* The generated pointer arithmetic, in words of the GPU.  The kernel       *)
(* receives the lower word of SharedMemoryBuffer as svmCPUBase.             *)

Signed(w) == IF 2 * Low(w) >= Word THEN Low(w) - Word ELSE Low(w)
AShr2(w)  == Signed(w) \div 4

(* Mutant: the base of the region instead of the base of the buffer.        *)
ToGpuFromRegion(p) == Low(surface - Low(svmRegion) + Low(p))

(* ENABLE_BYTE_RW: an offset in bytes from svmArea - svmCPUBase.            *)
ToGpu(p) == Low(surface - Low(buffer) + Low(p))
ToCpu(g) == Low(Low(buffer) - surface + g)

(* Mutant: the base is shifted before it is negated.                        *)
ToGpuByWordSwapped(p) == Low(surface - 4 * AShr2(buffer - 1) + 4 * AShr2(p))

(* Otherwise an index into the words of svmArea, both shifted as ints.      *)
ToGpuByWord(p) == Low(surface + 4 * AShr2(-Low(buffer)) + 4 * AShr2(p))

-----------------------------------------------------------------------------
(* Properties.                                                              *)

Up == step \in {"ready", "mapped"}

(* Every address stays a number; the region is page aligned.                *)
TypeOK ==
    /\ step \in {"start", "ready", "mapped", "exited"}
    /\ block \in Addresses \cup {0} /\ svmRegion \in Nat /\ svmRegion % Page = 0
    /\ limit \in Nat /\ written \in Nat /\ buffer \in Nat
    /\ surface \in Surfaces \cup {0}

(* What initMemoryManager clears and hands out lies inside the block it     *)
(* allocated (SVM_SIZE * 2 + allocationGranularity bytes), wherever malloc  *)
(* puts the block.                                                          *)
RegionAllocated == Up => block <= svmRegion /\ written <= block + 2 * SvmSize + Page

(* The region lies between two multiples of 2^32, so its addresses differ   *)
(* in their lower word only (frontend.cpp, before the shift of the region). *)
RegionInOneWord == Up => svmRegion \div Word = (limit - 1) \div Word

Mapped(p) == buffer <= p /\ p < buffer + SvmSize
Pointers  == svmRegion .. limit - 1

(* A shared pointer into the buffer denotes the byte at the same offset in  *)
(* the GPU surface, and comes back as the lower word it had.                *)
TranslationExact == step = "mapped" => \A p \in Pointers : Mapped(p) =>
    ToGpu(p) = Low(surface + (p - buffer)) /\ ToCpu(ToGpu(p)) = Low(p)

(* Both forms of the generated code agree on aligned words.                 *)
FormsAgree == step = "mapped" => \A p \in Pointers :
    Mapped(p) /\ p % 4 = 0 => ToGpuByWord(p) = ToGpu(p)

(* The buffer, one page further, does not cross a boundary either, so that  *)
(* the GPU may compute with lower words (frontend.cpp:1821): it would, if   *)
(* the check let a region end exactly at the boundary.                      *)
BufferInOneWord == step = "mapped" => buffer \div Word = (buffer + SvmSize - 1) \div Word

=============================================================================
