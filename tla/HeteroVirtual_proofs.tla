------------------------- MODULE HeteroVirtual_proofs -------------------------
(* Theorems about SvmPlacement, for every page size, every size of the      *)
(* region, every address malloc may return and every surface; and about     *)
(* HeteroVirtual, which runs on top of it, for every set of programs.       *)
EXTENDS HeteroVirtual, NumberLemmas, FiniteSetTheorems

-----------------------------------------------------------------------------
(* Alignment.                                                               *)

(* Two aligned numbers are at least an alignment apart.                     *)
LEMMA AlignedGap ==
    ASSUME NEW d \in Nat \ {0}, NEW x \in Int, NEW y \in Int, x % d = 0, y % d = 0, x < y
    PROVE  x + d <= y
<1> DEFINE i == x \div d
           j == y \div d
<1>1. i \in Int /\ j \in Int /\ x = d * i /\ y = d * j
  BY DivMod
<1>2. i < j
  <2>1. CASE i >= j
    <3>1. d * i >= d * j
      BY <1>1, <2>1, Z3
    <3> QED
      BY <1>1, <3>1
  <2> QED
    BY <1>1, <2>1
<1>3. d * (i + 1) <= d * j
  BY <1>1, <1>2, Z3
<1>4. d * (i + 1) = d * i + d
  BY <1>1, Z3
<1> QED
  BY <1>1, <1>3, <1>4

-----------------------------------------------------------------------------
(* Helpers of the model.                                                    *)

(* What the assumption says of the sizes, with Word a multiple of a page.   *)
LEMMA Sizes ==
    /\ Page \in Nat \ {0} /\ SvmSize \in Nat \ {0} /\ Word \in Nat \ {0}
    /\ 2 * SvmSize <= Word
    /\ SvmSize % Page = 0 /\ Word % Page = 0
<1>1. Page \in Nat \ {0} /\ SvmSize \in Nat \ {0} /\ Word \in Nat /\ 2 * SvmSize <= Word
      /\ SvmSize % Page = 0 /\ Word % (2 * Page) = 0
  BY PlacementAssumption
<1> DEFINE d == 2 * Page
           k == Word \div d
<1>2. d \in Nat \ {0} /\ Word \in Int /\ Word % d = 0
  BY <1>1
<1> HIDE DEF d
<1>3. k \in Int /\ Word = d * k
  BY <1>2, DivMod
<1> HIDE DEF k
<1>4. Splits(Word, Page, 2 * k, 0)
  <2>1. Word = Page * (2 * k)
    BY <1>1, <1>3, Z3 DEF d
  <2>2. 2 * k \in Int /\ 0 \in 0 .. Page - 1
    BY <1>1, <1>3
  <2> QED
    BY <1>1, <1>3, <2>1, <2>2 DEF Splits
<1>5. Word % Page = 0
  BY <1>4, DivUnique
<1> QED
  BY <1>1, <1>5

(* RoundUp (roundToNextRawAllocBoundary) returns the next page boundary.    *)
LEMMA RoundUpBound ==
    ASSUME NEW a \in Nat
    PROVE  /\ RoundUp(a) \in Nat /\ RoundUp(a) % Page = 0
           /\ a <= RoundUp(a) /\ RoundUp(a) < a + Page
<1> DEFINE n == a + Page - 1
           q == n \div Page
<1>1. Page \in Nat \ {0}
  BY Sizes
<1>2. n \in Int
  BY <1>1
<1> HIDE DEF n
<1>3. q \in Int /\ n % Page \in 0 .. Page - 1 /\ n = Page * q + (n % Page)
  BY <1>1, <1>2, DivMod
<1>4. RoundUp(a) = Page * q
  BY <1>1, <1>3, Z3 DEF RoundUp, n
<1>5. RoundUp(a) % Page = 0
  <2>1. Splits(RoundUp(a), Page, q, 0)
    BY <1>1, <1>3, <1>4 DEF Splits
  <2> QED
    BY <2>1, DivUnique
<1>6. RoundUp(a) \in Int /\ RoundUp(a) = n - (n % Page)
  BY <1>1, <1>3, <1>4
<1>7. a <= RoundUp(a) /\ RoundUp(a) < a + Page
  BY <1>1, <1>3, <1>6 DEF n
<1> QED
  BY <1>5, <1>6, <1>7

(* The lower word of a page boundary is one too.                            *)
LEMMA LowAligned ==
    ASSUME NEW r \in Nat, r % Page = 0
    PROVE  /\ Low(r) \in 0 .. Word - 1 /\ Low(r) % Page = 0
           /\ r \div Word \in Int /\ r = Word * (r \div Word) + Low(r)
<1>1. Page \in Nat \ {0} /\ Word \in Nat \ {0} /\ Word % Page = 0
  BY Sizes
<1> DEFINE q == r \div Word
           i == r \div Page
           j == Word \div Page
<1>2. q \in Int /\ Low(r) \in 0 .. Word - 1 /\ r = Word * q + Low(r)
  BY <1>1, DivMod DEF Low
<1>3. i \in Int /\ r = Page * i /\ j \in Int /\ Word = Page * j
  BY <1>1, DivMod
<1> HIDE DEF q, i, j
<1>4. Low(r) = Page * i - (Page * j) * q
  BY <1>2, <1>3
<1>5. (Page * j) * q = Page * (j * q) /\ Page * (i - j * q) = Page * i - Page * (j * q)
  BY <1>1, <1>2, <1>3, Z3
<1>6. Low(r) % Page = 0
  <2>1. Splits(Low(r), Page, i - j * q, 0)
    BY <1>1, <1>2, <1>3, <1>4, <1>5 DEF Splits
  <2> QED
    BY <2>1, DivUnique
<1> QED
  BY <1>2, <1>6 DEF q

(* What Away4GB returns: at most SvmSize further, and followed by the       *)
(* region and one more page before the next boundary.                       *)
LEMMA Away4GBFits ==
    ASSUME NEW r \in Nat, r % Page = 0
    PROVE  /\ Away4GB(r) \in Nat /\ Away4GB(r) % Page = 0
           /\ r <= Away4GB(r) /\ Away4GB(r) <= r + SvmSize
           /\ Low(Away4GB(r)) + SvmSize + Page <= Word
<1>1. /\ Page \in Nat \ {0} /\ Word \in Nat \ {0} /\ SvmSize \in Nat \ {0}
      /\ SvmSize % Page = 0 /\ Word % Page = 0 /\ 2 * SvmSize <= Word
  BY Sizes
<1> DEFINE l == Low(r)
           q == r \div Word
           s == r + SvmSize
<1>2. l \in 0 .. Word - 1 /\ l % Page = 0 /\ q \in Int /\ r = Word * q + l
  BY LowAligned
<1>3. s % Page = 0 /\ s \in Nat
  <2> DEFINE i == r \div Page
             j == SvmSize \div Page
  <2>1. i \in Int /\ r = Page * i /\ j \in Int /\ SvmSize = Page * j
    BY <1>1, DivMod
  <2> HIDE DEF i, j
  <2>2. s = Page * (i + j)
    BY <1>1, <2>1, Z3
  <2>3. Splits(s, Page, i + j, 0) /\ s \in Nat
    BY <1>1, <2>1, <2>2 DEF Splits
  <2> QED
    BY <2>3, DivUnique
<1>4. CASE l + SvmSize >= Word
  <2>1. s = Word * (q + 1) + (l + SvmSize - Word)
    BY <1>1, <1>2, Z3
  <2>2. l + SvmSize - Word \in 0 .. Word - 1 /\ q + 1 \in Int /\ s \in Int
    BY <1>1, <1>2, <1>4
  <2>3. Low(s) = l + SvmSize - Word
    <3>1. Splits(s, Word, q + 1, l + SvmSize - Word)
      BY <1>1, <2>1, <2>2 DEF Splits
    <3> QED
      BY <3>1, DivUnique DEF Low
  <2>4. Away4GB(r) = s
    BY <1>1, <1>2, <2>3 DEF Away4GB
  <2>5. l + Page <= Word
    BY <1>1, <1>2, AlignedGap
  <2> QED
    BY <1>1, <1>2, <1>3, <2>3, <2>4, <2>5
<1>5. CASE l + SvmSize < Word
  <2>1. s = Word * q + (l + SvmSize)
    BY <1>1, <1>2
  <2>2. l + SvmSize \in 0 .. Word - 1 /\ s \in Int
    BY <1>1, <1>2, <1>5
  <2>3. Low(s) = l + SvmSize
    <3>1. Splits(s, Word, q, l + SvmSize)
      BY <1>1, <1>2, <2>1, <2>2 DEF Splits
    <3> QED
      BY <3>1, DivUnique DEF Low
  <2>4. Away4GB(r) = r
    BY <1>1, <1>2, <2>3 DEF Away4GB
  <2>5. Low(s) % Page = 0
    BY <1>3, LowAligned
  <2>6. l + SvmSize + Page <= Word
    BY <1>1, <1>2, <1>5, <2>3, <2>5, AlignedGap
  <2> QED
    BY <1>1, <2>4, <2>6
<1> QED
  BY <1>1, <1>2, <1>4, <1>5

(* Page boundaries are multiples of the machine word the clearing loop      *)
(* writes.                                                                  *)
LEMMA PageWords ==
    ASSUME NEW x \in Nat, x % Page = 0
    PROVE  x % 4 = 0
<1>1. Page \in Nat \ {0} /\ Page % 4 = 0
  BY PlacementAssumption
<1> DEFINE i == x \div Page
           j == Page \div 4
<1>2. i \in Int /\ x = Page * i
  BY <1>1, DivMod
<1>3. j \in Int /\ Page = 4 * j
  BY <1>1
<1> HIDE DEF i, j
<1>4. x = 4 * (j * i) /\ j * i \in Int
  BY <1>2, <1>3, Z3
<1>5. Splits(x, 4, j * i, 0)
  BY <1>4 DEF Splits
<1> QED
  BY <1>5, DivUnique

(* The lower word is a word.                                                *)
LEMMA LowType == ASSUME NEW x \in Nat PROVE Low(x) \in 0 .. Word - 1
BY DivMod, Sizes DEF Low

(* Only the offset inside the word matters to its quotient.                 *)
LEMMA SameWord ==
    ASSUME NEW x \in Nat, NEW n \in Nat, Low(x) + n < Word
    PROVE  x \div Word = (x + n) \div Word
<1>1. Word \in Nat \ {0}
  BY Sizes
<1>2. x \div Word \in Int /\ Low(x) \in 0 .. Word - 1 /\ x = Word * (x \div Word) + Low(x)
  BY <1>1, DivMod DEF Low
<1>3. Splits(x + n, Word, x \div Word, Low(x) + n)
  BY <1>1, <1>2 DEF Splits
<1> QED
  BY <1>3, DivUnique

-----------------------------------------------------------------------------
(* The invariant: where the region and the buffer are.                      *)

PlaceInv ==
    /\ TypeOK
    /\ Up => /\ svmRegion = Away4GB(RoundUp(block))
             /\ limit = svmRegion + SvmSize /\ written = limit + 3
    /\ step = "mapped" => buffer = svmRegion + Page /\ surface \in Surfaces

(* Before the initialisation nothing is placed.                             *)
LEMMA PlaceInit == Init => PlaceInv
<1>1. Page \in Nat \ {0}
  BY Sizes
<1>2. 0 % Page = 0
  BY <1>1
<1> QED
  BY <1>2 DEF Init, PlaceInv, TypeOK, Up

(* initMemoryManager computes the region from the block, init_ocl the buffer*)
(* from the region, and nothing moves either afterwards.                    *)
LEMMA PlaceStep == PlaceInv /\ [Next]_vars => PlaceInv'
<1> SUFFICES ASSUME PlaceInv, [Next]_vars PROVE PlaceInv'
  OBVIOUS
<1> USE DEF PlaceInv, TypeOK, Up
<1>0. Page \in Nat \ {0} /\ SvmSize \in Nat \ {0} /\ Addresses \subseteq Nat
  BY Sizes, PlacementAssumption
<1>1. ASSUME NEW a \in Addresses, InitMemoryManager(a) PROVE PlaceInv'
  <2> DEFINE r == RoundUp(a)
  <2>1. r \in Nat /\ r % Page = 0
    BY <1>0, RoundUpBound
  <2>2. Away4GB(r) \in Nat /\ Away4GB(r) % Page = 0
    BY <2>1, Away4GBFits
  <2>3. /\ step' = "ready" /\ block' = a /\ svmRegion' = Away4GB(r)
        /\ limit' = Away4GB(r) + SvmSize /\ written' = limit' - 1 + 4
        /\ buffer' = buffer /\ surface' = surface
    BY <1>1 DEF InitMemoryManager
  <2>4. limit' \in Nat /\ written' = limit' + 3
    BY <1>0, <2>2, <2>3
  <2>5. TypeOK'
    BY <2>2, <2>3, <2>4
  <2> QED
    BY <2>3, <2>4, <2>5
<1>2. CASE NoMemory
  BY <1>2 DEF NoMemory
<1>3. ASSUME NEW g \in Surfaces, InitOcl(g) PROVE PlaceInv'
  <2>1. (svmRegion \div Page) * Page = svmRegion
    <3>1. svmRegion = Page * (svmRegion \div Page) + (svmRegion % Page) /\ svmRegion \div Page \in Int
      BY <1>0, DivMod
    <3> QED
      BY <1>0, <3>1, Z3
  <2>2. buffer' = svmRegion + Page /\ surface' = g /\ step' = "mapped"
        /\ UNCHANGED <<block, svmRegion, limit, written>> /\ step = "ready"
    BY <1>3, <2>1 DEF InitOcl
  <2> QED
    BY <1>0, <2>2
<1>4. CASE UNCHANGED vars
  BY <1>4 DEF vars
<1> QED
  BY <1>1, <1>2, <1>3, <1>4 DEF Next, Placed

(* The placement is as computed in every reachable state.                   *)
LEMMA PlaceInvariant == Spec => []PlaceInv
BY PlaceInit, PlaceStep, PTL DEF Spec

(* Where the region lies: not before the block, at most a page and SVM_SIZE *)
(* after its start, and a region and a page before the next boundary.       *)
LEMMA PlacedRegion ==
    ASSUME PlaceInv, Up
    PROVE  /\ block \in Nat /\ svmRegion \in Nat
           /\ block <= svmRegion /\ svmRegion < block + Page + SvmSize
           /\ Low(svmRegion) + SvmSize + Page <= Word
<1> DEFINE r == RoundUp(block)
<1>1. block \in Nat /\ svmRegion = Away4GB(r)
  BY PlacementAssumption DEF PlaceInv, TypeOK
<1>2. r \in Nat /\ r % Page = 0 /\ block <= r /\ r < block + Page
  BY <1>1, RoundUpBound
<1>3. /\ Away4GB(r) \in Nat /\ r <= Away4GB(r) /\ Away4GB(r) <= r + SvmSize
      /\ Low(Away4GB(r)) + SvmSize + Page <= Word
  BY <1>2, Away4GBFits
<1> QED
  BY <1>1, <1>2, <1>3, Sizes

(* The region initMemoryManager clears and hands out lies inside the block  *)
(* it allocated (frontend.cpp:1815-1834), wherever malloc puts the block.   *)
THEOREM RegionAllocatedCorrect == Spec => []RegionAllocated
<1>1. PlaceInv => RegionAllocated
  <2> SUFFICES ASSUME PlaceInv, Up
               PROVE  block <= svmRegion /\ written <= block + 2 * SvmSize + Page
    BY DEF RegionAllocated
  <2>1. written = svmRegion + SvmSize + 3 /\ block <= svmRegion /\ block \in Nat /\ svmRegion \in Nat
    BY PlacedRegion, Sizes DEF PlaceInv
  <2>2. svmRegion + 3 < block + Page + SvmSize
    <3> DEFINE y == block + Page + SvmSize
    <3>1. block % 4 = 0
      BY PlacementAssumption DEF PlaceInv, TypeOK
    <3>2. Page % 4 = 0 /\ Page \in Nat /\ SvmSize \in Nat
      BY PlacementAssumption
    <3>3. SvmSize % 4 = 0 /\ svmRegion % 4 = 0
      BY <2>1, <3>2, Sizes, PageWords DEF PlaceInv, TypeOK
    <3>4. y % 4 = 0 /\ y \in Nat
      BY <2>1, <3>1, <3>2, <3>3
    <3>5. svmRegion < y
      BY PlacedRegion
    <3> HIDE DEF y
    <3>6. svmRegion + 4 <= y
      BY <2>1, <3>3, <3>4, <3>5
    <3> QED
      BY <2>1, <3>4, <3>6 DEF y
  <2> QED
    BY <2>1, <2>2, Sizes
<1> QED
  BY PlaceInvariant, <1>1, PTL

(* The region never crosses a multiple of 2^32 (the test of                 *)
(* frontend.cpp:1824), so a lower word identifies an address in it.         *)
THEOREM RegionInOneWordCorrect == Spec => []RegionInOneWord
<1>1. PlaceInv => RegionInOneWord
  <2> SUFFICES ASSUME PlaceInv, Up
               PROVE  svmRegion \div Word = (limit - 1) \div Word
    BY DEF RegionInOneWord
  <2>1. limit - 1 = svmRegion + (SvmSize - 1) /\ SvmSize - 1 \in Nat
    BY PlacedRegion, Sizes DEF PlaceInv
  <2>2. Low(svmRegion) + (SvmSize - 1) < Word /\ svmRegion \in Nat
    BY PlacedRegion, LowType, Sizes
  <2> QED
    BY <2>1, <2>2, SameWord
<1> QED
  BY PlaceInvariant, <1>1, PTL

(* Nor does the OpenCL buffer, although it is one page further              *)
(* (hetero.c:192).                                                          *)
THEOREM BufferInOneWordCorrect == Spec => []BufferInOneWord
<1>1. PlaceInv => BufferInOneWord
  <2> SUFFICES ASSUME PlaceInv, step = "mapped"
               PROVE  buffer \div Word = (buffer + SvmSize - 1) \div Word
    BY DEF BufferInOneWord
  <2> DEFINE n == Page + SvmSize - 1
  <2>1. Up /\ buffer = svmRegion + Page
    BY DEF PlaceInv, Up
  <2>2. svmRegion \in Nat /\ Low(svmRegion) + SvmSize + Page <= Word
    BY <2>1, PlacedRegion
  <2>3. Low(svmRegion) \in Nat
    BY <2>2, LowType
  <2>4. /\ Page \in Nat /\ Low(svmRegion) + Page < Word
        /\ n \in Nat /\ Low(svmRegion) + n < Word
    BY <2>2, <2>3, Sizes
  <2>5. /\ svmRegion \div Word = (svmRegion + Page) \div Word
        /\ svmRegion \div Word = (svmRegion + n) \div Word
    BY <2>2, <2>4, SameWord
  <2>6. svmRegion + n = buffer + SvmSize - 1
    BY <2>1, <2>2, Sizes
  <2> QED
    BY <2>1, <2>5, <2>6
<1> QED
  BY PlaceInvariant, <1>1, PTL

(* Addresses stay numbers and the region stays page aligned.                *)
THEOREM PlacementTypeCorrect == Spec => []TypeOK
<1>1. PlaceInv => TypeOK
  BY DEF PlaceInv
<1> QED
  BY PlaceInvariant, <1>1, PTL

-----------------------------------------------------------------------------
(* Pointer translation.                                                     *)

(* Whole words do not count.                                                *)
LEMMA LowShift ==
    ASSUME NEW x \in Int, NEW k \in Int
    PROVE  Low(x + Word * k) = Low(x)
<1>1. Word \in Nat \ {0}
  BY Sizes
<1> DEFINE q == x \div Word
<1>2. q \in Int /\ Low(x) \in 0 .. Word - 1 /\ x = Word * q + Low(x)
  BY <1>1, DivMod DEF Low
<1> HIDE DEF q
<1>3. x + Word * k = Word * (q + k) + Low(x)
  BY <1>1, <1>2, Z3
<1>4. Splits(x + Word * k, Word, q + k, Low(x))
  BY <1>1, <1>2, <1>3 DEF Splits
<1> QED
  BY <1>4, DivUnique DEF Low

(* The lower word of a number, as the number less a multiple of Word.       *)
LEMMA LowWords ==
    ASSUME NEW x \in Int
    PROVE  /\ Low(x) \in 0 .. Word - 1
           /\ \E k \in Int : x = Low(x) + Word * k
<1>1. Word \in Nat \ {0}
  BY Sizes
<1>2. x \div Word \in Int /\ Low(x) \in 0 .. Word - 1 /\ x = Word * (x \div Word) + Low(x)
  BY <1>1, DivMod DEF Low
<1>3. x = Low(x) + Word * (x \div Word)
  <2> DEFINE q == x \div Word
  <2>1. q \in Int /\ Low(x) \in Int /\ x = Word * q + Low(x)
    BY <1>1, <1>2
  <2> HIDE DEF q
  <2>2. Word * q \in Int
    BY <1>1, <2>1
  <2>3. x = Low(x) + Word * q
    BY <2>1, <2>2
  <2> QED
    BY <2>3 DEF q
<1> QED
  BY <1>2, <1>3

(* The arithmetic HeteroGPUTransform generates for a shared pointer         *)
(* (cpuPtrToGPUPtr, gpuPtrToCPUPtr) finds the same offset in the surface,   *)
(* and the way back restores the lower word of the pointer.                 *)
THEOREM TranslationCorrect == Spec => []TranslationExact
<1>1. ASSUME NEW b \in Nat, NEW s \in Nat, NEW p \in Nat,
             b = buffer, s = surface
      PROVE  ToGpu(p) = Low(surface + (p - buffer)) /\ ToCpu(ToGpu(p)) = Low(p)
  <2>1. Word \in Nat \ {0}
    BY Sizes
  <2>2. Low(b) \in Int /\ Low(p) \in Int
    BY <2>1, LowWords
  <2>3. PICK k \in Int : b = Low(b) + Word * k
    BY LowWords
  <2>4. PICK m \in Int : p = Low(p) + Word * m
    BY LowWords
  <2> DEFINE x == s - Low(b) + Low(p)
  <2>5. x \in Int /\ s + (p - b) \in Int /\ m - k \in Int /\ k - m \in Int
    BY <2>2
  <2>6. x = (s + (p - b)) + Word * (k - m)
    <3>1. Word * (k - m) = Word * k - Word * m
      BY <2>1, Z3
    <3>2. Word * k \in Int /\ Word * m \in Int
      BY <2>1
    <3> QED
      BY <2>2, <2>3, <2>4, <3>1, <3>2
  <2>7. ToGpu(p) = Low(s + (p - b))
    BY <1>1, <2>5, <2>6, LowShift DEF ToGpu
  <2>8. ToGpu(p) = Low(x)
    BY <1>1 DEF ToGpu
  <2>9. PICK j \in Int : x = Low(x) + Word * j
    BY <2>5, LowWords
  <2> DEFINE y == Low(b) - s + Low(x)
  <2>10. Low(x) \in Int
    BY <2>1, <2>5, LowWords
  <2>11. y = Low(p) + Word * (-j)
    <3>1. Word * (-j) = -(Word * j) /\ Word * j \in Int
      BY <2>1, Z3
    <3> QED
      BY <2>2, <2>9, <2>10, <3>1
  <2>12. Low(y) = Low(Low(p))
    BY <2>2, <2>11, -j \in Int, LowShift
  <2>13. Low(Low(p)) = Low(p)
    <3>1. Low(p) \in Int /\ Low(Low(p) + Word * m) = Low(Low(p))
      BY <2>2, LowShift
    <3> QED
      BY <2>4, <3>1
  <2>14. ToCpu(ToGpu(p)) = Low(y)
    BY <1>1, <2>8 DEF ToCpu
  <2> QED
    BY <1>1, <2>7, <2>12, <2>13, <2>14
<1>2. PlaceInv => TranslationExact
  <2> SUFFICES ASSUME PlaceInv, step = "mapped", NEW p \in Pointers
               PROVE  ToGpu(p) = Low(surface + (p - buffer)) /\ ToCpu(ToGpu(p)) = Low(p)
    BY DEF TranslationExact
  <2>1. buffer \in Nat /\ surface \in Nat /\ svmRegion \in Nat /\ limit \in Nat
    BY PlacementAssumption DEF PlaceInv, TypeOK
  <2>2. p \in Nat
    BY <2>1 DEF Pointers
  <2> QED
    BY <1>1, <2>1, <2>2
<1> QED
  BY PlaceInvariant, <1>2, PTL

(* A multiple of 4, shifted right by 2 as a signed word and multiplied by   *)
(* 4, is the number again, up to whole words.                               *)
LEMMA ShiftBack ==
    ASSUME NEW x \in Int, x % 4 = 0
    PROVE  AShr2(x) \in Int /\ \E k \in Int : 4 * AShr2(x) = x + Word * k
<1>1. Word \in Nat \ {0} /\ Word % 4 = 0
  BY Sizes, PageWords
<1>2. Low(x) \in 0 .. Word - 1
  BY LowWords
<1>3. PICK k \in Int : x = Low(x) + Word * k
  BY LowWords
<1> DEFINE w == Word \div 4
           i == x \div 4
<1>4. w \in Int /\ Word = 4 * w /\ i \in Int /\ x = 4 * i
  BY <1>1
<1> HIDE DEF w, i
<1>5. w * k \in Int /\ Word * k = 4 * (w * k)
  BY <1>4, Z3
<1>6. \E m \in Int : Signed(x) = x + Word * m
  <2> DEFINE wk == Word * k
             wm == Word * (-k)
             wn == Word * (-k - 1)
             l  == Low(x)
  <2>1. wk \in Int /\ wm = -wk /\ wn = -wk - Word /\ l \in Int /\ Word \in Int /\ x = l + wk
    <3>1. Word \in Int
      BY <1>1
    <3>2. wk \in Int /\ wm = -wk /\ wn = -wk - Word
      BY <3>1, Z3
    <3> QED
      BY <1>2, <1>3, <3>1, <3>2
  <2> HIDE DEF wk, wm, wn, l
  <2>4. l - Word = x + wn /\ l = x + wm
    BY <2>1
  <2>2. CASE 2 * Low(x) >= Word
    <3>1. Signed(x) = Low(x) - Word
      BY <2>2 DEF Signed
    <3>2. Low(x) - Word = x + Word * (-k - 1) /\ -k - 1 \in Int
      BY <2>4 DEF wn, l
    <3> QED
      BY <3>1, <3>2
  <2>3. CASE ~(2 * Low(x) >= Word)
    <3>1. Signed(x) = Low(x)
      BY <2>3 DEF Signed
    <3>2. Low(x) = x + Word * (-k) /\ -k \in Int
      BY <2>4 DEF wm, l
    <3> QED
      BY <3>1, <3>2
  <2> QED
    BY <2>2, <2>3
<1>7. \E n \in Int : Signed(x) = 4 * n
  <2>1. PICK m \in Int : Signed(x) = x + Word * m
    BY <1>6
  <2>2. w * m \in Int /\ Word * m = 4 * (w * m)
    BY <1>4, Z3
  <2>3. Signed(x) = 4 * (i + w * m) /\ i + w * m \in Int
    BY <1>4, <2>1, <2>2
  <2> QED
    BY <2>3
<1>8. AShr2(x) \in Int /\ 4 * AShr2(x) = Signed(x)
  <2>1. PICK n \in Int : Signed(x) = 4 * n
    BY <1>7
  <2>2. (4 * n) \div 4 = n
    BY <2>1
  <2> QED
    BY <2>1, <2>2 DEF AShr2
<1> QED
  BY <1>6, <1>8

(* Where the buffer starts, the lower word is a multiple of 4, and so is    *)
(* its negation.                                                            *)
LEMMA BufferWords ==
    ASSUME PlaceInv, step = "mapped"
    PROVE  Low(buffer) \in Nat /\ (-Low(buffer)) % 4 = 0
<1>1. Page \in Nat \ {0}
  BY Sizes
<1>2. svmRegion \in Nat /\ svmRegion % Page = 0 /\ buffer = svmRegion + Page
  BY DEF PlaceInv, TypeOK
<1> DEFINE i == svmRegion \div Page
<1>3. i \in Int /\ svmRegion = Page * i
  BY <1>1, <1>2, DivMod
<1> HIDE DEF i
<1>4. buffer = Page * (i + 1) + 0 /\ buffer \in Nat
  BY <1>1, <1>2, <1>3, Z3
<1>5. Splits(buffer, Page, i + 1, 0)
  BY <1>1, <1>3, <1>4 DEF Splits
<1>6. Low(buffer) \in Nat /\ Low(buffer) % Page = 0
  BY <1>4, <1>5, DivUnique, LowAligned, Sizes
<1>7. Low(buffer) % 4 = 0
  BY <1>6, PageWords
<1> QED
  BY <1>6, <1>7

(* The two forms of the pointer arithmetic that HeteroGPUTransform emits,   *)
(* byte offsets and word indices made of two separate signed shifts, give   *)
(* the same GPU pointer for every aligned word of the region.               *)
THEOREM FormsCorrect == Spec => []FormsAgree
<1>1. PlaceInv => FormsAgree
  <2> SUFFICES ASSUME PlaceInv, step = "mapped", NEW p \in Pointers, p % 4 = 0
               PROVE  ToGpuByWord(p) = ToGpu(p)
    BY DEF FormsAgree
  <2> DEFINE b == Low(buffer)
             x == surface - b + Low(p)
             y == surface + 4 * AShr2(-b) + 4 * AShr2(p)
  <2>1. Word \in Nat \ {0} /\ b \in Nat /\ (-b) % 4 = 0
    BY Sizes, BufferWords
  <2>2. p \in Int /\ surface \in Int
    BY PlacementAssumption, Sizes DEF PlaceInv, TypeOK, Up, Pointers
  <2>3. AShr2(p) \in Int
    BY <2>2, ShiftBack
  <2>4. AShr2(-b) \in Int /\ \E k \in Int : 4 * AShr2(-b) = -b + Word * k
    <3>1. -b \in Int
      BY <2>1
    <3> HIDE DEF b
    <3> QED
      BY <2>1, <3>1, ShiftBack
  <2> PICK k \in Int : 4 * AShr2(-b) = -b + Word * k
    BY <2>4
  <2>5. PICK m \in Int : 4 * AShr2(p) = p + Word * m
    BY <2>2, ShiftBack
  <2>6. PICK n \in Int : p = Low(p) + Word * n
    BY <2>2, LowWords
  <2>7. Low(p) \in Int
    BY <2>2, LowWords
  <2>8. /\ Word * k \in Int /\ Word * m \in Int /\ Word * n \in Int
        /\ Word * (k + m + n) = Word * k + Word * m + Word * n
    <3>1. Word \in Int
      BY <2>1
    <3> QED
      BY <3>1, Z3
  <2> DEFINE u == AShr2(-b)
             v == AShr2(p)
             l == Low(p)
             wk == Word * k
             wm == Word * m
             wn == Word * n
  <2>9. /\ b \in Int /\ l \in Int /\ p \in Int /\ surface \in Int /\ u \in Int /\ v \in Int
        /\ wk \in Int /\ wm \in Int /\ wn \in Int
        /\ 4 * u = -b + wk /\ 4 * v = p + wm /\ p = l + wn
    BY <2>1, <2>2, <2>3, <2>4, <2>5, <2>6, <2>7, <2>8
  <2> HIDE DEF b, u, v, l, wk, wm, wn
  <2>11. surface + 4 * u + 4 * v = (surface - b + l) + (wk + wm + wn) /\ surface - b + l \in Int
    BY <2>9
  <2>12. x \in Int /\ k + m + n \in Int /\ y = x + Word * (k + m + n)
    BY <2>8, <2>11 DEF u, v, l, wk, wm, wn
  <2> HIDE DEF x, y
  <2>10. Low(y) = Low(x)
    BY <2>12, LowShift
  <2> QED
    BY <2>10 DEF x, y, b, ToGpu, ToGpuByWord
<1> QED
  BY PlaceInvariant, <1>1, PTL

-----------------------------------------------------------------------------
(* Programs: the hierarchy of their classes.                                *)

(* What the assumption says of a program.                                   *)
LEMMA ProgramFacts ==
    ASSUME NEW p \in Programs
    PROVE  /\ Classes \subseteq Nat \ {0} /\ Slots \subseteq Nat
           /\ p.base \in [Classes -> Classes \cup {0}]
           /\ p.defines \in [Classes -> SUBSET Slots]
           /\ p.emitted \subseteq Classes
           /\ p.calls \in Seq([class : Classes, slot : Slots]) /\ p.calls # <<>>
           /\ \A c \in Classes : p.base[c] < c /\ (p.base[c] = 0 => p.defines[c] = Slots)
<1>1. Slots \subseteq Nat
  <2>1. \E n \in Int : Slots = 0 .. n
    BY VirtualAssumption, FS_CardinalityType
  <2> QED
    BY <2>1
<1> QED
  BY <1>1, VirtualAssumption DEF ProgramType, WellFormed

(* The equation that Ancestors is defined by has a solution: the classes    *)
(* that every set closed under bases and containing the class contains.     *)
LEMMA AncestorsAre ==
    ASSUME NEW p \in Programs, NEW c \in Classes
    PROVE  Ancestors(p)[c] = {c} \cup IF p.base[c] = 0 THEN {} ELSE Ancestors(p)[p.base[c]]
<1> DEFINE Closed == {X \in SUBSET Classes : \A d \in X : p.base[d] # 0 => p.base[d] \in X}
           Above  == [d \in Classes |-> {e \in Classes : \A X \in Closed : d \in X => e \in X}]
           Solves(up) == up = [d \in Classes |-> {d} \cup IF p.base[d] = 0 THEN {} ELSE up[p.base[d]]]
<1>1. \A d \in Classes : p.base[d] # 0 => p.base[d] \in Classes
  BY ProgramFacts
<1>2. ASSUME NEW d \in Classes
      PROVE  Above[d] = {d} \cup IF p.base[d] = 0 THEN {} ELSE Above[p.base[d]]
  <2>1. CASE p.base[d] = 0
    <3>1. {d} \in Closed
      BY <2>1
    <3> QED
      BY <2>1, <3>1
  <2>2. CASE p.base[d] # 0
    <3> DEFINE b == p.base[d]
               X == {d} \cup Above[b]
    <3>1. b \in Classes /\ X \subseteq Classes
      BY <1>1, <2>2
    <3>2. ASSUME NEW e \in X, p.base[e] # 0 PROVE p.base[e] \in X
      <4>1. CASE e = d
        BY <3>1, <4>1
      <4>2. CASE e \in Above[b]
        <5>1. \A Y \in Closed : b \in Y => p.base[e] \in Y
          BY <3>1, <3>2, <4>2
        <5> QED
          BY <1>1, <3>1, <3>2, <4>2, <5>1
      <4> QED
        BY <4>1, <4>2
    <3>3. X \in Closed
      BY <3>1, <3>2
    <3>4. Above[d] \subseteq X
      BY <3>3
    <3>5. ASSUME NEW e \in X PROVE e \in Above[d]
      <4>1. \A Y \in Closed : d \in Y => b \in Y
        BY <2>2
      <4> QED
        BY <3>1, <4>1
    <3> QED
      BY <2>2, <3>4, <3>5
  <2> QED
    BY <2>1, <2>2
<1>3. Solves(Above)
  <2> HIDE DEF Closed
  <2>1. Above = [d \in Classes |-> Above[d]]
    OBVIOUS
  <2> QED
    BY <1>2, <2>1
<1>4. Ancestors(p) = CHOOSE up : Solves(up)
  BY DEF Ancestors
<1> HIDE DEF Above
<1>5. Solves(Ancestors(p))
  <2> HIDE DEF Solves
  <2> QED
    BY <1>3, <1>4
<1> QED
  BY <1>5

(* A class is among its ancestors, and they are classes with numbers not    *)
(* higher than its own.                                                     *)
LEMMA AncestorsBelow ==
    ASSUME NEW p \in Programs, NEW c \in Classes
    PROVE  c \in Ancestors(p)[c] /\ Ancestors(p)[c] \subseteq {d \in Classes : d <= c}
<1> DEFINE Anc == Ancestors(p)
           Bad == {d \in Classes : ~(Anc[d] \subseteq {e \in Classes : e <= d})}
<1>1. Classes \subseteq Nat \ {0} /\ p.base \in [Classes -> Classes \cup {0}]
      /\ \A d \in Classes : p.base[d] < d
  BY ProgramFacts
<1>2. \A d \in Classes : Anc[d] = {d} \cup IF p.base[d] = 0 THEN {} ELSE Anc[p.base[d]]
  BY AncestorsAre
<1> HIDE DEF Anc
<1>3. Bad = {}
  <2> SUFFICES ASSUME Bad # {} PROVE FALSE
    OBVIOUS
  <2>1. PICK d \in Bad : \A e \in Bad : d <= e
    <3>1. Bad \in SUBSET Nat
      BY <1>1
    <3> QED
      BY <3>1, LeastNumber
  <2>4. d \in Classes /\ d \in Nat /\ p.base[d] < d /\ p.base[d] \in Nat
    <3>1. d \in Classes /\ p.base[d] \in Classes \cup {0}
      BY <1>1, <2>1
    <3>2. Classes \cup {0} \subseteq Nat
      BY <1>1
    <3> QED
      BY <1>1, <3>1, <3>2
  <2>2. p.base[d] # 0 => p.base[d] \in Classes /\ p.base[d] \notin Bad
    <3> HIDE DEF Bad
    <3> QED
      BY <1>1, <2>1, <2>4
  <2>3. p.base[d] # 0 => Anc[p.base[d]] \subseteq {e \in Classes : e <= p.base[d]}
    BY <2>2
  <2>5. ASSUME NEW e \in Anc[d] PROVE e \in Classes /\ e <= d
    <3>1. CASE e = d
      BY <2>4, <3>1
    <3>2. CASE e # d
      <4>1. p.base[d] # 0 /\ e \in Anc[p.base[d]]
        BY <1>2, <2>4, <2>5, <3>2
      <4>2. e \in Classes /\ e <= p.base[d] /\ e \in Nat
        BY <1>1, <2>3, <4>1
      <4> QED
        BY <2>4, <4>2
    <3> QED
      BY <3>1, <3>2
  <2> QED
    BY <2>1, <2>5
<1> QED
  BY <1>1, <1>2, <1>3 DEF Anc

(* The ancestors of an ancestor are ancestors.                              *)
LEMMA AncestorsTransitive ==
    ASSUME NEW p \in Programs, NEW c \in Classes, NEW d \in Ancestors(p)[c]
    PROVE  Ancestors(p)[d] \subseteq Ancestors(p)[c]
<1> DEFINE Anc == Ancestors(p)
           Bad == {e \in Classes : \E x \in Anc[e] : ~(Anc[x] \subseteq Anc[e])}
<1>1. Classes \subseteq Nat \ {0} /\ p.base \in [Classes -> Classes \cup {0}]
      /\ \A e \in Classes : p.base[e] < e
  BY ProgramFacts
<1>2. \A e \in Classes : Anc[e] = {e} \cup IF p.base[e] = 0 THEN {} ELSE Anc[p.base[e]]
  BY AncestorsAre
<1> HIDE DEF Anc
<1>3. Bad = {}
  <2> SUFFICES ASSUME Bad # {} PROVE FALSE
    OBVIOUS
  <2>1. PICK e \in Bad : \A x \in Bad : e <= x
    <3>1. Bad \in SUBSET Nat
      BY <1>1
    <3> QED
      BY <3>1, LeastNumber
  <2>2. PICK x \in Anc[e] : ~(Anc[x] \subseteq Anc[e])
    BY <2>1
  <2>3. x \in Anc[p.base[e]] /\ p.base[e] \in Classes /\ Anc[p.base[e]] \subseteq Anc[e]
    BY <1>1, <1>2, <2>1, <2>2
  <2>4. p.base[e] \notin Bad
    <3>1. e \in Nat /\ p.base[e] \in Nat /\ p.base[e] < e
      BY <1>1, <2>1, <2>3
    <3> HIDE DEF Bad
    <3> QED
      BY <2>1, <3>1
  <2> QED
    BY <2>2, <2>3, <2>4
<1> QED
  BY <1>3 DEF Anc

(* From an ancestor a chain of derived classes leads down to the class.     *)
LEMMA AncestorsChild ==
    ASSUME NEW p \in Programs, NEW c \in Classes, NEW d \in Ancestors(p)[c], d # c
    PROVE  \E e \in Classes : p.base[e] = d /\ e \in Ancestors(p)[c]
<1> DEFINE Anc == Ancestors(p)
           Bad == {x \in Classes : d \in Anc[x] /\ d # x
                                   /\ ~ \E e \in Classes : p.base[e] = d /\ e \in Anc[x]}
<1>1. Classes \subseteq Nat \ {0} /\ p.base \in [Classes -> Classes \cup {0}]
      /\ \A e \in Classes : p.base[e] < e
  BY ProgramFacts
<1>2. \A e \in Classes : Anc[e] = {e} \cup IF p.base[e] = 0 THEN {} ELSE Anc[p.base[e]]
  BY AncestorsAre
<1> HIDE DEF Anc
<1>3. Bad = {}
  <2> SUFFICES ASSUME Bad # {} PROVE FALSE
    OBVIOUS
  <2>1. PICK x \in Bad : \A e \in Bad : x <= e
    <3>1. Bad \in SUBSET Nat
      BY <1>1
    <3> QED
      BY <3>1, LeastNumber
  <2>2. d \in Anc[p.base[x]] /\ p.base[x] \in Classes /\ Anc[p.base[x]] \subseteq Anc[x] /\ x \in Anc[x]
    BY <1>1, <1>2, <2>1
  <2>3. p.base[x] # d
    BY <2>1, <2>2
  <2>4. p.base[x] \notin Bad
    <3>1. x \in Nat /\ p.base[x] \in Nat /\ p.base[x] < x
      BY <1>1, <2>1, <2>2
    <3> HIDE DEF Bad
    <3> QED
      BY <2>1, <3>1
  <2> QED
    BY <2>1, <2>2, <2>3, <2>4
<1> QED
  BY <1>3 DEF Anc

(* The function in a slot of a vtable is one that a class of the program    *)
(* defines.                                                                 *)
LEMMA OverrideIs ==
    ASSUME prog \in Programs, NEW c \in Classes, NEW s \in Slots
    PROVE  Override(c, s) \in Classes \X Slots
<1> DEFINE Anc    == Ancestors(prog)
           owners == {d \in Anc[c] : s \in prog.defines[d]}
           below  == {c - d : d \in owners}
<1>1. /\ Classes \subseteq Nat \ {0} /\ prog.base \in [Classes -> Classes \cup {0}]
      /\ \A d \in Classes : prog.base[d] < d /\ (prog.base[d] = 0 => prog.defines[d] = Slots)
  BY ProgramFacts
<1>2. c \in Anc[c] /\ Anc[c] \subseteq {d \in Classes : d <= c}
  BY AncestorsBelow
<1>3. owners # {}
  <2>1. PICK r \in Anc[c] : \A d \in Anc[c] : r <= d
    <3>1. Anc[c] \in SUBSET Nat /\ Anc[c] # {}
      BY <1>1, <1>2
    <3> QED
      BY <3>1, LeastNumber
  <2>2. r \in Classes
    BY <1>2
  <2>3. CASE prog.base[r] # 0
    <3>1. prog.base[r] \in Classes
      BY <1>1, <2>2, <2>3
    <3>2. prog.base[r] \in Anc[r]
      BY <2>2, <2>3, <3>1, AncestorsAre, AncestorsBelow
    <3>3. prog.base[r] \in Anc[c]
      BY <2>1, <3>2, AncestorsTransitive
    <3>4. r \in Nat /\ prog.base[r] \in Nat /\ prog.base[r] < r
      BY <1>1, <2>2, <3>1
    <3> QED
      BY <2>1, <3>3, <3>4
  <2> QED
    BY <1>1, <2>2, <2>3
<1>4. \E d \in owners : \A e \in owners : e <= d
  <2>1. c \in Nat /\ \A d \in owners : d \in Nat /\ d <= c
    BY <1>1, <1>2
  <2> HIDE DEF owners
  <2>2. below \in SUBSET Nat /\ below # {}
    BY <1>3, <2>1
  <2>3. PICK n \in below : \A m \in below : n <= m
    BY <2>2, LeastNumber
  <2>4. PICK d \in owners : n = c - d
    BY <2>3
  <2>5. ASSUME NEW e \in owners PROVE e <= d
    <3>1. c - d <= c - e
      BY <2>3, <2>4
    <3> QED
      BY <2>1, <3>1
  <2> QED
    BY <2>5
<1> DEFINE last == CHOOSE d \in owners : \A e \in owners : e <= d
<1>5. last \in owners
  BY <1>4
<1>6. owners \subseteq Classes
  BY <1>2
<1>7. Override(c, s) = <<last, s>>
  BY DEF Override
<1> HIDE DEF owners, last
<1>8. last \in Classes
  BY <1>5, <1>6
<1> QED
  BY <1>7, <1>8

-----------------------------------------------------------------------------
(* The search for targets (get_possible_targets).                           *)

(* The search may come to these classes from a static class b: what lies    *)
(* between has its vtable.                                                  *)
Reached(b) == {c \in Classes : /\ b \in Ancestors(prog)[c]
                               /\ \A d \in Ancestors(prog)[c] :
                                      b \in Ancestors(prog)[d] /\ d # c => d \in prog.emitted}

CompileType ==
    /\ prog \in Programs
    /\ stage \in {"compile", "loaded", "main", "fill", "kernel", "done", "dead"}
    /\ worklist \subseteq Classes
    /\ targets \in Seq(Classes \X Slots) /\ chains \in Seq(Seq(Classes \X Slots))
    /\ IF stage = "compile" THEN Len(chains) < Len(prog.calls) ELSE Len(chains) = Len(prog.calls)

(* What was found belongs to the call, and what was not found yet is below  *)
(* a class of the work list.                                                *)
Searched ==
    stage = "compile" => LET b == ThisCall.class
                             s == ThisCall.slot IN
        /\ worklist \subseteq Reached(b)
        /\ ToSet(targets) \subseteq {Override(c, s) : c \in Visible(b)}
        /\ \A c \in Visible(b) : \/ Override(c, s) \in ToSet(targets)
                                 \/ \E d \in worklist : d \in Ancestors(prog)[c]

SearchInv == CompileType /\ Searched /\ TargetsExact

(* Visible are the classes that the search comes to and that have a vtable. *)
LEMMA VisibleReached ==
    ASSUME prog \in Programs, NEW b \in Classes
    PROVE  Visible(b) = Reached(b) \cap prog.emitted
BY ProgramFacts, AncestorsBelow DEF Visible, Reached

(* The search begins at the static class.                                   *)
LEMMA ReachedFirst ==
    ASSUME prog \in Programs, NEW b \in Classes
    PROVE  b \in Reached(b)
<1>1. b \in Ancestors(prog)[b]
  BY AncestorsBelow
<1>2. ASSUME NEW d \in Ancestors(prog)[b], b \in Ancestors(prog)[d] PROVE d = b
  <2>1. d \in Classes /\ d <= b
    BY AncestorsBelow
  <2>2. b <= d
    BY <1>2, <2>1, AncestorsBelow
  <2>3. b \in Nat /\ d \in Nat
    BY <2>1, ProgramFacts
  <2> QED
    BY <2>1, <2>2, <2>3
<1> QED
  BY <1>1, <1>2 DEF Reached

(* It goes on with the classes derived from one that has a vtable.          *)
LEMMA ReachedNext ==
    ASSUME prog \in Programs, NEW b \in Classes, NEW d \in Reached(b), d \in prog.emitted
    PROVE  Derived(d) \subseteq Reached(b)
<1> SUFFICES ASSUME NEW e \in Derived(d) PROVE e \in Reached(b)
  OBVIOUS
<1> DEFINE Anc == Ancestors(prog)
<1>1. e \in Classes /\ prog.base[e] = d /\ d \in Classes /\ d # 0 /\ b \in Anc[d]
  BY ProgramFacts DEF Derived, Reached
<1>2. Anc[e] = {e} \cup Anc[d]
  BY <1>1, AncestorsAre
<1>3. \A x \in Anc[d] : b \in Anc[x] /\ x # d => x \in prog.emitted
  BY DEF Reached
<1> QED
  BY <1>1, <1>2, <1>3 DEF Reached

(* One that has been explored leaves nothing behind but itself.             *)
LEMMA ExploredBelow ==
    ASSUME prog \in Programs, NEW b \in Classes, NEW c \in Visible(b),
           NEW d \in Reached(b), d \in Ancestors(prog)[c]
    PROVE  /\ d \in prog.emitted
           /\ c = d \/ \E e \in Derived(d) : e \in Ancestors(prog)[c]
<1>1. d \in Classes /\ b \in Ancestors(prog)[d] /\ c \in Classes
  BY ProgramFacts DEF Reached, Visible
<1>2. d \in prog.emitted
  BY <1>1 DEF Visible
<1>3. c = d \/ \E e \in Classes : prog.base[e] = d /\ e \in Ancestors(prog)[c]
  BY <1>1, AncestorsChild
<1> QED
  BY <1>2, <1>3 DEF Derived

(* The call whose targets are searched for.                                 *)
LEMMA CallIs ==
    ASSUME prog \in Programs, NEW n \in 1 .. Len(prog.calls)
    PROVE  prog.calls[n].class \in Classes /\ prog.calls[n].slot \in Slots
<1> DEFINE Call == [class : Classes, slot : Slots]
<1>1. prog.calls \in Seq(Call)
  BY ProgramFacts
<1>2. prog.calls[n] \in Call
  <2> HIDE DEF Call
  <2> QED
    BY <1>1
<1> QED
  BY <1>2

(* Elements of a sequence.                                                  *)
LEMMA Elements ==
    ASSUME NEW S, NEW q \in Seq(S)
    PROVE  /\ ToSet(q) \subseteq S
           /\ \A x : Contains(q, x) <=> x \in ToSet(q)
           /\ \A x \in S : Append(q, x) \in Seq(S) /\ ToSet(Append(q, x)) = ToSet(q) \cup {x}
           /\ Reverse(q) \in Seq(S) /\ ToSet(Reverse(q)) = ToSet(q)
           /\ ToSet(q) = {} <=> q = <<>>
<1>1. ToSet(q) = {q[i] : i \in 1 .. Len(q)} /\ Len(q) \in Nat
  BY DEF ToSet
<1>2. \A x : Contains(q, x) <=> x \in ToSet(q)
  BY <1>1 DEF Contains
<1>3. ASSUME NEW x \in S
      PROVE  Append(q, x) \in Seq(S) /\ ToSet(Append(q, x)) = ToSet(q) \cup {x}
  <2> DEFINE a == Append(q, x)
  <2>1. /\ a \in Seq(S) /\ Len(a) = Len(q) + 1 /\ a[Len(q) + 1] = x
        /\ \A i \in 1 .. Len(q) : a[i] = q[i]
    OBVIOUS
  <2>2. ToSet(a) = {a[i] : i \in 1 .. Len(q) + 1}
    BY <2>1 DEF ToSet
  <2> HIDE DEF a
  <2> QED
    BY <1>1, <2>1, <2>2 DEF a
<1>4. Reverse(q) \in Seq(S) /\ ToSet(Reverse(q)) = ToSet(q)
  <2> DEFINE n == Len(q)
             v == Reverse(q)
  <2>1. v = [i \in 1 .. n |-> q[(n - i) + 1]]
    BY DEF Reverse
  <2>2. n \in Nat /\ \A i \in 1 .. n : (n - i) + 1 \in 1 .. n
    OBVIOUS
  <2>3. DOMAIN v = 1 .. n /\ \A i \in 1 .. n : v[i] = q[(n - i) + 1] /\ v[i] \in S
    BY <2>1, <2>2
  <2>4. v \in Seq(S)
    BY <2>1, <2>2, <2>3
  <2>5. ToSet(v) = {v[i] : i \in 1 .. n}
    BY <2>3 DEF ToSet
  <2>6. \A i \in 1 .. n : q[i] = v[(n - i) + 1]
    BY <2>2, <2>3
  <2> HIDE DEF n, v
  <2>7. ToSet(v) \subseteq ToSet(q)
    BY <1>1, <2>2, <2>3, <2>5 DEF n
  <2>8. ToSet(q) \subseteq ToSet(v)
    BY <1>1, <2>2, <2>5, <2>6 DEF n
  <2> QED
    BY <2>4, <2>7, <2>8 DEF v
<1>5. ToSet(q) = {} <=> q = <<>>
  <2>1. q = <<>> <=> Len(q) = 0
    OBVIOUS
  <2> QED
    BY <1>1, <2>1
<1> QED
  BY <1>1, <1>2, <1>3, <1>4, <1>5

(* A kernel has a call.                                                     *)
LEMMA CallsAre ==
    ASSUME NEW p \in Programs
    PROVE  Len(p.calls) \in Nat /\ Len(p.calls) > 0 /\ DOMAIN p.calls = 1 .. Len(p.calls)
<1> DEFINE Call == [class : Classes, slot : Slots]
<1>1. p.calls \in Seq(Call) /\ p.calls # <<>>
  BY ProgramFacts
<1> HIDE DEF Call
<1> QED
  BY <1>1

(* Before any call has been looked at.                                      *)
LEMMA SearchInit == VirtualInit => SearchInv
<1> SUFFICES ASSUME VirtualInit PROVE SearchInv
  OBVIOUS
<1>1. prog \in Programs /\ stage = "compile" /\ worklist = {prog.calls[1].class}
      /\ targets = <<>> /\ chains = <<>>
  BY DEF VirtualInit
<1>2. Len(prog.calls) \in Nat /\ Len(prog.calls) > 0
  BY <1>1, CallsAre
<1>3. prog.calls[1].class \in Classes
  BY <1>1, <1>2, CallIs
<1>4. CompileType
  BY <1>1, <1>2, <1>3 DEF CompileType
<1>5. Searched
  <2>1. ThisCall = prog.calls[1]
    BY <1>1 DEF ThisCall
  <2>2. ToSet(targets) = {}
    BY <1>1 DEF ToSet
  <2>3. \A c \in Visible(ThisCall.class) : ThisCall.class \in Ancestors(prog)[c]
    BY DEF Visible
  <2> QED
    BY <1>1, <1>3, <2>1, <2>2, <2>3, ReachedFirst DEF Searched
<1>6. TargetsExact
  BY <1>1 DEF TargetsExact
<1> QED
  BY <1>4, <1>5, <1>6 DEF SearchInv

(* What is said of the program does not change with other variables.        *)
LEMMA SameProgram ==
    ASSUME prog' = prog
    PROVE  /\ \A c, s : Override(c, s)' = Override(c, s)
           /\ \A b : Visible(b)' = Visible(b) /\ Reached(b)' = Reached(b)
BY DEF Override, Visible, Reached

(* One turn of the loop.                                                    *)
LEMMA ExploreStep ==
    ASSUME SearchInv, NEW c \in Classes, Explore(c)
    PROVE  SearchInv'
<1> DEFINE b == ThisCall.class
           s == ThisCall.slot
           f == Override(c, s)
           Anc == Ancestors(prog)
<1>1. /\ stage = "compile" /\ c \in worklist /\ prog \in Programs
      /\ prog' = prog /\ stage' = stage /\ chains' = chains
  BY DEF SearchInv, CompileType, Explore, virtual
<1>2. Len(chains) + 1 \in 1 .. Len(prog.calls)
  BY <1>1 DEF SearchInv, CompileType
<1>3. b \in Classes /\ s \in Slots
  BY <1>1, <1>2, CallIs DEF ThisCall
<1>4. f \in Classes \X Slots
  BY <1>1, <1>3, OverrideIs
<1>5. ThisCall' = ThisCall
  BY <1>1 DEF ThisCall
<1>6. /\ worklist \subseteq Reached(b)
      /\ ToSet(targets) \subseteq {Override(d, s) : d \in Visible(b)}
      /\ \A e \in Visible(b) : \/ Override(e, s) \in ToSet(targets)
                               \/ \E d \in worklist : d \in Anc[e]
  BY <1>1 DEF SearchInv, Searched
<1>7. targets \in Seq(Classes \X Slots) /\ worklist \subseteq Classes
  BY DEF SearchInv, CompileType
<1>8. TargetsExact'
  BY <1>1, SameProgram DEF SearchInv, TargetsExact
<1>9. SUFFICES /\ targets' \in Seq(Classes \X Slots) /\ worklist' \subseteq Reached(b)
               /\ ToSet(targets') \subseteq {Override(d, s) : d \in Visible(b)}
               /\ \A e \in Visible(b) : \/ Override(e, s) \in ToSet(targets')
                                        \/ \E d \in worklist' : d \in Anc[e]
  <2>1. Reached(b) \subseteq Classes
    BY DEF Reached
  <2>2. CompileType'
    BY <1>1, <1>9, <2>1 DEF SearchInv, CompileType
  <2>3. Searched'
    BY <1>1, <1>5, <1>9, SameProgram DEF Searched
  <2> QED
    BY <1>8, <2>2, <2>3 DEF SearchInv
<1>10. CASE c \in prog.emitted
  <2>1. /\ targets' = (IF Contains(targets, f) THEN targets ELSE Append(targets, f))
        /\ worklist' = (worklist \ {c}) \cup Derived(c)
    BY <1>10 DEF Explore
  <2>2. targets' \in Seq(Classes \X Slots) /\ ToSet(targets') = ToSet(targets) \cup {f}
    <3> DEFINE T == Classes \X Slots
    <3>1. f \in T /\ targets \in Seq(T)
      BY <1>4, <1>7
    <3> HIDE DEF T, f
    <3>2. /\ Contains(targets, f) <=> f \in ToSet(targets)
          /\ Append(targets, f) \in Seq(T) /\ ToSet(Append(targets, f)) = ToSet(targets) \cup {f}
      BY <3>1, Elements
    <3>3. CASE Contains(targets, f)
      <4>1. targets' = targets /\ f \in ToSet(targets)
        BY <2>1, <3>2, <3>3
      <4> QED
        BY <3>1, <4>1 DEF T
    <3>4. CASE ~Contains(targets, f)
      <4>1. targets' = Append(targets, f)
        BY <2>1, <3>4
      <4> QED
        BY <3>2, <4>1 DEF T
    <3> QED
      BY <3>3, <3>4
  <2>3. worklist' \subseteq Reached(b)
    BY <1>1, <1>3, <1>6, <1>10, <2>1, ReachedNext
  <2>4. c \in Visible(b)
    BY <1>1, <1>3, <1>6, <1>10, VisibleReached
  <2>5. ASSUME NEW e \in Visible(b), Override(e, s) \notin ToSet(targets')
        PROVE  \E d \in worklist' : d \in Anc[e]
    <3>1. PICK d \in worklist : d \in Anc[e]
      BY <1>6, <2>2, <2>5
    <3>2. CASE d = c
      <4>1. e # c
        BY <2>2, <2>5
      <4>2. \E x \in Derived(c) : x \in Anc[e]
        BY <1>1, <1>3, <1>6, <3>1, <3>2, <4>1, ExploredBelow
      <4> QED
        BY <2>1, <4>2
    <3> QED
      BY <2>1, <3>1, <3>2
  <2> QED
    BY <1>6, <2>2, <2>3, <2>4, <2>5
<1>11. CASE c \notin prog.emitted
  <2>1. targets' = targets /\ worklist' = worklist \ {c}
    BY <1>11 DEF Explore
  <2>2. ASSUME NEW e \in Visible(b), NEW d \in worklist, d \in Anc[e] PROVE d # c
    BY <1>1, <1>3, <1>6, <1>11, <2>2, ExploredBelow
  <2> QED
    BY <1>6, <1>7, <2>1, <2>2
<1> QED
  BY <1>10, <1>11

(* The end of the search, and the beginning of the next.                    *)
LEMMA RewriteStep ==
    ASSUME SearchInv, ModifyBasicBlock
    PROVE  SearchInv'
<1> DEFINE b == ThisCall.class
           s == ThisCall.slot
           k == Len(chains) + 1
<1>1. /\ stage = "compile" /\ worklist = {} /\ prog \in Programs /\ prog' = prog
      /\ targets \in Seq(Classes \X Slots) /\ chains \in Seq(Seq(Classes \X Slots))
      /\ Len(chains) < Len(prog.calls)
      /\ chains' = Append(chains, Reverse(targets)) /\ targets' = <<>>
  BY DEF SearchInv, CompileType, ModifyBasicBlock
<1>2. Len(prog.calls) \in Nat
  BY <1>1, CallsAre
<1>3. Reverse(targets) \in Seq(Classes \X Slots) /\ ToSet(Reverse(targets)) = ToSet(targets)
  BY <1>1, Elements
<1>4. /\ chains' \in Seq(Seq(Classes \X Slots)) /\ Len(chains') = k
      /\ DOMAIN chains = 1 .. k - 1 /\ DOMAIN chains' = 1 .. k /\ k \in 1 .. Len(prog.calls)
      /\ chains'[k] = Reverse(targets) /\ \A n \in 1 .. k - 1 : chains'[n] = chains[n]
  BY <1>1, <1>2, <1>3
<1>5. ToSet(targets) = {Override(c, s) : c \in Visible(b)}
  BY <1>1 DEF SearchInv, Searched
<1>6. TargetsExact'
  <2> DEFINE Exact(n) == ToSet(chains'[n]) = {Override(c, prog.calls[n].slot) :
                                                 c \in Visible(prog.calls[n].class)}
  <2> SUFFICES ASSUME NEW n \in 1 .. k PROVE Exact(n)
    <3>1. ASSUME NEW n \in DOMAIN chains'
          PROVE  (ToSet(chains[n]) = {Override(c, prog.calls[n].slot) : c \in Visible(prog.calls[n].class)})'
      <4>1. Exact(n)
        BY <1>4
      <4> QED
        BY <1>1, <4>1 DEF Override, Visible
    <3> QED
      BY <3>1 DEF TargetsExact
  <2>1. CASE n = k
    BY <1>3, <1>4, <1>5, <2>1 DEF ThisCall
  <2>2. CASE n # k
    <3>1. n \in DOMAIN chains /\ chains'[n] = chains[n]
      BY <1>4, <2>2
    <3> QED
      BY <3>1 DEF SearchInv, TargetsExact
  <2> QED
    BY <2>1, <2>2
<1>7. CASE k = Len(prog.calls)
  <2>1. stage' = "loaded" /\ worklist' = worklist
    BY <1>4, <1>7 DEF ModifyBasicBlock
  <2>2. CompileType'
    BY <1>1, <1>4, <1>7, <2>1 DEF CompileType
  <2> QED
    BY <1>6, <2>1, <2>2 DEF SearchInv, Searched
<1>8. CASE k # Len(prog.calls)
  <2>1. k + 1 \in 1 .. Len(prog.calls)
    BY <1>1, <1>2, <1>4, <1>8
  <2>2. stage' = stage /\ worklist' = {prog.calls[k + 1].class}
    BY <1>4, <1>8 DEF ModifyBasicBlock
  <2>3. prog.calls[k + 1].class \in Classes
    BY <1>1, <2>1, CallIs
  <2>4. CompileType'
    BY <1>1, <1>2, <1>4, <2>1, <2>2, <2>3 DEF CompileType
  <2>5. ThisCall' = prog.calls[k + 1]
    BY <1>1, <1>4 DEF ThisCall
  <2>6. ToSet(targets') = {}
    BY <1>1 DEF ToSet
  <2>7. \A c \in Visible(prog.calls[k + 1].class) : prog.calls[k + 1].class \in Ancestors(prog)[c]
    BY DEF Visible
  <2>8. Searched'
    BY <1>1, <2>2, <2>3, <2>5, <2>6, <2>7, ReachedFirst, SameProgram DEF Searched
  <2> QED
    BY <1>6, <2>4, <2>8 DEF SearchInv
<1> QED
  BY <1>7, <1>8

(* The program does not compile itself.                                     *)
Running ==
    \/ \E c \in Classes : Construct(c)
    \/ Startup \/ PromoteVtables
    \/ \E d \in {"cpu", "gpu"} : Offload(d)
    \/ StoreEntry \/ Launch \/ MallocFails
    \/ VirtualCall \/ Fault \/ KernelEnds
    \/ Ended

(* Nothing that happens later changes what the pass has found.              *)
LEMMA RunKeeps ==
    ASSUME SearchInv, Running \/ UNCHANGED <<vars, virtual>>
    PROVE  SearchInv'
<1>1. /\ prog' = prog /\ worklist' = worklist /\ targets' = targets /\ chains' = chains
      /\ stage' # stage => stage # "compile" /\ stage' \in {"main", "fill", "kernel", "done", "dead"}
  BY DEF Running, Construct, Startup, PromoteVtables, Offload, StoreEntry, Launch, MallocFails,
         VirtualCall, Fault, KernelEnds, Ended, virtual, compiling
<1>2. CompileType'
  BY <1>1 DEF SearchInv, CompileType
<1>3. Searched'
  <2>1. ThisCall' = ThisCall
    BY <1>1 DEF ThisCall
  <2>2. stage' = "compile" => stage = "compile"
    BY <1>1
  <2> QED
    BY <1>1, <2>1, <2>2, SameProgram DEF SearchInv, Searched
<1>4. TargetsExact'
  BY <1>1, SameProgram DEF SearchInv, TargetsExact
<1> QED
  BY <1>2, <1>3, <1>4 DEF SearchInv

(* The three kinds of steps.                                                *)
LEMMA SearchStep == SearchInv /\ [VirtualNext]_<<vars, virtual>> => SearchInv'
BY ExploreStep, RewriteStep, RunKeeps DEF VirtualNext, Running

(* get_possible_targets (HeteroVirtual.cpp) finds the overrides of exactly  *)
(* the classes that derive from the static class through emitted ones, for  *)
(* every hierarchy of classes and in whatever order they are looked at.     *)
THEOREM TargetsCorrect == VirtualSpec => []TargetsExact
<1>1. SearchInv => TargetsExact
  BY DEF SearchInv
<1> QED
  BY SearchInit, SearchStep, <1>1, PTL DEF VirtualSpec

-----------------------------------------------------------------------------
(* The placement of the region, which the program runs on.                  *)

(* Every step of the program is one of the placement or leaves it alone.    *)
LEMMA PlacementStep ==
    /\ VirtualInit => Init
    /\ [VirtualNext]_<<vars, virtual>> => [Next]_vars
<1>1. VirtualInit => Init
  BY DEF VirtualInit
<1>2. Startup => Next
  BY DEF Startup, Next
<1>3. ASSUME VirtualNext, ~Startup PROVE UNCHANGED vars
  BY <1>3 DEF VirtualNext, Explore, Construct, ModifyBasicBlock, PromoteVtables, Offload, StoreEntry,
              Launch, MallocFails, VirtualCall, Fault, KernelEnds, Ended
<1>4. UNCHANGED <<vars, virtual>> => UNCHANGED vars
  OBVIOUS
<1> QED
  BY <1>1, <1>2, <1>3, <1>4

(* A program with virtual calls uses the region as SvmPlacement lays it out:*)
(* what holds of the placement holds of it.                                 *)
THEOREM PlacementImplemented == VirtualSpec => Spec
BY PlacementStep, PTL DEF VirtualSpec, Spec

-----------------------------------------------------------------------------
(* The entries of the context.                                              *)

(* The elements of two sequences, one after the other.                      *)
LEMMA Joined ==
    ASSUME NEW T, NEW a \in Seq(T), NEW b \in Seq(T)
    PROVE  a \o b \in Seq(T) /\ ToSet(a \o b) = ToSet(a) \cup ToSet(b)
<1> DEFINE c == a \o b
           m == Len(a)
           n == Len(b)
<1>1. /\ m \in Nat /\ n \in Nat /\ c \in Seq(T) /\ Len(c) = m + n
      /\ \A i \in 1 .. m + n : c[i] = IF i <= m THEN a[i] ELSE b[i - m]
  OBVIOUS
<1>2. /\ ToSet(a) = {a[i] : i \in 1 .. m} /\ ToSet(b) = {b[i] : i \in 1 .. n}
      /\ ToSet(c) = {c[i] : i \in 1 .. m + n}
  BY <1>1 DEF ToSet
<1> HIDE DEF c, m, n
<1>3. ASSUME NEW i \in 1 .. m + n PROVE c[i] \in ToSet(a) \cup ToSet(b)
  <2>1. CASE i <= m
    BY <1>1, <1>2, <2>1
  <2>2. CASE i > m
    <3>1. i - m \in 1 .. n /\ c[i] = b[i - m]
      BY <1>1, <2>2
    <3> QED
      BY <1>2, <3>1
  <2> QED
    BY <1>1, <2>1, <2>2
<1>4. ASSUME NEW i \in 1 .. m PROVE a[i] \in ToSet(c)
  <2>1. i \in 1 .. m + n /\ c[i] = a[i]
    BY <1>1
  <2> QED
    BY <1>2, <2>1
<1>5. ASSUME NEW i \in 1 .. n PROVE b[i] \in ToSet(c)
  <2>1. m + i \in 1 .. m + n /\ c[m + i] = b[i]
    BY <1>1
  <2> QED
    BY <1>2, <2>1
<1>6. ToSet(c) = ToSet(a) \cup ToSet(b)
  BY <1>2, <1>3, <1>4, <1>5
<1> QED
  BY <1>1, <1>6 DEF c

(* FlattenSeq: the recursive function it is defined by exists, and joins    *)
(* all the sequences.                                                       *)
LEMMA Flattened ==
    ASSUME NEW T, NEW n \in Nat, NEW ss \in [1 .. n -> Seq(T)]
    PROVE  /\ FlattenSeq(ss) \in Seq(T)
           /\ \A i \in 1 .. n : ToSet(ss[i]) \subseteq ToSet(FlattenSeq(ss))
<1> DEFINE Joins(f, m) == f = [i \in 1 .. m |-> IF i = 1 THEN ss[i] ELSE f[i - 1] \o ss[i]]
           NotYet == {m \in Nat : ~ \E f : Joins(f, m)}
           flat == CHOOSE f : Joins(f, n)
<1>1. NotYet = {}
  <2> SUFFICES ASSUME NotYet # {} PROVE FALSE
    OBVIOUS
  <2>1. PICK m \in NotYet : \A k \in NotYet : m <= k
    <3>1. NotYet \in SUBSET Nat
      OBVIOUS
    <3> HIDE DEF NotYet
    <3> QED
      BY <3>1, LeastNumber
  <2>2. m # 0
    <3> DEFINE none == [i \in 1 .. 0 |-> 0]
    <3>1. Joins(none, 0)
      OBVIOUS
    <3> HIDE DEF Joins
    <3> QED
      BY <2>1, <3>1
  <2>3. m \in Nat /\ m - 1 \in Nat /\ m - 1 \notin NotYet
    <3>1. m \in Nat
      BY <2>1
    <3> HIDE DEF NotYet
    <3> QED
      BY <2>1, <2>2, <3>1
  <2>4. PICK f : Joins(f, m - 1)
    BY <2>3
  <2> DEFINE g == [i \in 1 .. m |-> IF i < m THEN f[i] ELSE IF i = 1 THEN ss[i] ELSE f[i - 1] \o ss[i]]
  <2>5. ASSUME NEW i \in 1 .. m PROVE g[i] = IF i = 1 THEN ss[i] ELSE g[i - 1] \o ss[i]
    <3>1. \A j \in 1 .. m - 1 : g[j] = f[j]
      BY <2>3
    <3>2. CASE i < m
      <4>1. i \in 1 .. m - 1 /\ (i # 1 => i - 1 \in 1 .. m - 1)
        BY <2>3, <3>2
      <4>2. f[i] = IF i = 1 THEN ss[i] ELSE f[i - 1] \o ss[i]
        BY <2>4, <4>1
      <4> HIDE DEF g
      <4> QED
        BY <3>1, <4>1, <4>2
    <3>3. CASE i = m
      <4>1. g[i] = IF i = 1 THEN ss[i] ELSE f[i - 1] \o ss[i]
        BY <3>3
      <4>2. i # 1 => g[i - 1] = f[i - 1]
        BY <2>3, <3>1, <3>3
      <4> HIDE DEF g
      <4> QED
        BY <4>1, <4>2
    <3> QED
      BY <2>3, <3>2, <3>3
  <2>6. Joins(g, m)
    <3>1. g = [i \in 1 .. m |-> g[i]]
      OBVIOUS
    <3> HIDE DEF g
    <3> QED
      BY <2>5, <3>1
  <2> HIDE DEF Joins
  <2> QED
    BY <2>1, <2>6
<1>2. Joins(flat, n)
  <2>1. \E f : Joins(f, n)
    BY <1>1
  <2> HIDE DEF Joins
  <2> QED
    BY <2>1
<1>3. Len(ss) = n /\ ss \in Seq(Seq(T))
  OBVIOUS
<1>4. CASE n = 0
  <2>1. FlattenSeq(ss) = ss /\ ss = <<>>
    BY <1>3, <1>4 DEF FlattenSeq
  <2> QED
    BY <1>4, <2>1
<1>5. CASE n # 0
  <2>1. FlattenSeq(ss) = flat[n]
    BY <1>3, <1>5 DEF FlattenSeq
  <2> DEFINE Holds(i) == flat[i] \in Seq(T) /\ \A j \in 1 .. i : ToSet(ss[j]) \subseteq ToSet(flat[i])
             Bad == {i \in 1 .. n : ~Holds(i)}
  <2>2. \A i \in 1 .. n : flat[i] = IF i = 1 THEN ss[i] ELSE flat[i - 1] \o ss[i]
    BY <1>2
  <2> HIDE DEF flat
  <2>3. Bad = {}
    <3> SUFFICES ASSUME Bad # {} PROVE FALSE
      OBVIOUS
    <3>1. PICK i \in Bad : \A k \in Bad : i <= k
      <4>1. Bad \in SUBSET Nat
        OBVIOUS
      <4> HIDE DEF Bad
      <4> QED
        BY <4>1, LeastNumber
    <3>2. i \in 1 .. n /\ ss[i] \in Seq(T)
      BY <3>1
    <3>3. i # 1
      <4> SUFFICES ASSUME i = 1 PROVE FALSE
        OBVIOUS
      <4>1. flat[i] = ss[i]
        BY <2>2, <3>2
      <4> QED
        BY <3>1, <3>2, <4>1
    <3>4. i - 1 \in 1 .. n /\ i - 1 \notin Bad
      <4> HIDE DEF Bad
      <4> QED
        BY <3>1, <3>2, <3>3
    <3>5. Holds(i - 1)
      BY <3>4
    <3>6. flat[i] = flat[i - 1] \o ss[i]
      BY <2>2, <3>2, <3>3
    <3>7. flat[i] \in Seq(T) /\ ToSet(flat[i]) = ToSet(flat[i - 1]) \cup ToSet(ss[i])
      BY <3>2, <3>5, <3>6, Joined
    <3>8. \A j \in 1 .. i : j \in 1 .. i - 1 \/ j = i
      BY <3>2
    <3>9. Holds(i)
      BY <3>5, <3>7, <3>8
    <3> QED
      BY <3>1, <3>9
  <2>4. n \in 1 .. n
    BY <1>5
  <2>5. Holds(n)
    <3> HIDE DEF Holds
    <3> QED
      BY <2>3, <2>4
  <2> QED
    BY <2>1, <2>5
<1> QED
  BY <1>4, <1>5

(* Every function a rewritten call tries has an entry.                      *)
LEMMA EntriesAre ==
    ASSUME chains \in Seq(Seq(Classes \X Slots))
    PROVE  /\ VirtualFuncs \in Seq(Classes \X Slots)
           /\ \A n \in DOMAIN chains : ToSet(chains[n]) \subseteq ToSet(VirtualFuncs)
<1> DEFINE T  == Classes \X Slots
           hs == [n \in DOMAIN chains |-> IF chains[n] = <<>> THEN <<>> ELSE <<Head(chains[n])>>]
           ts == [n \in DOMAIN chains |-> IF chains[n] = <<>> THEN <<>> ELSE Tail(chains[n])]
           heads == FlattenSeq(hs)
           tails == FlattenSeq(ts)
           m == Len(chains)
<1> HIDE DEF T
<1>1. chains \in Seq(Seq(T))
  BY DEF T
<1>2. m \in Nat /\ DOMAIN chains = 1 .. m /\ \A n \in 1 .. m : chains[n] \in Seq(T)
  BY <1>1
<1>3. ASSUME NEW n \in 1 .. m
      PROVE  hs[n] \in Seq(T) /\ ts[n] \in Seq(T) /\ ToSet(chains[n]) = ToSet(hs[n]) \cup ToSet(ts[n])
  <2> DEFINE q == chains[n]
  <2>1. q \in Seq(T)
    BY <1>2
  <2>2. CASE q = <<>>
    <3>1. hs[n] = <<>> /\ ts[n] = <<>>
      BY <1>2, <2>2
    <3>2. <<>> \in Seq(T) /\ ToSet(<<>>) = {}
      BY DEF ToSet
    <3> HIDE DEF hs, ts
    <3> QED
      BY <2>2, <3>1, <3>2
  <2>3. CASE q # <<>>
    <3>1. hs[n] = <<Head(q)>> /\ ts[n] = Tail(q)
      BY <1>2, <2>3
    <3>2. <<Head(q)>> \in Seq(T) /\ Tail(q) \in Seq(T) /\ q = <<Head(q)>> \o Tail(q)
      <4> HIDE DEF q
      <4> QED
        BY <2>1, <2>3
    <3> HIDE DEF q
    <3>3. ToSet(q) = ToSet(<<Head(q)>>) \cup ToSet(Tail(q))
      BY <3>2, Joined
    <3> QED
      BY <3>1, <3>2, <3>3 DEF q
  <2> QED
    BY <2>2, <2>3
<1>4. hs \in [1 .. m -> Seq(T)] /\ ts \in [1 .. m -> Seq(T)]
  BY <1>2, <1>3
<1> HIDE DEF hs, ts
<1>5. /\ heads \in Seq(T) /\ \A n \in 1 .. m : ToSet(hs[n]) \subseteq ToSet(heads)
      /\ tails \in Seq(T) /\ \A n \in 1 .. m : ToSet(ts[n]) \subseteq ToSet(tails)
  BY <1>2, <1>4, Flattened
<1>6. VirtualFuncs = IF prog.join THEN ((heads \o tails) \o heads) \o tails ELSE heads \o tails
  BY DEF VirtualFuncs, hs, ts
<1> HIDE DEF heads, tails
<1> DEFINE both == heads \o tails
           more == both \o heads
           all  == more \o tails
<1>7. both \in Seq(T) /\ ToSet(both) = ToSet(heads) \cup ToSet(tails)
  BY <1>5, Joined
<1> HIDE DEF both
<1>8. more \in Seq(T) /\ ToSet(more) = ToSet(both) \cup ToSet(heads)
  BY <1>5, <1>7, Joined
<1> HIDE DEF more
<1>9. all \in Seq(T) /\ ToSet(all) = ToSet(more) \cup ToSet(tails)
  BY <1>5, <1>8, Joined
<1>10. VirtualFuncs = IF prog.join THEN all ELSE both
  BY <1>6 DEF all, both, more
<1> HIDE DEF all
<1>11. VirtualFuncs \in Seq(T) /\ ToSet(heads) \cup ToSet(tails) \subseteq ToSet(VirtualFuncs)
  BY <1>7, <1>8, <1>9, <1>10
<1> QED
  BY <1>2, <1>3, <1>5, <1>11 DEF T

(* The field of a function is one that is filled with it.                   *)
LEMMA PositionIs ==
    ASSUME VirtualFuncs \in Seq(Classes \X Slots), NEW f \in ToSet(VirtualFuncs)
    PROVE  /\ Position(f) \in 0 .. Len(VirtualFuncs) - 1
           /\ VirtualFuncs[Position(f) + 1] = f
<1> DEFINE I == {i \in 1 .. Len(VirtualFuncs) : VirtualFuncs[i] = f}
           first == CHOOSE i \in I : \A j \in I : i <= j
<1>1. Len(VirtualFuncs) \in Nat /\ ToSet(VirtualFuncs) = {VirtualFuncs[i] : i \in 1 .. Len(VirtualFuncs)}
  BY DEF ToSet
<1>2. I \in SUBSET Nat /\ I # {}
  BY <1>1
<1>3. first \in I
  <2> HIDE DEF I
  <2>1. \E i \in I : \A j \in I : i <= j
    BY <1>2, LeastNumber
  <2> QED
    BY <2>1
<1>4. Position(f) = first - 1
  BY <1>2 DEF Position, SelectInSeq, Min
<1> HIDE DEF first
<1> QED
  BY <1>1, <1>3, <1>4

-----------------------------------------------------------------------------
(* Shared addresses on the two devices.                                     *)

(* A number below Word is its own lower word.                               *)
LEMMA LowSmall == ASSUME NEW x \in 0 .. Word - 1 PROVE Low(x) = x
<1>1. Splits(x, Word, 0, x)
  BY Sizes DEF Splits
<1> QED
  BY <1>1, DivUnique DEF Low

(* The GPU finds a byte at its distance from the buffer, in the lower word. *)
LEMMA GpuOffset ==
    ASSUME NEW b \in Nat, NEW s \in Nat, NEW p \in Nat, b = buffer, s = surface
    PROVE  Low(ToGpu(p) - surface) = Low(p - b)
<1> DEFINE x == s - Low(b) + Low(p)
<1>1. Word \in Nat \ {0} /\ Low(b) \in Int /\ Low(p) \in Int
  BY Sizes, LowWords
<1>2. PICK k \in Int : b = Low(b) + Word * k
  BY LowWords
<1>3. PICK m \in Int : p = Low(p) + Word * m
  BY LowWords
<1>4. Low(x) \in Int /\ \E j \in Int : x = Low(x) + Word * j
  <2>1. x \in Int
    BY <1>1
  <2> HIDE DEF x
  <2>2. Low(x) \in 0 .. Word - 1 /\ \E j \in Int : x = Low(x) + Word * j
    BY <2>1, LowWords
  <2>3. Low(x) \in Int
    BY <2>2
  <2> QED
    BY <2>2, <2>3
<1>5. PICK j \in Int : x = Low(x) + Word * j
  BY <1>4
<1> DEFINE n  == k - m - j
           lb == Low(b)
           lp == Low(p)
           lx == Low(x)
           wn == Word * n
           wk == Word * k
           wm == Word * m
           wj == Word * j
<1>6. /\ n \in Int /\ wk \in Int /\ wm \in Int /\ wj \in Int
      /\ wn = wk - wm - wj
  <2>1. Word \in Int
    BY <1>1
  <2> QED
    BY <2>1, Z3
<1>7. /\ b = lb + wk /\ p = lp + wm /\ s - lb + lp = lx + wj
      /\ lb \in Int /\ lp \in Int /\ lx \in Int
  BY <1>1, <1>2, <1>3, <1>4, <1>5
<1> HIDE DEF x, n, lb, lp, lx, wn, wk, wm, wj
<1>8. lx - s = (p - b) + wn /\ p - b \in Int
  BY <1>6, <1>7
<1>9. Low(lx - s) = Low(p - b)
  BY <1>6, <1>8, LowShift DEF wn
<1> QED
  BY <1>9 DEF ToGpu, x, lx

(* A byte of the buffer is where the CPU has it.                            *)
LEMMA SeenInBuffer ==
    ASSUME PlaceInv, step = "mapped", NEW p \in Nat, buffer <= p, p < buffer + SvmSize
    PROVE  Seen(p) = p
<1>1. buffer \in Nat /\ surface \in Nat
  BY PlacementAssumption DEF PlaceInv, TypeOK
<1>2. p - buffer \in 0 .. Word - 1
  BY <1>1, Sizes
<1>3. Low(ToGpu(p) - surface) = p - buffer
  BY <1>1, <1>2, GpuOffset, LowSmall
<1> QED
  BY <1>1, <1>3 DEF Seen

(* The first page of the address space is outside of it on either device.   *)
LEMMA SeenInFirstPage ==
    ASSUME PlaceInv, step = "mapped", Page <= svmRegion, NEW p \in Nat, p < Page
    PROVE  IF device = "cpu" THEN Seen(p) < svmRegion ELSE Seen(p) >= buffer + SvmSize
<1>1. /\ buffer \in Nat /\ surface \in Nat /\ svmRegion \in Nat
      /\ Page \in Nat \ {0} /\ SvmSize \in Nat \ {0} /\ Word \in Nat \ {0}
      /\ buffer = svmRegion + Page
  BY PlacementAssumption, Sizes DEF PlaceInv, TypeOK
<1> DEFINE l == Low(svmRegion)
           q == svmRegion \div Word
<1>2. l + SvmSize + Page <= Word /\ l \in Nat /\ q \in Int /\ svmRegion = Word * q + l
  <2>1. l + SvmSize + Page <= Word
    BY PlacedRegion DEF Up
  <2> QED
    BY <1>1, <2>1, LowType, DivMod DEF Low
<1> DEFINE x == Word + p - l - Page
<1>3. x \in 0 .. Word - 1 /\ x >= SvmSize
  BY <1>1, <1>2
<1>4. p - buffer = x + Word * (-q - 1)
  <2> DEFINE wq == Word * q
  <2>1. wq \in Int /\ Word * (-q - 1) = -wq - Word
    BY <1>1, <1>2, Z3
  <2>2. svmRegion = wq + l
    BY <1>2
  <2> HIDE DEF wq, l, q
  <2> QED
    BY <1>1, <1>2, <2>1, <2>2
<1>5. Low(p - buffer) = x
  <2>1. Low(x + Word * (-q - 1)) = Low(x)
    <3>1. x \in Int /\ -q - 1 \in Int
      BY <1>2, <1>3
    <3> HIDE DEF x, q
    <3> QED
      BY <3>1, LowShift
  <2>2. Low(x) = x
    <3> HIDE DEF x
    <3> QED
      BY <1>3, LowSmall
  <2> QED
    BY <1>4, <2>1, <2>2
<1>6. Low(ToGpu(p) - surface) = x
  BY <1>1, <1>5, GpuOffset
<1> HIDE DEF x
<1> QED
  BY <1>1, <1>3, <1>6 DEF Seen

(* A vtable ends before a page does.                                        *)
LEMMA VtableSmall ==
    ASSUME NEW s \in Slots, NEW k \in 0 .. PtrSize - 1
    PROVE  /\ PtrSize \in Nat /\ PtrSize > 1 /\ Slots \subseteq Nat /\ TableSize \in Nat
           /\ PtrSize * (s + 2) \in Nat /\ PtrSize * (s + 2) + k < TableSize /\ TableSize <= Page
<1> DEFINE n == Cardinality(Slots)
<1>1. n \in Nat /\ PtrSize \in Nat /\ PtrSize > 1 /\ Slots = 0 .. n - 1 /\ PtrSize * (2 + n) <= Page
  BY VirtualAssumption, FS_CardinalityType
<1> HIDE DEF n
<1>2. s \in Nat /\ s + 3 <= 2 + n
  BY <1>1
<1>3. PtrSize * (s + 3) <= PtrSize * (2 + n) /\ PtrSize * (s + 3) = PtrSize * (s + 2) + PtrSize
      /\ PtrSize * (2 + n) \in Nat /\ PtrSize * (s + 2) \in Nat
  BY <1>1, <1>2, Z3
<1> QED
  BY <1>1, <1>3 DEF TableSize, n

(* An object built before the copy has no vtable that a kernel can read.    *)
LEMMA NullTableUnreadable ==
    ASSUME PlaceInv, step = "mapped", Page <= svmRegion, NEW s \in Slots
    PROVE  ~Readable(2 * PtrSize + PtrSize * s)
<1> DEFINE p == 2 * PtrSize + PtrSize * s
<1>1. /\ PtrSize \in Nat /\ PtrSize > 1 /\ s \in Nat /\ 0 \in 0 .. PtrSize - 1
      /\ PtrSize * (s + 2) \in Nat /\ PtrSize * (s + 2) + 0 < Page /\ Page \in Nat
  <2>1. PtrSize \in Nat \ {0, 1}
    BY VirtualAssumption
  <2>2. 0 \in 0 .. PtrSize - 1
    BY <2>1
  <2> QED
    BY <2>1, <2>2, VtableSmall, Sizes
<1>2. p = PtrSize * (s + 2)
  BY <1>1, Z3
<1> HIDE DEF p
<1>3. p \in Nat /\ p < Page /\ p + 0 = p
  BY <1>1, <1>2
<1>4. svmRegion \in Nat /\ buffer \in Nat /\ limit \in Nat /\ SvmSize \in Nat
  BY Sizes DEF PlaceInv, TypeOK
<1>5. IF device = "cpu" THEN Seen(p + 0) < svmRegion ELSE Seen(p + 0) >= buffer + SvmSize
  BY <1>3, SeenInFirstPage
<1>6. IF device = "cpu" THEN Seen(p + 0) \notin svmRegion .. limit - 1
                        ELSE Seen(p + 0) \notin buffer .. buffer + SvmSize - 1
  BY <1>4, <1>5
<1>7. ~Readable(p)
  BY <1>1, <1>6 DEF Readable
<1> QED
  BY <1>7 DEF p

-----------------------------------------------------------------------------
(* The run: what the copies and the context contain.                        *)

Entries == Len(VirtualFuncs)

(* The bytes of the slots of the vtables.                                   *)
SlotBytes == prog.emitted \X Slots \X (0 .. PtrSize - 1)

(* How far the program has come, and what it has not touched yet.           *)
Progress ==
    /\ next \in Nat /\ gcontext \in Nat /\ stored \in Nat /\ table \in [Classes -> Nat]
    /\ ran \in Seq((Classes \X Slots) \cup {Nothing})
    /\ Up => Page <= svmRegion /\ svmRegion + Page <= next /\ next <= limit
    /\ stage = "compile" => step = "start"
    /\ stage = "loaded" => step \in {"start", "ready", "exited"}
    /\ stage = "main" => step \in {"ready", "mapped"}
    /\ stage \in {"fill", "kernel"} => step = "mapped"
    /\ stage \in {"compile", "loaded"} => shared = <<>> /\ \A c \in Classes : table[c] = 0
    /\ stage \in {"compile", "loaded", "main"} => gcontext = 0 /\ stored = 0
    /\ stage \in {"compile", "loaded", "main", "fill"} => ran = <<>>

(* The vtables are copied whole, below what is allocated later.             *)
TablesCopied ==
    stage \in {"main", "fill", "kernel"} =>
        /\ \A a \in DOMAIN shared : a \in Nat /\ a < next
        /\ \A w \in SlotBytes : LET a == Cell(table, w) IN
              /\ a \in Nat /\ svmRegion + Page <= a /\ a < next /\ (gcontext = 0 \/ a < gcontext)
              /\ a \in DOMAIN shared /\ shared[a] = <<Override(w[1], w[2]), w[3]>>

(* Of each entry stored only the first byte is left, but of the last.       *)
ContextFilled ==
    stage \in {"fill", "kernel"} =>
        /\ stored <= Entries /\ (stage = "kernel" => stored = Entries)
        /\ Entries = 0 => gcontext = 0
        /\ Entries > 0 =>
              /\ gcontext # 0 /\ svmRegion + Page <= gcontext /\ gcontext + PtrSize * Entries <= next
              /\ \A a \in DOMAIN shared : a >= gcontext => stored > 0 /\ a <= gcontext + stored + PtrSize - 2
              /\ \A j \in 0 .. stored - 1 : /\ gcontext + j \in DOMAIN shared
                                            /\ shared[gcontext + j] = <<VirtualFuncs[j + 1], 0>>
              /\ stored > 0 => \A k \in 0 .. PtrSize - 1 :
                    /\ gcontext + stored - 1 + k \in DOMAIN shared
                    /\ shared[gcontext + stored - 1 + k] = <<VirtualFuncs[stored], k>>

(* The object has a vtable in the module; its vptr is that of the copy, or  *)
(* was taken before there was one.                                          *)
ObjectBuilt ==
    /\ stage \in {"fill", "kernel"} => receiver # NoObject
    /\ receiver # NoObject =>
        /\ receiver.class \in prog.emitted
        /\ \/ receiver.vptr = 2 * PtrSize
           \/ /\ stage \notin {"compile", "loaded"}
              /\ receiver.vptr = table[receiver.class] + 2 * PtrSize

RunInv ==
    /\ PlaceInv /\ SearchInv
    /\ Progress /\ TablesCopied /\ ContextFilled /\ ObjectBuilt /\ CallRunsOverride

-----------------------------------------------------------------------------
(* Where the copies are.                                                    *)

(* The copies of the vtables before that of a class.                        *)
Before(c) == Cardinality({d \in prog.emitted : d < c})

(* The copies are counted in the order of the classes.                      *)
LEMMA BeforeIs ==
    ASSUME prog \in Programs
    PROVE  /\ Cardinality(prog.emitted) \in Nat
           /\ \A c \in prog.emitted : Before(c) \in Nat /\ Before(c) + 1 <= Cardinality(prog.emitted)
           /\ \A c, d \in prog.emitted : c < d => Before(c) < Before(d)
<1> DEFINE E == prog.emitted
           low(c) == {d \in E : d < c}
<1>1. E \subseteq Classes /\ E \subseteq Nat /\ IsFiniteSet(E) /\ Cardinality(E) \in Nat
  <2>1. E \subseteq Classes /\ Classes \subseteq Nat
    BY ProgramFacts
  <2>2. IsFiniteSet(E)
    BY <2>1, VirtualAssumption, FS_Subset
  <2> QED
    BY <2>1, <2>2, FS_CardinalityType
<1>2. ASSUME NEW S \in SUBSET E, NEW T \in SUBSET S, NEW x \in S, x \notin T
      PROVE  Cardinality(T) \in Nat /\ Cardinality(S) \in Nat /\ Cardinality(T) < Cardinality(S)
  <2>1. IsFiniteSet(S)
    BY <1>1, FS_Subset
  <2>2. IsFiniteSet(T) /\ Cardinality(T) <= Cardinality(S) /\ (Cardinality(T) = Cardinality(S) => S = T)
    BY <2>1, FS_Subset
  <2>3. Cardinality(T) \in Nat /\ Cardinality(S) \in Nat
    BY <2>1, <2>2, FS_CardinalityType
  <2> QED
    BY <1>2, <2>2, <2>3
<1>3. ASSUME NEW c \in E PROVE Before(c) \in Nat /\ Before(c) + 1 <= Cardinality(E)
  <2>1. low(c) \in SUBSET E /\ E \in SUBSET E /\ c \notin low(c)
    BY <1>1
  <2>2. Cardinality(low(c)) \in Nat /\ Cardinality(low(c)) < Cardinality(E)
    BY <1>2, <2>1
  <2> QED
    BY <1>1, <2>2 DEF Before
<1>4. ASSUME NEW c \in E, NEW d \in E, c < d PROVE Before(c) < Before(d)
  <2>1. low(d) \in SUBSET E /\ low(c) \in SUBSET low(d) /\ c \in low(d) /\ c \notin low(c)
    BY <1>1, <1>4
  <2>2. Cardinality(low(c)) < Cardinality(low(d))
    <3> HIDE DEF low
    <3> QED
      BY <1>2, <2>1
  <2> QED
    BY <2>2 DEF Before
<1> QED
  BY <1>1, <1>3, <1>4

(* A byte of a slot is in the copy of its class, at its place there.        *)
LEMMA CellSplits ==
    ASSUME prog \in Programs, next \in Nat, NEW w \in SlotBytes
    PROVE  /\ Splits(Cell(Tables, w) - next, TableSize, Before(w[1]), PtrSize * (w[2] + 2) + w[3])
           /\ Splits(PtrSize * (w[2] + 2) + w[3], PtrSize, w[2] + 2, w[3])
<1> DEFINE c == w[1]
           s == w[2]
           k == w[3]
           o == PtrSize * (s + 2)
           t == TableSize * Before(c)
<1>1. c \in prog.emitted /\ c \in Classes /\ s \in Slots /\ k \in 0 .. PtrSize - 1
  BY ProgramFacts DEF SlotBytes
<1>2. /\ PtrSize \in Nat /\ PtrSize > 1 /\ s \in Nat /\ TableSize \in Nat
      /\ o \in Nat /\ o + k < TableSize
  BY <1>1, VtableSmall
<1>3. Before(c) \in Nat
  BY <1>1, BeforeIs
<1>4. t \in Nat
  BY <1>2, <1>3, Z3
<1>5. Cell(Tables, w) = (next + t) + o + k
  BY <1>1 DEF Cell, Tables, Before
<1> HIDE DEF c, s, k, o, t
<1>6. Cell(Tables, w) - next = t + (o + k) /\ o + k \in 0 .. TableSize - 1 /\ TableSize \in Nat \ {0}
  BY <1>1, <1>2, <1>4, <1>5
<1> QED
  BY <1>1, <1>2, <1>3, <1>6 DEF Splits, c, s, k, o, t

(* It has an address of its own, in what was allocated for the copies.      *)
LEMMA CellPlace ==
    ASSUME prog \in Programs, next \in Nat, NEW w \in SlotBytes
    PROVE  /\ Cell(Tables, w) \in Nat /\ next <= Cell(Tables, w)
           /\ TableSize * Cardinality(prog.emitted) \in Nat
           /\ Cell(Tables, w) < next + TableSize * Cardinality(prog.emitted)
           /\ \A v \in SlotBytes : Cell(Tables, v) = Cell(Tables, w) => v = w
<1> DEFINE n == Cardinality(prog.emitted)
           a == Cell(Tables, w) - next
           b == Before(w[1])
           o == PtrSize * (w[2] + 2) + w[3]
<1>1. w[1] \in prog.emitted /\ w = <<w[1], w[2], w[3]>>
  BY DEF SlotBytes
<1>2. b \in Nat /\ n \in Nat /\ b + 1 <= n
  BY <1>1, BeforeIs
<1>3. TableSize \in Nat \ {0} /\ o \in 0 .. TableSize - 1 /\ a = TableSize * b + o
  BY CellSplits DEF Splits
<1> HIDE DEF n, b, o
<1>4. /\ TableSize * b \in Nat /\ TableSize * n \in Nat
      /\ TableSize * (b + 1) = TableSize * b + TableSize /\ TableSize * (b + 1) <= TableSize * n
  BY <1>2, <1>3, Z3
<1>5. a \in Nat /\ a < TableSize * n
  BY <1>3, <1>4
<1>6. Cell(Tables, w) \in Int
  <2>1. /\ Tables[w[1]] = next + TableSize * b /\ PtrSize * (w[2] + 2) \in Nat /\ w[3] \in Nat
        /\ TableSize * b \in Nat
    <3>1. w[1] \in Classes /\ w[2] \in Slots /\ w[3] \in 0 .. PtrSize - 1 /\ PtrSize \in Nat
      BY ProgramFacts, VirtualAssumption DEF SlotBytes
    <3>2. PtrSize * (w[2] + 2) \in Nat
      BY <3>1, VtableSmall
    <3> QED
      BY <1>1, <1>4, <3>1, <3>2 DEF Tables, Before, b
  <2> QED
    BY <2>1 DEF Cell
<1>7. ASSUME NEW v \in SlotBytes, Cell(Tables, v) = Cell(Tables, w) PROVE v = w
  <2>1. v[1] \in prog.emitted /\ v = <<v[1], v[2], v[3]>>
    BY DEF SlotBytes
  <2> DEFINE p == PtrSize * (v[2] + 2) + v[3]
  <2>2. Splits(a, TableSize, Before(v[1]), p) /\ Splits(p, PtrSize, v[2] + 2, v[3])
    BY <1>7, CellSplits
  <2>3. Splits(a, TableSize, Before(w[1]), o) /\ Splits(o, PtrSize, w[2] + 2, w[3])
    BY CellSplits DEF o
  <2> HIDE DEF a, p
  <2>4. Before(v[1]) = Before(w[1]) /\ p = o
    BY <2>2, <2>3, DivUnique
  <2>5. v[2] + 2 = w[2] + 2 /\ v[3] = w[3]
    BY <2>2, <2>3, <2>4, DivUnique
  <2>6. v[2] = w[2]
    <3>1. v[2] \in Nat /\ w[2] \in Nat
      BY ProgramFacts DEF SlotBytes
    <3> QED
      BY <2>5, <3>1
  <2>7. v[1] = w[1]
    <3>1. v[1] \in Nat /\ w[1] \in Nat
      BY <1>1, <2>1, ProgramFacts
    <3>2. Before(v[1]) \in Nat /\ Before(w[1]) \in Nat
      BY <1>1, <2>1, BeforeIs
    <3>3. ~(v[1] < w[1]) /\ ~(w[1] < v[1])
      BY <1>1, <2>1, <2>4, <3>2, BeforeIs
    <3> QED
      BY <3>1, <3>3
  <2> QED
    BY <1>1, <2>1, <2>5, <2>6, <2>7
<1> QED
  BY <1>4, <1>5, <1>6, <1>7 DEF n

-----------------------------------------------------------------------------
(* What the kernel reads.                                                   *)

(* A pointer whose bytes are all there is loaded whole.                     *)
LEMMA LoadWhole ==
    ASSUME NEW p, NEW f \in Classes \X Slots, PtrSize \in Nat \ {0},
           \A k \in 0 .. PtrSize - 1 : Seen(p + k) \in DOMAIN shared /\ shared[Seen(p + k)] = <<f, k>>
    PROVE  Load(p) = f
<1> DEFINE mine == {g \in Classes \X Slots : \A k \in 0 .. PtrSize - 1 :
                       Seen(p + k) \in DOMAIN shared /\ shared[Seen(p + k)] = <<g, k>>}
<1>1. 0 \in 0 .. PtrSize - 1 /\ shared[Seen(p + 0)] = <<f, 0>>
  <2>1. 0 \in 0 .. PtrSize - 1
    OBVIOUS
  <2> QED
    BY <2>1
<1>2. ASSUME NEW g \in mine PROVE g = f
  <2>1. shared[Seen(p + 0)] = <<g, 0>>
    BY <1>1
  <2> QED
    BY <1>1, <2>1
<1>3. f \in mine
  OBVIOUS
<1>4. Load(p) = IF mine = {} THEN Nothing ELSE CHOOSE g \in mine : TRUE
  BY DEF Load
<1> HIDE DEF mine
<1> QED
  BY <1>2, <1>3, <1>4

(* One of which a byte is another's is not.                                 *)
LEMMA LoadBroken ==
    ASSUME NEW p, NEW k \in 0 .. PtrSize - 1,
           \A f \in Classes \X Slots : Seen(p + k) \in DOMAIN shared => shared[Seen(p + k)] # <<f, k>>
    PROVE  Load(p) = Nothing
BY DEF Load

(* The functions and the null pointer.                                      *)
LEMMA NothingIs == Nothing \notin Classes \X Slots
BY VirtualAssumption DEF Nothing

(* What was allocated lies where both devices see it.                       *)
LEMMA SeenAllocated ==
    ASSUME PlaceInv, Progress, step = "mapped", NEW p \in Nat, svmRegion + Page <= p, p < next
    PROVE  /\ Seen(p) = p
           /\ IF device = "cpu" THEN Seen(p) \in svmRegion .. limit - 1
                                ELSE Seen(p) \in buffer .. buffer + SvmSize - 1
<1>1. /\ Page \in Nat /\ SvmSize \in Nat /\ svmRegion \in Nat /\ limit \in Nat /\ buffer \in Nat
      /\ buffer = svmRegion + Page /\ limit = svmRegion + SvmSize /\ next \in Nat /\ next <= limit
  BY Sizes DEF PlaceInv, TypeOK, Up, Progress
<1>2. buffer <= p /\ p < buffer + SvmSize
  BY <1>1
<1>3. Seen(p) = p
  BY <1>2, SeenInBuffer
<1> QED
  BY <1>1, <1>2, <1>3

(* An object built after the copy: the kernel can read its vtable, and      *)
(* finds the override of its class.                                         *)
LEMMA TableRead ==
    ASSUME RunInv, stage = "kernel", NEW s \in Slots,
           receiver.vptr = table[receiver.class] + 2 * PtrSize
    PROVE  LET p == receiver.vptr + PtrSize * s IN
           Readable(p) /\ Load(p) = Override(receiver.class, s)
<1> DEFINE c == receiver.class
           p == receiver.vptr + PtrSize * s
           f == Override(c, s)
<1>1. /\ step = "mapped" /\ c \in prog.emitted /\ c \in Classes /\ table[c] \in Nat /\ prog \in Programs
      /\ PtrSize \in Nat \ {0, 1} /\ s \in Nat
  <2>1. c \in prog.emitted /\ prog \in Programs /\ step = "mapped"
    BY DEF RunInv, ObjectBuilt, SearchInv, CompileType, Progress
  <2>2. c \in Classes /\ Slots \subseteq Nat
    BY <2>1, ProgramFacts
  <2> QED
    BY <2>1, <2>2, VirtualAssumption DEF RunInv, Progress
<1>2. ASSUME NEW k \in 0 .. PtrSize - 1
      PROVE  /\ Seen(p + k) \in DOMAIN shared /\ shared[Seen(p + k)] = <<f, k>>
             /\ IF device = "cpu" THEN Seen(p + k) \in svmRegion .. limit - 1
                                  ELSE Seen(p + k) \in buffer .. buffer + SvmSize - 1
  <2> DEFINE w == <<c, s, k>>
             a == Cell(table, w)
  <2>1. w \in SlotBytes /\ w[1] = c /\ w[2] = s /\ w[3] = k
    BY <1>1 DEF SlotBytes
  <2>2. a = p + k
    <3>1. a = table[c] + PtrSize * (s + 2) + k
      BY DEF Cell
    <3>2. p = (table[c] + 2 * PtrSize) + PtrSize * s
      OBVIOUS
    <3>3. PtrSize * (s + 2) = PtrSize * s + 2 * PtrSize /\ PtrSize * s \in Nat
      BY <1>1, Z3
    <3> HIDE DEF a, c, p
    <3> QED
      BY <1>1, <3>1, <3>2, <3>3
  <2>3. /\ a \in Nat /\ svmRegion + Page <= a /\ a < next
        /\ a \in DOMAIN shared /\ shared[a] = <<f, k>>
    <3>1. \A v \in SlotBytes :
              /\ Cell(table, v) \in Nat /\ svmRegion + Page <= Cell(table, v) /\ Cell(table, v) < next
              /\ Cell(table, v) \in DOMAIN shared /\ shared[Cell(table, v)] = <<Override(v[1], v[2]), v[3]>>
      BY DEF RunInv, TablesCopied
    <3> HIDE DEF w
    <3> QED
      BY <2>1, <3>1
  <2> HIDE DEF a, p, w
  <2> QED
    BY <1>1, <2>2, <2>3, SeenAllocated DEF RunInv
<1> HIDE DEF p
<1>3. Readable(p)
  BY <1>2 DEF Readable
<1>4. f \in Classes \X Slots
  BY <1>1, OverrideIs
<1>5. Load(p) = f
  <2> HIDE DEF f
  <2> QED
    BY <1>1, <1>2, <1>4, LoadWhole
<1> QED
  BY <1>3, <1>5 DEF p

(* The context: a single entry is read, the last one breaks the others.     *)
LEMMA EntryRead ==
    ASSUME RunInv, stage = "kernel", NEW f \in ToSet(VirtualFuncs)
    PROVE  /\ Entries = 1 => Entry(f) = f
           /\ Entries > 1 /\ (Entries - 1) % PtrSize # 0 => Entry(f) = Nothing
<1> DEFINE T == Classes \X Slots
           i == Position(f)
           o == PtrSize * i
           g == gcontext
           n == Entries
<1>1. VirtualFuncs \in Seq(T)
  BY EntriesAre DEF RunInv, SearchInv, CompileType
<1>2. i \in 0 .. n - 1 /\ VirtualFuncs[i + 1] = f /\ n \in Nat /\ f \in T
  <2>1. i \in 0 .. Len(VirtualFuncs) - 1 /\ VirtualFuncs[i + 1] = f
    BY <1>1, PositionIs
  <2>2. Len(VirtualFuncs) \in Nat /\ ToSet(VirtualFuncs) \subseteq T
    <3> HIDE DEF T
    <3>1. Len(VirtualFuncs) \in Nat
      BY <1>1
    <3>2. ToSet(VirtualFuncs) \subseteq T
      BY <1>1, Elements
    <3> QED
      BY <3>1, <3>2
  <2> QED
    BY <2>1, <2>2 DEF Entries
<1>3. PtrSize \in Nat /\ PtrSize > 1 /\ g \in Nat /\ stored = n /\ step = "mapped"
      /\ next \in Nat /\ svmRegion \in Nat /\ Page \in Nat
  BY VirtualAssumption, Sizes DEF RunInv, PlaceInv, TypeOK, Progress, ContextFilled
<1>4. n > 0
  BY <1>2
<1>5. /\ svmRegion + Page <= g /\ g + PtrSize * n <= next
      /\ \A a \in DOMAIN shared : a >= g => a <= g + n + PtrSize - 2
      /\ \A j \in 0 .. n - 1 : shared[g + j] = <<VirtualFuncs[j + 1], 0>>
      /\ \A k \in 0 .. PtrSize - 1 : /\ g + n - 1 + k \in DOMAIN shared
                                     /\ shared[g + n - 1 + k] = <<VirtualFuncs[n], k>>
  BY <1>3, <1>4 DEF RunInv, ContextFilled
<1>6. Entry(f) = Load(g + o)
  BY DEF Entry
<1>7. /\ o \in Nat /\ PtrSize * n \in Nat /\ o + PtrSize <= PtrSize * n
      /\ PtrSize * i = o
  <2>1. i \in Nat /\ i + 1 <= n
    BY <1>2
  <2>2. PtrSize * (i + 1) <= PtrSize * n /\ PtrSize * (i + 1) = PtrSize * i + PtrSize
        /\ PtrSize * i \in Nat /\ PtrSize * n \in Nat
    BY <1>2, <1>3, <2>1, Z3
  <2> QED
    BY <2>2
<1> HIDE DEF T, i, o, g, n
<1>8. ASSUME NEW k \in 0 .. PtrSize - 1
      PROVE  g + o + k \in Nat /\ Seen(g + o + k) = g + o + k
  <2>1. g + o + k \in Nat /\ svmRegion + Page <= g + o + k /\ g + o + k < next
    BY <1>3, <1>5, <1>7
  <2> QED
    BY <1>3, <2>1, SeenAllocated DEF RunInv
<1>9. CASE n = 1
  <2>1. i = 0 /\ VirtualFuncs[n] = f
    BY <1>2, <1>9
  <2>2. o = 0
    BY <1>3, <1>7, <2>1
  <2>3. \A k \in 0 .. PtrSize - 1 : g + o + k = g + n - 1 + k
    BY <1>3, <1>9, <2>2
  <2>4. \A k \in 0 .. PtrSize - 1 :
            Seen(g + o + k) \in DOMAIN shared /\ shared[Seen(g + o + k)] = <<f, k>>
    BY <1>5, <1>8, <2>1, <2>3
  <2>5. Load(g + o) = f
    BY <1>2, <1>3, <2>4, LoadWhole DEF T
  <2> QED
    BY <1>6, <1>9, <2>5 DEF n
<1>10. CASE n > 1 /\ (n - 1) % PtrSize # 0
  <2>1. 1 \in 0 .. PtrSize - 1
    BY <1>3
  <2>2. o # n - 1
    <3> SUFFICES ASSUME o = n - 1 PROVE FALSE
      OBVIOUS
    <3>1. Splits(n - 1, PtrSize, i, 0)
      BY <1>2, <1>3, <1>7 DEF Splits
    <3> QED
      BY <1>10, <3>1, DivUnique
  <2>3. ASSUME NEW h \in T, g + o + 1 \in DOMAIN shared PROVE shared[g + o + 1] # <<h, 1>>
    <3>1. CASE o + 1 <= n - 1
      <4>1. o + 1 \in 0 .. n - 1 /\ g + o + 1 = g + (o + 1)
        BY <1>2, <1>3, <1>7, <3>1
      <4>2. shared[g + o + 1] = <<VirtualFuncs[(o + 1) + 1], 0>>
        BY <1>5, <4>1
      <4> QED
        BY <4>2
    <3>2. CASE o + 1 > n - 1
      <4> DEFINE k == o + 2 - n
      <4>1. o + 1 <= n + PtrSize - 2
        BY <1>2, <1>3, <1>5, <1>7, <2>3
      <4>2. k \in 0 .. PtrSize - 1 /\ g + o + 1 = g + n - 1 + k
        BY <1>2, <1>3, <1>7, <3>2, <4>1
      <4>3. k # 1
        BY <1>2, <1>7, <2>2
      <4> HIDE DEF k
      <4>4. shared[g + o + 1] = <<VirtualFuncs[n], k>>
        BY <1>5, <4>2
      <4> QED
        BY <4>3, <4>4
    <3> QED
      BY <1>2, <1>7, <3>1, <3>2
  <2>4. \A h \in T : Seen(g + o + 1) \in DOMAIN shared => shared[Seen(g + o + 1)] # <<h, 1>>
    BY <1>8, <2>1, <2>3
  <2>5. Load(g + o) = Nothing
    BY <2>1, <2>4, LoadBroken DEF T
  <2> QED
    BY <1>6, <1>10, <2>5 DEF n
<1> QED
  BY <1>9, <1>10 DEF n

(* A virtual call of the kernel runs what CallRunsOverride says.            *)
LEMMA CallResult ==
    ASSUME RunInv, VirtualCall
    PROVE  LET call == prog.calls[Len(ran) + 1] IN
           \E r \in (Classes \X Slots) \cup {Nothing} :
              /\ ran' = Append(ran, r)
              /\ \/ r \in {Override(receiver.class, call.slot), Nothing}
                 \/ Entries > 1 /\ (Entries - 1) % PtrSize = 0
              /\ r = Nothing => Entries > 1 \/ receiver.class \notin Visible(call.class)
<1> DEFINE T == Classes \X Slots
           n == Len(ran) + 1
           call == prog.calls[n]
           q == chains[n]
           vfn == receiver.vptr + PtrSize * call.slot
           f == Override(receiver.class, call.slot)
           I == {i \in 1 .. Len(q) : Entry(q[i]) = Load(vfn)}
           hit == IF I # {} THEN CHOOSE i \in I : \A j \in I : i <= j ELSE 0
           r == IF hit = 0 THEN Nothing ELSE q[hit]
<1>1. stage = "kernel" /\ n <= Len(prog.calls) /\ (q = <<>> \/ Readable(vfn))
  BY DEF VirtualCall
<1>2. ran' = Append(ran, r)
  BY DEF VirtualCall, SelectInSeq, Min
<1>3. /\ prog \in Programs /\ chains \in Seq(Seq(T)) /\ Len(chains) = Len(prog.calls)
      /\ Len(ran) \in Nat /\ TargetsExact /\ PlaceInv /\ step = "mapped" /\ Up /\ Page <= svmRegion
  BY <1>1 DEF RunInv, SearchInv, CompileType, Progress, Up
<1>4. n \in 1 .. Len(prog.calls) /\ n \in DOMAIN chains /\ q \in Seq(T)
  <2>1. n \in 1 .. Len(prog.calls)
    BY <1>1, <1>3, CallsAre
  <2> HIDE DEF T, n
  <2> QED
    BY <1>3, <2>1
<1>5. call.class \in Classes /\ call.slot \in Slots
  <2> HIDE DEF n
  <2> QED
    BY <1>3, <1>4, CallIs
<1>6. f \in T /\ f # Nothing
  <2>1. receiver.class \in prog.emitted
    BY <1>1 DEF RunInv, ObjectBuilt
  <2>2. receiver.class \in Classes
    BY <1>3, <2>1, ProgramFacts
  <2> QED
    BY <1>3, <1>5, <2>2, OverrideIs, NothingIs
<1>7. ToSet(q) = {Override(c, call.slot) : c \in Visible(call.class)}
  BY <1>3, <1>4 DEF TargetsExact
<1>8. ToSet(q) \subseteq ToSet(VirtualFuncs)
  BY <1>3, <1>4, EntriesAre
<1>9. \A i \in 1 .. Len(q) : q[i] \in ToSet(q) /\ q[i] \in T
  <2> HIDE DEF q, T
  <2> QED
    BY <1>4 DEF ToSet
<1>10. IF I = {} THEN r = Nothing ELSE r \in ToSet(q) /\ r \in T /\ Entry(r) = Load(vfn)
  <2>1. CASE I = {}
    BY <2>1
  <2>2. CASE I # {}
    <3>1. I \in SUBSET Nat
      BY <1>4
    <3>2. \E i \in I : \A j \in I : i <= j
      <4> HIDE DEF I
      <4> QED
        BY <2>2, <3>1, LeastNumber
    <3>3. hit \in I
      <4> HIDE DEF I
      <4> QED
        BY <2>2, <3>2
    <3> HIDE DEF hit
    <3>4. hit \in 1 .. Len(q) /\ Entry(q[hit]) = Load(vfn) /\ hit # 0
      BY <3>3
    <3>5. r = q[hit]
      BY <3>4
    <3> HIDE DEF r, q, vfn, T, I
    <3> QED
      BY <1>9, <2>2, <3>4, <3>5
  <2> QED
    BY <2>1, <2>2
<1> HIDE DEF r, hit
<1> DEFINE Many   == Entries > 1
           Broken == Entries > 1 /\ (Entries - 1) % PtrSize = 0
           Unseen == receiver.class \notin Visible(call.class)
<1> SUFFICES r \in T \cup {Nothing} /\ (r = f \/ r = Nothing \/ Broken) /\ (r = Nothing => Many \/ Unseen)
  BY <1>2
<1>11. r \in T \cup {Nothing}
  BY <1>10
<1>12. Entries \in Nat
  BY <1>3, EntriesAre DEF Entries
<1> HIDE DEF T, n, call, q, vfn, f, Many, Broken, Unseen
<1>13. CASE q = <<>>
  <2>1. I = {}
    BY <1>13
  <2>2. ToSet(q) = {}
    BY <1>13 DEF ToSet
  <2> HIDE DEF I
  <2>3. Unseen
    BY <1>7, <2>2 DEF Unseen
  <2> QED
    BY <1>10, <1>11, <2>1, <2>3
<1>14. CASE q # <<>>
  <2>1. Load(vfn) = f
    <3>1. Readable(vfn)
      BY <1>1, <1>14
    <3>2. receiver.vptr # 2 * PtrSize
      <4>1. ~Readable(2 * PtrSize + PtrSize * call.slot)
        BY <1>3, <1>5, NullTableUnreadable
      <4> QED
        BY <3>1, <4>1 DEF vfn
    <3>3. receiver.vptr = table[receiver.class] + 2 * PtrSize
      BY <1>1, <3>2 DEF RunInv, ObjectBuilt
    <3> QED
      BY <1>1, <1>5, <3>3, TableRead DEF vfn, f
  <2>2. Len(q) \in Nat /\ Len(q) > 0
    BY <1>4, <1>14
  <2>3. Entries > 0
    <3>1. q[1] \in ToSet(VirtualFuncs)
      BY <1>8, <1>9, <2>2
    <3>2. VirtualFuncs # <<>>
      BY <3>1 DEF ToSet
    <3>3. VirtualFuncs \in Seq(T)
      BY <1>3, EntriesAre DEF T
    <3> QED
      BY <3>2, <3>3 DEF Entries
  <2>4. CASE Entries = 1
    <3>1. \A g \in ToSet(q) : Entry(g) = g
      BY <1>1, <1>8, <2>4, EntryRead
    <3>2. CASE I = {}
      <4>1. f \notin ToSet(q)
        <5> SUFFICES ASSUME f \in ToSet(q) PROVE FALSE
          OBVIOUS
        <5>1. PICK i \in 1 .. Len(q) : q[i] = f
          BY <1>4 DEF ToSet
        <5>2. Entry(q[i]) = Load(vfn)
          BY <2>1, <3>1, <5>1
        <5>3. i \in I
          BY <5>2
        <5> QED
          BY <3>2, <5>3
      <4>2. Unseen
        BY <1>7, <4>1 DEF f, Unseen
      <4> QED
        BY <1>10, <1>11, <3>2, <4>2
    <3>3. CASE I # {}
      <4> HIDE DEF I
      <4>1. r \in ToSet(q) /\ Entry(r) = f
        BY <1>10, <2>1, <3>3
      <4>2. r = f
        BY <3>1, <4>1
      <4> QED
        BY <1>6, <1>11, <4>2
    <3> QED
      BY <3>2, <3>3
  <2>5. CASE Entries > 1 /\ (Entries - 1) % PtrSize # 0
    <3>1. \A g \in ToSet(q) : Entry(g) = Nothing
      BY <1>1, <1>8, <2>5, EntryRead
    <3>2. I = {}
      BY <1>6, <1>9, <2>1, <3>1
    <3> HIDE DEF I
    <3> QED
      BY <1>10, <1>11, <2>5, <3>2 DEF Many
  <2>6. CASE Entries > 1 /\ (Entries - 1) % PtrSize = 0
    BY <1>11, <2>6 DEF Many, Broken
  <2> QED
    BY <1>12, <2>3, <2>4, <2>5, <2>6
<1> QED
  BY <1>13, <1>14

-----------------------------------------------------------------------------
(* The steps of the run.                                                    *)

CallsRight ==
    \A n \in DOMAIN ran : LET call == prog.calls[n] IN
        /\ \/ ran[n] \in {Override(receiver.class, call.slot), Nothing}
           \/ Entries > 1 /\ (Entries - 1) % PtrSize = 0
        /\ ran[n] = Nothing => Entries > 1 \/ receiver.class \notin Visible(call.class)

MemoryInv == Progress /\ TablesCopied /\ ContextFilled /\ ObjectBuilt /\ CallRunsOverride

(* What is said of the context does not change with other variables.        *)
LEMMA SameEntries ==
    ASSUME prog' = prog, chains' = chains
    PROVE  VirtualFuncs' = VirtualFuncs /\ Entries' = Entries /\ SlotBytes' = SlotBytes
<1>1. VirtualFuncs' = VirtualFuncs
  BY DEF VirtualFuncs
<1> QED
  BY <1>1 DEF Entries, SlotBytes

(* The two halves of the property, in the next state.                       *)
LEMMA CallsAnd ==
    ASSUME CallsRight', stage' = "dead" /\ gcontext' # 0 => receiver'.vptr = 2 * PtrSize
    PROVE  CallRunsOverride'
BY DEF CallRunsOverride, CallsRight, Entries

(* What the calls have run does not change with other variables.            *)
LEMMA CallsKept ==
    ASSUME RunInv, prog' = prog, chains' = chains, receiver' = receiver, ran' = ran
    PROVE  CallsRight'
<1>1. CallsRight
  BY DEF RunInv, CallRunsOverride, CallsRight, Entries
<1> QED
  BY <1>1, SameProgram, SameEntries DEF CallsRight

(* Before the kernel runs there is nothing to say of its calls.             *)
LEMMA CallsNone ==
    ASSUME ran' = <<>>, stage' # "dead" \/ gcontext' = 0
    PROVE  CallRunsOverride'
BY DEF CallRunsOverride

(* The copies stay where they are as long as nobody writes there.           *)
LEMMA TablesKept ==
    ASSUME TablesCopied, stage \in {"main", "fill", "kernel"}, next \in Nat, next' \in Nat,
           prog' = prog, table' = table, svmRegion' = svmRegion, next <= next',
           gcontext' = gcontext \/ gcontext' = next,
           \A a \in DOMAIN shared' : a \in Nat /\ a < next',
           \A a \in DOMAIN shared : gcontext' = 0 \/ a < gcontext' =>
               a \in DOMAIN shared' /\ shared'[a] = shared[a]
    PROVE  TablesCopied'
<1>1. SlotBytes' = SlotBytes /\ \A w : Cell(table, w)' = Cell(table, w)
  BY DEF SlotBytes, Cell
<1>2. ASSUME NEW w \in SlotBytes
      PROVE  LET a == Cell(table, w) IN
             /\ a \in Nat /\ svmRegion' + Page <= a /\ a < next' /\ (gcontext' = 0 \/ a < gcontext')
             /\ a \in DOMAIN shared' /\ shared'[a] = <<Override(w[1], w[2]), w[3]>>
  <2> DEFINE a == Cell(table, w)
  <2>1. /\ a \in Nat /\ svmRegion + Page <= a /\ a < next /\ (gcontext = 0 \/ a < gcontext)
        /\ a \in DOMAIN shared /\ shared[a] = <<Override(w[1], w[2]), w[3]>>
    BY DEF TablesCopied
  <2> HIDE DEF a
  <2>2. a < next' /\ (gcontext' = 0 \/ a < gcontext')
    BY <2>1
  <2> QED
    BY <2>1, <2>2 DEF a
<1>3. \A w \in SlotBytes :
          /\ Cell(table, w)' \in Nat /\ svmRegion' + Page <= Cell(table, w)' /\ Cell(table, w)' < next'
          /\ gcontext' = 0 \/ Cell(table, w)' < gcontext'
          /\ Cell(table, w)' \in DOMAIN shared'
          /\ shared'[Cell(table, w)'] = <<Override(w[1], w[2]), w[3]>>'
  <2>1. \A w : <<Override(w[1], w[2]), w[3]>>' = <<Override(w[1], w[2]), w[3]>>
    BY SameProgram
  <2> QED
    BY <1>1, <1>2, <2>1
<1> QED
  BY <1>1, <1>3 DEF TablesCopied

(* Compiling touches nothing of this.                                       *)
LEMMA CompileStep ==
    ASSUME RunInv, (\E c \in Classes : Explore(c)) \/ ModifyBasicBlock
    PROVE  MemoryInv'
<1>1. /\ stage = "compile" /\ stage' \in {"compile", "loaded"} /\ prog' = prog
      /\ UNCHANGED <<vars, memory, receiver, offload, ran>>
  BY DEF Explore, ModifyBasicBlock
<1>2. Progress'
  BY <1>1 DEF RunInv, Progress, vars, memory, offload, Up
<1>3. TablesCopied' /\ ContextFilled'
  BY <1>1 DEF TablesCopied, ContextFilled
<1>4. ObjectBuilt'
  BY <1>1 DEF RunInv, ObjectBuilt
<1>5. CallRunsOverride'
  <2>1. ran' = <<>> /\ stage' # "dead"
    BY <1>1 DEF RunInv, Progress
  <2> QED
    BY <2>1, CallsNone
<1> QED
  BY <1>2, <1>3, <1>4, <1>5 DEF MemoryInv

(* The region is placed, and becomes the buffer.                            *)
LEMMA StartupStep ==
    ASSUME RunInv, Startup
    PROVE  MemoryInv'
<1>1. /\ stage \in {"loaded", "main"} /\ stage' = stage /\ prog' = prog /\ chains' = chains
      /\ UNCHANGED <<shared, table, receiver, offload, ran>>
  BY DEF Startup, compiling
<1>2. Progress' /\ (stage = "main" => next' = next /\ svmRegion' = svmRegion)
  <2>1. ASSUME stage = "loaded", NEW a \in Addresses, InitMemoryManager(a), next' = svmRegion' + Page
        PROVE  Progress'
    <3> DEFINE r == RoundUp(a)
    <3>1. a \in Nat /\ a > 0 /\ Page \in Nat \ {0} /\ SvmSize \in Nat \ {0} /\ SvmSize % Page = 0
      BY <2>1, PlacementAssumption DEF InitMemoryManager
    <3>2. r \in Nat /\ r % Page = 0 /\ a <= r
      BY <3>1, RoundUpBound
    <3>3. svmRegion' = Away4GB(r) /\ limit' = svmRegion' + SvmSize /\ step' = "ready"
      BY <2>1 DEF InitMemoryManager
    <3>4. svmRegion' \in Nat /\ svmRegion' % Page = 0 /\ svmRegion' > 0
      BY <3>1, <3>2, <3>3, Away4GBFits
    <3>5. 0 % Page = 0 /\ 0 + Page <= svmRegion' /\ 0 + Page <= SvmSize
      <4>1. 0 % Page = 0 /\ 0 \in Int /\ svmRegion' \in Int /\ SvmSize \in Int /\ 0 < SvmSize
        BY <3>1, <3>4
      <4>2. 0 + Page <= svmRegion'
        BY <3>1, <3>4, <4>1, AlignedGap
      <4>3. 0 + Page <= SvmSize
        BY <3>1, <4>1, AlignedGap
      <4> QED
        BY <4>1, <4>2, <4>3
    <3>6. Page <= svmRegion' /\ next' \in Nat /\ svmRegion' + Page <= next' /\ next' <= limit'
      BY <2>1, <3>1, <3>3, <3>4, <3>5
    <3> QED
      BY <1>1, <2>1, <3>3, <3>6 DEF RunInv, Progress, offload
  <2>2. ASSUME stage = "loaded", NoMemory, next' = next PROVE Progress'
    BY <1>1, <2>2 DEF RunInv, Progress, offload, NoMemory, Up
  <2>3. ASSUME stage = "main", NEW g \in Surfaces, InitOcl(g), next' = next
        PROVE  Progress' /\ svmRegion' = svmRegion
    BY <1>1, <2>3 DEF RunInv, Progress, offload, InitOcl, Up
  <2> QED
    BY <1>1, <2>1, <2>2, <2>3 DEF Startup
<1>3. TablesCopied'
  <2>1. CASE stage = "loaded"
    BY <1>1, <2>1 DEF TablesCopied
  <2>2. CASE stage = "main"
    <3>1. next' = next /\ svmRegion' = svmRegion /\ next \in Nat /\ gcontext' = gcontext
      BY <1>1, <1>2, <2>2 DEF RunInv, Progress, offload
    <3>2. \A a \in DOMAIN shared : a \in Nat /\ a < next
      BY <2>2 DEF RunInv, TablesCopied
    <3> QED
      BY <1>1, <2>2, <3>1, <3>2, TablesKept DEF RunInv
  <2> QED
    BY <1>1, <2>1, <2>2
<1>4. ContextFilled' /\ ObjectBuilt'
  BY <1>1 DEF RunInv, ContextFilled, ObjectBuilt
<1>5. CallRunsOverride'
  <2>1. ran' = <<>> /\ stage' # "dead"
    BY <1>1 DEF RunInv, Progress
  <2> QED
    BY <2>1, CallsNone
<1> QED
  BY <1>2, <1>3, <1>4, <1>5 DEF MemoryInv

(* The vtables are copied.                                                  *)
LEMMA PromoteStep ==
    ASSUME RunInv, PromoteVtables
    PROVE  MemoryInv'
<1> DEFINE size == TableSize * Cardinality(prog.emitted)
           At(a) == CHOOSE w \in SlotBytes : Cell(Tables, w) = a
<1>1. /\ stage = "loaded" /\ stage' = "main" /\ step = "ready" /\ next + size <= limit
      /\ table' = Tables /\ next' = next + size /\ prog' = prog /\ chains' = chains
      /\ shared' = [a \in {Cell(Tables, w) : w \in SlotBytes} |->
                       <<Override(At(a)[1], At(a)[2]), At(a)[3]>>]
      /\ UNCHANGED <<vars, receiver, offload, ran>>
  BY DEF PromoteVtables, Room, SlotBytes, compiling
<1>2. /\ prog \in Programs /\ next \in Nat /\ Page <= svmRegion /\ svmRegion + Page <= next
      /\ svmRegion \in Nat /\ Page \in Nat
      /\ gcontext = 0 /\ stored = 0 /\ ran = <<>>
  BY <1>1, Sizes DEF RunInv, SearchInv, CompileType, PlaceInv, TypeOK, Progress, Up
<1>3. size \in Nat
  <2>1. TableSize \in Nat
    <3>1. PtrSize \in Nat /\ Cardinality(Slots) \in Nat
      BY VirtualAssumption, FS_CardinalityType
    <3> QED
      BY <3>1, Z3 DEF TableSize
  <2>2. Cardinality(prog.emitted) \in Nat
    BY <1>2, BeforeIs
  <2> QED
    BY <2>1, <2>2, Z3
<1>4. ASSUME NEW w \in SlotBytes
      PROVE  LET a == Cell(Tables, w) IN
             /\ a \in Nat /\ next <= a /\ a < next + size
             /\ a \in DOMAIN shared' /\ shared'[a] = <<Override(w[1], w[2]), w[3]>>
  <2> DEFINE a == Cell(Tables, w)
  <2>1. /\ a \in Nat /\ next <= a /\ a < next + size
        /\ \A v \in SlotBytes : Cell(Tables, v) = a => v = w
    BY <1>2, CellPlace
  <2>2. At(a) = w
    BY <2>1
  <2>3. a \in DOMAIN shared' /\ shared'[a] = <<Override(At(a)[1], At(a)[2]), At(a)[3]>>
    BY <1>1
  <2> HIDE DEF At
  <2> QED
    BY <2>1, <2>2, <2>3
<1> HIDE DEF size, At
<1>5. Tables \in [Classes -> Nat]
  <2>1. TableSize \in Nat
    <3>1. PtrSize \in Nat /\ Cardinality(Slots) \in Nat
      BY VirtualAssumption, FS_CardinalityType
    <3> QED
      BY <3>1, Z3 DEF TableSize
  <2>2. ASSUME NEW c \in prog.emitted PROVE next + TableSize * Before(c) \in Nat
    <3>1. Before(c) \in Nat
      BY <1>2, BeforeIs
    <3>2. TableSize * Before(c) \in Nat
      <4> DEFINE n == Before(c)
      <4> HIDE DEF n
      <4>1. n \in Nat => TableSize * n \in Nat
        BY <2>1, Z3
      <4> QED
        BY <3>1, <4>1 DEF n
    <3> QED
      BY <1>2, <3>2
  <2> QED
    BY <2>2 DEF Tables, Before
<1>6. Progress'
  <2>1. next' \in Nat /\ next <= next' /\ next' <= limit' /\ limit' = limit /\ svmRegion' = svmRegion
        /\ step' = step
    BY <1>1, <1>2, <1>3 DEF vars
  <2> QED
    BY <1>1, <1>2, <1>5, <2>1 DEF RunInv, Progress, offload, Up
<1>7. TablesCopied'
  <2>1. \A w : Cell(table, w)' = Cell(Tables, w)
    BY <1>1 DEF Cell
  <2>2. \A w : <<Override(w[1], w[2]), w[3]>>' = <<Override(w[1], w[2]), w[3]>>
    BY <1>1, SameProgram
  <2>3. ASSUME NEW w \in SlotBytes
        PROVE  /\ Cell(table, w)' \in Nat /\ svmRegion' + Page <= Cell(table, w)'
               /\ Cell(table, w)' < next' /\ gcontext' = 0
               /\ Cell(table, w)' \in DOMAIN shared'
               /\ shared'[Cell(table, w)'] = <<Override(w[1], w[2]), w[3]>>'
    <3> DEFINE a == Cell(Tables, w)
    <3>1. /\ a \in Nat /\ next <= a /\ a < next + size
          /\ a \in DOMAIN shared' /\ shared'[a] = <<Override(w[1], w[2]), w[3]>>
      BY <1>4
    <3>2. svmRegion' = svmRegion /\ gcontext' = 0
      BY <1>1, <1>2 DEF vars, offload
    <3>3. Cell(table, w)' = a
      BY <2>1
    <3> HIDE DEF a
    <3>4. svmRegion' + Page <= a /\ a < next'
      BY <1>1, <1>2, <1>3, <3>1, <3>2
    <3> QED
      BY <2>2, <3>1, <3>2, <3>3, <3>4
  <2>4. SlotBytes' = SlotBytes
    BY <1>1, SameEntries
  <2>5. \A a \in DOMAIN shared' : a \in Nat /\ a < next'
    <3>1. \A a \in DOMAIN shared' : \E w \in SlotBytes : a = Cell(Tables, w)
      BY <1>1
    <3> QED
      BY <1>1, <1>4, <3>1
  <2> QED
    BY <2>3, <2>4, <2>5 DEF TablesCopied
<1>8. ContextFilled'
  BY <1>1 DEF ContextFilled
<1>9. ObjectBuilt'
  BY <1>1 DEF RunInv, ObjectBuilt
<1>10. CallRunsOverride'
  <2>1. ran' = <<>> /\ stage' # "dead"
    BY <1>1, <1>2
  <2> QED
    BY <2>1, CallsNone
<1> QED
  BY <1>6, <1>7, <1>8, <1>9, <1>10 DEF MemoryInv

(* The object the kernel will be given.                                     *)
LEMMA ConstructStep ==
    ASSUME RunInv, NEW c \in Classes, Construct(c)
    PROVE  MemoryInv'
<1>1. /\ stage \in {"loaded", "main"} /\ stage' = stage /\ prog' = prog /\ chains' = chains
      /\ c \in prog.emitted /\ receiver' = [class |-> c, vptr |-> table[c] + 2 * PtrSize]
      /\ UNCHANGED <<vars, memory, offload, ran>>
  BY DEF Construct, compiling
<1>2. Progress'
  BY <1>1 DEF RunInv, Progress, vars, memory, offload, Up
<1>3. TablesCopied'
  <2>1. CASE stage = "loaded"
    BY <1>1, <2>1 DEF TablesCopied
  <2>2. CASE stage = "main"
    <3>1. next \in Nat /\ UNCHANGED <<next, shared, table, svmRegion, gcontext>>
      BY <1>1 DEF RunInv, Progress, vars, memory, offload
    <3>2. \A a \in DOMAIN shared : a \in Nat /\ a < next
      BY <2>2 DEF RunInv, TablesCopied
    <3> QED
      BY <1>1, <2>2, <3>1, <3>2, TablesKept DEF RunInv
  <2> QED
    BY <1>1, <2>1, <2>2
<1>4. ContextFilled'
  BY <1>1 DEF ContextFilled
<1>5. ObjectBuilt'
  <2>1. receiver'.class = c /\ receiver'.vptr = table[c] + 2 * PtrSize /\ table' = table
    BY <1>1 DEF memory
  <2>2. stage = "loaded" => table[c] = 0
    BY DEF RunInv, Progress
  <2>3. PtrSize \in Nat
    BY VirtualAssumption
  <2>4. stage = "loaded" => receiver'.vptr = 2 * PtrSize
    BY <2>1, <2>2, <2>3
  <2> QED
    BY <1>1, <2>1, <2>4 DEF ObjectBuilt
<1>6. CallRunsOverride'
  <2>1. ran' = <<>> /\ stage' # "dead"
    BY <1>1 DEF RunInv, Progress
  <2> QED
    BY <2>1, CallsNone
<1> QED
  BY <1>2, <1>3, <1>4, <1>5, <1>6 DEF MemoryInv

(* The entries are counted, and so are their bytes.                         *)
LEMMA EntriesBytes ==
    ASSUME RunInv
    PROVE  /\ Entries \in Nat /\ PtrSize * Entries \in Nat
           /\ PtrSize * Entries = 0 <=> Entries = 0
           /\ Entries <= PtrSize * Entries
<1>1. VirtualFuncs \in Seq(Classes \X Slots) /\ PtrSize \in Nat \ {0}
  BY EntriesAre, VirtualAssumption DEF RunInv, SearchInv, CompileType
<1>2. Entries \in Nat
  BY <1>1 DEF Entries
<1> QED
  BY <1>1, <1>2, Z3

(* The context is allocated.                                                *)
LEMMA OffloadStep ==
    ASSUME RunInv, NEW d, Offload(d)
    PROVE  MemoryInv'
<1> DEFINE size == PtrSize * Entries
<1>1. /\ stage = "main" /\ stage' = "fill" /\ step = "mapped" /\ receiver # NoObject /\ next + size <= limit
      /\ gcontext' = (IF size = 0 THEN 0 ELSE next) /\ next' = next + size
      /\ prog' = prog /\ chains' = chains
      /\ UNCHANGED <<vars, shared, table, receiver, stored, ran>>
  BY DEF Offload, Room, compiling, Entries
<1>2. /\ next \in Nat /\ svmRegion \in Nat /\ Page \in Nat \ {0} /\ svmRegion + Page <= next
      /\ stored = 0 /\ gcontext = 0 /\ ran = <<>>
      /\ \A a \in DOMAIN shared : a \in Nat /\ a < next
  BY <1>1, Sizes DEF RunInv, PlaceInv, TypeOK, Progress, Up, TablesCopied
<1>3. Entries \in Nat /\ size \in Nat /\ (size = 0 <=> Entries = 0)
  BY EntriesBytes
<1>4. VirtualFuncs' = VirtualFuncs /\ Entries' = Entries
  BY <1>1, SameEntries
<1> HIDE DEF size
<1>5. next' \in Nat /\ next <= next' /\ gcontext' \in Nat /\ (gcontext' = 0 \/ gcontext' = next)
  BY <1>1, <1>2, <1>3
<1>6. Progress'
  BY <1>1, <1>2, <1>5 DEF RunInv, Progress, vars, Up
<1>7. TablesCopied'
  <2>1. svmRegion' = svmRegion /\ table' = table /\ shared' = shared
    BY <1>1 DEF vars
  <2>2. gcontext' = gcontext \/ gcontext' = next
    BY <1>2, <1>5
  <2>3. \A a \in DOMAIN shared' : a \in Nat /\ a < next'
    BY <1>2, <1>5, <2>1
  <2> QED
    BY <1>1, <1>2, <1>5, <2>1, <2>2, <2>3, TablesKept DEF RunInv
<1>8. ContextFilled'
  <2>1. stage' = "fill" /\ stored' = 0 /\ svmRegion' = svmRegion /\ shared' = shared
    BY <1>1, <1>2 DEF vars
  <2>2. Entries' = 0 => gcontext' = 0
    BY <1>1, <1>3, <1>4
  <2>3. Entries' > 0 =>
            /\ gcontext' # 0 /\ svmRegion' + Page <= gcontext' /\ gcontext' + PtrSize * Entries' <= next'
            /\ \A a \in DOMAIN shared' : ~(a >= gcontext')
    <3> SUFFICES ASSUME Entries > 0
                 PROVE  /\ gcontext' # 0 /\ svmRegion + Page <= gcontext' /\ gcontext' + size <= next'
                        /\ \A a \in DOMAIN shared : ~(a >= gcontext')
      BY <1>4, <2>1 DEF size
    <3>1. gcontext' = next
      BY <1>1, <1>3
    <3> QED
      BY <1>1, <1>2, <1>3, <3>1
  <2> QED
    BY <1>3, <1>4, <2>1, <2>2, <2>3 DEF ContextFilled
<1>9. ObjectBuilt'
  BY <1>1 DEF RunInv, ObjectBuilt
<1>10. CallRunsOverride'
  BY <1>1, <1>2, CallsNone
<1> QED
  BY <1>6, <1>7, <1>8, <1>9, <1>10 DEF MemoryInv

(* Shared memory runs out before there is a context.                        *)
LEMMA MallocFailsStep ==
    ASSUME RunInv, MallocFails
    PROVE  MemoryInv'
<1>1. /\ stage \in {"loaded", "main"} /\ stage' = "dead" /\ prog' = prog
      /\ UNCHANGED <<vars, memory, receiver, offload, ran>>
  BY DEF MallocFails
<1>2. gcontext = 0 /\ stored = 0 /\ ran = <<>>
  BY <1>1 DEF RunInv, Progress
<1>3. Progress'
  BY <1>1, <1>2 DEF RunInv, Progress, vars, memory, offload, Up
<1>4. TablesCopied' /\ ContextFilled'
  BY <1>1 DEF TablesCopied, ContextFilled
<1>5. ObjectBuilt'
  <2>1. receiver' = receiver /\ table' = table /\ prog' = prog /\ stage' \notin {"compile", "loaded", "fill", "kernel"}
    BY <1>1 DEF memory
  <2> QED
    BY <2>1 DEF RunInv, ObjectBuilt
<1>6. CallRunsOverride'
  <2>1. gcontext' = 0 /\ ran' = <<>>
    BY <1>1, <1>2 DEF offload
  <2> QED
    BY <2>1, CallsNone
<1> QED
  BY <1>3, <1>4, <1>5, <1>6 DEF MemoryInv

(* An entry is stored whole, over the rest of the one before.               *)
LEMMA StoreEntryStep ==
    ASSUME RunInv, StoreEntry
    PROVE  MemoryInv'
<1> DEFINE g == gcontext
           m == stored
           n == Entries
           P == PtrSize
           f == VirtualFuncs[m + 1]
<1>1. /\ stage = "fill" /\ m < n /\ stored' = m + 1 /\ prog' = prog /\ chains' = chains
      /\ shared' = Store(shared, g + m, f)
      /\ UNCHANGED <<vars, stage, next, table, receiver, gcontext, device, ran>>
  BY DEF StoreEntry, compiling, Entries
<1>2. /\ g \in Nat /\ m \in Nat /\ next \in Nat /\ n \in Nat /\ P \in Nat /\ P > 1
      /\ P * n \in Nat /\ n <= P * n /\ ran = <<>>
  BY <1>1, EntriesBytes, VirtualAssumption DEF RunInv, Progress
<1>3. /\ g # 0 /\ svmRegion + Page <= g /\ g + P * n <= next
      /\ \A a \in DOMAIN shared : a >= g => m > 0 /\ a <= g + m + P - 2
      /\ \A j \in 0 .. m - 1 : g + j \in DOMAIN shared /\ shared[g + j] = <<VirtualFuncs[j + 1], 0>>
  BY <1>1, <1>2 DEF RunInv, ContextFilled
<1>4. \A a \in DOMAIN shared : a \in Nat /\ a < next
  BY <1>1 DEF RunInv, TablesCopied
<1>5. VirtualFuncs' = VirtualFuncs /\ Entries' = n
  BY <1>1, SameEntries
<1>6. g + m + P <= next
  <2>1. m + 1 <= n
    BY <1>1, <1>2
  <2>2. m + P <= P * n
    <3>1. P * (m + 1) <= P * n /\ P * (m + 1) = P * m + P /\ m <= P * m /\ P * m \in Nat
      BY <1>2, <2>1, Z3
    <3> QED
      BY <1>2, <3>1
  <2> QED
    BY <1>2, <1>3, <2>2
<1> HIDE DEF f, n
<1>7. /\ DOMAIN shared' = DOMAIN shared \cup (g + m .. g + m + P - 1)
      /\ \A b \in g + m .. g + m + P - 1 : shared'[b] = <<f, b - (g + m)>>
      /\ \A b \in DOMAIN shared : b \notin g + m .. g + m + P - 1 => shared'[b] = shared[b]
  <2>1. shared' = [b \in DOMAIN shared \cup (g + m .. (g + m) + P - 1) |->
                      IF b \in g + m .. (g + m) + P - 1 THEN <<f, b - (g + m)>> ELSE shared[b]]
    BY <1>1 DEF Store
  <2> QED
    BY <2>1
<1>8. Progress'
  BY <1>1, <1>2 DEF RunInv, Progress, vars, Up
<1>9. \A a \in DOMAIN shared' : a \in Nat /\ a < next'
  BY <1>1, <1>2, <1>4, <1>6, <1>7
<1>10. TablesCopied'
  <2>1. \A a \in DOMAIN shared : a < g => a \in DOMAIN shared' /\ shared'[a] = shared[a]
    BY <1>2, <1>4, <1>7
  <2>2. svmRegion' = svmRegion /\ gcontext' = g /\ table' = table /\ next' = next
    BY <1>1 DEF vars
  <2> QED
    BY <1>1, <1>2, <1>3, <1>9, <2>1, <2>2, TablesKept DEF RunInv
<1>11. ContextFilled'
  <2>1. stage' = "fill" /\ gcontext' = g /\ next' = next /\ svmRegion' = svmRegion /\ stored' = m + 1
    BY <1>1 DEF vars
  <2>2. m + 1 <= n /\ n > 0
    BY <1>1, <1>2
  <2>3. ASSUME NEW a \in DOMAIN shared', a >= g PROVE a <= g + (m + 1) + P - 2
    <3>1. CASE a \in DOMAIN shared
      BY <1>2, <1>3, <1>4, <2>3, <3>1
    <3>2. CASE a \in g + m .. g + m + P - 1
      BY <1>2, <3>2
    <3> QED
      BY <1>7, <3>1, <3>2
  <2>4. ASSUME NEW j \in 0 .. m
        PROVE  g + j \in DOMAIN shared' /\ shared'[g + j] = <<VirtualFuncs[j + 1], 0>>
    <3>1. CASE j = m
      <4>1. g + m \in g + m .. g + m + P - 1 /\ (g + m) - (g + m) = 0
        BY <1>2
      <4> QED
        BY <1>7, <3>1, <4>1 DEF f
    <3>2. CASE j # m
      <4>1. j \in 0 .. m - 1 /\ g + j \notin g + m .. g + m + P - 1
        BY <1>2, <3>2
      <4> QED
        BY <1>3, <1>7, <4>1
    <3> QED
      BY <3>1, <3>2
  <2>5. ASSUME NEW k \in 0 .. P - 1
        PROVE  /\ g + (m + 1) - 1 + k \in DOMAIN shared'
               /\ shared'[g + (m + 1) - 1 + k] = <<VirtualFuncs[m + 1], k>>
    <3>1. g + (m + 1) - 1 + k = g + m + k /\ g + m + k \in g + m .. g + m + P - 1 /\ (g + m + k) - (g + m) = k
      BY <1>2
    <3> QED
      BY <1>7, <3>1 DEF f
  <2>6. (m + 1) - 1 = m /\ m + 1 > 0 /\ n # 0
    BY <1>2, <2>2
  <2> QED
    BY <1>3, <1>5, <2>1, <2>2, <2>3, <2>4, <2>5, <2>6 DEF ContextFilled
<1>12. ObjectBuilt'
  BY <1>1 DEF RunInv, ObjectBuilt
<1>13. CallRunsOverride'
  <2>1. ran' = <<>> /\ stage' # "dead"
    BY <1>1, <1>2
  <2> QED
    BY <2>1, CallsNone
<1> QED
  BY <1>8, <1>10, <1>11, <1>12, <1>13 DEF MemoryInv

(* The kernel starts, ends or makes a call: only the calls are new.         *)
LEMMA KernelKeeps ==
    ASSUME RunInv, stage \in {"fill", "kernel"}, stage' \in {"kernel", "done", "dead"},
           stage' = "kernel" => stored = Entries,
           ran' \in Seq((Classes \X Slots) \cup {Nothing}),
           UNCHANGED <<vars, prog, chains, memory, receiver, offload>>
    PROVE  Progress' /\ TablesCopied' /\ ContextFilled' /\ ObjectBuilt'
<1>1. /\ UNCHANGED <<next, shared, table, svmRegion, limit, step, gcontext, stored, device>>
      /\ prog' = prog /\ chains' = chains /\ receiver' = receiver
  BY DEF memory, vars, offload
<1>2. VirtualFuncs' = VirtualFuncs /\ Entries' = Entries
  BY SameEntries
<1>3. Progress'
  BY <1>1 DEF RunInv, Progress, Up
<1>4. TablesCopied'
  <2>1. next \in Nat /\ \A a \in DOMAIN shared : a \in Nat /\ a < next
    BY DEF RunInv, Progress, TablesCopied
  <2> QED
    BY <1>1, <2>1, TablesKept DEF RunInv
<1>5. ContextFilled'
  BY <1>1, <1>2 DEF RunInv, ContextFilled
<1>6. ObjectBuilt'
  BY <1>1 DEF RunInv, ObjectBuilt
<1> QED
  BY <1>3, <1>4, <1>5, <1>6

(* A virtual call.                                                          *)
LEMMA VirtualCallStep ==
    ASSUME RunInv, VirtualCall
    PROVE  MemoryInv'
<1> DEFINE T == (Classes \X Slots) \cup {Nothing}
           n == Len(ran) + 1
           call == prog.calls[n]
           Fine(r, c) == /\ \/ r \in {Override(receiver.class, c.slot), Nothing}
                            \/ Entries > 1 /\ (Entries - 1) % PtrSize = 0
                         /\ r = Nothing => Entries > 1 \/ receiver.class \notin Visible(c.class)
<1>1. /\ stage = "kernel" /\ stage' = stage /\ prog' = prog /\ chains' = chains
      /\ UNCHANGED <<vars, memory, receiver, offload>>
  BY DEF VirtualCall, compiling
<1>2. PICK r \in T : ran' = Append(ran, r) /\ Fine(r, call)
  BY CallResult
<1>3. ran \in Seq(T) /\ stored = Entries
  BY <1>1 DEF RunInv, Progress, ContextFilled
<1> HIDE DEF T
<1>4. /\ ran' \in Seq(T) /\ DOMAIN ran' = 1 .. n /\ ran'[n] = r
      /\ \A i \in 1 .. n - 1 : ran'[i] = ran[i] /\ i \in DOMAIN ran
      /\ n \in Nat
  BY <1>2, <1>3
<1>5. Progress' /\ TablesCopied' /\ ContextFilled' /\ ObjectBuilt'
  BY <1>1, <1>3, <1>4, KernelKeeps DEF T
<1>6. ASSUME NEW i \in DOMAIN ran' PROVE Fine(ran'[i], prog.calls[i])
  <2>1. CASE i = n
    BY <1>2, <1>4, <2>1
  <2>2. CASE i # n
    <3>1. i \in DOMAIN ran /\ ran'[i] = ran[i]
      BY <1>4, <2>2
    <3>2. Fine(ran[i], prog.calls[i])
      BY <3>1 DEF RunInv, CallRunsOverride, Entries
    <3> QED
      BY <3>1, <3>2
  <2> QED
    BY <2>1, <2>2
<1>7. CallsRight'
  <2>1. /\ Entries' = Entries /\ receiver' = receiver
        /\ \A c, s : Override(c, s)' = Override(c, s)
        /\ \A b : Visible(b)' = Visible(b)
    BY <1>1, SameEntries, SameProgram
  <2> QED
    BY <1>1, <1>6, <2>1 DEF CallsRight
<1>8. CallRunsOverride'
  BY <1>1, <1>7, CallsAnd
<1> QED
  BY <1>5, <1>8 DEF MemoryInv

(* The kernel starts, and ends.                                             *)
LEMMA LaunchStep ==
    ASSUME RunInv, Launch \/ KernelEnds
    PROVE  MemoryInv'
<1>1. /\ stage \in {"fill", "kernel"} /\ stage' \in {"kernel", "done"}
      /\ stage' = "kernel" => stored = Entries
      /\ prog' = prog /\ chains' = chains
      /\ UNCHANGED <<vars, memory, receiver, offload, ran>>
  BY DEF Launch, KernelEnds, compiling, Entries
<1>2. ran' \in Seq((Classes \X Slots) \cup {Nothing})
  BY <1>1 DEF RunInv, Progress
<1>3. Progress' /\ TablesCopied' /\ ContextFilled' /\ ObjectBuilt'
  BY <1>1, <1>2, KernelKeeps
<1>4. CallRunsOverride'
  BY <1>1, CallsKept, CallsAnd
<1> QED
  BY <1>3, <1>4 DEF MemoryInv

(* Only an object with no copied vtable makes the kernel fault.             *)
LEMMA FaultStep ==
    ASSUME RunInv, Fault
    PROVE  MemoryInv'
<1> DEFINE n == Len(ran) + 1
           s == prog.calls[n].slot
<1>1. /\ stage = "kernel" /\ stage' = "dead" /\ prog' = prog /\ chains' = chains
      /\ n - 1 < Len(prog.calls) /\ ~Readable(receiver.vptr + PtrSize * s)
      /\ UNCHANGED <<vars, memory, receiver, offload, ran>>
  BY DEF Fault, compiling
<1>2. ran' \in Seq((Classes \X Slots) \cup {Nothing}) /\ Len(ran) \in Nat
  BY <1>1 DEF RunInv, Progress
<1>3. Progress' /\ TablesCopied' /\ ContextFilled' /\ ObjectBuilt'
  BY <1>1, <1>2, KernelKeeps
<1>4. s \in Slots
  <2>1. prog \in Programs
    BY DEF RunInv, SearchInv, CompileType
  <2>2. n \in 1 .. Len(prog.calls)
    BY <1>1, <1>2, <2>1, CallsAre
  <2> HIDE DEF n
  <2> QED
    BY <2>1, <2>2, CallIs
<1>5. receiver.vptr = 2 * PtrSize
  <2>1. receiver.vptr # table[receiver.class] + 2 * PtrSize
    BY <1>1, <1>4, TableRead
  <2> QED
    BY <1>1, <2>1 DEF RunInv, ObjectBuilt
<1>6. CallRunsOverride'
  BY <1>1, <1>5, CallsKept, CallsAnd
<1> QED
  BY <1>3, <1>6 DEF MemoryInv

(* Nothing happens.                                                         *)
LEMMA QuietStep ==
    ASSUME RunInv, UNCHANGED <<vars, virtual>>
    PROVE  MemoryInv'
<1>1. /\ UNCHANGED <<vars, prog, stage, chains, next, shared, table, receiver, gcontext, stored, device, ran>>
  BY DEF virtual, compiling, memory, offload
<1>2. Progress'
  BY <1>1 DEF RunInv, Progress, vars, Up
<1>3. TablesCopied'
  <2>1. CASE stage \in {"main", "fill", "kernel"}
    <3>1. next \in Nat /\ (\A a \in DOMAIN shared : a \in Nat /\ a < next) /\ svmRegion' = svmRegion
      BY <1>1, <2>1 DEF RunInv, Progress, TablesCopied, vars
    <3> QED
      BY <1>1, <2>1, <3>1, TablesKept DEF RunInv
  <2>2. CASE stage \notin {"main", "fill", "kernel"}
    BY <1>1, <2>2 DEF TablesCopied
  <2> QED
    BY <2>1, <2>2
<1>4. ContextFilled'
  <2>1. VirtualFuncs' = VirtualFuncs /\ Entries' = Entries /\ svmRegion' = svmRegion
    BY <1>1, SameEntries DEF vars
  <2> QED
    BY <1>1, <2>1 DEF RunInv, ContextFilled
<1>5. ObjectBuilt'
  BY <1>1 DEF RunInv, ObjectBuilt
<1>6. CallRunsOverride'
  <2>1. stage = "dead" /\ gcontext # 0 => receiver.vptr = 2 * PtrSize
    BY DEF RunInv, CallRunsOverride
  <2> QED
    BY <1>1, <2>1, CallsKept, CallsAnd
<1> QED
  BY <1>2, <1>3, <1>4, <1>5, <1>6 DEF MemoryInv

(* At the start there is nothing.                                           *)
LEMMA RunInit == VirtualInit => RunInv
<1> SUFFICES ASSUME VirtualInit PROVE RunInv
  OBVIOUS
<1>1. PlaceInv /\ SearchInv
  BY PlaceInit, SearchInit DEF VirtualInit
<1>2. Progress /\ TablesCopied /\ ContextFilled /\ ObjectBuilt /\ CallRunsOverride
  BY DEF VirtualInit, Init, Progress, TablesCopied, ContextFilled, ObjectBuilt, CallRunsOverride, Up
<1> QED
  BY <1>1, <1>2 DEF RunInv

(* Every step.                                                              *)
LEMMA RunStep == RunInv /\ [VirtualNext]_<<vars, virtual>> => RunInv'
<1> SUFFICES ASSUME RunInv, [VirtualNext]_<<vars, virtual>> PROVE RunInv'
  OBVIOUS
<1>1. PlaceInv'
  BY PlacementStep, PlaceStep DEF RunInv
<1>2. SearchInv'
  BY SearchStep DEF RunInv
<1>3. MemoryInv'
  <2>1. CASE (\E c \in Classes : Explore(c)) \/ ModifyBasicBlock
    BY <2>1, CompileStep
  <2>2. CASE \E c \in Classes : Construct(c)
    BY <2>2, ConstructStep
  <2>3. CASE Startup
    BY <2>3, StartupStep
  <2>4. CASE PromoteVtables
    BY <2>4, PromoteStep
  <2>5. CASE \E d \in {"cpu", "gpu"} : Offload(d)
    BY <2>5, OffloadStep
  <2>6. CASE StoreEntry
    BY <2>6, StoreEntryStep
  <2>7. CASE Launch \/ KernelEnds
    BY <2>7, LaunchStep
  <2>8. CASE MallocFails
    BY <2>8, MallocFailsStep
  <2>9. CASE VirtualCall
    BY <2>9, VirtualCallStep
  <2>10. CASE Fault
    BY <2>10, FaultStep
  <2>11. CASE Ended \/ UNCHANGED <<vars, virtual>>
    BY <2>11, QuietStep DEF Ended
  <2> QED
    BY <2>1, <2>2, <2>3, <2>4, <2>5, <2>6, <2>7, <2>8, <2>9, <2>10, <2>11 DEF VirtualNext
<1> QED
  BY <1>1, <1>2, <1>3 DEF RunInv, MemoryInv

(* For every hierarchy, every kernel, every placement of the region and both*)
(* devices: a virtual call runs the override of the object's class or       *)
(* nothing, except where the last entry fell on another field; with one     *)
(* entry it is not lost; and only an object built before PromoteVtables     *)
(* makes the kernel fault.                                                  *)
THEOREM CallsCorrect == VirtualSpec => []CallRunsOverride
<1>1. RunInv => CallRunsOverride
  BY DEF RunInv
<1> QED
  BY RunInit, RunStep, <1>1, PTL DEF VirtualSpec
=============================================================================
