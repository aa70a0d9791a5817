------------------------- MODULE SvmAllocator_proofs -------------------------
(* Theorems about SvmAllocator, for every number of threads, every size of  *)
(* the region and any requests.                                             *)
EXTENDS SvmAllocator, NumberLemmas, FiniteSetTheorems, SequenceTheorems, TLAPS

Bins  == {"aligned", "large", "none"}
Piece == [base : Nat, size : Nat, room : Nat, free : Nat, live : BOOLEAN, bin : Bins]

(* The parts of TypeOK.                                                     *)
SharedOK   == /\ next \in Nat /\ mods \in Nat /\ mutex \in Threads \cup {NoThread}
              /\ delayed \in BOOLEAN /\ maxRequested \in Nat
CountersOK == active \in 0 .. SemaLimit /\ processing \in Nat
RawOK      == raw \in Seq(Piece) /\ place \in [Blocks -> 0 .. Len(raw)]
BlocksOK   ==
    /\ requests \in 0 .. MaxRequests
    /\ sizeOf \in [Blocks -> LargeSizes \cup {0, Slab}]
    /\ used \subseteq Blocks /\ cached \subseteq Blocks /\ leaves \subseteq Blocks
    /\ failed \subseteq Blocks /\ remembered \subseteq LargeSizes
PathOK ==
    /\ pc \in [Threads -> PCs] /\ after \in [Threads -> {"idle", "enter", "count"}]
    /\ ask \in [Threads -> 0 .. MaxRequests]
    /\ toPut \in [Threads -> SUBSET Blocks]
    /\ left \in [Threads -> 0 .. RegionsPerMiss] /\ grew \in [Threads -> BOOLEAN]
    /\ large \in [Threads -> BOOLEAN] /\ lenient \in [Threads -> BOOLEAN]
NumbersOK ==
    /\ start \in [Threads -> Nat] /\ saw \in [Threads -> Nat]
    /\ base \in [Threads -> Nat] /\ seen \in [Threads -> Nat]
    /\ adding \in [Threads -> Nat] /\ rest \in [Threads -> Nat]

(* TypeOK, part by part.                                                    *)
LEMMA TypeParts ==
    TypeOK <=> SharedOK /\ CountersOK /\ RawOK /\ BlocksOK /\ PathOK /\ NumbersOK
BY DEF TypeOK, SharedOK, CountersOK, RawOK, BlocksOK, PathOK, NumbersOK, Piece, Bins

(* A thread with a request under way knows it.                              *)
Asking(t) == \/ pc[t] \notin {"idle", "put", "putting"}
             \/ pc[t] \in {"put", "putting"} /\ after[t] # "idle"
AskInv    == \A t \in Threads : /\ Asking(t) => ask[t] \in Blocks
                                /\ pc[t] = "add" => left[t] # 0

(* Between its read and its write of nextSVMAvailable.                      *)
InRaw(t) == pc[t] \in {"bump", "store"}

(* A region about to be added is larger than its header, and of whole pages. *)
Growing(t) == pc[t] \in {"load", "bump", "store", "add"} /\ left[t] # 0
GrowInv == \A t \in Threads : Growing(t) => adding[t] > Header /\ adding[t] % Page = 0

-----------------------------------------------------------------------------
(* Constants and sizes.                                                     *)

(* What the assumptions on the constants say of sizes and bounds.           *)
LEMMA Sizes ==
    /\ Page \in Nat \ {0} /\ SvmBase \in Nat /\ SvmSize \in Nat /\ SvmLimit \in Nat
    /\ Slab \in Nat \ {0} /\ Header \in Nat \ {0} /\ SlabRegion \in Nat
    /\ SlabRegion > Header /\ SlabRegion \in Nat \ {0} /\ MinBlock \in Nat
    /\ Bootstrap \in Nat /\ Bootstrap >= Header + Slab /\ Master \in Nat \ {0}
    /\ RequestsPerRegion \in Nat \ {0}
    /\ LargeSizes \subseteq Nat \ {0, Slab}
    /\ RegionsPerMiss \in Nat \ {0} /\ SemaLimit \in Nat \ {0} /\ MaxRequests \in Nat
BY AllocatorAssumption DEF SvmLimit

(* Rounding up to a page yields an address.                                 *)
LEMMA Rounded == ASSUME NEW a \in Nat PROVE RoundUp(a) \in Nat
<1>1. Page \in Nat \ {0} /\ a + Page - 1 \in Nat
  BY Sizes
<1>2. (a + Page - 1) \div Page \in Nat
  BY <1>1, Z3
<1> QED
  BY <1>1, <1>2, Z3 DEF RoundUp

(* Every request has the size of a slab or of a large object, or none yet.  *)
LEMMA BlockSizes == ASSUME BlocksOK, NEW b \in Blocks PROVE sizeOf[b] \in Nat
<1>1. sizeOf[b] = 0 \/ sizeOf[b] = Slab \/ sizeOf[b] \in LargeSizes
  BY DEF BlocksOK
<1>2. Slab \in Nat /\ \A z \in LargeSizes : z \in Nat
  BY Sizes
<1> QED
  BY <1>1, <1>2

(* Sums of multiples of the page are multiples of the page.                 *)
LEMMA PageSum ==
    ASSUME NEW a \in Nat, NEW b \in Nat, a % Page = 0, b % Page = 0
    PROVE  (a + b) % Page = 0
<1>1. Page \in Nat \ {0}
  BY Sizes
<1>2. /\ a \div Page \in Int /\ a = Page * (a \div Page) + 0
      /\ b \div Page \in Int /\ b = Page * (b \div Page) + 0
  BY <1>1, DivMod
<1> DEFINE q == (a \div Page) + (b \div Page)
<1>3. q \in Int /\ a + b = Page * q + 0
  BY <1>1, <1>2, Z3
<1>4. Splits(a + b, Page, q, 0)
  BY <1>1, <1>3 DEF Splits
<1> QED
  BY <1>4, DivUnique

(* The pointer is page aligned, so rounding it up changes nothing.          *)
LEMMA AlignedStays == ASSUME NEW a \in Nat, a % Page = 0 PROVE RoundUp(a) = a
<1>1. Page \in Nat \ {0}
  BY Sizes
<1> DEFINE q == a \div Page
<1>2. q \in Int /\ a = Page * q + 0
  BY <1>1, DivMod
<1>3. a + Page - 1 = Page * q + (Page - 1)
  <2>1. Page * q \in Int
    BY <1>1, <1>2, Z3
  <2> DEFINE r == Page * q
  <2>2. r \in Int /\ a = r
    BY <1>2, <2>1
  <2> HIDE DEF r
  <2>3. a + Page - 1 = r + (Page - 1)
    BY <1>1, <2>2
  <2> QED
    BY <2>3 DEF r
<1>4. Splits(a + Page - 1, Page, q, Page - 1)
  BY <1>1, <1>2, <1>3 DEF Splits
<1>5. (a + Page - 1) \div Page = q
  BY <1>4, DivUnique
<1> QED
  BY <1>1, <1>2, <1>5, Z3 DEF RoundUp

(* Rounding up to whole pages takes nothing away.                           *)
LEMMA RoundedUp ==
    ASSUME NEW a \in Nat PROVE RoundUp(a) >= a /\ RoundUp(a) % Page = 0
<1>1. Page \in Nat \ {0}
  BY Sizes
<1> DEFINE q == (a + Page - 1) \div Page
           r == (a + Page - 1) % Page
<1>2. q \in Int /\ r \in 0 .. Page - 1 /\ a + Page - 1 = Page * q + r
  <2> DEFINE n == a + Page - 1
  <2>1. n \in Int
    BY <1>1
  <2> HIDE DEF n
  <2>2. n \div Page \in Int /\ n % Page \in 0 .. Page - 1
        /\ n = Page * (n \div Page) + (n % Page)
    BY <1>1, <2>1, DivMod
  <2> QED
    BY <2>2 DEF n
<1> HIDE DEF r
<1>3. RoundUp(a) = Page * q
  BY <1>1, <1>2, Z3 DEF RoundUp
<1> HIDE DEF q
<1>4. Page * q \in Int
  BY <1>1, <1>2, Z3
<1> DEFINE m == Page * q
<1>5. m \in Int /\ a + Page - 1 = m + r
  BY <1>2, <1>4
<1> HIDE DEF m
<1>6. m >= a
  BY <1>1, <1>2, <1>5
<1>7. Splits(m, Page, q, 0)
  BY <1>1, <1>2 DEF Splits, m
<1> QED
  BY <1>3, <1>6, <1>7, DivUnique DEF m

(* What askMemFromOS wants to add is larger than the header of a region,    *)
(* and of whole pages.                                                      *)
LEMMA RegionSizes ==
    ASSUME SharedOK, NEW t \in Threads, Size(t) \in Nat
    PROVE  /\ RegionSize(t) \in Nat /\ RegionSize(t) > Header
           /\ RegionSize(t) % Page = 0
<1>1. /\ SlabRegion \in Nat \ {0} /\ SlabRegion > Header /\ SlabRegion % Page = 0
      /\ Header \in Nat /\ MinBlock \in Nat \ {0} /\ RequestsPerRegion \in Nat
      /\ maxRequested \in Nat
  BY Sizes, AllocatorAssumption DEF SharedOK
<1>2. CASE ~Exact(t)
  BY <1>1, <1>2 DEF RegionSize
<1>3. CASE Exact(t)
  <2> DEFINE n == RequestsPerRegion * maxRequested + SlabRegion - 1
             many == (n \div SlabRegion) * SlabRegion
             wanted == IF Size(t) >= SlabRegion THEN Size(t) ELSE many
  <2>1. n \in Nat
    BY <1>1, Z3
  <2> HIDE DEF n
  <2>2. many \in Nat
    <3>1. n \div SlabRegion \in Nat
      BY <1>1, <2>1, Z3
    <3> QED
      BY <1>1, <3>1, Z3
  <2> HIDE DEF many
  <2>3. wanted \in Nat
    BY <2>2
  <2>4. RegionSize(t) = RoundUp(wanted + Header + MinBlock)
    BY <1>3 DEF RegionSize, n, many
  <2> HIDE DEF wanted
  <2> DEFINE a == wanted + Header + MinBlock
  <2>5. a \in Nat /\ a > Header
    BY <1>1, <2>3
  <2>6. RegionSize(t) = RoundUp(a)
    BY <2>4
  <2> HIDE DEF a
  <2>7. RoundUp(a) \in Nat /\ RoundUp(a) >= a /\ RoundUp(a) % Page = 0
    BY <2>5, Rounded, RoundedUp
  <2> QED
    BY <1>1, <2>5, <2>6, <2>7
<1> QED
  BY <1>2, <1>3

(* What addNewRegion and getBackRefSpace ask getRawMemory for.              *)
LEMMA PieceSizes ==
    ASSUME NumbersOK, GrowInv, NEW t \in Threads, InRaw(t) \/ pc[t] = "add"
    PROVE  Room(t) \in Nat /\ RawSize(t) \in Nat \ {0} /\ RawSize(t) % Page = 0
<1>1. adding[t] \in Nat
  BY DEF NumbersOK
<1>2. Slab \in Nat \ {0} /\ Header \in Nat \ {0} /\ Slab % Page = 0
  BY Sizes, AllocatorAssumption
<1>3. left[t] # 0 => adding[t] > Header /\ adding[t] % Page = 0
  BY DEF GrowInv, Growing, InRaw
<1> QED
  BY <1>1, <1>2, <1>3 DEF RawSize, Room, Direct

(* A step of a thread changes no other thread's path, and its own within types. *)
Others(t) == \A u \in Threads \ {t} : /\ pc'[u] = pc[u] /\ after'[u] = after[u]
                                      /\ ask'[u] = ask[u] /\ left'[u] = left[u]
                                      /\ adding'[u] = adding[u]
(* A step of a thread keeps every path within its types, leaves the paths   *)
(* of the other threads alone, and never forgets the request under way.     *)
LEMMA PathStep ==
    ASSUME BlocksOK, PathOK, AskInv, NEW t \in Threads, Call(t) \/ Work(t)
    PROVE  PathOK' /\ AskInv' /\ Others(t)
<1>a. RegionsPerMiss \in Nat \ {0} /\ MaxRequests \in Nat
  BY Sizes
<1>b. (Asking(t) => ask[t] \in Blocks) /\ (pc[t] = "add" => left[t] # 0)
  BY DEF AskInv
<1>c. SUFFICES PathOK' /\ Others(t) /\ (Asking(t)' => ask'[t] \in Blocks) /\ (pc'[t] = "add" => left'[t] # 0)
  BY DEF AskInv, Asking, Others, Blocks
<1>1. ASSUME AllocateSlab(t)
      PROVE  PathOK' /\ Others(t) /\ (Asking(t)' => ask'[t] \in Blocks) /\ (pc'[t] = "add" => left'[t] # 0)
  BY <1>1, <1>a, <1>b DEF AllocateSlab, PathOK, BlocksOK, Asking, Blocks, PCs, Others, Goto, shared, blocks, scans, search, rawing, puts, Request, CleanUp
<1>2. ASSUME LeafNeeded(t)
      PROVE  PathOK' /\ Others(t) /\ (Asking(t)' => ask'[t] \in Blocks) /\ (pc'[t] = "add" => left'[t] # 0)
  BY <1>2, <1>a, <1>b DEF LeafNeeded, PathOK, BlocksOK, Asking, Blocks, PCs, Others, Goto, shared, blocks, scans, search, rawing, puts, Request
<1>3. ASSUME NEW s \in LargeSizes, NEW old \in SUBSET cached, AllocateLarge(t, s, old)
      PROVE  PathOK' /\ Others(t) /\ (Asking(t)' => ask'[t] \in Blocks) /\ (pc'[t] = "add" => left'[t] # 0)
  BY <1>3, <1>a, <1>b DEF AllocateLarge, PathOK, BlocksOK, Asking, Blocks, PCs, Others, Goto, shared, blocks, scans, search, rawing, puts, Request, CleanUp
<1>4. ASSUME NEW b \in cached, NEW old \in SUBSET (cached \ {b}), AllocateCached(t, b, old)
      PROVE  PathOK' /\ Others(t) /\ (Asking(t)' => ask'[t] \in Blocks) /\ (pc'[t] = "add" => left'[t] # 0)
  BY <1>4, <1>a, <1>b DEF AllocateCached, PathOK, BlocksOK, Asking, Blocks, PCs, Others, Goto, shared, blocks, scans, search, rawing, puts, Request, CleanUp
<1>5. ASSUME NEW b \in used, FreeSlab(t, b)
      PROVE  PathOK' /\ Others(t) /\ (Asking(t)' => ask'[t] \in Blocks) /\ (pc'[t] = "add" => left'[t] # 0)
  BY <1>5, <1>a, <1>b DEF FreeSlab, PathOK, BlocksOK, Asking, Blocks, PCs, Others, Goto, shared, blocks, scans, search, rawing, puts, CleanUp
<1>6. ASSUME NEW b \in used, NEW old \in SUBSET (cached \cup {b}), FreeLarge(t, b, old)
      PROVE  PathOK' /\ Others(t) /\ (Asking(t)' => ask'[t] \in Blocks) /\ (pc'[t] = "add" => left'[t] # 0)
  BY <1>6, <1>a, <1>b DEF FreeLarge, PathOK, BlocksOK, Asking, Blocks, PCs, Others, Goto, shared, blocks, scans, search, rawing, puts, CleanUp
<1>7. ASSUME BeginPut(t)
      PROVE  PathOK' /\ Others(t) /\ (Asking(t)' => ask'[t] \in Blocks) /\ (pc'[t] = "add" => left'[t] # 0)
  BY <1>7, <1>a, <1>b DEF BeginPut, PathOK, BlocksOK, Asking, Blocks, PCs, Others, Goto, shared, blocks, scans, search, rawing, puts
<1>8. ASSUME NEW b \in Blocks, EndPut(t, b)
      PROVE  PathOK' /\ Others(t) /\ (Asking(t)' => ask'[t] \in Blocks) /\ (pc'[t] = "add" => left'[t] # 0)
  BY <1>8, <1>a, <1>b DEF EndPut, PathOK, BlocksOK, Asking, Blocks, PCs, Others, Goto, shared, blocks, scans, search, rawing, puts
<1>9. ASSUME CountMods(t)
      PROVE  PathOK' /\ Others(t) /\ (Asking(t)' => ask'[t] \in Blocks) /\ (pc'[t] = "add" => left'[t] # 0)
  BY <1>9, <1>a, <1>b DEF CountMods, PathOK, BlocksOK, Asking, Blocks, PCs, Others, Goto, shared, blocks, scans, search, rawing, puts
<1>10. ASSUME NEW p \in DOMAIN raw, ScanFinds(t, p)
      PROVE  PathOK' /\ Others(t) /\ (Asking(t)' => ask'[t] \in Blocks) /\ (pc'[t] = "add" => left'[t] # 0)
  BY <1>10, <1>a, <1>b DEF ScanFinds, PathOK, BlocksOK, Asking, Blocks, PCs, Others, Goto, shared, blocks, scans, search, rawing, puts
<1>11. ASSUME Split(t)
      PROVE  PathOK' /\ Others(t) /\ (Asking(t)' => ask'[t] \in Blocks) /\ (pc'[t] = "add" => left'[t] # 0)
  BY <1>11, <1>a, <1>b DEF Split, PathOK, BlocksOK, Asking, Blocks, PCs, Others, Goto, shared, blocks, scans, search, rawing, puts
<1>27. ASSUME NEW gone \in SUBSET DOMAIN raw, Enter(t, gone)
      PROVE  PathOK' /\ Others(t) /\ (Asking(t)' => ask'[t] \in Blocks) /\ (pc'[t] = "add" => left'[t] # 0)
  BY <1>27, <1>a, <1>b DEF Enter, PathOK, BlocksOK, Asking, Blocks, PCs, Others, Goto, shared, blocks, scans, search, rawing, puts
<1>12. ASSUME NEW old \in SUBSET cached, NEW gone \in SUBSET DOMAIN raw, ScanMisses(t, old, gone)
      PROVE  PathOK' /\ Others(t) /\ (Asking(t)' => ask'[t] \in Blocks) /\ (pc'[t] = "add" => left'[t] # 0)
  BY <1>12, <1>a, <1>b DEF ScanMisses, PathOK, BlocksOK, Asking, Blocks, PCs, Others, Goto, shared, blocks, scans, search, rawing, puts
<1>13. ASSUME Observe(t)
      PROVE  PathOK' /\ Others(t) /\ (Asking(t)' => ask'[t] \in Blocks) /\ (pc'[t] = "add" => left'[t] # 0)
  BY <1>13, <1>a, <1>b DEF Observe, PathOK, BlocksOK, Asking, Blocks, PCs, Others, Goto, shared, blocks, scans, search, rawing, puts
<1>14. ASSUME Spin(t) \/ Reread(t)
      PROVE  PathOK' /\ Others(t) /\ (Asking(t)' => ask'[t] \in Blocks) /\ (pc'[t] = "add" => left'[t] # 0)
  BY <1>14, <1>a, <1>b DEF Spin, Reread, PathOK, BlocksOK, Asking, Blocks, PCs, Others, Goto, shared, blocks, scans, search, rawing, puts
<1>15. ASSUME WaitTillBlockReleased(t)
      PROVE  PathOK' /\ Others(t) /\ (Asking(t)' => ask'[t] \in Blocks) /\ (pc'[t] = "add" => left'[t] # 0)
  BY <1>15, <1>a, <1>b DEF WaitTillBlockReleased, PathOK, BlocksOK, Asking, Blocks, PCs, Others, Goto, shared, blocks, scans, search, rawing, puts
<1>16. ASSUME Acquire(t)
      PROVE  PathOK' /\ Others(t) /\ (Asking(t)' => ask'[t] \in Blocks) /\ (pc'[t] = "add" => left'[t] # 0)
  BY <1>16, <1>a, <1>b DEF Acquire, PathOK, BlocksOK, Asking, Blocks, PCs, Others, Goto, shared, blocks, scans, search, rawing, puts
<1>17. ASSUME SemaChanged(t)
      PROVE  PathOK' /\ Others(t) /\ (Asking(t)' => ask'[t] \in Blocks) /\ (pc'[t] = "add" => left'[t] # 0)
  BY <1>17, <1>a, <1>b DEF SemaChanged, PathOK, BlocksOK, Asking, Blocks, PCs, Others, Goto, shared, blocks, scans, search, rawing, puts
<1>18. ASSUME Check(t)
      PROVE  PathOK' /\ Others(t) /\ (Asking(t)' => ask'[t] \in Blocks) /\ (pc'[t] = "add" => left'[t] # 0)
  <2>1. CASE start[t] # mods
    BY <1>18, <1>a, <1>b, <2>1 DEF Check, PathOK, Asking, PCs, Others, Goto, blocks, scans, puts
  <2>2. CASE start[t] = mods
    <3>1. PICK n \in 1 .. RegionsPerMiss : left' = [left EXCEPT ![t] = n]
      BY <1>18, <1>a, <2>2 DEF Check, Grow
    <3>2. /\ pc' = [pc EXCEPT ![t] = "load"] /\ grew' = [grew EXCEPT ![t] = FALSE]
          /\ adding' = [adding EXCEPT ![t] = RegionSize(t)]
          /\ large' = [large EXCEPT ![t] = @ \/ Exact(t)]
          /\ UNCHANGED <<after, ask, toPut, lenient>>
      BY <1>18, <2>2 DEF Check, Grow, Goto, blocks, scans, puts
    <3>3. pc[t] = "check"
      BY <1>18 DEF Check
    <3>a. Exact(t) \in BOOLEAN /\ (large[t] \/ Exact(t)) \in BOOLEAN
      BY DEF Exact
    <3>b. large' \in [Threads -> BOOLEAN]
      BY <3>2, <3>a, Zenon DEF PathOK
    <3>4. PathOK'
      BY <1>a, <3>1, <3>2, <3>b DEF PathOK, PCs
    <3> QED
      BY <1>a, <1>b, <3>1, <3>2, <3>3, <3>4 DEF PathOK, Others, Asking
  <2> QED
    BY <2>1, <2>2
<1>19. ASSUME Load(t)
      PROVE  PathOK' /\ Others(t) /\ (Asking(t)' => ask'[t] \in Blocks) /\ (pc'[t] = "add" => left'[t] # 0)
  BY <1>19, <1>a, <1>b DEF Load, PathOK, BlocksOK, Asking, Blocks, PCs, Others, Goto, shared, blocks, scans, search, rawing, puts
<1>20. ASSUME Reload(t)
      PROVE  PathOK' /\ Others(t) /\ (Asking(t)' => ask'[t] \in Blocks) /\ (pc'[t] = "add" => left'[t] # 0)
  BY <1>20, <1>a, <1>b DEF Reload, PathOK, BlocksOK, Asking, Blocks, PCs, Others, Goto, shared, blocks, scans, search, rawing, puts
<1>21. ASSUME Store(t)
      PROVE  PathOK' /\ Others(t) /\ (Asking(t)' => ask'[t] \in Blocks) /\ (pc'[t] = "add" => left'[t] # 0)
  BY <1>21, <1>a, <1>b DEF Store, Direct, PathOK, BlocksOK, Asking, Blocks, PCs, Others, Goto, shared, blocks, scans, search, rawing, puts
<1>22. ASSUME AddLeaf(t)
      PROVE  PathOK' /\ Others(t) /\ (Asking(t)' => ask'[t] \in Blocks) /\ (pc'[t] = "add" => left'[t] # 0)
  BY <1>22, <1>a, <1>b DEF AddLeaf, PathOK, BlocksOK, Asking, Blocks, PCs, Others, Goto, shared, blocks, scans, search, rawing, puts
<1>23. ASSUME AddRegion(t)
      PROVE  PathOK' /\ Others(t) /\ (Asking(t)' => ask'[t] \in Blocks) /\ (pc'[t] = "add" => left'[t] # 0)
  BY <1>23, <1>a, <1>b DEF AddRegion, PathOK, BlocksOK, Asking, Blocks, PCs, Others, Goto, shared, blocks, scans, search, rawing, puts
<1>24. ASSUME Signal(t)
      PROVE  PathOK' /\ Others(t) /\ (Asking(t)' => ask'[t] \in Blocks) /\ (pc'[t] = "add" => left'[t] # 0)
  BY <1>24, <1>a, <1>b DEF Signal, PathOK, BlocksOK, Asking, Blocks, PCs, Others, Goto, shared, blocks, scans, search, rawing, puts
<1>25. ASSUME Purge(t)
      PROVE  PathOK' /\ Others(t) /\ (Asking(t)' => ask'[t] \in Blocks) /\ (pc'[t] = "add" => left'[t] # 0)
  BY <1>25, <1>a, <1>b DEF Purge, PathOK, BlocksOK, Asking, Blocks, PCs, Others, Goto, shared, blocks, scans, search, rawing, puts
<1>26. ASSUME GiveUp(t)
      PROVE  PathOK' /\ Others(t) /\ (Asking(t)' => ask'[t] \in Blocks) /\ (pc'[t] = "add" => left'[t] # 0)
  BY <1>26, <1>a, <1>b DEF GiveUp, PathOK, BlocksOK, Asking, Blocks, PCs, Others, Goto, shared, blocks, scans, search, rawing, puts
<1> QED
  BY <1>1, <1>2, <1>3, <1>4, <1>5, <1>6, <1>7, <1>8, <1>9, <1>10, <1>11, <1>12, <1>13, <1>14, <1>15, <1>16, <1>17, <1>18, <1>19, <1>20, <1>21, <1>22, <1>23, <1>24, <1>25, <1>26, <1>27 DEF Call, Work

(* A thread that adds regions keeps to the size it decided on in Check.     *)
LEMMA GrowStep ==
    ASSUME SharedOK, BlocksOK, PathOK, NumbersOK, AskInv, GrowInv, NEW t \in Threads,
           Call(t) \/ Work(t), Others(t)
    PROVE  GrowInv'
<1>1. SUFFICES Growing(t)' => adding'[t] > Header /\ adding'[t] % Page = 0
  BY DEF GrowInv, Growing, Others
<1> USE DEF PathOK, NumbersOK, Goto
<1>2. Growing(t) => adding[t] > Header /\ adding[t] % Page = 0
  BY DEF GrowInv
<1>3. CASE Check(t)
  <2>1. CASE start[t] = mods
    <3>1. Size(t) \in Nat
      BY <1>3, BlockSizes DEF Check, AskInv, Asking, Size
    <3>2. adding' = [adding EXCEPT ![t] = RegionSize(t)]
      BY <1>3, <2>1 DEF Check, Grow
    <3> QED
      BY <3>1, <3>2, RegionSizes
  <2>2. CASE start[t] # mods
    BY <1>3, <2>2 DEF Check, Growing
  <2> QED
    BY <2>1, <2>2
<1>4. CASE Load(t) \/ Reload(t) \/ Store(t)
  BY <1>2, <1>4 DEF Load, Reload, Store, Growing, Direct
<1>11. CASE AddRegion(t)
  <2>1. pc[t] = "add" /\ left[t] # 0 /\ adding' = adding
    BY <1>11 DEF AddRegion, AskInv
  <2> QED
    BY <1>2, <2>1 DEF Growing
<1>5. CASE AllocateSlab(t) \/ LeafNeeded(t) \/ BeginPut(t) \/ CountMods(t)
  BY <1>5 DEF AllocateSlab, LeafNeeded, BeginPut, CountMods, Growing
<1>6. CASE \/ \E s \in LargeSizes, old \in SUBSET cached : AllocateLarge(t, s, old)
           \/ \E b \in cached : \E old \in SUBSET (cached \ {b}) : AllocateCached(t, b, old)
           \/ \E b \in used : \/ FreeSlab(t, b)
                              \/ \E old \in SUBSET (cached \cup {b}) : FreeLarge(t, b, old)
  BY <1>6 DEF AllocateLarge, AllocateCached, FreeSlab, FreeLarge, CleanUp, Growing
<1>7. CASE \/ \E b \in Blocks : EndPut(t, b)
           \/ \E p \in DOMAIN raw : ScanFinds(t, p)
           \/ Split(t)
  BY <1>7 DEF EndPut, ScanFinds, Split, Growing
<1>8. CASE \E gone \in SUBSET DOMAIN raw :
               Enter(t, gone) \/ \E old \in SUBSET cached : ScanMisses(t, old, gone)
  BY <1>8 DEF Enter, ScanMisses, Growing
<1>9. CASE Observe(t) \/ Spin(t) \/ Reread(t) \/ WaitTillBlockReleased(t) \/ Acquire(t) \/ SemaChanged(t)
  BY <1>9 DEF Observe, Spin, Reread, WaitTillBlockReleased, Acquire, SemaChanged, Growing
<1>10. CASE AddLeaf(t) \/ Signal(t) \/ Purge(t) \/ GiveUp(t)
  BY <1>10 DEF AddLeaf, Signal, Purge, GiveUp, Growing
<1> QED
  BY <1>3, <1>4, <1>5, <1>6, <1>7, <1>8, <1>9, <1>10, <1>11 DEF Call, Work

-----------------------------------------------------------------------------
(* The sequence of raw pieces.                                              *)

(* Where the pieces are.                                                    *)
LEMMA Pieces ==
    ASSUME RawOK
    PROVE  /\ DOMAIN raw = 1 .. Len(raw) /\ Len(raw) \in Nat
           /\ \A p \in DOMAIN raw : /\ raw[p] \in Piece /\ raw[p].free \in Nat /\ raw[p].room \in Nat
                                    /\ raw[p].live \in BOOLEAN
           /\ place \in [Blocks -> 0 .. Len(raw)]
<1>1. /\ DOMAIN raw = 1 .. Len(raw) /\ Len(raw) \in Nat
      /\ raw \in [1 .. Len(raw) -> Piece] /\ place \in [Blocks -> 0 .. Len(raw)]
  BY LenProperties DEF RawOK
<1>2. \A p \in DOMAIN raw : raw[p] \in Piece
  BY <1>1
<1> QED
  BY <1>1, <1>2 DEF Piece

(* A function on the positions of a sequence is a sequence of its length.   *)
LEMMA SameLength ==
    ASSUME NEW s \in Seq(Piece), NEW q \in [1 .. Len(s) -> Piece]
    PROVE  q \in Seq(Piece) /\ Len(q) = Len(s)
<1>1. Len(s) \in Nat
  BY LenProperties
<1>2. q \in Seq(Piece)
  BY <1>1, SeqDef
<1> QED
  BY <1>1, <1>2, LenProperties

(* The pieces handed out keep their place and size.                         *)
SameExtents ==
    /\ Len(raw') = Len(raw)
    /\ \A i \in 1 .. Len(raw) : raw'[i].base = raw[i].base /\ raw'[i].size = raw[i].size

(* Most steps leave raw memory and the place of blocks alone.               *)
LEMMA RawQuiet ==
    ASSUME NEW t \in Threads, Call(t) \/ Work(t)
    PROVE  \/ UNCHANGED <<raw, place>>
           \/ \E b \in cached : \E old \in SUBSET (cached \ {b}) : AllocateCached(t, b, old)
           \/ \E b \in Blocks : EndPut(t, b)
           \/ \E p \in DOMAIN raw : ScanFinds(t, p)
           \/ \E gone \in SUBSET DOMAIN raw :
                  \/ Enter(t, gone)
                  \/ \E old \in SUBSET cached : ScanMisses(t, old, gone)
           \/ Split(t) \/ Store(t) \/ AddRegion(t)
<1> USE DEF shared, blocks
<1>1. CASE \/ AllocateSlab(t) \/ LeafNeeded(t)
           \/ \E s \in LargeSizes, old \in SUBSET cached : AllocateLarge(t, s, old)
           \/ \E b \in used : \/ FreeSlab(t, b)
                              \/ \E old \in SUBSET (cached \cup {b}) : FreeLarge(t, b, old)
  BY <1>1 DEF AllocateSlab, LeafNeeded, AllocateLarge, FreeSlab, FreeLarge
<1>2. CASE BeginPut(t) \/ CountMods(t) \/ Observe(t) \/ Spin(t) \/ Reread(t)
  BY <1>2 DEF BeginPut, CountMods, Observe, Spin, Reread
<1>3. CASE WaitTillBlockReleased(t) \/ Acquire(t) \/ SemaChanged(t) \/ Check(t) \/ Load(t)
  BY <1>3 DEF WaitTillBlockReleased, Acquire, SemaChanged, Check, Load
<1>4. CASE Reload(t) \/ AddLeaf(t) \/ Signal(t) \/ Purge(t) \/ GiveUp(t)
  BY <1>4 DEF Reload, AddLeaf, Signal, Purge, GiveUp
<1> QED
  BY <1>1, <1>2, <1>3, <1>4 DEF Call, Work

(* Raw memory stays a sequence of pieces that blocks point into; only Store *)
(* of getRawMemory changes how far the pieces reach.                        *)
LEMMA RawStep ==
    ASSUME RawOK, BlocksOK, PathOK, NumbersOK, AskInv, GrowInv, NEW t \in Threads,
           Call(t) \/ Work(t)
    PROVE  RawOK' /\ (SameExtents \/ Store(t))
<1>a. /\ raw \in Seq(Piece) /\ Len(raw) \in Nat /\ DOMAIN raw = 1 .. Len(raw)
      /\ place \in [Blocks -> 0 .. Len(raw)]
      /\ \A i \in 1 .. Len(raw) : raw[i] \in Piece
      /\ raw \in [1 .. Len(raw) -> Piece]
  BY ElementOfSeq, LenProperties DEF RawOK
<1>b. /\ InRaw(t) \/ pc[t] = "add" => Room(t) \in Nat /\ RawSize(t) \in Nat \ {0}
      /\ ask[t] \in Blocks => Size(t) \in Nat
  BY PieceSizes, BlockSizes DEF Size
<1>c. \A i \in 1 .. Len(raw) : raw[i].free \in Nat /\ raw[i].room \in Nat
  BY <1>a DEF Piece
<1>d. Asking(t) => ask[t] \in Blocks
  BY DEF AskInv
<1>1. CASE UNCHANGED <<raw, place>>
  BY <1>1 DEF RawOK, SameExtents
<1>2. ASSUME NEW b \in cached, NEW old \in SUBSET (cached \ {b}), AllocateCached(t, b, old)
      PROVE  RawOK' /\ SameExtents
  <2>1. raw' = raw /\ place' = [place EXCEPT ![requests'] = place[b]] /\ b \in Blocks
    BY <1>2 DEF AllocateCached, shared, BlocksOK
  <2> QED
    BY <1>a, <2>1 DEF RawOK, SameExtents
<1>3. ASSUME NEW b \in Blocks, EndPut(t, b) PROVE RawOK' /\ SameExtents
  <2> DEFINE p == place[b]
             f == raw[p].free + sizeOf[b]
  <2>1. PICK e \in BOOLEAN :
            raw' = [raw EXCEPT ![p].free = IF e THEN 0 ELSE f, ![p].live = ~e]
    BY <1>3 DEF EndPut
  <2>5. place' = place
    BY <1>3 DEF EndPut, blocks
  <2>2. p \in 1 .. Len(raw) => (IF e THEN 0 ELSE f) \in Nat
    BY <1>c, BlockSizes
  <2> HIDE DEF p, f
  <2>3. (~e) \in BOOLEAN
    OBVIOUS
  <2>4. raw' \in Seq(Piece) /\ SameExtents
    <3>1. raw' \in [1 .. Len(raw) -> Piece]
      BY <1>a, <2>1, <2>2, <2>3 DEF Piece
    <3>2. \A i \in 1 .. Len(raw) : raw'[i].base = raw[i].base /\ raw'[i].size = raw[i].size
      BY <1>a, <2>1, <2>2, <2>3 DEF Piece
    <3> QED
      BY <1>a, <3>1, <3>2, SameLength DEF SameExtents
  <2> QED
    BY <1>a, <2>4, <2>5 DEF RawOK, SameExtents
<1>4. ASSUME NEW p \in DOMAIN raw, ScanFinds(t, p) PROVE RawOK' /\ SameExtents
  <2>1. ask[t] \in Blocks
    BY <1>4, <1>d DEF ScanFinds, Asking
  <2>2. PICK split \in 0 .. raw[p].free - Size(t) :
            raw' = [raw EXCEPT ![p].free = @ - Size(t) - split,
                        ![p].bin = IF Size(t) = Slab /\ @ = "aligned" THEN @ ELSE "none"]
    BY <1>4 DEF ScanFinds
  <2> DEFINE k == raw[p].free - Size(t) - split
             n == IF Size(t) = Slab /\ raw[p].bin = "aligned" THEN raw[p].bin ELSE "none"
  <2>3. k \in Nat /\ n \in Bins
    BY <1>4, <1>a, <1>b, <1>c, <2>1, <2>2 DEF Bins
  <2>9. raw' = [raw EXCEPT ![p].free = k, ![p].bin = n]
    BY <1>4, <1>a, <2>2
  <2> HIDE DEF k, n
  <2>4. raw' \in Seq(Piece) /\ SameExtents
    <3>1. raw' \in [1 .. Len(raw) -> Piece]
      BY <1>a, <2>9, <2>3 DEF Piece
    <3>2. \A i \in 1 .. Len(raw) : raw'[i].base = raw[i].base /\ raw'[i].size = raw[i].size
      BY <1>a, <2>9, <2>3 DEF Piece
    <3> QED
      BY <1>a, <3>1, <3>2, SameLength DEF SameExtents
  <2>5. place' = [place EXCEPT ![ask[t]] = p]
    BY <1>4 DEF ScanFinds
  <2>6. p \in 0 .. Len(raw) /\ Len(raw') = Len(raw)
    BY <1>a, <1>4, <2>4 DEF SameExtents
  <2>7. place \in [Blocks -> 0 .. Len(raw)]
    BY DEF RawOK
  <2>8. place' \in [Blocks -> 0 .. Len(raw')]
    BY <2>5, <2>6, <2>7
  <2> QED
    BY <2>4, <2>8 DEF RawOK
<1>5. CASE Split(t)
  <2> DEFINE p == place[ask[t]]
             f == raw[p].free + rest[t]
  <2>1. raw' = [raw EXCEPT ![p].free = f] /\ place' = place
    BY <1>5 DEF Split
  <2>2. p \in 1 .. Len(raw) => f \in Nat
    BY <1>c DEF NumbersOK
  <2> HIDE DEF p, f
  <2>3. raw' \in Seq(Piece) /\ SameExtents
    <3>1. raw' \in [1 .. Len(raw) -> Piece]
      BY <1>a, <2>1, <2>2 DEF Piece
    <3>2. \A i \in 1 .. Len(raw) : raw'[i].base = raw[i].base /\ raw'[i].size = raw[i].size
      BY <1>a, <2>1, <2>2 DEF Piece
    <3> QED
      BY <1>a, <3>1, <3>2, SameLength DEF SameExtents
  <2> QED
    BY <1>a, <2>1, <2>3 DEF RawOK, SameExtents
<1>6. CASE Store(t)
  <2>1. ask[t] \in Blocks
    BY <1>6, <1>d DEF Store, Asking
  <2> DEFINE x == [base |-> base[t], size |-> RawSize(t), room |-> Room(t),
                   free |-> 0, live |-> FALSE, bin |-> "none"]
  <2>2. raw' = Append(raw, x) /\ place' = [place EXCEPT ![ask[t]] = Len(raw')]
    BY <1>6 DEF Store
  <2>3. x \in Piece
    BY <1>b, <1>6 DEF NumbersOK, Piece, Bins, Store, InRaw
  <2> HIDE DEF x
  <2>4. raw' \in Seq(Piece) /\ Len(raw') = Len(raw) + 1
    BY <1>a, <2>2, <2>3, AppendProperties
  <2> QED
    BY <1>6, <1>a, <2>1, <2>2, <2>4 DEF RawOK
<1>7. CASE AddRegion(t)
  <2> DEFINE p == place[ask[t]]
             f == Room(t)
             n == IF Exact(t) THEN "large" ELSE "aligned"
  <2>1. /\ raw' = [raw EXCEPT ![p].free = f, ![p].live = TRUE, ![p].bin = n]
        /\ place' = place
    BY <1>7 DEF AddRegion, blocks
  <2>2. f \in Nat /\ n \in Bins
    BY <1>7, <1>b DEF AddRegion, Bins
  <2> HIDE DEF p, f, n
  <2>3. raw' \in Seq(Piece) /\ SameExtents
    <3>1. raw' \in [1 .. Len(raw) -> Piece]
      BY <1>a, <2>1, <2>2 DEF Piece
    <3>2. \A i \in 1 .. Len(raw) : raw'[i].base = raw[i].base /\ raw'[i].size = raw[i].size
      BY <1>a, <2>1, <2>2 DEF Piece
    <3> QED
      BY <1>a, <3>1, <3>2, SameLength DEF SameExtents
  <2> QED
    BY <1>a, <2>1, <2>3 DEF RawOK, SameExtents
<1>8. ASSUME NEW gone \in SUBSET DOMAIN raw, Drain(gone), place' = place
      PROVE  RawOK' /\ SameExtents
  <2>1. raw' = [p \in 1 .. Len(raw) |->
                   IF p \in gone THEN [raw[p] EXCEPT !.free = 0, !.live = FALSE] ELSE raw[p]]
    BY <1>8, <1>a DEF Drain
  <2>2. raw' \in [1 .. Len(raw) -> Piece]
    BY <1>a, <2>1 DEF Piece
  <2>3. \A i \in 1 .. Len(raw) : raw'[i].base = raw[i].base /\ raw'[i].size = raw[i].size
    BY <1>a, <2>1 DEF Piece
  <2>4. raw' \in Seq(Piece) /\ SameExtents
    BY <1>a, <2>2, <2>3, SameLength DEF SameExtents
  <2> QED
    BY <1>8, <1>a, <2>4 DEF RawOK, SameExtents
<1>9. ASSUME NEW gone \in SUBSET DOMAIN raw, NEW old \in SUBSET cached,
             Enter(t, gone) \/ ScanMisses(t, old, gone)
      PROVE  RawOK' /\ SameExtents
  BY <1>8, <1>9 DEF Enter, ScanMisses, blocks
<1> QED
  BY RawQuiet, <1>1, <1>2, <1>3, <1>4, <1>5, <1>6, <1>7, <1>9

(* The shared counters, the sets of blocks and the numbers a thread has     *)
(* read keep their types.                                                   *)
LEMMA DataStep ==
    ASSUME SharedOK, CountersOK, RawOK, BlocksOK, PathOK, NumbersOK, AskInv, GrowInv,
           NEW t \in Threads, Call(t) \/ Work(t)
    PROVE  SharedOK' /\ BlocksOK' /\ NumbersOK'
<1>a. /\ Slab \in Nat /\ MaxRequests \in Nat /\ \A z \in LargeSizes : z \in Nat
      /\ RoundUp(next) \in Nat
  BY Sizes, Rounded DEF SharedOK
<1>b. /\ InRaw(t) => RawSize(t) \in Nat
      /\ Asking(t) => Size(t) \in Nat /\ ask[t] \in Blocks
  BY PieceSizes, BlockSizes DEF AskInv, Size
<1>c. \A i \in DOMAIN raw : raw[i].free \in Nat
  <2>1. DOMAIN raw = 1 .. Len(raw) /\ \A i \in 1 .. Len(raw) : raw[i] \in Piece
    BY ElementOfSeq, LenProperties DEF RawOK
  <2> QED
    BY <2>1 DEF Piece
<1>1. ASSUME AllocateSlab(t) PROVE SharedOK' /\ BlocksOK' /\ NumbersOK'
  <2>1. SharedOK'
    BY <1>1, <1>a, <1>b
       DEF AllocateSlab, Asking, shared, queue, blocks, scans, rawing, puts, Request, CleanUp, SharedOK, NumbersOK, PathOK
  <2>2. BlocksOK'
    BY <1>1, <1>a, <1>b
       DEF AllocateSlab, Asking, shared, queue, blocks, scans, rawing, puts, Request, CleanUp, BlocksOK, Blocks, PathOK
  <2>3. NumbersOK'
    BY <1>1 DEF AllocateSlab, scans, rawing, puts, Request, NumbersOK
  <2> QED
    BY <2>1, <2>2, <2>3
<1>2. ASSUME LeafNeeded(t) PROVE SharedOK' /\ BlocksOK' /\ NumbersOK'
  <2>1. SharedOK'
    BY <1>2, <1>a, <1>b
       DEF LeafNeeded, Asking, shared, queue, blocks, scans, rawing, puts, Request, SharedOK, CountersOK, PathOK, NumbersOK
  <2>2. BlocksOK'
    BY <1>2, <1>a, <1>b
       DEF LeafNeeded, Asking, shared, queue, blocks, scans, rawing, puts, Request, BlocksOK, PathOK, Blocks
  <2>3. NumbersOK'
    BY <1>2, <1>a, <1>b
       DEF LeafNeeded, Asking, shared, queue, blocks, scans, rawing, puts, Request, SharedOK, CountersOK, PathOK, NumbersOK
  <2> QED
    BY <2>1, <2>2, <2>3
<1>3. ASSUME NEW s \in LargeSizes, NEW old \in SUBSET cached, AllocateLarge(t, s, old) PROVE SharedOK' /\ BlocksOK' /\ NumbersOK'
  <2>1. SharedOK'
    BY <1>3, <1>a, <1>b
       DEF AllocateLarge, Asking, shared, queue, blocks, scans, rawing, puts, Request, CleanUp, SharedOK, NumbersOK, PathOK
  <2>2. BlocksOK'
    BY <1>3, <1>a, <1>b
       DEF AllocateLarge, Asking, shared, queue, blocks, scans, rawing, puts, Request, CleanUp, BlocksOK, Blocks, PathOK
  <2>3. NumbersOK'
    BY <1>3, <1>a, <1>b
       DEF AllocateLarge, Asking, shared, queue, blocks, scans, rawing, puts, Request, CleanUp, NumbersOK, SharedOK, CountersOK, PathOK
  <2> QED
    BY <2>1, <2>2, <2>3
<1>4. ASSUME NEW b \in cached, NEW old \in SUBSET (cached \ {b}), AllocateCached(t, b, old) PROVE SharedOK' /\ BlocksOK' /\ NumbersOK'
  <2>1. SharedOK'
    BY <1>4, <1>a, <1>b
       DEF AllocateCached, Asking, shared, queue, blocks, scans, rawing, puts, Request, CleanUp, SharedOK, NumbersOK, PathOK
  <2>2. BlocksOK'
    BY <1>4, <1>a, <1>b
       DEF AllocateCached, Asking, shared, queue, blocks, scans, rawing, puts, Request, CleanUp, BlocksOK, Blocks, PathOK
  <2>3. NumbersOK'
    BY <1>4, <1>a, <1>b
       DEF AllocateCached, Asking, shared, queue, blocks, scans, rawing, puts, Request, CleanUp, NumbersOK, SharedOK, CountersOK, PathOK
  <2> QED
    BY <2>1, <2>2, <2>3
<1>5. ASSUME NEW b \in used, FreeSlab(t, b) PROVE SharedOK' /\ BlocksOK' /\ NumbersOK'
  <2>1. SharedOK'
    BY <1>5, <1>a, <1>b
       DEF FreeSlab, Asking, shared, queue, blocks, scans, rawing, puts, CleanUp, SharedOK, CountersOK, PathOK, NumbersOK
  <2>2. BlocksOK'
    BY <1>5, <1>a, <1>b
       DEF FreeSlab, Asking, shared, queue, blocks, scans, rawing, puts, CleanUp, BlocksOK, PathOK, Blocks
  <2>3. NumbersOK'
    BY <1>5, <1>a, <1>b
       DEF FreeSlab, Asking, shared, queue, blocks, scans, rawing, puts, CleanUp, SharedOK, CountersOK, PathOK, NumbersOK
  <2> QED
    BY <2>1, <2>2, <2>3
<1>6. ASSUME NEW b \in used, NEW old \in SUBSET (cached \cup {b}), FreeLarge(t, b, old) PROVE SharedOK' /\ BlocksOK' /\ NumbersOK'
  <2>1. SharedOK'
    BY <1>6, <1>a, <1>b
       DEF FreeLarge, Asking, shared, queue, blocks, scans, rawing, puts, CleanUp, SharedOK, CountersOK, PathOK, NumbersOK
  <2>2. BlocksOK'
    BY <1>6, <1>a, <1>b
       DEF FreeLarge, Asking, shared, queue, blocks, scans, rawing, puts, CleanUp, BlocksOK, PathOK, Blocks
  <2>3. NumbersOK'
    BY <1>6, <1>a, <1>b
       DEF FreeLarge, Asking, shared, queue, blocks, scans, rawing, puts, CleanUp, SharedOK, CountersOK, PathOK, NumbersOK
  <2> QED
    BY <2>1, <2>2, <2>3
<1>7. ASSUME BeginPut(t) PROVE SharedOK' /\ BlocksOK' /\ NumbersOK'
  BY <1>7, <1>a, <1>b
     DEF BeginPut, Asking, shared, queue, blocks, scans, rawing, puts, SharedOK, CountersOK, BlocksOK, PathOK, NumbersOK, Blocks
<1>8. ASSUME NEW b \in Blocks, EndPut(t, b) PROVE SharedOK' /\ BlocksOK' /\ NumbersOK'
  <2>1. SharedOK'
    BY <1>8, <1>a, <1>b
       DEF EndPut, Asking, shared, queue, blocks, scans, rawing, puts, SharedOK, NumbersOK, PathOK
  <2>2. BlocksOK'
    BY <1>8, <1>a, <1>b
       DEF EndPut, Asking, shared, queue, blocks, scans, rawing, puts, BlocksOK, Blocks, PathOK
  <2>3. NumbersOK'
    BY <1>8, <1>a, <1>b
       DEF EndPut, Asking, shared, queue, blocks, scans, rawing, puts, NumbersOK, SharedOK, CountersOK, PathOK
  <2> QED
    BY <2>1, <2>2, <2>3
<1>9. ASSUME CountMods(t) PROVE SharedOK' /\ BlocksOK' /\ NumbersOK'
  BY <1>9, <1>a, <1>b
     DEF CountMods, Asking, shared, queue, blocks, scans, rawing, puts, SharedOK, CountersOK, BlocksOK, PathOK, NumbersOK, Blocks
<1>10. ASSUME NEW p \in DOMAIN raw, ScanFinds(t, p) PROVE SharedOK' /\ BlocksOK' /\ NumbersOK'
  <2>1. SharedOK'
    BY <1>10, <1>a, <1>b, <1>c
       DEF ScanFinds, Asking, shared, queue, blocks, scans, rawing, puts, SharedOK, NumbersOK, PathOK
  <2>2. BlocksOK'
    BY <1>10, <1>a, <1>b, <1>c
       DEF ScanFinds, Asking, shared, queue, blocks, scans, rawing, puts, BlocksOK, Blocks, PathOK
  <2>3. NumbersOK'
    BY <1>10, <1>a, <1>b, <1>c
       DEF ScanFinds, Asking, shared, queue, blocks, scans, rawing, puts, NumbersOK, SharedOK, CountersOK, PathOK
  <2> QED
    BY <2>1, <2>2, <2>3
<1>11. ASSUME Split(t) PROVE SharedOK' /\ BlocksOK' /\ NumbersOK'
  <2>1. SharedOK'
    <3>1. /\ next' = next /\ maxRequested' = maxRequested /\ mods' = mods + 1
          /\ mutex' \in {mutex, NoThread}
      BY <1>11 DEF Split
    <3>2. delayed' \in BOOLEAN
      BY <1>11, Zenon DEF Split, SharedOK
    <3> QED
      BY <3>1, <3>2 DEF SharedOK
  <2>2. BlocksOK'
    BY <1>11, <1>a, <1>b
       DEF Split, Asking, shared, queue, blocks, scans, rawing, puts, BlocksOK, Blocks, PathOK
  <2>3. NumbersOK'
    BY <1>11, <1>a, <1>b
       DEF Split, Asking, shared, queue, blocks, scans, rawing, puts, NumbersOK, SharedOK, CountersOK, PathOK
  <2> QED
    BY <2>1, <2>2, <2>3
<1>27. ASSUME NEW gone \in SUBSET DOMAIN raw, Enter(t, gone) PROVE SharedOK' /\ BlocksOK' /\ NumbersOK'
  BY <1>27, <1>a, <1>b
     DEF Enter, Asking, shared, queue, blocks, scans, rawing, puts, SharedOK, CountersOK, BlocksOK, PathOK, NumbersOK, Blocks
<1>12. ASSUME NEW old \in SUBSET cached, NEW gone \in SUBSET DOMAIN raw, ScanMisses(t, old, gone) PROVE SharedOK' /\ BlocksOK' /\ NumbersOK'
  BY <1>12, <1>a, <1>b
     DEF ScanMisses, Asking, shared, queue, blocks, scans, rawing, puts, SharedOK, CountersOK, BlocksOK, PathOK, NumbersOK, Blocks
<1>13. ASSUME Observe(t) PROVE SharedOK' /\ BlocksOK' /\ NumbersOK'
  BY <1>13, <1>a, <1>b
     DEF Observe, Asking, shared, queue, blocks, scans, rawing, puts, SharedOK, CountersOK, BlocksOK, PathOK, NumbersOK, Blocks
<1>14. ASSUME Spin(t) \/ Reread(t) PROVE SharedOK' /\ BlocksOK' /\ NumbersOK'
  <2>1. SharedOK' /\ BlocksOK' /\ UNCHANGED <<start, base, seen, adding, rest>>
    BY <1>14 DEF Spin, Reread, shared, queue, blocks, scans, rawing, puts, SharedOK, BlocksOK
  <2>2. saw' \in [Threads -> Nat]
    <3>1. CASE Spin(t)
      BY <3>1 DEF Spin, scans, NumbersOK
    <3>2. CASE Reread(t)
      <4>1. (IF processing < saw[t] THEN 0 ELSE processing) \in Nat
        BY DEF CountersOK
      <4> QED
        BY <3>2, <4>1 DEF Reread, NumbersOK
    <3> QED
      BY <1>14, <3>1, <3>2
  <2> QED
    BY <2>1, <2>2 DEF NumbersOK
<1>15. ASSUME WaitTillBlockReleased(t) PROVE SharedOK' /\ BlocksOK' /\ NumbersOK'
  BY <1>15, <1>a, <1>b
     DEF WaitTillBlockReleased, Asking, shared, queue, blocks, scans, rawing, puts, SharedOK, CountersOK, BlocksOK, PathOK, NumbersOK, Blocks
<1>16. ASSUME Acquire(t) PROVE SharedOK' /\ BlocksOK' /\ NumbersOK'
  <2>1. SharedOK'
    BY <1>16, <1>a, <1>b
       DEF Acquire, Asking, shared, queue, blocks, scans, rawing, puts, SharedOK, NumbersOK, PathOK
  <2>2. BlocksOK'
    BY <1>16, <1>a, <1>b
       DEF Acquire, Asking, shared, queue, blocks, scans, rawing, puts, BlocksOK, Blocks, PathOK
  <2>3. NumbersOK'
    BY <1>16, <1>a, <1>b
       DEF Acquire, Asking, shared, queue, blocks, scans, rawing, puts, NumbersOK, SharedOK, CountersOK, PathOK
  <2> QED
    BY <2>1, <2>2, <2>3
<1>17. ASSUME SemaChanged(t) PROVE SharedOK' /\ BlocksOK' /\ NumbersOK'
  BY <1>17, <1>a, <1>b
     DEF SemaChanged, Asking, shared, queue, blocks, scans, rawing, puts, SharedOK, CountersOK, BlocksOK, PathOK, NumbersOK, Blocks
<1>18. ASSUME Check(t) PROVE SharedOK' /\ BlocksOK' /\ NumbersOK'
  BY <1>18, <1>a, <1>b, RegionSizes
     DEF Check, Grow, Asking, shared, queue, blocks, scans, rawing, puts, SharedOK, CountersOK, BlocksOK, PathOK, NumbersOK, Blocks
<1>19. ASSUME Load(t) PROVE SharedOK' /\ BlocksOK' /\ NumbersOK'
  BY <1>19, <1>a, <1>b
     DEF Load, Asking, shared, queue, blocks, scans, rawing, puts, SharedOK, CountersOK, BlocksOK, PathOK, NumbersOK, Blocks
<1>20. ASSUME Reload(t) PROVE SharedOK' /\ BlocksOK' /\ NumbersOK'
  BY <1>20, <1>a, <1>b
     DEF Reload, Asking, shared, queue, blocks, scans, rawing, puts, SharedOK, CountersOK, BlocksOK, PathOK, NumbersOK, Blocks
<1>21. ASSUME Store(t) PROVE SharedOK' /\ BlocksOK' /\ NumbersOK'
  <2>1. SharedOK'
    <3>1. next' = seen[t] + RawSize(t) /\ UNCHANGED <<mods, mutex, delayed, maxRequested>> /\ RawSize(t) \in Nat
      BY <1>21, <1>b DEF Store, InRaw, queue
    <3>2. seen[t] \in Nat
      BY DEF NumbersOK
    <3> QED
      BY <3>1, <3>2 DEF SharedOK
  <2>2. BlocksOK'
    BY <1>21, <1>a, <1>b
       DEF Store, Asking, shared, queue, blocks, scans, rawing, puts, BlocksOK, Blocks, PathOK
  <2>3. NumbersOK'
    BY <1>21, <1>a, <1>b
       DEF Store, Asking, shared, queue, blocks, scans, rawing, puts, NumbersOK, SharedOK, CountersOK, PathOK
  <2> QED
    BY <2>1, <2>2, <2>3
<1>22. ASSUME AddLeaf(t) PROVE SharedOK' /\ BlocksOK' /\ NumbersOK'
  BY <1>22, <1>a, <1>b
     DEF AddLeaf, Asking, shared, queue, blocks, scans, rawing, puts, SharedOK, CountersOK, BlocksOK, PathOK, NumbersOK, Blocks
<1>23. ASSUME AddRegion(t) PROVE SharedOK' /\ BlocksOK' /\ NumbersOK'
  <2>1. SharedOK'
    BY <1>23, <1>a, <1>b
       DEF AddRegion, Asking, shared, queue, blocks, scans, rawing, puts, SharedOK, NumbersOK, PathOK
  <2>2. BlocksOK'
    BY <1>23, <1>a, <1>b
       DEF AddRegion, Asking, shared, queue, blocks, scans, rawing, puts, BlocksOK, Blocks, PathOK
  <2>3. NumbersOK'
    BY <1>23, <1>a, <1>b
       DEF AddRegion, Asking, shared, queue, blocks, scans, rawing, puts, NumbersOK, SharedOK, CountersOK, PathOK
  <2> QED
    BY <2>1, <2>2, <2>3
<1>24. ASSUME Signal(t) PROVE SharedOK' /\ BlocksOK' /\ NumbersOK'
  BY <1>24, <1>a, <1>b
     DEF Signal, Asking, shared, queue, blocks, scans, rawing, puts, SharedOK, CountersOK, BlocksOK, PathOK, NumbersOK, Blocks
<1>25. ASSUME Purge(t) PROVE SharedOK' /\ BlocksOK' /\ NumbersOK'
  BY <1>25, <1>a, <1>b
     DEF Purge, Asking, shared, queue, blocks, scans, rawing, puts, SharedOK, CountersOK, BlocksOK, PathOK, NumbersOK, Blocks
<1>26. ASSUME GiveUp(t) PROVE SharedOK' /\ BlocksOK' /\ NumbersOK'
  BY <1>26, <1>a, <1>b
     DEF GiveUp, Asking, shared, queue, blocks, scans, rawing, puts, SharedOK, CountersOK, BlocksOK, PathOK, NumbersOK, Blocks
<1> QED
  BY <1>1, <1>2, <1>3, <1>4, <1>5, <1>6, <1>7, <1>8, <1>9, <1>10, <1>11, <1>12, <1>13, <1>14, <1>15, <1>16, <1>17, <1>18, <1>19, <1>20, <1>21, <1>22, <1>23, <1>24, <1>25, <1>26, <1>27 DEF Call, Work
-----------------------------------------------------------------------------
(* The counters.                                                            *)

Processes(t) == pc[t] \in {"putting", "split"}
Processors   == {t \in Threads : Processes(t)}
Extenders    == {t \in Threads : Extending(t)}

(* blocksInProcessing and MemExtendingSema count threads.                   *)
CountInv == processing = Cardinality(Processors) /\ active = Cardinality(Extenders)

(* A set that gains or loses one member gains or loses one in size.         *)
LEMMA CountChange ==
    ASSUME IsFiniteSet(Threads), NEW A \in SUBSET Threads, NEW B \in SUBSET Threads,
           NEW t \in Threads, \A u \in Threads \ {t} : u \in A <=> u \in B
    PROVE  /\ Cardinality(A) \in Nat /\ Cardinality(B) \in Nat
           /\ (t \in A <=> t \in B) => Cardinality(B) = Cardinality(A)
           /\ t \notin A /\ t \in B => Cardinality(B) = Cardinality(A) + 1
           /\ t \in A /\ t \notin B => Cardinality(B) = Cardinality(A) - 1
<1>1. IsFiniteSet(A) /\ IsFiniteSet(B)
  BY FS_Subset
<1>2. Cardinality(A) \in Nat /\ Cardinality(B) \in Nat
  BY <1>1, FS_CardinalityType
<1>3. ASSUME t \in A <=> t \in B PROVE Cardinality(B) = Cardinality(A)
  <2>1. A = B
    BY <1>3
  <2> QED
    BY <2>1
<1>4. ASSUME t \notin A, t \in B PROVE Cardinality(B) = Cardinality(A) + 1
  <2>1. B = A \cup {t}
    BY <1>4
  <2> QED
    BY <1>1, <1>4, <2>1, FS_AddElement
<1>5. ASSUME t \in A, t \notin B PROVE Cardinality(B) = Cardinality(A) - 1
  <2>1. A = B \cup {t}
    BY <1>5
  <2>2. Cardinality(A) = Cardinality(B) + 1
    BY <1>1, <1>5, <2>1, FS_AddElement
  <2> QED
    BY <1>2, <2>2
<1> QED
  BY <1>2, <1>3, <1>4, <1>5

(* By how much a step of t changes the counters.                            *)
Balanced(t) ==
    /\ (Processes(t) <=> Processes(t)') => processing' = processing
    /\ ~Processes(t) /\ Processes(t)' => processing' = processing + 1
    /\ Processes(t) /\ ~Processes(t)' => processing' = processing - 1
    /\ (Extending(t) <=> Extending(t)') => active' = active
    /\ ~Extending(t) /\ Extending(t)' => active' = active + 1 /\ active < SemaLimit
    /\ Extending(t) /\ ~Extending(t)' => active' = active - 1

(* The two counters move with the threads that hold them:                   *)
(* blocksInProcessing with a thread between BeginPut and EndPut or between  *)
(* a scan and its split, and the semaphore of the extension with a thread   *)
(* past Acquire.                                                            *)
LEMMA Balance ==
    ASSUME PathOK, AskInv, NEW t \in Threads, Call(t) \/ Work(t)
    PROVE  Balanced(t)
<1>a. RegionsPerMiss \in Nat \ {0} /\ (pc[t] = "add" => left[t] # 0)
  BY Sizes DEF AskInv
<1>1. ASSUME AllocateSlab(t) PROVE Balanced(t)
  BY <1>1, <1>a DEF AllocateSlab, Balanced, Processes, Extending, Direct, PathOK, Goto, shared, rawing, Request, CleanUp
<1>2. ASSUME LeafNeeded(t) PROVE Balanced(t)
  BY <1>2, <1>a DEF LeafNeeded, Balanced, Processes, Extending, Direct, PathOK, Goto, shared, rawing, Request
<1>3. ASSUME NEW s \in LargeSizes, NEW old \in SUBSET cached, AllocateLarge(t, s, old) PROVE Balanced(t)
  BY <1>3, <1>a DEF AllocateLarge, Balanced, Processes, Extending, Direct, PathOK, Goto, shared, rawing, Request, CleanUp
<1>4. ASSUME NEW b \in cached, NEW old \in SUBSET (cached \ {b}), AllocateCached(t, b, old) PROVE Balanced(t)
  BY <1>4, <1>a DEF AllocateCached, Balanced, Processes, Extending, Direct, PathOK, Goto, shared, rawing, Request, CleanUp
<1>5. ASSUME NEW b \in used, FreeSlab(t, b) PROVE Balanced(t)
  BY <1>5, <1>a DEF FreeSlab, Balanced, Processes, Extending, Direct, PathOK, Goto, shared, rawing, CleanUp
<1>6. ASSUME NEW b \in used, NEW old \in SUBSET (cached \cup {b}), FreeLarge(t, b, old) PROVE Balanced(t)
  BY <1>6, <1>a DEF FreeLarge, Balanced, Processes, Extending, Direct, PathOK, Goto, shared, rawing, CleanUp
<1>7. ASSUME BeginPut(t) PROVE Balanced(t)
  BY <1>7, <1>a DEF BeginPut, Balanced, Processes, Extending, Direct, PathOK, Goto, shared, rawing
<1>8. ASSUME NEW b \in Blocks, EndPut(t, b) PROVE Balanced(t)
  BY <1>8, <1>a DEF EndPut, Balanced, Processes, Extending, Direct, PathOK, Goto, shared, rawing
<1>9. ASSUME CountMods(t) PROVE Balanced(t)
  BY <1>9, <1>a DEF CountMods, Balanced, Processes, Extending, Direct, PathOK, Goto, shared, rawing
<1>10. ASSUME NEW p \in DOMAIN raw, ScanFinds(t, p) PROVE Balanced(t)
  BY <1>10, <1>a DEF ScanFinds, Balanced, Processes, Extending, Direct, PathOK, Goto, shared, rawing
<1>11. ASSUME Split(t) PROVE Balanced(t)
  BY <1>11, <1>a DEF Split, Balanced, Processes, Extending, Direct, PathOK, Goto, shared, rawing
<1>27. ASSUME NEW gone \in SUBSET DOMAIN raw, Enter(t, gone) PROVE Balanced(t)
  BY <1>27, <1>a DEF Enter, Balanced, Processes, Extending, Direct, PathOK, Goto, shared, rawing
<1>12. ASSUME NEW old \in SUBSET cached, NEW gone \in SUBSET DOMAIN raw, ScanMisses(t, old, gone) PROVE Balanced(t)
  BY <1>12, <1>a DEF ScanMisses, Balanced, Processes, Extending, Direct, PathOK, Goto, shared, rawing
<1>13. ASSUME Observe(t) PROVE Balanced(t)
  BY <1>13, <1>a DEF Observe, Balanced, Processes, Extending, Direct, PathOK, Goto, shared, rawing
<1>14. ASSUME Spin(t) \/ Reread(t) PROVE Balanced(t)
  BY <1>14, <1>a DEF Spin, Reread, Balanced, Processes, Extending, Direct, PathOK, Goto, shared, rawing
<1>15. ASSUME WaitTillBlockReleased(t) PROVE Balanced(t)
  BY <1>15, <1>a DEF WaitTillBlockReleased, Balanced, Processes, Extending, Direct, PathOK, Goto, shared, rawing
<1>16. ASSUME Acquire(t) PROVE Balanced(t)
  BY <1>16, <1>a DEF Acquire, Balanced, Processes, Extending, Direct, PathOK, Goto, shared, rawing
<1>17. ASSUME SemaChanged(t) PROVE Balanced(t)
  BY <1>17, <1>a DEF SemaChanged, Balanced, Processes, Extending, Direct, PathOK, Goto, shared, rawing
<1>18. ASSUME Check(t) PROVE Balanced(t)
  BY <1>18, <1>a DEF Check, Grow, Balanced, Processes, Extending, Direct, PathOK, Goto, shared, rawing
<1>19. ASSUME Load(t) PROVE Balanced(t)
  BY <1>19, <1>a DEF Load, Balanced, Processes, Extending, Direct, PathOK, Goto, shared, rawing
<1>20. ASSUME Reload(t) PROVE Balanced(t)
  BY <1>20, <1>a DEF Reload, Balanced, Processes, Extending, Direct, PathOK, Goto, shared, rawing
<1>21. ASSUME Store(t) PROVE Balanced(t)
  BY <1>21, <1>a DEF Store, Balanced, Processes, Extending, Direct, PathOK, Goto, shared, rawing
<1>22. ASSUME AddLeaf(t) PROVE Balanced(t)
  BY <1>22, <1>a DEF AddLeaf, Balanced, Processes, Extending, Direct, PathOK, Goto, shared, rawing
<1>23. ASSUME AddRegion(t) PROVE Balanced(t)
  BY <1>23, <1>a DEF AddRegion, Balanced, Processes, Extending, Direct, PathOK, Goto, shared, rawing
<1>24. ASSUME Signal(t) PROVE Balanced(t)
  BY <1>24, <1>a DEF Signal, Balanced, Processes, Extending, Direct, PathOK, Goto, shared, rawing
<1>25. ASSUME Purge(t) PROVE Balanced(t)
  BY <1>25, <1>a DEF Purge, Balanced, Processes, Extending, Direct, PathOK, Goto, shared, rawing
<1>26. ASSUME GiveUp(t) PROVE Balanced(t)
  BY <1>26, <1>a DEF GiveUp, Balanced, Processes, Extending, Direct, PathOK, Goto, shared, rawing
<1> QED
  BY <1>1, <1>2, <1>3, <1>4, <1>5, <1>6, <1>7, <1>8, <1>9, <1>10, <1>11, <1>12, <1>13, <1>14, <1>15, <1>16, <1>17, <1>18, <1>19, <1>20, <1>21, <1>22, <1>23, <1>24, <1>25, <1>26, <1>27 DEF Call, Work

(* Both counters stay equal to the number of threads that hold them.        *)
LEMMA CountStep ==
    ASSUME IsFiniteSet(Threads), PathOK, AskInv, CountInv, NEW t \in Threads,
           Call(t) \/ Work(t), Others(t), active \in 0 .. SemaLimit
    PROVE  CountInv' /\ CountersOK'
<1>1. Balanced(t)
  BY Balance
<1>2. /\ Processors \in SUBSET Threads /\ Processors' \in SUBSET Threads
      /\ Extenders \in SUBSET Threads /\ Extenders' \in SUBSET Threads
  BY DEF Processors, Extenders
<1>3. /\ \A u \in Threads \ {t} : (u \in Processors) <=> (u \in Processors')
      /\ \A u \in Threads \ {t} : (u \in Extenders) <=> (u \in Extenders')
  BY DEF Others, Processors, Extenders, Processes, Extending, Direct
<1>4. /\ t \in Processors <=> Processes(t)
      /\ t \in Processors' <=> Processes(t)'
      /\ t \in Extenders <=> Extending(t)
      /\ t \in Extenders' <=> Extending(t)'
  BY DEF Processors, Extenders
<1>5. processing' = Cardinality(Processors') /\ Cardinality(Processors') \in Nat
  <2> DEFINE A == Processors
             B == Processors'
  <2>1. \A u \in Threads \ {t} : u \in A <=> u \in B
    BY <1>3
  <2>2. A \in SUBSET Threads /\ B \in SUBSET Threads
    BY <1>2
  <2> HIDE DEF A, B
  <2>3. /\ Cardinality(A) \in Nat /\ Cardinality(B) \in Nat
        /\ (t \in A <=> t \in B) => Cardinality(B) = Cardinality(A)
        /\ t \notin A /\ t \in B => Cardinality(B) = Cardinality(A) + 1
        /\ t \in A /\ t \notin B => Cardinality(B) = Cardinality(A) - 1
    BY <2>1, <2>2, CountChange
  <2>4. processing = Cardinality(A) /\ (t \in A <=> Processes(t)) /\ (t \in B <=> Processes(t)')
    BY <1>4 DEF CountInv, A, B
  <2>5. processing' = Cardinality(B)
    BY <1>1, <2>3, <2>4 DEF Balanced
  <2> QED
    BY <2>3, <2>5 DEF B
<1>6. active' = Cardinality(Extenders') /\ Cardinality(Extenders') \in Nat
  <2> DEFINE A == Extenders
             B == Extenders'
  <2>1. \A u \in Threads \ {t} : u \in A <=> u \in B
    BY <1>3
  <2>2. A \in SUBSET Threads /\ B \in SUBSET Threads
    BY <1>2
  <2> HIDE DEF A, B
  <2>3. /\ Cardinality(A) \in Nat /\ Cardinality(B) \in Nat
        /\ (t \in A <=> t \in B) => Cardinality(B) = Cardinality(A)
        /\ t \notin A /\ t \in B => Cardinality(B) = Cardinality(A) + 1
        /\ t \in A /\ t \notin B => Cardinality(B) = Cardinality(A) - 1
    BY <2>1, <2>2, CountChange
  <2>4. active = Cardinality(A) /\ (t \in A <=> Extending(t)) /\ (t \in B <=> Extending(t)')
    BY <1>4 DEF CountInv, A, B
  <2>5. active' = Cardinality(B)
    BY <1>1, <2>3, <2>4 DEF Balanced
  <2> QED
    BY <2>3, <2>5 DEF B
<1>7. active' <= SemaLimit
  BY <1>1, Sizes DEF Balanced
<1> QED
  BY <1>5, <1>6, <1>7, Sizes DEF CountInv, CountersOK

-----------------------------------------------------------------------------
(* Types and counters, always.                                              *)

AllocInv == TypeOK /\ AskInv /\ GrowInv /\ CountInv

(* The invariant of types and counters holds initially.                     *)
LEMMA AllocInit == ASSUME Init PROVE AllocInv
<1> USE Sizes
<1>1. SharedOK
  <2>1. next \in Nat /\ mods \in Nat /\ mutex = NoThread /\ maxRequested \in Nat
    BY DEF Init
  <2>2. delayed \in BOOLEAN
    BY Zenon DEF Init
  <2> QED
    BY <2>1, <2>2 DEF SharedOK
<1>2. CountersOK
  BY DEF Init, CountersOK
<1>3. RawOK
  <2> DEFINE r1 == [base |-> SvmBase, size |-> Bootstrap, room |-> Bootstrap - Header,
                    free |-> Bootstrap - Header, live |-> TRUE, bin |-> "aligned"]
             r2 == [base |-> SvmBase + Bootstrap, size |-> Master, room |-> 0,
                    free |-> 0, live |-> FALSE, bin |-> "none"]
  <2>1. r1 \in Piece /\ r2 \in Piece
    BY DEF Piece, Bins
  <2>2. raw = <<r1, r2>> /\ place = [b \in Blocks |-> 0]
    BY DEF Init
  <2> HIDE DEF r1, r2
  <2>3. raw \in Seq(Piece) /\ Len(raw) = 2
    BY <2>1, <2>2
  <2> QED
    BY <2>2, <2>3 DEF RawOK
<1>4. BlocksOK
  BY DEF Init, BlocksOK
<1>5. PathOK
  BY DEF Init, PathOK, PCs
<1>6. NumbersOK
  BY DEF Init, NumbersOK
<1>7. AskInv
  BY DEF Init, AskInv, Asking
<1>9. GrowInv
  BY DEF Init, GrowInv, Growing
<1>8. CountInv
  <2>1. Processors = {} /\ Extenders = {}
    BY DEF Init, Processors, Processes, Extenders, Extending
  <2> QED
    BY <2>1, FS_EmptySet DEF Init, CountInv
<1> QED
  BY <1>1, <1>2, <1>3, <1>4, <1>5, <1>6, <1>7, <1>8, <1>9, TypeParts DEF AllocInv

(* Every step keeps the invariant of types and counters.                    *)
LEMMA AllocStep ==
    ASSUME IsFiniteSet(Threads), AllocInv, [Next]_vars
    PROVE  AllocInv'
<1>a. SharedOK /\ CountersOK /\ RawOK /\ BlocksOK /\ PathOK /\ NumbersOK
  BY TypeParts DEF AllocInv
<1>1. ASSUME NEW t \in Threads, Call(t) \/ Work(t) PROVE AllocInv'
  <2>1. PathOK' /\ AskInv' /\ Others(t)
    BY <1>a, <1>1, PathStep DEF AllocInv
  <2>2. RawOK'
    BY <1>a, <1>1, RawStep DEF AllocInv
  <2>6. GrowInv'
    BY <1>a, <1>1, <2>1, GrowStep DEF AllocInv
  <2>3. SharedOK' /\ BlocksOK' /\ NumbersOK'
    BY <1>a, <1>1, DataStep DEF AllocInv
  <2>4. CountInv' /\ CountersOK'
    BY <1>a, <1>1, <2>1, CountStep DEF AllocInv, CountersOK
  <2>5. (SharedOK /\ CountersOK /\ RawOK /\ BlocksOK /\ PathOK /\ NumbersOK)' => TypeOK'
    BY DEF TypeOK, SharedOK, CountersOK, RawOK, BlocksOK, PathOK, NumbersOK, Piece, Bins
  <2> QED
    BY <2>1, <2>2, <2>3, <2>4, <2>5, <2>6 DEF AllocInv
<1>2. CASE UNCHANGED vars
  <2>1. TypeOK'
    BY <1>2 DEF AllocInv, TypeOK, vars, shared, queue, blocks, scans, search, rawing, puts
  <2>5. GrowInv'
    BY <1>2 DEF AllocInv, GrowInv, Growing, vars, rawing
  <2>2. AskInv'
    BY <1>2 DEF AllocInv, AskInv, Asking, vars, scans, rawing, puts
  <2>3. Processors' = Processors /\ Extenders' = Extenders
    BY <1>2 DEF Processors, Processes, Extenders, Extending, Direct, vars, rawing
  <2>4. CountInv'
    BY <1>2, <2>3 DEF AllocInv, CountInv, vars, shared
  <2> QED
    BY <2>1, <2>2, <2>4, <2>5 DEF AllocInv
<1> QED
  BY <1>1, <1>2 DEF Next, Quiescent

(* Every variable keeps its type; above all the counters and the free bytes *)
(* never underflow, on no path of any number of threads.                    *)
THEOREM AllocatorTyped == ASSUME IsFiniteSet(Threads) PROVE Spec => []TypeOK
<1>1. Init => AllocInv
  BY AllocInit
<1>2. AllocInv /\ [Next]_vars => AllocInv'
  BY AllocStep
<1>3. AllocInv => TypeOK
  BY DEF AllocInv
<1> QED
  BY <1>1, <1>2, <1>3, PTL DEF Spec

(* MemExtendingSema counts exactly the threads that extend the backend, so  *)
(* no path of askMemFromOS leaks or repeats a signal.                       *)
THEOREM SemaCounts == ASSUME IsFiniteSet(Threads) PROVE Spec => []SemaExact
<1>1. Init => AllocInv
  BY AllocInit
<1>2. AllocInv /\ [Next]_vars => AllocInv'
  BY AllocStep
<1>3. AllocInv => SemaExact
  BY DEF AllocInv, CountInv, SemaExact, Extenders
<1> QED
  BY <1>1, <1>2, <1>3, PTL DEF Spec

-----------------------------------------------------------------------------
(* Where the pieces lie.                                                    *)

(* What a lock around getRawMemory would establish: one thread at a time.   *)
OneInRaw == \A t, u \in Threads : InRaw(t) /\ InRaw(u) => t = u

(* The size of a request under way is known.                                *)
SizeInv == \A t \in Threads : Asking(t) =>
               ask[t] \in 1 .. requests /\ sizeOf[ask[t]] # 0

Layout ==
    /\ next % Page = 0
    /\ \A i \in 1 .. Len(raw) : raw[i].size > 0 /\ raw[i].base <= SvmLimit /\ End(i) <= next
    /\ \A i, j \in 1 .. Len(raw) : i < j => End(i) <= raw[j].base
    /\ \A t \in Threads : InRaw(t) => base[t] = next /\ seen[t] = next /\ next <= SvmLimit

LayoutInv == AllocInv /\ SizeInv /\ Layout

(* Only getRawMemory moves the pointer.                                     *)
LEMMA PointerQuiet ==
    ASSUME PathOK, NEW t \in Threads, Call(t) \/ Work(t)
    PROVE  \/ UNCHANGED <<next, base, seen>> /\ ~InRaw(t)'
           \/ Load(t) \/ Reload(t) \/ Store(t)
<1> USE DEF shared, rawing, PathOK, InRaw, Goto
<1>1. CASE \/ AllocateSlab(t) \/ LeafNeeded(t)
           \/ \E s \in LargeSizes, old \in SUBSET cached : AllocateLarge(t, s, old)
  BY <1>1 DEF AllocateSlab, LeafNeeded, AllocateLarge, CleanUp
<1>2. CASE \/ \E b \in cached : \E old \in SUBSET (cached \ {b}) : AllocateCached(t, b, old)
           \/ \E b \in used : \/ FreeSlab(t, b)
                              \/ \E old \in SUBSET (cached \cup {b}) : FreeLarge(t, b, old)
  BY <1>2 DEF AllocateCached, FreeSlab, FreeLarge, CleanUp
<1>3. CASE BeginPut(t) \/ CountMods(t) \/ \E b \in Blocks : EndPut(t, b)
  BY <1>3 DEF BeginPut, CountMods, EndPut
<1>4. CASE \/ \E p \in DOMAIN raw : ScanFinds(t, p)
           \/ Split(t)
           \/ \E gone \in SUBSET DOMAIN raw :
                  Enter(t, gone) \/ \E old \in SUBSET cached : ScanMisses(t, old, gone)
  BY <1>4 DEF ScanFinds, Split, Enter, ScanMisses
<1>5. CASE Observe(t) \/ Spin(t) \/ Reread(t) \/ WaitTillBlockReleased(t) \/ Acquire(t) \/ SemaChanged(t)
  BY <1>5 DEF Observe, Spin, Reread, WaitTillBlockReleased, Acquire, SemaChanged
<1>6. CASE Check(t) \/ AddLeaf(t) \/ AddRegion(t)
  BY <1>6 DEF Check, Grow, AddLeaf, AddRegion
<1>7. CASE Signal(t) \/ Purge(t) \/ GiveUp(t)
  BY <1>7 DEF Signal, Purge, GiveUp
<1> QED
  BY <1>1, <1>2, <1>3, <1>4, <1>5, <1>6, <1>7 DEF Call, Work

(* The bootstrap piece and the master slab lie side by side.                *)
LEMMA LayoutInit == ASSUME Init PROVE LayoutInv
<1>1. AllocInv
  BY AllocInit
<1>2. SizeInv
  BY DEF Init, SizeInv, Asking
<1>a. /\ SvmBase \in Nat /\ Bootstrap \in Nat \ {0} /\ Master \in Nat \ {0}
      /\ Bootstrap + Master <= SvmSize /\ SvmLimit = SvmBase + SvmSize /\ SvmSize \in Nat
  BY Sizes, AllocatorAssumption DEF SvmLimit
<1>3. next % Page = 0
  <2>1. (SvmBase + Bootstrap) % Page = 0
    BY <1>a, PageSum, AllocatorAssumption
  <2> DEFINE m == SvmBase + Bootstrap
  <2>2. m \in Nat /\ m % Page = 0 /\ Master % Page = 0
    BY <1>a, <2>1, AllocatorAssumption
  <2> HIDE DEF m
  <2>3. (m + Master) % Page = 0
    BY <1>a, <2>2, PageSum
  <2> QED
    BY <2>3 DEF Init, m
<1>4. /\ Len(raw) = 2 /\ next = SvmBase + Bootstrap + Master
      /\ raw[1].base = SvmBase /\ raw[1].size = Bootstrap
      /\ raw[2].base = SvmBase + Bootstrap /\ raw[2].size = Master
  BY DEF Init
<1>5. \A t \in Threads : ~InRaw(t)
  BY DEF Init, InRaw
<1>6. 1 .. Len(raw) = {1, 2}
  BY <1>4
<1>7. \A i \in 1 .. Len(raw) : raw[i].size > 0 /\ raw[i].base <= SvmLimit /\ End(i) <= next
  BY <1>a, <1>4, <1>6 DEF End
<1>8. \A i, j \in 1 .. Len(raw) : i < j => End(i) <= raw[j].base
  BY <1>a, <1>4, <1>6 DEF End
<1> QED
  BY <1>1, <1>2, <1>3, <1>5, <1>7, <1>8 DEF LayoutInv, Layout

(* A request keeps the size it was made with.                               *)
SizeKept(t) ==
    /\ requests' \in Nat /\ requests <= requests'
    /\ \A b \in 1 .. requests : sizeOf'[b] = sizeOf[b]
    /\ Asking(t)' => \/ Asking(t) /\ ask'[t] = ask[t]
                     \/ ask'[t] \in 1 .. requests' /\ sizeOf'[ask'[t]] # 0

(* A step never changes the size of a request already made.                 *)
LEMMA SizesKept ==
    ASSUME BlocksOK, PathOK, SizeInv, NEW t \in Threads, Call(t) \/ Work(t), Others(t)
    PROVE  SizeKept(t)
<1>a. MaxRequests \in Nat /\ Slab # 0 /\ \A s \in LargeSizes : s # 0
  BY Sizes
<1>b. requests \in 0 .. MaxRequests /\ sizeOf \in [Blocks -> LargeSizes \cup {0, Slab}]
  BY DEF BlocksOK
<1>1. ASSUME AllocateSlab(t) PROVE SizeKept(t)
  BY <1>1, <1>a, <1>b DEF AllocateSlab, SizeKept, PathOK, Asking, Blocks, Goto, blocks, scans, puts, Request, CleanUp
<1>2. ASSUME LeafNeeded(t) PROVE SizeKept(t)
  BY <1>2, <1>a, <1>b DEF LeafNeeded, SizeKept, PathOK, Asking, Blocks, Goto, blocks, scans, puts, Request
<1>3. ASSUME NEW s \in LargeSizes, NEW old \in SUBSET cached, AllocateLarge(t, s, old) PROVE SizeKept(t)
  BY <1>3, <1>a, <1>b DEF AllocateLarge, SizeKept, PathOK, Asking, Blocks, Goto, blocks, scans, puts, Request, CleanUp
<1>4. ASSUME NEW b \in cached, NEW old \in SUBSET (cached \ {b}), AllocateCached(t, b, old) PROVE SizeKept(t)
  BY <1>4, <1>a, <1>b DEF AllocateCached, SizeKept, PathOK, Asking, Blocks, Goto, blocks, scans, puts, Request, CleanUp
<1>5. ASSUME NEW b \in used, FreeSlab(t, b) PROVE SizeKept(t)
  BY <1>5, <1>a, <1>b DEF FreeSlab, SizeKept, PathOK, Asking, Blocks, Goto, blocks, scans, puts, CleanUp
<1>6. ASSUME NEW b \in used, NEW old \in SUBSET (cached \cup {b}), FreeLarge(t, b, old) PROVE SizeKept(t)
  BY <1>6, <1>a, <1>b DEF FreeLarge, SizeKept, PathOK, Asking, Blocks, Goto, blocks, scans, puts, CleanUp
<1>7. ASSUME BeginPut(t) PROVE SizeKept(t)
  BY <1>7, <1>a, <1>b DEF BeginPut, SizeKept, PathOK, Asking, Blocks, Goto, blocks, scans, puts
<1>8. ASSUME NEW b \in Blocks, EndPut(t, b) PROVE SizeKept(t)
  BY <1>8, <1>a, <1>b DEF EndPut, SizeKept, PathOK, Asking, Blocks, Goto, blocks, scans, puts
<1>9. ASSUME CountMods(t) PROVE SizeKept(t)
  BY <1>9, <1>a, <1>b DEF CountMods, SizeKept, PathOK, Asking, Blocks, Goto, blocks, scans, puts
<1>10. ASSUME NEW p \in DOMAIN raw, ScanFinds(t, p) PROVE SizeKept(t)
  BY <1>10, <1>a, <1>b DEF ScanFinds, SizeKept, PathOK, Asking, Blocks, Goto, blocks, scans, puts
<1>11. ASSUME Split(t) PROVE SizeKept(t)
  BY <1>11, <1>a, <1>b DEF Split, SizeKept, PathOK, Asking, Blocks, Goto, blocks, scans, puts
<1>27. ASSUME NEW gone \in SUBSET DOMAIN raw, Enter(t, gone) PROVE SizeKept(t)
  BY <1>27, <1>a, <1>b DEF Enter, SizeKept, PathOK, Asking, Blocks, Goto, blocks, scans, puts
<1>12. ASSUME NEW old \in SUBSET cached, NEW gone \in SUBSET DOMAIN raw, ScanMisses(t, old, gone) PROVE SizeKept(t)
  BY <1>12, <1>a, <1>b DEF ScanMisses, SizeKept, PathOK, Asking, Blocks, Goto, blocks, scans, puts
<1>13. ASSUME Observe(t) PROVE SizeKept(t)
  BY <1>13, <1>a, <1>b DEF Observe, SizeKept, PathOK, Asking, Blocks, Goto, blocks, scans, puts
<1>14. ASSUME Spin(t) \/ Reread(t) PROVE SizeKept(t)
  BY <1>14, <1>a, <1>b DEF Spin, Reread, SizeKept, PathOK, Asking, Blocks, Goto, blocks, scans, puts
<1>15. ASSUME WaitTillBlockReleased(t) PROVE SizeKept(t)
  BY <1>15, <1>a, <1>b DEF WaitTillBlockReleased, SizeKept, PathOK, Asking, Blocks, Goto, blocks, scans, puts
<1>16. ASSUME Acquire(t) PROVE SizeKept(t)
  BY <1>16, <1>a, <1>b DEF Acquire, SizeKept, PathOK, Asking, Blocks, Goto, blocks, scans, puts
<1>17. ASSUME SemaChanged(t) PROVE SizeKept(t)
  BY <1>17, <1>a, <1>b DEF SemaChanged, SizeKept, PathOK, Asking, Blocks, Goto, blocks, scans, puts
<1>18. ASSUME Check(t) PROVE SizeKept(t)
  BY <1>18, <1>a, <1>b DEF Check, Grow, SizeKept, PathOK, Asking, Blocks, Goto, blocks, scans, puts
<1>19. ASSUME Load(t) PROVE SizeKept(t)
  BY <1>19, <1>a, <1>b DEF Load, SizeKept, PathOK, Asking, Blocks, Goto, blocks, scans, puts
<1>20. ASSUME Reload(t) PROVE SizeKept(t)
  BY <1>20, <1>a, <1>b DEF Reload, SizeKept, PathOK, Asking, Blocks, Goto, blocks, scans, puts
<1>21. ASSUME Store(t) PROVE SizeKept(t)
  BY <1>21, <1>a, <1>b DEF Store, SizeKept, PathOK, Asking, Blocks, Goto, blocks, scans, puts
<1>22. ASSUME AddLeaf(t) PROVE SizeKept(t)
  BY <1>22, <1>a, <1>b DEF AddLeaf, SizeKept, PathOK, Asking, Blocks, Goto, blocks, scans, puts
<1>23. ASSUME AddRegion(t) PROVE SizeKept(t)
  BY <1>23, <1>a, <1>b DEF AddRegion, SizeKept, PathOK, Asking, Blocks, Goto, blocks, scans, puts
<1>24. ASSUME Signal(t) PROVE SizeKept(t)
  BY <1>24, <1>a, <1>b DEF Signal, SizeKept, PathOK, Asking, Blocks, Goto, blocks, scans, puts
<1>25. ASSUME Purge(t) PROVE SizeKept(t)
  BY <1>25, <1>a, <1>b DEF Purge, SizeKept, PathOK, Asking, Blocks, Goto, blocks, scans, puts
<1>26. ASSUME GiveUp(t) PROVE SizeKept(t)
  BY <1>26, <1>a, <1>b DEF GiveUp, SizeKept, PathOK, Asking, Blocks, Goto, blocks, scans, puts
<1> QED
  BY <1>1, <1>2, <1>3, <1>4, <1>5, <1>6, <1>7, <1>8, <1>9, <1>10, <1>11, <1>12, <1>13, <1>14, <1>15, <1>16, <1>17, <1>18, <1>19, <1>20, <1>21, <1>22, <1>23, <1>24, <1>25, <1>26, <1>27 DEF Call, Work

(* So every request under way keeps the size it was made with.              *)
LEMMA SizeStep ==
    ASSUME BlocksOK, PathOK, SizeInv, NEW t \in Threads, Call(t) \/ Work(t), Others(t)
    PROVE  SizeInv'
<1>b. requests \in 0 .. MaxRequests /\ sizeOf \in [Blocks -> LargeSizes \cup {0, Slab}]
  BY DEF BlocksOK
<1>27. SizeKept(t)
  BY SizesKept
<1> SUFFICES ASSUME NEW u \in Threads, Asking(u)'
             PROVE  ask'[u] \in 1 .. requests' /\ sizeOf'[ask'[u]] # 0
  BY DEF SizeInv
<1>28. Asking(u) => ask[u] \in 1 .. requests /\ sizeOf[ask[u]] # 0
  BY DEF SizeInv
<1>29. CASE u = t
  <2>1. CASE ask'[t] \in 1 .. requests' /\ sizeOf'[ask'[t]] # 0
    BY <1>29, <2>1
  <2>2. CASE Asking(t) /\ ask'[t] = ask[t]
    BY <1>27, <1>28, <1>29, <1>b, <2>2 DEF SizeKept, BlocksOK
  <2> QED
    BY <1>27, <1>29, <2>1, <2>2 DEF SizeKept
<1>30. CASE u # t
  <2>1. Asking(u) /\ ask'[u] = ask[u]
    BY <1>30 DEF Others, Asking
  <2> QED
    BY <1>27, <1>28, <1>b, <2>1 DEF SizeKept
<1> QED
  BY <1>29, <1>30

(* While one thread at a time is in getRawMemory, every step keeps the      *)
(* pieces in order, side by side.                                           *)
LEMMA LayoutStep ==
    ASSUME IsFiniteSet(Threads), LayoutInv, [Next]_vars, OneInRaw, OneInRaw'
    PROVE  LayoutInv'
<1>a. AllocInv /\ SizeInv /\ Layout
  BY DEF LayoutInv
<1>b. SharedOK /\ CountersOK /\ RawOK /\ BlocksOK /\ PathOK /\ NumbersOK /\ AskInv
      /\ GrowInv
  BY <1>a, TypeParts DEF AllocInv
<1>c. AllocInv'
  BY <1>a, AllocStep
<1>d. /\ next \in Nat /\ RoundUp(next) = next /\ Page \in Nat \ {0} /\ SvmLimit \in Nat
      /\ Len(raw) \in Nat
      /\ \A i \in 1 .. Len(raw) : raw[i].base \in Nat /\ raw[i].size \in Nat
  <2>1. \A i \in 1 .. Len(raw) : raw[i] \in Piece
    BY <1>b, ElementOfSeq DEF RawOK
  <2> QED
    BY <1>a, <1>b, <2>1, AlignedStays, Sizes, LenProperties DEF SharedOK, Layout, RawOK, Piece
<1>1. ASSUME NEW t \in Threads, Call(t) \/ Work(t) PROVE LayoutInv'
  <2>1. Others(t)
    BY <1>b, <1>1, PathStep
  <2>2. SizeInv'
    BY <1>a, <1>b, <1>1, <2>1, SizeStep
  <2>3. RawOK' /\ (SameExtents \/ Store(t))
    BY <1>b, <1>1, RawStep
  <2>4. \A u \in Threads \ {t} : (pc'[u] \in {"bump", "store"}) <=> InRaw(u)
    BY <2>1 DEF Others, InRaw
  <2>5. ASSUME SameExtents, next' = next,
               \A u \in Threads : pc'[u] \in {"bump", "store"} => /\ base'[u] = next /\ seen'[u] = next
                                               /\ next <= SvmLimit
        PROVE  Layout'
    <3>1. \A i \in 1 .. Len(raw) : raw'[i].base + raw'[i].size = End(i)
      BY <2>5 DEF SameExtents, End
    <3> QED
      BY <1>a, <2>5, <3>1 DEF Layout, SameExtents, InRaw, End
  <2>6. ASSUME UNCHANGED <<next, base, seen>>, pc'[t] \notin {"bump", "store"}, SameExtents
        PROVE  Layout'
    BY <1>a, <2>4, <2>5, <2>6 DEF Layout, InRaw
  <2>7. ASSUME Load(t) PROVE Layout'
    <3>1. base' = [base EXCEPT ![t] = next] /\ seen' = [seen EXCEPT ![t] = next]
      BY <1>d, <2>7 DEF Load
    <3>2. UNCHANGED <<next, raw>>
      BY <2>7 DEF Load, shared
    <3>3. pc'[t] \in {"bump", "store"} => next <= SvmLimit
      BY <1>b, <1>d, <2>7 DEF Load, InRaw, Goto, PathOK, NumbersOK
    <3>4. \A u \in Threads : pc'[u] \in {"bump", "store"} => base'[u] = next /\ seen'[u] = next /\ next <= SvmLimit
      BY <1>a, <1>b, <2>4, <3>1, <3>3 DEF Layout, NumbersOK
    <3>5. SameExtents
      BY <3>2 DEF SameExtents
    <3> QED
      BY <2>5, <3>2, <3>4, <3>5
  <2>8. ASSUME Reload(t) PROVE Layout'
    <3>1. base' = base /\ seen' = [seen EXCEPT ![t] = next] /\ InRaw(t)
      BY <2>8 DEF Reload, InRaw
    <3>2. UNCHANGED <<next, raw>>
      BY <2>8 DEF Reload, shared
    <3>3. \A u \in Threads : pc'[u] \in {"bump", "store"} => base'[u] = next /\ seen'[u] = next /\ next <= SvmLimit
      BY <1>a, <1>b, <2>4, <3>1 DEF Layout, NumbersOK
    <3>4. SameExtents
      BY <3>2 DEF SameExtents
    <3> QED
      BY <2>5, <3>2, <3>3, <3>4
  <2>9. CASE Store(t)
    <3>1. InRaw(t)
      BY <2>9 DEF Store, InRaw
    <3>2. base[t] = next /\ seen[t] = next /\ next <= SvmLimit
      BY <1>a, <3>1 DEF Layout
    <3>3. RawSize(t) \in Nat \ {0} /\ RawSize(t) % Page = 0
      BY <1>b, <3>1, PieceSizes
    <3> DEFINE x == [base |-> base[t], size |-> RawSize(t), room |-> Room(t),
                     free |-> 0, live |-> FALSE, bin |-> "none"]
               n == Len(raw)
    <3>4. raw' = Append(raw, x) /\ next' = next + RawSize(t)
      BY <2>9, <3>2 DEF Store
    <3>5. x \in Piece
      BY <1>b, <3>1, <3>3, PieceSizes DEF NumbersOK, Piece, Bins
    <3>6. x.base = next /\ x.size = RawSize(t)
      BY <3>2
    <3> HIDE DEF x
    <3>7. /\ Len(raw') = n + 1 /\ raw'[n + 1] = x
          /\ \A i \in 1 .. n : raw'[i] = raw[i]
      BY <1>b, <3>4, <3>5, AppendProperties DEF RawOK
    <3>8. next' % Page = 0
      BY <1>a, <1>d, <3>3, <3>4, PageSum DEF Layout
    <3>9. \A u \in Threads : pc'[u] \notin {"bump", "store"}
      <4>1. pc'[t] \notin {"bump", "store"}
        BY <1>b, <2>9 DEF Store, InRaw, Goto, PathOK
      <4> QED
        BY <2>4, <3>1, <4>1 DEF OneInRaw
    <3>10. /\ \A i \in 1 .. n : raw'[i].base + raw'[i].size = End(i) /\ End(i) <= next /\ raw[i].base <= SvmLimit
                               /\ raw[i].size > 0
           /\ raw'[n + 1].base + raw'[n + 1].size = next + RawSize(t)
      BY <1>a, <3>6, <3>7 DEF End, Layout
    <3>11. \A i \in 1 .. n + 1 : /\ raw'[i].size > 0 /\ raw'[i].base <= SvmLimit
                                 /\ raw'[i].base + raw'[i].size <= next'
      <4>1. ASSUME NEW i \in 1 .. n
            PROVE  raw'[i].size > 0 /\ raw'[i].base <= SvmLimit /\ raw'[i].base + raw'[i].size <= next'
        <5>1. End(i) \in Nat
          BY <1>d DEF End
        <5> QED
          BY <1>d, <3>3, <3>4, <3>7, <3>10, <5>1
      <4>2. raw'[n + 1].size > 0 /\ raw'[n + 1].base <= SvmLimit /\ raw'[n + 1].base + raw'[n + 1].size <= next'
        BY <1>d, <3>2, <3>3, <3>4, <3>6, <3>7, <3>10
      <4> QED
        BY <1>d, <4>1, <4>2
    <3>12. \A i, j \in 1 .. n + 1 : i < j => raw'[i].base + raw'[i].size <= raw'[j].base
      <4>1. ASSUME NEW i \in 1 .. n, NEW j \in 1 .. n, i < j PROVE raw'[i].base + raw'[i].size <= raw'[j].base
        BY <1>a, <3>7, <3>10, <4>1 DEF Layout
      <4>2. ASSUME NEW i \in 1 .. n PROVE raw'[i].base + raw'[i].size <= raw'[n + 1].base
        BY <3>6, <3>7, <3>10
      <4> QED
        BY <1>d, <4>1, <4>2
    <3>13. Layout'
      BY <3>7, <3>8, <3>9, <3>11, <3>12 DEF Layout, InRaw, End
    <3> QED
      BY <1>c, <2>2, <3>13 DEF LayoutInv
  <2>10. CASE ~Store(t)
    <3>1. SameExtents
      BY <2>3, <2>10
    <3>2. Layout'
      BY <1>b, <1>1, <2>6, <2>7, <2>8, <2>10, <3>1, PointerQuiet DEF InRaw
    <3> QED
      BY <1>c, <2>2, <3>2 DEF LayoutInv
  <2> QED
    BY <2>9, <2>10
<1>2. CASE UNCHANGED vars
  <2>1. SizeInv'
    BY <1>2, <1>a DEF SizeInv, Asking, vars, blocks, scans, puts
  <2>2. Layout'
    BY <1>2, <1>a DEF Layout, InRaw, End, vars, shared, rawing
  <2> QED
    BY <1>c, <2>1, <2>2 DEF LayoutInv
<1> QED
  BY <1>1, <1>2 DEF Next, Quiescent

(* If no thread enters getRawMemory between another one's read and write of *)
(* nextSVMAvailable, two pieces of raw memory never share a byte: the race  *)
(* that breaks ParallelExtension is the only thing wrong with the bump      *)
(* pointer.                                                                 *)
LEMMA PiecesApart ==
    ASSUME IsFiniteSet(Threads) PROVE Spec /\ []OneInRaw => []NoOverlap
<1>1. Init => LayoutInv
  BY LayoutInit
<1>2. LayoutInv /\ OneInRaw /\ OneInRaw' /\ [Next]_vars => LayoutInv'
  BY LayoutStep
<1>3. LayoutInv => NoOverlap
  <2> SUFFICES ASSUME LayoutInv, NEW p \in DOMAIN raw, NEW q \in DOMAIN raw, p < q
               PROVE  End(p) <= raw[q].base
    BY DEF NoOverlap
  <2>1. DOMAIN raw = 1 .. Len(raw)
    BY TypeParts, LenProperties DEF LayoutInv, AllocInv, RawOK
  <2> QED
    BY <2>1 DEF LayoutInv, Layout
<1> QED
  BY <1>1, <1>2, <1>3, PTL DEF Spec

(* Under the same condition at most one piece reaches over the limit of the *)
(* region, and it is the last: the missing `+ size' of backend.cpp:71 never *)
(* costs more.                                                              *)
LEMMA OneOverrun ==
    ASSUME IsFiniteSet(Threads) PROVE Spec /\ []OneInRaw => []OverrunBounded
<1>1. Init => LayoutInv
  BY LayoutInit
<1>2. LayoutInv /\ OneInRaw /\ OneInRaw' /\ [Next]_vars => LayoutInv'
  BY LayoutStep
<1>3. LayoutInv => OverrunBounded
  <2> SUFFICES ASSUME LayoutInv, NEW p \in DOMAIN raw, NEW q \in DOMAIN raw,
                      End(p) > SvmLimit, raw[p].base <= raw[q].base
               PROVE  p = q
    BY DEF OverrunBounded
  <2>1. /\ DOMAIN raw = 1 .. Len(raw) /\ Len(raw) \in Nat
        /\ \A i \in 1 .. Len(raw) : raw[i] \in Piece
    BY TypeParts, LenProperties, ElementOfSeq DEF LayoutInv, AllocInv, RawOK
  <2>2. /\ raw[p].base \in Nat /\ raw[p].size \in Nat /\ raw[q].base \in Nat
        /\ raw[q].size \in Nat /\ SvmLimit \in Nat
    BY <2>1, Sizes DEF Piece
  <2>3. Layout
    BY DEF LayoutInv
  <2>4. CASE p < q
    <3>1. End(p) <= raw[q].base /\ raw[q].base <= SvmLimit
      BY <2>1, <2>3, <2>4 DEF Layout
    <3> QED
      BY <2>2, <3>1 DEF End
  <2>5. CASE q < p
    <3>1. End(q) <= raw[p].base /\ raw[q].size > 0
      BY <2>1, <2>3, <2>5 DEF Layout
    <3> QED
      BY <2>2, <3>1 DEF End
  <2> QED
    BY <2>1, <2>4, <2>5
<1> QED
  BY <1>1, <1>2, <1>3, PTL DEF Spec

(* In a program with one thread two pieces of raw memory never share a      *)
(* byte, whatever sizes it asks for.                                        *)
THEOREM OneThreadApart ==
    ASSUME NEW t, Threads = {t} PROVE Spec => []NoOverlap
<1>1. IsFiniteSet(Threads)
  BY FS_Singleton
<1>2. OneInRaw
  BY DEF OneInRaw
<1>3. []OneInRaw
  BY <1>2, PTL
<1> QED
  BY <1>1, <1>3, PiecesApart, PTL

(* And at most one piece of it reaches over the limit of the region, the    *)
(* last: the missing `+ size' of backend.cpp:71 never costs more.           *)
THEOREM OneThreadOverrun ==
    ASSUME NEW t, Threads = {t} PROVE Spec => []OverrunBounded
<1>1. IsFiniteSet(Threads)
  BY FS_Singleton
<1>2. OneInRaw
  BY DEF OneInRaw
<1>3. []OneInRaw
  BY <1>2, PTL
<1> QED
  BY <1>1, <1>3, OneOverrun, PTL

-----------------------------------------------------------------------------
(* When NULL is returned to a program with one thread.                      *)

(* In the search for a block, past the drain at its start.                  *)
Adding(t)  == pc[t] \in {"load", "bump", "store", "add"} /\ ~Direct(t)
Seeking(t) == \/ pc[t] \in {"count", "scan", "full", "observe", "wait", "changed", "acquire",
                            "check", "signal", "purge", "lastObserve", "lastWait",
                            "lastChanged"}
              \/ Adding(t) \/ (pc[t] \in {"put", "putting"} /\ after[t] = "count")

(* Past a scan that found nothing, and no region added since.               *)
Sought(t)  == \/ pc[t] \in {"observe", "wait", "changed", "acquire", "check", "purge",
                            "lastObserve", "lastWait", "lastChanged"}
              \/ (Adding(t) \/ pc[t] = "signal") /\ ~grew[t]

(* The pointer was found behind the limit, without a region added before.   *)
UsedUp(t)  == \/ pc[t] \in {"purge", "lastObserve", "lastWait", "lastChanged"}
              \/ pc[t] = "signal" /\ ~grew[t]

(* No region, or no block in the bins of large ones, would do.              *)
Without(t)      == \A p \in DOMAIN raw : ~Offers(p, Size(t))
WithoutLarge(t) == \A p \in DOMAIN raw : raw[p].bin = "large" => ~Offers(p, Size(t))

(* Whoever leaves out large blocks knows that there are none: whatever adds *)
(* any has the search take them in.                                         *)
LargeInv(t) ==
    /\ pc[t] \in {"put", "putting"} /\ after[t] = "count" => large[t]
    /\ Adding(t) /\ Exact(t) => large[t]
    /\ Seeking(t) => large[t] \/ WithoutLarge(t)

ResortInv(t) ==
    /\ ~delayed /\ LargeInv(t)
    /\ Sought(t) => Without(t)
    /\ UsedUp(t) => RoundUp(next) > SvmLimit
    /\ pc[t] \in {"lastObserve", "lastWait", "lastChanged"} => cached = {}

(* The invariant of the last resort holds initially.                        *)
LEMMA ResortInit == ASSUME NEW t, Threads = {t}, Init PROVE ResortInv(t)
BY DEF Init, ResortInv, LargeInv, Seeking, Sought, UsedUp, Adding

(* Steps that end the search, or do not begin it.                           *)
LEMMA ResortAside ==
    ASSUME NEW t \in Threads, ~delayed',
           \/ pc'[t] \in {"idle", "enter", "split", "leaf"}
           \/ pc'[t] = "load" /\ left'[t] = 0
           \/ pc'[t] = "put" /\ after'[t] # "count"
    PROVE  ResortInv(t)'
BY DEF ResortInv, LargeInv, Seeking, Sought, UsedUp, Adding, Direct

(* Every step of the only thread keeps the invariant of the last resort:    *)
(* blocks only come back to the bins, and regions are only added, when the  *)
(* search takes large blocks in again.                                      *)
LEMMA ResortStep ==
    ASSUME NEW t, Threads = {t}, AllocInv, ResortInv(t), Call(t) \/ Work(t)
    PROVE  ResortInv(t)'
<1>a. SharedOK /\ RawOK /\ BlocksOK /\ PathOK /\ NumbersOK /\ AskInv /\ t \in Threads
  BY TypeParts DEF AllocInv
<1>b. /\ pc \in [Threads -> PCs] /\ after \in [Threads -> {"idle", "enter", "count"}]
      /\ left \in [Threads -> 0 .. RegionsPerMiss] /\ grew \in [Threads -> BOOLEAN]
      /\ large \in [Threads -> BOOLEAN] /\ base \in [Threads -> Nat]
  BY <1>a DEF PathOK, NumbersOK
<1>c. ~Disturbed(t) /\ ~delayed
  BY DEF Disturbed, ResortInv
<1>d. \A gone \in SUBSET DOMAIN raw : Drain(gone) => raw' = raw
  <2>1. raw = [p \in DOMAIN raw |-> raw[p]]
    BY <1>a DEF RawOK
  <2> QED
    BY <1>c, <2>1 DEF Drain
<1>e. ASSUME UNCHANGED <<raw, sizeOf, ask>>
      PROVE  /\ Without(t)' <=> Without(t)
             /\ WithoutLarge(t)' <=> WithoutLarge(t)
             /\ Exact(t)' <=> Exact(t)
  BY <1>e DEF Without, WithoutLarge, Offers, Size, Exact
<1> USE <1>a, <1>b, <1>c DEF Goto
<1>1. CASE AllocateSlab(t) \/ LeafNeeded(t) \/ AddLeaf(t)
  <2>1. ~delayed' /\ (pc'[t] \in {"idle", "enter"} \/ (pc'[t] = "load" /\ left'[t] = 0))
    BY <1>1 DEF AllocateSlab, LeafNeeded, AddLeaf, shared, queue
  <2> QED
    BY <2>1, ResortAside
<1>2. CASE \/ \E s \in LargeSizes, old \in SUBSET cached : AllocateLarge(t, s, old)
           \/ \E b \in cached : \E old \in SUBSET (cached \ {b}) : AllocateCached(t, b, old)
           \/ \E b \in used : \/ FreeSlab(t, b)
                              \/ \E old \in SUBSET (cached \cup {b}) : FreeLarge(t, b, old)
  <2>1. ~delayed'
    BY <1>2 DEF AllocateLarge, AllocateCached, FreeSlab, FreeLarge, shared, queue
  <2>2. \E old, resume : resume \in {"idle", "enter"} /\ CleanUp(t, old, resume)
    BY <1>2, Zenon DEF AllocateLarge, AllocateCached, FreeSlab, FreeLarge
  <2>3. pc'[t] \in {"idle", "enter"} \/ (pc'[t] = "put" /\ after'[t] # "count")
    BY <2>2 DEF CleanUp
  <2> QED
    BY <2>1, <2>3, ResortAside
<1>3. CASE \E p \in DOMAIN raw : ScanFinds(t, p)
  <2>1. ~delayed' /\ pc'[t] = "split"
    BY <1>3 DEF ScanFinds, queue
  <2> QED
    BY <2>1, ResortAside
<1>4. CASE Split(t)
  <2>1. ~delayed' /\ pc'[t] = "idle"
    BY <1>4 DEF Split
  <2> QED
    BY <2>1, ResortAside
<1> USE DEF ResortInv, LargeInv, Seeking, Sought, UsedUp, Adding, Direct
<1>5. CASE BeginPut(t)
  <2>1. UNCHANGED <<raw, sizeOf, ask, delayed, large, after>>
    BY <1>5 DEF BeginPut, queue, blocks, scans, search, puts
  <2> QED
    BY <1>5, <1>e, <2>1 DEF BeginPut
<1>6. CASE \E b \in Blocks : EndPut(t, b)
  <2>1. PICK b \in Blocks : EndPut(t, b)
    BY <1>6
  <2>2. /\ UNCHANGED <<large, after>> /\ pc[t] = "putting"
        /\ pc' = [pc EXCEPT ![t] = IF toPut'[t] = {} THEN after[t] ELSE "put"]
    BY <2>1 DEF EndPut, search
  <2>3. \E apart \in {FALSE, Disturbed(t)} : \E queued \in {FALSE, apart} :
            delayed' = (delayed \/ queued)
    BY <2>1, Zenon DEF EndPut
  <2>4. ~delayed'
    <3>1. PICK apart \in {FALSE, Disturbed(t)} : \E queued \in {FALSE, apart} :
                   delayed' = (delayed \/ queued)
      BY <2>3
    <3>2. PICK queued \in {FALSE, apart} : delayed' = (delayed \/ queued)
      BY <3>1
    <3>3. ~queued
      BY <3>2, Zenon
    <3> QED
      BY <3>2, <3>3, Zenon
  <2>5. pc'[t] \in {after[t], "put"}
    BY <2>2
  <2> QED
    BY <2>2, <2>4, <2>5
<1>7. CASE \E gone \in SUBSET DOMAIN raw : Enter(t, gone)
  <2>1. PICK gone \in SUBSET DOMAIN raw : Enter(t, gone)
    BY <1>7
  <2>2. /\ large' = [large EXCEPT ![t] = TRUE] /\ delayed' \in {FALSE, delayed}
        /\ pc'[t] = "count"
    BY <2>1 DEF Enter
  <2>3. large'[t]
    BY <2>2, Zenon
  <2>4. ~delayed'
    BY <2>2, Zenon
  <2> QED
    BY <2>2, <2>3, <2>4
<1>8. CASE \E gone \in SUBSET DOMAIN raw, old \in SUBSET cached : ScanMisses(t, old, gone)
  <2>1. PICK gone \in SUBSET DOMAIN raw, old \in SUBSET cached : ScanMisses(t, old, gone)
    BY <1>8
  <2>2. /\ UNCHANGED <<raw, sizeOf, ask>> /\ ~delayed' /\ pc[t] = "scan"
        /\ large' = [large EXCEPT ![t] = delayed \/ old # {}]
        /\ \A p \in DOMAIN raw : Offers(p, Size(t)) => raw[p].bin = "large" /\ ~large[t]
        /\ pc'[t] = IF old # {} THEN "put" ELSE "observe"
    BY <1>d, <2>1 DEF ScanMisses, scans
  <2>3. CASE old # {}
    <3>1. large'[t]
      BY <2>2, <2>3, Zenon
    <3> QED
      BY <2>2, <2>3, <3>1
  <2>4. CASE old = {}
    <3>1. Without(t) /\ WithoutLarge(t)
      BY <2>2 DEF Without, WithoutLarge
    <3> QED
      BY <1>e, <2>2, <2>4, <3>1
  <2> QED
    BY <2>3, <2>4
<1>9. CASE \/ CountMods(t) \/ Observe(t) \/ Spin(t) \/ Reread(t)
           \/ WaitTillBlockReleased(t)
  <2>1. UNCHANGED <<raw, sizeOf, ask, delayed, large, next, cached, after, left, grew>>
    BY <1>9 DEF CountMods, Observe, Spin, Reread, WaitTillBlockReleased, shared, queue, blocks,
                scans, search, rawing, puts
  <2>2. RoundUp(next)' = RoundUp(next)
    BY <2>1 DEF RoundUp
  <2>3. CASE CountMods(t)
    BY <1>e, <2>1, <2>2, <2>3 DEF CountMods
  <2>4. CASE Observe(t)
    BY <1>e, <2>1, <2>2, <2>4 DEF Observe
  <2>5. CASE Spin(t)
    BY <1>e, <2>1, <2>2, <2>5 DEF Spin
  <2>6. CASE Reread(t)
    BY <1>e, <2>1, <2>2, <2>6 DEF Reread
  <2>7. CASE WaitTillBlockReleased(t)
    BY <1>e, <2>1, <2>2, <2>7 DEF WaitTillBlockReleased
  <2> QED
    BY <1>9, <2>3, <2>4, <2>5, <2>6, <2>7
<1>10. CASE Acquire(t) \/ SemaChanged(t)
  BY <1>10, <1>e DEF Acquire, SemaChanged, shared, queue, blocks, search, rawing
<1>11. CASE Check(t)
  <2>1. UNCHANGED <<raw, sizeOf, ask, delayed>> /\ pc[t] = "check"
    BY <1>11 DEF Check, queue, blocks, scans
  <2>2. CASE start[t] # mods
    BY <1>11, <1>e, <2>1, <2>2 DEF Check
  <2>3. CASE start[t] = mods
    <3>1. /\ pc'[t] = "load" /\ ~grew'[t]
          /\ large' = [large EXCEPT ![t] = large[t] \/ Exact(t)]
      BY <1>11, <2>3 DEF Check, Grow
    <3>2. large'[t] <=> large[t] \/ Exact(t)
      BY <3>1, Zenon
    <3> QED
      BY <1>e, <2>1, <3>1, <3>2
  <2> QED
    BY <2>2, <2>3
<1>12. CASE Load(t)
  <2>1. /\ UNCHANGED <<raw, sizeOf, ask, delayed, large, left, grew, next>> /\ pc[t] = "load"
        /\ base'[t] = RoundUp(next) /\ RoundUp(next)' = RoundUp(next)
    BY <1>12 DEF Load, RoundUp, shared, queue, blocks, scans, search
  <2>2. pc'[t] = IF base'[t] > SvmLimit THEN (IF left[t] = 0 THEN "enter" ELSE "signal") ELSE "bump"
    BY <1>12 DEF Load
  <2> QED
    BY <1>e, <2>1, <2>2
<1>13. CASE Reload(t)
  BY <1>13, <1>e DEF Reload, shared, queue, blocks, scans, search
<1>14. CASE Store(t)
  <2>1. /\ UNCHANGED <<sizeOf, ask, delayed, large, left, grew>> /\ pc[t] \in {"bump", "store"}
        /\ pc'[t] = IF left[t] = 0 THEN "leaf" ELSE "add"
    BY <1>14 DEF Store, queue, scans, search
  <2>2. (Without(t) => Without(t)') /\ (WithoutLarge(t) => WithoutLarge(t)')
    <3> DEFINE x == [base |-> base[t], size |-> RawSize(t), room |-> Room(t), free |-> 0,
                     live |-> FALSE, bin |-> "none"]
    <3>1. raw' = Append(raw, x) /\ x.bin = "none"
      BY <1>14 DEF Store
    <3>2. x \in Piece
      BY PieceSizes, <1>14 DEF AllocInv, NumbersOK, Store, InRaw, Piece, Bins
    <3> HIDE DEF x
    <3>3. /\ DOMAIN raw' = 1 .. Len(raw) + 1 /\ raw'[Len(raw) + 1] = x
          /\ \A p \in 1 .. Len(raw) : raw'[p] = raw[p]
      BY <3>1, <3>2, AppendProperties, LenProperties DEF RawOK
    <3>4. DOMAIN raw = 1 .. Len(raw) /\ Len(raw) \in Nat
      BY Pieces
    <3>5. \A p \in DOMAIN raw' : p = Len(raw) + 1 \/ p \in DOMAIN raw
      BY <3>3, <3>4
    <3> QED
      BY <2>1, <3>1, <3>3, <3>4, <3>5 DEF Without, WithoutLarge, Offers, Size
  <2>3. Exact(t)' <=> Exact(t)
    BY <2>1 DEF Exact, Size
  <2> QED
    BY <2>1, <2>2, <2>3
<1>15. CASE AddRegion(t)
  <2>1. /\ UNCHANGED <<sizeOf, ask, delayed, large, place>> /\ pc[t] = "add" /\ left[t] # 0
        /\ grew'[t] /\ pc'[t] \in {"signal", "load"}
    BY <1>15 DEF AddRegion, AskInv, queue, blocks, scans, search
  <2>2. Exact(t)' <=> Exact(t)
    BY <2>1 DEF Exact, Size
  <2>3. ~Exact(t) /\ WithoutLarge(t) => WithoutLarge(t)'
    <3> SUFFICES ASSUME ~Exact(t), WithoutLarge(t), NEW p \in DOMAIN raw', raw'[p].bin = "large"
                 PROVE  ~Offers(p, Size(t))'
      BY DEF WithoutLarge
    <3> DEFINE q == place[ask[t]]
               f == Room(t)
    <3>1. raw' = [raw EXCEPT ![q].free = f, ![q].live = TRUE, ![q].bin = "aligned"]
      BY <1>15 DEF AddRegion
    <3>2. \A i \in DOMAIN raw : raw[i] \in Piece
      BY Pieces
    <3> HIDE DEF q, f
    <3>3. p \in DOMAIN raw /\ (p = q => raw'[p].bin = "aligned") /\ (p # q => raw'[p] = raw[p])
      BY <3>1, <3>2 DEF Piece
    <3> QED
      BY <2>1, <3>3 DEF WithoutLarge, Offers, Size
  <2> QED
    BY <2>1, <2>2, <2>3
<1>16. CASE Signal(t)
  BY <1>16, <1>e DEF Signal, queue, blocks, scans, search
<1>17. CASE Purge(t)
  <2>1. /\ UNCHANGED <<raw, sizeOf, ask, delayed, next>> /\ pc[t] = "purge" /\ cached' = {}
        /\ pc'[t] = IF cached = {} THEN "lastObserve" ELSE "put"
        /\ large' = [large EXCEPT ![t] = large[t] \/ cached # {}]
        /\ RoundUp(next)' = RoundUp(next)
    BY <1>17 DEF Purge, shared, queue, scans, RoundUp
  <2>2. large'[t] <=> large[t] \/ cached # {}
    BY <2>1, Zenon
  <2> QED
    BY <1>e, <2>1, <2>2
<1>18. CASE GiveUp(t)
  <2>1. CASE start[t] # mods \/ (lenient[t] /\ Disturbed(t))
    <3>1. pc'[t] \in {"idle", "count"} /\ UNCHANGED <<raw, sizeOf, ask, delayed>>
          /\ (pc'[t] = "count" => large'[t] = large[t]) /\ pc[t] = "lastWait"
      BY <1>18 DEF GiveUp, queue
    <3> QED
      BY <1>e, <3>1
  <2>2. CASE ~(start[t] # mods \/ (lenient[t] /\ Disturbed(t)))
    <3>1. pc'[t] = "idle" /\ delayed' = delayed
      BY <1>18, <2>2 DEF GiveUp, queue
    <3> QED
      BY <3>1
  <2> QED
    BY <2>1, <2>2
<1> QED
  BY <1>1, <1>2, <1>3, <1>4, <1>5, <1>6, <1>7, <1>8, <1>9, <1>10, <1>11, <1>12, <1>13, <1>14,
     <1>15, <1>16, <1>17, <1>18 DEF Call, Work

(* Only GiveUp answers a request with NULL.                                 *)
LEMMA OnlyGiveUp ==
    ASSUME NEW t \in Threads, Call(t) \/ Work(t), failed' # failed
    PROVE  pc[t] = "lastWait" /\ failed' = failed \cup {ask[t]}
<1> USE DEF blocks
<1>1. CASE Call(t)
  BY <1>1 DEF Call, AllocateSlab, LeafNeeded, AllocateLarge, AllocateCached, FreeSlab, FreeLarge
<1>2. CASE \/ BeginPut(t) \/ CountMods(t) \/ Split(t) \/ Observe(t) \/ Spin(t) \/ Reread(t)
           \/ \E b \in Blocks : EndPut(t, b)
  BY <1>2 DEF BeginPut, CountMods, Split, Observe, Spin, Reread, EndPut
<1>3. CASE \/ \E p \in DOMAIN raw : ScanFinds(t, p)
           \/ \E gone \in SUBSET DOMAIN raw :
                  Enter(t, gone) \/ \E old \in SUBSET cached : ScanMisses(t, old, gone)
  BY <1>3 DEF ScanFinds, Enter, ScanMisses
<1>4. CASE WaitTillBlockReleased(t) \/ Acquire(t) \/ SemaChanged(t) \/ Check(t) \/ Load(t)
  BY <1>4 DEF WaitTillBlockReleased, Acquire, SemaChanged, Check, Load
<1>5. CASE Reload(t) \/ Store(t) \/ AddLeaf(t) \/ AddRegion(t) \/ Signal(t) \/ Purge(t)
  BY <1>5 DEF Reload, Store, AddLeaf, AddRegion, Signal, Purge
<1>6. CASE GiveUp(t)
  BY <1>6 DEF GiveUp
<1> QED
  BY <1>1, <1>2, <1>3, <1>4, <1>5, <1>6 DEF Work

(* A program with one thread gets NULL only when nothing else is left: the  *)
(* region is used up, the cache is purged, no slab is free where there were *)
(* but slabs, and no region that is one free block would do, be it in the   *)
(* bins of large blocks, although repeated searches leave those out.        *)
THEOREM OneThreadNull == ASSUME NEW t, Threads = {t} PROVE Spec => NullIsLastResort
<1> DEFINE I == AllocInv /\ ResortInv(t)
           P == failed' # failed =>
                    /\ RoundUp(next) > SvmLimit /\ cached = {}
                    /\ \A b \in failed' \ failed, p \in DOMAIN raw : ~Offers(p, sizeOf[b])
<1>0. IsFiniteSet(Threads)
  BY FS_Singleton
<1>1. Init => I
  BY AllocInit, ResortInit
<1>2. I /\ [Next]_vars => I' /\ [P]_vars
  <2> SUFFICES ASSUME I, [Next]_vars PROVE I' /\ [P]_vars
    OBVIOUS
  <2>1. AllocInv'
    BY <1>0, AllocStep
  <2>2. ASSUME Call(t) \/ Work(t) PROVE ResortInv(t)' /\ P
    <3>1. ResortInv(t)'
      BY <2>2, ResortStep
    <3>2. ASSUME failed' # failed
          PROVE  /\ RoundUp(next) > SvmLimit /\ cached = {}
                 /\ \A b \in failed' \ failed, p \in DOMAIN raw : ~Offers(p, sizeOf[b])
      <4>1. pc[t] = "lastWait" /\ failed' = failed \cup {ask[t]}
        BY <2>2, <3>2, OnlyGiveUp
      <4>2. RoundUp(next) > SvmLimit /\ cached = {} /\ Without(t)
        BY <4>1 DEF ResortInv, UsedUp, Sought
      <4> QED
        BY <4>1, <4>2 DEF Without, Size
    <3> QED
      BY <3>1, <3>2
  <2>3. ASSUME UNCHANGED vars PROVE ResortInv(t)' /\ [P]_vars
    <3>1. ResortInv(t)'
      BY <2>3 DEF ResortInv, LargeInv, Seeking, Sought, UsedUp, Adding, Direct, Without,
                  WithoutLarge, Offers, Size, Exact, RoundUp, vars, shared, queue, blocks, scans,
                  search, rawing, puts
    <3> QED
      BY <2>3, <3>1
  <2> QED
    BY <2>1, <2>2, <2>3 DEF Next, Quiescent
<1> HIDE DEF I, P
<1>3. Spec => [][P]_vars
  BY <1>1, <1>2, PTL DEF Spec
<1> QED
  BY <1>3 DEF NullIsLastResort, P

-----------------------------------------------------------------------------
(* Sums.                                                                    *)

(* The element of a set that the sum takes next.                            *)
Chosen(s) == CHOOSE x \in s : TRUE

(* One step of the recursion that MapThenSumSet is.                         *)
Sums(f, S, g) == g = [s \in SUBSET S |-> IF s = {} THEN 0 ELSE f[Chosen(s)] + g[s \ {Chosen(s)}]]

(* The bytes one by one.                                                    *)
Units(f, S) == UNION {{x} \X (1 .. f[x]) : x \in S}

(* The sum is a solution of its recursion, if there is one.                 *)
LEMMA BytesIs ==
    ASSUME NEW f, NEW S, NEW g, Sums(f, S, g)
    PROVE  \E h : Sums(f, S, h) /\ Bytes(f, S) = h[S]
<1> DEFINE h == CHOOSE h : h = [s \in SUBSET S |-> IF s = {} THEN 0
                       ELSE f[CHOOSE x \in s : TRUE] + h[s \ {CHOOSE x \in s : TRUE}]]
<1>1. Bytes(f, S) = h[S]
  BY DEF Bytes, MapThenSumSet, MapThenFoldSet
<1>2. g = [s \in SUBSET S |-> IF s = {} THEN 0
              ELSE f[CHOOSE x \in s : TRUE] + g[s \ {CHOOSE x \in s : TRUE}]]
  BY DEF Sums, Chosen
<1>3. h = [s \in SUBSET S |-> IF s = {} THEN 0
              ELSE f[CHOOSE x \in s : TRUE] + h[s \ {CHOOSE x \in s : TRUE}]]
  BY <1>2
<1> HIDE DEF h
<1>4. Sums(f, S, h)
  BY <1>3 DEF Sums, Chosen
<1> QED
  BY <1>1, <1>4

(* A block more has its bytes more.                                         *)
LEMMA UnitsAdd ==
    ASSUME NEW f, NEW S, IsFiniteSet(S), \A x \in S : f[x] \in Nat, NEW x \in S
    PROVE  /\ IsFiniteSet(Units(f, S)) /\ Cardinality(Units(f, S)) \in Nat
           /\ Cardinality(Units(f, S)) = f[x] + Cardinality(Units(f, S \ {x}))
<1> DEFINE A == {x} \X (1 .. f[x])
           B == Units(f, S \ {x})
           F(y) == {y} \X (1 .. f[y])
           D == {F(y) : y \in S}
           C == {F(y) : y \in S \ {x}}
<1>1. ASSUME NEW y \in S PROVE IsFiniteSet(F(y)) /\ Cardinality(F(y)) = f[y]
  <2>1. f[y] \in Nat
    OBVIOUS
  <2>2. IsFiniteSet(1 .. f[y]) /\ Cardinality(1 .. f[y]) = f[y]
    <3>1. f[y] \in Int /\ 1 \in Int
      BY <2>1
    <3>2. /\ IsFiniteSet(1 .. f[y])
          /\ Cardinality(1 .. f[y]) = IF 1 > f[y] THEN 0 ELSE f[y] - 1 + 1
      BY <3>1, FS_Interval
    <3> QED
      BY <2>1, <3>2
  <2>3. IsFiniteSet({y}) /\ Cardinality({y}) = 1
    BY FS_Singleton
  <2>4. IsFiniteSet(F(y)) /\ Cardinality(F(y)) = 1 * f[y]
    BY <2>2, <2>3, FS_Product
  <2> QED
    BY <2>1, <2>4
<1>2. IsFiniteSet(D)
  <2> DEFINE j == [y \in S |-> F(y)]
  <2>1. j \in Surjection(S, D)
    BY DEF Surjection
  <2> HIDE DEF j, D
  <2> QED
    BY <2>1, FS_Surjection
<1>3. IsFiniteSet(C)
  <2>1. C \subseteq D
    OBVIOUS
  <2> QED
    BY <1>2, <2>1, FS_Subset
<1>4. IsFiniteSet(UNION D) /\ IsFiniteSet(UNION C)
  <2>1. \A T \in D : IsFiniteSet(T)
    BY <1>1
  <2>2. \A T \in C : IsFiniteSet(T)
    BY <1>1
  <2> QED
    BY <1>2, <1>3, <2>1, <2>2, FS_UNION
<1>5. UNION D = Units(f, S) /\ UNION C = B
  BY DEF Units
<1>6. Units(f, S) = A \cup B /\ A \cap B = {}
  BY DEF Units
<1>7. IsFiniteSet(A) /\ Cardinality(A) = f[x] /\ f[x] \in Nat
  BY <1>1
<1>8. IsFiniteSet(B) /\ Cardinality(B) \in Nat /\ Cardinality(Units(f, S)) \in Nat
  BY <1>4, <1>5, FS_CardinalityType
<1>9. Cardinality(A \cup B) = Cardinality(A) + Cardinality(B) - Cardinality(A \cap B)
  BY <1>7, <1>8, FS_Union
<1>10. Cardinality({}) = 0
  BY FS_EmptySet
<1>11. Cardinality(A \cup B) = f[x] + Cardinality(B)
  <2>1. Cardinality(A \cap B) = 0
    BY <1>6, <1>10
  <2> HIDE DEF A, B
  <2> QED
    BY <1>7, <1>8, <1>9, <2>1
<1> QED
  BY <1>4, <1>5, <1>6, <1>8, <1>11

(* No blocks, no bytes.                                                     *)
LEMMA UnitsNone == ASSUME NEW f PROVE Units(f, {}) = {}
BY DEF Units

(* Two solutions of the recursion agree: a smallest set where they differ   *)
(* would differ without its chosen element as well.                         *)
LEMMA SumsUnique ==
    ASSUME NEW f, NEW S, IsFiniteSet(S), NEW g, NEW h, Sums(f, S, g), Sums(f, S, h)
    PROVE  g[S] = h[S]
<1> SUFFICES ASSUME g[S] # h[S] PROVE FALSE
  OBVIOUS
<1> DEFINE D == {s \in SUBSET S : g[s] # h[s]}
           N == {Cardinality(s) : s \in D}
<1>1. \A s \in SUBSET S : IsFiniteSet(s) /\ Cardinality(s) \in Nat
  BY FS_Subset, FS_CardinalityType
<1>2. S \in D
  OBVIOUS
<1>3. N \in SUBSET Nat /\ N # {}
  BY <1>1, <1>2
<1>4. PICK n \in N : \A m \in N : n <= m
  <2> HIDE DEF N
  <2> QED
    BY <1>3, LeastNumber
<1>5. PICK s \in D : Cardinality(s) = n
  BY <1>4
<1>6. /\ g[s] = IF s = {} THEN 0 ELSE f[Chosen(s)] + g[s \ {Chosen(s)}]
      /\ h[s] = IF s = {} THEN 0 ELSE f[Chosen(s)] + h[s \ {Chosen(s)}]
  <2>1. s \in SUBSET S
    BY <1>5
  <2> QED
    BY <2>1 DEF Sums
<1> DEFINE r == s \ {Chosen(s)}
<1>7. s # {} /\ g[r] # h[r]
  BY <1>5, <1>6
<1>8. Chosen(s) \in s
  BY <1>7 DEF Chosen
<1>9. r \in D
  BY <1>5, <1>7
<1>10. Cardinality(r) = Cardinality(s) - 1 /\ Cardinality(s) \in Nat
  BY <1>1, <1>5, <1>8, FS_RemoveElement
<1>11. Cardinality(r) \in N
  BY <1>9
<1>12. n <= Cardinality(r)
  BY <1>4, <1>11
<1> HIDE DEF r, D, N
<1> QED
  BY <1>5, <1>10, <1>12

(* The sum of the sizes is the number of the bytes.                         *)
LEMMA BytesCounted ==
    ASSUME NEW f, NEW S, IsFiniteSet(S), \A x \in S : f[x] \in Nat
    PROVE  Bytes(f, S) = Cardinality(Units(f, S)) /\ Bytes(f, S) \in Nat
<1> DEFINE g == [s \in SUBSET S |-> Cardinality(Units(f, s))]
<1>1. ASSUME NEW s \in SUBSET S
      PROVE  Cardinality(Units(f, s)) =
               IF s = {} THEN 0 ELSE f[Chosen(s)] + Cardinality(Units(f, s \ {Chosen(s)}))
  <2>1. CASE s = {}
    BY <2>1, UnitsNone, FS_EmptySet
  <2>2. CASE s # {}
    <3>1. Chosen(s) \in s /\ IsFiniteSet(s) /\ \A x \in s : f[x] \in Nat
      BY <2>2, FS_Subset DEF Chosen
    <3> QED
      BY <2>2, <3>1, UnitsAdd
  <2> QED
    BY <2>1, <2>2
<1>2. Sums(f, S, g)
  <2>1. \A s \in SUBSET S : s \ {Chosen(s)} \in SUBSET S
    OBVIOUS
  <2> QED
    BY <1>1, <2>1 DEF Sums
<1>3. g[S] = Cardinality(Units(f, S))
  OBVIOUS
<1> HIDE DEF g
<1>4. PICK h : Sums(f, S, h) /\ Bytes(f, S) = h[S]
  BY <1>2, BytesIs
<1>5. Bytes(f, S) = Cardinality(Units(f, S))
  BY <1>2, <1>3, <1>4, SumsUnique
<1>6. Cardinality(Units(f, S)) \in Nat
  <2>1. CASE S = {}
    BY <2>1, UnitsNone, FS_EmptySet
  <2>2. CASE S # {}
    BY <2>2, UnitsAdd
  <2> QED
    BY <2>1, <2>2
<1> QED
  BY <1>5, <1>6

(* What is summed up matters, not how it is named.                          *)
LEMMA BytesSame ==
    ASSUME NEW f, NEW g, NEW S, IsFiniteSet(S),
           \A x \in S : f[x] \in Nat /\ g[x] = f[x]
    PROVE  Bytes(g, S) = Bytes(f, S)
<1>1. Units(g, S) = Units(f, S)
  BY DEF Units
<1> QED
  BY <1>1, BytesCounted

(* Leaving one out.                                                         *)
LEMMA BytesWithout ==
    ASSUME NEW f, NEW S, IsFiniteSet(S), \A x \in S : f[x] \in Nat, NEW x \in S
    PROVE  Bytes(f, S) = f[x] + Bytes(f, S \ {x})
<1>1. IsFiniteSet(S \ {x}) /\ \A y \in S \ {x} : f[y] \in Nat
  BY FS_RemoveElement
<1> QED
  BY <1>1, BytesCounted, UnitsAdd

(* Blocks that have no bytes are none.                                      *)
LEMMA BytesNone ==
    ASSUME NEW f
    PROVE  /\ Bytes(f, {}) = 0
           /\ \A S : IsFiniteSet(S) /\ (\A x \in S : f[x] \in Nat \ {0}) /\ Bytes(f, S) = 0 => S = {}
<1>1. Bytes(f, {}) = 0
  BY BytesCounted, UnitsNone, FS_EmptySet
<1>2. ASSUME NEW S, IsFiniteSet(S), \A x \in S : f[x] \in Nat \ {0}, Bytes(f, S) = 0, NEW x \in S
      PROVE  FALSE
  <2>1. IsFiniteSet(S \ {x}) /\ \A y \in S \ {x} : f[y] \in Nat
    BY <1>2, FS_RemoveElement
  <2>2. Bytes(f, S \ {x}) \in Nat
    BY <2>1, BytesCounted
  <2>3. Bytes(f, S) = f[x] + Bytes(f, S \ {x})
    BY <1>2, BytesWithout
  <2> QED
    BY <1>2, <2>2, <2>3
<1> QED
  BY <1>1, <1>2

-----------------------------------------------------------------------------
(* Whose the blocks are.                                                    *)

Kept == used \cup cached \cup leaves

(* A thread has the blocks it returns and the one it asks for; it puts into *)
(* a region, or takes from there, those and no other.                       *)
Has(t, b)   == b \in toPut[t] \/ (Asking(t) /\ ask[t] = b)
Moves(t, b) == b \in toPut[t] \/ (pc[t] = "split" /\ ask[t] = b)
Placed(b)   == b \in Kept \/ \E t \in Threads : Moves(t, b)
Fresh(t)    == pc[t] \in {"add", "leaf"}

(* A block is used, cached, a leaf, or in the hands of one thread.          *)
Apart ==
    /\ used \cap cached = {} /\ used \cap leaves = {} /\ cached \cap leaves = {}
    /\ \A t \in Threads : /\ \A b \in Kept : ~Has(t, b)
                          /\ Asking(t) => ask[t] \notin toPut[t]
                          /\ pc[t] \notin {"put", "putting"} => toPut[t] = {}
    /\ \A t, u \in Threads, b \in Blocks : Has(t, b) /\ Has(u, b) => t = u

(* It was requested, with a size.                                           *)
Known ==
    /\ \A b \in Blocks : b \in Kept \/ (\E t \in Threads : Has(t, b)) => b <= requests
    /\ \A b \in 1 .. requests : sizeOf[b] # 0

(* A piece of raw memory that is not a region yet has no blocks and is      *)
(* one thread's.                                                            *)
Unborn ==
    /\ \A b \in Blocks : Placed(b) => place[b] # 0
    /\ \A t \in Threads : Fresh(t) =>
          /\ place[ask[t]] # 0 /\ ~raw[place[ask[t]]].live
          /\ pc[t] = "add" => /\ raw[place[ask[t]]].room = Room(t)
                              /\ \A b \in Blocks : Placed(b) => place[b] # place[ask[t]]
          /\ \A u \in Threads : Fresh(u) /\ place[ask[u]] = place[ask[t]] => u = t

BytesInv == AllocInv /\ Apart /\ Known /\ Unborn /\ BytesConserved

(* What a step of t does to the blocks it can reach.                        *)
Owns(t, b) == b \in Kept \/ Has(t, b)
Local(t) ==
    /\ \A u \in Threads \ {t} : toPut'[u] = toPut[u]
    /\ used' \cap cached' = {} /\ used' \cap leaves' = {} /\ cached' \cap leaves' = {}
    /\ leaves \subseteq leaves'
    /\ \A b \in Blocks : ~(b \in Kept' /\ Has(t, b)')
    /\ Asking(t)' => ask'[t] \notin toPut'[t]
    /\ pc'[t] \notin {"put", "putting"} => toPut'[t] = {}
    /\ \/ requests' = requests
       \/ requests' = requests + 1 /\ requests' \in Blocks /\ sizeOf'[requests'] # 0
    /\ \A b \in 1 .. requests : sizeOf'[b] = sizeOf[b]
    /\ \A b \in Blocks : Owns(t, b)' => Owns(t, b) \/ (b = requests' /\ requests' = requests + 1)

(* No step takes a block from another thread, or hands one out twice.       *)
LEMMA LocalStep ==
    ASSUME BlocksOK, PathOK, AskInv, Apart, Known, NEW t \in Threads, Call(t) \/ Work(t)
    PROVE  Local(t)
<1>a. /\ Slab # 0 /\ \A s \in LargeSizes : s # 0
      /\ MaxRequests \in Nat
  BY Sizes
<1>b. /\ requests \in 0 .. MaxRequests /\ sizeOf \in [Blocks -> LargeSizes \cup {0, Slab}]
      /\ used \subseteq Blocks /\ cached \subseteq Blocks /\ leaves \subseteq Blocks
  BY DEF BlocksOK
<1>c. /\ pc \in [Threads -> PCs] /\ after \in [Threads -> {"idle", "enter", "count"}]
      /\ ask \in [Threads -> 0 .. MaxRequests] /\ toPut \in [Threads -> SUBSET Blocks]
  BY DEF PathOK
<1>d. /\ used \cap cached = {} /\ used \cap leaves = {} /\ cached \cap leaves = {}
      /\ \A b \in used \cup cached \cup leaves : ~Has(t, b)
      /\ Asking(t) => ask[t] \in Blocks /\ ask[t] \notin toPut[t]
      /\ pc[t] \notin {"put", "putting"} => toPut[t] = {}
  BY DEF Apart, AskInv, Kept
<1>e. /\ \A b \in Blocks : b \in used \cup cached \cup leaves \/ Has(t, b) => b <= requests
      /\ \A b \in 1 .. requests : sizeOf[b] # 0
  BY DEF Known, Kept
<1> USE <1>a, <1>b, <1>c, <1>d, <1>e
    DEF Local, Owns, Has, Asking, Kept, Blocks, Goto, shared, blocks, scans, rawing, puts
<1>1. ASSUME AllocateSlab(t) PROVE Local(t)
  BY <1>1 DEF AllocateSlab, Request
<1>2. ASSUME LeafNeeded(t) PROVE Local(t)
  BY <1>2 DEF LeafNeeded, Request
<1>3. ASSUME NEW s \in LargeSizes, NEW old \in SUBSET cached, AllocateLarge(t, s, old) PROVE Local(t)
  <2>1. /\ requests' = requests + 1 /\ requests + 1 \in Blocks /\ s # 0
        /\ sizeOf' = [sizeOf EXCEPT ![requests'] = s] /\ ask' = [ask EXCEPT ![t] = requests']
        /\ toPut' = [toPut EXCEPT ![t] = old] /\ pc[t] = "idle"
        /\ used' = used /\ leaves' = leaves /\ cached' = cached \ old
    BY <1>3 DEF AllocateLarge, Request, CleanUp
  <2>2. pc'[t] \notin {"put", "putting"} => toPut'[t] = {}
    BY <1>3 DEF AllocateLarge, CleanUp
  <2>3. \A b \in Blocks : Has(t, b)' => b \in old \/ b = requests'
    BY <2>1 DEF Asking
  <2>4. \A b \in Blocks : Owns(t, b)' => Owns(t, b) \/ (b = requests' /\ requests' = requests + 1)
    BY <2>1, <2>3
  <2>5. requests + 1 \notin Kept /\ requests + 1 \notin old /\ old \subseteq cached
    BY <2>1
  <2>6. \A b \in Blocks : ~(b \in Kept' /\ Has(t, b)')
    BY <2>1, <2>3, <2>5
  <2> QED
    BY <2>1, <2>2, <2>4, <2>5, <2>6
<1>4. ASSUME NEW b \in cached, NEW old \in SUBSET (cached \ {b}), AllocateCached(t, b, old) PROVE Local(t)
  BY <1>4 DEF AllocateCached, Request, CleanUp
<1>5. ASSUME NEW b \in used, FreeSlab(t, b) PROVE Local(t)
  BY <1>5 DEF FreeSlab, CleanUp
<1>6. ASSUME NEW b \in used, NEW old \in SUBSET (cached \cup {b}), FreeLarge(t, b, old) PROVE Local(t)
  BY <1>6 DEF FreeLarge, CleanUp
<1>7. ASSUME BeginPut(t) PROVE Local(t)
  BY <1>7 DEF BeginPut
<1>8. ASSUME NEW b \in Blocks, EndPut(t, b) PROVE Local(t)
  BY <1>8 DEF EndPut
<1>9. ASSUME CountMods(t) PROVE Local(t)
  BY <1>9 DEF CountMods
<1>10. ASSUME NEW p \in DOMAIN raw, ScanFinds(t, p) PROVE Local(t)
  BY <1>10 DEF ScanFinds
<1>11. ASSUME Split(t) PROVE Local(t)
  BY <1>11 DEF Split
<1>27. ASSUME NEW gone \in SUBSET DOMAIN raw, Enter(t, gone) PROVE Local(t)
  BY <1>27 DEF Enter
<1>12. ASSUME NEW old \in SUBSET cached, NEW gone \in SUBSET DOMAIN raw, ScanMisses(t, old, gone) PROVE Local(t)
  BY <1>12 DEF ScanMisses
<1>13. ASSUME Observe(t) PROVE Local(t)
  BY <1>13 DEF Observe
<1>14. ASSUME Spin(t) \/ Reread(t) PROVE Local(t)
  BY <1>14 DEF Spin, Reread
<1>15. ASSUME WaitTillBlockReleased(t) PROVE Local(t)
  BY <1>15 DEF WaitTillBlockReleased
<1>16. ASSUME Acquire(t) PROVE Local(t)
  BY <1>16 DEF Acquire
<1>17. ASSUME SemaChanged(t) PROVE Local(t)
  BY <1>17 DEF SemaChanged
<1>18. ASSUME Check(t) PROVE Local(t)
  BY <1>18 DEF Check, Grow
<1>19. ASSUME Load(t) PROVE Local(t)
  BY <1>19 DEF Load
<1>20. ASSUME Reload(t) PROVE Local(t)
  BY <1>20 DEF Reload
<1>21. ASSUME Store(t) PROVE Local(t)
  BY <1>21 DEF Store
<1>22. ASSUME AddLeaf(t) PROVE Local(t)
  BY <1>22 DEF AddLeaf
<1>23. ASSUME AddRegion(t) PROVE Local(t)
  BY <1>23 DEF AddRegion
<1>24. ASSUME Signal(t) PROVE Local(t)
  BY <1>24 DEF Signal
<1>25. ASSUME Purge(t) PROVE Local(t)
  BY <1>25 DEF Purge
<1>26. ASSUME GiveUp(t) PROVE Local(t)
  BY <1>26 DEF GiveUp
<1> QED
  BY <1>1, <1>2, <1>3, <1>4, <1>5, <1>6, <1>7, <1>8, <1>9, <1>10, <1>11, <1>12, <1>13, <1>14, <1>15, <1>16, <1>17, <1>18, <1>19, <1>20, <1>21, <1>22, <1>23, <1>24, <1>25, <1>26, <1>27 DEF Call, Work

(* So the blocks stay apart.                                                *)
LEMMA ApartStep ==
    ASSUME BlocksOK, BlocksOK', PathOK, PathOK', Apart, Known, NEW t \in Threads, Others(t), Local(t)
    PROVE  Apart' /\ Known'
<1>a. requests \in Nat
  BY Sizes DEF BlocksOK
<1>1. \A u \in Threads \ {t}, b \in Blocks : Has(u, b)' <=> Has(u, b)
  BY DEF Others, Local, Has, Asking
<1>2. \A b \in Blocks, u \in Threads \ {t} : Owns(t, b)' => ~Has(u, b)
  <2> SUFFICES ASSUME NEW b \in Blocks, NEW u \in Threads \ {t}, Owns(t, b)', Has(u, b) PROVE FALSE
    OBVIOUS
  <2>1. b <= requests
    BY DEF Known
  <2>2. Owns(t, b)
    BY <1>a, <2>1 DEF Local, Blocks
  <2> QED
    BY <2>2 DEF Owns, Apart
<1>3. Kept' \subseteq Blocks
  BY DEF BlocksOK, Kept
<1>4. ASSUME NEW u \in Threads
      PROVE  /\ \A b \in Kept' : ~Has(u, b)'
             /\ Asking(u)' => ask'[u] \notin toPut'[u]
             /\ pc'[u] \notin {"put", "putting"} => toPut'[u] = {}
  <2>1. CASE u = t
    BY <1>3, <2>1 DEF Local
  <2>2. CASE u # t
    <3>1. \A b \in Kept' : ~Has(u, b)'
      BY <1>1, <1>2, <1>3, <2>2 DEF Owns
    <3>2. /\ Asking(u)' <=> Asking(u)
          /\ ask'[u] = ask[u] /\ toPut'[u] = toPut[u] /\ pc'[u] = pc[u]
      BY <2>2 DEF Others, Local, Asking
    <3> QED
      BY <3>1, <3>2 DEF Apart
  <2> QED
    BY <2>1, <2>2
<1>5. ASSUME NEW u \in Threads, NEW v \in Threads, NEW b \in Blocks, Has(u, b)', Has(v, b)' PROVE u = v
  <2>1. CASE u # t /\ v # t
    BY <1>1, <1>5, <2>1 DEF Apart
  <2>2. CASE u = t /\ v # t
    BY <1>1, <1>2, <1>5, <2>2 DEF Owns
  <2>3. CASE v = t /\ u # t
    BY <1>1, <1>2, <1>5, <2>3 DEF Owns
  <2> QED
    BY <2>1, <2>2, <2>3
<1>6. Apart'
  BY <1>4, <1>5 DEF Apart, Local
<1>7. requests <= requests' /\ requests' \in Nat
  BY <1>a DEF Local
<1>8. ASSUME NEW b \in Blocks, b \in Kept' \/ \E u \in Threads : Has(u, b)' PROVE b <= requests'
  <2>1. CASE Owns(t, b)'
    <3>1. Owns(t, b) => b <= requests
      BY DEF Owns, Known
    <3> QED
      BY <1>a, <1>7, <2>1, <3>1 DEF Local, Blocks
  <2>2. CASE ~Owns(t, b)'
    <3>1. PICK u \in Threads : Has(u, b)' /\ u # t
      BY <1>8, <2>2 DEF Owns
    <3>2. b <= requests
      BY <1>1, <3>1 DEF Known
    <3> QED
      BY <1>a, <1>7, <3>2 DEF Blocks
  <2> QED
    BY <2>1, <2>2
<1>9. \A b \in 1 .. requests' : sizeOf'[b] # 0
  BY <1>a DEF Local, Known
<1> QED
  BY <1>6, <1>8, <1>9 DEF Known

(* The blocks a step of t can put into a region or take out of it.          *)
Lies(t, b) == b \in Kept \/ Moves(t, b)
Emptied(p)  == /\ raw[p].live /\ raw[p].free = raw[p].room
               /\ ~raw'[p].live /\ raw'[p].room = raw[p].room
Quiet(t) ==
    /\ DOMAIN raw' = DOMAIN raw /\ \A p \in DOMAIN raw : raw'[p] = raw[p] \/ Emptied(p)
    /\ UNCHANGED <<place, rest>>
    /\ pc[t] # "split" /\ pc'[t] \notin {"split", "add", "leaf"}
    /\ \A b \in Blocks : Lies(t, b)' <=> Lies(t, b)

(* Most steps move no bytes, though they may forget regions.                *)
LEMMA QuietStep ==
    ASSUME RawOK, BlocksOK, PathOK, AskInv, Apart, NEW t \in Threads, Call(t) \/ Work(t)
    PROVE  \/ Quiet(t)
           \/ \E b \in cached : \E old \in SUBSET (cached \ {b}) : AllocateCached(t, b, old)
           \/ \E b \in Blocks : EndPut(t, b)
           \/ \E p \in DOMAIN raw : ScanFinds(t, p)
           \/ Split(t) \/ Store(t) \/ AddLeaf(t) \/ AddRegion(t)
<1>b. used \subseteq Blocks /\ cached \subseteq Blocks /\ leaves \subseteq Blocks
  BY DEF BlocksOK
<1>c. /\ pc \in [Threads -> PCs] /\ after \in [Threads -> {"idle", "enter", "count"}]
      /\ ask \in [Threads -> 0 .. MaxRequests] /\ toPut \in [Threads -> SUBSET Blocks]
  BY DEF PathOK
<1>d. pc[t] \notin {"put", "putting"} => toPut[t] = {}
  BY DEF Apart
<1> USE <1>b, <1>c, <1>d DEF Quiet, Lies, Moves, Kept, Goto, shared, blocks, scans, rawing, puts
<1>1. ASSUME AllocateSlab(t) PROVE Quiet(t)
  BY <1>1 DEF AllocateSlab, Request
<1>2. ASSUME LeafNeeded(t) PROVE Quiet(t)
  BY <1>2 DEF LeafNeeded, Request
<1>3. ASSUME NEW s \in LargeSizes, NEW old \in SUBSET cached, AllocateLarge(t, s, old) PROVE Quiet(t)
  BY <1>3 DEF AllocateLarge, Request, CleanUp
<1>4. ASSUME NEW b \in used, FreeSlab(t, b) PROVE Quiet(t)
  BY <1>4 DEF FreeSlab, CleanUp
<1>5. ASSUME NEW b \in used, NEW old \in SUBSET (cached \cup {b}), FreeLarge(t, b, old) PROVE Quiet(t)
  BY <1>5 DEF FreeLarge, CleanUp
<1>6. CASE BeginPut(t) \/ CountMods(t)
  BY <1>6 DEF BeginPut, CountMods
<1>12. ASSUME NEW gone \in SUBSET DOMAIN raw, Drain(gone)
      PROVE  DOMAIN raw' = DOMAIN raw /\ \A p \in DOMAIN raw : raw'[p] = raw[p] \/ Emptied(p)
  <2>1. \A p \in DOMAIN raw : raw[p] \in Piece
    BY ElementOfSeq, LenProperties DEF RawOK
  <2> QED
    BY <1>12, <2>1 DEF Drain, Emptied, Piece
<1>13. ASSUME NEW gone \in SUBSET DOMAIN raw, Enter(t, gone) PROVE Quiet(t)
  BY <1>12, <1>13 DEF Enter
<1>7. ASSUME NEW old \in SUBSET cached, NEW gone \in SUBSET DOMAIN raw, ScanMisses(t, old, gone)
      PROVE  Quiet(t)
  BY <1>7, <1>12 DEF ScanMisses
<1>8. CASE Observe(t) \/ Spin(t) \/ Reread(t) \/ WaitTillBlockReleased(t) \/ Acquire(t)
  BY <1>8 DEF Observe, Spin, Reread, WaitTillBlockReleased, Acquire
<1>9. CASE SemaChanged(t) \/ Check(t) \/ Load(t) \/ Reload(t)
  BY <1>9 DEF SemaChanged, Check, Grow, Load, Reload
<1>10. CASE Signal(t) \/ GiveUp(t)
  BY <1>10 DEF Signal, GiveUp
<1>11. CASE Purge(t)
  BY <1>11 DEF Purge
<1> QED
  BY <1>1, <1>2, <1>3, <1>4, <1>5, <1>6, <1>7, <1>8, <1>9, <1>10, <1>11, <1>13 DEF Call, Work

-----------------------------------------------------------------------------
(* What a piece holds.                                                      *)

(* The blocks of a piece are those placed there, now and after a step.      *)
LEMMA HeldIs ==
    ASSUME NEW p
    PROVE  /\ \A b : b \in Held(p) <=> Placed(b) /\ place[b] = p
           /\ \A b : b \in Held(p)' <=> Placed(b)' /\ place'[b] = p
<1>1. \A b : b \in Held(p) <=> Placed(b) /\ place[b] = p
  <2> SUFFICES ASSUME NEW b PROVE b \in Held(p) <=> Placed(b) /\ place[b] = p
    OBVIOUS
  <2> DEFINE R == UNION {toPut[t] : t \in Threads}
             C == {ask[t] : t \in Splitting(p)}
  <2>1. b \in R <=> \E t \in Threads : b \in toPut[t]
    OBVIOUS
  <2>2. b \in C <=> \E t \in Threads : pc[t] = "split" /\ ask[t] = b /\ place[b] = p
    BY DEF Splitting
  <2>3. Held(p) = {c \in Kept \cup R \cup C : place[c] = p}
    BY DEF Held, Kept
  <2> HIDE DEF R, C
  <2> QED
    BY <2>1, <2>2, <2>3 DEF Placed, Moves
<1>2. \A b : b \in Held(p)' <=> Placed(b)' /\ place'[b] = p
  <2> SUFFICES ASSUME NEW b PROVE b \in Held(p)' <=> Placed(b)' /\ place'[b] = p
    OBVIOUS
  <2> DEFINE R == UNION {toPut'[t] : t \in Threads}
             C == {ask'[t] : t \in Splitting(p)'}
  <2>1. b \in R <=> \E t \in Threads : b \in toPut'[t]
    OBVIOUS
  <2>2. b \in C <=> \E t \in Threads : pc'[t] = "split" /\ ask'[t] = b /\ place'[b] = p
    BY DEF Splitting
  <2>3. Held(p)' = {c \in Kept' \cup R \cup C : place'[c] = p}
    BY DEF Held, Kept
  <2> HIDE DEF R, C
  <2> QED
    BY <2>1, <2>2, <2>3 DEF Placed, Moves
<1> QED
  BY <1>1, <1>2

(* Bytes of a piece that no step touched.                                   *)
Conserved(p) ==
    IF raw[p].live
    THEN raw[p].free + Bytes(sizeOf, Held(p)) + Bytes(rest, Splitting(p)) = raw[p].room
    ELSE Held(p) \subseteq leaves

(* Blocks and threads are finitely many, and their bytes are numbers.       *)
LEMMA HeldFinite ==
    ASSUME IsFiniteSet(Threads), BlocksOK, PathOK, AskInv, NumbersOK, NEW p
    PROVE  /\ IsFiniteSet(Held(p)) /\ Held(p) \subseteq Blocks
           /\ \A b \in Held(p) : sizeOf[b] \in Nat
           /\ IsFiniteSet(Splitting(p)) /\ Splitting(p) \subseteq Threads
           /\ \A t \in Splitting(p) : rest[t] \in Nat
           /\ Bytes(sizeOf, Held(p)) \in Nat /\ Bytes(rest, Splitting(p)) \in Nat
<1>1. Held(p) \subseteq Blocks
  BY HeldIs DEF Placed, Kept, Moves, BlocksOK, PathOK, AskInv, Asking
<1>2. IsFiniteSet(Blocks)
  BY Sizes, FS_Interval DEF Blocks
<1>3. IsFiniteSet(Held(p))
  BY <1>1, <1>2, FS_Subset
<1>4. Splitting(p) \subseteq Threads
  BY DEF Splitting
<1>5. IsFiniteSet(Splitting(p))
  BY <1>4, FS_Subset
<1>6. \A b \in Held(p) : sizeOf[b] \in Nat
  BY <1>1, BlockSizes
<1>7. \A t \in Splitting(p) : rest[t] \in Nat
  BY <1>4 DEF NumbersOK
<1> QED
  BY <1>1, <1>3, <1>4, <1>5, <1>6, <1>7, BytesCounted

(* A piece nobody touched.                                                  *)
LEMMA Untouched ==
    ASSUME IsFiniteSet(Threads), BlocksOK, PathOK, AskInv, NumbersOK, NEW p, Conserved(p),
           raw'[p] = raw[p], leaves \subseteq leaves',
           Held(p)' = Held(p), \A b \in Held(p) : sizeOf'[b] = sizeOf[b],
           Splitting(p)' = Splitting(p), \A t \in Splitting(p) : rest'[t] = rest[t]
    PROVE  Conserved(p)'
<1>1. Bytes(sizeOf', Held(p)) = Bytes(sizeOf, Held(p))
  BY HeldFinite, BytesSame
<1>2. Bytes(rest', Splitting(p)) = Bytes(rest, Splitting(p))
  BY HeldFinite, BytesSame
<1>3. Bytes(sizeOf, Held(p))' = Bytes(sizeOf, Held(p))
  BY <1>1
<1>4. Bytes(rest, Splitting(p))' = Bytes(rest, Splitting(p))
  BY <1>2
<1> QED
  BY <1>3, <1>4 DEF Conserved

-----------------------------------------------------------------------------
(* A step of one thread, and what it does to every piece.                   *)

Typed == RawOK /\ BlocksOK /\ PathOK /\ NumbersOK /\ AskInv /\ GrowInv
Stepping(t) ==
    /\ Typed /\ Typed' /\ Apart /\ Known /\ Unborn /\ BytesConserved
    /\ Others(t) /\ Local(t)

(* A block placed somewhere was requested, and is in no other hands.        *)
LEMMA PlacedKnown ==
    ASSUME Typed, Apart, Known, NEW b, Placed(b)
    PROVE  /\ b \in Blocks /\ b \in 1 .. requests
           /\ \A t \in Threads : Has(t, b) => Moves(t, b)
<1>1. \A t \in Threads : Moves(t, b) => Has(t, b)
  BY DEF Moves, Has, Asking
<1>2. b \in Blocks
  BY DEF Placed, Kept, Moves, Typed, BlocksOK, PathOK, AskInv, Asking
<1>3. b <= requests
  BY <1>1, <1>2 DEF Placed, Known
<1>4. b \in 1 .. requests
  BY <1>2, <1>3, Sizes DEF Blocks, Typed, BlocksOK
<1>5. \A t \in Threads : Has(t, b) => Moves(t, b)
  BY <1>1, <1>2 DEF Placed, Apart
<1> QED
  BY <1>2, <1>4, <1>5

(* The other threads move nothing.                                          *)
LEMMA PlacedParts ==
    ASSUME NEW t \in Threads, Others(t), Local(t), NEW b
    PROVE  /\ Placed(b)  <=> Lies(t, b)  \/ \E u \in Threads \ {t} : Moves(u, b)
           /\ Placed(b)' <=> Lies(t, b)' \/ \E u \in Threads \ {t} : Moves(u, b)
<1>1. \A u \in Threads \ {t} : Moves(u, b)' <=> Moves(u, b)
  BY DEF Others, Local, Moves
<1>2. Placed(b) <=> Lies(t, b) \/ \E u \in Threads \ {t} : Moves(u, b)
  BY DEF Placed, Lies
<1>3. Placed(b)' <=> Lies(t, b)' \/ \E u \in Threads \ {t} : Moves(u, b)'
  BY DEF Placed, Lies
<1> QED
  BY <1>1, <1>2, <1>3

(* The request of a thread that does not split yet lies nowhere.            *)
LEMMA AskedNowhere ==
    ASSUME Typed, Apart, Known, NEW t \in Threads, Asking(t), pc[t] # "split"
    PROVE  /\ ask[t] \in Blocks /\ ~Placed(ask[t])
           /\ \A u \in Threads \ {t} : Asking(u) => ask[u] # ask[t]
<1>1. ask[t] \in Blocks /\ Has(t, ask[t])
  BY DEF Typed, AskInv, Has
<1>2. ask[t] \notin toPut[t]
  BY DEF Apart
<1>3. ~Placed(ask[t])
  BY <1>1, <1>2, PlacedKnown DEF Moves
<1>4. \A u \in Threads \ {t} : Asking(u) => ask[u] # ask[t]
  <2> SUFFICES ASSUME NEW u \in Threads \ {t}, Asking(u), ask[u] = ask[t] PROVE FALSE
    OBVIOUS
  <2>1. Has(u, ask[t])
    BY DEF Has
  <2> QED
    BY <1>1, <2>1 DEF Apart
<1> QED
  BY <1>1, <1>3, <1>4

(* A piece whose blocks, and threads that split there, are the same.        *)
LEMMA PieceKept ==
    ASSUME IsFiniteSet(Threads), NEW t \in Threads, Stepping(t), NEW p \in DOMAIN raw, raw'[p] = raw[p],
           \A b : Placed(b)' /\ place'[b] = p <=> Placed(b) /\ place[b] = p,
           Splitting(p)' = Splitting(p), \A u \in Splitting(p) : rest'[u] = rest[u]
    PROVE  Conserved(p)'
<1>1. Held(p)' = Held(p)
  BY HeldIs
<1>2. \A b \in Held(p) : sizeOf'[b] = sizeOf[b]
  BY HeldIs, PlacedKnown DEF Stepping, Local
<1>3. Conserved(p)
  BY DEF Stepping, BytesConserved, Conserved
<1>4. leaves \subseteq leaves'
  BY DEF Stepping, Local
<1>5. BlocksOK /\ PathOK /\ AskInv /\ NumbersOK
  BY DEF Stepping, Typed
<1> QED
  BY <1>1, <1>2, <1>3, <1>4, <1>5, Untouched

(* The threads that split at a piece.                                       *)
LEMMA SplittersKept ==
    ASSUME NEW t \in Threads, Stepping(t), pc[t] # "split", pc'[t] # "split",
           \A b : Placed(b) => Placed(b)' /\ place'[b] = place[b], rest' = rest
    PROVE  \A p : Splitting(p)' = Splitting(p) /\ \A u \in Splitting(p) : rest'[u] = rest[u]
<1>1. \A u \in Threads \ {t} : pc'[u] = pc[u] /\ ask'[u] = ask[u]
  BY DEF Stepping, Others
<1>2. \A u \in Threads \ {t} : pc[u] = "split" => place'[ask[u]] = place[ask[u]]
  BY DEF Placed, Moves
<1> QED
  BY <1>1, <1>2 DEF Splitting

(* Pieces that are not regions yet, when no other thread touches them.      *)
LEMMA UnbornKept ==
    ASSUME NEW t \in Threads, Stepping(t),
           Fresh(t)' =>
               /\ place'[ask'[t]] # 0 /\ ~raw'[place'[ask'[t]]].live
               /\ pc'[t] = "add" => /\ raw'[place'[ask'[t]]].room = Room(t)'
                                    /\ \A b : Placed(b)' => place'[b] # place'[ask'[t]]
               /\ \A u \in Threads \ {t} : Fresh(u) => place[ask[u]] # place'[ask'[t]],
           \A b : Placed(b)' => place'[b] # 0,
           \A u \in Threads \ {t} : Fresh(u) =>
               /\ place'[ask[u]] = place[ask[u]]
               /\ raw'[place[ask[u]]].live = raw[place[ask[u]]].live
               /\ raw'[place[ask[u]]].room = raw[place[ask[u]]].room
               /\ pc[u] = "add" => \A b : Placed(b)' => place'[b] # place[ask[u]]
    PROVE  Unborn'
<1>1. \A u \in Threads \ {t} : pc'[u] = pc[u] /\ ask'[u] = ask[u] /\ left'[u] = left[u]
                                 /\ adding'[u] = adding[u]
  BY DEF Stepping, Others
<1>2. \A u \in Threads \ {t} : Fresh(u)' <=> Fresh(u)
  BY <1>1 DEF Fresh
<1>3. \A u \in Threads \ {t} : Room(u)' = Room(u)
  BY <1>1 DEF Room, RawSize, Direct
<1>4. ASSUME NEW u \in Threads, Fresh(u)'
      PROVE  /\ place'[ask'[u]] # 0 /\ ~raw'[place'[ask'[u]]].live
             /\ pc'[u] = "add" => /\ raw'[place'[ask'[u]]].room = Room(u)'
                                  /\ \A b \in Blocks : Placed(b)' => place'[b] # place'[ask'[u]]
             /\ \A v \in Threads : Fresh(v)' /\ place'[ask'[v]] = place'[ask'[u]] => v = u
  <2>1. CASE u = t
    <3>1. \A v \in Threads : Fresh(v)' /\ v # t => place'[ask'[v]] # place'[ask'[t]]
      BY <1>1, <1>2, <1>4, <2>1
    <3> QED
      BY <1>4, <2>1, <3>1
  <2>2. CASE u # t
    <3>1. /\ Fresh(u) /\ place'[ask'[u]] = place[ask[u]] /\ pc'[u] = pc[u]
          /\ raw'[place[ask[u]]].live = raw[place[ask[u]]].live
          /\ raw'[place[ask[u]]].room = raw[place[ask[u]]].room
          /\ Room(u)' = Room(u)
      BY <1>1, <1>2, <1>3, <1>4, <2>2
    <3>2. /\ place[ask[u]] # 0 /\ ~raw[place[ask[u]]].live
          /\ pc[u] = "add" => raw[place[ask[u]]].room = Room(u)
          /\ \A v \in Threads : Fresh(v) /\ place[ask[v]] = place[ask[u]] => v = u
      BY <3>1 DEF Stepping, Unborn
    <3>3. pc[u] = "add" => \A b \in Blocks : Placed(b)' => place'[b] # place[ask[u]]
      BY <2>2, <3>1
    <3>4. ASSUME NEW v \in Threads, Fresh(v)', place'[ask'[v]] = place[ask[u]] PROVE v = u
      <4>1. CASE v = t
        BY <2>2, <3>1, <3>4, <4>1
      <4>2. CASE v # t
        BY <1>1, <1>2, <3>2, <3>4, <4>2
      <4> QED
        BY <4>1, <4>2
    <3> QED
      BY <3>1, <3>2, <3>3, <3>4
  <2> QED
    BY <2>1, <2>2
<1> QED
  BY <1>4 DEF Unborn

(* Steps that move no bytes; a region that is forgotten holds none.         *)
LEMMA QuietBytes ==
    ASSUME IsFiniteSet(Threads), NEW t \in Threads, Stepping(t), Quiet(t)
    PROVE  Unborn' /\ BytesConserved'
<1>a. Typed /\ Known /\ Unborn /\ BytesConserved
  BY DEF Stepping
<1>b. /\ place \in [Blocks -> 0 .. Len(raw)]
      /\ DOMAIN raw = 1 .. Len(raw) /\ Len(raw) \in Nat
  BY <1>a, Pieces DEF Typed
<1>1. \A b : Placed(b)' <=> Placed(b)
  <2> SUFFICES ASSUME NEW b PROVE Placed(b)' <=> Placed(b)
    OBVIOUS
  <2>1. Lies(t, b) \/ Lies(t, b)' => b \in Blocks
    BY DEF Lies, Kept, Moves, Stepping, Typed, BlocksOK, PathOK, AskInv, Asking
  <2> QED
    BY <2>1, PlacedParts DEF Stepping, Quiet
<1>2. /\ DOMAIN raw' = DOMAIN raw /\ place' = place /\ rest' = rest
      /\ pc[t] # "split" /\ pc'[t] # "split" /\ ~Fresh(t)'
  BY DEF Quiet, Fresh
<1>4. \A b : Placed(b) => b \in Blocks /\ b \in 1 .. requests
  BY PlacedKnown DEF Stepping
<1>3. ASSUME NEW p \in DOMAIN raw PROVE Conserved(p)'
  <2>1. CASE raw'[p] = raw[p]
    BY <1>1, <1>2, <2>1, SplittersKept, PieceKept
  <2>2. CASE Emptied(p)
    <3>1. /\ IsFiniteSet(Held(p)) /\ \A b \in Held(p) : sizeOf[b] \in Nat
          /\ Bytes(sizeOf, Held(p)) \in Nat /\ Bytes(rest, Splitting(p)) \in Nat
      BY <1>a, HeldFinite DEF Typed
    <3>2. raw[p].free + Bytes(sizeOf, Held(p)) + Bytes(rest, Splitting(p)) = raw[p].room
      BY <1>a, <2>2 DEF BytesConserved, Emptied
    <3>3. raw[p].free \in Nat /\ raw[p].free = raw[p].room
      BY <1>a, <2>2, Pieces DEF Typed, Emptied
    <3>4. Bytes(sizeOf, Held(p)) = 0
      BY <3>1, <3>2, <3>3
    <3>5. \A b \in Held(p) : sizeOf[b] \in Nat \ {0}
      BY <1>a, <1>4, <3>1, HeldIs DEF Known
    <3>6. Held(p) = {}
      BY <3>1, <3>4, <3>5, BytesNone
    <3>7. \A b : b \notin Held(p)'
      BY <1>1, <1>2, <3>6, HeldIs
    <3> QED
      BY <2>2, <3>7 DEF Conserved, Emptied
  <2> QED
    BY <2>1, <2>2 DEF Quiet
<1>5. Unborn'
  <2>1. ASSUME NEW u \in Threads \ {t}, Fresh(u)
        PROVE  /\ raw'[place[ask[u]]] = raw[place[ask[u]]]
               /\ pc[u] = "add" => \A b : Placed(b)' => place'[b] # place[ask[u]]
    <3>1. ask[u] \in Blocks
      BY <1>a, <2>1 DEF Fresh, Typed, AskInv, Asking
    <3>2. /\ place[ask[u]] # 0 /\ ~raw[place[ask[u]]].live
          /\ pc[u] = "add" => \A b \in Blocks : Placed(b) => place[b] # place[ask[u]]
      BY <1>a, <2>1 DEF Unborn
    <3>3. place[ask[u]] \in DOMAIN raw
      BY <1>b, <3>1, <3>2
    <3>4. raw'[place[ask[u]]] = raw[place[ask[u]]]
      BY <3>2, <3>3 DEF Quiet, Emptied
    <3> QED
      BY <1>1, <1>2, <1>4, <3>2, <3>4
  <2>2. \A b : Placed(b)' => place'[b] # 0
    BY <1>a, <1>1, <1>2, <1>4 DEF Unborn
  <2> QED
    BY <1>2, <2>1, <2>2, UnbornKept
<1>6. BytesConserved'
  BY <1>2, <1>3 DEF BytesConserved, Conserved
<1> QED
  BY <1>5, <1>6

(* A block comes out of the cache under a new name.                         *)
LEMMA AllocateCachedBytes ==
    ASSUME IsFiniteSet(Threads), NEW t \in Threads, Stepping(t),
           NEW b \in cached, NEW old \in SUBSET (cached \ {b}), AllocateCached(t, b, old)
    PROVE  Unborn' /\ BytesConserved'
<1> DEFINE r == requests + 1
           p == place[b]
<1>a. Typed /\ Apart /\ Known /\ Unborn /\ BytesConserved /\ Others(t) /\ Local(t)
  BY DEF Stepping
<1>b. /\ requests \in Nat /\ cached \subseteq Blocks
      /\ toPut \in [Threads -> SUBSET Blocks] /\ pc \in [Threads -> PCs]
      /\ sizeOf \in [Blocks -> LargeSizes \cup {0, Slab}]
  BY <1>a, Sizes DEF Typed, BlocksOK, PathOK
<1>1. /\ pc[t] = "idle" /\ requests' = r /\ r \in Blocks
      /\ sizeOf' = [sizeOf EXCEPT ![r] = sizeOf[b]] /\ place' = [place EXCEPT ![r] = p]
      /\ cached' = cached \ ({b} \cup old) /\ used' = used \cup {r} /\ leaves' = leaves
      /\ toPut' = [toPut EXCEPT ![t] = old] /\ raw' = raw /\ rest' = rest
      /\ pc'[t] \in {"idle", "put"}
  <2>1. /\ pc[t] = "idle" /\ requests' = r /\ requests < MaxRequests
        /\ sizeOf' = [sizeOf EXCEPT ![requests'] = sizeOf[b]]
        /\ place' = [place EXCEPT ![requests'] = p]
        /\ cached' = cached \ ({b} \cup old) /\ used' = used \cup {requests'} /\ leaves' = leaves
        /\ raw' = raw
    BY DEF AllocateCached, Request, shared
  <2>2. /\ toPut' = [toPut EXCEPT ![t] = old] /\ rest' = rest
        /\ pc' = [pc EXCEPT ![t] = IF old = {} THEN "idle" ELSE "put"]
    BY DEF AllocateCached, CleanUp, Goto
  <2>3. r \in Blocks
    <3>1. MaxRequests \in Nat /\ requests \in Nat /\ requests < MaxRequests
      BY <1>b, <2>1, Sizes
    <3> QED
      BY <3>1 DEF Blocks
  <2>4. pc'[t] \in {"idle", "put"}
    BY <1>b, <2>2
  <2> QED
    BY <2>1, <2>2, <2>3, <2>4
<1>2. b \in Blocks /\ b # r /\ Placed(b) /\ b \notin leaves
  <2>1. b \in Blocks /\ Placed(b) /\ b \notin leaves
    BY <1>a, <1>b DEF Placed, Kept, Apart
  <2> QED
    BY <1>a, <1>b, <2>1, PlacedKnown
<1>3. ~Placed(r)
  BY <1>a, <1>b, PlacedKnown
<1>4. \A u \in Threads \ {t} : ~Moves(u, b)
  <2>1. \A u \in Threads : Moves(u, b) => Has(u, b)
    BY DEF Moves, Has, Asking
  <2>2. b \in Kept
    BY DEF Kept
  <2> QED
    BY <1>a, <2>1, <2>2 DEF Apart
<1>5. \A x : Lies(t, x)' <=> (Lies(t, x) /\ x # b) \/ x = r
  <2>1. toPut[t] = {} /\ used \cap cached = {} /\ cached \cap leaves = {}
    BY <1>a, <1>1 DEF Apart
  <2>2. ~Lies(t, r)
    BY <1>a, <1>3, PlacedParts
  <2> QED
    BY <1>b, <1>1, <1>2, <2>1, <2>2 DEF Lies, Moves, Kept
<1>6. \A x : Placed(x)' <=> (Placed(x) /\ x # b) \/ x = r
  BY <1>a, <1>3, <1>4, <1>5, PlacedParts
<1>7. \A x : Placed(x) => x # r /\ place'[x] = place[x]
  BY <1>a, <1>1, <1>3, PlacedKnown, Pieces DEF Typed
<1>8. place'[r] = p /\ sizeOf'[r] = sizeOf[b]
  BY <1>a, <1>b, <1>1, Pieces DEF Typed
<1>9. \A q : Splitting(q)' = Splitting(q)
  <2>1. \A u \in Threads \ {t} : pc'[u] = pc[u] /\ ask'[u] = ask[u]
    BY <1>a DEF Others
  <2>2. \A u \in Threads \ {t} : pc[u] = "split" => place'[ask[u]] = place[ask[u]]
    BY <1>7 DEF Placed, Moves
  <2> QED
    BY <1>1, <2>1, <2>2 DEF Splitting
<1>10. ASSUME NEW q \in DOMAIN raw, q # p PROVE Conserved(q)'
  <2>1. \A x : Placed(x)' /\ place'[x] = q <=> Placed(x) /\ place[x] = q
    BY <1>6, <1>7, <1>8, <1>10
  <2> QED
    BY <1>1, <1>9, <2>1, PieceKept
<1>11. ASSUME p \in DOMAIN raw PROVE Conserved(p)'
  <2>1. b \in Held(p) /\ r \notin Held(p) /\ r \in Held(p)' /\ Held(p)' \ {r} = Held(p) \ {b}
    BY <1>2, <1>3, <1>6, <1>7, <1>8, HeldIs
  <2>2. raw[p].live
    BY <1>a, <1>2, <1>11, <2>1 DEF BytesConserved
  <2>3. /\ IsFiniteSet(Held(p)) /\ \A x \in Held(p) : sizeOf[x] \in Nat
        /\ IsFiniteSet(Held(p)') /\ \A x \in Held(p)' : sizeOf'[x] \in Nat
    <3>1. IsFiniteSet(Held(p)) /\ \A x \in Held(p) : sizeOf[x] \in Nat
      BY <1>a, HeldFinite DEF Typed
    <3>2. Held(p)' = (Held(p) \ {b}) \cup {r}
      BY <2>1
    <3>3. IsFiniteSet(Held(p) \ {b})
      BY <3>1, FS_RemoveElement
    <3>5. IsFiniteSet((Held(p) \ {b}) \cup {r})
      BY <3>3, FS_AddElement
    <3>4. \A x \in Held(p) : x # r /\ sizeOf'[x] = sizeOf[x]
      BY <1>a, <1>7, HeldIs, PlacedKnown DEF Local
    <3> QED
      BY <1>8, <2>1, <3>1, <3>2, <3>5, <3>4
  <2> DEFINE H == Held(p)
             K == Held(p)'
             S == H \ {b}
  <2>4. Bytes(sizeOf, H) = sizeOf[b] + Bytes(sizeOf, S)
    BY <2>1, <2>3, BytesWithout
  <2>5. Bytes(sizeOf', K) = sizeOf'[r] + Bytes(sizeOf', K \ {r})
    BY <2>1, <2>3, BytesWithout
  <2>6. Bytes(sizeOf', S) = Bytes(sizeOf, S)
    <3>1. IsFiniteSet(S) /\ \A x \in S : sizeOf[x] \in Nat
      BY <2>3, FS_RemoveElement
    <3>2. \A x \in S : sizeOf'[x] = sizeOf[x]
      BY <1>a, HeldIs, PlacedKnown DEF Local
    <3> HIDE DEF S
    <3> QED
      BY <3>1, <3>2, BytesSame
  <2>7. Bytes(sizeOf', K) = Bytes(sizeOf, H)
    BY <1>8, <2>1, <2>4, <2>5, <2>6
  <2>8. Bytes(rest, Splitting(p))' = Bytes(rest, Splitting(p))
    BY <1>1, <1>9
  <2> QED
    BY <1>1, <1>a, <1>11, <2>2, <2>7, <2>8 DEF BytesConserved, Conserved
<1>12. BytesConserved'
  <2>1. \A q \in DOMAIN raw' : Conserved(q)'
    BY <1>1, <1>10, <1>11
  <2> QED
    BY <2>1 DEF BytesConserved, Conserved
<1>13. Unborn'
  <2>1. \A x : Placed(x) => place[x] # 0
    BY <1>a, PlacedKnown DEF Unborn
  <2>2. \A x : Placed(x)' => place'[x] # 0 /\ \E y : Placed(y) /\ place[y] = place'[x]
    BY <1>2, <1>6, <1>7, <1>8, <2>1
  <2>3. ASSUME NEW u \in Threads \ {t}, Fresh(u)
        PROVE  /\ place'[ask[u]] = place[ask[u]]
               /\ pc[u] = "add" => \A x : Placed(x)' => place'[x] # place[ask[u]]
    <3>1. ask[u] \in Blocks /\ Has(u, ask[u])
      BY <1>a, <2>3 DEF Fresh, Typed, AskInv, Asking, Has
    <3>2. ask[u] # r
      BY <1>a, <1>b, <3>1 DEF Known
    <3>3. place'[ask[u]] = place[ask[u]]
      BY <1>a, <1>1, <3>1, <3>2, Pieces DEF Typed
    <3>4. pc[u] = "add" => \A y : Placed(y) => place[y] # place[ask[u]]
      BY <1>a, <2>3, PlacedKnown DEF Unborn
    <3> QED
      BY <2>2, <3>3, <3>4
  <2> QED
    BY <1>1, <2>2, <2>3, UnbornKept DEF Fresh
<1> QED
  BY <1>12, <1>13
(* A block goes back to its region, which is forgotten with the last one.   *)
LEMMA EndPutBytes ==
    ASSUME IsFiniteSet(Threads), NEW t \in Threads, Stepping(t), NEW b \in Blocks, EndPut(t, b)
    PROVE  Unborn' /\ BytesConserved'
<1>p. PICK p : p = place[b]
  OBVIOUS
<1>e. PICK apart \in BOOLEAN :
          LET empty == raw[p].free + sizeOf[b] = raw[p].room /\ ~apart
          IN  raw' = [raw EXCEPT ![p].free = IF empty THEN 0 ELSE raw[p].free + sizeOf[b],
                                 ![p].live = ~empty]
  BY <1>p DEF EndPut, Disturbed
<1> DEFINE free  == raw[p].free + sizeOf[b]
           empty == free = raw[p].room /\ ~apart
<1>a. Typed /\ Apart /\ Known /\ Unborn /\ BytesConserved /\ Others(t) /\ Local(t)
  BY DEF Stepping
<1>b. /\ toPut \in [Threads -> SUBSET Blocks] /\ pc \in [Threads -> PCs]
      /\ after \in [Threads -> {"idle", "enter", "count"}]
  BY <1>a DEF Typed, PathOK
<1>1. /\ pc[t] = "putting" /\ b \in toPut[t] /\ pc'[t] \in {"idle", "enter", "count", "put"}
      /\ toPut' = [toPut EXCEPT ![t] = @ \ {b}]
      /\ place' = place /\ rest' = rest /\ sizeOf' = sizeOf
      /\ used' = used /\ cached' = cached /\ leaves' = leaves
      /\ raw' = [raw EXCEPT ![p].free = IF empty THEN 0 ELSE free, ![p].live = ~empty]
  <2>1. pc'[t] \in {"idle", "enter", "count", "put"}
    BY <1>b DEF EndPut, Goto
  <2> QED
    BY <1>e, <2>1 DEF EndPut, blocks
<1>2. Placed(b) /\ b \notin Kept /\ \A u \in Threads \ {t} : ~Moves(u, b)
  <2>1. Has(t, b) /\ Placed(b)
    BY <1>1 DEF Has, Placed, Moves
  <2>2. b \notin Kept /\ \A u \in Threads \ {t} : ~Has(u, b)
    BY <1>a, <2>1 DEF Apart
  <2>3. \A u \in Threads : Moves(u, b) => Has(u, b)
    BY DEF Moves, Has, Asking
  <2> QED
    BY <2>1, <2>2, <2>3
<1>3. p \in DOMAIN raw /\ b \in Held(p) /\ raw[p].live
  <2>1. p # 0 /\ p \in 0 .. Len(raw)
    BY <1>a, <1>p, <1>2, Pieces DEF Unborn, Typed
  <2>2. p \in DOMAIN raw
    BY <1>a, <2>1, Pieces DEF Typed
  <2>3. b \in Held(p)
    BY <1>p, <1>2, HeldIs
  <2> QED
    BY <1>a, <1>2, <2>2, <2>3 DEF BytesConserved, Kept
<1>4. \A x : Placed(x)' <=> Placed(x) /\ x # b
  <2>1. \A x : Lies(t, x)' <=> Lies(t, x) /\ x # b
    BY <1>b, <1>1, <1>2 DEF Lies, Moves, Kept
  <2> QED
    BY <1>a, <1>2, <2>1, PlacedParts
<1>5. \A q : Splitting(q)' = Splitting(q)
  <2>1. \A u \in Threads \ {t} : pc'[u] = pc[u] /\ ask'[u] = ask[u]
    BY <1>a DEF Others
  <2> QED
    BY <1>1, <2>1 DEF Splitting
<1>6. /\ DOMAIN raw' = DOMAIN raw
      /\ \A q \in DOMAIN raw : q # p => raw'[q] = raw[q]
      /\ raw'[p].live <=> ~empty
      /\ ~empty => raw'[p].free = free
      /\ raw'[p].room = raw[p].room
  <2>1. raw[p] \in Piece
    BY <1>a, <1>3, Pieces DEF Typed
  <2> HIDE DEF free, empty
  <2> QED
    BY <1>1, <1>3, <2>1 DEF Piece
<1>7. ASSUME NEW q \in DOMAIN raw, q # p PROVE Conserved(q)'
  <2>1. \A x : Placed(x)' /\ place'[x] = q <=> Placed(x) /\ place[x] = q
    BY <1>p, <1>1, <1>4, <1>7
  <2> QED
    BY <1>1, <1>5, <1>6, <1>7, <2>1, PieceKept
<1>8. Conserved(p)'
  <2> DEFINE H == Held(p)
             K == H \ {b}
  <2>1. Held(p)' = K
    BY <1>1, <1>4, HeldIs
  <2>2. /\ IsFiniteSet(H) /\ \A x \in H : sizeOf[x] \in Nat
        /\ Bytes(rest, Splitting(p)) \in Nat
    BY <1>a, HeldFinite DEF Typed
  <2>3. \A x \in H : sizeOf[x] # 0
    BY <1>a, HeldIs, PlacedKnown DEF Known
  <2>4. IsFiniteSet(K) /\ \A x \in K : sizeOf[x] \in Nat \ {0}
    BY <2>2, <2>3, FS_RemoveElement
  <2>5. Bytes(sizeOf, H) = sizeOf[b] + Bytes(sizeOf, K)
    BY <1>3, <2>2, BytesWithout
  <2>6. Bytes(sizeOf, K) \in Nat
    BY <2>4, BytesCounted
  <2>7. raw[p].free + Bytes(sizeOf, H) + Bytes(rest, Splitting(p)) = raw[p].room
    BY <1>a, <1>3 DEF BytesConserved
  <2>8. raw[p].free \in Nat /\ sizeOf[b] \in Nat
    BY <1>a, <1>3, <2>2, Pieces DEF Typed
  <2> HIDE DEF H, K
  <2>9. free + Bytes(sizeOf, K) + Bytes(rest, Splitting(p)) = raw[p].room
    BY <2>2, <2>5, <2>6, <2>7, <2>8
  <2>10. empty => K = {}
    <3> SUFFICES ASSUME free = raw[p].room PROVE Bytes(sizeOf, K) = 0
      BY <2>4, BytesNone
    <3> QED
      BY <2>2, <2>6, <2>8, <2>9
  <2>11. Bytes(sizeOf, Held(p))' = Bytes(sizeOf, K)
    BY <1>1, <2>1
  <2>12. Bytes(rest, Splitting(p))' = Bytes(rest, Splitting(p))
    BY <1>1, <1>5
  <2> HIDE DEF free, empty
  <2> QED
    <3>1. ~raw'[p].live => Held(p)' \subseteq leaves'
      BY <1>6, <2>1, <2>10
    <3>2. raw'[p].live => raw'[p].free + Bytes(sizeOf, K) + Bytes(rest, Splitting(p)) = raw'[p].room
      BY <1>6, <2>9
    <3> QED
      BY <2>11, <2>12, <3>1, <3>2 DEF Conserved
<1>9. BytesConserved'
  <2>1. \A q \in DOMAIN raw' : Conserved(q)'
    BY <1>6, <1>7, <1>8
  <2> QED
    BY <2>1 DEF BytesConserved, Conserved
<1>10. Unborn'
  <2>1. ~Fresh(t)'
    BY <1>1 DEF Fresh
  <2>2. \A x : Placed(x) => x \in Blocks
    BY <1>a, PlacedKnown
  <2>3. \A x : Placed(x)' => place'[x] # 0
    BY <1>a, <1>1, <1>4, <2>2 DEF Unborn
  <2>4. ASSUME NEW u \in Threads \ {t}, Fresh(u)
        PROVE  /\ place'[ask[u]] = place[ask[u]]
               /\ raw'[place[ask[u]]].live = raw[place[ask[u]]].live
               /\ raw'[place[ask[u]]].room = raw[place[ask[u]]].room
               /\ pc[u] = "add" => \A x : Placed(x)' => place'[x] # place[ask[u]]
    <3>1. /\ place[ask[u]] # 0 /\ ~raw[place[ask[u]]].live
          /\ pc[u] = "add" => \A x \in Blocks : Placed(x) => place[x] # place[ask[u]]
      BY <1>a, <2>4 DEF Unborn
    <3>2. place[ask[u]] # p
      BY <1>3, <3>1
    <3>3. place[ask[u]] \in DOMAIN raw
      <4>1. ask[u] \in Blocks
        BY <1>a, <2>4 DEF Fresh, Typed, AskInv, Asking
      <4> QED
        BY <1>a, <3>1, <4>1, Pieces DEF Typed
    <3> QED
      BY <1>1, <1>4, <1>6, <2>2, <3>1, <3>2, <3>3
  <2> QED
    BY <2>1, <2>3, <2>4, UnbornKept
<1> QED
  BY <1>9, <1>10
(* The scan takes a block out of a region, and what is left of its bin.     *)
LEMMA ScanFindsBytes ==
    ASSUME IsFiniteSet(Threads), NEW t \in Threads, Stepping(t), NEW p \in DOMAIN raw, ScanFinds(t, p)
    PROVE  Unborn' /\ BytesConserved'
<1>p. PICK r : r = ask[t]
  OBVIOUS
<1>a. Typed /\ Typed' /\ Apart /\ Known /\ Unborn /\ BytesConserved /\ Others(t) /\ Local(t)
  BY DEF Stepping
<1>b. /\ toPut \in [Threads -> SUBSET Blocks] /\ pc \in [Threads -> PCs]
      /\ rest \in [Threads -> Nat] /\ ask \in [Threads -> 0 .. MaxRequests]
  BY <1>a DEF Typed, PathOK, NumbersOK
<1>c. raw[p] \in Piece /\ raw[p].free \in Nat /\ place \in [Blocks -> 0 .. Len(raw)] /\ p # 0
  BY <1>a, Pieces DEF Typed
<1>1. /\ pc[t] = "scan" /\ pc' = [pc EXCEPT ![t] = "split"] /\ raw[p].live
      /\ ask' = ask /\ toPut' = toPut /\ sizeOf' = sizeOf /\ place' = [place EXCEPT ![r] = p]
      /\ used' = used /\ cached' = cached /\ leaves' = leaves
  BY <1>p DEF ScanFinds, Goto, scans
<1>2. PICK split \in 0 .. raw[p].free - sizeOf[r] :
         /\ raw' = [raw EXCEPT ![p].free = @ - sizeOf[r] - split,
                       ![p].bin = IF sizeOf[r] = Slab /\ @ = "aligned" THEN @ ELSE "none"]
         /\ rest' = [rest EXCEPT ![t] = split]
  BY <1>p DEF ScanFinds, Size
<1>k. PICK kept, bin : /\ raw' = [raw EXCEPT ![p].free = kept, ![p].bin = bin]
                       /\ kept = raw[p].free - sizeOf[r] - split
  <2> DEFINE k == raw[p].free - sizeOf[r] - split
             n == IF sizeOf[r] = Slab /\ raw[p].bin = "aligned" THEN raw[p].bin ELSE "none"
  <2>1. raw' = [raw EXCEPT ![p].free = k, ![p].bin = n]
    BY <1>a, <1>2, Pieces DEF Typed
  <2> HIDE DEF k, n
  <2> QED
    BY <2>1 DEF k
<1>3. r \in Blocks /\ ~Placed(r) /\ sizeOf[r] \in Nat /\ \A u \in Threads \ {t} : Asking(u) => ask[u] # r
  <2>1. Asking(t)
    BY <1>1 DEF Asking
  <2>2. r \in Blocks /\ ~Placed(r) /\ \A u \in Threads \ {t} : Asking(u) => ask[u] # r
    BY <1>a, <1>p, <1>1, <2>1, AskedNowhere
  <2> QED
    BY <1>a, <2>2, BlockSizes DEF Typed
<1>4. \A x : Placed(x)' <=> Placed(x) \/ x = r
  <2>1. \A x : Lies(t, x)' <=> Lies(t, x) \/ x = r
    BY <1>b, <1>p, <1>1 DEF Lies, Moves, Kept
  <2> QED
    BY <1>a, <2>1, PlacedParts
<1>5. place'[r] = p /\ \A x : Placed(x) => x \in Blocks /\ x # r /\ place'[x] = place[x]
  BY <1>a, <1>c, <1>1, <1>3, PlacedKnown
<1>6. /\ \A q : q # p => Splitting(q)' = Splitting(q)
      /\ t \notin Splitting(p) /\ Splitting(p)' = Splitting(p) \cup {t}
      /\ \A u \in Threads \ {t} : rest'[u] = rest[u]
  <2>1. \A u \in Threads \ {t} : pc'[u] = pc[u] /\ ask'[u] = ask[u]
    BY <1>a DEF Others
  <2>2. \A u \in Threads \ {t} : pc[u] = "split" => place'[ask[u]] = place[ask[u]]
    BY <1>5 DEF Placed, Moves
  <2>3. pc[t] # "split" /\ pc'[t] = "split" /\ place'[ask'[t]] = p
    BY <1>b, <1>p, <1>1, <1>5
  <2> QED
    BY <1>b, <1>2, <2>1, <2>2, <2>3 DEF Splitting
<1>7. /\ DOMAIN raw' = DOMAIN raw
      /\ \A q \in DOMAIN raw : q # p => raw'[q] = raw[q]
      /\ raw'[p].free = kept
      /\ \A q \in DOMAIN raw : raw'[q].live = raw[q].live /\ raw'[q].room = raw[q].room
  BY <1>c, <1>k DEF Piece
<1>8. ASSUME NEW q \in DOMAIN raw, q # p PROVE Conserved(q)'
  <2>1. \A x : Placed(x)' /\ place'[x] = q <=> Placed(x) /\ place[x] = q
    BY <1>4, <1>5, <1>8
  <2>2. \A u \in Splitting(q) : u \in Threads \ {t}
    BY <1>1 DEF Splitting
  <2> QED
    BY <1>6, <1>7, <1>8, <2>1, <2>2, PieceKept
<1>9. Conserved(p)'
  <2> DEFINE H == Held(p)
             K == H \cup {r}
             T == Splitting(p)
             U == T \cup {t}
  <2>1. Held(p)' = K /\ r \notin H
    BY <1>3, <1>4, <1>5, HeldIs
  <2>2. /\ IsFiniteSet(H) /\ \A x \in H : sizeOf[x] \in Nat
        /\ IsFiniteSet(T) /\ T \subseteq Threads /\ t \notin T
        /\ Bytes(sizeOf, H) \in Nat /\ Bytes(rest, T) \in Nat
    BY <1>a, <1>6, HeldFinite DEF Typed
  <2>3. rest' \in [Threads -> Nat]
    BY <1>a DEF Typed, NumbersOK
  <2>4. raw[p].free + Bytes(sizeOf, H) + Bytes(rest, T) = raw[p].room
    BY <1>a, <1>1 DEF BytesConserved
  <2>5. Bytes(sizeOf, Held(p))' = Bytes(sizeOf, K)
    BY <1>1, <2>1
  <2>6. Bytes(rest, Splitting(p))' = Bytes(rest', U)
    BY <1>6
  <2>7. \A u \in T : rest[u] \in Nat /\ rest'[u] = rest[u]
    BY <1>b, <1>6, <2>2
  <2>8. K \ {r} = H /\ U \ {t} = T /\ r \in K /\ t \in U
    BY <2>1, <2>2
  <2> HIDE DEF H, T
  <2>9. IsFiniteSet(K) /\ IsFiniteSet(U)
    BY <2>2, FS_AddElement
  <2>10. (\A x \in K : sizeOf[x] \in Nat) /\ \A u \in U : rest'[u] \in Nat
    BY <1>3, <2>2, <2>3
  <2> HIDE DEF K, U
  <2>11. Bytes(sizeOf, K) = sizeOf[r] + Bytes(sizeOf, H)
    BY <2>8, <2>9, <2>10, BytesWithout
  <2>12. Bytes(rest', U) = rest'[t] + Bytes(rest', T)
    BY <2>8, <2>9, <2>10, BytesWithout
  <2>13. Bytes(rest', T) = Bytes(rest, T)
    BY <2>2, <2>7, BytesSame
  <2>14. rest'[t] = split
    BY <1>b, <1>2
  <2>15. split \in Int /\ kept = raw[p].free - sizeOf[r] - split
    BY <1>c, <1>2, <1>3, <1>k
  <2>18. kept + (sizeOf[r] + Bytes(sizeOf, H)) + (split + Bytes(rest, T)) = raw[p].room
    <3>1. /\ raw[p].free \in Nat /\ sizeOf[r] \in Nat
          /\ Bytes(sizeOf, H) \in Nat /\ Bytes(rest, T) \in Nat
      BY <1>c, <1>3, <2>2
    <3> QED
      BY <2>4, <2>15, <3>1
  <2>16. kept + Bytes(sizeOf, K) + Bytes(rest', U) = raw[p].room
    BY <2>11, <2>12, <2>13, <2>14, <2>18
  <2>17. raw'[p].free = kept /\ raw'[p].room = raw[p].room /\ raw'[p].live
    BY <1>1, <1>7
  <2> QED
    BY <2>5, <2>6, <2>16, <2>17 DEF Conserved
<1>10. BytesConserved'
  <2>1. \A q \in DOMAIN raw' : Conserved(q)'
    BY <1>7, <1>8, <1>9
  <2> QED
    BY <2>1 DEF BytesConserved, Conserved
<1>11. Unborn'
  <2>1. ~Fresh(t)'
    BY <1>b, <1>1 DEF Fresh
  <2>2. \A x : Placed(x)' => place'[x] # 0
    BY <1>a, <1>c, <1>4, <1>5 DEF Unborn
  <2>3. ASSUME NEW u \in Threads \ {t}, Fresh(u)
        PROVE  /\ place'[ask[u]] = place[ask[u]]
               /\ raw'[place[ask[u]]].live = raw[place[ask[u]]].live
               /\ raw'[place[ask[u]]].room = raw[place[ask[u]]].room
               /\ pc[u] = "add" => \A x : Placed(x)' => place'[x] # place[ask[u]]
    <3>1. /\ place[ask[u]] # 0 /\ ~raw[place[ask[u]]].live
          /\ pc[u] = "add" => \A x \in Blocks : Placed(x) => place[x] # place[ask[u]]
      BY <1>a, <2>3 DEF Unborn
    <3>2. ask[u] \in Blocks /\ ask[u] # r
      BY <1>a, <1>3, <2>3 DEF Fresh, Typed, AskInv, Asking
    <3>3. place'[ask[u]] = place[ask[u]]
      BY <1>c, <1>1, <3>2
    <3>4. place[ask[u]] \in DOMAIN raw
      BY <1>a, <3>1, <3>2, Pieces DEF Typed
    <3> QED
      BY <1>1, <1>4, <1>5, <1>7, <3>1, <3>3, <3>4
  <2> QED
    BY <2>1, <2>2, <2>3, UnbornKept
<1> QED
  BY <1>10, <1>11

(* The remainder goes back, and the block is in use.                        *)
LEMMA SplitBytes ==
    ASSUME IsFiniteSet(Threads), NEW t \in Threads, Stepping(t), Split(t)
    PROVE  Unborn' /\ BytesConserved'
<1>p. PICK r, p : r = ask[t] /\ p = place[ask[t]]
  OBVIOUS
<1>a. Typed /\ Typed' /\ Apart /\ Known /\ Unborn /\ BytesConserved /\ Others(t) /\ Local(t)
  BY DEF Stepping
<1>b. /\ toPut \in [Threads -> SUBSET Blocks] /\ pc \in [Threads -> PCs]
      /\ rest \in [Threads -> Nat] /\ ask \in [Threads -> 0 .. MaxRequests]
  BY <1>a DEF Typed, PathOK, NumbersOK
<1>1. /\ pc[t] = "split" /\ pc' = [pc EXCEPT ![t] = "idle"]
      /\ ask' = ask /\ toPut' = toPut /\ sizeOf' = sizeOf /\ place' = place /\ cached' = cached
      /\ raw' = [raw EXCEPT ![p].free = @ + rest[t]] /\ rest' = [rest EXCEPT ![t] = 0]
      /\ used' \cup leaves' = used \cup leaves \cup {r}
  BY <1>p DEF Split, Goto
<1>2. Placed(r) /\ r \notin Kept /\ toPut[t] = {} /\ \A u \in Threads : Moves(u, r) => u = t
  <2>1. Has(t, r) /\ Placed(r)
    BY <1>p, <1>1 DEF Has, Placed, Moves, Asking
  <2>2. r \in Blocks
    BY <1>a, <2>1, PlacedKnown
  <2>3. r \notin Kept /\ toPut[t] = {} /\ \A u \in Threads : Has(u, r) => u = t
    BY <1>a, <1>1, <2>1, <2>2 DEF Apart
  <2>4. \A u \in Threads : Moves(u, r) => Has(u, r)
    BY DEF Moves, Has, Asking
  <2> QED
    BY <2>1, <2>3, <2>4
<1>3. p \in DOMAIN raw /\ r \in Held(p) /\ raw[p].live /\ t \in Splitting(p)
  <2>1. p # 0 /\ p \in 0 .. Len(raw)
    BY <1>a, <1>p, <1>2, PlacedKnown, Pieces DEF Unborn, Typed
  <2>2. p \in DOMAIN raw
    BY <1>a, <2>1, Pieces DEF Typed
  <2>3. r \in Held(p) /\ t \in Splitting(p)
    BY <1>p, <1>1, <1>2, HeldIs DEF Splitting
  <2> QED
    BY <1>a, <1>2, <2>2, <2>3 DEF BytesConserved, Kept
<1>c. raw[p] \in Piece /\ raw[p].free \in Nat
  BY <1>a, <1>3, Pieces DEF Typed
<1>4. \A x : Placed(x)' <=> Placed(x)
  <2>1. \A x : Lies(t, x)' <=> Lies(t, x)
    BY <1>b, <1>p, <1>1, <1>2 DEF Lies, Moves, Kept
  <2> QED
    BY <1>a, <2>1, PlacedParts
<1>5. /\ \A q : q # p => Splitting(q)' = Splitting(q) /\ t \notin Splitting(q)
      /\ Splitting(p)' = Splitting(p) \ {t}
      /\ \A u \in Threads \ {t} : rest'[u] = rest[u]
  <2>1. \A u \in Threads \ {t} : pc'[u] = pc[u] /\ ask'[u] = ask[u]
    BY <1>a DEF Others
  <2>2. pc[t] = "split" /\ pc'[t] # "split" /\ place[ask[t]] = p
    BY <1>b, <1>p, <1>1
  <2> QED
    BY <1>b, <1>1, <2>1, <2>2 DEF Splitting
<1>6. /\ DOMAIN raw' = DOMAIN raw
      /\ \A q \in DOMAIN raw : q # p => raw'[q] = raw[q]
      /\ raw'[p].free = raw[p].free + rest[t]
      /\ \A q \in DOMAIN raw : raw'[q].live = raw[q].live /\ raw'[q].room = raw[q].room
  BY <1>c, <1>1, <1>3 DEF Piece
<1>7. ASSUME NEW q \in DOMAIN raw, q # p PROVE Conserved(q)'
  <2>1. \A x : Placed(x)' /\ place'[x] = q <=> Placed(x) /\ place[x] = q
    BY <1>1, <1>4
  <2>2. \A u \in Splitting(q) : u \in Threads \ {t}
    BY <1>5, <1>7 DEF Splitting
  <2> QED
    BY <1>5, <1>6, <1>7, <2>1, <2>2, PieceKept
<1>8. Conserved(p)'
  <2> DEFINE H == Held(p)
             T == Splitting(p)
             U == T \ {t}
  <2>1. Held(p)' = H
    <3>1. \A x : x \in Held(p)' <=> x \in Held(p)
      BY <1>1, <1>4, HeldIs
    <3> QED
      BY <3>1
  <2>2. /\ IsFiniteSet(T) /\ T \subseteq Threads /\ \A u \in T : rest[u] \in Nat
        /\ Bytes(sizeOf, H) \in Nat
    BY <1>a, HeldFinite DEF Typed
  <2>3. raw[p].free + Bytes(sizeOf, H) + Bytes(rest, T) = raw[p].room
    BY <1>a, <1>3 DEF BytesConserved
  <2>4. Bytes(sizeOf, Held(p))' = Bytes(sizeOf, H)
    BY <1>1, <2>1
  <2>5. Bytes(rest, Splitting(p))' = Bytes(rest', U)
    BY <1>5
  <2>6. IsFiniteSet(U) /\ \A u \in U : rest[u] \in Nat /\ rest'[u] = rest[u]
    BY <1>5, <2>2, FS_RemoveElement
  <2>7. Bytes(rest, T) = rest[t] + Bytes(rest, U)
    BY <1>3, <2>2, BytesWithout
  <2> HIDE DEF H, T, U
  <2>8. Bytes(rest', U) = Bytes(rest, U) /\ Bytes(rest, U) \in Nat
    BY <2>6, BytesSame, BytesCounted
  <2>9. raw[p].free + rest[t] + Bytes(sizeOf, H) + Bytes(rest', U) = raw[p].room
    BY <1>b, <1>c, <2>2, <2>3, <2>7, <2>8
  <2>10. raw'[p].free = raw[p].free + rest[t] /\ raw'[p].room = raw[p].room /\ raw'[p].live
    BY <1>3, <1>6
  <2> QED
    BY <2>4, <2>5, <2>9, <2>10 DEF Conserved
<1>9. BytesConserved'
  <2>1. \A q \in DOMAIN raw' : Conserved(q)'
    BY <1>6, <1>7, <1>8
  <2> QED
    BY <2>1 DEF BytesConserved, Conserved
<1>10. Unborn'
  <2>1. ~Fresh(t)'
    BY <1>b, <1>1 DEF Fresh
  <2>2. \A x : Placed(x) => x \in Blocks
    BY <1>a, PlacedKnown
  <2>3. \A x : Placed(x)' => place'[x] # 0
    BY <1>a, <1>1, <1>4, <2>2 DEF Unborn
  <2>4. ASSUME NEW u \in Threads \ {t}, Fresh(u)
        PROVE  /\ place'[ask[u]] = place[ask[u]]
               /\ raw'[place[ask[u]]].live = raw[place[ask[u]]].live
               /\ raw'[place[ask[u]]].room = raw[place[ask[u]]].room
               /\ pc[u] = "add" => \A x : Placed(x)' => place'[x] # place[ask[u]]
    <3>1. /\ place[ask[u]] # 0
          /\ pc[u] = "add" => \A x \in Blocks : Placed(x) => place[x] # place[ask[u]]
      BY <1>a, <2>4 DEF Unborn
    <3>2. ask[u] \in Blocks
      BY <1>a, <2>4 DEF Fresh, Typed, AskInv, Asking
    <3>3. place[ask[u]] \in DOMAIN raw
      BY <1>a, <3>1, <3>2, Pieces DEF Typed
    <3> QED
      BY <1>1, <1>4, <1>6, <2>2, <3>1, <3>3
  <2> QED
    BY <2>1, <2>3, <2>4, UnbornKept
<1> QED
  BY <1>9, <1>10
(* getRawMemory hands out a piece that holds nothing.                       *)
LEMMA StoreBytes ==
    ASSUME IsFiniteSet(Threads), NEW t \in Threads, Stepping(t), Store(t)
    PROVE  Unborn' /\ BytesConserved'
<1>p. PICK r, n : r = ask[t] /\ n = Len(raw) + 1
  OBVIOUS
<1>a. Typed /\ Typed' /\ Apart /\ Known /\ Unborn /\ BytesConserved /\ Others(t) /\ Local(t)
  BY DEF Stepping
<1>b. /\ toPut \in [Threads -> SUBSET Blocks] /\ pc \in [Threads -> PCs]
      /\ raw \in Seq(Piece) /\ place \in [Blocks -> 0 .. Len(raw)]
      /\ Len(raw) \in Nat /\ DOMAIN raw = 1 .. Len(raw)
  BY <1>a, Pieces DEF Typed, PathOK, RawOK
<1>1. /\ pc[t] \in {"bump", "store"} /\ pc'[t] \in {"leaf", "add"}
      /\ ask' = ask /\ toPut' = toPut /\ sizeOf' = sizeOf /\ cached' = cached
      /\ used' = used /\ leaves' = leaves /\ left' = left /\ rest' = rest
      /\ adding' = adding
  <2>1. pc'[t] \in {"leaf", "add"}
    BY <1>b DEF Store, Goto
  <2> QED
    BY <2>1 DEF Store, scans, puts
<1>2. r \in Blocks /\ ~Placed(r) /\ \A u \in Threads \ {t} : Asking(u) => ask[u] # r
  <2>1. Asking(t) /\ pc[t] # "split"
    BY <1>1 DEF Asking
  <2> QED
    BY <1>a, <1>p, <2>1, AskedNowhere
<1>3. /\ DOMAIN raw' = 1 .. n
      /\ \A q \in DOMAIN raw : raw'[q] = raw[q]
      /\ ~raw'[n].live /\ raw'[n].room = Room(t)
      /\ place' = [place EXCEPT ![r] = n]
  <2> DEFINE e == [base |-> base[t], size |-> RawSize(t), room |-> Room(t), free |-> 0,
                   live |-> FALSE, bin |-> "none"]
  <2>1. raw' = Append(raw, e) /\ place' = [place EXCEPT ![r] = Len(raw')]
    BY <1>p DEF Store
  <2>2. e \in Piece
    BY <1>a, <1>1, PieceSizes DEF Typed, NumbersOK, Piece, Bins, InRaw
  <2>3. ~e.live /\ e.room = Room(t)
    OBVIOUS
  <2> HIDE DEF e
  <2>4. Len(raw') = n /\ DOMAIN raw' = 1 .. n /\ raw'[n] = e /\ \A q \in 1 .. Len(raw) : raw'[q] = raw[q]
    BY <1>b, <1>p, <2>1, <2>2, AppendProperties
  <2> QED
    BY <1>b, <2>1, <2>3, <2>4
<1>4. \A x : Placed(x)' <=> Placed(x)
  <2>1. \A x : Lies(t, x)' <=> Lies(t, x)
    BY <1>1 DEF Lies, Moves, Kept
  <2> QED
    BY <1>a, <2>1, PlacedParts
<1>5. \A x : Placed(x) => x \in Blocks /\ x # r /\ place'[x] = place[x]
  BY <1>a, <1>b, <1>2, <1>3, PlacedKnown
<1>6. place'[r] = n /\ n \notin DOMAIN raw /\ n # 0
  BY <1>b, <1>p, <1>2, <1>3
<1>7. \A q : Splitting(q)' = Splitting(q) /\ \A u \in Splitting(q) : rest'[u] = rest[u]
  <2>1. pc[t] # "split" /\ pc'[t] # "split"
    BY <1>1
  <2> QED
    BY <1>1, <1>4, <1>5, <2>1, SplittersKept
<1>8. ASSUME NEW q \in DOMAIN raw PROVE Conserved(q)'
  <2>1. \A x : Placed(x)' /\ place'[x] = q <=> Placed(x) /\ place[x] = q
    BY <1>4, <1>5
  <2> QED
    BY <1>3, <1>7, <2>1, PieceKept
<1>9. Conserved(n)'
  <2>1. \A x : x \notin Held(n)'
    BY <1>b, <1>4, <1>5, <1>6, HeldIs
  <2> QED
    BY <1>3, <2>1 DEF Conserved
<1>10. BytesConserved'
  <2>1. \A q \in DOMAIN raw' : Conserved(q)'
    BY <1>b, <1>p, <1>3, <1>8, <1>9
  <2> QED
    BY <2>1 DEF BytesConserved, Conserved
<1>11. Unborn'
  <2>1. /\ place'[ask'[t]] = n /\ ~raw'[n].live /\ raw'[n].room = Room(t)'
        /\ \A x : Placed(x)' => place'[x] # n
    <3>1. Room(t)' = Room(t)
      BY <1>1 DEF Room, RawSize, Direct
    <3> QED
      BY <1>b, <1>p, <1>1, <1>3, <1>4, <1>5, <1>6, <3>1
  <2>2. \A x : Placed(x)' => place'[x] # 0
    BY <1>a, <1>4, <1>5 DEF Unborn
  <2>3. ASSUME NEW u \in Threads \ {t}, Fresh(u)
        PROVE  /\ place'[ask[u]] = place[ask[u]] /\ place[ask[u]] # n
               /\ raw'[place[ask[u]]].live = raw[place[ask[u]]].live
               /\ raw'[place[ask[u]]].room = raw[place[ask[u]]].room
               /\ pc[u] = "add" => \A x : Placed(x)' => place'[x] # place[ask[u]]
    <3>1. /\ place[ask[u]] # 0
          /\ pc[u] = "add" => \A x \in Blocks : Placed(x) => place[x] # place[ask[u]]
      BY <1>a, <2>3 DEF Unborn
    <3>2. ask[u] \in Blocks /\ ask[u] # r
      BY <1>a, <1>2, <2>3 DEF Fresh, Typed, AskInv, Asking
    <3>3. place'[ask[u]] = place[ask[u]]
      BY <1>b, <1>3, <3>2
    <3>4. place[ask[u]] \in DOMAIN raw
      BY <1>b, <3>1, <3>2
    <3> QED
      BY <1>3, <1>4, <1>5, <1>6, <3>1, <3>3, <3>4
  <2> QED
    BY <1>6, <2>1, <2>2, <2>3, UnbornKept
<1> QED
  BY <1>10, <1>11

(* A leaf lies in a piece that is not a region.                             *)
LEMMA AddLeafBytes ==
    ASSUME IsFiniteSet(Threads), NEW t \in Threads, Stepping(t), AddLeaf(t)
    PROVE  Unborn' /\ BytesConserved'
<1>p. PICK r, p : r = ask[t] /\ p = place[ask[t]]
  OBVIOUS
<1>a. Typed /\ Typed' /\ Apart /\ Known /\ Unborn /\ BytesConserved /\ Others(t) /\ Local(t)
  BY DEF Stepping
<1>b. toPut \in [Threads -> SUBSET Blocks] /\ pc \in [Threads -> PCs]
  BY <1>a DEF Typed, PathOK
<1>1. /\ pc[t] = "leaf" /\ pc' = [pc EXCEPT ![t] = "idle"] /\ leaves' = leaves \cup {r}
      /\ raw' = raw /\ place' = place /\ sizeOf' = sizeOf /\ rest' = rest
      /\ toPut' = toPut /\ used' = used /\ cached' = cached
  BY <1>p DEF AddLeaf, Goto, puts
<1>2. /\ r \in Blocks /\ ~Placed(r) /\ p \in DOMAIN raw /\ ~raw[p].live
      /\ \A u \in Threads \ {t} : Fresh(u) => place[ask[u]] # p
  <2>1. Asking(t) /\ pc[t] # "split" /\ Fresh(t)
    BY <1>1 DEF Asking, Fresh
  <2>2. r \in Blocks /\ ~Placed(r)
    BY <1>a, <1>p, <2>1, AskedNowhere
  <2>3. /\ p # 0 /\ ~raw[p].live
        /\ \A u \in Threads \ {t} : Fresh(u) => place[ask[u]] # p
    BY <1>a, <1>p, <2>1 DEF Unborn
  <2> QED
    BY <1>a, <1>p, <2>2, <2>3, Pieces DEF Typed
<1>3. \A x : Placed(x)' <=> Placed(x) \/ x = r
  <2>1. \A x : Lies(t, x)' <=> Lies(t, x) \/ x = r
    BY <1>b, <1>1 DEF Lies, Moves, Kept
  <2> QED
    BY <1>a, <2>1, PlacedParts
<1>4. \A q : Splitting(q)' = Splitting(q) /\ \A u \in Splitting(q) : rest'[u] = rest[u]
  <2>1. pc[t] # "split" /\ pc'[t] # "split"
    BY <1>b, <1>1
  <2> QED
    BY <1>1, <1>3, <2>1, SplittersKept
<1>5. ASSUME NEW q \in DOMAIN raw, q # p PROVE Conserved(q)'
  <2>1. \A x : Placed(x)' /\ place'[x] = q <=> Placed(x) /\ place[x] = q
    BY <1>p, <1>1, <1>3, <1>5
  <2> QED
    BY <1>1, <1>4, <2>1, PieceKept
<1>6. Conserved(p)'
  <2>1. Held(p) \subseteq leaves
    BY <1>a, <1>2 DEF BytesConserved
  <2>2. Held(p)' \subseteq leaves'
    BY <1>1, <1>3, <2>1, HeldIs
  <2> QED
    BY <1>1, <1>2, <2>2 DEF Conserved
<1>7. BytesConserved'
  <2>1. \A q \in DOMAIN raw' : Conserved(q)'
    BY <1>1, <1>5, <1>6
  <2> QED
    BY <2>1 DEF BytesConserved, Conserved
<1>8. Unborn'
  <2>1. ~Fresh(t)'
    BY <1>b, <1>1 DEF Fresh
  <2>2. \A x : Placed(x) => x \in Blocks
    BY <1>a, PlacedKnown
  <2>3. p # 0
    BY <1>a, <1>2, Pieces DEF Typed
  <2>4. \A x : Placed(x)' => place'[x] # 0
    BY <1>a, <1>p, <1>1, <1>3, <2>2, <2>3 DEF Unborn
  <2>5. \A u \in Threads \ {t} : Fresh(u) /\ pc[u] = "add" =>
            \A x : Placed(x)' => place'[x] # place[ask[u]]
    BY <1>a, <1>p, <1>1, <1>2, <1>3, <2>2 DEF Unborn
  <2> QED
    BY <1>1, <2>1, <2>4, <2>5, UnbornKept
<1> QED
  BY <1>7, <1>8

(* A piece becomes a region, all of it free.                                *)
LEMMA AddRegionBytes ==
    ASSUME IsFiniteSet(Threads), NEW t \in Threads, Stepping(t), AddRegion(t)
    PROVE  Unborn' /\ BytesConserved'
<1>p. PICK p : p = place[ask[t]]
  OBVIOUS
<1>a. Typed /\ Typed' /\ Apart /\ Known /\ Unborn /\ BytesConserved /\ Others(t) /\ Local(t)
  BY DEF Stepping
<1>b. toPut \in [Threads -> SUBSET Blocks] /\ pc \in [Threads -> PCs]
  BY <1>a DEF Typed, PathOK
<1>1. /\ pc[t] = "add" /\ pc'[t] \in {"signal", "load"}
      /\ place' = place /\ sizeOf' = sizeOf /\ rest' = rest
      /\ toPut' = toPut /\ used' = used /\ cached' = cached /\ leaves' = leaves
      /\ raw' = [raw EXCEPT ![p].free = Room(t), ![p].live = TRUE,
                            ![p].bin = IF Exact(t) THEN "large" ELSE "aligned"]
  <2>1. pc'[t] \in {"signal", "load"}
    BY <1>b DEF AddRegion, Goto
  <2> QED
    BY <1>p, <2>1 DEF AddRegion, puts, blocks
<1>2. /\ p \in DOMAIN raw /\ raw[p].room = Room(t) /\ raw[p] \in Piece
      /\ \A x : Placed(x) => x \in Blocks /\ place[x] # p
      /\ \A u \in Threads \ {t} : Fresh(u) => place[ask[u]] # p
  <2>1. Asking(t) /\ Fresh(t)
    BY <1>1 DEF Asking, Fresh
  <2>2. ask[t] \in Blocks
    BY <1>a, <2>1 DEF Typed, AskInv
  <2>3. /\ p # 0 /\ raw[p].room = Room(t) /\ \A x \in Blocks : Placed(x) => place[x] # p
        /\ \A u \in Threads \ {t} : Fresh(u) => place[ask[u]] # p
    BY <1>a, <1>p, <1>1, <2>1 DEF Unborn
  <2>4. p \in DOMAIN raw /\ raw[p] \in Piece
    BY <1>a, <1>p, <2>2, <2>3, Pieces DEF Typed
  <2> QED
    BY <1>a, <2>3, <2>4, PlacedKnown
<1>3. \A x : Placed(x)' <=> Placed(x)
  <2>1. \A x : Lies(t, x)' <=> Lies(t, x)
    BY <1>b, <1>1 DEF Lies, Moves, Kept
  <2> QED
    BY <1>a, <2>1, PlacedParts
<1>4. \A q : Splitting(q)' = Splitting(q) /\ \A u \in Splitting(q) : rest'[u] = rest[u]
  <2>1. pc[t] # "split" /\ pc'[t] # "split"
    BY <1>1
  <2> QED
    BY <1>1, <1>3, <2>1, SplittersKept
<1>5. /\ DOMAIN raw' = DOMAIN raw
      /\ \A q \in DOMAIN raw : q # p => raw'[q] = raw[q]
      /\ raw'[p].free = Room(t) /\ raw'[p].live /\ raw'[p].room = raw[p].room
  BY <1>1, <1>2 DEF Piece
<1>6. ASSUME NEW q \in DOMAIN raw, q # p PROVE Conserved(q)'
  <2>1. \A x : Placed(x)' /\ place'[x] = q <=> Placed(x) /\ place[x] = q
    BY <1>1, <1>3
  <2> QED
    BY <1>4, <1>5, <1>6, <2>1, PieceKept
<1>7. Conserved(p)'
  <2>1. \A x : x \notin Held(p)'
    BY <1>1, <1>2, <1>3, HeldIs
  <2>2. \A u : u \notin Splitting(p)'
    <3>1. \A u \in Splitting(p) : Placed(ask[u]) /\ place[ask[u]] = p
      BY DEF Splitting, Placed, Moves
    <3> QED
      BY <1>2, <1>4, <3>1
  <2>3. Held(p)' = {} /\ Splitting(p)' = {}
    BY <2>1, <2>2
  <2>4. Bytes(sizeOf, Held(p))' = 0 /\ Bytes(rest, Splitting(p))' = 0
    BY <2>3, BytesNone
  <2>5. Room(t) \in Nat
    BY <1>2 DEF Piece
  <2> QED
    BY <1>2, <1>5, <2>4, <2>5 DEF Conserved
<1>8. BytesConserved'
  <2>1. \A q \in DOMAIN raw' : Conserved(q)'
    BY <1>5, <1>6, <1>7
  <2> QED
    BY <2>1 DEF BytesConserved, Conserved
<1>9. Unborn'
  <2>1. ~Fresh(t)'
    BY <1>1 DEF Fresh
  <2>2. \A x : Placed(x)' => place'[x] # 0
    BY <1>a, <1>1, <1>2, <1>3 DEF Unborn
  <2>3. ASSUME NEW u \in Threads \ {t}, Fresh(u)
        PROVE  /\ place'[ask[u]] = place[ask[u]]
               /\ raw'[place[ask[u]]].live = raw[place[ask[u]]].live
               /\ raw'[place[ask[u]]].room = raw[place[ask[u]]].room
               /\ pc[u] = "add" => \A x : Placed(x)' => place'[x] # place[ask[u]]
    <3>1. /\ place[ask[u]] # 0
          /\ pc[u] = "add" => \A x \in Blocks : Placed(x) => place[x] # place[ask[u]]
      BY <1>a, <2>3 DEF Unborn
    <3>2. ask[u] \in Blocks
      BY <1>a, <2>3 DEF Fresh, Typed, AskInv, Asking
    <3>3. place[ask[u]] \in DOMAIN raw /\ place[ask[u]] # p
      BY <1>a, <1>2, <2>3, <3>1, <3>2, Pieces DEF Typed
    <3> QED
      BY <1>1, <1>2, <1>3, <1>5, <3>1, <3>3
  <2> QED
    BY <2>1, <2>2, <2>3, UnbornKept
<1> QED
  BY <1>8, <1>9

-----------------------------------------------------------------------------
(* The theorem.                                                             *)

(* bootstrap() leaves one empty region and no blocks.                       *)
LEMMA BytesInit == ASSUME IsFiniteSet(Threads), Init PROVE BytesInv
<1>1. AllocInv
  BY AllocInit
<1>2. /\ used = {} /\ cached = {} /\ leaves = {} /\ requests = 0
      /\ \A t \in Threads : pc[t] = "idle" /\ toPut[t] = {}
  BY DEF Init
<1>3. \A b : ~Placed(b) /\ \A t \in Threads : ~Has(t, b) /\ ~Asking(t) /\ ~Fresh(t)
  BY <1>2 DEF Placed, Moves, Kept, Has, Asking, Fresh
<1>4. Apart /\ Known /\ Unborn
  BY <1>2, <1>3 DEF Apart, Known, Unborn, Kept
<1>5. BytesConserved
  <2> SUFFICES ASSUME NEW p \in DOMAIN raw PROVE Conserved(p)
    BY DEF BytesConserved, Conserved
  <2>1. Held(p) = {}
    BY <1>3, HeldIs
  <2>2. Splitting(p) = {}
    BY <1>2 DEF Splitting
  <2>3. Bytes(sizeOf, Held(p)) = 0 /\ Bytes(rest, Splitting(p)) = 0
    BY <2>1, <2>2, BytesNone
  <2>4. Bootstrap - Header \in Nat
    BY Sizes
  <2>5. raw[p].live => raw[p].free = raw[p].room /\ raw[p].room \in Nat
    BY <2>4 DEF Init
  <2> QED
    BY <2>1, <2>3, <2>5 DEF Conserved
<1> QED
  BY <1>1, <1>4, <1>5 DEF BytesInv

(* Every step of every thread keeps the account.                            *)
LEMMA BytesStep ==
    ASSUME IsFiniteSet(Threads), BytesInv, [Next]_vars
    PROVE  BytesInv'
<1>1. AllocInv'
  BY AllocStep DEF BytesInv
<1>2. Typed /\ Typed'
  BY <1>1, TypeParts DEF BytesInv, AllocInv, Typed, TypeOK, BlocksOK, PathOK, NumbersOK, RawOK, Piece, Bins
<1>3. ASSUME NEW t \in Threads, Call(t) \/ Work(t)
      PROVE  Apart' /\ Known' /\ Unborn' /\ BytesConserved'
  <2>1. Others(t)
    BY <1>2, <1>3, PathStep DEF Typed
  <2>2. Local(t)
    BY <1>2, <1>3, LocalStep DEF Typed, BytesInv
  <2>3. Apart' /\ Known'
    BY <1>2, <2>1, <2>2, ApartStep DEF Typed, BytesInv
  <2>4. Stepping(t)
    BY <1>2, <2>1, <2>2 DEF Stepping, BytesInv
  <2>5. \/ Quiet(t)
        \/ \E b \in cached : \E old \in SUBSET (cached \ {b}) : AllocateCached(t, b, old)
        \/ \E b \in Blocks : EndPut(t, b)
        \/ \E p \in DOMAIN raw : ScanFinds(t, p)
        \/ Split(t) \/ Store(t) \/ AddLeaf(t) \/ AddRegion(t)
    BY <1>2, <1>3, QuietStep DEF Typed, BytesInv
  <2> QED
    BY <2>3, <2>4, <2>5, QuietBytes, AllocateCachedBytes, EndPutBytes, ScanFindsBytes, SplitBytes,
       StoreBytes, AddLeafBytes, AddRegionBytes
<1>4. CASE UNCHANGED vars
  <2>1. /\ raw' = raw /\ place' = place /\ rest' = rest /\ sizeOf' = sizeOf /\ leaves' = leaves
        /\ used' = used /\ cached' = cached /\ requests' = requests /\ left' = left
        /\ adding' = adding
        /\ pc' = pc /\ ask' = ask /\ toPut' = toPut /\ after' = after
    BY <1>4 DEF vars, shared, blocks, scans, rawing, puts
  <2>2. Apart' /\ Known' /\ Unborn'
    BY <2>1 DEF BytesInv, Apart, Known, Unborn, Kept, Has, Asking, Placed, Moves, Fresh, Room,
                RawSize, Direct
  <2>3. BytesConserved'
    <3>1. \A p : Held(p)' = Held(p) /\ Splitting(p)' = Splitting(p)
      BY <2>1 DEF Held, Splitting
    <3>2. \A p \in DOMAIN raw : Conserved(p)
      BY DEF BytesInv, BytesConserved, Conserved
    <3>3. \A p \in DOMAIN raw' : Conserved(p)'
      BY <2>1, <3>1, <3>2 DEF Conserved
    <3> QED
      BY <3>3 DEF BytesConserved, Conserved
  <2> QED
    BY <1>1, <2>2, <2>3 DEF BytesInv
<1> QED
  BY <1>1, <1>3, <1>4 DEF Next, Quiescent, BytesInv

(* No byte of a region is lost, and none has two owners, whatever the       *)
(* threads do, in every state: bins, blocks on their way, blocks in use and *)
(* cached blocks add up to the region (backend.cpp, genericGetBlock,        *)
(* splitBlock and genericPutBlock).                                         *)
THEOREM BytesAlways == ASSUME IsFiniteSet(Threads) PROVE Spec => []BytesConserved
<1>1. Init => BytesInv
  BY BytesInit
<1>2. BytesInv /\ [Next]_vars => BytesInv'
  BY BytesStep
<1>3. BytesInv => BytesConserved
  BY DEF BytesInv
<1> QED
  BY <1>1, <1>2, <1>3, PTL DEF Spec
=============================================================================
