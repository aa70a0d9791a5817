--------------------------- MODULE BackRefs_proofs ---------------------------
(* Theorems about BackRefs, for every number of threads, every size of a    *)
(* leaf and every amount of memory.  Type correctness needs the partition   *)
(* of the slots (allocatedCount neither underflows nor passes BR_MAX_CNT),  *)
(* and the partition needs the types: they are proved as one invariant.     *)
EXTENDS BackRefs, FiniteSetTheorems, SequenceTheorems, TLAPS

AtLeaf == {"take", "free", "peek", "peekListed", "peekActive", "relock"}

(* Threads and references only know leaves that exist.                      *)
Known ==
    /\ active <= leaves /\ \A i \in 1 .. Len(list) : list[i] <= leaves
    /\ \A r \in held : r[1] <= leaves
    /\ \A t \in Threads : leaf[t] <= leaves
    /\ \A t \in Threads : pc[t] \in AtLeaf => leaf[t] \in Leaves
    /\ \A t \in Threads : pc[t] = "free" => ref[t] \in Refs /\ leaf[t] = ref[t][1]

TableInv == TypeOK /\ SlotsPartition /\ ListIsChain /\ Known

-----------------------------------------------------------------------------
(* Facts about sequences and cardinalities.                                 *)

(* A chain with a new first leaf.                                           *)
LEMMA Prepended ==
    ASSUME NEW S, NEW s \in Seq(S), NEW x \in S, NEW q, q = <<x>> \o s
    PROVE  /\ q \in Seq(S)
           /\ Len(q) = Len(s) + 1
           /\ q[1] = x
           /\ \A i \in 1 .. Len(s) : q[i + 1] = s[i]
<1>1. <<x>> \in Seq(S) /\ Len(<<x>>) = 1 /\ <<x>>[1] = x
  OBVIOUS
<1>2. /\ q \in Seq(S) /\ Len(q) = 1 + Len(s)
      /\ \A i \in 1 .. 1 + Len(s) : q[i] = IF i <= 1 THEN <<x>>[i] ELSE s[i - 1]
  BY <1>1, ConcatProperties
<1>3. Len(s) \in Nat
  OBVIOUS
<1>4. q[1] = x
  BY <1>1, <1>2, <1>3
<1>5. ASSUME NEW i \in 1 .. Len(s) PROVE q[i + 1] = s[i]
  <2>1. i + 1 \in 1 .. 1 + Len(s) /\ ~(i + 1 <= 1) /\ (i + 1) - 1 = i
    BY <1>3
  <2> QED
    BY <1>2, <2>1
<1> QED
  BY <1>2, <1>3, <1>4, <1>5

(* A chain without its first leaf.                                          *)
LEMMA Unchained ==
    ASSUME NEW S, NEW s \in Seq(S), s # <<>>
    PROVE  /\ Tail(s) \in Seq(S) /\ Len(s) \in Nat /\ Len(s) >= 1
           /\ Len(Tail(s)) = Len(s) - 1
           /\ Head(s) = s[1] /\ Head(s) \in S
           /\ \A i \in 1 .. Len(s) - 1 : Tail(s)[i] = s[i + 1]
<1>1. /\ Tail(s) \in Seq(S) /\ Len(Tail(s)) = Len(s) - 1 /\ Head(s) \in S
      /\ \A i \in 1 .. Len(Tail(s)) : Tail(s)[i] = s[i + 1]
  BY HeadTailProperties
<1>2. Len(s) \in Nat /\ Len(s) # 0
  OBVIOUS
<1>3. Head(s) = s[1]
  OBVIOUS
<1> QED
  BY <1>1, <1>2, <1>3

(* Sets of slots are finite.                                                *)
LEMMA SlotsFinite ==
    /\ IsFiniteSet(Slots) /\ Cardinality(Slots) = Cap
    /\ \A T \in SUBSET Slots : IsFiniteSet(T) /\ Cardinality(T) \in 0 .. Cap
                               /\ (Cardinality(T) = Cap => T = Slots)
<1>1. IsFiniteSet(Slots) /\ Cardinality(Slots) = Cap
  BY FS_Interval, BackRefsAssumption DEF Slots
<1>2. ASSUME NEW T \in SUBSET Slots
      PROVE  IsFiniteSet(T) /\ Cardinality(T) \in 0 .. Cap
             /\ (Cardinality(T) = Cap => T = Slots)
  <2>1. /\ IsFiniteSet(T) /\ Cardinality(T) <= Cardinality(Slots)
        /\ Cardinality(Slots) = Cardinality(T) => Slots = T
    BY <1>1, FS_Subset
  <2>2. Cardinality(T) \in Nat
    BY <2>1, FS_CardinalityType
  <2> QED
    BY <1>1, <2>1, <2>2, BackRefsAssumption
<1> QED
  BY <1>1, <1>2

-----------------------------------------------------------------------------
(* The slots.                                                               *)

(* A step that gives out and takes back nothing keeps the partition.        *)
LEMMA SlotsSame ==
    ASSUME \A l \in Leaves : LeafPartition(l), Given' = Given,
           UNCHANGED <<count, freed, fresh>>
    PROVE  \A l \in Leaves : LeafPartition(l)'
<1>1. \A l \in Leaves : Taken(l)' = Taken(l)
  BY DEF Taken
<1> QED
  BY <1>1 DEF LeafPartition

(* A slot given out of the free list, or the next one never used.           *)
LEMMA SlotGiven ==
    ASSUME NEW k \in Leaves, NEW s \in Slots, \A l \in Leaves : LeafPartition(l), TypeOK,
           Given' = Given \cup {<<k, s>>}, s \notin Taken(k),
           count' = [count EXCEPT ![k] = @ + 1],
           \/ freed' = [freed EXCEPT ![k] = @ \ {s}] /\ s \in freed[k] /\ fresh' = fresh
           \/ freed' = freed /\ fresh' = [fresh EXCEPT ![k] = @ - 1] /\ s = fresh[k] - 1
    PROVE  \A l \in Leaves : LeafPartition(l)'
<1> SUFFICES ASSUME NEW l \in Leaves PROVE LeafPartition(l)'
  OBVIOUS
<1> USE BackRefsAssumption
<1>t. /\ count[l] \in 0 .. Cap /\ freed[l] \in SUBSET Slots /\ fresh[l] \in 0 .. Cap
      /\ count \in [Leaves -> 0 .. Cap] /\ freed \in [Leaves -> SUBSET Slots]
      /\ fresh \in [Leaves -> 0 .. Cap] /\ Taken(l) \in SUBSET Slots
  BY DEF TypeOK, Taken
<1>0. LeafPartition(l)
  OBVIOUS
<1>1. CASE l # k
  <2>1. Taken(l)' = Taken(l)
    BY <1>1 DEF Taken
  <2>2. count'[l] = count[l] /\ freed'[l] = freed[l] /\ fresh'[l] = fresh[l]
    BY <1>1, <1>t
  <2> QED
    BY <1>0, <2>1, <2>2 DEF LeafPartition
<1>2. CASE l = k
  <2>1. Taken(l)' = Taken(l) \cup {s}
    BY <1>2 DEF Taken
  <2>2. count'[l] = Cardinality(Taken(l)')
    <3>1. IsFiniteSet(Taken(l))
      BY SlotsFinite, <1>t
    <3>2. Cardinality(Taken(l) \cup {s}) = Cardinality(Taken(l)) + 1
      BY <1>2, <3>1, FS_AddElement
    <3> QED
      BY <1>0, <1>2, <1>t, <2>1, <3>2 DEF LeafPartition
  <2>3. CASE freed' = [freed EXCEPT ![k] = @ \ {s}] /\ s \in freed[k] /\ fresh' = fresh
    <3>1. freed'[l] = freed[l] \ {s} /\ fresh'[l] = fresh[l] /\ s \in freed[l]
      BY <1>2, <1>t, <2>3
    <3> QED
      BY <1>0, <2>1, <2>2, <3>1 DEF LeafPartition
  <2>4. CASE /\ freed' = freed /\ fresh' = [fresh EXCEPT ![k] = @ - 1]
             /\ s = fresh[k] - 1
    <3>1. freed'[l] = freed[l] /\ fresh'[l] = fresh[l] - 1 /\ s = fresh[l] - 1
      BY <1>2, <1>t, <2>4
    <3>2. 0 .. fresh[l] - 1 = (0 .. fresh'[l] - 1) \cup {s} /\ s \notin 0 .. fresh'[l] - 1
      BY <1>t, <3>1 DEF Slots
    <3>3. s \notin freed[l]
      BY <1>0, <3>2 DEF LeafPartition
    <3> QED
      BY <1>0, <2>1, <2>2, <3>1, <3>2, <3>3 DEF LeafPartition
  <2> QED
    BY <2>3, <2>4
<1> QED
  BY <1>1, <1>2

(* A slot taken back.                                                       *)
LEMMA SlotTakenBack ==
    ASSUME NEW k \in Leaves, NEW s \in Slots, \A l \in Leaves : LeafPartition(l), TypeOK,
           Given' = Given \ {<<k, s>>}, s \in Taken(k),
           count' = [count EXCEPT ![k] = @ - 1],
           freed' = [freed EXCEPT ![k] = @ \cup {s}], fresh' = fresh
    PROVE  \A l \in Leaves : LeafPartition(l)'
<1> SUFFICES ASSUME NEW l \in Leaves PROVE LeafPartition(l)'
  OBVIOUS
<1>t. /\ count \in [Leaves -> 0 .. Cap] /\ freed \in [Leaves -> SUBSET Slots]
      /\ count[l] \in Nat /\ Taken(l) \in SUBSET Slots
  BY BackRefsAssumption DEF TypeOK, Taken
<1>0. LeafPartition(l)
  OBVIOUS
<1>1. CASE l # k
  <2>1. Taken(l)' = Taken(l)
    BY <1>1 DEF Taken
  <2>2. count'[l] = count[l] /\ freed'[l] = freed[l] /\ fresh'[l] = fresh[l]
    BY <1>1, <1>t
  <2> QED
    BY <1>0, <2>1, <2>2 DEF LeafPartition
<1>2. CASE l = k
  <2>1. Taken(l)' = Taken(l) \ {s}
    BY <1>2 DEF Taken
  <2>2. IsFiniteSet(Taken(l))
    BY SlotsFinite, <1>t
  <2>3. Cardinality(Taken(l) \ {s}) = Cardinality(Taken(l)) - 1
    BY <1>2, <2>2, FS_RemoveElement
  <2>4. count'[l] = count[l] - 1 /\ freed'[l] = freed[l] \cup {s} /\ fresh'[l] = fresh[l]
    BY <1>2, <1>t
  <2> QED
    BY <1>0, <1>2, <2>1, <2>3, <2>4 DEF LeafPartition
<1> QED
  BY <1>1, <1>2

-----------------------------------------------------------------------------
(* The chain.                                                               *)

(* What Known says of the table, and what the chain adds to it.             *)
ChainInv ==
    /\ active \in Leaves /\ leaves \in Leaves /\ list \in Seq(Leaves)
    /\ added \in [Leaves -> BOOLEAN]
    /\ active <= leaves /\ \A i \in 1 .. Len(list) : list[i] <= leaves
    /\ ListIsChain

(* The first leaf of the chain becomes the active one.                      *)
LEMMA ChainSwitch ==
    ASSUME ChainInv, list # <<>>, active' = Head(list), list' = Tail(list),
           added' = [added EXCEPT ![Head(list)] = FALSE], leaves' = leaves
    PROVE  ChainInv' /\ Head(list) \in Leaves /\ Head(list) <= leaves
<1> DEFINE n == Len(list)
<1>1. /\ Tail(list) \in Seq(Leaves) /\ n \in Nat /\ n >= 1
      /\ Len(Tail(list)) = n - 1 /\ Head(list) = list[1] /\ Head(list) \in Leaves
      /\ \A i \in 1 .. n - 1 : Tail(list)[i] = list[i + 1]
  BY Unchained DEF ChainInv
<1>2. /\ \A i, j \in 1 .. n : list[i] = list[j] => i = j
      /\ \A l \in Leaves : added[l] <=> \E i \in 1 .. n : list[i] = l
      /\ \A i \in 1 .. n : list[i] <= leaves
  BY DEF ChainInv, ListIsChain
<1>3. Head(list) <= leaves
  BY <1>1, <1>2
<1>4. list' \in Seq(Leaves) /\ Len(list') = n - 1 /\ \A i \in 1 .. n - 1 : list'[i] = list[i + 1]
  BY <1>1
<1>5. ASSUME NEW i \in 1 .. n - 1 PROVE list'[i] <= leaves
  BY <1>1, <1>2, <1>4, i + 1 \in 1 .. n
<1>6. ASSUME NEW i \in 1 .. n - 1, NEW j \in 1 .. n - 1, list'[i] = list'[j] PROVE i = j
  <2>1. i + 1 \in 1 .. n /\ j + 1 \in 1 .. n /\ list[i + 1] = list[j + 1]
    BY <1>1, <1>4, <1>6
  <2>2. i + 1 = j + 1
    BY <1>2, <2>1
  <2> QED
    BY <1>1, <2>2
<1>7. ASSUME NEW l \in Leaves PROVE added'[l] <=> \E i \in 1 .. n - 1 : list'[i] = l
  <2>1. CASE l = list[1]
    <3>1. ~added'[l]
      BY <1>1, <2>1 DEF ChainInv
    <3>2. ASSUME NEW i \in 1 .. n - 1 PROVE list'[i] # l
      <4>1. i + 1 \in 1 .. n /\ i + 1 # 1 /\ 1 \in 1 .. n /\ list'[i] = list[i + 1]
        BY <1>1, <1>4
      <4> QED
        BY <1>2, <2>1, <4>1
    <3> QED
      BY <3>1, <3>2
  <2>2. CASE l # list[1]
    <3>1. added'[l] = added[l]
      BY <1>1, <2>2 DEF ChainInv
    <3>2. ASSUME NEW i \in 1 .. n - 1, list'[i] = l PROVE added[l]
      BY <1>1, <1>2, <1>4, <3>2, i + 1 \in 1 .. n
    <3>3. ASSUME added[l] PROVE \E i \in 1 .. n - 1 : list'[i] = l
      <4>1. PICK j \in 1 .. n : list[j] = l
        BY <1>2, <3>3
      <4>2. j - 1 \in 1 .. n - 1 /\ list'[j - 1] = list[(j - 1) + 1] /\ (j - 1) + 1 = j
        BY <1>1, <1>4, <2>2, <4>1
      <4> QED
        BY <4>1, <4>2
    <3> QED
      BY <3>1, <3>2, <3>3
  <2> QED
    BY <2>1, <2>2
<1>8. ~added'[active']
  BY <1>1 DEF ChainInv
<1>9. ListIsChain'
  BY <1>4, <1>6, <1>7, <1>8 DEF ListIsChain
<1>10. added' \in [Leaves -> BOOLEAN]
  BY <1>1 DEF ChainInv
<1> QED
  BY <1>1, <1>3, <1>4, <1>5, <1>9, <1>10 DEF ChainInv

(* A leaf that is neither active nor in the chain enters it.                *)
LEMMA ChainGrows ==
    ASSUME ChainInv, NEW k \in Leaves, k <= leaves, ~added[k], k # active,
           list' = <<k>> \o list, added' = [added EXCEPT ![k] = TRUE],
           active' = active, leaves' = leaves
    PROVE  ChainInv'
<1> DEFINE n == Len(list)
<1>1. /\ list' \in Seq(Leaves) /\ n \in Nat /\ Len(list') = n + 1 /\ list'[1] = k
      /\ \A i \in 1 .. n : list'[i + 1] = list[i]
  BY Prepended DEF ChainInv
<1>2. /\ \A i, j \in 1 .. n : list[i] = list[j] => i = j
      /\ \A l \in Leaves : added[l] <=> \E i \in 1 .. n : list[i] = l
      /\ \A i \in 1 .. n : list[i] <= leaves /\ list[i] \in Leaves
      /\ ~added[active] /\ added \in [Leaves -> BOOLEAN]
  BY DEF ChainInv, ListIsChain
<1>3. \A i \in 1 .. n : list[i] # k
  BY <1>2
<1>4. \A i \in 1 .. n + 1 : i = 1 \/ (i - 1 \in 1 .. n /\ list'[i] = list[i - 1])
  <2> SUFFICES ASSUME NEW i \in 1 .. n + 1, i # 1
               PROVE  i - 1 \in 1 .. n /\ list'[i] = list[i - 1]
    OBVIOUS
  <2>1. i - 1 \in 1 .. n /\ (i - 1) + 1 = i
    BY <1>1
  <2> QED
    BY <1>1, <2>1
<1>5. ASSUME NEW i \in 1 .. n + 1 PROVE list'[i] <= leaves
  BY <1>1, <1>2, <1>4
<1>6. ASSUME NEW i \in 1 .. n + 1, NEW j \in 1 .. n + 1, list'[i] = list'[j] PROVE i = j
  <2>1. CASE i = 1 \/ j = 1
    BY <1>1, <1>3, <1>4, <1>6, <2>1
  <2>2. CASE i # 1 /\ j # 1
    <3>1. i - 1 \in 1 .. n /\ j - 1 \in 1 .. n /\ list[i - 1] = list[j - 1]
      BY <1>4, <1>6, <2>2
    <3>2. i - 1 = j - 1
      BY <1>2, <3>1
    <3> QED
      BY <1>1, <3>2
  <2> QED
    BY <2>1, <2>2
<1>7. ASSUME NEW l \in Leaves PROVE added'[l] <=> \E i \in 1 .. n + 1 : list'[i] = l
  <2>1. CASE l = k
    BY <1>1, <1>2, <2>1, 1 \in 1 .. n + 1
  <2>2. CASE l # k
    <3>1. added'[l] = added[l]
      BY <1>2, <2>2
    <3>2. ASSUME NEW i \in 1 .. n + 1, list'[i] = l PROVE added[l]
      BY <1>1, <1>2, <1>4, <2>2, <3>2
    <3>3. ASSUME added[l] PROVE \E i \in 1 .. n + 1 : list'[i] = l
      <4>1. PICK j \in 1 .. n : list[j] = l
        BY <1>2, <3>3
      <4>2. j + 1 \in 1 .. n + 1 /\ list'[j + 1] = l
        BY <1>1, <4>1
      <4> QED
        BY <4>2
    <3> QED
      BY <3>1, <3>2, <3>3
  <2> QED
    BY <2>1, <2>2
<1>8. ~added'[active']
  BY <1>2 DEF ChainInv
<1>9. ListIsChain'
  BY <1>1, <1>6, <1>7, <1>8 DEF ListIsChain
<1> QED
  BY <1>1, <1>2, <1>5, <1>9 DEF ChainInv

(* A new leaf is in no chain yet.                                           *)
LEMMA ChainNewLeaf ==
    ASSUME ChainInv, leaves < MaxLeaves, leaves' = leaves + 1, active' = leaves',
           UNCHANGED <<list, added>>
    PROVE  ChainInv'
<1>1. leaves \in Nat /\ leaves' \in Leaves
  BY BackRefsAssumption DEF ChainInv, Leaves
<1>2. /\ \A l \in Leaves : added[l] <=> \E i \in 1 .. Len(list) : list[i] = l
      /\ \A i \in 1 .. Len(list) : list[i] <= leaves /\ list[i] \in Nat
      /\ \A i, j \in 1 .. Len(list) : list[i] = list[j] => i = j
  BY BackRefsAssumption DEF ChainInv, ListIsChain, Leaves
<1>3. ~added[leaves']
  BY <1>1, <1>2
<1>4. \A i \in 1 .. Len(list) : list[i] <= leaves'
  BY <1>1, <1>2
<1>5. ListIsChain'
  BY <1>2, <1>3 DEF ListIsChain
<1> QED
  BY <1>1, <1>4, <1>5 DEF ChainInv

-----------------------------------------------------------------------------
(* The initial states.                                                      *)

(* The table starts with its invariant: the first leaf active, the others   *)
(* chained, no slot given out.                                              *)
LEMMA TableInit == Init => TableInv
<1> SUFFICES ASSUME Init PROVE TableInv
  OBVIOUS
<1> USE BackRefsAssumption
<1>1. /\ InitLeaves \in Leaves /\ 1 \in Leaves /\ InitLeaves - 1 \in Nat
      /\ Leaves \subseteq Nat /\ 1 <= InitLeaves
  BY DEF Leaves
<1>2. /\ list \in Seq(Leaves) /\ Len(list) = InitLeaves - 1
      /\ \A i \in 1 .. InitLeaves - 1 : list[i] = InitLeaves + 1 - i
  <2>1. \A i \in 1 .. InitLeaves - 1 : InitLeaves + 1 - i \in Leaves
    BY DEF Leaves
  <2>2. list = [i \in 1 .. InitLeaves - 1 |-> InitLeaves + 1 - i]
    BY DEF Init
  <2>3. list \in [1 .. InitLeaves - 1 -> Leaves]
    BY <2>1, <2>2
  <2>4. list \in Seq(Leaves) /\ Len(list) = InitLeaves - 1
    <3>1. list \in Seq(Leaves)
      BY <1>1, <2>1, <2>2
    <3>2. DOMAIN list = 1 .. InitLeaves - 1
      BY <2>2
    <3>3. Len(list) \in Nat /\ DOMAIN list = 1 .. Len(list)
      BY <3>1, LenProperties
    <3>4. Len(list) = InitLeaves - 1
      BY <1>1, <3>2, <3>3
    <3> QED
      BY <3>1, <3>4
  <2> QED
    BY <2>2, <2>4
<1>3. TypeOK
  BY <1>1, <1>2 DEF Init, TypeOK, PCs, NoRef
<1>4. SlotsPartition
  <2>1. Given = {}
    BY DEF Init, Given
  <2>2. ASSUME NEW l \in Leaves PROVE LeafPartition(l)
    <3>1. Taken(l) = {} /\ freed[l] = {} /\ fresh[l] = Cap /\ count[l] = 0
      BY <2>1 DEF Init, Taken
    <3> QED
      BY <3>1, FS_EmptySet DEF LeafPartition, Slots
  <2>3. RemovedOnce
    BY DEF Init, RemovedOnce
  <2> QED
    BY <2>2, <2>3 DEF SlotsPartition
<1>5. ListIsChain
  <2>1. \A i, j \in 1 .. Len(list) : list[i] = list[j] => i = j
    BY <1>1, <1>2
  <2>2. ASSUME NEW l \in Leaves
        PROVE  added[l] <=> \E i \in 1 .. Len(list) : list[i] = l
    <3>1. added[l] <=> l \in 2 .. InitLeaves
      BY DEF Init
    <3>2. ASSUME l \in 2 .. InitLeaves PROVE \E i \in 1 .. Len(list) : list[i] = l
      <4>1. InitLeaves + 1 - l \in 1 .. InitLeaves - 1
            /\ InitLeaves + 1 - (InitLeaves + 1 - l) = l
        BY <1>1, <3>2
      <4> QED
        BY <1>2, <4>1
    <3>3. ASSUME NEW i \in 1 .. Len(list), list[i] = l PROVE l \in 2 .. InitLeaves
      BY <1>1, <1>2, <3>3
    <3> QED
      BY <3>1, <3>2, <3>3
  <2>3. ~added[active]
    <3>1. added[1] <=> 1 \in 2 .. InitLeaves
      BY <1>1, Zenon DEF Init
    <3>2. 1 \notin 2 .. InitLeaves
      BY <1>1
    <3> QED
      BY <3>1, <3>2 DEF Init
  <2> QED
    BY <2>1, <2>2, <2>3 DEF ListIsChain
<1>6. Known
  BY <1>1, <1>2 DEF Init, Known, AtLeaf
<1> QED
  BY <1>3, <1>4, <1>5, <1>6 DEF TableInv

-----------------------------------------------------------------------------
(* The steps.                                                               *)

(* A step of one thread that does not touch a slot, outside of free.        *)
LEMMA SlotsQuiet ==
    ASSUME TableInv, NEW t \in Threads, pc[t] # "free", NEW lbl \in PCs, lbl # "free",
           Goto(t, lbl), held' = held, ref' \in [Threads -> Refs \cup {NoRef}],
           \A u \in Threads \ {t} : ref'[u] = ref[u], UNCHANGED <<count, freed, fresh>>
    PROVE  SlotsPartition'
<1>1. /\ \A u \in Threads \ {t} : pc'[u] = pc[u] /\ ref'[u] = ref[u]
      /\ pc'[t] # "free"
  BY DEF TableInv, TypeOK, Goto
<1>2. Given' = Given
  BY <1>1 DEF Given
<1>3. \A l \in Leaves : LeafPartition(l)'
  BY <1>2, SlotsSame DEF TableInv, SlotsPartition
<1>4. RemovedOnce'
  BY <1>1 DEF RemovedOnce, TableInv, SlotsPartition
<1> QED
  BY <1>3, <1>4 DEF SlotsPartition

(* The parts of TableInv a step of the chain alone leaves open.             *)
LEMMA Parts ==
    ASSUME TableInv
    PROVE  /\ ChainInv
           /\ leaves \in Nat /\ Leaves \subseteq Nat \ {0}
           /\ \A t \in Threads : leaf[t] \in Nat
  BY BackRefsAssumption DEF TableInv, Known, TypeOK, ChainInv, Leaves

(* A step that leaves the chain alone.                                      *)
LEMMA ChainSame ==
    ASSUME ChainInv, UNCHANGED <<active, list, leaves, added>>
    PROVE  ChainInv'
  BY DEF ChainInv, ListIsChain

(* The steps that touch only pc and the locals.                             *)
LEMMA LocalSteps ==
    ASSUME TableInv, NEW t \in Threads,
           \/ NewBackRef(t) \/ FindActive(t) \/ FindFull(t) \/ AskForSpace(t)
           \/ NoFreeBlock(t) \/ TakeNothing(t) \/ Return(t)
           \/ PeekListed(t) \/ PeekActive(t)
    PROVE  TableInv'
<1> USE DEF table, locals, Goto
<1>t. TypeOK /\ Known /\ SlotsPartition /\ ChainInv
  BY Parts DEF TableInv
<1>0. UNCHANGED table
  BY DEF NewBackRef, FindActive, FindFull, AskForSpace, NoFreeBlock, TakeNothing, Return,
         PeekListed, PeekActive, Peek
<1>1. held' = held
  BY DEF NewBackRef, FindActive, FindFull, AskForSpace, NoFreeBlock, TakeNothing, Return,
         PeekListed, PeekActive, Peek
<1>2. /\ mutex' \in Threads \cup {NoThread} /\ calls' \in 0 .. MaxCalls
      /\ leaf' \in [Threads -> Leaves \cup {0}]
      /\ ref' \in [Threads -> Refs \cup {NoRef}] /\ resume' \in [Threads -> {"idle", "space"}]
      /\ \A u \in Threads \ {t} : ref'[u] = ref[u] /\ leaf'[u] = leaf[u]
      /\ leaf'[t] \in {0, leaf[t], active}
      /\ pc[t] # "free"
      /\ \E lbl \in PCs : lbl # "free" /\ Goto(t, lbl) /\ (lbl \in AtLeaf => leaf'[t] \in Leaves)
  <2> USE BackRefsAssumption
  <2>1. CASE NewBackRef(t)
    BY <1>t, <2>1 DEF NewBackRef, TypeOK, PCs, AtLeaf
  <2>2. CASE FindActive(t) \/ FindFull(t)
    BY <1>t, <2>2 DEF FindActive, FindFull, TypeOK, PCs, AtLeaf
  <2>3. CASE AskForSpace(t) \/ NoFreeBlock(t) \/ TakeNothing(t) \/ Return(t)
    BY <1>t, <2>3 DEF AskForSpace, NoFreeBlock, TakeNothing, Return, TypeOK, PCs, AtLeaf
  <2>4. CASE PeekListed(t) \/ PeekActive(t)
    <3>1. /\ mutex' = mutex /\ calls' = calls /\ ref' = ref
          /\ pc[t] \in {"peek", "peekListed", "peekActive"}
          /\ \/ Leave(t)
             \/ /\ UNCHANGED <<leaf, resume>>
                /\ \E lbl \in {"peekActive", "relock", "peekListed"} : Goto(t, lbl)
      BY <2>4 DEF PeekListed, PeekActive, Peek
    <3>2. pc[t] \in AtLeaf /\ leaf[t] \in Leaves
      BY <1>t, <3>1 DEF AtLeaf, Known
    <3>3. CASE Leave(t)
      BY <1>t, <3>1, <3>3 DEF Leave, TypeOK, PCs, AtLeaf
    <3>4. CASE /\ UNCHANGED <<leaf, resume>>
               /\ \E lbl \in {"peekActive", "relock", "peekListed"} : Goto(t, lbl)
      BY <1>t, <3>1, <3>2, <3>4 DEF TypeOK, PCs, AtLeaf
    <3> QED
      BY <3>1, <3>3, <3>4
  <2> QED
    BY <2>1, <2>2, <2>3, <2>4
<1>3. PICK lbl \in PCs : lbl # "free" /\ Goto(t, lbl) /\ (lbl \in AtLeaf => leaf'[t] \in Leaves)
  BY <1>2
<1>4. SlotsPartition'
  BY <1>0, <1>1, <1>2, <1>3, SlotsQuiet
<1>5. ChainInv'
  BY <1>0, <1>t, ChainSame
<1>6. TypeOK'
  BY <1>t, <1>0, <1>1, <1>2, <1>3 DEF TypeOK
<1>7. Known'
  <2>1. \A u \in Threads : leaf'[u] <= leaves
    <3>1. 0 <= leaves
      BY Parts
    <3> QED
      BY <1>2, <1>t, <3>1 DEF Known
  <2>2. /\ \A u \in Threads : pc'[u] \in AtLeaf => leaf'[u] \in Leaves
        /\ \A u \in Threads : pc'[u] = "free" => ref'[u] \in Refs /\ leaf'[u] = ref'[u][1]
    BY <1>2, <1>3, <1>t DEF Known, TypeOK
  <2> QED
    BY <1>0, <1>1, <1>t, <2>1, <2>2 DEF Known
<1> QED
  BY <1>4, <1>5, <1>6, <1>7 DEF TableInv, ChainInv

(* The steps that change the chain or the active leaf.                      *)
LEMMA ChainSteps ==
    ASSUME TableInv, NEW t \in Threads,
           SwitchToListed(t) \/ AddEmptyBackRefBlock(t) \/ AddToList(t)
    PROVE  TableInv'
<1> USE BackRefsAssumption DEF Goto
<1>t. TypeOK /\ Known /\ SlotsPartition /\ ChainInv /\ leaves \in Nat /\ Leaves \subseteq Nat \ {0}
  BY Parts DEF TableInv
<1>1. CASE SwitchToListed(t)
  <2>1. ChainInv' /\ Head(list) \in Leaves /\ Head(list) <= leaves
    BY <1>1, <1>t, ChainSwitch DEF SwitchToListed
  <2>2. pc[t] # "free" /\ "take" \in PCs /\ ref' = ref
    BY <1>1 DEF SwitchToListed, PCs
  <2>3. SlotsPartition'
    BY <1>1, <1>t, <2>2, SlotsQuiet DEF SwitchToListed, TypeOK
  <2>4. TypeOK'
    BY <1>1, <1>t, <2>1, <2>2 DEF SwitchToListed, TypeOK, ChainInv
  <2>5. Known'
    <3>1. /\ \A u \in Threads \ {t} : leaf'[u] = leaf[u] /\ pc'[u] = pc[u]
          /\ leaf'[t] = Head(list) /\ pc'[t] = "take"
      BY <1>1, <1>t DEF SwitchToListed, TypeOK
    <3>2. held' = held /\ leaves' = leaves
      BY <1>1 DEF SwitchToListed
    <3>3. active' <= leaves' /\ \A i \in 1 .. Len(list') : list'[i] <= leaves'
      BY <2>1 DEF ChainInv
    <3> QED
      BY <1>t, <2>1, <2>2, <3>1, <3>2, <3>3 DEF Known
  <2> QED
    BY <2>1, <2>3, <2>4, <2>5 DEF TableInv, ChainInv
<1>2. CASE AddEmptyBackRefBlock(t)
  <2>1. ChainInv'
    BY <1>2, <1>t, ChainNewLeaf DEF AddEmptyBackRefBlock
  <2>2. pc[t] # "free" /\ "take" \in PCs /\ ref' = ref /\ leaves' \in Leaves /\ leaves' = leaves + 1
    BY <1>2, <2>1 DEF AddEmptyBackRefBlock, PCs, ChainInv
  <2>3. SlotsPartition'
    BY <1>2, <1>t, <2>2, SlotsQuiet DEF AddEmptyBackRefBlock, TypeOK
  <2>4. TypeOK'
    BY <1>2, <1>t, <2>1, <2>2 DEF AddEmptyBackRefBlock, TypeOK, ChainInv
  <2>5. Known'
    <3>1. /\ \A u \in Threads \ {t} : leaf'[u] = leaf[u] /\ pc'[u] = pc[u]
          /\ leaf'[t] = leaves' /\ pc'[t] = "take"
      BY <1>2, <1>t DEF AddEmptyBackRefBlock, TypeOK
    <3>2. held' = held
      BY <1>2 DEF AddEmptyBackRefBlock
    <3>3. active' <= leaves' /\ \A i \in 1 .. Len(list') : list'[i] <= leaves'
      BY <2>1 DEF ChainInv
    <3>4. \A u \in Threads : leaf[u] \in Nat
      BY Parts
    <3>5. \A u \in Threads : leaf'[u] <= leaves'
      BY <1>t, <2>2, <3>1, <3>4 DEF Known
    <3>6. \A r \in held : r[1] \in Nat
      BY <1>t DEF TypeOK, Refs
    <3>7. \A r \in held' : r[1] <= leaves'
      BY <1>t, <2>2, <3>2, <3>6 DEF Known
    <3> QED
      BY <1>t, <2>2, <3>1, <3>3, <3>5, <3>7 DEF Known
  <2> QED
    BY <2>1, <2>3, <2>4, <2>5 DEF TableInv, ChainInv
<1>3. CASE AddToList(t)
  <2>0. pc[t] \in AtLeaf /\ leaf[t] \in Leaves /\ leaf[t] <= leaves
    BY <1>3, <1>t DEF AddToList, AtLeaf, Known
  <2>1. ChainInv'
    <3>1. CASE ~added[leaf[t]] /\ leaf[t] # active
      BY <1>3, <1>t, <2>0, <3>1, ChainGrows DEF AddToList
    <3>2. CASE ~(~added[leaf[t]] /\ leaf[t] # active)
      BY <1>3, <1>t, <3>2, ChainSame DEF AddToList
    <3> QED
      BY <3>1, <3>2
  <2>2. /\ pc[t] # "free" /\ resume[t] \in PCs /\ resume[t] # "free" /\ resume[t] \notin AtLeaf
        /\ ref' = ref /\ pc' = [pc EXCEPT ![t] = resume[t]]
    BY <1>3, <1>t DEF AddToList, Leave, PCs, TypeOK, AtLeaf
  <2>3. SlotsPartition'
    BY <1>3, <1>t, <2>2, SlotsQuiet DEF AddToList, TypeOK
  <2>4. TypeOK'
    BY <1>3, <1>t, <2>1, <2>2 DEF AddToList, Leave, TypeOK, ChainInv
  <2>5. Known'
    <3>1. /\ \A u \in Threads \ {t} : leaf'[u] = leaf[u] /\ pc'[u] = pc[u]
          /\ leaf'[t] = 0 /\ pc'[t] = resume[t]
      BY <1>3, <1>t, <2>2 DEF AddToList, Leave, TypeOK
    <3>2. held' = held /\ leaves' = leaves
      BY <1>3 DEF AddToList
    <3>3. active' <= leaves' /\ \A i \in 1 .. Len(list') : list'[i] <= leaves'
      BY <2>1 DEF ChainInv
    <3> QED
      BY <1>t, <2>2, <3>1, <3>2, <3>3 DEF Known
  <2> QED
    BY <2>1, <2>3, <2>4, <2>5 DEF TableInv, ChainInv
<1> QED
  BY <1>1, <1>2, <1>3

(* A slot is taken that no reference names.                                 *)
LEMMA NewSlot ==
    ASSUME TableInv, NEW t \in Threads, TakeFreed(t) \/ TakeFresh(t)
    PROVE  \E s \in Slots :
               /\ s \notin Taken(leaf[t]) /\ Got(t, s)
               /\ \/ freed' = [freed EXCEPT ![leaf[t]] = @ \ {s}] /\ s \in freed[leaf[t]] /\ fresh' = fresh
                  \/ freed' = freed /\ fresh' = [fresh EXCEPT ![leaf[t]] = @ - 1] /\ s = fresh[leaf[t]] - 1
<1> USE BackRefsAssumption DEF Goto
<1>t. /\ TypeOK /\ Known /\ SlotsPartition /\ ChainInv /\ leaves \in Nat
      /\ Leaves \subseteq Nat \ {0}
  BY Parts DEF TableInv
<1> DEFINE k == leaf[t]
<1>0. k \in Leaves /\ pc[t] = "take" /\ k <= leaves
  BY <1>t DEF TakeFreed, TakeFresh, Known, AtLeaf
<1>1. LeafPartition(k) /\ Taken(k) \in SUBSET Slots /\ fresh[k] \in 0 .. Cap /\ freed[k] \in SUBSET Slots
  BY <1>t, <1>0 DEF SlotsPartition, Taken, TypeOK
<1>2. CASE TakeFreed(t)
  BY <1>1, <1>2 DEF TakeFreed, LeafPartition
<1>3. CASE TakeFresh(t)
  <2>1. fresh[k] # 0
    <3>1. SUFFICES ASSUME fresh[k] = 0 PROVE FALSE
      OBVIOUS
    <3>2. Taken(k) = Slots
      BY <1>1, <1>3, <3>1 DEF TakeFresh, LeafPartition
    <3>3. count[k] = Cap
      BY <1>1, <3>2, SlotsFinite DEF LeafPartition
    <3> QED
      BY <1>3, <3>3 DEF TakeFresh
  <2>2. fresh[k] - 1 \in Slots /\ fresh[k] - 1 \in 0 .. fresh[k] - 1
    BY <1>1, <2>1 DEF Slots
  <2>3. fresh[k] - 1 \notin Taken(k)
    BY <1>1, <2>2 DEF LeafPartition
  <2>4. fresh'[k] = fresh[k] - 1
    BY <1>t, <1>0, <1>3 DEF TakeFresh, TypeOK
  <2> QED
    BY <1>3, <2>2, <2>3, <2>4 DEF TakeFresh
<1> QED
  BY <1>2, <1>3

(* A reference found in a leaf.                                             *)
LEMMA GotStep ==
    ASSUME TableInv, NEW t \in Threads, TakeFreed(t) \/ TakeFresh(t)
    PROVE  TableInv'
<1> USE BackRefsAssumption DEF Goto
<1>t. /\ TypeOK /\ Known /\ SlotsPartition /\ ChainInv /\ leaves \in Nat
      /\ Leaves \subseteq Nat \ {0}
  BY Parts DEF TableInv
<1> DEFINE k == leaf[t]
<1>0. k \in Leaves /\ pc[t] = "take" /\ k <= leaves
  BY <1>t DEF TakeFreed, TakeFresh, Known, AtLeaf
<1>1. LeafPartition(k) /\ Taken(k) \in SUBSET Slots /\ fresh[k] \in 0 .. Cap
  BY <1>t, <1>0 DEF SlotsPartition, Taken, TypeOK
<1>2. \E s \in Slots :
         /\ s \notin Taken(k) /\ Got(t, s)
         /\ \/ freed' = [freed EXCEPT ![k] = @ \ {s}] /\ s \in freed[k] /\ fresh' = fresh
            \/ freed' = freed /\ fresh' = [fresh EXCEPT ![k] = @ - 1] /\ s = fresh[k] - 1
  BY NewSlot
<1>3. PICK s \in Slots :
         /\ s \notin Taken(k) /\ Got(t, s)
         /\ \/ freed' = [freed EXCEPT ![k] = @ \ {s}] /\ s \in freed[k] /\ fresh' = fresh
            \/ freed' = freed /\ fresh' = [fresh EXCEPT ![k] = @ - 1] /\ s = fresh[k] - 1
  BY <1>2
<1>4. /\ pc' = [pc EXCEPT ![t] = "got"] /\ ref' = [ref EXCEPT ![t] = <<k, s>>]
      /\ leaf' = [leaf EXCEPT ![t] = 0] /\ held' = held \cup {<<k, s>>}
      /\ count' = [count EXCEPT ![k] = @ + 1] /\ <<k, s>> \in Refs
      /\ UNCHANGED <<active, list, leaves, added, mutex, calls, resume>>
  BY <1>0, <1>3 DEF Got, Refs
<1>5. /\ \A u \in Threads \ {t} : pc'[u] = pc[u] /\ ref'[u] = ref[u] /\ leaf'[u] = leaf[u]
      /\ pc'[t] = "got" /\ leaf'[t] = 0
  BY <1>t, <1>4 DEF TypeOK
<1>6. Given' = Given \cup {<<k, s>>}
  BY <1>0, <1>4, <1>5 DEF Given
<1>7. \A l \in Leaves : LeafPartition(l)'
  BY <1>0, <1>3, <1>4, <1>6, <1>t, SlotGiven DEF SlotsPartition
<1>8. RemovedOnce'
  <2>1. <<k, s>> \notin Given
    BY <1>3 DEF Taken
  <2>2. \A u \in Threads : pc[u] = "free" => ref[u] # <<k, s>>
    BY <2>1 DEF Given
  <2> QED
    BY <1>t, <1>4, <1>5, <2>2 DEF RemovedOnce, SlotsPartition
<1>9. TypeOK'
  <2>1. /\ count[k] \in 0 .. Cap /\ count[k] # Cap
    <3>1. Taken(k) # Slots
      BY <1>3
    <3> QED
      BY <1>0, <1>1, <1>t, <3>1, SlotsFinite DEF LeafPartition, TypeOK
  <2>2. count' \in [Leaves -> 0 .. Cap]
    <3>1. count[k] + 1 \in 0 .. Cap
      BY <2>1
    <3> QED
      BY <1>t, <1>0, <1>4, <3>1 DEF TypeOK
  <2>3. freed' \in [Leaves -> SUBSET Slots]
    BY <1>t, <1>0, <1>3 DEF TypeOK
  <2>4. fresh' \in [Leaves -> 0 .. Cap]
    <3>1. CASE fresh' = fresh
      BY <1>t, <3>1 DEF TypeOK
    <3>2. CASE fresh' = [fresh EXCEPT ![k] = @ - 1] /\ s = fresh[k] - 1
      <4>1. fresh[k] - 1 \in 0 .. Cap
        BY <1>1, <3>2 DEF Slots
      <4> QED
        BY <1>t, <3>2, <4>1 DEF TypeOK
    <3> QED
      BY <1>3, <3>1, <3>2
  <2> QED
    BY <1>t, <1>4, <2>2, <2>3, <2>4 DEF TypeOK, PCs
<1>10. ChainInv'
  BY <1>4, <1>t, ChainSame
<1>11. Known'
  BY <1>0, <1>4, <1>5, <1>t DEF Known, AtLeaf
<1> QED
  BY <1>7, <1>8, <1>9, <1>10, <1>11 DEF TableInv, ChainInv, SlotsPartition

(* A reference on its way back.                                             *)
LEMMA RemoveStep ==
    ASSUME TableInv, NEW t \in Threads, NEW r \in held, RemoveBackRef(t, r)
    PROVE  TableInv'
<1> USE DEF Goto
<1>t. /\ TypeOK /\ Known /\ SlotsPartition /\ ChainInv /\ leaves \in Nat
      /\ Leaves \subseteq Nat \ {0}
  BY Parts DEF TableInv
<1>0. r \in Refs /\ r[1] \in Leaves /\ r[1] <= leaves
  BY <1>t DEF TypeOK, Refs, Known
<1>1. /\ pc' = [pc EXCEPT ![t] = "free"] /\ ref' = [ref EXCEPT ![t] = r]
      /\ leaf' = [leaf EXCEPT ![t] = r[1]] /\ resume' = [resume EXCEPT ![t] = pc[t]]
      /\ held' = held \ {r} /\ pc[t] \in {"idle", "space"}
      /\ UNCHANGED <<table, mutex, calls>>
  BY DEF RemoveBackRef
<1>2. /\ \A u \in Threads \ {t} : pc'[u] = pc[u] /\ ref'[u] = ref[u] /\ leaf'[u] = leaf[u]
      /\ pc'[t] = "free" /\ leaf'[t] = r[1] /\ ref'[t] = r
  BY <1>t, <1>1 DEF TypeOK
<1>3. Given' = Given
  BY <1>1, <1>2 DEF Given
<1>4. \A l \in Leaves : LeafPartition(l)'
  BY <1>1, <1>3, <1>t, SlotsSame DEF SlotsPartition, table
<1>5. RemovedOnce'
  BY <1>1, <1>2, <1>t DEF RemovedOnce, SlotsPartition
<1>6. TypeOK'
  BY <1>0, <1>1, <1>t DEF TypeOK, table, PCs
<1>7. ChainInv'
  BY <1>1, <1>t, ChainSame DEF table
<1>8. Known'
  BY <1>0, <1>1, <1>2, <1>t DEF Known, table, AtLeaf
<1> QED
  BY <1>4, <1>5, <1>6, <1>7, <1>8 DEF TableInv, ChainInv, SlotsPartition

(* The slot is free again.                                                  *)
LEMMA FreeStep ==
    ASSUME TableInv, NEW t \in Threads, FreeSlot(t)
    PROVE  TableInv'
<1> USE BackRefsAssumption DEF Goto
<1>t. /\ TypeOK /\ Known /\ SlotsPartition /\ ChainInv /\ leaves \in Nat
      /\ Leaves \subseteq Nat \ {0}
  BY Parts DEF TableInv
<1> DEFINE k == leaf[t]
           s == ref[t][2]
<1>0. pc[t] = "free" /\ k \in Leaves /\ s \in Slots /\ ref[t] = <<k, s>> /\ k <= leaves
  BY <1>t DEF FreeSlot, Known, Refs
<1>1. /\ pc' = [pc EXCEPT ![t] = "peek"] /\ ref' = [ref EXCEPT ![t] = NoRef]
      /\ freed' = [freed EXCEPT ![k] = @ \cup {s}] /\ count' = [count EXCEPT ![k] = @ - 1]
      /\ UNCHANGED <<active, list, leaves, fresh, added, mutex, held, calls, leaf, resume>>
  BY DEF FreeSlot
<1>2. /\ \A u \in Threads \ {t} : pc'[u] = pc[u] /\ ref'[u] = ref[u]
      /\ pc'[t] = "peek"
  BY <1>t, <1>1 DEF TypeOK
<1>3. /\ ref[t] \notin held
      /\ \A u \in Threads \ {t} : pc[u] = "free" => ref[u] # ref[t]
  BY <1>0, <1>t DEF RemovedOnce, SlotsPartition
<1>4. Given' = Given \ {<<k, s>>} /\ s \in Taken(k)
  <2>1. Given' = held \cup {ref[u] : u \in {v \in Threads \ {t} : pc[v] = "free"}}
    BY <1>1, <1>2 DEF Given
  <2>2. Given = held \cup {ref[u] : u \in {v \in Threads \ {t} : pc[v] = "free"}}
                     \cup {ref[t]}
    BY <1>0 DEF Given
  <2> QED
    BY <1>0, <1>3, <2>1, <2>2 DEF Taken
<1>5. \A l \in Leaves : LeafPartition(l)'
  BY <1>0, <1>1, <1>4, <1>t, SlotTakenBack DEF SlotsPartition
<1>6. RemovedOnce'
  BY <1>1, <1>2, <1>t DEF RemovedOnce, SlotsPartition
<1>7. TypeOK'
  <2>1. count[k] \in 0 .. Cap /\ count[k] # 0
    <3>1. count[k] = Cardinality(Taken(k)) /\ Taken(k) \in SUBSET Slots /\ Taken(k) # {}
      BY <1>0, <1>4, <1>t DEF SlotsPartition, LeafPartition, Taken
    <3>2. Cardinality(Taken(k)) # 0
      BY <3>1, SlotsFinite, FS_EmptySet
    <3> QED
      BY <1>0, <1>t, <3>1, <3>2 DEF TypeOK
  <2>2. count[k] - 1 \in 0 .. Cap
    BY <2>1
  <2>3. count' \in [Leaves -> 0 .. Cap] /\ freed' \in [Leaves -> SUBSET Slots]
    BY <1>0, <1>1, <1>t, <2>2 DEF TypeOK
  <2> QED
    BY <1>1, <1>t, <2>3 DEF TypeOK, PCs
<1>8. ChainInv'
  BY <1>1, <1>t, ChainSame
<1>9. Known'
  BY <1>0, <1>1, <1>2, <1>t DEF Known, AtLeaf
<1> QED
  BY <1>5, <1>6, <1>7, <1>8, <1>9 DEF TableInv, ChainInv, SlotsPartition

(* Every step keeps the invariant.                                          *)
LEMMA TableStep == TableInv /\ [Next]_vars => TableInv'
<1> SUFFICES ASSUME TableInv, [Next]_vars PROVE TableInv'
  OBVIOUS
<1>1. ASSUME NEW t \in Threads, NewBackRef(t) PROVE TableInv'
  BY <1>1, LocalSteps
<1>2. ASSUME NEW t \in Threads, Work(t) PROVE TableInv'
  BY <1>2, LocalSteps, ChainSteps, GotStep, FreeStep DEF Work, Find, Take, Remove
<1>3. ASSUME NEW t \in Threads, NEW r \in held, RemoveBackRef(t, r) PROVE TableInv'
  BY <1>3, RemoveStep
<1>4. CASE UNCHANGED vars
  <2> USE <1>4 DEF vars, table, locals
  <2>1. Given' = Given
    BY DEF Given
  <2>2. SlotsPartition'
    BY <2>1, SlotsSame DEF TableInv, SlotsPartition, RemovedOnce
  <2>3. ListIsChain' /\ Known'
    BY DEF TableInv, ListIsChain, Known
  <2>4. TypeOK'
    BY DEF TableInv, TypeOK
  <2> QED
    BY <2>2, <2>3, <2>4 DEF TableInv
<1> QED
  BY <1>1, <1>2, <1>3, <1>4 DEF Next

(* The invariant holds throughout.                                          *)
LEMMA TableAlways == Spec => []TableInv
<1>1. Init => TableInv
  BY TableInit
<1>2. TableInv /\ [Next]_vars => TableInv'
  BY TableStep
<1> QED
  BY <1>1, <1>2, PTL DEF Spec

-----------------------------------------------------------------------------
(* Every variable keeps its type: allocatedCount, whose test outside of the *)
(* lock of the leaf decides what newBackRef does, stays within the leaf.    *)
THEOREM Typing == Spec => []TypeOK
<1>1. TableInv => TypeOK
  BY DEF TableInv
<1> QED
  BY <1>1, TableAlways, PTL

(* No slot is lost, given out twice or removed twice, and allocatedCount is *)
(* exact, for any number of threads in newBackRef and removeBackRef.        *)
THEOREM Partition == Spec => []SlotsPartition
<1>1. TableInv => SlotsPartition
  BY DEF TableInv
<1> QED
  BY <1>1, TableAlways, PTL

(* listForUse holds each leaf at most once, addedToForUse tells which, and  *)
(* the active leaf is not in it: the second test of removeBackRef suffices. *)
THEOREM Chain == Spec => []ListIsChain
<1>1. TableInv => ListIsChain
  BY DEF TableInv
<1> QED
  BY <1>1, TableAlways, PTL
=============================================================================
