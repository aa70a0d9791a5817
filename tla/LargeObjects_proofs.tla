------------------------- MODULE LargeObjects_proofs -------------------------
(* Theorems about LargeObjects, for any threads, leaves and memory.  First, *)
(* its steps are steps of the table with the bookkeeping of the callers     *)
(* around them: what is proved of BackRefs holds of the allocator that uses *)
(* it.  Then the callers' own invariant: what a thread has in hand depends  *)
(* on its frame and on its call of the table (FrameInv); with that, every   *)
(* step moves references from one owner to another (Flow).                  *)
EXTENDS LargeObjects, BackRefs_proofs

(* Each step of the callers is one step of the table, or none.              *)
LEMMA StepOfTable == ObjectsNext => [Next]_vars
<1> SUFFICES ASSUME ObjectsNext PROVE [Next]_vars
  OBVIOUS
<1>1. PICK t \in Threads : Table(t) \/ Object(t) \/ SlabCall(t)
  BY DEF ObjectsNext
<1>2. ASSUME NewBackRef(t) \/ Work(t) PROVE Next
  BY <1>2 DEF Next
<1>3. ASSUME NEW r, RemoveBackRef(t, r) PROVE Next
  BY <1>3 DEF Next, RemoveBackRef
<1>4. ASSUME Return(t) PROVE Next
  BY <1>2, <1>4 DEF Work
<1>5. CASE Table(t)
  BY <1>2, <1>5 DEF Table, Work
<1>6. CASE Object(t)
  <2>1. CASE EndMiss(t) \/ GotObjectRef(t) \/ NoLargeBlock(t)
    BY <1>2, <1>3, <1>4, <2>1 DEF EndMiss, GotObjectRef, NoLargeBlock
  <2>2. CASE \E b \in toRelease[t] : ReturnLargeObject(t, b)
    BY <1>3, <2>2 DEF ReturnLargeObject
  <2>3. CASE MissCache(t) \/ EndHit(t) \/ GetLargeBlock(t) \/ RollbackCacheState(t)
             \/ Released(t) \/ CleanAll(t)
    BY <2>3 DEF MissCache, EndHit, GetLargeBlock, RollbackCacheState, Released, CleanAll,
                TakeOut
  <2>4. CASE \/ \E b \in cached : GetCached(t, b)
             \/ \E b \in inUse : PutObject(t, b)
             \/ \E old \in SUBSET cached : RegularCleanup(t, old)
    BY <2>4 DEF GetCached, PutObject, RegularCleanup, TakeOut
  <2> QED
    BY <1>6, <2>1, <2>2, <2>3, <2>4 DEF Object
<1>7. CASE SlabCall(t)
  <2>1. CASE \E n \in {1, 2} : SlabsMiss(t, n)
    BY <1>2, <2>1 DEF SlabsMiss
  <2>2. CASE NoSlabRef(t) \/ GotSlabRef(t) \/ GotStartupRef(t)
    BY <1>4, <2>2 DEF NoSlabRef, GotSlabRef, GotStartupRef
  <2>3. CASE NextSlabRef(t) \/ StartupBlock(t)
    BY <1>2, <2>3 DEF NextSlabRef, StartupBlock
  <2>4. CASE \E b \in slabs : FreeSlab(t, b)
    BY <1>3, <2>4 DEF FreeSlab
  <2> QED
    BY <1>7, <2>1, <2>2, <2>3, <2>4 DEF SlabCall
<1> QED
  BY <1>1, <1>5, <1>6, <1>7

(* LargeObjects implements BackRefs: large objects, slabs and cleanups      *)
(* nested in newBackRef call the table only as its protocol allows.         *)
THEOREM Refinement == ObjectsSpec => KeepsToTable
<1>1. ObjectsInit => Init
  BY DEF ObjectsInit
<1>2. [ObjectsNext]_<<vars, objects>> => [Next]_vars
  BY StepOfTable
<1> QED
  BY <1>1, <1>2, PTL DEF ObjectsSpec, KeepsToTable, Spec

(* So the table keeps its invariants under those callers.                   *)
THEOREM TableKept == ObjectsSpec => [](TypeOK /\ SlotsPartition /\ ListIsChain)
<1>1. TableInv => TypeOK /\ SlotsPartition /\ ListIsChain
  BY DEF TableInv
<1> QED
  BY <1>1, Refinement, TableAlways, PTL DEF KeepsToTable

-----------------------------------------------------------------------------
(* The callers' own invariant.                                              *)

Searching == {"find", "switch", "take", "got"}
Removing  == {"free", "peek", "peekListed", "peekActive", "relock"}

(* Which calls of the table a caller may be in, and what it then has in     *)
(* hand.                                                                    *)
FrameOK(t) ==
    /\ frame[t] \in {"idle", "hit", "miss"} => pc[t] = "idle"
    /\ frame[t] \in {"block", "rollback", "release"} =>
           pc[t] = "idle" \/ (pc[t] \in Removing /\ resume[t] = "idle")
    /\ frame[t] \in {"object", "startup"} => pc[t] # "idle"
    /\ frame[t] \in {"object", "slab", "startup"} /\ pc[t] \in Removing =>
           resume[t] = "space"
    /\ toRelease[t] # {} => \/ frame[t] \in {"block", "release"}
                            \/ pc[t] \in Removing \cup {"space"} /\ frame[t] # "rollback"
    /\ mine[t] # NoRef <=> frame[t] \in {"hit", "block"}
    /\ batch[t] # {} => frame[t] = "slab"
    /\ frame[t] = "slab" => wanted[t] \in 1 .. 2
    /\ setBit[t] => frame[t] \in {"hit", "miss"}
    /\ pc[t] \notin {"got", "free"} => ref[t] = NoRef

(* What a thread has in hand it has once.                                   *)
HandsApart(t) ==
    /\ batch[t] \cap toRelease[t] = {}
    /\ mine[t] \notin batch[t] \cup toRelease[t]
    /\ pc[t] = "got" => ref[t] \notin batch[t] \cup toRelease[t]

FrameInv   == \A t \in Threads : FrameOK(t) /\ HandsApart(t)
ObjectsInv == /\ TableInv /\ ObjectsTypeOK /\ FrameInv
              /\ EveryRefHasOneOwner /\ UsedSizeDrift /\ BitMaskCovers

(* A reference is in the hands of a thread or belongs to a block.           *)
Common == inUse \cup slabs \cup cached \cup leaked
BlocksApart == /\ inUse \cap (slabs \cup cached \cup leaked) = {}
               /\ slabs \cap (cached \cup leaked) = {} /\ cached \cap leaked = {}

(* ObjectsTypeOK but for usedSize, which needs UsedSizeDrift.               *)
PartsOK ==
    /\ frame \in [Threads -> Frames]
    /\ mine \in [Threads -> Refs \cup {NoRef}]
    /\ wanted \in [Threads -> 0 .. 2]
    /\ batch \in [Threads -> SUBSET Refs] /\ toRelease \in [Threads -> SUBSET Refs]
    /\ setBit \in [Threads -> BOOLEAN]
    /\ inUse \subseteq Refs /\ slabs \subseteq Refs /\ cached \subseteq Refs
    /\ remembers \in BOOLEAN /\ bit \in BOOLEAN
    /\ refused \in Nat /\ leaked \subseteq Refs

(* What a step of t leaves to the other threads, in the table and outside.  *)
Calm(t) == \A u \in Threads \ {t} :
               pc'[u] = pc[u] /\ ref'[u] = ref[u] /\ resume'[u] = resume[u]
Kept(t) == \A u \in Threads \ {t} :
               /\ frame'[u] = frame[u] /\ mine'[u] = mine[u] /\ wanted'[u] = wanted[u]
               /\ batch'[u] = batch[u] /\ toRelease'[u] = toRelease[u]
               /\ setBit'[u] = setBit[u]

(* References move between a thread and the blocks; `new' come from the     *)
(* table and `gone' go back to it.                                          *)
Flow(t, new, gone) ==
    /\ new \cap held = {} /\ gone \subseteq Owned(t) \cup Common
    /\ held' = (held \cup new) \ gone
    /\ Owned(t)' \cup Common' = (Owned(t) \cup Common \cup new) \ gone
    /\ Owned(t)' \cap Common' = {}
    /\ BlocksApart'

(* Calls of the table, seen from outside.                                   *)
LEMMA TableCalls ==
    ASSUME TypeOK, NEW t \in Threads
    PROVE  /\ NewBackRef(t) => /\ Calm(t) /\ pc[t] = "idle" /\ pc'[t] = "find"
                               /\ ref'[t] = ref[t] /\ held' = held
           /\ Return(t) => /\ Calm(t) /\ pc[t] = "got" /\ pc'[t] = "idle"
                           /\ ref'[t] = NoRef /\ held' = held
           /\ \A r : RemoveBackRef(t, r) =>
                  /\ Calm(t) /\ r \in held /\ pc[t] \in {"idle", "space"} /\ pc'[t] = "free"
                  /\ resume'[t] = pc[t] /\ ref'[t] = r /\ held' = held \ {r}
BY DEF TypeOK, NewBackRef, Return, RemoveBackRef, Goto, table, locals, Calm

(* The steps of the table below a caller: the path they take, and the       *)
(* reference they may bring.                                                *)
TablePath(t) ==
    /\ Calm(t)
    /\ \/ pc[t] \in Searching \cup {"space"} /\ pc'[t] \in Searching \cup {"space"}
       \/ pc[t] \in Removing /\ pc'[t] \in Removing /\ resume'[t] = resume[t]
       \/ pc[t] \in Removing /\ pc'[t] = resume[t]
    /\ pc[t] # "got"
    /\ pc'[t] # "free"
    /\ IF pc'[t] = "got" /\ ref'[t] # NoRef
       THEN ref'[t] \notin held /\ held' = held \cup {ref'[t]}
       ELSE held' = held
    /\ pc'[t] # "got" => ref'[t] = NoRef

(* Each step of the table is one of them.                                   *)
LEMMA TableSteps ==
    ASSUME TableInv, NEW t \in Threads,
           Find(t) \/ Take(t) \/ Remove(t) \/ AddEmptyBackRefBlock(t) \/ NoFreeBlock(t),
           pc[t] \notin {"got", "free"} => ref[t] = NoRef
    PROVE  TablePath(t)
<1> USE DEF TablePath, Calm, Searching, Removing, Goto
<1>t. TypeOK /\ Known /\ ref[t] \in Refs \cup {NoRef} /\ resume[t] \in {"idle", "space"}
  BY DEF TableInv, TypeOK
<1>1. CASE Find(t) \/ AddEmptyBackRefBlock(t) \/ NoFreeBlock(t) \/ TakeNothing(t)
  BY <1>1, <1>t DEF TypeOK, Find, FindActive, FindFull, SwitchToListed, AskForSpace,
                    AddEmptyBackRefBlock, NoFreeBlock, TakeNothing, table, locals
<1>2. CASE TakeFreed(t) \/ TakeFresh(t)
  <2>1. PICK s \in Slots : s \notin Taken(leaf[t]) /\ Got(t, s)
    BY <1>2, NewSlot
  <2>2. <<leaf[t], s>> \notin held
    BY <2>1 DEF Taken, Given
  <2>3. pc[t] = "take"
    BY <1>2 DEF TakeFreed, TakeFresh
  <2>4. leaf[t] \in Leaves /\ 0 \notin Leaves
    BY <1>t, <2>3 DEF Known, AtLeaf, Leaves
  <2>5. <<leaf[t], s>> # NoRef
    BY <2>4 DEF NoRef
  <2>6. /\ pc' = [pc EXCEPT ![t] = "got"] /\ ref' = [ref EXCEPT ![t] = <<leaf[t], s>>]
        /\ held' = held \cup {<<leaf[t], s>>} /\ resume' = resume
    BY <2>1 DEF Got
  <2> QED
    BY <1>t, <2>2, <2>3, <2>5, <2>6 DEF TypeOK
<1>3. CASE FreeSlot(t) \/ PeekListed(t) \/ PeekActive(t) \/ AddToList(t)
  BY <1>3, <1>t DEF TypeOK, FreeSlot, PeekListed, PeekActive, Peek, AddToList, Leave,
                    table, locals
<1> QED
  BY <1>1, <1>2, <1>3 DEF Take, Remove

-----------------------------------------------------------------------------
(* The callers.                                                             *)

(* What a step of t does to the path of t and to the types.                 *)
Path(t) == PartsOK' /\ Kept(t) /\ Calm(t) /\ FrameOK(t)'

(* Every step keeps the types and follows the frames.                       *)
LEMMA PathStep ==
    ASSUME TableInv, PartsOK, FrameInv, NEW t \in Threads,
           Table(t) \/ Object(t) \/ SlabCall(t)
    PROVE  Path(t)
<1> USE DEF Enter, frames, bin, owners, history, objects
<1>t. TypeOK /\ FrameOK(t)
  BY DEF TableInv, FrameInv
<1>a. ref[t] \in Refs \cup {NoRef} /\ NoRef \notin Refs
  BY <1>t DEF TypeOK, Refs, NoRef, Leaves
<1>b. pc[t] \in PCs /\ resume[t] \in {"idle", "space"}
  BY <1>t DEF TypeOK
<1>c. \A r \in held : r \in Refs
  BY <1>t DEF TypeOK
<1>0. CASE Table(t)
  <2>1. TablePath(t)
    BY <1>0, <1>t, TableSteps DEF Table, FrameOK
  <2>2. UNCHANGED <<frame, mine, wanted, batch, toRelease, setBit, bin, owners, history>>
    BY <1>0 DEF Table
  <2>3. pc[t] = "space" /\ pc'[t] # "space" => toRelease[t] = {}
    BY <1>0 DEF Table, Find, Take, Remove, FindActive, FindFull, SwitchToListed, AskForSpace,
                TakeFreed, TakeFresh, TakeNothing, FreeSlot, PeekListed, PeekActive, Peek,
                AddToList
  <2>4. PartsOK' /\ Kept(t) /\ Calm(t)
    BY <2>1, <2>2 DEF PartsOK, Kept, TablePath
  <2>5. FrameOK(t)'
    BY <1>t, <1>b, <2>1, <2>2, <2>3 DEF TablePath, FrameOK, Searching, Removing, PCs, PartsOK, Frames
  <2> QED
    BY <2>4, <2>5 DEF Path
<1> USE DEF At, InBackend, Path, PartsOK, Kept, FrameOK, Frames, Removing, Searching
<1>1. ASSUME MissCache(t) PROVE Path(t)
  BY <1>t, <1>a, <1>b, <1>c, <1>1 DEF MissCache, Calm, vars, locals
<1>2. ASSUME EndHit(t) PROVE Path(t)
  BY <1>t, <1>a, <1>b, <1>c, <1>2 DEF EndHit, Calm, vars, locals
<1>3. ASSUME EndMiss(t) PROVE Path(t)
  BY <1>t, <1>a, <1>b, <1>c, <1>3, TableCalls DEF EndMiss
<1>4. ASSUME GotObjectRef(t) PROVE Path(t)
  BY <1>t, <1>a, <1>b, <1>c, <1>4, TableCalls DEF GotObjectRef
<1>5. ASSUME GetLargeBlock(t) PROVE Path(t)
  BY <1>t, <1>a, <1>b, <1>c, <1>5 DEF GetLargeBlock, Calm, vars, locals
<1>6. ASSUME NoLargeBlock(t) PROVE Path(t)
  BY <1>t, <1>a, <1>b, <1>c, <1>6, TableCalls DEF NoLargeBlock
<1>7. ASSUME RollbackCacheState(t) PROVE Path(t)
  BY <1>t, <1>a, <1>b, <1>c, <1>7 DEF RollbackCacheState, Settle, Calm, vars, locals
<1>8. ASSUME NEW b \in cached, GetCached(t, b) PROVE Path(t)
  BY <1>t, <1>a, <1>b, <1>c, <1>8 DEF GetCached, Calm, vars, locals
<1>9. ASSUME NEW b \in inUse, PutObject(t, b) PROVE Path(t)
  BY <1>t, <1>a, <1>b, <1>c, <1>9 DEF PutObject, Settle, Calm, vars, locals
<1>10. ASSUME NEW old \in SUBSET cached, RegularCleanup(t, old) PROVE Path(t)
  BY <1>t, <1>a, <1>b, <1>c, <1>10 DEF RegularCleanup, TakeOut, Cleaning, Calm, vars, locals
<1>11. ASSUME CleanAll(t) PROVE Path(t)
  BY <1>t, <1>a, <1>b, <1>c, <1>11 DEF CleanAll, TakeOut, Calm, vars, locals
<1>12. ASSUME Released(t) PROVE Path(t)
  BY <1>t, <1>a, <1>b, <1>c, <1>12 DEF Released, Calm, vars, locals
<1>13. ASSUME NEW b \in toRelease[t], ReturnLargeObject(t, b) PROVE Path(t)
  BY <1>t, <1>a, <1>b, <1>c, <1>13, TableCalls DEF ReturnLargeObject
<1>14. ASSUME NEW n \in {1, 2}, SlabsMiss(t, n) PROVE Path(t)
  BY <1>t, <1>a, <1>b, <1>c, <1>14, TableCalls DEF SlabsMiss
<1>15. ASSUME NoSlabRef(t) PROVE Path(t)
  BY <1>t, <1>a, <1>b, <1>c, <1>15, TableCalls DEF NoSlabRef
<1>16. ASSUME GotSlabRef(t) PROVE Path(t)
  BY <1>t, <1>a, <1>b, <1>c, <1>16, TableCalls DEF GotSlabRef
<1>17. ASSUME NextSlabRef(t) PROVE Path(t)
  BY <1>t, <1>a, <1>b, <1>c, <1>17, TableCalls DEF NextSlabRef
<1>18. ASSUME NEW b \in slabs, FreeSlab(t, b) PROVE Path(t)
  BY <1>t, <1>a, <1>b, <1>c, <1>18, TableCalls DEF FreeSlab
<1>19. ASSUME StartupBlock(t) PROVE Path(t)
  BY <1>t, <1>a, <1>b, <1>c, <1>19, TableCalls DEF StartupBlock
<1>20. ASSUME GotStartupRef(t) PROVE Path(t)
  BY <1>t, <1>a, <1>b, <1>c, <1>20, TableCalls DEF GotStartupRef
<1> QED
  BY <1>0, <1>1, <1>2, <1>3, <1>4, <1>5, <1>6, <1>7, <1>8, <1>9, <1>10, <1>11, <1>12, <1>13, <1>14, <1>15, <1>16, <1>17, <1>18, <1>19, <1>20 DEF Object, SlabCall

(* What a step of t does to references.                                     *)
LEMMA FlowStep ==
    ASSUME TableInv, PartsOK, FrameInv, EveryRefHasOneOwner, NEW t \in Threads,
           Table(t) \/ Object(t) \/ SlabCall(t)
    PROVE  (\E new, gone : Flow(t, new, gone)) /\ HandsApart(t)'
<1> USE DEF Enter, frames, bin, owners, history, objects
<1>t. TypeOK /\ FrameOK(t) /\ HandsApart(t)
  BY DEF TableInv, FrameInv
<1>a. NoRef \notin Refs
  BY DEF Refs, NoRef, Leaves
<1>b. held \subseteq Refs /\ ref[t] \in Refs \cup {NoRef}
  BY <1>t DEF TypeOK
<1>o. /\ Owned(t) \subseteq held /\ Common \subseteq held /\ Owned(t) \cap Common = {}
      /\ BlocksApart
  BY DEF EveryRefHasOneOwner, Common, BlocksApart
<1>p. Path(t)
  BY PathStep
<1>0. CASE Table(t)
  <2>1. TablePath(t)
    BY <1>0, <1>t, TableSteps DEF Table, FrameOK
  <2>2. UNCHANGED <<frame, mine, wanted, batch, toRelease, setBit, bin, owners, history>>
    BY <1>0 DEF Table
  <2>3. Common' = Common /\ BlocksApart'
    BY <1>o, <2>2 DEF Common, BlocksApart
  <2>4. CASE pc'[t] = "got" /\ ref'[t] # NoRef
    <3>1. ref'[t] \notin held /\ held' = held \cup {ref'[t]} /\ pc[t] # "got"
      BY <2>1, <2>4 DEF TablePath
    <3>2. Owned(t)' = Owned(t) \cup {ref'[t]}
      BY <2>2, <2>4, <3>1 DEF Owned
    <3>3. Flow(t, {ref'[t]}, {})
      BY <1>o, <2>3, <3>1, <3>2 DEF Flow
    <3> QED
      BY <1>t, <1>o, <2>2, <3>1, <3>3 DEF HandsApart, Owned
  <2>5. CASE ~(pc'[t] = "got" /\ ref'[t] # NoRef)
    <3>1. held' = held /\ pc[t] # "got"
      BY <2>1, <2>5 DEF TablePath
    <3>2. Owned(t)' = Owned(t)
      BY <2>2, <2>5, <3>1 DEF Owned
    <3>3. Flow(t, {}, {})
      BY <1>o, <2>3, <3>1, <3>2 DEF Flow
    <3>4. batch[t] \subseteq Refs /\ toRelease[t] \subseteq Refs
      BY DEF PartsOK
    <3> QED
      BY <1>t, <1>a, <2>2, <2>5, <3>3, <3>4 DEF HandsApart
  <2> QED
    BY <2>4, <2>5
<1> USE DEF At, InBackend, PartsOK, FrameOK, Removing, Searching, HandsApart, Flow,
            Owned, Common, BlocksApart
<1>1. ASSUME MissCache(t) PROVE Flow(t, {}, {}) /\ HandsApart(t)'
  BY <1>t, <1>a, <1>b, <1>o, <1>1 DEF MissCache, vars, locals
<1>2. ASSUME EndHit(t) PROVE Flow(t, {}, {}) /\ HandsApart(t)'
  BY <1>t, <1>a, <1>b, <1>o, <1>2 DEF EndHit, vars, locals
<1>3. ASSUME EndMiss(t) PROVE Flow(t, {}, {}) /\ HandsApart(t)'
  BY <1>t, <1>a, <1>b, <1>o, <1>3, TableCalls DEF EndMiss
<1>4. ASSUME GotObjectRef(t) PROVE Flow(t, {}, {}) /\ HandsApart(t)'
  BY <1>t, <1>a, <1>b, <1>o, <1>4, TableCalls DEF GotObjectRef
<1>5. ASSUME GetLargeBlock(t) PROVE Flow(t, {}, {}) /\ HandsApart(t)'
  BY <1>t, <1>a, <1>b, <1>o, <1>5 DEF GetLargeBlock, vars, locals
<1>6. ASSUME NoLargeBlock(t) PROVE Flow(t, {}, {mine[t]}) /\ HandsApart(t)'
  BY <1>t, <1>a, <1>b, <1>o, <1>6, TableCalls DEF NoLargeBlock
<1>7. ASSUME RollbackCacheState(t) PROVE Flow(t, {}, {}) /\ HandsApart(t)'
  BY <1>t, <1>a, <1>b, <1>o, <1>7 DEF RollbackCacheState, Settle, vars, locals
<1>8. ASSUME NEW b \in cached, GetCached(t, b) PROVE Flow(t, {}, {}) /\ HandsApart(t)'
  BY <1>t, <1>a, <1>b, <1>o, <1>8 DEF GetCached, vars, locals
<1>9. ASSUME NEW b \in inUse, PutObject(t, b) PROVE Flow(t, {}, {}) /\ HandsApart(t)'
  BY <1>t, <1>a, <1>b, <1>o, <1>9 DEF PutObject, Settle, vars, locals
<1>10. ASSUME NEW old \in SUBSET cached, RegularCleanup(t, old) PROVE Flow(t, {}, {}) /\ HandsApart(t)'
  BY <1>t, <1>a, <1>b, <1>o, <1>10 DEF RegularCleanup, TakeOut, Cleaning, vars, locals
<1>11. ASSUME CleanAll(t) PROVE Flow(t, {}, {}) /\ HandsApart(t)'
  BY <1>t, <1>a, <1>b, <1>o, <1>11 DEF CleanAll, TakeOut, vars, locals
<1>12. ASSUME Released(t) PROVE Flow(t, {}, {}) /\ HandsApart(t)'
  BY <1>t, <1>a, <1>b, <1>o, <1>12 DEF Released, vars, locals
<1>13. ASSUME NEW b \in toRelease[t], ReturnLargeObject(t, b) PROVE Flow(t, {}, {b}) /\ HandsApart(t)'
  BY <1>t, <1>a, <1>b, <1>o, <1>13, TableCalls DEF ReturnLargeObject
<1>14. ASSUME NEW n \in {1, 2}, SlabsMiss(t, n) PROVE Flow(t, {}, {}) /\ HandsApart(t)'
  BY <1>t, <1>a, <1>b, <1>o, <1>14, TableCalls DEF SlabsMiss
<1>15. ASSUME NoSlabRef(t) PROVE Flow(t, {}, {}) /\ HandsApart(t)'
  BY <1>t, <1>a, <1>b, <1>o, <1>15, TableCalls DEF NoSlabRef
<1>16. ASSUME GotSlabRef(t) PROVE Flow(t, {}, {}) /\ HandsApart(t)'
  BY <1>t, <1>a, <1>b, <1>o, <1>16, TableCalls DEF GotSlabRef
<1>17. ASSUME NextSlabRef(t) PROVE Flow(t, {}, {}) /\ HandsApart(t)'
  BY <1>t, <1>a, <1>b, <1>o, <1>17, TableCalls DEF NextSlabRef
<1>18. ASSUME NEW b \in slabs, FreeSlab(t, b) PROVE Flow(t, {}, {b}) /\ HandsApart(t)'
  BY <1>t, <1>a, <1>b, <1>o, <1>18, TableCalls DEF FreeSlab
<1>19. ASSUME StartupBlock(t) PROVE Flow(t, {}, {}) /\ HandsApart(t)'
  BY <1>t, <1>a, <1>b, <1>o, <1>19, TableCalls DEF StartupBlock
<1>20. ASSUME GotStartupRef(t) PROVE Flow(t, {}, {}) /\ HandsApart(t)'
  BY <1>t, <1>a, <1>b, <1>o, <1>20, TableCalls DEF GotStartupRef
<1> QED
  BY <1>0, <1>1, <1>2, <1>3, <1>4, <1>5, <1>6, <1>7, <1>8, <1>9, <1>10, <1>11, <1>12, <1>13, <1>14, <1>15, <1>16, <1>17, <1>18, <1>19, <1>20 DEF Object, SlabCall

(* Such a step leaves every reference with one owner.                       *)
LEMMA OwnerStep ==
    ASSUME EveryRefHasOneOwner, NEW t \in Threads, NEW new, NEW gone, Kept(t), Calm(t),
           Flow(t, new, gone)
    PROVE  EveryRefHasOneOwner'
<1> DEFINE X == UNION {Owned(u) : u \in Threads \ {t}}
<1>1. \A u \in Threads \ {t} : Owned(u)' = Owned(u)
  BY DEF Kept, Calm, Owned
<1>2. held = Common \cup Owned(t) \cup X
  BY DEF EveryRefHasOneOwner, Common
<1>3. X \cap (Owned(t) \cup Common) = {}
  BY DEF EveryRefHasOneOwner, Common
<1>4. UNION {Owned(u)' : u \in Threads} = Owned(t)' \cup X
  BY <1>1
<1> HIDE DEF X
<1>5. held' = Common' \cup Owned(t)' \cup X
  BY <1>2, <1>3 DEF Flow
<1>6. \A u \in Threads \ {t} : Owned(u) \subseteq X
  BY DEF X
<1>7. X \cap (Owned(t)' \cup Common') = {}
  BY <1>2, <1>3 DEF Flow
<1>8. \A u, v \in Threads : u # v => Owned(u)' \cap Owned(v)' = {}
  <2> SUFFICES ASSUME NEW u \in Threads, NEW v \in Threads, u # v
               PROVE  Owned(u)' \cap Owned(v)' = {}
    OBVIOUS
  <2>1. CASE u = t
    BY <1>1, <1>6, <1>7, <2>1
  <2>2. CASE v = t
    BY <1>1, <1>6, <1>7, <2>2
  <2>3. CASE u # t /\ v # t
    BY <1>1, <2>3 DEF EveryRefHasOneOwner
  <2> QED
    BY <2>1, <2>2, <2>3
<1>9. \A u \in Threads : Owned(u)' \cap Common' = {}
  BY <1>1, <1>6, <1>7 DEF Flow
<1>10. BlocksApart'
  BY DEF Flow
<1> QED
  BY <1>4, <1>5, <1>8, <1>9, <1>10 DEF EveryRefHasOneOwner, Common, BlocksApart

(* Hands of the other threads stay as they were.                            *)
LEMMA FrameStep ==
    ASSUME FrameInv, NEW t \in Threads, Path(t), HandsApart(t)'
    PROVE  FrameInv'
<1> SUFFICES ASSUME NEW u \in Threads, u # t PROVE FrameOK(u)' /\ HandsApart(u)'
  BY DEF FrameInv, Path
<1> QED
  BY DEF FrameInv, Path, Kept, Calm, FrameOK, HandsApart

-----------------------------------------------------------------------------
(* usedSize and the bit mask.                                               *)

(* A finite set that may gain or lose t.                                    *)
LEMMA OneChange ==
    ASSUME NEW A, NEW B, NEW t, IsFiniteSet(A), B \ {t} = A \ {t}
    PROVE  /\ IsFiniteSet(B) /\ Cardinality(A) \in Nat /\ Cardinality(B) \in Nat
           /\ (t \in A <=> t \in B) => Cardinality(B) = Cardinality(A)
           /\ t \notin A /\ t \in B => Cardinality(B) = Cardinality(A) + 1
           /\ t \in A /\ t \notin B => Cardinality(A) = Cardinality(B) + 1
<1>1. CASE t \in A <=> t \in B
  <2>1. A = B
    BY <1>1
  <2> QED
    BY <1>1, <2>1, FS_CardinalityType
<1>2. CASE t \notin A /\ t \in B
  <2>1. B = A \cup {t}
    BY <1>2
  <2> QED
    BY <1>2, <2>1, FS_AddElement, FS_CardinalityType
<1>3. CASE t \in A /\ t \notin B
  <2>1. B = A \ {t}
    BY <1>3
  <2> QED
    BY <1>3, <2>1, FS_RemoveElement, FS_CardinalityType
<1> QED
  BY <1>1, <1>2, <1>3

InGet(t) == frame[t] \in {"hit", "miss", "object", "block", "rollback"}

(* What a step does to the count of the bin.                                *)
Counted(t) ==
    \/ UNCHANGED <<usedSize, inUse, refused>> /\ (InGet(t) <=> InGet(t)')
    \/ usedSize' = usedSize + 1 /\ UNCHANGED <<inUse, refused>> /\ ~InGet(t) /\ InGet(t)'
    \/ /\ inUse' = inUse \cup {mine[t]} /\ mine[t] \notin inUse
       /\ UNCHANGED <<usedSize, refused>> /\ InGet(t) /\ ~InGet(t)'
    \/ refused' = refused + 1 /\ UNCHANGED <<usedSize, inUse>> /\ InGet(t) /\ ~InGet(t)'
    \/ usedSize' = usedSize - 1 /\ UNCHANGED <<inUse, refused>> /\ InGet(t) /\ ~InGet(t)'
    \/ /\ \E b \in inUse : inUse' = inUse \ {b}
       /\ usedSize' = usedSize - 1 /\ UNCHANGED refused /\ (InGet(t) <=> InGet(t)')

(* Every step counts as one of these.                                       *)
LEMMA CountedStep ==
    ASSUME PartsOK, FrameInv, EveryRefHasOneOwner, NEW t \in Threads,
           Table(t) \/ Object(t) \/ SlabCall(t)
    PROVE  Counted(t)
<1> USE DEF Enter, At, InBackend, bin, owners, history, frames, objects, InGet, Counted, PartsOK
<1>t. /\ frame[t] \in {"hit", "block"} => mine[t] # NoRef
      /\ mine[t] # NoRef => mine[t] \notin inUse
  BY DEF FrameInv, FrameOK, EveryRefHasOneOwner, Owned
<1>0. ASSUME Table(t) PROVE Counted(t)
  BY <1>0 DEF Table
<1>1. ASSUME MissCache(t) PROVE Counted(t)
  BY <1>t, <1>1 DEF MissCache
<1>2. ASSUME EndHit(t) PROVE Counted(t)
  BY <1>t, <1>2 DEF EndHit
<1>3. ASSUME EndMiss(t) PROVE Counted(t)
  BY <1>t, <1>3 DEF EndMiss
<1>4. ASSUME GotObjectRef(t) PROVE Counted(t)
  BY <1>t, <1>4 DEF GotObjectRef
<1>5. ASSUME GetLargeBlock(t) PROVE Counted(t)
  BY <1>t, <1>5 DEF GetLargeBlock
<1>6. ASSUME NoLargeBlock(t) PROVE Counted(t)
  BY <1>t, <1>6 DEF NoLargeBlock
<1>7. ASSUME RollbackCacheState(t) PROVE Counted(t)
  BY <1>t, <1>7 DEF RollbackCacheState, Settle
<1>8. ASSUME NEW b \in cached, GetCached(t, b) PROVE Counted(t)
  BY <1>t, <1>8 DEF GetCached
<1>9. ASSUME NEW b \in inUse, PutObject(t, b) PROVE Counted(t)
  BY <1>t, <1>9 DEF PutObject, Settle
<1>10. ASSUME NEW old \in SUBSET cached, RegularCleanup(t, old) PROVE Counted(t)
  BY <1>t, <1>10 DEF RegularCleanup, TakeOut, Cleaning
<1>11. ASSUME CleanAll(t) PROVE Counted(t)
  BY <1>t, <1>11 DEF CleanAll, TakeOut
<1>12. ASSUME Released(t) PROVE Counted(t)
  BY <1>t, <1>12 DEF Released
<1>13. ASSUME NEW b \in toRelease[t], ReturnLargeObject(t, b) PROVE Counted(t)
  BY <1>t, <1>13 DEF ReturnLargeObject
<1>14. ASSUME NEW n \in {1, 2}, SlabsMiss(t, n) PROVE Counted(t)
  BY <1>t, <1>14 DEF SlabsMiss
<1>15. ASSUME NoSlabRef(t) PROVE Counted(t)
  BY <1>t, <1>15 DEF NoSlabRef
<1>16. ASSUME GotSlabRef(t) PROVE Counted(t)
  BY <1>t, <1>16 DEF GotSlabRef
<1>17. ASSUME NextSlabRef(t) PROVE Counted(t)
  BY <1>t, <1>17 DEF NextSlabRef
<1>18. ASSUME NEW b \in slabs, FreeSlab(t, b) PROVE Counted(t)
  BY <1>t, <1>18 DEF FreeSlab
<1>19. ASSUME StartupBlock(t) PROVE Counted(t)
  BY <1>t, <1>19 DEF StartupBlock
<1>20. ASSUME GotStartupRef(t) PROVE Counted(t)
  BY <1>t, <1>20 DEF GotStartupRef
<1> QED
  BY <1>0, <1>1, <1>2, <1>3, <1>4, <1>5, <1>6, <1>7, <1>8, <1>9, <1>10, <1>11, <1>12, <1>13, <1>14, <1>15, <1>16, <1>17, <1>18, <1>19, <1>20 DEF Object, SlabCall

(* So the sum of UsedSizeDrift is kept.                                     *)
LEMMA DriftStep ==
    ASSUME IsFiniteSet(Threads), PartsOK, TypeOK, UsedSizeDrift, usedSize \in Nat,
           NEW t \in Threads, Kept(t), Counted(t)
    PROVE  UsedSizeDrift' /\ usedSize' \in Nat
<1>1. IsFiniteSet(Getting) /\ Getting' \ {t} = Getting \ {t}
  <2>1. IsFiniteSet(Getting)
    BY FS_Subset DEF Getting
  <2> QED
    BY <2>1 DEF Getting, Kept
<1>2. (t \in Getting <=> InGet(t)) /\ (t \in Getting' <=> InGet(t)')
  BY DEF Getting, InGet
<1>3. IsFiniteSet(inUse) /\ Cardinality(inUse) \in Nat
  <2>1. Leaves = 1 .. MaxLeaves /\ Slots = 0 .. Cap - 1 /\ MaxLeaves \in Nat /\ Cap \in Nat
    BY BackRefsAssumption DEF Leaves, Slots
  <2>2. IsFiniteSet(Leaves) /\ IsFiniteSet(Slots)
    BY <2>1, FS_Interval
  <2>3. IsFiniteSet(Refs)
    BY <2>2, FS_Product DEF Refs
  <2> QED
    BY <2>3, FS_Subset, FS_CardinalityType DEF PartsOK
<1>4. /\ Cardinality(Getting) \in Nat /\ Cardinality(Getting') \in Nat
      /\ (InGet(t) <=> InGet(t)') => Cardinality(Getting') = Cardinality(Getting)
      /\ ~InGet(t) /\ InGet(t)' => Cardinality(Getting') = Cardinality(Getting) + 1
      /\ InGet(t) /\ ~InGet(t)' => Cardinality(Getting) = Cardinality(Getting') + 1
  BY <1>1, <1>2, OneChange
<1>5. usedSize = Cardinality(inUse) + Cardinality(Getting) + refused /\ refused \in Nat
  BY DEF UsedSizeDrift, PartsOK
<1>6. SUFFICES /\ usedSize' = Cardinality(inUse') + Cardinality(Getting') + refused'
               /\ usedSize' \in Nat
  BY DEF UsedSizeDrift, Getting
<1>7. CASE UNCHANGED inUse
  BY <1>3, <1>4, <1>5, <1>7 DEF Counted
<1>8. CASE inUse' = inUse \cup {mine[t]} /\ mine[t] \notin inUse
  <2>1. Cardinality(inUse') = Cardinality(inUse) + 1
    BY <1>3, <1>8, FS_AddElement
  <2>2. UNCHANGED <<usedSize, refused>> /\ InGet(t) /\ ~InGet(t)'
    BY <1>8 DEF Counted
  <2> QED
    BY <1>3, <1>4, <1>5, <2>1, <2>2
<1>9. ASSUME NEW b \in inUse, inUse' = inUse \ {b}
      PROVE  /\ usedSize' = Cardinality(inUse') + Cardinality(Getting') + refused'
             /\ usedSize' \in Nat
  <2>1. Cardinality(inUse') = Cardinality(inUse) - 1
    BY <1>3, <1>9, FS_RemoveElement
  <2>2. usedSize' = usedSize - 1 /\ UNCHANGED refused /\ (InGet(t) <=> InGet(t)')
    BY <1>9 DEF Counted
  <2>3. Cardinality(inUse') \in Nat
    BY <1>3, <1>9, FS_RemoveElement, FS_CardinalityType
  <2> QED
    BY <1>3, <1>4, <1>5, <2>1, <2>2, <2>3
<1> QED
  BY <1>7, <1>8, <1>9 DEF Counted

(* An object in use, or a request under way, is counted.                    *)
LEMMA Counts ==
    ASSUME IsFiniteSet(Threads), PartsOK, UsedSizeDrift
    PROVE  /\ inUse # {} => usedSize # 0
           /\ \A t \in Threads : InGet(t) => usedSize # 0
<1>1. IsFiniteSet(inUse) /\ Cardinality(inUse) \in Nat /\ (inUse # {} => Cardinality(inUse) # 0)
  <2>1. Leaves = 1 .. MaxLeaves /\ Slots = 0 .. Cap - 1 /\ MaxLeaves \in Nat /\ Cap \in Nat
    BY BackRefsAssumption DEF Leaves, Slots
  <2>2. IsFiniteSet(Leaves) /\ IsFiniteSet(Slots)
    BY <2>1, FS_Interval
  <2>3. IsFiniteSet(Refs)
    BY <2>2, FS_Product DEF Refs
  <2> QED
    BY <2>3, FS_Subset, FS_CardinalityType, FS_EmptySet DEF PartsOK
<1>2. /\ Cardinality(Getting) \in Nat
      /\ \A t \in Threads : InGet(t) => Cardinality(Getting) # 0
  <2>1. IsFiniteSet(Getting) /\ \A t \in Threads : InGet(t) => t \in Getting
    BY FS_Subset DEF Getting, InGet
  <2> QED
    BY <2>1, FS_CardinalityType, FS_EmptySet
<1>3. usedSize = Cardinality(inUse) + Cardinality(Getting) + refused /\ refused \in Nat
  BY DEF UsedSizeDrift, PartsOK
<1>4. Cardinality(inUse) # 0 \/ Cardinality(Getting) # 0 => usedSize # 0
  BY <1>1, <1>2, <1>3
<1> QED
  BY <1>1, <1>2, <1>4

(* The bit of a bin that is not empty is set, or about to be.               *)
Marked == bit \/ \E t \in Threads : setBit[t]

(* Every step keeps it so.                                                  *)
LEMMA MaskStep ==
    ASSUME IsFiniteSet(Threads), PartsOK, FrameInv, UsedSizeDrift, BitMaskCovers,
           NEW t \in Threads, Kept(t), Table(t) \/ Object(t) \/ SlabCall(t)
    PROVE  BitMaskCovers'
<1> USE DEF Enter, At, InBackend, bin, owners, history, frames, objects
<1>a. /\ setBit \in [Threads -> BOOLEAN] /\ bit \in BOOLEAN
      /\ setBit[t] => frame[t] \in {"hit", "miss"}
  BY DEF PartsOK, FrameInv, FrameOK
<1>b. /\ inUse # {} => usedSize # 0
      /\ InGet(t) => usedSize # 0
  BY Counts
<1>c. cached # {} \/ usedSize # 0 => Marked
  BY DEF BitMaskCovers, Marked
<1>d. SUFFICES cached' # {} \/ usedSize' # 0 => Marked'
  BY DEF BitMaskCovers, Marked
<1>e. \A u \in Threads \ {t} : setBit'[u] = setBit[u]
  BY DEF Kept
<1>0. CASE UNCHANGED <<cached, usedSize, bit, setBit>>
  BY <1>0, <1>c DEF Marked
<1>1. CASE MissCache(t) \/ \E b \in cached : GetCached(t, b)
  <2>1. /\ setBit' = [setBit EXCEPT ![t] = usedSize = 0] /\ bit' = bit
        /\ frame[t] = "idle"
    BY <1>1 DEF MissCache, GetCached
  <2>2. CASE usedSize = 0
    BY <1>a, <2>1, <2>2 DEF Marked
  <2>3. CASE usedSize # 0
    BY <1>a, <1>c, <1>e, <2>1, <2>3 DEF Marked
  <2> QED
    BY <2>2, <2>3
<1>2. CASE EndHit(t) \/ EndMiss(t)
  <2>1. /\ bit' = (bit \/ setBit[t]) /\ setBit' = [setBit EXCEPT ![t] = FALSE]
        /\ UNCHANGED <<cached, usedSize>>
    BY <1>2 DEF EndHit, EndMiss
  <2> QED
    BY <1>a, <1>c, <1>e, <2>1 DEF Marked
<1>3. CASE RollbackCacheState(t) \/ \E b \in inUse : PutObject(t, b)
  <2>1. usedSize # 0 /\ setBit' = setBit /\ Settle
    BY <1>3, <1>b DEF RollbackCacheState, PutObject, InGet
  <2> QED
    BY <1>c, <2>1 DEF Settle, Marked
<1>4. CASE CleanAll(t) \/ \E old \in SUBSET cached : RegularCleanup(t, old)
  <2>1. /\ setBit' = setBit /\ usedSize' = usedSize
        /\ cached' # {} \/ usedSize # 0 => (bit' <=> bit)
        /\ cached' \subseteq cached
    BY <1>4 DEF CleanAll, RegularCleanup, TakeOut
  <2> QED
    BY <1>c, <2>1 DEF Marked
<1>5. CASE \/ Table(t) \/ SlabCall(t) \/ GotObjectRef(t) \/ GetLargeBlock(t)
           \/ NoLargeBlock(t) \/ Released(t)
           \/ \E b \in toRelease[t] : ReturnLargeObject(t, b)
  <2>1. UNCHANGED <<cached, usedSize, bit, setBit>>
    BY <1>5 DEF Table, SlabCall, GotObjectRef, GetLargeBlock, NoLargeBlock, Released,
                ReturnLargeObject, SlabsMiss, NoSlabRef, GotSlabRef, NextSlabRef, FreeSlab,
                StartupBlock, GotStartupRef
  <2> QED
    BY <2>1, <1>0
<1> QED
  BY <1>1, <1>2, <1>3, <1>4, <1>5 DEF Object

-----------------------------------------------------------------------------
(* The theorems.                                                            *)

(* ObjectsTypeOK, in its parts.                                             *)
LEMMA TypesSplit == ObjectsTypeOK <=> PartsOK /\ usedSize \in Nat
  BY DEF ObjectsTypeOK, PartsOK

(* Nothing is in hand at the start.                                         *)
LEMMA CallersInit ==
    ASSUME IsFiniteSet(Threads), ObjectsInit PROVE ObjectsInv
<1>1. TableInv
  BY TableInit DEF ObjectsInit
<1>2. /\ held = {} /\ inUse = {} /\ slabs = {} /\ cached = {} /\ leaked = {}
      /\ \A t \in Threads : /\ batch[t] = {} /\ toRelease[t] = {} /\ mine[t] = NoRef
                            /\ pc[t] = "idle" /\ ref[t] = NoRef /\ frame[t] = "idle"
                            /\ ~setBit[t]
  BY DEF ObjectsInit, Init
<1>3. ObjectsTypeOK
  <2>1. 0 \in Nat /\ 0 \in 0 .. 2 /\ "idle" \in Frames /\ FALSE \in BOOLEAN
    BY DEF Frames
  <2> QED
    BY <2>1, Zenon DEF ObjectsInit, ObjectsTypeOK
<1>4. FrameInv
  BY <1>2 DEF FrameInv, FrameOK, HandsApart, Removing
<1>5. EveryRefHasOneOwner
  <2>1. \A t \in Threads : Owned(t) = {}
    BY <1>2 DEF Owned
  <2> QED
    BY <1>2, <2>1 DEF EveryRefHasOneOwner
<1>6. UsedSizeDrift
  <2>1. Getting = {} /\ Cardinality({}) = 0
    BY <1>2, FS_EmptySet DEF Getting
  <2> QED
    BY <1>2, <2>1 DEF UsedSizeDrift, ObjectsInit
<1>7. BitMaskCovers
  BY <1>2 DEF BitMaskCovers, ObjectsInit
<1> QED
  BY <1>1, <1>3, <1>4, <1>5, <1>6, <1>7 DEF ObjectsInv

(* Every step keeps the invariant.                                          *)
LEMMA CallersStep ==
    ASSUME IsFiniteSet(Threads), ObjectsInv, [ObjectsNext]_<<vars, objects>>
    PROVE  ObjectsInv'
<1>a. /\ TableInv /\ TypeOK /\ PartsOK /\ usedSize \in Nat /\ FrameInv
      /\ EveryRefHasOneOwner /\ UsedSizeDrift /\ BitMaskCovers
  BY TypesSplit DEF ObjectsInv, TableInv
<1>b. TableInv'
  BY <1>a, StepOfTable, TableStep
<1>1. ASSUME NEW t \in Threads, Table(t) \/ Object(t) \/ SlabCall(t) PROVE ObjectsInv'
  <2>1. Path(t) /\ PartsOK' /\ Kept(t) /\ Calm(t)
    BY <1>a, <1>1, PathStep DEF Path
  <2>2. (\E new, gone : Flow(t, new, gone)) /\ HandsApart(t)'
    BY <1>a, <1>1, FlowStep
  <2>3. EveryRefHasOneOwner'
    BY <1>a, <2>1, <2>2, OwnerStep
  <2>4. FrameInv'
    BY <1>a, <2>1, <2>2, FrameStep
  <2>5. UsedSizeDrift' /\ usedSize' \in Nat
    BY <1>a, <1>1, <2>1, CountedStep, DriftStep
  <2>6. BitMaskCovers'
    BY <1>a, <1>1, <2>1, MaskStep
  <2>7. ObjectsTypeOK'
    BY <2>1, <2>5 DEF ObjectsTypeOK, PartsOK
  <2> QED
    BY <1>b, <2>3, <2>4, <2>5, <2>6, <2>7 DEF ObjectsInv
<1>2. CASE UNCHANGED <<vars, objects>>
  <2> USE <1>2, <1>a DEF vars, locals, objects, frames, bin, owners, history
  <2>1. ObjectsTypeOK'
    BY DEF ObjectsTypeOK, PartsOK
  <2>2. FrameInv'
    BY DEF FrameInv, FrameOK, HandsApart
  <2>3. EveryRefHasOneOwner'
    <3>1. \A t \in Threads : Owned(t)' = Owned(t)
      BY DEF Owned
    <3> QED
      BY <3>1 DEF EveryRefHasOneOwner
  <2>4. UsedSizeDrift' /\ BitMaskCovers'
    BY DEF UsedSizeDrift, Getting, BitMaskCovers
  <2> QED
    BY <1>b, <2>1, <2>2, <2>3, <2>4 DEF ObjectsInv
<1> QED
  BY <1>1, <1>2 DEF ObjectsNext

(* The callers' invariant holds of any number of threads, leaves and slots. *)
LEMMA CallersAlways ==
    ASSUME IsFiniteSet(Threads) PROVE ObjectsSpec => []ObjectsInv
<1>1. ObjectsInit => ObjectsInv
  BY CallersInit
<1>2. ObjectsInv /\ [ObjectsNext]_<<vars, objects>> => ObjectsInv'
  BY CallersStep
<1> QED
  BY <1>1, <1>2, PTL DEF ObjectsSpec

(* No path loses a reference or has it twice, a cleanup nested in           *)
(* newBackRef and half a batch of slabs included; only the block for        *)
(* startup leaks one.                                                       *)
THEOREM Ownership ==
    ASSUME IsFiniteSet(Threads) PROVE ObjectsSpec => []EveryRefHasOneOwner
<1>1. ObjectsInv => EveryRefHasOneOwner
  BY DEF ObjectsInv
<1> QED
  BY <1>1, CallersAlways, PTL

(* usedSize is off by the number of requests refused for want of a          *)
(* reference, by no more and for no other reason.                           *)
THEOREM Drift ==
    ASSUME IsFiniteSet(Threads) PROVE ObjectsSpec => []UsedSizeDrift
<1>1. ObjectsInv => UsedSizeDrift
  BY DEF ObjectsInv
<1> QED
  BY <1>1, CallersAlways, PTL

(* A bin with objects is never hidden from the cleanups for good, though    *)
(* the bit is set after the lock of the bin was given up.                   *)
THEOREM Covered ==
    ASSUME IsFiniteSet(Threads) PROVE ObjectsSpec => []BitMaskCovers
<1>1. ObjectsInv => BitMaskCovers
  BY DEF ObjectsInv
<1> QED
  BY <1>1, CallersAlways, PTL
=============================================================================
