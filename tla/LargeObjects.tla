----------------------------- MODULE LargeObjects -----------------------------
(****************************************************************************)
(* Who uses back references, and the cache of large objects                 *)
(* (large_objects.cpp, with the callers in backend.cpp and frontend.cpp).   *)
(* A block is named by the reference it has.  One bin of the cache is       *)
(* modelled, that is, one size; ages are abstracted: any part of the cache  *)
(* may be old.  Memory is external: a request may be refused whenever no    *)
(* cached object is left that could be given up for it.                     *)
(*                                                                          *)
(* frame[t] is the caller, pc[t] (of BackRefs) the call it makes; a section *)
(* under the lock of the bin is one action.                                 *)
(****************************************************************************)
EXTENDS BackRefs

CONSTANT RawLeaves    \* leaves that raw memory suffices for

ASSUME RawLeavesAssumption == RawLeaves \in Nat

VARIABLES
    frame,      \* what each thread is doing
    mine,       \* the large object a thread is about to hand out
    wanted,     \* slabs it still needs a reference for
    batch,      \* references of the slabs it obtained
    toRelease,  \* cached objects it took out to return them
    setBit,     \* setNonEmpty of get
    inUse,      \* large objects the program holds
    slabs,      \* slabs in use
    cached,     \* objects in the bin
    remembers,  \* lastCleanedAge # 0
    usedSize,   \* usedSize of the bin, in objects
    bit,        \* bit of the bin in bitMask
    refused,    \* history: requests that found no reference
    leaked      \* history: references nobody will remove

frames  == <<frame, mine, wanted, batch, toRelease, setBit>>
bin     == <<cached, remembers, usedSize, bit>>
owners  == <<inUse, slabs>>
history == <<refused, leaked>>
objects == <<frames, bin, owners, history>>

Enter(t, f) == frame' = [frame EXCEPT ![t] = f]
At(t, f)    == frame[t] = f /\ pc[t] = "idle"

ObjectsInit ==
    /\ Init
    /\ frame = [t \in Threads |-> "idle"]
    /\ mine = [t \in Threads |-> NoRef]
    /\ wanted = [t \in Threads |-> 0]
    /\ batch = [t \in Threads |-> {}]
    /\ toRelease = [t \in Threads |-> {}]
    /\ setBit = [t \in Threads |-> FALSE]
    /\ inUse = {} /\ slabs = {} /\ cached = {}
    /\ remembers = FALSE /\ usedSize = 0 /\ bit = FALSE
    /\ refused = 0 /\ leaked = {}

(* decrUsedSize, and the end of putList and of the cleanups, under the lock *)
(* of the bin.                                                              *)
Settle == bit' = (bit /\ (usedSize' # 0 \/ cached' # {}))

-----------------------------------------------------------------------------
(* mallocLargeObject.                                                       *)

(* CacheBin::get; a bin that is empty may forget what it remembers.         *)
GetCached(t, b) ==
    /\ At(t, "idle") /\ b \in cached
    /\ cached' = cached \ {b}
    /\ mine' = [mine EXCEPT ![t] = b]
    /\ setBit' = [setBit EXCEPT ![t] = usedSize = 0]
    /\ usedSize' = usedSize + 1
    /\ Enter(t, "hit")
    /\ UNCHANGED <<vars, wanted, batch, toRelease, remembers, bit, owners, history>>

MissCache(t) ==
    /\ At(t, "idle") /\ cached = {} /\ calls < MaxCalls
    /\ remembers' \in {remembers, FALSE}
    /\ setBit' = [setBit EXCEPT ![t] = usedSize = 0]
    /\ usedSize' = usedSize + 1
    /\ Enter(t, "miss")
    /\ UNCHANGED <<vars, mine, wanted, batch, toRelease, cached, bit, owners, history>>

(* The bit is set after the lock was given up.                              *)
EndHit(t) ==
    /\ At(t, "hit")
    /\ bit' = (bit \/ setBit[t])
    /\ setBit' = [setBit EXCEPT ![t] = FALSE]
    /\ inUse' = inUse \cup {mine[t]}
    /\ mine' = [mine EXCEPT ![t] = NoRef]
    /\ Enter(t, "idle")
    /\ UNCHANGED <<vars, wanted, batch, toRelease, cached, remembers, usedSize, slabs,
                   history>>

EndMiss(t) ==
    /\ At(t, "miss")
    /\ bit' = (bit \/ setBit[t])
    /\ setBit' = [setBit EXCEPT ![t] = FALSE]
    /\ NewBackRef(t)
    /\ Enter(t, "object")
    /\ UNCHANGED <<mine, wanted, batch, toRelease, cached, remembers, usedSize, owners,
                   history>>

(* Without a reference NULL is returned at once.                            *)
GotObjectRef(t) ==
    /\ frame[t] = "object"
    /\ Return(t)
    /\ IF ref[t] = NoRef
       THEN refused' = refused + 1 /\ Enter(t, "idle") /\ UNCHANGED mine
       ELSE mine' = [mine EXCEPT ![t] = ref[t]] /\ Enter(t, "block") /\ UNCHANGED refused
    /\ UNCHANGED <<wanted, batch, toRelease, setBit, bin, owners, leaked>>

GetLargeBlock(t) ==
    /\ At(t, "block") /\ toRelease[t] = {}
    /\ inUse' = inUse \cup {mine[t]}
    /\ mine' = [mine EXCEPT ![t] = NoRef]
    /\ Enter(t, "idle")
    /\ UNCHANGED <<vars, wanted, batch, toRelease, setBit, bin, slabs, history>>

NoLargeBlock(t) ==
    /\ At(t, "block") /\ toRelease[t] = {} /\ cached = {}
    /\ RemoveBackRef(t, mine[t])
    /\ mine' = [mine EXCEPT ![t] = NoRef]
    /\ Enter(t, "rollback")
    /\ UNCHANGED <<wanted, batch, toRelease, setBit, bin, owners, history>>

(* Mutant: only the reference is given back.                                *)
RollbackNothing(t) ==
    /\ At(t, "rollback")
    /\ Enter(t, "idle")
    /\ UNCHANGED <<vars, mine, wanted, batch, toRelease, setBit, bin, owners, history>>

RollbackCacheState(t) ==
    /\ At(t, "rollback")
    /\ usedSize' = usedSize - 1
    /\ UNCHANGED cached
    /\ Settle
    /\ Enter(t, "idle")
    /\ UNCHANGED <<vars, mine, wanted, batch, toRelease, setBit, remembers, owners, history>>

-----------------------------------------------------------------------------
(* freeLargeObject: CacheBin::putList returns the first object of a size    *)
(* to the backend and remembers that it did.                                *)
PutObject(t, b) ==
    /\ At(t, "idle") /\ b \in inUse
    /\ inUse' = inUse \ {b}
    /\ usedSize' = usedSize - 1
    /\ remembers' = TRUE
    /\ IF remembers
       THEN cached' = cached \cup {b} /\ UNCHANGED toRelease
       ELSE toRelease' = [toRelease EXCEPT ![t] = {b}] /\ UNCHANGED cached
    /\ Settle
    /\ Enter(t, "release")
    /\ UNCHANGED <<vars, mine, wanted, batch, setBit, slabs, history>>

(* Where a thread may find the cache in need of cleaning: at the start of   *)
(* a call, at the end of put, and in genericGetBlock, which also serves     *)
(* getBackRefSpace when raw memory is used up.                              *)
InBackend(t) == At(t, "block") \/ (pc[t] = "space" /\ leaves >= RawLeaves)
Cleaning(t)  == At(t, "idle") \/ At(t, "release") \/ InBackend(t)

TakeOut(t, old) ==
    /\ cached' = cached \ old
    /\ toRelease' = [toRelease EXCEPT ![t] = @ \cup old]
    /\ frame' = [frame EXCEPT ![t] = IF @ = "idle" THEN "release" ELSE @]
    /\ UNCHANGED <<vars, mine, wanted, batch, setBit, owners, history>>

(* regularCleanup skips a bin without its bit; cleanToThreshold.            *)
RegularCleanup(t, old) ==
    /\ Cleaning(t) /\ bit /\ old # {} /\ old \subseteq cached
    /\ remembers' = TRUE
    /\ bit' = (bit /\ (usedSize # 0 \/ old # cached))
    /\ TakeOut(t, old)
    /\ UNCHANGED usedSize

(* Mutant: the bit is cleared with objects of the bin in use.               *)
CleanAllClears(t) ==
    /\ InBackend(t) /\ cached # {}
    /\ bit' = FALSE
    /\ TakeOut(t, cached)
    /\ UNCHANGED <<usedSize, remembers>>

(* hardCachesCleanup: cleanAll visits every bin.                            *)
CleanAll(t) ==
    /\ InBackend(t) /\ cached # {}
    /\ bit' = (bit /\ usedSize # 0)
    /\ TakeOut(t, cached)
    /\ UNCHANGED <<usedSize, remembers>>

(* Mutant: the object forgets its reference, the table keeps it.            *)
ReturnBlockOnly(t, b) ==
    /\ At(t, "release") \/ InBackend(t)
    /\ b \in toRelease[t]
    /\ held' = held \ {b}
    /\ toRelease' = [toRelease EXCEPT ![t] = @ \ {b}]
    /\ UNCHANGED <<table, mutex, calls, pc, locals, frame, mine, wanted, batch, setBit, bin,
                   owners, history>>

ReturnLargeObject(t, b) ==
    /\ At(t, "release") \/ InBackend(t)
    /\ b \in toRelease[t]
    /\ RemoveBackRef(t, b)
    /\ toRelease' = [toRelease EXCEPT ![t] = @ \ {b}]
    /\ UNCHANGED <<frame, mine, wanted, batch, setBit, bin, owners, history>>

Released(t) ==
    /\ At(t, "release") /\ toRelease[t] = {}
    /\ Enter(t, "idle")
    /\ UNCHANGED <<vars, mine, wanted, batch, toRelease, setBit, bin, owners, history>>

-----------------------------------------------------------------------------
(* getEmptyBlock: one or numOfSlabAllocOnMiss slabs, then a reference each. *)
SlabsMiss(t, n) ==
    /\ At(t, "idle")
    /\ wanted' = [wanted EXCEPT ![t] = n]
    /\ NewBackRef(t)
    /\ Enter(t, "slab")
    /\ UNCHANGED <<mine, batch, toRelease, setBit, bin, owners, history>>

(* Mutant: references obtained before the failure are forgotten.            *)
NoSlabRefForgets(t) ==
    /\ frame[t] = "slab" /\ ref[t] = NoRef
    /\ Return(t)
    /\ batch' = [batch EXCEPT ![t] = {}]
    /\ wanted' = [wanted EXCEPT ![t] = 0]
    /\ Enter(t, "release")
    /\ UNCHANGED <<mine, toRelease, setBit, bin, owners, history>>

(* The references obtained so far are removed.                              *)
NoSlabRef(t) ==
    /\ frame[t] = "slab" /\ ref[t] = NoRef
    /\ Return(t)
    /\ toRelease' = [toRelease EXCEPT ![t] = batch[t]]
    /\ batch' = [batch EXCEPT ![t] = {}]
    /\ wanted' = [wanted EXCEPT ![t] = 0]
    /\ Enter(t, "release")
    /\ UNCHANGED <<mine, setBit, bin, owners, history>>

GotSlabRef(t) ==
    /\ frame[t] = "slab" /\ ref[t] # NoRef
    /\ Return(t)
    /\ wanted' = [wanted EXCEPT ![t] = @ - 1]
    /\ IF wanted'[t] = 0
       THEN /\ slabs' = slabs \cup batch[t] \cup {ref[t]}
            /\ batch' = [batch EXCEPT ![t] = {}]
            /\ Enter(t, "idle")
       ELSE /\ batch' = [batch EXCEPT ![t] = @ \cup {ref[t]}]
            /\ UNCHANGED <<slabs, frame>>
    /\ UNCHANGED <<mine, toRelease, setBit, bin, inUse, history>>

NextSlabRef(t) ==
    /\ At(t, "slab")
    /\ NewBackRef(t)
    /\ UNCHANGED objects

(* returnEmptyBlock.                                                        *)
FreeSlab(t, b) ==
    /\ At(t, "idle") /\ b \in slabs
    /\ RemoveBackRef(t, b)
    /\ slabs' = slabs \ {b}
    /\ Enter(t, "release")
    /\ UNCHANGED <<mine, wanted, batch, toRelease, setBit, bin, inUse, history>>

(* StartupBlock::getBlock: the reference comes first, and is kept when      *)
(* there is no memory for its block.                                        *)
StartupBlock(t) ==
    /\ At(t, "idle")
    /\ NewBackRef(t)
    /\ Enter(t, "startup")
    /\ UNCHANGED <<mine, wanted, batch, toRelease, setBit, bin, owners, history>>

GotStartupRef(t) ==
    /\ frame[t] = "startup"
    /\ Return(t)
    /\ LET got == {ref[t]} \ {NoRef}
       IN  \/ slabs' = slabs \cup got /\ UNCHANGED leaked
           \/ leaked' = leaked \cup got /\ UNCHANGED slabs
    /\ Enter(t, "idle")
    /\ UNCHANGED <<mine, wanted, batch, toRelease, setBit, bin, inUse, refused>>

-----------------------------------------------------------------------------
(* The table at work below a frame; genericGetBlock says NULL only after a  *)
(* hard cleanup that found nothing.                                         *)
Table(t) ==
    /\ \/ Find(t) \/ Take(t) \/ Remove(t)
       \/ toRelease[t] = {} /\ AddEmptyBackRefBlock(t)
       \/ /\ toRelease[t] = {}
          /\ pc[t] = "space" => cached = {} /\ leaves >= RawLeaves
          /\ NoFreeBlock(t)
    /\ UNCHANGED objects

Object(t) ==
    \/ MissCache(t) \/ EndHit(t) \/ EndMiss(t) \/ GotObjectRef(t)
    \/ GetLargeBlock(t) \/ NoLargeBlock(t) \/ RollbackCacheState(t)
    \/ \E b \in cached : GetCached(t, b)
    \/ \E b \in inUse : PutObject(t, b)
    \/ \E old \in SUBSET cached : RegularCleanup(t, old)
    \/ CleanAll(t) \/ Released(t)
    \/ \E b \in toRelease[t] : ReturnLargeObject(t, b)

SlabCall(t) ==
    \/ \E n \in {1, 2} : SlabsMiss(t, n)
    \/ NoSlabRef(t) \/ GotSlabRef(t) \/ NextSlabRef(t)
    \/ \E b \in slabs : FreeSlab(t, b)
    \/ StartupBlock(t) \/ GotStartupRef(t)

ObjectsNext == \E t \in Threads : Table(t) \/ Object(t) \/ SlabCall(t)

ObjectsSpec == ObjectsInit /\ [][ObjectsNext]_<<vars, objects>>

(* The references are handled by the rules of the table alone, nested       *)
(* removals included: what is proved of BackRefs holds here.                *)
KeepsToTable == Spec

-----------------------------------------------------------------------------
(* Properties.                                                              *)

Frames == {"idle", "hit", "miss", "object", "block", "rollback", "release", "slab",
           "startup"}

(* Every variable of this module keeps its type.                            *)
ObjectsTypeOK ==
    /\ frame \in [Threads -> Frames]
    /\ mine \in [Threads -> Refs \cup {NoRef}]
    /\ wanted \in [Threads -> 0 .. 2]
    /\ batch \in [Threads -> SUBSET Refs] /\ toRelease \in [Threads -> SUBSET Refs]
    /\ setBit \in [Threads -> BOOLEAN]
    /\ inUse \subseteq Refs /\ slabs \subseteq Refs /\ cached \subseteq Refs
    /\ remembers \in BOOLEAN /\ usedSize \in Nat /\ bit \in BOOLEAN
    /\ refused \in Nat /\ leaked \subseteq Refs

Owned(t) == batch[t] \cup toRelease[t] \cup ({mine[t]} \ {NoRef})
            \cup (IF pc[t] = "got" THEN {ref[t]} \ {NoRef} ELSE {})

(* Every reference given out belongs to one block or one thread that takes  *)
(* care of it, on every path: failures of newBackRef and of getLargeBlock,  *)
(* half of a batch of slabs, cleanups nested in newBackRef.  Only the block *)
(* for startup (frontend.cpp:1612) loses one.                               *)
EveryRefHasOneOwner ==
    /\ held = inUse \cup slabs \cup cached \cup leaked \cup UNION {Owned(t) : t \in Threads}
    /\ \A t, u \in Threads : t # u => Owned(t) \cap Owned(u) = {}
    /\ \A t \in Threads : Owned(t) \cap (inUse \cup slabs \cup cached \cup leaked) = {}
    /\ inUse \cap (slabs \cup cached \cup leaked) = {}
    /\ slabs \cap (cached \cup leaked) = {} /\ cached \cap leaked = {}

Getting == {t \in Threads : frame[t] \in {"hit", "miss", "object", "block", "rollback"}}

(* usedSize of the bin counts the objects in use and the requests under     *)
(* way.  It drifts by one for each request refused for want of a reference  *)
(* (large_objects.cpp:541), and for nothing else.                           *)
UsedSizeDrift == usedSize = Cardinality(inUse) + Cardinality(Getting) + refused

(* large_objects.cpp:102: `not acceptable, if a bin is non-empty and we     *)
(* have empty in bitmask', for regularCleanup would never visit it: that    *)
(* lasts at most until a get that emptied usedSize sets the bit.            *)
BitMaskCovers ==
    cached # {} \/ usedSize # 0 => bit \/ \E t \in Threads : setBit[t]
=============================================================================
