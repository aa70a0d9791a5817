------------------------------- MODULE BackRefs -------------------------------
(****************************************************************************)
(* The back-reference table of the scalable allocator (backref.cpp).  Every *)
(* slab and every large object holds a reference: a slot of one leaf of the *)
(* table.  A leaf serves the slots of its free list first and then, from    *)
(* its end, slots that were never used.  References come from the active    *)
(* leaf; leaves that regained a free slot wait in the chain listForUse.     *)
(*                                                                          *)
(* backRefMutex (mutex) protects active and the chain, a mutex of each leaf *)
(* its slots.  A section under the mutex of a leaf is one action here: what *)
(* others read of a leaf without it, allocatedCount, is written once there. *)
(* removeBackRef first reads active and addedToForUse without backRefMutex. *)
(*                                                                          *)
(* A thread that waits for memory for a new leaf still holds backRefMutex,  *)
(* and cleans the cache of large objects meanwhile: it removes references   *)
(* in the middle of newBackRef.                                             *)
(****************************************************************************)
EXTENDS Integers, Sequences, FiniteSets

CONSTANTS
    Threads,     \* threads inside the allocator
    NoThread,    \* backRefMutex is free
    Cap,         \* BR_MAX_CNT
    InitLeaves,  \* BackRefMaster::leaves
    DataSz,      \* BackRefMaster::dataSz
    MaxLeaves,   \* leaves there is memory for
    MaxCalls     \* bound on the calls of newBackRef

ASSUME BackRefsAssumption ==
    /\ NoThread \notin Threads
    /\ Cap \in Nat \ {0} /\ DataSz \in Nat /\ MaxCalls \in Nat
    /\ InitLeaves \in Nat \ {0} /\ MaxLeaves \in Nat /\ InitLeaves <= MaxLeaves

VARIABLES
    active,   \* the leaf new references come from
    list,     \* listForUse, its first leaf first
    leaves,   \* lastUsed + 1
    count,    \* allocatedCount of each leaf
    freed,    \* the slots in its freeList
    fresh,    \* the number of slots bumpPtr has not passed
    added,    \* addedToForUse
    mutex,    \* holder of backRefMutex
    held,     \* references that slabs and large objects have
    calls,    \* calls of newBackRef so far
    pc,       \* where each thread is
    leaf,     \* its blockToUse or currBlock
    ref,      \* the reference it removes or has just got
    resume    \* where it continues after removeBackRef

table  == <<active, list, leaves, count, freed, fresh, added>>
locals == <<leaf, ref, resume>>
vars   == <<table, mutex, held, calls, pc, locals>>

Leaves     == 1 .. MaxLeaves
Slots      == 0 .. Cap - 1
Refs       == Leaves \X Slots
NoRef      == <<0, 0>>
Goto(t, l) == pc' = [pc EXCEPT ![t] = l]

(* initBackRefMaster: the first leaf is active, the others are chained.     *)
Init ==
    /\ active = 1
    /\ list = [i \in 1 .. InitLeaves - 1 |-> InitLeaves + 1 - i]
    /\ leaves = InitLeaves
    /\ count = [l \in Leaves |-> 0]
    /\ freed = [l \in Leaves |-> {}]
    /\ fresh = [l \in Leaves |-> Cap]
    /\ added = [l \in Leaves |-> l \in 2 .. InitLeaves]
    /\ mutex = NoThread
    /\ held = {}
    /\ calls = 0
    /\ pc = [t \in Threads |-> "idle"]
    /\ leaf = [t \in Threads |-> 0]
    /\ ref = [t \in Threads |-> NoRef]
    /\ resume = [t \in Threads |-> "idle"]

-----------------------------------------------------------------------------
(* newBackRef and findFreeBlock.                                            *)

NewBackRef(t) ==
    /\ pc[t] = "idle" /\ calls < MaxCalls
    /\ calls' = calls + 1
    /\ Goto(t, "find")
    /\ UNCHANGED <<table, mutex, held, locals>>

(* allocatedCount of the active leaf is read without the mutex of the leaf. *)
FindActive(t) ==
    /\ pc[t] = "find" /\ mutex = NoThread
    /\ count[active] < Cap
    /\ leaf' = [leaf EXCEPT ![t] = active]
    /\ Goto(t, "take")
    /\ UNCHANGED <<table, mutex, held, calls, ref, resume>>

FindFull(t) ==
    /\ pc[t] = "find" /\ mutex = NoThread
    /\ count[active] = Cap
    /\ mutex' = t
    /\ Goto(t, "switch")
    /\ UNCHANGED <<table, held, calls, locals>>

SwitchToListed(t) ==
    /\ pc[t] = "switch" /\ list # <<>>
    /\ active' = Head(list)
    /\ list' = Tail(list)
    /\ added' = [added EXCEPT ![Head(list)] = FALSE]
    /\ leaf' = [leaf EXCEPT ![t] = Head(list)]
    /\ mutex' = NoThread
    /\ Goto(t, "take")
    /\ UNCHANGED <<leaves, count, freed, fresh, held, calls, ref, resume>>

(* `lastUsed-1 < dataSz` lets a new leaf in.                                *)
AskForSpace(t) ==
    /\ pc[t] = "switch" /\ list = <<>> /\ leaves - 2 < DataSz
    /\ Goto(t, "space")
    /\ UNCHANGED <<table, mutex, held, calls, locals>>

(* getBackRefSpace found memory; addEmptyBackRefBlock.                      *)
AddEmptyBackRefBlock(t) ==
    /\ pc[t] = "space" /\ leaves < MaxLeaves
    /\ leaves' = leaves + 1
    /\ active' = leaves'
    /\ leaf' = [leaf EXCEPT ![t] = leaves']
    /\ mutex' = NoThread
    /\ Goto(t, "take")
    /\ UNCHANGED <<list, count, freed, fresh, added, held, calls, ref, resume>>

(* Mutant: the early return keeps backRefMutex.                             *)
NoFreeBlockLocked(t) ==
    /\ \/ pc[t] = "space"
       \/ pc[t] = "switch" /\ list = <<>> /\ leaves - 2 >= DataSz
    /\ Goto(t, "got")
    /\ UNCHANGED <<table, mutex, held, calls, locals>>

(* No memory, or no entry: an invalid reference is returned.                *)
NoFreeBlock(t) ==
    /\ \/ pc[t] = "space"
       \/ pc[t] = "switch" /\ list = <<>> /\ leaves - 2 >= DataSz
    /\ mutex' = NoThread
    /\ Goto(t, "got")
    /\ UNCHANGED <<table, held, calls, locals>>

Got(t, s) ==
    /\ count' = [count EXCEPT ![leaf[t]] = @ + 1]
    /\ held' = held \cup {<<leaf[t], s>>}
    /\ ref' = [ref EXCEPT ![t] = <<leaf[t], s>>]
    /\ leaf' = [leaf EXCEPT ![t] = 0]
    /\ Goto(t, "got")
    /\ UNCHANGED <<active, list, leaves, added, mutex, calls, resume>>

(* Mutant: the first slot of the free list stays there.                     *)
TakeFreedStays(t) ==
    /\ pc[t] = "take"
    /\ \E s \in freed[leaf[t]] : Got(t, s)
    /\ UNCHANGED <<freed, fresh>>

TakeFreed(t) ==
    /\ pc[t] = "take"
    /\ \E s \in freed[leaf[t]] :
           /\ freed' = [freed EXCEPT ![leaf[t]] = @ \ {s}]
           /\ Got(t, s)
    /\ UNCHANGED fresh

(* Mutant: the leaf is taken to have a slot, as findFreeBlock saw one.      *)
TakeFreshUnchecked(t) ==
    /\ pc[t] = "take" /\ freed[leaf[t]] = {}
    /\ fresh' = [fresh EXCEPT ![leaf[t]] = @ - 1]
    /\ Got(t, fresh'[leaf[t]])
    /\ UNCHANGED freed

TakeFresh(t) ==
    /\ pc[t] = "take" /\ freed[leaf[t]] = {} /\ count[leaf[t]] < Cap
    /\ fresh' = [fresh EXCEPT ![leaf[t]] = @ - 1]
    /\ Got(t, fresh'[leaf[t]])
    /\ UNCHANGED freed

(* Others took the last slots of the leaf: the search starts again.         *)
TakeNothing(t) ==
    /\ pc[t] = "take" /\ freed[leaf[t]] = {} /\ count[leaf[t]] = Cap
    /\ leaf' = [leaf EXCEPT ![t] = 0]
    /\ Goto(t, "find")
    /\ UNCHANGED <<table, mutex, held, calls, ref, resume>>

(* The caller has its reference, or NoRef.                                  *)
Return(t) ==
    /\ pc[t] = "got"
    /\ ref' = [ref EXCEPT ![t] = NoRef]
    /\ Goto(t, "idle")
    /\ UNCHANGED <<table, mutex, held, calls, leaf, resume>>

-----------------------------------------------------------------------------
(* removeBackRef.                                                           *)

RemoveBackRef(t, r) ==
    /\ pc[t] \in {"idle", "space"} /\ r \in held
    /\ held' = held \ {r}
    /\ ref' = [ref EXCEPT ![t] = r]
    /\ leaf' = [leaf EXCEPT ![t] = r[1]]
    /\ resume' = [resume EXCEPT ![t] = pc[t]]
    /\ Goto(t, "free")
    /\ UNCHANGED <<table, mutex, calls>>

(* Mutant: a leaf is looked at only when it was full before.                *)
FreeSlotOfFull(t) ==
    /\ pc[t] = "free"
    /\ freed' = [freed EXCEPT ![leaf[t]] = @ \cup {ref[t][2]}]
    /\ count' = [count EXCEPT ![leaf[t]] = @ - 1]
    /\ ref' = [ref EXCEPT ![t] = NoRef]
    /\ IF count[leaf[t]] = Cap
       THEN Goto(t, "peek") /\ UNCHANGED <<leaf, resume>>
       ELSE /\ leaf' = [leaf EXCEPT ![t] = 0]
            /\ resume' = [resume EXCEPT ![t] = "idle"]
            /\ Goto(t, resume[t])
    /\ UNCHANGED <<active, list, leaves, fresh, added, mutex, held, calls>>

FreeSlot(t) ==
    /\ pc[t] = "free"
    /\ freed' = [freed EXCEPT ![leaf[t]] = @ \cup {ref[t][2]}]
    /\ count' = [count EXCEPT ![leaf[t]] = @ - 1]
    /\ ref' = [ref EXCEPT ![t] = NoRef]
    /\ Goto(t, "peek")
    /\ UNCHANGED <<active, list, leaves, fresh, added, mutex, held, calls, leaf, resume>>

Leave(t) ==
    /\ leaf' = [leaf EXCEPT ![t] = 0]
    /\ resume' = [resume EXCEPT ![t] = "idle"]
    /\ Goto(t, resume[t])

(* The unprotected test: two reads, in the order the compiler likes, the    *)
(* second of them only if the first left the question open.                 *)
Peek(t, from, served, otherwise) ==
    /\ pc[t] = from
    /\ IF served THEN Leave(t) ELSE Goto(t, otherwise) /\ UNCHANGED <<leaf, resume>>
    /\ UNCHANGED <<table, mutex, held, calls, ref>>

PeekListed(t) == \/ Peek(t, "peek", added[leaf[t]], "peekActive")
                 \/ Peek(t, "peekListed", added[leaf[t]], "relock")
PeekActive(t) == \/ Peek(t, "peek", leaf[t] = active, "peekListed")
                 \/ Peek(t, "peekActive", leaf[t] = active, "relock")

(* Mutant: the second test is dropped (`do we need double-check here?`).    *)
AddToListUnchecked(t) ==
    /\ pc[t] = "relock" /\ mutex = NoThread
    /\ list' = <<leaf[t]>> \o list
    /\ added' = [added EXCEPT ![leaf[t]] = TRUE]
    /\ Leave(t)
    /\ UNCHANGED <<active, leaves, count, freed, fresh, mutex, held, calls, ref>>

(* Under backRefMutex the test is repeated.                                 *)
AddToList(t) ==
    /\ pc[t] = "relock" /\ mutex = NoThread
    /\ IF ~added[leaf[t]] /\ leaf[t] # active
       THEN /\ list' = <<leaf[t]>> \o list
            /\ added' = [added EXCEPT ![leaf[t]] = TRUE]
       ELSE UNCHANGED <<list, added>>
    /\ Leave(t)
    /\ UNCHANGED <<active, leaves, count, freed, fresh, mutex, held, calls, ref>>

-----------------------------------------------------------------------------
Find(t)   == FindActive(t) \/ FindFull(t) \/ SwitchToListed(t) \/ AskForSpace(t)
Take(t)   == TakeFreed(t) \/ TakeFresh(t) \/ TakeNothing(t)
Remove(t) == FreeSlot(t) \/ PeekListed(t) \/ PeekActive(t) \/ AddToList(t)
Work(t)   == Find(t) \/ AddEmptyBackRefBlock(t) \/ NoFreeBlock(t) \/ Take(t)
             \/ Return(t) \/ Remove(t)

Next == \E t \in Threads :
            NewBackRef(t) \/ Work(t) \/ \E r \in held : RemoveBackRef(t, r)

Spec == Init /\ [][Next]_vars

(* A thread inside the table keeps running.                                 *)
FairSpec == Spec /\ \A t \in Threads : WF_vars(Work(t))

-----------------------------------------------------------------------------
(* Properties.                                                              *)

PCs == {"idle", "find", "switch", "space", "take", "got", "free", "peek", "peekListed",
        "peekActive", "relock"}

(* Every variable keeps its type.                                           *)
TypeOK ==
    /\ active \in Leaves /\ list \in Seq(Leaves) /\ leaves \in Leaves
    /\ count \in [Leaves -> 0 .. Cap] /\ freed \in [Leaves -> SUBSET Slots]
    /\ fresh \in [Leaves -> 0 .. Cap] /\ added \in [Leaves -> BOOLEAN]
    /\ mutex \in Threads \cup {NoThread}
    /\ held \subseteq Refs /\ calls \in 0 .. MaxCalls
    /\ pc \in [Threads -> PCs] /\ leaf \in [Threads -> Leaves \cup {0}]
    /\ ref \in [Threads -> Refs \cup {NoRef}] /\ resume \in [Threads -> {"idle", "space"}]

(* References given out, those on their way back included.                  *)
Given    == held \cup {ref[t] : t \in {u \in Threads : pc[u] = "free"}}
Taken(l) == {s \in Slots : <<l, s>> \in Given}

LeafPartition(l) ==
    /\ Taken(l) \cup freed[l] \cup (0 .. fresh[l] - 1) = Slots
    /\ Taken(l) \cap freed[l] = {}
    /\ (Taken(l) \cup freed[l]) \cap (0 .. fresh[l] - 1) = {}
    /\ count[l] = Cardinality(Taken(l))

RemovedOnce ==
    \A t \in Threads : pc[t] = "free" =>
        /\ ref[t] \notin held
        /\ \A u \in Threads : pc[u] = "free" /\ ref[u] = ref[t] => u = t

(* The slots of a leaf are divided among its free list, the part bumpPtr    *)
(* has not passed and the references given out: none is lost, none is given *)
(* out or removed twice, and allocatedCount, which findFreeBlock trusts     *)
(* without the mutex of the leaf, is the number given out.                  *)
SlotsPartition == (\A l \in Leaves : LeafPartition(l)) /\ RemovedOnce

(* backref.cpp:278 asks `do we need double-check here?`: with it, a leaf is *)
(* in the chain at most once, exactly when addedToForUse says so, and never *)
(* while it is the active leaf.                                             *)
ListIsChain ==
    /\ \A i, j \in 1 .. Len(list) : list[i] = list[j] => i = j
    /\ \A l \in Leaves : added[l] <=> \E i \in 1 .. Len(list) : list[i] = l
    /\ ~added[active]

SelfWait(t) == pc[t] = "relock" /\ mutex = t

(* A thread never waits for a mutex it holds.  The tests of the allocator   *)
(* expect an answer, NULL if need be, when memory runs out                  *)
(* (test_malloc_compliance.cpp:663).                                        *)
NeverWaitsForItself == \A t \in Threads : ~SelfWait(t)

(* A leaf with a free slot that newBackRef does not find any more.          *)
Stray(l) == l <= leaves /\ count[l] < Cap /\ ~added[l] /\ l # active

(* The unprotected test of removeBackRef can leave a leaf stray; the next   *)
(* reference removed from it brings it back, unless a thread blocks the     *)
(* mutex for ever.                                                          *)
StrayRecovered == \A l \in Leaves, t \in Threads :
    Stray(l) /\ pc[t] = "free" /\ leaf[t] = l
        ~> ~Stray(l) \/ \E u \in Threads : SelfWait(u)

(* A call ends, whatever the others do, unless a thread waits for the mutex *)
(* it holds itself: that is the only way to get stuck.                      *)
CallsEnd == \A t \in Threads :
    pc[t] # "idle" ~> pc[t] = "idle" \/ \E u \in Threads : SelfWait(u)
=============================================================================
