----------------------------- MODULE SvmAllocator -----------------------------
(****************************************************************************)
(* The scalable allocator of tbb41_20130613oss as iHRC changed it: memory   *)
(* that upstream maps from the operating system is cut from one preallocated*)
(* SVM region by a bump pointer (getRawMemory) and is never given back      *)
(* (freeRawMemory).  Modelled around it: genericGetBlock with its rescans,  *)
(* askMemFromOS with the BackendSync counters and the MemExtendingSema,     *)
(* addNewRegion, genericPutBlock with the release of empty regions, the     *)
(* large object cache, and back-reference leaves, which take raw memory     *)
(* directly under backRefMutex.                                             *)
(*                                                                          *)
(* A region keeps the number of its free bytes and, while that tells what   *)
(* can be found in it, the bins that list its blocks; where the blocks lie  *)
(* and the locks of bins and blocks are abstracted.  Their effects are      *)
(* choices: a search may pass over any fragmented region, and with other    *)
(* threads about any region at all; a free block may stay apart from its    *)
(* neighbours, or in coalescQ.  There are no huge pages.                    *)
(* A local variable of the code is 0 when its value is dead.                *)
(****************************************************************************)
EXTENDS Integers, Sequences, FiniteSets, FiniteSetsExt

CONSTANTS
    Threads,         \* threads inside the allocator
    NoThread,        \* backRefMutex is free
    Page,            \* allocationGranularity
    SvmBase,         \* svmRegion
    SvmSize,         \* SVM_SIZE
    Slab,            \* slabSize, also the size of a back-reference leaf
    Bootstrap,       \* raw size of the region bootstrap() adds
    Master,          \* BackRefMaster::masterSize
    SlabRegion,      \* getMaxBinnedSize, 1 MB: raw size of a region added for slabs
    RegionsPerMiss,  \* 4: how many of those one miss asks for
    RequestsPerRegion, \* 4: how many requests a region for smaller objects is to hold
    LargeSizes,      \* sizes of large objects
    Header,          \* what a region needs besides its block
    MinBlock,        \* FreeBlock::minBlockSize: nothing smaller is split off
    SemaLimit,       \* 3: threads that may extend the backend at the same time
    MaxRequests      \* bound on the number of requests

RoundUp(p) == ((p + Page - 1) \div Page) * Page

(* getBlock splits nothing off that is smaller than a FreeBlock.            *)
Remainder(n) == n = 0 \/ n >= MinBlock

ASSUME AllocatorAssumption ==
    /\ Threads # {} /\ NoThread \notin Threads
    /\ Page \in Nat \ {0} /\ SvmBase \in Nat /\ SvmSize \in Nat /\ SvmBase % Page = 0
    /\ Slab \in Nat \ {0} /\ Slab % Page = 0
    /\ Header \in Nat \ {0} /\ SlabRegion \in Nat /\ SlabRegion % Page = 0
    /\ SlabRegion >= Header + 2 * Slab
    /\ Bootstrap \in Nat /\ Bootstrap % Page = 0 /\ Bootstrap >= Header + 2 * Slab
    /\ Master \in Nat \ {0} /\ Master % Page = 0
    /\ Bootstrap + Master <= SvmSize
    /\ LargeSizes \subseteq Nat \ {0, Slab}
    /\ MinBlock \in 1 .. Slab
    /\ \A r \in {Bootstrap, SlabRegion} : Remainder((r - Header) % Slab)
    /\ RequestsPerRegion \in Nat \ {0}
    /\ RegionsPerMiss \in Nat \ {0} /\ SemaLimit \in Nat \ {0} /\ MaxRequests \in Nat

VARIABLES
    next,        \* nextSVMAvailable
    raw,         \* raw memory handed out, in order
    active,      \* MemExtendingSema.active
    processing,  \* BackendSync.blocksInProcessing
    mods,        \* BackendSync.binsModifications
    mutex,       \* holder of backRefMutex
    delayed,     \* coalescQ is not empty
    maxRequested, \* maxRequestedSize
    requests,    \* requests so far; a request names the block it obtains
    sizeOf,      \* size of each request
    place,       \* index in raw of the block of each request
    used,        \* blocks the program holds
    cached,      \* blocks in the large object cache
    leaves,      \* blocks that are back-reference leaves
    remembered,  \* large sizes freed before (lastCleanedAge # 0)
    failed,      \* requests answered with NULL
    pc,          \* where each thread is
    ask,         \* its request
    start,       \* its startModifiedCnt
    saw,         \* its myBlocksNum or prevCnt: the counter value it spins on
    large,       \* its largeBinsUpdated
    lenient,     \* its lockedBinsThreshold # 0
    base,        \* its `ret` in getRawMemory
    seen,        \* the nextSVMAvailable it adds the size to
    left,        \* regions this miss still adds, 0 when it takes a leaf
    adding,      \* their raw size
    grew,        \* it added one (maxBinSize # 0)
    rest,        \* bytes it removed from a bin with its block
    toPut,       \* blocks it is returning to the backend
    after        \* where it continues then

queue  == <<delayed, maxRequested>>
shared == <<next, raw, active, processing, mods, mutex, queue>>
blocks == <<requests, sizeOf, place, used, cached, leaves, remembered, failed>>
scans  == <<ask, start, saw>>
search == <<large, lenient>>
rawing == <<base, seen, left, adding, grew>>
puts   == <<rest, toPut, after>>
vars   == <<shared, blocks, pc, scans, search, rawing, puts>>

Blocks    == 1 .. MaxRequests
SvmLimit  == SvmBase + SvmSize
Size(t)   == sizeOf[ask[t]]
Direct(t) == left[t] = 0
RawSize(t) == IF Direct(t) THEN Slab ELSE adding[t]
Room(t)    == IF Direct(t) THEN 0 ELSE RawSize(t) - Header
Goto(t, l) == pc' = [pc EXCEPT ![t] = l]

(* Bins may be locked and blocks in the hands of others.                    *)
Disturbed(t) == Threads # {t}

(* After doInitialization: bootstrap() and initBackRefMaster() have run.    *)
Init ==
    /\ next = SvmBase + Bootstrap + Master
    /\ raw = <<[base |-> SvmBase, size |-> Bootstrap, room |-> Bootstrap - Header,
               free |-> Bootstrap - Header, live |-> TRUE, bin |-> "aligned"],
              [base |-> SvmBase + Bootstrap, size |-> Master, room |-> 0,
               free |-> 0, live |-> FALSE, bin |-> "none"]>>
    /\ active = 0 /\ processing = 0 /\ mods = 1
    /\ mutex = NoThread /\ delayed = FALSE /\ maxRequested = 0
    /\ requests = 0
    /\ sizeOf = [b \in Blocks |-> 0] /\ place = [b \in Blocks |-> 0]
    /\ used = {} /\ cached = {} /\ leaves = {} /\ remembered = {} /\ failed = {}
    /\ pc = [t \in Threads |-> "idle"]
    /\ ask = [t \in Threads |-> 0]
    /\ start = [t \in Threads |-> 0] /\ saw = [t \in Threads |-> 0]
    /\ large = [t \in Threads |-> FALSE] /\ lenient = [t \in Threads |-> FALSE]
    /\ base = [t \in Threads |-> 0] /\ seen = [t \in Threads |-> 0]
    /\ left = [t \in Threads |-> 0] /\ adding = [t \in Threads |-> 0]
    /\ grew = [t \in Threads |-> FALSE]
    /\ rest = [t \in Threads |-> 0]
    /\ toPut = [t \in Threads |-> {}] /\ after = [t \in Threads |-> "idle"]

-----------------------------------------------------------------------------
(* Entry points.                                                            *)

Request(t, s) ==
    /\ pc[t] = "idle" /\ requests < MaxRequests
    /\ requests' = requests + 1
    /\ sizeOf' = [sizeOf EXCEPT ![requests'] = s]
    /\ ask' = [ask EXCEPT ![t] = requests']

(* A slab, taken from the backend.                                          *)
AllocateSlab(t) ==
    /\ Request(t, Slab)
    /\ Goto(t, "enter")
    /\ UNCHANGED <<shared, place, used, cached, leaves, remembered, failed,
                   start, saw, search, rawing, puts>>

(* Every so often get and putList of the large object cache return what is  *)
(* old to the backend before they end.                                      *)
CleanUp(t, old, resume) ==
    /\ toPut' = [toPut EXCEPT ![t] = old]
    /\ after' = [after EXCEPT ![t] = resume]
    /\ Goto(t, IF old = {} THEN resume ELSE "put")
    /\ UNCHANGED rest

(* A large object of which the cache holds none; the bin, if long unused,   *)
(* forgets that objects of the size were ever freed.                        *)
AllocateLarge(t, s, old) ==
    /\ Request(t, s)
    /\ old \subseteq cached /\ \A b \in cached \ old : sizeOf[b] # s
    /\ cached' = cached \ old
    /\ remembered' \in {remembered, remembered \ {s}}
    /\ CleanUp(t, old, "enter")
    /\ UNCHANGED <<shared, place, used, leaves, failed, start, saw, search, rawing>>

AllocateCached(t, b, old) ==
    /\ b \in cached /\ old \subseteq cached \ {b}
    /\ Request(t, sizeOf[b])
    /\ place' = [place EXCEPT ![requests'] = place[b]]
    /\ cached' = cached \ ({b} \cup old) /\ used' = used \cup {requests'}
    /\ CleanUp(t, old, "idle")
    /\ UNCHANGED <<shared, leaves, remembered, failed, start, saw, search,
                   rawing>>

(* newBackRef finds every leaf full, findFreeBlock calls getBackRefSpace.   *)
LeafNeeded(t) ==
    /\ mutex = NoThread
    /\ Request(t, Slab)
    /\ mutex' = t
    /\ left' = [left EXCEPT ![t] = 0]
    /\ Goto(t, "load")
    /\ UNCHANGED <<next, raw, active, processing, mods, queue, place, used, cached, leaves,
                   remembered, failed, start, saw, search, base, seen, adding, grew, puts>>

(* An empty slab goes back to the backend.                                  *)
FreeSlab(t, b) ==
    /\ pc[t] = "idle" /\ b \in used /\ sizeOf[b] = Slab
    /\ used' = used \ {b}
    /\ CleanUp(t, {b}, "idle")
    /\ UNCHANGED <<shared, requests, sizeOf, place, cached, leaves, remembered, failed,
                   scans, search, rawing>>

(* The first large object of a size to be freed is returned to the backend, *)
(* later ones are kept in the cache.                                        *)
FreeLarge(t, b, old) ==
    /\ pc[t] = "idle" /\ b \in used /\ sizeOf[b] \in LargeSizes
    /\ LET kept == {c \in {b} : sizeOf[c] \in remembered}
       IN  /\ old \subseteq cached \cup kept
           /\ cached' = (cached \cup kept) \ old
           /\ CleanUp(t, old \cup ({b} \ kept), "idle")
    /\ used' = used \ {b}
    /\ remembered' = remembered \cup {sizeOf[b]}
    /\ UNCHANGED <<shared, requests, sizeOf, place, leaves, failed, scans, search,
                   rawing>>

-----------------------------------------------------------------------------
(* genericPutBlock: the block coalesces with its free neighbours; a region  *)
(* that has become one free block is released, that is, forgotten.          *)

(* Mutant: the block is not counted while it is in processing.              *)
BeginPutUncounted(t) ==
    /\ pc[t] = "put"
    /\ Goto(t, "putting")
    /\ UNCHANGED <<shared, blocks, scans, search, rawing, puts>>

BeginPut(t) ==
    /\ pc[t] = "put"
    /\ processing' = processing + 1
    /\ Goto(t, "putting")
    /\ UNCHANGED <<next, raw, active, mods, mutex, queue, blocks, scans, search, rawing, puts>>

(* Mutant: the last free block of the region is not waited for.             *)
EndPutEarly(t, b) ==
    /\ pc[t] = "putting" /\ b \in toPut[t]
    /\ LET p == place[b]
           free == raw[p].free + sizeOf[b]
           empty == free + Slab >= raw[p].room
       IN  raw' = [raw EXCEPT ![p].free = IF empty THEN 0 ELSE free,
                              ![p].live = ~empty]
    /\ toPut' = [toPut EXCEPT ![t] = @ \ {b}]
    /\ processing' = processing - 1 /\ mods' = mods + 1
    /\ Goto(t, IF toPut'[t] = {} THEN after[t] ELSE "put")
    /\ UNCHANGED <<next, active, mutex, queue, blocks, scans, search, rawing, rest, after>>

(* A neighbour in other hands leaves the region in parts (apart); if it is  *)
(* being coalesced there, or the bin is locked, the block waits in coalescQ.*)
EndPut(t, b) ==
    /\ pc[t] = "putting" /\ b \in toPut[t]
    /\ \E apart \in {FALSE, Disturbed(t)} : \E queued \in {FALSE, apart} :
           LET p == place[b]
               free == raw[p].free + sizeOf[b]
               empty == free = raw[p].room /\ ~apart
           IN  /\ raw' = [raw EXCEPT ![p].free = IF empty THEN 0 ELSE free,
                                     ![p].live = ~empty]
               /\ delayed' = (delayed \/ queued)
    /\ toPut' = [toPut EXCEPT ![t] = @ \ {b}]
    /\ processing' = processing - 1 /\ mods' = mods + 1
    /\ Goto(t, IF toPut'[t] = {} THEN after[t] ELSE "put")
    /\ UNCHANGED <<next, active, mutex, maxRequested, blocks, scans, search, rawing, rest,
                   after>>

(* scanCoalescQ: what was queued is coalesced, and regions that turn out to *)
(* be one free block are released.  Blocks may be queued again.             *)
Drain(gone) ==
    /\ gone # {} => delayed
    /\ \A p \in gone : raw[p].live /\ raw[p].free = raw[p].room
    /\ raw' = [p \in DOMAIN raw |->
                  IF p \in gone THEN [raw[p] EXCEPT !.free = 0, !.live = FALSE] ELSE raw[p]]

-----------------------------------------------------------------------------
(* genericGetBlock.                                                         *)

(* correctMaxRequestSize and a first scanCoalescQ.                          *)
Enter(t, gone) ==
    /\ pc[t] = "enter"
    /\ large' = [large EXCEPT ![t] = TRUE]
    /\ lenient' = [lenient EXCEPT ![t] = Size(t) < SlabRegion]
    /\ maxRequested' = IF Size(t) \in maxRequested .. SlabRegion - 1 THEN Size(t)
                       ELSE maxRequested
    /\ Drain(gone)
    /\ delayed' \in {FALSE, delayed}
    /\ Goto(t, "count")
    /\ UNCHANGED <<next, active, processing, mods, mutex, blocks, scans, rawing, puts>>

CountMods(t) ==
    /\ pc[t] = "count"
    /\ start' = [start EXCEPT ![t] = mods]
    /\ Goto(t, "scan")
    /\ UNCHANGED <<shared, blocks, ask, saw, search, rawing, puts>>

(* What getBlock finds in region p if it comes to it and nothing is in the  *)
(* way: a slab where nothing but slabs was taken from it, anything else     *)
(* where it is one block; the block of an exact region may lie too unevenly *)
(* to hold a slab.                                                          *)
Offers(p, s) ==
    /\ raw[p].bin = "aligned" \/ (raw[p].bin = "large" /\ s # Slab)
    /\ raw[p].free >= s
    /\ s = Slab \/ (raw[p].free = raw[p].room /\ Remainder(raw[p].room - s))

(* A block of a region where enough is free; its rest goes along with it,   *)
(* unless it stays in the same bin of slab-aligned blocks.  Bins of large   *)
(* blocks may be left out.                                                  *)
ScanFinds(t, p) ==
    /\ pc[t] = "scan" /\ raw[p].live /\ (raw[p].bin = "large" => large[t])
    /\ \E split \in 0 .. raw[p].free - Size(t) :
           /\ Remainder(split)
           /\ rest' = [rest EXCEPT ![t] = split]
           /\ raw' = [raw EXCEPT ![p].free = @ - Size(t) - split,
                        ![p].bin = IF Size(t) = Slab /\ @ = "aligned" THEN @ ELSE "none"]
    /\ processing' = processing + 1
    /\ place' = [place EXCEPT ![ask[t]] = p]
    /\ Goto(t, "split")
    /\ UNCHANGED <<next, active, mods, mutex, queue, requests, sizeOf, used, cached, leaves,
                   remembered, failed, scans, search, rawing, toPut, after>>

(* The remainder goes back to a bin; a leaf ends findFreeBlock.             *)
Split(t) ==
    /\ pc[t] = "split"
    /\ raw' = [raw EXCEPT ![place[ask[t]]].free = @ + rest[t]]
    /\ delayed' \in {delayed, delayed \/ (Disturbed(t) /\ rest[t] # 0)}
    /\ start' = [start EXCEPT ![t] = 0]
    /\ large' = [large EXCEPT ![t] = FALSE] /\ lenient' = [lenient EXCEPT ![t] = FALSE]
    /\ rest' = [rest EXCEPT ![t] = 0]
    /\ processing' = processing - 1 /\ mods' = mods + 1
    /\ IF mutex = t THEN /\ mutex' = NoThread /\ leaves' = leaves \cup {ask[t]}
                         /\ UNCHANGED used
       ELSE used' = used \cup {ask[t]} /\ UNCHANGED <<mutex, leaves>>
    /\ Goto(t, "idle")
    /\ UNCHANGED <<next, active, maxRequested, requests, sizeOf, place, cached, remembered,
                   failed, ask, saw, rawing, toPut, after>>

(* The search passed over what is in the way of others, or in bins of large *)
(* blocks that it left out.  The queue is emptied by force, only what meets *)
(* a block being coalesced is queued again, and softCachesCleanup returns   *)
(* cached objects that are old enough.  Only if there was nothing of either *)
(* the search is not repeated, and next time without large blocks.          *)
ScanMisses(t, old, gone) ==
    /\ pc[t] = "scan"
    /\ \/ Disturbed(t)
       \/ \A p \in DOMAIN raw : Offers(p, Size(t)) => raw[p].bin = "large" /\ ~large[t]
    /\ old \subseteq cached
    /\ Drain(gone)
    /\ delayed' \in {FALSE, delayed /\ processing > 0}
    /\ large' = [large EXCEPT ![t] = delayed \/ old # {}]
    /\ cached' = cached \ old
    /\ toPut' = [toPut EXCEPT ![t] = old]
    /\ after' = [after EXCEPT ![t] = "count"]
    /\ Goto(t, IF old # {} THEN "put" ELSE IF delayed THEN "count" ELSE "observe")
    /\ UNCHANGED <<next, active, processing, mods, mutex, maxRequested, requests, sizeOf,
                   place, used, leaves, remembered, failed, scans, lenient, rawing, rest>>

-----------------------------------------------------------------------------
(* askMemFromOS.                                                            *)

Observe(t) ==
    /\ pc[t] \in {"observe", "lastObserve"}
    /\ saw' = [saw EXCEPT ![t] = processing]
    /\ Goto(t, IF pc[t] = "observe" THEN "wait" ELSE "lastWait")
    /\ UNCHANGED <<shared, blocks, ask, start, search, rawing, puts>>

(* Mutant: stops for more blocks in processing only.                        *)
SpinUntilMore(t) ==
    /\ pc[t] \in {"wait", "lastWait"} /\ saw[t] # 0 /\ processing > saw[t]
    /\ Goto(t, IF pc[t] = "wait" THEN "changed" ELSE "lastChanged")
    /\ UNCHANGED <<shared, blocks, scans, search, rawing, puts>>

(* SpinWaitWhileEq(blocksInProcessing, myBlocksNum).                        *)
Spin(t) ==
    /\ pc[t] \in {"wait", "lastWait"} /\ saw[t] # 0 /\ processing # saw[t]
    /\ Goto(t, IF pc[t] = "wait" THEN "changed" ELSE "lastChanged")
    /\ UNCHANGED <<shared, blocks, scans, search, rawing, puts>>

(* The counter is read once more: the wait ends if it is less than before.  *)
Reread(t) ==
    /\ pc[t] \in {"changed", "lastChanged"}
    /\ saw' = [saw EXCEPT ![t] = IF processing < @ THEN 0 ELSE processing]
    /\ Goto(t, IF pc[t] = "changed" THEN "wait" ELSE "lastWait")
    /\ UNCHANGED <<shared, blocks, ask, start, search, rawing, puts>>

WaitTillBlockReleased(t) ==
    /\ pc[t] = "wait" /\ saw[t] = 0
    /\ Goto(t, IF start[t] # mods THEN "count" ELSE "acquire")
    /\ UNCHANGED <<shared, blocks, scans, search, rawing, puts>>

Acquire(t) ==
    /\ pc[t] = "acquire"
    /\ IF active < SemaLimit
       THEN active' = active + 1 /\ Goto(t, "check") /\ UNCHANGED saw
       ELSE saw' = [saw EXCEPT ![t] = active] /\ Goto(t, "full") /\ UNCHANGED active
    /\ UNCHANGED <<next, raw, processing, mods, mutex, queue, blocks, ask, start, search,
                   rawing, puts>>

(* The wait for the semaphore ends in a new scan, not in acquiring it.      *)
SemaChanged(t) ==
    /\ pc[t] = "full" /\ active # saw[t]
    /\ Goto(t, "count")
    /\ saw' = [saw EXCEPT ![t] = 0]
    /\ UNCHANGED <<shared, blocks, ask, start, search, rawing, puts>>

(* Requests of slabs add regions for slabs.  Any other adds one of its own, *)
(* for several of its kind if it is not large, whose block goes to the bins *)
(* of large blocks.                                                         *)
Exact(t) == Size(t) \notin {Slab, 2 * Slab}

RegionSize(t) ==
    IF ~Exact(t) THEN SlabRegion
    ELSE LET wanted == IF Size(t) >= SlabRegion THEN Size(t)
                       ELSE ((RequestsPerRegion * maxRequested + SlabRegion - 1)
                             \div SlabRegion) * SlabRegion
         IN  RoundUp(wanted + Header + MinBlock)

Grow(t) ==
    /\ left' = [left EXCEPT ![t] = IF Exact(t) THEN 1 ELSE RegionsPerMiss]
    /\ adding' = [adding EXCEPT ![t] = RegionSize(t)]
    /\ grew' = [grew EXCEPT ![t] = FALSE]
    /\ Goto(t, "load")

(* Mutant: leaves without signal().                                         *)
CheckKeepsSema(t) ==
    /\ pc[t] = "check"
    /\ IF start[t] # mods
       THEN Goto(t, "count") /\ UNCHANGED <<left, adding, grew, large>>
       ELSE Grow(t) /\ large' = [large EXCEPT ![t] = @ \/ Exact(t)]
    /\ UNCHANGED <<shared, blocks, scans, lenient, base, seen, puts>>

(* Mutant: the new region will be looked for in the other bins only.        *)
CheckForgetsLarge(t) ==
    /\ pc[t] = "check"
    /\ IF start[t] # mods
       THEN active' = active - 1 /\ Goto(t, "count") /\ UNCHANGED <<left, adding, grew>>
       ELSE Grow(t) /\ UNCHANGED active
    /\ UNCHANGED <<next, raw, processing, mods, mutex, queue, blocks, scans, search, base,
                   seen, puts>>

Check(t) ==
    /\ pc[t] = "check"
    /\ IF start[t] # mods
       THEN /\ active' = active - 1 /\ Goto(t, "count")
            /\ UNCHANGED <<left, adding, grew, large>>
       ELSE Grow(t) /\ large' = [large EXCEPT ![t] = @ \/ Exact(t)] /\ UNCHANGED active
    /\ UNCHANGED <<next, raw, processing, mods, mutex, queue, blocks, scans, lenient, base,
                   seen, puts>>

-----------------------------------------------------------------------------
(* getRawMemory: `ret = RoundUp(nextSVMAvailable); if (ret > svmRegionLimit)*)
(* return NULL; nextSVMAvailable = nextSVMAvailable + size`, unprotected.   *)

(* Mutant: no limit.                                                        *)
LoadUnchecked(t) ==
    /\ pc[t] = "load"
    /\ base' = [base EXCEPT ![t] = RoundUp(next)]
    /\ seen' = [seen EXCEPT ![t] = next]
    /\ Goto(t, "bump")
    /\ UNCHANGED <<shared, blocks, scans, search, left, adding, grew, puts>>

Load(t) ==
    /\ pc[t] = "load"
    /\ base' = [base EXCEPT ![t] = RoundUp(next)]
    /\ seen' = [seen EXCEPT ![t] = next]
    /\ Goto(t, IF base'[t] > SvmLimit
               THEN IF Direct(t) THEN "enter" ELSE "signal"
               ELSE "bump")
    /\ UNCHANGED <<shared, blocks, scans, search, left, adding, grew, puts>>

(* The compiler may or may not read the variable a second time.             *)
Reload(t) ==
    /\ pc[t] = "bump"
    /\ seen' = [seen EXCEPT ![t] = next]
    /\ Goto(t, "store")
    /\ UNCHANGED <<shared, blocks, scans, search, base, left, adding, grew, puts>>

(* Mutant: the header of the region is not counted.                         *)
StoreRoom(t) ==
    /\ pc[t] \in {"bump", "store"}
    /\ next' = seen[t] + RawSize(t) - (IF Direct(t) THEN 0 ELSE Header)
    /\ raw' = Append(raw, [base |-> base[t], size |-> RawSize(t), room |-> Room(t),
                           free |-> 0, live |-> FALSE, bin |-> "none"])
    /\ place' = [place EXCEPT ![ask[t]] = Len(raw')]
    /\ base' = [base EXCEPT ![t] = 0] /\ seen' = [seen EXCEPT ![t] = 0]
    /\ Goto(t, IF Direct(t) THEN "leaf" ELSE "add")
    /\ UNCHANGED <<active, processing, mods, mutex, queue, requests, sizeOf, used, cached,
                   leaves, remembered, failed, scans, search, left, adding, grew, puts>>

Store(t) ==
    /\ pc[t] \in {"bump", "store"}
    /\ next' = seen[t] + RawSize(t)
    /\ raw' = Append(raw, [base |-> base[t], size |-> RawSize(t), room |-> Room(t),
                           free |-> 0, live |-> FALSE, bin |-> "none"])
    /\ place' = [place EXCEPT ![ask[t]] = Len(raw')]
    /\ base' = [base EXCEPT ![t] = 0] /\ seen' = [seen EXCEPT ![t] = 0]
    /\ Goto(t, IF Direct(t) THEN "leaf" ELSE "add")
    /\ UNCHANGED <<active, processing, mods, mutex, queue, requests, sizeOf, used, cached,
                   leaves, remembered, failed, scans, search, left, adding, grew, puts>>

(* addEmptyBackRefBlock, and newBackRef gives backRefMutex up.              *)
AddLeaf(t) ==
    /\ pc[t] = "leaf"
    /\ leaves' = leaves \cup {ask[t]}
    /\ mutex' = NoThread
    /\ Goto(t, "idle")
    /\ UNCHANGED <<next, raw, active, processing, mods, queue, requests, sizeOf, place, used,
                   cached, remembered, failed, scans, search, rawing, puts>>

(* The rest of addNewRegion: regionList, startUseBlock, binsModified.       *)
AddRegion(t) ==
    /\ pc[t] = "add"
    /\ raw' = [raw EXCEPT ![place[ask[t]]].free = Room(t), ![place[ask[t]]].live = TRUE,
                          ![place[ask[t]]].bin = IF Exact(t) THEN "large" ELSE "aligned"]
    /\ mods' = mods + 1
    /\ grew' = [grew EXCEPT ![t] = TRUE]
    /\ left' = [left EXCEPT ![t] = @ - 1]
    /\ Goto(t, IF left[t] = 1 THEN "signal" ELSE "load")
    /\ UNCHANGED <<next, active, processing, mutex, queue, blocks, scans, search, base, seen,
                   adding, puts>>

-----------------------------------------------------------------------------
(* The end of askMemFromOS.                                                 *)

Signal(t) ==
    /\ pc[t] = "signal"
    /\ active' = active - 1
    /\ adding' = [adding EXCEPT ![t] = 0]
    /\ Goto(t, IF grew[t] THEN "count" ELSE "purge")
    /\ UNCHANGED <<next, raw, processing, mods, mutex, queue, blocks, scans, search, base,
                   seen, left, grew, puts>>

(* hardCachesCleanup, when no region could be added: every cached object.   *)
Purge(t) ==
    /\ pc[t] = "purge"
    /\ cached' = {}
    /\ toPut' = [toPut EXCEPT ![t] = cached]
    /\ after' = [after EXCEPT ![t] = "count"]
    /\ large' = [large EXCEPT ![t] = @ \/ cached # {}]
    /\ Goto(t, IF cached = {} THEN "lastObserve" ELSE "put")
    /\ UNCHANGED <<shared, requests, sizeOf, place, used, leaves, remembered, failed,
                   scans, lenient, rawing, rest>>

(* NULL to the program, or no leaf to newBackRef; but one more search, that *)
(* waits for locked bins, if there were any.                                *)
GiveUp(t) ==
    /\ pc[t] = "lastWait" /\ saw[t] = 0
    /\ start' = [start EXCEPT ![t] = 0]
    /\ \/ /\ start[t] # mods \/ (lenient[t] /\ Disturbed(t))
          /\ lenient' = [lenient EXCEPT ![t] = @ /\ start[t] # mods]
          /\ Goto(t, "count")
          /\ UNCHANGED <<failed, mutex, large>>
       \/ /\ start[t] = mods
          /\ failed' = failed \cup {ask[t]}
          /\ mutex' = IF mutex = t THEN NoThread ELSE mutex
          /\ large' = [large EXCEPT ![t] = FALSE]
          /\ lenient' = [lenient EXCEPT ![t] = FALSE]
          /\ Goto(t, "idle")
    /\ UNCHANGED <<next, raw, active, processing, mods, queue, requests, sizeOf, place, used,
                   cached, leaves, remembered, ask, saw, rawing, puts>>

(* Nobody is inside the allocator.                                          *)
Quiescent ==
    /\ \A t \in Threads : pc[t] = "idle"
    /\ UNCHANGED vars

-----------------------------------------------------------------------------
Call(t) ==
    \/ AllocateSlab(t) \/ LeafNeeded(t)
    \/ \E s \in LargeSizes, old \in SUBSET cached : AllocateLarge(t, s, old)
    \/ \E b \in cached : \E old \in SUBSET (cached \ {b}) : AllocateCached(t, b, old)
    \/ \E b \in used : FreeSlab(t, b) \/ \E old \in SUBSET (cached \cup {b}) : FreeLarge(t, b, old)

Work(t) ==
    \/ BeginPut(t)
    \/ \E b \in Blocks : EndPut(t, b)
    \/ CountMods(t)
    \/ \E p \in DOMAIN raw : ScanFinds(t, p)
    \/ Split(t)
    \/ \E gone \in SUBSET DOMAIN raw :
           Enter(t, gone) \/ \E old \in SUBSET cached : ScanMisses(t, old, gone)
    \/ Observe(t) \/ Spin(t) \/ Reread(t) \/ WaitTillBlockReleased(t)
    \/ Acquire(t) \/ SemaChanged(t) \/ Check(t)
    \/ Load(t) \/ Reload(t) \/ Store(t) \/ AddLeaf(t) \/ AddRegion(t)
    \/ Signal(t) \/ Purge(t) \/ GiveUp(t)

Next == (\E t \in Threads : Call(t) \/ Work(t)) \/ Quiescent

Spec == Init /\ [][Next]_vars

(* A thread inside the allocator keeps running; nothing makes the program   *)
(* call it.                                                                 *)
FairSpec == Spec /\ \A t \in Threads : WF_vars(Work(t))

-----------------------------------------------------------------------------
(* Properties.                                                              *)

PCs == {"idle", "put", "putting", "enter", "count", "scan", "split", "observe", "wait",
        "acquire", "full", "check", "load", "bump", "store", "leaf", "add", "signal", "purge",
        "changed", "lastObserve", "lastWait", "lastChanged"}

(* Every variable keeps its type.                                           *)
TypeOK ==
    /\ next \in Nat /\ active \in 0 .. SemaLimit /\ processing \in Nat /\ mods \in Nat
    /\ raw \in Seq([base : Nat, size : Nat, room : Nat, free : Nat, live : BOOLEAN,
                   bin : {"aligned", "large", "none"}])
    /\ mutex \in Threads \cup {NoThread} /\ delayed \in BOOLEAN /\ maxRequested \in Nat
    /\ requests \in 0 .. MaxRequests
    /\ sizeOf \in [Blocks -> LargeSizes \cup {0, Slab}]
    /\ place \in [Blocks -> 0 .. Len(raw)]
    /\ used \subseteq Blocks /\ cached \subseteq Blocks /\ leaves \subseteq Blocks
    /\ failed \subseteq Blocks /\ remembered \subseteq LargeSizes
    /\ pc \in [Threads -> PCs] /\ after \in [Threads -> {"idle", "enter", "count"}]
    /\ ask \in [Threads -> 0 .. MaxRequests]
    /\ start \in [Threads -> Nat] /\ saw \in [Threads -> Nat]
    /\ base \in [Threads -> Nat] /\ seen \in [Threads -> Nat]
    /\ large \in [Threads -> BOOLEAN] /\ lenient \in [Threads -> BOOLEAN]
    /\ left \in [Threads -> 0 .. RegionsPerMiss] /\ adding \in [Threads -> Nat]
    /\ grew \in [Threads -> BOOLEAN]
    /\ rest \in [Threads -> Nat] /\ toPut \in [Threads -> SUBSET Blocks]

End(p) == raw[p].base + raw[p].size

(* Two pieces of raw memory handed out by getRawMemory never share a byte.  *)
NoOverlap == \A p, q \in DOMAIN raw : p < q =>
                 End(p) <= raw[q].base \/ End(q) <= raw[p].base

(* tbbmalloc_internal.h:502: "up to 3 threads can add more memory from OS   *)
(* simultaneously", so what they add is disjoint.                           *)
ParallelExtension == NoOverlap

(* backend.cpp:71 compares only the start of a piece with the limit, yet at *)
(* most one piece of raw memory ever leaves the region, and nothing is      *)
(* handed out behind it.                                                    *)
OverrunBounded == \A p, q \in DOMAIN raw :
    End(p) > SvmLimit /\ raw[p].base <= raw[q].base => p = q

(* f, summed up over S.                                                     *)
Bytes(f, S) == MapThenSumSet(LAMBDA x : f[x], S)

Splitting(p) == {t \in Threads : pc[t] = "split" /\ place[ask[t]] = p}
Held(p) == {b \in used \cup cached \cup leaves \cup (UNION {toPut[t] : t \in Threads})
                  \cup {ask[t] : t \in Splitting(p)} : place[b] = p}

(* No byte of a region is lost or counted twice between its free blocks,    *)
(* the blocks in use, in the cache and on their way back: at every step     *)
(* of any number of threads.  A released region holds none (backend.cpp,    *)
(* genericPutBlock and getFromBin).                                         *)
BytesConserved == \A p \in DOMAIN raw :
    IF raw[p].live
    THEN raw[p].free + Bytes(sizeOf, Held(p)) + Bytes(rest, Splitting(p)) = raw[p].room
    ELSE Held(p) \subseteq leaves

Extending(t) == \/ pc[t] \in {"check", "add", "signal"}
                \/ pc[t] \in {"load", "bump", "store"} /\ ~Direct(t)

(* MemExtendingSema counts the threads between wait() and signal() on every *)
(* path of askMemFromOS, the early return included.                         *)
SemaExact == active = Cardinality({t \in Threads : Extending(t)})

(* A thread never waits in the allocator for ever, in the spin on           *)
(* blocksInProcessing, on the semaphore or by rescanning.                   *)
RequestsEnd == \A t \in Threads : pc[t] # "idle" ~> pc[t] = "idle"

(* NULL is the last resort of a program with one thread: the SVM region is  *)
(* used up, the cache has been purged, no region of slabs has a free one if *)
(* a slab is asked for, and no region that is still one block would do, not *)
(* even one in the bins of large blocks, which a repeated search may leave  *)
(* out (largeBinsUpdated).  Fragments may still be large enough in sum.     *)
NullIsLastResort == [][failed' # failed =>
    /\ RoundUp(next) > SvmLimit /\ cached = {}
    /\ \A b \in failed' \ failed, p \in DOMAIN raw : ~Offers(p, sizeOf[b])]_vars
=============================================================================
