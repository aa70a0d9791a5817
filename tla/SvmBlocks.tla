------------------------------- MODULE SvmBlocks -------------------------------
(****************************************************************************)
(* The blocks of the backend (backend.cpp): how threads take free blocks    *)
(* out of the bins, split them, and return and coalesce blocks, with a lock *)
(* word at each side of a block and no global lock.  What happens once the  *)
(* bins are exhausted and raw memory has to grow is SvmAllocator; here raw  *)
(* memory is used up, as it is at the end of the fixed SVM region.          *)
(*                                                                          *)
(* Memory is a row of units.  myL[p] and leftL[p] are the lock words at p:  *)
(* a size when the block that begins (ends) there is free, else Locked or   *)
(* Coal.  sizeTmp travels with the extent <<start, size>> of a block that   *)
(* is in processing.  One action is one access to memory others may access  *)
(* too, or a section of which others see the bin lock only; headers inside  *)
(* a block are Junk.                                                        *)
(****************************************************************************)
EXTENDS Integers, Sequences, FiniteSets, SequencesExt

CONSTANTS
    Threads,      \* threads inside the backend
    NoThread,     \* a bin is not locked
    Regions,      \* the extents of the regions, their last blocks excluded
    Taken,        \* blocks in use at first
    Spare,        \* free blocks at first
    Slab,         \* slabSize
    MinBinned,    \* minBinnedSize
    HugeBin,      \* HUGE_BIN; bins of one unit each lie below it
    Requests,     \* the requests: [num, size, aligned]
    Threshold,    \* lockedBinsThreshold at first
    MaxCalls      \* bound on the calls of genericGetBlock

Units   == UNION {r[1] .. r[1] + r[2] : r \in Regions}
Extents == Units \X Nat

ASSUME BlocksAssumption ==
    /\ NoThread \notin Threads /\ Threads \cap {"free", "used", "queue"} = {}
    /\ Slab \in Nat \ {0}
    /\ MinBinned \in Nat \ {0} /\ HugeBin \in Nat \ {0}
    /\ \A r \in Regions : r[1] \in Nat /\ r[2] \in Nat \ {0}
    /\ \A r, q \in Regions : r # q => r[1] + r[2] < q[1] \/ q[1] + q[2] < r[1]
    /\ \A r \in Regions : \A u \in r[1] .. r[1] + r[2] - 1 :
           \E e \in Taken \cup Spare : /\ r[1] <= e[1] /\ e[1] <= u /\ u < e[1] + e[2]
                                     /\ e[1] + e[2] <= r[1] + r[2]
    /\ \A e \in Taken \cup Spare : /\ e \in Extents /\ e[2] > 0
                                  /\ \E r \in Regions : r[1] <= e[1] /\ e[1] + e[2] <= r[1] + r[2]
    /\ IsFiniteSet(Spare) /\ Slab < MinBinned + HugeBin
    /\ \A d, e \in Taken \cup Spare : d # e => d[1] + d[2] <= e[1] \/ e[1] + e[2] <= d[1]
    /\ Taken \cap Spare = {}
    /\ \A q \in Requests : /\ q.num \in Nat \ {0} /\ q.size \in Nat \ {0}
                           /\ q.aligned \in BOOLEAN /\ (q.aligned => q.size = Slab)
    /\ Threshold \in Nat /\ MaxCalls \in Nat

VARIABLES
    myL, leftL,   \* the lock words
    myBin,        \* myBin and aligned of the block that begins at a unit
    bins,         \* the blocks in each bin, first to last
    bit,          \* bitMask
    tLock,        \* holder of the lock of each bin
    queue,        \* coalescQ
    inProcess,    \* blocksInProcessing
    modified,     \* for each thread: binsModifications moved since it read it
    asked,        \* history: another was in genericGetBlock since its scan began
    regions,      \* the regions not released
    used,         \* blocks handed out
    calls,        \* calls of genericGetBlock so far
    th            \* the local variables of each thread

words    == <<myL, leftL>>
binned   == <<myBin, bins, bit, tLock>>
counters == <<inProcess, modified, asked>>
heap     == <<regions, used, calls>>
vars     == <<words, binned, queue, counters, heap, th>>

Locked  == -2
Coal    == -1
EndMark == 0    \* LAST_REGION_BLOCK
Junk    == -3

NoBin  == <<FALSE, 0>>
Bins   == BOOLEAN \X (1 .. HugeBin)
NoExt  == <<0, 0>>
NoReq  == [num |-> 0, size |-> 0, aligned |-> FALSE]
End(e) == e[1] + e[2]

(* sizeToBin and toAlignedBin.                                              *)
Class(s)  == IF s < MinBinned THEN 0
             ELSE IF s - MinBinned + 1 > HugeBin THEN HugeBin ELSE s - MinBinned + 1
BinOf(e)  == IF Class(e[2]) = 0 THEN NoBin
             ELSE <<End(e) % Slab = 0 /\ e[2] >= Slab, Class(e[2])>>
AlignUp(p) == ((p + Slab - 1) \div Slab) * Slab

Resting == [pc |-> "idle", req |-> NoReq, got |-> NoExt, list |-> <<>>, blk |-> NoExt,
            inBin |-> FALSE, whole |-> FALSE, tmp |-> 0, force |-> FALSE, ret |-> "idle",
            back |-> "idle", goal |-> "idle", bin |-> NoBin, cur |-> 0, full |-> 0, threshold |-> 0,
            larger |-> FALSE]

Begins(es, p) == \E e \in es : e[1] = p
Ends(es, p)   == \E e \in es : End(e) = p
SizeAt(p)     == (CHOOSE e \in Spare : e[1] = p)[2]
SizeBefore(p) == (CHOOSE e \in Spare : End(e) = p)[2]

(* Regions as startUseBlock and calls of a single thread left them.         *)
Init ==
    /\ myL = [p \in Units |-> IF Begins(Spare, p) THEN SizeAt(p)
                              ELSE IF Begins(Taken, p) THEN Locked
                              ELSE IF Ends(Regions, p) THEN EndMark ELSE Junk]
    /\ leftL = [p \in Units |-> IF Ends(Spare, p) THEN SizeBefore(p)
                                ELSE IF Ends(Taken, p) \/ Begins(Regions, p) THEN Locked
                                ELSE Junk]
    /\ myBin = [p \in Units |-> IF Begins(Spare, p) THEN BinOf(<<p, SizeAt(p)>>) ELSE NoBin]
    /\ bins = [b \in Bins |-> SetToSeq({e[1] : e \in {f \in Spare : BinOf(f) = b}})]
    /\ bit = [b \in Bins |-> \E e \in Spare : BinOf(e) = b]
    /\ tLock = [b \in Bins |-> NoThread]
    /\ queue = <<>>
    /\ inProcess = 0 /\ modified = [t \in Threads |-> FALSE]
    /\ asked = [t \in Threads |-> FALSE]
    /\ regions = Regions /\ used = Taken /\ calls = 0
    /\ th = [t \in Threads |-> Resting]

pc(t)      == th[t].pc
blk(t)     == th[t].blk
At(t, l)   == th[t].pc = l
Goto(t, l) == th' = [th EXCEPT ![t].pc = l]
(* The next block of the list that a thread coalesces, or what follows.     *)
Onward(l, ret) == IF l = <<>> THEN ret ELSE "mark"
AfterBlock(t)  == th' = [th EXCEPT ![t].pc = Onward(th[t].list, th[t].ret),
                                   ![t].blk = NoExt, ![t].inBin = FALSE,
                                   ![t].whole = FALSE, ![t].tmp = 0]

-----------------------------------------------------------------------------
(* coalescAndPutList: doCoalesc for each block of the list.                 *)

(* markCoalescing.                                                          *)
MarkMine(t) ==
    /\ At(t, "mark")
    /\ myL' = [myL EXCEPT ![Head(th[t].list)[1]] = Coal]
    /\ th' = [th EXCEPT ![t].pc = "markRight", ![t].blk = Head(th[t].list),
                        ![t].list = Tail(@)]
    /\ UNCHANGED <<leftL, binned, queue, counters, heap>>

MarkRight(t) ==
    /\ At(t, "markRight")
    /\ leftL' = [leftL EXCEPT ![End(blk(t))] = Coal]
    /\ Goto(t, "left")
    /\ UNCHANGED <<myL, binned, queue, counters, heap>>

(* The left neighbour: its right side first, then its own lock.             *)
TryLeft(t) ==
    /\ At(t, "left")
    /\ LET b == blk(t)[1]  v == leftL[b]
       IN  \/ v = Locked /\ Goto(t, "right") /\ UNCHANGED leftL
           \/ v = Coal /\ Goto(t, "requeue") /\ UNCHANGED leftL
           \/ /\ v > Coal
              /\ leftL' = [leftL EXCEPT ![b] = Coal]
              /\ th' = [th EXCEPT ![t].pc = "left2", ![t].tmp = v]
    /\ UNCHANGED <<myL, binned, queue, counters, heap>>

(* Mutant: the left neighbour is taken whoever holds its own lock.          *)
LockLeftUnchecked(t) ==
    /\ At(t, "left2")
    /\ LET b == blk(t)[1]  l == b - th[t].tmp
       IN  /\ myL' = [myL EXCEPT ![l] = Coal, ![b] = Junk]
           /\ leftL' = [leftL EXCEPT ![b] = Junk]
           /\ th' = [th EXCEPT ![t].pc = "right", ![t].tmp = 0, ![t].inBin = TRUE,
                               ![t].blk = <<l, End(blk(t)) - l>>]
    /\ UNCHANGED <<binned, queue, counters, heap>>

(* The merged block begins where the left one did.                          *)
LockLeft(t) ==
    /\ At(t, "left2")
    /\ LET b == blk(t)[1]  l == b - th[t].tmp
       IN  IF myL[l] <= Coal
           THEN Goto(t, "undoLeft") /\ UNCHANGED words
           ELSE /\ myL' = [myL EXCEPT ![l] = Coal, ![b] = Junk]
                /\ leftL' = [leftL EXCEPT ![b] = Junk]
                /\ th' = [th EXCEPT ![t].pc = "right", ![t].tmp = 0, ![t].inBin = TRUE,
                                    ![t].blk = <<l, End(blk(t)) - l>>]
    /\ UNCHANGED <<binned, queue, counters, heap>>

UndoLeft(t) ==
    /\ At(t, "undoLeft")
    /\ leftL' = [leftL EXCEPT ![blk(t)[1]] = th[t].tmp]
    /\ th' = [th EXCEPT ![t].pc = "requeue", ![t].tmp = 0]
    /\ UNCHANGED <<myL, binned, queue, counters, heap>>

(* A neighbour is being coalesced by another: the block, out of its bin,    *)
(* waits in the queue.                                                      *)
GiveUp(t) == th' = [th EXCEPT ![t].pc = IF th[t].inBin THEN "unbin" ELSE "requeue",
                              ![t].goal = "requeue", ![t].tmp = 0]

TryRight(t) ==
    /\ At(t, "right")
    /\ LET r == End(blk(t))  v == myL[r]
       IN  \/ v = Locked /\ Goto(t, "put") /\ UNCHANGED myL
           \/ /\ v = EndMark
              /\ th' = [th EXCEPT ![t].pc = "put", ![t].whole = TRUE]
              /\ UNCHANGED myL
           \/ v = Coal /\ GiveUp(t) /\ UNCHANGED myL
           \/ /\ v > EndMark
              /\ myL' = [myL EXCEPT ![r] = Coal]
              /\ th' = [th EXCEPT ![t].pc = "right2", ![t].tmp = v]
    /\ UNCHANGED <<leftL, binned, queue, counters, heap>>

LockRight(t) ==
    /\ At(t, "right2")
    /\ LET n == End(blk(t)) + th[t].tmp
       IN  IF leftL[n] <= Coal
           THEN Goto(t, "undoRight") /\ UNCHANGED leftL
           ELSE /\ leftL' = [leftL EXCEPT ![n] = Coal]
                /\ Goto(t, IF myBin[End(blk(t))] = NoBin THEN "next" ELSE "unbinRight")
    /\ UNCHANGED <<myL, binned, queue, counters, heap>>

UndoRight(t) ==
    /\ At(t, "undoRight")
    /\ myL' = [myL EXCEPT ![End(blk(t))] = th[t].tmp]
    /\ GiveUp(t)
    /\ UNCHANGED <<leftL, binned, queue, counters, heap>>

(* lockRemoveBlock: wait for the lock of the bin, remove, update the mask.  *)
AwaitBin(t, b, l) ==
    /\ tLock[b] = NoThread
    /\ tLock' = [tLock EXCEPT ![b] = t]
    /\ Goto(t, l)
    /\ UNCHANGED <<words, myBin, bins, bit, queue, counters, heap>>

(* Mutant: the mask is cleared whatever is left in the bin.                 *)
RemoveFromBinClears(p) ==
    LET b == myBin[p]
    IN  /\ bins' = [bins EXCEPT ![b] = RemoveFirst(@, p)]
        /\ bit' = [bit EXCEPT ![b] = FALSE]
        /\ tLock' = [tLock EXCEPT ![b] = NoThread]
        /\ myBin' = [myBin EXCEPT ![p] = NoBin]

RemoveFromBin(p) ==
    LET b == myBin[p]
    IN  /\ bins' = [bins EXCEPT ![b] = RemoveFirst(@, p)]
        /\ bit' = [bit EXCEPT ![b] = @ /\ bins'[b] # <<>>]
        /\ tLock' = [tLock EXCEPT ![b] = NoThread]
        /\ myBin' = [myBin EXCEPT ![p] = NoBin]

AwaitRight(t)  == At(t, "unbinRight") /\ AwaitBin(t, myBin[End(blk(t))], "removeRight")

RemoveRight(t) ==
    /\ At(t, "removeRight")
    /\ RemoveFromBin(End(blk(t)))
    /\ Goto(t, "next")
    /\ UNCHANGED <<words, queue, counters, heap>>

(* Is there the last block of the region behind the right neighbour?  The   *)
(* block there is locked for a moment.                                      *)
Merge(t) == <<blk(t)[1], blk(t)[2] + th[t].tmp>>

PeekNext(t) ==
    /\ At(t, "next")
    /\ LET r == End(blk(t))  v == myL[End(Merge(t))]
       IN  /\ myL' = [myL EXCEPT ![r] = Junk, ![End(Merge(t))] = IF v > EndMark THEN Coal ELSE @]
           /\ leftL' = [leftL EXCEPT ![r] = Junk]
           /\ th' = [th EXCEPT ![t].pc = IF v > EndMark THEN "unpeek" ELSE "put",
                               ![t].blk = Merge(t), ![t].whole = v = EndMark,
                               ![t].tmp = IF v > EndMark THEN v ELSE 0]
    /\ UNCHANGED <<binned, queue, counters, heap>>

UnpeekNext(t) ==
    /\ At(t, "unpeek")
    /\ myL' = [myL EXCEPT ![End(blk(t))] = th[t].tmp]
    /\ th' = [th EXCEPT ![t].pc = "put", ![t].tmp = 0]
    /\ UNCHANGED <<leftL, binned, queue, counters, heap>>

(* putBlock: markUsed, then the block enters the queue.                     *)
MarkUsed(t) ==
    /\ At(t, "requeue")
    /\ myL' = [myL EXCEPT ![blk(t)[1]] = Locked]
    /\ Goto(t, "requeue2")
    /\ UNCHANGED <<leftL, binned, queue, counters, heap>>

MarkRightUsed(t) ==
    /\ At(t, "requeue2")
    /\ leftL' = [leftL EXCEPT ![End(blk(t))] = Locked]
    /\ Goto(t, "enqueue")
    /\ UNCHANGED <<myL, binned, queue, counters, heap>>

PutInQueue(t) ==
    /\ At(t, "enqueue")
    /\ queue' = <<blk(t)>> \o queue
    /\ AfterBlock(t)
    /\ UNCHANGED <<words, binned, counters, heap>>

-----------------------------------------------------------------------------
(* coalescAndPutList: what becomes of the coalesced block.                  *)

Region(t) == CHOOSE r \in Regions : End(r) = End(blk(t))
(* Mutant: a block at the end of its region is taken for the whole region.  *)
EmptyAtEnd(t) == th[t].whole

Empty(t)  == th[t].whole /\ Region(t)[2] = blk(t)[2]

(* Mutant: a block stays in its bin even when it has outgrown it.           *)
DecideKeepsBin(t) ==
    /\ At(t, "put")
    /\ LET goal == IF Empty(t) THEN "release" ELSE "add"
       IN  th' = [th EXCEPT ![t].goal = goal,
               ![t].pc = IF ~Empty(t) /\ th[t].inBin /\ myBin[blk(t)[1]] # NoBin
                         THEN "free" ELSE IF th[t].inBin THEN "unbin" ELSE goal]
    /\ UNCHANGED <<words, binned, queue, counters, heap>>

(* No block of the region is used: it is released.  Otherwise a block       *)
(* changes bins when its size puts it into another one.                     *)
Decide(t) ==
    /\ At(t, "put")
    /\ LET goal == IF Empty(t) THEN "release" ELSE "add"
       IN  th' = [th EXCEPT
               ![t].goal = goal,
               ![t].pc = IF ~Empty(t) /\ th[t].inBin /\ myBin[blk(t)[1]] = BinOf(blk(t))
                         THEN "free" ELSE IF th[t].inBin THEN "unbin" ELSE goal]
    /\ UNCHANGED <<words, binned, queue, counters, heap>>

Unbin(t) ==
    /\ At(t, "unbin")
    /\ \/ /\ myBin[blk(t)[1]] = NoBin
          /\ Goto(t, th[t].goal)
          /\ UNCHANGED <<words, binned, queue, counters, heap>>
       \/ /\ myBin[blk(t)[1]] # NoBin
          /\ AwaitBin(t, myBin[blk(t)[1]], "remove")

RemoveMine(t) ==
    /\ At(t, "remove")
    /\ RemoveFromBin(blk(t)[1])
    /\ Goto(t, th[t].goal)
    /\ UNCHANGED <<words, queue, counters, heap>>

(* releaseRegion; its raw memory is never used again (SvmAllocator).        *)
ReleaseRegion(t) ==
    /\ At(t, "release")
    /\ LET inside == blk(t)[1] .. End(blk(t))
       IN  /\ myL' = [p \in Units |-> IF p \in inside THEN Junk ELSE myL[p]]
           /\ leftL' = [p \in Units |-> IF p \in inside THEN Junk ELSE leftL[p]]
    /\ regions' = regions \ {Region(t)}
    /\ AfterBlock(t)
    /\ UNCHANGED <<binned, queue, counters, used, calls>>

(* tryAddBlock sets myBin before it tries the lock; a block too small for   *)
(* the bins stays without one.                                              *)
Add(t) ==
    /\ At(t, "add")
    /\ myBin' = [myBin EXCEPT ![blk(t)[1]] = BinOf(blk(t))]
    /\ Goto(t, IF BinOf(blk(t)) = NoBin THEN "free" ELSE "tryAdd")
    /\ UNCHANGED <<words, bins, bit, tLock, queue, counters, heap>>

(* When the bin is locked, the block waits in the queue, or is dropped.     *)
TryAdd(t) ==
    /\ At(t, "tryAdd")
    /\ LET b == myBin[blk(t)[1]]
       IN  IF tLock[b] = NoThread
           THEN tLock' = [tLock EXCEPT ![b] = t] /\ Goto(t, "insert")
           ELSE Goto(t, IF th[t].force THEN "free" ELSE "requeue") /\ UNCHANGED tLock
    /\ UNCHANGED <<words, myBin, bins, bit, queue, counters, heap>>

Insert(t) ==
    /\ At(t, "insert")
    /\ LET b == myBin[blk(t)[1]]
       IN  /\ bins' = [bins EXCEPT ![b] = <<blk(t)[1]>> \o @]
           /\ tLock' = [tLock EXCEPT ![b] = NoThread]
    /\ Goto(t, "setBit")
    /\ UNCHANGED <<words, myBin, bit, queue, counters, heap>>

(* The mask is updated without the lock of the bin.                         *)
SetBit(t) ==
    /\ At(t, "setBit")
    /\ bit' = [bit EXCEPT ![myBin[blk(t)[1]]] = TRUE]
    /\ Goto(t, "free")
    /\ UNCHANGED <<words, myBin, bins, tLock, queue, counters, heap>>

SetMeFree(t) ==
    /\ At(t, "free")
    /\ myL' = [myL EXCEPT ![blk(t)[1]] = blk(t)[2]]
    /\ Goto(t, "free2")
    /\ UNCHANGED <<leftL, binned, queue, counters, heap>>

SetLeftFree(t) ==
    /\ At(t, "free2")
    /\ leftL' = [leftL EXCEPT ![End(blk(t))] = blk(t)[2]]
    /\ AfterBlock(t)
    /\ UNCHANGED <<myL, binned, queue, counters, heap>>

Coalesce(t) ==
    \/ MarkMine(t) \/ MarkRight(t) \/ TryLeft(t) \/ LockLeft(t) \/ UndoLeft(t)
    \/ TryRight(t) \/ LockRight(t) \/ UndoRight(t) \/ AwaitRight(t) \/ RemoveRight(t)
    \/ PeekNext(t) \/ UnpeekNext(t) \/ MarkUsed(t) \/ MarkRightUsed(t) \/ PutInQueue(t)

PutBack(t) ==
    \/ Decide(t) \/ Unbin(t) \/ RemoveMine(t) \/ ReleaseRegion(t) \/ Add(t) \/ TryAdd(t)
    \/ Insert(t) \/ SetBit(t) \/ SetMeFree(t) \/ SetLeftFree(t)

-----------------------------------------------------------------------------
(* genericPutBlock, and the counters of BackendSync.                        *)

(* Mutant: a block that is put back is not counted as in processing.        *)
PutBlockUncounted(t, e) ==
    /\ At(t, "idle") /\ e \in used
    /\ used' = used \ {e}
    /\ th' = [th EXCEPT ![t].pc = "mark", ![t].list = <<e>>, ![t].ret = "modify"]
    /\ UNCHANGED <<words, binned, queue, counters, regions, calls>>

PutBlock(t, e) ==
    /\ At(t, "idle") /\ e \in used
    /\ used' = used \ {e}
    /\ inProcess' = inProcess + 1
    /\ th' = [th EXCEPT ![t].pc = "mark", ![t].list = <<e>>, ![t].ret = "modify"]
    /\ UNCHANGED <<words, binned, queue, modified, asked, regions, calls>>

(* Mutant: nobody is told that the bins have changed.                       *)
BinsModifiedUntold(t) ==
    /\ At(t, "modify")
    /\ Goto(t, "released")
    /\ UNCHANGED <<words, binned, queue, counters, heap>>

BinsModified(t) ==
    /\ At(t, "modify")
    /\ modified' = [u \in Threads |-> TRUE]
    /\ Goto(t, "released")
    /\ UNCHANGED <<words, binned, queue, inProcess, asked, heap>>

(* markBlocks: the blocks of a request behind the first get their headers.  *)
Parts(t)  == {<<th[t].got[1] + i * th[t].req.size, th[t].req.size>> :
                 i \in 0 .. th[t].req.num - 1}
Inner(t)  == {e[1] : e \in Parts(t)} \ {th[t].got[1]}

(* A put ends, alone or in a cleanup of genericGetBlock; a get hands out.   *)
BlockReleased(t) ==
    /\ At(t, "released")
    /\ inProcess' = inProcess - 1
    /\ IF th[t].got = NoExt
       THEN /\ th' = [th EXCEPT ![t].pc = th[t].back, ![t].ret = "idle", ![t].back = "idle"]
            /\ UNCHANGED <<words, used>>
       ELSE /\ used' = used \cup Parts(t)
            /\ myL' = [p \in Units |-> IF p \in Inner(t) THEN Locked ELSE myL[p]]
            /\ leftL' = [p \in Units |-> IF p \in Inner(t) THEN Locked ELSE leftL[p]]
            /\ th' = [th EXCEPT ![t] = Resting]
    /\ UNCHANGED <<binned, queue, modified, asked, regions, calls>>

-----------------------------------------------------------------------------
(* genericGetBlock.                                                         *)

Total(t) == th[t].req.num * th[t].req.size

(* scanCoalescQ(false) comes first.                                         *)
GetBlock(t, q) ==
    /\ At(t, "idle") /\ calls < MaxCalls
    /\ calls' = calls + 1
    /\ queue' = <<>>
    /\ th' = [th EXCEPT ![t] = [Resting EXCEPT
                 !.pc = Onward(queue, "loop"), !.req = q, !.list = queue, !.ret = "loop",
                 !.threshold = Threshold, !.larger = TRUE]]
    /\ asked' = [u \in Threads |-> asked[u] \/ th[u].req # NoReq]
    /\ UNCHANGED <<words, binned, inProcess, modified, regions, used>>

(* Mutant: the number of modifications is not read again before a scan.     *)
StartScanStale(t) ==
    /\ At(t, "loop")
    /\ th' = [th EXCEPT ![t].pc = "scan", ![t].bin = NoBin, ![t].full = 0, ![t].ret = "idle"]
    /\ UNCHANGED <<words, binned, queue, counters, heap>>

StartScan(t) ==
    /\ At(t, "loop")
    /\ modified' = [modified EXCEPT ![t] = FALSE]
    /\ asked' = [asked EXCEPT ![t] = \E u \in Threads \ {t} : th[u].req # NoReq]
    /\ th' = [th EXCEPT ![t].pc = "scan", ![t].bin = NoBin, ![t].full = 0, ![t].ret = "idle"]
    /\ UNCHANGED <<words, binned, queue, inProcess, heap>>

(* The bins still to be tried, in order: slab-aligned ones first for slabs, *)
(* the others only when largeBinsUpdated.                                   *)
Rank(t, b) == b[2] + IF b[1] = th[t].req.aligned THEN 0 ELSE HugeBin
Tried(t)   == IF th[t].bin = NoBin THEN 0 ELSE Rank(t, th[t].bin)
ToTry(t)   == {b \in Bins : /\ bit[b] /\ b[2] >= Class(Total(t))
                            /\ b[1] \/ th[t].larger
                            /\ Rank(t, b) > Tried(t)}

NextBin(t) ==
    /\ At(t, "scan")
    /\ \E b \in ToTry(t) :
           /\ \A c \in ToTry(t) : Rank(t, b) <= Rank(t, c)
           /\ th' = [th EXCEPT ![t].pc = "bin", ![t].bin = b]
    /\ UNCHANGED <<words, binned, queue, counters, heap>>

(* Too many bins were locked: once more.                                    *)
NoMoreBins(t) ==
    /\ At(t, "scan") /\ ToTry(t) = {}
    /\ IF th[t].full > th[t].threshold
       THEN th' = [th EXCEPT ![t].bin = NoBin, ![t].full = 0]
       ELSE Goto(t, "miss")
    /\ UNCHANGED <<words, binned, queue, counters, heap>>

(* getBlock: the lock of the bin is only tried.                             *)
OpenBin(t) ==
    /\ At(t, "bin")
    /\ LET b == th[t].bin
       IN  IF bins[b] = <<>> THEN Goto(t, "scan") /\ UNCHANGED tLock
           ELSE IF tLock[b] # NoThread
           THEN th' = [th EXCEPT ![t].pc = "scan", ![t].full = @ + 1] /\ UNCHANGED tLock
           ELSE /\ tLock' = [tLock EXCEPT ![b] = t]
                /\ th' = [th EXCEPT ![t].pc = "lockMe", ![t].cur = Head(bins[b])]
    /\ UNCHANGED <<words, myBin, bins, bit, queue, counters, heap>>

Unlock(t) == tLock' = [tLock EXCEPT ![th[t].bin] = NoThread]

(* tryLockBlock; a block in use by another sends the search to try_next.    *)
LockMe(t) ==
    /\ At(t, "lockMe")
    /\ LET c == th[t].cur
       IN  IF myL[c] <= Coal
           THEN /\ Unlock(t)
                /\ th' = [th EXCEPT ![t].pc = "bin", ![t].cur = 0]
                /\ UNCHANGED myL
           ELSE /\ myL' = [myL EXCEPT ![c] = Locked]
                /\ th' = [th EXCEPT ![t].pc = "lockSide", ![t].tmp = myL[c]]
                /\ UNCHANGED tLock
    /\ UNCHANGED <<leftL, myBin, bins, bit, queue, counters, heap>>

LockSide(t) ==
    /\ At(t, "lockSide")
    /\ LET n == th[t].cur + th[t].tmp
       IN  IF leftL[n] <= Coal
           THEN Goto(t, "unlockMe") /\ UNCHANGED leftL
           ELSE leftL' = [leftL EXCEPT ![n] = Locked] /\ Goto(t, "fit")
    /\ UNCHANGED <<myL, binned, queue, counters, heap>>

UnlockMe(t) ==
    /\ At(t, "unlockMe")
    /\ myL' = [myL EXCEPT ![th[t].cur] = th[t].tmp]
    /\ Unlock(t)
    /\ th' = [th EXCEPT ![t].pc = "bin", ![t].cur = 0, ![t].tmp = 0]
    /\ UNCHANGED <<leftL, myBin, bins, bit, queue, counters, heap>>

Current(t) == <<th[t].cur, th[t].tmp>>
FitsAt(t)  == IF th[t].req.aligned /\ ~th[t].bin[1] THEN AlignUp(th[t].cur) ELSE th[t].cur
Fits(t)    == FitsAt(t) + Total(t) <= End(Current(t))

(* Mutant: a block that leaves its bin is not counted as in processing.     *)
ConsumeUncounted(t) ==
    /\ At(t, "fit") /\ Fits(t)
    /\ Goto(t, "take")
    /\ UNCHANGED <<words, binned, queue, counters, heap>>

(* blockConsumed comes before the block leaves the bin.                     *)
Consume(t) ==
    /\ At(t, "fit") /\ Fits(t)
    /\ inProcess' = inProcess + 1
    /\ Goto(t, "take")
    /\ UNCHANGED <<words, binned, queue, modified, asked, heap>>

NotThisOne(t) ==
    /\ At(t, "fit") /\ ~Fits(t)
    /\ myL' = [myL EXCEPT ![th[t].cur] = th[t].tmp]
    /\ Goto(t, "skip")
    /\ UNCHANGED <<leftL, binned, queue, counters, heap>>

Skip(t) ==
    /\ At(t, "skip")
    /\ leftL' = [leftL EXCEPT ![End(Current(t))] = th[t].tmp]
    /\ LET b == bins[th[t].bin]
           i == CHOOSE j \in DOMAIN b : b[j] = th[t].cur
       IN  IF i = Len(b)
           THEN Unlock(t) /\ th' = [th EXCEPT ![t].pc = "scan", ![t].cur = 0, ![t].tmp = 0]
           ELSE /\ th' = [th EXCEPT ![t].pc = "lockMe", ![t].cur = b[i + 1], ![t].tmp = 0]
                /\ UNCHANGED tLock
    /\ UNCHANGED <<myL, myBin, bins, bit, queue, counters, heap>>

(* Slabs are cut from the right end of an aligned block, which keeps its    *)
(* place when it stays in the same bin.                                     *)
InPlace(t) == /\ th[t].bin[1] /\ th[t].req.aligned
              /\ Class(th[t].tmp - Total(t)) = Class(th[t].tmp)

TakeInPlace(t) ==
    /\ At(t, "take") /\ InPlace(t)
    /\ LET rest == th[t].tmp - Total(t)  f == th[t].cur + rest
       IN  /\ myL' = [myL EXCEPT ![f] = Locked, ![th[t].cur] = rest]
           /\ leftL' = [leftL EXCEPT ![f] = rest]
           /\ th' = [th EXCEPT ![t].pc = "modify", ![t].got = <<f, Total(t)>>,
                               ![t].cur = 0, ![t].tmp = 0, ![t].bin = NoBin]
    /\ Unlock(t)
    /\ UNCHANGED <<myBin, bins, bit, queue, counters, heap>>

TakeWhole(t) ==
    /\ At(t, "take") /\ ~InPlace(t)
    /\ RemoveFromBin(th[t].cur)
    /\ th' = [th EXCEPT ![t].pc = "split", ![t].got = Current(t), ![t].cur = 0, ![t].tmp = 0]
    /\ UNCHANGED <<words, queue, counters, heap>>

(* getFromBin and getFromAlignedSpace: the parts to the right and then to   *)
(* the left of the result are returned, behind a header of their own.       *)
Result(t) == LET g == th[t].got
             IN  IF ~th[t].req.aligned THEN g[1]
                 ELSE IF th[t].bin[1] THEN End(g) - Total(t) ELSE AlignUp(g[1])

(* Mutant: nothing keeps the part to be returned from the rest.             *)
GiveBackUnguarded(t, part, rest, header) ==
    /\ th' = [th EXCEPT ![t].pc = "mark", ![t].list = <<part>>, ![t].got = rest,
                        ![t].ret = "split"]
    /\ UNCHANGED <<words, binned, queue, counters, heap>>

GiveBack(t, part, rest, header) ==
    /\ myL' = [myL EXCEPT ![header] = Locked]
    /\ leftL' = [leftL EXCEPT ![header] = Locked]
    /\ th' = [th EXCEPT ![t].pc = "mark", ![t].list = <<part>>, ![t].got = rest,
                        ![t].ret = "split"]
    /\ UNCHANGED <<binned, queue, counters, heap>>

SplitRight(t) ==
    LET g == th[t].got  cut == Result(t) + Total(t)
    IN  /\ At(t, "split") /\ cut < End(g)
        /\ GiveBack(t, <<cut, End(g) - cut>>, <<g[1], cut - g[1]>>, cut)

SplitLeft(t) ==
    LET g == th[t].got  cut == Result(t)
    IN  /\ At(t, "split") /\ cut + Total(t) = End(g) /\ cut > g[1]
        /\ GiveBack(t, <<g[1], cut - g[1]>>, <<cut, Total(t)>>, cut)

SplitDone(t) ==
    /\ At(t, "split") /\ Result(t) = th[t].got[1] /\ Total(t) = th[t].got[2]
    /\ th' = [th EXCEPT ![t].pc = "modify", ![t].bin = NoBin]
    /\ UNCHANGED <<words, binned, queue, counters, heap>>

(* scanCoalescQ(true); then the caches of the allocator are cleaned: the    *)
(* blocks they hold are in use as far as the backend can tell.              *)
Miss(t) ==
    /\ At(t, "miss")
    /\ queue' = <<>>
    /\ th' = [th EXCEPT ![t].pc = Onward(queue, "soft"), ![t].list = queue, ![t].ret = "soft",
                        ![t].force = TRUE, ![t].larger = queue # <<>>, ![t].bin = NoBin]
    /\ UNCHANGED <<words, binned, counters, heap>>

CleanCache(t, e) ==
    /\ pc(t) \in {"soft", "hard"} /\ e \in used
    /\ used' = used \ {e}
    /\ inProcess' = inProcess + 1
    /\ th' = [th EXCEPT ![t].pc = "mark", ![t].list = <<e>>, ![t].ret = "modify",
                        ![t].back = pc(t), ![t].force = FALSE, ![t].larger = TRUE]
    /\ UNCHANGED <<words, binned, queue, modified, asked, regions, calls>>

Cleaned(t) ==
    /\ pc(t) \in {"soft", "hard"}
    /\ th' = [th EXCEPT ![t].pc = IF th[t].larger THEN "loop"
                                  ELSE IF pc(t) = "soft" THEN "observe" ELSE "observe2",
                        ![t].ret = "idle", ![t].force = FALSE]
    /\ UNCHANGED <<words, binned, queue, counters, heap>>

(* askMemFromOS with raw memory used up: waitTillBlockReleased, and another *)
(* scan if the bins were modified since the last one began.                 *)
Observe(t) ==
    /\ pc(t) \in {"observe", "observe2"}
    /\ th' = [th EXCEPT ![t].pc = IF pc(t) = "observe" THEN "wait" ELSE "wait2",
                        ![t].tmp = inProcess]
    /\ UNCHANGED <<words, binned, queue, counters, heap>>

(* More blocks in processing than seen before are no reason to stop waiting.*)
WaitTillBlockReleased(t) ==
    /\ pc(t) \in {"wait", "wait2"} /\ (th[t].tmp = 0 \/ inProcess # th[t].tmp)
    /\ th' = [th EXCEPT ![t] =
                 IF @.tmp # 0 /\ inProcess > @.tmp THEN [@ EXCEPT !.tmp = inProcess]
                 ELSE [@ EXCEPT !.tmp = 0, !.pc = IF pc(t) = "wait" THEN "check" ELSE "check2"]]
    /\ UNCHANGED <<words, binned, queue, counters, heap>>

(* After the second check bins that were locked get one more chance.        *)
Check(t) ==
    /\ pc(t) \in {"check", "check2"}
    /\ \/ modified[t] /\ Goto(t, "loop")
       \/ ~modified[t] /\ At(t, "check") /\ Goto(t, "hard")
       \/ /\ ~modified[t] /\ At(t, "check2") /\ th[t].threshold > 0 /\ th[t].full > 0
          /\ th' = [th EXCEPT ![t].pc = "loop", ![t].threshold = 0]
       \/ /\ ~modified[t] /\ At(t, "check2") /\ (th[t].threshold = 0 \/ th[t].full = 0)
          /\ th' = [th EXCEPT ![t].pc = "null"]
    /\ UNCHANGED <<words, binned, queue, counters, heap>>

ReturnNull(t) ==
    /\ At(t, "null")
    /\ th' = [th EXCEPT ![t] = Resting]
    /\ UNCHANGED <<words, binned, queue, counters, heap>>

Search(t) ==
    \/ StartScan(t) \/ NextBin(t) \/ NoMoreBins(t) \/ OpenBin(t) \/ LockMe(t) \/ LockSide(t)
    \/ UnlockMe(t) \/ Consume(t) \/ NotThisOne(t) \/ Skip(t) \/ TakeInPlace(t)
    \/ TakeWhole(t) \/ SplitRight(t) \/ SplitLeft(t) \/ SplitDone(t)

Extend(t) ==
    \/ Miss(t) \/ Cleaned(t) \/ Observe(t) \/ WaitTillBlockReleased(t)
    \/ Check(t) \/ ReturnNull(t) \/ \E e \in used : CleanCache(t, e)

Work(t) == Coalesce(t) \/ PutBack(t) \/ BinsModified(t) \/ BlockReleased(t)
           \/ Search(t) \/ Extend(t)

Call(t) == (\E e \in used : PutBlock(t, e)) \/ (\E q \in Requests : GetBlock(t, q))

Finished == /\ calls = MaxCalls /\ used = {} /\ \A t \in Threads : At(t, "idle")
            /\ UNCHANGED vars

Next == Finished \/ \E t \in Threads : Work(t) \/ Call(t)

Spec == Init /\ [][Next]_vars

(* A thread in the backend keeps running, and a thread that spins for the   *)
(* lock of a bin that is free again and again gets it once (MallocMutex     *)
(* promises no order).                                                      *)
FairSpec == Spec /\ \A t \in Threads : /\ WF_vars(Work(t))
                                      /\ SF_vars(AwaitRight(t) \/ Unbin(t))

-----------------------------------------------------------------------------
(* Properties.                                                              *)

PCs == {"idle", "mark", "markRight", "left", "left2", "undoLeft", "right", "right2",
        "undoRight", "unbinRight", "removeRight", "next", "unpeek", "requeue", "requeue2",
        "enqueue", "put", "unbin", "remove", "release", "add", "tryAdd", "insert", "setBit",
        "free", "free2", "modify", "released", "loop", "scan", "bin", "lockMe", "lockSide",
        "unlockMe", "fit", "take", "skip", "split", "miss", "soft", "observe", "wait",
        "check", "hard", "observe2", "wait2", "check2", "null"}

(* Every variable keeps its type.                                           *)
TypeOK ==
    /\ myL \in [Units -> Int] /\ leftL \in [Units -> Int]
    /\ myBin \in [Units -> Bins \cup {NoBin}]
    /\ bins \in [Bins -> Seq(Units)] /\ bit \in [Bins -> BOOLEAN]
    /\ tLock \in [Bins -> Threads \cup {NoThread}]
    /\ queue \in Seq(Extents) /\ inProcess \in Nat
    /\ modified \in [Threads -> BOOLEAN] /\ asked \in [Threads -> BOOLEAN]
    /\ regions \subseteq Regions /\ used \subseteq Extents /\ calls \in 0 .. MaxCalls
    /\ \A t \in Threads :
           /\ th[t].pc \in PCs /\ th[t].req \in Requests \cup {NoReq}
           /\ th[t].list \in Seq(Extents) /\ th[t].bin \in Bins \cup {NoBin}
           /\ {th[t].got, th[t].blk} \subseteq Extents \cup {NoExt}

AllIdle   == \A t \in Threads : At(t, "idle")
InList(t) == {th[t].list[i] : i \in DOMAIN th[t].list}
Free      == {<<p, myL[p]>> : p \in {q \in Units : myL[q] > EndMark}}

(* What a thread has in its hands: blocks in processing, the result of its  *)
(* request, a block of a bin or a neighbour it has locked.                  *)
InHand(t) ==
    (InList(t) \cup {th[t].got} \cup (IF At(t, "free2") THEN {} ELSE {blk(t)})
     \cup (IF pc(t) \in {"lockSide", "unlockMe", "fit", "take"} THEN {Current(t)} ELSE {})
     \cup (IF pc(t) \in {"right2", "undoRight", "unbinRight", "removeRight", "next", "unpeek"}
           THEN {<<End(blk(t)), th[t].tmp>>} ELSE {})) \ {NoExt}

Blocks == {<<"free", e>> : e \in Free} \cup {<<"used", e>> : e \in used}
          \cup {<<"queue", queue[i]>> : i \in DOMAIN queue}
          \cup UNION {{<<t, e>> : e \in InHand(t)} : t \in Threads}

(* Without any global lock, the regions are at every moment divided among   *)
(* the free blocks, the blocks in use, those in the queue and those in the  *)
(* hands of a thread: no unit is lost, none is in two blocks.               *)
Tiled ==
    \A r \in Regions : \A u \in r[1] .. End(r) - 1 :
        Cardinality({b \in Blocks : b[2][1] <= u /\ u < End(b[2])}) = IF r \in regions THEN 1 ELSE 0

BinBlocks == UNION {{bins[b][i] : i \in DOMAIN bins[b]} : b \in Bins}

(* A thread finds the lock words as it expects them.                        *)
WordsAsExpected(t) ==
    LET b == blk(t)  tmp == th[t].tmp
    IN  /\ At(t, "mark") => /\ myL[Head(th[t].list)[1]] = Locked
                            /\ leftL[End(Head(th[t].list))] = Locked
        /\ At(t, "left") => leftL[b[1]] # Junk
        /\ At(t, "left2") => myL[b[1] - tmp] \in {Locked, Coal, tmp}
        /\ At(t, "right") => myL[End(b)] # Junk
        /\ At(t, "right2") => leftL[End(b) + tmp] \in {Locked, Coal, tmp}
        /\ At(t, "next") => myL[End(Merge(t))] # Junk
        /\ At(t, "lockMe") => myL[th[t].cur] # Junk
        /\ At(t, "lockSide") => leftL[th[t].cur + tmp] \in {Locked, Coal, tmp}
        /\ At(t, "free") => myL[b[1]] \in {Locked, Coal}
        /\ At(t, "free2") => leftL[End(b)] \in {Locked, Coal}

(* When nobody works on the blocks, both sides of each carry its state: the *)
(* size of a free block, as verify() asserts, Locked for one in use or in   *)
(* the queue.                                                               *)
SettledWords == AllIdle =>
    /\ \A p \in BinBlocks : myL[p] > EndMark
    /\ \A e \in Free : leftL[End(e)] = e[2]
    /\ \A e \in used \cup {queue[i] : i \in DOMAIN queue} :
           myL[e[1]] = Locked /\ leftL[End(e)] = Locked

(* The assertions on lock words (backend.cpp:188, 206, 269, 879, 914, 1166, *)
(* 1170): both sides of a block agree on its size, only a locked word is    *)
(* released, no thread takes the inside of a block for a header, and the    *)
(* words of a block tell its state once the threads have left.              *)
HeadersAgree == SettledWords /\ \A t \in Threads : WordsAsExpected(t)

(* A block is in one bin at most, once, the one it names and its size and   *)
(* alignment call for, and leaves it before it is used or waits for         *)
(* coalescing.                                                              *)
BinsDisjoint ==
    \A b \in Bins : \A i \in DOMAIN bins[b] :
        /\ myBin[bins[b][i]] = b
        /\ myL[bins[b][i]] > EndMark => b = BinOf(<<bins[b][i], myL[bins[b][i]]>>)
        /\ \A j \in DOMAIN bins[b] : bins[b][i] = bins[b][j] => i = j
        /\ \A x \in Blocks : x[2][1] = bins[b][i] => x[1] \notin {"used", "queue"}

(* A thread that enters the backend leaves it.                              *)
CallsEnd == \A t \in Threads : ~At(t, "idle") ~> At(t, "idle")

(* A bin that is not empty can be found, at the latest when the thread that *)
(* filled it has set the bit.                                               *)
MaskCovers ==
    \A b \in Bins : bins[b] # <<>> => bit[b] \/ \E t \in Threads :
                                          At(t, "setBit") /\ myBin[blk(t)[1]] = b

(* blocksInProcessing counts the threads that have taken blocks away from   *)
(* the bins: when it is zero the others have nothing to wait for.           *)
Processing(t) == \/ th[t].ret \in {"modify", "split"}
                 \/ pc(t) \in {"take", "split", "modify", "released"}
ProcessingCounted == inProcess = Cardinality({t \in Threads : Processing(t)})

(* The backend is a heap: blocks in use never overlap and a region is only  *)
(* released when none of it is in use.                                      *)
Heap == INSTANCE SvmHeap WITH AllRegions <- Regions, AllUsed <- Taken
IsHeap == Heap!HeapSpec

Serves(e, q) ==
    LET need == q.num * q.size
    IN  (IF q.aligned THEN IF BinOf(e)[1] THEN e[1] ELSE AlignUp(e[1]) ELSE e[1]) + need <= End(e)

(* `Another thread is modifying backend while we can't get the block. Wait  *)
(* while it leaves and re-do the scan before trying other ways to extend    *)
(* the backend': when NULL is returned and nobody else is in the backend,   *)
(* nor has been since the last scan, no block in a bin could have served.   *)
Fruitless(t) == /\ At(t, "null") /\ ~modified[t]
                /\ \A u \in Threads \ {t} : At(u, "idle")
NullMeansNone == \A t \in Threads : Fruitless(t) =>
    \A e \in Free : e[1] \in BinBlocks => ~Serves(e, th[t].req)

(* As far as slab-aligned bins go, which every scan tries, that is so while *)
(* the others only return blocks: what they do is counted.  (What a call of *)
(* genericGetBlock by another thread takes off the queue is not.)           *)
NullSeesAligned == \A t \in Threads : Fruitless(t) /\ ~asked[t] =>
    \A e \in Free : BinOf(e)[1] /\ e[1] \in BinBlocks => ~Serves(e, th[t].req)
=============================================================================
