------------------------------ MODULE SvmInvariant ------------------------------
(****************************************************************************)
(* The inductive invariant of SvmBlocks.                                    *)
(*                                                                          *)
(* Its heart is a ledger of the blocks of the backend: at every moment each *)
(* extent lies in one place, which is the free memory, the blocks in use,   *)
(* the queue of those still to be coalesced, or in one of a few places of a *)
(* thread, and the place tells what the two lock words of the extent are.   *)
(* The other parts say what each thread knows of the block it is at, and    *)
(* which extents the bins may list.                                         *)
(****************************************************************************)
EXTENDS SvmBlocks

(* The local variables of a thread are one record of these fields.          *)
Fields == {"pc", "req", "got", "list", "blk", "inBin", "whole", "tmp", "force", "ret", "back",
           "goal", "bin", "cur", "full", "threshold", "larger"}
Rec(r) == DOMAIN r = Fields /\ r = [f \in DOMAIN r |-> r[f]]
Local  == th = [t \in Threads |-> th[t]] /\ \A t \in Threads : Rec(th[t])

(* From markCoalescing to the end of coalescAndPutList for a block.         *)
Coalescing == {"mark", "markRight", "left", "left2", "undoLeft", "right", "right2",
               "undoRight", "unbinRight", "removeRight", "next", "unpeek", "requeue",
               "requeue2", "enqueue", "put", "unbin", "remove", "release", "add", "tryAdd",
               "insert", "setBit", "free", "free2"}

(* Where a thread goes on is fixed before it coalesces: it returns to a     *)
(* path on which it is counted only if it is counted while it coalesces.    *)
Path(t) ==
    /\ pc(t) \in PCs
    /\ th[t].ret \in {"idle", "loop", "soft", "modify", "split"}
    /\ th[t].back \in {"idle", "soft", "hard"}
    /\ th[t].goal \in {"idle", "requeue", "release", "add"}
    /\ pc(t) \in {"unbin", "remove"} => th[t].goal # "idle"
    /\ th[t].ret \in {"modify", "split"} => pc(t) \in Coalescing \cup {"split", "modify", "released"}

-----------------------------------------------------------------------------
(* The ledger, for any contents S of the places, words my and left, sides   *)
(* lt that threads have locked or not yet restored, and regions R.          *)
Shared  == {"free", "used", "queue"}
Private == {"list", "got", "fresh", "blk", "marked", "shut", "half", "right", "tried", "cur"}
Places  == (Shared \X {NoThread}) \cup (Private \X Threads)
FREE    == <<"free", NoThread>>

(* The words at the sides of an extent of place x.  The right side of a     *)
(* loose one is its size, unless a thread has got hold of it already.       *)
LoosePlace(x) == x[1] \in {"free", "half", "tried"}
MyWord(x)     == IF x[1] \in {"fresh", "blk", "half", "right"} THEN Coal ELSE Locked
LeftWord(x)   == IF x[1] \in {"blk", "marked", "right"} THEN Coal ELSE Locked

Apart(d, e)  == End(d) <= e[1] \/ End(e) <= d[1]
Within(e, r) == r[1] <= e[1] /\ End(e) <= End(r)
Has(e, u)    == e[1] <= u /\ u < End(e)

(* The extents of all places divide the regions among them.                 *)
Inside(S, R) == \A x \in Places : \A e \in S[x] :
                    e \in Extents /\ e[2] > 0 /\ \E r \in R : Within(e, r)
Disjoint(S)  == \A x, y \in Places : \A d \in S[x] : \A e \in S[y] : Apart(d, e) \/ (x = y /\ d = e)
Holds(S, u)  == \E x \in Places : \E e \in S[x] : Has(e, u)
Covers(S, R) == \A r \in R : \A u \in r[1] .. End(r) - 1 : Holds(S, u)
Tiling(S, R) == R \subseteq Regions /\ Inside(S, R) /\ Disjoint(S) /\ Covers(S, R)

IsLoose(S, e) == \E x \in Places : LoosePlace(x) /\ e \in S[x]
Begin(S, p)   == \E x \in Places : \E e \in S[x] : e[1] = p
Finish(S, p)  == \E x \in Places : \E e \in S[x] : End(e) = p

(* The words of a block on its first unit and behind its last one; a side   *)
(* that is locked apart from its block, by one thread; the ends of regions. *)
MyRight(S, my) ==
    \A x \in Places : \A e \in S[x] : my[e[1]] = IF x = FREE THEN e[2] ELSE MyWord(x)
LeftRight(S, left, lt) ==
    \A x \in Places : \A e \in S[x] :
        IF LoosePlace(x) THEN left[End(e)] = e[2] \/ \E t \in Threads : lt[t] = e
                         ELSE left[End(e)] = LeftWord(x)
SidesRight(S, left, lt) ==
    /\ \A t \in Threads : lt[t] # NoExt => IsLoose(S, lt[t]) /\ left[End(lt[t])] \in {Locked, Coal}
    /\ \A t, u \in Threads : lt[t] # NoExt /\ lt[t] = lt[u] => t = u
EdgesRight(my, left, R) ==
    \A r \in R : left[r[1]] = Locked /\ my[End(r)] = EndMark

(* A word that is a size is that of a free block, or of a loose one.        *)
Ledger(S, my, left, lt, R) ==
    /\ Tiling(S, R)
    /\ my \in [Units -> Int] /\ left \in [Units -> Int]
    /\ MyRight(S, my)
    /\ \A p \in Units : my[p] > 0 => <<p, my[p]>> \in S[FREE]
    /\ LeftRight(S, left, lt)
    /\ \A n \in Units : left[n] # 0 /\ (left[n] > 0 => IsLoose(S, <<n - left[n], left[n]>>))
    /\ SidesRight(S, left, lt)
    /\ EdgesRight(my, left, R)
    /\ \A p \in Units : my[p] = EndMark => \E r \in R : p = End(r)

-----------------------------------------------------------------------------
(* The ledger of a state.                                                   *)
USED  == <<"used", NoThread>>
QUEUE == <<"queue", NoThread>>

(* The places of a thread: the list it has yet to coalesce, the result of   *)
(* its request, the block it coalesces (its words not yet, then marked as   *)
(* Coal, marked as used on the left, on both sides), the right neighbour    *)
(* with one side locked or both, a block of a bin likewise.                 *)
When(k) == CASE k = "fresh"  -> {"markRight"}
             [] k = "blk"    -> Coalescing \ {"mark", "markRight", "requeue2", "enqueue", "free2"}
             [] k = "marked" -> {"requeue2"}
             [] k = "shut"   -> {"enqueue"}
             [] k = "half"   -> {"right2", "undoRight", "unpeek"}
             [] k = "right"  -> {"unbinRight", "removeRight", "next"}
             [] k = "tried"  -> {"lockSide", "unlockMe"}
             [] k = "cur"    -> {"fit", "take"}
Right(t)    == <<End(blk(t)), th[t].tmp>>
Piece(k, t) == IF k \in {"tried", "cur"} THEN Current(t)
               ELSE IF k \in {"half", "right"} THEN Right(t) ELSE blk(t)
Keeps(k, t) == IF k = "list" THEN InList(t)
               ELSE IF k = "got" THEN {th[t].got} \ {NoExt}
               ELSE IF pc(t) \in When(k) THEN {Piece(k, t)} ELSE {}
Queued      == {queue[i] : i \in DOMAIN queue}
Contents    == [x \in Places |-> IF x = FREE THEN Free ELSE IF x = USED THEN used
                                 ELSE IF x = QUEUE THEN Queued ELSE Keeps(x[1], x[2])]

(* A thread that has locked, or not yet restored, the right side of a block *)
(* that it does not hold.                                                   *)
Side(t) == IF pc(t) \in {"left2", "undoLeft"} THEN <<blk(t)[1] - th[t].tmp, th[t].tmp>>
           ELSE IF pc(t) = "free2" THEN blk(t)
           ELSE IF pc(t) = "skip" THEN Current(t) ELSE NoExt
Sides   == [t \in Threads |-> Side(t)]

LedgerOK == Ledger(Contents, myL, leftL, Sides, regions)

-----------------------------------------------------------------------------
(* What each thread knows of the block it is at, and what the bins list.    *)
Distinct(s) == \A i, j \in DOMAIN s : s[i] = s[j] => i = j
Elements(s) == {s[i] : i \in DOMAIN s}

Scanning == {"lockMe", "lockSide", "unlockMe", "fit", "take", "skip"}
Asking   == {"loop", "scan", "bin", "miss", "soft", "observe", "wait", "check", "hard",
             "observe2", "wait2", "check2", "null", "split"} \cup Scanning
Giving(t) == pc(t) = "split" \/ (pc(t) \in Coalescing /\ th[t].ret = "split")
(* A list to be coalesced is kept while blocks are coalesced only.          *)
ListCtl(t) ==
    /\ pc(t) \in Asking \cup Coalescing \cup {"modify", "released", "idle"}
    /\ th[t].list \in Seq(Extents) /\ Distinct(th[t].list)
    /\ pc(t) \in Coalescing \ {"mark"} \/ blk(t) = NoExt
    /\ pc(t) \in Coalescing \/ th[t].list = <<>>
    /\ pc(t) = "mark" => th[t].list # <<>>
(* The block taken from a bin: large enough, then cut to what is asked for. *)
GotCtl(t) ==
    /\ th[t].got = NoExt \/ pc(t) \in {"modify", "released"} \/ Giving(t)
    /\ Giving(t) => /\ th[t].got # NoExt
                    /\ th[t].got[1] <= Result(t) /\ Result(t) + Total(t) <= End(th[t].got)
    /\ pc(t) \in {"modify", "released"} /\ th[t].got # NoExt => th[t].got[2] = Total(t)
(* A thread that searches, or will again, has a request.                    *)
ReqCtl(t) ==
    /\ th[t].req \in Requests \cup {NoReq}
    /\ pc(t) \in Asking \/ th[t].got # NoExt \/ th[t].ret \in {"loop", "soft"} \/ th[t].back # "idle"
           => th[t].req \in Requests
(* Only a block that ends where its region does is taken for all of it.     *)
WholeCtl(t) ==
    /\ th[t].whole => /\ pc(t) \in {"put", "unbin", "remove", "release", "add", "tryAdd", "insert",
                                   "setBit", "free", "free2", "requeue", "requeue2", "enqueue"}
                      /\ \E r \in Regions : End(r) = End(blk(t))
    /\ pc(t) = "release" => Empty(t)
    /\ pc(t) \in {"unbin", "remove"} /\ th[t].goal = "release" => Empty(t)
BinCtl(t) ==
    /\ th[t].bin \in Bins \cup {NoBin}
    /\ pc(t) \in Scanning \cup {"bin"} => th[t].bin \in Bins
    /\ pc(t) = "take" => Fits(t)
Ctl(t) == ListCtl(t) /\ GotCtl(t) /\ ReqCtl(t) /\ WholeCtl(t) /\ BinCtl(t)
(* The side that a thread has yet to restore is the side of a block.        *)
SideCtl(t) == pc(t) \in {"left2", "undoLeft", "free2", "skip"} => Side(t) # NoExt
QueueOK == queue \in Seq(Extents) /\ Distinct(queue)
CtlOK == (\A t \in Threads : Ctl(t)) /\ (\A t \in Threads : SideCtl(t)) /\ QueueOK

(* The pieces whose first unit may be in a bin, and those whose size is the *)
(* one the bin was chosen for.                                              *)
Registered(x) ==
    \/ x[1] \in {"free", "half", "tried", "cur"}
    \/ x[1] = "right" /\ pc(x[2]) \in {"unbinRight", "removeRight"}
    \/ x[1] = "blk" /\ \/ pc(x[2]) \in {"setBit", "free"}
                       \/ th[x[2]].inBin /\ pc(x[2]) \in {"right", "right2", "undoRight",
                             "unbinRight", "removeRight", "next", "unpeek", "put", "unbin", "remove"}
Sized(x)     == \/ x[1] \in {"free", "half", "tried", "cur", "right"}
                \/ x[1] = "blk" /\ pc(x[2]) \in {"setBit", "free"}
Listed(x, d) == /\ Registered(x) /\ myBin[d[1]] \in Bins
                /\ Sized(x) => myBin[d[1]] = BinOf(d)

BinTypes   == /\ myBin \in [Units -> Bins \cup {NoBin}] /\ bins \in [Bins -> Seq(Units)]
              /\ bit \in [Bins -> BOOLEAN] /\ tLock \in [Bins -> Threads \cup {NoThread}]
(* A bin lists the beginnings of extents that name it.                      *)
BinMembers == \A b \in Bins : \A p \in Elements(bins[b]) :
                  /\ myBin[p] = b
                  /\ \E x \in Places : \E e \in Contents[x] : e[1] = p /\ Listed(x, e)
(* Who waits for a bin knows which, and who has its lock is named there.    *)
BinFacts(t) ==
    /\ pc(t) \in {"tryAdd", "insert", "setBit"} =>
           myBin[blk(t)[1]] = BinOf(blk(t)) /\ BinOf(blk(t)) # NoBin
    /\ pc(t) = "insert" => tLock[myBin[blk(t)[1]]] = t
    /\ pc(t) = "remove" => myBin[blk(t)[1]] # NoBin /\ tLock[myBin[blk(t)[1]]] = t
    /\ pc(t) \in {"unbinRight", "removeRight"} => myBin[End(blk(t))] # NoBin
    /\ pc(t) = "next" => myBin[End(blk(t))] = NoBin
    /\ pc(t) = "removeRight" => tLock[myBin[End(blk(t))]] = t
    /\ pc(t) \in Scanning => tLock[th[t].bin] = t /\ th[t].cur \in Elements(bins[th[t].bin])
BinsInv == /\ BinTypes /\ (\A b \in Bins : Distinct(bins[b])) /\ BinMembers
           /\ (\A t \in Threads : BinFacts(t)) /\ MaskCovers

IInv == LedgerOK /\ CtlOK /\ BinsInv

Inv == IInv /\ Local /\ \A t \in Threads : Path(t)

-----------------------------------------------------------------------------
(* What a scan has seen, for NullSeesAligned.                               *)

(* A thread has the lock of one bin at most, in the sections that need it.  *)
Locking == {"insert", "remove", "removeRight"} \cup Scanning
LockCtl(t) ==
    /\ pc(t) \notin Locking => \A b \in Bins : tLock[b] # t
    /\ \A b, c \in Bins : tLock[b] = t /\ tLock[c] = t => b = c

(* A thread has scanned the bins for its request, and while no other asked  *)
(* for anything since, none has a request.                                  *)
Scanned(t)  == /\ th[t].req # NoReq /\ pc(t) # "loop"
               /\ pc(t) \in Coalescing => th[t].ret # "loop"
AloneCtl(t) == Scanned(t) /\ ~asked[t] => \A u \in Threads \ {t} : th[u].req = NoReq

(* The bins were not modified since the scan began, nor are they now.       *)
Calm(t) == /\ Scanned(t) /\ ~asked[t] /\ ~modified[t]
           /\ \A u \in Threads \ {t} : pc(u) \in {"idle", "released"}

(* The aligned bins that a scan has passed, and the blocks that it has      *)
(* passed in the bin it is at, do not serve the request.                    *)
Aligned    == {b \in Bins : b[1]}
Seeking    == {"scan", "bin"} \cup Scanning
Ended(t)   == /\ pc(t) \in Asking \ (Seeking \cup {"loop", "split"})
              /\ pc(t) \in {"soft", "hard"} => ~th[t].larger
Passed(t)  == IF pc(t) \in Seeking
              THEN {b \in Aligned : Rank(t, b) < Tried(t) \/ (pc(t) = "scan" /\ Rank(t, b) = Tried(t))}
              ELSE IF Ended(t) THEN Aligned ELSE {}
Looked(t)  == {i \in DOMAIN bins[th[t].bin] :
                  \E j \in DOMAIN bins[th[t].bin] : bins[th[t].bin][j] = th[t].cur /\ i < j}
Useless(t, p) == myL[p] > EndMark => ~Serves(<<p, myL[p]>>, th[t].req)
Seen(t) ==
    /\ pc(t) \in Seeking \/ Ended(t) => th[t].full = 0
    /\ \A b \in Passed(t) : \A p \in Elements(bins[b]) : Useless(t, p)
    /\ pc(t) \in Scanning /\ th[t].bin[1] => \A i \in Looked(t) : Useless(t, bins[th[t].bin][i])
    /\ pc(t) = "skip" /\ th[t].bin[1] => Useless(t, th[t].cur)
ScanCtl(t) == Calm(t) => Seen(t)

(* A thread that coalesces goes on afterwards; when it has returned blocks  *)
(* for a request of its own, it searches again.                             *)
ReturnCtl(t) ==
    /\ pc(t) \in Coalescing => th[t].ret # "idle"
    /\ pc(t) \in Coalescing /\ th[t].ret = "soft" => th[t].larger
    /\ th[t].back # "idle" => /\ th[t].larger
                              /\ \/ pc(t) \in Coalescing /\ th[t].ret = "modify"
                                 \/ pc(t) \in {"modify", "released"}

ScanInv == /\ asked \in [Threads -> BOOLEAN]
           /\ \A t \in Threads : LockCtl(t) /\ ReturnCtl(t) /\ AloneCtl(t) /\ ScanCtl(t)
=============================================================================
