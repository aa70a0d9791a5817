---------------------------- MODULE SvmBlocks_proofs ----------------------------
(* Theorems about SvmBlocks, for any regions, blocks, bins and requests:    *)
(* the invariant of SvmInvariant is kept by every step of any number of     *)
(* threads, and with it the properties of the blocks, headers and bins, and *)
(* of what a scan of the bins that finds nothing has seen.                  *)
EXTENDS SvmLedger_proofs, FiniteSetTheorems, NumberLemmas

Balanced(t) == \/ (Processing(t)' <=> Processing(t)) /\ inProcess' = inProcess
               \/ ~Processing(t) /\ Processing(t)' /\ inProcess' = inProcess + 1
               \/ Processing(t) /\ ~Processing(t)' /\ inProcess' = inProcess - 1

(* Every action of a thread stays on its path and moves the counter by what *)
(* it adds to the count, or takes from it.                                  *)
LEMMA Moves ==
    ASSUME Local, NEW t \in Threads, Path(t), Call(t) \/ Work(t)
    PROVE  Local' /\ Mine(t) /\ Path(t)' /\ Balanced(t)
<1> USE DEF Local, Rec, Fields, Mine, Goto, AfterBlock, At, pc, counters, heap
<1>1. ASSUME MarkMine(t) PROVE Local' /\ Mine(t) /\ Path(t)' /\ Balanced(t)
  <2>1. Local'
    BY <1>1 DEF MarkMine
  <2>2. Mine(t)
    BY <1>1 DEF MarkMine
  <2>3. Path(t)'
    BY <1>1 DEF MarkMine, Path, PCs, Coalescing, Onward
  <2>4. Balanced(t)
    BY <1>1 DEF MarkMine, Path, Coalescing, Balanced, Processing, Onward
  <2> QED
    BY <2>1, <2>2, <2>3, <2>4
<1>2. ASSUME MarkRight(t) PROVE Local' /\ Mine(t) /\ Path(t)' /\ Balanced(t)
  <2>1. Local'
    BY <1>2 DEF MarkRight
  <2>2. Mine(t)
    BY <1>2 DEF MarkRight
  <2>3. Path(t)'
    BY <1>2 DEF MarkRight, Path, PCs, Coalescing, Onward
  <2>4. Balanced(t)
    BY <1>2 DEF MarkRight, Path, Coalescing, Balanced, Processing, Onward
  <2> QED
    BY <2>1, <2>2, <2>3, <2>4
<1>3. ASSUME TryLeft(t) PROVE Local' /\ Mine(t) /\ Path(t)' /\ Balanced(t)
  <2>1. Local'
    BY <1>3 DEF TryLeft
  <2>2. Mine(t)
    BY <1>3 DEF TryLeft
  <2>3. Path(t)'
    BY <1>3 DEF TryLeft, Path, PCs, Coalescing, Onward
  <2>4. Balanced(t)
    BY <1>3 DEF TryLeft, Path, Coalescing, Balanced, Processing, Onward
  <2> QED
    BY <2>1, <2>2, <2>3, <2>4
<1>4. ASSUME LockLeft(t) PROVE Local' /\ Mine(t) /\ Path(t)' /\ Balanced(t)
  <2>1. Local'
    BY <1>4 DEF LockLeft
  <2>2. Mine(t)
    BY <1>4 DEF LockLeft
  <2>3. Path(t)'
    BY <1>4 DEF LockLeft, Path, PCs, Coalescing, Onward
  <2>4. Balanced(t)
    BY <1>4 DEF LockLeft, Path, Coalescing, Balanced, Processing, Onward
  <2> QED
    BY <2>1, <2>2, <2>3, <2>4
<1>5. ASSUME UndoLeft(t) PROVE Local' /\ Mine(t) /\ Path(t)' /\ Balanced(t)
  <2>1. Local'
    BY <1>5 DEF UndoLeft
  <2>2. Mine(t)
    BY <1>5 DEF UndoLeft
  <2>3. Path(t)'
    BY <1>5 DEF UndoLeft, Path, PCs, Coalescing, Onward
  <2>4. Balanced(t)
    BY <1>5 DEF UndoLeft, Path, Coalescing, Balanced, Processing, Onward
  <2> QED
    BY <2>1, <2>2, <2>3, <2>4
<1>6. ASSUME TryRight(t) PROVE Local' /\ Mine(t) /\ Path(t)' /\ Balanced(t)
  <2>1. Local'
    BY <1>6 DEF TryRight, GiveUp
  <2>2. Mine(t)
    BY <1>6 DEF TryRight, GiveUp
  <2>3. Path(t)'
    <3>1. At(t, "right") /\ th'[t].ret = th[t].ret /\ th'[t].back = th[t].back
      BY <1>6 DEF TryRight, GiveUp
    <3>2. CASE GiveUp(t)
      <4> DEFINE l == IF th[t].inBin THEN "unbin" ELSE "requeue"
      <4>1. th' = [th EXCEPT ![t].pc = l, ![t].goal = "requeue", ![t].tmp = 0]
        BY <3>2 DEF GiveUp
      <4>2. l \in {"unbin", "requeue"}
        OBVIOUS
      <4> HIDE DEF l
      <4>3. th'[t].pc = l /\ th'[t].goal = "requeue"
        BY <4>1
      <4> QED
        BY <3>1, <4>2, <4>3 DEF Path, PCs, Coalescing
    <3>3. CASE ~GiveUp(t)
      <4>1. th'[t].pc \in {"put", "right2"} /\ th'[t].goal = th[t].goal
        BY <1>6, <3>3 DEF TryRight
      <4> QED
        BY <3>1, <4>1 DEF Path, PCs, Coalescing
    <3> QED
      BY <3>2, <3>3
  <2>4. Balanced(t)
    BY <1>6 DEF TryRight, GiveUp, Path, Coalescing, Balanced, Processing, Onward
  <2> QED
    BY <2>1, <2>2, <2>3, <2>4
<1>7. ASSUME LockRight(t) PROVE Local' /\ Mine(t) /\ Path(t)' /\ Balanced(t)
  <2>1. Local'
    BY <1>7 DEF LockRight
  <2>2. Mine(t)
    BY <1>7 DEF LockRight
  <2>3. Path(t)'
    BY <1>7 DEF LockRight, Path, PCs, Coalescing, Onward
  <2>4. Balanced(t)
    BY <1>7 DEF LockRight, Path, Coalescing, Balanced, Processing, Onward
  <2> QED
    BY <2>1, <2>2, <2>3, <2>4
<1>8. ASSUME UndoRight(t) PROVE Local' /\ Mine(t) /\ Path(t)' /\ Balanced(t)
  <2>1. Local'
    BY <1>8 DEF UndoRight, GiveUp
  <2>2. Mine(t)
    BY <1>8 DEF UndoRight, GiveUp
  <2>3. Path(t)'
    BY <1>8 DEF UndoRight, GiveUp, Path, PCs, Coalescing, Onward
  <2>4. Balanced(t)
    BY <1>8 DEF UndoRight, GiveUp, Path, Coalescing, Balanced, Processing, Onward
  <2> QED
    BY <2>1, <2>2, <2>3, <2>4
<1>9. ASSUME AwaitRight(t) PROVE Local' /\ Mine(t) /\ Path(t)' /\ Balanced(t)
  <2>1. Local'
    BY <1>9 DEF AwaitRight, AwaitBin
  <2>2. Mine(t)
    BY <1>9 DEF AwaitRight, AwaitBin
  <2>3. Path(t)'
    BY <1>9 DEF AwaitRight, AwaitBin, Path, PCs, Coalescing, Onward
  <2>4. Balanced(t)
    BY <1>9 DEF AwaitRight, AwaitBin, Path, Coalescing, Balanced, Processing, Onward
  <2> QED
    BY <2>1, <2>2, <2>3, <2>4
<1>10. ASSUME RemoveRight(t) PROVE Local' /\ Mine(t) /\ Path(t)' /\ Balanced(t)
  <2>1. Local'
    BY <1>10 DEF RemoveRight
  <2>2. Mine(t)
    BY <1>10 DEF RemoveRight
  <2>3. Path(t)'
    BY <1>10 DEF RemoveRight, Path, PCs, Coalescing, Onward
  <2>4. Balanced(t)
    BY <1>10 DEF RemoveRight, Path, Coalescing, Balanced, Processing, Onward
  <2> QED
    BY <2>1, <2>2, <2>3, <2>4
<1>11. ASSUME PeekNext(t) PROVE Local' /\ Mine(t) /\ Path(t)' /\ Balanced(t)
  <2>1. Local'
    BY <1>11 DEF PeekNext
  <2>2. Mine(t)
    BY <1>11 DEF PeekNext
  <2>3. Path(t)'
    BY <1>11 DEF PeekNext, Path, PCs, Coalescing, Onward
  <2>4. Balanced(t)
    BY <1>11 DEF PeekNext, Path, Coalescing, Balanced, Processing, Onward
  <2> QED
    BY <2>1, <2>2, <2>3, <2>4
<1>12. ASSUME UnpeekNext(t) PROVE Local' /\ Mine(t) /\ Path(t)' /\ Balanced(t)
  <2>1. Local'
    BY <1>12 DEF UnpeekNext
  <2>2. Mine(t)
    BY <1>12 DEF UnpeekNext
  <2>3. Path(t)'
    BY <1>12 DEF UnpeekNext, Path, PCs, Coalescing, Onward
  <2>4. Balanced(t)
    BY <1>12 DEF UnpeekNext, Path, Coalescing, Balanced, Processing, Onward
  <2> QED
    BY <2>1, <2>2, <2>3, <2>4
<1>13. ASSUME MarkUsed(t) PROVE Local' /\ Mine(t) /\ Path(t)' /\ Balanced(t)
  <2>1. Local'
    BY <1>13 DEF MarkUsed
  <2>2. Mine(t)
    BY <1>13 DEF MarkUsed
  <2>3. Path(t)'
    BY <1>13 DEF MarkUsed, Path, PCs, Coalescing, Onward
  <2>4. Balanced(t)
    BY <1>13 DEF MarkUsed, Path, Coalescing, Balanced, Processing, Onward
  <2> QED
    BY <2>1, <2>2, <2>3, <2>4
<1>14. ASSUME MarkRightUsed(t) PROVE Local' /\ Mine(t) /\ Path(t)' /\ Balanced(t)
  <2>1. Local'
    BY <1>14 DEF MarkRightUsed
  <2>2. Mine(t)
    BY <1>14 DEF MarkRightUsed
  <2>3. Path(t)'
    BY <1>14 DEF MarkRightUsed, Path, PCs, Coalescing, Onward
  <2>4. Balanced(t)
    BY <1>14 DEF MarkRightUsed, Path, Coalescing, Balanced, Processing, Onward
  <2> QED
    BY <2>1, <2>2, <2>3, <2>4
<1>15. ASSUME PutInQueue(t) PROVE Local' /\ Mine(t) /\ Path(t)' /\ Balanced(t)
  <2>1. Local'
    BY <1>15 DEF PutInQueue
  <2>2. Mine(t)
    BY <1>15 DEF PutInQueue
  <2>3. Path(t)'
    BY <1>15 DEF PutInQueue, Path, PCs, Coalescing, Onward
  <2>4. Balanced(t)
    BY <1>15 DEF PutInQueue, Path, Coalescing, Balanced, Processing, Onward
  <2> QED
    BY <2>1, <2>2, <2>3, <2>4
<1>16. ASSUME Decide(t) PROVE Local' /\ Mine(t) /\ Path(t)' /\ Balanced(t)
  <2>1. Local'
    BY <1>16 DEF Decide
  <2>2. Mine(t)
    BY <1>16 DEF Decide
  <2>3. Path(t)'
    <3> DEFINE goal == IF Empty(t) THEN "release" ELSE "add"
               l == IF ~Empty(t) /\ th[t].inBin /\ myBin[blk(t)[1]] = BinOf(blk(t))
                    THEN "free" ELSE IF th[t].inBin THEN "unbin" ELSE goal
    <3>1. th' = [th EXCEPT ![t].goal = goal, ![t].pc = l] /\ th[t].pc = "put"
      BY <1>16 DEF Decide
    <3>2. goal \in {"release", "add"} /\ l \in {"free", "unbin", "release", "add"}
      OBVIOUS
    <3> HIDE DEF goal, l
    <3>3. /\ th'[t].ret = th[t].ret /\ th'[t].back = th[t].back
          /\ th'[t].pc = l /\ th'[t].goal = goal
      BY <3>1
    <3> QED
      BY <3>1, <3>2, <3>3 DEF Path, PCs, Coalescing
  <2>4. Balanced(t)
    BY <1>16 DEF Decide, Path, Coalescing, Balanced, Processing, Onward
  <2> QED
    BY <2>1, <2>2, <2>3, <2>4
<1>17. ASSUME Unbin(t) PROVE Local' /\ Mine(t) /\ Path(t)' /\ Balanced(t)
  <2>1. Local'
    BY <1>17 DEF Unbin, AwaitBin
  <2>2. Mine(t)
    BY <1>17 DEF Unbin, AwaitBin
  <2>3. Path(t)'
    BY <1>17 DEF Unbin, AwaitBin, Path, PCs, Coalescing, Onward
  <2>4. Balanced(t)
    BY <1>17 DEF Unbin, AwaitBin, Path, Coalescing, Balanced, Processing, Onward
  <2> QED
    BY <2>1, <2>2, <2>3, <2>4
<1>18. ASSUME RemoveMine(t) PROVE Local' /\ Mine(t) /\ Path(t)' /\ Balanced(t)
  <2>1. Local'
    BY <1>18 DEF RemoveMine
  <2>2. Mine(t)
    BY <1>18 DEF RemoveMine
  <2>3. Path(t)'
    BY <1>18 DEF RemoveMine, Path, PCs, Coalescing, Onward
  <2>4. Balanced(t)
    BY <1>18 DEF RemoveMine, Path, Coalescing, Balanced, Processing, Onward
  <2> QED
    BY <2>1, <2>2, <2>3, <2>4
<1>19. ASSUME ReleaseRegion(t) PROVE Local' /\ Mine(t) /\ Path(t)' /\ Balanced(t)
  <2>1. Local'
    BY <1>19 DEF ReleaseRegion
  <2>2. Mine(t)
    BY <1>19 DEF ReleaseRegion
  <2>3. Path(t)'
    BY <1>19 DEF ReleaseRegion, Path, PCs, Coalescing, Onward
  <2>4. Balanced(t)
    BY <1>19 DEF ReleaseRegion, Path, Coalescing, Balanced, Processing, Onward
  <2> QED
    BY <2>1, <2>2, <2>3, <2>4
<1>20. ASSUME Add(t) PROVE Local' /\ Mine(t) /\ Path(t)' /\ Balanced(t)
  <2>1. Local'
    BY <1>20 DEF Add
  <2>2. Mine(t)
    BY <1>20 DEF Add
  <2>3. Path(t)'
    BY <1>20 DEF Add, Path, PCs, Coalescing, Onward
  <2>4. Balanced(t)
    BY <1>20 DEF Add, Path, Coalescing, Balanced, Processing, Onward
  <2> QED
    BY <2>1, <2>2, <2>3, <2>4
<1>21. ASSUME TryAdd(t) PROVE Local' /\ Mine(t) /\ Path(t)' /\ Balanced(t)
  <2>1. Local'
    BY <1>21 DEF TryAdd
  <2>2. Mine(t)
    BY <1>21 DEF TryAdd
  <2>3. Path(t)'
    BY <1>21 DEF TryAdd, Path, PCs, Coalescing, Onward
  <2>4. Balanced(t)
    BY <1>21 DEF TryAdd, Path, Coalescing, Balanced, Processing, Onward
  <2> QED
    BY <2>1, <2>2, <2>3, <2>4
<1>22. ASSUME Insert(t) PROVE Local' /\ Mine(t) /\ Path(t)' /\ Balanced(t)
  <2>1. Local'
    BY <1>22 DEF Insert
  <2>2. Mine(t)
    BY <1>22 DEF Insert
  <2>3. Path(t)'
    BY <1>22 DEF Insert, Path, PCs, Coalescing, Onward
  <2>4. Balanced(t)
    BY <1>22 DEF Insert, Path, Coalescing, Balanced, Processing, Onward
  <2> QED
    BY <2>1, <2>2, <2>3, <2>4
<1>23. ASSUME SetBit(t) PROVE Local' /\ Mine(t) /\ Path(t)' /\ Balanced(t)
  <2>1. Local'
    BY <1>23 DEF SetBit
  <2>2. Mine(t)
    BY <1>23 DEF SetBit
  <2>3. Path(t)'
    BY <1>23 DEF SetBit, Path, PCs, Coalescing, Onward
  <2>4. Balanced(t)
    BY <1>23 DEF SetBit, Path, Coalescing, Balanced, Processing, Onward
  <2> QED
    BY <2>1, <2>2, <2>3, <2>4
<1>24. ASSUME SetMeFree(t) PROVE Local' /\ Mine(t) /\ Path(t)' /\ Balanced(t)
  <2>1. Local'
    BY <1>24 DEF SetMeFree
  <2>2. Mine(t)
    BY <1>24 DEF SetMeFree
  <2>3. Path(t)'
    BY <1>24 DEF SetMeFree, Path, PCs, Coalescing, Onward
  <2>4. Balanced(t)
    BY <1>24 DEF SetMeFree, Path, Coalescing, Balanced, Processing, Onward
  <2> QED
    BY <2>1, <2>2, <2>3, <2>4
<1>25. ASSUME SetLeftFree(t) PROVE Local' /\ Mine(t) /\ Path(t)' /\ Balanced(t)
  <2>1. Local'
    BY <1>25 DEF SetLeftFree
  <2>2. Mine(t)
    BY <1>25 DEF SetLeftFree
  <2>3. Path(t)'
    BY <1>25 DEF SetLeftFree, Path, PCs, Coalescing, Onward
  <2>4. Balanced(t)
    BY <1>25 DEF SetLeftFree, Path, Coalescing, Balanced, Processing, Onward
  <2> QED
    BY <2>1, <2>2, <2>3, <2>4
<1>26. ASSUME BinsModified(t) PROVE Local' /\ Mine(t) /\ Path(t)' /\ Balanced(t)
  <2>1. Local'
    BY <1>26 DEF BinsModified
  <2>2. Mine(t)
    BY <1>26 DEF BinsModified
  <2>3. Path(t)'
    BY <1>26 DEF BinsModified, Path, PCs, Coalescing, Onward
  <2>4. Balanced(t)
    BY <1>26 DEF BinsModified, Path, Coalescing, Balanced, Processing, Onward
  <2> QED
    BY <2>1, <2>2, <2>3, <2>4
<1>27. ASSUME BlockReleased(t) PROVE Local' /\ Mine(t) /\ Path(t)' /\ Balanced(t)
  <2>1. Local'
    BY <1>27 DEF BlockReleased, Resting
  <2>2. Mine(t)
    BY <1>27 DEF BlockReleased, Resting
  <2>5. /\ pc(t) = "released" /\ inProcess' = inProcess - 1
        /\ \/ th' = [th EXCEPT ![t].pc = th[t].back, ![t].ret = "idle", ![t].back = "idle"]
           \/ th' = [th EXCEPT ![t] = Resting]
    BY <1>27 DEF BlockReleased
  <2>6. \/ /\ th'[t].pc = th[t].back /\ th'[t].ret = "idle" /\ th'[t].back = "idle"
           /\ th'[t].goal = th[t].goal
        \/ th'[t] = Resting
    <3>1. CASE th' = [th EXCEPT ![t].pc = th[t].back, ![t].ret = "idle", ![t].back = "idle"]
      BY <3>1
    <3>2. CASE th' = [th EXCEPT ![t] = Resting]
      BY <3>2
    <3> QED
      BY <2>5, <3>1, <3>2
  <2>3. Path(t)'
    BY <2>5, <2>6 DEF Path, PCs, Resting
  <2>4. Balanced(t)
    BY <2>5, <2>6 DEF Path, Balanced, Processing, Resting
  <2> QED
    BY <2>1, <2>2, <2>3, <2>4
<1>28. ASSUME StartScan(t) PROVE Local' /\ Mine(t) /\ Path(t)' /\ Balanced(t)
  <2>1. Local'
    BY <1>28 DEF StartScan
  <2>2. Mine(t)
    BY <1>28 DEF StartScan
  <2>3. Path(t)'
    BY <1>28 DEF StartScan, Path, PCs, Coalescing, Onward
  <2>4. Balanced(t)
    BY <1>28 DEF StartScan, Path, Coalescing, Balanced, Processing, Onward
  <2> QED
    BY <2>1, <2>2, <2>3, <2>4
<1>29. ASSUME NextBin(t) PROVE Local' /\ Mine(t) /\ Path(t)' /\ Balanced(t)
  <2>1. Local'
    BY <1>29 DEF NextBin
  <2>2. Mine(t)
    BY <1>29 DEF NextBin
  <2>3. Path(t)'
    BY <1>29 DEF NextBin, Path, PCs, Coalescing, Onward
  <2>4. Balanced(t)
    BY <1>29 DEF NextBin, Path, Coalescing, Balanced, Processing, Onward
  <2> QED
    BY <2>1, <2>2, <2>3, <2>4
<1>30. ASSUME NoMoreBins(t) PROVE Local' /\ Mine(t) /\ Path(t)' /\ Balanced(t)
  <2>1. Local'
    BY <1>30 DEF NoMoreBins
  <2>2. Mine(t)
    BY <1>30 DEF NoMoreBins
  <2>3. Path(t)'
    BY <1>30 DEF NoMoreBins, Path, PCs, Coalescing, Onward
  <2>4. Balanced(t)
    BY <1>30 DEF NoMoreBins, Path, Coalescing, Balanced, Processing, Onward
  <2> QED
    BY <2>1, <2>2, <2>3, <2>4
<1>31. ASSUME OpenBin(t) PROVE Local' /\ Mine(t) /\ Path(t)' /\ Balanced(t)
  <2>1. Local'
    BY <1>31 DEF OpenBin
  <2>2. Mine(t)
    BY <1>31 DEF OpenBin
  <2>3. Path(t)'
    BY <1>31 DEF OpenBin, Path, PCs, Coalescing, Onward
  <2>4. Balanced(t)
    BY <1>31 DEF OpenBin, Path, Coalescing, Balanced, Processing, Onward
  <2> QED
    BY <2>1, <2>2, <2>3, <2>4
<1>32. ASSUME LockMe(t) PROVE Local' /\ Mine(t) /\ Path(t)' /\ Balanced(t)
  <2>1. Local'
    BY <1>32 DEF LockMe
  <2>2. Mine(t)
    BY <1>32 DEF LockMe
  <2>3. Path(t)'
    BY <1>32 DEF LockMe, Path, PCs, Coalescing, Onward
  <2>4. Balanced(t)
    BY <1>32 DEF LockMe, Path, Coalescing, Balanced, Processing, Onward
  <2> QED
    BY <2>1, <2>2, <2>3, <2>4
<1>33. ASSUME LockSide(t) PROVE Local' /\ Mine(t) /\ Path(t)' /\ Balanced(t)
  <2>1. Local'
    BY <1>33 DEF LockSide
  <2>2. Mine(t)
    BY <1>33 DEF LockSide
  <2>3. Path(t)'
    BY <1>33 DEF LockSide, Path, PCs, Coalescing, Onward
  <2>4. Balanced(t)
    BY <1>33 DEF LockSide, Path, Coalescing, Balanced, Processing, Onward
  <2> QED
    BY <2>1, <2>2, <2>3, <2>4
<1>34. ASSUME UnlockMe(t) PROVE Local' /\ Mine(t) /\ Path(t)' /\ Balanced(t)
  <2>1. Local'
    BY <1>34 DEF UnlockMe
  <2>2. Mine(t)
    BY <1>34 DEF UnlockMe
  <2>3. Path(t)'
    BY <1>34 DEF UnlockMe, Path, PCs, Coalescing, Onward
  <2>4. Balanced(t)
    BY <1>34 DEF UnlockMe, Path, Coalescing, Balanced, Processing, Onward
  <2> QED
    BY <2>1, <2>2, <2>3, <2>4
<1>35. ASSUME Consume(t) PROVE Local' /\ Mine(t) /\ Path(t)' /\ Balanced(t)
  <2>1. Local'
    BY <1>35 DEF Consume
  <2>2. Mine(t)
    BY <1>35 DEF Consume
  <2>3. Path(t)'
    BY <1>35 DEF Consume, Path, PCs, Coalescing, Onward
  <2>4. Balanced(t)
    BY <1>35 DEF Consume, Path, Coalescing, Balanced, Processing, Onward
  <2> QED
    BY <2>1, <2>2, <2>3, <2>4
<1>36. ASSUME NotThisOne(t) PROVE Local' /\ Mine(t) /\ Path(t)' /\ Balanced(t)
  <2>1. Local'
    BY <1>36 DEF NotThisOne
  <2>2. Mine(t)
    BY <1>36 DEF NotThisOne
  <2>3. Path(t)'
    BY <1>36 DEF NotThisOne, Path, PCs, Coalescing, Onward
  <2>4. Balanced(t)
    BY <1>36 DEF NotThisOne, Path, Coalescing, Balanced, Processing, Onward
  <2> QED
    BY <2>1, <2>2, <2>3, <2>4
<1>37. ASSUME Skip(t) PROVE Local' /\ Mine(t) /\ Path(t)' /\ Balanced(t)
  <2>1. Local'
    BY <1>37 DEF Skip
  <2>2. Mine(t)
    BY <1>37 DEF Skip
  <2>3. Path(t)'
    BY <1>37 DEF Skip, Path, PCs, Coalescing, Onward
  <2>4. Balanced(t)
    BY <1>37 DEF Skip, Path, Coalescing, Balanced, Processing, Onward
  <2> QED
    BY <2>1, <2>2, <2>3, <2>4
<1>38. ASSUME TakeInPlace(t) PROVE Local' /\ Mine(t) /\ Path(t)' /\ Balanced(t)
  <2>1. Local'
    BY <1>38 DEF TakeInPlace
  <2>2. Mine(t)
    BY <1>38 DEF TakeInPlace
  <2>3. Path(t)'
    BY <1>38 DEF TakeInPlace, Path, PCs, Coalescing, Onward
  <2>4. Balanced(t)
    BY <1>38 DEF TakeInPlace, Path, Coalescing, Balanced, Processing, Onward
  <2> QED
    BY <2>1, <2>2, <2>3, <2>4
<1>39. ASSUME TakeWhole(t) PROVE Local' /\ Mine(t) /\ Path(t)' /\ Balanced(t)
  <2>1. Local'
    BY <1>39 DEF TakeWhole
  <2>2. Mine(t)
    BY <1>39 DEF TakeWhole
  <2>3. Path(t)'
    BY <1>39 DEF TakeWhole, Path, PCs, Coalescing, Onward
  <2>4. Balanced(t)
    BY <1>39 DEF TakeWhole, Path, Coalescing, Balanced, Processing, Onward
  <2> QED
    BY <2>1, <2>2, <2>3, <2>4
<1>40. ASSUME SplitRight(t) PROVE Local' /\ Mine(t) /\ Path(t)' /\ Balanced(t)
  <2>1. Local'
    BY <1>40 DEF SplitRight, GiveBack
  <2>2. Mine(t)
    BY <1>40 DEF SplitRight, GiveBack
  <2>3. Path(t)'
    BY <1>40 DEF SplitRight, GiveBack, Path, PCs, Coalescing, Onward
  <2>4. Balanced(t)
    BY <1>40 DEF SplitRight, GiveBack, Path, Coalescing, Balanced, Processing, Onward
  <2> QED
    BY <2>1, <2>2, <2>3, <2>4
<1>41. ASSUME SplitLeft(t) PROVE Local' /\ Mine(t) /\ Path(t)' /\ Balanced(t)
  <2>1. Local'
    BY <1>41 DEF SplitLeft, GiveBack
  <2>2. Mine(t)
    BY <1>41 DEF SplitLeft, GiveBack
  <2>3. Path(t)'
    BY <1>41 DEF SplitLeft, GiveBack, Path, PCs, Coalescing, Onward
  <2>4. Balanced(t)
    BY <1>41 DEF SplitLeft, GiveBack, Path, Coalescing, Balanced, Processing, Onward
  <2> QED
    BY <2>1, <2>2, <2>3, <2>4
<1>42. ASSUME SplitDone(t) PROVE Local' /\ Mine(t) /\ Path(t)' /\ Balanced(t)
  <2>1. Local'
    BY <1>42 DEF SplitDone
  <2>2. Mine(t)
    BY <1>42 DEF SplitDone
  <2>3. Path(t)'
    BY <1>42 DEF SplitDone, Path, PCs, Coalescing, Onward
  <2>4. Balanced(t)
    BY <1>42 DEF SplitDone, Path, Coalescing, Balanced, Processing, Onward
  <2> QED
    BY <2>1, <2>2, <2>3, <2>4
<1>43. ASSUME Miss(t) PROVE Local' /\ Mine(t) /\ Path(t)' /\ Balanced(t)
  <2>1. Local'
    BY <1>43 DEF Miss
  <2>2. Mine(t)
    BY <1>43 DEF Miss
  <2>3. Path(t)'
    BY <1>43 DEF Miss, Path, PCs, Coalescing, Onward
  <2>4. Balanced(t)
    BY <1>43 DEF Miss, Path, Coalescing, Balanced, Processing, Onward
  <2> QED
    BY <2>1, <2>2, <2>3, <2>4
<1>44. ASSUME Cleaned(t) PROVE Local' /\ Mine(t) /\ Path(t)' /\ Balanced(t)
  <2>1. Local'
    BY <1>44 DEF Cleaned
  <2>2. Mine(t)
    BY <1>44 DEF Cleaned
  <2>3. Path(t)'
    BY <1>44 DEF Cleaned, Path, PCs, Coalescing, Onward
  <2>4. Balanced(t)
    BY <1>44 DEF Cleaned, Path, Coalescing, Balanced, Processing, Onward
  <2> QED
    BY <2>1, <2>2, <2>3, <2>4
<1>45. ASSUME Observe(t) PROVE Local' /\ Mine(t) /\ Path(t)' /\ Balanced(t)
  <2>1. Local'
    BY <1>45 DEF Observe
  <2>2. Mine(t)
    BY <1>45 DEF Observe
  <2>0. /\ pc(t) \in {"observe", "observe2"} /\ pc(t)' \in {"wait", "wait2"}
        /\ th[t].ret' = th[t].ret /\ th[t].back' = th[t].back /\ th[t].goal' = th[t].goal
    BY <1>45 DEF Observe
  <2> DEFINE l == IF pc(t) = "observe" THEN "wait" ELSE "wait2"
  <2>5. /\ pc(t) \in {"observe", "observe2"} /\ l \in {"wait", "wait2"}
        /\ th' = [th EXCEPT ![t].pc = l, ![t].tmp = inProcess] /\ inProcess' = inProcess
    BY <1>45 DEF Observe
  <2> HIDE DEF l
  <2>6. /\ th'[t].pc = l /\ th'[t].ret = th[t].ret
        /\ th'[t].back = th[t].back /\ th'[t].goal = th[t].goal
    BY <2>5
  <2>3. Path(t)'
    BY <2>5, <2>6 DEF Path, PCs, Coalescing
  <2>4. Balanced(t)
    BY <2>5, <2>6 DEF Path, Coalescing, Balanced, Processing
  <2> QED
    BY <2>1, <2>2, <2>3, <2>4
<1>46. ASSUME WaitTillBlockReleased(t) PROVE Local' /\ Mine(t) /\ Path(t)' /\ Balanced(t)
  <2>1. Local'
    BY <1>46 DEF WaitTillBlockReleased
  <2>2. Mine(t)
    BY <1>46 DEF WaitTillBlockReleased
  <2>3. Path(t)'
    BY <1>46 DEF WaitTillBlockReleased, Path, PCs, Coalescing, Onward
  <2>4. Balanced(t)
    BY <1>46 DEF WaitTillBlockReleased, Path, Coalescing, Balanced, Processing, Onward
  <2> QED
    BY <2>1, <2>2, <2>3, <2>4
<1>47. ASSUME Check(t) PROVE Local' /\ Mine(t) /\ Path(t)' /\ Balanced(t)
  <2>1. Local'
    BY <1>47 DEF Check
  <2>2. Mine(t)
    BY <1>47 DEF Check
  <2>3. Path(t)'
    BY <1>47 DEF Check, Path, PCs, Coalescing, Onward
  <2>4. Balanced(t)
    BY <1>47 DEF Check, Path, Coalescing, Balanced, Processing, Onward
  <2> QED
    BY <2>1, <2>2, <2>3, <2>4
<1>48. ASSUME ReturnNull(t) PROVE Local' /\ Mine(t) /\ Path(t)' /\ Balanced(t)
  <2>1. Local'
    BY <1>48 DEF ReturnNull, Resting
  <2>2. Mine(t)
    BY <1>48 DEF ReturnNull, Resting
  <2>3. Path(t)'
    BY <1>48 DEF ReturnNull, Resting, Path, PCs, Coalescing, Onward
  <2>4. Balanced(t)
    BY <1>48 DEF ReturnNull, Resting, Path, Coalescing, Balanced, Processing, Onward
  <2> QED
    BY <2>1, <2>2, <2>3, <2>4
<1>49. ASSUME NEW e \in used, CleanCache(t, e) PROVE Local' /\ Mine(t) /\ Path(t)' /\ Balanced(t)
  <2>1. Local'
    BY <1>49 DEF CleanCache
  <2>2. Mine(t)
    BY <1>49 DEF CleanCache
  <2>3. Path(t)'
    BY <1>49 DEF CleanCache, Path, PCs, Coalescing, Onward
  <2>4. Balanced(t)
    BY <1>49 DEF CleanCache, Path, Coalescing, Balanced, Processing, Onward
  <2> QED
    BY <2>1, <2>2, <2>3, <2>4
<1>50. ASSUME NEW e \in used, PutBlock(t, e) PROVE Local' /\ Mine(t) /\ Path(t)' /\ Balanced(t)
  <2>1. Local'
    BY <1>50 DEF PutBlock
  <2>2. Mine(t)
    BY <1>50 DEF PutBlock
  <2>3. Path(t)'
    BY <1>50 DEF PutBlock, Path, PCs, Coalescing, Onward
  <2>4. Balanced(t)
    BY <1>50 DEF PutBlock, Path, Coalescing, Balanced, Processing, Onward
  <2> QED
    BY <2>1, <2>2, <2>3, <2>4
<1>51. ASSUME NEW q \in Requests, GetBlock(t, q) PROVE Local' /\ Mine(t) /\ Path(t)' /\ Balanced(t)
  <2>1. Local'
    <3> DEFINE l == Onward(queue, "loop")
               x == Resting
               r == [x EXCEPT !.pc = l, !.req = q, !.list = queue, !.ret = "loop",
                              !.threshold = Threshold, !.larger = TRUE]
    <3>1. th' = [th EXCEPT ![t] = r]
      BY <1>51 DEF GetBlock
    <3>2. Rec(x)
      BY DEF Resting
    <3> HIDE DEF x, l
    <3>3. Rec(r)
      BY <3>2
    <3> HIDE DEF r
    <3> QED
      BY <3>1, <3>3
  <2>2. Mine(t)
    BY <1>51 DEF GetBlock, Resting
  <2>3. Path(t)'
    <3>1. /\ pc(t)' \in {"mark", "loop"} /\ th[t].ret' = "loop"
          /\ th[t].back' = "idle" /\ th[t].goal' = "idle"
      BY <1>51 DEF GetBlock, Resting, Onward
    <3> QED
      BY <3>1 DEF Path, PCs, Coalescing
  <2>4. Balanced(t)
    <3>1. pc(t)' \in {"mark", "loop"} /\ th[t].ret' = "loop" /\ inProcess' = inProcess /\ pc(t) = "idle"
      BY <1>51 DEF GetBlock, Resting, Onward
    <3>2. ~Processing(t) /\ ~Processing(t)'
      BY <3>1 DEF Path, Coalescing, Processing
    <3> QED
      BY <3>1, <3>2 DEF Balanced
  <2> QED
    BY <2>1, <2>2, <2>3, <2>4
<1> QED
  BY <1>1, <1>2, <1>3, <1>4, <1>5, <1>6, <1>7, <1>8, <1>9, <1>10, <1>11, <1>12, <1>13, <1>14,
     <1>15, <1>16, <1>17, <1>18, <1>19, <1>20, <1>21, <1>22, <1>23, <1>24, <1>25, <1>26,
     <1>27, <1>28, <1>29, <1>30, <1>31, <1>32, <1>33, <1>34, <1>35, <1>36, <1>37, <1>38,
     <1>39, <1>40, <1>41, <1>42, <1>43, <1>44, <1>45, <1>46, <1>47, <1>48, <1>49, <1>50, <1>51
     DEF Call, Work, Coalesce, PutBack, Search, Extend

(* One thread enters the count or leaves it, the others stay as they are.   *)
LEMMA CountChange ==
    ASSUME NEW S, IsFiniteSet(S), NEW t, NEW R,
           R = S \/ (t \notin S /\ R = S \cup {t}) \/ (t \in S /\ R = S \ {t})
    PROVE  /\ IsFiniteSet(R) /\ Cardinality(S) \in Nat
           /\ Cardinality(R) = IF R = S THEN Cardinality(S)
                               ELSE IF t \in R THEN Cardinality(S) + 1 ELSE Cardinality(S) - 1
<1>1. Cardinality(S) \in Nat
  BY FS_CardinalityType
<1>2. CASE t \notin S /\ R = S \cup {t}
  BY <1>1, <1>2, FS_AddElement
<1>3. CASE t \in S /\ R = S \ {t}
  BY <1>1, <1>3, FS_RemoveElement
<1> QED
  BY <1>1, <1>2, <1>3

Counted  == {t \in Threads : Processing(t)}
CountInv == Local /\ (\A t \in Threads : Path(t)) /\ inProcess = Cardinality(Counted)

(* Every step keeps the counter exact.                                      *)
LEMMA CountStep ==
    ASSUME IsFiniteSet(Threads), CountInv, [Next]_vars
    PROVE  CountInv'
<1>a. IsFiniteSet(Counted)
  BY FS_Subset DEF Counted
<1>1. ASSUME NEW t \in Threads, Call(t) \/ Work(t) PROVE CountInv'
  <2>1. Local' /\ Mine(t) /\ Path(t)' /\ Balanced(t)
    BY <1>1, Moves DEF CountInv
  <2>2. \A u \in Threads \ {t} : (Path(u)' <=> Path(u)) /\ (Processing(u)' <=> Processing(u))
    BY <2>1 DEF Mine, Path, Processing, pc
  <2>3. \A u \in Threads : Path(u)'
    BY <2>1, <2>2 DEF CountInv
  <2>4. /\ t \in Counted <=> Processing(t)
        /\ t \in Counted' <=> Processing(t)'
        /\ \A u \in Threads \ {t} : u \in Counted' <=> u \in Counted
        /\ Counted \subseteq Threads /\ Counted' \subseteq Threads
    BY <2>2 DEF Counted
  <2>5. \/ Counted' = Counted
        \/ t \notin Counted /\ Counted' = Counted \cup {t}
        \/ t \in Counted /\ Counted' = Counted \ {t}
    BY <2>4
  <2>6. /\ Cardinality(Counted) \in Nat
        /\ Cardinality(Counted') =
               IF Counted' = Counted THEN Cardinality(Counted)
               ELSE IF t \in Counted' THEN Cardinality(Counted) + 1 ELSE Cardinality(Counted) - 1
    BY <1>a, <2>5, CountChange
  <2>7. inProcess' = Cardinality(Counted')
    BY <2>1, <2>4, <2>6 DEF Balanced, CountInv
  <2> QED
    BY <2>1, <2>3, <2>7 DEF CountInv
<1>2. CASE UNCHANGED vars
  BY <1>2 DEF CountInv, Local, Path, Counted, Processing, pc, vars, counters
<1> QED
  BY <1>1, <1>2 DEF Next, Finished

(* blocksInProcessing is, between any two steps of any number of threads,   *)
(* the number of threads that took blocks away from the bins or are         *)
(* returning some: on every way out of a search, a split, a put and a       *)
(* cleanup, blockConsumed and blockReleased (backend.cpp) come in pairs, so *)
(* waitTillBlockReleased never waits for a thread that has left.            *)
THEOREM ProcessingExact ==
    ASSUME IsFiniteSet(Threads) PROVE Spec => []ProcessingCounted
<1>1. Init => CountInv
  <2> SUFFICES ASSUME Init PROVE CountInv
    OBVIOUS
  <2>1. th = [t \in Threads |-> Resting] /\ inProcess = 0
    BY DEF Init
  <2>2. Local /\ \A t \in Threads : Path(t) /\ ~Processing(t)
    BY <2>1 DEF Local, Rec, Fields, Path, Processing, Resting, pc, PCs, Coalescing
  <2>3. Counted = {}
    BY <2>2 DEF Counted
  <2> QED
    BY <2>1, <2>2, <2>3, FS_EmptySet DEF CountInv
<1>2. CountInv /\ [Next]_vars => CountInv'
  BY CountStep
<1>3. CountInv => ProcessingCounted
  BY DEF CountInv, Counted, ProcessingCounted
<1> QED
  BY <1>1, <1>2, <1>3, PTL DEF Spec

-----------------------------------------------------------------------------
(* The steps that change a bin.                                             *)

(* A thread that moves nothing keeps what was listed fit to be listed.      *)
LEMMA FollowsStill ==
    ASSUME NEW t \in Threads, Still(t),
           \A k \in Private : \A d \in Keeps(k, t) :
               Listed(<<k, t>>, d) /\ myBin'[d[1]] = myBin[d[1]] => Listed(<<k, t>>, d)'
    PROVE  Follows(t)
<1> SUFFICES ASSUME NEW x \in Reach(t), NEW d \in Contents[x], Listed(x, d), myBin'[d[1]] = myBin[d[1]]
             PROVE  \E y \in Places : \E e \in Contents'[y] : e[1] = d[1] /\ Listed(y, e)'
  BY DEF Follows
<1>1. x \in Places /\ Contents'[x] = Contents[x]
  BY Reached, StillContents
<1>2. Listed(x, d)'
  <2>1. CASE x \in {FREE, USED, QUEUE}
    BY <2>1 DEF Listed, Registered, Sized, FREE, USED, QUEUE, BinOf, Class
  <2>2. ASSUME NEW k \in Private, x = <<k, t>> PROVE Listed(x, d)'
    BY <2>2, ContentsAt
  <2> QED
    BY <2>1, <2>2 DEF Reach
<1> QED
  BY <1>1, <1>2

(* The same when one piece is moved.                                        *)
LEMMA FollowsShift ==
    ASSUME LedgerOK, NEW t \in Threads, NEW a, NEW b, NEW e, Shift(t, a, b, e), MyWritten(a, b, e),
           Listed(a, e) /\ myBin'[e[1]] = myBin[e[1]] => Listed(b, e)',
           \A k \in Private : \A d \in Keeps(k, t) :
               Listed(<<k, t>>, d) /\ myBin'[d[1]] = myBin[d[1]] =>
                   Listed(<<k, t>>, d)' \/ (a = <<k, t>> /\ d = e)
    PROVE  Follows(t)
<1>0. Moved(Contents, Contents', a, e, b, e) /\ b \in Places
  BY ShiftWords, ShiftType
<1> SUFFICES ASSUME NEW x \in Reach(t), NEW d \in Contents[x], Listed(x, d), myBin'[d[1]] = myBin[d[1]]
             PROVE  \E y \in Places : \E f \in Contents'[y] : f[1] = d[1] /\ Listed(y, f)'
  BY DEF Follows
<1>1. x \in Places
  BY Reached
<1>2. CASE x = a /\ d = e
  <2>1. e \in Contents'[b] /\ Listed(b, e)'
    BY <1>0, <1>1, <1>2 DEF Moved
  <2> QED
    BY <1>0, <1>2, <2>1
<1>3. CASE ~(x = a /\ d = e)
  <2>0. d \in Contents'[x]
    BY <1>0, <1>1, <1>3 DEF Moved
  <2>1. CASE x \in {FREE, USED, QUEUE}
    <3>1. Listed(x, d)'
      BY <2>1 DEF Listed, Registered, Sized, FREE, USED, QUEUE, BinOf, Class
    <3> QED
      BY <1>1, <2>0, <3>1
  <2>2. ASSUME NEW k \in Private, x = <<k, t>> PROVE Listed(x, d)'
    BY <1>3, <2>2, ContentsAt
  <2> QED
    BY <1>1, <2>0, <2>1, <2>2 DEF Reach
<1> QED
  BY <1>2, <1>3

(* What a thread keeps is a piece of the ledger.                            *)
LEMMA OwnPlace ==
    ASSUME LedgerOK, NEW t \in Threads, NEW k \in Private, NEW e \in Keeps(k, t)
    PROVE  /\ <<k, t>> \in Places /\ e \in Contents[<<k, t>>]
           /\ e \in Extents /\ e[1] \in Units /\ End(e) \in Units /\ e[2] \in Nat /\ e[2] > 0 /\ e[1] \in Nat
           /\ e # NoExt
<1>1. <<k, t>> \in Places /\ e \in Contents[<<k, t>>]
  BY PlaceNames, ContentsAt
<1> HIDE DEF Contents, Sides
<1> QED
  BY <1>1, PieceType DEF LedgerOK

(* No other thread has a piece that begins where one of t begins.           *)
LEMMA OwnSpot ==
    ASSUME LedgerOK, NEW t \in Threads, NEW k \in Private, NEW e \in Keeps(k, t)
    PROVE  Spot(t, e[1])
<1> SUFFICES ASSUME NEW u \in Threads, u # t, NEW j \in Private, NEW d \in Keeps(j, u), d[1] = e[1]
             PROVE  FALSE
  BY DEF Spot
<1>1. /\ <<k, t>> \in Places /\ e \in Contents[<<k, t>>] /\ <<j, u>> \in Places /\ d \in Contents[<<j, u>>]
  BY OwnPlace
<1> HIDE DEF Contents, Sides
<1>2. <<k, t>> = <<j, u>>
  BY <1>1, SamePiece DEF LedgerOK
<1> QED
  BY <1>2

(* A piece that may not be in a bin is in none.                             *)
LEMMA OwnUnlisted ==
    ASSUME LedgerOK, BinsInv, NEW t \in Threads, NEW k \in Private, NEW e \in Keeps(k, t),
           ~Listed(<<k, t>>, e), NEW b \in Bins
    PROVE  e[1] \notin Elements(bins[b])
<1> SUFFICES ASSUME e[1] \in Elements(bins[b]) PROVE FALSE
  OBVIOUS
<1>1. PICK x \in Places : \E d \in Contents[x] : d[1] = e[1] /\ Listed(x, d)
  BY DEF BinsInv, BinMembers
<1>2. PICK d \in Contents[x] : d[1] = e[1] /\ Listed(x, d)
  BY <1>1
<1>3. <<k, t>> \in Places /\ e \in Contents[<<k, t>>]
  BY OwnPlace
<1> HIDE DEF Contents, Sides
<1>4. x = <<k, t>> /\ d = e
  BY <1>2, <1>3, SamePiece DEF LedgerOK
<1> QED
  BY <1>2, <1>4

(* sizeToBin and toAlignedBin name a bin or none.                           *)
LEMMA BinOfType == ASSUME NEW e \in Extents PROVE BinOf(e) \in Bins \cup {NoBin} /\ (BinOf(e) # NoBin => BinOf(e) \in Bins)
<1>1. Class(e[2]) \in 0 .. HugeBin
  BY BlocksAssumption DEF Class, Extents
<1>2. (End(e) % Slab = 0 /\ e[2] >= Slab) \in BOOLEAN
  OBVIOUS
<1>3. CASE Class(e[2]) = 0
  BY <1>3 DEF BinOf
<1>4. CASE Class(e[2]) # 0
  <2>1. Class(e[2]) \in 1 .. HugeBin
    BY <1>1, <1>4, BlocksAssumption
  <2> QED
    BY <1>2, <1>4, <2>1 DEF BinOf, Bins
<1> QED
  BY <1>3, <1>4

(* lockRemoveBlock keeps the invariant of the bins: the block leaves its    *)
(* bin, and the bit is cleared when that leaves nothing.                    *)
LEMMA Removed ==
    ASSUME LedgerOK, CtlOK, BinsInv, NEW t \in Threads, Mine(t), NEW p \in Units, RemoveFromBin(p),
           myBin[p] \in Bins, tLock[myBin[p]] = t, Spot(t, p), Follows(t), BinFacts(t)', pc(t) # "setBit"
    PROVE  BinsInv'
<1> DEFINE c == myBin[p]
<1>1. /\ bins' = [bins EXCEPT ![c] = RemoveFirst(bins[c], p)]
      /\ bit' = [bit EXCEPT ![c] = bit[c] /\ bins'[c] # <<>>]
      /\ tLock' = [tLock EXCEPT ![c] = NoThread]
      /\ myBin' = [myBin EXCEPT ![p] = NoBin]
  BY DEF RemoveFromBin
<1>2. /\ myBin \in [Units -> Bins \cup {NoBin}] /\ bins \in [Bins -> Seq(Units)]
      /\ bit \in [Bins -> BOOLEAN] /\ tLock \in [Bins -> Threads \cup {NoThread}] /\ c \in Bins
      /\ \A b \in Bins : Distinct(bins[b])
  BY DEF BinsInv, BinTypes
<1> HIDE DEF c
<1>3. /\ RemoveFirst(bins[c], p) \in Seq(Units) /\ Distinct(RemoveFirst(bins[c], p))
      /\ \A d : d \in Elements(RemoveFirst(bins[c], p)) <=> d \in Elements(bins[c]) /\ d # p
  BY <1>2, Unlink
<1>4. /\ bins'[c] = RemoveFirst(bins[c], p) /\ \A b \in Bins : b # c => bins'[b] = bins[b] /\ bit'[b] = bit[b] /\ tLock'[b] = tLock[b]
      /\ bit'[c] = (bit[c] /\ bins'[c] # <<>>)
  BY <1>1, <1>2
<1>5. BinTypes'
  <2>1. bins' \in [Bins -> Seq(Units)]
    BY <1>1, <1>2, <1>3
  <2>2. bit' \in [Bins -> BOOLEAN]
    BY <1>1, <1>2
  <2>3. tLock' \in [Bins -> Threads \cup {NoThread}] /\ myBin' \in [Units -> Bins \cup {NoBin}]
    BY <1>1, <1>2
  <2> QED
    BY <2>1, <2>2, <2>3 DEF BinTypes
<1>6. \A b \in Bins : Distinct(bins'[b])
  BY <1>2, <1>3, <1>4
<1>7. Locks(t)
  <2>1. tLock[c] = t
    BY DEF c
  <2> QED
    BY <1>4, <2>1 DEF Locks
<1>8. Writes(t)
  BY <1>1, <1>2 DEF Writes
<1>9. Members(t)
  <2> SUFFICES ASSUME NEW b \in Bins, NEW q \in Elements(bins'[b])
               PROVE  q \in Elements(bins[b]) /\ myBin'[q] = myBin[q]
    BY DEF Members
  <2>1. q \in Elements(bins[b]) /\ (b = c => q # p)
    BY <1>3, <1>4
  <2>2. myBin[q] = b /\ q \in Units
    BY <2>1, BinBegins DEF BinsInv, BinMembers
  <2>3. q # p
    BY <2>1, <2>2 DEF c
  <2> QED
    BY <1>1, <1>2, <2>1, <2>2, <2>3
<1>10. Masks(t)
  <2> SUFFICES ASSUME NEW b \in Bins, bins'[b] # <<>>
               PROVE  bins[b] # <<>> /\ (bit[b] => bit'[b])
    BY DEF Masks, At, pc
  <2>1. CASE b # c
    BY <1>4, <2>1
  <2>2. CASE b = c
    <3>1. PICK d : d \in Elements(bins'[c])
      <4>1. bins'[c] \in Seq(Units) /\ bins'[c] # <<>>
        BY <1>3, <1>4, <2>2
      <4>2. 1 \in DOMAIN bins'[c]
        BY <4>1, EmptySeq, LenProperties
      <4> QED
        BY <4>2 DEF Elements
    <3>2. d \in Elements(bins[c])
      BY <1>3, <1>4, <3>1
    <3>3. bins[c] # <<>>
      BY <3>2, Single
    <3> QED
      BY <1>4, <2>2, <3>3
  <2> QED
    BY <2>1, <2>2
<1> QED
  BY <1>5, <1>6, <1>7, <1>8, <1>9, <1>10, BinsStep

(* tryAddBlock names the bin of the block.                                  *)
LEMMA AddStep ==
    ASSUME IInv, Local, NEW t \in Threads, Path(t), Add(t), Mine(t),
           NEW e, e = blk(t)
    PROVE  LedgerOK' /\ Ctl(t)' /\ SideCtl(t)' /\ BinsInv'
<1>1. /\ pc(t) = "add" /\ blk(t)' = blk(t) /\ th'[t].tmp = th[t].tmp /\ th'[t].cur = th[t].cur
      /\ th'[t].whole = th[t].whole /\ th'[t].inBin = th[t].inBin /\ th'[t].goal = th[t].goal
      /\ th'[t].list = th[t].list /\ Carries(t)
      /\ pc(t)' = IF BinOf(blk(t)) = NoBin THEN "free" ELSE "tryAdd"
  BY DEF Add, Local, Rec, Fields, At, Goto, pc, blk, Carries
<1>0. Ctl(t) /\ LedgerOK /\ CtlOK /\ BinsInv /\ BinFacts(t)
  BY DEF IInv, CtlOK, BinsInv
<1>o. /\ "blk" \in Private /\ e \in Keeps("blk", t) /\ e[1] \in Units /\ Spot(t, e[1]) /\ e \in Extents
  <2>1. "blk" \in Private /\ e \in Keeps("blk", t)
    BY <1>1 DEF Private, Keeps, When, Piece, Coalescing
  <2> QED
    BY <1>0, <2>1, OwnPlace, OwnSpot
<1>b. /\ myBin \in [Units -> Bins \cup {NoBin}] /\ bins \in [Bins -> Seq(Units)]
      /\ bit \in [Bins -> BOOLEAN] /\ tLock \in [Bins -> Threads \cup {NoThread}]
      /\ \A b \in Bins : Distinct(bins[b])
  BY <1>0 DEF BinsInv, BinTypes
<1>2. /\ used' = used /\ queue' = queue /\ regions' = regions /\ myL' = myL /\ leftL' = leftL
      /\ myBin' = [myBin EXCEPT ![e[1]] = BinOf(e)] /\ bins' = bins /\ bit' = bit
      /\ tLock' = tLock
  BY DEF Add, heap, words, counters, Goto
<1>4. \A k \in Private : Keeps(k, t)' = Keeps(k, t)
  BY <1>1, <1>0 DEF Private, Keeps, When, Coalescing, Piece, InList, Right, Current, Carries
<1>6. Still(t)
  BY <1>2, <1>4 DEF Still, Queued
<1>7. Side(t)' = Side(t)
  BY <1>1 DEF Side
<1>9. LedgerOK'
  BY <1>0, <1>2, <1>6, <1>7, Unmoved
<1>10. Ctl(t)'
  <2>1. WholeCtl(t)'
    BY <1>0, <1>1 DEF Ctl, WholeCtl
  <2>2. ListCtl(t)'
    BY <1>0, <1>1, SameList DEF Coalescing, Ctl
  <2> QED
    BY <1>0, <1>1, <2>1, <2>2, CoalesceCtl DEF Coalescing
<1>11. BinsInv'
  <2>0. BinOf(e) \in Bins \cup {NoBin} /\ BinOf(e)' = BinOf(e)
    BY <1>o, BinOfType DEF BinOf, Class
  <2>1. BinFacts(t)'
    <3>1. myBin'[e[1]] = BinOf(e)
      BY <1>2, <1>b, <1>o
    <3> QED
      BY <1>1, <2>0, <3>1 DEF BinFacts, Scanning
  <2>2. BinTypes' /\ \A b \in Bins : Distinct(bins'[b])
    BY <1>2, <1>b, <2>0 DEF BinTypes
  <2>3. Locks(t) /\ Writes(t)
    BY <1>2, <1>b, <1>o DEF Locks, Writes
  <2>f. Follows(t)
    <3>1. \A k \in Private : \A d \in Keeps(k, t) :
              Listed(<<k, t>>, d) /\ myBin'[d[1]] = myBin[d[1]] => Listed(<<k, t>>, d)'
      BY <1>0, <1>1 DEF Private, Keeps, When, Coalescing, Piece, Listed, Registered, Sized,
         BinOf, Class
    <3> QED
      BY <1>6, <3>1, FollowsStill
  <2>4. Members(t)
    <3>1. ~Listed(<<"blk", t>>, e)
      BY <1>1 DEF Listed, Registered
    <3>2. \A b \in Bins : e[1] \notin Elements(bins[b])
      BY <1>0, <1>o, <3>1, OwnUnlisted
    <3> QED
      BY <1>0, <1>2, <1>b, <3>2, BinBegins DEF Members
  <2>5. Masks(t)
    BY <1>1, <1>2 DEF Masks, At, pc
  <2> QED
    BY <1>0, <1>6, <2>1, <2>2, <2>3, <2>4, <2>5, <2>f, BinsStep DEF Still
<1>12. SideCtl(t)'
  BY <1>1 DEF SideCtl
<1> QED
  BY <1>9, <1>10, <1>11, <1>12

(* tryAddBlock puts the block into its bin and unlocks it.                  *)
LEMMA InsertStep ==
    ASSUME IInv, Local, NEW t \in Threads, Path(t), Insert(t), Mine(t),
           NEW e, e = blk(t), NEW c, c = myBin[blk(t)[1]]
    PROVE  LedgerOK' /\ Ctl(t)' /\ SideCtl(t)' /\ BinsInv'
<1>1. /\ pc(t) = "insert" /\ pc(t)' = "setBit" /\ blk(t)' = blk(t) /\ th'[t].tmp = th[t].tmp
      /\ th'[t].cur = th[t].cur /\ th'[t].whole = th[t].whole /\ th'[t].inBin = th[t].inBin
      /\ th'[t].goal = th[t].goal /\ th'[t].list = th[t].list /\ Carries(t)
  BY DEF Insert, Local, Rec, Fields, At, Goto, pc, blk, Carries
<1>0. Ctl(t) /\ LedgerOK /\ CtlOK /\ BinsInv /\ BinFacts(t)
  BY DEF IInv, CtlOK, BinsInv
<1>o. /\ "blk" \in Private /\ e \in Keeps("blk", t) /\ e[1] \in Units /\ Spot(t, e[1]) /\ e \in Extents
  <2>1. "blk" \in Private /\ e \in Keeps("blk", t)
    BY <1>1 DEF Private, Keeps, When, Piece, Coalescing
  <2> QED
    BY <1>0, <2>1, OwnPlace, OwnSpot
<1>b. /\ myBin \in [Units -> Bins \cup {NoBin}] /\ bins \in [Bins -> Seq(Units)]
      /\ bit \in [Bins -> BOOLEAN] /\ tLock \in [Bins -> Threads \cup {NoThread}]
      /\ \A b \in Bins : Distinct(bins[b])
  BY <1>0 DEF BinsInv, BinTypes
<1>c. c \in Bins /\ tLock[c] = t /\ c = BinOf(e) /\ BinOf(e) # NoBin
  BY <1>0, <1>1, <1>b, <1>o DEF BinFacts
<1>f. /\ bins'[c] \in Seq(Units) /\ (\A d : d \in Elements(bins'[c]) <=> d = e[1] \/ d \in Elements(bins[c]))
      /\ Distinct(bins'[c])
  <2>1. ~Listed(<<"blk", t>>, e)
    BY <1>1 DEF Listed, Registered
  <2>2. e[1] \notin Elements(bins[c])
    BY <1>0, <1>o, <1>c, <2>1, OwnUnlisted
  <2>3. bins'[c] = <<e[1]>> \o bins[c]
    BY <1>b, <1>c DEF Insert
  <2>4. Added(Units, bins[c], e[1], bins'[c])
    BY <1>b, <1>c, <1>o, <2>3, AddedFirst
  <2> QED
    BY <1>b, <1>c, <2>2, <2>3, <2>4 DEF Added
<1>2. /\ used' = used /\ queue' = queue /\ regions' = regions /\ myL' = myL /\ leftL' = leftL
      /\ bins' = [bins EXCEPT ![c] = <<e[1]>> \o bins[c]]
      /\ tLock' = [tLock EXCEPT ![c] = NoThread] /\ myBin' = myBin /\ bit' = bit
  BY DEF Insert, heap, words, counters, Goto
<1>4. \A k \in Private : Keeps(k, t)' = Keeps(k, t)
  BY <1>1, <1>0 DEF Private, Keeps, When, Coalescing, Piece, InList, Right, Current, Carries
<1>6. Still(t)
  BY <1>2, <1>4 DEF Still, Queued
<1>7. Side(t)' = Side(t)
  BY <1>1 DEF Side
<1>9. LedgerOK'
  BY <1>0, <1>2, <1>6, <1>7, Unmoved
<1>10. Ctl(t)'
  <2>1. WholeCtl(t)'
    BY <1>0, <1>1 DEF Ctl, WholeCtl
  <2>2. ListCtl(t)'
    BY <1>0, <1>1, SameList DEF Coalescing, Ctl
  <2> QED
    BY <1>0, <1>1, <2>1, <2>2, CoalesceCtl DEF Coalescing
<1>11. BinsInv'
  <2>0. BinOf(e)' = BinOf(e)
    BY DEF BinOf, Class
  <2>a. \A b \in Bins : b # c => bins'[b] = bins[b] /\ tLock'[b] = tLock[b]
    BY <1>2, <1>b, <1>c
  <2>1. BinFacts(t)'
    BY <1>1, <1>2, <1>c, <2>0 DEF BinFacts, Scanning
  <2>2. BinTypes' /\ \A b \in Bins : Distinct(bins'[b])
    <3>1. bins' \in [Bins -> Seq(Units)]
      BY <1>2, <1>b, <1>c, <1>f
    <3>2. tLock' \in [Bins -> Threads \cup {NoThread}]
      BY <1>2, <1>b
    <3> QED
      BY <1>2, <1>b, <1>f, <2>a, <3>1, <3>2 DEF BinTypes
  <2>3. Locks(t) /\ Writes(t)
    BY <1>2, <1>b, <1>c, <2>a DEF Locks, Writes
  <2>f. Follows(t)
    <3>1. \A k \in Private : \A d \in Keeps(k, t) :
              Listed(<<k, t>>, d) /\ myBin'[d[1]] = myBin[d[1]] => Listed(<<k, t>>, d)'
      BY <1>0, <1>1 DEF Private, Keeps, When, Coalescing, Piece, Listed, Registered, Sized,
         BinOf, Class
    <3> QED
      BY <1>6, <3>1, FollowsStill
  <2>4. Members(t)
    <3>1. e \in Contents'[<<"blk", t>>] /\ <<"blk", t>> \in Places
      BY <1>0, <1>6, <1>o, OwnPlace, StillContents
    <3>2. Listed(<<"blk", t>>, e)'
      BY <1>1, <1>2, <1>c, <2>0 DEF Listed, Registered, Sized
    <3>3. InBin(e[1], c)
      BY <1>2, <1>c, <3>1, <3>2 DEF InBin
    <3> QED
      BY <1>2, <1>f, <2>a, <3>3 DEF Members
  <2>5. Masks(t)
    BY <1>1, <1>2, <2>a DEF Masks, At, pc
  <2> QED
    BY <1>0, <1>6, <2>1, <2>2, <2>3, <2>4, <2>5, <2>f, BinsStep DEF Still
<1>12. SideCtl(t)'
  BY <1>1 DEF SideCtl
<1> QED
  BY <1>9, <1>10, <1>11, <1>12

(* tryAddBlock sets the bit of the bin.                                     *)
LEMMA SetBitStep ==
    ASSUME IInv, Local, NEW t \in Threads, Path(t), SetBit(t), Mine(t),
           NEW e, e = blk(t), NEW c, c = myBin[blk(t)[1]]
    PROVE  LedgerOK' /\ Ctl(t)' /\ SideCtl(t)' /\ BinsInv'
<1>1. /\ pc(t) = "setBit" /\ pc(t)' = "free" /\ blk(t)' = blk(t) /\ th'[t].tmp = th[t].tmp
      /\ th'[t].cur = th[t].cur /\ th'[t].whole = th[t].whole /\ th'[t].inBin = th[t].inBin
      /\ th'[t].goal = th[t].goal /\ th'[t].list = th[t].list /\ Carries(t)
  BY DEF SetBit, Local, Rec, Fields, At, Goto, pc, blk, Carries
<1>0. Ctl(t) /\ LedgerOK /\ CtlOK /\ BinsInv /\ BinFacts(t)
  BY DEF IInv, CtlOK, BinsInv
<1>o. /\ "blk" \in Private /\ e \in Keeps("blk", t) /\ e[1] \in Units /\ Spot(t, e[1]) /\ e \in Extents
  <2>1. "blk" \in Private /\ e \in Keeps("blk", t)
    BY <1>1 DEF Private, Keeps, When, Piece, Coalescing
  <2> QED
    BY <1>0, <2>1, OwnPlace, OwnSpot
<1>b. /\ myBin \in [Units -> Bins \cup {NoBin}] /\ bins \in [Bins -> Seq(Units)]
      /\ bit \in [Bins -> BOOLEAN] /\ tLock \in [Bins -> Threads \cup {NoThread}]
      /\ \A b \in Bins : Distinct(bins[b])
  BY <1>0 DEF BinsInv, BinTypes
<1>c. c \in Bins /\ c = BinOf(e)
  BY <1>0, <1>1, <1>b, <1>o DEF BinFacts
<1>2. /\ used' = used /\ queue' = queue /\ regions' = regions /\ myL' = myL /\ leftL' = leftL
      /\ bit' = [bit EXCEPT ![c] = TRUE] /\ bins' = bins /\ myBin' = myBin /\ tLock' = tLock
  BY DEF SetBit, heap, words, counters, Goto
<1>4. \A k \in Private : Keeps(k, t)' = Keeps(k, t)
  BY <1>1, <1>0 DEF Private, Keeps, When, Coalescing, Piece, InList, Right, Current, Carries
<1>6. Still(t)
  BY <1>2, <1>4 DEF Still, Queued
<1>7. Side(t)' = Side(t)
  BY <1>1 DEF Side
<1>9. LedgerOK'
  BY <1>0, <1>2, <1>6, <1>7, Unmoved
<1>10. Ctl(t)'
  <2>1. WholeCtl(t)'
    BY <1>0, <1>1 DEF Ctl, WholeCtl
  <2>2. ListCtl(t)'
    BY <1>0, <1>1, SameList DEF Coalescing, Ctl
  <2> QED
    BY <1>0, <1>1, <2>1, <2>2, CoalesceCtl DEF Coalescing
<1>11. BinsInv'
  <2>1. BinFacts(t)'
    BY <1>1, NoBinFacts DEF Scanning
  <2>2. BinTypes' /\ \A b \in Bins : Distinct(bins'[b])
    BY <1>2, <1>b DEF BinTypes
  <2>3. Locks(t) /\ Writes(t)
    BY <1>2 DEF Locks, Writes
  <2>f. Follows(t)
    <3>1. \A k \in Private : \A d \in Keeps(k, t) :
              Listed(<<k, t>>, d) /\ myBin'[d[1]] = myBin[d[1]] => Listed(<<k, t>>, d)'
      BY <1>0, <1>1 DEF Private, Keeps, When, Coalescing, Piece, Listed, Registered, Sized,
         BinOf, Class
    <3> QED
      BY <1>6, <3>1, FollowsStill
  <2>4. Members(t)
    BY <1>2 DEF Members
  <2>5. Masks(t)
    BY <1>1, <1>2, <1>b, <1>c DEF Masks, At, pc, blk
  <2> QED
    BY <1>0, <1>6, <2>1, <2>2, <2>3, <2>4, <2>5, <2>f, BinsStep DEF Still
<1>12. SideCtl(t)'
  BY <1>1 DEF SideCtl
<1> QED
  BY <1>9, <1>10, <1>11, <1>12

(* lockRemoveBlock takes the right neighbour out of its bin.                *)
LEMMA RemoveRightStep ==
    ASSUME IInv, Local, NEW t \in Threads, Path(t), RemoveRight(t), Mine(t),
           NEW e, e = Right(t)
    PROVE  LedgerOK' /\ Ctl(t)' /\ SideCtl(t)' /\ BinsInv'
<1>1. /\ pc(t) = "removeRight" /\ pc(t)' = "next" /\ blk(t)' = blk(t) /\ th'[t].tmp = th[t].tmp
      /\ th'[t].cur = th[t].cur /\ th'[t].whole = th[t].whole /\ th'[t].inBin = th[t].inBin
      /\ th'[t].goal = th[t].goal /\ th'[t].list = th[t].list /\ Carries(t)
  BY DEF RemoveRight, Local, Rec, Fields, At, Goto, pc, blk, Carries
<1>0. Ctl(t) /\ LedgerOK /\ CtlOK /\ BinsInv /\ BinFacts(t)
  BY DEF IInv, CtlOK, BinsInv
<1>o. /\ "right" \in Private /\ e \in Keeps("right", t) /\ e[1] \in Units /\ Spot(t, e[1]) /\ e \in Extents
  <2>1. "right" \in Private /\ e \in Keeps("right", t)
    BY <1>1 DEF Private, Keeps, When, Piece, Coalescing
  <2> QED
    BY <1>0, <2>1, OwnPlace, OwnSpot
<1>c. e[1] = End(blk(t)) /\ myBin[e[1]] \in Bins /\ tLock[myBin[e[1]]] = t
  BY <1>0, <1>1, <1>o DEF BinFacts, BinsInv, BinTypes, Right
<1>r. RemoveFromBin(e[1]) /\ myBin'[e[1]] = NoBin /\ NoBin # myBin[e[1]]
  BY <1>0, <1>c, <1>o, NoBinApart DEF RemoveRight, RemoveFromBin, BinsInv, BinTypes
<1>2. /\ used' = used /\ queue' = queue /\ regions' = regions /\ myL' = myL /\ leftL' = leftL
  BY DEF RemoveRight, heap, words, counters, Goto
<1>4. \A k \in Private : Keeps(k, t)' = Keeps(k, t)
  BY <1>1, <1>0 DEF Private, Keeps, When, Coalescing, Piece, InList, Right, Current, Carries
<1>6. Still(t)
  BY <1>2, <1>4 DEF Still, Queued
<1>7. Side(t)' = Side(t)
  BY <1>1 DEF Side
<1>9. LedgerOK'
  BY <1>0, <1>2, <1>6, <1>7, Unmoved
<1>10. Ctl(t)'
  <2>1. WholeCtl(t)'
    BY <1>0, <1>1 DEF Ctl, WholeCtl
  <2>2. ListCtl(t)'
    BY <1>0, <1>1, SameList DEF Coalescing, Ctl
  <2> QED
    BY <1>0, <1>1, <2>1, <2>2, CoalesceCtl DEF Coalescing
<1>11. BinsInv'
  <2>1. BinFacts(t)'
    BY <1>1, <1>c, <1>r DEF BinFacts, Scanning
  <2>f. Follows(t)
    <3>1. \A k \in Private : \A d \in Keeps(k, t) :
              Listed(<<k, t>>, d) /\ myBin'[d[1]] = myBin[d[1]] => Listed(<<k, t>>, d)'
      BY <1>0, <1>1, <1>c, <1>r DEF Private, Keeps, When, Coalescing, Piece, Listed,
         Registered, Sized, BinOf, Class, Right
    <3> QED
      BY <1>6, <3>1, FollowsStill
  <2> QED
    BY <1>0, <1>1, <1>6, <1>c, <1>o, <1>r, <2>1, <2>f, Removed DEF Still
<1>12. SideCtl(t)'
  BY <1>1 DEF SideCtl
<1> QED
  BY <1>9, <1>10, <1>11, <1>12

(* lockRemoveBlock takes the block itself out of its bin.                   *)
LEMMA RemoveMineStep ==
    ASSUME IInv, Local, NEW t \in Threads, Path(t), RemoveMine(t), Mine(t),
           NEW e, e = blk(t)
    PROVE  LedgerOK' /\ Ctl(t)' /\ SideCtl(t)' /\ BinsInv'
<1>1. /\ pc(t) = "remove" /\ blk(t)' = blk(t) /\ th'[t].tmp = th[t].tmp
      /\ th'[t].cur = th[t].cur /\ th'[t].whole = th[t].whole /\ th'[t].inBin = th[t].inBin
      /\ th'[t].goal = th[t].goal /\ th'[t].list = th[t].list /\ Carries(t)
      /\ pc(t)' = th[t].goal /\ th[t].goal \in {"requeue", "release", "add"}
  BY DEF RemoveMine, Path, Local, Rec, Fields, At, Goto, pc, blk, Carries
<1>0. Ctl(t) /\ LedgerOK /\ CtlOK /\ BinsInv /\ BinFacts(t)
  BY DEF IInv, CtlOK, BinsInv
<1>o. /\ "blk" \in Private /\ e \in Keeps("blk", t) /\ e[1] \in Units /\ Spot(t, e[1]) /\ e \in Extents
  <2>1. "blk" \in Private /\ e \in Keeps("blk", t)
    BY <1>1 DEF Private, Keeps, When, Piece, Coalescing
  <2> QED
    BY <1>0, <2>1, OwnPlace, OwnSpot
<1>e. Empty(t)' <=> Empty(t)
  BY <1>1, SameEmpty
<1>c. myBin[e[1]] \in Bins /\ tLock[myBin[e[1]]] = t
  BY <1>0, <1>1, <1>o DEF BinFacts, BinsInv, BinTypes
<1>r. RemoveFromBin(e[1]) /\ myBin'[e[1]] = NoBin /\ NoBin # myBin[e[1]]
  BY <1>0, <1>c, <1>o, NoBinApart DEF RemoveMine, RemoveFromBin, BinsInv, BinTypes
<1>2. /\ used' = used /\ queue' = queue /\ regions' = regions /\ myL' = myL /\ leftL' = leftL
  BY DEF RemoveMine, heap, words, counters, Goto
<1>4. \A k \in Private : Keeps(k, t)' = Keeps(k, t)
  BY <1>1, <1>0 DEF Private, Keeps, When, Coalescing, Piece, InList, Right, Current, Carries
<1>6. Still(t)
  BY <1>2, <1>4 DEF Still, Queued
<1>7. Side(t)' = Side(t)
  BY <1>1 DEF Side
<1>9. LedgerOK'
  BY <1>0, <1>2, <1>6, <1>7, Unmoved
<1>10. Ctl(t)'
  <2>1. WholeCtl(t)'
    BY <1>0, <1>1, <1>e DEF Ctl, WholeCtl
  <2>2. ListCtl(t)'
    BY <1>0, <1>1, SameList DEF Coalescing, Ctl
  <2> QED
    BY <1>0, <1>1, <2>1, <2>2, CoalesceCtl DEF Coalescing
<1>11. BinsInv'
  <2>1. BinFacts(t)'
    BY <1>1, NoBinFacts DEF Scanning
  <2>f. Follows(t)
    <3>1. \A k \in Private : \A d \in Keeps(k, t) :
              Listed(<<k, t>>, d) /\ myBin'[d[1]] = myBin[d[1]] => Listed(<<k, t>>, d)'
      BY <1>0, <1>1, <1>c, <1>r DEF Private, Keeps, When, Coalescing, Piece, Listed,
         Registered, Sized, BinOf, Class
    <3> QED
      BY <1>6, <3>1, FollowsStill
  <2> QED
    BY <1>0, <1>1, <1>6, <1>c, <1>o, <1>r, <2>1, <2>f, Removed DEF Still
<1>12. SideCtl(t)'
  BY <1>1 DEF SideCtl
<1> QED
  BY <1>9, <1>10, <1>11, <1>12

(* Alignment leads upwards.                                                 *)
LEMMA AlignUpType ==
    ASSUME NEW p \in Nat
    PROVE  AlignUp(p) \in Nat /\ p <= AlignUp(p)
<1>1. Slab \in Nat \ {0}
  BY BlocksAssumption
<1> DEFINE n == p + Slab - 1
           q == n \div Slab
<1>n. n \in Int
  BY <1>1
<1>d. n = p + Slab - 1
  OBVIOUS
<1> HIDE DEF n
<1>2. q \in Int /\ n % Slab \in 0 .. Slab - 1 /\ n = Slab * q + (n % Slab)
  BY <1>1, <1>n, DivMod
<1>3. AlignUp(p) = q * Slab
  BY DEF AlignUp, n
<1> HIDE DEF q
<1>4. q * Slab = Slab * q
  BY <1>1, <1>2
<1>5. p <= q * Slab
  BY <1>1, <1>2, <1>4, <1>d
<1>6. q * Slab \in Int
  BY <1>1, <1>2
<1> QED
  BY <1>3, <1>5, <1>6

(* What a request asks for.                                                 *)
LEMMA TotalType ==
    ASSUME NEW t \in Threads, th[t].req \in Requests
    PROVE  /\ Total(t) \in Nat /\ Total(t) > 0 /\ (th[t].req.aligned => th[t].req.size = Slab)
           /\ th[t].req.num \in Nat \ {0} /\ th[t].req.size \in Nat \ {0}
<1>1. th[t].req.num \in Nat \ {0} /\ th[t].req.size \in Nat \ {0} /\ (th[t].req.aligned => th[t].req.size = Slab)
  BY BlocksAssumption
<1>2. \A m, n \in Nat \ {0} : m * n \in Nat /\ m * n > 0
  OBVIOUS
<1> QED
  BY <1>1, <1>2 DEF Total

(* getBlock takes a block out of its bin.                                   *)
LEMMA TakeWholeStep ==
    ASSUME IInv, Local, NEW t \in Threads, Path(t), TakeWhole(t), Mine(t),
           NEW e, e = Current(t)
    PROVE  LedgerOK' /\ Ctl(t)' /\ SideCtl(t)' /\ BinsInv'
<1> DEFINE a == <<"cur", t>>
           b == <<"got", t>>
<1>1. /\ pc(t) = "take" /\ pc(t)' = "split" /\ blk(t)' = blk(t) /\ th'[t].tmp = 0
      /\ th'[t].cur = 0 /\ th'[t].whole = th[t].whole /\ th'[t].inBin = th[t].inBin
      /\ th'[t].goal = th[t].goal /\ th'[t].list = th[t].list /\ th'[t].req = th[t].req
      /\ th'[t].got = e /\ th'[t].ret = th[t].ret /\ th'[t].back = th[t].back
      /\ th'[t].bin = th[t].bin
  BY DEF TakeWhole, Local, Rec, Fields, At, Goto, pc, blk, Carries, words
<1>0. Ctl(t) /\ LedgerOK /\ CtlOK /\ BinsInv /\ BinFacts(t)
  BY DEF IInv, CtlOK, BinsInv
<1>o. /\ "cur" \in Private /\ e \in Keeps("cur", t) /\ e[1] \in Units /\ Spot(t, e[1]) /\ e \in Extents
      /\ e # NoExt /\ e[1] \in Nat /\ e[2] \in Nat /\ End(e) = e[1] + e[2]
  <2>1. "cur" \in Private /\ e \in Keeps("cur", t)
    BY <1>1 DEF Private, Keeps, When, Piece, Coalescing
  <2> QED
    BY <1>0, <2>1, OwnPlace, OwnSpot DEF End
<1>c. e[1] = th[t].cur /\ myBin[e[1]] = th[t].bin /\ th[t].bin \in Bins /\ tLock[th[t].bin] = t
  <2>1. th[t].cur \in Elements(bins[th[t].bin]) /\ tLock[th[t].bin] = t /\ th[t].bin \in Bins
    BY <1>0, <1>1 DEF BinFacts, Scanning, Ctl, BinCtl
  <2> QED
    BY <1>0, <2>1 DEF BinsInv, BinMembers, Current
<1>r. RemoveFromBin(e[1]) /\ myBin'[e[1]] = NoBin /\ NoBin # myBin[e[1]]
  <2>1. RemoveFromBin(e[1])
    BY <1>c DEF TakeWhole
  <2> QED
    BY <1>0, <1>c, <1>o, <2>1, NoBinApart DEF RemoveFromBin, BinsInv, BinTypes
<1>g. th[t].got = NoExt /\ th[t].list = <<>> /\ blk(t) = NoExt /\ ~th[t].whole /\ Fits(t) /\ th[t].req \in Requests
  BY <1>0, <1>1 DEF Ctl, GotCtl, ListCtl, WholeCtl, BinCtl, ReqCtl, Giving, Coalescing,
     Asking, Scanning
<1>2. /\ used' = used /\ queue' = queue /\ regions' = regions /\ myL' = myL /\ leftL' = leftL
  BY DEF TakeWhole, heap, Goto, words
<1>3. OursMoves(a, b, e)
  BY <1>2, PlaceNames DEF OursMoves, Queued, Private
<1>4. MineMoves(t, a, b, e)
  BY <1>1, <1>0, <1>g, <1>o DEF MineMoves, Private, Keeps, When, Coalescing, Piece, InList,
     Right, Current, Carries, FreeAt
<1>5. e \in Contents[a]
  <2>1. "cur" \in Private /\ e \in Keeps("cur", t)
    BY <1>1 DEF Private, Keeps, When, Piece, Right, Current, Coalescing
  <2> QED
    BY <2>1, ContentsAt
<1>6. Shift(t, a, b, e)
  BY <1>2, <1>3, <1>4, <1>5 DEF Shift, Reach, Private
<1>7. Side(t)' = Side(t)
  BY <1>1 DEF Side
<1>8. /\ ~LoosePlace(a) /\ MyWord(a) = Locked /\ LeftWord(a) = Locked /\ a # FREE
      /\ ~LoosePlace(b) /\ MyWord(b) = Locked /\ LeftWord(b) = Locked /\ b # FREE
  BY PlaceKinds, PlaceNames DEF Private
<1>w. MyWritten(a, b, e)
  BY <1>2, <1>8 DEF MyWritten, MyAt
<1>9. LedgerOK'
  BY <1>0, <1>1, <1>2, <1>6, <1>7, <1>8, Rename DEF MyAt
<1>10. Ctl(t)'
  <2>1. ListCtl(t)'
    BY <1>0, <1>1 DEF Ctl, ListCtl, Coalescing, Asking, Scanning
  <2>2. GotCtl(t)'
    <3>1. Total(t)' = Total(t) /\ Total(t) \in Nat
      BY <1>1, <1>g, SameRequest, TotalType
    <3>2. Result(t)' = IF ~th[t].req.aligned THEN e[1] ELSE IF th[t].bin[1] THEN End(e) - Total(t) ELSE AlignUp(e[1])
      BY <1>1, <3>1 DEF Result
    <3>3. (IF th[t].req.aligned /\ ~th[t].bin[1] THEN AlignUp(e[1]) ELSE e[1]) + Total(t) <= End(e)
      BY <1>c, <1>g DEF Fits, FitsAt
    <3>4. AlignUp(e[1]) \in Nat /\ e[1] <= AlignUp(e[1])
      BY <1>o, AlignUpType
    <3>5. e[1] <= Result(t)' /\ Result(t)' + Total(t)' <= End(e)
      BY <1>o, <3>1, <3>2, <3>3, <3>4
    <3> QED
      BY <1>1, <1>o, <3>5 DEF GotCtl, Giving
  <2>3. ReqCtl(t)'
    BY <1>1, <1>g DEF ReqCtl
  <2>4. WholeCtl(t)' /\ BinCtl(t)'
    BY <1>0, <1>1, <1>g DEF Ctl, WholeCtl, BinCtl, Scanning
  <2> QED
    BY <2>1, <2>2, <2>3, <2>4 DEF Ctl
<1>11. BinsInv'
  <2>1. BinFacts(t)'
    BY <1>1, NoBinFacts DEF Scanning
  <2>2. myBin'[e[1]] # myBin[e[1]]
    BY <1>r
  <2>3. \A k \in Private : \A d \in Keeps(k, t) :
            Listed(<<k, t>>, d) /\ myBin'[d[1]] = myBin[d[1]] =>
                Listed(<<k, t>>, d)' \/ (a = <<k, t>> /\ d = e)
    BY <1>0, <1>1, <1>g DEF Private, Keeps, When, Coalescing, Piece, Listed, Registered
  <2>4. Follows(t)
    BY <1>0, <1>6, <1>w, <2>2, <2>3, FollowsShift
  <2> QED
    BY <1>0, <1>1, <1>6, <1>c, <1>o, <1>r, <2>1, <2>4, Removed DEF Shift
<1>12. SideCtl(t)'
  BY <1>1 DEF SideCtl
<1> QED
  BY <1>9, <1>10, <1>11, <1>12

(* Pieces go out of places and come into places: pairs <<place, extent>>.   *)
Turn(x, z, Z, Out, In) == (z \in Z /\ <<x, z>> \notin Out) \/ <<x, z>> \in In
Turned(S, S2, Out, In) == \A x \in Places : \A z : z \in S2[x] <=> Turn(x, z, S[x], Out, In)
Turns(t, Out, In) ==
    /\ Mine(t)
    /\ \A u \in Threads : \A k \in Private : \A z : u # t => <<<<k, u>>, z>> \notin Out \cup In
    /\ \A z : z \in Free' <=> Turn(FREE, z, Free, Out, In)
    /\ \A z : z \in used' <=> Turn(USED, z, used, Out, In)
    /\ \A z : z \in Queued' <=> Turn(QUEUE, z, Queued, Out, In)
    /\ \A k \in Private : \A z : z \in Keeps(k, t)' <=> Turn(<<k, t>>, z, Keeps(k, t), Out, In)

(* When a thread exchanges pieces within places it may reach, no other      *)
(* piece changes places.                                                    *)
LEMMA ThreadTurns ==
    ASSUME NEW t \in Threads, NEW Out, NEW In, Turns(t, Out, In)
    PROVE  Turned(Contents, Contents', Out, In)
<1> SUFFICES ASSUME NEW x \in Places, NEW z
             PROVE  z \in Contents'[x] <=> Turn(x, z, Contents[x], Out, In)
  BY DEF Turned
<1>1. CASE x = FREE
  BY <1>1, ContentsAt, ContentsNext DEF Turns
<1>2. CASE x = USED
  BY <1>2, ContentsAt, ContentsNext DEF Turns
<1>3. CASE x = QUEUE
  BY <1>3, ContentsAt, ContentsNext DEF Turns
<1>4. ASSUME NEW k \in Private, NEW u \in Threads, x = <<k, u>>
      PROVE  z \in Contents'[x] <=> Turn(x, z, Contents[x], Out, In)
  <2>1. Contents[x] = Keeps(k, u) /\ Contents'[x] = Keeps(k, u)'
    BY <1>4, ContentsAt, ContentsNext
  <2>2. CASE u = t
    BY <1>4, <2>1, <2>2 DEF Turns
  <2>3. CASE u # t
    <3>1. Keeps(k, u)' = Keeps(k, u) /\ <<x, z>> \notin Out \cup In
      BY <1>4, <2>3, OthersKeep DEF Turns
    <3> QED
      BY <2>1, <3>1 DEF Turn
  <2> QED
    BY <2>2, <2>3
<1> QED
  BY <1>1, <1>2, <1>3, <1>4, PlaceNames

(* One of the pieces that come in may take the place in a bin.              *)
Heir(p, In) == \E y \in Places : \E w : <<y, w>> \in In /\ w[1] = p /\ Listed(y, w)'

(* An exchange keeps listed what the bins list, when what is put in begins  *)
(* where what is taken out did.                                             *)
LEMMA FollowsTurn ==
    ASSUME NEW t \in Threads, NEW Out, NEW In, Turned(Contents, Contents', Out, In),
           \A x, z : <<x, z>> \in Out /\ Listed(x, z) /\ myBin'[z[1]] = myBin[z[1]] => Heir(z[1], In),
           \A k \in Private : \A z \in Keeps(k, t) :
               Listed(<<k, t>>, z) /\ myBin'[z[1]] = myBin[z[1]] =>
                   Listed(<<k, t>>, z)' \/ <<<<k, t>>, z>> \in Out
    PROVE  Follows(t)
<1> SUFFICES ASSUME NEW x \in Reach(t), NEW z \in Contents[x], Listed(x, z), myBin'[z[1]] = myBin[z[1]]
             PROVE  \E y \in Places : \E w \in Contents'[y] : w[1] = z[1] /\ Listed(y, w)'
  BY DEF Follows
<1>1. x \in Places
  BY Reached
<1>2. CASE <<x, z>> \in Out
  <2>1. PICK y \in Places : \E w : <<y, w>> \in In /\ w[1] = z[1] /\ Listed(y, w)'
    BY <1>2 DEF Heir
  <2>2. PICK w : <<y, w>> \in In /\ w[1] = z[1] /\ Listed(y, w)'
    BY <2>1
  <2> HIDE DEF Contents
  <2>3. w \in Contents'[y]
    BY <2>2 DEF Turned, Turn
  <2> QED
    BY <2>2, <2>3
<1>3. CASE <<x, z>> \notin Out
  <2> HIDE DEF Contents
  <2>0. z \in Contents'[x]
    BY <1>1, <1>3 DEF Turned, Turn
  <2>1. CASE x \in {FREE, USED, QUEUE}
    <3>1. Listed(x, z)'
      BY <2>1 DEF Listed, Registered, Sized, FREE, USED, QUEUE, BinOf, Class
    <3> QED
      BY <1>1, <2>0, <3>1
  <2>2. ASSUME NEW k \in Private, x = <<k, t>> PROVE Listed(x, z)'
    BY <1>3, <2>2, ContentsAt
  <2> QED
    BY <1>1, <2>0, <2>1, <2>2 DEF Reach
<1> QED
  BY <1>2, <1>3

(* When a thread does not have a kind of piece.                             *)
LEMMA KeepsNone ==
    ASSUME NEW t \in Threads, NEW k \in Private \ {"list", "got"}, pc(t) \notin When(k), pc(t)' \notin When(k)
    PROVE  Keeps(k, t) = {} /\ Keeps(k, t)' = {}
  BY DEF Keeps

(* The list and the result of a thread that leaves both alone.              *)
LEMMA KeepsLists ==
    ASSUME NEW t \in Threads, th'[t].list = th[t].list, th'[t].got = th[t].got
    PROVE  Keeps("list", t)' = Keeps("list", t) /\ Keeps("got", t)' = Keeps("got", t)
  BY DEF Keeps, InList

(* doCoalesc merges the block with its left neighbour.                      *)
LEMMA LockLeftTakenStep ==
    ASSUME IInv, Local, NEW t \in Threads, Path(t), LockLeft(t), Mine(t),
           ~(myL[blk(t)[1] - th[t].tmp] <= Coal),
           NEW e, e = blk(t), NEW d, d = Side(t), NEW f, f = <<d[1], d[2] + e[2]>>
    PROVE  LedgerOK' /\ Ctl(t)' /\ SideCtl(t)' /\ BinsInv'
<1> DEFINE b   == <<"blk", t>>
           Out == {<<FREE, d>>, <<b, e>>}
           In  == {<<b, f>>}
<1>x. /\ pc(t) = "left2" /\ d = <<e[1] - th[t].tmp, th[t].tmp>>
      /\ th' = [th EXCEPT ![t].pc = "right", ![t].tmp = 0, ![t].inBin = TRUE,
                          ![t].blk = <<d[1], End(e) - d[1]>>]
      /\ myL' = [myL EXCEPT ![d[1]] = Coal, ![e[1]] = Junk]
      /\ leftL' = [leftL EXCEPT ![e[1]] = Junk]
  BY DEF LockLeft, At, pc, Side
<1>0. Ctl(t) /\ LedgerOK /\ CtlOK /\ BinsInv /\ BinFacts(t) /\ SideCtl(t)
  BY DEF IInv, CtlOK, BinsInv
<1>o. /\ "blk" \in Private /\ b \in Places /\ e \in Contents[b] /\ e \in Extents /\ e[1] \in Units
      /\ End(e) \in Units /\ e[2] \in Nat /\ e[2] > 0 /\ e[1] \in Nat /\ End(e) = e[1] + e[2]
  <2>1. "blk" \in Private /\ e \in Keeps("blk", t)
    BY <1>x DEF Private, Keeps, When, Piece, Coalescing
  <2> QED
    BY <1>0, <2>1, OwnPlace DEF End
<1>d. /\ IsLoose(Contents, d) /\ End(d) \in Units /\ d[2] \in Nat /\ d[2] > 0 /\ d[1] \in Nat
      /\ End(d) = d[1] + d[2] /\ d # NoExt
  <2>1. d # NoExt
    BY <1>0, <1>x DEF SideCtl
  <2> QED
    BY <1>0, <2>1, SideType
<1>s. /\ d[1] = e[1] - th[t].tmp /\ d[2] = th[t].tmp /\ End(d) = e[1] /\ th[t].tmp \in Nat
      /\ d[1] # e[1] /\ d[1] < e[1]
  <2>1. d[1] = e[1] - th[t].tmp /\ d[2] = th[t].tmp
    BY <1>x
  <2> QED
    BY <1>o, <1>d, <2>1
<1>f. d \in Contents[FREE] /\ d[1] \in Units /\ myL[d[1]] = d[2] /\ d = <<d[1], d[2]>>
  <2>0. ~(myL[d[1]] <= Coal)
    BY <1>x, <1>s
  <2> HIDE DEF Contents, Sides
  <2>1. PICK x \in Places : LoosePlace(x) /\ d \in Contents[x]
    BY <1>d DEF IsLoose
  <2>2. d[1] \in Units /\ d = <<d[1], d[2]>>
    BY <1>0, <2>1, PieceType DEF LedgerOK
  <2>3. myL[d[1]] = IF x = FREE THEN d[2] ELSE MyWord(x)
    BY <1>0, <2>1 DEF LedgerOK, Ledger, MyRight
  <2>4. x = FREE
    BY <2>0, <2>3, WordValues DEF Coal, Locked
  <2> QED
    BY <2>1, <2>2, <2>3, <2>4
<1>b. f = <<d[1], End(e) - d[1]>> /\ f[1] = d[1]
  BY <1>o, <1>d, <1>s
<1>1. /\ pc(t)' = "right" /\ blk(t)' = f /\ th'[t].tmp = 0
      /\ th'[t].cur = th[t].cur /\ th'[t].whole = th[t].whole /\ th'[t].inBin = TRUE
      /\ th'[t].goal = th[t].goal /\ th'[t].list = th[t].list /\ Carries(t)
  BY <1>x, <1>b DEF Local, Rec, Fields, pc, blk, Carries
<1>2. /\ used' = used /\ queue' = queue /\ regions' = regions /\ UNCHANGED binned
  BY DEF LockLeft, heap
<1>m. /\ myL \in [Units -> Int] /\ leftL \in [Units -> Int]
  BY <1>0 DEF LedgerOK, Ledger
<1>n. myL[e[1]] = Coal
  <2>1. MyWord(b) = Coal /\ b # FREE
    BY PlaceKinds, PlaceNames, <1>o
  <2> HIDE DEF Contents, Sides
  <2> QED
    BY <1>0, <1>o, <2>1 DEF LedgerOK, Ledger, MyRight
<1>3. /\ myL' \in [Units -> Int] /\ leftL' \in [Units -> Int]
      /\ myL'[d[1]] = Coal /\ myL'[e[1]] = Junk /\ leftL'[e[1]] = Junk
      /\ \A p \in Units : p # d[1] /\ p # e[1] => myL'[p] = myL[p]
      /\ \A n \in Units : n # e[1] => leftL'[n] = leftL[n]
  BY <1>x, <1>m, <1>f, <1>o, <1>s DEF Coal, Junk
<1>4. \A z : z \in Free' <=> z \in Free /\ z # d
  <2>1. \A z : z \in Free <=> \E q \in Units : myL[q] > 0 /\ z = <<q, myL[q]>>
    BY DEF Free, EndMark
  <2>2. \A z : z \in Free' <=> \E q \in Units : myL'[q] > 0 /\ z = <<q, myL'[q]>>
    BY DEF Free, EndMark
  <2>3. \A q \in Units : myL'[q] > 0 <=> myL[q] > 0 /\ q # d[1]
    BY <1>3, <1>m, <1>n DEF Coal, Junk
  <2>4. \A q \in Units : myL'[q] > 0 => myL'[q] = myL[q]
    BY <1>3, <1>m, <1>n DEF Coal, Junk
  <2>5. \A q \in Units : <<q, myL[q]>> = d <=> q = d[1]
    BY <1>f
  <2> QED
    BY <2>1, <2>2, <2>3, <2>4, <2>5
<1>5. Turns(t, Out, In)
  <2>1. \A k \in Private : \A z :
            z \in Keeps(k, t)' <=> \/ z \in Keeps(k, t) /\ k # "blk"
                                   \/ k = "blk" /\ z = f
    <3>1. \A k \in Private : k # "blk" => Keeps(k, t)' = Keeps(k, t)
      <4>1. \A k \in Private \ {"list", "got", "blk"} : pc(t) \notin When(k) /\ pc(t)' \notin When(k)
        BY <1>x, <1>1 DEF Private, When
      <4> QED
        BY <1>1, <4>1, KeepsNone, KeepsLists DEF Carries
    <3>2. Keeps("blk", t)' = {f}
      BY <1>1 DEF Keeps, When, Coalescing, Piece
    <3> QED
      BY <3>1, <3>2
  <2>2. \A z : z \in Keeps("blk", t) <=> z = e
    BY <1>x DEF Private, Keeps, When, Coalescing, Piece
  <2>3. \A k \in Private : \A z :
            z \in Keeps(k, t)' <=> Turn(<<k, t>>, z, Keeps(k, t), Out, In)
    BY <2>1, <2>2, PlaceNames DEF Turn
  <2>4. \A u \in Threads : \A k \in Private : \A z : u # t => <<<<k, u>>, z>> \notin Out \cup In
    BY PlaceNames
  <2>5. FREE # b /\ USED # b /\ QUEUE # b /\ FREE # USED /\ FREE # QUEUE
    BY PlaceNames, <1>o
  <2> HIDE DEF b
  <2>6. /\ \A z : z \in Free' <=> Turn(FREE, z, Free, Out, In)
        /\ \A z : z \in used' <=> Turn(USED, z, used, Out, In)
        /\ \A z : z \in Queued' <=> Turn(QUEUE, z, Queued, Out, In)
    BY <1>2, <1>4, <2>5 DEF Turn, Queued
  <2> QED
    BY <2>3, <2>4, <2>6 DEF Turns
<1>6. Turned(Contents, Contents', Out, In)
  BY <1>5, ThreadTurns
<1>7. Merged(Contents, Contents', FREE, d, b, e, b, f)
  BY <1>6 DEF Merged, Turned, Turn
<1>8. /\ \A u \in Threads : Sides'[u] # d
      /\ \A u \in Threads : Sides'[u] = Sides[u] \/ (Sides[u] = d /\ Sides'[u] = NoExt)
  <2>1. /\ \A u \in Threads : u # t => Sides'[u] = Sides[u]
        /\ Sides[t] = d /\ Sides'[t] = Side(t)'
    BY SidesNext
  <2>2. Side(t)' = NoExt
    BY <1>1 DEF Side
  <2> HIDE DEF Contents, Sides
  <2>3. \A u \in Threads : Sides[u] = d => u = t
    BY <1>0, <1>d, <2>1 DEF LedgerOK, Ledger, SidesRight
  <2> QED
    BY <1>d, <2>1, <2>2, <2>3
<1>9. LedgerOK'
  <2>1. ~LoosePlace(b) /\ MyWord(b) = Coal /\ LeftWord(b) = Coal
    BY PlaceKinds, <1>o
  <2>2. FREE \in Places
    BY PlaceNames
  <2>3. Ledger(Contents, myL, leftL, Sides, regions)
    BY <1>0 DEF LedgerOK
  <2> HIDE DEF Contents, Sides, b
  <2>4. Ledger(Contents', myL', leftL', Sides', regions)
    BY <1>o, <1>f, <1>s, <1>7, <1>3, <1>8, <2>1, <2>2, <2>3, MergeTwo
  <2> QED
    BY <1>2, <2>4 DEF LedgerOK
<1>10. Ctl(t)'
  <2>1. WholeCtl(t)'
    BY <1>0, <1>x, <1>1 DEF Ctl, WholeCtl
  <2>2. ListCtl(t)'
    BY <1>0, <1>x, <1>1, SameList DEF Coalescing, Ctl
  <2> QED
    BY <1>0, <1>x, <1>1, <2>1, <2>2, CoalesceCtl DEF Coalescing
<1>11. BinsInv'
  <2>1. BinFacts(t)'
    BY <1>1, NoBinFacts DEF Scanning
  <2>2. BinFrame(t)
    BY <1>0, <1>x, <1>1, <1>2, <2>1 DEF BinFrame, binned, BinsInv, BinTypes
  <2>3. Listed(FREE, d) => Listed(b, f)'
    BY <1>1, <1>2, <1>b DEF Listed, Registered, Sized, binned
  <2>4. ~Listed(b, e)
    BY <1>x DEF Listed, Registered
  <2>5. \A k \in Private : \A z \in Keeps(k, t) : ~Listed(<<k, t>>, z)
    BY <1>x DEF Private, Keeps, When, Coalescing, Listed, Registered
  <2>6. Listed(FREE, d) => Heir(d[1], In)
    BY <1>b, <1>o, <2>3 DEF Heir
  <2>7. \A x, z : <<x, z>> \in Out /\ Listed(x, z) => Heir(z[1], In)
    BY <2>4, <2>6
  <2>8. Follows(t)
    BY <1>6, <2>5, <2>7, FollowsTurn
  <2> QED
    BY <1>0, <2>2, <2>8, BinsQuiet
<1>12. SideCtl(t)'
  BY <1>1 DEF SideCtl
<1> QED
  BY <1>9, <1>10, <1>11, <1>12

(* doCoalesc merges the block with its right neighbour, and looks at what   *)
(* follows.                                                                 *)
LEMMA PeekNextStep ==
    ASSUME IInv, Local, NEW t \in Threads, Path(t), PeekNext(t), Mine(t),
           NEW e, e = blk(t), NEW r, r = Right(t), NEW f, f = Merge(t),
           NEW v, v = myL[End(f)], NEW g, g = <<End(f), v>>
    PROVE  LedgerOK' /\ Ctl(t)' /\ SideCtl(t)' /\ BinsInv'
<1> DEFINE b   == <<"blk", t>>
           q   == <<"right", t>>
           h   == <<"half", t>>
           Out == {<<b, e>>, <<q, r>>} \cup (IF v > EndMark THEN {<<FREE, g>>} ELSE {})
           In  == {<<b, f>>} \cup (IF v > EndMark THEN {<<h, g>>} ELSE {})
<1>x. /\ pc(t) = "next"
      /\ myL' = [myL EXCEPT ![End(e)] = Junk, ![End(f)] = IF v > EndMark THEN Coal ELSE @]
      /\ leftL' = [leftL EXCEPT ![End(e)] = Junk]
      /\ th' = [th EXCEPT ![t].pc = IF v > EndMark THEN "unpeek" ELSE "put",
                          ![t].blk = f, ![t].whole = v = EndMark,
                          ![t].tmp = IF v > EndMark THEN v ELSE 0]
  BY DEF PeekNext, At, pc
<1>0. Ctl(t) /\ LedgerOK /\ CtlOK /\ BinsInv /\ BinFacts(t) /\ SideCtl(t)
  BY DEF IInv, CtlOK, BinsInv
<1>o. /\ "blk" \in Private /\ b \in Places /\ e \in Contents[b] /\ e \in Extents /\ e[1] \in Units
      /\ End(e) \in Units /\ e[2] \in Nat /\ e[2] > 0 /\ e[1] \in Nat /\ End(e) = e[1] + e[2]
  <2>1. "blk" \in Private /\ e \in Keeps("blk", t)
    BY <1>x DEF Private, Keeps, When, Piece, Coalescing
  <2> QED
    BY <1>0, <2>1, OwnPlace DEF End
<1>r. /\ "right" \in Private /\ q \in Places /\ r \in Contents[q] /\ r \in Extents /\ r[1] \in Units
      /\ End(r) \in Units /\ r[2] \in Nat /\ r[2] > 0 /\ r[1] \in Nat /\ End(r) = r[1] + r[2]
  <2>1. "right" \in Private /\ r \in Keeps("right", t)
    BY <1>x DEF Private, Keeps, When, Piece
  <2> QED
    BY <1>0, <2>1, OwnPlace DEF End
<1>h. "half" \in Private /\ h \in Places
  BY PlaceNames DEF Private
<1>s. /\ r[1] = End(e) /\ r[2] = th[t].tmp /\ f = <<e[1], e[2] + r[2]>> /\ f[1] = e[1] /\ End(f) = End(r)
      /\ e[1] # r[1] /\ End(f) # r[1] /\ End(f) # e[1] /\ End(f) \in Units
  <2>1. r[1] = End(e) /\ r[2] = th[t].tmp /\ f = <<e[1], e[2] + r[2]>>
    BY DEF Right, Merge
  <2>2. f[1] = e[1] /\ f[2] = e[2] + r[2] /\ End(f) = f[1] + f[2]
    BY <2>1 DEF End
  <2> QED
    BY <1>o, <1>r, <2>1, <2>2
<1>1. /\ pc(t)' = (IF v > EndMark THEN "unpeek" ELSE "put") /\ blk(t)' = f
      /\ th'[t].tmp = (IF v > EndMark THEN v ELSE 0)
      /\ th'[t].cur = th[t].cur /\ th'[t].whole = (v = EndMark) /\ th'[t].inBin = th[t].inBin
      /\ th'[t].goal = th[t].goal /\ th'[t].list = th[t].list /\ Carries(t)
  BY <1>x DEF Local, Rec, Fields, pc, blk, Carries
<1>2. /\ used' = used /\ queue' = queue /\ regions' = regions /\ UNCHANGED binned
  BY DEF PeekNext, heap
<1>m. /\ myL \in [Units -> Int] /\ leftL \in [Units -> Int] /\ v \in Int
      /\ g[1] = End(f) /\ g[2] = v /\ g = <<End(f), v>>
  BY <1>0, <1>s DEF LedgerOK, Ledger
<1>n. myL[e[1]] = Coal /\ myL[r[1]] = Coal
  <2>1. MyWord(b) = Coal /\ b # FREE /\ MyWord(q) = Coal /\ q # FREE
    BY PlaceKinds, PlaceNames, <1>o, <1>r
  <2> HIDE DEF Contents, Sides
  <2> QED
    BY <1>0, <1>o, <1>r, <2>1 DEF LedgerOK, Ledger, MyRight
<1>3. /\ myL' \in [Units -> Int] /\ leftL' \in [Units -> Int]
      /\ myL'[r[1]] = Junk /\ leftL'[r[1]] = Junk
      /\ myL'[End(f)] = (IF v > EndMark THEN Coal ELSE v)
      /\ \A p \in Units : p # r[1] /\ p # End(f) => myL'[p] = myL[p]
      /\ \A n \in Units : n # r[1] => leftL'[n] = leftL[n]
  BY <1>x, <1>m, <1>r, <1>s DEF Coal, Junk
<1>4. \A z : z \in Free' <=> z \in Free /\ (v > EndMark => z # g)
  <2>1. \A z : z \in Free <=> \E p \in Units : myL[p] > 0 /\ z = <<p, myL[p]>>
    BY DEF Free, EndMark
  <2>2. \A z : z \in Free' <=> \E p \in Units : myL'[p] > 0 /\ z = <<p, myL'[p]>>
    BY DEF Free, EndMark
  <2>3. \A p \in Units : myL'[p] > 0 <=> myL[p] > 0 /\ p # End(f)
    BY <1>3, <1>m, <1>n DEF Coal, Junk, EndMark
  <2>4. \A p \in Units : myL'[p] > 0 => myL'[p] = myL[p]
    BY <1>3, <1>m, <1>n DEF Coal, Junk, EndMark
  <2>5. \A p \in Units : <<p, myL[p]>> = g <=> p = End(f)
    BY <1>m
  <2>6. v > EndMark <=> myL[End(f)] > 0
    BY DEF EndMark
  <2> QED
    BY <1>s, <2>1, <2>2, <2>3, <2>4, <2>5, <2>6
<1>5. Turns(t, Out, In)
  <2>1. \A k \in Private \ {"blk", "right", "half"} : Keeps(k, t)' = Keeps(k, t)
    <3>1. \A k \in Private \ {"list", "got", "blk", "right", "half"} :
              pc(t) \notin When(k) /\ pc(t)' \notin When(k)
      BY <1>x, <1>1 DEF Private, When
    <3> QED
      BY <1>1, <3>1, KeepsNone, KeepsLists DEF Carries
  <2>2. /\ Keeps("blk", t) = {e} /\ Keeps("right", t) = {r} /\ Keeps("half", t) = {}
        /\ Keeps("blk", t)' = {f} /\ Keeps("right", t)' = {}
    BY <1>x, <1>1 DEF Keeps, When, Coalescing, Piece
  <2>3. Keeps("half", t)' = IF v > EndMark THEN {g} ELSE {}
    BY <1>x, <1>1 DEF Keeps, When, Piece, Right
  <2>4. \A k \in Private : \A z : z \in Keeps(k, t)' <=> Turn(<<k, t>>, z, Keeps(k, t), Out, In)
    BY <2>1, <2>2, <2>3, PlaceNames DEF Turn
  <2>5. \A u \in Threads : \A k \in Private : \A z : u # t => <<<<k, u>>, z>> \notin Out \cup In
    BY PlaceNames
  <2>6. /\ FREE \notin {b, q, h} /\ USED \notin {b, q, h} /\ QUEUE \notin {b, q, h}
        /\ FREE # USED /\ FREE # QUEUE
    BY PlaceNames, <1>o, <1>r, <1>h
  <2> HIDE DEF b, q, h
  <2>7. /\ \A z : z \in Free' <=> Turn(FREE, z, Free, Out, In)
        /\ \A z : z \in used' <=> Turn(USED, z, used, Out, In)
        /\ \A z : z \in Queued' <=> Turn(QUEUE, z, Queued, Out, In)
    BY <1>2, <1>4, <2>6 DEF Turn, Queued
  <2> QED
    BY <2>4, <2>5, <2>7 DEF Turns
<1>6. Turned(Contents, Contents', Out, In)
  BY <1>5, ThreadTurns
<1>8. \A u \in Threads : Sides'[u] = Sides[u]
  <2>1. Side(t)' = Side(t)
    BY <1>x, <1>1 DEF Side
  <2> QED
    BY <2>1, SidesNext
<1> DEFINE S  == [x \in Places |-> {z \in Contents[x] \cup {f} : Turn(x, z, Contents[x], {<<b, e>>, <<q, r>>}, {<<b, f>>})}]
           my == [myL EXCEPT ![r[1]] = Junk]
<1>l. Ledger(S, my, leftL', Sides, regions)
  <2>1. /\ ~LoosePlace(b) /\ MyWord(b) = Coal /\ LeftWord(b) = Coal
        /\ ~LoosePlace(q) /\ LeftWord(q) = Coal
    BY PlaceKinds, <1>o, <1>r
  <2>2. Ledger(Contents, myL, leftL, Sides, regions)
    BY <1>0 DEF LedgerOK
  <2>3. /\ my \in [Units -> Int] /\ my[e[1]] = Coal /\ my[r[1]] = Junk
        /\ \A p \in Units : p # e[1] /\ p # r[1] => my[p] = myL[p]
    BY <1>m, <1>n, <1>o, <1>r, <1>s DEF Junk
  <2>4. \A u \in Threads : Sides[u] # e
    <3> HIDE DEF Contents, Sides
    <3>1. ASSUME NEW u \in Threads, Sides[u] = e PROVE FALSE
      <4>1. e # NoExt
        BY <1>o, <2>2, PieceType
      <4>2. IsLoose(Contents, e)
        BY <2>2, <3>1, <4>1 DEF Ledger, SidesRight
      <4>3. PICK x \in Places : LoosePlace(x) /\ e \in Contents[x]
        BY <4>2 DEF IsLoose
      <4> QED
        BY <1>o, <2>1, <2>2, <4>3, SamePiece
    <3> QED
      BY <3>1
  <2> HIDE DEF Contents, Sides, my, b, q
  <2>5. \A x \in Places : \A z : z \in S[x] <=> Turn(x, z, Contents[x], {<<b, e>>, <<q, r>>}, {<<b, f>>})
    BY DEF Turn
  <2> HIDE DEF S
  <2>6. Merged(Contents, S, b, e, q, r, b, f)
    BY <2>5 DEF Merged, Turn
  <2>7. /\ leftL' \in [Units -> Int] /\ leftL'[r[1]] = Junk
        /\ \A n \in Units : n # r[1] => leftL'[n] = leftL[n]
    BY <1>3
  <2> QED
    BY <1>o, <1>r, <1>s, <2>1, <2>2, <2>3, <2>4, <2>6, <2>7, MergeTwo
<1>t. \A x \in Places : \A z : z \in S[x] <=> Turn(x, z, Contents[x], {<<b, e>>, <<q, r>>}, {<<b, f>>})
  <2> HIDE DEF Contents, b, q
  <2> QED
    BY DEF Turn
<1>9. LedgerOK'
  <2>1. CASE v > EndMark
    <3>1. Moved(S, Contents', FREE, g, h, g)
      <4>1. FREE # h /\ FREE # b /\ FREE # q /\ h # b /\ h # q
        BY PlaceNames, <1>o, <1>r, <1>h
      <4>2. Out = {<<b, e>>, <<q, r>>, <<FREE, g>>} /\ In = {<<b, f>>, <<h, g>>}
        BY <2>1
      <4> HIDE DEF Contents, S, b, q, h, Out, In
      <4> QED
        BY <1>t, <1>6, <4>1, <4>2 DEF Moved, Turned, Turn
    <3>2. g \in S[FREE] /\ FREE \in Places
      <4>1. FREE # b /\ FREE # q /\ FREE \in Places
        BY PlaceNames, <1>o, <1>r
      <4>2. g \in Contents[FREE]
        BY <1>s, <2>1, ContentsAt DEF Free
      <4> HIDE DEF Contents, S, b, q
      <4> QED
        BY <1>t, <4>1, <4>2 DEF Turn
    <3>3. LoosePlace(h) /\ MyWord(h) = Coal /\ h # FREE /\ LoosePlace(FREE)
      BY PlaceKinds, PlaceNames, <1>h
    <3>4. /\ myL' \in [Units -> Int] /\ leftL' \in [Units -> Int] /\ myL'[g[1]] = Coal
          /\ \A p \in Units : p # g[1] => myL'[p] = my[p]
      BY <1>3, <1>m, <1>r, <1>s, <2>1
    <3> HIDE DEF Contents, Sides, S, my, b, q, h, Out, In
    <3>5. /\ leftL'[End(g)] = g[2] \/ \E u \in Threads : Sides[u] = g
          /\ \A u \in Threads : Sides[u] = g => leftL'[End(g)] \in {Locked, Coal}
          /\ \A u, w \in Threads : Sides[u] = g /\ Sides[w] = g => u = w
      <4>1. g # NoExt
        BY <1>l, <3>2, PieceType
      <4> QED
        BY <1>l, <3>2, <3>3, <4>1 DEF Ledger, LeftRight, SidesRight
    <3>6. OneWords(h, g, my, myL', leftL', leftL', Sides, Sides')
      BY <1>8, <3>3, <3>4, <3>5 DEF OneWords, MyAt
    <3>7. Ledger(Contents', myL', leftL', Sides', regions)
      BY <1>l, <1>h, <3>1, <3>2, <3>6, MoveOne
    <3> QED
      BY <1>2, <3>7 DEF LedgerOK
  <2>2. CASE ~(v > EndMark)
    <3>1. Out = {<<b, e>>, <<q, r>>} /\ In = {<<b, f>>}
      BY <2>2
    <3>2. my = myL'
      BY <1>x, <1>m, <1>r, <1>s, <2>2
    <3> HIDE DEF Contents, Sides, S, my, b, q, Out, In
    <3>3. \A x \in Places : Contents'[x] = S[x]
      BY <1>t, <1>6, <3>1 DEF Turned
    <3>4. Ledger(Contents', myL', leftL', Sides', regions)
      BY <1>l, <1>8, <3>2, <3>3, Same
    <3> QED
      BY <1>2, <3>4 DEF LedgerOK
  <2> QED
    BY <2>1, <2>2
<1>10. Ctl(t)'
  <2>1. WholeCtl(t)'
    <3>1. v = EndMark => \E y \in Regions : End(y) = End(f)
      BY <1>0, <1>s DEF LedgerOK, Ledger, Tiling
    <3>2. v = EndMark => pc(t)' = "put"
      BY <1>1 DEF EndMark
    <3>3. pc(t)' \notin {"release", "unbin", "remove"}
      BY <1>1
    <3>4. (\E y \in Regions : End(y) = End(blk(t)))' <=> \E y \in Regions : End(y) = End(f)
      BY <1>1 DEF End
    <3>5. th'[t].whole => v = EndMark
      BY <1>1
    <3> QED
      BY <3>1, <3>2, <3>3, <3>4, <3>5 DEF WholeCtl
  <2>2. ListCtl(t)'
    BY <1>0, <1>x, <1>1, SameList DEF Coalescing, Ctl
  <2> QED
    BY <1>0, <1>x, <1>1, <2>1, <2>2, CoalesceCtl DEF Coalescing
<1>11. BinsInv'
  <2>1. BinFacts(t)'
    BY <1>1, NoBinFacts DEF Scanning
  <2>2. BinFrame(t)
    BY <1>0, <1>x, <1>1, <1>2, <2>1 DEF BinFrame, binned, BinsInv, BinTypes
  <2>3. Listed(b, e) => Listed(b, f)'
    BY <1>x, <1>1, <1>2, <1>s DEF Listed, Registered, Sized, binned
  <2>4. ~Listed(q, r)
    BY <1>x DEF Listed, Registered
  <2>5. v > EndMark /\ Listed(FREE, g) => Listed(h, g)'
    BY <1>1, <1>2 DEF Listed, Registered, Sized, binned, BinOf, Class, FREE
  <2>6. \A k \in Private : \A z \in Keeps(k, t) : Listed(<<k, t>>, z) => <<<<k, t>>, z>> \in Out
    <3>1. \A k \in Private : \A z \in Keeps(k, t) : Listed(<<k, t>>, z) => k = "blk" /\ z = e
      BY <1>x DEF Private, Keeps, When, Coalescing, Piece, Listed, Registered
    <3> QED
      BY <3>1
  <2>7. \A x, z : <<x, z>> \in Out /\ Listed(x, z) => Heir(z[1], In)
    <3>1. Listed(b, e) => Heir(e[1], In)
      BY <1>s, <1>o, <2>3 DEF Heir
    <3>2. v > EndMark /\ Listed(FREE, g) => Heir(g[1], In)
      BY <1>h, <2>5 DEF Heir
    <3> QED
      BY <2>4, <3>1, <3>2
  <2>8. Follows(t)
    BY <1>6, <2>6, <2>7, FollowsTurn
  <2> QED
    BY <1>0, <2>2, <2>8, BinsQuiet
<1>12. SideCtl(t)'
  BY <1>1 DEF SideCtl
<1> QED
  BY <1>9, <1>10, <1>11, <1>12

(* No free block begins inside another block.                               *)
LEMMA InnerWord ==
    ASSUME LedgerOK, NEW x \in Places, NEW e \in Contents[x], NEW p \in Units, e[1] < p, p < End(e)
    PROVE  ~(myL[p] > 0)
<1> SUFFICES ASSUME myL[p] > 0 PROVE FALSE
  OBVIOUS
<1> DEFINE d == <<p, myL[p]>>
<1> HIDE DEF Contents, Sides
<1>1. Ledger(Contents, myL, leftL, Sides, regions)
  BY DEF LedgerOK
<1>2. d \in Contents[FREE] /\ FREE \in Places
  BY <1>1, FreePlace DEF Ledger
<1>3. /\ d[1] = p /\ p \in Nat /\ e[1] \in Nat /\ End(e) \in Nat /\ End(d) \in Nat /\ p < End(d)
  BY <1>1, <1>2, PieceType
<1>4. Apart(d, e) \/ d = e
  BY <1>1, <1>2 DEF Ledger, Tiling, Disjoint
<1>5. d # e /\ ~Apart(d, e)
  BY <1>3 DEF Apart
<1> QED
  BY <1>4, <1>5

(* A whole number of slabs below an aligned end is aligned.                 *)
LEMMA WholeSlabs ==
    ASSUME NEW n \in Int, n % Slab = 0, NEW k \in Nat
    PROVE  (n - k * Slab) % Slab = 0
<1>1. Slab \in Nat \ {0}
  BY BlocksAssumption
<1> DEFINE q == n \div Slab
           m == n - k * Slab
<1>2. q \in Int /\ n = Slab * q + (n % Slab)
  BY <1>1, DivMod
<1> HIDE DEF q
<1>3. m = Slab * (q - k) + 0
  BY <1>1, <1>2, Z3
<1> HIDE DEF m
<1>4. q - k \in Int /\ 0 \in 0 .. Slab - 1
  BY <1>1, <1>2
<1> DEFINE c == q - k
<1>5. Splits(m, Slab, c, 0)
  BY <1>1, <1>3, <1>4 DEF Splits
<1> HIDE DEF c
<1>6. m % Slab = 0
  BY <1>5, DivUnique
<1> QED
  BY <1>6 DEF m

(* A block of the bins for whole slabs that keeps its class keeps its bin.  *)
LEMMA SameBin ==
    ASSUME NEW e \in Extents, BinOf(e) \in Bins, BinOf(e)[1], NEW k \in Nat \ {0}, NEW n, n = k * Slab,
           n <= e[2], Class(e[2] - n) = Class(e[2])
    PROVE  /\ e[2] - n \in Nat /\ e[2] - n > 0 /\ n \in Nat /\ n > 0
           /\ BinOf(<<e[1], e[2] - n>>) = BinOf(e)
<1>1. /\ Slab \in Nat \ {0} /\ MinBinned \in Nat \ {0} /\ HugeBin \in Nat \ {0} /\ Slab < MinBinned + HugeBin
  BY BlocksAssumption
<1>2. e[1] \in Nat /\ e[2] \in Nat /\ End(e) = e[1] + e[2]
  BY ExtentType DEF End
<1>3. n \in Nat /\ n > 0
  <2>1. \A a, b \in Nat \ {0} : a * b \in Nat /\ a * b > 0
    OBVIOUS
  <2> QED
    BY <1>1, <2>1
<1> DEFINE m == e[2] - n
           d == <<e[1], m>>
<1>4. m \in Nat /\ m < e[2]
  BY <1>2, <1>3
<1>5. Class(e[2]) # 0 /\ End(e) % Slab = 0
  <2>1. BinOf(e) # NoBin
    BY NoBinApart
  <2>2. Class(e[2]) # 0
    BY <2>1 DEF BinOf
  <2>3. BinOf(e)[1] = (End(e) % Slab = 0 /\ e[2] >= Slab)
    BY <2>2 DEF BinOf
  <2> QED
    BY <2>2, <2>3
<1> HIDE DEF m
<1>6. Class(m) = Class(e[2])
  BY DEF m
<1>7. m >= MinBinned /\ m >= Slab
  BY <1>1, <1>2, <1>4, <1>5, <1>6 DEF Class
<1>8. End(d) = End(e) - n /\ End(e) \in Nat
  BY <1>2, <1>3 DEF End, m
<1>9. End(d) % Slab = 0
  <2>1. (End(e) - k * Slab) % Slab = 0
    BY <1>5, <1>8, WholeSlabs
  <2> QED
    BY <1>8, <2>1
<1>10. d[2] = m
  OBVIOUS
<1>11. e[2] >= Slab
  BY <1>1, <1>2, <1>4, <1>7
<1>12. (End(d) % Slab = 0 /\ d[2] >= Slab) = (End(e) % Slab = 0 /\ e[2] >= Slab)
  BY <1>5, <1>7, <1>9, <1>10, <1>11
<1>13. BinOf(d) = BinOf(e)
  BY <1>5, <1>6, <1>10, <1>12 DEF BinOf
<1> QED
  BY <1>1, <1>3, <1>4, <1>7, <1>13 DEF m

(* getBlock cuts slabs from the right end of a block that stays in its bin. *)
LEMMA TakeInPlaceStep ==
    ASSUME IInv, Local, NEW t \in Threads, Path(t), TakeInPlace(t), Mine(t),
           NEW e, e = Current(t), NEW n, n = Total(t), NEW m, m = e[2] - n,
           NEW d, d = <<e[1], m>>, NEW g, g = <<e[1] + m, n>>
    PROVE  LedgerOK' /\ Ctl(t)' /\ SideCtl(t)' /\ BinsInv'
<1> DEFINE a   == <<"cur", t>>
           b   == <<"got", t>>
           Out == {<<a, e>>}
           In  == {<<FREE, d>>, <<b, g>>}
<1>x. /\ pc(t) = "take" /\ InPlace(t) /\ e[1] = th[t].cur /\ e[2] = th[t].tmp
      /\ myL' = [myL EXCEPT ![e[1] + m] = Locked, ![e[1]] = m]
      /\ leftL' = [leftL EXCEPT ![e[1] + m] = m]
      /\ th' = [th EXCEPT ![t].pc = "modify", ![t].got = g,
                          ![t].cur = 0, ![t].tmp = 0, ![t].bin = NoBin]
      /\ tLock' = [tLock EXCEPT ![th[t].bin] = NoThread]
  BY DEF TakeInPlace, At, pc, Current, Unlock
<1>0. Ctl(t) /\ LedgerOK /\ CtlOK /\ BinsInv /\ BinFacts(t)
  BY DEF IInv, CtlOK, BinsInv
<1>o. /\ "cur" \in Private /\ a \in Places /\ e \in Contents[a] /\ e \in Extents /\ e[1] \in Units
      /\ End(e) \in Units /\ e[2] \in Nat /\ e[2] > 0 /\ e[1] \in Nat /\ End(e) = e[1] + e[2]
      /\ e = <<e[1], e[2]>>
  <2>1. "cur" \in Private /\ e \in Keeps("cur", t)
    BY <1>x DEF Private, Keeps, When, Piece
  <2> QED
    BY <1>0, <2>1, OwnPlace, ExtentType DEF End
<1>h. "got" \in Private /\ b \in Places /\ FREE \in Places
  BY PlaceNames DEF Private
<1>c. /\ myBin[e[1]] = th[t].bin /\ th[t].bin \in Bins /\ tLock[th[t].bin] = t
      /\ e[1] \in Elements(bins[th[t].bin])
  <2>1. th[t].cur \in Elements(bins[th[t].bin]) /\ tLock[th[t].bin] = t /\ th[t].bin \in Bins
    BY <1>0, <1>x DEF BinFacts, Scanning, Ctl, BinCtl
  <2> QED
    BY <1>0, <1>x, <2>1 DEF BinsInv, BinMembers
<1>k. Listed(a, e) /\ BinOf(e) = th[t].bin
  <2>1. Listed(a, e)
    BY <1>0, <1>c, <1>o, <1>x, OwnUnlisted DEF Keeps, When, Piece
  <2> QED
    BY <1>c, <2>1 DEF Listed, Sized
<1>g. /\ th[t].got = NoExt /\ th[t].list = <<>> /\ blk(t) = NoExt /\ ~th[t].whole /\ Fits(t)
      /\ th[t].req \in Requests
  BY <1>0, <1>x DEF Ctl, GotCtl, ListCtl, WholeCtl, BinCtl, ReqCtl, Giving, Coalescing,
     Asking, Scanning
<1>t. n \in Nat /\ n > 0 /\ th[t].req.num \in Nat \ {0} /\ n = th[t].req.num * Slab /\ n <= e[2]
  <2>1. /\ n \in Nat /\ n > 0 /\ th[t].req.num \in Nat \ {0}
        /\ th[t].req.aligned => th[t].req.size = Slab
    BY <1>g, TotalType
  <2>2. th[t].req.aligned /\ th[t].bin[1]
    BY <1>x DEF InPlace
  <2>3. FitsAt(t) = e[1] /\ Fits(t)
    BY <1>g, <1>x, <2>2 DEF FitsAt
  <2>4. e[1] + n <= e[1] + e[2]
    BY <1>o, <2>3 DEF Fits
  <2> QED
    BY <1>o, <2>1, <2>2, <2>4 DEF Total
<1>s. /\ m \in Nat /\ m > 0 /\ m < e[2] /\ BinOf(d) = BinOf(e) /\ d = <<e[1], m>> /\ d[1] = e[1]
      /\ d[2] = m /\ g = <<e[1] + m, e[2] - m>> /\ End(g) = End(e) /\ g[1] = e[1] + m /\ g[2] = n
      /\ e[1] + m \in Nat /\ e[1] + m # e[1] /\ e[1] + m < End(e) /\ e[1] < e[1] + m /\ g # NoExt
  <2>1. BinOf(e)[1] /\ Class(e[2] - n) = Class(e[2]) /\ BinOf(e) \in Bins
    BY <1>c, <1>k, <1>x DEF InPlace
  <2>2. m \in Nat /\ m > 0 /\ BinOf(d) = BinOf(e)
    BY <1>o, <1>t, <2>1, SameBin
  <2>3. m < e[2] /\ n = e[2] - m
    BY <1>o, <1>t, <2>2
  <2>4. g[1] = e[1] + m /\ g[2] = n
    OBVIOUS
  <2>5. End(g) = End(e)
    BY <1>o, <2>2, <2>3, <2>4 DEF End
  <2>6. g # NoExt
    BY <1>t, <2>4 DEF NoExt
  <2> QED
    BY <1>o, <2>2, <2>3, <2>4, <2>5, <2>6
<1>u. e[1] + m \in Units /\ ~(myL[e[1] + m] > 0)
  <2>1. e[1] + m \in Units
    <3>1. PICK r \in Regions : Within(e, r)
      <4> HIDE DEF Contents, Sides
      <4> QED
        BY <1>0, <1>o DEF LedgerOK, Ledger, Tiling, Inside
    <3>2. r[1] \in Nat /\ r[2] \in Nat
      BY UnitsNat
    <3>3. e[1] + m \in r[1] .. r[1] + r[2]
      BY <1>o, <1>s, <3>1, <3>2 DEF Within, End
    <3> QED
      BY <3>3 DEF Units
  <2> QED
    BY <1>0, <1>o, <1>s, <2>1, InnerWord
<1>1. /\ pc(t)' = "modify" /\ blk(t)' = blk(t) /\ th'[t].tmp = 0
      /\ th'[t].cur = 0 /\ th'[t].whole = th[t].whole /\ th'[t].inBin = th[t].inBin
      /\ th'[t].goal = th[t].goal /\ th'[t].list = th[t].list /\ th'[t].req = th[t].req
      /\ th'[t].got = g /\ th'[t].ret = th[t].ret /\ th'[t].back = th[t].back /\ th'[t].bin = NoBin
  BY <1>x DEF Local, Rec, Fields, pc, blk
<1>2. /\ used' = used /\ queue' = queue /\ regions' = regions
      /\ myBin' = myBin /\ bins' = bins /\ bit' = bit
  BY DEF TakeInPlace, heap
<1>m. /\ myL \in [Units -> Int] /\ leftL \in [Units -> Int]
  BY <1>0 DEF LedgerOK, Ledger
<1>n. myL[e[1]] = Locked /\ leftL[End(e)] = Locked
  <2>1. MyWord(a) = Locked /\ a # FREE /\ LeftWord(a) = Locked /\ ~LoosePlace(a)
    BY PlaceKinds, PlaceNames, <1>o
  <2> HIDE DEF Contents, Sides
  <2> QED
    BY <1>0, <1>o, <2>1 DEF LedgerOK, Ledger, MyRight, LeftRight
<1>3. /\ myL' \in [Units -> Int] /\ leftL' \in [Units -> Int]
      /\ myL'[e[1]] = m /\ myL'[e[1] + m] = Locked /\ leftL'[e[1] + m] = m /\ leftL'[End(e)] = Locked
      /\ \A p \in Units : p # e[1] /\ p # e[1] + m => myL'[p] = myL[p]
      /\ \A p \in Units : p # e[1] + m /\ p # End(e) => leftL'[p] = leftL[p]
  BY <1>x, <1>m, <1>n, <1>o, <1>s, <1>u DEF Locked
<1>4. \A z : z \in Free' <=> z \in Free \/ z = d
  <2>1. \A z : z \in Free <=> \E p \in Units : myL[p] > 0 /\ z = <<p, myL[p]>>
    BY DEF Free, EndMark
  <2>2. \A z : z \in Free' <=> \E p \in Units : myL'[p] > 0 /\ z = <<p, myL'[p]>>
    BY DEF Free, EndMark
  <2>3. \A p \in Units : myL'[p] > 0 <=> myL[p] > 0 \/ p = e[1]
    BY <1>3, <1>m, <1>n, <1>s, <1>u DEF Locked
  <2>4. \A p \in Units : myL[p] > 0 => myL'[p] = myL[p]
    BY <1>3, <1>m, <1>n, <1>u DEF Locked
  <2>5. \A p \in Units : p = e[1] => <<p, myL'[p]>> = d
    BY <1>3, <1>s
  <2> QED
    BY <1>o, <2>1, <2>2, <2>3, <2>4, <2>5
<1>5. Turns(t, Out, In)
  <2>1. \A k \in Private \ {"got", "cur"} : Keeps(k, t)' = Keeps(k, t)
    <3>1. \A k \in Private \ {"list", "got", "cur"} : pc(t) \notin When(k) /\ pc(t)' \notin When(k)
      BY <1>x, <1>1 DEF Private, When, Coalescing
    <3>2. Keeps("list", t)' = Keeps("list", t)
      BY <1>1 DEF Keeps, InList
    <3> QED
      BY <3>1, <3>2, KeepsNone
  <2>2. /\ Keeps("cur", t) = {e} /\ Keeps("cur", t)' = {} /\ Keeps("got", t) = {} /\ Keeps("got", t)' = {g}
    BY <1>x, <1>1, <1>g, <1>s DEF Keeps, When, Piece
  <2>4. \A k \in Private : \A z : z \in Keeps(k, t)' <=> Turn(<<k, t>>, z, Keeps(k, t), Out, In)
    BY <2>1, <2>2, PlaceNames DEF Turn
  <2>5. \A u \in Threads : \A k \in Private : \A z : u # t => <<<<k, u>>, z>> \notin Out \cup In
    BY PlaceNames
  <2>6. /\ FREE \notin {a, b} /\ USED \notin {a, b} /\ QUEUE \notin {a, b} /\ FREE # USED /\ FREE # QUEUE
    BY PlaceNames, <1>o, <1>h
  <2> HIDE DEF a, b
  <2>7. /\ \A z : z \in Free' <=> Turn(FREE, z, Free, Out, In)
        /\ \A z : z \in used' <=> Turn(USED, z, used, Out, In)
        /\ \A z : z \in Queued' <=> Turn(QUEUE, z, Queued, Out, In)
    BY <1>2, <1>4, <2>6 DEF Turn, Queued
  <2> QED
    BY <2>4, <2>5, <2>7 DEF Turns
<1>6. Turned(Contents, Contents', Out, In)
  BY <1>5, ThreadTurns
<1>7. Halved(Contents, Contents', a, e, FREE, d, b, g)
  BY <1>6 DEF Turned, Turn, Halved
<1>8. \A u \in Threads : Sides'[u] = Sides[u]
  <2>1. Side(t)' = Side(t)
    BY <1>x, <1>1 DEF Side
  <2> QED
    BY <2>1, SidesNext
<1>9. LedgerOK'
  <2>1. /\ ~LoosePlace(a) /\ ~LoosePlace(b) /\ MyWord(b) = Locked /\ LeftWord(b) = Locked /\ LoosePlace(FREE)
    BY PlaceKinds, <1>o, <1>h
  <2>3. Ledger(Contents, myL, leftL, Sides, regions)
    BY <1>0 DEF LedgerOK
  <2> HIDE DEF Contents, Sides, a, b
  <2>4. Ledger(Contents', myL', leftL', Sides, regions)
    BY <1>o, <1>h, <1>s, <1>7, <1>3, <2>1, <2>3, HalveOne
  <2>5. Ledger(Contents', myL', leftL', Sides', regions)
    BY <2>4, <1>8, Same
  <2> QED
    BY <1>2, <2>5 DEF LedgerOK
<1>10. Ctl(t)'
  <2>0. Total(t)' = n
    BY <1>1, SameRequest
  <2>1. ListCtl(t)'
    BY <1>0, <1>x, <1>1, <1>g DEF Ctl, ListCtl, Coalescing, Asking, Scanning
  <2>2. GotCtl(t)'
    BY <1>1, <1>s, <2>0 DEF GotCtl, Giving, Coalescing
  <2>3. ReqCtl(t)'
    BY <1>1, <1>g DEF ReqCtl
  <2>4. WholeCtl(t)' /\ BinCtl(t)'
    BY <1>1, <1>g DEF WholeCtl, BinCtl, Scanning
  <2> QED
    BY <2>1, <2>2, <2>3, <2>4 DEF Ctl
<1>11. BinsInv'
  <2>1. BinFacts(t)'
    BY <1>1, NoBinFacts DEF Scanning
  <2>2. BinFrame(t)
    BY <1>0, <1>x, <1>1, <1>2, <1>c, <2>1 DEF BinFrame, BinsInv, BinTypes
  <2>3. Listed(FREE, d)'
    <3>1. BinOf(d)' = BinOf(d)
      BY DEF BinOf, Class
    <3> QED
      BY <1>2, <1>c, <1>k, <1>s, <3>1 DEF Listed, Registered, Sized, FREE
  <2>6. \A k \in Private : \A z \in Keeps(k, t) : Listed(<<k, t>>, z) => <<<<k, t>>, z>> \in Out
    <3>1. \A k \in Private : \A z \in Keeps(k, t) : Listed(<<k, t>>, z) => k = "cur" /\ z = e
      BY <1>x, <1>g DEF Private, Keeps, When, Coalescing, Piece, Listed, Registered
    <3> QED
      BY <3>1
  <2>7. \A x, z : <<x, z>> \in Out /\ Listed(x, z) => Heir(z[1], In)
    BY <1>h, <1>s, <2>3 DEF Heir
  <2>8. Follows(t)
    BY <1>6, <2>6, <2>7, FollowsTurn
  <2> QED
    BY <1>0, <2>2, <2>8, BinsQuiet
<1>12. SideCtl(t)'
  BY <1>1 DEF SideCtl
<1> QED
  BY <1>9, <1>10, <1>11, <1>12

(* Part of the block that was taken goes to the list, behind a header of    *)
(* its own.                                                                 *)
LEMMA GiveBackKeeps ==
    ASSUME IInv, Local, NEW t \in Threads, Path(t), Mine(t), pc(t) = "split",
           NEW e, e = th[t].got, NEW m \in Nat, m > 0, m < e[2],
           NEW lo, lo = <<e[1], m>>, NEW hi, hi = <<e[1] + m, e[2] - m>>,
           NEW part, NEW rest, (part = lo /\ rest = hi) \/ (part = hi /\ rest = lo),
           NEW header, header = e[1] + m, GiveBack(t, part, rest, header), GotCtl(t)',
           regions' = regions
    PROVE  LedgerOK' /\ Ctl(t)' /\ SideCtl(t)' /\ BinsInv'
<1> DEFINE a   == <<"got", t>>
           b   == <<"list", t>>
           Out == {<<a, e>>}
           In  == {<<b, part>>, <<a, rest>>}
<1>x. /\ myL' = [myL EXCEPT ![header] = Locked] /\ leftL' = [leftL EXCEPT ![header] = Locked]
      /\ th' = [th EXCEPT ![t].pc = "mark", ![t].list = <<part>>, ![t].got = rest, ![t].ret = "split"]
  BY DEF GiveBack
<1>0. Ctl(t) /\ LedgerOK /\ CtlOK /\ BinsInv /\ BinFacts(t)
  BY DEF IInv, CtlOK, BinsInv
<1>g. /\ th[t].list = <<>> /\ blk(t) = NoExt /\ ~th[t].whole /\ th[t].req \in Requests /\ e # NoExt
  BY <1>0 DEF Ctl, GotCtl, ListCtl, WholeCtl, ReqCtl, Giving, Coalescing, Asking
<1>o. /\ "got" \in Private /\ a \in Places /\ e \in Contents[a] /\ e \in Extents /\ e[1] \in Units
      /\ End(e) \in Units /\ e[2] \in Nat /\ e[2] > 0 /\ e[1] \in Nat /\ End(e) = e[1] + e[2]
      /\ e = <<e[1], e[2]>>
  <2>1. "got" \in Private /\ e \in Keeps("got", t)
    BY <1>g DEF Private, Keeps
  <2> QED
    BY <1>0, <2>1, OwnPlace, ExtentType DEF End
<1>h. "list" \in Private /\ b \in Places /\ FREE \in Places
  BY PlaceNames DEF Private
<1>u. header \in Units /\ ~(myL[header] > 0) /\ header # e[1] /\ header # End(e)
  <2>0. header \in Nat /\ e[1] < header /\ header < End(e)
    BY <1>o
  <2>1. header \in Units
    <3>1. PICK r \in Regions : Within(e, r)
      <4> HIDE DEF Contents, Sides
      <4> QED
        BY <1>0, <1>o DEF LedgerOK, Ledger, Tiling, Inside
    <3>2. r[1] \in Nat /\ r[2] \in Nat
      BY UnitsNat
    <3>3. header \in r[1] .. r[1] + r[2]
      BY <1>o, <2>0, <3>1, <3>2 DEF Within, End
    <3> QED
      BY <3>3 DEF Units
  <2> QED
    BY <1>0, <1>o, <2>0, <2>1, InnerWord
<1>s. /\ lo \in Extents /\ hi \in Extents /\ lo # NoExt /\ hi # NoExt /\ lo # hi /\ rest # part
      /\ part \in Extents /\ rest \in Extents /\ rest # NoExt
  <2>1. e[2] - m \in Nat /\ e[2] - m > 0
    BY <1>o
  <2>2. lo # NoExt /\ hi # NoExt
    BY <2>1 DEF NoExt
  <2>3. lo # hi
    BY <1>o
  <2> QED
    BY <1>o, <1>u, <2>1, <2>2, <2>3 DEF Extents
<1>1. /\ pc(t)' = "mark" /\ blk(t)' = blk(t) /\ th'[t].tmp = th[t].tmp
      /\ th'[t].cur = th[t].cur /\ th'[t].whole = th[t].whole /\ th'[t].inBin = th[t].inBin
      /\ th'[t].goal = th[t].goal /\ th'[t].list = <<part>> /\ th'[t].req = th[t].req
      /\ th'[t].got = rest /\ th'[t].ret = "split" /\ th'[t].back = th[t].back /\ th'[t].bin = th[t].bin
  BY <1>x DEF Local, Rec, Fields, pc, blk
<1>2. /\ used' = used /\ queue' = queue /\ UNCHANGED binned
  BY DEF GiveBack, heap
<1>m. /\ myL \in [Units -> Int] /\ leftL \in [Units -> Int]
  BY <1>0 DEF LedgerOK, Ledger
<1>k. /\ MyWord(a) = Locked /\ a # FREE /\ LeftWord(a) = Locked /\ ~LoosePlace(a)
      /\ MyWord(b) = Locked /\ b # FREE /\ LeftWord(b) = Locked /\ ~LoosePlace(b)
  BY PlaceKinds, PlaceNames, <1>o, <1>h
<1>n. myL[e[1]] = Locked /\ leftL[End(e)] = Locked
  <2> HIDE DEF Contents, Sides
  <2> QED
    BY <1>0, <1>o, <1>k DEF LedgerOK, Ledger, MyRight, LeftRight
<1>3. /\ myL' \in [Units -> Int] /\ leftL' \in [Units -> Int]
      /\ myL'[e[1]] = Locked /\ myL'[header] = Locked /\ leftL'[header] = Locked /\ leftL'[End(e)] = Locked
      /\ \A p \in Units : p # header => myL'[p] = myL[p] /\ leftL'[p] = leftL[p]
  BY <1>x, <1>m, <1>n, <1>o, <1>u DEF Locked
<1>4. \A z : z \in Free' <=> z \in Free
  <2>1. \A z : z \in Free <=> \E p \in Units : myL[p] > 0 /\ z = <<p, myL[p]>>
    BY DEF Free, EndMark
  <2>2. \A z : z \in Free' <=> \E p \in Units : myL'[p] > 0 /\ z = <<p, myL'[p]>>
    BY DEF Free, EndMark
  <2>3. \A p \in Units : myL'[p] > 0 <=> myL[p] > 0
    BY <1>3, <1>m, <1>u DEF Locked
  <2>4. \A p \in Units : myL[p] > 0 => myL'[p] = myL[p]
    BY <1>3, <1>m, <1>u DEF Locked
  <2> QED
    BY <2>1, <2>2, <2>3, <2>4
<1>5. Turns(t, Out, In)
  <2>1. \A k \in Private \ {"list", "got"} : Keeps(k, t)' = Keeps(k, t)
    <3>1. \A k \in Private \ {"list", "got"} : pc(t) \notin When(k) /\ pc(t)' \notin When(k)
      BY <1>1 DEF Private, When, Coalescing
    <3> QED
      BY <3>1, KeepsNone
  <2>2. /\ Keeps("list", t) = {} /\ Keeps("list", t)' = {part} /\ Keeps("got", t) = {e} /\ Keeps("got", t)' = {rest}
    <3>1. InList(t) = Elements(th[t].list) /\ InList(t)' = Elements(th'[t].list)
      BY DEF InList, Elements
    <3>2. InList(t) = {} /\ InList(t)' = {part}
      BY <1>1, <1>g, <3>1, Single
    <3> QED
      BY <1>1, <1>g, <1>s, <3>2 DEF Keeps
  <2>4. \A k \in Private : \A z : z \in Keeps(k, t)' <=> Turn(<<k, t>>, z, Keeps(k, t), Out, In)
    BY <2>1, <2>2, PlaceNames DEF Turn
  <2>5. \A u \in Threads : \A k \in Private : \A z : u # t => <<<<k, u>>, z>> \notin Out \cup In
    BY PlaceNames
  <2>6. /\ FREE \notin {a, b} /\ USED \notin {a, b} /\ QUEUE \notin {a, b}
    BY PlaceNames, <1>o, <1>h
  <2> HIDE DEF a, b
  <2>7. /\ \A z : z \in Free' <=> Turn(FREE, z, Free, Out, In)
        /\ \A z : z \in used' <=> Turn(USED, z, used, Out, In)
        /\ \A z : z \in Queued' <=> Turn(QUEUE, z, Queued, Out, In)
    BY <1>2, <1>4, <2>6 DEF Turn, Queued
  <2> QED
    BY <2>4, <2>5, <2>7 DEF Turns
<1>6. Turned(Contents, Contents', Out, In)
  BY <1>5, ThreadTurns
<1>7. \/ part = lo /\ rest = hi /\ Halved(Contents, Contents', a, e, b, lo, a, hi)
      \/ part = hi /\ rest = lo /\ Halved(Contents, Contents', a, e, a, lo, b, hi)
  BY <1>6 DEF Turned, Turn, Halved
<1>8. \A u \in Threads : Sides'[u] = Sides[u]
  <2>1. Side(t)' = Side(t)
    BY <1>1 DEF Side
  <2> QED
    BY <2>1, SidesNext
<1>9. LedgerOK'
  <2>3. Ledger(Contents, myL, leftL, Sides, regions)
    BY <1>0 DEF LedgerOK
  <2>a. /\ \A p \in Units : p # e[1] /\ p # e[1] + m => myL'[p] = myL[p]
        /\ \A p \in Units : p # e[1] + m /\ p # End(e) => leftL'[p] = leftL[p]
    BY <1>3
  <2> HIDE DEF Contents, Sides, a, b
  <2>4. Ledger(Contents', myL', leftL', Sides, regions)
    <3>1. CASE Halved(Contents, Contents', a, e, b, lo, a, hi)
      BY <1>o, <1>h, <1>k, <1>3, <2>3, <2>a, <3>1, HalveOne
    <3>2. CASE Halved(Contents, Contents', a, e, a, lo, b, hi)
      BY <1>o, <1>h, <1>k, <1>3, <2>3, <2>a, <3>2, HalveOne
    <3> QED
      BY <1>7, <3>1, <3>2
  <2>5. Ledger(Contents', myL', leftL', Sides', regions)
    BY <2>4, <1>8, Same
  <2> QED
    BY <2>5 DEF LedgerOK
<1>10. Ctl(t)'
  <2>1. ListCtl(t)'
    <3>1. <<part>> \in Seq(Extents) /\ Distinct(<<part>>) /\ <<part>> # <<>>
      BY <1>s, Single
    <3> QED
      BY <1>1, <1>g, <3>1 DEF ListCtl, Coalescing
  <2>3. ReqCtl(t)'
    BY <1>1, <1>g DEF ReqCtl
  <2>4. WholeCtl(t)' /\ BinCtl(t)'
    BY <1>0, <1>1, <1>g DEF Ctl, WholeCtl, BinCtl, Scanning
  <2> QED
    BY <2>1, <2>3, <2>4 DEF Ctl
<1>11. BinsInv'
  <2>1. BinFacts(t)'
    BY <1>1, NoBinFacts DEF Scanning
  <2>2. BinFrame(t)
    BY <1>0, <1>1, <1>2, <2>1 DEF BinFrame, BinsInv, BinTypes, binned
  <2>6. \A k \in Private : \A z \in Keeps(k, t) : ~Listed(<<k, t>>, z)
    BY DEF Private, Keeps, When, Coalescing, Listed, Registered
  <2>7. \A x, z : <<x, z>> \in Out /\ Listed(x, z) => Heir(z[1], In)
    BY DEF Listed, Registered
  <2>8. Follows(t)
    BY <1>6, <2>6, <2>7, FollowsTurn
  <2> QED
    BY <1>0, <2>2, <2>8, BinsQuiet
<1>12. SideCtl(t)'
  BY <1>1 DEF SideCtl
<1> QED
  BY <1>9, <1>10, <1>11, <1>12

(* What is aligned stays where it is.                                       *)
LEMMA AlignUpTwice == ASSUME NEW p \in Nat PROVE AlignUp(AlignUp(p)) = AlignUp(p)
<1>1. Slab \in Nat \ {0}
  BY BlocksAssumption
<1> DEFINE n == p + Slab - 1
           q == n \div Slab
           w == q * Slab
           s == w + Slab - 1
<1>n. n \in Int
  BY <1>1
<1> HIDE DEF n
<1>2. q \in Int
  BY <1>1, <1>n, DivMod
<1>3. AlignUp(p) = w
  BY DEF AlignUp, n
<1> HIDE DEF q
<1>4. s = Slab * q + (Slab - 1)
  BY <1>1, <1>2
<1>5. AlignUp(w) = (s \div Slab) * Slab
  BY DEF AlignUp
<1> HIDE DEF w, s
<1> DEFINE l == Slab - 1
<1>6. l \in 0 .. Slab - 1 /\ s = Slab * q + l
  BY <1>1, <1>4
<1> HIDE DEF l
<1>7. Splits(s, Slab, q, l)
  BY <1>1, <1>2, <1>6 DEF Splits
<1>8. s \div Slab = q
  BY <1>7, DivUnique
<1> QED
  BY <1>3, <1>5, <1>8 DEF w

(* The result of a request lies in the block that is split for it.          *)
LEMMA SplitType ==
    ASSUME IInv, NEW t \in Threads, pc(t) = "split", NEW g, g = th[t].got
    PROVE  /\ g # NoExt /\ g[1] \in Nat /\ g[2] \in Nat /\ g[2] > 0 /\ End(g) = g[1] + g[2]
           /\ Total(t) \in Nat /\ Total(t) > 0 /\ Result(t) \in Int
           /\ g[1] <= Result(t) /\ Result(t) + Total(t) <= End(g)
<1>0. Ctl(t) /\ LedgerOK
  BY DEF IInv, CtlOK
<1>1. g # NoExt /\ g[1] <= Result(t) /\ Result(t) + Total(t) <= End(g) /\ th[t].req \in Requests
  BY <1>0 DEF Ctl, GotCtl, Giving, ReqCtl, Asking
<1>2. g[1] \in Nat /\ g[2] \in Nat /\ g[2] > 0
  <2>1. "got" \in Private /\ g \in Keeps("got", t)
    BY <1>1 DEF Private, Keeps
  <2> QED
    BY <1>0, <2>1, OwnPlace
<1>3. Total(t) \in Nat /\ Total(t) > 0
  BY <1>1, TotalType
<1>4. End(g) = g[1] + g[2]
  BY DEF End
<1>5. AlignUp(g[1]) \in Nat
  BY <1>2, AlignUpType
<1>6. Result(t) = IF ~th[t].req.aligned THEN g[1] ELSE IF th[t].bin[1] THEN End(g) - Total(t) ELSE AlignUp(g[1])
  BY DEF Result
<1>7. End(g) - Total(t) \in Int
  BY <1>2, <1>3, <1>4
<1>8. Result(t) \in Int
  BY <1>2, <1>5, <1>6, <1>7
<1> QED
  BY <1>1, <1>2, <1>3, <1>4, <1>8

(* getFromBin and getFromAlignedSpace give back what is to the right of the *)
(* result.                                                                  *)
LEMMA SplitRightStep ==
    ASSUME IInv, Local, NEW t \in Threads, Path(t), SplitRight(t), Mine(t),
           NEW e, e = th[t].got, NEW cut, cut = Result(t) + Total(t), NEW n, n = Total(t)
    PROVE  LedgerOK' /\ Ctl(t)' /\ SideCtl(t)' /\ BinsInv'
<1> DEFINE m    == cut - e[1]
           rest == <<e[1], m>>
           part == <<cut, End(e) - cut>>
<1>x. /\ pc(t) = "split" /\ cut < End(e) /\ GiveBack(t, part, rest, cut) /\ regions' = regions
  BY DEF SplitRight, GiveBack, At, pc, heap
<1>1. /\ e # NoExt /\ e[1] \in Nat /\ e[2] \in Nat /\ e[2] > 0 /\ End(e) = e[1] + e[2]
      /\ n \in Nat /\ n > 0 /\ Result(t) \in Int
      /\ e[1] <= Result(t) /\ Result(t) + n <= End(e)
  BY <1>x, SplitType
<1>2. /\ m \in Nat /\ m > 0 /\ m < e[2] /\ cut = e[1] + m /\ End(e) - cut = e[2] - m /\ cut \in Int
  BY <1>x, <1>1
<1>3. /\ th'[t].req = th[t].req /\ th'[t].got = rest /\ th'[t].bin = th[t].bin /\ pc(t)' = "mark"
      /\ th'[t].ret = "split"
  BY <1>x DEF GiveBack, Local, Rec, Fields, pc
<1> HIDE DEF m
<1>4. Total(t)' = n
  BY <1>3, SameRequest
<1>5. rest[1] = e[1] /\ End(rest) = cut /\ rest # NoExt
  BY <1>1, <1>2 DEF End, NoExt
<1>6. ~(th[t].req.aligned /\ th[t].bin[1])
  <2>1. th[t].req.aligned /\ th[t].bin[1] => Result(t) = End(e) - n
    BY DEF Result
  <2> QED
    BY <1>x, <1>1, <2>1
<1>7. Result(t)' = Result(t)
  <2>1. Result(t) = IF ~th[t].req.aligned THEN e[1] ELSE AlignUp(e[1])
    BY <1>6 DEF Result
  <2>2. Result(t)' = IF ~th[t].req.aligned THEN rest[1] ELSE AlignUp(rest[1])
    BY <1>3, <1>6 DEF Result, AlignUp
  <2> QED
    BY <1>5, <2>1, <2>2
<1>8. GotCtl(t)'
  <2>1. rest[1] <= Result(t)' /\ Result(t)' + Total(t)' <= End(rest)
    BY <1>1, <1>2, <1>4, <1>5, <1>7
  <2>2. End(th[t].got)' = End(rest)
    BY <1>3 DEF End
  <2> HIDE DEF rest
  <2> QED
    BY <1>3, <1>5, <2>1, <2>2 DEF GotCtl, Giving, Coalescing
<1>9. part = <<e[1] + m, e[2] - m>>
  BY <1>2
<1> HIDE DEF part, rest
<1>10. rest = <<e[1], m>>
  BY DEF rest
<1> QED
  BY <1>x, <1>2, <1>8, <1>9, <1>10, GiveBackKeeps

(* They give back what is to the left of the result.                        *)
LEMMA SplitLeftStep ==
    ASSUME IInv, Local, NEW t \in Threads, Path(t), SplitLeft(t), Mine(t),
           NEW e, e = th[t].got, NEW cut, cut = Result(t), NEW n, n = Total(t)
    PROVE  LedgerOK' /\ Ctl(t)' /\ SideCtl(t)' /\ BinsInv'
<1> DEFINE m    == cut - e[1]
           part == <<e[1], m>>
           rest == <<cut, n>>
<1>x. /\ pc(t) = "split" /\ cut + n = End(e) /\ cut > e[1] /\ GiveBack(t, part, rest, cut) /\ regions' = regions
  BY DEF SplitLeft, GiveBack, At, pc, heap
<1>1. /\ e # NoExt /\ e[1] \in Nat /\ e[2] \in Nat /\ e[2] > 0 /\ End(e) = e[1] + e[2]
      /\ n \in Nat /\ n > 0 /\ cut \in Int
      /\ e[1] <= cut /\ cut + n <= End(e)
  BY <1>x, SplitType
<1>2. /\ m \in Nat /\ m > 0 /\ m < e[2] /\ cut = e[1] + m /\ n = e[2] - m /\ cut \in Nat
  BY <1>x, <1>1
<1>3. /\ th'[t].req = th[t].req /\ th'[t].got = rest /\ th'[t].bin = th[t].bin /\ pc(t)' = "mark"
      /\ th'[t].ret = "split"
  BY <1>x DEF GiveBack, Local, Rec, Fields, pc
<1> HIDE DEF m
<1>4. Total(t)' = n
  BY <1>3, SameRequest
<1>5. rest[1] = cut /\ End(rest) = cut + n /\ rest # NoExt
  BY <1>1, <1>2 DEF End, NoExt
<1>6. th[t].req.aligned
  <2>1. ~th[t].req.aligned => Result(t) = e[1]
    BY DEF Result
  <2> QED
    BY <1>x, <1>1, <2>1
<1>7. Result(t)' = cut
  <2>1. Result(t)' = IF th[t].bin[1] THEN End(rest) - n ELSE AlignUp(rest[1])
    BY <1>3, <1>4, <1>6 DEF Result, AlignUp, End
  <2>2. ~th[t].bin[1] => cut = AlignUp(e[1])
    BY <1>6 DEF Result
  <2>3. ~th[t].bin[1] => AlignUp(cut) = cut
    BY <1>1, <2>2, AlignUpTwice
  <2>4. End(rest) - n = cut
    BY <1>1, <1>2, <1>5
  <2> QED
    BY <1>5, <2>1, <2>3, <2>4
<1>8. GotCtl(t)'
  <2>1. rest[1] <= Result(t)' /\ Result(t)' + Total(t)' <= End(rest)
    BY <1>1, <1>2, <1>4, <1>5, <1>7
  <2>2. End(th[t].got)' = End(rest)
    BY <1>3 DEF End
  <2> HIDE DEF rest
  <2> QED
    BY <1>3, <1>5, <2>1, <2>2 DEF GotCtl, Giving, Coalescing
<1>9. rest = <<e[1] + m, e[2] - m>>
  BY <1>2
<1> HIDE DEF part, rest
<1>10. part = <<e[1], m>>
  BY DEF part
<1> QED
  BY <1>x, <1>2, <1>8, <1>9, <1>10, GiveBackKeeps

(* The queue becomes the list of a thread.                                  *)
LEMMA QueueTaken ==
    ASSUME LedgerOK, CtlOK, BinsInv, NEW t \in Threads, Mine(t),
           pc(t) \in {"idle", "miss"}, pc(t)' \in {"mark", "loop", "soft"},
           queue' = <<>>, th[t].list = <<>>, th'[t].list = queue, th'[t].got = th[t].got,
           UNCHANGED words, UNCHANGED binned, used' = used, regions' = regions
    PROVE  LedgerOK' /\ BinsInv' /\ SideCtl(t)' /\ QueueOK'
<1> DEFINE b   == <<"list", t>>
           Q   == Queued
           Out == {<<QUEUE, z>> : z \in Q}
           In  == {<<b, z>> : z \in Q}
           OutF == [x \in Places |-> IF x = QUEUE THEN Q ELSE {}]
           InF  == [x \in Places |-> IF x = b THEN Q ELSE {}]
<1>1. Queued' = {} /\ myL' = myL /\ leftL' = leftL /\ InList(t) = {} /\ InList(t)' = Q
  <2>1. Queued' = Elements(queue') /\ InList(t) = Elements(th[t].list) /\ InList(t)' = Elements(th'[t].list)
    BY DEF Queued, InList, Elements
  <2>2. Q = Elements(queue)
    BY DEF Queued, Elements
  <2> QED
    BY <2>1, <2>2, Single DEF words
<1>h. "list" \in Private /\ b \in Places /\ QUEUE \in Places /\ b # QUEUE /\ b # USED /\ b # FREE
      /\ QUEUE # FREE /\ QUEUE # USED
  BY PlaceNames DEF Private
<1> HIDE DEF Q
<1>5. Turns(t, Out, In)
  <2>1. \A k \in Private \ {"list"} : Keeps(k, t)' = Keeps(k, t)
    <3>1. \A k \in Private \ {"list", "got"} : pc(t) \notin When(k) /\ pc(t)' \notin When(k)
      BY DEF Private, When, Coalescing
    <3>2. Keeps("got", t)' = Keeps("got", t)
      BY DEF Keeps
    <3> QED
      BY <3>1, <3>2, KeepsNone
  <2>2. Keeps("list", t) = {} /\ Keeps("list", t)' = Q
    BY <1>1 DEF Keeps
  <2>4. \A k \in Private : \A z : z \in Keeps(k, t)' <=> Turn(<<k, t>>, z, Keeps(k, t), Out, In)
    BY <2>1, <2>2, PlaceNames DEF Turn
  <2>5. \A u \in Threads : \A k \in Private : \A z : u # t => <<<<k, u>>, z>> \notin Out \cup In
    BY PlaceNames
  <2>6. Free' = Free /\ Queued = Q
    BY <1>1, FreeKept DEF Q
  <2> HIDE DEF b
  <2>7. /\ \A z : z \in Free' <=> Turn(FREE, z, Free, Out, In)
        /\ \A z : z \in used' <=> Turn(USED, z, used, Out, In)
        /\ \A z : z \in Queued' <=> Turn(QUEUE, z, Queued, Out, In)
    BY <1>1, <1>h, <2>6 DEF Turn
  <2> QED
    BY <2>4, <2>5, <2>7 DEF Turns
<1>6. Turned(Contents, Contents', Out, In)
  BY <1>5, ThreadTurns
<1>8. \A u \in Threads : Sides'[u] = Sides[u]
  <2>1. Side(t)' = Side(t)
    BY DEF Side
  <2> QED
    BY <2>1, SidesNext
<1>q. Contents[QUEUE] = Q
  BY ContentsAt DEF Q
<1>9. LedgerOK'
  <2>1. /\ ~LoosePlace(b) /\ ~LoosePlace(QUEUE) /\ MyWord(b) = Locked /\ MyWord(QUEUE) = Locked
        /\ LeftWord(b) = Locked /\ LeftWord(QUEUE) = Locked
    BY PlaceKinds, <1>h
  <2>3. Ledger(Contents, myL, leftL, Sides, regions)
    BY DEF LedgerOK
  <2>4. \A x \in Places : \A z : /\ <<x, z>> \in Out <=> z \in OutF[x]
                                 /\ <<x, z>> \in In <=> z \in InF[x]
    BY <1>h
  <2>5. /\ OutF[QUEUE] = Q /\ \A x \in Places : x # QUEUE => OutF[x] = {}
        /\ InF[b] = Q /\ \A x \in Places : x # b => InF[x] = {}
    BY <1>h
  <2> HIDE DEF Contents, Sides, b, OutF, InF, Out, In
  <2>6. Exchanged(Contents, Contents', OutF, InF, regions)
    <3>1. \A x \in Places : OutF[x] \subseteq Contents[x]
      BY <1>q, <2>5
    <3>2. \A x \in Places : \A d : d \in Contents'[x] <=> (d \in Contents[x] /\ d \notin OutF[x]) \/ d \in InF[x]
      BY <1>6, <2>4 DEF Turned, Turn
    <3>3. Inside(InF, regions) /\ Disjoint(InF)
      <4>1. \A z \in Q : z \in Extents /\ z[2] > 0 /\ \E r \in regions : Within(z, r)
        BY <1>q, <1>h, <2>3 DEF Ledger, Tiling, Inside
      <4>2. \A y, z \in Q : Apart(y, z) \/ y = z
        BY <1>q, <1>h, <2>3 DEF Ledger, Tiling, Disjoint
      <4>3. \A x \in Places : \A z \in InF[x] : x = b /\ z \in Q
        BY <2>5
      <4> QED
        BY <4>1, <4>2, <4>3 DEF Inside, Disjoint
    <3>4. \A u \in Nat : Holds(OutF, u) <=> Holds(InF, u)
      BY <1>h, <2>5 DEF Holds
    <3> QED
      BY <3>1, <3>2, <3>3, <3>4 DEF Exchanged
  <2>7. /\ myL \in [Units -> Int] /\ leftL \in [Units -> Int]
        /\ \A z \in Q : myL[z[1]] = Locked /\ leftL[End(z)] = Locked
    <3>1. QUEUE # FREE
      BY <1>h
    <3> QED
      BY <1>q, <1>h, <2>1, <2>3, <3>1 DEF Ledger, MyRight, LeftRight
  <2>8. \A x \in Places : \A z \in InF[x] : myL[z[1]] = MyWord(x) /\ leftL[End(z)] = LeftWord(x)
    BY <2>1, <2>5, <2>7
  <2>9. \A x \in Places : \A z \in OutF[x] : Begin(InF, z[1]) /\ Finish(InF, End(z))
    BY <1>h, <2>5 DEF Begin, Finish
  <2>10. \A x \in Places : LoosePlace(x) => OutF[x] = {} /\ InF[x] = {}
    BY <2>1, <2>5
  <2>11. Ledger(Contents', myL, leftL, Sides, regions)
    BY <2>3, <2>6, <2>7, <2>8, <2>9, <2>10, Replace
  <2>12. Ledger(Contents', myL, leftL, Sides', regions)
    BY <1>8, <2>11, Same
  <2> QED
    BY <1>1, <2>12 DEF LedgerOK
<1>11. BinsInv'
  <2>1. BinFacts(t)'
    BY NoBinFacts DEF Scanning
  <2>2. BinFrame(t)
    BY <2>1 DEF BinFrame, BinsInv, BinTypes, binned
  <2>6. \A k \in Private : \A z \in Keeps(k, t) : ~Listed(<<k, t>>, z)
    BY DEF Private, Keeps, When, Coalescing, Listed, Registered
  <2>7. \A x, z : <<x, z>> \in Out => ~Listed(x, z)
    BY DEF Listed, Registered, QUEUE
  <2>8. Follows(t)
    BY <1>6, <2>6, <2>7, FollowsTurn
  <2> QED
    BY <2>2, <2>8, BinsQuiet
<1>12. SideCtl(t)'
  BY DEF SideCtl
<1>13. QueueOK'
  <2>1. queue' = <<>>
    OBVIOUS
  <2>2. Distinct(queue')
    BY <2>1, Single
  <2>3. queue' \in Seq(Extents)
    BY <2>1
  <2> QED
    BY <2>2, <2>3 DEF QueueOK
<1> QED
  BY <1>9, <1>11, <1>12, <1>13

(* genericGetBlock is called.                                               *)
LEMMA GetBlockStep ==
    ASSUME IInv, Local, NEW t \in Threads, Path(t), NEW q \in Requests, GetBlock(t, q), Mine(t)
    PROVE  LedgerOK' /\ Ctl(t)' /\ SideCtl(t)' /\ BinsInv' /\ QueueOK'
<1>x. /\ pc(t) = "idle" /\ queue' = <<>>
      /\ th' = [th EXCEPT ![t] = [Resting EXCEPT
                 !.pc = Onward(queue, "loop"), !.req = q, !.list = queue, !.ret = "loop",
                 !.threshold = Threshold, !.larger = TRUE]]
  BY DEF GetBlock, At, pc
<1>1. /\ pc(t)' = (IF queue = <<>> THEN "loop" ELSE "mark") /\ blk(t)' = NoExt
      /\ th'[t].list = queue /\ th'[t].got = NoExt /\ th'[t].req = q /\ th'[t].ret = "loop"
      /\ th'[t].back = "idle" /\ th'[t].bin = NoBin /\ ~th'[t].whole
  BY <1>x DEF Local, pc, blk, Resting, Onward
<1>0. Ctl(t) /\ LedgerOK /\ CtlOK /\ BinsInv /\ QueueOK
  BY DEF IInv, CtlOK, BinsInv
<1>g. th[t].list = <<>> /\ th[t].got = NoExt
  BY <1>0, <1>x DEF Ctl, ListCtl, GotCtl, Giving, Coalescing
<1>2. UNCHANGED words /\ UNCHANGED binned /\ used' = used /\ regions' = regions
  BY DEF GetBlock
<1>3. LedgerOK' /\ BinsInv' /\ SideCtl(t)' /\ QueueOK'
  BY <1>0, <1>1, <1>2, <1>g, <1>x, QueueTaken
<1>4. Ctl(t)'
  <2>1. ListCtl(t)'
    BY <1>0, <1>1 DEF ListCtl, QueueOK, Asking, Coalescing
  <2>2. GotCtl(t)'
    BY <1>1 DEF GotCtl, Giving
  <2>3. ReqCtl(t)'
    BY <1>1 DEF ReqCtl
  <2>4. WholeCtl(t)' /\ BinCtl(t)'
    BY <1>1 DEF WholeCtl, BinCtl, Scanning
  <2> QED
    BY <2>1, <2>2, <2>3, <2>4 DEF Ctl
<1> QED
  BY <1>3, <1>4

(* scanCoalescQ(true) takes the whole queue.                                *)
LEMMA MissStep ==
    ASSUME IInv, Local, NEW t \in Threads, Path(t), Miss(t), Mine(t)
    PROVE  LedgerOK' /\ Ctl(t)' /\ SideCtl(t)' /\ BinsInv' /\ QueueOK'
<1>x. /\ pc(t) = "miss" /\ queue' = <<>>
      /\ th' = [th EXCEPT ![t].pc = Onward(queue, "soft"), ![t].list = queue, ![t].ret = "soft",
                        ![t].force = TRUE, ![t].larger = queue # <<>>, ![t].bin = NoBin]
  BY DEF Miss, At, pc
<1>1. /\ pc(t)' = (IF queue = <<>> THEN "soft" ELSE "mark") /\ blk(t)' = blk(t)
      /\ th'[t].list = queue /\ th'[t].got = th[t].got /\ th'[t].req = th[t].req /\ th'[t].ret = "soft"
      /\ th'[t].back = th[t].back /\ th'[t].bin = NoBin /\ th'[t].whole = th[t].whole
  BY <1>x DEF Local, Rec, Fields, pc, blk, Onward
<1>0. Ctl(t) /\ LedgerOK /\ CtlOK /\ BinsInv /\ QueueOK
  BY DEF IInv, CtlOK, BinsInv
<1>g. th[t].list = <<>> /\ th[t].got = NoExt /\ blk(t) = NoExt /\ ~th[t].whole /\ th[t].req \in Requests
  BY <1>0, <1>x DEF Ctl, ListCtl, GotCtl, Giving, Coalescing, WholeCtl, ReqCtl, Asking
<1>2. UNCHANGED words /\ UNCHANGED binned /\ used' = used /\ regions' = regions
  BY DEF Miss, heap
<1>3. LedgerOK' /\ BinsInv' /\ SideCtl(t)' /\ QueueOK'
  BY <1>0, <1>1, <1>2, <1>g, <1>x, QueueTaken
<1>4. Ctl(t)'
  <2>1. ListCtl(t)'
    BY <1>0, <1>1, <1>g DEF ListCtl, QueueOK, Asking, Coalescing
  <2>2. GotCtl(t)'
    BY <1>1, <1>g DEF GotCtl, Giving
  <2>3. ReqCtl(t)'
    BY <1>1, <1>g DEF ReqCtl
  <2>4. WholeCtl(t)' /\ BinCtl(t)'
    BY <1>1, <1>g DEF WholeCtl, BinCtl, Scanning
  <2> QED
    BY <2>1, <2>2, <2>3, <2>4 DEF Ctl
<1> QED
  BY <1>3, <1>4

(* A block to be released is a region, one that is still held.              *)
LEMMA WholeRegion ==
    ASSUME IInv, NEW t \in Threads, pc(t) = "release", NEW e, e = blk(t), NEW r, r = Region(t)
    PROVE  r \in regions /\ e[1] = r[1] /\ End(e) = End(r) /\ e \in Contents[<<"blk", t>>]
<1> DEFINE b == <<"blk", t>>
<1>0. Ctl(t) /\ LedgerOK
  BY DEF IInv, CtlOK
<1>o. /\ "blk" \in Private /\ b \in Places /\ e \in Contents[b] /\ e \in Extents /\ e[1] \in Units
      /\ End(e) \in Units /\ e[2] \in Nat /\ e[2] > 0 /\ e[1] \in Nat /\ End(e) = e[1] + e[2]
  <2>1. "blk" \in Private /\ e \in Keeps("blk", t)
    BY DEF Private, Keeps, When, Piece, Coalescing
  <2> QED
    BY <1>0, <2>1, OwnPlace DEF End
<1>1. Empty(t) /\ th[t].whole
  BY <1>0 DEF Ctl, WholeCtl, Empty
<1>2. r[2] = e[2] /\ \E w \in Regions : End(w) = End(e)
  BY <1>0, <1>1 DEF Ctl, WholeCtl, Empty
<1>3. r \in Regions /\ End(r) = End(e)
  BY <1>2 DEF Region
<1>4. r[1] \in Nat /\ r[2] \in Nat \ {0} /\ End(r) = r[1] + r[2]
  BY <1>3, UnitsNat DEF End
<1>5. e[1] = r[1]
  BY <1>o, <1>2, <1>3, <1>4
<1>6. PICK w \in regions : Within(e, w) /\ w \in Regions
  <2> HIDE DEF Contents, Sides
  <2> QED
    BY <1>0, <1>o DEF LedgerOK, Ledger, Tiling, Inside
<1>7. w[1] \in Nat /\ w[2] \in Nat /\ End(w) = w[1] + w[2]
  BY <1>6, UnitsNat DEF End
<1>8. w = r \/ End(w) < r[1] \/ End(r) < w[1]
  BY <1>3, <1>6, BlocksAssumption DEF End
<1>9. w = r
  BY <1>o, <1>3, <1>4, <1>5, <1>6, <1>7, <1>8 DEF Within
<1> QED
  BY <1>o, <1>3, <1>5, <1>6, <1>9

(* releaseRegion: the region and the block that fills it leave the ledger   *)
(* together.                                                                *)
LEMMA ReleaseRegionStep ==
    ASSUME IInv, Local, NEW t \in Threads, Path(t), ReleaseRegion(t), Mine(t),
           NEW e, e = blk(t), NEW r, r = Region(t)
    PROVE  LedgerOK' /\ Ctl(t)' /\ SideCtl(t)' /\ BinsInv'
<1> DEFINE b   == <<"blk", t>>
           Out == {<<b, e>>}
           In  == {}
<1>x. /\ pc(t) = "release" /\ AfterBlock(t) /\ regions' = regions \ {r}
      /\ myL' = [p \in Units |-> IF p \in e[1] .. End(e) THEN Junk ELSE myL[p]]
      /\ leftL' = [p \in Units |-> IF p \in e[1] .. End(e) THEN Junk ELSE leftL[p]]
      /\ used' = used /\ queue' = queue /\ UNCHANGED binned
  BY DEF ReleaseRegion, At, pc
<1>0. Ctl(t) /\ LedgerOK /\ CtlOK /\ BinsInv /\ BinFacts(t)
  BY DEF IInv, CtlOK, BinsInv
<1>1. /\ pc(t)' \in {"mark"} \cup {"idle", "loop", "soft", "modify", "split"}
      /\ blk(t)' = NoExt /\ th'[t].list = th[t].list /\ th'[t].got = th[t].got /\ Ctl(t)'
  BY <1>0, <1>x, AfterCtl DEF Coalescing
<1>o. /\ "blk" \in Private /\ b \in Places /\ e \in Contents[b] /\ e \in Extents /\ e[1] \in Units
      /\ End(e) \in Units /\ e[2] \in Nat /\ e[2] > 0 /\ e[1] \in Nat /\ End(e) = e[1] + e[2]
  <2>1. "blk" \in Private /\ e \in Keeps("blk", t)
    BY <1>x DEF Private, Keeps, When, Piece, Coalescing
  <2> QED
    BY <1>0, <2>1, OwnPlace DEF End
<1>r. r \in regions /\ e[1] = r[1] /\ End(e) = End(r)
  BY <1>x, WholeRegion
<1>k. MyWord(b) = Coal /\ b # FREE /\ b # USED /\ b # QUEUE /\ ~LoosePlace(b)
  BY PlaceKinds, PlaceNames, <1>o
<1>m. /\ myL \in [Units -> Int] /\ myL[e[1]] = Coal /\ myL[End(e)] = EndMark
  <2> HIDE DEF Contents, Sides
  <2> QED
    BY <1>0, <1>o, <1>k, <1>r DEF LedgerOK, Ledger, MyRight, EdgesRight
<1>4. \A z : z \in Free' <=> z \in Free
  <2>0. ASSUME NEW p \in Units, p \in e[1] .. End(e) PROVE ~(myL[p] > 0)
    <3>1. CASE p = e[1]
      BY <1>m, <3>1 DEF Coal
    <3>2. CASE p = End(e)
      BY <1>m, <3>2 DEF EndMark
    <3>3. CASE p # e[1] /\ p # End(e)
      <4>1. e[1] < p /\ p < End(e)
        BY <1>o, <2>0, <3>3
      <4> QED
        BY <1>0, <1>o, <4>1, InnerWord
    <3> QED
      BY <3>1, <3>2, <3>3
  <2>1. \A z : z \in Free <=> \E p \in Units : myL[p] > 0 /\ z = <<p, myL[p]>>
    BY DEF Free, EndMark
  <2>2. \A z : z \in Free' <=> \E p \in Units : myL'[p] > 0 /\ z = <<p, myL'[p]>>
    BY DEF Free, EndMark
  <2>3. \A p \in Units : (myL'[p] > 0 <=> myL[p] > 0) /\ (myL[p] > 0 => myL'[p] = myL[p])
    BY <1>x, <2>0 DEF Junk
  <2> QED
    BY <2>1, <2>2, <2>3
<1>5. Turns(t, Out, In)
  <2>1. \A k \in Private \ {"blk"} : Keeps(k, t)' = Keeps(k, t)
    <3>1. \A k \in Private \ {"list", "got", "blk"} : pc(t) \notin When(k) /\ pc(t)' \notin When(k)
      BY <1>1, <1>x DEF Private, When
    <3> QED
      BY <1>1, <3>1, KeepsNone, KeepsLists
  <2>2. Keeps("blk", t) = {e} /\ Keeps("blk", t)' = {}
    BY <1>1, <1>x DEF Keeps, When, Coalescing, Piece
  <2>4. \A k \in Private : \A z : z \in Keeps(k, t)' <=> Turn(<<k, t>>, z, Keeps(k, t), Out, In)
    BY <2>1, <2>2, PlaceNames DEF Turn
  <2>5. \A u \in Threads : \A k \in Private : \A z : u # t => <<<<k, u>>, z>> \notin Out \cup In
    BY PlaceNames
  <2> HIDE DEF b
  <2>7. /\ \A z : z \in Free' <=> Turn(FREE, z, Free, Out, In)
        /\ \A z : z \in used' <=> Turn(USED, z, used, Out, In)
        /\ \A z : z \in Queued' <=> Turn(QUEUE, z, Queued, Out, In)
    BY <1>x, <1>4, <1>k DEF Turn, Queued
  <2> QED
    BY <2>4, <2>5, <2>7 DEF Turns
<1>6. Turned(Contents, Contents', Out, In)
  BY <1>5, ThreadTurns
<1>8. \A u \in Threads : Sides'[u] = Sides[u]
  <2>1. Side(t)' = Side(t)
    BY <1>x, <1>1 DEF Side
  <2> QED
    BY <2>1, SidesNext
<1>9. LedgerOK'
  <2>1. \A x \in Places : \A d : d \in Contents'[x] <=> d \in Contents[x] /\ ~(x = b /\ d = e)
    BY <1>6 DEF Turned, Turn
  <2>2. Ledger(Contents, myL, leftL, Sides, regions)
    BY <1>0 DEF LedgerOK
  <2>3. /\ myL' = [p \in Units |-> IF p \in r[1] .. End(r) THEN Junk ELSE myL[p]]
        /\ leftL' = [p \in Units |-> IF p \in r[1] .. End(r) THEN Junk ELSE leftL[p]]
    BY <1>x, <1>r
  <2> HIDE DEF Contents, Sides, b
  <2>4. Ledger(Contents', myL', leftL', Sides, regions \ {r})
    BY <1>o, <1>k, <1>r, <2>1, <2>2, <2>3, Drop
  <2>5. Ledger(Contents', myL', leftL', Sides', regions \ {r})
    BY <1>8, <2>4, Same
  <2> QED
    BY <1>x, <2>5 DEF LedgerOK
<1>11. BinsInv'
  <2>1. BinFacts(t)'
    BY <1>1, NoBinFacts DEF Scanning
  <2>2. BinFrame(t)
    BY <1>0, <1>x, <2>1 DEF BinFrame, BinsInv, BinTypes, binned
  <2>6. \A k \in Private : \A z \in Keeps(k, t) : ~Listed(<<k, t>>, z)
    BY <1>x DEF Private, Keeps, When, Listed, Registered
  <2>7. \A x, z : <<x, z>> \in Out => ~Listed(x, z)
    BY <1>x DEF Listed, Registered
  <2>8. Follows(t)
    BY <1>6, <2>6, <2>7, FollowsTurn
  <2> QED
    BY <1>0, <2>2, <2>8, BinsQuiet
<1>12. SideCtl(t)'
  BY <1>1 DEF SideCtl
<1> QED
  BY <1>1, <1>9, <1>11, <1>12

Row(b, s, n) == {<<b + i * s, s>> : i \in 0 .. n - 1}

Rowed(b, s, m, P) ==
    /\ \A z \in P : /\ z = <<z[1], z[2]>> /\ z[2] = s /\ z[1] \in Nat /\ End(z) = z[1] + s
                    /\ b <= z[1] /\ End(z) <= b + m
                    /\ (End(z) = b + m \/ \E w \in P : w[1] = End(z))
                    /\ (z[1] = b \/ \E w \in P : End(w) = z[1])
    /\ \A y, z \in P : Apart(y, z) \/ y = z
    /\ \A u \in Nat : b <= u /\ u < b + m => \E z \in P : Has(z, u)
    /\ (\E z \in P : z[1] = b) /\ (\E z \in P : End(z) = b + m)

(* Blocks of one size, one behind the other, tile what they came from.      *)
LEMMA Rows ==
    ASSUME NEW b \in Nat, NEW s \in Nat \ {0}, NEW n \in Nat \ {0}, NEW m, m = n * s,
           NEW P, P = Row(b, s, n)
    PROVE  Rowed(b, s, m, P)
<1> DEFINE at(i) == b + i * s
           row(i) == <<at(i), s>>
<1>1. \A i \in 0 .. n : at(i) \in Nat /\ b <= at(i)
  <2>1. \A i \in 0 .. n : i * s \in Nat
    OBVIOUS
  <2> QED
    BY <2>1
<1>2. \A i \in 0 .. n - 1 : at(i + 1) = at(i) + s /\ End(row(i)) = at(i + 1) /\ i \in 0 .. n /\ i + 1 \in 0 .. n
  <2>1. \A i \in Nat : (i + 1) * s = i * s + s
    OBVIOUS
  <2>2. \A i \in 0 .. n - 1 : i * s \in Nat
    OBVIOUS
  <2> QED
    BY <2>1, <2>2 DEF End
<1>3. \A i, j \in 0 .. n : i <= j => at(i) <= at(j)
  <2>1. \A i, j \in Nat : i <= j => i * s <= j * s
    <3> TAKE i, j \in Nat
    <3> HAVE i <= j
    <3>1. (j - i) \in Nat /\ (j - i) * s >= 0
      OBVIOUS
    <3>2. j * s = i * s + (j - i) * s
      BY Z3
    <3> QED
      BY <3>1, <3>2
  <2>2. \A i \in 0 .. n : i * s \in Nat
    OBVIOUS
  <2> QED
    BY <2>1, <2>2
<1>4. at(0) = b /\ at(n) = b + m
  OBVIOUS
<1>5. \A z : z \in P <=> \E i \in 0 .. n - 1 : z = row(i)
  BY DEF Row
<1>6. \A i \in 0 .. n - 1 : row(i)[1] = at(i) /\ row(i)[2] = s /\ row(i) \in P
  BY <1>5
<1>u. ASSUME NEW u \in Nat, b <= u, u < b + m PROVE \E i \in 0 .. n - 1 : at(i) <= u /\ u < at(i + 1)
  <2> DEFINE k == u - b
             q == k \div s
  <2>0. k \in Nat /\ k \in Int /\ k < n * s
    BY <1>u
  <2> HIDE DEF k
  <2>1. q \in Int /\ k % s \in 0 .. s - 1 /\ k = s * q + (k % s)
    BY <2>0, DivMod
  <2> HIDE DEF q
  <2>2. q >= 0
    <3>1. q <= -1 => s * q <= -s
      BY <2>1, Z3
    <3> QED
      BY <2>0, <2>1, <3>1
  <2>3. q < n
    <3>1. q >= n => s * q >= n * s
      BY <2>1, Z3
    <3> QED
      BY <2>0, <2>1, <3>1
  <2>4. s * q = q * s /\ q * s \in Nat
    BY <2>1, <2>2
  <2>5. at(q) <= u /\ u < at(q) + s
    BY <2>0, <2>1, <2>4 DEF k
  <2>6. q \in 0 .. n - 1
    BY <2>1, <2>2, <2>3
  <2> QED
    BY <1>2, <2>5, <2>6
<1> HIDE DEF at
<1>7. ASSUME NEW z \in P
      PROVE  /\ z = <<z[1], z[2]>> /\ z[2] = s /\ z[1] \in Nat /\ End(z) = z[1] + s
             /\ b <= z[1] /\ End(z) <= b + m
             /\ (End(z) = b + m \/ \E w \in P : w[1] = End(z))
             /\ (z[1] = b \/ \E w \in P : End(w) = z[1])
  <2>1. PICK i \in 0 .. n - 1 : z = row(i)
    BY <1>5
  <2>2. z[1] = at(i) /\ z[2] = s /\ End(z) = at(i + 1) /\ z = <<z[1], z[2]>> /\ at(i + 1) = at(i) + s
    BY <1>2, <2>1
  <2>3. at(i) \in Nat /\ b <= at(i) /\ at(i + 1) <= at(n)
    BY <1>1, <1>2, <1>3
  <2>4. ASSUME i + 1 = n PROVE End(z) = b + m
    BY <1>4, <2>2, <2>4
  <2>5. ASSUME i + 1 # n PROVE \E w \in P : w[1] = End(z)
    <3>1. i + 1 \in 0 .. n - 1
      BY <2>5
    <3> QED
      BY <1>6, <2>2, <3>1
  <2>6. ASSUME i = 0 PROVE z[1] = b
    BY <1>4, <2>2, <2>6
  <2>7. ASSUME i # 0 PROVE \E w \in P : End(w) = z[1]
    <3>1. i - 1 \in 0 .. n - 1 /\ (i - 1) + 1 = i
      BY <2>7
    <3>2. row(i - 1) \in P /\ End(row(i - 1)) = at((i - 1) + 1)
      BY <1>2, <1>6, <3>1
    <3> QED
      BY <2>2, <3>1, <3>2
  <2> HIDE DEF row
  <2>8. End(z) = b + m \/ \E w \in P : w[1] = End(z)
    BY <2>4, <2>5
  <2>9. z[1] = b \/ \E w \in P : End(w) = z[1]
    BY <2>6, <2>7
  <2> QED
    BY <1>4, <2>2, <2>3, <2>8, <2>9
<1>8. ASSUME NEW y \in P, NEW z \in P PROVE Apart(y, z) \/ y = z
  <2>1. PICK i \in 0 .. n - 1 : y = row(i)
    BY <1>5
  <2>2. PICK j \in 0 .. n - 1 : z = row(j)
    BY <1>5
  <2>3. y[1] = at(i) /\ End(y) = at(i + 1) /\ z[1] = at(j) /\ End(z) = at(j + 1)
    BY <1>2, <2>1, <2>2
  <2>4. i < j \/ j < i \/ i = j
    OBVIOUS
  <2>5. CASE i < j
    <3>1. at(i + 1) <= at(j)
      BY <1>3, <2>5
    <3> QED
      BY <2>3, <3>1 DEF Apart
  <2>6. CASE j < i
    <3>1. at(j + 1) <= at(i)
      BY <1>3, <2>6
    <3> QED
      BY <2>3, <3>1 DEF Apart
  <2> QED
    BY <2>1, <2>2, <2>4, <2>5, <2>6
<1>9. ASSUME NEW u \in Nat, b <= u, u < b + m PROVE \E z \in P : Has(z, u)
  <2>1. PICK i \in 0 .. n - 1 : at(i) <= u /\ u < at(i + 1)
    BY <1>9, <1>u
  <2>2. row(i) \in P /\ row(i)[1] = at(i) /\ End(row(i)) = at(i + 1)
    BY <1>2, <1>6
  <2> QED
    BY <2>1, <2>2 DEF Has
<1>10. (\E z \in P : z[1] = b) /\ (\E z \in P : End(z) = b + m)
  <2>1. 0 \in 0 .. n - 1 /\ n - 1 \in 0 .. n - 1 /\ (n - 1) + 1 = n
    OBVIOUS
  <2>2. row(0) \in P /\ row(0)[1] = b
    BY <1>4, <1>6, <2>1
  <2>3. row(n - 1) \in P /\ End(row(n - 1)) = b + m
    BY <1>2, <1>4, <1>6, <2>1
  <2> QED
    BY <2>2, <2>3
<1> QED
  BY <1>7, <1>8, <1>9, <1>10 DEF Rowed

(* A block taken from the bins is handed out, cut into pieces.              *)
LEMMA BlockReleasedGetStep ==
    ASSUME IInv, Local, NEW t \in Threads, Path(t), BlockReleased(t), Mine(t),
           th[t].got # NoExt, NEW e, e = th[t].got, NEW P, P = Parts(t)
    PROVE  LedgerOK' /\ Ctl(t)' /\ SideCtl(t)' /\ BinsInv'
<1> DEFINE a   == <<"got", t>>
           Out == {<<a, e>>}
           In  == {<<USED, z>> : z \in P}
           OutF == [x \in Places |-> IF x = a THEN {e} ELSE {}]
           InF  == [x \in Places |-> IF x = USED THEN P ELSE {}]
           I    == {z[1] : z \in P} \ {e[1]}
<1>x. /\ pc(t) = "released" /\ used' = used \cup P /\ th' = [th EXCEPT ![t] = Resting]
      /\ myL' = [p \in Units |-> IF p \in I THEN Locked ELSE myL[p]]
      /\ leftL' = [p \in Units |-> IF p \in I THEN Locked ELSE leftL[p]]
      /\ queue' = queue /\ regions' = regions /\ UNCHANGED binned
  BY DEF BlockReleased, At, pc, Inner
<1>1. /\ pc(t)' = "idle" /\ blk(t)' = NoExt /\ th'[t].list = <<>> /\ th'[t].got = NoExt
      /\ th'[t].req = NoReq /\ th'[t].ret = "idle" /\ th'[t].back = "idle" /\ th'[t].bin = NoBin
      /\ ~th'[t].whole /\ th'[t].tmp = 0
  BY <1>x DEF Local, pc, blk, Resting
<1>0. Ctl(t) /\ LedgerOK /\ CtlOK /\ BinsInv /\ BinFacts(t)
  BY DEF IInv, CtlOK, BinsInv
<1>g. th[t].list = <<>> /\ e[2] = Total(t) /\ th[t].req \in Requests
  BY <1>0, <1>x DEF Ctl, ListCtl, GotCtl, ReqCtl, Coalescing
<1>o. /\ "got" \in Private /\ a \in Places /\ e \in Contents[a] /\ e \in Extents /\ e[1] \in Units
      /\ End(e) \in Units /\ e[2] \in Nat /\ e[2] > 0 /\ e[1] \in Nat /\ End(e) = e[1] + e[2]
  <2>1. "got" \in Private /\ e \in Keeps("got", t)
    BY DEF Private, Keeps
  <2> QED
    BY <1>0, <2>1, OwnPlace DEF End
<1>h. USED \in Places /\ USED # a /\ USED # FREE /\ USED # QUEUE /\ a # FREE /\ a # QUEUE
  BY PlaceNames, <1>o
<1>p. /\ \A z \in P : /\ z = <<z[1], z[2]>> /\ z[2] > 0 /\ z[2] \in Nat /\ z[1] \in Nat /\ End(z) = z[1] + z[2]
                      /\ e[1] <= z[1] /\ End(z) <= End(e)
                      /\ (End(z) = End(e) \/ \E w \in P : w[1] = End(z))
                      /\ (z[1] = e[1] \/ \E w \in P : End(w) = z[1])
      /\ \A y, z \in P : Apart(y, z) \/ y = z
      /\ \A u \in Nat : e[1] <= u /\ u < End(e) => \E z \in P : Has(z, u)
      /\ (\E z \in P : z[1] = e[1]) /\ (\E z \in P : End(z) = End(e))
  <2> DEFINE b == e[1]
             s == th[t].req.size
             n == th[t].req.num
             m == e[2]
  <2>1. s \in Nat \ {0} /\ n \in Nat \ {0} /\ m = n * s /\ b \in Nat
    BY <1>g, <1>o, TotalType DEF Total
  <2>2. P = Row(b, s, n)
    BY DEF Parts, Row
  <2>3. End(e) = b + m
    BY <1>o
  <2> HIDE DEF b, s, n, m
  <2>4. Rowed(b, s, m, P)
    BY <2>1, <2>2, Rows
  <2>5. /\ \A z \in P : /\ z = <<z[1], z[2]>> /\ z[2] > 0 /\ z[2] \in Nat /\ z[1] \in Nat /\ End(z) = z[1] + z[2]
                        /\ b <= z[1] /\ End(z) <= End(e)
                        /\ (End(z) = End(e) \/ \E w \in P : w[1] = End(z))
                        /\ (z[1] = b \/ \E w \in P : End(w) = z[1])
    BY <2>1, <2>3, <2>4 DEF Rowed
  <2> QED
    BY <2>3, <2>4, <2>5 DEF b, Rowed
<1> HIDE DEF I
<1>r. PICK r \in regions : Within(e, r) /\ r \in Regions /\ r[1] \in Nat /\ r[2] \in Nat /\ End(r) = r[1] + r[2]
  <2> HIDE DEF Contents, Sides
  <2>1. PICK r \in regions : Within(e, r) /\ r \in Regions
    BY <1>0, <1>o DEF LedgerOK, Ledger, Tiling, Inside
  <2> QED
    BY <2>1, UnitsNat DEF End
<1>z. \A z \in P : z \in Extents /\ z[1] \in Units /\ End(z) \in Units /\ Within(z, r)
  <2> TAKE z \in P
  <2>1. r[1] <= z[1] /\ z[1] <= End(z) /\ End(z) <= End(r) /\ z[1] \in Nat /\ End(z) \in Nat
    BY <1>o, <1>p, <1>r DEF Within
  <2>2. z[1] \in r[1] .. r[1] + r[2] /\ End(z) \in r[1] .. r[1] + r[2]
    BY <1>r, <2>1
  <2>3. z[1] \in Units /\ End(z) \in Units
    BY <1>r, <2>2 DEF Units
  <2> QED
    BY <1>p, <2>1, <2>3 DEF Extents, Within
<1>i. /\ \A p \in I : p \in Units /\ e[1] < p /\ p < End(e) /\ \E z \in P : z[1] = p
      /\ \A z \in P : z[1] # e[1] => z[1] \in I
      /\ e[1] \notin I
  <2>1. \A z \in P : z[1] # e[1] => e[1] < z[1] /\ z[1] < End(e)
    BY <1>o, <1>p
  <2> QED
    BY <1>z, <2>1 DEF I
<1>k. MyWord(a) = Locked /\ LeftWord(a) = Locked /\ ~LoosePlace(a)
      /\ MyWord(USED) = Locked /\ LeftWord(USED) = Locked /\ ~LoosePlace(USED)
  BY PlaceKinds, <1>o, <1>h
<1>m. /\ myL \in [Units -> Int] /\ leftL \in [Units -> Int] /\ myL[e[1]] = Locked /\ leftL[End(e)] = Locked
  <2> HIDE DEF Contents, Sides
  <2> QED
    BY <1>0, <1>o, <1>k, <1>h DEF LedgerOK, Ledger, MyRight, LeftRight
<1>4. \A z : z \in Free' <=> z \in Free
  <2>0. \A p \in I : ~(myL[p] > 0)
    BY <1>0, <1>o, <1>i, InnerWord
  <2>1. \A z : z \in Free <=> \E p \in Units : myL[p] > 0 /\ z = <<p, myL[p]>>
    BY DEF Free, EndMark
  <2>2. \A z : z \in Free' <=> \E p \in Units : myL'[p] > 0 /\ z = <<p, myL'[p]>>
    BY DEF Free, EndMark
  <2>3. \A p \in Units : (myL'[p] > 0 <=> myL[p] > 0) /\ (myL[p] > 0 => myL'[p] = myL[p])
    BY <1>x, <2>0 DEF Locked
  <2> QED
    BY <2>1, <2>2, <2>3
<1>5. Turns(t, Out, In)
  <2>1. \A k \in Private \ {"got"} : Keeps(k, t)' = Keeps(k, t)
    <3>1. \A k \in Private \ {"list", "got"} : pc(t) \notin When(k) /\ pc(t)' \notin When(k)
      BY <1>1, <1>x DEF Private, When, Coalescing
    <3>2. Keeps("list", t)' = Keeps("list", t)
      BY <1>1, <1>g DEF Keeps, InList
    <3> QED
      BY <3>1, <3>2, KeepsNone
  <2>2. Keeps("got", t) = {e} /\ Keeps("got", t)' = {}
    BY <1>1 DEF Keeps
  <2>4. \A k \in Private : \A z : z \in Keeps(k, t)' <=> Turn(<<k, t>>, z, Keeps(k, t), Out, In)
    BY <2>1, <2>2, PlaceNames DEF Turn
  <2>5. \A u \in Threads : \A k \in Private : \A z : u # t => <<<<k, u>>, z>> \notin Out \cup In
    BY PlaceNames
  <2> HIDE DEF a
  <2>7. /\ \A z : z \in Free' <=> Turn(FREE, z, Free, Out, In)
        /\ \A z : z \in used' <=> Turn(USED, z, used, Out, In)
        /\ \A z : z \in Queued' <=> Turn(QUEUE, z, Queued, Out, In)
    BY <1>x, <1>4, <1>h DEF Turn, Queued
  <2> QED
    BY <2>4, <2>5, <2>7 DEF Turns
<1>6. Turned(Contents, Contents', Out, In)
  BY <1>5, ThreadTurns
<1>8. \A u \in Threads : Sides'[u] = Sides[u]
  <2>1. Side(t)' = Side(t)
    BY <1>x, <1>1 DEF Side
  <2> QED
    BY <2>1, SidesNext
<1>9. LedgerOK'
  <2>3. Ledger(Contents, myL, leftL, Sides, regions)
    BY <1>0 DEF LedgerOK
  <2>4. \A x \in Places : \A z : /\ <<x, z>> \in Out <=> z \in OutF[x]
                                 /\ <<x, z>> \in In <=> z \in InF[x]
    BY <1>h, <1>o
  <2>5. /\ OutF[a] = {e} /\ \A x \in Places : x # a => OutF[x] = {}
        /\ InF[USED] = P /\ \A x \in Places : x # USED => InF[x] = {}
    BY <1>h, <1>o
  <2> HIDE DEF Contents, Sides, a, OutF, InF, Out, In
  <2>x. \A x \in Places : /\ \A z \in InF[x] : x = USED /\ z \in P
                          /\ \A z \in OutF[x] : x = a /\ z = e
    BY <2>5
  <2>b. /\ \A p : Begin(InF, p) <=> \E z \in P : z[1] = p
        /\ \A p : Finish(InF, p) <=> \E z \in P : End(z) = p
    BY <1>h, <2>5, <2>x DEF Begin, Finish
  <2>6. Exchanged(Contents, Contents', OutF, InF, regions)
    <3>1. \A x \in Places : OutF[x] \subseteq Contents[x]
      BY <1>o, <2>5
    <3>2. \A x \in Places : \A d : d \in Contents'[x] <=> (d \in Contents[x] /\ d \notin OutF[x]) \/ d \in InF[x]
      BY <1>6, <2>4 DEF Turned, Turn
    <3>3. Inside(InF, regions)
      BY <1>p, <1>r, <1>z, <2>x DEF Inside
    <3>4. Disjoint(InF)
      BY <1>p, <2>x DEF Disjoint
    <3>5. \A u \in Nat : Holds(OutF, u) <=> Holds(InF, u)
      <4> TAKE u \in Nat
      <4>1. Holds(OutF, u) <=> Has(e, u)
        BY <1>o, <2>5, <2>x DEF Holds
      <4>2. Holds(InF, u) <=> \E z \in P : Has(z, u)
        BY <1>h, <2>5, <2>x DEF Holds
      <4>3. Has(e, u) <=> e[1] <= u /\ u < End(e)
        BY DEF Has
      <4>4. \A z \in P : Has(z, u) => e[1] <= u /\ u < End(e)
        BY <1>o, <1>p DEF Has
      <4> QED
        BY <1>p, <4>1, <4>2, <4>3, <4>4
    <3> QED
      BY <3>1, <3>2, <3>3, <3>4, <3>5 DEF Exchanged
  <2>7. myL' \in [Units -> Int] /\ leftL' \in [Units -> Int]
    BY <1>x, <1>m DEF Locked
  <2>8. \A z \in P : myL'[z[1]] = Locked /\ leftL'[End(z)] = Locked
    <3> TAKE z \in P
    <3>1. myL'[z[1]] = Locked
      BY <1>x, <1>m, <1>i, <1>z
    <3>2. ASSUME End(z) = End(e) PROVE leftL'[End(z)] = Locked
      <4>1. End(e) \notin I
        BY <1>o, <1>i
      <4> QED
        BY <1>x, <1>m, <1>o, <3>2, <4>1
    <3>3. ASSUME End(z) # End(e) PROVE leftL'[End(z)] = Locked
      <4>1. PICK w \in P : w[1] = End(z)
        BY <1>p, <3>3
      <4>2. w[1] # e[1]
        BY <1>o, <1>p, <4>1
      <4> QED
        BY <1>x, <1>i, <1>z, <4>1, <4>2
    <3> QED
      BY <3>1, <3>2, <3>3
  <2>9. \A x \in Places : \A z \in InF[x] : myL'[z[1]] = MyWord(x) /\ leftL'[End(z)] = LeftWord(x)
    BY <1>k, <2>x, <2>8
  <2>10. \A p \in Units : ~Begin(InF, p) => myL'[p] = myL[p]
    BY <1>x, <1>i, <2>b
  <2>11. \A p \in Units : ~Finish(InF, p) => leftL'[p] = leftL[p]
    BY <1>x, <1>i, <1>p, <2>b
  <2>12. \A x \in Places : \A z \in OutF[x] : Begin(InF, z[1]) /\ Finish(InF, End(z))
    BY <1>p, <2>b, <2>x
  <2>13. \A x \in Places : LoosePlace(x) => OutF[x] = {} /\ InF[x] = {}
    BY <1>k, <2>5
  <2>14. Ledger(Contents', myL', leftL', Sides, regions)
    BY <2>3, <2>6, <2>7, <2>9, <2>10, <2>11, <2>12, <2>13, Replace
  <2>15. Ledger(Contents', myL', leftL', Sides', regions)
    BY <1>8, <2>14, Same
  <2> QED
    BY <1>x, <2>15 DEF LedgerOK
<1>10. Ctl(t)'
  <2>1. ListCtl(t)'
    <3>1. <<>> \in Seq(Extents)
      OBVIOUS
    <3>2. Distinct(<<>>)
      BY Single
    <3> QED
      BY <1>1, <3>1, <3>2 DEF ListCtl, Coalescing
  <2>2. GotCtl(t)'
    BY <1>1 DEF GotCtl, Giving
  <2>3. ReqCtl(t)'
    BY <1>1 DEF ReqCtl, Asking, Scanning
  <2>4. WholeCtl(t)' /\ BinCtl(t)'
    BY <1>1 DEF WholeCtl, BinCtl, Scanning
  <2> QED
    BY <2>1, <2>2, <2>3, <2>4 DEF Ctl
<1>11. BinsInv'
  <2>1. BinFacts(t)'
    BY <1>1, NoBinFacts DEF Scanning
  <2>2. BinFrame(t)
    BY <1>0, <1>x, <2>1 DEF BinFrame, BinsInv, BinTypes, binned
  <2>6. \A k \in Private : \A z \in Keeps(k, t) : ~Listed(<<k, t>>, z)
    BY <1>x DEF Private, Keeps, When, Coalescing, Listed, Registered
  <2>7. \A x, z : <<x, z>> \in Out => ~Listed(x, z)
    BY DEF Listed, Registered
  <2>8. Follows(t)
    BY <1>6, <2>6, <2>7, FollowsTurn
  <2> QED
    BY <1>0, <2>2, <2>8, BinsQuiet
<1>12. SideCtl(t)'
  BY <1>1 DEF SideCtl
<1> QED
  BY <1>9, <1>10, <1>11, <1>12

-----------------------------------------------------------------------------
(* All steps.                                                               *)

(* What a step of a thread must leave true.                                 *)
Kept(t) == LedgerOK' /\ Ctl(t)' /\ SideCtl(t)' /\ BinsInv' /\ QueueOK'

(* The queue stays a list without repetitions.                              *)
LEMMA SameQueue == ASSUME IInv, queue' = queue PROVE QueueOK'
  BY DEF IInv, CtlOK, QueueOK

(* The steps of doCoalesc keep the invariant.                               *)
LEMMA CoalesceKeeps ==
    ASSUME IInv, Local, NEW t \in Threads, Path(t), Mine(t), Coalesce(t)
    PROVE  Kept(t)
<1>1. ASSUME MarkMine(t) PROVE Kept(t)
  <2>3. LedgerOK' /\ Ctl(t)' /\ SideCtl(t)' /\ BinsInv'
    BY <1>1, MarkMineStep
  <2>4. queue' = queue
    BY <1>1 DEF MarkMine
  <2> QED
    BY <2>3, <2>4, SameQueue DEF Kept
<1>2. ASSUME MarkRight(t) PROVE Kept(t)
  <2>3. LedgerOK' /\ Ctl(t)' /\ SideCtl(t)' /\ BinsInv'
    BY <1>2, MarkRightStep
  <2>4. queue' = queue
    BY <1>2 DEF MarkRight
  <2> QED
    BY <2>3, <2>4, SameQueue DEF Kept
<1>3. ASSUME TryLeft(t) PROVE Kept(t)
  <2>1. ASSUME ~(leftL[blk(t)[1]] > Coal) PROVE LedgerOK' /\ Ctl(t)' /\ SideCtl(t)' /\ BinsInv'
    BY <1>3, <2>1, TryLeftNotStep
  <2>2. ASSUME leftL[blk(t)[1]] > Coal PROVE LedgerOK' /\ Ctl(t)' /\ SideCtl(t)' /\ BinsInv'
    BY <1>3, <2>2, TryLeftTakenStep
  <2>3. LedgerOK' /\ Ctl(t)' /\ SideCtl(t)' /\ BinsInv'
    BY <2>1, <2>2
  <2>4. queue' = queue
    BY <1>3 DEF TryLeft
  <2> QED
    BY <2>3, <2>4, SameQueue DEF Kept
<1>4. ASSUME LockLeft(t) PROVE Kept(t)
  <2>1. ASSUME myL[blk(t)[1] - th[t].tmp] <= Coal PROVE LedgerOK' /\ Ctl(t)' /\ SideCtl(t)' /\ BinsInv'
    BY <1>4, <2>1, LockLeftNotStep
  <2>2. ASSUME ~(myL[blk(t)[1] - th[t].tmp] <= Coal) PROVE LedgerOK' /\ Ctl(t)' /\ SideCtl(t)' /\ BinsInv'
    BY <1>4, <2>2, LockLeftTakenStep
  <2>3. LedgerOK' /\ Ctl(t)' /\ SideCtl(t)' /\ BinsInv'
    BY <2>1, <2>2
  <2>4. queue' = queue
    BY <1>4 DEF LockLeft
  <2> QED
    BY <2>3, <2>4, SameQueue DEF Kept
<1>5. ASSUME UndoLeft(t) PROVE Kept(t)
  <2>3. LedgerOK' /\ Ctl(t)' /\ SideCtl(t)' /\ BinsInv'
    BY <1>5, UndoLeftStep
  <2>4. queue' = queue
    BY <1>5 DEF UndoLeft
  <2> QED
    BY <2>3, <2>4, SameQueue DEF Kept
<1>6. ASSUME TryRight(t) PROVE Kept(t)
  <2>1. ASSUME ~(myL[End(blk(t))] > EndMark) PROVE LedgerOK' /\ Ctl(t)' /\ SideCtl(t)' /\ BinsInv'
    BY <1>6, <2>1, TryRightNotStep
  <2>2. ASSUME myL[End(blk(t))] > EndMark PROVE LedgerOK' /\ Ctl(t)' /\ SideCtl(t)' /\ BinsInv'
    BY <1>6, <2>2, TryRightTakenStep
  <2>3. LedgerOK' /\ Ctl(t)' /\ SideCtl(t)' /\ BinsInv'
    BY <2>1, <2>2
  <2>4. queue' = queue
    BY <1>6 DEF TryRight
  <2> QED
    BY <2>3, <2>4, SameQueue DEF Kept
<1>7. ASSUME LockRight(t) PROVE Kept(t)
  <2>1. ASSUME leftL[End(blk(t)) + th[t].tmp] <= Coal PROVE LedgerOK' /\ Ctl(t)' /\ SideCtl(t)' /\ BinsInv'
    BY <1>7, <2>1, LockRightNotStep
  <2>2. ASSUME ~(leftL[End(blk(t)) + th[t].tmp] <= Coal) PROVE LedgerOK' /\ Ctl(t)' /\ SideCtl(t)' /\ BinsInv'
    BY <1>7, <2>2, LockRightTakenStep
  <2>3. LedgerOK' /\ Ctl(t)' /\ SideCtl(t)' /\ BinsInv'
    BY <2>1, <2>2
  <2>4. queue' = queue
    BY <1>7 DEF LockRight
  <2> QED
    BY <2>3, <2>4, SameQueue DEF Kept
<1>8. ASSUME UndoRight(t) PROVE Kept(t)
  <2>3. LedgerOK' /\ Ctl(t)' /\ SideCtl(t)' /\ BinsInv'
    BY <1>8, UndoRightStep
  <2>4. queue' = queue
    BY <1>8 DEF UndoRight
  <2> QED
    BY <2>3, <2>4, SameQueue DEF Kept
<1>9. ASSUME AwaitRight(t) PROVE Kept(t)
  <2>3. LedgerOK' /\ Ctl(t)' /\ SideCtl(t)' /\ BinsInv'
    BY <1>9, AwaitRightStep
  <2>4. queue' = queue
    BY <1>9 DEF AwaitRight, AwaitBin
  <2> QED
    BY <2>3, <2>4, SameQueue DEF Kept
<1>10. ASSUME RemoveRight(t) PROVE Kept(t)
  <2>3. LedgerOK' /\ Ctl(t)' /\ SideCtl(t)' /\ BinsInv'
    BY <1>10, RemoveRightStep
  <2>4. queue' = queue
    BY <1>10 DEF RemoveRight
  <2> QED
    BY <2>3, <2>4, SameQueue DEF Kept
<1>11. ASSUME PeekNext(t) PROVE Kept(t)
  <2>3. LedgerOK' /\ Ctl(t)' /\ SideCtl(t)' /\ BinsInv'
    BY <1>11, PeekNextStep
  <2>4. queue' = queue
    BY <1>11 DEF PeekNext
  <2> QED
    BY <2>3, <2>4, SameQueue DEF Kept
<1>12. ASSUME UnpeekNext(t) PROVE Kept(t)
  <2>3. LedgerOK' /\ Ctl(t)' /\ SideCtl(t)' /\ BinsInv'
    BY <1>12, UnpeekNextStep
  <2>4. queue' = queue
    BY <1>12 DEF UnpeekNext
  <2> QED
    BY <2>3, <2>4, SameQueue DEF Kept
<1>13. ASSUME MarkUsed(t) PROVE Kept(t)
  <2>3. LedgerOK' /\ Ctl(t)' /\ SideCtl(t)' /\ BinsInv'
    BY <1>13, MarkUsedStep
  <2>4. queue' = queue
    BY <1>13 DEF MarkUsed
  <2> QED
    BY <2>3, <2>4, SameQueue DEF Kept
<1>14. ASSUME MarkRightUsed(t) PROVE Kept(t)
  <2>3. LedgerOK' /\ Ctl(t)' /\ SideCtl(t)' /\ BinsInv'
    BY <1>14, MarkRightUsedStep
  <2>4. queue' = queue
    BY <1>14 DEF MarkRightUsed
  <2> QED
    BY <2>3, <2>4, SameQueue DEF Kept
<1>15. ASSUME PutInQueue(t) PROVE Kept(t)
  BY <1>15, PutInQueueStep DEF Kept
<1> QED
  BY <1>1, <1>2, <1>3, <1>4, <1>5, <1>6, <1>7, <1>8, <1>9, <1>10, <1>11, <1>12, <1>13,
     <1>14, <1>15 DEF Coalesce

(* The steps of coalescAndPutList with the coalesced block keep it.         *)
LEMMA PutBackKeeps ==
    ASSUME IInv, Local, NEW t \in Threads, Path(t), Mine(t), PutBack(t)
    PROVE  Kept(t)
<1>1. ASSUME Decide(t) PROVE Kept(t)
  <2>3. LedgerOK' /\ Ctl(t)' /\ SideCtl(t)' /\ BinsInv'
    BY <1>1, DecideStep
  <2>4. queue' = queue
    BY <1>1 DEF Decide
  <2> QED
    BY <2>3, <2>4, SameQueue DEF Kept
<1>2. ASSUME Unbin(t) PROVE Kept(t)
  <2>1. ASSUME myBin[blk(t)[1]] = NoBin PROVE LedgerOK' /\ Ctl(t)' /\ SideCtl(t)' /\ BinsInv'
    BY <1>2, <2>1, UnbinNotStep
  <2>2. ASSUME myBin[blk(t)[1]] # NoBin PROVE LedgerOK' /\ Ctl(t)' /\ SideCtl(t)' /\ BinsInv'
    BY <1>2, <2>2, UnbinAwaitStep
  <2>3. LedgerOK' /\ Ctl(t)' /\ SideCtl(t)' /\ BinsInv'
    BY <2>1, <2>2
  <2>4. queue' = queue
    BY <1>2 DEF Unbin, AwaitBin
  <2> QED
    BY <2>3, <2>4, SameQueue DEF Kept
<1>3. ASSUME RemoveMine(t) PROVE Kept(t)
  <2>3. LedgerOK' /\ Ctl(t)' /\ SideCtl(t)' /\ BinsInv'
    BY <1>3, RemoveMineStep
  <2>4. queue' = queue
    BY <1>3 DEF RemoveMine
  <2> QED
    BY <2>3, <2>4, SameQueue DEF Kept
<1>4. ASSUME ReleaseRegion(t) PROVE Kept(t)
  <2>3. LedgerOK' /\ Ctl(t)' /\ SideCtl(t)' /\ BinsInv'
    BY <1>4, ReleaseRegionStep
  <2>4. queue' = queue
    BY <1>4 DEF ReleaseRegion
  <2> QED
    BY <2>3, <2>4, SameQueue DEF Kept
<1>5. ASSUME Add(t) PROVE Kept(t)
  <2>3. LedgerOK' /\ Ctl(t)' /\ SideCtl(t)' /\ BinsInv'
    BY <1>5, AddStep
  <2>4. queue' = queue
    BY <1>5 DEF Add
  <2> QED
    BY <2>3, <2>4, SameQueue DEF Kept
<1>6. ASSUME TryAdd(t) PROVE Kept(t)
  <2>1. ASSUME tLock[myBin[blk(t)[1]]] = NoThread PROVE LedgerOK' /\ Ctl(t)' /\ SideCtl(t)' /\ BinsInv'
    BY <1>6, <2>1, TryAddLockStep
  <2>2. ASSUME tLock[myBin[blk(t)[1]]] # NoThread PROVE LedgerOK' /\ Ctl(t)' /\ SideCtl(t)' /\ BinsInv'
    BY <1>6, <2>2, TryAddNotStep
  <2>3. LedgerOK' /\ Ctl(t)' /\ SideCtl(t)' /\ BinsInv'
    BY <2>1, <2>2
  <2>4. queue' = queue
    BY <1>6 DEF TryAdd
  <2> QED
    BY <2>3, <2>4, SameQueue DEF Kept
<1>7. ASSUME Insert(t) PROVE Kept(t)
  <2>3. LedgerOK' /\ Ctl(t)' /\ SideCtl(t)' /\ BinsInv'
    BY <1>7, InsertStep
  <2>4. queue' = queue
    BY <1>7 DEF Insert
  <2> QED
    BY <2>3, <2>4, SameQueue DEF Kept
<1>8. ASSUME SetBit(t) PROVE Kept(t)
  <2>3. LedgerOK' /\ Ctl(t)' /\ SideCtl(t)' /\ BinsInv'
    BY <1>8, SetBitStep
  <2>4. queue' = queue
    BY <1>8 DEF SetBit
  <2> QED
    BY <2>3, <2>4, SameQueue DEF Kept
<1>9. ASSUME SetMeFree(t) PROVE Kept(t)
  <2>3. LedgerOK' /\ Ctl(t)' /\ SideCtl(t)' /\ BinsInv'
    BY <1>9, SetMeFreeStep
  <2>4. queue' = queue
    BY <1>9 DEF SetMeFree
  <2> QED
    BY <2>3, <2>4, SameQueue DEF Kept
<1>10. ASSUME SetLeftFree(t) PROVE Kept(t)
  <2>3. LedgerOK' /\ Ctl(t)' /\ SideCtl(t)' /\ BinsInv'
    BY <1>10, SetLeftFreeStep
  <2>4. queue' = queue
    BY <1>10 DEF SetLeftFree
  <2> QED
    BY <2>3, <2>4, SameQueue DEF Kept
<1> QED
  BY <1>1, <1>2, <1>3, <1>4, <1>5, <1>6, <1>7, <1>8, <1>9, <1>10 DEF PutBack

(* The steps of genericGetBlock on the bins keep it.                        *)
LEMMA SearchKeeps ==
    ASSUME IInv, Local, NEW t \in Threads, Path(t), Mine(t), Search(t)
    PROVE  Kept(t)
<1>1. ASSUME StartScan(t) PROVE Kept(t)
  <2>3. LedgerOK' /\ Ctl(t)' /\ SideCtl(t)' /\ BinsInv'
    BY <1>1, StartScanStep
  <2>4. queue' = queue
    BY <1>1 DEF StartScan
  <2> QED
    BY <2>3, <2>4, SameQueue DEF Kept
<1>2. ASSUME NextBin(t) PROVE Kept(t)
  <2>3. LedgerOK' /\ Ctl(t)' /\ SideCtl(t)' /\ BinsInv'
    BY <1>2, NextBinStep
  <2>4. queue' = queue
    BY <1>2 DEF NextBin
  <2> QED
    BY <2>3, <2>4, SameQueue DEF Kept
<1>3. ASSUME NoMoreBins(t) PROVE Kept(t)
  <2>3. LedgerOK' /\ Ctl(t)' /\ SideCtl(t)' /\ BinsInv'
    BY <1>3, NoMoreBinsStep
  <2>4. queue' = queue
    BY <1>3 DEF NoMoreBins
  <2> QED
    BY <2>3, <2>4, SameQueue DEF Kept
<1>4. ASSUME OpenBin(t) PROVE Kept(t)
  <2>1. ASSUME bins[th[t].bin] # <<>> /\ tLock[th[t].bin] = NoThread PROVE LedgerOK' /\ Ctl(t)' /\ SideCtl(t)' /\ BinsInv'
    BY <1>4, <2>1, OpenBinStep
  <2>2. ASSUME bins[th[t].bin] = <<>> \/ tLock[th[t].bin] # NoThread PROVE LedgerOK' /\ Ctl(t)' /\ SideCtl(t)' /\ BinsInv'
    BY <1>4, <2>2, OpenBinNotStep
  <2>3. LedgerOK' /\ Ctl(t)' /\ SideCtl(t)' /\ BinsInv'
    BY <2>1, <2>2
  <2>4. queue' = queue
    BY <1>4 DEF OpenBin
  <2> QED
    BY <2>3, <2>4, SameQueue DEF Kept
<1>5. ASSUME LockMe(t) PROVE Kept(t)
  <2>1. ASSUME myL[th[t].cur] <= Coal PROVE LedgerOK' /\ Ctl(t)' /\ SideCtl(t)' /\ BinsInv'
    BY <1>5, <2>1, LockMeNotStep
  <2>2. ASSUME ~(myL[th[t].cur] <= Coal) PROVE LedgerOK' /\ Ctl(t)' /\ SideCtl(t)' /\ BinsInv'
    BY <1>5, <2>2, LockMeTakenStep
  <2>3. LedgerOK' /\ Ctl(t)' /\ SideCtl(t)' /\ BinsInv'
    BY <2>1, <2>2
  <2>4. queue' = queue
    BY <1>5 DEF LockMe
  <2> QED
    BY <2>3, <2>4, SameQueue DEF Kept
<1>6. ASSUME LockSide(t) PROVE Kept(t)
  <2>1. ASSUME leftL[th[t].cur + th[t].tmp] <= Coal PROVE LedgerOK' /\ Ctl(t)' /\ SideCtl(t)' /\ BinsInv'
    BY <1>6, <2>1, LockSideNotStep
  <2>2. ASSUME ~(leftL[th[t].cur + th[t].tmp] <= Coal) PROVE LedgerOK' /\ Ctl(t)' /\ SideCtl(t)' /\ BinsInv'
    BY <1>6, <2>2, LockSideTakenStep
  <2>3. LedgerOK' /\ Ctl(t)' /\ SideCtl(t)' /\ BinsInv'
    BY <2>1, <2>2
  <2>4. queue' = queue
    BY <1>6 DEF LockSide
  <2> QED
    BY <2>3, <2>4, SameQueue DEF Kept
<1>7. ASSUME UnlockMe(t) PROVE Kept(t)
  <2>3. LedgerOK' /\ Ctl(t)' /\ SideCtl(t)' /\ BinsInv'
    BY <1>7, UnlockMeStep
  <2>4. queue' = queue
    BY <1>7 DEF UnlockMe
  <2> QED
    BY <2>3, <2>4, SameQueue DEF Kept
<1>8. ASSUME Consume(t) PROVE Kept(t)
  <2>3. LedgerOK' /\ Ctl(t)' /\ SideCtl(t)' /\ BinsInv'
    BY <1>8, ConsumeStep
  <2>4. queue' = queue
    BY <1>8 DEF Consume
  <2> QED
    BY <2>3, <2>4, SameQueue DEF Kept
<1>9. ASSUME NotThisOne(t) PROVE Kept(t)
  <2>3. LedgerOK' /\ Ctl(t)' /\ SideCtl(t)' /\ BinsInv'
    BY <1>9, NotThisOneStep
  <2>4. queue' = queue
    BY <1>9 DEF NotThisOne
  <2> QED
    BY <2>3, <2>4, SameQueue DEF Kept
<1>10. ASSUME Skip(t) PROVE Kept(t)
  <2>1. ASSUME (CHOOSE j \in DOMAIN bins[th[t].bin] : bins[th[t].bin][j] = th[t].cur) = Len(bins[th[t].bin]) PROVE LedgerOK' /\ Ctl(t)' /\ SideCtl(t)' /\ BinsInv'
    BY <1>10, <2>1, SkipLastStep
  <2>2. ASSUME (CHOOSE j \in DOMAIN bins[th[t].bin] : bins[th[t].bin][j] = th[t].cur) # Len(bins[th[t].bin]) PROVE LedgerOK' /\ Ctl(t)' /\ SideCtl(t)' /\ BinsInv'
    BY <1>10, <2>2, SkipOnStep
  <2>3. LedgerOK' /\ Ctl(t)' /\ SideCtl(t)' /\ BinsInv'
    BY <2>1, <2>2
  <2>4. queue' = queue
    BY <1>10 DEF Skip
  <2> QED
    BY <2>3, <2>4, SameQueue DEF Kept
<1>11. ASSUME TakeInPlace(t) PROVE Kept(t)
  <2>3. LedgerOK' /\ Ctl(t)' /\ SideCtl(t)' /\ BinsInv'
    BY <1>11, TakeInPlaceStep
  <2>4. queue' = queue
    BY <1>11 DEF TakeInPlace
  <2> QED
    BY <2>3, <2>4, SameQueue DEF Kept
<1>12. ASSUME TakeWhole(t) PROVE Kept(t)
  <2>3. LedgerOK' /\ Ctl(t)' /\ SideCtl(t)' /\ BinsInv'
    BY <1>12, TakeWholeStep
  <2>4. queue' = queue
    BY <1>12 DEF TakeWhole
  <2> QED
    BY <2>3, <2>4, SameQueue DEF Kept
<1>13. ASSUME SplitRight(t) PROVE Kept(t)
  <2>3. LedgerOK' /\ Ctl(t)' /\ SideCtl(t)' /\ BinsInv'
    BY <1>13, SplitRightStep
  <2>4. queue' = queue
    BY <1>13 DEF SplitRight, GiveBack
  <2> QED
    BY <2>3, <2>4, SameQueue DEF Kept
<1>14. ASSUME SplitLeft(t) PROVE Kept(t)
  <2>3. LedgerOK' /\ Ctl(t)' /\ SideCtl(t)' /\ BinsInv'
    BY <1>14, SplitLeftStep
  <2>4. queue' = queue
    BY <1>14 DEF SplitLeft, GiveBack
  <2> QED
    BY <2>3, <2>4, SameQueue DEF Kept
<1>15. ASSUME SplitDone(t) PROVE Kept(t)
  <2>3. LedgerOK' /\ Ctl(t)' /\ SideCtl(t)' /\ BinsInv'
    BY <1>15, SplitDoneStep
  <2>4. queue' = queue
    BY <1>15 DEF SplitDone
  <2> QED
    BY <2>3, <2>4, SameQueue DEF Kept
<1> QED
  BY <1>1, <1>2, <1>3, <1>4, <1>5, <1>6, <1>7, <1>8, <1>9, <1>10, <1>11, <1>12, <1>13,
     <1>14, <1>15 DEF Search

(* The steps of askMemFromOS keep it.                                       *)
LEMMA ExtendKeeps ==
    ASSUME IInv, Local, NEW t \in Threads, Path(t), Mine(t), Extend(t)
    PROVE  Kept(t)
<1>1. ASSUME Miss(t) PROVE Kept(t)
  BY <1>1, MissStep DEF Kept
<1>2. ASSUME Cleaned(t) PROVE Kept(t)
  <2>3. LedgerOK' /\ Ctl(t)' /\ SideCtl(t)' /\ BinsInv'
    BY <1>2, CleanedStep
  <2>4. queue' = queue
    BY <1>2 DEF Cleaned
  <2> QED
    BY <2>3, <2>4, SameQueue DEF Kept
<1>3. ASSUME Observe(t) PROVE Kept(t)
  <2>3. LedgerOK' /\ Ctl(t)' /\ SideCtl(t)' /\ BinsInv'
    BY <1>3, ObserveStep
  <2>4. queue' = queue
    BY <1>3 DEF Observe
  <2> QED
    BY <2>3, <2>4, SameQueue DEF Kept
<1>4. ASSUME WaitTillBlockReleased(t) PROVE Kept(t)
  <2>3. LedgerOK' /\ Ctl(t)' /\ SideCtl(t)' /\ BinsInv'
    BY <1>4, WaitTillBlockReleasedStep
  <2>4. queue' = queue
    BY <1>4 DEF WaitTillBlockReleased
  <2> QED
    BY <2>3, <2>4, SameQueue DEF Kept
<1>5. ASSUME Check(t) PROVE Kept(t)
  <2>3. LedgerOK' /\ Ctl(t)' /\ SideCtl(t)' /\ BinsInv'
    BY <1>5, CheckStep
  <2>4. queue' = queue
    BY <1>5 DEF Check
  <2> QED
    BY <2>3, <2>4, SameQueue DEF Kept
<1>6. ASSUME ReturnNull(t) PROVE Kept(t)
  <2>3. LedgerOK' /\ Ctl(t)' /\ SideCtl(t)' /\ BinsInv'
    BY <1>6, ReturnNullStep
  <2>4. queue' = queue
    BY <1>6 DEF ReturnNull
  <2> QED
    BY <2>3, <2>4, SameQueue DEF Kept
<1>7. ASSUME NEW e \in used, CleanCache(t, e) PROVE Kept(t)
  <2>3. LedgerOK' /\ Ctl(t)' /\ SideCtl(t)' /\ BinsInv'
    BY <1>7, CleanCacheStep
  <2>4. queue' = queue
    BY <1>7 DEF CleanCache
  <2> QED
    BY <2>3, <2>4, SameQueue DEF Kept
<1> QED
  BY <1>1, <1>2, <1>3, <1>4, <1>5, <1>6, <1>7 DEF Extend

(* Every step of a thread keeps it.                                         *)
LEMMA ThreadKeeps ==
    ASSUME IInv, Local, NEW t \in Threads, Path(t), Mine(t), Work(t) \/ Call(t)
    PROVE  Kept(t)
<1>1. Coalesce(t) => Kept(t)
  BY CoalesceKeeps
<1>2. PutBack(t) => Kept(t)
  BY PutBackKeeps
<1>3. Search(t) => Kept(t)
  BY SearchKeeps
<1>4. Extend(t) => Kept(t)
  BY ExtendKeeps
<1>5. ASSUME BinsModified(t) PROVE Kept(t)
  <2>3. LedgerOK' /\ Ctl(t)' /\ SideCtl(t)' /\ BinsInv'
    BY <1>5, BinsModifiedStep
  <2>4. queue' = queue
    BY <1>5 DEF BinsModified
  <2> QED
    BY <2>3, <2>4, SameQueue DEF Kept
<1>6. ASSUME BlockReleased(t) PROVE Kept(t)
  <2>1. ASSUME th[t].got = NoExt PROVE LedgerOK' /\ Ctl(t)' /\ SideCtl(t)' /\ BinsInv'
    BY <1>6, <2>1, BlockReleasedPutStep
  <2>2. ASSUME th[t].got # NoExt PROVE LedgerOK' /\ Ctl(t)' /\ SideCtl(t)' /\ BinsInv'
    BY <1>6, <2>2, BlockReleasedGetStep
  <2>3. LedgerOK' /\ Ctl(t)' /\ SideCtl(t)' /\ BinsInv'
    BY <2>1, <2>2
  <2>4. queue' = queue
    BY <1>6 DEF BlockReleased
  <2> QED
    BY <2>3, <2>4, SameQueue DEF Kept
<1>7. ASSUME NEW e \in used, PutBlock(t, e) PROVE Kept(t)
  <2>3. LedgerOK' /\ Ctl(t)' /\ SideCtl(t)' /\ BinsInv'
    BY <1>7, PutBlockStep
  <2>4. queue' = queue
    BY <1>7 DEF PutBlock
  <2> QED
    BY <2>3, <2>4, SameQueue DEF Kept
<1>8. ASSUME NEW q \in Requests, GetBlock(t, q) PROVE Kept(t)
  BY <1>8, GetBlockStep DEF Kept
<1> QED
  BY <1>1, <1>2, <1>3, <1>4, <1>5, <1>6, <1>7, <1>8 DEF Work, Call

(* The others' part of the invariant is about their own variables.          *)
LEMMA OthersCtl ==
    ASSUME NEW t \in Threads, Mine(t), NEW u \in Threads, u # t, Ctl(u), SideCtl(u)
    PROVE  Ctl(u)' /\ SideCtl(u)'
<1>1. th'[u] = th[u]
  BY DEF Mine
<1>2. ListCtl(u)'
  BY <1>1 DEF Ctl, ListCtl, pc, blk
<1>3. GotCtl(u)'
  <2>1. Giving(u)' = Giving(u) /\ Total(u)' = Total(u) /\ Result(u)' = Result(u) /\ pc(u)' = pc(u)
    BY <1>1 DEF Giving, Total, Result, pc
  <2> QED
    BY <1>1, <2>1 DEF Ctl, GotCtl
<1>4. ReqCtl(u)'
  BY <1>1 DEF Ctl, ReqCtl, pc
<1>5. WholeCtl(u)'
  <2>1. Empty(u)' = Empty(u) /\ pc(u)' = pc(u) /\ blk(u)' = blk(u)
    BY <1>1 DEF Empty, Region, pc, blk
  <2> QED
    BY <1>1, <2>1 DEF Ctl, WholeCtl
<1>6. BinCtl(u)'
  <2>1. Fits(u)' = Fits(u) /\ pc(u)' = pc(u)
    BY <1>1 DEF Fits, FitsAt, Total, Current, pc
  <2> QED
    BY <1>1, <2>1 DEF Ctl, BinCtl
<1>7. SideCtl(u)'
  BY <1>1 DEF SideCtl, Side, Current, pc, blk
<1> QED
  BY <1>2, <1>3, <1>4, <1>5, <1>6, <1>7 DEF Ctl

(* Every step of the backend keeps it.                                      *)
LEMMA InvStep == ASSUME Inv, [Next]_vars PROVE Inv'
<1>1. ASSUME NEW t \in Threads, Call(t) \/ Work(t) PROVE Inv'
  <2>0. IInv /\ Local /\ Path(t)
    BY DEF Inv
  <2>1. Local' /\ Mine(t) /\ Path(t)'
    BY <1>1, <2>0, Moves
  <2>2. Kept(t)
    BY <1>1, <2>0, <2>1, ThreadKeeps
  <2>3. \A u \in Threads : Path(u)'
    <3> SUFFICES ASSUME NEW u \in Threads, u # t PROVE Path(u)'
      BY <2>1
    <3>1. th'[u] = th[u] /\ Path(u)
      BY <2>1 DEF Mine, Inv
    <3> QED
      BY <3>1 DEF Path, pc
  <2>4. \A u \in Threads : Ctl(u)' /\ SideCtl(u)'
    <3> SUFFICES ASSUME NEW u \in Threads, u # t PROVE Ctl(u)' /\ SideCtl(u)'
      BY <2>2 DEF Kept
    <3>1. Ctl(u) /\ SideCtl(u)
      BY <2>0 DEF IInv, CtlOK
    <3> QED
      BY <2>1, <3>1, OthersCtl
  <2>5. IInv'
    BY <2>2, <2>4 DEF Kept, IInv, CtlOK
  <2> QED
    BY <2>1, <2>3, <2>5 DEF Inv
<1>2. ASSUME UNCHANGED vars PROVE Inv'
  <2>1. /\ myL' = myL /\ leftL' = leftL /\ myBin' = myBin /\ bins' = bins /\ bit' = bit /\ tLock' = tLock
        /\ queue' = queue /\ regions' = regions /\ used' = used /\ th' = th
    BY <1>2 DEF vars, words, binned, heap
  <2>2. Contents' = Contents /\ Sides' = Sides
    BY <2>1 DEF Contents, Free, Queued, Keeps, InList, When, Piece, Current, Right, Sides,
       Side, pc, blk
  <2>3. LedgerOK'
    BY <2>1, <2>2 DEF Inv, IInv, LedgerOK
  <2>4. \A t \in Threads : Ctl(t)' /\ SideCtl(t)'
    <3> TAKE t \in Threads
    <3>1. Ctl(t) /\ SideCtl(t)
      BY DEF Inv, IInv, CtlOK
    <3>2. ListCtl(t)'
      BY <2>1, <3>1 DEF Ctl, ListCtl, pc, blk
    <3>3. GotCtl(t)' /\ ReqCtl(t)' /\ WholeCtl(t)' /\ BinCtl(t)' /\ SideCtl(t)'
      BY <2>1, <3>1 DEF Ctl, GotCtl, Giving, Total, Result, pc, ReqCtl, WholeCtl, Empty,
         Region, blk,
                        BinCtl, Fits, FitsAt, Current, SideCtl, Side
    <3> QED
      BY <3>2, <3>3 DEF Ctl
  <2>5. QueueOK'
    BY <2>1 DEF Inv, IInv, CtlOK, QueueOK
  <2>6. BinsInv'
    <3>1. BinTypes' /\ \A b \in Bins : Distinct(bins[b])'
      BY <2>1 DEF Inv, IInv, BinsInv, BinTypes, Distinct
    <3>2. BinMembers'
      <4>1. \A x \in Places : \A e : Listed(x, e)' = Listed(x, e)
        BY <2>1 DEF Listed, Registered, Sized, pc
      <4>2. BinMembers
        BY DEF Inv, IInv, BinsInv
      <4> HIDE DEF Contents
      <4> QED
        BY <2>1, <2>2, <4>1, <4>2 DEF BinMembers, Elements
    <3>3. \A t \in Threads : BinFacts(t)'
      BY <2>1 DEF Inv, IInv, BinsInv, BinFacts, Elements, pc, blk
    <3>4. MaskCovers'
      BY <2>1 DEF Inv, IInv, BinsInv, MaskCovers, At, blk
    <3> QED
      BY <3>1, <3>2, <3>3, <3>4 DEF BinsInv
  <2>7. Local' /\ \A t \in Threads : Path(t)'
    BY <2>1 DEF Inv, Local, Path, pc
  <2> QED
    BY <2>3, <2>4, <2>5, <2>6, <2>7 DEF Inv, IInv, CtlOK
<1> QED
  BY <1>1, <1>2 DEF Next, Finished

-----------------------------------------------------------------------------
(* The first states.                                                        *)

(* SetToSeq lists a finite set without repetition.                          *)
LEMMA ListOfSet ==
    ASSUME NEW S, IsFiniteSet(S)
    PROVE  SetToSeq(S) \in Seq(S) /\ Distinct(SetToSeq(S)) /\ \A x \in Elements(SetToSeq(S)) : x \in S
<1> DEFINE n == Cardinality(S)
<1>1. n \in Nat /\ ExistsBijection(1 .. n, S)
  BY FS_CardinalityType
<1>2. \E f \in [1 .. n -> S] : IsInjective(f)
  BY <1>1 DEF ExistsBijection, Bijection, Injection
<1>3. SetToSeq(S) \in [1 .. n -> S] /\ IsInjective(SetToSeq(S))
  BY <1>2 DEF SetToSeq
<1> HIDE DEF n
<1>4. SetToSeq(S) \in Seq(S)
  BY <1>1, <1>3, SeqDef
<1> QED
  BY <1>3, <1>4 DEF Distinct, Elements, IsInjective

Given == Taken \cup Spare

(* The blocks that are there at first.                                      *)
LEMMA GivenType ==
    /\ \A e \in Given : /\ e \in Extents /\ e[1] \in Units /\ e[1] \in Nat /\ e[2] \in Nat /\ e[2] > 0
                        /\ End(e) = e[1] + e[2] /\ End(e) \in Units /\ e = <<e[1], e[2]>>
                        /\ \E r \in Regions : Within(e, r)
    /\ \A d, e \in Given : Apart(d, e) \/ d = e
    /\ \A d, e \in Given : d[1] = e[1] \/ End(d) = End(e) => d = e
    /\ \A e \in Given : \A r \in Regions : End(e) # r[1] /\ e[1] # End(r)
<1>1. \A e \in Given : e \in Extents /\ e[2] > 0 /\ \E r \in Regions : Within(e, r)
  BY BlocksAssumption DEF Given, Within, End
<1>2. \A e \in Given : /\ e[1] \in Units /\ e[1] \in Nat /\ e[2] \in Nat /\ End(e) = e[1] + e[2]
                       /\ e = <<e[1], e[2]>>
  BY <1>1, ExtentType DEF End
<1>3. \A r \in Regions : r[1] \in Nat /\ r[2] \in Nat /\ r[2] > 0 /\ End(r) = r[1] + r[2]
  BY UnitsNat DEF End
<1>4. ASSUME NEW e \in Given PROVE End(e) \in Units
  <2>1. PICK r \in Regions : Within(e, r)
    BY <1>1
  <2>2. End(e) \in r[1] .. r[1] + r[2]
    BY <1>1, <1>2, <1>3, <2>1 DEF Within
  <2> QED
    BY <2>2 DEF Units
<1>5. \A d, e \in Given : Apart(d, e) \/ d = e
  BY BlocksAssumption DEF Given, Apart, End
<1>6. \A d, e \in Given : d[1] = e[1] \/ End(d) = End(e) => d = e
  BY <1>1, <1>2, <1>5, ApartEnds
<1>7. ASSUME NEW e \in Given, NEW r \in Regions PROVE End(e) # r[1] /\ e[1] # End(r)
  <2>1. PICK q \in Regions : Within(e, q)
    BY <1>1
  <2>2. q = r \/ End(q) < r[1] \/ End(r) < q[1]
    BY BlocksAssumption DEF End
  <2> QED
    BY <1>1, <1>2, <1>3, <2>1, <2>2 DEF Within
<1> QED
  BY <1>1, <1>2, <1>4, <1>5, <1>6, <1>7

(* The lock words at first.                                                 *)
LEMMA FirstWords ==
    ASSUME Init
    PROVE  /\ \A e \in Spare : SizeAt(e[1]) = e[2] /\ SizeBefore(End(e)) = e[2]
           /\ \A e \in Spare : myL[e[1]] = e[2] /\ leftL[End(e)] = e[2]
           /\ \A e \in Taken : myL[e[1]] = Locked /\ leftL[End(e)] = Locked
           /\ \A r \in Regions : leftL[r[1]] = Locked /\ myL[End(r)] = EndMark
           /\ \A p \in Units : \/ \E e \in Spare : p = e[1] /\ myL[p] = e[2]
                               \/ \E r \in Regions : p = End(r) /\ myL[p] = EndMark
                               \/ myL[p] \in {Locked, Junk}
           /\ \A p \in Units : \/ \E e \in Spare : p = End(e) /\ leftL[p] = e[2]
                               \/ leftL[p] \in {Locked, Junk}
           /\ myL \in [Units -> Int] /\ leftL \in [Units -> Int]
<1>g. Spare \subseteq Given /\ Taken \subseteq Given
  BY DEF Given
<1>d. \A d \in Taken, e \in Spare : d # e
  BY BlocksAssumption
<1>1. \A e \in Spare : SizeAt(e[1]) = e[2] /\ SizeBefore(End(e)) = e[2]
  <2> TAKE e \in Spare
  <2>1. \A d \in Spare : d[1] = e[1] \/ End(d) = End(e) => d = e
    BY <1>g, GivenType
  <2>2. (CHOOSE d \in Spare : d[1] = e[1]) = e /\ (CHOOSE d \in Spare : End(d) = End(e)) = e
    BY <2>1
  <2> QED
    BY <2>2 DEF SizeAt, SizeBefore
<1>2. /\ \A e \in Spare : Begins(Spare, e[1]) /\ Ends(Spare, End(e))
      /\ \A e \in Taken : ~Begins(Spare, e[1]) /\ ~Ends(Spare, End(e)) /\ Begins(Taken, e[1]) /\ Ends(Taken, End(e))
      /\ \A r \in Regions : /\ ~Begins(Spare, End(r)) /\ ~Begins(Taken, End(r)) /\ Ends(Regions, End(r))
                            /\ ~Ends(Spare, r[1]) /\ Begins(Regions, r[1])
  BY <1>g, <1>d, GivenType DEF Begins, Ends
<1>w. /\ myL = [p \in Units |-> IF Begins(Spare, p) THEN SizeAt(p)
                                ELSE IF Begins(Taken, p) THEN Locked
                                ELSE IF Ends(Regions, p) THEN EndMark ELSE Junk]
      /\ leftL = [p \in Units |-> IF Ends(Spare, p) THEN SizeBefore(p)
                                  ELSE IF Ends(Taken, p) \/ Begins(Regions, p) THEN Locked
                                  ELSE Junk]
  BY DEF Init
<1>u. /\ \A e \in Given : e[1] \in Units /\ End(e) \in Units /\ e[2] \in Int
      /\ \A r \in Regions : r[1] \in Units /\ End(r) \in Units
  BY GivenType, UnitsNat
<1>3. \A e \in Spare : myL[e[1]] = e[2] /\ leftL[End(e)] = e[2]
  BY <1>g, <1>1, <1>2, <1>u, <1>w
<1>4. \A e \in Taken : myL[e[1]] = Locked /\ leftL[End(e)] = Locked
  BY <1>g, <1>2, <1>u, <1>w
<1>5. \A r \in Regions : leftL[r[1]] = Locked /\ myL[End(r)] = EndMark
  BY <1>2, <1>u, <1>w
<1>6. \A p \in Units : \/ \E e \in Spare : p = e[1] /\ myL[p] = e[2]
                       \/ \E r \in Regions : p = End(r) /\ myL[p] = EndMark
                       \/ myL[p] \in {Locked, Junk}
  <2> TAKE p \in Units
  <2>1. CASE Begins(Spare, p)
    BY <1>3, <2>1 DEF Begins
  <2>2. CASE ~Begins(Spare, p)
    BY <1>w, <2>2 DEF Ends
  <2> QED
    BY <2>1, <2>2
<1>7. \A p \in Units : \/ \E e \in Spare : p = End(e) /\ leftL[p] = e[2]
                       \/ leftL[p] \in {Locked, Junk}
  <2> TAKE p \in Units
  <2>1. CASE Ends(Spare, p)
    BY <1>3, <2>1 DEF Ends
  <2>2. CASE ~Ends(Spare, p)
    BY <1>w, <2>2
  <2> QED
    BY <2>1, <2>2
<1>8. myL \in [Units -> Int] /\ leftL \in [Units -> Int]
  <2>1. \A p \in Units : myL[p] \in Int /\ leftL[p] \in Int
    BY <1>6, <1>7, <1>g, <1>u DEF Locked, Junk, EndMark
  <2>2. myL = [p \in Units |-> myL[p]] /\ leftL = [p \in Units |-> leftL[p]]
    BY <1>w
  <2> QED
    BY <2>1, <2>2
<1> QED
  BY <1>1, <1>3, <1>4, <1>5, <1>6, <1>7, <1>8

(* The ledger holds of the blocks that the regions are first divided among. *)
LEMMA FirstLedger == ASSUME Init PROVE LedgerOK
<1>i. /\ used = Taken /\ queue = <<>> /\ regions = Regions /\ th = [t \in Threads |-> Resting]
  BY DEF Init
<1>r. \A t \in Threads : pc(t) = "idle" /\ th[t].list = <<>> /\ th[t].got = NoExt
  BY <1>i DEF pc, Resting
<1>g. Spare \subseteq Given /\ Taken \subseteq Given
  BY DEF Given
<1>1. \A z : z \in Free <=> z \in Spare
  <2>1. \A z : z \in Free <=> \E p \in Units : myL[p] > 0 /\ z = <<p, myL[p]>>
    BY DEF Free, EndMark
  <2>2. \A e \in Spare : e[1] \in Units /\ e[2] > 0 /\ e = <<e[1], e[2]>> /\ myL[e[1]] = e[2]
    BY <1>g, GivenType, FirstWords
  <2>3. \A p \in Units : myL[p] > 0 => \E e \in Spare : p = e[1] /\ myL[p] = e[2]
    <3> TAKE p \in Units
    <3>1. \/ \E e \in Spare : p = e[1] /\ myL[p] = e[2]
          \/ myL[p] = EndMark
          \/ myL[p] \in {Locked, Junk}
      BY FirstWords
    <3> QED
      BY <3>1 DEF EndMark, Locked, Junk
  <2> QED
    BY <2>1, <2>2, <2>3
<1>2. \A t \in Threads : \A k \in Private : Keeps(k, t) = {}
  <2> TAKE t \in Threads
  <2>1. \A k \in Private \ {"list", "got"} : Keeps(k, t) = {}
    BY <1>r DEF Keeps, Private, When, Coalescing
  <2>2. InList(t) = {}
    BY <1>r, Single DEF InList, Elements
  <2> QED
    BY <1>r, <2>1, <2>2 DEF Keeps
<1>3. Queued = {}
  BY <1>i, Single DEF Queued, Elements
<1>4. /\ \A x \in Places : \A z : z \in Contents[x] <=> (x = FREE /\ z \in Spare) \/ (x = USED /\ z \in Taken)
      /\ FREE \in Places /\ USED \in Places /\ FREE # USED
  BY <1>1, <1>2, <1>3, <1>i, PlaceNames, ContentsAt
<1>5. \A t \in Threads : Sides[t] = NoExt
  BY <1>r DEF Sides, Side
<1>6. /\ MyWord(USED) = Locked /\ LeftWord(USED) = Locked /\ ~LoosePlace(USED) /\ LoosePlace(FREE)
  BY PlaceKinds
<1> HIDE DEF Contents, Sides
<1>7. Tiling(Contents, Regions)
  <2>1. \A x \in Places : \A z \in Contents[x] : z \in Given
    BY <1>4, <1>g
  <2>2. Inside(Contents, Regions)
    BY <2>1, GivenType DEF Inside
  <2>3. Disjoint(Contents)
    <3> SUFFICES ASSUME NEW x \in Places, NEW y \in Places, NEW d \in Contents[x], NEW e \in Contents[y], d = e
                 PROVE  x = y
      BY <2>1, GivenType DEF Disjoint
    <3>1. Taken \cap Spare = {}
      BY BlocksAssumption
    <3> QED
      BY <1>4, <3>1
  <2>4. Covers(Contents, Regions)
    <3> SUFFICES ASSUME NEW r \in Regions, NEW u \in r[1] .. End(r) - 1
                 PROVE  Holds(Contents, u)
      BY DEF Covers
    <3>1. PICK e \in Given : e[1] <= u /\ u < e[1] + e[2]
      BY BlocksAssumption DEF Given, End
    <3>2. Has(e, u)
      BY <3>1 DEF Has, End
    <3> QED
      BY <1>4, <3>2 DEF Holds, Given
  <2> QED
    BY <2>2, <2>3, <2>4 DEF Tiling
<1>8. MyRight(Contents, myL)
  BY <1>4, <1>6, FirstWords DEF MyRight
<1>9. \A p \in Units : myL[p] > 0 => <<p, myL[p]>> \in Contents[FREE]
  <2>1. \A p \in Units : myL[p] > 0 => <<p, myL[p]>> \in Free
    BY DEF Free, EndMark
  <2> QED
    BY <1>1, <1>4, <2>1
<1>10. LeftRight(Contents, leftL, Sides)
  BY <1>4, <1>6, FirstWords DEF LeftRight
<1>11. ASSUME NEW n \in Units
       PROVE  leftL[n] # 0 /\ (leftL[n] > 0 => IsLoose(Contents, <<n - leftL[n], leftL[n]>>))
  <2>1. CASE leftL[n] \in {Locked, Junk}
    BY <2>1 DEF Locked, Junk
  <2>2. ASSUME NEW e \in Spare, n = End(e), leftL[n] = e[2]
        PROVE  leftL[n] # 0 /\ (leftL[n] > 0 => IsLoose(Contents, <<n - leftL[n], leftL[n]>>))
    <3>1. e[1] \in Nat /\ e[2] \in Nat /\ e[2] > 0 /\ End(e) = e[1] + e[2] /\ e = <<e[1], e[2]>>
      BY <1>g, GivenType
    <3>2. n - leftL[n] = e[1]
      BY <2>2, <3>1
    <3> QED
      BY <1>4, <1>6, <2>2, <3>1, <3>2 DEF IsLoose
  <2> QED
    BY <2>1, <2>2, FirstWords
<1>12. SidesRight(Contents, leftL, Sides)
  BY <1>5 DEF SidesRight
<1>13. EdgesRight(myL, leftL, Regions)
  BY FirstWords DEF EdgesRight
<1>14. \A p \in Units : myL[p] = EndMark => \E r \in Regions : p = End(r)
  <2> TAKE p \in Units
  <2> HAVE myL[p] = EndMark
  <2>1. \A e \in Spare : e[2] > 0 /\ e[2] \in Nat
    BY <1>g, GivenType
  <2> QED
    BY <2>1, FirstWords DEF EndMark, Locked, Junk
<1> QED
  BY <1>i, <1>7, <1>8, <1>9, <1>10, <1>11, <1>12, <1>13, <1>14, FirstWords DEF LedgerOK, Ledger

(* The bins hold the free blocks at first.                                  *)
LEMMA FirstBins == ASSUME Init PROVE BinsInv
<1>i. /\ myBin = [p \in Units |-> IF Begins(Spare, p) THEN BinOf(<<p, SizeAt(p)>>) ELSE NoBin]
      /\ bins = [b \in Bins |-> SetToSeq({e[1] : e \in {f \in Spare : BinOf(f) = b}})]
      /\ bit = [b \in Bins |-> \E e \in Spare : BinOf(e) = b]
      /\ tLock = [b \in Bins |-> NoThread] /\ th = [t \in Threads |-> Resting]
  BY DEF Init
<1>g. \A e \in Spare : e \in Extents /\ e[1] \in Units /\ e = <<e[1], e[2]>> /\ e[2] > 0
  BY GivenType DEF Given
<1>b. \A e \in Spare : myBin[e[1]] = BinOf(e)
  BY <1>g, <1>i, FirstWords DEF Begins
<1> DEFINE At1(b) == {e[1] : e \in {f \in Spare : BinOf(f) = b}}
<1>s. \A b \in Bins : IsFiniteSet(At1(b)) /\ At1(b) \subseteq Units
                      /\ \A p \in At1(b) : \E e \in Spare : BinOf(e) = b /\ e[1] = p
  <2> TAKE b \in Bins
  <2> DEFINE F == {f \in Spare : BinOf(f) = b}
  <2>1. IsFiniteSet(F)
    BY FS_Subset, BlocksAssumption
  <2>2. IsFiniteSet({e[1] : e \in F})
    <3> DEFINE T == {e[1] : e \in F}
               g == [e \in F |-> e[1]]
    <3>1. g \in Surjection(F, T)
      BY DEF Surjection
    <3> HIDE DEF F, T, g
    <3>2. IsFiniteSet(T)
      BY <2>1, <3>1, FS_Surjection
    <3> QED
      BY <3>2 DEF T
  <2> QED
    BY <1>g, <2>2
<1> HIDE DEF At1
<1>1. \A b \in Bins : /\ bins[b] \in Seq(Units) /\ Distinct(bins[b])
                      /\ \A p \in Elements(bins[b]) : \E e \in Spare : BinOf(e) = b /\ e[1] = p
  <2> TAKE b \in Bins
  <2>1. bins[b] = SetToSeq(At1(b))
    BY <1>i DEF At1
  <2>2. SetToSeq(At1(b)) \in Seq(At1(b)) /\ Distinct(SetToSeq(At1(b)))
        /\ \A x \in Elements(SetToSeq(At1(b))) : x \in At1(b)
    BY <1>s, ListOfSet
  <2>3. SetToSeq(At1(b)) \in Seq(Units)
    BY <1>s, <2>2
  <2> QED
    BY <1>s, <2>1, <2>2, <2>3
<1>2. BinTypes
  <2>1. \A p \in Units : myBin[p] \in Bins \cup {NoBin}
    <3> TAKE p \in Units
    <3>1. CASE Begins(Spare, p)
      <4>1. PICK e \in Spare : e[1] = p
        BY <3>1 DEF Begins
      <4> QED
        BY <1>b, <1>g, <4>1, BinOfType
    <3> QED
      BY <1>i, <3>1
  <2>2. myBin = [p \in Units |-> myBin[p]] /\ bins = [b \in Bins |-> bins[b]]
    BY <1>i
  <2>3. bins \in [Bins -> Seq(Units)]
    BY <1>1, <2>2
  <2>4. myBin \in [Units -> Bins \cup {NoBin}]
    BY <2>1, <2>2
  <2>5. bit \in [Bins -> BOOLEAN] /\ tLock \in [Bins -> Threads \cup {NoThread}]
    BY <1>i
  <2> QED
    BY <2>3, <2>4, <2>5 DEF BinTypes
<1>3. BinMembers
  <2> SUFFICES ASSUME NEW b \in Bins, NEW p \in Elements(bins[b])
               PROVE  /\ myBin[p] = b
                      /\ \E x \in Places : \E e \in Contents[x] : e[1] = p /\ Listed(x, e)
    BY DEF BinMembers
  <2>1. PICK e \in Spare : BinOf(e) = b /\ e[1] = p
    BY <1>1
  <2>2. myBin[p] = b
    BY <1>b, <2>1
  <2>3. e \in Free
    BY <1>g, FirstWords DEF Free, EndMark
  <2>4. Listed(FREE, e)
    BY <2>1, <2>2 DEF Listed, Registered, Sized, FREE
  <2> QED
    BY <2>1, <2>2, <2>3, <2>4, PlaceNames, ContentsAt
<1>4. \A t \in Threads : BinFacts(t)
  BY <1>i DEF BinFacts, Scanning, pc, Resting
<1>5. MaskCovers
  <2> SUFFICES ASSUME NEW b \in Bins, bins[b] # <<>> PROVE bit[b]
    BY DEF MaskCovers
  <2>1. Head(bins[b]) \in Elements(bins[b])
    BY <1>1, HeadApart
  <2> QED
    BY <1>1, <1>i, <2>1
<1> QED
  BY <1>1, <1>2, <1>3, <1>4, <1>5 DEF BinsInv

(* The invariant holds at first.                                            *)
LEMMA InvFirst == ASSUME Init PROVE Inv
<1>i. queue = <<>> /\ th = [t \in Threads |-> Resting]
  BY DEF Init
<1>1. Local /\ \A t \in Threads : Path(t)
  BY <1>i DEF Local, Rec, Fields, Path, Resting, pc, PCs, Coalescing
<1>2. QueueOK
  <2>1. <<>> \in Seq(Extents)
    OBVIOUS
  <2> QED
    BY <1>i, <2>1, Single DEF QueueOK
<1>3. \A t \in Threads : Ctl(t) /\ SideCtl(t)
  <2> TAKE t \in Threads
  <2>0. th[t] = Resting
    BY <1>i
  <2>1. ListCtl(t)
    <3>1. <<>> \in Seq(Extents)
      OBVIOUS
    <3>2. Distinct(<<>>)
      BY Single
    <3> QED
      BY <2>0, <3>1, <3>2 DEF ListCtl, Resting, pc, blk, Coalescing
  <2>2. GotCtl(t)
    BY <2>0 DEF GotCtl, Giving, Resting, pc
  <2>3. ReqCtl(t)
    BY <2>0 DEF ReqCtl, Resting, pc, Asking, Scanning
  <2>4. WholeCtl(t) /\ BinCtl(t) /\ SideCtl(t)
    BY <2>0 DEF WholeCtl, BinCtl, SideCtl, Resting, pc, Scanning
  <2> QED
    BY <2>1, <2>2, <2>3, <2>4 DEF Ctl
<1> QED
  BY <1>1, <1>2, <1>3, FirstLedger, FirstBins DEF Inv, IInv, CtlOK

-----------------------------------------------------------------------------
(* What the invariant says of the blocks.                                   *)

(* The invariant of the backend holds always.                               *)
LEMMA InvAlways == Spec => []Inv
  BY InvFirst, InvStep, PTL DEF Spec

(* The name under which the block at a place is listed.                     *)
Keeper(x) == IF x \in {FREE, USED, QUEUE} THEN x[1] ELSE x[2]

(* What a thread has in its hands is what it keeps at its places.           *)
LEMMA Hands ==
    ASSUME Inv, NEW t \in Threads
    PROVE  \A e : e \in InHand(t) <=> \E k \in Private : e \in Keeps(k, t)
<1> TAKE e
<1>0. LedgerOK /\ Ctl(t) /\ Path(t)
  BY DEF Inv, IInv, CtlOK
<1>1. ASSUME e \in InHand(t) PROVE \E k \in Private : e \in Keeps(k, t)
  <2>1. e # NoExt
    BY <1>1 DEF InHand
  <2>2. CASE e \in InList(t)
    BY <2>2 DEF Keeps, Private
  <2>3. CASE e = th[t].got
    BY <2>1, <2>3 DEF Keeps, Private
  <2>4. CASE e = blk(t) /\ pc(t) # "free2"
    <3>1. pc(t) \in Coalescing \ {"mark", "free2"}
      BY <1>0, <2>1, <2>4 DEF Ctl, ListCtl
    <3>2. \E k \in {"fresh", "blk", "marked", "shut"} : pc(t) \in When(k)
      BY <3>1 DEF When
    <3>3. PICK k \in {"fresh", "blk", "marked", "shut"} : pc(t) \in When(k)
      BY <3>2
    <3>4. k \in Private /\ Piece(k, t) = blk(t)
      BY DEF Private, Piece
    <3> QED
      BY <2>4, <3>3, <3>4 DEF Keeps
  <2>5. CASE e = Current(t) /\ pc(t) \in {"lockSide", "unlockMe", "fit", "take"}
    <3>1. "tried" \in Private /\ "cur" \in Private
      BY DEF Private
    <3>2. pc(t) \in When("tried") \/ pc(t) \in When("cur")
      BY <2>5 DEF When
    <3> QED
      BY <2>5, <3>1, <3>2 DEF Keeps, Piece
  <2>6. CASE /\ e = Right(t)
             /\ pc(t) \in {"right2", "undoRight", "unbinRight", "removeRight", "next", "unpeek"}
    <3>1. "half" \in Private /\ "right" \in Private
      BY DEF Private
    <3>2. pc(t) \in When("half") \/ pc(t) \in When("right")
      BY <2>6 DEF When
    <3> QED
      BY <2>6, <3>1, <3>2 DEF Keeps, Piece
  <2> QED
    BY <1>1, <2>2, <2>3, <2>4, <2>5, <2>6 DEF InHand, At, pc, Right
<1>2. ASSUME NEW k \in Private, e \in Keeps(k, t) PROVE e \in InHand(t)
  <2>1. e # NoExt
    BY <1>0, <1>2, OwnPlace
  <2>2. CASE k = "list" \/ k = "got"
    BY <1>2, <2>1, <2>2 DEF Keeps, InHand
  <2>3. CASE k \in {"fresh", "blk", "marked", "shut"}
    <3>1. pc(t) # "free2" /\ e = blk(t)
      BY <1>2, <2>3 DEF Keeps, When, Piece
    <3> QED
      BY <2>1, <3>1 DEF InHand, At, pc
  <2>4. CASE k \in {"half", "right"}
    BY <1>2, <2>1, <2>4 DEF Keeps, When, Piece, Right, InHand
  <2>5. CASE k \in {"tried", "cur"}
    BY <1>2, <2>1, <2>5 DEF Keeps, When, Piece, InHand
  <2> QED
    BY <2>2, <2>3, <2>4, <2>5 DEF Private
<1> QED
  BY <1>1, <1>2

(* The blocks are the contents of the places.                               *)
LEMMA Inventory ==
    ASSUME Inv
    PROVE  \A b : b \in Blocks <=> \E x \in Places : \E e \in Contents[x] : b = <<Keeper(x), e>>
<1> TAKE b
<1> HIDE DEF Contents
<1>1. Keeper(FREE) = "free" /\ Keeper(USED) = "used" /\ Keeper(QUEUE) = "queue"
  BY DEF Keeper, FREE, USED, QUEUE
<1>2. \A k \in Private : \A t \in Threads : Keeper(<<k, t>>) = t
  BY PlaceNames DEF Keeper
<1>3. ASSUME b \in Blocks PROVE \E x \in Places : \E e \in Contents[x] : b = <<Keeper(x), e>>
  <2>1. CASE \E e \in Free : b = <<"free", e>>
    BY <1>1, <2>1, PlaceNames, ContentsAt
  <2>2. CASE \E e \in used : b = <<"used", e>>
    BY <1>1, <2>2, PlaceNames, ContentsAt
  <2>3. CASE \E e \in Queued : b = <<"queue", e>>
    BY <1>1, <2>3, PlaceNames, ContentsAt
  <2>4. ASSUME NEW t \in Threads, NEW e \in InHand(t), b = <<t, e>>
        PROVE  \E x \in Places : \E d \in Contents[x] : b = <<Keeper(x), d>>
    <3>1. PICK k \in Private : e \in Keeps(k, t)
      BY Hands
    <3>2. <<k, t>> \in Places /\ e \in Contents[<<k, t>>] /\ Keeper(<<k, t>>) = t
      BY <1>2, <3>1, PlaceNames, ContentsAt
    <3> QED
      BY <2>4, <3>2
  <2> QED
    BY <1>3, <2>1, <2>2, <2>3, <2>4 DEF Blocks, Queued
<1>4. ASSUME NEW x \in Places, NEW e \in Contents[x], b = <<Keeper(x), e>> PROVE b \in Blocks
  <2>1. CASE x = FREE
    BY <1>1, <1>4, <2>1, ContentsAt DEF Blocks
  <2>2. CASE x = USED
    BY <1>1, <1>4, <2>2, ContentsAt DEF Blocks
  <2>3. CASE x = QUEUE
    BY <1>1, <1>4, <2>3, ContentsAt DEF Blocks, Queued
  <2>4. ASSUME NEW k \in Private, NEW t \in Threads, x = <<k, t>> PROVE b \in Blocks
    <3>1. e \in InHand(t)
      BY <2>4, ContentsAt, Hands
    <3> QED
      BY <1>2, <1>4, <2>4, <3>1 DEF Blocks
  <2> QED
    BY <2>1, <2>2, <2>3, <2>4, PlaceNames
<1> QED
  BY <1>3, <1>4

(* The invariant divides each region among the blocks.                      *)
LEMMA TiledHolds == ASSUME Inv PROVE Tiled
<1> SUFFICES ASSUME NEW r \in Regions, NEW u \in r[1] .. End(r) - 1
             PROVE  Cardinality({b \in Blocks : b[2][1] <= u /\ u < End(b[2])})
                        = IF r \in regions THEN 1 ELSE 0
  BY DEF Tiled
<1> DEFINE B == {b \in Blocks : b[2][1] <= u /\ u < End(b[2])}
<1>0. Ledger(Contents, myL, leftL, Sides, regions) /\ Tiling(Contents, regions)
  BY DEF Inv, IInv, LedgerOK, Ledger
<1> HIDE DEF Contents, Sides
<1>1. \A b : b \in B <=> \E x \in Places : \E e \in Contents[x] : b = <<Keeper(x), e>> /\ Has(e, u)
  BY Inventory DEF Has
<1> HIDE DEF B
<1>2. r[1] \in Nat /\ End(r) \in Nat /\ u \in Nat
  <2>1. r[1] \in Nat /\ End(r) \in Nat
    BY UnitsNat
  <2> QED
    BY <2>1
<1>3. CASE r \in regions
  <2>0. PICK x \in Places : \E e \in Contents[x] : Has(e, u)
    BY <1>0, <1>3 DEF Tiling, Covers, Holds
  <2>1. PICK e \in Contents[x] : Has(e, u)
    BY <2>0
  <2>2. ASSUME NEW y \in Places, NEW d \in Contents[y], Has(d, u) PROVE y = x /\ d = e
    <3>1. Apart(d, e) \/ (y = x /\ d = e)
      BY <1>0 DEF Tiling, Disjoint
    <3>2. /\ d[1] \in Nat /\ End(d) \in Nat /\ d[1] < End(d)
          /\ e[1] \in Nat /\ End(e) \in Nat /\ e[1] < End(e)
      BY <1>0, PieceType
    <3> QED
      BY <1>2, <2>1, <2>2, <3>1, <3>2 DEF Has, Apart
  <2>3. B = {<<Keeper(x), e>>}
    BY <1>1, <2>1, <2>2
  <2> QED
    BY <1>3, <2>3, FS_Singleton DEF B
<1>4. CASE r \notin regions
  <2>1. ASSUME NEW y \in Places, NEW d \in Contents[y], Has(d, u) PROVE FALSE
    <3>1. PICK q \in regions : Within(d, q)
      BY <1>0 DEF Tiling, Inside
    <3>2. q \in Regions /\ q # r
      BY <1>0, <1>4 DEF Tiling
    <3>3. End(q) < r[1] \/ End(r) < q[1]
      BY <3>2, BlocksAssumption DEF End
    <3>4. /\ d[1] \in Nat /\ End(d) \in Nat /\ q[1] \in Nat /\ End(q) \in Nat
      BY <1>0, <3>2, PieceType, UnitsNat
    <3> QED
      BY <1>2, <2>1, <3>1, <3>3, <3>4 DEF Has, Within
  <2>2. B = {}
    BY <1>1, <2>1
  <2> QED
    BY <1>4, <2>2, FS_EmptySet DEF B
<1> QED
  BY <1>3, <1>4

(* The words at the outer sides of a piece belong to its neighbours, or to  *)
(* the edges of the region: they are never the inside of a block.           *)
LEMMA Neighbours ==
    ASSUME NEW S, NEW my, NEW left, NEW lt, NEW R, Ledger(S, my, left, lt, R),
           NEW x \in Places, NEW e \in S[x]
    PROVE  left[e[1]] # Junk /\ my[End(e)] # Junk
<1>e. e[1] \in Nat /\ e[2] \in Nat /\ End(e) \in Nat /\ e[1] < End(e)
  BY PieceType
<1>1. PICK r \in R : Within(e, r)
  BY DEF Ledger, Tiling, Inside
<1>r. r[1] \in Nat /\ End(r) \in Nat /\ r \in Regions
  BY UnitsNat DEF Ledger, Tiling
<1>d. ASSUME NEW y \in Places, NEW d \in S[y]
      PROVE  /\ d[1] \in Nat /\ d[2] \in Nat /\ d[2] > 0 /\ End(d) \in Nat /\ d[1] < End(d)
             /\ Apart(d, e) \/ d = e
             /\ left[End(d)] # Junk /\ my[d[1]] # Junk
  <2>1. d[1] \in Nat /\ d[2] \in Nat /\ d[2] > 0 /\ End(d) \in Nat /\ d[1] < End(d)
    BY PieceType
  <2>2. Apart(d, e) \/ d = e
    BY DEF Ledger, Tiling, Disjoint
  <2>3. my[d[1]] # Junk
    BY <2>1, WordValues DEF Ledger, MyRight, Junk, Locked, Coal
  <2>4. CASE left[End(d)] = d[2] \/ left[End(d)] = LeftWord(y)
    BY <2>1, <2>2, <2>3, <2>4, WordValues DEF Junk, Locked, Coal
  <2>5. ASSUME NEW t \in Threads, lt[t] = d PROVE left[End(d)] # Junk
    <3>1. d # NoExt
      BY PieceType
    <3> QED
      BY <2>5, <3>1 DEF Ledger, SidesRight, Junk, Locked, Coal
  <2>6. left[End(d)] = d[2] \/ left[End(d)] = LeftWord(y) \/ \E t \in Threads : lt[t] = d
    BY DEF Ledger, LeftRight
  <2> QED
    BY <2>1, <2>2, <2>3, <2>4, <2>5, <2>6
<1>h. ASSUME NEW u \in r[1] .. End(r) - 1 PROVE \E y \in Places : \E d \in S[y] : Has(d, u)
  BY DEF Ledger, Tiling, Covers, Holds
<1>2. left[e[1]] # Junk
  <2>1. CASE e[1] = r[1]
    BY <2>1 DEF Ledger, EdgesRight, Junk, Locked
  <2>2. CASE e[1] # r[1]
    <3>1. e[1] - 1 \in r[1] .. End(r) - 1
      BY <1>1, <1>e, <1>r, <2>2 DEF Within
    <3>2. PICK y \in Places : \E d \in S[y] : Has(d, e[1] - 1)
      BY <1>h, <3>1
    <3>3. PICK d \in S[y] : Has(d, e[1] - 1)
      BY <3>2
    <3>4. /\ d[1] \in Nat /\ End(d) \in Nat /\ (Apart(d, e) \/ d = e)
          /\ left[End(d)] # Junk
      BY <1>d
    <3>5. End(d) = e[1]
      BY <3>3, <3>4, <1>e DEF Has, Apart
    <3> QED
      BY <3>4, <3>5
  <2> QED
    BY <2>1, <2>2
<1>3. my[End(e)] # Junk
  <2>1. CASE End(e) = End(r)
    BY <2>1 DEF Ledger, EdgesRight, Junk, EndMark
  <2>2. CASE End(e) # End(r)
    <3>1. End(e) \in r[1] .. End(r) - 1
      BY <1>1, <1>e, <1>r, <2>2 DEF Within
    <3>2. PICK y \in Places : \E d \in S[y] : Has(d, End(e))
      BY <1>h, <3>1
    <3>3. PICK d \in S[y] : Has(d, End(e))
      BY <3>2
    <3>4. /\ d[1] \in Nat /\ End(d) \in Nat /\ d[1] < End(d) /\ (Apart(d, e) \/ d = e)
          /\ my[d[1]] # Junk
      BY <1>d
    <3>5. End(e) = d[1]
      BY <3>3, <3>4, <1>e DEF Has, Apart
    <3> QED
      BY <3>4, <3>5
  <2> QED
    BY <2>1, <2>2
<1> QED
  BY <1>2, <1>3

(* Nothing is kept by a thread outside the backend.                         *)
LEMMA IdleKeeps ==
    ASSUME Inv, NEW t \in Threads, pc(t) = "idle"
    PROVE  Side(t) = NoExt /\ \A k \in Private : Keeps(k, t) = {}
<1>1. Ctl(t)
  BY DEF Inv, IInv, CtlOK
<1>2. th[t].list = <<>> /\ th[t].got = NoExt
  BY <1>1 DEF Ctl, ListCtl, GotCtl, Giving, Coalescing
<1>3. InList(t) = {}
  BY <1>2 DEF InList
<1>4. \A k \in Private \ {"list", "got"} : "idle" \notin When(k)
  BY DEF When, Private, Coalescing
<1> QED
  BY <1>2, <1>3, <1>4 DEF Keeps, Side

(* With nobody in the backend both words of a block tell its state.         *)
LEMMA SettledHolds == ASSUME Inv PROVE SettledWords
<1> SUFFICES ASSUME AllIdle PROVE SettledWords
  BY DEF SettledWords
<1>0. LedgerOK /\ BinsInv
  BY DEF Inv, IInv
<1>i. \A t \in Threads : Side(t) = NoExt /\ \A k \in Private : Keeps(k, t) = {}
  BY IdleKeeps DEF AllIdle, At, pc
<1>s. \A t \in Threads : Sides[t] = NoExt
  BY <1>i DEF Sides
<1> HIDE DEF Contents, Sides
<1>c. \A k \in Private : \A t \in Threads : Contents[<<k, t>>] = {}
  BY <1>i, ContentsAt
<1>1. ASSUME NEW p \in BinBlocks PROVE myL[p] > EndMark
  <2>1. PICK b \in Bins : p \in Elements(bins[b])
    BY DEF BinBlocks, Elements
  <2>2. PICK x \in Places : \E e \in Contents[x] : e[1] = p /\ Listed(x, e)
    BY <1>0, <2>1 DEF BinsInv, BinMembers
  <2>3. PICK e \in Contents[x] : e[1] = p /\ Listed(x, e)
    BY <2>2
  <2>4. x \notin {USED, QUEUE}
    BY <2>3 DEF Listed, Registered, USED, QUEUE
  <2>5. x = FREE
    BY <1>c, <2>3, <2>4, PlaceNames
  <2>6. myL[p] = e[2] /\ e[2] > 0
    BY <1>0, <2>3, <2>5, PieceType DEF LedgerOK, Ledger, MyRight
  <2> QED
    BY <2>6 DEF EndMark
<1>2. ASSUME NEW e \in Free PROVE leftL[End(e)] = e[2]
  <2>1. FREE \in Places /\ LoosePlace(FREE) /\ e \in Contents[FREE]
    BY FreePlace, ContentsAt
  <2>2. e # NoExt
    BY <1>0, <2>1, PieceType DEF LedgerOK
  <2> QED
    BY <1>0, <1>s, <2>1, <2>2 DEF LedgerOK, Ledger, LeftRight
<1>3. ASSUME NEW e \in used \cup Queued PROVE myL[e[1]] = Locked /\ leftL[End(e)] = Locked
  <2>1. e \in Contents[USED] \/ e \in Contents[QUEUE]
    BY ContentsAt
  <2>2. CASE e \in Contents[USED]
    BY <1>0, <2>2, PlaceNames, PlaceKinds DEF LedgerOK, Ledger, MyRight, LeftRight
  <2>3. CASE e \in Contents[QUEUE]
    BY <1>0, <2>3, PlaceNames, PlaceKinds DEF LedgerOK, Ledger, MyRight, LeftRight
  <2> QED
    BY <2>1, <2>2, <2>3
<1> QED
  BY <1>1, <1>2, <1>3 DEF SettledWords, Queued

(* The right side of a piece that is free, or half locked, is its size or   *)
(* locked by another.                                                       *)
LEMMA LooseSide ==
    ASSUME LedgerOK, NEW x \in Places, LoosePlace(x), NEW e \in Contents[x]
    PROVE  leftL[End(e)] \in {Locked, Coal, e[2]}
<1> HIDE DEF Contents, Sides
<1>1. e # NoExt
  BY PieceType DEF LedgerOK
<1> QED
  BY <1>1 DEF LedgerOK, Ledger, LeftRight, SidesRight

(* The left word of a piece in a thread's hands, or free, is a lock or its  *)
(* size.                                                                    *)
LEMMA LooseWord ==
    ASSUME LedgerOK, NEW e, IsLoose(Contents, e)
    PROVE  myL[e[1]] \in {Locked, Coal, e[2]}
<1> HIDE DEF Contents, Sides
<1>1. PICK x \in Places : e \in Contents[x]
  BY DEF IsLoose
<1> QED
  BY <1>1, WordValues DEF LedgerOK, Ledger, MyRight

(* The invariant gives a thread the words it expects.                       *)
LEMMA HeadersHold == ASSUME Inv PROVE HeadersAgree
<1> SUFFICES ASSUME NEW t \in Threads PROVE WordsAsExpected(t)
  BY SettledHolds DEF HeadersAgree
<1> DEFINE b == blk(t)
           tmp == th[t].tmp
<1>0. LedgerOK /\ BinsInv /\ Ctl(t) /\ SideCtl(t) /\ Ledger(Contents, myL, leftL, Sides, regions)
  BY DEF Inv, IInv, CtlOK, LedgerOK
<1>b. ASSUME pc(t) \in {"left", "right", "free"}
      PROVE  <<"blk", t>> \in Places /\ b \in Contents[<<"blk", t>>]
  <2>1. "blk" \in Private /\ b \in Keeps("blk", t)
    BY <1>b DEF Private, Keeps, When, Coalescing, Piece
  <2> QED
    BY <1>0, <2>1, OwnPlace
<1>1. ASSUME At(t, "mark")
      PROVE  myL[Head(th[t].list)[1]] = Locked /\ leftL[End(Head(th[t].list))] = Locked
  <2> DEFINE e == Head(th[t].list)
  <2>1. th[t].list \in Seq(Extents) /\ th[t].list # <<>> /\ Distinct(th[t].list)
    BY <1>0, <1>1 DEF Ctl, ListCtl, At, pc
  <2>2. e \in Elements(th[t].list)
    BY <2>1, HeadApart
  <2>3. e \in Keeps("list", t) /\ "list" \in Private
    BY <2>2 DEF Keeps, InList, Elements, Private
  <2> HIDE DEF e
  <2>4. <<"list", t>> \in Places /\ e \in Contents[<<"list", t>>]
    BY <1>0, <2>3, OwnPlace
  <2>5. ~LoosePlace(<<"list", t>>) /\ MyWord(<<"list", t>>) = Locked /\ LeftWord(<<"list", t>>) = Locked
        /\ <<"list", t>> # FREE
    BY <2>3, PlaceKinds, PlaceNames
  <2> HIDE DEF Contents, Sides
  <2>6. myL[e[1]] = Locked /\ leftL[End(e)] = Locked
    BY <1>0, <2>4, <2>5 DEF Ledger, MyRight, LeftRight
  <2> QED
    BY <2>6 DEF e
<1>2. ASSUME At(t, "left") PROVE leftL[b[1]] # Junk
  <2>1. <<"blk", t>> \in Places /\ b \in Contents[<<"blk", t>>]
    BY <1>2, <1>b DEF At, pc
  <2> HIDE DEF Contents, Sides, b
  <2> QED
    BY <1>0, <2>1, Neighbours
<1>3. ASSUME At(t, "left2") PROVE myL[b[1] - tmp] \in {Locked, Coal, tmp}
  <2>1. Side(t) = <<b[1] - tmp, tmp>> /\ Side(t) # NoExt
    BY <1>0, <1>3 DEF Side, SideCtl, At, pc
  <2>2. IsLoose(Contents, <<b[1] - tmp, tmp>>)
    BY <1>0, <2>1, SideType
  <2> HIDE DEF Contents, b, tmp
  <2>3. myL[<<b[1] - tmp, tmp>>[1]] \in {Locked, Coal, <<b[1] - tmp, tmp>>[2]}
    BY <1>0, <2>2, LooseWord
  <2> QED
    BY <2>3
<1>4. ASSUME At(t, "right") PROVE myL[End(b)] # Junk
  <2>1. <<"blk", t>> \in Places /\ b \in Contents[<<"blk", t>>]
    BY <1>4, <1>b DEF At, pc
  <2> HIDE DEF Contents, Sides, b
  <2> QED
    BY <1>0, <2>1, Neighbours
<1>5. ASSUME At(t, "right2") PROVE leftL[End(b) + tmp] \in {Locked, Coal, tmp}
  <2>1. "half" \in Private /\ Right(t) \in Keeps("half", t)
    BY <1>5 DEF Private, Keeps, When, Piece, At, pc
  <2>2. <<"half", t>> \in Places /\ LoosePlace(<<"half", t>>) /\ Right(t) \in Contents[<<"half", t>>]
    BY <1>0, <2>1, OwnPlace, PlaceKinds
  <2>3. leftL[End(Right(t))] \in {Locked, Coal, Right(t)[2]}
    BY <1>0, <2>2, LooseSide
  <2>4. End(Right(t)) = End(b) + tmp /\ Right(t)[2] = tmp
    BY DEF Right, End
  <2> QED
    BY <2>3, <2>4
<1>6. ASSUME At(t, "next") PROVE myL[End(Merge(t))] # Junk
  <2>1. /\ "right" \in Private /\ Right(t) \in Keeps("right", t)
        /\ "blk" \in Private /\ b \in Keeps("blk", t)
    BY <1>6 DEF Private, Keeps, When, Piece, Coalescing, At, pc
  <2>2. /\ <<"right", t>> \in Places /\ Right(t) \in Contents[<<"right", t>>]
        /\ b[1] \in Nat /\ b[2] \in Nat /\ Right(t)[2] \in Nat
    BY <1>0, <2>1, OwnPlace
  <2>3. End(Merge(t)) = End(Right(t))
    BY <2>2 DEF Merge, Right, End
  <2> HIDE DEF Contents, Sides
  <2> QED
    BY <1>0, <2>2, <2>3, Neighbours
<1>7. ASSUME At(t, "lockMe") PROVE myL[th[t].cur] # Junk
  <2>1. th[t].bin \in Bins /\ th[t].cur \in Elements(bins[th[t].bin])
    BY <1>0, <1>7 DEF Ctl, BinCtl, BinsInv, BinFacts, Scanning, At, pc
  <2> HIDE DEF Contents, Sides
  <2>2. PICK x \in Places : \E e \in Contents[x] : e[1] = th[t].cur
    BY <1>0, <2>1 DEF BinsInv, BinMembers
  <2>3. PICK e \in Contents[x] : e[1] = th[t].cur
    BY <2>2
  <2>4. e[2] \in Nat /\ (myL[e[1]] = e[2] \/ myL[e[1]] = MyWord(x))
    BY <1>0, PieceType DEF Ledger, MyRight
  <2> QED
    BY <2>3, <2>4, WordValues DEF Junk, Locked, Coal
<1>8. ASSUME At(t, "lockSide") PROVE leftL[th[t].cur + tmp] \in {Locked, Coal, tmp}
  <2>1. "tried" \in Private /\ Current(t) \in Keeps("tried", t)
    BY <1>8 DEF Private, Keeps, When, Piece, At, pc
  <2>2. <<"tried", t>> \in Places /\ LoosePlace(<<"tried", t>>) /\ Current(t) \in Contents[<<"tried", t>>]
    BY <1>0, <2>1, OwnPlace, PlaceKinds
  <2>3. leftL[End(Current(t))] \in {Locked, Coal, Current(t)[2]}
    BY <1>0, <2>2, LooseSide
  <2>4. End(Current(t)) = th[t].cur + tmp /\ Current(t)[2] = tmp
    BY DEF Current, End
  <2> QED
    BY <2>3, <2>4
<1>9. ASSUME At(t, "free") PROVE myL[b[1]] \in {Locked, Coal}
  <2>1. <<"blk", t>> \in Places /\ b \in Contents[<<"blk", t>>] /\ <<"blk", t>> # FREE
    BY <1>9, <1>b, PlaceNames DEF At, pc, Private
  <2> HIDE DEF Contents, Sides, b
  <2> QED
    BY <1>0, <2>1, WordValues DEF Ledger, MyRight
<1>10. ASSUME At(t, "free2") PROVE leftL[End(b)] \in {Locked, Coal}
  <2>1. Sides[t] = b /\ b # NoExt
    BY <1>0, <1>10 DEF Sides, Side, SideCtl, At, pc
  <2> HIDE DEF Contents, Sides, b
  <2> QED
    BY <1>0, <2>1 DEF Ledger, SidesRight
<1> QED
  BY <1>1, <1>2, <1>3, <1>4, <1>5, <1>6, <1>7, <1>8, <1>9, <1>10 DEF WordsAsExpected

(* The invariant keeps bins apart.                                          *)
LEMMA BinsHold == ASSUME Inv PROVE BinsDisjoint
<1>0. Ledger(Contents, myL, leftL, Sides, regions) /\ BinsInv
  BY DEF Inv, IInv, LedgerOK
<1>f. \A e : e \in Free <=> e \in Contents[FREE]
  BY ContentsAt
<1> HIDE DEF Contents, Sides
<1> SUFFICES ASSUME NEW b \in Bins, NEW i \in DOMAIN bins[b]
             PROVE  /\ myBin[bins[b][i]] = b
                    /\ myL[bins[b][i]] > EndMark => b = BinOf(<<bins[b][i], myL[bins[b][i]]>>)
                    /\ \A j \in DOMAIN bins[b] : bins[b][i] = bins[b][j] => i = j
                    /\ \A x \in Blocks : x[2][1] = bins[b][i] => x[1] \notin {"used", "queue"}
  BY DEF BinsDisjoint
<1> DEFINE p == bins[b][i]
<1>1. p \in Elements(bins[b])
  BY DEF Elements
<1>2. \A j \in DOMAIN bins[b] : bins[b][i] = bins[b][j] => i = j
  BY <1>0 DEF BinsInv, Distinct
<1> HIDE DEF p
<1>3. myBin[p] = b /\ \E x \in Places : \E e \in Contents[x] : e[1] = p /\ Listed(x, e)
  BY <1>0, <1>1 DEF BinsInv, BinMembers
<1>4. PICK x \in Places : \E e \in Contents[x] : e[1] = p /\ Listed(x, e)
  BY <1>3
<1>5. PICK e \in Contents[x] : e[1] = p /\ Listed(x, e)
  BY <1>4
<1>6. ASSUME myL[p] > EndMark PROVE b = BinOf(<<p, myL[p]>>)
  <2>1. <<p, myL[p]>> \in Contents[FREE]
    <3>1. p \in Units
      BY <1>0, <1>5, PieceType
    <3> QED
      BY <1>0, <1>6, <3>1 DEF Ledger, EndMark
  <2>2. x = FREE /\ e = <<p, myL[p]>>
    <3>1. <<p, myL[p]>>[1] = e[1]
      BY <1>5
    <3> QED
      BY <1>0, <2>1, <3>1, FreePlace, SamePiece
  <2> QED
    BY <1>3, <1>5, <2>2 DEF Listed, Sized, FREE
<1>7. ASSUME NEW y \in Blocks, y[2][1] = p PROVE y[1] \notin {"used", "queue"}
  <2>1. PICK z \in Places : \E d \in Contents[z] : y = <<Keeper(z), d>>
    BY Inventory
  <2>2. PICK d \in Contents[z] : y = <<Keeper(z), d>>
    BY <2>1
  <2>3. z = x
    BY <1>0, <1>5, <1>7, <2>2, SamePiece
  <2>4. z \notin {USED, QUEUE}
    BY <1>5, <2>3 DEF Listed, Registered, USED, QUEUE
  <2>5. CASE z = FREE
    BY <2>2, <2>5 DEF Keeper, FREE
  <2>6. CASE \E k \in Private : \E t \in Threads : z = <<k, t>>
    BY <2>2, <2>6, PlaceNames, BlocksAssumption DEF Keeper
  <2> QED
    BY <2>4, <2>5, <2>6, PlaceNames
<1> QED
  BY <1>2, <1>3, <1>6, <1>7 DEF p

(* What no other part of the invariant says of the types.                   *)
TypeRest == /\ modified \in [Threads -> BOOLEAN] /\ asked \in [Threads -> BOOLEAN]
            /\ calls \in 0 .. MaxCalls

(* The invariant keeps the types.                                           *)
LEMMA TypeHolds ==
    ASSUME Inv, TypeRest, inProcess \in Nat
    PROVE  TypeOK
<1>0. LedgerOK /\ BinsInv /\ QueueOK /\ Ledger(Contents, myL, leftL, Sides, regions)
  BY DEF Inv, IInv, CtlOK, LedgerOK
<1>1. myL \in [Units -> Int] /\ leftL \in [Units -> Int] /\ regions \subseteq Regions
  BY <1>0 DEF Ledger, Tiling
<1>2. used \subseteq Extents
  <2>1. Contents[USED] = used /\ USED \in Places
    BY ContentsAt, PlaceNames
  <2> HIDE DEF Contents, Sides
  <2> QED
    BY <1>0, <2>1, PieceType
<1>3. ASSUME NEW t \in Threads
      PROVE  /\ th[t].pc \in PCs /\ th[t].req \in Requests \cup {NoReq}
             /\ th[t].list \in Seq(Extents) /\ th[t].bin \in Bins \cup {NoBin}
             /\ {th[t].got, th[t].blk} \subseteq Extents \cup {NoExt}
  <2>0. Ctl(t) /\ Path(t)
    BY DEF Inv, IInv, CtlOK
  <2>1. th[t].pc \in PCs /\ th[t].req \in Requests \cup {NoReq}
        /\ th[t].list \in Seq(Extents) /\ th[t].bin \in Bins \cup {NoBin}
    BY <2>0 DEF Path, pc, Ctl, ReqCtl, ListCtl, BinCtl
  <2>2. th[t].got \in Extents \cup {NoExt}
    <3> SUFFICES ASSUME th[t].got # NoExt PROVE th[t].got \in Extents
      OBVIOUS
    <3>1. "got" \in Private /\ th[t].got \in Keeps("got", t)
      BY DEF Private, Keeps
    <3> QED
      BY <1>0, <3>1, OwnPlace
  <2>3. blk(t) \in Extents \cup {NoExt}
    <3> SUFFICES ASSUME blk(t) # NoExt PROVE blk(t) \in Extents
      OBVIOUS
    <3>1. pc(t) \in Coalescing \ {"mark"}
      BY <2>0 DEF Ctl, ListCtl
    <3>2. CASE pc(t) # "free2"
      <4>1. \E k \in {"fresh", "blk", "marked", "shut"} : pc(t) \in When(k)
        BY <3>1, <3>2 DEF When
      <4>2. PICK k \in {"fresh", "blk", "marked", "shut"} : pc(t) \in When(k)
        BY <4>1
      <4>3. k \in Private /\ blk(t) \in Keeps(k, t)
        BY <4>2 DEF Private, Keeps, Piece
      <4> QED
        BY <1>0, <4>3, OwnPlace
    <3>3. CASE pc(t) = "free2"
      <4>1. Side(t) = blk(t)
        BY <3>3 DEF Side
      <4>2. IsLoose(Contents, blk(t))
        BY <1>0, <4>1, SideType
      <4> HIDE DEF Contents, Sides
      <4>3. PICK x \in Places : blk(t) \in Contents[x]
        BY <4>2 DEF IsLoose
      <4> QED
        BY <1>0, <4>3, PieceType
    <3> QED
      BY <3>2, <3>3
  <2> QED
    BY <2>1, <2>2, <2>3 DEF blk
<1> QED
  BY <1>0, <1>1, <1>2, <1>3 DEF TypeOK, TypeRest, BinsInv, BinTypes, QueueOK

-----------------------------------------------------------------------------
(* The theorems.                                                            *)

Shows(t) == \/ UNCHANGED <<regions, used>>
            \/ regions' = regions /\ (used \subseteq used' \/ used' \subseteq used)
            \/ pc(t) = "release" /\ regions' = regions \ {Region(t)} /\ used' = used
Counts(t) == /\ \/ modified' = modified
                \/ modified' = [u \in Threads |-> TRUE]
                \/ modified' = [modified EXCEPT ![t] = FALSE]
             /\ asked \in [Threads -> BOOLEAN] => asked' \in [Threads -> BOOLEAN]
             /\ calls' = calls \/ (calls < MaxCalls /\ calls' = calls + 1)

(* What the actions do to the counters and to what the callers see.         *)
LEMMA Outside ==
    ASSUME NEW t \in Threads, Call(t) \/ Work(t)
    PROVE  Shows(t) /\ Counts(t)
<1> USE DEF counters, heap
<1>1. ASSUME Coalesce(t) PROVE UNCHANGED <<modified, asked, calls, regions, used>>
  <2>1. ASSUME MarkMine(t) \/ MarkRight(t) \/ TryLeft(t) \/ LockLeft(t) \/ UndoLeft(t) \/ TryRight(t)
        PROVE  UNCHANGED <<modified, asked, calls, regions, used>>
    BY <2>1 DEF MarkMine, MarkRight, TryLeft, LockLeft, UndoLeft, TryRight
  <2>2. ASSUME LockRight(t) \/ UndoRight(t) \/ AwaitRight(t) \/ RemoveRight(t) \/ PeekNext(t)
        PROVE  UNCHANGED <<modified, asked, calls, regions, used>>
    BY <2>2 DEF LockRight, UndoRight, AwaitRight, AwaitBin, RemoveRight, PeekNext
  <2>3. ASSUME UnpeekNext(t) \/ MarkUsed(t) \/ MarkRightUsed(t) \/ PutInQueue(t)
        PROVE  UNCHANGED <<modified, asked, calls, regions, used>>
    BY <2>3 DEF UnpeekNext, MarkUsed, MarkRightUsed, PutInQueue
  <2> QED
    BY <1>1, <2>1, <2>2, <2>3 DEF Coalesce
<1>2. ASSUME ReleaseRegion(t) PROVE Shows(t) /\ Counts(t)
  BY <1>2 DEF ReleaseRegion, At, pc, Shows, Counts
<1>3. ASSUME PutBack(t), ~ReleaseRegion(t) PROVE UNCHANGED <<modified, asked, calls, regions, used>>
  <2>1. ASSUME Decide(t) \/ Unbin(t) \/ RemoveMine(t) \/ Add(t) \/ TryAdd(t)
        PROVE  UNCHANGED <<modified, asked, calls, regions, used>>
    BY <2>1 DEF Decide, Unbin, AwaitBin, RemoveMine, Add, TryAdd
  <2>2. ASSUME Insert(t) \/ SetBit(t) \/ SetMeFree(t) \/ SetLeftFree(t)
        PROVE  UNCHANGED <<modified, asked, calls, regions, used>>
    BY <2>2 DEF Insert, SetBit, SetMeFree, SetLeftFree
  <2> QED
    BY <1>3, <2>1, <2>2 DEF PutBack
<1>4. ASSUME StartScan(t) PROVE Shows(t) /\ Counts(t)
  BY <1>4 DEF StartScan, Shows, Counts
<1>5. ASSUME Search(t), ~StartScan(t) PROVE UNCHANGED <<modified, asked, calls, regions, used>>
  <2>1. ASSUME NextBin(t) \/ NoMoreBins(t) \/ OpenBin(t) \/ LockMe(t) \/ LockSide(t) \/ UnlockMe(t)
        PROVE  UNCHANGED <<modified, asked, calls, regions, used>>
    BY <2>1 DEF NextBin, NoMoreBins, OpenBin, LockMe, LockSide, UnlockMe
  <2>2. ASSUME Consume(t) \/ NotThisOne(t) \/ Skip(t) \/ TakeInPlace(t) \/ TakeWhole(t)
        PROVE  UNCHANGED <<modified, asked, calls, regions, used>>
    BY <2>2 DEF Consume, NotThisOne, Skip, TakeInPlace, TakeWhole
  <2>3. ASSUME SplitRight(t) \/ SplitLeft(t) \/ SplitDone(t)
        PROVE  UNCHANGED <<modified, asked, calls, regions, used>>
    BY <2>3 DEF SplitRight, SplitLeft, SplitDone, GiveBack
  <2> QED
    BY <1>5, <2>1, <2>2, <2>3 DEF Search
<1>6. ASSUME NEW e \in used, CleanCache(t, e) \/ PutBlock(t, e) PROVE Shows(t) /\ Counts(t)
  BY <1>6 DEF CleanCache, PutBlock, Shows, Counts
<1>7. ASSUME Miss(t) \/ Cleaned(t) \/ Observe(t) \/ WaitTillBlockReleased(t) \/ Check(t) \/ ReturnNull(t)
      PROVE  UNCHANGED <<modified, asked, calls, regions, used>>
  BY <1>7 DEF Miss, Cleaned, Observe, WaitTillBlockReleased, Check, ReturnNull
<1>8. ASSUME BinsModified(t) \/ BlockReleased(t) PROVE Shows(t) /\ Counts(t)
  BY <1>8 DEF BinsModified, BlockReleased, Shows, Counts
<1>9. ASSUME NEW q \in Requests, GetBlock(t, q) PROVE Shows(t) /\ Counts(t)
  BY <1>9 DEF GetBlock, Shows, Counts
<1>10. UNCHANGED <<modified, asked, calls, regions, used>> => Shows(t) /\ Counts(t)
  BY DEF Shows, Counts
<1> QED
  BY <1>1, <1>2, <1>3, <1>4, <1>5, <1>6, <1>7, <1>8, <1>9, <1>10 DEF Work, Call, Extend

(* Blocks in use never overlap, and lie in the regions.                     *)
LEMMA UsedApart ==
    ASSUME Inv
    PROVE  Heap!PairsApart(used) /\ \A e \in used : \E r \in regions : Heap!Within(e, r)
<1>1. Tiling(Contents, regions) /\ Contents[USED] = used /\ USED \in Places
  BY ContentsAt, PlaceNames DEF Inv, IInv, LedgerOK, Ledger
<1> HIDE DEF Contents
<1> QED
  BY <1>1 DEF Tiling, Inside, Disjoint, Apart, Within, Heap!PairsApart, Heap!Apart, Heap!Within,
              End, Heap!End

(* Every step of the threads is a step of the heap, or one it does not see. *)
LEMMA HeapStep ==
    ASSUME Inv, [Next]_vars
    PROVE  [Heap!HeapNext]_<<regions, used>>
<1>0. Inv'
  BY InvStep
<1>1. ASSUME NEW t \in Threads, Call(t) \/ Work(t) PROVE [Heap!HeapNext]_<<regions, used>>
  <2>0. Shows(t)
    BY <1>1, Outside
  <2>1. CASE UNCHANGED <<regions, used>>
    BY <2>1
  <2>2. CASE regions' = regions /\ used \subseteq used'
    <3>1. Heap!PairsApart(used)' /\ \A e \in used' : \E r \in regions' : Heap!Within(e, r)
      <4>1. (Heap!PairsApart(used) /\ \A e \in used : \E r \in regions : Heap!Within(e, r))'
        BY <1>0, UsedApart, PTL
      <4> QED
        BY <4>1
    <3> QED
      BY <2>2, <3>1 DEF Heap!HeapNext, Heap!Get, Heap!PairsApart
  <2>3. CASE regions' = regions /\ used' \subseteq used
    BY <2>3 DEF Heap!HeapNext, Heap!Put
  <2>4. CASE pc(t) = "release" /\ regions' = regions \ {Region(t)} /\ used' = used
    <3> DEFINE r == Region(t)
               b == blk(t)
               x == <<"blk", t>>
    <3>1. r \in regions /\ b[1] = r[1] /\ End(b) = End(r) /\ b \in Contents[x]
      BY <2>4, WholeRegion DEF Inv
    <3>2. x \in Places /\ x # USED /\ USED \in Places /\ Contents[USED] = used
      BY PlaceNames, ContentsAt DEF Private
    <3>3. Tiling(Contents, regions)
      BY DEF Inv, IInv, LedgerOK, Ledger
    <3> HIDE DEF Contents, x, b, r
    <3>4. ASSUME NEW e \in used PROVE Heap!Apart(e, r)
      <4>1. Apart(e, b)
        BY <3>1, <3>2, <3>3 DEF Tiling, Disjoint
      <4> QED
        BY <3>1, <4>1 DEF Apart, End, Heap!Apart, Heap!End
    <3>5. Heap!Release(r)
      BY <2>4, <3>4 DEF Heap!Release, r
    <3> QED
      BY <3>1, <3>5 DEF Heap!HeapNext
  <2> QED
    BY <2>0, <2>1, <2>2, <2>3, <2>4 DEF Shows
<1>2. CASE UNCHANGED vars
  BY <1>2 DEF vars, heap
<1> QED
  BY <1>1, <1>2 DEF Next, Finished

(* Every variable of the backend keeps its type.  The set of threads is     *)
(* finite, as blocksInProcessing counts them.                               *)
THEOREM TypesKept == ASSUME IsFiniteSet(Threads) PROVE Spec => []TypeOK
<1>1. Init => TypeRest
  BY BlocksAssumption DEF Init, TypeRest
<1>2. TypeRest /\ [Next]_vars => TypeRest'
  <2> SUFFICES ASSUME TypeRest, [Next]_vars PROVE TypeRest'
    OBVIOUS
  <2>1. ASSUME NEW t \in Threads, Call(t) \/ Work(t) PROVE TypeRest'
    <3>1. Counts(t)
      BY <2>1, Outside
    <3>2. MaxCalls \in Nat
      BY BlocksAssumption
    <3>3. modified' \in [Threads -> BOOLEAN]
      BY <3>1 DEF Counts, TypeRest
    <3>4. calls' \in 0 .. MaxCalls
      BY <3>1, <3>2 DEF Counts, TypeRest
    <3>5. asked' \in [Threads -> BOOLEAN]
      BY <3>1 DEF Counts, TypeRest
    <3> QED
      BY <3>3, <3>4, <3>5 DEF TypeRest
  <2>2. CASE UNCHANGED vars
    BY <2>2 DEF vars, counters, heap, TypeRest
  <2> QED
    BY <2>1, <2>2 DEF Next, Finished
<1>3. ProcessingCounted => inProcess \in Nat
  <2>1. IsFiniteSet({t \in Threads : Processing(t)})
    BY FS_Subset
  <2> QED
    BY <2>1, FS_CardinalityType DEF ProcessingCounted
<1>4. Inv /\ TypeRest /\ inProcess \in Nat => TypeOK
  BY TypeHolds
<1> QED
  BY <1>1, <1>2, <1>3, <1>4, ProcessingExact, InvAlways, PTL DEF Spec

(* However the threads take, split, return and coalesce blocks (getBlock,   *)
(* getFromBin, getFromAlignedSpace, doCoalesc, coalescAndPutList), each     *)
(* unit of a region that is not released belongs to one block and to one    *)
(* only: no memory is lost and none is handed out twice.                    *)
THEOREM TiledAlways == Spec => []Tiled
<1>1. Inv => Tiled
  BY TiledHolds
<1> QED
  BY <1>1, InvAlways, PTL

(* A thread that locks a neighbour finds a size or a lock there, never the  *)
(* inside of a block; it releases only what is locked; and once all have    *)
(* left, both lock words of a block say what it is (the assertions in       *)
(* backend.cpp).                                                            *)
THEOREM HeadersAlways == Spec => []HeadersAgree
<1>1. Inv => HeadersAgree
  BY HeadersHold
<1> QED
  BY <1>1, InvAlways, PTL

(* A block is in one bin at most, once, the one that it names and its size  *)
(* calls for (tryAddBlock, lockRemoveBlock, getBlock), and never while it   *)
(* is in use or waits in coalescQ.                                          *)
THEOREM BinsAlways == Spec => []BinsDisjoint
<1>1. Inv => BinsDisjoint
  BY BinsHold
<1> QED
  BY <1>1, InvAlways, PTL

(* A bin that is not empty has its bit set, or is named by the block of a   *)
(* thread that is about to set it (tryAddBlock, lockRemoveBlock).           *)
THEOREM MaskAlways == Spec => []MaskCovers
<1>1. Inv => MaskCovers
  BY DEF Inv, IInv, BinsInv
<1> QED
  BY <1>1, InvAlways, PTL

(* The backend implements the heap: at every step genericGetBlock hands out *)
(* memory that nobody uses, a block in use is put back, releaseRegion       *)
(* releases a region of which nothing is used, or neither changes.          *)
THEOREM ImplementsHeap == Spec => IsHeap
<1>1. Init => Heap!HeapInit
  BY DEF Init, Heap!HeapInit
<1>2. Inv /\ [Next]_vars => [Heap!HeapNext]_<<regions, used>>
  BY HeapStep
<1> QED
  BY <1>1, <1>2, InvAlways, PTL DEF Spec, IsHeap, Heap!HeapSpec

-----------------------------------------------------------------------------
(* A refusal of the backend: what a scan has seen.                          *)

(* A step keeps the locks it has, takes its only one, or gives it back.     *)
Takes(t, b) == tLock[b] = NoThread /\ tLock' = [tLock EXCEPT ![b] = t]
               /\ pc(t) \notin Locking /\ pc(t)' \in Locking
Drops(t, b) == tLock[b] = t /\ tLock' = [tLock EXCEPT ![b] = NoThread]
Grip(t) == \/ tLock' = tLock /\ (pc(t) \in Locking => pc(t)' \in Locking)
           \/ \E b \in Bins : Takes(t, b) \/ Drops(t, b)

(* Whoever keeps to that has one lock at most, where it needs one.          *)
LEMMA GripKeeps ==
    ASSUME BinsInv, NEW t \in Threads, Mine(t), Grip(t), \A u \in Threads : LockCtl(u)
    PROVE  \A u \in Threads : LockCtl(u)'
<1>0. tLock \in [Bins -> Threads \cup {NoThread}] /\ NoThread \notin Threads
  BY BlocksAssumption DEF BinsInv, BinTypes
<1>1. \A u \in Threads \ {t} : pc(u)' = pc(u)
  BY DEF Mine, pc
<1>2. CASE tLock' = tLock /\ (pc(t) \in Locking => pc(t)' \in Locking)
  BY <1>1, <1>2 DEF LockCtl
<1>3. CASE \E b \in Bins : Takes(t, b)
  <2>1. PICK b \in Bins : Takes(t, b)
    BY <1>3
  <2>2. tLock'[b] = t /\ \A c \in Bins : c # b => tLock'[c] = tLock[c]
    BY <1>0, <2>1 DEF Takes
  <2>3. \A c \in Bins : tLock[c] # t
    BY <2>1 DEF Takes, LockCtl
  <2>4. LockCtl(t)'
    BY <2>1, <2>2, <2>3 DEF Takes, LockCtl
  <2>5. ASSUME NEW u \in Threads \ {t} PROVE LockCtl(u)'
    BY <1>1, <2>2, <2>5 DEF LockCtl
  <2> QED
    BY <2>4, <2>5
<1>4. CASE \E b \in Bins : Drops(t, b)
  <2>1. PICK b \in Bins : Drops(t, b)
    BY <1>4
  <2>2. tLock'[b] = NoThread /\ \A c \in Bins : c # b => tLock'[c] = tLock[c]
    BY <1>0, <2>1 DEF Drops
  <2>3. \A c \in Bins : tLock'[c] # t
    BY <1>0, <2>1, <2>2 DEF Drops, LockCtl
  <2>4. LockCtl(t)'
    BY <2>3 DEF LockCtl
  <2>5. ASSUME NEW u \in Threads \ {t} PROVE LockCtl(u)'
    BY <1>0, <1>1, <2>2, <2>5 DEF LockCtl
  <2> QED
    BY <2>4, <2>5
<1> QED
  BY <1>2, <1>3, <1>4 DEF Grip

(* The bin a thread waits for, or has locked, is one of the bins.           *)
LEMMA OwnBin ==
    ASSUME LedgerOK, BinsInv, NEW t \in Threads, Ctl(t)
    PROVE  /\ pc(t) \in {"tryAdd", "insert", "remove"} => myBin[blk(t)[1]] \in Bins
           /\ pc(t) \in {"insert", "remove"} => tLock[myBin[blk(t)[1]]] = t
           /\ pc(t) = "unbin" /\ myBin[blk(t)[1]] # NoBin => myBin[blk(t)[1]] \in Bins
           /\ pc(t) \in {"unbinRight", "removeRight"} => myBin[End(blk(t))] \in Bins
           /\ pc(t) = "removeRight" => tLock[myBin[End(blk(t))]] = t
           /\ pc(t) \in Scanning => /\ th[t].bin \in Bins /\ tLock[th[t].bin] = t
                                    /\ th[t].cur \in Elements(bins[th[t].bin])
                                    /\ th[t].cur \in Units /\ myBin[th[t].cur] = th[t].bin
<1>0. myBin \in [Units -> Bins \cup {NoBin}] /\ BinFacts(t)
  BY DEF BinsInv, BinTypes
<1>1. pc(t) \in {"tryAdd", "insert", "remove", "unbin"} => blk(t)[1] \in Units
  <2>1. ASSUME pc(t) \in {"tryAdd", "insert", "remove", "unbin"} PROVE blk(t)[1] \in Units
    <3>1. "blk" \in Private /\ blk(t) \in Keeps("blk", t)
      BY <2>1 DEF Private, Keeps, When, Coalescing, Piece
    <3> QED
      BY <3>1, OwnPlace
  <2> QED
    BY <2>1
<1>2. pc(t) \in {"unbinRight", "removeRight"} => End(blk(t)) \in Units
  BY OwnPieces
<1>3. ASSUME pc(t) \in Scanning
      PROVE  /\ th[t].bin \in Bins /\ tLock[th[t].bin] = t
             /\ th[t].cur \in Elements(bins[th[t].bin])
             /\ th[t].cur \in Units /\ myBin[th[t].cur] = th[t].bin
  BY <1>0, <1>3, CurrentBegins DEF BinFacts, BinsInv, BinMembers
<1> QED
  BY <1>0, <1>1, <1>2, <1>3 DEF BinFacts

(* Each step of a thread keeps to it.                                       *)
LEMMA Grips ==
    ASSUME IInv, Local, NEW t \in Threads, Path(t), Work(t) \/ Call(t)
    PROVE  Grip(t)
<1>0. LedgerOK /\ BinsInv /\ Ctl(t)
  BY DEF IInv, CtlOK
<1> USE DEF Local, Rec, Fields, At, pc, blk, Goto
<1>1. ASSUME \/ MarkMine(t) \/ MarkRight(t) \/ TryLeft(t) \/ LockLeft(t) \/ UndoLeft(t)
             \/ TryRight(t) \/ LockRight(t) \/ UndoRight(t)
      PROVE  tLock' = tLock /\ pc(t) \notin Locking
  BY <1>1 DEF MarkMine, MarkRight, TryLeft, LockLeft, UndoLeft, TryRight, LockRight, UndoRight,
              binned, Locking, Scanning
<1>2. ASSUME PeekNext(t) \/ UnpeekNext(t) \/ MarkUsed(t) \/ MarkRightUsed(t) \/ PutInQueue(t)
      PROVE  tLock' = tLock /\ pc(t) \notin Locking
  BY <1>2 DEF PeekNext, UnpeekNext, MarkUsed, MarkRightUsed, PutInQueue, binned, Locking, Scanning
<1>3. ASSUME AwaitRight(t) PROVE \E b \in Bins : Takes(t, b)
  <2>1. myBin[End(blk(t))] \in Bins
    BY <1>0, <1>3, OwnBin DEF AwaitRight
  <2>2. Takes(t, myBin[End(blk(t))])
    BY <1>3 DEF AwaitRight, AwaitBin, Takes, Locking, Scanning
  <2> QED
    BY <2>1, <2>2
<1>4. ASSUME RemoveRight(t) PROVE \E b \in Bins : Drops(t, b)
  BY <1>0, <1>4, OwnBin DEF RemoveRight, RemoveFromBin, Drops
<1>5. ASSUME Decide(t) \/ ReleaseRegion(t) \/ Add(t) \/ SetBit(t) \/ SetMeFree(t) \/ SetLeftFree(t)
      PROVE  tLock' = tLock /\ pc(t) \notin Locking
  BY <1>5 DEF Decide, ReleaseRegion, Add, SetBit, SetMeFree, SetLeftFree, binned, Locking, Scanning
<1>6. ASSUME Unbin(t) PROVE Grip(t)
  <2>1. ASSUME myBin[blk(t)[1]] # NoBin PROVE \E b \in Bins : Takes(t, b)
    BY <1>0, <1>6, <2>1, OwnBin DEF Unbin, AwaitBin, Takes, Locking, Scanning
  <2>2. ASSUME myBin[blk(t)[1]] = NoBin PROVE tLock' = tLock /\ pc(t) \notin Locking
    BY <1>6, <2>2 DEF Unbin, binned, Locking, Scanning
  <2> QED
    BY <2>1, <2>2 DEF Grip
<1>7. ASSUME RemoveMine(t) \/ Insert(t) PROVE \E b \in Bins : Drops(t, b)
  BY <1>0, <1>7, OwnBin DEF RemoveMine, RemoveFromBin, Insert, Drops
<1>8. ASSUME TryAdd(t) PROVE Grip(t)
  <2>1. ASSUME tLock[myBin[blk(t)[1]]] = NoThread PROVE \E b \in Bins : Takes(t, b)
    BY <1>0, <1>8, <2>1, OwnBin DEF TryAdd, Takes, Locking, Scanning
  <2>2. ASSUME tLock[myBin[blk(t)[1]]] # NoThread PROVE tLock' = tLock /\ pc(t) \notin Locking
    BY <1>8, <2>2 DEF TryAdd, Locking, Scanning
  <2> QED
    BY <2>1, <2>2 DEF Grip
<1>9. ASSUME BinsModified(t) \/ BlockReleased(t) \/ Call(t)
      PROVE  tLock' = tLock /\ pc(t) \notin Locking
  BY <1>9 DEF BinsModified, BlockReleased, Call, PutBlock, GetBlock, binned, Locking, Scanning
<1>10. ASSUME \/ StartScan(t) \/ NextBin(t) \/ NoMoreBins(t) \/ SplitRight(t) \/ SplitLeft(t) \/ SplitDone(t)
       PROVE  tLock' = tLock /\ pc(t) \notin Locking
  BY <1>10 DEF StartScan, NextBin, NoMoreBins, SplitRight, SplitLeft, SplitDone, GiveBack, binned,
               Locking, Scanning
<1>11. ASSUME OpenBin(t) PROVE Grip(t)
  <2>0. th[t].bin \in Bins
    BY <1>0, <1>11 DEF OpenBin, Ctl, BinCtl
  <2>1. ASSUME bins[th[t].bin] # <<>>, tLock[th[t].bin] = NoThread PROVE Takes(t, th[t].bin)
    BY <1>11, <2>1 DEF OpenBin, Takes, Locking, Scanning
  <2>2. ASSUME bins[th[t].bin] = <<>> \/ tLock[th[t].bin] # NoThread
        PROVE  tLock' = tLock /\ pc(t) \notin Locking
    BY <1>11, <2>2 DEF OpenBin, Locking, Scanning
  <2> QED
    BY <2>0, <2>1, <2>2 DEF Grip
<1>12. ASSUME LockMe(t) PROVE Grip(t)
  <2>0. th[t].bin \in Bins /\ tLock[th[t].bin] = t
    BY <1>0, <1>12, OwnBin DEF LockMe, Scanning
  <2>1. ASSUME myL[th[t].cur] <= Coal PROVE Drops(t, th[t].bin)
    BY <1>12, <2>0, <2>1 DEF LockMe, Unlock, Drops
  <2>2. ASSUME ~(myL[th[t].cur] <= Coal) PROVE tLock' = tLock /\ pc(t)' \in Locking
    BY <1>12, <2>2 DEF LockMe, Locking, Scanning
  <2> QED
    BY <2>0, <2>1, <2>2 DEF Grip
<1>13. ASSUME LockSide(t) \/ Consume(t) \/ NotThisOne(t) PROVE tLock' = tLock /\ pc(t)' \in Locking
  BY <1>13 DEF LockSide, Consume, NotThisOne, binned, Locking, Scanning
<1>14. ASSUME UnlockMe(t) \/ TakeInPlace(t) \/ TakeWhole(t) PROVE \E b \in Bins : Drops(t, b)
  <2>0. th[t].bin \in Bins /\ tLock[th[t].bin] = t /\ myBin[th[t].cur] = th[t].bin
    BY <1>0, <1>14, OwnBin DEF UnlockMe, TakeInPlace, TakeWhole, Scanning
  <2> QED
    BY <1>14, <2>0 DEF UnlockMe, TakeInPlace, TakeWhole, Unlock, RemoveFromBin, Drops
<1>15. ASSUME Skip(t) PROVE Grip(t)
  <2>0. th[t].bin \in Bins /\ tLock[th[t].bin] = t
    BY <1>0, <1>15, OwnBin DEF Skip, Scanning
  <2> DEFINE i == CHOOSE j \in DOMAIN bins[th[t].bin] : bins[th[t].bin][j] = th[t].cur
  <2>1. ASSUME i = Len(bins[th[t].bin]) PROVE Drops(t, th[t].bin)
    BY <1>15, <2>0, <2>1 DEF Skip, Unlock, Drops
  <2>2. ASSUME i # Len(bins[th[t].bin]) PROVE tLock' = tLock /\ pc(t)' \in Locking
    <3>1. tLock' = tLock /\ th' = [th EXCEPT ![t].pc = "lockMe", ![t].cur = bins[th[t].bin][i + 1],
                                            ![t].tmp = 0]
      BY <1>15, <2>2 DEF Skip
    <3> QED
      BY <3>1 DEF Locking, Scanning
  <2> QED
    BY <2>0, <2>1, <2>2 DEF Grip
<1>16. ASSUME Extend(t) PROVE tLock' = tLock /\ pc(t) \notin Locking
  BY <1>16 DEF Extend, Miss, Cleaned, Observe, WaitTillBlockReleased, Check, ReturnNull, CleanCache,
               binned, Locking, Scanning
<1>17. ASSUME Coalesce(t) PROVE Grip(t)
  BY <1>17, <1>1, <1>2, <1>3, <1>4 DEF Coalesce, Grip
<1>18. ASSUME PutBack(t) PROVE Grip(t)
  BY <1>18, <1>5, <1>6, <1>7, <1>8 DEF PutBack, Grip
<1>19. ASSUME Search(t) PROVE Grip(t)
  BY <1>19, <1>10, <1>11, <1>12, <1>13, <1>14, <1>15 DEF Search, Grip
<1> QED
  BY <1>9, <1>16, <1>17, <1>18, <1>19 DEF Work, Grip

(* A thread has the request it had, or none, and has scanned for it if it   *)
(* had; it begins a scan, or a call.                                        *)
Asks(t) == \/ /\ th'[t].req \in {th[t].req, NoReq} /\ (Scanned(t)' => Scanned(t))
              /\ asked' = asked
           \/ StartScan(t)
           \/ \E q \in Requests : GetBlock(t, q)

(* Most steps leave the request alone.                                      *)
LEMMA AsksSame ==
    ASSUME NEW t \in Threads, th'[t].req = th[t].req, asked' = asked,
           \/ pc(t) \notin Coalescing \cup {"loop"}
           \/ pc(t) \in Coalescing /\ pc(t)' \in Coalescing /\ th'[t].ret = th[t].ret
           \/ pc(t) \in Coalescing /\ pc(t)' \in {"mark", th[t].ret} /\ th'[t].ret = th[t].ret
    PROVE  Asks(t)
  BY DEF Asks, Scanned, Coalescing

(* What a thread that coalesces will do next, and that a request for which  *)
(* it has returned blocks is searched for again, follow from its path.      *)
LEMMA Returns ==
    ASSUME IInv, Local, NEW t \in Threads, Path(t), ReturnCtl(t), Work(t) \/ Call(t)
    PROVE  ReturnCtl(t)' /\ Asks(t)
<1> USE DEF Local, Rec, Fields, At, pc, Goto, AfterBlock, Onward, counters
<1>0. Path(t) /\ ReturnCtl(t)
  OBVIOUS
<1>1. ASSUME \/ MarkMine(t) \/ MarkRight(t) \/ TryLeft(t) \/ LockLeft(t) \/ UndoLeft(t)
             \/ TryRight(t) \/ LockRight(t) \/ UndoRight(t)
      PROVE  ReturnCtl(t)' /\ Asks(t)
  <2>1. /\ pc(t) \in Coalescing /\ pc(t)' \in Coalescing /\ asked' = asked
        /\ th'[t].req = th[t].req /\ th'[t].ret = th[t].ret /\ th'[t].back = th[t].back
        /\ th'[t].larger = th[t].larger
    BY <1>1 DEF MarkMine, MarkRight, TryLeft, LockLeft, UndoLeft, TryRight, LockRight, UndoRight,
                GiveUp, Coalescing
  <2> QED
    BY <2>1, <1>0, AsksSame DEF ReturnCtl, Coalescing
<1>2. ASSUME \/ AwaitRight(t) \/ RemoveRight(t) \/ PeekNext(t) \/ UnpeekNext(t) \/ MarkUsed(t)
             \/ MarkRightUsed(t)
      PROVE  ReturnCtl(t)' /\ Asks(t)
  <2>1. /\ pc(t) \in Coalescing /\ pc(t)' \in Coalescing /\ asked' = asked
        /\ th'[t].req = th[t].req /\ th'[t].ret = th[t].ret /\ th'[t].back = th[t].back
        /\ th'[t].larger = th[t].larger
    BY <1>2 DEF AwaitRight, AwaitBin, RemoveRight, PeekNext, UnpeekNext, MarkUsed, MarkRightUsed,
                Coalescing
  <2> QED
    BY <2>1, <1>0, AsksSame DEF ReturnCtl, Coalescing
<1>3. ASSUME \/ Decide(t) \/ Unbin(t) \/ RemoveMine(t) \/ Add(t) \/ TryAdd(t) \/ Insert(t)
             \/ SetBit(t) \/ SetMeFree(t)
      PROVE  ReturnCtl(t)' /\ Asks(t)
  <2>0. pc(t) \in {"unbin", "remove"} => th[t].goal \in {"requeue", "release", "add"}
    BY DEF Path
  <2>1. /\ pc(t) \in Coalescing /\ pc(t)' \in Coalescing /\ asked' = asked
        /\ th'[t].req = th[t].req /\ th'[t].ret = th[t].ret /\ th'[t].back = th[t].back
        /\ th'[t].larger = th[t].larger
    BY <1>3, <2>0 DEF Decide, Unbin, AwaitBin, RemoveMine, Add, TryAdd, Insert, SetBit, SetMeFree,
                Coalescing
  <2> QED
    BY <2>1, <1>0, AsksSame DEF ReturnCtl, Coalescing
<1>4. ASSUME PutInQueue(t) \/ ReleaseRegion(t) \/ SetLeftFree(t) PROVE ReturnCtl(t)' /\ Asks(t)
  <2>1. /\ pc(t) \in Coalescing /\ pc(t)' \in {"mark", th[t].ret} /\ asked' = asked
        /\ th'[t].req = th[t].req /\ th'[t].ret = th[t].ret /\ th'[t].back = th[t].back
        /\ th'[t].larger = th[t].larger
    BY <1>4 DEF PutInQueue, ReleaseRegion, SetLeftFree, Coalescing
  <2> QED
    BY <2>1, <1>0, AsksSame DEF ReturnCtl, Coalescing, Path
<1>5. ASSUME BinsModified(t) \/ BlockReleased(t) PROVE ReturnCtl(t)' /\ Asks(t)
  <2>1. CASE BinsModified(t)
    BY <1>0, <2>1, AsksSame DEF BinsModified, ReturnCtl, Coalescing
  <2>2. CASE BlockReleased(t)
    <3>1. asked' = asked /\ pc(t) = "released"
      BY <2>2 DEF BlockReleased
    <3>2. CASE th[t].got = NoExt
      <4>1. th' = [th EXCEPT ![t].pc = th[t].back, ![t].ret = "idle", ![t].back = "idle"]
        BY <2>2, <3>2 DEF BlockReleased
      <4>2. pc(t)' = th[t].back /\ th'[t].req = th[t].req /\ th'[t].back = "idle"
        BY <4>1
      <4>3. th[t].back \notin Coalescing
        BY DEF Path, Coalescing
      <4> QED
        BY <3>1, <4>2, <4>3, AsksSame DEF ReturnCtl, Coalescing
    <3>3. CASE th[t].got # NoExt
      <4>1. th' = [th EXCEPT ![t] = Resting]
        BY <2>2, <3>3 DEF BlockReleased
      <4>2. pc(t)' = "idle" /\ th'[t].req = NoReq /\ th'[t].back = "idle"
        BY <4>1 DEF Resting
      <4> QED
        BY <3>1, <4>2 DEF ReturnCtl, Asks, Scanned, Coalescing
    <3> QED
      BY <3>2, <3>3
  <2> QED
    BY <1>5, <2>1, <2>2
<1>6. ASSUME Call(t) PROVE ReturnCtl(t)' /\ Asks(t)
  <2>1. ASSUME NEW e \in used, PutBlock(t, e) PROVE ReturnCtl(t)' /\ Asks(t)
    BY <1>0, <2>1, AsksSame DEF PutBlock, ReturnCtl, Coalescing
  <2>2. ASSUME NEW q \in Requests, GetBlock(t, q) PROVE ReturnCtl(t)' /\ Asks(t)
    BY <1>0, <2>2 DEF GetBlock, ReturnCtl, Asks, Coalescing, Resting
  <2> QED
    BY <1>6, <2>1, <2>2 DEF Call
<1>s. ASSUME StartScan(t) PROVE ReturnCtl(t)' /\ Asks(t)
  <2>1. pc(t) = "loop" /\ pc(t)' = "scan" /\ th'[t].back = th[t].back
    BY <1>s DEF StartScan
  <2> QED
    BY <1>0, <1>s, <2>1 DEF ReturnCtl, Asks, Coalescing
<1>7. ASSUME \/ NextBin(t) \/ NoMoreBins(t) \/ OpenBin(t) \/ LockMe(t) \/ LockSide(t)
             \/ UnlockMe(t)
      PROVE  ReturnCtl(t)' /\ Asks(t)
  <2> DEFINE P == /\ pc(t) \in {"scan", "bin", "lockMe", "lockSide", "unlockMe"}
                  /\ pc(t)' \in {"scan", "bin", "lockMe", "lockSide", "unlockMe", "miss", "fit"}
                  /\ asked' = asked /\ th'[t].req = th[t].req /\ th'[t].back = th[t].back
  <2>b. ASSUME NextBin(t) PROVE P
    BY <2>b DEF NextBin
  <2>c. ASSUME NoMoreBins(t) PROVE P
    BY <2>c DEF NoMoreBins
  <2>d. ASSUME OpenBin(t) PROVE P
    BY <2>d DEF OpenBin
  <2>e. ASSUME LockMe(t) PROVE P
    BY <2>e DEF LockMe
  <2>f. ASSUME LockSide(t) \/ UnlockMe(t) PROVE P
    BY <2>f DEF LockSide, UnlockMe
  <2>1. /\ pc(t) \in {"scan", "bin", "lockMe", "lockSide", "unlockMe"} /\ pc(t)' \notin Coalescing
        /\ asked' = asked /\ th'[t].req = th[t].req /\ th'[t].back = th[t].back
    BY <1>7, <2>b, <2>c, <2>d, <2>e, <2>f DEF Coalescing
  <2> QED
    BY <2>1, <1>0, AsksSame DEF ReturnCtl, Coalescing
<1>8. ASSUME Skip(t) PROVE ReturnCtl(t)' /\ Asks(t)
  <2> DEFINE i == CHOOSE j \in DOMAIN bins[th[t].bin] : bins[th[t].bin][j] = th[t].cur
  <2>0. \/ th' = [th EXCEPT ![t].pc = "scan", ![t].cur = 0, ![t].tmp = 0]
        \/ th' = [th EXCEPT ![t].pc = "lockMe", ![t].cur = bins[th[t].bin][i + 1], ![t].tmp = 0]
    BY <1>8 DEF Skip
  <2>1. /\ pc(t) = "skip" /\ pc(t)' \in {"scan", "lockMe"}
        /\ asked' = asked /\ th'[t].req = th[t].req /\ th'[t].back = th[t].back
    BY <1>8, <2>0 DEF Skip
  <2> QED
    BY <2>1, <1>0, AsksSame DEF ReturnCtl, Coalescing
<1>9. ASSUME Consume(t) \/ NotThisOne(t) \/ TakeInPlace(t) \/ TakeWhole(t) \/ SplitDone(t)
      PROVE  ReturnCtl(t)' /\ Asks(t)
  <2>1. /\ pc(t) \in {"fit", "take", "split"} /\ pc(t)' \notin Coalescing
        /\ asked' = asked /\ th'[t].req = th[t].req /\ th'[t].back = th[t].back
    BY <1>9 DEF Consume, NotThisOne, TakeInPlace, TakeWhole, SplitDone, Coalescing
  <2> QED
    BY <2>1, <1>0, AsksSame DEF ReturnCtl, Coalescing
<1>10. ASSUME SplitRight(t) \/ SplitLeft(t) PROVE ReturnCtl(t)' /\ Asks(t)
  <2> DEFINE P == /\ pc(t) = "split" /\ pc(t)' = "mark" /\ asked' = asked
                  /\ th'[t].req = th[t].req /\ th'[t].back = th[t].back /\ th'[t].ret = "split"
  <2>1. CASE SplitRight(t)
    <3> DEFINE cut == Result(t) + Total(t)
               l == <<<<cut, End(th[t].got) - cut>>>>
               g == <<th[t].got[1], cut - th[t].got[1]>>
    <3>1. /\ pc(t) = "split" /\ asked' = asked
          /\ th' = [th EXCEPT ![t].pc = "mark", ![t].list = l, ![t].got = g, ![t].ret = "split"]
      BY <2>1 DEF SplitRight, GiveBack
    <3> HIDE DEF cut, l, g
    <3>2. P
      BY <3>1
    <3> QED
      BY <3>2, <1>0, AsksSame DEF ReturnCtl, Coalescing
  <2>2. CASE SplitLeft(t)
    <3> DEFINE cut == Result(t)
               l == <<<<th[t].got[1], cut - th[t].got[1]>>>>
               g == <<cut, Total(t)>>
    <3>1. /\ pc(t) = "split" /\ asked' = asked
          /\ th' = [th EXCEPT ![t].pc = "mark", ![t].list = l, ![t].got = g, ![t].ret = "split"]
      BY <2>2 DEF SplitLeft, GiveBack
    <3> HIDE DEF cut, l, g
    <3>2. P
      BY <3>1
    <3> QED
      BY <3>2, <1>0, AsksSame DEF ReturnCtl, Coalescing
  <2> QED
    BY <1>10, <2>1, <2>2
<1>11. ASSUME Miss(t) PROVE ReturnCtl(t)' /\ Asks(t)
  <2>0. th' = [th EXCEPT ![t].pc = Onward(queue, "soft"), ![t].list = queue, ![t].ret = "soft",
                         ![t].force = TRUE, ![t].larger = queue # <<>>, ![t].bin = NoBin]
    BY <1>11 DEF Miss
  <2>1. /\ pc(t) = "miss" /\ asked' = asked /\ th'[t].req = th[t].req /\ th'[t].back = th[t].back
        /\ th'[t].ret = "soft" /\ pc(t)' = Onward(queue, "soft") /\ th'[t].larger = (queue # <<>>)
    <3>1. pc(t) = "miss" /\ asked' = asked
      BY <1>11 DEF Miss
    <3> HIDE DEF Onward
    <3> QED
      BY <2>0, <3>1
  <2>2. pc(t)' = "mark" => th'[t].larger
    BY <2>1
  <2>3. pc(t)' \in {"mark", "soft"}
    BY <2>1
  <2> QED
    BY <2>1, <2>2, <2>3, <1>0, AsksSame DEF ReturnCtl, Coalescing
<1>12. ASSUME Cleaned(t) \/ Observe(t) \/ Check(t) \/ ReturnNull(t) PROVE ReturnCtl(t)' /\ Asks(t)
  <2>1. CASE Cleaned(t) \/ Observe(t) \/ Check(t)
    BY <1>0, <2>1, AsksSame DEF Cleaned, Observe, Check, ReturnCtl, Coalescing
  <2>2. CASE ReturnNull(t)
    BY <1>0, <2>2 DEF ReturnNull, ReturnCtl, Asks, Scanned, Coalescing, Resting
  <2> QED
    BY <1>12, <2>1, <2>2
<1>13. ASSUME WaitTillBlockReleased(t) PROVE ReturnCtl(t)' /\ Asks(t)
  BY <1>0, <1>13, AsksSame DEF WaitTillBlockReleased, ReturnCtl, Coalescing
<1>14. ASSUME NEW e \in used, CleanCache(t, e) PROVE ReturnCtl(t)' /\ Asks(t)
  <2>1. /\ pc(t) \in {"soft", "hard"} /\ pc(t)' = "mark" /\ asked' = asked /\ th'[t].req = th[t].req
        /\ th'[t].ret = "modify" /\ th'[t].larger /\ th'[t].back = pc(t)
    BY <1>14 DEF CleanCache
  <2> QED
    BY <2>1, AsksSame DEF ReturnCtl, Coalescing
<1> QED
  BY <1>1, <1>2, <1>3, <1>4, <1>5, <1>6, <1>s, <1>7, <1>8, <1>9, <1>10, <1>11, <1>12, <1>13, <1>14
     DEF Work, Coalesce, PutBack, Search, Extend

(* No other thread has a request then.                                      *)
LEMMA AloneKeeps ==
    ASSUME asked \in [Threads -> BOOLEAN], \A u \in Threads : AloneCtl(u),
           Local, NEW t \in Threads, Mine(t), Asks(t)
    PROVE  asked' \in [Threads -> BOOLEAN] /\ \A u \in Threads : AloneCtl(u)'
<1>1. \A u \in Threads \ {t} : th'[u] = th[u] /\ Scanned(u)' = Scanned(u)
  BY DEF Mine, Scanned, pc
<1>2. CASE /\ th'[t].req \in {th[t].req, NoReq} /\ (Scanned(t)' => Scanned(t))
           /\ asked' = asked
  BY <1>1, <1>2 DEF AloneCtl
<1>3. CASE StartScan(t)
  <2>1. asked' = [asked EXCEPT ![t] = \E u \in Threads \ {t} : th[u].req # NoReq]
    BY <1>3 DEF StartScan
  <2>2. th'[t].req = th[t].req
    BY <1>3 DEF StartScan, Local, Rec, Fields
  <2>3. AloneCtl(t)'
    BY <1>1, <2>1 DEF AloneCtl
  <2>4. ASSUME NEW u \in Threads \ {t} PROVE AloneCtl(u)'
    <3>1. asked'[u] = asked[u]
      BY <2>1
    <3> QED
      BY <1>1, <2>2, <3>1 DEF AloneCtl
  <2> QED
    BY <2>1, <2>3, <2>4
<1>4. CASE \E q \in Requests : GetBlock(t, q)
  <2>1. PICK q \in Requests : GetBlock(t, q)
    BY <1>4
  <2>2. asked' = [u \in Threads |-> asked[u] \/ th[u].req # NoReq]
    BY <2>1 DEF GetBlock
  <2>3. pc(t)' = Onward(queue, "loop") /\ th'[t].ret = "loop"
    <3> HIDE DEF Onward
    <3> QED
      BY <2>1 DEF GetBlock, Local, Rec, Fields, pc, Resting
  <2>4. AloneCtl(t)'
    BY <2>3 DEF AloneCtl, Scanned, Onward, Coalescing
  <2>5. ASSUME NEW u \in Threads \ {t} PROVE AloneCtl(u)'
    <3>1. asked'[u] \/ th'[u].req = NoReq
      BY <1>1, <2>2
    <3> QED
      BY <3>1 DEF AloneCtl, Scanned
  <2> QED
    BY <2>2, <2>4, <2>5
<1> QED
  BY <1>2, <1>3, <1>4 DEF Asks

(* Where a thread that coalesces, or is idle, can go.                       *)
Goes(t) == /\ pc(t) \in Coalescing => /\ pc(t)' \in Coalescing \cup {th[t].ret}
                                      /\ th'[t].larger = th[t].larger
           /\ Coalesce(t) \/ PutBack(t) => pc(t) \in Coalescing
           /\ pc(t) = "idle" => pc(t)' \in {"mark", "loop"}
           /\ pc(t) \in Coalescing \cup {"idle", "modify", "released"} \cup Asking
           /\ pc(t) = "modify" => BinsModified(t)
           /\ pc(t) = "released" => BlockReleased(t)

(* From each step of a thread.                                              *)
LEMMA Going ==
    ASSUME Local, NEW t \in Threads, Path(t), Work(t) \/ Call(t)
    PROVE  Goes(t)
<1> USE DEF Local, Rec, Fields, At, pc, Goto
<1>1. ASSUME \/ MarkMine(t) \/ MarkRight(t) \/ TryLeft(t) \/ LockLeft(t) \/ UndoLeft(t)
             \/ TryRight(t) \/ LockRight(t) \/ UndoRight(t)
      PROVE  pc(t) \in Coalescing /\ pc(t)' \in Coalescing /\ th'[t].larger = th[t].larger
  BY <1>1 DEF MarkMine, MarkRight, TryLeft, LockLeft, UndoLeft, TryRight, LockRight, UndoRight,
              GiveUp, Coalescing
<1>2. ASSUME \/ AwaitRight(t) \/ RemoveRight(t) \/ PeekNext(t) \/ UnpeekNext(t) \/ MarkUsed(t)
             \/ MarkRightUsed(t)
      PROVE  pc(t) \in Coalescing /\ pc(t)' \in Coalescing /\ th'[t].larger = th[t].larger
  BY <1>2 DEF AwaitRight, AwaitBin, RemoveRight, PeekNext, UnpeekNext, MarkUsed, MarkRightUsed,
              Coalescing
<1>3. ASSUME \/ Decide(t) \/ Unbin(t) \/ RemoveMine(t) \/ Add(t) \/ TryAdd(t) \/ Insert(t)
             \/ SetBit(t) \/ SetMeFree(t)
      PROVE  pc(t) \in Coalescing /\ pc(t)' \in Coalescing /\ th'[t].larger = th[t].larger
  <2>0. pc(t) \in {"unbin", "remove"} => th[t].goal \in {"requeue", "release", "add"}
    BY DEF Path
  <2> QED
    BY <1>3, <2>0 DEF Decide, Unbin, AwaitBin, RemoveMine, Add, TryAdd, Insert, SetBit, SetMeFree,
                Coalescing
<1>4. ASSUME PutInQueue(t) \/ ReleaseRegion(t) \/ SetLeftFree(t)
      PROVE  pc(t) \in Coalescing /\ pc(t)' \in {"mark", th[t].ret} /\ th'[t].larger = th[t].larger
  BY <1>4 DEF PutInQueue, ReleaseRegion, SetLeftFree, AfterBlock, Onward, Coalescing
<1>5. ASSUME Call(t) PROVE pc(t) = "idle" /\ pc(t)' \in {"mark", "loop"}
  <2>1. ASSUME NEW e \in used, PutBlock(t, e) PROVE pc(t) = "idle" /\ pc(t)' = "mark"
    BY <2>1 DEF PutBlock
  <2>2. ASSUME NEW q \in Requests, GetBlock(t, q)
        PROVE  pc(t) = "idle" /\ pc(t)' = Onward(queue, "loop")
    <3> HIDE DEF Onward
    <3> QED
      BY <2>2 DEF GetBlock, Resting
  <2> QED
    BY <1>5, <2>1, <2>2 DEF Call, Onward
<1>6. ASSUME Search(t) \/ Extend(t) PROVE pc(t) \in Asking
  BY <1>6 DEF Search, StartScan, NextBin, NoMoreBins, OpenBin, LockMe, LockSide, UnlockMe, Consume,
              NotThisOne, Skip, TakeInPlace, TakeWhole, SplitRight, SplitLeft, SplitDone,
              Extend, Miss, Cleaned, Observe, WaitTillBlockReleased, Check, ReturnNull, CleanCache,
              Asking, Scanning
<1>c. Coalesce(t) \/ PutBack(t) => pc(t) \in Coalescing
  BY <1>1, <1>2, <1>3, <1>4 DEF Coalesce, PutBack
<1>7. /\ BinsModified(t) => pc(t) = "modify"
      /\ BlockReleased(t) => pc(t) = "released"
  BY DEF BinsModified, BlockReleased
<1>8. /\ Coalescing \cap Asking = {}
      /\ \A p \in {"idle", "modify", "released"} : p \notin Coalescing /\ p \notin Asking
      /\ "mark" \in Coalescing
  BY DEF Coalescing, Asking, Scanning
<1>9. CASE Coalesce(t) \/ PutBack(t)
  <2>1. pc(t) \in Coalescing /\ pc(t)' \in Coalescing \cup {th[t].ret} /\ th'[t].larger = th[t].larger
    BY <1>9, <1>1, <1>2, <1>3, <1>4, <1>8 DEF Coalesce, PutBack
  <2> QED
    BY <2>1, <1>8 DEF Goes
<1>10. CASE Call(t)
  BY <1>10, <1>5, <1>8, <1>c DEF Goes
<1>11. CASE Search(t) \/ Extend(t)
  BY <1>11, <1>6, <1>8, <1>c DEF Goes
<1>12. CASE BinsModified(t) \/ BlockReleased(t)
  BY <1>12, <1>7, <1>8, <1>c DEF Goes
<1> QED
  BY <1>9, <1>10, <1>11, <1>12 DEF Work

(* What a scan has seen is told by the thread, the bins and the sizes.      *)
LEMMA SeenSame ==
    ASSUME NEW u \in Threads, th'[u] = th[u], bins' = bins, myL' = myL, Seen(u)
    PROVE  Seen(u)'
<1>1. pc(u)' = pc(u) /\ Ended(u)' = Ended(u) /\ Passed(u)' = Passed(u) /\ Looked(u)' = Looked(u)
  BY DEF pc, Ended, Passed, Rank, Tried, Looked
<1>2. \A p : Useless(u, p)' = Useless(u, p)
  BY DEF Useless
<1>3. \A b : Elements(bins[b])' = Elements(bins[b])
  BY DEF Elements
<1> QED
  BY <1>1, <1>2, <1>3 DEF Seen

(* A thread without a request is idle or returns a block.                   *)
LEMMA Bystander ==
    ASSUME Inv, NEW t \in Threads, th[t].req = NoReq, ReturnCtl(t)
    PROVE  /\ pc(t) \notin Asking /\ th[t].got = NoExt /\ th[t].back = "idle"
           /\ pc(t) \in Coalescing => th[t].ret = "modify"
<1>1. th[t].req = NoReq
  OBVIOUS
<1>2. NoReq \notin Requests
  BY BlocksAssumption DEF NoReq
<1>3. Ctl(t) /\ Path(t)
  BY DEF Inv, IInv, CtlOK
<1>4. pc(t) \notin Asking /\ th[t].got = NoExt /\ th[t].back = "idle" /\ th[t].ret \notin {"loop", "soft"}
  BY <1>1, <1>2, <1>3 DEF Ctl, ReqCtl
<1>5. ASSUME pc(t) \in Coalescing PROVE th[t].ret = "modify"
  <2>1. th[t].ret # "idle" /\ th[t].ret \in {"idle", "loop", "soft", "modify", "split"}
    BY <1>3, <1>5 DEF ReturnCtl, Path
  <2>2. th[t].ret # "split"
    BY <1>3, <1>4, <1>5 DEF Ctl, GotCtl, Giving
  <2> QED
    BY <1>4, <2>1, <2>2
<1> QED
  BY <1>4, <1>5

(* Other threads either tell that they modified the bins, or are still busy,*)
(* or leave everything that a scan has seen as it is.                       *)
LEMMA OthersScan ==
    ASSUME Inv, ScanInv, NEW t \in Threads, NEW u \in Threads, t # u, Mine(t),
           Work(t) \/ Call(t)
    PROVE  ScanCtl(u)'
<1> SUFFICES ASSUME Calm(u)' PROVE Seen(u)'
  BY DEF ScanCtl
<1>0. /\ IInv /\ Local /\ Path(t) /\ ReturnCtl(t)
      /\ asked \in [Threads -> BOOLEAN] /\ \A v \in Threads : AloneCtl(v)
  BY DEF Inv, ScanInv
<1>1. Goes(t) /\ Asks(t)
  BY <1>0, Going, Returns
<1>2. th'[u] = th[u] /\ \A v \in Threads \ {t} : pc(v)' = pc(v)
  BY DEF Mine, pc
<1>3. /\ Scanned(u) /\ ~asked'[u] /\ ~modified'[u] /\ pc(t)' \in {"idle", "released"}
  BY <1>2 DEF Calm, Scanned, pc
<1>4. th[t].req = NoReq
  <2>1. ~asked[u]
    <3>1. CASE StartScan(t)
      BY <1>0, <1>3, <3>1 DEF StartScan
    <3>2. CASE \E q \in Requests : GetBlock(t, q)
      BY <1>3, <3>2 DEF GetBlock
    <3> QED
      BY <1>1, <1>3, <3>1, <3>2 DEF Asks
  <2> QED
    BY <1>0, <1>3, <2>1 DEF AloneCtl
<1>5. /\ pc(t) \notin Asking /\ th[t].got = NoExt
      /\ pc(t) \in Coalescing => th[t].ret = "modify"
  BY <1>0, <1>4, Bystander
<1>6. pc(t) \notin Coalescing /\ pc(t) # "idle"
  BY <1>1, <1>3, <1>5 DEF Goes, Coalescing
<1>7. ~BinsModified(t)
  BY <1>3 DEF BinsModified
<1>8. pc(t) = "released" /\ BlockReleased(t)
  BY <1>1, <1>5, <1>6, <1>7 DEF Goes
<1>9. myL' = myL /\ bins' = bins /\ modified' = modified /\ asked' = asked
  BY <1>5, <1>8 DEF BlockReleased, words, binned
<1>10. Calm(u)
  BY <1>2, <1>3, <1>4, <1>8, <1>9 DEF Calm
<1>11. Seen(u)
  BY <1>10 DEF ScanInv, ScanCtl
<1> QED
  BY <1>2, <1>9, <1>11, SeenSame
(* Steps of a search by which a thread goes on with a scan, or with waiting *)
(* after it; after any other step there is nothing that it has seen.        *)
Scans(t) == \/ StartScan(t) \/ NextBin(t) \/ NoMoreBins(t) \/ OpenBin(t) \/ LockMe(t) \/ LockSide(t)
            \/ UnlockMe(t) \/ Consume(t) \/ NotThisOne(t) \/ Skip(t)
Waits(t) == \/ Miss(t) \/ Cleaned(t) \/ Observe(t) \/ WaitTillBlockReleased(t) \/ Check(t)
Blank(t) == pc(t) \notin Seeking /\ ~Ended(t)

(* There is nothing to know then.                                           *)
LEMMA BlankSees == ASSUME NEW t \in Threads, Blank(t)' PROVE Seen(t)'
  BY DEF Blank, Seen, Passed, Seeking, Scanning

(* After any other step than those.                                         *)
LEMMA Blanks ==
    ASSUME Inv, NEW t \in Threads, ReturnCtl(t), Work(t) \/ Call(t), ~Scans(t), ~Waits(t)
    PROVE  Blank(t)'
<1>0. Local /\ Path(t)
  BY DEF Inv
<1>1. Goes(t)
  BY <1>0, Going
<1> USE DEF Local, Rec, Fields, At, pc, Goto
<1>2. \A p \in Coalescing \cup {"idle", "loop", "modify", "split", "released"} :
          p \notin Seeking /\ p \notin Asking \ (Seeking \cup {"loop", "split"})
  BY DEF Coalescing, Seeking, Asking, Scanning
<1>3. ASSUME pc(t)' \in Coalescing \cup {"idle", "loop", "modify", "split", "released"} PROVE Blank(t)'
  BY <1>2, <1>3 DEF Blank, Ended
<1>4. ASSUME pc(t)' \in {"soft", "hard"}, th'[t].larger PROVE Blank(t)'
  BY <1>4 DEF Blank, Ended, Seeking, Scanning
<1>5. CASE pc(t) \in Coalescing
  <2>1. pc(t)' \in Coalescing \cup {th[t].ret} /\ th[t].ret \in {"idle", "loop", "soft", "modify", "split"}
    BY <1>0, <1>1, <1>5 DEF Goes, Path
  <2>2. CASE pc(t)' = "soft"
    <3>1. th[t].larger /\ th'[t].larger = th[t].larger
      BY <1>1, <1>5, <2>1, <2>2 DEF ReturnCtl, Goes, Coalescing
    <3> QED
      BY <1>4, <2>2, <3>1
  <2> QED
    BY <1>3, <2>1, <2>2
<1>6. CASE Call(t)
  <2>1. pc(t)' \in {"mark", "loop"}
    BY <1>1, <1>6 DEF Call, PutBlock, GetBlock, Goes
  <2> QED
    BY <1>3, <2>1 DEF Coalescing
<1>7. CASE BinsModified(t)
  BY <1>0, <1>3, <1>7 DEF BinsModified
<1>8. CASE BlockReleased(t)
  <2>1. CASE th[t].got = NoExt
    <3>1. th' = [th EXCEPT ![t].pc = th[t].back, ![t].ret = "idle", ![t].back = "idle"]
      BY <1>8, <2>1 DEF BlockReleased
    <3>2. pc(t)' = th[t].back /\ th'[t].larger = th[t].larger /\ th[t].back \in {"idle", "soft", "hard"}
      BY <1>0, <3>1 DEF Path
    <3>3. th[t].back # "idle" => th[t].larger
      BY DEF ReturnCtl
    <3> QED
      BY <1>3, <1>4, <3>2, <3>3
  <2>2. CASE th[t].got # NoExt
    <3>1. th' = [th EXCEPT ![t] = Resting]
      BY <1>8, <2>2 DEF BlockReleased
    <3>2. pc(t)' = "idle"
      BY <1>0, <3>1 DEF Resting
    <3> QED
      BY <1>3, <3>2
  <2> QED
    BY <2>1, <2>2
<1>9. CASE TakeInPlace(t) \/ TakeWhole(t) \/ SplitDone(t)
  <2>1. pc(t)' \in {"modify", "split"}
    BY <1>0, <1>9 DEF TakeInPlace, TakeWhole, SplitDone
  <2> QED
    BY <1>3, <2>1
<1>10. CASE SplitRight(t) \/ SplitLeft(t)
  <2>1. pc(t)' = "mark"
    BY <1>0, <1>10 DEF SplitRight, SplitLeft, GiveBack
  <2> QED
    BY <1>3, <2>1 DEF Coalescing
<1>11. CASE ReturnNull(t)
  <2>1. pc(t)' = "idle"
    BY <1>0, <1>11 DEF ReturnNull, Resting
  <2> QED
    BY <1>3, <2>1
<1>12. CASE \E e \in used : CleanCache(t, e)
  <2>1. pc(t)' = "mark"
    BY <1>0, <1>12 DEF CleanCache
  <2> QED
    BY <1>3, <2>1 DEF Coalescing
<1> HIDE DEF Blank, At, pc, Goto
<1> QED
  BY <1>1, <1>5, <1>6, <1>7, <1>8, <1>9, <1>10, <1>11, <1>12
     DEF Work, Goes, Search, Extend, Scans, Waits
(* No other bin has the rank of a bin.                                      *)
LEMMA RankOnce ==
    ASSUME NEW t \in Threads, th[t].req \in Requests, NEW b \in Bins, NEW c \in Bins
    PROVE  /\ Rank(t, b) \in Nat /\ Rank(t, b) > 0
           /\ Rank(t, b) = Rank(t, c) => b = c
<1>1. HugeBin \in Nat \ {0}
  BY BlocksAssumption
<1>2. /\ b[1] \in BOOLEAN /\ b[2] \in 1 .. HugeBin /\ b = <<b[1], b[2]>>
      /\ c[1] \in BOOLEAN /\ c[2] \in 1 .. HugeBin /\ c = <<c[1], c[2]>>
  BY DEF Bins
<1>3. Rank(t, b) \in Nat /\ Rank(t, b) > 0
  BY <1>1, <1>2 DEF Rank
<1>4. ASSUME Rank(t, b) = Rank(t, c) PROVE b = c
  <2>1. (b[1] = th[t].req.aligned) <=> (c[1] = th[t].req.aligned)
    BY <1>1, <1>2, <1>4 DEF Rank
  <2>2. b[2] = c[2]
    BY <1>1, <1>2, <1>4, <2>1 DEF Rank
  <2>3. th[t].req.aligned \in BOOLEAN
    BY BlocksAssumption
  <2>4. b[1] = c[1]
    BY <1>2, <2>1, <2>3
  <2> QED
    BY <1>2, <2>2, <2>4
<1> QED
  BY <1>3, <1>4

(* A block that is smaller than the request does not serve it, whatever the *)
(* class of its size is.                                                    *)
LEMMA TooSmall ==
    ASSUME Inv, NEW t \in Threads, th[t].req \in Requests, NEW c \in Aligned,
           ~(c[2] >= Class(Total(t))), NEW p \in Elements(bins[c])
    PROVE  Useless(t, p)
<1> SUFFICES ASSUME myL[p] > EndMark, Serves(<<p, myL[p]>>, th[t].req) PROVE FALSE
  BY DEF Useless
<1>1. c \in Bins /\ c[1] /\ p \in Units /\ myL[p] \in Int
  <2>1. c \in Bins /\ c[1]
    BY DEF Aligned
  <2>2. bins[c] \in Seq(Units) /\ myL \in [Units -> Int]
    BY <2>1 DEF Inv, IInv, BinsInv, BinTypes, LedgerOK, Ledger
  <2> QED
    BY <2>1, <2>2 DEF Elements
<1>2. c = BinOf(<<p, myL[p]>>)
  <2>1. PICK i \in DOMAIN bins[c] : p = bins[c][i]
    BY DEF Elements
  <2> QED
    BY <1>1, <2>1, BinsHold DEF BinsDisjoint
<1>3. c[2] = Class(myL[p])
  BY <1>1, <1>2 DEF BinOf, NoBin
<1>4. Total(t) \in Nat /\ Total(t) > 0
  BY TotalType
<1>5. Total(t) <= myL[p]
  <2>1. p + Total(t) <= p + myL[p]
    BY <1>1, <1>2 DEF Serves, Total, End
  <2>2. p \in Nat
    BY <1>1, UnitsNat
  <2> QED
    BY <1>1, <1>4, <2>1, <2>2
<1>6. MinBinned \in Nat \ {0} /\ HugeBin \in Nat \ {0}
  BY BlocksAssumption
<1> QED
  BY <1>1, <1>3, <1>4, <1>5, <1>6 DEF Class

(* A bin whose bit is not set while no thread fills it is empty.            *)
LEMMA UntriedUseless ==
    ASSUME Inv, NEW t \in Threads, th[t].req \in Requests, Calm(t), pc(t) # "setBit",
           NEW c \in Aligned, ~(bit[c] /\ c[2] >= Class(Total(t)))
    PROVE  \A p \in Elements(bins[c]) : Useless(t, p)
<1>1. CASE ~bit[c]
  <2>1. bins[c] = <<>>
    <3>1. \A u \in Threads : pc(u) # "setBit"
      BY DEF Calm
    <3> QED
      BY <1>1, <3>1 DEF Inv, IInv, BinsInv, MaskCovers, At, pc, Aligned
  <2> QED
    BY <2>1 DEF Elements
<1>2. CASE ~(c[2] >= Class(Total(t)))
  BY <1>2, TooSmall
<1> QED
  BY <1>1, <1>2

(* While no free block appears, but the one that the scan is at, what the   *)
(* bins list stays useless.                                                 *)
LEMMA UselessStays ==
    ASSUME NEW t \in Threads, th'[t].req = th[t].req, NEW p, Useless(t, p),
           myL'[p] = myL[p] \/ ~(myL'[p] > EndMark)
    PROVE  Useless(t, p)'
  BY DEF Useless, Serves

(* From the miss on, the same as long as no block is free that was not.     *)
LEMMA EndedStays ==
    ASSUME NEW t \in Threads, Ended(t), Seen(t), Ended(t)', th'[t].req = th[t].req,
           th'[t].full = th[t].full, myL' = myL, bins' = bins
    PROVE  Seen(t)'
<1>1. pc(t) \notin Seeking /\ pc(t)' \notin Seeking /\ Passed(t) = Aligned /\ Passed(t)' = Aligned
  BY DEF Ended, Passed, Aligned, Seeking, Asking, Scanning
<1>2. \A b : Elements(bins[b])' = Elements(bins[b])
  BY DEF Elements
<1>3. \A p : Useless(t, p) => Useless(t, p)'
  BY DEF Useless, Serves
<1>4. th'[t].full = 0
  BY DEF Seen
<1>5. ASSUME NEW b \in Passed(t)', NEW p \in Elements(bins[b])' PROVE Useless(t, p)'
  BY <1>1, <1>2, <1>3, <1>5 DEF Seen
<1>6. pc(t)' \notin Scanning
  BY <1>1 DEF Seeking
<1>7. "skip" \in Scanning
  BY DEF Scanning
<1> QED
  BY <1>4, <1>5, <1>6, <1>7 DEF Seen
(* A scan that begins has seen nothing.                                     *)
LEMMA ScanBegins ==
    ASSUME NEW t \in Threads, th[t].req \in Requests, th'[t].req = th[t].req,
           pc(t)' = "scan", th'[t].bin = NoBin, th'[t].full = 0
    PROVE  Seen(t)'
<1>1. \A b \in Aligned : Rank(t, b)' > 0
  <2> TAKE b \in Aligned
  <2>1. Rank(t, b) > 0
    BY RankOnce DEF Aligned
  <2> QED
    BY <2>1 DEF Rank
<1>2. Tried(t)' = 0
  BY DEF Tried
<1>3. Passed(t)' = {}
  <2>1. Passed(t)' = {b \in Aligned : Rank(t, b)' < 0 \/ Rank(t, b)' = 0}
    BY <1>2 DEF Passed, Seeking, Aligned
  <2>2. \A b \in Aligned : Rank(t, b)' \in Nat
    <3> TAKE b \in Aligned
    <3>1. Rank(t, b) \in Nat
      BY RankOnce DEF Aligned
    <3> QED
      BY <3>1 DEF Rank
  <2> QED
    BY <1>1, <2>1, <2>2
<1> QED
  BY <1>3 DEF Seen, Scanning

(* A scan that goes on from a bin: what it has passed remains useless, and  *)
(* so is what it passes now.                                                *)
LEMMA ScanMoves ==
    ASSUME NEW t \in Threads, Seen(t), pc(t) \in Seeking, pc(t)' \in {"scan", "bin", "miss"},
           th'[t].full = th[t].full, th'[t].req = th[t].req, bins' = bins,
           \A b \in Passed(t) : \A p \in Elements(bins[b]) : myL'[p] = myL[p],
           \A b \in Passed(t)' : \/ b \in Passed(t)
                                 \/ /\ \A p \in Elements(bins[b]) : Useless(t, p)
                                    /\ myL' = myL
    PROVE  Seen(t)'
<1>1. th'[t].full = 0
  BY DEF Seen
<1>2. \A b : Elements(bins[b])' = Elements(bins[b])
  BY DEF Elements
<1>3. \A b \in Passed(t)' : \A p \in Elements(bins[b])' : Useless(t, p)'
  <2> SUFFICES ASSUME NEW b \in Passed(t)', NEW p \in Elements(bins[b]) PROVE Useless(t, p)'
    BY <1>2
  <2>1. Useless(t, p) /\ myL'[p] = myL[p]
    BY DEF Seen
  <2> QED
    BY <2>1, UselessStays
<1>4. pc(t)' \notin Scanning /\ pc(t)' # "skip"
  BY DEF Scanning
<1> QED
  BY <1>1, <1>3, <1>4 DEF Seen

(* A thread that scans has a request, and the bins it has passed have lower *)
(* ranks than its own.                                                      *)
LEMMA Seeker ==
    ASSUME Inv, ScanInv, NEW t \in Threads, Calm(t), pc(t) \in Seeking
    PROVE  /\ th[t].req \in Requests /\ Seen(t) /\ Tried(t) \in Nat
           /\ pc(t) # "scan" => /\ th[t].bin \in Bins /\ th[t].bin # NoBin
                                /\ Tried(t) = Rank(t, th[t].bin)
                                /\ Passed(t) = {b \in Aligned : Rank(t, b) < Rank(t, th[t].bin)}
           /\ pc(t) = "scan" => Passed(t) = {b \in Aligned : Rank(t, b) <= Tried(t)}
<1>1. Ctl(t) /\ Seeking \subseteq Asking
  BY DEF Inv, IInv, CtlOK, Seeking, Asking, Scanning
<1>2. th[t].req \in Requests
  BY <1>1 DEF Ctl, ReqCtl
<1>3. Seen(t)
  BY DEF ScanInv, ScanCtl
<1>4. th[t].bin \in Bins \cup {NoBin} /\ (pc(t) # "scan" => th[t].bin \in Bins)
  BY <1>1 DEF Ctl, BinCtl, Seeking
<1>5. NoBin \notin Bins
  BY DEF NoBin, Bins
<1>6. Tried(t) \in Nat /\ (pc(t) # "scan" => Tried(t) = Rank(t, th[t].bin))
  BY <1>2, <1>4, <1>5, RankOnce DEF Tried
<1>7. \A b \in Aligned : Rank(t, b) \in Nat
  BY <1>2, RankOnce DEF Aligned
<1>8. pc(t) # "scan" => Passed(t) = {b \in Aligned : Rank(t, b) < Rank(t, th[t].bin)}
  BY <1>6 DEF Passed
<1>9. pc(t) = "scan" => Passed(t) = {b \in Aligned : Rank(t, b) <= Tried(t)}
  <2> HAVE pc(t) = "scan"
  <2>1. Passed(t) = {b \in Aligned : Rank(t, b) < Tried(t) \/ Rank(t, b) = Tried(t)}
    BY DEF Passed
  <2> QED
    BY <1>6, <1>7, <2>1
<1> QED
  BY <1>2, <1>3, <1>4, <1>5, <1>6, <1>8, <1>9

(* A thread at a step of a scan other than the first was calm before.       *)
LEMMA CalmBefore ==
    ASSUME NEW t \in Threads, Mine(t), Calm(t)', asked' = asked, modified' = modified,
           th'[t].req = th[t].req, pc(t) \notin Coalescing \cup {"loop"}
    PROVE  Calm(t)
  BY DEF Calm, Scanned, Mine, pc
(* The steps of a scan, and of waiting after it, leave the bins as they are.*)
LEMMA ScanFrame ==
    ASSUME Local, NEW t \in Threads, Scans(t) \/ Waits(t)
    PROVE  /\ th'[t].req = th[t].req /\ bins' = bins
           /\ ~StartScan(t) => /\ modified' = modified /\ asked' = asked
                               /\ pc(t) \notin Coalescing \cup {"loop"}
<1> USE DEF Local, Rec, Fields, At, pc, Goto, binned, counters, heap, Asking, Scanning
<1> DEFINE P == th'[t].req = th[t].req /\ bins' = bins
           R == modified' = modified /\ asked' = asked /\ pc(t) \in Asking \ {"loop"}
           Q == P /\ R
<1>1. ASSUME StartScan(t) PROVE P
  BY <1>1 DEF StartScan
<1>2. ASSUME NextBin(t) \/ NoMoreBins(t) \/ OpenBin(t) PROVE Q
  <2>1. CASE NextBin(t)
    BY <2>1 DEF NextBin
  <2>2. CASE NoMoreBins(t)
    <3>1. \/ th' = [th EXCEPT ![t].bin = NoBin, ![t].full = 0]
          \/ th' = [th EXCEPT ![t].pc = "miss"]
      BY <2>2 DEF NoMoreBins
    <3>2. th'[t].req = th[t].req
      BY <3>1
    <3> QED
      BY <2>2, <3>2 DEF NoMoreBins
  <2>3. CASE OpenBin(t)
    BY <2>3 DEF OpenBin
  <2> QED
    BY <1>2, <2>1, <2>2, <2>3
<1>3. ASSUME LockMe(t) \/ LockSide(t) \/ UnlockMe(t) PROVE Q
  BY <1>3 DEF LockMe, LockSide, UnlockMe
<1>4. ASSUME Consume(t) \/ NotThisOne(t) PROVE Q
  BY <1>4 DEF Consume, NotThisOne
<1>5. ASSUME Skip(t) PROVE Q
  <2> DEFINE b == bins[th[t].bin]
             i == CHOOSE j \in DOMAIN b : b[j] = th[t].cur
  <2>1. \/ th' = [th EXCEPT ![t].pc = "scan", ![t].cur = 0, ![t].tmp = 0]
        \/ th' = [th EXCEPT ![t].pc = "lockMe", ![t].cur = b[i + 1], ![t].tmp = 0]
    BY <1>5 DEF Skip
  <2>2. bins' = bins /\ R
    BY <1>5 DEF Skip
  <2> QED
    BY <2>1, <2>2
<1>6. ASSUME Miss(t) PROVE Q
  <2>1. th' = [th EXCEPT ![t].pc = Onward(queue, "soft"), ![t].list = queue, ![t].ret = "soft",
                         ![t].force = TRUE, ![t].larger = queue # <<>>, ![t].bin = NoBin]
    BY <1>6 DEF Miss
  <2>2. bins' = bins /\ R
    BY <1>6 DEF Miss
  <2>3. th'[t].req = th[t].req
    BY <2>1
  <2> QED
    BY <2>2, <2>3
<1>7. ASSUME Cleaned(t) \/ Observe(t) \/ Check(t) PROVE Q
  BY <1>7 DEF Cleaned, Observe, Check
<1>8. ASSUME WaitTillBlockReleased(t) PROVE Q
  BY <1>8 DEF WaitTillBlockReleased
<1>9. Asking \cap Coalescing = {}
  BY DEF Coalescing
<1> QED
  BY <1>1, <1>2, <1>3, <1>4, <1>5, <1>6, <1>7, <1>8, <1>9 DEF Scans, Waits

(* The bins between the last one and the next have nothing that serves.     *)
LEMMA NextBinSees ==
    ASSUME Inv, ScanInv, NEW t \in Threads, NextBin(t), Calm(t)
    PROVE  Seen(t)'
<1>0. Local /\ pc(t) = "scan" /\ bins' = bins /\ myL' = myL
  BY DEF Inv, NextBin, At, pc, words, binned
<1>1. /\ th[t].req \in Requests /\ Seen(t) /\ Tried(t) \in Nat
      /\ Passed(t) = {b \in Aligned : Rank(t, b) <= Tried(t)}
  BY <1>0, Seeker DEF Seeking
<1>2. PICK b \in ToTry(t) : /\ \A c \in ToTry(t) : Rank(t, b) <= Rank(t, c)
                            /\ th' = [th EXCEPT ![t].pc = "bin", ![t].bin = b]
  BY DEF NextBin
<1>3. /\ pc(t)' = "bin" /\ th'[t].bin = b /\ th'[t].full = th[t].full /\ th'[t].req = th[t].req
  BY <1>0, <1>2 DEF Local, Rec, Fields, pc
<1>4. b \in Bins /\ b # NoBin
  <2>1. b \in Bins
    BY DEF ToTry
  <2>2. NoBin \notin Bins
    BY DEF Bins, NoBin
  <2> QED
    BY <2>1, <2>2
<1>5. Passed(t)' = {c \in Aligned : Rank(t, c) < Rank(t, b)}
  BY <1>3, <1>4 DEF Passed, Tried, Rank, Seeking
<1>6. ASSUME NEW c \in Passed(t)', c \notin Passed(t)
      PROVE  \A p \in Elements(bins[c]) : Useless(t, p)
  <2>1. c \in Aligned /\ Rank(t, c) < Rank(t, b) /\ ~(Rank(t, c) <= Tried(t))
    BY <1>1, <1>5, <1>6
  <2>2. Rank(t, c) \in Nat /\ Rank(t, b) \in Nat
    BY <1>1, <1>4, <2>1, RankOnce DEF Aligned
  <2>3. c \notin ToTry(t)
    BY <1>2, <2>1, <2>2
  <2>4. ~(bit[c] /\ c[2] >= Class(Total(t)))
    BY <1>1, <2>1, <2>2, <2>3 DEF ToTry, Aligned
  <2> QED
    BY <1>0, <1>1, <2>1, <2>4, UntriedUseless
<1>7. pc(t) \in Seeking /\ pc(t)' \in {"scan", "bin", "miss"}
  BY <1>0, <1>3 DEF Seeking
<1> HIDE DEF Seen
<1> QED
  BY <1>0, <1>1, <1>3, <1>6, <1>7, ScanMoves

(* No bin is left: neither are aligned blocks that serve.                   *)
LEMMA NoMoreBinsSees ==
    ASSUME Inv, ScanInv, NEW t \in Threads, NoMoreBins(t), Calm(t)
    PROVE  Seen(t)'
<1>0. Local /\ pc(t) = "scan" /\ bins' = bins /\ myL' = myL /\ ToTry(t) = {}
  BY DEF Inv, NoMoreBins, At, pc, words, binned
<1>1. /\ th[t].req \in Requests /\ Seen(t) /\ Tried(t) \in Nat
      /\ Passed(t) = {b \in Aligned : Rank(t, b) <= Tried(t)}
  BY <1>0, Seeker DEF Seeking
<1>2. CASE th[t].full > th[t].threshold
  <2>1. pc(t)' = "scan" /\ th'[t].bin = NoBin /\ th'[t].full = 0 /\ th'[t].req = th[t].req
    <3>1. th' = [th EXCEPT ![t].bin = NoBin, ![t].full = 0]
      BY <1>2 DEF NoMoreBins
    <3> QED
      BY <1>0, <3>1 DEF Local, Rec, Fields, pc
  <2> QED
    BY <1>1, <2>1, ScanBegins
<1>3. CASE ~(th[t].full > th[t].threshold)
  <2>1. pc(t)' = "miss" /\ th'[t].full = th[t].full /\ th'[t].req = th[t].req
    BY <1>0, <1>3 DEF NoMoreBins, Goto, Local, Rec, Fields, pc
  <2>2. ASSUME NEW c \in Passed(t)', c \notin Passed(t)
        PROVE  \A p \in Elements(bins[c]) : Useless(t, p)
    <3>1. c \in Aligned
      BY <2>2 DEF Passed, Aligned
    <3>2. ~(Rank(t, c) <= Tried(t)) /\ Rank(t, c) \in Nat
      BY <1>1, <2>2, <3>1, RankOnce DEF Aligned
    <3>3. ~(bit[c] /\ c[2] >= Class(Total(t)))
      BY <1>0, <1>1, <3>1, <3>2 DEF ToTry, Aligned
    <3> QED
      BY <1>0, <1>1, <3>1, <3>3, UntriedUseless
  <2>3. pc(t) \in Seeking /\ pc(t)' \in {"scan", "bin", "miss"}
    BY <1>0, <2>1 DEF Seeking
  <2> HIDE DEF Seen
  <2> QED
    BY <1>0, <1>1, <2>1, <2>2, <2>3, ScanMoves
<1> QED
  BY <1>2, <1>3
(* The block that a scan is at is in no bin that it has passed, and comes   *)
(* after those that it has passed in its own.                               *)
LEMMA CurrentIsNew ==
    ASSUME Inv, ScanInv, NEW t \in Threads, Calm(t), pc(t) \in Scanning
    PROVE  /\ th[t].cur \in Units /\ th[t].bin \in Bins /\ bins[th[t].bin] \in Seq(Units)
           /\ Distinct(bins[th[t].bin]) /\ th[t].cur \in Elements(bins[th[t].bin])
           /\ \A b \in Passed(t) : \A p \in Elements(bins[b]) : p \in Units /\ p # th[t].cur
           /\ \A i \in Looked(t) : bins[th[t].bin][i] \in Units /\ bins[th[t].bin][i] # th[t].cur
<1>0. LedgerOK /\ BinsInv /\ Ctl(t) /\ pc(t) \in Seeking /\ pc(t) # "scan"
  BY DEF Inv, IInv, CtlOK, Seeking, Scanning
<1>1. /\ th[t].bin \in Bins /\ th[t].cur \in Elements(bins[th[t].bin])
      /\ th[t].cur \in Units /\ myBin[th[t].cur] = th[t].bin
  BY <1>0, OwnBin
<1>2. \A b \in Bins : bins[b] \in Seq(Units) /\ Distinct(bins[b])
  BY <1>0 DEF BinsInv, BinTypes
<1>3. ASSUME NEW b \in Passed(t), NEW p \in Elements(bins[b]) PROVE p \in Units /\ p # th[t].cur
  <2>1. /\ b \in Aligned /\ Rank(t, b) < Rank(t, th[t].bin) /\ th[t].req \in Requests
    BY <1>0, <1>3, Seeker
  <2>2. b \in Bins /\ b # th[t].bin
    <3>1. b \in Bins
      BY <2>1 DEF Aligned
    <3>2. Rank(t, b) \in Nat
      BY <2>1, <3>1, RankOnce
    <3> QED
      BY <2>1, <3>1, <3>2
  <2>3. p \in Units
    BY <1>2, <1>3, <2>2 DEF Elements
  <2>4. myBin[p] = b
    BY <1>0, <1>3, <2>2 DEF BinsInv, BinMembers
  <2> QED
    BY <1>1, <2>2, <2>3, <2>4
<1>4. ASSUME NEW i \in Looked(t)
      PROVE  bins[th[t].bin][i] \in Units /\ bins[th[t].bin][i] # th[t].cur
  <2>1. i \in DOMAIN bins[th[t].bin]
    BY DEF Looked
  <2>2. PICK j \in DOMAIN bins[th[t].bin] : bins[th[t].bin][j] = th[t].cur /\ i < j
    BY DEF Looked
  <2>3. i # j
    BY <1>1, <1>2, <2>1, <2>2
  <2> QED
    BY <1>1, <1>2, <2>1, <2>2, <2>3 DEF Distinct
<1> QED
  BY <1>1, <1>2, <1>3, <1>4

(* While a scan is at a block, nothing but the word of that block changes.  *)
LEMMA ScanStays ==
    ASSUME Inv, ScanInv, NEW t \in Threads, Calm(t), pc(t) \in Scanning, pc(t)' \in Scanning,
           th'[t].bin = th[t].bin, th'[t].cur = th[t].cur, th'[t].req = th[t].req,
           th'[t].full = th[t].full, bins' = bins,
           \A p \in Units : p # th[t].cur => myL'[p] = myL[p],
           pc(t)' = "skip" /\ th[t].bin[1] => Useless(t, th[t].cur)'
    PROVE  Seen(t)'
<1>0. pc(t) \in Seeking /\ pc(t)' \in Seeking /\ pc(t) # "scan" /\ pc(t)' # "scan"
  BY DEF Seeking, Scanning
<1>1. Seen(t)
  BY <1>0, Seeker
<1>2. Passed(t)' = Passed(t)
  BY <1>0 DEF Passed, Rank, Tried
<1>3. Looked(t)' = Looked(t)
  BY DEF Looked
<1>4. \A b : Elements(bins[b])' = Elements(bins[b])
  BY DEF Elements
<1>5. ASSUME NEW b \in Passed(t)', NEW p \in Elements(bins[b])' PROVE Useless(t, p)'
  <2>1. b \in Passed(t) /\ p \in Elements(bins[b])
    BY <1>2, <1>4, <1>5
  <2>2. Useless(t, p)
    BY <1>1, <2>1 DEF Seen
  <2>3. myL'[p] = myL[p]
    BY <2>1, CurrentIsNew
  <2> QED
    BY <2>2, <2>3, UselessStays
<1>6. ASSUME th'[t].bin[1], NEW i \in Looked(t)' PROVE Useless(t, bins[th[t].bin][i])'
  <2>1. i \in Looked(t) /\ th[t].bin[1]
    BY <1>3, <1>6
  <2>2. Useless(t, bins[th[t].bin][i])
    BY <1>1, <2>1 DEF Seen
  <2>3. myL'[bins[th[t].bin][i]] = myL[bins[th[t].bin][i]]
    BY <2>1, CurrentIsNew
  <2> DEFINE p == bins[th[t].bin][i]
  <2>4. (bins[th[t].bin][i])' = p
    OBVIOUS
  <2>5. Useless(t, p)'
    BY <2>2, <2>3 DEF Useless, Serves
  <2> QED
    BY <2>5
<1>7. th'[t].full = 0
  BY <1>0, <1>1 DEF Seen
<1> QED
  BY <1>5, <1>6, <1>7 DEF Seen
(* A bin is locked by nobody while the thread that opens it is alone.       *)
LEMMA OpenBinSees ==
    ASSUME Inv, ScanInv, NEW t \in Threads, OpenBin(t), Calm(t)
    PROVE  Seen(t)'
<1>0. Local /\ pc(t) = "bin" /\ bins' = bins /\ myL' = myL /\ pc(t) \in Seeking
  BY DEF Inv, OpenBin, At, pc, words, Seeking
<1>1. /\ th[t].req \in Requests /\ Seen(t) /\ th[t].bin \in Bins /\ th[t].bin # NoBin
      /\ Tried(t) = Rank(t, th[t].bin)
      /\ Passed(t) = {b \in Aligned : Rank(t, b) < Rank(t, th[t].bin)}
  BY <1>0, Seeker
<1>2. /\ bins[th[t].bin] \in Seq(Units) /\ Distinct(bins[th[t].bin])
      /\ tLock \in [Bins -> Threads \cup {NoThread}]
  BY <1>1 DEF Inv, IInv, BinsInv, BinTypes
<1>3. tLock[th[t].bin] = NoThread
  <2> SUFFICES ASSUME NEW u \in Threads, tLock[th[t].bin] = u PROVE FALSE
    BY <1>1, <1>2
  <2>1. pc(u) \in Locking
    BY <1>1 DEF ScanInv, LockCtl
  <2> QED
    BY <1>0, <2>1 DEF Calm, Locking, Scanning
<1>4. CASE bins[th[t].bin] = <<>>
  <2>1. th' = [th EXCEPT ![t].pc = "scan"]
    BY <1>4 DEF OpenBin, Goto
  <2>2. pc(t)' = "scan" /\ th'[t].bin = th[t].bin /\ th'[t].full = th[t].full /\ th'[t].req = th[t].req
    BY <1>0, <2>1 DEF Local, Rec, Fields, pc
  <2>3. ASSUME NEW c \in Passed(t)', c \notin Passed(t)
        PROVE  \A p \in Elements(bins[c]) : Useless(t, p)
    <3>1. c \in Aligned /\ (Rank(t, c) < Rank(t, th[t].bin) \/ Rank(t, c) = Rank(t, th[t].bin))
      BY <1>1, <2>2, <2>3 DEF Passed, Tried, Rank, Seeking, Aligned
    <3>2. c = th[t].bin
      BY <1>1, <2>3, <3>1, RankOnce DEF Aligned
    <3> QED
      BY <1>4, <3>2 DEF Elements
  <2> HIDE DEF Seen
  <2> QED
    BY <1>0, <1>1, <2>2, <2>3, ScanMoves
<1>5. CASE bins[th[t].bin] # <<>>
  <2>1. th' = [th EXCEPT ![t].pc = "lockMe", ![t].cur = Head(bins[th[t].bin])]
    BY <1>3, <1>5 DEF OpenBin
  <2>2. /\ pc(t)' = "lockMe" /\ th'[t].bin = th[t].bin /\ th'[t].full = th[t].full
        /\ th'[t].req = th[t].req /\ th'[t].cur = Head(bins[th[t].bin])
    BY <1>0, <2>1 DEF Local, Rec, Fields, pc
  <2>3. Passed(t)' = Passed(t)
    BY <1>0, <2>2 DEF Passed, Rank, Tried, Seeking, Scanning
  <2>4. Looked(t)' = {}
    <3> SUFFICES ASSUME NEW i \in Looked(t)' PROVE FALSE
      OBVIOUS
    <3>1. PICK j \in DOMAIN bins[th[t].bin] : bins[th[t].bin][j] = Head(bins[th[t].bin]) /\ i < j
      BY <1>0, <2>2 DEF Looked
    <3>2. i \in DOMAIN bins[th[t].bin]
      BY <1>0, <2>2 DEF Looked
    <3>3. 1 \in DOMAIN bins[th[t].bin] /\ Head(bins[th[t].bin]) = bins[th[t].bin][1]
      BY <1>2, <1>5
    <3>4. j = 1
      BY <1>2, <3>1, <3>3 DEF Distinct
    <3>5. i \in Nat /\ i >= 1
      BY <1>2, <3>2
    <3> QED
      BY <3>1, <3>4, <3>5
  <2>5. \A b : Elements(bins[b])' = Elements(bins[b])
    BY <1>0 DEF Elements
  <2>6. \A p : Useless(t, p) => Useless(t, p)'
    BY <1>0, <2>2 DEF Useless, Serves
  <2>7. th'[t].full = 0
    BY <1>0, <1>1, <2>2 DEF Seen
  <2>8. ASSUME NEW b \in Passed(t)', NEW p \in Elements(bins[b])' PROVE Useless(t, p)'
    BY <1>1, <2>3, <2>5, <2>6, <2>8 DEF Seen
  <2> QED
    BY <2>2, <2>4, <2>7, <2>8 DEF Seen
<1> QED
  BY <1>4, <1>5

(* A scan leaves a block that is in use, and the bin, or locks the block.   *)
LEMMA LockMeSees ==
    ASSUME Inv, ScanInv, NEW t \in Threads, LockMe(t), Calm(t)
    PROVE  Seen(t)'
<1>0. Local /\ pc(t) = "lockMe" /\ bins' = bins /\ pc(t) \in Scanning /\ pc(t) \in Seeking
  BY DEF Inv, LockMe, At, pc, Scanning, Seeking
<1>1. Seen(t) /\ th[t].req \in Requests
  BY <1>0, Seeker
<1>2. CASE myL[th[t].cur] <= Coal
  <2>1. myL' = myL /\ th' = [th EXCEPT ![t].pc = "bin", ![t].cur = 0]
    BY <1>2 DEF LockMe
  <2>2. pc(t)' = "bin" /\ th'[t].bin = th[t].bin /\ th'[t].full = th[t].full /\ th'[t].req = th[t].req
    BY <1>0, <2>1 DEF Local, Rec, Fields, pc
  <2>3. Passed(t)' = Passed(t)
    BY <1>0, <2>2 DEF Passed, Rank, Tried, Seeking
  <2> HIDE DEF Seen
  <2> QED
    BY <1>0, <1>1, <2>1, <2>2, <2>3, ScanMoves
<1>3. CASE ~(myL[th[t].cur] <= Coal)
  <2>1. /\ myL' = [myL EXCEPT ![th[t].cur] = Locked]
        /\ th' = [th EXCEPT ![t].pc = "lockSide", ![t].tmp = myL[th[t].cur]]
    BY <1>3 DEF LockMe
  <2>2. /\ pc(t)' = "lockSide" /\ th'[t].bin = th[t].bin /\ th'[t].cur = th[t].cur
        /\ th'[t].full = th[t].full /\ th'[t].req = th[t].req
    BY <1>0, <2>1 DEF Local, Rec, Fields, pc
  <2>3. \A p \in Units : p # th[t].cur => myL'[p] = myL[p]
    BY <2>1 DEF Inv, IInv, LedgerOK, Ledger
  <2>4. pc(t)' \in Scanning /\ pc(t)' # "skip"
    BY <2>2 DEF Scanning
  <2> QED
    BY <1>0, <2>2, <2>3, <2>4, ScanStays
<1> QED
  BY <1>2, <1>3

(* The right side of the block is locked, the block is taken, or it is left.*)
LEMMA LockSideSees ==
    ASSUME Inv, ScanInv, NEW t \in Threads, LockSide(t) \/ Consume(t), Calm(t)
    PROVE  Seen(t)'
<1>0. Local /\ pc(t) \in {"lockSide", "fit"} /\ bins' = bins /\ myL' = myL /\ pc(t) \in Scanning
  BY DEF Inv, LockSide, Consume, At, pc, Scanning, words, binned
<1>1. \E l \in {"unlockMe", "fit", "take"} : th' = [th EXCEPT ![t].pc = l]
  BY DEF LockSide, Consume, Goto
<1>2. PICK l \in {"unlockMe", "fit", "take"} : th' = [th EXCEPT ![t].pc = l]
  BY <1>1
<1>3. /\ pc(t)' = l /\ th'[t].bin = th[t].bin /\ th'[t].cur = th[t].cur
      /\ th'[t].full = th[t].full /\ th'[t].req = th[t].req
  BY <1>0, <1>2 DEF Local, Rec, Fields, pc
<1>4. pc(t)' \in Scanning /\ pc(t)' # "skip"
  BY <1>3 DEF Scanning
<1> QED
  BY <1>0, <1>3, <1>4, ScanStays

(* The block gets its size back, in a bin that the scan has yet to pass.    *)
LEMMA UnlockMeSees ==
    ASSUME Inv, ScanInv, NEW t \in Threads, UnlockMe(t), Calm(t)
    PROVE  Seen(t)'
<1>0. Local /\ pc(t) = "unlockMe" /\ bins' = bins /\ pc(t) \in Scanning /\ pc(t) \in Seeking
  BY DEF Inv, UnlockMe, At, pc, Scanning, Seeking
<1>1. Seen(t) /\ th[t].req \in Requests
  BY <1>0, Seeker
<1>2. /\ myL' = [myL EXCEPT ![th[t].cur] = th[t].tmp]
      /\ th' = [th EXCEPT ![t].pc = "bin", ![t].cur = 0, ![t].tmp = 0]
  BY DEF UnlockMe
<1>3. pc(t)' = "bin" /\ th'[t].bin = th[t].bin /\ th'[t].full = th[t].full /\ th'[t].req = th[t].req
  BY <1>0, <1>2 DEF Local, Rec, Fields, pc
<1>4. \A p \in Units : p # th[t].cur => myL'[p] = myL[p]
  BY <1>2 DEF Inv, IInv, LedgerOK, Ledger
<1>5. \A b \in Passed(t) : \A p \in Elements(bins[b]) : myL'[p] = myL[p]
  BY <1>0, <1>4, CurrentIsNew
<1>6. Passed(t)' = Passed(t)
  BY <1>0, <1>3 DEF Passed, Rank, Tried, Seeking
<1> HIDE DEF Seen
<1> QED
  BY <1>0, <1>1, <1>3, <1>5, <1>6, ScanMoves

(* A block that does not fit serves nobody's request.                       *)
LEMMA NotThisOneSees ==
    ASSUME Inv, ScanInv, NEW t \in Threads, NotThisOne(t), Calm(t)
    PROVE  Seen(t)'
<1>0. Local /\ pc(t) = "fit" /\ bins' = bins /\ pc(t) \in Scanning /\ pc(t) \in Seeking /\ ~Fits(t)
  BY DEF Inv, NotThisOne, At, pc, Scanning, Seeking, binned
<1>1. Seen(t) /\ th[t].req \in Requests
  BY <1>0, Seeker
<1>2. /\ myL' = [myL EXCEPT ![th[t].cur] = th[t].tmp] /\ th' = [th EXCEPT ![t].pc = "skip"]
  BY DEF NotThisOne, Goto
<1>3. /\ pc(t)' = "skip" /\ th'[t].bin = th[t].bin /\ th'[t].cur = th[t].cur
      /\ th'[t].full = th[t].full /\ th'[t].req = th[t].req
  BY <1>0, <1>2 DEF Local, Rec, Fields, pc
<1>4. \A p \in Units : p # th[t].cur => myL'[p] = myL[p]
  BY <1>2 DEF Inv, IInv, LedgerOK, Ledger
<1>5. ASSUME th[t].bin[1] PROVE Useless(t, th[t].cur)'
  <2>1. th[t].cur \in Units /\ th[t].cur \in Nat
    BY <1>0, CurrentIsNew, UnitsNat
  <2>2. myL'[th[t].cur] = th[t].tmp
    BY <1>2, <2>1 DEF Inv, IInv, LedgerOK, Ledger
  <2>3. th[t].tmp \in Nat
    <3>1. "cur" \in Private /\ Current(t) \in Keeps("cur", t) /\ LedgerOK
      BY <1>0 DEF Private, Keeps, When, Piece, Inv, IInv
    <3>2. Current(t)[2] \in Nat
      BY <3>1, OwnPlace
    <3> QED
      BY <3>2 DEF Current
  <2>4. Total(t) \in Nat
    BY <1>1, TotalType
  <2>5. ~(th[t].cur + Total(t) <= th[t].cur + th[t].tmp)
    BY <1>0, <1>5 DEF Fits, FitsAt, Current, End
  <2>6. AlignUp(th[t].cur) \in Nat /\ th[t].cur <= AlignUp(th[t].cur)
    BY <2>1, AlignUpType
  <2>7. ~Serves(<<th[t].cur, th[t].tmp>>, th[t].req)
    <3> DEFINE e == <<th[t].cur, th[t].tmp>>
               a == IF th[t].req.aligned THEN IF BinOf(e)[1] THEN e[1] ELSE AlignUp(e[1]) ELSE e[1]
    <3>1. a \in Nat /\ th[t].cur <= a
      BY <2>1, <2>6
    <3>2. Serves(e, th[t].req) <=> a + Total(t) <= th[t].cur + th[t].tmp
      BY DEF Serves, Total, End
    <3> HIDE DEF a
    <3> QED
      BY <2>1, <2>3, <2>4, <2>5, <3>1, <3>2
  <2> QED
    BY <1>3, <2>2, <2>7 DEF Useless, Serves
<1>6. pc(t)' \in Scanning
  BY <1>3 DEF Scanning
<1> QED
  BY <1>0, <1>3, <1>4, <1>5, <1>6, ScanStays
(* From the last block of a bin the scan goes on with the bins, from any    *)
(* other one with the next block.                                           *)
LEMMA SkipSees ==
    ASSUME Inv, ScanInv, NEW t \in Threads, Skip(t), Calm(t)
    PROVE  Seen(t)'
<1> DEFINE b == bins[th[t].bin]
           i == CHOOSE j \in DOMAIN b : b[j] = th[t].cur
<1>0. Local /\ pc(t) = "skip" /\ bins' = bins /\ myL' = myL /\ pc(t) \in Scanning /\ pc(t) \in Seeking
  BY DEF Inv, Skip, At, pc, Scanning, Seeking
<1>1. /\ th[t].req \in Requests /\ Seen(t) /\ th[t].bin \in Bins /\ th[t].bin # NoBin
      /\ Tried(t) = Rank(t, th[t].bin)
      /\ Passed(t) = {c \in Aligned : Rank(t, c) < Rank(t, th[t].bin)}
  BY <1>0, Seeker
<1>2. b \in Seq(Units) /\ Distinct(b) /\ th[t].cur \in Elements(b)
  BY <1>0, CurrentIsNew
<1>3. \/ i = Len(b) /\ th' = [th EXCEPT ![t].pc = "scan", ![t].cur = 0, ![t].tmp = 0]
      \/ i # Len(b) /\ th' = [th EXCEPT ![t].pc = "lockMe", ![t].cur = b[i + 1], ![t].tmp = 0]
  BY DEF Skip
<1>4. i \in DOMAIN b /\ b[i] = th[t].cur
  <2>1. \E j \in DOMAIN b : b[j] = th[t].cur
    BY <1>2 DEF Elements
  <2> QED
    BY <2>1
<1>5. DOMAIN b = 1 .. Len(b) /\ Len(b) \in Nat
  BY <1>2
<1> HIDE DEF i
<1>6. ASSUME th[t].bin[1], NEW k \in DOMAIN b, k <= i PROVE Useless(t, b[k])
  <2>1. CASE k = i
    BY <1>0, <1>1, <1>4, <1>6, <2>1 DEF Seen
  <2>2. CASE k # i
    <3>1. k < i
      BY <1>4, <1>5, <1>6, <2>2
    <3>2. k \in Looked(t)
      BY <1>4, <3>1 DEF Looked
    <3> QED
      BY <1>0, <1>1, <1>6, <3>2 DEF Seen
  <2> QED
    BY <2>1, <2>2
<1>7. CASE i = Len(b)
  <2>1. pc(t)' = "scan" /\ th'[t].bin = th[t].bin /\ th'[t].full = th[t].full /\ th'[t].req = th[t].req
    BY <1>0, <1>3, <1>7 DEF Local, Rec, Fields, pc
  <2>2. ASSUME NEW c \in Passed(t)', c \notin Passed(t)
        PROVE  \A p \in Elements(bins[c]) : Useless(t, p)
    <3>1. c \in Aligned /\ (Rank(t, c) < Rank(t, th[t].bin) \/ Rank(t, c) = Rank(t, th[t].bin))
      BY <1>1, <2>1, <2>2 DEF Passed, Tried, Rank, Seeking, Aligned
    <3>2. c = th[t].bin /\ th[t].bin[1]
      BY <1>1, <2>2, <3>1, RankOnce DEF Aligned
    <3>3. ASSUME NEW p \in Elements(bins[c]) PROVE Useless(t, p)
      <4>1. PICK k \in DOMAIN b : p = b[k]
        BY <3>2, <3>3 DEF Elements
      <4>2. k <= i
        BY <1>5, <1>7, <4>1
      <4> QED
        BY <1>6, <3>2, <4>1, <4>2
    <3> QED
      BY <3>3
  <2> HIDE DEF Seen, b
  <2> QED
    BY <1>0, <1>1, <2>1, <2>2, ScanMoves
<1>8. CASE i # Len(b)
  <2>1. /\ pc(t)' = "lockMe" /\ th'[t].bin = th[t].bin /\ th'[t].full = th[t].full
        /\ th'[t].req = th[t].req /\ th'[t].cur = b[i + 1]
    <3> DEFINE n == b[i + 1]
    <3>1. th' = [th EXCEPT ![t].pc = "lockMe", ![t].cur = n, ![t].tmp = 0]
      BY <1>3, <1>8
    <3> HIDE DEF n
    <3>2. /\ pc(t)' = "lockMe" /\ th'[t].bin = th[t].bin /\ th'[t].full = th[t].full
          /\ th'[t].req = th[t].req /\ th'[t].cur = n
      BY <1>0, <3>1 DEF Local, Rec, Fields, pc
    <3> QED
      BY <3>2 DEF n
  <2>2. i + 1 \in DOMAIN b
    BY <1>4, <1>5, <1>8
  <2>3. Passed(t)' = Passed(t)
    BY <1>0, <2>1 DEF Passed, Rank, Tried, Seeking, Scanning
  <2>4. ASSUME NEW k \in Looked(t)' PROVE k \in DOMAIN b /\ k <= i
    <3>1. k \in DOMAIN b
      BY <1>0, <2>1 DEF Looked
    <3>2. PICK j \in DOMAIN b : b[j] = b[i + 1] /\ k < j
      BY <1>0, <2>1 DEF Looked
    <3>3. j = i + 1
      BY <1>2, <2>2, <3>2 DEF Distinct
    <3> QED
      BY <1>4, <1>5, <3>1, <3>2, <3>3
  <2>5. \A c : Elements(bins[c])' = Elements(bins[c])
    BY <1>0 DEF Elements
  <2>6. \A p : Useless(t, p) => Useless(t, p)'
    BY <1>0, <2>1 DEF Useless, Serves
  <2>7. th'[t].full = 0
    BY <1>0, <1>1, <2>1 DEF Seen
  <2>8. ASSUME NEW c \in Passed(t)', NEW p \in Elements(bins[c])' PROVE Useless(t, p)'
    BY <1>1, <2>3, <2>5, <2>6, <2>8 DEF Seen
  <2>9. ASSUME th'[t].bin[1], NEW k \in Looked(t)' PROVE Useless(t, bins[th[t].bin][k])'
    <3>1. Useless(t, b[k])
      BY <1>6, <2>1, <2>4, <2>9
    <3> QED
      BY <1>0, <2>1, <3>1 DEF Useless, Serves
  <2> QED
    BY <2>1, <2>7, <2>8, <2>9 DEF Seen
<1> QED
  BY <1>7, <1>8

(* The steps after a fruitless scan keep what it has seen, or end it.       *)
LEMMA WaitSees ==
    ASSUME Inv, ScanInv, NEW t \in Threads, Waits(t), Calm(t)
    PROVE  Seen(t)'
<1>0. Local
  BY DEF Inv
<1>1. th'[t].req = th[t].req /\ bins' = bins
  BY <1>0, ScanFrame
<1>2. Seen(t)
  BY DEF ScanInv, ScanCtl
<1> DEFINE After == {"miss", "soft", "observe", "wait", "check", "hard", "observe2", "wait2", "check2",
                     "null"}
<1>3. /\ Asking \ (Seeking \cup {"loop", "split"}) = After
      /\ \A p \in {"loop", "mark"} : p \notin Seeking /\ p \notin After
      /\ \A p \in After : p \notin Seeking
  BY DEF Asking, Seeking, Scanning
<1>4. Blank(t)' \/ pc(t)' \in After
  <2> SUFFICES ASSUME pc(t)' \in After \cup {"loop", "mark"} PROVE Blank(t)' \/ pc(t)' \in After
    <3> USE <1>0 DEF Local, Rec, Fields, At, pc, Goto
    <3>1. CASE Miss(t)
      <4>1. th' = [th EXCEPT ![t].pc = Onward(queue, "soft"), ![t].list = queue, ![t].ret = "soft",
                             ![t].force = TRUE, ![t].larger = queue # <<>>, ![t].bin = NoBin]
        BY <3>1 DEF Miss
      <4>2. pc(t)' = Onward(queue, "soft")
        BY <4>1
      <4> QED
        BY <4>2 DEF Onward
    <3>2. CASE Cleaned(t)
      BY <3>2 DEF Cleaned
    <3>3. CASE Observe(t)
      BY <3>3 DEF Observe
    <3>4. CASE WaitTillBlockReleased(t)
      BY <3>4 DEF WaitTillBlockReleased
    <3>5. CASE Check(t)
      BY <3>5 DEF Check
    <3> QED
      BY <3>1, <3>2, <3>3, <3>4, <3>5 DEF Waits
  <2> QED
    BY <1>3 DEF Blank, Ended
<1>5. CASE Blank(t)'
  BY <1>5, BlankSees
<1>6. CASE ~Blank(t)'
  <2>1. pc(t)' \in After /\ Ended(t)'
    BY <1>3, <1>4, <1>6 DEF Blank, Ended
  <2>2. Ended(t) /\ th'[t].full = th[t].full /\ myL' = myL
    <3> USE <1>0 DEF Local, Rec, Fields, At, pc, Goto, words
    <3>1. CASE Miss(t)
      <4>1. th' = [th EXCEPT ![t].pc = Onward(queue, "soft"), ![t].list = queue, ![t].ret = "soft",
                             ![t].force = TRUE, ![t].larger = queue # <<>>, ![t].bin = NoBin]
        BY <3>1 DEF Miss
      <4>2. th'[t].full = th[t].full
        BY <4>1
      <4>3. pc(t) = "miss" /\ myL' = myL
        BY <3>1 DEF Miss
      <4> QED
        BY <1>3, <4>2, <4>3 DEF Ended
    <3>2. CASE Cleaned(t)
      <4>1. pc(t) \in {"soft", "hard"} /\ myL' = myL /\ th'[t].full = th[t].full
        BY <3>2 DEF Cleaned
      <4>2. ~th[t].larger
        <5>1. th[t].larger => pc(t)' = "loop"
          BY <3>2 DEF Cleaned
        <5> QED
          BY <1>3, <2>1, <5>1
      <4> QED
        BY <1>3, <4>1, <4>2 DEF Ended
    <3>3. CASE Observe(t)
      BY <1>3, <3>3 DEF Observe, Ended
    <3>4. CASE WaitTillBlockReleased(t)
      BY <1>3, <3>4 DEF WaitTillBlockReleased, Ended
    <3>5. CASE Check(t)
      <4>1. pc(t) \in {"check", "check2"} /\ myL' = myL /\ th'[t].full = th[t].full
        BY <3>5 DEF Check
      <4> QED
        BY <1>3, <4>1 DEF Ended
    <3> QED
      BY <3>1, <3>2, <3>3, <3>4, <3>5 DEF Waits
  <2> QED
    BY <1>1, <1>2, <2>1, <2>2, EndedStays
<1> QED
  BY <1>5, <1>6
(* Whatever a thread does, it knows what it has seen afterwards.            *)
LEMMA OwnScan ==
    ASSUME Inv, ScanInv, NEW t \in Threads, Mine(t), Work(t) \/ Call(t)
    PROVE  ScanCtl(t)'
<1> SUFFICES ASSUME Calm(t)' PROVE Seen(t)'
  BY DEF ScanCtl
<1>0. Local /\ ReturnCtl(t)
  BY DEF Inv, ScanInv
<1>1. CASE ~Scans(t) /\ ~Waits(t)
  BY <1>0, <1>1, Blanks, BlankSees
<1>2. CASE StartScan(t)
  <2>1. /\ pc(t) = "loop"
        /\ th' = [th EXCEPT ![t].pc = "scan", ![t].bin = NoBin, ![t].full = 0, ![t].ret = "idle"]
    BY <1>2 DEF StartScan, At, pc
  <2>2. pc(t)' = "scan" /\ th'[t].bin = NoBin /\ th'[t].full = 0 /\ th'[t].req = th[t].req
    BY <1>0, <2>1 DEF Local, Rec, Fields, pc
  <2>3. th[t].req \in Requests
    BY <2>1 DEF Inv, IInv, CtlOK, Ctl, ReqCtl, Asking
  <2> QED
    BY <2>2, <2>3, ScanBegins
<1>3. CASE (Scans(t) \/ Waits(t)) /\ ~StartScan(t)
  <2>1. Calm(t)
    BY <1>0, <1>3, ScanFrame, CalmBefore
  <2> HIDE DEF Scans, Waits
  <2>2. CASE Waits(t)
    BY <2>1, <2>2, WaitSees
  <2>3. CASE Scans(t)
    BY <1>3, <2>1, <2>3, NextBinSees, NoMoreBinsSees, OpenBinSees, LockMeSees, LockSideSees,
       UnlockMeSees, NotThisOneSees, SkipSees DEF Scans
  <2> QED
    BY <1>3, <2>2, <2>3
<1> QED
  BY <1>1, <1>2, <1>3

(* Nobody has asked for anything at first.                                  *)
LEMMA ScanFirst == ASSUME Init PROVE ScanInv
<1>1. /\ \A t \in Threads : th[t] = Resting
      /\ \A b \in Bins : tLock[b] = NoThread
  BY DEF Init
<1>2. asked \in [Threads -> BOOLEAN]
  BY DEF Init
<1>3. ASSUME NEW t \in Threads PROVE LockCtl(t) /\ ReturnCtl(t) /\ AloneCtl(t) /\ ScanCtl(t)
  <2>1. th[t].pc = "idle" /\ th[t].back = "idle" /\ th[t].req = NoReq
    BY <1>1 DEF Resting
  <2>2. LockCtl(t)
    BY <1>1, <2>1, BlocksAssumption DEF LockCtl
  <2>3. ReturnCtl(t)
    BY <2>1 DEF ReturnCtl, pc, Coalescing
  <2>4. AloneCtl(t) /\ ScanCtl(t)
    BY <2>1 DEF AloneCtl, ScanCtl, Calm, Scanned
  <2> QED
    BY <2>2, <2>3, <2>4
<1> QED
  BY <1>2, <1>3 DEF ScanInv

(* Every step keeps what scans have seen.                                   *)
LEMMA ScanStep == ASSUME Inv, ScanInv, [Next]_vars PROVE ScanInv'
<1>1. ASSUME NEW t \in Threads, Call(t) \/ Work(t) PROVE ScanInv'
  <2>0. IInv /\ Local /\ Path(t) /\ BinsInv
    BY DEF Inv, IInv
  <2>1. Mine(t)
    BY <1>1, <2>0, Moves
  <2>2. ReturnCtl(t)' /\ Asks(t)
    <3>1. ReturnCtl(t)
      BY DEF ScanInv
    <3> QED
      BY <1>1, <2>0, <3>1, Returns
  <2>3. asked' \in [Threads -> BOOLEAN] /\ \A u \in Threads : AloneCtl(u)'
    <3>1. asked \in [Threads -> BOOLEAN] /\ \A u \in Threads : AloneCtl(u)
      BY DEF ScanInv
    <3> QED
      BY <2>0, <2>1, <2>2, <3>1, AloneKeeps
  <2>4. \A u \in Threads : LockCtl(u)'
    <3>1. Grip(t)
      BY <1>1, <2>0, Grips
    <3>2. \A u \in Threads : LockCtl(u)
      BY DEF ScanInv
    <3>3. (\A u \in Threads : LockCtl(u))'
      BY <2>0, <2>1, <3>1, <3>2, GripKeeps
    <3> QED
      BY <3>3
  <2>5. ASSUME NEW u \in Threads PROVE ReturnCtl(u)'
    <3>1. CASE u = t
      BY <2>2, <3>1
    <3>2. CASE u # t
      <4>1. th'[u] = th[u] /\ ReturnCtl(u)
        BY <2>1, <3>2 DEF Mine, ScanInv
      <4> QED
        BY <4>1 DEF ReturnCtl, pc
    <3> QED
      BY <3>1, <3>2
  <2>6. ASSUME NEW u \in Threads PROVE ScanCtl(u)'
    <3>1. CASE u = t
      BY <1>1, <2>1, <3>1, OwnScan
    <3>2. CASE u # t
      BY <1>1, <2>1, <3>2, OthersScan
    <3> QED
      BY <3>1, <3>2
  <2> QED
    BY <2>3, <2>4, <2>5, <2>6 DEF ScanInv
<1>2. CASE UNCHANGED vars
  <2>1. /\ th' = th /\ bins' = bins /\ myL' = myL /\ tLock' = tLock /\ modified' = modified
        /\ asked' = asked
    BY <1>2 DEF vars, words, binned, counters, heap
  <2>2. asked' \in [Threads -> BOOLEAN]
    BY <2>1 DEF ScanInv
  <2>3. ASSUME NEW t \in Threads PROVE LockCtl(t)' /\ ReturnCtl(t)' /\ AloneCtl(t)' /\ ScanCtl(t)'
    <3>0. LockCtl(t) /\ ReturnCtl(t) /\ AloneCtl(t) /\ ScanCtl(t)
      BY DEF ScanInv
    <3>1. LockCtl(t)' /\ ReturnCtl(t)' /\ AloneCtl(t)'
      BY <2>1, <3>0 DEF LockCtl, ReturnCtl, AloneCtl, Scanned, pc
    <3>2. ASSUME Calm(t)' PROVE Seen(t)'
      <4>1. Calm(t)
        BY <2>1, <3>2 DEF Calm, Scanned, pc
      <4>2. Seen(t)
        BY <3>0, <4>1 DEF ScanCtl
      <4> QED
        BY <2>1, <4>2, SeenSame
    <3> QED
      BY <3>1, <3>2 DEF ScanCtl
  <2> QED
    BY <2>2, <2>3 DEF ScanInv
<1> QED
  BY <1>1, <1>2 DEF Next, Finished

(* A scan that found nothing has passed all the aligned bins.               *)
LEMMA NullSees == ASSUME Inv, ScanInv PROVE NullSeesAligned
<1> SUFFICES ASSUME NEW t \in Threads, Fruitless(t), ~asked[t],
                    NEW e \in Free, BinOf(e)[1], e[1] \in BinBlocks
             PROVE  ~Serves(e, th[t].req)
  BY DEF NullSeesAligned
<1>1. pc(t) = "null" /\ ~modified[t] /\ \A u \in Threads \ {t} : pc(u) = "idle"
  BY DEF Fruitless, At, pc
<1>2. th[t].req \in Requests
  BY <1>1 DEF Inv, IInv, CtlOK, Ctl, ReqCtl, Asking
<1>3. th[t].req # NoReq
  BY <1>2, BlocksAssumption DEF NoReq
<1>4. Seen(t)
  BY <1>1, <1>3 DEF ScanInv, ScanCtl, Calm, Scanned, Coalescing
<1>5. Passed(t) = Aligned
  BY <1>1 DEF Passed, Ended, Seeking, Asking, Scanning
<1>6. e = <<e[1], myL[e[1]]>> /\ myL[e[1]] > EndMark
  BY DEF Free
<1>7. PICK b \in Bins : e[1] \in Elements(bins[b])
  BY DEF BinBlocks, Elements
<1>8. b = BinOf(e)
  <2>1. PICK i \in DOMAIN bins[b] : e[1] = bins[b][i]
    BY <1>7 DEF Elements
  <2> QED
    BY <1>6, <2>1, BinsHold DEF BinsDisjoint
<1>9. b \in Aligned
  BY <1>8 DEF Aligned
<1>10. Useless(t, e[1])
  BY <1>4, <1>5, <1>7, <1>9 DEF Seen
<1> QED
  BY <1>6, <1>10 DEF Useless

(* backend.cpp:620: a thread that gets NULL while others only return blocks *)
(* has looked at every block of the slab-aligned bins, for any number of    *)
(* threads and any regions, and none would have served; others cannot have  *)
(* put one there unseen.                                                    *)
THEOREM RefusalHonest == Spec => []NullSeesAligned
<1>1. Init => ScanInv
  BY ScanFirst
<1>2. Inv /\ ScanInv /\ [Next]_vars => ScanInv'
  BY ScanStep
<1>3. Inv /\ ScanInv => NullSeesAligned
  BY NullSees
<1> QED
  BY <1>1, <1>2, <1>3, InvAlways, PTL DEF Spec
=============================================================================
