-------------------------- MODULE ParallelForHetero --------------------------
(****************************************************************************)
(* What parallel_for_hetero promises its caller, whichever processor runs   *)
(* it (workloads/headers/win_hetero.h): between the call and its return     *)
(* each iteration body(i), 0 <= i < numiters, is executed once, in any      *)
(* order.  A call may also give up, having executed none of them, or the    *)
(* process may end.                                                         *)
(****************************************************************************)
EXTENDS Integers

CONSTANTS Calls, Indices, Trips

VARIABLES
    status,   \* idle, running or returned
    trip,     \* numiters of each call, 0 before it starts
    runs,     \* how often each iteration was executed
    alive     \* the process is running

loopVars == <<status, trip, runs, alive>>

LoopInit ==
    /\ status = [c \in Calls |-> "idle"]
    /\ trip = [c \in Calls |-> 0]
    /\ runs = [c \in Calls |-> [i \in Indices |-> 0]]
    /\ alive = TRUE

Start(c) ==
    /\ alive /\ status[c] = "idle"
    /\ status' = [status EXCEPT ![c] = "running"]
    /\ \E n \in Trips : trip' = [trip EXCEPT ![c] = n]
    /\ UNCHANGED <<runs, alive>>

Iterate(c, i) ==
    /\ alive /\ status[c] = "running" /\ i < trip[c] /\ runs[c][i] = 0
    /\ runs' = [runs EXCEPT ![c][i] = 1]
    /\ UNCHANGED <<status, trip, alive>>

Complete(c)  == \A i \in Indices : i < trip[c] => runs[c][i] = 1
Untouched(c) == \A i \in Indices : runs[c][i] = 0

Finish(c) ==
    /\ alive /\ status[c] = "running" /\ (Complete(c) \/ Untouched(c))
    /\ status' = [status EXCEPT ![c] = "returned"]
    /\ UNCHANGED <<trip, runs, alive>>

ProcessEnds ==
    /\ alive' = FALSE
    /\ UNCHANGED <<status, trip, runs>>

LoopNext ==
    \/ \E c \in Calls : Start(c) \/ Finish(c) \/ \E i \in Indices : Iterate(c, i)
    \/ ProcessEnds

LoopSpec == LoopInit /\ [][LoopNext]_loopVars
=============================================================================
