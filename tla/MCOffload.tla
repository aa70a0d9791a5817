------------------------------ MODULE MCOffload ------------------------------
(* Instances of OffloadRuntime for TLC.                                     *)
EXTENDS OffloadRuntime, TLC

CONSTANTS t1, t2, f1, f2, c1, c2, c3

TwoThreads == {t1, t2}
OneLoop    == {f1}
TwoLoops   == {f1, f2}
TwoCalls   == {c1, c2}
ThreeCalls == {c1, c2, c3}

(* Which threads reach which loop.                                          *)
CallersDistinct == (f1 :> {t1}) @@ (f2 :> {t2})
CallersShared   == [f \in Functions |-> {t1, t2}]

NoUnset  == {-1}
AnyEnv   == {-1, GPU, SINGLE_CORE_CPU, MULTI_CORE_CPU_TBB}
Runtime  == {GPU, SINGLE_CORE_CPU, MULTI_CORE_CPU_TBB}
Declared == 0 .. 3

Symmetric == Permutations(Calls)
=============================================================================
