------------------------------ MODULE MCBackRefs ------------------------------
(* Instances of BackRefs for TLC.                          *)
EXTENDS BackRefs, TLC

CONSTANTS t1, t2

Two == {t1, t2}

Symmetric == Permutations(Threads)
=============================================================================
