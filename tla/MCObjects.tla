------------------------------ MODULE MCObjects ------------------------------
(* Instances of LargeObjects for TLC.                          *)
EXTENDS LargeObjects, TLC

CONSTANTS t1, t2

One == {t1}
Two == {t1, t2}

Symmetric == Permutations(Threads)
=============================================================================
