-------------------------------- MODULE MCSvm --------------------------------
(* Instances of SvmAllocator for TLC.                                       *)
EXTENDS SvmAllocator, TLC

CONSTANTS t1, t2

One == {t1}
Two == {t1, t2}

Symmetric == Permutations(Threads)
=============================================================================
