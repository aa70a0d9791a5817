-------------------------------- MODULE MCBlocks --------------------------------
(* Model values and bounds for SvmBlocks.  Slabs are two units.             *)
EXTENDS SvmInvariant

CONSTANTS t1, t2, none

Two == {t1, t2}

(* Free, bin-less, beside another free block, as two blocks end up when a   *)
(* scan had locked one while the other was returned; free and off the       *)
(* slabs; between two used blocks.  Once the last is returned, its region   *)
(* ends at a slab.                                                          *)
ToASlab   == {<<2, 8>>}
Outer     == {<<2, 1>>, <<9, 1>>}
Between    == {<<3, 1>>, <<4, 5>>}

(* The same one unit earlier: here the region ends off the slabs.           *)
OffSlabs  == {<<1, 8>>}
OuterOff  == {<<1, 1>>, <<8, 1>>}
BetweenOff == {<<2, 1>>, <<3, 5>>}

ASlab     == [num |-> 1, size |-> 2, aligned |-> TRUE]
TwoSlabs  == [num |-> 2, size |-> 2, aligned |-> TRUE]
ALarge    == [num |-> 1, size |-> 6, aligned |-> FALSE]
AllKinds  == {ASlab, TwoSlabs, ALarge}
LargeOnly == {ALarge}
=============================================================================
