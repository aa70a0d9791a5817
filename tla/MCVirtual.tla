------------------------------ MODULE MCVirtual ------------------------------
(* Instances of HeteroVirtual for TLC.                                      *)
EXTENDS HeteroVirtual

Three == {1, 2, 3}

SomePlaces  == {0, 4, 28, 80, 84, 92, 120, 212}
TwoSurfaces == {0, 100}

Call(c, s) == [class |-> c, slot |-> s]

(* Every hierarchy with every choice of overrides of function 1, of vtables *)
(* that are in the module, and of a few kernels.                            *)
Every(kernels) == {p \in [base : [Classes -> Classes \cup {0}],
                          defines : [Classes -> {{}, {1}, Slots}],
                          emitted : SUBSET Classes, calls : kernels, join : BOOLEAN] :
    WellFormed(p) /\ \A c \in Classes : p.base[c] # 0 => p.defines[c] # Slots}

SomePrograms == Every({<<Call(1, 1)>>, <<Call(2, 1)>>, <<Call(1, 0), Call(1, 1)>>})

(* Kernels of parallel_for_hetero with one virtual call.                    *)
PlainPrograms == {p \in SomePrograms : ~p.join /\ Len(p.calls) = 1}
=============================================================================
