-------------------------------- MODULE SvmHeap --------------------------------
(****************************************************************************)
(* What the backend of the scalable allocator promises: blocks that are in  *)
(* use lie inside the regions it holds and never overlap, whatever else     *)
(* goes on; a region is given up only when nothing in it is in use.         *)
(* A block or a region is an extent <<start, size>>.                        *)
(****************************************************************************)
EXTENDS Integers

CONSTANTS
    AllRegions,   \* the regions the backend starts with
    AllUsed       \* the blocks in use then

VARIABLES
    regions,   \* the regions it still holds
    used       \* the blocks in use

End(e)         == e[1] + e[2]
Apart(d, e)    == End(d) <= e[1] \/ End(e) <= d[1]
Within(e, r)   == r[1] <= e[1] /\ End(e) <= End(r)
PairsApart(es) == \A d, e \in es : d # e => Apart(d, e)

HeapInit == regions = AllRegions /\ used = AllUsed

(* A request is served with one block, or several.                          *)
Get ==
    /\ used \subseteq used'
    /\ PairsApart(used')
    /\ \A e \in used' \ used : \E r \in regions : Within(e, r)
    /\ UNCHANGED regions

Put == used' \subseteq used /\ UNCHANGED regions

Release(r) ==
    /\ \A e \in used : Apart(e, r)
    /\ regions' = regions \ {r}
    /\ UNCHANGED used

HeapNext == Get \/ Put \/ \E r \in regions : Release(r)

HeapSpec == HeapInit /\ [][HeapNext]_<<regions, used>>
=============================================================================
