---------------------------- MODULE SvmLedger_proofs ----------------------------
(* Lemmas about the ledger of SvmInvariant: the few ways in which extents   *)
(* move between places, and what the lock words must be for the ledger to   *)
(* hold after them, for any ledger; then what a step of one thread does to  *)
(* the ledger and to the bins of SvmBlocks.                                 *)
EXTENDS SvmInvariant, SequenceTheorems, TLAPS

(* Some pieces go out and others come in, in the same units.                *)
Exchanged(S, S2, Out, In, R) ==
    /\ \A x \in Places : Out[x] \subseteq S[x]
    /\ \A x \in Places : \A d : d \in S2[x] <=> (d \in S[x] /\ d \notin Out[x]) \/ d \in In[x]
    /\ Inside(In, R) /\ Disjoint(In)
    /\ \A u \in Nat : Holds(Out, u) <=> Holds(In, u)

(* Units are natural numbers, and a region and its last block lie within    *)
(* them.                                                                    *)
LEMMA UnitsNat ==
    /\ Units \subseteq Nat
    /\ \A r \in Regions : r[1] \in Nat /\ r[2] \in Nat \ {0} /\ r[1] \in Units /\ End(r) \in Units
<1>1. \A r \in Regions : r[1] \in Nat /\ r[2] \in Nat \ {0}
  BY BlocksAssumption
<1> QED
  BY <1>1 DEF Units, End

(* An extent is a pair of its first unit and its size.                      *)
LEMMA ExtentType ==
    \A e \in Extents : /\ e[1] \in Units /\ e[2] \in Nat /\ e[1] \in Nat /\ End(e) \in Nat
                       /\ e = <<e[1], e[2]>>
<1> TAKE e \in Extents
<1>1. e[1] \in Units /\ e[2] \in Nat /\ e = <<e[1], e[2]>>
  BY DEF Extents
<1>2. e[1] \in Nat
  BY <1>1, UnitsNat
<1> QED
  BY <1>1, <1>2 DEF End

(* What follows a piece of a region is a unit: at the latest it is the one  *)
(* of the region's last block.                                              *)
LEMMA EndUnit ==
    ASSUME NEW S, NEW R, R \subseteq Regions, Inside(S, R), NEW x \in Places, NEW e \in S[x]
    PROVE  End(e) \in Units
<1>1. PICK r \in R : Within(e, r)
  BY DEF Inside
<1>2. r \in Regions /\ e \in Extents
  BY DEF Inside
<1>3. r[1] \in Nat /\ r[2] \in Nat /\ End(e) \in r[1] .. r[1] + r[2]
  BY <1>1, <1>2, UnitsNat, ExtentType DEF Within, End
<1> QED
  BY <1>2, <1>3 DEF Units

(* Extents that do not overlap differ in their first units and in their     *)
(* ends.                                                                    *)
LEMMA ApartEnds ==
    ASSUME NEW d \in Extents, NEW e \in Extents, d[2] > 0, e[2] > 0, Apart(d, e)
    PROVE  Apart(e, d) /\ d[1] # e[1] /\ End(d) # End(e) /\ d # e
  BY ExtentType DEF Apart, End

(* Two extents that share no unit are apart.                                *)
LEMMA ApartPointwise ==
    ASSUME NEW d \in Extents, NEW e \in Extents, d[2] > 0, e[2] > 0,
           \A u \in Nat : ~(Has(d, u) /\ Has(e, u))
    PROVE  Apart(d, e)
<1>1. d[1] \in Nat /\ e[1] \in Nat /\ End(d) = d[1] + d[2] /\ End(e) = e[1] + e[2] /\ d[2] \in Nat /\ e[2] \in Nat
  BY ExtentType DEF End
<1>2. ~(Has(d, d[1]) /\ Has(e, d[1])) /\ ~(Has(d, e[1]) /\ Has(e, e[1]))
  BY <1>1
<1> QED
  BY <1>1, <1>2 DEF Has, Apart

(* A piece that stays is apart from all that come in or go out.             *)
LEMMA Stays ==
    ASSUME NEW S, NEW S2, NEW Out, NEW In, NEW R, Tiling(S, R), Exchanged(S, S2, Out, In, R),
           NEW x \in Places, NEW d \in S[x], d \notin Out[x], NEW y \in Places
    PROVE  /\ \A e \in Out[y] : Apart(d, e) /\ Apart(e, d) /\ d[1] # e[1] /\ End(d) # End(e) /\ d # e
           /\ \A e \in In[y] : Apart(d, e) /\ Apart(e, d) /\ d[1] # e[1] /\ End(d) # End(e) /\ d # e
<1>0. d \in Extents /\ d[2] > 0
  BY DEF Tiling, Inside
<1>1. ASSUME NEW z \in Places, NEW e \in Out[z]
      PROVE  e \in Extents /\ e[2] > 0 /\ Apart(d, e)
  BY <1>1 DEF Tiling, Inside, Disjoint, Exchanged
<1>2. ASSUME NEW e \in In[y]
      PROVE  e \in Extents /\ e[2] > 0 /\ Apart(d, e)
  <2>1. e \in Extents /\ e[2] > 0
    BY DEF Exchanged, Inside
  <2>2. SUFFICES ASSUME NEW u \in Nat, Has(d, u), Has(e, u) PROVE FALSE
    BY <1>0, <2>1, ApartPointwise
  <2>3. Holds(Out, u)
    BY <2>2 DEF Exchanged, Holds
  <2>4. PICK z \in Places : \E o \in Out[z] : Has(o, u)
    BY <2>3 DEF Holds
  <2>5. PICK o \in Out[z] : Has(o, u)
    BY <2>4
  <2>6. o \in Extents /\ o[2] > 0 /\ Apart(d, o)
    BY <1>1
  <2> QED
    BY <2>2, <2>5, <2>6, <1>0, ExtentType DEF Has, Apart
<1> QED
  BY <1>0, <1>1, <1>2, ApartEnds

(* The exchange of pieces for others of the same units keeps the regions    *)
(* divided.                                                                 *)
LEMMA TilesExchange ==
    ASSUME NEW S, NEW S2, NEW Out, NEW In, NEW R, Tiling(S, R), Exchanged(S, S2, Out, In, R)
    PROVE  Tiling(S2, R)
<1>1. Inside(S2, R)
  BY DEF Tiling, Inside, Exchanged
<1>2. Disjoint(S2)
  <2> SUFFICES ASSUME NEW x \in Places, NEW y \in Places, NEW c \in S2[x], NEW d \in S2[y]
               PROVE  Apart(c, d) \/ (x = y /\ c = d)
    BY DEF Disjoint
  <2>1. CASE c \in S[x] /\ c \notin Out[x] /\ d \in S[y] /\ d \notin Out[y]
    BY <2>1 DEF Tiling, Disjoint
  <2>2. CASE c \in S[x] /\ c \notin Out[x] /\ d \in In[y]
    BY <2>2, Stays
  <2>3. CASE c \in In[x] /\ d \in S[y] /\ d \notin Out[y]
    BY <2>3, Stays
  <2>4. CASE c \in In[x] /\ d \in In[y]
    BY <2>4 DEF Exchanged, Disjoint
  <2> QED
    BY <2>1, <2>2, <2>3, <2>4 DEF Exchanged
<1>3. Covers(S2, R)
  <2> SUFFICES ASSUME NEW r \in R, NEW u \in r[1] .. End(r) - 1
               PROVE  Holds(S2, u)
    BY DEF Covers
  <2>0. u \in Nat
    BY UnitsNat DEF Tiling
  <2>1. PICK x \in Places : \E e \in S[x] : Has(e, u)
    BY DEF Tiling, Covers, Holds
  <2>2. PICK e \in S[x] : Has(e, u)
    BY <2>1
  <2>3. CASE e \notin Out[x]
    BY <2>2, <2>3 DEF Exchanged, Holds
  <2>4. CASE e \in Out[x]
    <3>1. Holds(In, u)
      BY <2>0, <2>2, <2>4 DEF Exchanged, Holds
    <3> QED
      BY <3>1 DEF Exchanged, Holds
  <2> QED
    BY <2>3, <2>4
<1> QED
  BY <1>1, <1>2, <1>3 DEF Tiling

(* What the words must be for an exchange of pieces to keep the ledger.     *)
WordsFollow(Out, In, my, my2, left, left2, lt, lt2) ==
    /\ my2 \in [Units -> Int] /\ left2 \in [Units -> Int]
    /\ MyRight(In, my2) /\ LeftRight(In, left2, lt2)
    /\ \A p \in Units : ~Begin(Out, p) /\ ~Begin(In, p) => my2[p] = my[p]
    /\ \A n \in Units : ~Finish(Out, n) /\ ~Finish(In, n) => left2[n] = left[n]
    /\ \A p \in Units : Begin(Out, p) \/ Begin(In, p) =>
           my2[p] # EndMark /\ (my2[p] > 0 => <<p, my2[p]>> \in In[FREE])
    /\ \A n \in Units : Finish(Out, n) \/ Finish(In, n) =>
           left2[n] # 0 /\ (left2[n] > 0 => IsLoose(In, <<n - left2[n], left2[n]>>))
    /\ \A t \in Threads : lt2[t] # NoExt =>
           \/ lt2[t] = lt[t] /\ ~Finish(Out, End(lt[t])) /\ ~Finish(In, End(lt[t]))
           \/ IsLoose(In, lt2[t]) /\ left2[End(lt2[t])] \in {Locked, Coal}
    /\ \A t \in Threads : lt2[t] = lt[t] \/ Finish(Out, End(lt[t])) \/ lt[t] = NoExt
    /\ \A t, u \in Threads : lt2[t] # NoExt /\ lt2[t] = lt2[u] => t = u

(* The ledger after an exchange.                                            *)
LEMMA Exchange ==
    ASSUME NEW S, NEW S2, NEW Out, NEW In, NEW R, NEW my, NEW my2, NEW left, NEW left2,
           NEW lt, NEW lt2, Ledger(S, my, left, lt, R), Exchanged(S, S2, Out, In, R),
           WordsFollow(Out, In, my, my2, left, left2, lt, lt2)
    PROVE  Ledger(S2, my2, left2, lt2, R)
<1>f. FREE \in Places /\ LoosePlace(FREE)
  BY DEF FREE, Places, Shared, LoosePlace
<1>t. Tiling(S, R) /\ Tiling(S2, R)
  BY TilesExchange DEF Ledger
<1>0. \A x \in Places : \A e \in S2[x] : e \in In[x] \/ (e \in S[x] /\ e \notin Out[x])
  BY DEF Exchanged
<1>s. ASSUME NEW x \in Places, NEW e \in S[x], e \notin Out[x]
      PROVE  /\ e[1] \in Units /\ End(e) \in Units
             /\ my2[e[1]] = my[e[1]] /\ left2[End(e)] = left[End(e)]
             /\ ~Finish(Out, End(e)) /\ ~Finish(In, End(e))
  <2>1. e[1] \in Units /\ End(e) \in Units
    BY <1>t, EndUnit, ExtentType DEF Tiling, Inside
  <2>2. ~Begin(Out, e[1]) /\ ~Begin(In, e[1]) /\ ~Finish(Out, End(e)) /\ ~Finish(In, End(e))
    BY <1>s, <1>t, Stays DEF Begin, Finish
  <2> QED
    BY <2>1, <2>2 DEF WordsFollow
<1>1. MyRight(S2, my2)
  BY <1>0, <1>s DEF MyRight, Ledger, WordsFollow
<1>2. ASSUME NEW p \in Units, my2[p] > 0 PROVE <<p, my2[p]>> \in S2[FREE]
  <2>1. CASE Begin(Out, p) \/ Begin(In, p)
    BY <1>2, <2>1, <1>f DEF WordsFollow, Exchanged
  <2>2. CASE ~Begin(Out, p) /\ ~Begin(In, p)
    <3>1. my2[p] = my[p] /\ <<p, my[p]>> \in S[FREE]
      BY <1>2, <2>2 DEF WordsFollow, Ledger
    <3>2. <<p, my[p]>> \notin Out[FREE]
      BY <2>2, <1>f DEF Begin
    <3> QED
      BY <3>1, <3>2, <1>f DEF Exchanged
  <2> QED
    BY <2>1, <2>2
<1>3. LeftRight(S2, left2, lt2)
  <2> SUFFICES ASSUME NEW x \in Places, NEW e \in S2[x]
               PROVE  IF LoosePlace(x) THEN left2[End(e)] = e[2] \/ \E t \in Threads : lt2[t] = e
                      ELSE left2[End(e)] = LeftWord(x)
    BY DEF LeftRight
  <2>1. CASE e \in In[x]
    BY <2>1 DEF WordsFollow, LeftRight
  <2>2. CASE e \in S[x] /\ e \notin Out[x]
    <3>1. left2[End(e)] = left[End(e)] /\ ~Finish(Out, End(e))
      BY <2>2, <1>s
    <3>2. CASE LoosePlace(x) /\ left[End(e)] # e[2]
      <4>1. PICK t \in Threads : lt[t] = e
        BY <3>2, <2>2 DEF Ledger, LeftRight
      <4>2. e # NoExt
        BY <2>2, <1>t DEF Tiling, Inside, NoExt
      <4> QED
        BY <3>1, <3>2, <4>1, <4>2 DEF WordsFollow
    <3>3. CASE ~(LoosePlace(x) /\ left[End(e)] # e[2])
      BY <3>1, <3>3, <2>2 DEF Ledger, LeftRight
    <3> QED
      BY <3>2, <3>3
  <2> QED
    BY <2>1, <2>2, <1>0
<1>l. ASSUME NEW e, IsLoose(S, e), ~Finish(Out, End(e)) PROVE IsLoose(S2, e)
  BY <1>l DEF IsLoose, Finish, Exchanged
<1>i. ASSUME NEW e, IsLoose(In, e) PROVE IsLoose(S2, e)
  BY <1>i DEF IsLoose, Exchanged
<1>4. ASSUME NEW n \in Units
      PROVE  left2[n] # 0 /\ (left2[n] > 0 => IsLoose(S2, <<n - left2[n], left2[n]>>))
  <2>1. CASE Finish(Out, n) \/ Finish(In, n)
    BY <2>1, <1>i DEF WordsFollow
  <2>2. CASE ~Finish(Out, n) /\ ~Finish(In, n)
    <3>1. left2[n] = left[n] /\ left[n] # 0 /\ left[n] \in Int
          /\ (left[n] > 0 => IsLoose(S, <<n - left[n], left[n]>>))
      BY <2>2 DEF WordsFollow, Ledger
    <3>2. n \in Nat
      BY UnitsNat
    <3>3. End(<<n - left[n], left[n]>>) = n
      BY <3>1, <3>2 DEF End
    <3> QED
      BY <3>1, <3>3, <2>2, <1>l
  <2> QED
    BY <2>1, <2>2
<1>5. SidesRight(S2, left2, lt2)
  <2>1. ASSUME NEW t \in Threads, lt2[t] # NoExt
        PROVE  IsLoose(S2, lt2[t]) /\ left2[End(lt2[t])] \in {Locked, Coal}
    <3>1. CASE IsLoose(In, lt2[t]) /\ left2[End(lt2[t])] \in {Locked, Coal}
      BY <3>1, <1>i
    <3>2. CASE lt2[t] = lt[t] /\ ~Finish(Out, End(lt[t])) /\ ~Finish(In, End(lt[t]))
      <4>1. IsLoose(S, lt[t]) /\ left[End(lt[t])] \in {Locked, Coal}
        BY <2>1, <3>2 DEF Ledger, SidesRight
      <4>2. PICK x \in Places : LoosePlace(x) /\ lt[t] \in S[x]
        BY <4>1 DEF IsLoose
      <4>3. lt[t] \notin Out[x]
        BY <3>2, <4>2 DEF Finish
      <4> QED
        BY <3>2, <4>1, <4>2, <4>3, <1>s, <1>l
    <3> QED
      BY <2>1, <3>1, <3>2 DEF WordsFollow
  <2> QED
    BY <2>1 DEF SidesRight, WordsFollow
<1>e. ASSUME NEW r \in R, NEW T, Inside(T, R)
      PROVE  ~Finish(T, r[1]) /\ ~Begin(T, End(r))
  <2>0. R \subseteq Regions
    BY <1>t DEF Tiling
  <2>1. ASSUME NEW x \in Places, NEW e \in T[x] PROVE End(e) # r[1] /\ e[1] # End(r)
    <3>1. PICK q \in R : Within(e, q)
      BY <1>e DEF Inside
    <3>2. e \in Extents /\ e[2] > 0 /\ q \in Regions /\ r \in Regions
      BY <1>e, <2>0 DEF Inside
    <3>3. q = r \/ End(r) < q[1] \/ End(q) < r[1]
      BY <3>2, BlocksAssumption DEF End
    <3>4. /\ r[1] \in Nat /\ r[2] \in Nat /\ q[1] \in Nat /\ q[2] \in Nat
          /\ e[1] \in Nat /\ e[2] \in Nat
      BY <3>2, UnitsNat, ExtentType
    <3> QED
      BY <3>1, <3>2, <3>3, <3>4 DEF Within, End
  <2> QED
    BY <2>1 DEF Finish, Begin
<1>o. Inside(Out, R) /\ Inside(In, R)
  BY <1>t DEF Tiling, Inside, Exchanged
<1>6. EdgesRight(my2, left2, R)
  <2> SUFFICES ASSUME NEW r \in R PROVE left2[r[1]] = Locked /\ my2[End(r)] = EndMark
    BY DEF EdgesRight
  <2>1. r[1] \in Units /\ End(r) \in Units
    BY <1>t, UnitsNat DEF Tiling
  <2> QED
    BY <2>1, <1>e, <1>o DEF WordsFollow, Ledger, EdgesRight
<1>7. \A p \in Units : my2[p] = EndMark => \E r \in R : p = End(r)
  BY DEF WordsFollow, Ledger
<1> QED
  BY <1>t, <1>1, <1>2, <1>3, <1>4, <1>5, <1>6, <1>7 DEF Ledger, WordsFollow

-----------------------------------------------------------------------------
(* The ways in which pieces move.                                           *)

Moved(S, S2, a, e, b, f) ==
    \A x \in Places : \A d : d \in S2[x] <=> (d \in S[x] /\ ~(x = a /\ d = e)) \/ (x = b /\ d = f)
Merged(S, S2, a, d, b, e, c, f) ==
    \A x \in Places : \A g : g \in S2[x] <=> \/ g \in S[x] /\ ~(x = a /\ g = d) /\ ~(x = b /\ g = e)
                                             \/ x = c /\ g = f
Halved(S, S2, a, e, b, f, c, g) ==
    \A x \in Places : \A d : d \in S2[x] <=> \/ d \in S[x] /\ ~(x = a /\ d = e)
                                             \/ (x = b /\ d = f) \/ (x = c /\ d = g)

One(a, e)       == [x \in Places |-> IF x = a THEN {e} ELSE {}]
Two(a, d, b, e) == [x \in Places |-> {g \in {d, e} : (x = a /\ g = d) \/ (x = b /\ g = e)}]

(* The free memory is one of the places, and one whose right words are the  *)
(* sizes.                                                                   *)
LEMMA FreePlace == FREE \in Places /\ LoosePlace(FREE)
  BY DEF FREE, Places, Shared, LoosePlace

(* The words of a piece that a thread keeps are locks, never a size or the  *)
(* mark of a region's last block (GuardedSize).                             *)
LEMMA WordValues ==
    \A x : /\ MyWord(x) \in {Locked, Coal} /\ LeftWord(x) \in {Locked, Coal}
           /\ MyWord(x) < EndMark /\ LeftWord(x) < EndMark
  BY DEF MyWord, LeftWord, Locked, Coal, EndMark

(* What the ledger says of the numbers of a piece.                          *)
LEMMA PieceType ==
    ASSUME NEW S, NEW my, NEW left, NEW lt, NEW R, Ledger(S, my, left, lt, R),
           NEW x \in Places, NEW e \in S[x]
    PROVE  /\ e \in Extents /\ e[1] \in Units /\ e[1] \in Nat /\ e[2] \in Nat /\ e[2] > 0
           /\ End(e) \in Units /\ End(e) \in Nat /\ e = <<e[1], e[2]>> /\ e # NoExt
           /\ End(e) = e[1] + e[2] /\ e[1] < End(e)
<1>1. e \in Extents /\ e[2] > 0 /\ End(e) \in Units
  BY EndUnit DEF Ledger, Tiling, Inside
<1>2. End(e) = e[1] + e[2]
  BY DEF End
<1> QED
  BY <1>1, <1>2, ExtentType DEF NoExt

(* Two pieces that begin, or end, at the same unit are one.                 *)
LEMMA SamePiece ==
    ASSUME NEW S, NEW my, NEW left, NEW lt, NEW R, Ledger(S, my, left, lt, R),
           NEW x \in Places, NEW y \in Places, NEW d \in S[x], NEW e \in S[y],
           d[1] = e[1] \/ End(d) = End(e)
    PROVE  x = y /\ d = e
<1>1. Apart(d, e) \/ (x = y /\ d = e)
  BY DEF Ledger, Tiling, Disjoint
<1>2. d \in Extents /\ d[2] > 0 /\ e \in Extents /\ e[2] > 0
  BY DEF Ledger, Tiling, Inside
<1> QED
  BY <1>1, <1>2, ApartEnds

(* Two adjacent pieces have the units of the piece they are merged to.      *)
LEMMA HasMerged ==
    ASSUME NEW d \in Extents, NEW e \in Extents, d[2] > 0, e[2] > 0, End(d) = e[1], NEW u \in Nat
    PROVE  Has(<<d[1], d[2] + e[2]>>, u) <=> Has(d, u) \/ Has(e, u)
<1>1. d[1] \in Nat /\ d[2] \in Nat /\ e[1] \in Nat /\ e[2] \in Nat
  BY ExtentType
<1> QED
  BY <1>1 DEF Has, End

(* A piece that is a whole region has no other piece within it.             *)
LEMMA OutsideWhole ==
    ASSUME NEW d \in Extents, NEW e \in Extents, d[2] > 0, e[2] > 0, Apart(d, e),
           NEW r, e[1] = r[1], End(e) = End(r)
    PROVE  ~Within(d, r)
<1>1. /\ d[1] \in Nat /\ d[2] \in Nat /\ e[1] \in Nat /\ e[2] \in Nat
      /\ End(d) = d[1] + d[2] /\ End(e) = e[1] + e[2]
  BY ExtentType DEF End
<1> QED
  BY <1>1 DEF Within, Apart

(* What the words must be when one piece comes to a place.                  *)
MyAt(b, e) == IF b = FREE THEN e[2] ELSE MyWord(b)
OneWords(b, e, my, my2, left, left2, lt, lt2) ==
    /\ my2 \in [Units -> Int] /\ left2 \in [Units -> Int]
    /\ my2[e[1]] = MyAt(b, e)
    /\ \A p \in Units : p # e[1] => my2[p] = my[p]
    /\ LoosePlace(b) => left2[End(e)] = e[2] \/ \E t \in Threads : lt2[t] = e
    /\ ~LoosePlace(b) => left2[End(e)] = LeftWord(b)
    /\ \A n \in Units : n # End(e) => left2[n] = left[n]
    /\ \A t \in Threads : lt2[t] = e => LoosePlace(b) /\ left2[End(e)] \in {Locked, Coal}
    /\ \A t \in Threads : lt2[t] = lt[t] \/ {lt[t], lt2[t]} \subseteq {e, NoExt}
    /\ \A t, u \in Threads : lt2[t] = e /\ lt2[u] = e => t = u

(* One piece goes from a place to a place, perhaps the same one.            *)
LEMMA MoveOne ==
    ASSUME NEW S, NEW S2, NEW R, NEW my, NEW my2, NEW left, NEW left2, NEW lt, NEW lt2,
           Ledger(S, my, left, lt, R),
           NEW a \in Places, NEW b \in Places, NEW e \in S[a], Moved(S, S2, a, e, b, e),
           OneWords(b, e, my, my2, left, left2, lt, lt2)
    PROVE  Ledger(S2, my2, left2, lt2, R)
<1> DEFINE Out == One(a, e)
           In  == One(b, e)
<1>o. \A x \in Places : \A d : d \in Out[x] <=> x = a /\ d = e
  BY DEF One
<1>i. \A x \in Places : \A d : d \in In[x] <=> x = b /\ d = e
  BY DEF One
<1> HIDE DEF Out, In
<1>e. /\ e \in Extents /\ e[1] \in Units /\ e[1] \in Nat /\ e[2] \in Nat /\ e[2] > 0
      /\ End(e) \in Units /\ End(e) \in Nat /\ e = <<e[1], e[2]>> /\ e # NoExt /\ End(e) = e[1] + e[2]
  BY PieceType
<1>w. /\ my2 \in [Units -> Int] /\ left2 \in [Units -> Int]
      /\ my2[e[1]] = IF b = FREE THEN e[2] ELSE MyWord(b)
      /\ \A p \in Units : p # e[1] => my2[p] = my[p]
      /\ IF LoosePlace(b) THEN left2[End(e)] = e[2] \/ \E t \in Threads : lt2[t] = e
                          ELSE left2[End(e)] = LeftWord(b)
      /\ \A n \in Units : n # End(e) => left2[n] = left[n]
  BY DEF OneWords, MyAt
<1>t. /\ \A t \in Threads : lt2[t] = e => LoosePlace(b) /\ left2[End(e)] \in {Locked, Coal}
      /\ \A t \in Threads : lt2[t] = lt[t] \/ {lt[t], lt2[t]} \subseteq {e, NoExt}
      /\ \A t, u \in Threads : lt2[t] = e /\ lt2[u] = e => t = u
  BY DEF OneWords
<1>1. Exchanged(S, S2, Out, In, R)
  <2>1. \E r \in R : Within(e, r)
    BY DEF Ledger, Tiling, Inside
  <2>2. Inside(In, R) /\ Disjoint(In)
    BY <1>i, <1>e, <2>1 DEF Inside, Disjoint
  <2>3. \A u \in Nat : Holds(Out, u) <=> Holds(In, u)
    BY <1>o, <1>i DEF Holds
  <2> QED
    BY <1>o, <1>i, <2>2, <2>3 DEF Exchanged, Moved
<1>2. WordsFollow(Out, In, my, my2, left, left2, lt, lt2)
  <2> USE <1>w, <1>t
  <2>1. \A p : Begin(Out, p) <=> p = e[1]
    BY <1>o DEF Begin
  <2>2. \A p : Begin(In, p) <=> p = e[1]
    BY <1>i DEF Begin
  <2>3. \A p : Finish(Out, p) <=> p = End(e)
    BY <1>o DEF Finish
  <2>4. \A p : Finish(In, p) <=> p = End(e)
    BY <1>i DEF Finish
  <2>5. \A d : IsLoose(In, d) <=> d = e /\ LoosePlace(b)
    BY <1>i DEF IsLoose
  <2>6. MyRight(In, my2)
    BY <1>i DEF MyRight
  <2>7. LeftRight(In, left2, lt2)
    BY <1>i DEF LeftRight
  <2>8. my2[e[1]] # EndMark /\ (my2[e[1]] > 0 => <<e[1], my2[e[1]]>> \in In[FREE])
    BY <1>i, <1>e, FreePlace, WordValues DEF EndMark, Locked, Coal
  <2>9. left2[End(e)] # 0 /\ (left2[End(e)] > 0 => IsLoose(In, <<End(e) - left2[End(e)], left2[End(e)]>>))
    <3>1. CASE LoosePlace(b) /\ left2[End(e)] = e[2]
      BY <3>1, <1>e, <2>5
    <3>2. CASE left2[End(e)] \in {Locked, Coal}
      BY <3>2 DEF Locked, Coal
    <3> QED
      BY <3>1, <3>2, WordValues
  <2>10. ASSUME NEW t \in Threads, lt2[t] # NoExt
         PROVE  \/ lt2[t] = lt[t] /\ ~Finish(Out, End(lt[t])) /\ ~Finish(In, End(lt[t]))
                \/ IsLoose(In, lt2[t]) /\ left2[End(lt2[t])] \in {Locked, Coal}
    <3>1. CASE lt2[t] = e
      BY <3>1, <2>5
    <3>2. CASE lt2[t] # e
      <4>1. lt2[t] = lt[t]
        BY <3>2, <2>10
      <4>2. PICK x \in Places : LoosePlace(x) /\ lt[t] \in S[x]
        BY <4>1, <2>10 DEF Ledger, SidesRight, IsLoose
      <4>3. End(lt[t]) # End(e)
        BY <4>1, <4>2, <3>2, SamePiece
      <4> QED
        BY <4>1, <4>3, <2>3, <2>4
    <3> QED
      BY <3>1, <3>2
  <2>11. \A t \in Threads : lt2[t] = lt[t] \/ Finish(Out, End(lt[t])) \/ lt[t] = NoExt
    BY <2>3
  <2>12. ASSUME NEW t \in Threads, NEW u \in Threads, lt2[t] # NoExt, lt2[t] = lt2[u]
         PROVE  t = u
    <3>1. CASE lt2[t] = e
      BY <3>1, <2>12
    <3>2. CASE lt2[t] # e
      <4>1. lt2[t] = lt[t] /\ lt2[u] = lt[u]
        BY <3>2, <2>12
      <4> QED
        BY <4>1, <2>12 DEF Ledger, SidesRight
    <3> QED
      BY <3>1, <3>2
  <2> QED
    BY <2>1, <2>2, <2>3, <2>4, <2>6, <2>7, <2>8, <2>9, <2>10, <2>11, <2>12 DEF WordsFollow
<1> QED
  BY <1>1, <1>2, Exchange

(* Two neighbours become one block, in a place whose words are Coal.        *)
LEMMA MergeTwo ==
    ASSUME NEW S, NEW S2, NEW R, NEW my, NEW my2, NEW left, NEW left2, NEW lt, NEW lt2,
           Ledger(S, my, left, lt, R),
           NEW a \in Places, NEW b \in Places, NEW c \in Places, NEW d \in S[a], NEW e \in S[b],
           End(d) = e[1], NEW f, f = <<d[1], d[2] + e[2]>>, Merged(S, S2, a, d, b, e, c, f),
           ~LoosePlace(b), ~LoosePlace(c), MyWord(c) = Coal, LeftWord(b) = Coal, LeftWord(c) = Coal,
           my2 \in [Units -> Int], left2 \in [Units -> Int],
           my2[d[1]] = Coal, my2[e[1]] = Junk,
           \A p \in Units : p # d[1] /\ p # e[1] => my2[p] = my[p],
           left2[e[1]] = Junk, \A n \in Units : n # e[1] => left2[n] = left[n],
           \A t \in Threads : lt2[t] # d,
           \A t \in Threads : lt2[t] = lt[t] \/ (lt[t] = d /\ lt2[t] = NoExt)
    PROVE  Ledger(S2, my2, left2, lt2, R)
<1> DEFINE Out == Two(a, d, b, e)
           In  == One(c, f)
<1>o. \A x \in Places : \A g : g \in Out[x] <=> (x = a /\ g = d) \/ (x = b /\ g = e)
  BY DEF Two
<1>i. \A x \in Places : \A g : g \in In[x] <=> x = c /\ g = f
  BY DEF One
<1> HIDE DEF Out, In
<1>d. /\ d \in Extents /\ d[1] \in Units /\ d[1] \in Nat /\ d[2] \in Nat /\ d[2] > 0 /\ End(d) = d[1] + d[2]
      /\ End(d) \in Units /\ d # NoExt
  BY PieceType
<1>e. /\ e \in Extents /\ e[1] \in Units /\ e[1] \in Nat /\ e[2] \in Nat /\ e[2] > 0 /\ End(e) = e[1] + e[2]
      /\ End(e) \in Units /\ e # NoExt
  BY PieceType
<1>f. f \in Extents /\ f[1] = d[1] /\ f[2] > 0 /\ f[2] \in Nat /\ End(f) = End(e)
  BY <1>d, <1>e DEF Extents, End
<1>1. Exchanged(S, S2, Out, In, R)
  <2>1. \E r \in R : Within(f, r)
    <3>1. PICK r \in R : Within(d, r)
      BY DEF Ledger, Tiling, Inside
    <3>2. PICK q \in R : Within(e, q)
      BY DEF Ledger, Tiling, Inside
    <3>3. r \in Regions /\ q \in Regions
      BY DEF Ledger, Tiling
    <3>5. /\ r[1] \in Nat /\ r[2] \in Nat /\ q[1] \in Nat /\ q[2] \in Nat
          /\ q = r \/ End(r) < q[1] \/ End(q) < r[1]
      BY <3>3, UnitsNat, BlocksAssumption DEF End
    <3>4. r = q
      BY <3>1, <3>2, <3>5, <1>d, <1>e DEF Within, End
    <3> QED
      BY <3>1, <3>2, <3>4, <1>f DEF Within
  <2>2. Inside(In, R) /\ Disjoint(In)
    BY <1>i, <1>f, <2>1 DEF Inside, Disjoint
  <2>3. ASSUME NEW u \in Nat PROVE Holds(Out, u) <=> Holds(In, u)
    <3>1. Holds(Out, u) <=> Has(d, u) \/ Has(e, u)
      BY <1>o DEF Holds
    <3>2. Holds(In, u) <=> Has(f, u)
      BY <1>i DEF Holds
    <3>5. Has(f, u) <=> Has(d, u) \/ Has(e, u)
      BY <1>d, <1>e, HasMerged
    <3> QED
      BY <3>1, <3>2, <3>5
  <2>4. \A x \in Places : Out[x] \subseteq S[x]
    BY <1>o
  <2>5. ASSUME NEW x \in Places, NEW g
        PROVE  g \in S2[x] <=> (g \in S[x] /\ g \notin Out[x]) \/ g \in In[x]
    <3>1. g \in S2[x] <=> \/ g \in S[x] /\ ~(x = a /\ g = d) /\ ~(x = b /\ g = e)
                          \/ x = c /\ g = f
      BY DEF Merged
    <3>2. g \in Out[x] <=> (x = a /\ g = d) \/ (x = b /\ g = e)
      BY <1>o
    <3>3. g \in In[x] <=> x = c /\ g = f
      BY <1>i
    <3> QED
      BY <3>1, <3>2, <3>3
  <2> QED
    BY <2>2, <2>3, <2>4, <2>5 DEF Exchanged
<1>2. WordsFollow(Out, In, my, my2, left, left2, lt, lt2)
  <2>1. \A p : Begin(Out, p) <=> p = d[1] \/ p = e[1]
    BY <1>o DEF Begin
  <2>2. \A p : Begin(In, p) <=> p = d[1]
    BY <1>i, <1>f DEF Begin
  <2>3. \A p : Finish(Out, p) <=> p = e[1] \/ p = End(e)
    BY <1>o DEF Finish
  <2>4. \A p : Finish(In, p) <=> p = End(e)
    BY <1>i, <1>f DEF Finish
  <2>l. left2[End(e)] = Coal
    BY <1>e DEF Ledger, LeftRight
  <2>6. MyRight(In, my2)
    BY <1>i, <1>f, FreePlace DEF MyRight
  <2>7. LeftRight(In, left2, lt2)
    BY <1>i, <1>f, <2>l DEF LeftRight
  <2>8. ASSUME NEW p, p = d[1] \/ p = e[1]
        PROVE  my2[p] # EndMark /\ ~(my2[p] > 0)
    BY <2>8 DEF EndMark, Coal, Junk
  <2>9. ASSUME NEW n, n = e[1] \/ n = End(e)
        PROVE  left2[n] # 0 /\ ~(left2[n] > 0)
    BY <2>9, <2>l DEF Coal, Junk
  <2>10. ASSUME NEW t \in Threads, lt2[t] # NoExt
         PROVE  lt2[t] = lt[t] /\ ~Finish(Out, End(lt[t])) /\ ~Finish(In, End(lt[t]))
    <3>1. lt2[t] = lt[t] /\ lt[t] # d
      BY <2>10
    <3>2. PICK x \in Places : LoosePlace(x) /\ lt[t] \in S[x]
      BY <3>1, <2>10 DEF Ledger, SidesRight, IsLoose
    <3>3. End(lt[t]) # End(e) /\ End(lt[t]) # End(d)
      BY <3>1, <3>2, SamePiece
    <3> QED
      BY <3>1, <3>3, <2>3, <2>4
  <2>11. \A t \in Threads : lt2[t] = lt[t] \/ Finish(Out, End(lt[t])) \/ lt[t] = NoExt
    BY <2>3
  <2>12. \A t, u \in Threads : lt2[t] # NoExt /\ lt2[t] = lt2[u] => t = u
    BY DEF Ledger, SidesRight
  <2>13. End(e) # e[1]
    BY <1>e
  <2> QED
    BY <2>1, <2>2, <2>3, <2>4, <2>6, <2>7, <2>8, <2>9, <2>10, <2>11, <2>12, <2>13 DEF WordsFollow
<1> QED
  BY <1>1, <1>2, Exchange

(* A block is cut in two.                                                   *)
LEMMA HalveOne ==
    ASSUME NEW S, NEW S2, NEW R, NEW my, NEW my2, NEW left, NEW left2, NEW lt,
           Ledger(S, my, left, lt, R),
           NEW a \in Places, NEW b \in Places, NEW c \in Places, NEW e \in S[a],
           NEW f, NEW g, NEW m \in Nat, m > 0, m < e[2], f = <<e[1], m>>, g = <<e[1] + m, e[2] - m>>,
           Halved(S, S2, a, e, b, f, c, g), ~LoosePlace(a), ~LoosePlace(c),
           my2 \in [Units -> Int], left2 \in [Units -> Int],
           my2[e[1]] = IF b = FREE THEN m ELSE MyWord(b), my2[e[1] + m] = MyWord(c),
           \A p \in Units : p # e[1] /\ p # e[1] + m => my2[p] = my[p],
           left2[e[1] + m] = IF LoosePlace(b) THEN m ELSE LeftWord(b), left2[End(e)] = LeftWord(c),
           \A n \in Units : n # e[1] + m /\ n # End(e) => left2[n] = left[n]
    PROVE  Ledger(S2, my2, left2, lt, R)
<1> DEFINE Out == One(a, e)
           In  == Two(b, f, c, g)
<1>o. \A x \in Places : \A d : d \in Out[x] <=> x = a /\ d = e
  BY DEF One
<1>i. \A x \in Places : \A d : d \in In[x] <=> (x = b /\ d = f) \/ (x = c /\ d = g)
  BY DEF Two
<1> HIDE DEF Out, In
<1>e. /\ e \in Extents /\ e[1] \in Units /\ e[1] \in Nat /\ e[2] \in Nat /\ e[2] > 0 /\ End(e) = e[1] + e[2]
      /\ End(e) \in Units /\ e # NoExt
  BY PieceType
<1>r. PICK r \in R : Within(e, r)
  BY DEF Ledger, Tiling, Inside
<1>f. /\ f[1] = e[1] /\ f[2] = m /\ g[1] = e[1] + m /\ g[2] = e[2] - m /\ g[2] \in Nat /\ g[2] > 0
      /\ End(f) = e[1] + m /\ End(g) = End(e) /\ e[1] + m \in Nat /\ e[1] + m < End(e) /\ e[1] < e[1] + m
  BY <1>e DEF End
<1>u. e[1] + m \in Units
  <2>1. r \in Regions
    BY DEF Ledger, Tiling
  <2>2. r[1] \in Nat /\ r[2] \in Nat /\ e[1] + m \in r[1] .. r[1] + r[2]
    BY <1>r, <2>1, <1>e, <1>f, UnitsNat DEF Within, End
  <2> QED
    BY <2>1, <2>2 DEF Units
<1>x. f \in Extents /\ g \in Extents
  BY <1>u, <1>e, <1>f DEF Extents
<1>1. Exchanged(S, S2, Out, In, R)
  <2>1. Within(f, r) /\ Within(g, r)
    <3>1. r[1] \in Nat /\ End(r) \in Nat
      BY UnitsNat DEF Ledger, Tiling
    <3> QED
      BY <1>r, <3>1, <1>e, <1>f DEF Within
  <2>a. Apart(f, g) /\ Apart(g, f)
    BY <1>f, <1>e DEF Apart
  <2>2. Inside(In, R) /\ Disjoint(In)
    BY <1>i, <1>f, <1>x, <2>1, <2>a DEF Inside, Disjoint
  <2>3. ASSUME NEW u \in Nat PROVE Holds(Out, u) <=> Holds(In, u)
    <3>1. Holds(Out, u) <=> Has(e, u)
      BY <1>o DEF Holds
    <3>2. Holds(In, u) <=> Has(f, u) \/ Has(g, u)
      BY <1>i DEF Holds
    <3>3. Has(e, u) <=> Has(f, u) \/ Has(g, u)
      BY <1>e, <1>f DEF Has
    <3> QED
      BY <3>1, <3>2, <3>3
  <2>4. \A x \in Places : Out[x] \subseteq S[x]
    BY <1>o
  <2>5. ASSUME NEW x \in Places, NEW d
        PROVE  d \in S2[x] <=> (d \in S[x] /\ d \notin Out[x]) \/ d \in In[x]
    <3>1. d \in S2[x] <=> \/ d \in S[x] /\ ~(x = a /\ d = e)
                          \/ (x = b /\ d = f) \/ (x = c /\ d = g)
      BY DEF Halved
    <3>2. d \in Out[x] <=> x = a /\ d = e
      BY <1>o
    <3>3. d \in In[x] <=> (x = b /\ d = f) \/ (x = c /\ d = g)
      BY <1>i
    <3> QED
      BY <3>1, <3>2, <3>3
  <2> QED
    BY <2>2, <2>3, <2>4, <2>5 DEF Exchanged
<1>2. WordsFollow(Out, In, my, my2, left, left2, lt, lt)
  <2>1. \A p : Begin(Out, p) <=> p = e[1]
    BY <1>o DEF Begin
  <2>2. \A p : Begin(In, p) <=> p = e[1] \/ p = e[1] + m
    BY <1>i, <1>f DEF Begin
  <2>3. \A p : Finish(Out, p) <=> p = End(e)
    BY <1>o DEF Finish
  <2>4. \A p : Finish(In, p) <=> p = e[1] + m \/ p = End(e)
    BY <1>i, <1>f DEF Finish
  <2>5. c # FREE
    BY FreePlace
  <2>6. MyRight(In, my2)
    BY <1>i, <1>f, <2>5 DEF MyRight
  <2>7. LeftRight(In, left2, lt)
    BY <1>i, <1>f DEF LeftRight
  <2>8. my2[e[1]] # EndMark /\ (my2[e[1]] > 0 => <<e[1], my2[e[1]]>> \in In[FREE])
    BY <1>i, <1>e, <1>f, FreePlace, WordValues DEF EndMark, Locked, Coal
  <2>9. my2[e[1] + m] # EndMark /\ ~(my2[e[1] + m] > 0)
    BY WordValues DEF EndMark, Locked, Coal
  <2>10. ASSUME NEW n \in Units, n = e[1] + m
         PROVE  left2[n] # 0 /\ (left2[n] > 0 => IsLoose(In, <<n - left2[n], left2[n]>>))
    <3>1. CASE LoosePlace(b)
      <4>1. left2[n] = m /\ n - m = e[1]
        BY <3>1, <2>10, <1>e
      <4>2. <<n - left2[n], left2[n]>> = f
        BY <4>1
      <4> QED
        BY <3>1, <4>1, <4>2, <1>i DEF IsLoose
    <3>2. CASE ~LoosePlace(b)
      BY <3>2, <2>10, WordValues DEF EndMark, Locked, Coal
    <3> QED
      BY <3>1, <3>2
  <2>11. left2[End(e)] # 0 /\ ~(left2[End(e)] > 0)
    BY WordValues DEF EndMark, Locked, Coal
  <2>12. ASSUME NEW t \in Threads, lt[t] # NoExt
         PROVE  ~Finish(Out, End(lt[t])) /\ ~Finish(In, End(lt[t]))
    <3>1. PICK x \in Places : LoosePlace(x) /\ lt[t] \in S[x]
      BY <2>12 DEF Ledger, SidesRight, IsLoose
    <3>2. lt[t] \notin Out[x]
      BY <3>1, <1>o
    <3>3. Tiling(S, R)
      BY DEF Ledger
    <3> QED
      BY <3>1, <3>2, <3>3, <1>1, Stays DEF Finish
  <2>13. \A t, u \in Threads : lt[t] # NoExt /\ lt[t] = lt[u] => t = u
    BY DEF Ledger, SidesRight
  <2>14. \A p \in Units : ~Begin(Out, p) /\ ~Begin(In, p) => my2[p] = my[p]
    BY <2>1, <2>2
  <2>15. \A n \in Units : ~Finish(Out, n) /\ ~Finish(In, n) => left2[n] = left[n]
    BY <2>3, <2>4
  <2>16. \A p \in Units : Begin(Out, p) \/ Begin(In, p) =>
             my2[p] # EndMark /\ (my2[p] > 0 => <<p, my2[p]>> \in In[FREE])
    BY <2>1, <2>2, <2>8, <2>9
  <2>17. \A n \in Units : Finish(Out, n) \/ Finish(In, n) =>
             left2[n] # 0 /\ (left2[n] > 0 => IsLoose(In, <<n - left2[n], left2[n]>>))
    <3> SUFFICES ASSUME NEW n \in Units, Finish(Out, n) \/ Finish(In, n)
                 PROVE  left2[n] # 0 /\ (left2[n] > 0 => IsLoose(In, <<n - left2[n], left2[n]>>))
      OBVIOUS
    <3>1. n = e[1] + m \/ n = End(e)
      BY <2>3, <2>4
    <3>2. CASE n = e[1] + m
      BY <3>2, <2>10
    <3>3. CASE n = End(e)
      BY <3>3, <2>11
    <3> QED
      BY <3>1, <3>2, <3>3
  <2> QED
    BY <2>6, <2>7, <2>12, <2>13, <2>14, <2>15, <2>16, <2>17 DEF WordsFollow
<1> QED
  BY <1>1, <1>2, Exchange

(* A set of pieces, all used or all out of sight, takes the place of        *)
(* another in the same units.                                               *)
LEMMA Replace ==
    ASSUME NEW S, NEW S2, NEW Out, NEW In, NEW R, NEW my, NEW my2, NEW left, NEW left2, NEW lt,
           Ledger(S, my, left, lt, R), Exchanged(S, S2, Out, In, R),
           my2 \in [Units -> Int], left2 \in [Units -> Int],
           \A x \in Places : LoosePlace(x) => Out[x] = {} /\ In[x] = {},
           \A x \in Places : \A e \in In[x] : my2[e[1]] = MyWord(x) /\ left2[End(e)] = LeftWord(x),
           \A p \in Units : ~Begin(In, p) => my2[p] = my[p],
           \A n \in Units : ~Finish(In, n) => left2[n] = left[n],
           \A x \in Places : \A e \in Out[x] : Begin(In, e[1]) /\ Finish(In, End(e))
    PROVE  Ledger(S2, my2, left2, lt, R)
<1>1. \A p : Begin(Out, p) => Begin(In, p)
  BY DEF Begin
<1>2. \A n : Finish(Out, n) => Finish(In, n)
  BY DEF Finish
<1>3. MyRight(In, my2) /\ LeftRight(In, left2, lt)
  BY FreePlace DEF MyRight, LeftRight
<1>4. \A p : Begin(In, p) => my2[p] # EndMark /\ ~(my2[p] > 0)
  BY WordValues DEF Begin, EndMark, Locked, Coal
<1>5. \A n : Finish(In, n) => left2[n] # 0 /\ ~(left2[n] > 0)
  BY WordValues DEF Finish, EndMark, Locked, Coal
<1>6. ASSUME NEW t \in Threads, lt[t] # NoExt
      PROVE  ~Finish(Out, End(lt[t])) /\ ~Finish(In, End(lt[t]))
  <2>1. PICK x \in Places : LoosePlace(x) /\ lt[t] \in S[x]
    BY <1>6 DEF Ledger, SidesRight, IsLoose
  <2>2. lt[t] \notin Out[x]
    BY <2>1
  <2>3. Tiling(S, R)
    BY DEF Ledger
  <2> QED
    BY <2>1, <2>2, <2>3, Stays DEF Finish
<1>7. \A t, u \in Threads : lt[t] # NoExt /\ lt[t] = lt[u] => t = u
  BY DEF Ledger, SidesRight
<1>8. WordsFollow(Out, In, my, my2, left, left2, lt, lt)
  BY <1>1, <1>2, <1>3, <1>4, <1>5, <1>6, <1>7 DEF WordsFollow
<1> QED
  BY <1>8, Exchange

(* Nothing that the ledger shows has changed.                               *)
LEMMA Same ==
    ASSUME NEW S, NEW S2, NEW R, NEW my, NEW left, NEW lt, NEW lt2, Ledger(S, my, left, lt, R),
           \A x \in Places : S2[x] = S[x], \A t \in Threads : lt2[t] = lt[t]
    PROVE  Ledger(S2, my, left, lt2, R)
<1>1. Tiling(S2, R)
  BY DEF Ledger, Tiling, Inside, Disjoint, Covers, Holds
<1>2. MyRight(S2, my) /\ LeftRight(S2, left, lt2) /\ SidesRight(S2, left, lt2)
  <2>1. \A e : IsLoose(S2, e) <=> IsLoose(S, e)
    BY DEF IsLoose
  <2> QED
    BY <2>1 DEF Ledger, MyRight, LeftRight, SidesRight
<1>3. \A e : IsLoose(S2, e) <=> IsLoose(S, e)
  BY DEF IsLoose
<1> QED
  BY <1>1, <1>2, <1>3, FreePlace DEF Ledger

(* A piece that is a whole region leaves with the region.                   *)
LEMMA Drop ==
    ASSUME NEW S, NEW S2, NEW R, NEW my, NEW my2, NEW left, NEW left2, NEW lt,
           Ledger(S, my, left, lt, R),
           NEW a \in Places, NEW e \in S[a], NEW r \in R, e[1] = r[1], End(e) = End(r),
           ~LoosePlace(a),
           \A x \in Places : \A d : d \in S2[x] <=> d \in S[x] /\ ~(x = a /\ d = e),
           my2 = [p \in Units |-> IF p \in r[1] .. End(r) THEN Junk ELSE my[p]],
           left2 = [p \in Units |-> IF p \in r[1] .. End(r) THEN Junk ELSE left[p]]
    PROVE  Ledger(S2, my2, left2, lt, R \ {r})
<1>e. /\ e \in Extents /\ e[1] \in Nat /\ e[2] \in Nat /\ e[2] > 0 /\ End(e) \in Nat /\ End(e) = e[1] + e[2]
  BY PieceType
<1>r. r[1] \in Nat /\ r[2] \in Nat /\ End(r) \in Nat /\ R \subseteq Regions /\ r \in Regions
  BY UnitsNat DEF Ledger, Tiling
<1>q. ASSUME NEW q \in R, q # r PROVE q[1] \in Nat /\ End(q) \in Nat /\ (End(q) < r[1] \/ End(r) < q[1])
                                      /\ q[1] <= End(q)
  <2>1. q \in Regions
    BY <1>r
  <2>2. q[1] \in Nat /\ q[2] \in Nat /\ (End(r) < q[1] \/ End(q) < r[1])
    BY <1>q, <2>1, <1>r, UnitsNat, BlocksAssumption DEF End
  <2> QED
    BY <2>2 DEF End
<1>s. ASSUME NEW x \in Places, NEW d \in S2[x]
      PROVE  /\ d \in S[x] /\ d \in Extents /\ d[2] > 0 /\ d[1] \in Units /\ End(d) \in Units
             /\ \E q \in R \ {r} : Within(d, q)
             /\ d[1] \notin r[1] .. End(r) /\ End(d) \notin r[1] .. End(r)
  <2>1. d \in S[x] /\ ~(x = a /\ d = e)
    OBVIOUS
  <2>2. /\ d \in Extents /\ d[1] \in Units /\ d[1] \in Nat /\ d[2] \in Nat /\ d[2] > 0
        /\ End(d) \in Units /\ End(d) \in Nat /\ d[1] < End(d)
    BY <2>1, PieceType
  <2>3. Apart(d, e)
    BY <2>1 DEF Ledger, Tiling, Disjoint
  <2>4. PICK q \in R : Within(d, q)
    BY <2>1 DEF Ledger, Tiling, Inside
  <2>5. q # r
    BY <2>2, <2>3, <2>4, <1>e, OutsideWhole
  <2>6. q[1] \in Nat /\ End(q) \in Nat /\ (End(q) < r[1] \/ End(r) < q[1])
    BY <1>q, <2>5
  <2>7. d[1] \notin r[1] .. End(r) /\ End(d) \notin r[1] .. End(r)
    BY <2>2, <2>4, <2>6, <1>r DEF Within
  <2> QED
    BY <2>1, <2>2, <2>4, <2>5, <2>7
<1>w. ASSUME NEW x \in Places, NEW d \in S2[x]
      PROVE  my2[d[1]] = my[d[1]] /\ left2[End(d)] = left[End(d)]
  BY <1>s
<1>k. ASSUME NEW x \in Places, NEW d \in S[x], d[1] \notin r[1] .. End(r) \/ End(d) \notin r[1] .. End(r)
      PROVE  d \in S2[x]
  BY <1>k, <1>e, <1>r
<1>1. Tiling(S2, R \ {r})
  <2>1. Inside(S2, R \ {r})
    BY <1>s DEF Inside
  <2>2. Disjoint(S2)
    BY DEF Ledger, Tiling, Disjoint
  <2>3. Covers(S2, R \ {r})
    <3> SUFFICES ASSUME NEW q \in R, q # r, NEW u \in q[1] .. End(q) - 1 PROVE Holds(S2, u)
      BY DEF Covers
    <3>1. PICK x \in Places : \E d \in S[x] : Has(d, u)
      BY DEF Ledger, Tiling, Covers, Holds
    <3>2. PICK d \in S[x] : Has(d, u)
      BY <3>1
    <3>3. d # e
      BY <3>2, <1>q, <1>e, <1>r DEF Has
    <3> QED
      BY <3>2, <3>3 DEF Holds
  <2> QED
    BY <2>1, <2>2, <2>3, <1>r DEF Tiling
<1>l. ASSUME NEW d, IsLoose(S, d) PROVE IsLoose(S2, d)
  BY <1>l DEF IsLoose
<1>2. MyRight(S2, my2)
  BY <1>s, <1>w DEF MyRight, Ledger
<1>3. \A p \in Units : my2[p] > 0 => <<p, my2[p]>> \in S2[FREE]
  <2> SUFFICES ASSUME NEW p \in Units, my2[p] > 0 PROVE <<p, my2[p]>> \in S2[FREE]
    OBVIOUS
  <2>1. p \notin r[1] .. End(r) /\ my2[p] = my[p]
    BY DEF Junk
  <2>2. <<p, my[p]>> \in S[FREE]
    BY <2>1 DEF Ledger
  <2> QED
    BY <2>1, <2>2, FreePlace
<1>4. LeftRight(S2, left2, lt)
  BY <1>s, <1>w DEF LeftRight, Ledger
<1>5. \A n \in Units : left2[n] # 0 /\ (left2[n] > 0 => IsLoose(S2, <<n - left2[n], left2[n]>>))
  BY <1>l DEF Junk, Ledger
<1>6. SidesRight(S2, left2, lt)
  <2>1. ASSUME NEW t \in Threads, lt[t] # NoExt
        PROVE  IsLoose(S2, lt[t]) /\ left2[End(lt[t])] \in {Locked, Coal}
    <3>1. IsLoose(S2, lt[t]) /\ left[End(lt[t])] \in {Locked, Coal}
      BY <2>1, <1>l DEF Ledger, SidesRight
    <3> QED
      BY <3>1, <1>w DEF IsLoose
  <2> QED
    BY <2>1 DEF SidesRight, Ledger
<1>7. EdgesRight(my2, left2, R \ {r})
  <2> SUFFICES ASSUME NEW q \in R, q # r PROVE left2[q[1]] = Locked /\ my2[End(q)] = EndMark
    BY DEF EdgesRight
  <2>1. q[1] \in Units /\ End(q) \in Units
    BY <1>r, UnitsNat
  <2>2. q[1] \notin r[1] .. End(r) /\ End(q) \notin r[1] .. End(r)
    BY <1>q, <1>r
  <2> QED
    BY <2>1, <2>2 DEF Ledger, EdgesRight
<1>8. \A p \in Units : my2[p] = EndMark => \E q \in R \ {r} : p = End(q)
  <2> SUFFICES ASSUME NEW p \in Units, my2[p] = EndMark PROVE \E q \in R \ {r} : p = End(q)
    OBVIOUS
  <2>1. p \notin r[1] .. End(r) /\ my[p] = EndMark
    BY DEF Junk, EndMark
  <2>2. PICK q \in R : p = End(q)
    BY <2>1 DEF Ledger
  <2>3. End(r) \in r[1] .. End(r)
    BY <1>e, <1>r
  <2>4. q # r
    BY <2>1, <2>2, <2>3
  <2> QED
    BY <2>2, <2>4
<1>9. my2 \in [Units -> Int] /\ left2 \in [Units -> Int]
  BY DEF Ledger, Junk
<1> QED
  BY <1>1, <1>2, <1>3, <1>4, <1>5, <1>6, <1>7, <1>8, <1>9 DEF Ledger

-----------------------------------------------------------------------------
(* The ledger of SvmBlocks when one thread takes a step.                    *)

(* The other threads keep their local variables.                            *)
Mine(t)     == \A u \in Threads \ {t} : th'[u] = th[u]

(* The places are the free memory, the blocks in use, the queue and the     *)
(* places of each thread, all different.                                    *)
LEMMA PlaceNames ==
    /\ FREE \in Places /\ USED \in Places /\ QUEUE \in Places
    /\ FREE # USED /\ FREE # QUEUE /\ USED # QUEUE
    /\ \A k \in Private : \A t \in Threads :
           <<k, t>> \in Places /\ <<k, t>> \notin {FREE, USED, QUEUE}
    /\ \A x \in Places : \/ x \in {FREE, USED, QUEUE}
                         \/ \E k \in Private : \E t \in Threads : x = <<k, t>>
  BY DEF Places, FREE, USED, QUEUE, Shared, Private

(* What is in each place.                                                   *)
LEMMA ContentsAt ==
    /\ Contents[FREE] = Free /\ Contents[USED] = used /\ Contents[QUEUE] = Queued
    /\ \A k \in Private : \A t \in Threads : Contents[<<k, t>>] = Keeps(k, t)
<1>1. /\ Contents[FREE] = Free /\ Contents[USED] = used /\ Contents[QUEUE] = Queued
  BY PlaceNames DEF Contents
<1>2. ASSUME NEW k \in Private, NEW t \in Threads PROVE Contents[<<k, t>>] = Keeps(k, t)
  BY PlaceNames DEF Contents
<1> QED
  BY <1>1, <1>2

(* What is in each place after a step.                                      *)
LEMMA ContentsNext ==
    /\ Contents'[FREE] = Free' /\ Contents'[USED] = used' /\ Contents'[QUEUE] = Queued'
    /\ \A k \in Private : \A t \in Threads : Contents'[<<k, t>>] = Keeps(k, t)'
<1>1. /\ Contents'[FREE] = Free' /\ Contents'[USED] = used' /\ Contents'[QUEUE] = Queued'
  BY PlaceNames DEF Contents
<1>2. ASSUME NEW k \in Private, NEW t \in Threads PROVE Contents'[<<k, t>>] = Keeps(k, t)'
  BY PlaceNames DEF Contents
<1> QED
  BY <1>1, <1>2

(* What a thread keeps depends on its own variables only.                   *)
LEMMA OthersKeep ==
    ASSUME NEW t \in Threads, Mine(t), NEW u \in Threads, u # t
    PROVE  /\ \A k \in Private : Keeps(k, u)' = Keeps(k, u)
           /\ Side(u)' = Side(u)
<1>1. th'[u] = th[u]
  BY DEF Mine
<1> QED
  BY <1>1 DEF Keeps, Side, Piece, Right, InList, blk, pc, Current

(* A thread moves one piece.                                                *)
LEMMA ThreadMoves ==
    ASSUME NEW t \in Threads, Mine(t), NEW a, NEW b, NEW e,
           \A u \in Threads : \A k \in Private : u # t => a # <<k, u>> /\ b # <<k, u>>,
           \A d : d \in Free' <=> (d \in Free /\ ~(a = FREE /\ d = e)) \/ (b = FREE /\ d = e),
           \A d : d \in used' <=> (d \in used /\ ~(a = USED /\ d = e)) \/ (b = USED /\ d = e),
           \A d : d \in Queued' <=> (d \in Queued /\ ~(a = QUEUE /\ d = e)) \/ (b = QUEUE /\ d = e),
           \A k \in Private : \A d : d \in Keeps(k, t)' <=>
               (d \in Keeps(k, t) /\ ~(a = <<k, t>> /\ d = e)) \/ (b = <<k, t>> /\ d = e)
    PROVE  Moved(Contents, Contents', a, e, b, e)
<1> SUFFICES ASSUME NEW x \in Places, NEW d
             PROVE  d \in Contents'[x] <=> (d \in Contents[x] /\ ~(x = a /\ d = e)) \/ (x = b /\ d = e)
  BY DEF Moved
<1>1. CASE x = FREE
  BY <1>1, ContentsAt, ContentsNext
<1>2. CASE x = USED
  BY <1>2, ContentsAt, ContentsNext
<1>3. CASE x = QUEUE
  BY <1>3, ContentsAt, ContentsNext
<1>4. ASSUME NEW k \in Private, NEW u \in Threads, x = <<k, u>>
      PROVE  d \in Contents'[x] <=> (d \in Contents[x] /\ ~(x = a /\ d = e)) \/ (x = b /\ d = e)
  <2>1. Contents[x] = Keeps(k, u) /\ Contents'[x] = Keeps(k, u)'
    BY <1>4, ContentsAt, ContentsNext
  <2>2. CASE u = t
    BY <1>4, <2>1, <2>2
  <2>3. CASE u # t
    BY <1>4, <2>1, <2>3, OthersKeep
  <2> QED
    BY <2>2, <2>3
<1> QED
  BY <1>1, <1>2, <1>3, <1>4, PlaceNames

(* The words that each place calls for.                                     *)
LEMMA PlaceKinds ==
    /\ LoosePlace(FREE) /\ ~LoosePlace(USED) /\ ~LoosePlace(QUEUE)
    /\ MyWord(USED) = Locked /\ MyWord(QUEUE) = Locked
    /\ LeftWord(USED) = Locked /\ LeftWord(QUEUE) = Locked
    /\ \A t : \A k \in Private :
           /\ LoosePlace(<<k, t>>) <=> k \in {"half", "tried"}
           /\ MyWord(<<k, t>>) = IF k \in {"fresh", "blk", "half", "right"} THEN Coal ELSE Locked
           /\ LeftWord(<<k, t>>) = IF k \in {"blk", "marked", "right"} THEN Coal ELSE Locked
  BY DEF LoosePlace, MyWord, LeftWord, FREE, USED, QUEUE, Private

(* A write to a word that decides where free blocks begin.                  *)
LEMMA FreeWrite ==
    ASSUME myL \in [Units -> Int], NEW p \in Units, NEW w \in Int, myL' = [myL EXCEPT ![p] = w]
    PROVE  \A d : d \in Free' <=> \/ d \in Free /\ ~(myL[p] > 0 /\ d = <<p, myL[p]>>)
                                  \/ w > 0 /\ d = <<p, w>>
<1>1. \A d : d \in Free <=> \E q \in Units : myL[q] > 0 /\ d = <<q, myL[q]>>
  BY DEF Free, EndMark
<1>2. \A d : d \in Free' <=> \E q \in Units : myL'[q] > 0 /\ d = <<q, myL'[q]>>
  BY DEF Free, EndMark
<1>3. \A q \in Units : myL'[q] = IF q = p THEN w ELSE myL[q]
  OBVIOUS
<1> QED
  BY <1>1, <1>2, <1>3

(* Free memory changes with the left words only.                            *)
LEMMA FreeKept == ASSUME myL' = myL PROVE Free' = Free
  BY DEF Free

Reach(t)           == {FREE, USED, QUEUE} \cup {<<k, t>> : k \in Private}
MineMoves(t, a, b, e) ==
    \A k \in Private : \A d : d \in Keeps(k, t)' <=> \/ d \in Keeps(k, t) /\ ~(a = <<k, t>> /\ d = e)
                                                     \/ b = <<k, t>> /\ d = e
OursMoves(a, b, e) ==
    /\ \A d : d \in used' <=> (d \in used /\ ~(a = USED /\ d = e)) \/ (b = USED /\ d = e)
    /\ \A d : d \in Queued' <=> (d \in Queued /\ ~(a = QUEUE /\ d = e)) \/ (b = QUEUE /\ d = e)

(* When a thread moves one extent between places it may reach, no other     *)
(* extent changes places.                                                   *)
LEMMA Moves1 ==
    ASSUME NEW t \in Threads, Mine(t), NEW a \in Reach(t), NEW b \in Reach(t), NEW e,
           \A d : d \in Free' <=> (d \in Free /\ ~(a = FREE /\ d = e)) \/ (b = FREE /\ d = e),
           OursMoves(a, b, e), MineMoves(t, a, b, e)
    PROVE  Moved(Contents, Contents', a, e, b, e)
<1>1. \A u \in Threads : \A k \in Private : u # t => a # <<k, u>> /\ b # <<k, u>>
  BY PlaceNames DEF Reach
<1> QED
  BY <1>1, ThreadMoves DEF OursMoves, MineMoves

(* A thread's step changes the sides that it has locked itself only.        *)
LEMMA SidesNext ==
    ASSUME NEW t \in Threads, Mine(t)
    PROVE  /\ \A u \in Threads : Sides[u] = Side(u) /\ Sides'[u] = Side(u)'
           /\ \A u \in Threads : u # t => Sides'[u] = Sides[u]
  BY OthersKeep DEF Sides

(* A thread reaches the shared places and its own.                          *)
LEMMA Reached == \A t \in Threads : Reach(t) \subseteq Places
  BY PlaceNames DEF Reach

Shift(t, a, b, e) == /\ Mine(t) /\ a \in Reach(t) /\ b \in Reach(t) /\ e \in Contents[a]
                     /\ OursMoves(a, b, e) /\ MineMoves(t, a, b, e) /\ regions' = regions

(* What the ledger says of an extent that a thread moves.                   *)
LEMMA ShiftType ==
    ASSUME LedgerOK, NEW t \in Threads, NEW a, NEW b, NEW e, Shift(t, a, b, e)
    PROVE  /\ a \in Places /\ b \in Places /\ e[1] \in Units /\ End(e) \in Units /\ e = <<e[1], e[2]>>
           /\ e[1] \in Nat /\ e[2] \in Nat /\ e[2] > 0 /\ e # NoExt /\ e \in Extents
           /\ myL \in [Units -> Int] /\ leftL \in [Units -> Int]
           /\ myL[e[1]] = MyAt(a, e)
           /\ ~LoosePlace(a) => leftL[End(e)] = LeftWord(a)
           /\ \A u \in Threads : Sides[u] = e => LoosePlace(a) /\ leftL[End(e)] \in {Locked, Coal}
           /\ \A u, v \in Threads : Sides[u] = e /\ Sides[v] = e => u = v
           /\ LoosePlace(a) => leftL[End(e)] = e[2] \/ \E u \in Threads : Sides[u] = e
<1> HIDE DEF Contents, Sides
<1>1. a \in Places /\ b \in Places /\ e \in Contents[a]
  BY Reached DEF Shift
<1>2. /\ e[1] \in Units /\ End(e) \in Units /\ e = <<e[1], e[2]>>
      /\ e[1] \in Nat /\ e[2] \in Nat /\ e[2] > 0 /\ e # NoExt /\ e \in Extents
  BY <1>1, PieceType DEF LedgerOK
<1>3. /\ myL \in [Units -> Int] /\ leftL \in [Units -> Int]
      /\ myL[e[1]] = MyAt(a, e)
      /\ ~LoosePlace(a) => leftL[End(e)] = LeftWord(a)
      /\ LoosePlace(a) => leftL[End(e)] = e[2] \/ \E u \in Threads : Sides[u] = e
  BY <1>1 DEF LedgerOK, Ledger, MyRight, LeftRight, MyAt
<1>4. ASSUME NEW u \in Threads, Sides[u] = e
      PROVE  LoosePlace(a) /\ leftL[End(e)] \in {Locked, Coal}
  <2>1. leftL[End(e)] \in {Locked, Coal} /\ IsLoose(Contents, e)
    BY <1>2, <1>4 DEF LedgerOK, Ledger, SidesRight
  <2>2. PICK x \in Places : LoosePlace(x) /\ e \in Contents[x]
    BY <2>1 DEF IsLoose
  <2> QED
    BY <2>1, <2>2, <1>1, SamePiece DEF LedgerOK
<1>5. \A u, v \in Threads : Sides[u] = e /\ Sides[v] = e => u = v
  BY <1>2 DEF LedgerOK, Ledger, SidesRight
<1> QED
  BY <1>1, <1>2, <1>3, <1>4, <1>5

(* What it means for the free blocks when a piece moves.                    *)
LEMMA ShiftFree ==
    ASSUME LedgerOK, NEW t \in Threads, NEW a, NEW b, NEW e, Shift(t, a, b, e),
           \/ myL' = myL /\ (a = FREE <=> b = FREE)
           \/ myL' = [myL EXCEPT ![e[1]] = MyAt(b, e)]
    PROVE  Moved(Contents, Contents', a, e, b, e)
<1> DEFINE w == MyAt(b, e)
<1>1. /\ a \in Places /\ b \in Places /\ e[1] \in Units /\ End(e) \in Units /\ e = <<e[1], e[2]>>
      /\ e[1] \in Nat /\ e[2] \in Nat /\ e[2] > 0 /\ e # NoExt
      /\ myL \in [Units -> Int] /\ myL[e[1]] = MyAt(a, e)
  BY ShiftType
<1>3. \A x : MyWord(x) \in Int /\ ~(MyWord(x) > 0)
  BY WordValues DEF Locked, Coal
<1>4. w \in Int /\ (w > 0 <=> b = FREE) /\ (myL[e[1]] > 0 <=> a = FREE)
  BY <1>1, <1>3 DEF MyAt
<1>5. \A d : d \in Free' <=> (d \in Free /\ ~(a = FREE /\ d = e)) \/ (b = FREE /\ d = e)
  <2>1. CASE myL' = myL /\ (a = FREE <=> b = FREE)
    <3>1. Free' = Free
      BY <2>1, FreeKept
    <3>2. a = FREE => e \in Free
      BY ContentsAt DEF Shift
    <3> QED
      BY <2>1, <3>1, <3>2
  <2>2. CASE myL' = [myL EXCEPT ![e[1]] = w]
    <3>1. \A d : d \in Free' <=> \/ d \in Free /\ ~(myL[e[1]] > 0 /\ d = <<e[1], myL[e[1]]>>)
                                 \/ w > 0 /\ d = <<e[1], w>>
      BY <2>2, <1>1, <1>4, FreeWrite
    <3>2. a = FREE => <<e[1], myL[e[1]]>> = e
      BY <1>1 DEF MyAt
    <3>3. b = FREE => <<e[1], w>> = e
      BY <1>1 DEF MyAt
    <3> HIDE DEF w
    <3> QED
      BY <3>1, <3>2, <3>3, <1>4
  <2> QED
    BY <2>1, <2>2
<1> QED
  BY <1>5, Moves1 DEF Shift

MyWritten(a, b, e) ==
    \/ myL' = myL /\ (a = FREE <=> b = FREE) /\ (b # FREE => MyWord(a) = MyWord(b))
    \/ myL' = [myL EXCEPT ![e[1]] = MyAt(b, e)]

(* A move that writes the word of its extent only, writes the one its new   *)
(* place calls for.                                                         *)
LEMMA ShiftWords ==
    ASSUME LedgerOK, NEW t \in Threads, NEW a, NEW b, NEW e, Shift(t, a, b, e),
           MyWritten(a, b, e)
    PROVE  /\ Moved(Contents, Contents', a, e, b, e)
           /\ myL' \in [Units -> Int]
           /\ myL'[e[1]] = MyAt(b, e)
           /\ \A p \in Units : p # e[1] => myL'[p] = myL[p]
<1> DEFINE w == MyAt(b, e)
<1>1. /\ e[1] \in Units /\ e[2] \in Nat /\ myL \in [Units -> Int]
      /\ myL[e[1]] = MyAt(a, e)
  BY ShiftType
<1>2. Moved(Contents, Contents', a, e, b, e)
  BY ShiftFree DEF MyWritten
<1>3. w \in Int
  BY <1>1, WordValues DEF Locked, Coal, MyAt
<1>4. CASE myL' = myL /\ (a = FREE <=> b = FREE) /\ (b # FREE => MyWord(a) = MyWord(b))
  <2>1. myL'[e[1]] = w
    BY <1>1, <1>4 DEF MyAt
  <2> QED
    BY <1>1, <1>2, <1>4, <2>1
<1>5. CASE myL' = [myL EXCEPT ![e[1]] = w]
  <2> HIDE DEF w
  <2>1. myL' \in [Units -> Int] /\ myL'[e[1]] = w /\ \A p \in Units : p # e[1] => myL'[p] = myL[p]
    BY <1>1, <1>3, <1>5
  <2> USE DEF w
  <2> QED
    BY <1>2, <2>1
<1> QED
  BY <1>4, <1>5 DEF MyWritten

(* A right side written, or left alone when it has its value already.       *)
LEMMA LeftWrite ==
    ASSUME leftL \in [Units -> Int], NEW n \in Units, NEW w \in Int,
           \/ leftL' = leftL /\ leftL[n] = w
           \/ leftL' = [leftL EXCEPT ![n] = w]
    PROVE  /\ leftL' \in [Units -> Int] /\ leftL'[n] = w
           /\ \A m \in Units : m # n => leftL'[m] = leftL[m]
  OBVIOUS

(* A block goes from one place to another, both with a fixed word on each   *)
(* side.                                                                    *)
LEMMA Rename ==
    ASSUME LedgerOK, NEW t \in Threads, NEW a, NEW b, NEW e, Shift(t, a, b, e),
           ~LoosePlace(a), ~LoosePlace(b), Side(t)' = Side(t),
           (myL' = myL /\ MyWord(a) = MyWord(b)) \/ myL' = [myL EXCEPT ![e[1]] = MyAt(b, e)],
           \/ leftL' = leftL /\ LeftWord(a) = LeftWord(b)
           \/ leftL' = [leftL EXCEPT ![End(e)] = LeftWord(b)]
    PROVE  LedgerOK'
<1>0. a # FREE /\ b # FREE
  BY PlaceKinds
<1>1. /\ a \in Places /\ b \in Places /\ End(e) \in Units /\ e \in Contents[a]
      /\ leftL \in [Units -> Int] /\ leftL[End(e)] = LeftWord(a)
      /\ \A u \in Threads : Sides[u] # e
  BY ShiftType DEF Shift
<1>2. /\ Moved(Contents, Contents', a, e, b, e)
      /\ myL' \in [Units -> Int] /\ myL'[e[1]] = MyAt(b, e)
      /\ \A p \in Units : p # e[1] => myL'[p] = myL[p]
  BY <1>0, ShiftWords DEF MyWritten
<1>3. LeftWord(b) \in Int
  BY WordValues DEF Locked, Coal
<1>4. /\ leftL' \in [Units -> Int] /\ leftL'[End(e)] = LeftWord(b)
      /\ \A n \in Units : n # End(e) => leftL'[n] = leftL[n]
  BY <1>1, <1>3, LeftWrite
<1>5. \A u \in Threads : Sides'[u] = Sides[u]
  BY SidesNext DEF Shift
<1> HIDE DEF Contents, Sides
<1>6. OneWords(b, e, myL, myL', leftL, leftL', Sides, Sides')
  BY <1>1, <1>2, <1>4, <1>5 DEF OneWords
<1> QED
  BY <1>1, <1>2, <1>6, MoveOne DEF LedgerOK, Shift

(* The own side of a free block is locked, or given back.                   *)
LEMMA TakeHalf ==
    ASSUME LedgerOK, NEW t \in Threads, NEW a, NEW b, NEW e, Shift(t, a, b, e),
           LoosePlace(a), LoosePlace(b), Side(t)' = Side(t),
           myL' = [myL EXCEPT ![e[1]] = MyAt(b, e)], leftL' = leftL
    PROVE  LedgerOK'
<1>1. /\ a \in Places /\ b \in Places /\ End(e) \in Units /\ e \in Contents[a]
      /\ leftL \in [Units -> Int]
      /\ leftL[End(e)] = e[2] \/ \E u \in Threads : Sides[u] = e
      /\ \A u \in Threads : Sides[u] = e => leftL[End(e)] \in {Locked, Coal}
      /\ \A u, v \in Threads : Sides[u] = e /\ Sides[v] = e => u = v
  BY ShiftType DEF Shift
<1>w. MyWritten(a, b, e)
  BY DEF MyWritten
<1>2. /\ Moved(Contents, Contents', a, e, b, e)
      /\ myL' \in [Units -> Int] /\ myL'[e[1]] = MyAt(b, e)
      /\ \A p \in Units : p # e[1] => myL'[p] = myL[p]
  BY <1>w, ShiftWords
<1>5. \A u \in Threads : Sides'[u] = Sides[u]
  BY SidesNext DEF Shift
<1> HIDE DEF Contents, Sides
<1>6. OneWords(b, e, myL, myL', leftL, leftL', Sides, Sides')
  BY <1>1, <1>2, <1>5 DEF OneWords
<1> QED
  BY <1>1, <1>2, <1>6, MoveOne DEF LedgerOK, Shift

(* The other side of a free block is locked too, which nobody else had.     *)
LEMMA LockOther ==
    ASSUME LedgerOK, NEW t \in Threads, NEW a, NEW b, NEW e, Shift(t, a, b, e),
           LoosePlace(a), ~LoosePlace(b), a # FREE, MyWord(a) = MyWord(b), Side(t)' = Side(t),
           myL' = myL, leftL[End(e)] > Coal, leftL' = [leftL EXCEPT ![End(e)] = LeftWord(b)]
    PROVE  LedgerOK'
<1>1. /\ a \in Places /\ b \in Places /\ End(e) \in Units /\ e \in Contents[a]
      /\ leftL \in [Units -> Int]
      /\ \A u \in Threads : Sides[u] = e => leftL[End(e)] \in {Locked, Coal}
  BY ShiftType DEF Shift
<1>0. b # FREE /\ \A u \in Threads : Sides[u] # e
  BY <1>1, PlaceKinds DEF Locked, Coal
<1>2. /\ Moved(Contents, Contents', a, e, b, e)
      /\ myL' \in [Units -> Int] /\ myL'[e[1]] = MyAt(b, e)
      /\ \A p \in Units : p # e[1] => myL'[p] = myL[p]
  BY <1>0, ShiftWords DEF MyWritten
<1>3. LeftWord(b) \in Int
  BY WordValues DEF Locked, Coal
<1>4. /\ leftL' \in [Units -> Int] /\ leftL'[End(e)] = LeftWord(b)
      /\ \A n \in Units : n # End(e) => leftL'[n] = leftL[n]
  BY <1>1, <1>3, LeftWrite
<1>5. \A u \in Threads : Sides'[u] = Sides[u]
  BY SidesNext DEF Shift
<1> HIDE DEF Contents, Sides
<1>6. OneWords(b, e, myL, myL', leftL, leftL', Sides, Sides')
  BY <1>0, <1>1, <1>2, <1>4, <1>5 DEF OneWords
<1> QED
  BY <1>1, <1>2, <1>6, MoveOne DEF LedgerOK, Shift

(* A block is set free, its right side last: the thread that does it has    *)
(* that side still to write.                                                *)
LEMMA LetGo ==
    ASSUME LedgerOK, NEW t \in Threads, NEW a, NEW e, Shift(t, a, FREE, e), ~LoosePlace(a),
           Side(t) = NoExt, Side(t)' = e, myL' = [myL EXCEPT ![e[1]] = MyAt(FREE, e)], leftL' = leftL
    PROVE  LedgerOK'
<1>1. /\ a \in Places /\ FREE \in Places /\ LoosePlace(FREE) /\ End(e) \in Units /\ e \in Contents[a]
      /\ leftL \in [Units -> Int] /\ leftL[End(e)] = LeftWord(a) /\ e # NoExt
      /\ \A u \in Threads : Sides[u] # e
  BY ShiftType, FreePlace DEF Shift
<1>w. MyWritten(a, FREE, e)
  BY DEF MyWritten
<1>2. /\ Moved(Contents, Contents', a, e, FREE, e)
      /\ myL' \in [Units -> Int] /\ myL'[e[1]] = MyAt(FREE, e)
      /\ \A p \in Units : p # e[1] => myL'[p] = myL[p]
  BY <1>w, ShiftWords
<1>3. leftL'[End(e)] \in {Locked, Coal}
  BY <1>1, WordValues
<1>5. /\ \A u \in Threads : u # t => Sides'[u] = Sides[u]
      /\ Sides[t] = NoExt /\ Sides'[t] = e
  BY SidesNext DEF Shift
<1>6. \A u \in Threads : Sides'[u] = e <=> u = t
  BY <1>1, <1>5
<1> HIDE DEF Contents, Sides
<1>7. OneWords(FREE, e, myL, myL', leftL, leftL', Sides, Sides')
  BY <1>1, <1>2, <1>3, <1>5, <1>6 DEF OneWords
<1> QED
  BY <1>1, <1>2, <1>7, MoveOne DEF LedgerOK, Shift

Still(t) == /\ Mine(t) /\ used' = used /\ Queued' = Queued /\ myL' = myL /\ regions' = regions
            /\ \A k \in Private : Keeps(k, t)' = Keeps(k, t)

(* A thread that moves nothing leaves every place as it is.                 *)
LEMMA StillContents ==
    ASSUME NEW t \in Threads, Still(t), NEW x \in Places
    PROVE  Contents'[x] = Contents[x]
<1>1. CASE x \in {FREE, USED, QUEUE}
  BY <1>1, ContentsAt, ContentsNext, FreeKept DEF Still
<1>2. ASSUME NEW k \in Private, NEW u \in Threads, x = <<k, u>>
      PROVE  Contents'[x] = Contents[x]
  BY <1>2, ContentsAt, ContentsNext, OthersKeep DEF Still
<1> QED
  BY <1>1, <1>2, PlaceNames

(* Nothing that the ledger shows has changed.                               *)
LEMMA Unmoved ==
    ASSUME LedgerOK, NEW t \in Threads, Still(t), leftL' = leftL, Side(t)' = Side(t)
    PROVE  LedgerOK'
<1>1. \A x \in Places : Contents'[x] = Contents[x]
  BY StillContents
<1>2. \A u \in Threads : Sides'[u] = Sides[u]
  BY SidesNext DEF Still
<1>3. Ledger(Contents, myL, leftL, Sides, regions) /\ myL' = myL /\ regions' = regions
  BY DEF LedgerOK, Still
<1> HIDE DEF Contents, Sides
<1> QED
  BY <1>1, <1>2, <1>3, Same DEF LedgerOK

(* The right side of a free block that stays where it is.                   *)
LEMMA SideWrite ==
    ASSUME LedgerOK, NEW t \in Threads, Still(t), NEW e, IsLoose(Contents, e), NEW w \in Int,
           leftL' = [leftL EXCEPT ![End(e)] = w],
           \/ Side(t) = e /\ Side(t)' = NoExt /\ w = e[2]
           \/ Side(t) = NoExt /\ Side(t)' = e /\ w = Coal /\ leftL[End(e)] > Coal
    PROVE  LedgerOK'
<1>0. PICK x \in Places : LoosePlace(x) /\ e \in Contents[x]
  BY DEF IsLoose
<1>1. \A y \in Places : Contents'[y] = Contents[y]
  BY StillContents
<1> HIDE DEF Contents
<1>2. Moved(Contents, Contents', x, e, x, e)
  BY <1>0, <1>1 DEF Moved
<1>3. /\ \A u \in Threads : u # t => Sides'[u] = Sides[u]
      /\ Sides[t] = Side(t) /\ Sides'[t] = Side(t)'
  BY SidesNext DEF Still
<1> HIDE DEF Sides
<1>4. /\ Ledger(Contents, myL, leftL, Sides, regions) /\ myL' = myL /\ regions' = regions
      /\ leftL \in [Units -> Int] /\ myL \in [Units -> Int]
      /\ myL[e[1]] = MyAt(x, e)
  BY <1>0 DEF LedgerOK, Still, Ledger, MyRight, MyAt
<1>5. e # NoExt /\ End(e) \in Units /\ e[1] \in Units
  BY <1>0, <1>4, PieceType
<1>6. /\ leftL' \in [Units -> Int] /\ leftL'[End(e)] = w
      /\ \A n \in Units : n # End(e) => leftL'[n] = leftL[n]
  BY <1>4, <1>5
<1>7. CASE Side(t) = e /\ Side(t)' = NoExt /\ w = e[2]
  <2>1. \A u \in Threads : Sides[u] = e => u = t
    BY <1>3, <1>4, <1>5, <1>7 DEF Ledger, SidesRight
  <2>2. \A u \in Threads : Sides'[u] # e
    BY <2>1, <1>3, <1>5, <1>7
  <2>3. OneWords(x, e, myL, myL', leftL, leftL', Sides, Sides')
    BY <1>0, <1>3, <1>4, <1>6, <1>7, <2>2 DEF OneWords
  <2> QED
    BY <1>0, <1>2, <1>4, <2>3, MoveOne DEF LedgerOK
<1>8. CASE Side(t) = NoExt /\ Side(t)' = e /\ w = Coal /\ leftL[End(e)] > Coal
  <2>1. \A u \in Threads : Sides[u] # e
    BY <1>4, <1>5, <1>8 DEF Ledger, SidesRight, Locked, Coal
  <2>2. \A u \in Threads : Sides'[u] = e <=> u = t
    BY <2>1, <1>3, <1>8
  <2>3. OneWords(x, e, myL, myL', leftL, leftL', Sides, Sides')
    BY <1>0, <1>3, <1>4, <1>6, <1>8, <2>2 DEF OneWords
  <2> QED
    BY <1>0, <1>2, <1>4, <2>3, MoveOne DEF LedgerOK
<1> QED
  BY <1>7, <1>8

-----------------------------------------------------------------------------
(* Sequences without repetition.                                            *)

(* The first of a list without repetitions is not in the rest               *)
(* (markCoalescing takes it off).                                           *)
LEMMA HeadApart ==
    ASSUME NEW S, NEW s \in Seq(S), s # <<>>, Distinct(s)
    PROVE  /\ Head(s) \in S /\ Tail(s) \in Seq(S) /\ Distinct(Tail(s)) /\ Head(s) \in Elements(s)
           /\ \A d : d \in Elements(Tail(s)) <=> d \in Elements(s) /\ d # Head(s)
<1>1. /\ Len(s) \in Nat /\ DOMAIN s = 1 .. Len(s) /\ Len(s) > 0 /\ Head(s) = s[1]
      /\ Tail(s) \in Seq(S) /\ Len(Tail(s)) = Len(s) - 1 /\ Head(s) \in S
      /\ \A i \in 1 .. Len(Tail(s)) : Tail(s)[i] = s[i+1]
  BY HeadTailProperties, LenProperties, EmptySeq
<1>2. DOMAIN Tail(s) = 1 .. Len(s) - 1
  BY <1>1, LenProperties
<1>3. Distinct(Tail(s))
  BY <1>1, <1>2 DEF Distinct
<1>4. Head(s) \in Elements(s)
  BY <1>1 DEF Elements
<1>5. ASSUME NEW d \in Elements(Tail(s)) PROVE d \in Elements(s) /\ d # Head(s)
  BY <1>1, <1>2 DEF Elements, Distinct
<1>6. ASSUME NEW d \in Elements(s), d # Head(s) PROVE d \in Elements(Tail(s))
  <2>1. PICK i \in 1 .. Len(s) : d = s[i]
    BY <1>1 DEF Elements
  <2>2. i # 1 /\ i - 1 \in 1 .. Len(s) - 1 /\ Tail(s)[i - 1] = s[i]
    BY <1>1, <1>6, <2>1
  <2> QED
    BY <1>2, <2>1, <2>2 DEF Elements
<1> QED
  BY <1>1, <1>3, <1>4, <1>5, <1>6

(* A list of one.                                                           *)
LEMMA Single ==
    \A x : /\ <<x>> \o <<>> = <<x>> /\ <<x>> # <<>>
           /\ Elements(<<x>>) = {x} /\ Distinct(<<x>>)
           /\ Elements(<<>>) = {} /\ Distinct(<<>>)
<1> TAKE x
<1>1. DOMAIN <<x>> = {1} /\ <<x>>[1] = x
  OBVIOUS
<1>2. Elements(<<x>>) = {x} /\ Distinct(<<x>>)
  BY <1>1 DEF Elements, Distinct
<1>3. Elements(<<>>) = {} /\ Distinct(<<>>) /\ <<x>> # <<>>
  BY DEF Elements, Distinct
<1>4. \A s : s = <<x>> => s \in Seq({x})
  OBVIOUS
<1>5. <<x>> \o <<>> = <<x>>
  BY <1>4, ConcatEmptySeq
<1> QED
  BY <1>2, <1>3, <1>5

(* A list with an element put before it.                                    *)
LEMMA FirstAdded ==
    ASSUME NEW S, NEW s \in Seq(S), NEW x \in S, NEW r, r = <<x>> \o s
    PROVE  /\ r \in Seq(S) /\ r # <<>>
           /\ \A d : d \in Elements(r) <=> d = x \/ d \in Elements(s)
           /\ (Distinct(s) /\ x \notin Elements(s)) => Distinct(r)
<1>0. <<x>> \in Seq(S) /\ Len(<<x>>) = 1 /\ <<x>>[1] = x /\ Len(s) \in Nat /\ DOMAIN s = 1 .. Len(s)
  BY LenProperties
<1>1. r \in Seq(S) /\ Len(r) = 1 + Len(s) /\ DOMAIN r = 1 .. Len(s) + 1
  BY <1>0, ConcatProperties, LenProperties
<1>2. r[1] = x /\ \A i \in 1 .. Len(s) : r[i+1] = s[i]
  BY <1>0, ConcatProperties
<1>4. \A i \in DOMAIN r : i = 1 \/ (i - 1 \in 1 .. Len(s) /\ r[i] = s[i - 1])
  BY <1>0, <1>1, <1>2
<1>3. r # <<>>
  BY <1>0, <1>1, EmptySeq
<1>5. \A d : d \in Elements(r) <=> d = x \/ d \in Elements(s)
  <2>1. ASSUME NEW d \in Elements(r) PROVE d = x \/ d \in Elements(s)
    BY <1>0, <1>2, <1>4 DEF Elements
  <2>2. x \in Elements(r)
    BY <1>0, <1>1, <1>2 DEF Elements
  <2>3. ASSUME NEW d \in Elements(s) PROVE d \in Elements(r)
    <3>1. PICK i \in 1 .. Len(s) : d = s[i]
      BY <1>0 DEF Elements
    <3>2. i + 1 \in DOMAIN r /\ r[i + 1] = d
      BY <1>0, <1>1, <1>2, <3>1
    <3> QED
      BY <3>2 DEF Elements
  <2> QED BY <2>1, <2>2, <2>3
<1>6. Distinct(s) /\ x \notin Elements(s) => Distinct(r)
  BY <1>0, <1>1, <1>2, <1>4 DEF Elements, Distinct
<1>7. r \in Seq(S) /\ r # <<>>
  BY <1>1, <1>3
<1> QED
  BY <1>5, <1>6, <1>7

(* The same as one formula.                                                 *)
Added(S, s, x, r) == /\ r \in Seq(S) /\ \A d : d \in Elements(r) <=> d = x \/ d \in Elements(s)
                     /\ (Distinct(s) /\ x \notin Elements(s)) => Distinct(r)

(* The same as the relation that a bin is changed by.                       *)
LEMMA AddedFirst == \A S : \A s \in Seq(S) : \A x \in S : Added(S, s, x, <<x>> \o s)
<1> TAKE S
<1> TAKE s \in Seq(S)
<1> TAKE x \in S
<1> DEFINE r == <<x>> \o s
<1>1. r = <<x>> \o s
  OBVIOUS
<1> HIDE DEF r
<1>2. Added(S, s, x, r)
  BY <1>1, FirstAdded DEF Added
<1> QED
  BY <1>1, <1>2

(* removeBlock: the block and no other leaves the list, wherever it was.    *)
LEMMA Unlink ==
    ASSUME NEW S, NEW s \in Seq(S), Distinct(s), NEW x
    PROVE  /\ RemoveFirst(s, x) \in Seq(S) /\ Distinct(RemoveFirst(s, x))
           /\ \A d : d \in Elements(RemoveFirst(s, x)) <=> d \in Elements(s) /\ d # x
<1> DEFINE r == RemoveFirst(s, x)
<1>0. Len(s) \in Nat /\ DOMAIN s = 1 .. Len(s) /\ \A i \in 1 .. Len(s) : s[i] \in S
  BY LenProperties
<1>1. CASE ~\E i \in 1 .. Len(s) : s[i] = x
  BY <1>0, <1>1 DEF RemoveFirst, Elements
<1>2. ASSUME NEW i \in 1 .. Len(s), s[i] = x
      PROVE  /\ r \in Seq(S) /\ Distinct(r)
             /\ \A d : d \in Elements(r) <=> d \in Elements(s) /\ d # x
  <2>1. \A j \in 1 .. Len(s) : s[j] = x => j = i
    BY <1>0, <1>2 DEF Distinct
  <2>2. {j \in 1 .. Len(s) : s[j] = x} = {i}
    BY <1>2, <2>1
  <2>3. Min({i}) = i
    BY DEF Min
  <2>4. r = SubSeq(s, 1, i-1) \o SubSeq(s, i+1, Len(s))
    BY <1>2, <2>2, <2>3 DEF RemoveFirst, SelectInSeq, RemoveAt
  <2> DEFINE a == SubSeq(s, 1, i-1)
             b == SubSeq(s, i+1, Len(s))
  <2>5. a \in Seq(S) /\ Len(a) = i - 1 /\ \A j \in 1 .. i - 1 : a[j] = s[j]
    BY <1>0, SubSeqProperties
  <2>6. b \in Seq(S) /\ Len(b) = Len(s) - i /\ \A j \in 1 .. Len(s) - i : b[j] = s[i + j]
    <3>1. i + 1 \in Int /\ Len(s) \in Int /\ \A j \in i + 1 .. Len(s) : s[j] \in S
      BY <1>0
    <3>2. /\ b \in Seq(S) /\ Len(b) = IF i + 1 <= Len(s) THEN Len(s) - (i + 1) + 1 ELSE 0
          /\ \A j \in 1 .. Len(s) - (i + 1) + 1 : b[j] = s[(i + 1) + j - 1]
      BY <3>1, SubSeqProperties
    <3> HIDE DEF b
    <3>3. ASSUME NEW j \in 1 .. Len(s) - i PROVE b[j] = s[i + j]
      <4>1. j \in 1 .. Len(s) - (i + 1) + 1 /\ (i + 1) + j - 1 = i + j
        BY <1>0
      <4> QED
        BY <3>2, <4>1
    <3>a. Len(b) = IF i + 1 <= Len(s) THEN Len(s) - (i + 1) + 1 ELSE 0
      BY <3>2
    <3>b. Len(s) \in Nat
      BY <1>0
    <3>4. Len(b) = Len(s) - i
      BY <3>a, <3>b
    <3> QED
      BY <3>2, <3>3, <3>4
  <2> HIDE DEF a, b, r
  <2>7. /\ r \in Seq(S) /\ Len(r) = Len(s) - 1 /\ DOMAIN r = 1 .. Len(s) - 1
        /\ \A j \in 1 .. Len(s) - 1 : r[j] = IF j < i THEN s[j] ELSE s[j + 1]
    <3>1. r = a \o b
      BY <2>4 DEF a, b
    <3>c. a \o b \in Seq(S) /\ Len(a \o b) = Len(a) + Len(b)
      BY <2>5, <2>6, ConcatProperties
    <3>2. r \in Seq(S) /\ Len(r) = Len(s) - 1
      BY <1>0, <2>5, <2>6, <3>1, <3>c
    <3>3. \A j \in 1 .. Len(s) - 1 : r[j] = IF j <= i - 1 THEN a[j] ELSE b[j - (i - 1)]
      BY <1>0, <2>5, <2>6, <3>1, ConcatProperties
    <3>4. DOMAIN r = 1 .. Len(s) - 1
      BY <3>2, LenProperties
    <3>5. ASSUME NEW j \in 1 .. Len(s) - 1
          PROVE  r[j] = IF j < i THEN s[j] ELSE s[j + 1]
      <4>1. CASE j < i
        BY <1>0, <2>5, <3>3, <4>1
      <4>2. CASE j >= i
        <5>1. j - (i - 1) \in 1 .. Len(s) - i /\ i + (j - (i - 1)) = j + 1
          BY <1>0, <4>2
        <5> QED
          BY <1>0, <2>6, <3>3, <4>2, <5>1
      <4> QED
        BY <4>1, <4>2
    <3> QED
      BY <3>2, <3>4, <3>5
  <2>8. Distinct(r)
    BY <1>0, <2>7 DEF Distinct
  <2>9. ASSUME NEW d \in Elements(r) PROVE d \in Elements(s) /\ d # x
    <3>1. PICK j \in 1 .. Len(s) - 1 : d = r[j]
      BY <2>7 DEF Elements
    <3> QED
      BY <3>1, <2>7, <2>1, <1>0 DEF Elements
  <2>10. ASSUME NEW d \in Elements(s), d # x PROVE d \in Elements(r)
    <3>1. PICK j \in 1 .. Len(s) : d = s[j]
      BY <1>0 DEF Elements
    <3>2. j # i
      BY <3>1, <2>10, <1>2
    <3>3. CASE j < i
      <4>1. j \in 1 .. Len(s) - 1
        BY <3>1, <3>3, <1>0
      <4>2. r[j] = s[j]
        BY <3>3, <4>1, <2>7
      <4> HIDE DEF r
      <4> QED
        BY <3>1, <4>1, <4>2, <2>7 DEF Elements
    <3>4. CASE j > i
      <4>1. j - 1 \in 1 .. Len(s) - 1 /\ ~(j - 1 < i) /\ (j - 1) + 1 = j
        <5>1. j \in Int /\ i \in Int /\ Len(s) \in Nat /\ i >= 1 /\ j <= Len(s)
          BY <3>1, <1>0
        <5> HIDE DEF r
        <5> QED
          BY <3>4, <5>1
      <4>2. r[j - 1] = s[j]
        BY <4>1, <2>7
      <4> QED
        BY <3>1, <4>1, <4>2, <2>7 DEF Elements
    <3> QED
      BY <3>2, <3>3, <3>4, <1>0
  <2> QED
    BY <2>7, <2>8, <2>9, <2>10
<1> QED
  BY <1>1, <1>2

-----------------------------------------------------------------------------
(* What a step of one thread leaves of the bins' invariant.                 *)

(* No piece of another thread begins there.                                 *)
Spot(t, q)   == \A u \in Threads \ {t} : \A k \in Private : \A d \in Keeps(k, u) : d[1] # q
Locks(t)     == \A b \in Bins : tLock[b] \notin {t, NoThread} => tLock'[b] = tLock[b] /\ bins'[b] = bins[b]
Writes(t)    == \A q \in Units : myBin'[q] = myBin[q] \/ Spot(t, q)
InBin(q, b)  == myBin'[q] = b /\ \E y \in Places : \E e \in Contents'[y] : e[1] = q /\ Listed(y, e)'
(* A piece that may be in a bin may still be, or has become part of one.    *)
Follows(t)   == \A x \in Reach(t) : \A d \in Contents[x] :
                    Listed(x, d) /\ myBin'[d[1]] = myBin[d[1]] =>
                        \E y \in Places : \E e \in Contents'[y] : e[1] = d[1] /\ Listed(y, e)'
Masks(t)     == \A b \in Bins : bins'[b] # <<>> =>
                    \/ bit'[b]
                    \/ At(t, "setBit")' /\ myBin'[blk(t)'[1]] = b
                    \/ bins[b] # <<>> /\ (bit[b] => bit'[b]) /\ (At(t, "setBit") => myBin[blk(t)[1]] # b)
Members(t)   == \A b \in Bins : \A q \in Elements(bins'[b]) :
                    (q \in Elements(bins[b]) /\ myBin'[q] = myBin[q]) \/ InBin(q, b)

(* A thread's step leaves what other threads hold as fit to be listed as it *)
(* was, unless it renames its bin.                                          *)
LEMMA OthersListed ==
    ASSUME NEW t \in Threads, Mine(t), NEW u \in Threads, u # t, NEW k, NEW d, myBin'[d[1]] = myBin[d[1]]
    PROVE  Listed(<<k, u>>, d)' <=> Listed(<<k, u>>, d)
<1>1. th'[u] = th[u]
  BY DEF Mine
<1> QED
  BY <1>1 DEF Listed, Registered, Sized, pc, BinOf, Class

(* The block a thread is at, and its right neighbour, are pieces of the     *)
(* ledger.                                                                  *)
LEMMA OwnPieces ==
    ASSUME LedgerOK, NEW u \in Threads
    PROVE  /\ pc(u) \in {"tryAdd", "insert", "setBit", "remove"} =>
                  blk(u)[1] \in Units /\ blk(u) \in Keeps("blk", u)
           /\ pc(u) \in {"unbinRight", "removeRight", "next"} =>
                  End(blk(u)) \in Units /\ Right(u) \in Keeps("right", u) /\ Right(u)[1] = End(blk(u))
<1> DEFINE P(k, d) == d[1] \in Units
<1>1. ASSUME NEW k \in Private, NEW d \in Keeps(k, u) PROVE d[1] \in Units
  <2>1. d \in Contents[<<k, u>>] /\ <<k, u>> \in Places
    BY <1>1, ContentsAt, PlaceNames
  <2> HIDE DEF Contents, Sides
  <2> QED
    BY <2>1, PieceType DEF LedgerOK
<1>2. "blk" \in Private /\ "right" \in Private
  BY DEF Private
<1>3. pc(u) \in {"tryAdd", "insert", "setBit", "remove"} => blk(u) \in Keeps("blk", u)
  BY DEF Keeps, When, Coalescing, Piece
<1>4. pc(u) \in {"unbinRight", "removeRight", "next"} => Right(u) \in Keeps("right", u)
  BY DEF Keeps, When, Piece
<1>5. Right(u)[1] = End(blk(u))
  BY DEF Right
<1> QED
  BY <1>1, <1>2, <1>3, <1>4, <1>5

(* A step that changes bins only under their locks, lists what may be       *)
(* listed and keeps the mask, keeps the invariant of the bins.              *)
LEMMA BinsStep ==
    ASSUME LedgerOK, CtlOK, BinsInv, NEW t \in Threads, Mine(t),
           BinTypes', \A b \in Bins : Distinct(bins'[b]), BinFacts(t)',
           Locks(t), Writes(t), Members(t), Follows(t), Masks(t)
    PROVE  BinsInv'
<1>1. BinMembers'
  <2> SUFFICES ASSUME NEW b \in Bins, NEW q \in Elements(bins'[b])
               PROVE  InBin(q, b)
    BY DEF BinMembers, InBin, Elements
  <2> SUFFICES ASSUME q \in Elements(bins[b]), myBin'[q] = myBin[q]
               PROVE  InBin(q, b)
    BY DEF Members
  <2>1. myBin[q] = b
    BY DEF BinsInv, BinMembers
  <2>2. PICK x \in Places : \E e \in Contents[x] : e[1] = q /\ Listed(x, e)
    BY DEF BinsInv, BinMembers
  <2>3. PICK d \in Contents[x] : d[1] = q /\ Listed(x, d)
    BY <2>2
  <2>4. CASE x \in Reach(t)
    BY <2>1, <2>3, <2>4 DEF Follows, InBin
  <2>5. CASE x \notin Reach(t)
    <3>1. PICK k \in Private : \E u \in Threads : x = <<k, u>>
      BY <2>5, PlaceNames DEF Reach
    <3>2. PICK u \in Threads : x = <<k, u>>
      BY <3>1
    <3>3. u # t
      BY <2>5, <3>2 DEF Reach
    <3>4. Contents'[x] = Contents[x]
      BY <3>2, <3>3, ContentsAt, ContentsNext, OthersKeep
    <3>5. Listed(x, d)'
      BY <2>3, <3>2, <3>3, OthersListed
    <3> QED
      BY <2>1, <2>3, <3>4, <3>5 DEF InBin
  <2> QED
    BY <2>4, <2>5
<1>2. ASSUME NEW u \in Threads, u # t PROVE BinFacts(u)'
  <2>1. th'[u] = th[u] /\ BinFacts(u) /\ u # NoThread
    BY <1>2, BlocksAssumption DEF Mine, BinsInv
  <2>2. ASSUME NEW k \in Private, NEW d \in Keeps(k, u), d[1] \in Units PROVE myBin'[d[1]] = myBin[d[1]]
    BY <1>2, <2>2 DEF Writes, Spot
  <2>3. "blk" \in Private /\ "right" \in Private
    BY DEF Private
  <2>4. pc(u) \in {"tryAdd", "insert", "setBit", "remove"} => myBin'[blk(u)[1]] = myBin[blk(u)[1]]
    BY <2>2, <2>3, OwnPieces
  <2>5. pc(u) \in {"unbinRight", "removeRight", "next"} => myBin'[End(blk(u))] = myBin[End(blk(u))]
    BY <2>2, <2>3, OwnPieces
  <2>6. ASSUME NEW b \in Bins, tLock[b] = u PROVE tLock'[b] = u /\ bins'[b] = bins[b]
    BY <1>2, <2>1, <2>6 DEF Locks
  <2>7. \A p \in Units : myBin[p] \in Bins \cup {NoBin}
    BY DEF BinsInv, BinTypes
  <2>8. pc(u) \in {"tryAdd", "insert", "setBit", "remove"} => blk(u)[1] \in Units
    BY OwnPieces
  <2>9. pc(u) \in {"unbinRight", "removeRight", "next"} => End(blk(u)) \in Units
    BY OwnPieces
  <2>10. pc(u)' = pc(u) /\ blk(u)' = blk(u)
    BY <2>1 DEF pc, blk
  <2>11. BinOf(blk(u))' = BinOf(blk(u))
    BY <2>10 DEF BinOf, Class
  <2>12. pc(u) \in Scanning => th[u].bin \in Bins
    BY DEF CtlOK, Ctl, BinCtl
  <2>a. (pc(u) \in {"tryAdd", "insert", "setBit"} => myBin[blk(u)[1]] = BinOf(blk(u)) /\ BinOf(blk(u)) # NoBin)'
    BY <2>1, <2>4, <2>10, <2>11 DEF BinFacts
  <2>b. (pc(u) = "insert" => tLock[myBin[blk(u)[1]]] = u)'
    BY <2>1, <2>4, <2>6, <2>7, <2>8, <2>10 DEF BinFacts
  <2>c. (pc(u) = "remove" => myBin[blk(u)[1]] # NoBin /\ tLock[myBin[blk(u)[1]]] = u)'
    BY <2>1, <2>4, <2>6, <2>7, <2>8, <2>10 DEF BinFacts
  <2>d. (pc(u) \in {"unbinRight", "removeRight"} => myBin[End(blk(u))] # NoBin)'
    BY <2>1, <2>5, <2>10 DEF BinFacts
  <2>e. (pc(u) = "next" => myBin[End(blk(u))] = NoBin)'
    BY <2>1, <2>5, <2>10 DEF BinFacts
  <2>f. (pc(u) = "removeRight" => tLock[myBin[End(blk(u))]] = u)'
    BY <2>1, <2>5, <2>6, <2>7, <2>9, <2>10 DEF BinFacts
  <2>g. (pc(u) \in Scanning => tLock[th[u].bin] = u /\ th[u].cur \in Elements(bins[th[u].bin]))'
    BY <2>1, <2>6, <2>10, <2>12 DEF BinFacts, Scanning
  <2> QED
    BY <2>a, <2>b, <2>c, <2>d, <2>e, <2>f, <2>g DEF BinFacts
<1>3. MaskCovers'
  <2> SUFFICES ASSUME NEW b \in Bins, bins'[b] # <<>>
               PROVE  bit'[b] \/ \E u \in Threads : At(u, "setBit")' /\ myBin'[blk(u)'[1]] = b
    BY DEF MaskCovers
  <2>1. CASE bit'[b] \/ (At(t, "setBit")' /\ myBin'[blk(t)'[1]] = b)
    BY <2>1
  <2>2. CASE bins[b] # <<>> /\ (bit[b] => bit'[b]) /\ (At(t, "setBit") => myBin[blk(t)[1]] # b)
    <3>1. CASE bit[b]
      BY <2>2, <3>1
    <3>2. CASE ~bit[b]
      <4>1. PICK u \in Threads : At(u, "setBit") /\ myBin[blk(u)[1]] = b
        BY <2>2, <3>2 DEF BinsInv, MaskCovers
      <4>2. u # t /\ th'[u] = th[u]
        BY <2>2, <4>1 DEF Mine
      <4>3. pc(u) = "setBit"
        BY <4>1 DEF At, pc
      <4>4. blk(u)[1] \in Units /\ blk(u) \in Keeps("blk", u) /\ "blk" \in Private
        BY <4>3, OwnPieces DEF Private
      <4>5. myBin'[blk(u)[1]] = myBin[blk(u)[1]]
        BY <4>2, <4>4 DEF Writes, Spot
      <4> QED
        BY <4>1, <4>2, <4>5 DEF At, blk
    <3> QED
      BY <3>1, <3>2
  <2> QED
    BY <2>1, <2>2 DEF Masks
<1> QED
  BY <1>1, <1>2, <1>3 DEF BinsInv

(* The bins stay as they are, locks apart.                                  *)
BinFrame(t) == /\ myBin' = myBin /\ bins' = bins /\ bit' = bit
               /\ tLock' \in [Bins -> Threads \cup {NoThread}]
               /\ \A b \in Bins : tLock[b] \notin {t, NoThread} => tLock'[b] = tLock[b]
               /\ pc(t) # "setBit" /\ BinFacts(t)'

(* A step that touches neither bins nor their locks keeps it too.           *)
LEMMA BinsQuiet ==
    ASSUME LedgerOK, CtlOK, BinsInv, NEW t \in Threads, Mine(t), BinFrame(t), Follows(t)
    PROVE  BinsInv'
<1>1. BinTypes' /\ (\A b \in Bins : Distinct(bins'[b])) /\ BinFacts(t)'
  BY DEF BinsInv, BinTypes, BinFrame
<1>2. Locks(t) /\ Writes(t) /\ Members(t)
  BY DEF BinFrame, Locks, Writes, Members, BinsInv, BinMembers, BinTypes, Elements
<1>3. Masks(t)
  BY DEF BinFrame, Masks, At, pc
<1> QED
  BY <1>1, <1>2, <1>3, BinsStep

(* Free blocks alone, of what all threads share, may be listed in a bin.    *)
LEMMA SharedListed ==
    ASSUME NEW d, myBin' = myBin
    PROVE  /\ Listed(FREE, d)' <=> Listed(FREE, d)
           /\ ~Listed(USED, d) /\ ~Listed(QUEUE, d)
  BY DEF Listed, Registered, Sized, FREE, USED, QUEUE, BinOf, Class

(* The same when no piece is moved.                                         *)
LEMMA BinsStill ==
    ASSUME LedgerOK, CtlOK, BinsInv, NEW t \in Threads, Still(t), BinFrame(t),
           \A k \in Private : \A d \in Keeps(k, t) : Listed(<<k, t>>, d) => Listed(<<k, t>>, d)'
    PROVE  BinsInv'
<1>1. ASSUME NEW x \in Reach(t), NEW d \in Contents[x], Listed(x, d)
      PROVE  \E y \in Places : \E e \in Contents'[y] : e[1] = d[1] /\ Listed(y, e)'
  <2>1. x \in Places /\ Contents'[x] = Contents[x]
    BY Reached, StillContents
  <2>2. Listed(x, d)'
    <3>1. CASE x \in {FREE, USED, QUEUE}
      BY <1>1, <3>1, SharedListed DEF BinFrame
    <3>2. ASSUME NEW k \in Private, x = <<k, t>> PROVE Listed(x, d)'
      BY <1>1, <3>2, ContentsAt
    <3> QED
      BY <3>1, <3>2 DEF Reach
  <2> QED
    BY <2>1, <2>2
<1>2. Follows(t)
  BY <1>1 DEF Follows
<1> QED
  BY <1>2, BinsQuiet DEF Still

(* The same when one piece is moved.                                        *)
LEMMA BinsShift ==
    ASSUME LedgerOK, CtlOK, BinsInv, NEW t \in Threads, NEW a, NEW b, NEW e, Shift(t, a, b, e),
           MyWritten(a, b, e), BinFrame(t), Listed(a, e) => Listed(b, e)',
           \A k \in Private : \A d \in Keeps(k, t) :
               Listed(<<k, t>>, d) => Listed(<<k, t>>, d)' \/ (a = <<k, t>> /\ d = e)
    PROVE  BinsInv'
<1>0. Moved(Contents, Contents', a, e, b, e) /\ b \in Places
  BY ShiftWords, ShiftType
<1>1. ASSUME NEW x \in Reach(t), NEW d \in Contents[x], Listed(x, d)
      PROVE  \E y \in Places : \E f \in Contents'[y] : f[1] = d[1] /\ Listed(y, f)'
  <2>1. x \in Places
    BY Reached
  <2>2. CASE x = a /\ d = e
    <3>1. e \in Contents'[b] /\ Listed(b, e)'
      BY <1>0, <1>1, <2>2 DEF Moved
    <3> QED
      BY <1>0, <2>2, <3>1
  <2>3. CASE ~(x = a /\ d = e)
    <3>0. d \in Contents'[x]
      BY <1>0, <2>1, <2>3 DEF Moved
    <3>1. CASE x \in {FREE, USED, QUEUE}
      BY <1>1, <2>1, <3>0, <3>1, SharedListed DEF BinFrame
    <3>2. ASSUME NEW k \in Private, x = <<k, t>> PROVE Listed(x, d)'
      BY <1>1, <2>3, <3>2, ContentsAt
    <3> QED
      BY <2>1, <3>0, <3>1, <3>2 DEF Reach
  <2> QED
    BY <2>2, <2>3
<1>2. Follows(t)
  BY <1>1 DEF Follows
<1> QED
  BY <1>2, BinsQuiet DEF Shift

-----------------------------------------------------------------------------
(* The steps one by one: each keeps the parts of the invariant that it may  *)
(* disturb.  Here those that move one extent, or write one word.            *)

(* A thread that coalesces keeps what it will go on with.                   *)
Carries(t) == /\ th'[t].req = th[t].req /\ th'[t].got = th[t].got
              /\ th'[t].ret = th[t].ret /\ th'[t].back = th[t].back /\ th'[t].bin = th[t].bin

(* What a request asks for does not depend on the step the thread is at.    *)
LEMMA SameRequest ==
    ASSUME NEW t \in Threads, th'[t].req = th[t].req
    PROVE  /\ Total(t)' = Total(t)
           /\ th'[t].got = th[t].got /\ th'[t].bin = th[t].bin => Result(t)' = Result(t)
           /\ th'[t].bin = th[t].bin /\ th'[t].cur = th[t].cur /\ th'[t].tmp = th[t].tmp => (Fits(t)' <=> Fits(t))
  BY DEF Total, Result, Fits, FitsAt, Current

(* Within coalescAndPutList the list stays what it is.                      *)
LEMMA SameList ==
    ASSUME NEW t \in Threads, Ctl(t), th'[t].list = th[t].list,
           pc(t) \in Coalescing \ {"mark"}, pc(t)' \in Coalescing \ {"mark"}
    PROVE  ListCtl(t)'
  BY DEF Ctl, ListCtl

(* Within coalescAndPutList a thread still has the result of its request,   *)
(* or the request it returns to.                                            *)
LEMMA CoalesceCtl ==
    ASSUME NEW t \in Threads, Ctl(t), Carries(t), WholeCtl(t)', ListCtl(t)',
           pc(t) \in Coalescing, pc(t)' \in Coalescing
    PROVE  Ctl(t)'
<1>1. /\ pc(t) \notin Asking /\ pc(t)' \notin Asking /\ pc(t)' \notin Scanning \cup {"bin", "take", "modify", "released", "split"}
      /\ pc(t) \notin {"modify", "released", "split"}
  BY DEF Coalescing, Asking, Scanning
<1>2. Result(t)' = Result(t) /\ Total(t)' = Total(t)
  BY SameRequest DEF Carries
<1>3. Giving(t)' <=> Giving(t)
  BY <1>1 DEF Giving, Carries
<1>5. GotCtl(t)'
  BY <1>1, <1>2, <1>3 DEF Ctl, GotCtl, Carries
<1>6. ReqCtl(t)'
  BY <1>1 DEF Ctl, ReqCtl, Carries
<1>7. BinCtl(t)'
  BY <1>1 DEF Ctl, BinCtl, Carries
<1> QED
  BY <1>5, <1>6, <1>7 DEF Ctl

(* A search goes on without anything in its hands that it keeps.            *)
LEMMA SearchCtl ==
    ASSUME NEW t \in Threads, Ctl(t), BinCtl(t)',
           pc(t) \in Asking \ {"split"}, pc(t)' \in Asking \ {"split"},
           th'[t].req = th[t].req, th'[t].got = th[t].got, th'[t].list = th[t].list,
           blk(t)' = blk(t), th'[t].whole = th[t].whole
    PROVE  Ctl(t)' /\ th[t].got = NoExt /\ th[t].list = <<>> /\ blk(t) = NoExt
<1>1. /\ pc(t) \notin Coalescing /\ pc(t)' \notin Coalescing /\ pc(t)' \notin {"modify", "released", "split", "mark"}
      /\ pc(t) \notin {"modify", "released", "split"}
  BY DEF Coalescing, Asking, Scanning
<1>2. ~Giving(t) /\ ~Giving(t)'
  BY <1>1 DEF Giving
<1>4. ListCtl(t)'
  BY <1>1 DEF Ctl, ListCtl
<1>5. GotCtl(t)'
  BY <1>1, <1>2 DEF Ctl, GotCtl
<1>6. ReqCtl(t)'
  BY <1>1 DEF Ctl, ReqCtl
<1>7. WholeCtl(t)'
  BY <1>1 DEF Ctl, WholeCtl, Coalescing
<1>8. th[t].got = NoExt /\ th[t].list = <<>> /\ blk(t) = NoExt
  BY <1>1, <1>2 DEF Ctl, GotCtl, ListCtl
<1> QED
  BY <1>4, <1>5, <1>6, <1>7, <1>8 DEF Ctl

(* Outside the sections that wait for a bin, or have locked one, nothing is *)
(* known of one.                                                            *)
LEMMA NoBinFacts ==
    ASSUME NEW t \in Threads,
           pc(t)' \notin {"tryAdd", "insert", "setBit", "remove", "unbinRight", "removeRight", "next"} \cup Scanning
    PROVE  BinFacts(t)'
  BY DEF BinFacts, Scanning

(* Whether a block is its whole region does not depend on the step the      *)
(* thread is at.                                                            *)
LEMMA SameEmpty ==
    ASSUME NEW t \in Threads, blk(t)' = blk(t), th'[t].whole = th[t].whole
    PROVE  Empty(t)' <=> Empty(t)
  BY DEF Empty, Region

(* NoBin is not the name of a bin.                                          *)
LEMMA NoBinApart == NoBin \notin Bins
  BY DEF NoBin, Bins

(* What is in a bin begins a piece: no thread takes a word inside a block   *)
(* for a header.                                                            *)
LEMMA BinBegins ==
    ASSUME LedgerOK, BinsInv, NEW b \in Bins, NEW p \in Elements(bins[b])
    PROVE  p \in Units /\ myL[p] \in Int /\ (myL[p] \in {Locked, Coal} \/ myL[p] > EndMark)
<1>1. PICK x \in Places : \E e \in Contents[x] : e[1] = p /\ Listed(x, e)
  BY DEF BinsInv, BinMembers
<1>2. PICK e \in Contents[x] : e[1] = p /\ Listed(x, e)
  BY <1>1
<1> HIDE DEF Contents, Sides
<1>3. e[1] \in Units /\ e[2] \in Nat /\ e[2] > 0
  BY PieceType DEF LedgerOK
<1>4. myL[e[1]] = IF x = FREE THEN e[2] ELSE MyWord(x)
  BY DEF LedgerOK, Ledger, MyRight
<1> QED
  BY <1>2, <1>3, <1>4, WordValues DEF EndMark, Locked, Coal

(* The block that getBlock looks at is in the bin it has locked, so its     *)
(* word is a size or a lock.                                                *)
LEMMA CurrentBegins ==
    ASSUME LedgerOK, BinsInv, NEW t \in Threads, Ctl(t), pc(t) \in Scanning
    PROVE  /\ th[t].cur \in Units /\ th[t].bin \in Bins
           /\ myL[th[t].cur] \in {Locked, Coal} \/ myL[th[t].cur] > EndMark
           /\ ~(myL[th[t].cur] <= Coal) => myL[th[t].cur] > EndMark
<1>1. th[t].bin \in Bins /\ th[t].cur \in Elements(bins[th[t].bin])
  BY DEF BinsInv, BinFacts, Ctl, BinCtl
<1> QED
  BY <1>1, BinBegins DEF Locked, Coal, EndMark

(* The block is done: the next one of the list, or what follows the list.   *)
LEMMA AfterCtl ==
    ASSUME Local, NEW t \in Threads, Path(t), Ctl(t), AfterBlock(t), pc(t) \in Coalescing \ {"mark"}
    PROVE  /\ pc(t)' \in {"mark"} \cup {"idle", "loop", "soft", "modify", "split"}
           /\ blk(t)' = NoExt /\ th'[t].list = th[t].list /\ th'[t].got = th[t].got /\ Ctl(t)'
<1>1. /\ pc(t)' = (IF th[t].list = <<>> THEN th[t].ret ELSE "mark")
      /\ blk(t)' = NoExt /\ th'[t].list = th[t].list /\ Carries(t) /\ ~th'[t].whole
  BY DEF AfterBlock, Local, Rec, Fields, pc, blk, Carries, Onward
<1>2. pc(t)' \in {"mark"} \cup {"idle", "loop", "soft", "modify", "split"}
  BY <1>1 DEF Path
<1>3. Result(t)' = Result(t) /\ Total(t)' = Total(t)
  BY <1>1, SameRequest DEF Carries
<1>4. pc(t) \notin Asking \cup {"modify", "released"}
  BY DEF Coalescing, Asking, Scanning
<1>5. (Giving(t) <=> th[t].ret = "split") /\ (Giving(t)' => Giving(t)) /\ (th[t].ret # "split" => ~Giving(t)')
  BY <1>1, <1>2, <1>4 DEF Giving, Carries, Coalescing, Asking
<1>6. th[t].ret = "split" => Giving(t)'
  BY <1>1 DEF Giving, Carries, Coalescing
<1>7. ListCtl(t)'
  <2>1. th[t].list \in Seq(Extents) /\ Distinct(th[t].list)
    BY DEF Ctl, ListCtl
  <2>2. th'[t].list \in Seq(Extents) /\ Distinct(th'[t].list)
    BY <1>1, <2>1
  <2>3. pc(t)' \in Asking \cup Coalescing \cup {"modify", "released", "idle"}
    BY <1>2 DEF Asking, Coalescing
  <2>4. pc(t)' \in Coalescing => pc(t)' = "mark"
    BY <1>2 DEF Coalescing
  <2>5. pc(t)' # "mark" => th'[t].list = <<>>
    BY <1>1
  <2>6. pc(t)' = "mark" => th'[t].list # <<>>
    <3>1. th[t].ret # "mark"
      BY DEF Path
    <3> QED
      BY <1>1, <3>1
  <2>7. "mark" \in Coalescing
    BY DEF Coalescing
  <2> QED
    BY <1>1, <2>2, <2>3, <2>4, <2>5, <2>6, <2>7 DEF ListCtl
<1>8. GotCtl(t)'
  BY <1>1, <1>2, <1>3, <1>4, <1>5, <1>6 DEF Ctl, GotCtl, Carries
<1>9. ReqCtl(t)'
  BY <1>1, <1>2, <1>4, <1>5 DEF Ctl, GotCtl, ReqCtl, Carries, Asking, Scanning
<1>10. WholeCtl(t)'
  BY <1>1, <1>2 DEF WholeCtl
<1>11. BinCtl(t)'
  BY <1>1, <1>2 DEF Ctl, BinCtl, Carries, Scanning
<1> QED
  BY <1>1, <1>2, <1>7, <1>8, <1>9, <1>10, <1>11 DEF Ctl, Carries

FreeAt(p) == <<p, myL[p]>>

(* ACTIONS *)
LEMMA MarkRightStep ==
    ASSUME IInv, Local, NEW t \in Threads, Path(t), MarkRight(t), Mine(t),
           NEW e, e = blk(t)
    PROVE  LedgerOK' /\ Ctl(t)' /\ SideCtl(t)' /\ BinsInv'
<1> DEFINE a == <<"fresh", t>>
           b == <<"blk", t>>
<1>1. /\ pc(t) = "markRight" /\ pc(t)' = "left" /\ blk(t)' = blk(t) /\ th'[t].tmp = th[t].tmp
      /\ th'[t].cur = th[t].cur /\ th'[t].whole = th[t].whole /\ th'[t].inBin = th[t].inBin
      /\ th'[t].goal = th[t].goal /\ th'[t].list = th[t].list /\ Carries(t)
  BY DEF MarkRight, Local, Rec, Fields, At, Goto, pc, blk, Carries
<1>0. Ctl(t) /\ LedgerOK /\ CtlOK /\ BinsInv /\ BinFacts(t)
  BY DEF IInv, CtlOK, BinsInv
<1>2. /\ used' = used /\ queue' = queue /\ regions' = regions /\ myL' = myL
      /\ leftL' = [leftL EXCEPT ![End(e)] = Coal] /\ UNCHANGED binned
  BY DEF MarkRight, heap, Goto
<1>3. OursMoves(a, b, e)
  BY <1>2, PlaceNames DEF OursMoves, Queued, Private
<1>4. MineMoves(t, a, b, e)
  BY <1>1, <1>0 DEF MineMoves, Private, Keeps, When, Coalescing, Piece, InList, Right,
     Current, Carries, FreeAt, FREE, USED, QUEUE
<1>5. e \in Contents[a]
  <2>1. "fresh" \in Private /\ e \in Keeps("fresh", t)
    BY <1>1 DEF Private, Keeps, When, Piece, Right, Current, Coalescing
  <2> QED
    BY <2>1, ContentsAt
<1>6. Shift(t, a, b, e)
  BY <1>2, <1>3, <1>4, <1>5 DEF Shift, Reach, Private
<1>7. Side(t)' = Side(t)
  BY <1>1 DEF Side
<1>8. /\ ~LoosePlace(a) /\ MyWord(a) = Coal /\ LeftWord(a) = Locked /\ a # FREE
      /\ ~LoosePlace(b) /\ MyWord(b) = Coal /\ LeftWord(b) = Coal /\ b # FREE
  BY PlaceKinds, PlaceNames DEF Private
<1>w. MyWritten(a, b, e)
  BY <1>2, <1>8 DEF MyWritten, MyAt
<1>9. LedgerOK'
  BY <1>0, <1>1, <1>2, <1>6, <1>7, <1>8, Rename DEF MyAt
<1>10. Ctl(t)'
  <2>1. WholeCtl(t)'
    BY <1>0, <1>1 DEF Ctl, WholeCtl
  <2>2. ListCtl(t)'
    BY <1>0, <1>1, SameList DEF Coalescing, Ctl
  <2> QED
    BY <1>0, <1>1, <2>1, <2>2, CoalesceCtl DEF Coalescing
<1>11. BinsInv'
  <2>1. BinFacts(t)'
    BY <1>1, NoBinFacts DEF Scanning
  <2>2. BinFrame(t)
    BY <1>0, <1>1, <1>2, <2>1 DEF BinFrame, binned, BinsInv, BinTypes
  <2>4. Listed(a, e) => Listed(b, e)'
    BY <1>0, <1>1, <1>2 DEF Listed, Registered, Sized, BinOf, Class, binned, FREE
  <2>5. \A k \in Private : \A d \in Keeps(k, t) :
            Listed(<<k, t>>, d) => Listed(<<k, t>>, d)' \/ (a = <<k, t>> /\ d = e)
    BY <1>0, <1>1, <1>2 DEF Private, Keeps, When, Coalescing, Piece, Listed, Registered,
       Sized, BinOf, Class, binned
  <2> QED
    BY <1>0, <1>6, <1>w, <2>2, <2>4, <2>5, BinsShift
<1>12. SideCtl(t)'
  BY <1>1 DEF SideCtl
<1> QED
  BY <1>9, <1>10, <1>11, <1>12

(* putBlock, through markUsed: the left word of a block that enters the     *)
(* queue.                                                                   *)
LEMMA MarkUsedStep ==
    ASSUME IInv, Local, NEW t \in Threads, Path(t), MarkUsed(t), Mine(t),
           NEW e, e = blk(t)
    PROVE  LedgerOK' /\ Ctl(t)' /\ SideCtl(t)' /\ BinsInv'
<1> DEFINE a == <<"blk", t>>
           b == <<"marked", t>>
<1>1. /\ pc(t) = "requeue" /\ pc(t)' = "requeue2" /\ blk(t)' = blk(t) /\ th'[t].tmp = th[t].tmp
      /\ th'[t].cur = th[t].cur /\ th'[t].whole = th[t].whole /\ th'[t].inBin = th[t].inBin
      /\ th'[t].goal = th[t].goal /\ th'[t].list = th[t].list /\ Carries(t)
  BY DEF MarkUsed, Local, Rec, Fields, At, Goto, pc, blk, Carries
<1>0. Ctl(t) /\ LedgerOK /\ CtlOK /\ BinsInv /\ BinFacts(t)
  BY DEF IInv, CtlOK, BinsInv
<1>2. /\ used' = used /\ queue' = queue /\ regions' = regions /\ leftL' = leftL
      /\ myL' = [myL EXCEPT ![e[1]] = Locked] /\ UNCHANGED binned
  BY DEF MarkUsed, heap, Goto
<1>3. OursMoves(a, b, e)
  BY <1>2, PlaceNames DEF OursMoves, Queued, Private
<1>4. MineMoves(t, a, b, e)
  BY <1>1, <1>0 DEF MineMoves, Private, Keeps, When, Coalescing, Piece, InList, Right,
     Current, Carries, FreeAt, FREE, USED, QUEUE
<1>5. e \in Contents[a]
  <2>1. "blk" \in Private /\ e \in Keeps("blk", t)
    BY <1>1 DEF Private, Keeps, When, Piece, Right, Current, Coalescing
  <2> QED
    BY <2>1, ContentsAt
<1>6. Shift(t, a, b, e)
  BY <1>2, <1>3, <1>4, <1>5 DEF Shift, Reach, Private
<1>7. Side(t)' = Side(t)
  BY <1>1 DEF Side
<1>8. /\ ~LoosePlace(a) /\ MyWord(a) = Coal /\ LeftWord(a) = Coal /\ a # FREE /\ ~LoosePlace(b)
      /\ MyWord(b) = Locked /\ LeftWord(b) = Coal /\ b # FREE
  BY PlaceKinds, PlaceNames DEF Private
<1>w. MyWritten(a, b, e)
  BY <1>2, <1>8 DEF MyWritten, MyAt
<1>9. LedgerOK'
  BY <1>0, <1>1, <1>2, <1>6, <1>7, <1>8, Rename DEF MyAt
<1>10. Ctl(t)'
  <2>1. WholeCtl(t)'
    BY <1>0, <1>1 DEF Ctl, WholeCtl
  <2>2. ListCtl(t)'
    BY <1>0, <1>1, SameList DEF Coalescing, Ctl
  <2> QED
    BY <1>0, <1>1, <2>1, <2>2, CoalesceCtl DEF Coalescing
<1>11. BinsInv'
  <2>1. BinFacts(t)'
    BY <1>1, NoBinFacts DEF Scanning
  <2>2. BinFrame(t)
    BY <1>0, <1>1, <1>2, <2>1 DEF BinFrame, binned, BinsInv, BinTypes
  <2>4. Listed(a, e) => Listed(b, e)'
    BY <1>0, <1>1, <1>2 DEF Listed, Registered, Sized, BinOf, Class, binned, FREE
  <2>5. \A k \in Private : \A d \in Keeps(k, t) :
            Listed(<<k, t>>, d) => Listed(<<k, t>>, d)' \/ (a = <<k, t>> /\ d = e)
    BY <1>0, <1>1, <1>2 DEF Private, Keeps, When, Coalescing, Piece, Listed, Registered,
       Sized, BinOf, Class, binned
  <2> QED
    BY <1>0, <1>6, <1>w, <2>2, <2>4, <2>5, BinsShift
<1>12. SideCtl(t)'
  BY <1>1 DEF SideCtl
<1> QED
  BY <1>9, <1>10, <1>11, <1>12

(* putBlock, through markUsed: its right word.                              *)
LEMMA MarkRightUsedStep ==
    ASSUME IInv, Local, NEW t \in Threads, Path(t), MarkRightUsed(t), Mine(t),
           NEW e, e = blk(t)
    PROVE  LedgerOK' /\ Ctl(t)' /\ SideCtl(t)' /\ BinsInv'
<1> DEFINE a == <<"marked", t>>
           b == <<"shut", t>>
<1>1. /\ pc(t) = "requeue2" /\ pc(t)' = "enqueue" /\ blk(t)' = blk(t) /\ th'[t].tmp = th[t].tmp
      /\ th'[t].cur = th[t].cur /\ th'[t].whole = th[t].whole /\ th'[t].inBin = th[t].inBin
      /\ th'[t].goal = th[t].goal /\ th'[t].list = th[t].list /\ Carries(t)
  BY DEF MarkRightUsed, Local, Rec, Fields, At, Goto, pc, blk, Carries
<1>0. Ctl(t) /\ LedgerOK /\ CtlOK /\ BinsInv /\ BinFacts(t)
  BY DEF IInv, CtlOK, BinsInv
<1>2. /\ used' = used /\ queue' = queue /\ regions' = regions /\ myL' = myL
      /\ leftL' = [leftL EXCEPT ![End(e)] = Locked] /\ UNCHANGED binned
  BY DEF MarkRightUsed, heap, Goto
<1>3. OursMoves(a, b, e)
  BY <1>2, PlaceNames DEF OursMoves, Queued, Private
<1>4. MineMoves(t, a, b, e)
  BY <1>1, <1>0 DEF MineMoves, Private, Keeps, When, Coalescing, Piece, InList, Right,
     Current, Carries, FreeAt, FREE, USED, QUEUE
<1>5. e \in Contents[a]
  <2>1. "marked" \in Private /\ e \in Keeps("marked", t)
    BY <1>1 DEF Private, Keeps, When, Piece, Right, Current, Coalescing
  <2> QED
    BY <2>1, ContentsAt
<1>6. Shift(t, a, b, e)
  BY <1>2, <1>3, <1>4, <1>5 DEF Shift, Reach, Private
<1>7. Side(t)' = Side(t)
  BY <1>1 DEF Side
<1>8. /\ ~LoosePlace(a) /\ MyWord(a) = Locked /\ LeftWord(a) = Coal /\ a # FREE
      /\ ~LoosePlace(b) /\ MyWord(b) = Locked /\ LeftWord(b) = Locked /\ b # FREE
  BY PlaceKinds, PlaceNames DEF Private
<1>w. MyWritten(a, b, e)
  BY <1>2, <1>8 DEF MyWritten, MyAt
<1>9. LedgerOK'
  BY <1>0, <1>1, <1>2, <1>6, <1>7, <1>8, Rename DEF MyAt
<1>10. Ctl(t)'
  <2>1. WholeCtl(t)'
    BY <1>0, <1>1 DEF Ctl, WholeCtl
  <2>2. ListCtl(t)'
    BY <1>0, <1>1, SameList DEF Coalescing, Ctl
  <2> QED
    BY <1>0, <1>1, <2>1, <2>2, CoalesceCtl DEF Coalescing
<1>11. BinsInv'
  <2>1. BinFacts(t)'
    BY <1>1, NoBinFacts DEF Scanning
  <2>2. BinFrame(t)
    BY <1>0, <1>1, <1>2, <2>1 DEF BinFrame, binned, BinsInv, BinTypes
  <2>4. Listed(a, e) => Listed(b, e)'
    BY <1>0, <1>1, <1>2 DEF Listed, Registered, Sized, BinOf, Class, binned, FREE
  <2>5. \A k \in Private : \A d \in Keeps(k, t) :
            Listed(<<k, t>>, d) => Listed(<<k, t>>, d)' \/ (a = <<k, t>> /\ d = e)
    BY <1>0, <1>1, <1>2 DEF Private, Keeps, When, Coalescing, Piece, Listed, Registered,
       Sized, BinOf, Class, binned
  <2> QED
    BY <1>0, <1>6, <1>w, <2>2, <2>4, <2>5, BinsShift
<1>12. SideCtl(t)'
  BY <1>1 DEF SideCtl
<1> QED
  BY <1>9, <1>10, <1>11, <1>12

(* setMeFree of coalescAndPutList: the left word, with the right one still  *)
(* to be written.                                                           *)
LEMMA SetMeFreeStep ==
    ASSUME IInv, Local, NEW t \in Threads, Path(t), SetMeFree(t), Mine(t),
           NEW e, e = blk(t)
    PROVE  LedgerOK' /\ Ctl(t)' /\ SideCtl(t)' /\ BinsInv'
<1> DEFINE a == <<"blk", t>>
           b == FREE
<1>1. /\ pc(t) = "free" /\ pc(t)' = "free2" /\ blk(t)' = blk(t) /\ th'[t].tmp = th[t].tmp
      /\ th'[t].cur = th[t].cur /\ th'[t].whole = th[t].whole /\ th'[t].inBin = th[t].inBin
      /\ th'[t].goal = th[t].goal /\ th'[t].list = th[t].list /\ Carries(t)
  BY DEF SetMeFree, Local, Rec, Fields, At, Goto, pc, blk, Carries
<1>0. Ctl(t) /\ LedgerOK /\ CtlOK /\ BinsInv /\ BinFacts(t)
  BY DEF IInv, CtlOK, BinsInv
<1>2. /\ used' = used /\ queue' = queue /\ regions' = regions /\ leftL' = leftL
      /\ myL' = [myL EXCEPT ![e[1]] = e[2]] /\ UNCHANGED binned
  BY DEF SetMeFree, heap, Goto
<1>3. OursMoves(a, b, e)
  BY <1>2, PlaceNames DEF OursMoves, Queued, Private
<1>4. MineMoves(t, a, b, e)
  BY <1>1, <1>0 DEF MineMoves, Private, Keeps, When, Coalescing, Piece, InList, Right,
     Current, Carries, FreeAt, FREE, USED, QUEUE
<1>5. e \in Contents[a]
  <2>1. "blk" \in Private /\ e \in Keeps("blk", t)
    BY <1>1 DEF Private, Keeps, When, Piece, Right, Current, Coalescing
  <2> QED
    BY <2>1, ContentsAt
<1>6. Shift(t, a, b, e)
  BY <1>2, <1>3, <1>4, <1>5 DEF Shift, Reach, Private
<1>7. Side(t) = NoExt /\ Side(t)' = e
  BY <1>1 DEF Side
<1>8. /\ ~LoosePlace(a) /\ MyWord(a) = Coal /\ LeftWord(a) = Coal /\ a # FREE /\ LoosePlace(b)
  BY PlaceKinds, PlaceNames DEF Private
<1>w. MyWritten(a, b, e)
  BY <1>2, <1>8 DEF MyWritten, MyAt
<1>9. LedgerOK'
  BY <1>0, <1>1, <1>2, <1>6, <1>7, <1>8, LetGo DEF MyAt
<1>10. Ctl(t)'
  <2>1. WholeCtl(t)'
    BY <1>0, <1>1 DEF Ctl, WholeCtl
  <2>2. ListCtl(t)'
    BY <1>0, <1>1, SameList DEF Coalescing, Ctl
  <2> QED
    BY <1>0, <1>1, <2>1, <2>2, CoalesceCtl DEF Coalescing
<1>11. BinsInv'
  <2>1. BinFacts(t)'
    BY <1>1, NoBinFacts DEF Scanning
  <2>2. BinFrame(t)
    BY <1>0, <1>1, <1>2, <2>1 DEF BinFrame, binned, BinsInv, BinTypes
  <2>4. Listed(a, e) => Listed(b, e)'
    BY <1>0, <1>1, <1>2 DEF Listed, Registered, Sized, BinOf, Class, binned, FREE
  <2>5. \A k \in Private : \A d \in Keeps(k, t) :
            Listed(<<k, t>>, d) => Listed(<<k, t>>, d)' \/ (a = <<k, t>> /\ d = e)
    BY <1>0, <1>1, <1>2 DEF Private, Keeps, When, Coalescing, Piece, Listed, Registered,
       Sized, BinOf, Class, binned
  <2> QED
    BY <1>0, <1>6, <1>w, <2>2, <2>4, <2>5, BinsShift
<1>12. SideCtl(t)'
  BY <1>0, <1>6, <1>7, ShiftType DEF SideCtl
<1> QED
  BY <1>9, <1>10, <1>11, <1>12

(* doCoalesc gives the right neighbour's left word back.                    *)
LEMMA UndoRightStep ==
    ASSUME IInv, Local, NEW t \in Threads, Path(t), UndoRight(t), Mine(t),
           NEW e, e = Right(t)
    PROVE  LedgerOK' /\ Ctl(t)' /\ SideCtl(t)' /\ BinsInv'
<1> DEFINE a == <<"half", t>>
           b == FREE
<1>1. /\ pc(t) = "undoRight" /\ blk(t)' = blk(t) /\ th'[t].tmp = 0 /\ th'[t].cur = th[t].cur
      /\ th'[t].whole = th[t].whole /\ th'[t].inBin = th[t].inBin /\ th'[t].goal = "requeue"
      /\ th'[t].list = th[t].list /\ Carries(t)
      /\ pc(t)' = IF th[t].inBin THEN "unbin" ELSE "requeue"
  BY DEF UndoRight, Local, Rec, Fields, At, Goto, pc, blk, Carries, GiveUp
<1>0. Ctl(t) /\ LedgerOK /\ CtlOK /\ BinsInv /\ BinFacts(t)
  BY DEF IInv, CtlOK, BinsInv
<1>e. e[1] = End(blk(t)) /\ e[2] = th[t].tmp
  BY DEF Right
<1>2. /\ used' = used /\ queue' = queue /\ regions' = regions /\ leftL' = leftL
      /\ myL' = [myL EXCEPT ![e[1]] = e[2]] /\ UNCHANGED binned
  BY <1>e DEF UndoRight, heap, Goto, GiveUp
<1>3. OursMoves(a, b, e)
  BY <1>2, PlaceNames DEF OursMoves, Queued, Private
<1>4. MineMoves(t, a, b, e)
  BY <1>1, <1>0 DEF MineMoves, Private, Keeps, When, Coalescing, Piece, InList, Right,
     Current, Carries, FreeAt, FREE, USED, QUEUE
<1>5. e \in Contents[a]
  <2>1. "half" \in Private /\ e \in Keeps("half", t)
    BY <1>1 DEF Private, Keeps, When, Piece, Right, Current, Coalescing
  <2> QED
    BY <2>1, ContentsAt
<1>6. Shift(t, a, b, e)
  BY <1>2, <1>3, <1>4, <1>5 DEF Shift, Reach, Private
<1>7. Side(t)' = Side(t)
  BY <1>1 DEF Side
<1>8. /\ LoosePlace(a) /\ MyWord(a) = Coal /\ a # FREE /\ LoosePlace(b)
  BY PlaceKinds, PlaceNames DEF Private
<1>w. MyWritten(a, b, e)
  BY <1>1, <1>2, <1>8, <1>e DEF MyWritten, MyAt
<1>9. LedgerOK'
  BY <1>0, <1>1, <1>2, <1>6, <1>7, <1>8, <1>e, TakeHalf DEF MyAt
<1>10. Ctl(t)'
  <2>1. WholeCtl(t)'
    BY <1>0, <1>1 DEF Ctl, WholeCtl
  <2>2. ListCtl(t)'
    BY <1>0, <1>1, SameList DEF Coalescing, Ctl
  <2> QED
    BY <1>0, <1>1, <2>1, <2>2, CoalesceCtl DEF Coalescing
<1>11. BinsInv'
  <2>1. BinFacts(t)'
    BY <1>1, NoBinFacts DEF Scanning
  <2>2. BinFrame(t)
    BY <1>0, <1>1, <1>2, <2>1 DEF BinFrame, binned, BinsInv, BinTypes
  <2>4. Listed(a, e) => Listed(b, e)'
    BY <1>0, <1>1, <1>2 DEF Listed, Registered, Sized, BinOf, Class, binned, FREE
  <2>5. \A k \in Private : \A d \in Keeps(k, t) :
            Listed(<<k, t>>, d) => Listed(<<k, t>>, d)' \/ (a = <<k, t>> /\ d = e)
    BY <1>0, <1>1, <1>2 DEF Private, Keeps, When, Coalescing, Piece, Listed, Registered,
       Sized, BinOf, Class, binned
  <2> QED
    BY <1>0, <1>6, <1>w, <2>2, <2>4, <2>5, BinsShift
<1>12. SideCtl(t)'
  BY <1>1 DEF SideCtl
<1> QED
  BY <1>9, <1>10, <1>11, <1>12

(* doCoalesc locks the right side of the right neighbour, which is now its  *)
(* own.                                                                     *)
LEMMA LockRightTakenStep ==
    ASSUME IInv, Local, NEW t \in Threads, Path(t), LockRight(t), Mine(t),
           ~(leftL[End(blk(t)) + th[t].tmp] <= Coal),
           NEW e, e = Right(t)
    PROVE  LedgerOK' /\ Ctl(t)' /\ SideCtl(t)' /\ BinsInv'
<1> DEFINE a == <<"half", t>>
           b == <<"right", t>>
<1>1. /\ pc(t) = "right2" /\ blk(t)' = blk(t) /\ th'[t].tmp = th[t].tmp
      /\ th'[t].cur = th[t].cur /\ th'[t].whole = th[t].whole /\ th'[t].inBin = th[t].inBin
      /\ th'[t].goal = th[t].goal /\ th'[t].list = th[t].list /\ Carries(t)
      /\ pc(t)' = IF myBin[End(blk(t))] = NoBin THEN "next" ELSE "unbinRight"
  BY DEF LockRight, Local, Rec, Fields, At, Goto, pc, blk, Carries, Coal
<1>0. Ctl(t) /\ LedgerOK /\ CtlOK /\ BinsInv /\ BinFacts(t)
  BY DEF IInv, CtlOK, BinsInv
<1>e. e[1] = End(blk(t)) /\ e[2] = th[t].tmp
  BY DEF Right
<1>l. /\ myL \in [Units -> Int] /\ leftL \in [Units -> Int]
      /\ tLock \in [Bins -> Threads \cup {NoThread}]
  BY <1>0 DEF LedgerOK, Ledger, BinsInv, BinTypes
<1>n. End(e) = End(blk(t)) + th[t].tmp
  BY <1>e DEF End
<1>u. End(e) \in Units /\ e \in Contents[a]
  <2>1. e \in Contents[a]
    <3>1. "half" \in Private /\ e \in Keeps("half", t)
      BY <1>1 DEF Private, Keeps, When, Piece, Right, Current, Coalescing
    <3> QED
      BY <3>1, ContentsAt
  <2>2. a \in Places
    BY PlaceNames DEF Private
  <2> HIDE DEF Contents, Sides
  <2> QED
    BY <1>0, <2>1, <2>2, PieceType DEF LedgerOK
<1>m. ~(leftL[End(e)] <= Coal) /\ leftL[End(e)] \in Int
  BY <1>l, <1>n, <1>u
<1>2. /\ used' = used /\ queue' = queue /\ regions' = regions /\ myL' = myL
      /\ leftL' = [leftL EXCEPT ![End(e)] = Coal] /\ UNCHANGED binned /\ leftL[End(e)] > Coal
  BY <1>n, <1>m, <1>l DEF LockRight, heap, Goto, Coal
<1>3. OursMoves(a, b, e)
  BY <1>2, PlaceNames DEF OursMoves, Queued, Private
<1>4. MineMoves(t, a, b, e)
  BY <1>1, <1>0 DEF MineMoves, Private, Keeps, When, Coalescing, Piece, InList, Right,
     Current, Carries, FreeAt, FREE, USED, QUEUE
<1>5. e \in Contents[a]
  <2>1. "half" \in Private /\ e \in Keeps("half", t)
    BY <1>1 DEF Private, Keeps, When, Piece, Right, Current, Coalescing
  <2> QED
    BY <2>1, ContentsAt
<1>6. Shift(t, a, b, e)
  BY <1>2, <1>3, <1>4, <1>5 DEF Shift, Reach, Private
<1>7. Side(t)' = Side(t)
  BY <1>1 DEF Side
<1>8. /\ LoosePlace(a) /\ MyWord(a) = Coal /\ a # FREE /\ ~LoosePlace(b) /\ MyWord(b) = Coal
      /\ LeftWord(b) = Coal /\ b # FREE
  BY PlaceKinds, PlaceNames DEF Private
<1>w. MyWritten(a, b, e)
  BY <1>1, <1>2, <1>8, <1>e DEF MyWritten, MyAt
<1>9. LedgerOK'
  BY <1>0, <1>1, <1>2, <1>6, <1>7, <1>8, <1>e, LockOther DEF MyAt
<1>10. Ctl(t)'
  <2>1. WholeCtl(t)'
    BY <1>0, <1>1 DEF Ctl, WholeCtl
  <2>2. ListCtl(t)'
    BY <1>0, <1>1, SameList DEF Coalescing, Ctl
  <2> QED
    BY <1>0, <1>1, <2>1, <2>2, CoalesceCtl DEF Coalescing
<1>11. BinsInv'
  <2>1. BinFacts(t)'
    BY <1>1, <1>2 DEF BinFacts, Scanning, binned
  <2>2. BinFrame(t)
    BY <1>0, <1>1, <1>2, <2>1 DEF BinFrame, binned, BinsInv, BinTypes
  <2>4. Listed(a, e) => Listed(b, e)'
    BY <1>1, <1>2, <1>e, NoBinApart DEF Listed, Registered, Sized, BinOf, Class, binned
  <2>5. \A k \in Private : \A d \in Keeps(k, t) :
            Listed(<<k, t>>, d) => Listed(<<k, t>>, d)' \/ (a = <<k, t>> /\ d = e)
    BY <1>0, <1>1, <1>2 DEF Private, Keeps, When, Coalescing, Piece, Listed, Registered,
       Sized, BinOf, Class, binned
  <2> QED
    BY <1>0, <1>6, <1>w, <2>2, <2>4, <2>5, BinsShift
<1>12. SideCtl(t)'
  BY <1>1 DEF SideCtl
<1> QED
  BY <1>9, <1>10, <1>11, <1>12

(* doCoalesc gives back the word of the block behind the right neighbour.   *)
LEMMA UnpeekNextStep ==
    ASSUME IInv, Local, NEW t \in Threads, Path(t), UnpeekNext(t), Mine(t),
           NEW e, e = Right(t)
    PROVE  LedgerOK' /\ Ctl(t)' /\ SideCtl(t)' /\ BinsInv'
<1> DEFINE a == <<"half", t>>
           b == FREE
<1>1. /\ pc(t) = "unpeek" /\ pc(t)' = "put" /\ blk(t)' = blk(t) /\ th'[t].tmp = 0
      /\ th'[t].cur = th[t].cur /\ th'[t].whole = th[t].whole /\ th'[t].inBin = th[t].inBin
      /\ th'[t].goal = th[t].goal /\ th'[t].list = th[t].list /\ Carries(t)
  BY DEF UnpeekNext, Local, Rec, Fields, At, Goto, pc, blk, Carries
<1>0. Ctl(t) /\ LedgerOK /\ CtlOK /\ BinsInv /\ BinFacts(t)
  BY DEF IInv, CtlOK, BinsInv
<1>e. e[1] = End(blk(t)) /\ e[2] = th[t].tmp
  BY DEF Right
<1>2. /\ used' = used /\ queue' = queue /\ regions' = regions /\ leftL' = leftL
      /\ myL' = [myL EXCEPT ![e[1]] = e[2]] /\ UNCHANGED binned
  BY <1>e DEF UnpeekNext, heap, Goto
<1>3. OursMoves(a, b, e)
  BY <1>2, PlaceNames DEF OursMoves, Queued, Private
<1>4. MineMoves(t, a, b, e)
  BY <1>1, <1>0 DEF MineMoves, Private, Keeps, When, Coalescing, Piece, InList, Right,
     Current, Carries, FreeAt, FREE, USED, QUEUE
<1>5. e \in Contents[a]
  <2>1. "half" \in Private /\ e \in Keeps("half", t)
    BY <1>1 DEF Private, Keeps, When, Piece, Right, Current, Coalescing
  <2> QED
    BY <2>1, ContentsAt
<1>6. Shift(t, a, b, e)
  BY <1>2, <1>3, <1>4, <1>5 DEF Shift, Reach, Private
<1>7. Side(t)' = Side(t)
  BY <1>1 DEF Side
<1>8. /\ LoosePlace(a) /\ MyWord(a) = Coal /\ a # FREE /\ LoosePlace(b)
  BY PlaceKinds, PlaceNames DEF Private
<1>w. MyWritten(a, b, e)
  BY <1>1, <1>2, <1>8, <1>e DEF MyWritten, MyAt
<1>9. LedgerOK'
  BY <1>0, <1>1, <1>2, <1>6, <1>7, <1>8, <1>e, TakeHalf DEF MyAt
<1>10. Ctl(t)'
  <2>1. WholeCtl(t)'
    BY <1>0, <1>1 DEF Ctl, WholeCtl
  <2>2. ListCtl(t)'
    BY <1>0, <1>1, SameList DEF Coalescing, Ctl
  <2> QED
    BY <1>0, <1>1, <2>1, <2>2, CoalesceCtl DEF Coalescing
<1>11. BinsInv'
  <2>1. BinFacts(t)'
    BY <1>1, NoBinFacts DEF Scanning
  <2>2. BinFrame(t)
    BY <1>0, <1>1, <1>2, <2>1 DEF BinFrame, binned, BinsInv, BinTypes
  <2>4. Listed(a, e) => Listed(b, e)'
    BY <1>0, <1>1, <1>2 DEF Listed, Registered, Sized, BinOf, Class, binned, FREE
  <2>5. \A k \in Private : \A d \in Keeps(k, t) :
            Listed(<<k, t>>, d) => Listed(<<k, t>>, d)' \/ (a = <<k, t>> /\ d = e)
    BY <1>0, <1>1, <1>2 DEF Private, Keeps, When, Coalescing, Piece, Listed, Registered,
       Sized, BinOf, Class, binned
  <2> QED
    BY <1>0, <1>6, <1>w, <2>2, <2>4, <2>5, BinsShift
<1>12. SideCtl(t)'
  BY <1>1 DEF SideCtl
<1> QED
  BY <1>9, <1>10, <1>11, <1>12

(* tryLockBlock locks the right side of the block of the bin.               *)
LEMMA LockSideTakenStep ==
    ASSUME IInv, Local, NEW t \in Threads, Path(t), LockSide(t), Mine(t),
           ~(leftL[th[t].cur + th[t].tmp] <= Coal),
           NEW e, e = Current(t)
    PROVE  LedgerOK' /\ Ctl(t)' /\ SideCtl(t)' /\ BinsInv'
<1> DEFINE a == <<"tried", t>>
           b == <<"cur", t>>
<1>1. /\ pc(t) = "lockSide" /\ pc(t)' = "fit" /\ blk(t)' = blk(t) /\ th'[t].tmp = th[t].tmp
      /\ th'[t].cur = th[t].cur /\ th'[t].whole = th[t].whole /\ th'[t].inBin = th[t].inBin
      /\ th'[t].goal = th[t].goal /\ th'[t].list = th[t].list /\ Carries(t)
  BY DEF LockSide, Local, Rec, Fields, At, Goto, pc, blk, Carries, Coal
<1>0. Ctl(t) /\ LedgerOK /\ CtlOK /\ BinsInv /\ BinFacts(t)
  BY DEF IInv, CtlOK, BinsInv
<1>e. e[1] = th[t].cur /\ e[2] = th[t].tmp
  BY DEF Current
<1>l. /\ myL \in [Units -> Int] /\ leftL \in [Units -> Int]
      /\ tLock \in [Bins -> Threads \cup {NoThread}]
  BY <1>0 DEF LedgerOK, Ledger, BinsInv, BinTypes
<1>n. End(e) = th[t].cur + th[t].tmp
  BY <1>e DEF End
<1>u. End(e) \in Units /\ e \in Contents[a]
  <2>1. e \in Contents[a]
    <3>1. "tried" \in Private /\ e \in Keeps("tried", t)
      BY <1>1 DEF Private, Keeps, When, Piece, Right, Current, Coalescing
    <3> QED
      BY <3>1, ContentsAt
  <2>2. a \in Places
    BY PlaceNames DEF Private
  <2> HIDE DEF Contents, Sides
  <2> QED
    BY <1>0, <2>1, <2>2, PieceType DEF LedgerOK
<1>m. ~(leftL[End(e)] <= Coal) /\ leftL[End(e)] \in Int
  BY <1>l, <1>n, <1>u
<1>2. /\ used' = used /\ queue' = queue /\ regions' = regions /\ myL' = myL
      /\ leftL' = [leftL EXCEPT ![End(e)] = Locked] /\ UNCHANGED binned /\ leftL[End(e)] > Coal
  BY <1>n, <1>m, <1>l DEF LockSide, heap, Goto, Coal
<1>3. OursMoves(a, b, e)
  BY <1>2, PlaceNames DEF OursMoves, Queued, Private
<1>4. MineMoves(t, a, b, e)
  BY <1>1, <1>0 DEF MineMoves, Private, Keeps, When, Coalescing, Piece, InList, Right,
     Current, Carries, FreeAt, FREE, USED, QUEUE
<1>5. e \in Contents[a]
  <2>1. "tried" \in Private /\ e \in Keeps("tried", t)
    BY <1>1 DEF Private, Keeps, When, Piece, Right, Current, Coalescing
  <2> QED
    BY <2>1, ContentsAt
<1>6. Shift(t, a, b, e)
  BY <1>2, <1>3, <1>4, <1>5 DEF Shift, Reach, Private
<1>7. Side(t)' = Side(t)
  BY <1>1 DEF Side
<1>8. /\ LoosePlace(a) /\ MyWord(a) = Locked /\ a # FREE /\ ~LoosePlace(b) /\ MyWord(b) = Locked
      /\ LeftWord(b) = Locked /\ b # FREE
  BY PlaceKinds, PlaceNames DEF Private
<1>w. MyWritten(a, b, e)
  BY <1>1, <1>2, <1>8, <1>e DEF MyWritten, MyAt
<1>9. LedgerOK'
  BY <1>0, <1>1, <1>2, <1>6, <1>7, <1>8, <1>e, LockOther DEF MyAt
<1>10. Ctl(t)'
  <2>1. BinCtl(t)'
    BY <1>0, <1>1 DEF Ctl, BinCtl, Scanning, Carries
  <2> QED
    BY <1>0, <1>1, <2>1, SearchCtl DEF Carries, Asking, Scanning
<1>11. BinsInv'
  <2>1. BinFacts(t)'
    BY <1>0, <1>1, <1>2 DEF BinFacts, Scanning, binned, Carries
  <2>2. BinFrame(t)
    BY <1>0, <1>1, <1>2, <2>1 DEF BinFrame, binned, BinsInv, BinTypes
  <2>4. Listed(a, e) => Listed(b, e)'
    BY <1>0, <1>1, <1>2 DEF Listed, Registered, Sized, BinOf, Class, binned, FREE
  <2>5. \A k \in Private : \A d \in Keeps(k, t) :
            Listed(<<k, t>>, d) => Listed(<<k, t>>, d)' \/ (a = <<k, t>> /\ d = e)
    BY <1>0, <1>1, <1>2 DEF Private, Keeps, When, Coalescing, Piece, Listed, Registered,
       Sized, BinOf, Class, binned
  <2> QED
    BY <1>0, <1>6, <1>w, <2>2, <2>4, <2>5, BinsShift
<1>12. SideCtl(t)'
  BY <1>1 DEF SideCtl
<1> QED
  BY <1>9, <1>10, <1>11, <1>12

(* tryLockBlock gives back the left word when the right one is taken by     *)
(* another.                                                                 *)
LEMMA UnlockMeStep ==
    ASSUME IInv, Local, NEW t \in Threads, Path(t), UnlockMe(t), Mine(t),
           NEW e, e = Current(t)
    PROVE  LedgerOK' /\ Ctl(t)' /\ SideCtl(t)' /\ BinsInv'
<1> DEFINE a == <<"tried", t>>
           b == FREE
<1>1. /\ pc(t) = "unlockMe" /\ pc(t)' = "bin" /\ blk(t)' = blk(t) /\ th'[t].tmp = 0
      /\ th'[t].cur = 0 /\ th'[t].whole = th[t].whole /\ th'[t].inBin = th[t].inBin
      /\ th'[t].goal = th[t].goal /\ th'[t].list = th[t].list /\ Carries(t)
  BY DEF UnlockMe, Local, Rec, Fields, At, Goto, pc, blk, Carries
<1>0. Ctl(t) /\ LedgerOK /\ CtlOK /\ BinsInv /\ BinFacts(t)
  BY DEF IInv, CtlOK, BinsInv
<1>e. e[1] = th[t].cur /\ e[2] = th[t].tmp
  BY DEF Current
<1>2. /\ used' = used /\ queue' = queue /\ regions' = regions /\ leftL' = leftL
      /\ myL' = [myL EXCEPT ![e[1]] = e[2]] /\ myBin' = myBin /\ bins' = bins /\ bit' = bit
      /\ Unlock(t)
  BY <1>e DEF UnlockMe, heap, Goto
<1>3. OursMoves(a, b, e)
  BY <1>2, PlaceNames DEF OursMoves, Queued, Private
<1>4. MineMoves(t, a, b, e)
  BY <1>1, <1>0 DEF MineMoves, Private, Keeps, When, Coalescing, Piece, InList, Right,
     Current, Carries, FreeAt, FREE, USED, QUEUE
<1>5. e \in Contents[a]
  <2>1. "tried" \in Private /\ e \in Keeps("tried", t)
    BY <1>1 DEF Private, Keeps, When, Piece, Right, Current, Coalescing
  <2> QED
    BY <2>1, ContentsAt
<1>6. Shift(t, a, b, e)
  BY <1>2, <1>3, <1>4, <1>5 DEF Shift, Reach, Private
<1>7. Side(t)' = Side(t)
  BY <1>1 DEF Side
<1>8. /\ LoosePlace(a) /\ MyWord(a) = Locked /\ a # FREE /\ LoosePlace(b)
  BY PlaceKinds, PlaceNames DEF Private
<1>w. MyWritten(a, b, e)
  BY <1>1, <1>2, <1>8, <1>e DEF MyWritten, MyAt
<1>9. LedgerOK'
  BY <1>0, <1>1, <1>2, <1>6, <1>7, <1>8, <1>e, TakeHalf DEF MyAt
<1>10. Ctl(t)'
  <2>1. BinCtl(t)'
    BY <1>0, <1>1 DEF Ctl, BinCtl, Scanning, Carries
  <2> QED
    BY <1>0, <1>1, <2>1, SearchCtl DEF Carries, Asking, Scanning
<1>11. BinsInv'
  <2>1. BinFacts(t)' /\ tLock[th[t].bin] = t /\ th[t].bin \in Bins
    BY <1>0, <1>1, NoBinFacts DEF Scanning, BinFacts, Ctl, BinCtl
  <2>2. BinFrame(t)
    BY <1>0, <1>1, <1>2, <2>1 DEF BinFrame, binned, BinsInv, BinTypes, Unlock
  <2>4. Listed(a, e) => Listed(b, e)'
    BY <1>0, <1>1, <1>2 DEF Listed, Registered, Sized, BinOf, Class, binned, FREE
  <2>5. \A k \in Private : \A d \in Keeps(k, t) :
            Listed(<<k, t>>, d) => Listed(<<k, t>>, d)' \/ (a = <<k, t>> /\ d = e)
    BY <1>0, <1>1, <1>2 DEF Private, Keeps, When, Coalescing, Piece, Listed, Registered,
       Sized, BinOf, Class, binned
  <2> QED
    BY <1>0, <1>6, <1>w, <2>2, <2>4, <2>5, BinsShift
<1>12. SideCtl(t)'
  BY <1>1 DEF SideCtl
<1> QED
  BY <1>9, <1>10, <1>11, <1>12

(* getBlock gives back the left word of a block that does not fit.          *)
LEMMA NotThisOneStep ==
    ASSUME IInv, Local, NEW t \in Threads, Path(t), NotThisOne(t), Mine(t),
           NEW e, e = Current(t)
    PROVE  LedgerOK' /\ Ctl(t)' /\ SideCtl(t)' /\ BinsInv'
<1> DEFINE a == <<"cur", t>>
           b == FREE
<1>1. /\ pc(t) = "fit" /\ pc(t)' = "skip" /\ blk(t)' = blk(t) /\ th'[t].tmp = th[t].tmp
      /\ th'[t].cur = th[t].cur /\ th'[t].whole = th[t].whole /\ th'[t].inBin = th[t].inBin
      /\ th'[t].goal = th[t].goal /\ th'[t].list = th[t].list /\ Carries(t)
  BY DEF NotThisOne, Local, Rec, Fields, At, Goto, pc, blk, Carries
<1>0. Ctl(t) /\ LedgerOK /\ CtlOK /\ BinsInv /\ BinFacts(t)
  BY DEF IInv, CtlOK, BinsInv
<1>e. e[1] = th[t].cur /\ e[2] = th[t].tmp
  BY DEF Current
<1>2. /\ used' = used /\ queue' = queue /\ regions' = regions /\ leftL' = leftL
      /\ myL' = [myL EXCEPT ![e[1]] = e[2]] /\ UNCHANGED binned
  BY <1>e DEF NotThisOne, heap, Goto
<1>3. OursMoves(a, b, e)
  BY <1>2, PlaceNames DEF OursMoves, Queued, Private
<1>4. MineMoves(t, a, b, e)
  BY <1>1, <1>0 DEF MineMoves, Private, Keeps, When, Coalescing, Piece, InList, Right,
     Current, Carries, FreeAt, FREE, USED, QUEUE
<1>5. e \in Contents[a]
  <2>1. "cur" \in Private /\ e \in Keeps("cur", t)
    BY <1>1 DEF Private, Keeps, When, Piece, Right, Current, Coalescing
  <2> QED
    BY <2>1, ContentsAt
<1>6. Shift(t, a, b, e)
  BY <1>2, <1>3, <1>4, <1>5 DEF Shift, Reach, Private
<1>7. Side(t) = NoExt /\ Side(t)' = e
  BY <1>1 DEF Side, Current
<1>8. /\ ~LoosePlace(a) /\ MyWord(a) = Locked /\ LeftWord(a) = Locked /\ a # FREE
      /\ LoosePlace(b)
  BY PlaceKinds, PlaceNames DEF Private
<1>w. MyWritten(a, b, e)
  BY <1>1, <1>2, <1>8, <1>e DEF MyWritten, MyAt
<1>9. LedgerOK'
  BY <1>0, <1>1, <1>2, <1>6, <1>7, <1>8, <1>e, LetGo DEF MyAt
<1>10. Ctl(t)'
  <2>1. BinCtl(t)'
    BY <1>0, <1>1 DEF Ctl, BinCtl, Scanning, Carries
  <2> QED
    BY <1>0, <1>1, <2>1, SearchCtl DEF Carries, Asking, Scanning
<1>11. BinsInv'
  <2>1. BinFacts(t)'
    BY <1>0, <1>1, <1>2 DEF BinFacts, Scanning, binned, Carries
  <2>2. BinFrame(t)
    BY <1>0, <1>1, <1>2, <2>1 DEF BinFrame, binned, BinsInv, BinTypes
  <2>4. Listed(a, e) => Listed(b, e)'
    BY <1>0, <1>1, <1>2 DEF Listed, Registered, Sized, BinOf, Class, binned, FREE
  <2>5. \A k \in Private : \A d \in Keeps(k, t) :
            Listed(<<k, t>>, d) => Listed(<<k, t>>, d)' \/ (a = <<k, t>> /\ d = e)
    BY <1>0, <1>1, <1>2 DEF Private, Keeps, When, Coalescing, Piece, Listed, Registered,
       Sized, BinOf, Class, binned
  <2> QED
    BY <1>0, <1>6, <1>w, <2>2, <2>4, <2>5, BinsShift
<1>12. SideCtl(t)'
  BY <1>0, <1>6, <1>7, ShiftType DEF SideCtl
<1> QED
  BY <1>9, <1>10, <1>11, <1>12

(* doCoalesc locks the left word of a free right neighbour.                 *)
LEMMA TryRightTakenStep ==
    ASSUME IInv, Local, NEW t \in Threads, Path(t), TryRight(t), Mine(t),
           myL[End(blk(t))] > EndMark,
           NEW e, e = FreeAt(End(blk(t)))
    PROVE  LedgerOK' /\ Ctl(t)' /\ SideCtl(t)' /\ BinsInv'
<1> DEFINE a == FREE
           b == <<"half", t>>
<1>x. /\ pc(t) = "right" /\ myL' = [myL EXCEPT ![End(blk(t))] = Coal]
      /\ th' = [th EXCEPT ![t].pc = "right2", ![t].tmp = myL[End(blk(t))]]
  BY DEF TryRight, Locked, Coal, EndMark, At, pc
<1>1. /\ pc(t) = "right" /\ pc(t)' = "right2" /\ blk(t)' = blk(t)
      /\ th'[t].tmp = myL[End(blk(t))] /\ th'[t].cur = th[t].cur /\ th'[t].whole = th[t].whole
      /\ th'[t].inBin = th[t].inBin /\ th'[t].goal = th[t].goal /\ th'[t].list = th[t].list
      /\ Carries(t)
  BY <1>x DEF TryRight, Local, Rec, Fields, At, Goto, pc, blk, Carries
<1>0. Ctl(t) /\ LedgerOK /\ CtlOK /\ BinsInv /\ BinFacts(t)
  BY DEF IInv, CtlOK, BinsInv
<1>u. End(blk(t)) \in Units
  <2>1. blk(t) \in Contents[<<"blk", t>>]
    BY <1>1, ContentsAt DEF Private, Keeps, When, Piece, Coalescing
  <2>2. <<"blk", t>> \in Places
    BY PlaceNames DEF Private
  <2> HIDE DEF Contents, Sides
  <2> QED
    BY <1>0, <2>1, <2>2, PieceType DEF LedgerOK
<1>e. e[1] = End(blk(t)) /\ e[2] = myL[End(blk(t))]
  BY DEF FreeAt
<1>2. /\ used' = used /\ queue' = queue /\ regions' = regions /\ leftL' = leftL
      /\ myL' = [myL EXCEPT ![e[1]] = Coal] /\ UNCHANGED binned
  BY <1>x, <1>e DEF TryRight, heap, Goto
<1>3. OursMoves(a, b, e)
  BY <1>2, PlaceNames DEF OursMoves, Queued, Private
<1>4. MineMoves(t, a, b, e)
  BY <1>1, <1>0 DEF MineMoves, Private, Keeps, When, Coalescing, Piece, InList, Right,
     Current, Carries, FreeAt, FREE, USED, QUEUE
<1>5. e \in Contents[a]
  BY <1>u, ContentsAt DEF Free, FreeAt
<1>6. Shift(t, a, b, e)
  BY <1>2, <1>3, <1>4, <1>5 DEF Shift, Reach, Private
<1>7. Side(t)' = Side(t)
  BY <1>1 DEF Side
<1>8. /\ LoosePlace(a) /\ LoosePlace(b) /\ MyWord(b) = Coal /\ b # FREE
  BY PlaceKinds, PlaceNames DEF Private
<1>w. MyWritten(a, b, e)
  BY <1>1, <1>2, <1>8, <1>e DEF MyWritten, MyAt
<1>9. LedgerOK'
  BY <1>0, <1>1, <1>2, <1>6, <1>7, <1>8, <1>e, TakeHalf DEF MyAt
<1>10. Ctl(t)'
  <2>1. WholeCtl(t)'
    BY <1>0, <1>1 DEF Ctl, WholeCtl
  <2>2. ListCtl(t)'
    BY <1>0, <1>1, SameList DEF Coalescing, Ctl
  <2> QED
    BY <1>0, <1>1, <2>1, <2>2, CoalesceCtl DEF Coalescing
<1>11. BinsInv'
  <2>1. BinFacts(t)'
    BY <1>1, NoBinFacts DEF Scanning
  <2>2. BinFrame(t)
    BY <1>0, <1>1, <1>2, <2>1 DEF BinFrame, binned, BinsInv, BinTypes
  <2>4. Listed(a, e) => Listed(b, e)'
    BY <1>0, <1>1, <1>2 DEF Listed, Registered, Sized, BinOf, Class, binned, FREE
  <2>5. \A k \in Private : \A d \in Keeps(k, t) :
            Listed(<<k, t>>, d) => Listed(<<k, t>>, d)' \/ (a = <<k, t>> /\ d = e)
    BY <1>0, <1>1, <1>2 DEF Private, Keeps, When, Coalescing, Piece, Listed, Registered,
       Sized, BinOf, Class, binned
  <2> QED
    BY <1>0, <1>6, <1>w, <2>2, <2>4, <2>5, BinsShift
<1>12. SideCtl(t)'
  BY <1>1 DEF SideCtl
<1> QED
  BY <1>9, <1>10, <1>11, <1>12

(* tryLockBlock locks the left word of the block of the bin.                *)
LEMMA LockMeTakenStep ==
    ASSUME IInv, Local, NEW t \in Threads, Path(t), LockMe(t), Mine(t),
           ~(myL[th[t].cur] <= Coal),
           NEW e, e = FreeAt(th[t].cur)
    PROVE  LedgerOK' /\ Ctl(t)' /\ SideCtl(t)' /\ BinsInv'
<1> DEFINE a == FREE
           b == <<"tried", t>>
<1>x. /\ pc(t) = "lockMe" /\ myL' = [myL EXCEPT ![th[t].cur] = Locked] /\ tLock' = tLock
      /\ th' = [th EXCEPT ![t].pc = "lockSide", ![t].tmp = myL[th[t].cur]]
  BY DEF LockMe, At, pc
<1>1. /\ pc(t) = "lockMe" /\ pc(t)' = "lockSide" /\ blk(t)' = blk(t)
      /\ th'[t].tmp = myL[th[t].cur] /\ th'[t].cur = th[t].cur /\ th'[t].whole = th[t].whole
      /\ th'[t].inBin = th[t].inBin /\ th'[t].goal = th[t].goal /\ th'[t].list = th[t].list
      /\ Carries(t)
  BY <1>x DEF LockMe, Local, Rec, Fields, At, Goto, pc, blk, Carries, binned
<1>0. Ctl(t) /\ LedgerOK /\ CtlOK /\ BinsInv /\ BinFacts(t)
  BY DEF IInv, CtlOK, BinsInv
<1>u. th[t].cur \in Units /\ myL[th[t].cur] > EndMark
  BY <1>0, <1>1, CurrentBegins DEF Scanning
<1>e. e[1] = th[t].cur /\ e[2] = myL[th[t].cur]
  BY DEF FreeAt
<1>2. /\ used' = used /\ queue' = queue /\ regions' = regions /\ leftL' = leftL
      /\ myL' = [myL EXCEPT ![e[1]] = Locked] /\ UNCHANGED binned
  BY <1>x, <1>e DEF LockMe, heap, Goto, binned
<1>3. OursMoves(a, b, e)
  BY <1>2, PlaceNames DEF OursMoves, Queued, Private
<1>4. MineMoves(t, a, b, e)
  BY <1>1, <1>0 DEF MineMoves, Private, Keeps, When, Coalescing, Piece, InList, Right,
     Current, Carries, FreeAt, FREE, USED, QUEUE
<1>5. e \in Contents[a]
  BY <1>u, ContentsAt DEF Free, FreeAt
<1>6. Shift(t, a, b, e)
  BY <1>2, <1>3, <1>4, <1>5 DEF Shift, Reach, Private
<1>7. Side(t)' = Side(t)
  BY <1>1 DEF Side
<1>8. /\ LoosePlace(a) /\ LoosePlace(b) /\ MyWord(b) = Locked /\ b # FREE
  BY PlaceKinds, PlaceNames DEF Private
<1>w. MyWritten(a, b, e)
  BY <1>1, <1>2, <1>8, <1>e DEF MyWritten, MyAt
<1>9. LedgerOK'
  BY <1>0, <1>1, <1>2, <1>6, <1>7, <1>8, <1>e, TakeHalf DEF MyAt
<1>10. Ctl(t)'
  <2>1. BinCtl(t)'
    BY <1>0, <1>1 DEF Ctl, BinCtl, Scanning, Carries
  <2> QED
    BY <1>0, <1>1, <2>1, SearchCtl DEF Carries, Asking, Scanning
<1>11. BinsInv'
  <2>1. BinFacts(t)'
    BY <1>0, <1>1, <1>2 DEF BinFacts, Scanning, binned, Carries
  <2>2. BinFrame(t)
    BY <1>0, <1>1, <1>2, <2>1 DEF BinFrame, binned, BinsInv, BinTypes
  <2>4. Listed(a, e) => Listed(b, e)'
    BY <1>0, <1>1, <1>2 DEF Listed, Registered, Sized, BinOf, Class, binned, FREE
  <2>5. \A k \in Private : \A d \in Keeps(k, t) :
            Listed(<<k, t>>, d) => Listed(<<k, t>>, d)' \/ (a = <<k, t>> /\ d = e)
    BY <1>0, <1>1, <1>2 DEF Private, Keeps, When, Coalescing, Piece, Listed, Registered,
       Sized, BinOf, Class, binned
  <2> QED
    BY <1>0, <1>6, <1>w, <2>2, <2>4, <2>5, BinsShift
<1>12. SideCtl(t)'
  BY <1>1 DEF SideCtl
<1> QED
  BY <1>9, <1>10, <1>11, <1>12

(* markCoalescing: the left word of the next block of the list.             *)
LEMMA MarkMineStep ==
    ASSUME IInv, Local, NEW t \in Threads, Path(t), MarkMine(t), Mine(t),
           NEW e, e = Head(th[t].list)
    PROVE  LedgerOK' /\ Ctl(t)' /\ SideCtl(t)' /\ BinsInv'
<1> DEFINE a == <<"list", t>>
           b == <<"fresh", t>>
<1>1. /\ pc(t) = "mark" /\ pc(t)' = "markRight" /\ blk(t)' = e /\ th'[t].tmp = th[t].tmp
      /\ th'[t].cur = th[t].cur /\ th'[t].whole = th[t].whole /\ th'[t].inBin = th[t].inBin
      /\ th'[t].goal = th[t].goal /\ th'[t].list = Tail(th[t].list) /\ Carries(t)
  BY DEF MarkMine, Local, Rec, Fields, At, Goto, pc, blk, Carries
<1>0. Ctl(t) /\ LedgerOK /\ CtlOK /\ BinsInv /\ BinFacts(t)
  BY DEF IInv, CtlOK, BinsInv
<1>h. /\ Tail(th[t].list) \in Seq(Extents) /\ Distinct(Tail(th[t].list)) /\ e \in InList(t)
      /\ \A d : d \in InList(t)' <=> d \in InList(t) /\ d # e
  <2>1. th[t].list \in Seq(Extents) /\ th[t].list # <<>> /\ Distinct(th[t].list)
    BY <1>0, <1>1 DEF Ctl, ListCtl
  <2>2. /\ Tail(th[t].list) \in Seq(Extents) /\ Distinct(Tail(th[t].list)) /\ e \in Elements(th[t].list)
        /\ \A d : d \in Elements(Tail(th[t].list)) <=> d \in Elements(th[t].list) /\ d # e
    BY <2>1, HeadApart
  <2>3. InList(t) = Elements(th[t].list) /\ InList(t)' = Elements(Tail(th[t].list))
    BY <1>1 DEF InList, Elements
  <2> QED
    BY <2>2, <2>3
<1>2. /\ used' = used /\ queue' = queue /\ regions' = regions /\ leftL' = leftL
      /\ myL' = [myL EXCEPT ![e[1]] = Coal] /\ UNCHANGED binned
  BY DEF MarkMine, heap, Goto
<1>3. OursMoves(a, b, e)
  BY <1>2, PlaceNames DEF OursMoves, Queued, Private
<1>4. MineMoves(t, a, b, e)
  BY <1>1, <1>0, <1>h DEF MineMoves, Private, Keeps, When, Coalescing, Piece, Carries
<1>5. e \in Contents[a]
  BY <1>h, ContentsAt DEF Private, Keeps
<1>6. Shift(t, a, b, e)
  BY <1>2, <1>3, <1>4, <1>5 DEF Shift, Reach, Private
<1>7. Side(t)' = Side(t)
  BY <1>1 DEF Side
<1>8. /\ ~LoosePlace(a) /\ MyWord(a) = Locked /\ LeftWord(a) = Locked /\ a # FREE
      /\ ~LoosePlace(b) /\ MyWord(b) = Coal /\ LeftWord(b) = Locked /\ b # FREE
  BY PlaceKinds, PlaceNames DEF Private
<1>w. MyWritten(a, b, e)
  BY <1>2, <1>8 DEF MyWritten, MyAt
<1>9. LedgerOK'
  BY <1>0, <1>1, <1>2, <1>6, <1>7, <1>8, Rename DEF MyAt
<1>10. Ctl(t)'
  <2>1. WholeCtl(t)'
    BY <1>0, <1>1 DEF Ctl, WholeCtl
  <2>2. ListCtl(t)'
    BY <1>0, <1>1, <1>h DEF ListCtl, Coalescing
  <2> QED
    BY <1>0, <1>1, <1>h, <2>1, <2>2, CoalesceCtl DEF Coalescing
<1>11. BinsInv'
  <2>1. BinFacts(t)'
    BY <1>1, NoBinFacts DEF Scanning
  <2>2. BinFrame(t)
    BY <1>0, <1>1, <1>2, <2>1 DEF BinFrame, binned, BinsInv, BinTypes
  <2>4. Listed(a, e) => Listed(b, e)'
    BY <1>0, <1>1, <1>2 DEF Listed, Registered, Sized, BinOf, Class, binned, FREE
  <2>5. \A k \in Private : \A d \in Keeps(k, t) :
            Listed(<<k, t>>, d) => Listed(<<k, t>>, d)' \/ (a = <<k, t>> /\ d = e)
    BY <1>0, <1>1, <1>2 DEF Private, Keeps, When, Coalescing, Piece, Listed, Registered,
       Sized, BinOf, Class, binned
  <2> QED
    BY <1>0, <1>6, <1>w, <2>2, <2>4, <2>5, BinsShift
<1>12. SideCtl(t)'
  BY <1>1 DEF SideCtl
<1> QED
  BY <1>9, <1>10, <1>11, <1>12

(* genericPutBlock, where a block in use goes to the list of the thread.    *)
LEMMA PutBlockStep ==
    ASSUME IInv, Local, NEW t \in Threads, Path(t), NEW f \in used, PutBlock(t, f), Mine(t),
           NEW e, e = f
    PROVE  LedgerOK' /\ Ctl(t)' /\ SideCtl(t)' /\ BinsInv'
<1> DEFINE a == USED
           b == <<"list", t>>
<1>1. /\ pc(t) = "idle" /\ pc(t)' = "mark" /\ blk(t)' = blk(t) /\ th'[t].tmp = th[t].tmp
      /\ th'[t].cur = th[t].cur /\ th'[t].whole = th[t].whole /\ th'[t].inBin = th[t].inBin
      /\ th'[t].goal = th[t].goal /\ th'[t].list = <<e>> /\ th'[t].req = th[t].req
      /\ th'[t].got = th[t].got /\ th'[t].ret = "modify" /\ th'[t].back = th[t].back
      /\ th'[t].bin = th[t].bin
  BY DEF PutBlock, Local, Rec, Fields, At, Goto, pc, blk, Carries, words
<1>0. Ctl(t) /\ LedgerOK /\ CtlOK /\ BinsInv /\ BinFacts(t)
  BY DEF IInv, CtlOK, BinsInv
<1>h. InList(t) = {} /\ InList(t)' = {e} /\ th[t].got = NoExt /\ Distinct(<<e>>)
  <2>1. th[t].list = <<>> /\ th[t].got = NoExt
    BY <1>0, <1>1 DEF Ctl, ListCtl, GotCtl, Giving, Coalescing
  <2>2. InList(t) = Elements(<<>>) /\ InList(t)' = Elements(<<e>>)
    BY <1>1, <2>1 DEF InList, Elements
  <2> QED
    BY <2>1, <2>2, Single
<1>2. /\ used' = used \ {e} /\ queue' = queue /\ regions' = regions /\ myL' = myL
      /\ leftL' = leftL /\ UNCHANGED binned
  BY DEF PutBlock, heap, Goto, words
<1>3. OursMoves(a, b, e)
  BY <1>2, PlaceNames DEF OursMoves, Queued, Private
<1>4. MineMoves(t, a, b, e)
  BY <1>1, <1>0, <1>h DEF MineMoves, Private, Keeps, When, Coalescing, Piece, Carries, USED
<1>5. e \in Contents[a]
  BY ContentsAt
<1>6. Shift(t, a, b, e)
  BY <1>2, <1>3, <1>4, <1>5 DEF Shift, Reach, Private
<1>7. Side(t)' = Side(t)
  BY <1>1 DEF Side
<1>8. /\ ~LoosePlace(a) /\ MyWord(a) = Locked /\ LeftWord(a) = Locked /\ a # FREE
      /\ ~LoosePlace(b) /\ MyWord(b) = Locked /\ LeftWord(b) = Locked /\ b # FREE
  BY PlaceKinds, PlaceNames DEF Private
<1>w. MyWritten(a, b, e)
  BY <1>2, <1>8 DEF MyWritten, MyAt
<1>9. LedgerOK'
  BY <1>0, <1>1, <1>2, <1>6, <1>7, <1>8, Rename DEF MyAt
<1>10. Ctl(t)'
  <2>1. WholeCtl(t)'
    BY <1>0, <1>1 DEF Ctl, WholeCtl
  <2>2. ListCtl(t)'
    <3>1. e \in Extents /\ <<e>> # <<>>
      BY <1>0, <1>6, ShiftType, Single
    <3> QED
      BY <1>0, <1>1, <1>h, <3>1 DEF Ctl, ListCtl, Coalescing
  <2>3. GotCtl(t)'
    BY <1>1, <1>h DEF GotCtl, Giving
  <2>4. ReqCtl(t)'
    BY <1>0, <1>1, <1>h DEF Ctl, ReqCtl, Asking, Scanning
  <2>5. BinCtl(t)'
    BY <1>0, <1>1 DEF Ctl, BinCtl, Scanning
  <2> QED
    BY <2>1, <2>2, <2>3, <2>4, <2>5 DEF Ctl
<1>11. BinsInv'
  <2>1. BinFacts(t)'
    BY <1>1, NoBinFacts DEF Scanning
  <2>2. BinFrame(t)
    BY <1>0, <1>1, <1>2, <2>1 DEF BinFrame, binned, BinsInv, BinTypes
  <2>4. Listed(a, e) => Listed(b, e)'
    BY DEF Listed, Registered, USED
  <2>5. \A k \in Private : \A d \in Keeps(k, t) :
            Listed(<<k, t>>, d) => Listed(<<k, t>>, d)' \/ (a = <<k, t>> /\ d = e)
    BY <1>0, <1>1, <1>2, <1>h DEF Private, Keeps, When, Coalescing, Piece, Listed, Registered,
       Ctl, ListCtl
  <2> QED
    BY <1>0, <1>6, <1>w, <2>2, <2>4, <2>5, BinsShift
<1>12. SideCtl(t)'
  BY <1>1 DEF SideCtl
<1> QED
  BY <1>9, <1>10, <1>11, <1>12

(* The caches of the allocator give a block back when memory is short       *)
(* (softCachesCleanup, hardCachesCleanup).                                  *)
LEMMA CleanCacheStep ==
    ASSUME IInv, Local, NEW t \in Threads, Path(t), NEW f \in used, CleanCache(t, f), Mine(t),
           NEW e, e = f
    PROVE  LedgerOK' /\ Ctl(t)' /\ SideCtl(t)' /\ BinsInv'
<1> DEFINE a == USED
           b == <<"list", t>>
<1>1. /\ pc(t)' = "mark" /\ blk(t)' = blk(t) /\ th'[t].tmp = th[t].tmp /\ th'[t].cur = th[t].cur
      /\ th'[t].whole = th[t].whole /\ th'[t].inBin = th[t].inBin /\ th'[t].goal = th[t].goal
      /\ th'[t].list = <<e>> /\ th'[t].req = th[t].req /\ th'[t].got = th[t].got
      /\ th'[t].ret = "modify" /\ th'[t].back = pc(t) /\ th'[t].bin = th[t].bin
      /\ pc(t) \in {"soft", "hard"}
  BY DEF CleanCache, Local, Rec, Fields, At, Goto, pc, blk, Carries, words
<1>0. Ctl(t) /\ LedgerOK /\ CtlOK /\ BinsInv /\ BinFacts(t)
  BY DEF IInv, CtlOK, BinsInv
<1>h. InList(t) = {} /\ InList(t)' = {e} /\ th[t].got = NoExt /\ Distinct(<<e>>)
  <2>1. th[t].list = <<>> /\ th[t].got = NoExt
    BY <1>0, <1>1 DEF Ctl, ListCtl, GotCtl, Giving, Coalescing
  <2>2. InList(t) = Elements(<<>>) /\ InList(t)' = Elements(<<e>>)
    BY <1>1, <2>1 DEF InList, Elements
  <2> QED
    BY <2>1, <2>2, Single
<1>2. /\ used' = used \ {e} /\ queue' = queue /\ regions' = regions /\ myL' = myL
      /\ leftL' = leftL /\ UNCHANGED binned
  BY DEF CleanCache, heap, Goto, words
<1>3. OursMoves(a, b, e)
  BY <1>2, PlaceNames DEF OursMoves, Queued, Private
<1>4. MineMoves(t, a, b, e)
  BY <1>1, <1>0, <1>h DEF MineMoves, Private, Keeps, When, Coalescing, Piece, Carries, USED
<1>5. e \in Contents[a]
  BY ContentsAt
<1>6. Shift(t, a, b, e)
  BY <1>2, <1>3, <1>4, <1>5 DEF Shift, Reach, Private
<1>7. Side(t)' = Side(t)
  BY <1>1 DEF Side
<1>8. /\ ~LoosePlace(a) /\ MyWord(a) = Locked /\ LeftWord(a) = Locked /\ a # FREE
      /\ ~LoosePlace(b) /\ MyWord(b) = Locked /\ LeftWord(b) = Locked /\ b # FREE
  BY PlaceKinds, PlaceNames DEF Private
<1>w. MyWritten(a, b, e)
  BY <1>2, <1>8 DEF MyWritten, MyAt
<1>9. LedgerOK'
  BY <1>0, <1>1, <1>2, <1>6, <1>7, <1>8, Rename DEF MyAt
<1>10. Ctl(t)'
  <2>1. WholeCtl(t)'
    BY <1>0, <1>1 DEF Ctl, WholeCtl
  <2>2. ListCtl(t)'
    <3>1. e \in Extents /\ <<e>> # <<>>
      BY <1>0, <1>6, ShiftType, Single
    <3> QED
      BY <1>0, <1>1, <1>h, <3>1 DEF Ctl, ListCtl, Coalescing
  <2>3. GotCtl(t)'
    BY <1>1, <1>h DEF GotCtl, Giving
  <2>4. ReqCtl(t)'
    BY <1>0, <1>1, <1>h DEF Ctl, ReqCtl, Asking, Scanning
  <2>5. BinCtl(t)'
    BY <1>0, <1>1 DEF Ctl, BinCtl, Scanning
  <2> QED
    BY <2>1, <2>2, <2>3, <2>4, <2>5 DEF Ctl
<1>11. BinsInv'
  <2>1. BinFacts(t)'
    BY <1>1, NoBinFacts DEF Scanning
  <2>2. BinFrame(t)
    BY <1>0, <1>1, <1>2, <2>1 DEF BinFrame, binned, BinsInv, BinTypes
  <2>4. Listed(a, e) => Listed(b, e)'
    BY DEF Listed, Registered, USED
  <2>5. \A k \in Private : \A d \in Keeps(k, t) :
            Listed(<<k, t>>, d) => Listed(<<k, t>>, d)' \/ (a = <<k, t>> /\ d = e)
    BY <1>0, <1>1, <1>2, <1>h DEF Private, Keeps, When, Coalescing, Piece, Listed, Registered,
       Ctl, ListCtl
  <2> QED
    BY <1>0, <1>6, <1>w, <2>2, <2>4, <2>5, BinsShift
<1>12. SideCtl(t)'
  BY <1>1 DEF SideCtl
<1> QED
  BY <1>9, <1>10, <1>11, <1>12

(* putBlock: the block enters coalescQ.                                     *)
LEMMA PutInQueueStep ==
    ASSUME IInv, Local, NEW t \in Threads, Path(t), PutInQueue(t), Mine(t),
           NEW e, e = blk(t)
    PROVE  LedgerOK' /\ Ctl(t)' /\ SideCtl(t)' /\ BinsInv' /\ QueueOK'
<1> DEFINE a == <<"shut", t>>
           b == QUEUE
<1>1. /\ pc(t) = "enqueue" /\ pc(t)' \in {"mark"} \cup {"idle", "loop", "soft", "modify", "split"}
      /\ blk(t)' = NoExt /\ th'[t].list = th[t].list /\ th'[t].got = th[t].got
      /\ Ctl(t)'
  <2>1. pc(t) = "enqueue" /\ AfterBlock(t) /\ Ctl(t)
    BY DEF PutInQueue, At, pc, IInv, CtlOK
  <2> QED
    BY <2>1, AfterCtl DEF Coalescing
<1>0. Ctl(t) /\ LedgerOK /\ CtlOK /\ BinsInv /\ BinFacts(t)
  BY DEF IInv, CtlOK, BinsInv
<1>q. queue \in Seq(Extents) /\ Distinct(queue)
  BY DEF IInv, CtlOK, QueueOK
<1>i. e \in Extents /\ e \notin Queued
  <2>k. "shut" \in Private /\ e \in Keeps("shut", t)
    BY <1>1 DEF Private, Keeps, When, Piece
  <2>1. e \in Contents[<<"shut", t>>] /\ Contents[QUEUE] = Queued
    BY <2>k, ContentsAt
  <2>2. <<"shut", t>> \in Places /\ QUEUE \in Places /\ QUEUE # <<"shut", t>>
    BY PlaceNames DEF Private
  <2> HIDE DEF Contents, Sides
  <2>3. e \in Extents
    BY <1>0, <2>1, <2>2, PieceType DEF LedgerOK
  <2>4. e \notin Contents[QUEUE]
    BY <1>0, <2>1, <2>2, SamePiece DEF LedgerOK
  <2> QED
    BY <2>1, <2>3, <2>4
<1>d. QueueOK' /\ \A d : d \in Queued' <=> d \in Queued \/ d = e
  <2>1. queue' = <<e>> \o queue
    BY DEF PutInQueue
  <2>2. /\ queue' \in Seq(Extents) /\ \A d : d \in Elements(queue') <=> d = e \/ d \in Elements(queue)
        /\ (Distinct(queue) /\ e \notin Elements(queue) => Distinct(queue'))
    <3>1. Added(Extents, queue, e, queue')
      BY <1>q, <1>i, <2>1, AddedFirst
    <3> QED
      BY <3>1 DEF Added
  <2>3. Queued = Elements(queue) /\ Queued' = Elements(queue')
    BY DEF Queued, Elements
  <2> QED
    BY <1>q, <1>i, <2>2, <2>3 DEF QueueOK
<1>2. /\ used' = used /\ queue' = <<e>> \o queue /\ regions' = regions /\ myL' = myL
      /\ leftL' = leftL /\ UNCHANGED binned
  BY DEF PutInQueue, heap, Goto, words
<1>3. OursMoves(a, b, e)
  BY <1>2, <1>d, PlaceNames DEF OursMoves, Private
<1>4. MineMoves(t, a, b, e)
  BY <1>1, <1>0 DEF MineMoves, Private, Keeps, When, Coalescing, Piece, InList, Right,
     Current, Carries, FreeAt, FREE, USED, QUEUE
<1>5. e \in Contents[a]
  <2>1. "shut" \in Private /\ e \in Keeps("shut", t)
    BY <1>1 DEF Private, Keeps, When, Piece, Right, Current, Coalescing
  <2> QED
    BY <2>1, ContentsAt
<1>6. Shift(t, a, b, e)
  BY <1>2, <1>3, <1>4, <1>5 DEF Shift, Reach, Private
<1>7. Side(t)' = Side(t)
  BY <1>1 DEF Side
<1>8. /\ ~LoosePlace(a) /\ MyWord(a) = Locked /\ LeftWord(a) = Locked /\ a # FREE
      /\ ~LoosePlace(b) /\ MyWord(b) = Locked /\ LeftWord(b) = Locked /\ b # FREE
  BY PlaceKinds, PlaceNames DEF Private
<1>w. MyWritten(a, b, e)
  BY <1>2, <1>8 DEF MyWritten, MyAt
<1>9. LedgerOK'
  BY <1>0, <1>1, <1>2, <1>6, <1>7, <1>8, Rename DEF MyAt
<1>10. Ctl(t)' /\ QueueOK'
  BY <1>1, <1>d
<1>11. BinsInv'
  <2>1. BinFacts(t)'
    BY <1>1, NoBinFacts DEF Scanning
  <2>2. BinFrame(t)
    BY <1>0, <1>1, <1>2, <2>1 DEF BinFrame, binned, BinsInv, BinTypes
  <2>4. Listed(a, e) => Listed(b, e)'
    BY DEF Listed, Registered
  <2>5. \A k \in Private : \A d \in Keeps(k, t) :
            Listed(<<k, t>>, d) => Listed(<<k, t>>, d)' \/ (a = <<k, t>> /\ d = e)
    BY <1>0, <1>1, <1>2 DEF Private, Keeps, When, Coalescing, Piece, Listed, Registered,
       Sized, BinOf, Class, binned
  <2> QED
    BY <1>0, <1>6, <1>w, <2>2, <2>4, <2>5, BinsShift
<1>12. SideCtl(t)'
  BY <1>1 DEF SideCtl
<1> QED
  BY <1>9, <1>10, <1>11, <1>12

-----------------------------------------------------------------------------
(* The steps of coalescAndPutList that leave every extent where it is.      *)

(* doCoalesc finds the left neighbour in use or being coalesced.            *)
LEMMA TryLeftNotStep ==
    ASSUME IInv, Local, NEW t \in Threads, Path(t), TryLeft(t), Mine(t),
           ~(leftL[blk(t)[1]] > Coal)
    PROVE  LedgerOK' /\ Ctl(t)' /\ SideCtl(t)' /\ BinsInv'
<1>1. /\ pc(t) = "left" /\ blk(t)' = blk(t) /\ th'[t].tmp = th[t].tmp /\ th'[t].cur = th[t].cur
      /\ th'[t].whole = th[t].whole /\ th'[t].inBin = th[t].inBin /\ th'[t].goal = th[t].goal
      /\ th'[t].list = th[t].list /\ Carries(t) /\ pc(t)' \in {"right", "requeue"}
  BY DEF TryLeft, Local, Rec, Fields, At, Goto, pc, blk, Carries
<1>0. Ctl(t) /\ LedgerOK /\ CtlOK /\ BinsInv /\ BinFacts(t)
  BY DEF IInv, CtlOK, BinsInv
<1>2. /\ used' = used /\ queue' = queue /\ regions' = regions /\ myL' = myL /\ leftL' = leftL
      /\ UNCHANGED binned
  BY DEF TryLeft, heap, words, counters, Goto
<1>4. \A k \in Private : Keeps(k, t)' = Keeps(k, t)
  BY <1>1, <1>0 DEF Private, Keeps, When, Coalescing, Piece, InList, Right, Current, Carries
<1>6. Still(t)
  BY <1>2, <1>4 DEF Still, Queued
<1>7. Side(t)' = Side(t)
  BY <1>1 DEF Side
<1>9. LedgerOK'
  BY <1>0, <1>2, <1>6, <1>7, Unmoved
<1>10. Ctl(t)'
  <2>1. WholeCtl(t)'
    BY <1>0, <1>1 DEF Ctl, WholeCtl
  <2>2. ListCtl(t)'
    BY <1>0, <1>1, SameList DEF Coalescing, Ctl
  <2> QED
    BY <1>0, <1>1, <2>1, <2>2, CoalesceCtl DEF Coalescing
<1>11. BinsInv'
  <2>1. BinFacts(t)'
    BY <1>1, NoBinFacts DEF Scanning
  <2>2. BinFrame(t)
    BY <1>0, <1>1, <1>2, <2>1 DEF BinFrame, binned, BinsInv, BinTypes
  <2>5. \A k \in Private : \A d \in Keeps(k, t) : Listed(<<k, t>>, d) => Listed(<<k, t>>, d)'
    BY <1>0, <1>1, <1>2 DEF Private, Keeps, When, Coalescing, Piece, Listed, Registered,
       Sized, BinOf, Class, binned
  <2> QED
    BY <1>0, <1>6, <2>2, <2>5, BinsStill
<1>12. SideCtl(t)'
  BY <1>1 DEF SideCtl
<1> QED
  BY <1>9, <1>10, <1>11, <1>12

(* doCoalesc finds the left neighbour's own word locked.                    *)
LEMMA LockLeftNotStep ==
    ASSUME IInv, Local, NEW t \in Threads, Path(t), LockLeft(t), Mine(t),
           myL[blk(t)[1] - th[t].tmp] <= Coal
    PROVE  LedgerOK' /\ Ctl(t)' /\ SideCtl(t)' /\ BinsInv'
<1>1. /\ pc(t) = "left2" /\ pc(t)' = "undoLeft" /\ blk(t)' = blk(t) /\ th'[t].tmp = th[t].tmp
      /\ th'[t].cur = th[t].cur /\ th'[t].whole = th[t].whole /\ th'[t].inBin = th[t].inBin
      /\ th'[t].goal = th[t].goal /\ th'[t].list = th[t].list /\ Carries(t)
  BY DEF LockLeft, Local, Rec, Fields, At, Goto, pc, blk, Carries
<1>0. Ctl(t) /\ LedgerOK /\ CtlOK /\ BinsInv /\ BinFacts(t)
  BY DEF IInv, CtlOK, BinsInv
<1>2. /\ used' = used /\ queue' = queue /\ regions' = regions /\ myL' = myL /\ leftL' = leftL
      /\ UNCHANGED binned
  BY DEF LockLeft, heap, words, counters, Goto
<1>4. \A k \in Private : Keeps(k, t)' = Keeps(k, t)
  BY <1>1, <1>0 DEF Private, Keeps, When, Coalescing, Piece, InList, Right, Current, Carries
<1>6. Still(t)
  BY <1>2, <1>4 DEF Still, Queued
<1>7. Side(t)' = Side(t)
  BY <1>1 DEF Side
<1>9. LedgerOK'
  BY <1>0, <1>2, <1>6, <1>7, Unmoved
<1>10. Ctl(t)'
  <2>1. WholeCtl(t)'
    BY <1>0, <1>1 DEF Ctl, WholeCtl
  <2>2. ListCtl(t)'
    BY <1>0, <1>1, SameList DEF Coalescing, Ctl
  <2> QED
    BY <1>0, <1>1, <2>1, <2>2, CoalesceCtl DEF Coalescing
<1>11. BinsInv'
  <2>1. BinFacts(t)'
    BY <1>1, NoBinFacts DEF Scanning
  <2>2. BinFrame(t)
    BY <1>0, <1>1, <1>2, <2>1 DEF BinFrame, binned, BinsInv, BinTypes
  <2>5. \A k \in Private : \A d \in Keeps(k, t) : Listed(<<k, t>>, d) => Listed(<<k, t>>, d)'
    BY <1>0, <1>1, <1>2 DEF Private, Keeps, When, Coalescing, Piece, Listed, Registered,
       Sized, BinOf, Class, binned
  <2> QED
    BY <1>0, <1>6, <2>2, <2>5, BinsStill
<1>12. SideCtl(t)'
  BY <1>0, <1>1, <1>7 DEF SideCtl, CtlOK
<1> QED
  BY <1>9, <1>10, <1>11, <1>12

(* doCoalesc finds the right neighbour in use, being coalesced, or the last *)
(* block of the region.                                                     *)
LEMMA TryRightNotStep ==
    ASSUME IInv, Local, NEW t \in Threads, Path(t), TryRight(t), Mine(t),
           ~(myL[End(blk(t))] > EndMark)
    PROVE  LedgerOK' /\ Ctl(t)' /\ SideCtl(t)' /\ BinsInv'
<1>x. /\ pc(t) = "right"
      /\ \/ th' = [th EXCEPT ![t].pc = "put"]
         \/ th' = [th EXCEPT ![t].pc = "put", ![t].whole = TRUE] /\ myL[End(blk(t))] = EndMark
         \/ GiveUp(t)
  BY DEF TryRight, At, pc, Goto
<1>g. pc(t)' = "put" \/ th'[t].goal = "requeue"
  BY <1>x DEF Local, Rec, Fields, Goto, pc, GiveUp
<1>1. /\ pc(t) = "right" /\ blk(t)' = blk(t) /\ th'[t].tmp = th'[t].tmp
      /\ th'[t].cur = th[t].cur /\ th'[t].whole = th'[t].whole /\ th'[t].inBin = th[t].inBin
      /\ th'[t].goal = th'[t].goal /\ th'[t].list = th[t].list /\ Carries(t)
      /\ pc(t)' \in {"put", "unbin", "requeue"}
      /\ th'[t].whole => th[t].whole \/ (myL[End(blk(t))] = EndMark /\ pc(t)' = "put")
      /\ pc(t)' \in {"unbin", "requeue"} => th'[t].goal = "requeue" /\ (pc(t)' = "unbin" <=> th[t].inBin)
  BY <1>x, <1>g DEF Local, Rec, Fields, At, Goto, pc, blk, Carries, GiveUp
<1>0. Ctl(t) /\ LedgerOK /\ CtlOK /\ BinsInv /\ BinFacts(t)
  BY DEF IInv, CtlOK, BinsInv
<1>u. blk(t)[1] \in Units /\ End(blk(t)) \in Units /\ blk(t)[1] \in Nat
  <2>1. blk(t) \in Contents[<<"blk", t>>]
    BY <1>1, ContentsAt DEF Private, Keeps, When, Piece, Coalescing
  <2>2. <<"blk", t>> \in Places
    BY PlaceNames DEF Private
  <2> HIDE DEF Contents, Sides
  <2> QED
    BY <1>0, <2>1, <2>2, PieceType DEF LedgerOK
<1>2. /\ used' = used /\ queue' = queue /\ regions' = regions /\ myL' = myL /\ leftL' = leftL
      /\ UNCHANGED binned
  BY DEF TryRight, heap, words, counters, Goto, GiveUp
<1>4. \A k \in Private : Keeps(k, t)' = Keeps(k, t)
  BY <1>1, <1>0 DEF Private, Keeps, When, Coalescing, Piece, InList, Right, Current, Carries
<1>6. Still(t)
  BY <1>2, <1>4 DEF Still, Queued
<1>7. Side(t)' = Side(t)
  BY <1>1 DEF Side
<1>9. LedgerOK'
  BY <1>0, <1>2, <1>6, <1>7, Unmoved
<1>10. Ctl(t)'
  <2>1. WholeCtl(t)'
    <3>1. ASSUME myL[End(blk(t))] = EndMark PROVE \E r \in Regions : End(r) = End(blk(t))
      BY <1>0, <1>u, <3>1 DEF LedgerOK, Ledger, Tiling
    <3>2. ~th[t].whole
      BY <1>0, <1>1 DEF Ctl, WholeCtl
    <3> QED
      BY <1>1, <3>1, <3>2 DEF WholeCtl
  <2>2. ListCtl(t)'
    BY <1>0, <1>1, SameList DEF Coalescing, Ctl
  <2> QED
    BY <1>0, <1>1, <2>1, <2>2, CoalesceCtl DEF Coalescing
<1>11. BinsInv'
  <2>1. BinFacts(t)'
    BY <1>1, NoBinFacts DEF Scanning
  <2>2. BinFrame(t)
    BY <1>0, <1>1, <1>2, <2>1 DEF BinFrame, binned, BinsInv, BinTypes
  <2>5. \A k \in Private : \A d \in Keeps(k, t) : Listed(<<k, t>>, d) => Listed(<<k, t>>, d)'
    BY <1>0, <1>1, <1>2 DEF Private, Keeps, When, Coalescing, Piece, Listed, Registered,
       Sized, BinOf, Class, binned
  <2> QED
    BY <1>0, <1>6, <2>2, <2>5, BinsStill
<1>12. SideCtl(t)'
  BY <1>1 DEF SideCtl
<1> QED
  BY <1>9, <1>10, <1>11, <1>12

(* doCoalesc finds the right side of the right neighbour locked.            *)
LEMMA LockRightNotStep ==
    ASSUME IInv, Local, NEW t \in Threads, Path(t), LockRight(t), Mine(t),
           leftL[End(blk(t)) + th[t].tmp] <= Coal
    PROVE  LedgerOK' /\ Ctl(t)' /\ SideCtl(t)' /\ BinsInv'
<1>1. /\ pc(t) = "right2" /\ pc(t)' = "undoRight" /\ blk(t)' = blk(t) /\ th'[t].tmp = th[t].tmp
      /\ th'[t].cur = th[t].cur /\ th'[t].whole = th[t].whole /\ th'[t].inBin = th[t].inBin
      /\ th'[t].goal = th[t].goal /\ th'[t].list = th[t].list /\ Carries(t)
  BY DEF LockRight, Local, Rec, Fields, At, Goto, pc, blk, Carries
<1>0. Ctl(t) /\ LedgerOK /\ CtlOK /\ BinsInv /\ BinFacts(t)
  BY DEF IInv, CtlOK, BinsInv
<1>2. /\ used' = used /\ queue' = queue /\ regions' = regions /\ myL' = myL /\ leftL' = leftL
      /\ UNCHANGED binned
  BY DEF LockRight, heap, words, counters, Goto
<1>4. \A k \in Private : Keeps(k, t)' = Keeps(k, t)
  BY <1>1, <1>0 DEF Private, Keeps, When, Coalescing, Piece, InList, Right, Current, Carries
<1>6. Still(t)
  BY <1>2, <1>4 DEF Still, Queued
<1>7. Side(t)' = Side(t)
  BY <1>1 DEF Side
<1>9. LedgerOK'
  BY <1>0, <1>2, <1>6, <1>7, Unmoved
<1>10. Ctl(t)'
  <2>1. WholeCtl(t)'
    BY <1>0, <1>1 DEF Ctl, WholeCtl
  <2>2. ListCtl(t)'
    BY <1>0, <1>1, SameList DEF Coalescing, Ctl
  <2> QED
    BY <1>0, <1>1, <2>1, <2>2, CoalesceCtl DEF Coalescing
<1>11. BinsInv'
  <2>1. BinFacts(t)'
    BY <1>1, NoBinFacts DEF Scanning
  <2>2. BinFrame(t)
    BY <1>0, <1>1, <1>2, <2>1 DEF BinFrame, binned, BinsInv, BinTypes
  <2>5. \A k \in Private : \A d \in Keeps(k, t) : Listed(<<k, t>>, d) => Listed(<<k, t>>, d)'
    BY <1>0, <1>1, <1>2 DEF Private, Keeps, When, Coalescing, Piece, Listed, Registered,
       Sized, BinOf, Class, binned
  <2> QED
    BY <1>0, <1>6, <2>2, <2>5, BinsStill
<1>12. SideCtl(t)'
  BY <1>1 DEF SideCtl
<1> QED
  BY <1>9, <1>10, <1>11, <1>12

(* removeBlockFromBin gets the lock of the right neighbour's bin.           *)
LEMMA AwaitRightStep ==
    ASSUME IInv, Local, NEW t \in Threads, Path(t), AwaitRight(t), Mine(t)
    PROVE  LedgerOK' /\ Ctl(t)' /\ SideCtl(t)' /\ BinsInv'
<1>1. /\ pc(t) = "unbinRight" /\ pc(t)' = "removeRight" /\ blk(t)' = blk(t)
      /\ th'[t].tmp = th[t].tmp /\ th'[t].cur = th[t].cur /\ th'[t].whole = th[t].whole
      /\ th'[t].inBin = th[t].inBin /\ th'[t].goal = th[t].goal /\ th'[t].list = th[t].list
      /\ Carries(t)
  BY DEF AwaitRight, Local, Rec, Fields, At, Goto, pc, blk, Carries, AwaitBin
<1>0. Ctl(t) /\ LedgerOK /\ CtlOK /\ BinsInv /\ BinFacts(t)
  BY DEF IInv, CtlOK, BinsInv
<1>u. myBin[End(blk(t))] \in Bins
  BY <1>0, <1>1, OwnPieces DEF BinsInv, BinTypes, BinFacts
<1>2. /\ used' = used /\ queue' = queue /\ regions' = regions /\ myL' = myL /\ leftL' = leftL
      /\ myBin' = myBin /\ bins' = bins /\ bit' = bit /\ tLock[myBin[End(blk(t))]] = NoThread
      /\ tLock' = [tLock EXCEPT ![myBin[End(blk(t))]] = t]
  BY DEF AwaitRight, heap, words, counters, Goto, AwaitBin
<1>4. \A k \in Private : Keeps(k, t)' = Keeps(k, t)
  BY <1>1, <1>0 DEF Private, Keeps, When, Coalescing, Piece, InList, Right, Current, Carries
<1>6. Still(t)
  BY <1>2, <1>4 DEF Still, Queued
<1>7. Side(t)' = Side(t)
  BY <1>1 DEF Side
<1>9. LedgerOK'
  BY <1>0, <1>2, <1>6, <1>7, Unmoved
<1>10. Ctl(t)'
  <2>1. WholeCtl(t)'
    BY <1>0, <1>1 DEF Ctl, WholeCtl
  <2>2. ListCtl(t)'
    BY <1>0, <1>1, SameList DEF Coalescing, Ctl
  <2> QED
    BY <1>0, <1>1, <2>1, <2>2, CoalesceCtl DEF Coalescing
<1>11. BinsInv'
  <2>1. BinFacts(t)'
    BY <1>0, <1>1, <1>2, <1>u DEF BinFacts, Scanning, BinsInv, BinTypes
  <2>2. BinFrame(t)
    BY <1>0, <1>1, <1>2, <2>1, <1>u DEF BinFrame, binned, BinsInv, BinTypes
  <2>5. \A k \in Private : \A d \in Keeps(k, t) : Listed(<<k, t>>, d) => Listed(<<k, t>>, d)'
    BY <1>0, <1>1, <1>2 DEF Private, Keeps, When, Coalescing, Piece, Listed, Registered,
       Sized, BinOf, Class, binned
  <2> QED
    BY <1>0, <1>6, <2>2, <2>5, BinsStill
<1>12. SideCtl(t)'
  BY <1>1 DEF SideCtl
<1> QED
  BY <1>9, <1>10, <1>11, <1>12

(* coalescAndPutList decides whether the region is empty and whether the    *)
(* block changes bins.                                                      *)
LEMMA DecideStep ==
    ASSUME IInv, Local, NEW t \in Threads, Path(t), Decide(t), Mine(t)
    PROVE  LedgerOK' /\ Ctl(t)' /\ SideCtl(t)' /\ BinsInv'
<1>1. /\ pc(t) = "put" /\ blk(t)' = blk(t) /\ th'[t].tmp = th[t].tmp /\ th'[t].cur = th[t].cur
      /\ th'[t].whole = th[t].whole /\ th'[t].inBin = th[t].inBin /\ th'[t].goal = th'[t].goal
      /\ th'[t].list = th[t].list /\ Carries(t)
      /\ th'[t].goal = IF Empty(t) THEN "release" ELSE "add"
      /\ pc(t)' = IF ~Empty(t) /\ th[t].inBin /\ myBin[blk(t)[1]] = BinOf(blk(t)) THEN "free"
               ELSE IF th[t].inBin THEN "unbin" ELSE th'[t].goal
  BY DEF Decide, Local, Rec, Fields, At, Goto, pc, blk, Carries
<1>0. Ctl(t) /\ LedgerOK /\ CtlOK /\ BinsInv /\ BinFacts(t)
  BY DEF IInv, CtlOK, BinsInv
<1>e. Empty(t)' <=> Empty(t)
  BY <1>1, SameEmpty
<1>2. /\ used' = used /\ queue' = queue /\ regions' = regions /\ myL' = myL /\ leftL' = leftL
      /\ UNCHANGED binned
  BY DEF Decide, heap, words, counters, Goto
<1>4. \A k \in Private : Keeps(k, t)' = Keeps(k, t)
  BY <1>1, <1>0 DEF Private, Keeps, When, Coalescing, Piece, InList, Right, Current, Carries
<1>6. Still(t)
  BY <1>2, <1>4 DEF Still, Queued
<1>7. Side(t)' = Side(t)
  BY <1>1 DEF Side
<1>9. LedgerOK'
  BY <1>0, <1>2, <1>6, <1>7, Unmoved
<1>10. Ctl(t)'
  <2>1. WholeCtl(t)'
    BY <1>0, <1>1, <1>e DEF Ctl, WholeCtl
  <2>2. ListCtl(t)'
    BY <1>0, <1>1, SameList DEF Coalescing, Ctl
  <2> QED
    BY <1>0, <1>1, <2>1, <2>2, CoalesceCtl DEF Coalescing
<1>11. BinsInv'
  <2>1. BinFacts(t)'
    BY <1>1, NoBinFacts DEF Scanning
  <2>2. BinFrame(t)
    BY <1>0, <1>1, <1>2, <2>1 DEF BinFrame, binned, BinsInv, BinTypes
  <2>5. \A k \in Private : \A d \in Keeps(k, t) : Listed(<<k, t>>, d) => Listed(<<k, t>>, d)'
    BY <1>0, <1>1, <1>2 DEF Private, Keeps, When, Coalescing, Piece, Listed, Registered,
       Sized, BinOf, Class, binned
  <2> QED
    BY <1>0, <1>6, <2>2, <2>5, BinsStill
<1>12. SideCtl(t)'
  BY <1>1 DEF SideCtl
<1> QED
  BY <1>9, <1>10, <1>11, <1>12

(* removeBlockFromBin gets the lock of the block's own bin.                 *)
LEMMA UnbinAwaitStep ==
    ASSUME IInv, Local, NEW t \in Threads, Path(t), Unbin(t), Mine(t),
           myBin[blk(t)[1]] # NoBin
    PROVE  LedgerOK' /\ Ctl(t)' /\ SideCtl(t)' /\ BinsInv'
<1>1. /\ pc(t) = "unbin" /\ pc(t)' = "remove" /\ blk(t)' = blk(t) /\ th'[t].tmp = th[t].tmp
      /\ th'[t].cur = th[t].cur /\ th'[t].whole = th[t].whole /\ th'[t].inBin = th[t].inBin
      /\ th'[t].goal = th[t].goal /\ th'[t].list = th[t].list /\ Carries(t)
  BY DEF Unbin, Local, Rec, Fields, At, Goto, pc, blk, Carries, AwaitBin
<1>0. Ctl(t) /\ LedgerOK /\ CtlOK /\ BinsInv /\ BinFacts(t)
  BY DEF IInv, CtlOK, BinsInv
<1>o. blk(t)[1] \in Units /\ End(blk(t)) \in Units /\ blk(t)[1] \in Nat
  <2>1. blk(t) \in Contents[<<"blk", t>>]
    BY <1>1, ContentsAt DEF Private, Keeps, When, Piece, Coalescing
  <2>2. <<"blk", t>> \in Places
    BY PlaceNames DEF Private
  <2> HIDE DEF Contents, Sides
  <2> QED
    BY <1>0, <2>1, <2>2, PieceType DEF LedgerOK
<1>u. myBin[blk(t)[1]] \in Bins
  BY <1>0, <1>1, <1>o DEF BinsInv, BinTypes
<1>e. Empty(t)' <=> Empty(t)
  BY <1>1, SameEmpty
<1>2. /\ used' = used /\ queue' = queue /\ regions' = regions /\ myL' = myL /\ leftL' = leftL
      /\ myBin' = myBin /\ bins' = bins /\ bit' = bit /\ tLock[myBin[blk(t)[1]]] = NoThread
      /\ tLock' = [tLock EXCEPT ![myBin[blk(t)[1]]] = t]
  BY DEF Unbin, heap, words, counters, Goto, AwaitBin
<1>4. \A k \in Private : Keeps(k, t)' = Keeps(k, t)
  BY <1>1, <1>0 DEF Private, Keeps, When, Coalescing, Piece, InList, Right, Current, Carries
<1>6. Still(t)
  BY <1>2, <1>4 DEF Still, Queued
<1>7. Side(t)' = Side(t)
  BY <1>1 DEF Side
<1>9. LedgerOK'
  BY <1>0, <1>2, <1>6, <1>7, Unmoved
<1>10. Ctl(t)'
  <2>1. WholeCtl(t)'
    BY <1>0, <1>1, <1>e DEF Ctl, WholeCtl
  <2>2. ListCtl(t)'
    BY <1>0, <1>1, SameList DEF Coalescing, Ctl
  <2> QED
    BY <1>0, <1>1, <2>1, <2>2, CoalesceCtl DEF Coalescing
<1>11. BinsInv'
  <2>1. BinFacts(t)'
    BY <1>0, <1>1, <1>2, <1>u DEF BinFacts, Scanning, BinsInv, BinTypes
  <2>2. BinFrame(t)
    BY <1>0, <1>1, <1>2, <2>1, <1>u DEF BinFrame, binned, BinsInv, BinTypes
  <2>5. \A k \in Private : \A d \in Keeps(k, t) : Listed(<<k, t>>, d) => Listed(<<k, t>>, d)'
    BY <1>0, <1>1, <1>2 DEF Private, Keeps, When, Coalescing, Piece, Listed, Registered,
       Sized, BinOf, Class, binned
  <2> QED
    BY <1>0, <1>6, <2>2, <2>5, BinsStill
<1>12. SideCtl(t)'
  BY <1>1 DEF SideCtl
<1> QED
  BY <1>9, <1>10, <1>11, <1>12

(* removeBlockFromBin finds that the block is in no bin.                    *)
LEMMA UnbinNotStep ==
    ASSUME IInv, Local, NEW t \in Threads, Path(t), Unbin(t), Mine(t),
           myBin[blk(t)[1]] = NoBin
    PROVE  LedgerOK' /\ Ctl(t)' /\ SideCtl(t)' /\ BinsInv'
<1>1. /\ pc(t) = "unbin" /\ blk(t)' = blk(t) /\ th'[t].tmp = th[t].tmp /\ th'[t].cur = th[t].cur
      /\ th'[t].whole = th[t].whole /\ th'[t].inBin = th[t].inBin /\ th'[t].goal = th[t].goal
      /\ th'[t].list = th[t].list /\ Carries(t) /\ pc(t)' = th[t].goal
      /\ th[t].goal \in {"requeue", "release", "add"}
  BY DEF Unbin, Path, Local, Rec, Fields, At, Goto, pc, blk, Carries, AwaitBin
<1>0. Ctl(t) /\ LedgerOK /\ CtlOK /\ BinsInv /\ BinFacts(t)
  BY DEF IInv, CtlOK, BinsInv
<1>e. Empty(t)' <=> Empty(t)
  BY <1>1, SameEmpty
<1>2. /\ used' = used /\ queue' = queue /\ regions' = regions /\ myL' = myL /\ leftL' = leftL
      /\ UNCHANGED binned
  BY DEF Unbin, heap, words, counters, Goto, AwaitBin
<1>4. \A k \in Private : Keeps(k, t)' = Keeps(k, t)
  BY <1>1, <1>0 DEF Private, Keeps, When, Coalescing, Piece, InList, Right, Current, Carries
<1>6. Still(t)
  BY <1>2, <1>4 DEF Still, Queued
<1>7. Side(t)' = Side(t)
  BY <1>1 DEF Side
<1>9. LedgerOK'
  BY <1>0, <1>2, <1>6, <1>7, Unmoved
<1>10. Ctl(t)'
  <2>1. WholeCtl(t)'
    BY <1>0, <1>1, <1>e DEF Ctl, WholeCtl
  <2>2. ListCtl(t)'
    BY <1>0, <1>1, SameList DEF Coalescing, Ctl
  <2> QED
    BY <1>0, <1>1, <2>1, <2>2, CoalesceCtl DEF Coalescing
<1>11. BinsInv'
  <2>1. BinFacts(t)'
    BY <1>1, NoBinFacts DEF Scanning
  <2>2. BinFrame(t)
    BY <1>0, <1>1, <1>2, <2>1 DEF BinFrame, binned, BinsInv, BinTypes
  <2>5. \A k \in Private : \A d \in Keeps(k, t) : Listed(<<k, t>>, d) => Listed(<<k, t>>, d)'
    BY <1>0, <1>1, <1>2, NoBinApart DEF Private, Keeps, When, Coalescing, Piece, Listed,
       Registered, Sized, BinOf, Class, binned
  <2> QED
    BY <1>0, <1>6, <2>2, <2>5, BinsStill
<1>12. SideCtl(t)'
  BY <1>1 DEF SideCtl
<1> QED
  BY <1>9, <1>10, <1>11, <1>12

-----------------------------------------------------------------------------
(* The steps of a search that leave every extent where it is.               *)

(* tryAddBlock gets the lock of the bin.                                    *)
LEMMA TryAddLockStep ==
    ASSUME IInv, Local, NEW t \in Threads, Path(t), TryAdd(t), Mine(t),
           tLock[myBin[blk(t)[1]]] = NoThread
    PROVE  LedgerOK' /\ Ctl(t)' /\ SideCtl(t)' /\ BinsInv'
<1>x. tLock' = [tLock EXCEPT ![myBin[blk(t)[1]]] = t]
  BY DEF TryAdd
<1>1. /\ pc(t) = "tryAdd" /\ pc(t)' = "insert" /\ blk(t)' = blk(t) /\ th'[t].tmp = th[t].tmp
      /\ th'[t].cur = th[t].cur /\ th'[t].whole = th[t].whole /\ th'[t].inBin = th[t].inBin
      /\ th'[t].goal = th[t].goal /\ th'[t].list = th[t].list /\ Carries(t)
  BY DEF TryAdd, Local, Rec, Fields, At, Goto, pc, blk, Carries
<1>0. Ctl(t) /\ LedgerOK /\ CtlOK /\ BinsInv /\ BinFacts(t)
  BY DEF IInv, CtlOK, BinsInv
<1>u. myBin[blk(t)[1]] \in Bins
  BY <1>0, <1>1, OwnPieces DEF BinsInv, BinTypes, BinFacts
<1>2. /\ used' = used /\ queue' = queue /\ regions' = regions /\ myL' = myL /\ leftL' = leftL
      /\ myBin' = myBin /\ bins' = bins /\ bit' = bit /\ tLock[myBin[blk(t)[1]]] = NoThread
      /\ tLock' = [tLock EXCEPT ![myBin[blk(t)[1]]] = t]
  BY <1>x DEF TryAdd, heap, words, counters, Goto
<1>4. \A k \in Private : Keeps(k, t)' = Keeps(k, t)
  BY <1>1, <1>0 DEF Private, Keeps, When, Coalescing, Piece, InList, Right, Current, Carries
<1>6. Still(t)
  BY <1>2, <1>4 DEF Still, Queued
<1>7. Side(t)' = Side(t)
  BY <1>1 DEF Side
<1>9. LedgerOK'
  BY <1>0, <1>2, <1>6, <1>7, Unmoved
<1>10. Ctl(t)'
  <2>1. WholeCtl(t)'
    BY <1>0, <1>1 DEF Ctl, WholeCtl
  <2>2. ListCtl(t)'
    BY <1>0, <1>1, SameList DEF Coalescing, Ctl
  <2> QED
    BY <1>0, <1>1, <2>1, <2>2, CoalesceCtl DEF Coalescing
<1>11. BinsInv'
  <2>1. BinFacts(t)'
    BY <1>0, <1>1, <1>2, <1>u DEF BinFacts, Scanning, BinsInv, BinTypes, BinOf, Class
  <2>2. BinFrame(t)
    BY <1>0, <1>1, <1>2, <2>1, <1>u DEF BinFrame, binned, BinsInv, BinTypes
  <2>5. \A k \in Private : \A d \in Keeps(k, t) : Listed(<<k, t>>, d) => Listed(<<k, t>>, d)'
    BY <1>0, <1>1, <1>2 DEF Private, Keeps, When, Coalescing, Piece, Listed, Registered,
       Sized, BinOf, Class, binned
  <2> QED
    BY <1>0, <1>6, <2>2, <2>5, BinsStill
<1>12. SideCtl(t)'
  BY <1>1 DEF SideCtl
<1> QED
  BY <1>9, <1>10, <1>11, <1>12

(* tryAddBlock finds the bin locked.                                        *)
LEMMA TryAddNotStep ==
    ASSUME IInv, Local, NEW t \in Threads, Path(t), TryAdd(t), Mine(t),
           tLock[myBin[blk(t)[1]]] # NoThread
    PROVE  LedgerOK' /\ Ctl(t)' /\ SideCtl(t)' /\ BinsInv'
<1>1. /\ pc(t) = "tryAdd" /\ blk(t)' = blk(t) /\ th'[t].tmp = th[t].tmp
      /\ th'[t].cur = th[t].cur /\ th'[t].whole = th[t].whole /\ th'[t].inBin = th[t].inBin
      /\ th'[t].goal = th[t].goal /\ th'[t].list = th[t].list /\ Carries(t)
      /\ pc(t)' \in {"free", "requeue"}
  BY DEF TryAdd, Local, Rec, Fields, At, Goto, pc, blk, Carries, binned
<1>0. Ctl(t) /\ LedgerOK /\ CtlOK /\ BinsInv /\ BinFacts(t)
  BY DEF IInv, CtlOK, BinsInv
<1>2. /\ used' = used /\ queue' = queue /\ regions' = regions /\ myL' = myL /\ leftL' = leftL
      /\ UNCHANGED binned
  BY DEF TryAdd, heap, words, counters, Goto, binned
<1>4. \A k \in Private : Keeps(k, t)' = Keeps(k, t)
  BY <1>1, <1>0 DEF Private, Keeps, When, Coalescing, Piece, InList, Right, Current, Carries
<1>6. Still(t)
  BY <1>2, <1>4 DEF Still, Queued
<1>7. Side(t)' = Side(t)
  BY <1>1 DEF Side
<1>9. LedgerOK'
  BY <1>0, <1>2, <1>6, <1>7, Unmoved
<1>10. Ctl(t)'
  <2>1. WholeCtl(t)'
    BY <1>0, <1>1 DEF Ctl, WholeCtl
  <2>2. ListCtl(t)'
    BY <1>0, <1>1, SameList DEF Coalescing, Ctl
  <2> QED
    BY <1>0, <1>1, <2>1, <2>2, CoalesceCtl DEF Coalescing
<1>11. BinsInv'
  <2>1. BinFacts(t)'
    BY <1>1, NoBinFacts DEF Scanning
  <2>2. BinFrame(t)
    BY <1>0, <1>1, <1>2, <2>1 DEF BinFrame, binned, BinsInv, BinTypes
  <2>5. \A k \in Private : \A d \in Keeps(k, t) : Listed(<<k, t>>, d) => Listed(<<k, t>>, d)'
    BY <1>0, <1>1, <1>2 DEF Private, Keeps, When, Coalescing, Piece, Listed, Registered, binned
  <2> QED
    BY <1>0, <1>6, <2>2, <2>5, BinsStill
<1>12. SideCtl(t)'
  BY <1>1 DEF SideCtl
<1> QED
  BY <1>9, <1>10, <1>11, <1>12

(* genericGetBlock starts to scan the bins.                                 *)
LEMMA StartScanStep ==
    ASSUME IInv, Local, NEW t \in Threads, Path(t), StartScan(t), Mine(t)
    PROVE  LedgerOK' /\ Ctl(t)' /\ SideCtl(t)' /\ BinsInv'
<1>1. /\ pc(t) = "loop" /\ pc(t)' = "scan" /\ blk(t)' = blk(t) /\ th'[t].tmp = th[t].tmp
      /\ th'[t].cur = th[t].cur /\ th'[t].whole = th[t].whole /\ th'[t].inBin = th[t].inBin
      /\ th'[t].goal = th[t].goal /\ th'[t].list = th[t].list /\ th'[t].req = th[t].req
      /\ th'[t].got = th[t].got /\ th'[t].ret = "idle" /\ th'[t].back = th[t].back
      /\ th'[t].bin = NoBin
  BY DEF StartScan, Local, Rec, Fields, At, Goto, pc, blk, Carries
<1>0. Ctl(t) /\ LedgerOK /\ CtlOK /\ BinsInv /\ BinFacts(t)
  BY DEF IInv, CtlOK, BinsInv
<1>2. /\ used' = used /\ queue' = queue /\ regions' = regions /\ myL' = myL /\ leftL' = leftL
      /\ UNCHANGED binned
  BY DEF StartScan, heap, words, counters, Goto
<1>4. \A k \in Private : Keeps(k, t)' = Keeps(k, t)
  BY <1>1, <1>0 DEF Private, Keeps, When, Coalescing, Piece, InList, Right, Current, Carries
<1>6. Still(t)
  BY <1>2, <1>4 DEF Still, Queued
<1>7. Side(t)' = Side(t)
  BY <1>1 DEF Side
<1>9. LedgerOK'
  BY <1>0, <1>2, <1>6, <1>7, Unmoved
<1>10. Ctl(t)'
  <2>1. BinCtl(t)'
    BY <1>0, <1>1 DEF Ctl, BinCtl, Scanning, Carries
  <2> QED
    BY <1>0, <1>1, <2>1, SearchCtl DEF Carries, Asking, Scanning
<1>11. BinsInv'
  <2>1. BinFacts(t)'
    BY <1>1, NoBinFacts DEF Scanning
  <2>2. BinFrame(t)
    BY <1>0, <1>1, <1>2, <2>1 DEF BinFrame, binned, BinsInv, BinTypes
  <2>5. \A k \in Private : \A d \in Keeps(k, t) : Listed(<<k, t>>, d) => Listed(<<k, t>>, d)'
    BY <1>0, <1>1, <1>2 DEF Private, Keeps, When, Coalescing, Piece, Listed, Registered,
       Sized, BinOf, Class, binned
  <2> QED
    BY <1>0, <1>6, <2>2, <2>5, BinsStill
<1>12. SideCtl(t)'
  BY <1>1 DEF SideCtl
<1> QED
  BY <1>9, <1>10, <1>11, <1>12

(* genericGetBlock goes on to a bin whose bit is set (getMinNonemptyBin).   *)
LEMMA NextBinStep ==
    ASSUME IInv, Local, NEW t \in Threads, Path(t), NextBin(t), Mine(t)
    PROVE  LedgerOK' /\ Ctl(t)' /\ SideCtl(t)' /\ BinsInv'
<1>x. PICK c \in Bins : pc(t) = "scan" /\ th' = [th EXCEPT ![t].pc = "bin", ![t].bin = c]
  BY DEF NextBin, ToTry, At, pc
<1>1. /\ pc(t) = "scan" /\ pc(t)' = "bin" /\ blk(t)' = blk(t) /\ th'[t].tmp = th[t].tmp
      /\ th'[t].cur = th[t].cur /\ th'[t].whole = th[t].whole /\ th'[t].inBin = th[t].inBin
      /\ th'[t].goal = th[t].goal /\ th'[t].list = th[t].list /\ th'[t].req = th[t].req
      /\ th'[t].got = th[t].got /\ th'[t].ret = th[t].ret /\ th'[t].back = th[t].back
      /\ th'[t].bin = th'[t].bin /\ th'[t].bin \in Bins
  BY <1>x DEF Local, Rec, Fields, At, Goto, pc, blk, Carries
<1>0. Ctl(t) /\ LedgerOK /\ CtlOK /\ BinsInv /\ BinFacts(t)
  BY DEF IInv, CtlOK, BinsInv
<1>2. /\ used' = used /\ queue' = queue /\ regions' = regions /\ myL' = myL /\ leftL' = leftL
      /\ UNCHANGED binned
  BY DEF NextBin, heap, words, counters, Goto
<1>4. \A k \in Private : Keeps(k, t)' = Keeps(k, t)
  BY <1>1, <1>0 DEF Private, Keeps, When, Coalescing, Piece, InList, Right, Current, Carries
<1>6. Still(t)
  BY <1>2, <1>4 DEF Still, Queued
<1>7. Side(t)' = Side(t)
  BY <1>1 DEF Side
<1>9. LedgerOK'
  BY <1>0, <1>2, <1>6, <1>7, Unmoved
<1>10. Ctl(t)'
  <2>1. BinCtl(t)'
    BY <1>0, <1>1 DEF Ctl, BinCtl, Scanning, Carries
  <2> QED
    BY <1>0, <1>1, <2>1, SearchCtl DEF Carries, Asking, Scanning
<1>11. BinsInv'
  <2>1. BinFacts(t)'
    BY <1>1, NoBinFacts DEF Scanning
  <2>2. BinFrame(t)
    BY <1>0, <1>1, <1>2, <2>1 DEF BinFrame, binned, BinsInv, BinTypes
  <2>5. \A k \in Private : \A d \in Keeps(k, t) : Listed(<<k, t>>, d) => Listed(<<k, t>>, d)'
    BY <1>0, <1>1, <1>2 DEF Private, Keeps, When, Coalescing, Piece, Listed, Registered,
       Sized, BinOf, Class, binned
  <2> QED
    BY <1>0, <1>6, <2>2, <2>5, BinsStill
<1>12. SideCtl(t)'
  BY <1>1 DEF SideCtl
<1> QED
  BY <1>9, <1>10, <1>11, <1>12

(* genericGetBlock has tried all bins.                                      *)
LEMMA NoMoreBinsStep ==
    ASSUME IInv, Local, NEW t \in Threads, Path(t), NoMoreBins(t), Mine(t)
    PROVE  LedgerOK' /\ Ctl(t)' /\ SideCtl(t)' /\ BinsInv'
<1>1. /\ pc(t) = "scan" /\ blk(t)' = blk(t) /\ th'[t].tmp = th[t].tmp /\ th'[t].cur = th[t].cur
      /\ th'[t].whole = th[t].whole /\ th'[t].inBin = th[t].inBin /\ th'[t].goal = th[t].goal
      /\ th'[t].list = th[t].list /\ th'[t].req = th[t].req /\ th'[t].got = th[t].got
      /\ th'[t].ret = th[t].ret /\ th'[t].back = th[t].back /\ th'[t].bin = th'[t].bin
      /\ pc(t)' \in {"scan", "miss"} /\ th'[t].bin \in {NoBin, th[t].bin}
  BY DEF NoMoreBins, Local, Rec, Fields, At, Goto, pc, blk, Carries
<1>0. Ctl(t) /\ LedgerOK /\ CtlOK /\ BinsInv /\ BinFacts(t)
  BY DEF IInv, CtlOK, BinsInv
<1>2. /\ used' = used /\ queue' = queue /\ regions' = regions /\ myL' = myL /\ leftL' = leftL
      /\ UNCHANGED binned
  BY DEF NoMoreBins, heap, words, counters, Goto
<1>4. \A k \in Private : Keeps(k, t)' = Keeps(k, t)
  BY <1>1, <1>0 DEF Private, Keeps, When, Coalescing, Piece, InList, Right, Current, Carries
<1>6. Still(t)
  BY <1>2, <1>4 DEF Still, Queued
<1>7. Side(t)' = Side(t)
  BY <1>1 DEF Side
<1>9. LedgerOK'
  BY <1>0, <1>2, <1>6, <1>7, Unmoved
<1>10. Ctl(t)'
  <2>1. BinCtl(t)'
    BY <1>0, <1>1 DEF Ctl, BinCtl, Scanning, Carries
  <2> QED
    BY <1>0, <1>1, <2>1, SearchCtl DEF Carries, Asking, Scanning
<1>11. BinsInv'
  <2>1. BinFacts(t)'
    BY <1>1, NoBinFacts DEF Scanning
  <2>2. BinFrame(t)
    BY <1>0, <1>1, <1>2, <2>1 DEF BinFrame, binned, BinsInv, BinTypes
  <2>5. \A k \in Private : \A d \in Keeps(k, t) : Listed(<<k, t>>, d) => Listed(<<k, t>>, d)'
    BY <1>0, <1>1, <1>2 DEF Private, Keeps, When, Coalescing, Piece, Listed, Registered,
       Sized, BinOf, Class, binned
  <2> QED
    BY <1>0, <1>6, <2>2, <2>5, BinsStill
<1>12. SideCtl(t)'
  BY <1>1 DEF SideCtl
<1> QED
  BY <1>9, <1>10, <1>11, <1>12

(* getBlock locks a bin with a block in it.                                 *)
LEMMA OpenBinStep ==
    ASSUME IInv, Local, NEW t \in Threads, Path(t), OpenBin(t), Mine(t),
           bins[th[t].bin] # <<>>, tLock[th[t].bin] = NoThread
    PROVE  LedgerOK' /\ Ctl(t)' /\ SideCtl(t)' /\ BinsInv'
<1>x. /\ pc(t) = "bin" /\ tLock' = [tLock EXCEPT ![th[t].bin] = t]
      /\ th' = [th EXCEPT ![t].pc = "lockMe", ![t].cur = Head(bins[th[t].bin])]
  BY DEF OpenBin, At, pc
<1>1. /\ pc(t) = "bin" /\ pc(t)' = "lockMe" /\ blk(t)' = blk(t) /\ th'[t].tmp = th[t].tmp
      /\ th'[t].cur = Head(bins[th[t].bin]) /\ th'[t].whole = th[t].whole
      /\ th'[t].inBin = th[t].inBin /\ th'[t].goal = th[t].goal /\ th'[t].list = th[t].list
      /\ Carries(t)
  BY <1>x DEF Local, Rec, Fields, At, Goto, pc, blk, Carries
<1>0. Ctl(t) /\ LedgerOK /\ CtlOK /\ BinsInv /\ BinFacts(t)
  BY DEF IInv, CtlOK, BinsInv
<1>u. th[t].bin \in Bins /\ Head(bins[th[t].bin]) \in Elements(bins[th[t].bin])
  BY <1>0, <1>1, HeadApart DEF Ctl, BinCtl, BinsInv, BinTypes
<1>2. /\ used' = used /\ queue' = queue /\ regions' = regions /\ myL' = myL /\ leftL' = leftL
      /\ myBin' = myBin /\ bins' = bins /\ bit' = bit /\ tLock[th[t].bin] = NoThread
      /\ tLock' = [tLock EXCEPT ![th[t].bin] = t]
  BY <1>x DEF OpenBin, heap, words, counters, Goto
<1>4. \A k \in Private : Keeps(k, t)' = Keeps(k, t)
  BY <1>1, <1>0 DEF Private, Keeps, When, Coalescing, Piece, InList, Right, Current, Carries
<1>6. Still(t)
  BY <1>2, <1>4 DEF Still, Queued
<1>7. Side(t)' = Side(t)
  BY <1>1 DEF Side
<1>9. LedgerOK'
  BY <1>0, <1>2, <1>6, <1>7, Unmoved
<1>10. Ctl(t)'
  <2>1. BinCtl(t)'
    BY <1>0, <1>1 DEF Ctl, BinCtl, Scanning, Carries
  <2> QED
    BY <1>0, <1>1, <2>1, SearchCtl DEF Carries, Asking, Scanning
<1>11. BinsInv'
  <2>1. BinFacts(t)'
    BY <1>0, <1>1, <1>2, <1>u DEF BinFacts, Scanning, BinsInv, BinTypes, Carries
  <2>2. BinFrame(t)
    BY <1>0, <1>1, <1>2, <2>1, <1>u DEF BinFrame, binned, BinsInv, BinTypes
  <2>5. \A k \in Private : \A d \in Keeps(k, t) : Listed(<<k, t>>, d) => Listed(<<k, t>>, d)'
    BY <1>0, <1>1, <1>2 DEF Private, Keeps, When, Coalescing, Piece, Listed, Registered,
       Sized, BinOf, Class, binned
  <2> QED
    BY <1>0, <1>6, <2>2, <2>5, BinsStill
<1>12. SideCtl(t)'
  BY <1>1 DEF SideCtl
<1> QED
  BY <1>9, <1>10, <1>11, <1>12

(* getBlock leaves a bin that is empty or locked.                           *)
LEMMA OpenBinNotStep ==
    ASSUME IInv, Local, NEW t \in Threads, Path(t), OpenBin(t), Mine(t),
           bins[th[t].bin] = <<>> \/ tLock[th[t].bin] # NoThread
    PROVE  LedgerOK' /\ Ctl(t)' /\ SideCtl(t)' /\ BinsInv'
<1>x. /\ pc(t) = "bin" /\ tLock' = tLock
      /\ \/ th' = [th EXCEPT ![t].pc = "scan"]
         \/ th' = [th EXCEPT ![t].pc = "scan", ![t].full = @ + 1]
  BY DEF OpenBin, At, pc, Goto
<1>1. /\ pc(t) = "bin" /\ pc(t)' = "scan" /\ blk(t)' = blk(t) /\ th'[t].tmp = th[t].tmp
      /\ th'[t].cur = th[t].cur /\ th'[t].whole = th[t].whole /\ th'[t].inBin = th[t].inBin
      /\ th'[t].goal = th[t].goal /\ th'[t].list = th[t].list /\ Carries(t)
  BY <1>x DEF Local, Rec, Fields, At, Goto, pc, blk, Carries, binned
<1>0. Ctl(t) /\ LedgerOK /\ CtlOK /\ BinsInv /\ BinFacts(t)
  BY DEF IInv, CtlOK, BinsInv
<1>2. /\ used' = used /\ queue' = queue /\ regions' = regions /\ myL' = myL /\ leftL' = leftL
      /\ UNCHANGED binned
  BY <1>x DEF OpenBin, heap, words, counters, Goto, binned
<1>4. \A k \in Private : Keeps(k, t)' = Keeps(k, t)
  BY <1>1, <1>0 DEF Private, Keeps, When, Coalescing, Piece, InList, Right, Current, Carries
<1>6. Still(t)
  BY <1>2, <1>4 DEF Still, Queued
<1>7. Side(t)' = Side(t)
  BY <1>1 DEF Side
<1>9. LedgerOK'
  BY <1>0, <1>2, <1>6, <1>7, Unmoved
<1>10. Ctl(t)'
  <2>1. BinCtl(t)'
    BY <1>0, <1>1 DEF Ctl, BinCtl, Scanning, Carries
  <2> QED
    BY <1>0, <1>1, <2>1, SearchCtl DEF Carries, Asking, Scanning
<1>11. BinsInv'
  <2>1. BinFacts(t)'
    BY <1>1, NoBinFacts DEF Scanning
  <2>2. BinFrame(t)
    BY <1>0, <1>1, <1>2, <2>1 DEF BinFrame, binned, BinsInv, BinTypes
  <2>5. \A k \in Private : \A d \in Keeps(k, t) : Listed(<<k, t>>, d) => Listed(<<k, t>>, d)'
    BY <1>0, <1>1, <1>2 DEF Private, Keeps, When, Coalescing, Piece, Listed, Registered,
       Sized, BinOf, Class, binned
  <2> QED
    BY <1>0, <1>6, <2>2, <2>5, BinsStill
<1>12. SideCtl(t)'
  BY <1>1 DEF SideCtl
<1> QED
  BY <1>9, <1>10, <1>11, <1>12

(* tryLockBlock finds the left word locked, and getBlock starts the bin     *)
(* again.                                                                   *)
LEMMA LockMeNotStep ==
    ASSUME IInv, Local, NEW t \in Threads, Path(t), LockMe(t), Mine(t),
           myL[th[t].cur] <= Coal
    PROVE  LedgerOK' /\ Ctl(t)' /\ SideCtl(t)' /\ BinsInv'
<1>x. /\ pc(t) = "lockMe" /\ Unlock(t) /\ myL' = myL
      /\ th' = [th EXCEPT ![t].pc = "bin", ![t].cur = 0]
  BY DEF LockMe, At, pc
<1>1. /\ pc(t) = "lockMe" /\ pc(t)' = "bin" /\ blk(t)' = blk(t) /\ th'[t].tmp = th[t].tmp
      /\ th'[t].cur = 0 /\ th'[t].whole = th[t].whole /\ th'[t].inBin = th[t].inBin
      /\ th'[t].goal = th[t].goal /\ th'[t].list = th[t].list /\ Carries(t)
  BY <1>x DEF Local, Rec, Fields, At, Goto, pc, blk, Carries
<1>0. Ctl(t) /\ LedgerOK /\ CtlOK /\ BinsInv /\ BinFacts(t)
  BY DEF IInv, CtlOK, BinsInv
<1>2. /\ used' = used /\ queue' = queue /\ regions' = regions /\ myL' = myL /\ leftL' = leftL
      /\ myBin' = myBin /\ bins' = bins /\ bit' = bit /\ Unlock(t)
  BY <1>x DEF LockMe, heap, words, counters, Goto
<1>4. \A k \in Private : Keeps(k, t)' = Keeps(k, t)
  BY <1>1, <1>0 DEF Private, Keeps, When, Coalescing, Piece, InList, Right, Current, Carries
<1>6. Still(t)
  BY <1>2, <1>4 DEF Still, Queued
<1>7. Side(t)' = Side(t)
  BY <1>1 DEF Side
<1>9. LedgerOK'
  BY <1>0, <1>2, <1>6, <1>7, Unmoved
<1>10. Ctl(t)'
  <2>1. BinCtl(t)'
    BY <1>0, <1>1 DEF Ctl, BinCtl, Scanning, Carries
  <2> QED
    BY <1>0, <1>1, <2>1, SearchCtl DEF Carries, Asking, Scanning
<1>11. BinsInv'
  <2>1. BinFacts(t)' /\ tLock[th[t].bin] = t /\ th[t].bin \in Bins
    BY <1>0, <1>1, NoBinFacts DEF Scanning, BinFacts, Ctl, BinCtl
  <2>2. BinFrame(t)
    BY <1>0, <1>1, <1>2, <2>1 DEF BinFrame, binned, BinsInv, BinTypes, Unlock
  <2>5. \A k \in Private : \A d \in Keeps(k, t) : Listed(<<k, t>>, d) => Listed(<<k, t>>, d)'
    BY <1>0, <1>1, <1>2 DEF Private, Keeps, When, Coalescing, Piece, Listed, Registered,
       Sized, BinOf, Class, binned
  <2> QED
    BY <1>0, <1>6, <2>2, <2>5, BinsStill
<1>12. SideCtl(t)'
  BY <1>1 DEF SideCtl
<1> QED
  BY <1>9, <1>10, <1>11, <1>12

(* tryLockBlock finds the right word locked.                                *)
LEMMA LockSideNotStep ==
    ASSUME IInv, Local, NEW t \in Threads, Path(t), LockSide(t), Mine(t),
           leftL[th[t].cur + th[t].tmp] <= Coal
    PROVE  LedgerOK' /\ Ctl(t)' /\ SideCtl(t)' /\ BinsInv'
<1>1. /\ pc(t) = "lockSide" /\ pc(t)' = "unlockMe" /\ blk(t)' = blk(t) /\ th'[t].tmp = th[t].tmp
      /\ th'[t].cur = th[t].cur /\ th'[t].whole = th[t].whole /\ th'[t].inBin = th[t].inBin
      /\ th'[t].goal = th[t].goal /\ th'[t].list = th[t].list /\ Carries(t)
  BY DEF LockSide, Local, Rec, Fields, At, Goto, pc, blk, Carries
<1>0. Ctl(t) /\ LedgerOK /\ CtlOK /\ BinsInv /\ BinFacts(t)
  BY DEF IInv, CtlOK, BinsInv
<1>2. /\ used' = used /\ queue' = queue /\ regions' = regions /\ myL' = myL /\ leftL' = leftL
      /\ UNCHANGED binned
  BY DEF LockSide, heap, words, counters, Goto
<1>4. \A k \in Private : Keeps(k, t)' = Keeps(k, t)
  BY <1>1, <1>0 DEF Private, Keeps, When, Coalescing, Piece, InList, Right, Current, Carries
<1>6. Still(t)
  BY <1>2, <1>4 DEF Still, Queued
<1>7. Side(t)' = Side(t)
  BY <1>1 DEF Side
<1>9. LedgerOK'
  BY <1>0, <1>2, <1>6, <1>7, Unmoved
<1>10. Ctl(t)'
  <2>1. BinCtl(t)'
    BY <1>0, <1>1 DEF Ctl, BinCtl, Scanning, Carries
  <2> QED
    BY <1>0, <1>1, <2>1, SearchCtl DEF Carries, Asking, Scanning
<1>11. BinsInv'
  <2>1. BinFacts(t)'
    BY <1>0, <1>1, <1>2 DEF BinFacts, Scanning, binned, Carries
  <2>2. BinFrame(t)
    BY <1>0, <1>1, <1>2, <2>1 DEF BinFrame, binned, BinsInv, BinTypes
  <2>5. \A k \in Private : \A d \in Keeps(k, t) : Listed(<<k, t>>, d) => Listed(<<k, t>>, d)'
    BY <1>0, <1>1, <1>2 DEF Private, Keeps, When, Coalescing, Piece, Listed, Registered,
       Sized, BinOf, Class, binned
  <2> QED
    BY <1>0, <1>6, <2>2, <2>5, BinsStill
<1>12. SideCtl(t)'
  BY <1>1 DEF SideCtl
<1> QED
  BY <1>9, <1>10, <1>11, <1>12

(* getBlock finds a block that fits, and blockConsumed counts it.           *)
LEMMA ConsumeStep ==
    ASSUME IInv, Local, NEW t \in Threads, Path(t), Consume(t), Mine(t)
    PROVE  LedgerOK' /\ Ctl(t)' /\ SideCtl(t)' /\ BinsInv'
<1>1. /\ pc(t) = "fit" /\ pc(t)' = "take" /\ blk(t)' = blk(t) /\ th'[t].tmp = th[t].tmp
      /\ th'[t].cur = th[t].cur /\ th'[t].whole = th[t].whole /\ th'[t].inBin = th[t].inBin
      /\ th'[t].goal = th[t].goal /\ th'[t].list = th[t].list /\ Carries(t)
  BY DEF Consume, Local, Rec, Fields, At, Goto, pc, blk, Carries
<1>0. Ctl(t) /\ LedgerOK /\ CtlOK /\ BinsInv /\ BinFacts(t)
  BY DEF IInv, CtlOK, BinsInv
<1>f. Fits(t) /\ Fits(t)'
  <2>1. Fits(t)
    BY DEF Consume
  <2> QED
    BY <1>1, <2>1, SameRequest DEF Carries
<1>2. /\ used' = used /\ queue' = queue /\ regions' = regions /\ myL' = myL /\ leftL' = leftL
      /\ UNCHANGED binned
  BY DEF Consume, heap, words, counters, Goto
<1>4. \A k \in Private : Keeps(k, t)' = Keeps(k, t)
  BY <1>1, <1>0 DEF Private, Keeps, When, Coalescing, Piece, InList, Right, Current, Carries
<1>6. Still(t)
  BY <1>2, <1>4 DEF Still, Queued
<1>7. Side(t)' = Side(t)
  BY <1>1 DEF Side
<1>9. LedgerOK'
  BY <1>0, <1>2, <1>6, <1>7, Unmoved
<1>10. Ctl(t)'
  <2>1. BinCtl(t)'
    BY <1>0, <1>1, <1>f DEF Ctl, BinCtl, Scanning, Carries
  <2> QED
    BY <1>0, <1>1, <2>1, SearchCtl DEF Carries, Asking, Scanning
<1>11. BinsInv'
  <2>1. BinFacts(t)'
    BY <1>0, <1>1, <1>2 DEF BinFacts, Scanning, binned, Carries
  <2>2. BinFrame(t)
    BY <1>0, <1>1, <1>2, <2>1 DEF BinFrame, binned, BinsInv, BinTypes
  <2>5. \A k \in Private : \A d \in Keeps(k, t) : Listed(<<k, t>>, d) => Listed(<<k, t>>, d)'
    BY <1>0, <1>1, <1>2 DEF Private, Keeps, When, Coalescing, Piece, Listed, Registered,
       Sized, BinOf, Class, binned
  <2> QED
    BY <1>0, <1>6, <2>2, <2>5, BinsStill
<1>12. SideCtl(t)'
  BY <1>1 DEF SideCtl
<1> QED
  BY <1>9, <1>10, <1>11, <1>12

(* No block came out of the caches of the allocator.                        *)
LEMMA CleanedStep ==
    ASSUME IInv, Local, NEW t \in Threads, Path(t), Cleaned(t), Mine(t)
    PROVE  LedgerOK' /\ Ctl(t)' /\ SideCtl(t)' /\ BinsInv'
<1>1. /\ blk(t)' = blk(t) /\ th'[t].tmp = th[t].tmp /\ th'[t].cur = th[t].cur
      /\ th'[t].whole = th[t].whole /\ th'[t].inBin = th[t].inBin /\ th'[t].goal = th[t].goal
      /\ th'[t].list = th[t].list /\ th'[t].req = th[t].req /\ th'[t].got = th[t].got
      /\ th'[t].ret = "idle" /\ th'[t].back = th[t].back /\ th'[t].bin = th[t].bin
      /\ pc(t) \in {"soft", "hard"} /\ pc(t)' \in {"loop", "observe", "observe2"}
  BY DEF Cleaned, Local, Rec, Fields, At, Goto, pc, blk, Carries
<1>0. Ctl(t) /\ LedgerOK /\ CtlOK /\ BinsInv /\ BinFacts(t)
  BY DEF IInv, CtlOK, BinsInv
<1>2. /\ used' = used /\ queue' = queue /\ regions' = regions /\ myL' = myL /\ leftL' = leftL
      /\ UNCHANGED binned
  BY DEF Cleaned, heap, words, counters, Goto
<1>4. \A k \in Private : Keeps(k, t)' = Keeps(k, t)
  BY <1>1, <1>0 DEF Private, Keeps, When, Coalescing, Piece, InList, Right, Current, Carries
<1>6. Still(t)
  BY <1>2, <1>4 DEF Still, Queued
<1>7. Side(t)' = Side(t)
  BY <1>1 DEF Side
<1>9. LedgerOK'
  BY <1>0, <1>2, <1>6, <1>7, Unmoved
<1>10. Ctl(t)'
  <2>1. BinCtl(t)'
    BY <1>0, <1>1 DEF Ctl, BinCtl, Scanning, Carries
  <2> QED
    BY <1>0, <1>1, <2>1, SearchCtl DEF Carries, Asking, Scanning
<1>11. BinsInv'
  <2>1. BinFacts(t)'
    BY <1>1, NoBinFacts DEF Scanning
  <2>2. BinFrame(t)
    BY <1>0, <1>1, <1>2, <2>1 DEF BinFrame, binned, BinsInv, BinTypes
  <2>5. \A k \in Private : \A d \in Keeps(k, t) : Listed(<<k, t>>, d) => Listed(<<k, t>>, d)'
    BY <1>0, <1>1, <1>2 DEF Private, Keeps, When, Coalescing, Piece, Listed, Registered,
       Sized, BinOf, Class, binned
  <2> QED
    BY <1>0, <1>6, <2>2, <2>5, BinsStill
<1>12. SideCtl(t)'
  BY <1>1 DEF SideCtl
<1> QED
  BY <1>9, <1>10, <1>11, <1>12

(* waitTillBlockReleased reads blocksInProcessing.                          *)
LEMMA ObserveStep ==
    ASSUME IInv, Local, NEW t \in Threads, Path(t), Observe(t), Mine(t)
    PROVE  LedgerOK' /\ Ctl(t)' /\ SideCtl(t)' /\ BinsInv'
<1>1. /\ blk(t)' = blk(t) /\ th'[t].tmp = th'[t].tmp /\ th'[t].cur = th[t].cur
      /\ th'[t].whole = th[t].whole /\ th'[t].inBin = th[t].inBin /\ th'[t].goal = th[t].goal
      /\ th'[t].list = th[t].list /\ Carries(t) /\ pc(t) \in {"observe", "observe2"}
      /\ pc(t)' \in {"wait", "wait2"}
  BY DEF Observe, Local, Rec, Fields, At, Goto, pc, blk, Carries
<1>0. Ctl(t) /\ LedgerOK /\ CtlOK /\ BinsInv /\ BinFacts(t)
  BY DEF IInv, CtlOK, BinsInv
<1>2. /\ used' = used /\ queue' = queue /\ regions' = regions /\ myL' = myL /\ leftL' = leftL
      /\ UNCHANGED binned
  BY DEF Observe, heap, words, counters, Goto
<1>4. \A k \in Private : Keeps(k, t)' = Keeps(k, t)
  BY <1>1, <1>0 DEF Private, Keeps, When, Coalescing, Piece, InList, Right, Current, Carries
<1>6. Still(t)
  BY <1>2, <1>4 DEF Still, Queued
<1>7. Side(t)' = Side(t)
  BY <1>1 DEF Side
<1>9. LedgerOK'
  BY <1>0, <1>2, <1>6, <1>7, Unmoved
<1>10. Ctl(t)'
  <2>1. BinCtl(t)'
    BY <1>0, <1>1 DEF Ctl, BinCtl, Scanning, Carries
  <2> QED
    BY <1>0, <1>1, <2>1, SearchCtl DEF Carries, Asking, Scanning
<1>11. BinsInv'
  <2>1. BinFacts(t)'
    BY <1>1, NoBinFacts DEF Scanning
  <2>2. BinFrame(t)
    BY <1>0, <1>1, <1>2, <2>1 DEF BinFrame, binned, BinsInv, BinTypes
  <2>5. \A k \in Private : \A d \in Keeps(k, t) : Listed(<<k, t>>, d) => Listed(<<k, t>>, d)'
    BY <1>0, <1>1, <1>2 DEF Private, Keeps, When, Coalescing, Piece, Listed, Registered,
       Sized, BinOf, Class, binned
  <2> QED
    BY <1>0, <1>6, <2>2, <2>5, BinsStill
<1>12. SideCtl(t)'
  BY <1>1 DEF SideCtl
<1> QED
  BY <1>9, <1>10, <1>11, <1>12

(* waitTillBlockReleased sees fewer blocks in processing, or more.          *)
LEMMA WaitTillBlockReleasedStep ==
    ASSUME IInv, Local, NEW t \in Threads, Path(t), WaitTillBlockReleased(t), Mine(t)
    PROVE  LedgerOK' /\ Ctl(t)' /\ SideCtl(t)' /\ BinsInv'
<1>1. /\ blk(t)' = blk(t) /\ th'[t].tmp = th'[t].tmp /\ th'[t].cur = th[t].cur
      /\ th'[t].whole = th[t].whole /\ th'[t].inBin = th[t].inBin /\ th'[t].goal = th[t].goal
      /\ th'[t].list = th[t].list /\ Carries(t) /\ pc(t) \in {"wait", "wait2"}
      /\ pc(t)' \in {"wait", "wait2", "check", "check2"}
  BY DEF WaitTillBlockReleased, Local, Rec, Fields, At, Goto, pc, blk, Carries
<1>0. Ctl(t) /\ LedgerOK /\ CtlOK /\ BinsInv /\ BinFacts(t)
  BY DEF IInv, CtlOK, BinsInv
<1>2. /\ used' = used /\ queue' = queue /\ regions' = regions /\ myL' = myL /\ leftL' = leftL
      /\ UNCHANGED binned
  BY DEF WaitTillBlockReleased, heap, words, counters, Goto
<1>4. \A k \in Private : Keeps(k, t)' = Keeps(k, t)
  BY <1>1, <1>0 DEF Private, Keeps, When, Coalescing, Piece, InList, Right, Current, Carries
<1>6. Still(t)
  BY <1>2, <1>4 DEF Still, Queued
<1>7. Side(t)' = Side(t)
  BY <1>1 DEF Side
<1>9. LedgerOK'
  BY <1>0, <1>2, <1>6, <1>7, Unmoved
<1>10. Ctl(t)'
  <2>1. BinCtl(t)'
    BY <1>0, <1>1 DEF Ctl, BinCtl, Scanning, Carries
  <2> QED
    BY <1>0, <1>1, <2>1, SearchCtl DEF Carries, Asking, Scanning
<1>11. BinsInv'
  <2>1. BinFacts(t)'
    BY <1>1, NoBinFacts DEF Scanning
  <2>2. BinFrame(t)
    BY <1>0, <1>1, <1>2, <2>1 DEF BinFrame, binned, BinsInv, BinTypes
  <2>5. \A k \in Private : \A d \in Keeps(k, t) : Listed(<<k, t>>, d) => Listed(<<k, t>>, d)'
    BY <1>0, <1>1, <1>2 DEF Private, Keeps, When, Coalescing, Piece, Listed, Registered,
       Sized, BinOf, Class, binned
  <2> QED
    BY <1>0, <1>6, <2>2, <2>5, BinsStill
<1>12. SideCtl(t)'
  BY <1>1 DEF SideCtl
<1> QED
  BY <1>9, <1>10, <1>11, <1>12

(* askMemFromOS: another scan, harder cleaning or nothing.                  *)
LEMMA CheckStep ==
    ASSUME IInv, Local, NEW t \in Threads, Path(t), Check(t), Mine(t)
    PROVE  LedgerOK' /\ Ctl(t)' /\ SideCtl(t)' /\ BinsInv'
<1>1. /\ blk(t)' = blk(t) /\ th'[t].tmp = th[t].tmp /\ th'[t].cur = th[t].cur
      /\ th'[t].whole = th[t].whole /\ th'[t].inBin = th[t].inBin /\ th'[t].goal = th[t].goal
      /\ th'[t].list = th[t].list /\ Carries(t) /\ pc(t) \in {"check", "check2"}
      /\ pc(t)' \in {"loop", "hard", "null"}
  BY DEF Check, Local, Rec, Fields, At, Goto, pc, blk, Carries
<1>0. Ctl(t) /\ LedgerOK /\ CtlOK /\ BinsInv /\ BinFacts(t)
  BY DEF IInv, CtlOK, BinsInv
<1>2. /\ used' = used /\ queue' = queue /\ regions' = regions /\ myL' = myL /\ leftL' = leftL
      /\ UNCHANGED binned
  BY DEF Check, heap, words, counters, Goto
<1>4. \A k \in Private : Keeps(k, t)' = Keeps(k, t)
  BY <1>1, <1>0 DEF Private, Keeps, When, Coalescing, Piece, InList, Right, Current, Carries
<1>6. Still(t)
  BY <1>2, <1>4 DEF Still, Queued
<1>7. Side(t)' = Side(t)
  BY <1>1 DEF Side
<1>9. LedgerOK'
  BY <1>0, <1>2, <1>6, <1>7, Unmoved
<1>10. Ctl(t)'
  <2>1. BinCtl(t)'
    BY <1>0, <1>1 DEF Ctl, BinCtl, Scanning, Carries
  <2> QED
    BY <1>0, <1>1, <2>1, SearchCtl DEF Carries, Asking, Scanning
<1>11. BinsInv'
  <2>1. BinFacts(t)'
    BY <1>1, NoBinFacts DEF Scanning
  <2>2. BinFrame(t)
    BY <1>0, <1>1, <1>2, <2>1 DEF BinFrame, binned, BinsInv, BinTypes
  <2>5. \A k \in Private : \A d \in Keeps(k, t) : Listed(<<k, t>>, d) => Listed(<<k, t>>, d)'
    BY <1>0, <1>1, <1>2 DEF Private, Keeps, When, Coalescing, Piece, Listed, Registered,
       Sized, BinOf, Class, binned
  <2> QED
    BY <1>0, <1>6, <2>2, <2>5, BinsStill
<1>12. SideCtl(t)'
  BY <1>1 DEF SideCtl
<1> QED
  BY <1>9, <1>10, <1>11, <1>12

-----------------------------------------------------------------------------
(* The steps that restore or take one side of a block, and those at the end *)
(* of a call.                                                               *)

(* The side that a thread has yet to restore is that of a loose piece.      *)
LEMMA SideType ==
    ASSUME LedgerOK, NEW t \in Threads, NEW e, e = Side(t), e # NoExt
    PROVE  /\ IsLoose(Contents, e) /\ End(e) \in Units /\ e[2] \in Nat /\ e[2] > 0 /\ e[1] \in Nat /\ End(e) = e[1] + e[2]
<1>1. Sides[t] = e
  BY DEF Sides
<1> HIDE DEF Contents, Sides
<1>2. IsLoose(Contents, e)
  BY <1>1 DEF LedgerOK, Ledger, SidesRight
<1>3. PICK x \in Places : e \in Contents[x]
  BY <1>2 DEF IsLoose
<1> QED
  BY <1>2, <1>3, PieceType DEF LedgerOK

(* getFromBin and getFromAlignedSpace have nothing to give back any more.   *)
LEMMA SplitDoneStep ==
    ASSUME IInv, Local, NEW t \in Threads, Path(t), SplitDone(t), Mine(t)
    PROVE  LedgerOK' /\ Ctl(t)' /\ SideCtl(t)' /\ BinsInv'
<1>1. /\ pc(t) = "split" /\ pc(t)' = "modify" /\ blk(t)' = blk(t) /\ th'[t].tmp = th[t].tmp
      /\ th'[t].cur = th[t].cur /\ th'[t].whole = th[t].whole /\ th'[t].inBin = th[t].inBin
      /\ th'[t].goal = th[t].goal /\ th'[t].list = th[t].list /\ th'[t].req = th[t].req
      /\ th'[t].got = th[t].got /\ th'[t].ret = th[t].ret /\ th'[t].back = th[t].back
      /\ th'[t].bin = NoBin
  BY DEF SplitDone, Local, Rec, Fields, At, Goto, pc, blk, Carries
<1>0. Ctl(t) /\ LedgerOK /\ CtlOK /\ BinsInv /\ BinFacts(t)
  BY DEF IInv, CtlOK, BinsInv
<1>n. th[t].got[2] = Total(t) /\ Total(t)' = Total(t)
  BY <1>1, SameRequest DEF SplitDone
<1>2. /\ used' = used /\ queue' = queue /\ regions' = regions /\ myL' = myL /\ leftL' = leftL
      /\ UNCHANGED binned
  BY DEF SplitDone, heap, words, counters, Goto
<1>4. \A k \in Private : Keeps(k, t)' = Keeps(k, t)
  BY <1>1, <1>0 DEF Private, Keeps, When, Coalescing, Piece, InList, Right, Current, Carries
<1>6. Still(t)
  BY <1>2, <1>4 DEF Still, Queued
<1>7. Side(t)' = Side(t)
  BY <1>1 DEF Side
<1>9. LedgerOK'
  BY <1>0, <1>2, <1>6, <1>7, Unmoved
<1>10. Ctl(t)'
  <2>1. ListCtl(t)'
    BY <1>0, <1>1 DEF Ctl, ListCtl, Coalescing, Asking, Scanning
  <2>2. GotCtl(t)'
    BY <1>0, <1>1, <1>n DEF Ctl, GotCtl, Giving, Coalescing
  <2>3. ReqCtl(t)'
    BY <1>0, <1>1 DEF Ctl, ReqCtl, Asking, Scanning
  <2>4. WholeCtl(t)' /\ BinCtl(t)'
    BY <1>0, <1>1 DEF Ctl, WholeCtl, BinCtl, Scanning
  <2> QED
    BY <2>1, <2>2, <2>3, <2>4 DEF Ctl
<1>11. BinsInv'
  <2>1. BinFacts(t)'
    BY <1>1, NoBinFacts DEF Scanning
  <2>2. BinFrame(t)
    BY <1>0, <1>1, <1>2, <2>1 DEF BinFrame, binned, BinsInv, BinTypes
  <2>5. \A k \in Private : \A d \in Keeps(k, t) : Listed(<<k, t>>, d) => Listed(<<k, t>>, d)'
    BY <1>0, <1>1, <1>2 DEF Private, Keeps, When, Coalescing, Piece, Listed, Registered,
       Sized, BinOf, Class, binned
  <2> QED
    BY <1>0, <1>6, <2>2, <2>5, BinsStill
<1>12. SideCtl(t)'
  BY <1>1 DEF SideCtl
<1> QED
  BY <1>9, <1>10, <1>11, <1>12

(* blockReleased tells the others that the bins were modified.              *)
LEMMA BinsModifiedStep ==
    ASSUME IInv, Local, NEW t \in Threads, Path(t), BinsModified(t), Mine(t)
    PROVE  LedgerOK' /\ Ctl(t)' /\ SideCtl(t)' /\ BinsInv'
<1>1. /\ pc(t) = "modify" /\ pc(t)' = "released" /\ blk(t)' = blk(t) /\ th'[t].tmp = th[t].tmp
      /\ th'[t].cur = th[t].cur /\ th'[t].whole = th[t].whole /\ th'[t].inBin = th[t].inBin
      /\ th'[t].goal = th[t].goal /\ th'[t].list = th[t].list /\ Carries(t)
  BY DEF BinsModified, Local, Rec, Fields, At, Goto, pc, blk, Carries
<1>0. Ctl(t) /\ LedgerOK /\ CtlOK /\ BinsInv /\ BinFacts(t)
  BY DEF IInv, CtlOK, BinsInv
<1>n. Total(t)' = Total(t)
  BY <1>1, SameRequest DEF Carries
<1>2. /\ used' = used /\ queue' = queue /\ regions' = regions /\ myL' = myL /\ leftL' = leftL
      /\ UNCHANGED binned
  BY DEF BinsModified, heap, words, counters, Goto
<1>4. \A k \in Private : Keeps(k, t)' = Keeps(k, t)
  BY <1>1, <1>0 DEF Private, Keeps, When, Coalescing, Piece, InList, Right, Current, Carries
<1>6. Still(t)
  BY <1>2, <1>4 DEF Still, Queued
<1>7. Side(t)' = Side(t)
  BY <1>1 DEF Side
<1>9. LedgerOK'
  BY <1>0, <1>2, <1>6, <1>7, Unmoved
<1>10. Ctl(t)'
  <2>1. ListCtl(t)'
    BY <1>0, <1>1 DEF Ctl, ListCtl, Coalescing, Asking, Scanning
  <2>2. GotCtl(t)'
    BY <1>0, <1>1, <1>n DEF Ctl, GotCtl, Giving, Coalescing, Carries
  <2>3. ReqCtl(t)'
    BY <1>0, <1>1 DEF Ctl, ReqCtl, Asking, Scanning, Carries
  <2>4. WholeCtl(t)' /\ BinCtl(t)'
    BY <1>0, <1>1 DEF Ctl, WholeCtl, BinCtl, Scanning, Carries
  <2> QED
    BY <2>1, <2>2, <2>3, <2>4 DEF Ctl
<1>11. BinsInv'
  <2>1. BinFacts(t)'
    BY <1>1, NoBinFacts DEF Scanning
  <2>2. BinFrame(t)
    BY <1>0, <1>1, <1>2, <2>1 DEF BinFrame, binned, BinsInv, BinTypes
  <2>5. \A k \in Private : \A d \in Keeps(k, t) : Listed(<<k, t>>, d) => Listed(<<k, t>>, d)'
    BY <1>0, <1>1, <1>2 DEF Private, Keeps, When, Coalescing, Piece, Listed, Registered,
       Sized, BinOf, Class, binned
  <2> QED
    BY <1>0, <1>6, <2>2, <2>5, BinsStill
<1>12. SideCtl(t)'
  BY <1>1 DEF SideCtl
<1> QED
  BY <1>9, <1>10, <1>11, <1>12

(* genericGetBlock returns NULL.                                            *)
LEMMA ReturnNullStep ==
    ASSUME IInv, Local, NEW t \in Threads, Path(t), ReturnNull(t), Mine(t)
    PROVE  LedgerOK' /\ Ctl(t)' /\ SideCtl(t)' /\ BinsInv'
<1>1. /\ pc(t) = "null" /\ pc(t)' = "idle" /\ blk(t)' = NoExt /\ th'[t].tmp = 0
      /\ th'[t].cur = 0 /\ th'[t].whole = FALSE /\ th'[t].inBin = FALSE /\ th'[t].goal = "idle"
      /\ th'[t].list = <<>> /\ th'[t].req = NoReq /\ th'[t].got = NoExt /\ th'[t].ret = "idle"
      /\ th'[t].back = "idle" /\ th'[t].bin = NoBin
  BY DEF ReturnNull, Local, Rec, Fields, At, Goto, pc, blk, Carries, Resting
<1>0. Ctl(t) /\ LedgerOK /\ CtlOK /\ BinsInv /\ BinFacts(t)
  BY DEF IInv, CtlOK, BinsInv
<1>n. th[t].got = NoExt /\ th[t].list = <<>>
  BY <1>0, <1>1 DEF Ctl, GotCtl, ListCtl, Giving, Coalescing
<1>2. /\ used' = used /\ queue' = queue /\ regions' = regions /\ myL' = myL /\ leftL' = leftL
      /\ UNCHANGED binned
  BY DEF ReturnNull, heap, words, counters, Goto, Resting
<1>4. \A k \in Private : Keeps(k, t)' = Keeps(k, t)
  BY <1>1, <1>0, <1>n DEF Private, Keeps, When, Coalescing, Piece, InList, Right, Current, Carries
<1>6. Still(t)
  BY <1>2, <1>4 DEF Still, Queued
<1>7. Side(t)' = Side(t)
  BY <1>1 DEF Side
<1>9. LedgerOK'
  BY <1>0, <1>2, <1>6, <1>7, Unmoved
<1>10. Ctl(t)'
  <2>1. ListCtl(t)'
    <3>1. <<>> \in Seq(Extents) /\ Distinct(<<>>)
      BY Single, EmptySeq
    <3> QED
      BY <1>1, <3>1 DEF ListCtl
  <2>2. GotCtl(t)' /\ ReqCtl(t)'
    BY <1>1 DEF GotCtl, Giving, ReqCtl, Coalescing, Asking, Scanning
  <2>4. WholeCtl(t)' /\ BinCtl(t)'
    BY <1>1 DEF WholeCtl, BinCtl, Scanning
  <2> QED
    BY <2>1, <2>2, <2>4 DEF Ctl
<1>11. BinsInv'
  <2>1. BinFacts(t)'
    BY <1>1, NoBinFacts DEF Scanning
  <2>2. BinFrame(t)
    BY <1>0, <1>1, <1>2, <2>1 DEF BinFrame, binned, BinsInv, BinTypes
  <2>5. \A k \in Private : \A d \in Keeps(k, t) : Listed(<<k, t>>, d) => Listed(<<k, t>>, d)'
    BY <1>0, <1>1, <1>2 DEF Private, Keeps, When, Coalescing, Piece, Listed, Registered,
       Sized, BinOf, Class, binned
  <2> QED
    BY <1>0, <1>6, <2>2, <2>5, BinsStill
<1>12. SideCtl(t)'
  BY <1>1 DEF SideCtl
<1> QED
  BY <1>9, <1>10, <1>11, <1>12

(* blockReleased at the end of genericPutBlock.                             *)
LEMMA BlockReleasedPutStep ==
    ASSUME IInv, Local, NEW t \in Threads, Path(t), BlockReleased(t), Mine(t),
           th[t].got = NoExt
    PROVE  LedgerOK' /\ Ctl(t)' /\ SideCtl(t)' /\ BinsInv'
<1>x. /\ pc(t) = "released" /\ th[t].back \in {"idle", "soft", "hard"}
      /\ th' = [th EXCEPT ![t].pc = th[t].back, ![t].ret = "idle", ![t].back = "idle"]
  BY DEF BlockReleased, At, pc, Path
<1>1. /\ pc(t) = "released" /\ blk(t)' = blk(t) /\ th'[t].tmp = th[t].tmp
      /\ th'[t].cur = th[t].cur /\ th'[t].whole = th[t].whole /\ th'[t].inBin = th[t].inBin
      /\ th'[t].goal = th[t].goal /\ th'[t].list = th[t].list /\ th'[t].req = th[t].req
      /\ th'[t].got = th[t].got /\ th'[t].ret = "idle" /\ th'[t].back = "idle"
      /\ th'[t].bin = th[t].bin /\ pc(t)' = th[t].back
      /\ th[t].back \in {"idle", "soft", "hard"}
  BY <1>x DEF Local, Rec, Fields, At, Goto, pc, blk, Carries
<1>0. Ctl(t) /\ LedgerOK /\ CtlOK /\ BinsInv /\ BinFacts(t)
  BY DEF IInv, CtlOK, BinsInv
<1>2. /\ used' = used /\ queue' = queue /\ regions' = regions /\ myL' = myL /\ leftL' = leftL
      /\ UNCHANGED binned
  BY DEF BlockReleased, heap, words, counters, Goto
<1>4. \A k \in Private : Keeps(k, t)' = Keeps(k, t)
  BY <1>1, <1>0 DEF Private, Keeps, When, Coalescing, Piece, InList, Right, Current, Carries
<1>6. Still(t)
  BY <1>2, <1>4 DEF Still, Queued
<1>7. Side(t)' = Side(t)
  BY <1>1 DEF Side
<1>9. LedgerOK'
  BY <1>0, <1>2, <1>6, <1>7, Unmoved
<1>10. Ctl(t)'
  <2>1. ListCtl(t)'
    BY <1>0, <1>1 DEF Ctl, ListCtl, Coalescing, Asking, Scanning
  <2>2. GotCtl(t)'
    BY <1>1 DEF GotCtl, Giving, Coalescing
  <2>3. ReqCtl(t)'
    BY <1>0, <1>1 DEF Ctl, ReqCtl, Asking, Scanning
  <2>4. WholeCtl(t)' /\ BinCtl(t)'
    BY <1>0, <1>1 DEF Ctl, WholeCtl, BinCtl, Scanning
  <2> QED
    BY <2>1, <2>2, <2>3, <2>4 DEF Ctl
<1>11. BinsInv'
  <2>1. BinFacts(t)'
    BY <1>1, NoBinFacts DEF Scanning
  <2>2. BinFrame(t)
    BY <1>0, <1>1, <1>2, <2>1 DEF BinFrame, binned, BinsInv, BinTypes
  <2>5. \A k \in Private : \A d \in Keeps(k, t) : Listed(<<k, t>>, d) => Listed(<<k, t>>, d)'
    BY <1>0, <1>1, <1>2 DEF Private, Keeps, When, Coalescing, Piece, Listed, Registered,
       Sized, BinOf, Class, binned
  <2> QED
    BY <1>0, <1>6, <2>2, <2>5, BinsStill
<1>12. SideCtl(t)'
  BY <1>1 DEF SideCtl
<1> QED
  BY <1>9, <1>10, <1>11, <1>12

(* doCoalesc gives the right side of the left neighbour back.               *)
LEMMA UndoLeftStep ==
    ASSUME IInv, Local, NEW t \in Threads, Path(t), UndoLeft(t), Mine(t),
           NEW e, e = Side(t)
    PROVE  LedgerOK' /\ Ctl(t)' /\ SideCtl(t)' /\ BinsInv'
<1>1. /\ pc(t) = "undoLeft" /\ pc(t)' = "requeue" /\ blk(t)' = blk(t) /\ th'[t].tmp = 0
      /\ th'[t].cur = th[t].cur /\ th'[t].whole = th[t].whole /\ th'[t].inBin = th[t].inBin
      /\ th'[t].goal = th[t].goal /\ th'[t].list = th[t].list /\ Carries(t)
  BY DEF UndoLeft, Local, Rec, Fields, At, Goto, pc, blk, Carries
<1>0. Ctl(t) /\ LedgerOK /\ CtlOK /\ BinsInv /\ BinFacts(t)
  BY DEF IInv, CtlOK, BinsInv
<1>o. blk(t)[1] \in Nat /\ blk(t)[1] \in Units
  <2>1. blk(t) \in Contents[<<"blk", t>>]
    BY <1>1, ContentsAt DEF Private, Keeps, When, Piece, Coalescing
  <2>2. <<"blk", t>> \in Places
    BY PlaceNames DEF Private
  <2> HIDE DEF Contents, Sides
  <2> QED
    BY <1>0, <2>1, <2>2, PieceType DEF LedgerOK
<1>7. Side(t) = e /\ Side(t)' = NoExt /\ e # NoExt /\ e = <<blk(t)[1] - th[t].tmp, th[t].tmp>>
  BY <1>0, <1>1 DEF Side, SideCtl, CtlOK
<1>e. IsLoose(Contents, e) /\ e[2] \in Int /\ e[2] = th[t].tmp /\ End(e) = blk(t)[1]
  <2>1. IsLoose(Contents, e) /\ e[2] \in Nat /\ End(e) = e[1] + e[2]
    BY <1>0, <1>7, SideType
  <2>2. e[2] = th[t].tmp /\ e[1] = blk(t)[1] - th[t].tmp
    BY <1>7
  <2> QED
    BY <1>o, <2>1, <2>2
<1>2. /\ used' = used /\ queue' = queue /\ regions' = regions /\ myL' = myL
      /\ leftL' = [leftL EXCEPT ![End(e)] = e[2]] /\ UNCHANGED binned
  BY <1>e DEF UndoLeft, heap, words, counters, Goto
<1>4. \A k \in Private : Keeps(k, t)' = Keeps(k, t)
  BY <1>1, <1>0 DEF Private, Keeps, When, Coalescing, Piece, InList, Right, Current, Carries
<1>6. Still(t)
  BY <1>2, <1>4 DEF Still, Queued
<1>9. LedgerOK'
  BY <1>0, <1>2, <1>6, <1>7, <1>e, SideWrite
<1>10. Ctl(t)'
  <2>1. WholeCtl(t)'
    BY <1>0, <1>1 DEF Ctl, WholeCtl
  <2>2. ListCtl(t)'
    BY <1>0, <1>1, SameList DEF Coalescing, Ctl
  <2> QED
    BY <1>0, <1>1, <2>1, <2>2, CoalesceCtl DEF Coalescing
<1>11. BinsInv'
  <2>1. BinFacts(t)'
    BY <1>1, NoBinFacts DEF Scanning
  <2>2. BinFrame(t)
    BY <1>0, <1>1, <1>2, <2>1 DEF BinFrame, binned, BinsInv, BinTypes
  <2>5. \A k \in Private : \A d \in Keeps(k, t) : Listed(<<k, t>>, d) => Listed(<<k, t>>, d)'
    BY <1>0, <1>1, <1>2 DEF Private, Keeps, When, Coalescing, Piece, Listed, Registered,
       Sized, BinOf, Class, binned
  <2> QED
    BY <1>0, <1>6, <2>2, <2>5, BinsStill
<1>12. SideCtl(t)'
  BY <1>1 DEF SideCtl
<1> QED
  BY <1>9, <1>10, <1>11, <1>12

(* setLeftFree of coalescAndPutList: the right word of a block that became  *)
(* free.                                                                    *)
LEMMA SetLeftFreeStep ==
    ASSUME IInv, Local, NEW t \in Threads, Path(t), SetLeftFree(t), Mine(t),
           NEW e, e = blk(t)
    PROVE  LedgerOK' /\ Ctl(t)' /\ SideCtl(t)' /\ BinsInv'
<1>1. /\ pc(t) = "free2" /\ pc(t)' \in {"mark"} \cup {"idle", "loop", "soft", "modify", "split"}
      /\ blk(t)' = NoExt /\ th'[t].list = th[t].list /\ th'[t].got = th[t].got
      /\ Ctl(t)'
  <2>1. pc(t) = "free2" /\ AfterBlock(t) /\ Ctl(t)
    BY DEF SetLeftFree, At, pc, IInv, CtlOK
  <2> QED
    BY <2>1, AfterCtl DEF Coalescing
<1>0. Ctl(t) /\ LedgerOK /\ CtlOK /\ BinsInv /\ BinFacts(t)
  BY DEF IInv, CtlOK, BinsInv
<1>7. Side(t) = e /\ Side(t)' = NoExt /\ e # NoExt
  BY <1>0, <1>1 DEF Side, SideCtl, CtlOK
<1>e. IsLoose(Contents, e) /\ e[2] \in Int
  BY <1>0, <1>7, SideType
<1>2. /\ used' = used /\ queue' = queue /\ regions' = regions /\ myL' = myL
      /\ leftL' = [leftL EXCEPT ![End(e)] = e[2]] /\ UNCHANGED binned
  BY DEF SetLeftFree, heap, words, counters, Goto
<1>4. \A k \in Private : Keeps(k, t)' = Keeps(k, t)
  BY <1>1, <1>0 DEF Private, Keeps, When, Coalescing, Piece, InList, Right, Current, Carries
<1>6. Still(t)
  BY <1>2, <1>4 DEF Still, Queued
<1>9. LedgerOK'
  BY <1>0, <1>2, <1>6, <1>7, <1>e, SideWrite
<1>10. Ctl(t)'
  BY <1>1
<1>11. BinsInv'
  <2>1. BinFacts(t)'
    BY <1>1, NoBinFacts DEF Scanning
  <2>2. BinFrame(t)
    BY <1>0, <1>1, <1>2, <2>1 DEF BinFrame, binned, BinsInv, BinTypes
  <2>5. \A k \in Private : \A d \in Keeps(k, t) : Listed(<<k, t>>, d) => Listed(<<k, t>>, d)'
    BY <1>0, <1>1, <1>2 DEF Private, Keeps, When, Coalescing, Piece, Listed, Registered,
       Sized, BinOf, Class, binned
  <2> QED
    BY <1>0, <1>6, <2>2, <2>5, BinsStill
<1>12. SideCtl(t)'
  BY <1>1 DEF SideCtl
<1> QED
  BY <1>9, <1>10, <1>11, <1>12

(* doCoalesc locks the right side of a free left neighbour.                 *)
LEMMA TryLeftTakenStep ==
    ASSUME IInv, Local, NEW t \in Threads, Path(t), TryLeft(t), Mine(t),
           leftL[blk(t)[1]] > Coal,
           NEW e, e = <<blk(t)[1] - leftL[blk(t)[1]], leftL[blk(t)[1]]>>
    PROVE  LedgerOK' /\ Ctl(t)' /\ SideCtl(t)' /\ BinsInv'
<1>x. /\ pc(t) = "left" /\ leftL' = [leftL EXCEPT ![blk(t)[1]] = Coal] /\ e[2] = leftL[blk(t)[1]]
      /\ th' = [th EXCEPT ![t].pc = "left2", ![t].tmp = leftL[blk(t)[1]]]
  BY DEF TryLeft, At, pc, Locked, Coal
<1>1. /\ pc(t) = "left" /\ pc(t)' = "left2" /\ blk(t)' = blk(t) /\ th'[t].tmp = e[2]
      /\ th'[t].cur = th[t].cur /\ th'[t].whole = th[t].whole /\ th'[t].inBin = th[t].inBin
      /\ th'[t].goal = th[t].goal /\ th'[t].list = th[t].list /\ Carries(t)
  BY <1>x DEF Local, Rec, Fields, At, Goto, pc, blk, Carries
<1>0. Ctl(t) /\ LedgerOK /\ CtlOK /\ BinsInv /\ BinFacts(t)
  BY DEF IInv, CtlOK, BinsInv
<1>o. blk(t)[1] \in Nat /\ blk(t)[1] \in Units
  <2>1. blk(t) \in Contents[<<"blk", t>>]
    BY <1>1, ContentsAt DEF Private, Keeps, When, Piece, Coalescing
  <2>2. <<"blk", t>> \in Places
    BY PlaceNames DEF Private
  <2> HIDE DEF Contents, Sides
  <2> QED
    BY <1>0, <2>1, <2>2, PieceType DEF LedgerOK
<1>7. Side(t) = NoExt /\ Side(t)' = e
  BY <1>1, <1>x DEF Side
<1>e. IsLoose(Contents, e) /\ e # NoExt /\ End(e) = blk(t)[1] /\ Coal \in Int
  <2> HIDE DEF Contents, Sides
  <2>1. leftL[blk(t)[1]] \in Int /\ leftL[blk(t)[1]] > 0
    BY <1>0, <1>o DEF LedgerOK, Ledger, Coal
  <2>2. IsLoose(Contents, e)
    BY <1>0, <1>o, <2>1 DEF LedgerOK, Ledger
  <2>3. PICK x \in Places : e \in Contents[x]
    BY <2>2 DEF IsLoose
  <2>4. e # NoExt
    BY <1>0, <2>3, PieceType DEF LedgerOK
  <2> QED
    BY <1>o, <2>1, <2>2, <2>4 DEF End, Coal
<1>2. /\ used' = used /\ queue' = queue /\ regions' = regions /\ myL' = myL
      /\ leftL' = [leftL EXCEPT ![End(e)] = Coal] /\ UNCHANGED binned /\ leftL[End(e)] > Coal
  BY <1>x, <1>e DEF TryLeft, heap, words, counters, Goto
<1>4. \A k \in Private : Keeps(k, t)' = Keeps(k, t)
  BY <1>1, <1>0 DEF Private, Keeps, When, Coalescing, Piece, InList, Right, Current, Carries
<1>6. Still(t)
  BY <1>2, <1>4 DEF Still, Queued
<1>9. LedgerOK'
  BY <1>0, <1>2, <1>6, <1>7, <1>e, SideWrite
<1>10. Ctl(t)'
  <2>1. WholeCtl(t)'
    BY <1>0, <1>1 DEF Ctl, WholeCtl
  <2>2. ListCtl(t)'
    BY <1>0, <1>1, SameList DEF Coalescing, Ctl
  <2> QED
    BY <1>0, <1>1, <2>1, <2>2, CoalesceCtl DEF Coalescing
<1>11. BinsInv'
  <2>1. BinFacts(t)'
    BY <1>1, NoBinFacts DEF Scanning
  <2>2. BinFrame(t)
    BY <1>0, <1>1, <1>2, <2>1 DEF BinFrame, binned, BinsInv, BinTypes
  <2>5. \A k \in Private : \A d \in Keeps(k, t) : Listed(<<k, t>>, d) => Listed(<<k, t>>, d)'
    BY <1>0, <1>1, <1>2 DEF Private, Keeps, When, Coalescing, Piece, Listed, Registered,
       Sized, BinOf, Class, binned
  <2> QED
    BY <1>0, <1>6, <2>2, <2>5, BinsStill
<1>12. SideCtl(t)'
  BY <1>1, <1>7, <1>e DEF SideCtl
<1> QED
  BY <1>9, <1>10, <1>11, <1>12

(* getBlock gives back the right word of the last block of the bin, and     *)
(* unlocks it.                                                              *)
LEMMA SkipLastStep ==
    ASSUME IInv, Local, NEW t \in Threads, Path(t), Skip(t), Mine(t),
           (CHOOSE j \in DOMAIN bins[th[t].bin] : bins[th[t].bin][j] = th[t].cur) = Len(bins[th[t].bin]),
           NEW e, e = Current(t)
    PROVE  LedgerOK' /\ Ctl(t)' /\ SideCtl(t)' /\ BinsInv'
<1>x. /\ pc(t) = "skip" /\ Unlock(t)
      /\ th' = [th EXCEPT ![t].pc = "scan", ![t].cur = 0, ![t].tmp = 0]
  BY DEF Skip, At, pc
<1>1. /\ pc(t) = "skip" /\ pc(t)' = "scan" /\ blk(t)' = blk(t) /\ th'[t].tmp = 0
      /\ th'[t].cur = 0 /\ th'[t].whole = th[t].whole /\ th'[t].inBin = th[t].inBin
      /\ th'[t].goal = th[t].goal /\ th'[t].list = th[t].list /\ Carries(t)
  BY <1>x DEF Local, Rec, Fields, At, Goto, pc, blk, Carries
<1>0. Ctl(t) /\ LedgerOK /\ CtlOK /\ BinsInv /\ BinFacts(t)
  BY DEF IInv, CtlOK, BinsInv
<1>7. Side(t) = e /\ Side(t)' = NoExt /\ e # NoExt
  BY <1>0, <1>1 DEF Side, SideCtl, CtlOK
<1>e. IsLoose(Contents, e) /\ e[2] \in Int /\ e[2] = th[t].tmp
  <2>1. IsLoose(Contents, e) /\ e[2] \in Nat
    BY <1>0, <1>7, SideType
  <2> QED
    BY <2>1 DEF Current
<1>2. /\ used' = used /\ queue' = queue /\ regions' = regions /\ myL' = myL
      /\ leftL' = [leftL EXCEPT ![End(e)] = e[2]] /\ myBin' = myBin /\ bins' = bins
      /\ bit' = bit /\ Unlock(t)
  BY <1>x, <1>e DEF Skip, heap, words, counters, Goto
<1>4. \A k \in Private : Keeps(k, t)' = Keeps(k, t)
  BY <1>1, <1>0 DEF Private, Keeps, When, Coalescing, Piece, InList, Right, Current, Carries
<1>6. Still(t)
  BY <1>2, <1>4 DEF Still, Queued
<1>9. LedgerOK'
  BY <1>0, <1>2, <1>6, <1>7, <1>e, SideWrite
<1>10. Ctl(t)'
  <2>1. BinCtl(t)'
    BY <1>0, <1>1 DEF Ctl, BinCtl, Scanning, Carries
  <2> QED
    BY <1>0, <1>1, <2>1, SearchCtl DEF Carries, Asking, Scanning
<1>11. BinsInv'
  <2>1. BinFacts(t)' /\ tLock[th[t].bin] = t /\ th[t].bin \in Bins
    BY <1>0, <1>1, NoBinFacts DEF Scanning, BinFacts, Ctl, BinCtl
  <2>2. BinFrame(t)
    BY <1>0, <1>1, <1>2, <2>1 DEF BinFrame, binned, BinsInv, BinTypes, Unlock
  <2>5. \A k \in Private : \A d \in Keeps(k, t) : Listed(<<k, t>>, d) => Listed(<<k, t>>, d)'
    BY <1>0, <1>1, <1>2 DEF Private, Keeps, When, Coalescing, Piece, Listed, Registered,
       Sized, BinOf, Class, binned
  <2> QED
    BY <1>0, <1>6, <2>2, <2>5, BinsStill
<1>12. SideCtl(t)'
  BY <1>1 DEF SideCtl
<1> QED
  BY <1>9, <1>10, <1>11, <1>12

(* getBlock gives back the right word of a block and goes to the next one.  *)
LEMMA SkipOnStep ==
    ASSUME IInv, Local, NEW t \in Threads, Path(t), Skip(t), Mine(t),
           NEW i, i = (CHOOSE j \in DOMAIN bins[th[t].bin] : bins[th[t].bin][j] = th[t].cur), i # Len(bins[th[t].bin]),
           NEW e, e = Current(t)
    PROVE  LedgerOK' /\ Ctl(t)' /\ SideCtl(t)' /\ BinsInv'
<1>x. /\ pc(t) = "skip" /\ tLock' = tLock
      /\ th' = [th EXCEPT ![t].pc = "lockMe", ![t].cur = bins[th[t].bin][i + 1], ![t].tmp = 0]
  BY DEF Skip, At, pc
<1>1. /\ pc(t) = "skip" /\ pc(t)' = "lockMe" /\ blk(t)' = blk(t) /\ th'[t].tmp = 0
      /\ th'[t].cur = bins[th[t].bin][i + 1] /\ th'[t].whole = th[t].whole
      /\ th'[t].inBin = th[t].inBin /\ th'[t].goal = th[t].goal /\ th'[t].list = th[t].list
      /\ Carries(t)
  BY <1>x DEF Local, Rec, Fields, At, Goto, pc, blk, Carries, binned
<1>0. Ctl(t) /\ LedgerOK /\ CtlOK /\ BinsInv /\ BinFacts(t)
  BY DEF IInv, CtlOK, BinsInv
<1>7. Side(t) = e /\ Side(t)' = NoExt /\ e # NoExt
  BY <1>0, <1>1 DEF Side, SideCtl, CtlOK
<1>e. IsLoose(Contents, e) /\ e[2] \in Int /\ e[2] = th[t].tmp
  <2>1. IsLoose(Contents, e) /\ e[2] \in Nat
    BY <1>0, <1>7, SideType
  <2> QED
    BY <2>1 DEF Current
<1>n. th[t].bin \in Bins /\ bins[th[t].bin][i + 1] \in Elements(bins[th[t].bin])
  <2>1. th[t].bin \in Bins /\ th[t].cur \in Elements(bins[th[t].bin]) /\ bins[th[t].bin] \in Seq(Units)
    BY <1>0, <1>1 DEF Ctl, BinCtl, BinFacts, Scanning, BinsInv, BinTypes
  <2>2. i \in DOMAIN bins[th[t].bin]
    BY <2>1 DEF Elements
  <2>3. DOMAIN bins[th[t].bin] = 1 .. Len(bins[th[t].bin]) /\ Len(bins[th[t].bin]) \in Nat
    BY <2>1, LenProperties
  <2>4. i + 1 \in DOMAIN bins[th[t].bin]
    BY <2>2, <2>3
  <2> QED
    BY <2>1, <2>4 DEF Elements
<1>2. /\ used' = used /\ queue' = queue /\ regions' = regions /\ myL' = myL
      /\ leftL' = [leftL EXCEPT ![End(e)] = e[2]] /\ UNCHANGED binned
  BY <1>x, <1>e DEF Skip, heap, words, counters, Goto, binned
<1>4. \A k \in Private : Keeps(k, t)' = Keeps(k, t)
  BY <1>1, <1>0 DEF Private, Keeps, When, Coalescing, Piece, InList, Right, Current, Carries
<1>6. Still(t)
  BY <1>2, <1>4 DEF Still, Queued
<1>9. LedgerOK'
  BY <1>0, <1>2, <1>6, <1>7, <1>e, SideWrite
<1>10. Ctl(t)'
  <2>1. BinCtl(t)'
    BY <1>0, <1>1 DEF Ctl, BinCtl, Scanning, Carries
  <2> QED
    BY <1>0, <1>1, <2>1, SearchCtl DEF Carries, Asking, Scanning
<1>11. BinsInv'
  <2>1. BinFacts(t)'
    BY <1>0, <1>1, <1>2, <1>n DEF BinFacts, Scanning, binned, Carries
  <2>2. BinFrame(t)
    BY <1>0, <1>1, <1>2, <2>1 DEF BinFrame, binned, BinsInv, BinTypes
  <2>5. \A k \in Private : \A d \in Keeps(k, t) : Listed(<<k, t>>, d) => Listed(<<k, t>>, d)'
    BY <1>0, <1>1, <1>2 DEF Private, Keeps, When, Coalescing, Piece, Listed, Registered,
       Sized, BinOf, Class, binned
  <2> QED
    BY <1>0, <1>6, <2>2, <2>5, BinsStill
<1>12. SideCtl(t)'
  BY <1>1 DEF SideCtl
<1> QED
  BY <1>9, <1>10, <1>11, <1>12
=============================================================================
