---------------------------- MODULE NumberLemmas ----------------------------
(* Division with remainder, for the proofs about rounding, and least        *)
(* numbers, for proofs by a least counterexample.                           *)
EXTENDS Integers, WellFoundedInduction, TLAPS

(* A set of natural numbers has a least element: where induction is needed, *)
(* the least number that violates the claim is led to a contradiction.      *)
LEMMA LeastNumber ==
    ASSUME NEW S \in SUBSET Nat, S # {}
    PROVE  \E n \in S : \A m \in S : n <= m
<1> DEFINE Less == {ss \in Nat \X Nat : ss[1] < ss[2]}
<1>1. OpToRel(<, Nat) = Less
  BY DEF OpToRel
<1>2. IsWellFoundedOn(Less, Nat)
  BY <1>1, NatLessThanWellFounded
<1>3. PICK n \in S : \A m \in S : <<m, n>> \notin Less
  BY <1>2, WFMin
<1>4. ASSUME NEW m \in S PROVE n <= m
  <2>1. n \in Nat /\ m \in Nat /\ <<m, n>> \notin Less
    BY <1>3
  <2>2. ~(m < n)
    BY <2>1
  <2> QED
    BY <2>1, <2>2
<1> QED
  BY <1>4

(* What \div and % return.                                                  *)
LEMMA DivMod ==
    ASSUME NEW n \in Int, NEW d \in Nat \ {0}
    PROVE  /\ n \div d \in Int /\ n % d \in 0 .. d - 1
           /\ n = d * (n \div d) + (n % d)
OBVIOUS

Splits(n, d, q, l) == d \in Nat \ {0} /\ q \in Int /\ l \in 0 .. d - 1 /\ n = d * q + l

(* Quotient and remainder are the only numbers that split n.                *)
LEMMA DivUnique ==
    ASSUME NEW n, NEW d, NEW q, NEW l, Splits(n, d, q, l)
    PROVE  n \div d = q /\ n % d = l
<1>0. d \in Nat \ {0} /\ q \in Int /\ l \in 0 .. d - 1 /\ n = d * q + l /\ n \in Int
  BY DEF Splits
<1>1. n \div d \in Int /\ n % d \in 0 .. d - 1 /\ n = d * (n \div d) + (n % d)
  BY <1>0, DivMod
<1> DEFINE e == (n \div d) - q
<1>2. d * e = l - (n % d)
  BY <1>0, <1>1, Z3
<1>3. -d < l - (n % d) /\ l - (n % d) < d
  BY <1>0, <1>1
<1>4. e = 0
  <2>1. CASE e >= 1
    <3>1. d * e >= d
      BY <1>0, <1>1, <2>1, Z3
    <3> QED
      BY <1>0, <1>1, <1>2, <1>3, <3>1
  <2>2. CASE e <= -1
    <3>1. d * e <= -d
      BY <1>0, <1>1, <2>2, Z3
    <3> QED
      BY <1>0, <1>1, <1>2, <1>3, <3>1
  <2> QED
    BY <1>0, <1>1, <2>1, <2>2
<1> QED
  BY <1>0, <1>1, <1>4
=============================================================================
