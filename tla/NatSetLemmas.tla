---------------------------- MODULE NatSetLemmas ----------------------------
(***************************************************************************)
(* Least and greatest elements of sets of naturals. The proofs about the   *)
(* diag command's loops use them for induction by least counterexample:    *)
(* the loops of Diag.cpp are modelled as recursive functions over 0 .. n,  *)
(* and a claim about every index follows when the set of indices that      *)
(* violate it can have no least element.                                   *)
(***************************************************************************)
EXTENDS Naturals, WellFoundedInduction, TLAPS

(* A non-empty set of naturals has a least element (the natural numbers    *)
(* are well-founded). It gives the positions find("***") and the leading   *)
(* trim loop stop at.                                                      *)
LEMMA NatSetHasMin ==
    ASSUME NEW S \in SUBSET Nat, S # {}
    PROVE  \E m \in S : \A q \in S : m <= q
<1>1. PICK x \in S : \A y \in S : ~(<<y, x>> \in OpToRel(<, Nat))
  BY NatLessThanWellFounded, WFMin
<1>2. \A y \in S : ~(y < x)
  BY <1>1, Zenon DEF OpToRel
<1>3. QED
  BY <1>2

(* A non-empty set of naturals below n has a greatest element: where the   *)
(* trailing trim loop stops.                                                *)
LEMMA NatSetHasMax ==
    ASSUME NEW n \in Nat, NEW S \in SUBSET (0 .. n), S # {}
    PROVE  \E m \in S : \A q \in S : q <= m
<1> DEFINE T == {n - i : i \in S}
<1>1. \A i \in S : n - i \in Nat
  OBVIOUS
<1>2. T \in SUBSET Nat
  BY <1>1
<1>3. T # {}
  OBVIOUS
<1>4. PICK t \in T : \A q \in T : t <= q
  BY <1>2, <1>3, NatSetHasMin
<1>5. PICK m \in S : t = n - m
  OBVIOUS
<1>6. \A q \in S : n - m <= n - q
  BY <1>4, <1>5
<1>7. QED
  BY <1>6

=============================================================================
