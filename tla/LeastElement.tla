---------------------------- MODULE LeastElement ----------------------------
(***************************************************************************)
(* The least element of a non-empty set of naturals.  Both Windows models *)
(* pick "the first line that matches" as the least matching position      *)
(* (CHOOSE i \in I : \A j \in I : i <= j); their proofs need that such an *)
(* i exists.  It follows from the well-foundedness of < on Nat, which the *)
(* library proves, and needs no induction of our own.                     *)
(***************************************************************************)
EXTENDS Naturals, WellFoundedInduction, TLAPS

\* < on Nat as a set of pairs.
LessOnNat == {ss \in Nat \X Nat : ss[1] < ss[2]}

LEMMA LessOnNatWellFounded == IsWellFoundedOn(LessOnNat, Nat)
<1>1. LessOnNat = OpToRel(<, Nat)
  BY Zenon DEF OpToRel, LessOnNat
<1>2. QED BY <1>1, NatLessThanWellFounded

\* Every non-empty set of naturals has a least element.
LEMMA LeastExists ==
    ASSUME NEW T \in SUBSET Nat, T # {}
    PROVE  \E m \in T : \A k \in T : m <= k
<1>1. PICK m \in T : \A k \in T : ~(<<k, m>> \in LessOnNat)
  BY LessOnNatWellFounded, WFMin
<1>2. ASSUME NEW k \in T PROVE m <= k
  <2>1. k < m => <<k, m>> \in LessOnNat
    BY DEF LessOnNat
  <2>2. QED BY <1>1, <2>1
<1>3. QED BY <1>2

\* The least element CHOOSE picks is in the set and below all of it.
LEMMA LeastChosen ==
    ASSUME NEW T \in SUBSET Nat, T # {}
    PROVE  /\ (CHOOSE i \in T : \A j \in T : i <= j) \in T
           /\ \A j \in T : (CHOOSE i \in T : \A k \in T : i <= k) <= j
BY LeastExists
=============================================================================
