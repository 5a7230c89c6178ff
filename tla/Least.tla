------------------------------- MODULE Least -------------------------------
(***************************************************************************)
(* Min, a CHOOSE of the community modules, finds what it is to find: least *)
(* elements of sets of naturals exist.                                     *)
(***************************************************************************)
EXTENDS Integers, FiniteSetsExt, FiniteSetTheorems, WellFoundedInduction, TLAPS

\* Every nonempty set of natural numbers has a least element (Min is a
\* CHOOSE, so this is what makes it mean anything).
LEMMA MinOfNats ==
  ASSUME NEW S \in SUBSET Nat, S # {}
  PROVE  Min(S) \in S /\ \A y \in S : Min(S) <= y
  <1> DEFINE upTo == {0 .. n : n \in S}
             R == StrictSubsetOrdering(Nat)
  <1>1. IsWellFoundedOn(R, FiniteSubsetsOf(Nat))
    BY FS_StrictSubsetOrderingWellFounded
  <1>2. upTo \subseteq FiniteSubsetsOf(Nat)
    <2>1. \A n \in S : 0 .. n \in SUBSET Nat /\ IsFiniteSet(0 .. n)
      BY FS_Interval
    <2>2. QED
      BY <2>1 DEF FiniteSubsetsOf
  <1>3. upTo # {}
    OBVIOUS
  <1>4. \E U \in upTo : \A T \in upTo : ~(<<T, U>> \in R)
    <2> HIDE DEF R, upTo
    <2> QED
      BY <1>1, <1>2, <1>3, WFMin
  <1>5. PICK x \in S : \A y \in S : ~(<<0 .. y, 0 .. x>> \in R)
    BY <1>4
  <1>6. \A y \in S : x <= y
    <2> SUFFICES ASSUME NEW y \in S, y < x
                 PROVE  FALSE
      OBVIOUS
    <2>1. 0 .. y \subseteq 0 .. x /\ x \in 0 .. x /\ x \notin 0 .. y
      OBVIOUS
    <2>2. 0 .. y \in SUBSET Nat /\ 0 .. x \in SUBSET Nat
      OBVIOUS
    <2>3. <<0 .. y, 0 .. x>> \in R
      BY <2>1, <2>2 DEF StrictSubsetOrdering
    <2>4. QED
      BY <1>5, <2>3
  <1>7. QED
    BY <1>6 DEF Min
=============================================================================
