------------------------------- MODULE NatFacts -------------------------------
(***************************************************************************)
(* Least and greatest elements of sets of natural numbers, for look-ups    *)
(* that stop at their first or last hit, and induction up to a number, for *)
(* what is computed step by step.                                          *)
(***************************************************************************)
EXTENDS Integers, FiniteSetTheorems, WellFoundedInduction, TLAPS

(* Every inhabited set of naturals has a least element: of the intervals    *)
(* 0..i that end in the set, one is minimal for strict inclusion.           *)
LEMMA LeastExists ==
  ASSUME NEW T \in SUBSET Nat, T # {}
  PROVE  \E i \in T : \A j \in T : i <= j
<1> DEFINE Intervals == {0..i : i \in T}
<1>1. IsWellFoundedOn(StrictSubsetOrdering(Nat), FiniteSubsetsOf(Nat))
  BY FS_StrictSubsetOrderingWellFounded
<1>2. ASSUME NEW i \in T PROVE 0..i \in FiniteSubsetsOf(Nat)
  <2>1. IsFiniteSet(0..i)
    BY FS_Interval
  <2> QED BY <2>1 DEF FiniteSubsetsOf
<1>3. Intervals \subseteq FiniteSubsetsOf(Nat) /\ Intervals # {}
  BY <1>2
<1>4. PICK x \in Intervals : \A y \in Intervals : <<y, x>> \notin StrictSubsetOrdering(Nat)
  <2> HIDE DEF Intervals
  <2> QED BY <1>1, <1>3, WFMin
<1>5. PICK i \in T : x = 0..i
  BY <1>4
<1>6. ASSUME NEW j \in T, j < i PROVE FALSE
  <2>1. 0..j \in Intervals
    OBVIOUS
  <2>2. 0..j \subseteq 0..i /\ 0..j # 0..i
    <3>1. i \in 0..i /\ i \notin 0..j
      BY <1>6
    <3> QED BY <3>1, <1>6
  <2>3. <<0..j, x>> \in StrictSubsetOrdering(Nat)
    <3>1. 0..j \in SUBSET Nat /\ x \in SUBSET Nat
      BY <1>5
    <3> DEFINE J == 0..j
    <3>2. J \in SUBSET Nat /\ J \subseteq x /\ J # x
      BY <1>5, <2>2, <3>1
    <3> HIDE DEF J
    <3>3. <<J, x>> \in StrictSubsetOrdering(Nat)
      BY <3>1, <3>2 DEF StrictSubsetOrdering
    <3> QED BY <3>3 DEF J
  <2> QED BY <1>4, <2>1, <2>3
<1>7. ASSUME NEW j \in T PROVE i <= j
  BY <1>6
<1> QED BY <1>5, <1>7

(* One that is bounded has a greatest element: the least distance from the  *)
(* bound.                                                                   *)
LEMMA GreatestExists ==
  ASSUME NEW n \in Nat, NEW T \in SUBSET (0..n), T # {}
  PROVE  \E i \in T : \A j \in T : j <= i
<1> DEFINE D == {n - i : i \in T}
<1>1. ASSUME NEW i \in T PROVE n - i \in Nat
  <2>1. i \in 0..n
    OBVIOUS
  <2> QED BY <2>1
<1>2. D \in SUBSET Nat /\ D # {}
  BY <1>1
<1>3. PICK d \in D : \A e \in D : d <= e
  <2> HIDE DEF D
  <2> QED BY <1>2, LeastExists
<1>4. PICK i \in T : d = n - i
  BY <1>3
<1>5. ASSUME NEW j \in T PROVE j <= i
  <2>1. d <= n - j
    BY <1>3
  <2>2. i \in 0..n /\ j \in 0..n
    OBVIOUS
  <2> QED BY <1>4, <2>1, <2>2
<1> QED BY <1>5

(* Induction up to a bound, for a set of naturals: without a least one      *)
(* missing, none is.                                                        *)
LEMMA AllUpTo ==
  ASSUME NEW n \in Nat, NEW S, 0 \in S, \A i \in 1..n : i-1 \in S => i \in S
  PROVE  0..n \subseteq S
<1> DEFINE Missing == (0..n) \ S
<1>1. ASSUME NEW i \in Missing, \A j \in Missing : i <= j PROVE FALSE
  <2>1. i \in 1..n /\ i-1 \in 0..n /\ i-1 < i
    BY <1>1
  <2>2. i-1 \in S
    BY <1>1, <2>1
  <2> QED BY <1>1, <2>1, <2>2
<1>2. Missing = {}
  <2>1. Missing \in SUBSET Nat
    OBVIOUS
  <2> HIDE DEF Missing
  <2> QED BY <1>1, <2>1, LeastExists
<1> QED BY <1>2
=============================================================================
