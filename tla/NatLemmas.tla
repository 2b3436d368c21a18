----------------------------- MODULE NatLemmas ------------------------------
(***************************************************************************)
(* Induction over the naturals, and the maximum of a bounded set of        *)
(* naturals, in a form that quantifies over sets.  Both follow from the    *)
(* well-foundedness of strict inclusion on finite sets.                    *)
(***************************************************************************)
EXTENDS Integers, FiniteSets, FiniteSetTheorems, WellFoundedInduction, TLAPS

(* A set of naturals that contains 0 and every successor is Nat.           *)
THEOREM NatSetInduction ==
  ASSUME NEW S \in SUBSET Nat,
         0 \in S,
         \A n \in Nat : n \in S => n + 1 \in S
  PROVE  S = Nat
<1> SUFFICES ASSUME NEW n \in Nat, n \notin S
             PROVE  FALSE
  OBVIOUS
<1> DEFINE Out == {k \in 0 .. n : k \notin S}
           T == {0 .. k : k \in Out}
           U == 0 .. n
<1>1. IsFiniteSet(U)
  BY FS_Interval
<1>2. FiniteSubsetsOf(U) = SUBSET U
  BY <1>1, FS_FiniteSubsetsOfFinite
<1>3. IsWellFoundedOn(StrictSubsetOrdering(U), SUBSET U)
  BY <1>2, FS_StrictSubsetOrderingWellFounded
<1>4. T \subseteq SUBSET U
  OBVIOUS
<1>5. 0 .. n \in T
  OBVIOUS
<1>6. PICK x \in T : \A y \in T : ~ (<<y, x>> \in StrictSubsetOrdering(U))
  <2> HIDE DEF T, U
  <2> QED BY <1>3, <1>4, <1>5, WFMin
<1>7. PICK k \in Out : x = 0 .. k
  OBVIOUS
<1>8. k \in Nat /\ k # 0 /\ k - 1 \in Nat
  OBVIOUS
<1>9. k - 1 \notin S
  <2> SUFFICES ASSUME k - 1 \in S PROVE FALSE
    OBVIOUS
  <2>1. (k - 1) + 1 \in S
    BY <1>8
  <2> QED BY <2>1, <1>8
<1>10. k - 1 \in Out
  BY <1>8, <1>9
<1>11. 0 .. (k - 1) \in T
  BY <1>10
<1>12. /\ 0 .. (k - 1) \subseteq x
       /\ 0 .. (k - 1) # x
       /\ 0 .. (k - 1) \in SUBSET U
       /\ x \in SUBSET U
  <2>1. k \in x /\ k \notin 0 .. (k - 1)
    BY <1>7, <1>8
  <2> QED BY <2>1, <1>4, <1>7, <1>8, <1>11
<1>13. <<0 .. (k - 1), x>> \in StrictSubsetOrdering(U)
  BY <1>12 DEF StrictSubsetOrdering
<1> QED BY <1>6, <1>11, <1>13

(* A non-empty set of naturals below a bound has a largest element.        *)
THEOREM MaximumExists ==
  ASSUME NEW n \in Nat, NEW S \in SUBSET (0 .. n), S # {}
  PROVE  \E k \in S : \A l \in S : l <= k
<1> SUFFICES ASSUME \A k \in S : \E l \in S : l > k
             PROVE  FALSE
  OBVIOUS
<1> DEFINE P == {i \in Nat : \E k \in S : k >= i}
<1>1. 0 \in P
  <2>1. PICK k \in S : TRUE
    OBVIOUS
  <2>2. k \in Nat /\ k >= 0
    OBVIOUS
  <2> QED BY <2>2
<1>2. ASSUME NEW i \in Nat, i \in P
      PROVE  i + 1 \in P
  <2>1. PICK k \in S : k >= i
    BY <1>2
  <2>2. PICK l \in S : l > k
    OBVIOUS
  <2> QED BY <2>1, <2>2
<1>3. P = Nat
  <2> HIDE DEF P
  <2>1. P \in SUBSET Nat
    BY DEF P
  <2> QED BY <1>1, <1>2, <2>1, NatSetInduction
<1>4. n + 1 \in P
  <2> HIDE DEF P
  <2> QED BY <1>3
<1> QED BY <1>4

(* A non-empty set of naturals has a smallest element.                     *)
THEOREM MinimumExists ==
  ASSUME NEW S \in SUBSET Nat, S # {}
  PROVE  \E k \in S : \A l \in S : k <= l
<1> SUFFICES ASSUME \A k \in S : \E l \in S : l < k
             PROVE  FALSE
  OBVIOUS
<1> DEFINE P == {i \in Nat : \A k \in S : i <= k}
<1>1. 0 \in P
  OBVIOUS
<1>2. ASSUME NEW i \in Nat, i \in P
      PROVE  i + 1 \in P
  <2> SUFFICES ASSUME NEW k \in S PROVE i + 1 <= k
    OBVIOUS
  <2>1. i <= k
    BY <1>2
  <2>2. k # i
    <3>1. PICK l \in S : l < k
      OBVIOUS
    <3>2. i <= l
      BY <1>2
    <3> QED BY <3>1, <3>2
  <2> QED BY <2>1, <2>2
<1>3. P = Nat
  <2>1. P \in SUBSET Nat
    OBVIOUS
  <2> HIDE DEF P
  <2> QED BY <1>1, <1>2, <2>1, NatSetInduction
<1>4. PICK k \in S : TRUE
  OBVIOUS
<1>5. k + 1 \in P
  <2> HIDE DEF P
  <2> QED BY <1>3
<1> QED BY <1>5
=============================================================================
