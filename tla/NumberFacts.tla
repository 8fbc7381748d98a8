---------------------------- MODULE NumberFacts ----------------------------
(***************************************************************************)
(* Facts about sets of natural numbers that several proofs need.           *)
(***************************************************************************)
EXTENDS Integers, FiniteSets, FiniteSetTheorems, TLAPS

(* Every nonempty set of numbers has a least one: the intervals up to its      *)
(* elements are finite sets, and inclusion is well-founded on those.           *)
LEMMA LeastNatural ==
  ASSUME NEW A \in SUBSET Nat, A # {}
  PROVE  \E m \in A : \A n \in A : m <= n
<1> DEFINE T == {0 .. n : n \in A}
           R == StrictSubsetOrdering(Nat)
           F == FiniteSubsetsOf(Nat)
<1>1. T \subseteq F /\ T # {}
  <2>1. \A n \in A : IsFiniteSet(0 .. n) /\ 0 .. n \in SUBSET Nat
    BY FS_Interval
  <2> QED
    BY <2>1 DEF FiniteSubsetsOf
<1>2. IsWellFoundedOn(R, F)
  BY FS_StrictSubsetOrderingWellFounded
<1>3. PICK x \in T : \A y \in T : <<y, x>> \notin R
  <2> HIDE DEF R, F, T
  <2> QED
    BY <1>1, <1>2, WFMin
<1>4. PICK m \in A : x = 0 .. m
  OBVIOUS
<1>5. ASSUME NEW n \in A, ~(m <= n) PROVE FALSE
  <2>1. n \in Nat /\ m \in Nat /\ n < m
    BY <1>5
  <2>2. 0 .. n \subseteq 0 .. m /\ m \in 0 .. m /\ m \notin 0 .. n
    BY <2>1
  <2>3. 0 .. n \in SUBSET Nat /\ 0 .. m \in SUBSET Nat
    BY <2>1
  <2>4. <<0 .. n, 0 .. m>> \in R
    BY <2>2, <2>3 DEF StrictSubsetOrdering
  <2> QED
    BY <2>4, <1>3, <1>4
<1> QED
  BY <1>5

(* A set of numbers with k elements or more has a k-th one.                    *)
LEMMA NthElement ==
  ASSUME NEW S \in SUBSET Nat, NEW n \in Nat, \A s \in S : s <= n,
         NEW k \in Nat \ {0}, Cardinality(S) >= k
  PROVE  \E i \in S : Cardinality({j \in S : j <= i}) = k
<1> DEFINE Upto(i) == {j \in S : j <= i}
           A == {i \in Nat : Cardinality(Upto(i)) >= k}
<1>1. \A i \in Nat : IsFiniteSet(Upto(i)) /\ Cardinality(Upto(i)) \in Nat
  <2>1. ASSUME NEW i \in Nat PROVE IsFiniteSet(Upto(i))
    <3>1. Upto(i) \in SUBSET Nat /\ \A s \in Upto(i) : s <= i
      OBVIOUS
    <3> HIDE DEF Upto
    <3> QED
      BY <3>1, FS_BoundedSetOfNaturals
  <2> HIDE DEF Upto
  <2> QED
    BY <2>1, FS_CardinalityType
<1>2. n \in A
  <2>1. Upto(n) = S
    OBVIOUS
  <2> QED
    BY <2>1
<1>3. PICK m \in A : \A i \in A : m <= i
  <2> HIDE DEF A
  <2>1. A \in SUBSET Nat
    BY DEF A
  <2> QED
    BY <1>2, <2>1, LeastNatural
<1>4. m \in Nat /\ Cardinality(Upto(m)) >= k
  OBVIOUS
<1>5. CASE m = 0
  <2>1. \A j \in S : j <= 0 => j = 0
    OBVIOUS
  <2>2. Cardinality({0}) = 1 /\ IsFiniteSet({0})
    BY FS_EmptySet, FS_AddElement
  <2>3. Upto(m) \in SUBSET {0}
    BY <1>5, <2>1
  <2> HIDE DEF Upto
  <2>4. Cardinality(Upto(m)) <= 1 /\ (Cardinality(Upto(m)) = 1 => Upto(m) = {0})
    BY <2>2, <2>3, FS_Subset
  <2>5. Cardinality(Upto(m)) = k /\ Upto(m) = {0}
    BY <1>1, <1>4, <2>4
  <2>6. 0 \in S
    BY <2>5 DEF Upto
  <2> QED
    BY <1>5, <2>5, <2>6 DEF Upto
<1>6. CASE m # 0
  <2>1. m - 1 \in Nat /\ m - 1 \notin A
    <3> HIDE DEF A
    <3> QED
      BY <1>3, <1>4, <1>6
  <2>2. Cardinality(Upto(m - 1)) < k
    <3>1. ~(Cardinality(Upto(m - 1)) >= k) /\ Cardinality(Upto(m - 1)) \in Nat
      <4> HIDE DEF Upto
      <4> QED
        BY <1>1, <2>1
    <3> HIDE DEF Upto
    <3> QED
      BY <3>1
  <2>3. Upto(m) = IF m \in S THEN Upto(m - 1) \cup {m} ELSE Upto(m - 1)
    <3>1. \A j \in S : j <= m <=> j <= m - 1 \/ j = m
      BY <1>4, <2>1
    <3> QED
      BY <3>1, <1>4, <2>1
  <2>4. m \notin Upto(m - 1)
    BY <1>4
  <2> HIDE DEF Upto, A
  <2>5. m \in S
    BY <1>4, <2>2, <2>3, <1>1, <2>1
  <2>6. Cardinality(Upto(m)) = Cardinality(Upto(m - 1)) + 1
    BY <1>1, <2>1, <2>3, <2>4, <2>5, FS_AddElement
  <2>7. Cardinality(Upto(m)) = k
    BY <1>1, <1>4, <2>1, <2>2, <2>6
  <2> QED
    BY <2>5, <2>7 DEF Upto
<1> QED
  BY <1>5, <1>6
=============================================================================
