---------------------------- MODULE FiniteOrders ----------------------------
(***************************************************************************)
(* Facts about sets of naturals that the other proofs rest on.  Induction  *)
(* is by a least counterexample.                                           *)
(***************************************************************************)
EXTENDS Integers, FiniteSets, FunctionTheorems, FiniteSetTheorems, WellFoundedInduction, TLAPS

LEMMA LeastElement ==
  ASSUME NEW T \in SUBSET Nat, T # {}
  PROVE  \E x \in T : \A y \in T : x <= y
<1> DEFINE R == OpToRel(<, Nat)
<1>1. IsWellFoundedOn(R, Nat)
  BY NatLessThanWellFounded
<1>2. \A a, b \in Nat : a < b => <<a, b>> \in R
  BY DEF OpToRel
<1> HIDE DEF R
<1>3. PICK x \in T : \A y \in T : ~(<<y, x>> \in R)
  BY <1>1, WFMin
<1>4. \A y \in T : ~(y < x)
  BY <1>2, <1>3
<1> QED  BY <1>4

\* To show that all naturals have a property is to show that the set of those
\* that have it not, which may be taken to have a least element, is empty.
LEMMA LeastCounterexample ==
  ASSUME NEW Bad \in SUBSET Nat,
         \A n \in Bad : \E m \in Bad : m < n
  PROVE  Bad = {}
BY LeastElement

Peak(S) == \E x \in S : \A y \in S : x >= y

\* Taking an element from a finite set makes it smaller.
LEMMA OneLess ==
  ASSUME NEW U, IsFiniteSet(U), NEW x \in U
  PROVE  /\ IsFiniteSet(U \ {x})
         /\ Cardinality(U) \in Nat \ {0}
         /\ Cardinality(U \ {x}) = Cardinality(U) - 1
<1>1. Cardinality(U) \in Nat /\ Cardinality(U) # 0
  BY FS_CardinalityType, FS_EmptySet
<1> QED  BY <1>1, FS_RemoveElement

LEMMA GreatestElement ==
  ASSUME NEW S \in SUBSET Nat, IsFiniteSet(S), S # {}
  PROVE  Peak(S)
<1> DEFINE Bad == {n \in Nat : \E U \in SUBSET Nat : /\ IsFiniteSet(U) /\ U # {} /\ Cardinality(U) = n
                                                     /\ ~Peak(U)}
<1>1. ASSUME NEW n \in Bad
      PROVE  \E m \in Bad : m < n
  <2>1. PICK U \in SUBSET Nat : IsFiniteSet(U) /\ U # {} /\ Cardinality(U) = n /\ ~Peak(U)
    OBVIOUS
  <2>2. PICK x \in U : TRUE
    BY <2>1
  <2> DEFINE V == U \ {x}
  <2>3. IsFiniteSet(V) /\ Cardinality(V) = n - 1 /\ n - 1 \in Nat
    BY <2>1, <2>2, OneLess
  <2>4. V # {}
    BY <2>1, <2>2 DEF Peak
  <2>5. ~Peak(V)
    <3> SUFFICES ASSUME Peak(V) PROVE Peak(U)  BY <2>1
    <3>1. PICK y \in V : \A z \in V : y >= z
      BY DEF Peak
    <3> QED  BY <3>1 DEF Peak
  <2>6. n - 1 \in Bad
    BY <2>3, <2>4, <2>5
  <2> QED  BY <2>3, <2>6
<1>2. Bad = {}
  <2> HIDE DEF Bad
  <2>1. Bad \in SUBSET Nat  BY DEF Bad
  <2> QED  BY <1>1, <2>1, LeastCounterexample
<1> QED  BY <1>2, FS_CardinalityType

\* (s) counts the elements of (S) upwards.
Counts(s, S) == /\ s \in [1..Cardinality(S) -> S]
                /\ \A i, j \in 1..Cardinality(S) : i < j => s[i] < s[j]

\* A finite set of naturals can be put in order.
LEMMA CountingExists ==
  ASSUME NEW S \in SUBSET Nat, IsFiniteSet(S)
  PROVE  \E s : Counts(s, S)
<1> DEFINE Bad == {n \in Nat : \E U \in SUBSET Nat : /\ IsFiniteSet(U) /\ Cardinality(U) = n
                                                     /\ ~\E s : Counts(s, U)}
<1>1. ASSUME NEW n \in Bad
      PROVE  \E m \in Bad : m < n
  <2>1. PICK U \in SUBSET Nat : IsFiniteSet(U) /\ Cardinality(U) = n /\ ~\E s : Counts(s, U)
    OBVIOUS
  <2>2. U # {}
    <3> SUFFICES ASSUME U = {} PROVE \E s : Counts(s, U)  BY <2>1
    <3>1. Cardinality(U) = 0  BY FS_EmptySet
    <3>2. Counts([i \in 1..0 |-> 0], U)  BY <3>1 DEF Counts
    <3> QED  BY <3>2
  <2>3. PICK x \in U : \A y \in U : x >= y
    BY <2>1, <2>2, GreatestElement DEF Peak
  <2> DEFINE V == U \ {x}
  <2>4. IsFiniteSet(V) /\ Cardinality(V) = n - 1 /\ n - 1 \in Nat
    BY <2>1, <2>3, OneLess
  <2>5. ASSUME NEW s, Counts(s, V)
        PROVE  FALSE
    <3> DEFINE t == [i \in 1..n |-> IF i = n THEN x ELSE s[i]]
    <3>1. \A i \in 1..(n - 1) : s[i] \in V
      BY <2>4, <2>5 DEF Counts
    <3>2. \A i, j \in 1..(n - 1) : i < j => s[i] < s[j]
      BY <2>4, <2>5 DEF Counts
    <3>3. t \in [1..n -> U]
      BY <2>4, <3>1
    <3>4. \A i, j \in 1..n : i < j => t[i] < t[j]
      <4> TAKE i, j \in 1..n
      <4> HAVE i < j
      <4>1. i \in 1..(n - 1) /\ t[i] = s[i] /\ s[i] \in V  BY <2>4, <3>1
      <4>2. CASE j = n
        <5>1. s[i] \in Nat /\ x \in Nat /\ s[i] # x /\ x >= s[i]  BY <2>3, <4>1
        <5> QED  BY <4>1, <4>2, <5>1
      <4>3. CASE j # n
        BY <2>4, <3>2, <4>1, <4>3
      <4> QED  BY <4>2, <4>3
    <3>5. Counts(t, U)
      <4> HIDE DEF t
      <4> QED  BY <2>1, <3>3, <3>4 DEF Counts
    <3> QED  BY <2>1, <3>5
  <2>6. n - 1 \in Bad
    BY <2>4, <2>5
  <2> QED  BY <2>4, <2>6
<1>2. Bad = {}
  <2> HIDE DEF Bad
  <2>1. Bad \in SUBSET Nat  BY DEF Bad
  <2> QED  BY <1>1, <2>1, LeastCounterexample
<1> QED  BY <1>2, FS_CardinalityType

\* An ordered count leaves none out, and the greatest element comes last.
LEMMA CountingLast ==
  ASSUME NEW S \in SUBSET Nat, IsFiniteSet(S), NEW s, Counts(s, S),
         NEW x \in S, \A y \in S : x >= y
  PROVE  /\ Cardinality(S) \in Nat \ {0}
         /\ s[Cardinality(S)] = x
         /\ \A i \in 1..(Cardinality(S) - 1) : s[i] \in S /\ s[i] < x
<1> DEFINE n == Cardinality(S)
<1>1. n \in Nat /\ n # 0
  BY FS_CardinalityType, FS_EmptySet
<1>2. s \in [1..n -> S] /\ \A i, j \in 1..n : i < j => s[i] < s[j]
  BY DEF Counts
<1> HIDE DEF n
<1>3. \A i, j \in 1..n : s[i] = s[j] => i = j
  <2> TAKE i, j \in 1..n
  <2> HAVE s[i] = s[j]
  <2>1. s[i] \in Nat /\ s[j] \in Nat  BY <1>2
  <2>2. i < j \/ j < i \/ i = j  BY <1>1
  <2> QED  BY <1>2, <2>1, <2>2
<1>4. s \in Injection(1..n, S)
  BY <1>2, <1>3 DEF Injection, IsInjective
<1>5. IsFiniteSet(1..n) /\ Cardinality(1..n) = n
  BY <1>1, FS_Interval
<1>6. s \in Surjection(1..n, S)
  BY <1>4, <1>5, FS_Injection DEF n
<1>7. PICK k \in 1..n : s[k] = x
  BY <1>6 DEF Surjection
<1>8. k = n
  <2> SUFFICES ASSUME k < n PROVE FALSE  BY <1>1
  <2>1. n \in 1..n  BY <1>1
  <2>2. s[k] < s[n] /\ s[n] \in S  BY <1>2, <2>1
  <2>3. s[n] \in Nat /\ x \in Nat /\ x >= s[n]  BY <2>2
  <2> QED  BY <1>7, <2>2, <2>3
<1>9. ASSUME NEW i \in 1..(n - 1)
      PROVE  s[i] \in S /\ s[i] < x
  <2>1. i \in 1..n /\ n \in 1..n /\ i < n  BY <1>1
  <2> QED  BY <1>2, <1>7, <1>8, <2>1
<1> QED  BY <1>1, <1>7, <1>8, <1>9 DEF n

=============================================================================
