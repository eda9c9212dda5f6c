------------------------------- MODULE Ranking -------------------------------
(***************************************************************************)
(* Places in an order.  The models count an element's place in a list by   *)
(* the elements that come before it, as ORDER BY ... LIMIT ... OFFSET and  *)
(* list.sort do: the facts about such places that the proofs of several    *)
(* components need, and induction over the natural numbers in a form that  *)
(* takes a set in place of an operator.                                    *)
(***************************************************************************)
EXTENDS Integers, FiniteSets, FiniteSetTheorems, TLAPS

LEMMA CountTo == ASSUME NEW n \in Nat PROVE IsFiniteSet(1 .. n) /\ Cardinality(1 .. n) = n
  BY FS_Interval

LEMMA CountBelow ==
  ASSUME NEW n \in Nat
  PROVE  IsFiniteSet(0 .. n - 1) /\ Cardinality(0 .. n - 1) = n
<1>1. n - 1 \in Int /\ 0 \in Int
  OBVIOUS
<1>2. IsFiniteSet(0 .. n - 1) /\ Cardinality(0 .. n - 1) = IF 0 > n - 1 THEN 0 ELSE (n - 1) - 0 + 1
  BY <1>1, FS_Interval
<1> QED
  BY <1>2

\* R holds the pairs of S of which the first comes before the second.
StrictOrder(R, S) ==
    /\ \A a \in S : <<a, a>> \notin R
    /\ \A a, b, c \in S : <<a, b>> \in R /\ <<b, c>> \in R => <<a, c>> \in R
    /\ \A a, b \in S : a = b \/ <<a, b>> \in R \/ <<b, a>> \in R

Ahead(R, S, a) == {o \in S : <<o, a>> \in R}
RankOf(R, S, a) == Cardinality(Ahead(R, S, a))

\* What is before another comes at an earlier place.
LEMMA RankGrows ==
  ASSUME NEW S, IsFiniteSet(S), NEW R, StrictOrder(R, S),
         NEW a \in S, NEW b \in S, <<a, b>> \in R
  PROVE  RankOf(R, S, a) < RankOf(R, S, b)
<1>1. Ahead(R, S, a) \subseteq Ahead(R, S, b)
  BY DEF StrictOrder, Ahead
<1>2. a \in Ahead(R, S, b) /\ a \notin Ahead(R, S, a)
  BY DEF StrictOrder, Ahead
<1>3. IsFiniteSet(Ahead(R, S, b))
  BY FS_Subset DEF Ahead
<1>4. RankOf(R, S, a) <= RankOf(R, S, b) /\ RankOf(R, S, a) # RankOf(R, S, b)
  BY <1>1, <1>2, <1>3, FS_Subset DEF RankOf
<1>5. RankOf(R, S, a) \in Nat /\ RankOf(R, S, b) \in Nat
  BY <1>1, <1>3, FS_Subset, FS_CardinalityType DEF RankOf
<1> QED
  BY <1>4, <1>5

LEMMA RankInRange ==
  ASSUME NEW S, IsFiniteSet(S), NEW R, StrictOrder(R, S), NEW a \in S
  PROVE  RankOf(R, S, a) \in 0 .. Cardinality(S) - 1
<1>1. Ahead(R, S, a) \in SUBSET S /\ Ahead(R, S, a) # S
  BY DEF StrictOrder, Ahead
<1>2. /\ Cardinality(Ahead(R, S, a)) <= Cardinality(S)
      /\ Cardinality(Ahead(R, S, a)) # Cardinality(S)
      /\ IsFiniteSet(Ahead(R, S, a))
  BY <1>1, FS_Subset
<1>3. Cardinality(S) \in Nat /\ Cardinality(Ahead(R, S, a)) \in Nat
  BY <1>2, FS_CardinalityType
<1> QED
  BY <1>2, <1>3 DEF RankOf

LEMMA RankIsOne ==
  ASSUME NEW S, IsFiniteSet(S), NEW R, StrictOrder(R, S),
         NEW a \in S, NEW b \in S, RankOf(R, S, a) = RankOf(R, S, b)
  PROVE  a = b
<1>1. RankOf(R, S, a) \in Nat
  BY RankInRange, FS_CardinalityType
<1>2. <<a, b>> \notin R /\ <<b, a>> \notin R
  BY <1>1, RankGrows
<1> QED
  BY <1>2 DEF StrictOrder

\* Every place is taken.
LEMMA RankIsTaken ==
  ASSUME NEW S, IsFiniteSet(S), NEW R, StrictOrder(R, S),
         NEW r \in 0 .. Cardinality(S) - 1
  PROVE  \E a \in S : RankOf(R, S, a) = r
<1> DEFINE n == Cardinality(S)
           f == [a \in S |-> RankOf(R, S, a)]
<1>1. n \in Nat
  BY FS_CardinalityType
<1>2. f \in [S -> 0 .. n - 1]
  BY RankInRange
<1>3. f \in Injection(S, 0 .. n - 1)
  BY <1>2, RankIsOne DEF Injection, IsInjective
<1>4. IsFiniteSet(0 .. n - 1) /\ Cardinality(0 .. n - 1) = n
  BY <1>1, FS_Interval
<1>5. f \in Surjection(S, 0 .. n - 1)
  BY <1>3, <1>4, FS_Injection
<1> QED
  BY <1>5 DEF Surjection

\* The element at place i, counted from 1.
ElementAt(R, S, i) == CHOOSE a \in S : Cardinality({b \in S : <<b, a>> \in R}) = i - 1

LEMMA ElementAtItsRank ==
  ASSUME NEW S, IsFiniteSet(S), NEW R, StrictOrder(R, S), NEW i \in 1 .. Cardinality(S)
  PROVE  ElementAt(R, S, i) \in S /\ RankOf(R, S, ElementAt(R, S, i)) = i - 1
<1>1. \E a \in S : RankOf(R, S, a) = i - 1
  BY RankIsTaken, FS_CardinalityType
<1>2. \E a \in S : Cardinality({b \in S : <<b, a>> \in R}) = i - 1
  BY <1>1 DEF RankOf, Ahead
<1> QED
  BY <1>2 DEF ElementAt, RankOf, Ahead

\* Which of two places is earlier tells which element comes before.
LEMMA RankTells ==
  ASSUME NEW S, IsFiniteSet(S), NEW R, StrictOrder(R, S),
         NEW a \in S, NEW b \in S, RankOf(R, S, a) < RankOf(R, S, b)
  PROVE  <<a, b>> \in R
<1>1. RankOf(R, S, a) \in Nat /\ RankOf(R, S, b) \in Nat
  BY RankInRange, FS_CardinalityType
<1>2. a # b
  BY <1>1
<1>3. <<b, a>> \notin R
  BY <1>1, RankGrows
<1> QED
  BY <1>2, <1>3 DEF StrictOrder

\* A list in order has at place i an element that i - 1 others come before.
LEMMA SortedByRank ==
  ASSUME NEW S, IsFiniteSet(S), NEW R, StrictOrder(R, S),
         NEW s \in [1 .. Cardinality(S) -> S],
         \A i, j \in 1 .. Cardinality(S) : i < j => <<s[i], s[j]>> \in R
  PROVE  /\ \A i \in 1 .. Cardinality(S) : RankOf(R, S, s[i]) = i - 1
         /\ \A a \in S : \E i \in 1 .. Cardinality(S) : s[i] = a
<1> DEFINE n == Cardinality(S)
<1>1. n \in Nat /\ IsFiniteSet(1 .. n) /\ Cardinality(1 .. n) = n
  BY FS_CardinalityType, FS_Interval
<1>2. s \in Injection(1 .. n, S)
  <2>1. \A i, j \in 1 .. n : s[i] = s[j] => i = j
    <3> SUFFICES ASSUME NEW i \in 1 .. n, NEW j \in 1 .. n, i < j PROVE s[i] # s[j]
      BY <1>1
    <3> QED
      BY DEF StrictOrder
  <2> QED
    BY <2>1 DEF Injection, IsInjective
<1>3. s \in Surjection(1 .. n, S)
  BY <1>1, <1>2, FS_Injection
<1>4. \A a \in S : \E i \in 1 .. n : s[i] = a
  BY <1>3 DEF Surjection
<1>5. ASSUME NEW i \in 1 .. n PROVE RankOf(R, S, s[i]) = i - 1
  <2> DEFINE A == Ahead(R, S, s[i])
             t == [k \in 1 .. i - 1 |-> s[k]]
  <2>1. i \in Nat /\ i >= 1 /\ i <= n
    BY <1>1
  <2>2. \A k \in 1 .. i - 1 : k \in 1 .. n /\ s[k] \in A
    BY <1>1, <2>1 DEF Ahead
  <2>3. ASSUME NEW o \in A PROVE \E k \in 1 .. i - 1 : s[k] = o
    <3>1. o \in S /\ <<o, s[i]>> \in R
      BY DEF Ahead
    <3>2. PICK k \in 1 .. n : s[k] = o
      BY <3>1, <1>4
    <3>3. k # i
      BY <3>1, <3>2 DEF StrictOrder
    <3>4. ~(i < k)
      <4> SUFFICES ASSUME i < k PROVE FALSE
        OBVIOUS
      <4>1. <<s[i], s[k]>> \in R
        OBVIOUS
      <4> QED
        BY <4>1, <3>1, <3>2 DEF StrictOrder
    <3> QED
      BY <3>2, <3>3, <3>4, <1>1
  <2>4. t \in Bijection(1 .. i - 1, A)
    <3>1. t \in [1 .. i - 1 -> A]
      BY <2>2
    <3>2. \A j, k \in 1 .. i - 1 : t[j] = t[k] => j = k
      BY <1>2, <2>2 DEF Injection, IsInjective
    <3>3. \A o \in A : \E k \in 1 .. i - 1 : t[k] = o
      BY <2>3
    <3> QED
      BY <3>1, <3>2, <3>3 DEF Bijection, Injection, Surjection, IsInjective
  <2>5. i - 1 \in Nat /\ ExistsBijection(1 .. i - 1, A)
    BY <2>1, <2>4 DEF ExistsBijection
  <2> QED
    BY <2>5, FS_CountingElements DEF RankOf
<1> QED
  BY <1>4, <1>5

\* Induction: a set that holds 0, and n + 1 with n, holds every natural number.
LEMMA NatSetInduction ==
  ASSUME NEW P, 0 \in P, \A n \in Nat : n \in P => n + 1 \in P
  PROVE  Nat \subseteq P
<1> DEFINE T == Nat \ P
<1> SUFFICES ASSUME T # {} PROVE FALSE
  OBVIOUS
<1>1. IsWellFoundedOn(OpToRel(<, Nat), Nat)
  BY NatLessThanWellFounded
<1>2. PICK x \in T : \A y \in T : <<y, x>> \notin OpToRel(<, Nat)
  BY <1>1, WFMin
<1>3. \A y \in T : ~(y < x)
  BY <1>2 DEF OpToRel
<1>4. x # 0 /\ x - 1 \in Nat
  OBVIOUS
<1>5. x - 1 \in T
  BY <1>4
<1> QED
  BY <1>3, <1>5
=============================================================================
