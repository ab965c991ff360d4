----------------------------- MODULE NumberSets -----------------------------
(***************************************************************************)
(* Facts about natural numbers and sets of them that the proofs need: an   *)
(* address is a row and a column in one way only, a search in the order of *)
(* a table finds a first entry, numbers given out in that order are        *)
(* different, and different numbers below a bound are no more than it.     *)
(***************************************************************************)
EXTENDS Integers, FiniteSets, FiniteSetTheorems, WellFoundedInduction, TLAPS

\* A product grows with its factor.
LEMMA Monotone ==
  ASSUME NEW x \in Int, NEW y \in Int, NEW m \in Nat, x <= y
  PROVE  x * m <= y * m
<1>1. y * m - x * m = (y - x) * m
  OBVIOUS
<1>2. y - x \in Nat
  OBVIOUS
<1>3. (y - x) * m \in Nat
  BY <1>2
<1>4. x * m \in Int /\ y * m \in Int
  OBVIOUS
<1>5. QED
  BY <1>1, <1>3, <1>4

\* A quotient and a remainder determine each other.
LEMMA Division ==
  ASSUME NEW m \in Nat, m > 0, NEW q \in Int, NEW c \in 0 .. m - 1
  PROVE  (q * m + c) \div m = q /\ (q * m + c) % m = c
<1>1. PICK x \in Int : x = q * m + c
  OBVIOUS
<1>2. PICK p \in Int, d \in 0 .. m - 1 : x = p * m + d /\ p = x \div m /\ d = x % m
  OBVIOUS
<1>3. ~(p + 1 <= q)
  <2>1. SUFFICES ASSUME p + 1 <= q PROVE FALSE
    OBVIOUS
  <2>2. (p + 1) * m <= q * m
    BY <2>1, Monotone
  <2>3. (p + 1) * m = p * m + m
    OBVIOUS
  <2>4. p * m \in Int /\ q * m \in Int
    OBVIOUS
  <2>5. QED
    BY <1>1, <1>2, <2>2, <2>3, <2>4
<1>4. ~(q + 1 <= p)
  <2>1. SUFFICES ASSUME q + 1 <= p PROVE FALSE
    OBVIOUS
  <2>2. (q + 1) * m <= p * m
    BY <2>1, Monotone
  <2>3. (q + 1) * m = q * m + m
    OBVIOUS
  <2>4. p * m \in Int /\ q * m \in Int
    OBVIOUS
  <2>5. QED
    BY <1>1, <1>2, <2>2, <2>3, <2>4
<1>5. p = q
  BY <1>3, <1>4
<1>6. d = c
  BY <1>1, <1>2, <1>5
<1>7. QED
  BY <1>1, <1>2, <1>5, <1>6

\* A set of natural numbers has a least one.
LEMMA HasLeast ==
  ASSUME NEW S \in SUBSET Nat, S # {}
  PROVE  \E x \in S : \A y \in S : x <= y
<1> DEFINE R == OpToRel(<, Nat)
<1>1. IsWellFoundedOn(R, Nat)
  BY NatLessThanWellFounded
<1>2. \A x, y \in Nat : <<y, x>> \in R <=> y < x
  BY DEF OpToRel
<1> HIDE DEF R
<1>3. PICK x \in S : \A y \in S : <<y, x>> \notin R
  BY <1>1, WFMin
<1>4. x \in Nat /\ \A y \in S : y \in Nat
  OBVIOUS
<1>5. \A y \in S : ~(y < x)
  BY <1>2, <1>3, <1>4
<1>6. QED
  BY <1>4, <1>5

\* How many members of S come before i.
Rank(S, i) == Cardinality({j \in S : j < i})

\* The members of a set have ranks from 0 on, and no two the same.
LEMMA RankFacts ==
  ASSUME NEW S \in SUBSET Nat, IsFiniteSet(S)
  PROVE  /\ Cardinality(S) \in Nat
         /\ \A i \in S : Rank(S, i) \in Nat /\ Rank(S, i) < Cardinality(S)
         /\ \A i, j \in S : Rank(S, i) = Rank(S, j) => i = j
<1>1. Cardinality(S) \in Nat
  BY FS_CardinalityType
<1> DEFINE B(i) == {j \in S : j < i}
<1>2. \A i \in S : IsFiniteSet(B(i)) /\ Cardinality(B(i)) \in Nat
  <2>1. \A i \in S : B(i) \in SUBSET S
    OBVIOUS
  <2>2. QED
    BY <2>1, FS_Subset, FS_CardinalityType
<1>3. ASSUME NEW i \in S, NEW T \in SUBSET S, i \in T, B(i) \subseteq T
      PROVE  Cardinality(B(i)) < Cardinality(T)
  <2>1. IsFiniteSet(T) /\ Cardinality(T) \in Nat
    BY FS_Subset, FS_CardinalityType
  <2>2. B(i) \cup {i} \in SUBSET T /\ i \notin B(i)
    BY <1>3
  <2>3. Cardinality(B(i) \cup {i}) <= Cardinality(T)
    BY <2>1, <2>2, FS_Subset
  <2>4. Cardinality(B(i) \cup {i}) = Cardinality(B(i)) + 1
    BY <1>2, <2>2, FS_AddElement
  <2>5. QED
    BY <1>2, <2>1, <2>3, <2>4
<1>4. \A i \in S : Cardinality(B(i)) < Cardinality(S)
  <2>1. \A i \in S : B(i) \subseteq S
    OBVIOUS
  <2>2. QED
    BY <1>3, <2>1
<1>5. ASSUME NEW i \in S, NEW j \in S, i < j
      PROVE  Cardinality(B(i)) < Cardinality(B(j))
  <2>1. i \in B(j) /\ B(i) \subseteq B(j) /\ B(j) \in SUBSET S
    <3>1. \A x \in S : x < i => x < j
      BY <1>5
    <3>2. QED
      BY <1>5, <3>1
  <2>2. QED
    BY <1>3, <2>1
<1>6. \A i, j \in S : i < j \/ j < i \/ i = j
  OBVIOUS
<1> HIDE DEF B
<1>7. \A i, j \in S : Cardinality(B(i)) = Cardinality(B(j)) => i = j
  BY <1>2, <1>5, <1>6
<1>8. QED
  BY <1>1, <1>2, <1>4, <1>7 DEF Rank, B

\* Numbers given out by rank are as many as the members they are given to.
LEMMA RankImage ==
  ASSUME NEW S \in SUBSET Nat, IsFiniteSet(S), NEW n \in Nat
  PROVE  /\ IsFiniteSet({n + Rank(S, i) + 1 : i \in S})
         /\ Cardinality({n + Rank(S, i) + 1 : i \in S}) = Cardinality(S)
<1> DEFINE T == {n + Rank(S, i) + 1 : i \in S}
           f == [i \in S |-> n + Rank(S, i) + 1]
<1>1. \A i \in S : Rank(S, i) \in Nat
  BY RankFacts
<1>2. \A i, j \in S : Rank(S, i) = Rank(S, j) => i = j
  BY RankFacts
<1>3. \A i, j \in S : f[i] = f[j] => i = j
  BY <1>1, <1>2
<1>4. f \in [S -> T] /\ \A t \in T : \E i \in S : f[i] = t
  OBVIOUS
<1>5. f \in Bijection(S, T)
  BY <1>3, <1>4 DEF Bijection, Injection, Surjection, IsInjective
<1>6. ExistsBijection(S, T)
  BY <1>5 DEF ExistsBijection
<1>7. QED
  BY <1>6, FS_Bijection

\* n entries with different numbers below m are at most m entries.
LEMMA Pigeonhole ==
  ASSUME NEW n \in Nat, NEW m \in Nat, NEW f \in [0 .. n - 1 -> 0 .. m - 1],
         \A i, j \in 0 .. n - 1 : f[i] = f[j] => i = j
  PROVE  n <= m
<1> DEFINE S == 0 .. n - 1
           T == 0 .. m - 1
<1>1. f \in Injection(S, T)
  BY DEF Injection, IsInjective
<1>2. ASSUME NEW k \in Nat
      PROVE  IsFiniteSet(0 .. k - 1) /\ Cardinality(0 .. k - 1) = k
  <2>1. 0 \in Int /\ k - 1 \in Int
    OBVIOUS
  <2>2. /\ IsFiniteSet(0 .. k - 1)
        /\ Cardinality(0 .. k - 1) = IF 0 > k - 1 THEN 0 ELSE k - 1 - 0 + 1
    BY <2>1, FS_Interval
  <2>3. QED
    BY <2>2
<1>3. IsFiniteSet(T) /\ Cardinality(T) = m /\ Cardinality(S) = n
  BY <1>2
<1> HIDE DEF S, T
<1>4. Cardinality(S) <= Cardinality(T)
  BY <1>1, <1>3, FS_Injection
<1>5. QED
  BY <1>3, <1>4
=============================================================================
