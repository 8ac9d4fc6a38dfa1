---------------------------- MODULE NumberLemmas ----------------------------
(***************************************************************************)
(* Facts about integer division that the index of lbz-mapping.c and the    *)
(* segment arithmetic of lbz-nat-sit.c rest on, and facts about counting   *)
(* that the reference counts, weights and in-flight counters rest on.      *)
(***************************************************************************)
EXTENDS Integers, FiniteSets, FiniteSetTheorems, TLAPS

-----------------------------------------------------------------------------
(* Division.                                                               *)

\* Division of a natural number by a positive one.
LEMMA DivMod ==
    ASSUME NEW a \in Nat, NEW d \in Nat \ {0}
    PROVE  /\ a \div d \in Nat /\ a % d \in 0 .. d - 1
           /\ a = d * (a \div d) + (a % d)
  OBVIOUS

\* The quotient is the last multiple not above the number.
LEMMA DivBounds ==
    ASSUME NEW a \in Nat, NEW d \in Nat \ {0}
    PROVE  a \div d \in Nat /\ d * (a \div d) <= a /\ a < d * ((a \div d) + 1)
  BY DivMod

\* The quotient is the only number with that property.
LEMMA DivUnique ==
    ASSUME NEW a \in Nat, NEW d \in Nat \ {0}, NEW q \in Nat, d * q <= a, a < d * (q + 1)
    PROVE  a \div d = q
  <1> DEFINE p == a \div d
  <1>1. p \in Nat /\ d * p <= a /\ a < d * (p + 1)
    BY DivMod
  <1> HIDE DEF p
  <1>2. CASE p < q
    <2>1. p + 1 <= q
      BY <1>1, <1>2
    <2>2. d * (p + 1) <= d * q
      BY <1>1, <2>1
    <2> QED
      BY <1>1, <2>2
  <1>3. CASE p > q
    <2>1. q + 1 <= p
      BY <1>1, <1>3
    <2>2. d * (q + 1) <= d * p
      BY <1>1, <2>1
    <2> QED
      BY <1>1, <2>2
  <1> QED
    BY <1>1, <1>2, <1>3 DEF p

\* A number below m divides to a number below m / d rounded up.
LEMMA BelowRoundedUp ==
    ASSUME NEW b \in Nat, NEW m \in Nat, b < m, NEW d \in Nat \ {0}
    PROVE  b \div d < (m + d - 1) \div d
  <1> DEFINE p == b \div d
             q == (m + d - 1) \div d
             r == (m + d - 1) % d
  <1>1. p \in Nat /\ d * p <= b
    BY DivMod
  <1>2. m + d - 1 \in Nat
    OBVIOUS
  <1>3. q \in Nat /\ r \in 0 .. d - 1 /\ m + d - 1 = d * q + r
    BY <1>2, DivMod
  <1> HIDE DEF p, q, r
  <1>4. m <= d * q
    BY <1>3
  <1>5. d * p < d * q
    BY <1>1, <1>3, <1>4
  <1>6. ASSUME q <= p PROVE FALSE
    <2>1. d * q <= d * p
      BY <1>1, <1>3, <1>6
    <2> QED
      BY <1>1, <1>3, <1>5, <2>1
  <1> QED
    BY <1>1, <1>3, <1>6 DEF p, q

\* Dividing by l * i is dividing by l and then by i.
LEMMA DivDiv ==
    ASSUME NEW b \in Nat, NEW l \in Nat \ {0}, NEW i \in Nat \ {0}
    PROVE  b \div (l * i) = (b \div l) \div i
  <1> DEFINE q == b \div l
             p == q \div i
  <1>1. q \in Nat /\ l * q <= b /\ b < l * (q + 1)
    BY DivBounds
  <1> HIDE DEF q
  <1>2. p \in Nat /\ i * p <= q /\ q < i * (p + 1)
    BY <1>1, DivBounds
  <1> HIDE DEF p
  <1>3. l * i \in Nat \ {0}
    OBVIOUS
  <1>4. (l * i) * p <= b
    <2>1. l * (i * p) <= l * q
      BY <1>1, <1>2
    <2>2. l * (i * p) = (l * i) * p
      BY <1>2
    <2> QED
      BY <1>1, <1>2, <1>3, <2>1, <2>2
  <1>5. b < (l * i) * (p + 1)
    <2>1. q + 1 <= i * (p + 1)
      BY <1>1, <1>2
    <2>2. l * (q + 1) <= l * (i * (p + 1))
      BY <1>1, <1>2, <2>1
    <2>3. l * (i * (p + 1)) = (l * i) * (p + 1)
      BY <1>2
    <2> QED
      BY <1>1, <1>2, <1>3, <2>2, <2>3
  <1> QED
    BY <1>2, <1>3, <1>4, <1>5, DivUnique DEF p, q

-----------------------------------------------------------------------------
(* Counting.                                                               *)

\* A part of a finite set has a natural number of elements, 0 only if it has none.
LEMMA CountNat ==
    ASSUME NEW S, IsFiniteSet(S), NEW A \in SUBSET S
    PROVE  /\ IsFiniteSet(A) /\ Cardinality(A) \in Nat
           /\ Cardinality(A) = 0 <=> A = {}
  BY FS_Subset, FS_CardinalityType, FS_EmptySet

\* One element more.
LEMMA CountMore ==
    ASSUME NEW S, IsFiniteSet(S), NEW A \in SUBSET S, NEW B \in SUBSET S, NEW c \in B, c \notin A,
           \A x \in S : x # c => (x \in A <=> x \in B)
    PROVE  Cardinality(B) = Cardinality(A) + 1
<1>1. IsFiniteSet(A)
  BY CountNat
<1>2. B = A \cup {c}
  OBVIOUS
<1> QED BY <1>1, <1>2, FS_AddElement

\* The numbers from a to b, b not counted.
LEMMA CountBelow ==
    ASSUME NEW a \in Int, NEW b \in Int, a <= b
    PROVE  IsFiniteSet(a .. b - 1) /\ Cardinality(a .. b - 1) = b - a
<1> DEFINE c == b - 1
<1>1. c \in Int /\ (a > c => b - a = 0) /\ c - a + 1 = b - a
  OBVIOUS
<1> HIDE DEF c
<1>2. IsFiniteSet(a .. c) /\ Cardinality(a .. c) = IF a > c THEN 0 ELSE c - a + 1
  BY <1>1, FS_Interval
<1> QED BY <1>1, <1>2 DEF c

\* Two sets without a common element.
LEMMA CountDisjoint ==
    ASSUME NEW S, IsFiniteSet(S), NEW T, IsFiniteSet(T), S \cap T = {}
    PROVE  IsFiniteSet(S \cup T) /\ Cardinality(S \cup T) = Cardinality(S) + Cardinality(T)
<1>1. Cardinality(S) \in Nat /\ Cardinality(T) \in Nat
  BY FS_CardinalityType
<1>2. Cardinality(S \cap T) = 0
  BY FS_EmptySet
<1>3. IsFiniteSet(S \cup T) /\ Cardinality(S \cup T) = Cardinality(S) + Cardinality(T) - Cardinality(S \cap T)
  BY FS_Union, Zenon
<1> QED BY <1>1, <1>2, <1>3

\* A part of a finite set is not larger, and smaller if it misses an element.
LEMMA CountLess ==
    ASSUME NEW S, IsFiniteSet(S), NEW A \in SUBSET S, NEW B \in SUBSET A
    PROVE  /\ Cardinality(A) \in Nat /\ Cardinality(B) \in Nat /\ Cardinality(B) <= Cardinality(A)
           /\ \A c \in A : c \notin B => Cardinality(B) + 1 <= Cardinality(A)
<1>1. IsFiniteSet(A) /\ IsFiniteSet(B) /\ Cardinality(B) <= Cardinality(A)
  BY FS_Subset
<1>2. Cardinality(A) \in Nat /\ Cardinality(B) \in Nat
  BY <1>1, FS_CardinalityType
<1>3. ASSUME NEW c \in A, c \notin B PROVE Cardinality(B) + 1 <= Cardinality(A)
  <2>1. IsFiniteSet(A \ {c}) /\ Cardinality(A \ {c}) = Cardinality(A) - 1
    BY <1>1, <1>3, FS_RemoveElement
  <2>2. B \in SUBSET (A \ {c})
    BY <1>3
  <2>3. Cardinality(B) <= Cardinality(A \ {c})
    BY <2>1, <2>2, FS_Subset
  <2> QED BY <1>2, <2>1, <2>3
<1> QED BY <1>1, <1>2, <1>3

\* A set that is mapped into another one, two elements to two, is not larger.
LEMMA CountInto ==
    ASSUME NEW A, NEW B, IsFiniteSet(B), NEW f, \A a \in A : f[a] \in B,
           \A a, b \in A : f[a] = f[b] => a = b
    PROVE  IsFiniteSet(A) /\ Cardinality(A) <= Cardinality(B)
<1>1. PICK g \in [A -> B] : g = [a \in A |-> f[a]]
  OBVIOUS
<1>2. g \in Injection(A, B)
  BY <1>1 DEF Injection, IsInjective
<1> QED BY <1>2, FS_Injection
=============================================================================
