----------------------------- MODULE OrderLemmas -----------------------------
(***************************************************************************)
(* Facts about naturals that the proofs of several components rest on.     *)
(***************************************************************************)
EXTENDS Integers, FiniteSets, FiniteSetTheorems, WellFoundedInduction, TLAPS

\* A set of naturals has a smallest element.
LEMMA SmallestElement ==
    ASSUME NEW S \in SUBSET Nat, S /= {}
    PROVE  \E x \in S : \A y \in S : x <= y
<1> DEFINE R == OpToRel(<, Nat)
<1>1. IsWellFoundedOn(R, Nat)
  BY NatLessThanWellFounded
<1>2. \E x \in S : \A y \in S : ~(<<y, x>> \in R)
  <2> HIDE DEF R
  <2> QED BY <1>1, WFMin
<1>3. R = {ss \in Nat \X Nat : ss[1] < ss[2]}
  BY DEF OpToRel
<1>4. PICK x \in S : \A y \in S : ~(<<y, x>> \in R)
  BY <1>2
<1>5. \A y \in S : x <= y
  <2> SUFFICES ASSUME NEW y \in S PROVE x <= y
    OBVIOUS
  <2>1. <<y, x>> \notin {ss \in Nat \X Nat : ss[1] < ss[2]}
    BY <1>3, <1>4
  <2> QED BY <2>1
<1> QED BY <1>5

\* A set of naturals with a bound has a largest element.
LEMMA LargestElement ==
    ASSUME NEW S \in SUBSET Nat, S /= {}, NEW n \in Nat, \A x \in S : x <= n
    PROVE  \E x \in S : \A y \in S : y <= x
<1> DEFINE T == {m \in Nat : \A x \in S : x <= m}
<1>1. T \in SUBSET Nat /\ T /= {}
  BY n \in T
<1>2. PICK d \in T : \A e \in T : d <= e
  <2> HIDE DEF T
  <2> QED BY <1>1, SmallestElement
<1>3. d \in S
  <2> SUFFICES ASSUME d \notin S PROVE FALSE
    OBVIOUS
  <2>1. \A x \in S : x \in Nat /\ x < d
    BY <1>2
  <2>2. PICK z \in S : TRUE
    OBVIOUS
  <2>3. d \in Nat /\ z \in Nat /\ z < d
    BY <1>2, <2>1
  <2>4. d - 1 \in Nat /\ \A x \in S : x <= d - 1
    BY <2>1, <2>3
  <2>5. d - 1 \in T
    BY <2>4
  <2> QED BY <1>2, <2>3, <2>5
<1> QED BY <1>2, <1>3

\* The values of a function with a finite domain are finitely many.
LEMMA FiniteImage ==
    ASSUME NEW S, IsFiniteSet(S), NEW f, DOMAIN f = S
    PROVE  /\ IsFiniteSet({f[x] : x \in S})
           /\ Cardinality({f[x] : x \in S}) <= Cardinality(S)
<1> DEFINE T == {f[x] : x \in S}
           g == [x \in S |-> f[x]]
<1>1. g \in Surjection(S, T)
  BY DEF Surjection
<1> HIDE DEF g, T
<1> QED BY <1>1, FS_Surjection DEF T

\* A finite set of naturals has a largest element.
LEMMA FiniteLargest ==
    ASSUME NEW S \in SUBSET Nat, S /= {}, IsFiniteSet(S)
    PROVE  \E x \in S : \A y \in S : y <= x
<1> DEFINE HasLargest(T) == \E x \in T : \A y \in T : y <= x
           Bad == {T \in SUBSET S : T /= {} /\ ~HasLargest(T)}
           C == {n \in Nat : \E T \in Bad : Cardinality(T) = n}
<1> SUFFICES ASSUME ~HasLargest(S) PROVE FALSE
  OBVIOUS
<1>1. \A T \in SUBSET S : IsFiniteSet(T) /\ Cardinality(T) \in Nat
  BY FS_Subset, FS_CardinalityType
<1>2. S \in Bad
  OBVIOUS
<1>3. C \in SUBSET Nat /\ C /= {}
  BY <1>1, <1>2
<1>4. PICK n \in C : \A m \in C : n <= m
  <2> HIDE DEF C
  <2> QED BY <1>3, SmallestElement
<1>5. PICK T \in Bad : Cardinality(T) = n
  BY <1>4
<1>6. PICK z \in T : TRUE
  BY <1>5
<1>7. /\ Cardinality(T \ {z}) = n - 1 /\ Cardinality(T \ {z}) \in Nat /\ n \in Nat
      /\ T \ {z} \in SUBSET S
  <2>1. T \in SUBSET S /\ T \ {z} \in SUBSET S /\ n \in Nat
    BY <1>4, <1>5
  <2>2. IsFiniteSet(T) /\ Cardinality(T \ {z}) \in Nat
    BY <1>1, <2>1
  <2>3. Cardinality(T \ {z}) = Cardinality(T) - 1
    BY <1>6, <2>2, FS_RemoveElement
  <2> QED BY <1>5, <2>1, <2>2, <2>3
<1>8. T \ {z} \notin Bad
  <2> SUFFICES ASSUME T \ {z} \in Bad PROVE FALSE
    OBVIOUS
  <2>1. Cardinality(T \ {z}) \in C
    BY <1>7
  <2> HIDE DEF C
  <2>2. n <= Cardinality(T \ {z})
    BY <1>4, <2>1
  <2> QED BY <1>7, <2>2
<1>9. T \subseteq Nat /\ z \in Nat
  BY <1>5, <1>6
<1>10. CASE T \ {z} = {}
  <2>1. \A y \in T : y <= z
    BY <1>9, <1>10
  <2> QED BY <1>5, <1>6, <2>1
<1>11. CASE T \ {z} /= {}
  <2>1. PICK x \in T \ {z} : \A y \in T \ {z} : y <= x
    BY <1>5, <1>8, <1>11
  <2>2. CASE x <= z
    <3>1. \A y \in T : y <= z
      BY <1>9, <2>1, <2>2
    <3> QED BY <1>5, <1>6, <3>1
  <2>3. CASE ~(x <= z)
    <3>1. \A y \in T : y <= x
      BY <1>9, <2>1, <2>3
    <3> QED BY <1>5, <2>1, <3>1
  <2> QED BY <2>2, <2>3
<1> QED BY <1>10, <1>11

\* A function to naturals has a largest value on a finite set.
LEMMA LargestValue ==
    ASSUME NEW S, IsFiniteSet(S), S /= {}, NEW f \in [S -> Nat]
    PROVE  \E x \in S : \A y \in S : f[y] <= f[x]
<1> DEFINE V == {f[x] : x \in S}
<1>1. IsFiniteSet(V)
  <2>1. DOMAIN f = S
    OBVIOUS
  <2> QED BY <2>1, FiniteImage
<1>2. V \in SUBSET Nat /\ V /= {}
  OBVIOUS
<1>3. PICK m \in V : \A k \in V : k <= m
  <2> HIDE DEF V
  <2> QED BY <1>1, <1>2, FiniteLargest
<1>4. PICK x \in S : f[x] = m
  BY <1>3
<1> QED BY <1>3, <1>4

\* No more than n elements have fewer than n elements before them, in an order that
\* tells any two of them apart.
LEMMA FirstAreFew ==
    ASSUME NEW S, IsFiniteSet(S), NEW f \in [S -> Nat], NEW n \in Nat,
           \A x, y \in S : f[x] = f[y] => x = y,
           NEW T, T = {x \in S : Cardinality({y \in S : f[y] < f[x]}) < n}
    PROVE  IsFiniteSet(T) /\ Cardinality(T) <= n
<1> DEFINE Below(x) == {y \in S : f[y] < f[x]}
<1>1. IsFiniteSet(T) /\ Cardinality(T) \in Nat
  <2>1. T \in SUBSET S
    OBVIOUS
  <2> QED BY <2>1, FS_Subset, FS_CardinalityType
<1>2. CASE T = {}
  <2>1. Cardinality(T) = 0
    BY <1>2, FS_EmptySet, Zenon
  <2> QED BY <1>1, <2>1
<1>3. CASE T /= {}
  <2>1. [x \in T |-> f[x]] \in [T -> Nat]
    OBVIOUS
  <2>2. PICK x \in T : \A y \in T : [z \in T |-> f[z]][y] <= [z \in T |-> f[z]][x]
    BY <1>1, <1>3, <2>1, LargestValue
  <2>3. \A y \in T : f[y] <= f[x]
    BY <2>2
  <2>4. T \ {x} \subseteq Below(x)
    <3> SUFFICES ASSUME NEW y \in T \ {x} PROVE y \in Below(x)
      OBVIOUS
    <3>1. f[y] <= f[x]
      BY <2>3
    <3>2. y \in S /\ x \in S /\ f[x] \in Nat /\ f[y] \in Nat /\ f[x] # f[y]
      OBVIOUS
    <3> QED BY <3>1, <3>2
  <2>5. Cardinality(T \ {x}) <= Cardinality(Below(x)) /\ Cardinality(Below(x)) \in Nat
    <3>1. Below(x) \in SUBSET S
      OBVIOUS
    <3> HIDE DEF Below
    <3> QED BY <2>4, <3>1, FS_Subset, FS_CardinalityType
  <2>6. Cardinality(T \ {x}) = Cardinality(T) - 1
    BY <1>1, <2>2, FS_RemoveElement
  <2>7. Cardinality(Below(x)) < n
    OBVIOUS
  <2> HIDE DEF Below
  <2> QED BY <1>1, <2>5, <2>6, <2>7
<1> QED BY <1>2, <1>3
=============================================================================
