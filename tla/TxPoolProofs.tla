---------------------------- MODULE TxPoolProofs ----------------------------
(***************************************************************************)
(* Proofs about TxPool: whatever blocks come, every transaction of both    *)
(* pools spends outputs that are unspent at the confirmed tip, and the     *)
(* pools that a new tip leaves fit into one block together.                *)
(*                                                                         *)
(* The argument is about chains of transactions.  Both pools accept only   *)
(* transactions that spend unspent outputs and create new ones, so that    *)
(* none spends what another one creates.  Cut-through then never hides an  *)
(* input, and an aggregate that is valid at a block makes each of its      *)
(* parts valid there.                                                      *)
(***************************************************************************)
EXTENDS TxPool, OrderLemmas, SequenceTheorems

MemEntry == [tx : SUBSET Kernel, status : {"FLUFFED"}]
StemEntry == [tx : SUBSET Kernel, status : Status \ {"FLUFFED"}]

-----------------------------------------------------------------------------
(* Places in a pool *)

\* The numbers of the members of a set of places, counted from the lowest.
LEMMA RanksCount ==
    ASSUME NEW S \in SUBSET Nat, IsFiniteSet(S),
           NEW f, f = [i \in S |-> Cardinality({j \in S : j <= i})]
    PROVE  f \in Bijection(S, 1..Cardinality(S))
<1> DEFINE Below(i) == {j \in S : j <= i}
           C == Cardinality(S)
<1>1. C \in Nat
  BY FS_CardinalityType
<1>2. ASSUME NEW i \in S
      PROVE  IsFiniteSet(Below(i)) /\ Cardinality(Below(i)) \in 1..C
  <2>1. Below(i) \in SUBSET S
    OBVIOUS
  <2>2. IsFiniteSet(Below(i)) /\ Cardinality(Below(i)) <= C
    BY <2>1, FS_Subset
  <2>3. Cardinality(Below(i)) \in Nat
    BY <2>2, FS_CardinalityType
  <2>4. i \in Below(i)
    OBVIOUS
  <2> HIDE DEF Below, C
  <2>5. Cardinality(Below(i)) # 0
    BY <2>2, <2>4, FS_EmptySet
  <2> QED BY <1>1, <2>2, <2>3, <2>5
<1>3. ASSUME NEW i \in S, NEW k \in S, i < k
      PROVE  Cardinality(Below(i)) # Cardinality(Below(k))
  <2>1. i \in Nat /\ k \in Nat /\ \A j \in S : j \in Nat
    OBVIOUS
  <2>2. \A j \in S : j <= i => j <= k
    BY <1>3, <2>1
  <2>3. k <= k /\ ~(k <= i)
    BY <1>3, <2>1
  <2>4. Below(i) \in SUBSET Below(k) /\ k \in Below(k) /\ k \notin Below(i)
    BY <2>2, <2>3, Zenon
  <2>5. IsFiniteSet(Below(k))
    BY <1>2
  <2> HIDE DEF Below
  <2> QED BY <2>4, <2>5, FS_Subset
<1>4. \A i \in S : f[i] = Cardinality(Below(i))
  OBVIOUS
<1> HIDE DEF Below
<1>5. f \in [S -> 1..C]
  BY <1>2, <1>4
<1>6. \A i, k \in S : f[i] = f[k] => i = k
  BY <1>3, <1>4
<1>7. f \in Injection(S, 1..C)
  BY <1>5, <1>6, Zenon DEF Injection, IsInjective
<1>8. IsFiniteSet(1..C) /\ Cardinality(1..C) = C
  BY <1>1, FS_Interval
<1>9. f \in Surjection(S, 1..C)
  BY <1>7, <1>8, FS_Injection
<1> QED BY <1>7, <1>9 DEF Bijection

\* Keep lists the entries at the places, each once.
LEMMA KeepLists ==
    ASSUME NEW S \in SUBSET Nat, IsFiniteSet(S), NEW entries
    PROVE  \E g \in Bijection(1..Cardinality(S), S) :
              Keep(entries, S) = [n \in 1..Cardinality(S) |-> entries[g[n]]]
<1> DEFINE C == Cardinality(S)
           f == [i \in S |-> Cardinality({j \in S : j <= i})]
           g == [n \in 1..C |-> CHOOSE i \in S : Cardinality({j \in S : j <= i}) = n]
<1>1. f \in Bijection(S, 1..C)
  BY RanksCount
<1>2. /\ \A i \in S : f[i] \in 1..C
      /\ \A i, k \in S : f[i] = f[k] => i = k
      /\ \A n \in 1..C : \E i \in S : f[i] = n
  <2> HIDE DEF f
  <2> QED BY <1>1 DEF Bijection, Injection, Surjection, IsInjective
<1>3. \A n \in 1..C : g[n] \in S /\ f[g[n]] = n
  BY <1>2, Zenon
<1>4. Keep(entries, S) = [n \in 1..C |-> entries[g[n]]]
  BY DEF Keep
<1>5. g \in [1..C -> S]
  <2>1. \A n \in 1..C : g[n] \in S
    BY <1>3, Zenon
  <2> QED BY <2>1, Zenon
<1> HIDE DEF f, g
<1>6. g \in Bijection(1..C, S)
  BY <1>2, <1>3, <1>5, ZenonT(30) DEF Bijection, Injection, Surjection, IsInjective
<1> QED BY <1>4, <1>6

\* What is kept was there.
LEMMA KeepType ==
    ASSUME NEW T, NEW entries \in Seq(T), NEW S \in SUBSET DOMAIN entries
    PROVE  /\ Keep(entries, S) \in Seq(T)
           /\ \A n \in DOMAIN Keep(entries, S) : \E i \in S : Keep(entries, S)[n] = entries[i]
<1>1. S \in SUBSET Nat /\ IsFiniteSet(S)
  <2>1. DOMAIN entries = 1..Len(entries) /\ Len(entries) \in Nat
    OBVIOUS
  <2>2. IsFiniteSet(1..Len(entries))
    BY <2>1, FS_Interval
  <2> QED BY <2>1, <2>2, FS_Subset
<1>2. PICK g \in Bijection(1..Cardinality(S), S) :
         Keep(entries, S) = [n \in 1..Cardinality(S) |-> entries[g[n]]]
  BY <1>1, KeepLists
<1>3. Cardinality(S) \in Nat
  BY <1>1, FS_CardinalityType
<1>4. \A n \in 1..Cardinality(S) : g[n] \in S /\ entries[g[n]] \in T
  BY <1>2 DEF Bijection, Injection
<1>5. Keep(entries, S) \in [1..Cardinality(S) -> T]
  BY <1>2, <1>4
<1>6. Keep(entries, S) \in Seq(T)
  BY <1>3, <1>5, IsASeq
<1>7. \A n \in DOMAIN Keep(entries, S) : \E i \in S : Keep(entries, S)[n] = entries[i]
  BY <1>2, <1>4
<1> QED BY <1>6, <1>7

\* What is kept spends and creates as often as it did.
LEMMA KeepCounts ==
    ASSUME NEW S \in SUBSET Nat, IsFiniteSet(S), NEW entries, NEW c
    PROVE  /\ Spenders(Keep(entries, S), DOMAIN Keep(entries, S), c) = Spenders(entries, S, c)
           /\ Creators(Keep(entries, S), DOMAIN Keep(entries, S), c) = Creators(entries, S, c)
<1> DEFINE C == Cardinality(S)
<1>1. PICK g \in Bijection(1..C, S) : Keep(entries, S) = [n \in 1..C |-> entries[g[n]]]
  BY KeepLists
<1>2. /\ \A n \in 1..C : g[n] \in S
      /\ \A m, n \in 1..C : g[m] = g[n] => m = n
      /\ \A i \in S : \E n \in 1..C : g[n] = i
  BY <1>1 DEF Bijection, Injection, Surjection, IsInjective
<1>3. C \in Nat /\ IsFiniteSet(1..C)
  BY FS_CardinalityType, FS_Interval
<1>4. ASSUME NEW A \in SUBSET (1..C), NEW B \in SUBSET S,
             \A n \in 1..C : n \in A <=> g[n] \in B
      PROVE  Cardinality(A) = Cardinality(B)
  <2> DEFINE h == [n \in A |-> g[n]]
  <2>1. h \in [A -> B]
    BY <1>2, <1>4
  <2>2. \A m, n \in A : h[m] = h[n] => m = n
    BY <1>2
  <2>3. \A i \in B : \E n \in A : h[n] = i
    BY <1>2, <1>4
  <2> HIDE DEF h
  <2>4. h \in Bijection(A, B)
    BY <2>1, <2>2, <2>3 DEF Bijection, Injection, Surjection, IsInjective
  <2>5. ExistsBijection(A, B)
    BY <2>4 DEF ExistsBijection
  <2>6. IsFiniteSet(A)
    BY <1>3, FS_Subset, Zenon
  <2> QED BY <2>5, <2>6, FS_Bijection
<1>5. DOMAIN Keep(entries, S) = 1..C /\ \A n \in 1..C : Keep(entries, S)[n] = entries[g[n]]
  BY <1>1
<1>6. Spenders(Keep(entries, S), 1..C, c) = Spenders(entries, S, c)
  <2> DEFINE A == {n \in 1..C : c \in Ins[Keep(entries, S)[n].tx]}
             B == {i \in S : c \in Ins[entries[i].tx]}
  <2>1. \A n \in 1..C : n \in A <=> g[n] \in B
    BY <1>2, <1>5
  <2>2. A \in SUBSET (1..C) /\ B \in SUBSET S
    OBVIOUS
  <2>3. Spenders(Keep(entries, S), 1..C, c) = Cardinality(A) /\ Spenders(entries, S, c) = Cardinality(B)
    BY DEF Spenders
  <2> HIDE DEF A, B
  <2> QED BY <1>4, <2>1, <2>2, <2>3
<1>7. Creators(Keep(entries, S), 1..C, c) = Creators(entries, S, c)
  <2> DEFINE A == {n \in 1..C : c \in Outs[Keep(entries, S)[n].tx]}
             B == {i \in S : c \in Outs[entries[i].tx]}
  <2>1. \A n \in 1..C : n \in A <=> g[n] \in B
    BY <1>2, <1>5
  <2>2. A \in SUBSET (1..C) /\ B \in SUBSET S
    OBVIOUS
  <2>3. Creators(Keep(entries, S), 1..C, c) = Cardinality(A) /\ Creators(entries, S, c) = Cardinality(B)
    BY DEF Creators
  <2> HIDE DEF A, B
  <2> QED BY <1>4, <2>1, <2>2, <2>3
<1> QED BY <1>5, <1>6, <1>7

\* What is kept weighs as much as it did.
LEMMA KeepWeighs ==
    ASSUME NEW S \in SUBSET Nat, IsFiniteSet(S), NEW entries
    PROVE  Weight(Keep(entries, S), DOMAIN Keep(entries, S)) = Weight(entries, S)
<1> DEFINE C == Cardinality(S)
           K == Keep(entries, S)
<1>1. PICK g \in Bijection(1..C, S) : K = [n \in 1..C |-> entries[g[n]]]
  BY KeepLists
<1>2. /\ \A n \in 1..C : g[n] \in S
      /\ \A m, n \in 1..C : g[m] = g[n] => m = n
      /\ \A i \in S : \E n \in 1..C : g[n] = i
  BY <1>1 DEF Bijection, Injection, Surjection, IsInjective
<1>3. DOMAIN K = 1..C /\ \A n \in 1..C : K[n] = entries[g[n]]
  BY <1>1
<1> HIDE DEF K, C
<1> DEFINE A == {p \in (1..C) \X Kernel : p[2] \in K[p[1]].tx}
           B == {p \in S \X Kernel : p[2] \in entries[p[1]].tx}
           f == [p \in A |-> <<g[p[1]], p[2]>>]
<1>4. /\ \A p \in A : p = <<p[1], p[2]>> /\ p[1] \in 1..C /\ p[2] \in Kernel /\ p[2] \in entries[g[p[1]]].tx
      /\ \A n \in 1..C : \A k \in Kernel : k \in entries[g[n]].tx => <<n, k>> \in A
  BY <1>3
<1>5. /\ \A p \in B : p = <<p[1], p[2]>> /\ p[1] \in S /\ p[2] \in Kernel /\ p[2] \in entries[p[1]].tx
      /\ \A i \in S : \A k \in Kernel : k \in entries[i].tx => <<i, k>> \in B
  OBVIOUS
<1>6. IsFiniteSet(B)
  <2>1. IsFiniteSet(S \X Kernel)
    BY TxAssumption, FS_Product
  <2>2. B \in SUBSET (S \X Kernel)
    OBVIOUS
  <2> HIDE DEF B
  <2> QED BY <2>1, <2>2, FS_Subset
<1>7. Weight(K, DOMAIN K) = Cardinality(A) /\ Weight(entries, S) = Cardinality(B)
  BY <1>3 DEF Weight
<1>8. \A p \in A : f[p] = <<g[p[1]], p[2]>>
  OBVIOUS
<1>9. f \in [A -> B]
  <2> HIDE DEF A, B
  <2> QED BY <1>2, <1>4, <1>5
<1> HIDE DEF A, B, f
<1>10. \A p, q \in A : f[p] = f[q] => p = q
  <2> SUFFICES ASSUME NEW p \in A, NEW q \in A, f[p] = f[q] PROVE p = q
    OBVIOUS
  <2>1. <<g[p[1]], p[2]>> = <<g[q[1]], q[2]>>
    BY <1>8
  <2>2. g[p[1]] = g[q[1]] /\ p[2] = q[2]
    BY <2>1
  <2>3. p[1] = q[1]
    BY <1>2, <1>4, <2>2
  <2> QED BY <1>4, <2>2, <2>3, Zenon
<1>11. \A q \in B : \E p \in A : f[p] = q
  <2> SUFFICES ASSUME NEW q \in B PROVE \E p \in A : f[p] = q
    OBVIOUS
  <2>1. PICK n \in 1..C : g[n] = q[1]
    BY <1>2, <1>5
  <2>2. <<n, q[2]>> \in A
    BY <1>4, <1>5, <2>1
  <2>3. f[<<n, q[2]>>] = <<g[n], q[2]>>
    BY <1>8, <2>2
  <2>4. <<g[n], q[2]>> = q
    BY <1>5, <2>1, Zenon
  <2> QED BY <2>2, <2>3, <2>4
<1>12. ExistsBijection(A, B)
  BY <1>9, <1>10, <1>11 DEF ExistsBijection, Bijection, Injection, Surjection, IsInjective
<1>13. Cardinality(A) = Cardinality(B)
  <2>1. IsFiniteSet(A)
    <3>1. f \in Injection(A, B)
      BY <1>9, <1>10 DEF Injection, IsInjective
    <3> QED BY <1>6, <3>1, FS_Injection
  <2> QED BY <1>12, <2>1, FS_Bijection
<1> QED BY <1>7, <1>13 DEF K

\* Nothing weighs nothing.
LEMMA NothingWeighs ==
    ASSUME NEW entries
    PROVE  Weight(entries, {}) = 0
<1>1. {p \in {} \X Kernel : p[2] \in entries[p[1]].tx} = {}
  OBVIOUS
<1> QED BY <1>1, FS_EmptySet DEF Weight

\* FindValidTransactions always finds a choice: one place after the other.
LEMMA ChoiceExists ==
    ASSUME NEW m \in Nat, NEW places \in SUBSET (1..m), NEW entries, NEW extra, NEW h
    PROVE  \E some \in SUBSET places : IsChosen(entries, places, extra, h, some)
<1> DEFINE UpTo(n) == {i \in places : i <= n}
           Bad == {n \in Nat : \A s \in SUBSET UpTo(n) : ~IsChosen(entries, UpTo(n), extra, h, s)}
<1>1. \A i \in places : i \in Nat /\ i # 0 /\ i <= m
  OBVIOUS
<1>2. SUFFICES ASSUME Bad # {} PROVE FALSE
  <2>1. UpTo(m) = places
    BY <1>1, Zenon
  <2>2. m \notin Bad
    BY <1>2
  <2> QED BY <2>1, <2>2
<1>3. PICK n \in Bad : \A k \in Bad : n <= k
  <2>1. Bad \in SUBSET Nat
    OBVIOUS
  <2> HIDE DEF Bad
  <2> QED BY <1>2, <2>1, SmallestElement
<1>4. n \in Nat
  BY <1>3
<1>5. n # 0
  <2>1. ASSUME n = 0 PROVE FALSE
    <3>1. \A i \in places : ~(i <= 0)
      BY <1>1
    <3>2. UpTo(0) = {}
      BY <3>1, Zenon
    <3>3. IsChosen(entries, {}, extra, h, {})
      BY DEF IsChosen
    <3> QED BY <1>3, <2>1, <3>2, <3>3
  <2> QED BY <2>1
<1>6. PICK s \in SUBSET UpTo(n - 1) : IsChosen(entries, UpTo(n - 1), extra, h, s)
  <2>1. n - 1 \in Nat /\ ~(n <= n - 1)
    BY <1>4, <1>5
  <2>2. n - 1 \notin Bad
    BY <1>3, <2>1, Zenon
  <2> QED BY <2>1, <2>2
<1>7. CASE n \notin places
  <2>1. UpTo(n) = UpTo(n - 1)
    <3>1. \A i \in places : i <= n <=> i <= n - 1
      BY <1>4, <1>1, <1>7
    <3> QED BY <3>1, Zenon
  <2> QED BY <1>3, <1>6, <2>1
<1>8. CASE n \in places
  <2>1. PICK v \in BOOLEAN : v <=> IsValidTogether(entries, s \cup {n}, extra, h)
    BY Zenon
  <2> DEFINE t == IF v THEN s \cup {n} ELSE s
  <2>2. t \in SUBSET UpTo(n)
    BY <1>4, <1>6, <1>1, <1>8
  <2>3. n \notin s
    BY <1>4, <1>6
  <2>4. ASSUME NEW i \in UpTo(n)
        PROVE  i \in t <=> IsValidTogether(entries, {j \in t : j <= i} \cup {i}, extra, h)
    <3>1. CASE i = n
      <4>1. \A j \in t : j <= n
        BY <2>2
      <4>2. {j \in t : j <= n} \cup {n} = s \cup {n}
        <5> HIDE DEF t
        <5>1. {j \in t : j <= n} = t
          BY <4>1
        <5>2. t \cup {n} = s \cup {n}
          BY DEF t
        <5> QED BY <5>1, <5>2
      <4> QED BY <2>1, <2>3, <3>1, <4>2
    <3>2. CASE i # n
      <4>1. i \in UpTo(n - 1) /\ ~(n <= i)
        BY <1>4, <1>1, <3>2
      <4>2. {j \in t : j <= i} = {j \in s : j <= i}
        BY <4>1
      <4>3. i \in t <=> i \in s
        BY <3>2
      <4> QED BY <1>6, <4>1, <4>2, <4>3 DEF IsChosen
    <3> QED BY <3>1, <3>2
  <2> HIDE DEF t
  <2>5. IsChosen(entries, UpTo(n), extra, h, t)
    BY <2>4 DEF IsChosen
  <2> QED BY <1>3, <2>2, <2>5
<1> QED BY <1>7, <1>8

\* What FindValidTransactions returns is valid together.
LEMMA FoundIsValid ==
    ASSUME NEW m \in Nat, NEW places \in SUBSET (1..m), NEW entries, NEW extra, NEW h
    PROVE  \E some \in SUBSET places :
              /\ FindValidTransactions(entries, places, extra, h) = Keep(entries, some)
              /\ some # {} => IsValidTogether(entries, some, extra, h)
<1> DEFINE some == CHOOSE s \in SUBSET places : IsChosen(entries, places, extra, h, s)
<1>1. some \in SUBSET places /\ IsChosen(entries, places, extra, h, some)
  BY ChoiceExists, Zenon
<1>2. FindValidTransactions(entries, places, extra, h) = Keep(entries, some)
  BY DEF FindValidTransactions
<1> HIDE DEF some
<1>3. ASSUME some # {} PROVE IsValidTogether(entries, some, extra, h)
  <2>1. some \in SUBSET Nat /\ IsFiniteSet(some)
    <3>1. IsFiniteSet(1..m)
      BY FS_Interval
    <3>2. some \in SUBSET (1..m) /\ some \in SUBSET Nat
      BY <1>1
    <3> QED BY <3>1, <3>2, FS_Subset, Zenon
  <2>2. PICK i \in some : \A j \in some : j <= i
    BY <1>3, <2>1, FiniteLargest
  <2>3. {j \in some : j <= i} \cup {i} = some
    BY <2>2
  <2> QED BY <1>1, <2>2, <2>3 DEF IsChosen
<1> QED BY <1>1, <1>2, <1>3

-----------------------------------------------------------------------------
(* Cut-through hides nothing in the pools *)

\* A list of transactions, each of which is valid at h by itself.
IsPool(entries) == \A i \in DOMAIN entries : entries[i].tx \in SUBSET Kernel
AllValid(entries, h) == \A i \in DOMAIN entries : IsValid(entries[i].tx, h)

\* The numbers of spenders and creators are 0 if and only if there is none.
LEMMA NoneIsZero ==
    ASSUME NEW entries, NEW some, IsFiniteSet(some), NEW c
    PROVE  /\ Spenders(entries, some, c) \in Nat
           /\ Creators(entries, some, c) \in Nat
           /\ Spenders(entries, some, c) = 0 <=> \A i \in some : c \notin Ins[entries[i].tx]
           /\ Creators(entries, some, c) = 0 <=> \A i \in some : c \notin Outs[entries[i].tx]
<1> DEFINE A == {i \in some : c \in Ins[entries[i].tx]}
           B == {i \in some : c \in Outs[entries[i].tx]}
<1>1. Spenders(entries, some, c) = Cardinality(A) /\ Creators(entries, some, c) = Cardinality(B)
  BY DEF Spenders, Creators
<1>2. A \in SUBSET some /\ B \in SUBSET some
  OBVIOUS
<1>3. A = {} <=> \A i \in some : c \notin Ins[entries[i].tx]
  OBVIOUS
<1>4. B = {} <=> \A i \in some : c \notin Outs[entries[i].tx]
  OBVIOUS
<1> HIDE DEF A, B
<1>5. IsFiniteSet(A) /\ IsFiniteSet(B)
  BY <1>2, FS_Subset
<1>6. Cardinality(A) \in Nat /\ Cardinality(B) \in Nat
  BY <1>5, FS_CardinalityType
<1>7. (Cardinality(A) = 0 <=> A = {}) /\ (Cardinality(B) = 0 <=> B = {})
  BY <1>5, FS_EmptySet
<1> QED BY <1>1, <1>3, <1>4, <1>6, <1>7

\* What an aggregate spends and creates follows from its kernels.
LEMMA InsOfKernels ==
    ASSUME NEW tx \in SUBSET Kernel, NEW c
    PROVE  /\ c \in Ins[tx] <=> (\E k \in tx : c \in Spends[k]) /\ ~(\E k \in tx : c \in Creates[k])
           /\ c \in Outs[tx] <=> (\E k \in tx : c \in Creates[k]) /\ ~(\E k \in tx : c \in Spends[k])
<1> DEFINE spent == UNION {Spends[k] : k \in tx}
           created == UNION {Creates[k] : k \in tx}
<1>1. c \in spent <=> \E k \in tx : c \in Spends[k]
  OBVIOUS
<1>2. c \in created <=> \E k \in tx : c \in Creates[k]
  OBVIOUS
<1>3. Ins[tx] = spent \ created /\ Outs[tx] = created \ spent
  BY DEF Ins, Outs
<1> HIDE DEF spent, created
<1>4. (c \in Ins[tx] <=> c \in spent /\ c \notin created) /\ (c \in Outs[tx] <=> c \in created /\ c \notin spent)
  BY <1>3
<1> QED BY <1>1, <1>2, <1>4, Zenon

\* The inputs and outputs of a transaction are commitments.
LEMMA InsAreCommitments ==
    ASSUME NEW tx \in SUBSET Kernel
    PROVE  Ins[tx] \subseteq Commitment /\ Outs[tx] \subseteq Commitment
<1>1. \A k \in tx : Spends[k] \subseteq Commitment /\ Creates[k] \subseteq Commitment
  BY TxAssumption
<1> QED BY <1>1, InsOfKernels

\* The places of a sequence are finitely many.
LEMMA PlacesAreFinite ==
    ASSUME NEW T, NEW entries \in Seq(T), NEW some \in SUBSET DOMAIN entries
    PROVE  some \in SUBSET Nat /\ IsFiniteSet(some) /\ some \in SUBSET (1..Len(entries))
<1>1. DOMAIN entries = 1..Len(entries) /\ Len(entries) \in Nat
  OBVIOUS
<1>2. IsFiniteSet(1..Len(entries))
  BY <1>1, FS_Interval
<1>3. some \in SUBSET (1..Len(entries)) /\ some \in SUBSET Nat
  BY <1>1
<1> QED BY <1>2, <1>3, FS_Subset

\* If all entries were valid at t, none of them spends what another one creates.
\* So an aggregate of some of them that is valid at h has valid parts only.
LEMMA PartsAreValid ==
    ASSUME NEW T, NEW U, NEW entries \in Seq(T), NEW extra \in Seq(U),
           NEW some \in SUBSET DOMAIN entries, NEW t, NEW h,
           IsPool(entries), AllValid(entries, t), AllValid(extra, t),
           IsValidTogether(entries, some, extra, h)
    PROVE  \A i \in some : IsValid(entries[i].tx, h)
<1> SUFFICES ASSUME NEW i \in some
             PROVE  IsValid(entries[i].tx, h)
  OBVIOUS
<1> DEFINE tx == entries[i].tx
<1>1. Ins[tx] \subseteq Commitment /\ Outs[tx] \subseteq Commitment
  BY InsAreCommitments DEF IsPool
<1>2. IsFiniteSet(some) /\ IsFiniteSet(DOMAIN extra)
  BY PlacesAreFinite
<1>3. \A j \in some : Ins[entries[j].tx] \subseteq Unspent[t] /\ Outs[entries[j].tx] \cap Unspent[t] = {}
  BY DEF AllValid, IsValid
<1>4. \A j \in DOMAIN extra : Ins[extra[j].tx] \subseteq Unspent[t] /\ Outs[extra[j].tx] \cap Unspent[t] = {}
  BY DEF AllValid, IsValid
<1>5. ASSUME NEW c \in Ins[tx] PROVE c \in Unspent[h]
  <2>1. c \in Unspent[t] /\ c \in Commitment
    BY <1>1, <1>3, <1>5
  <2>2. Creators(entries, some, c) = 0
    BY <1>2, <1>3, <2>1, NoneIsZero
  <2>3. Creators(extra, DOMAIN extra, c) = 0
    BY <1>2, <1>4, <2>1, NoneIsZero
  <2>4. Spenders(entries, some, c) \in Nat /\ Spenders(entries, some, c) # 0
    BY <1>2, <1>5, NoneIsZero
  <2>5. Spenders(extra, DOMAIN extra, c) \in Nat
    BY <1>2, NoneIsZero
  <2>6. IsFine(Spenders(entries, some, c) + Spenders(extra, DOMAIN extra, c), 0, c \in Unspent[h])
    BY <2>1, <2>2, <2>3 DEF IsValidTogether, IsCut
  <2> QED BY <2>4, <2>5, <2>6 DEF IsFine, IsCut
<1>6. ASSUME NEW c \in Outs[tx] PROVE c \notin Unspent[h]
  <2>1. c \notin Unspent[t] /\ c \in Commitment
    BY <1>1, <1>3, <1>6
  <2>2. Spenders(entries, some, c) = 0
    BY <1>2, <1>3, <2>1, NoneIsZero
  <2>3. Spenders(extra, DOMAIN extra, c) = 0
    BY <1>2, <1>4, <2>1, NoneIsZero
  <2>4. Creators(entries, some, c) \in Nat /\ Creators(entries, some, c) # 0
    BY <1>2, <1>6, NoneIsZero
  <2>5. Creators(extra, DOMAIN extra, c) \in Nat
    BY <1>2, NoneIsZero
  <2>6. IsFine(0, Creators(entries, some, c) + Creators(extra, DOMAIN extra, c), c \in Unspent[h])
    BY <2>1, <2>2, <2>3 DEF IsValidTogether, IsCut
  <2> QED BY <2>4, <2>5, <2>6 DEF IsFine, IsCut
<1> QED BY <1>5, <1>6 DEF IsValid

\* The weight of finitely many entries is a number.
LEMMA WeightType ==
    ASSUME NEW U, NEW entries \in Seq(U)
    PROVE  Weight(entries, DOMAIN entries) \in Nat
<1> DEFINE D == DOMAIN entries
<1>1. IsFiniteSet(D) /\ IsFiniteSet(Kernel)
  BY PlacesAreFinite, TxAssumption
<1> HIDE DEF D
<1> DEFINE A == {p \in D \X Kernel : p[2] \in entries[p[1]].tx}
<1>2. IsFiniteSet(D \X Kernel)
  BY <1>1, FS_Product
<1>3. A \in SUBSET (D \X Kernel)
  OBVIOUS
<1>4. Weight(entries, D) = Cardinality(A)
  BY DEF Weight
<1> HIDE DEF A
<1> QED BY <1>2, <1>3, <1>4, FS_Subset, FS_CardinalityType DEF D

\* Nothing at all is valid together with a memory pool that is valid.
LEMMA NothingFits ==
    ASSUME NEW U, NEW extra \in Seq(U), NEW t, NEW h, NEW entries,
           AllValid(extra, t), AreValid(extra, h)
    PROVE  IsValidTogether(entries, {}, extra, h)
<1> SUFFICES ASSUME NEW c \in Commitment
             PROVE  LET s == Spenders(extra, DOMAIN extra, c)
                        k == Creators(extra, DOMAIN extra, c)
                        spent == Spenders(entries, {}, c) + IF IsCut(s, k) THEN 0 ELSE s
                        created == Creators(entries, {}, c) + IF IsCut(s, k) THEN 0 ELSE k
                    IN  (IsCut(s, k) => s = k) /\ IsFine(spent, created, c \in Unspent[h])
  <2>1. DOMAIN <<>> = {}
    OBVIOUS
  <2>2. Weight(extra, DOMAIN extra) + Weight(<<>>, {}) <= MaxWeight
    BY <2>1 DEF AreValid, IsValidTogether
  <2>3. Weight(entries, {}) + Weight(extra, DOMAIN extra) <= MaxWeight
    BY <2>2, NothingWeighs, WeightType
  <2> QED BY <2>3 DEF IsValidTogether
<1> DEFINE s == Spenders(extra, DOMAIN extra, c)
           k == Creators(extra, DOMAIN extra, c)
<1>1. IsFiniteSet(DOMAIN extra) /\ IsFiniteSet({})
  BY PlacesAreFinite, FS_EmptySet
<1>2. s \in Nat /\ k \in Nat
  BY <1>1, NoneIsZero
<1>3. Spenders(entries, {}, c) = 0 /\ Creators(entries, {}, c) = 0
  BY <1>1, NoneIsZero, Zenon
<1>4. Spenders(<<>>, DOMAIN <<>>, c) = 0 /\ Creators(<<>>, DOMAIN <<>>, c) = 0
  <2>1. DOMAIN <<>> = {}
    OBVIOUS
  <2> QED BY <1>1, <2>1, NoneIsZero
<1>5. IsFine(s, k, c \in Unspent[h])
  BY <1>2, <1>4 DEF AreValid, IsValidTogether, IsCut
<1>6. s = 0 \/ k = 0
  <2>1. \A j \in DOMAIN extra : Ins[extra[j].tx] \subseteq Unspent[t] /\ Outs[extra[j].tx] \cap Unspent[t] = {}
    BY DEF AllValid, IsValid
  <2>2. CASE c \in Unspent[t]
    BY <1>1, <2>1, <2>2, NoneIsZero
  <2>3. CASE c \notin Unspent[t]
    BY <1>1, <2>1, <2>3, NoneIsZero
  <2> QED BY <2>2, <2>3
<1> HIDE DEF s, k
<1>7. ~IsCut(s, k)
  BY <1>2, <1>6 DEF IsCut
<1> QED BY <1>2, <1>3, <1>5, <1>7 DEF s, k

-----------------------------------------------------------------------------
(* Reconciling with blocks *)

\* Both pools as records, with entries that are valid at h by themselves, and
\* pools that are valid at h together.
Pools == [mempool : Seq(MemEntry), stempool : Seq(StemEntry)]
AreSpendable(pools, h) == AllValid(pools.mempool, h) /\ AllValid(pools.stempool, h)
FitTogether(pools, h) ==
    /\ AreValid(pools.mempool, h)
    /\ IsValidTogether(pools.stempool, DOMAIN pools.stempool, pools.mempool, h)

\* Pool::ReconcileBlock leaves entries that were there, that are valid at the
\* block, each by itself and together with the extra entries.
LEMMA PoolIsReconciled ==
    ASSUME NEW T, NEW U, NEW pool \in Seq(T), NEW extra \in Seq(U), NEW t, NEW h,
           IsPool(pool), AllValid(pool, t), AllValid(extra, t), AreValid(extra, h)
    PROVE  /\ ReconcilePool(pool, h, extra) \in Seq(T)
           /\ AllValid(ReconcilePool(pool, h, extra), t)
           /\ AllValid(ReconcilePool(pool, h, extra), h)
           /\ IsValidTogether(ReconcilePool(pool, h, extra),
                              DOMAIN ReconcilePool(pool, h, extra), extra, h)
<1> DEFINE places == {i \in DOMAIN pool : ~ShouldEvict(pool[i].tx, h)}
<1>1. PICK len \in Nat : DOMAIN pool = 1..len
  OBVIOUS
<1>2. places \in SUBSET (1..len)
  BY <1>1
<1>3. ReconcilePool(pool, h, extra) = FindValidTransactions(pool, places, extra, h)
  BY DEF ReconcilePool
<1> HIDE DEF places
<1>4. PICK some \in SUBSET places :
         /\ FindValidTransactions(pool, places, extra, h) = Keep(pool, some)
         /\ some # {} => IsValidTogether(pool, some, extra, h)
  BY <1>2, FoundIsValid, ZenonT(30)
<1>5. some \in SUBSET DOMAIN pool
  BY <1>1, <1>2, <1>4
<1>6. IsValidTogether(pool, some, extra, h)
  BY <1>4, NothingFits, Zenon
<1>7. some \in SUBSET Nat /\ IsFiniteSet(some)
  BY <1>5, PlacesAreFinite
<1>8. /\ Keep(pool, some) \in Seq(T)
      /\ \A n \in DOMAIN Keep(pool, some) : \E i \in some : Keep(pool, some)[n] = pool[i]
  BY <1>5, KeepType
<1>9. \A i \in some : IsValid(pool[i].tx, h) /\ IsValid(pool[i].tx, t)
  <2>1. \A i \in some : IsValid(pool[i].tx, h)
    BY <1>5, <1>6, PartsAreValid
  <2> QED BY <1>5, <2>1 DEF AllValid
<1>10. AllValid(Keep(pool, some), t) /\ AllValid(Keep(pool, some), h)
  BY <1>8, <1>9, SMTT(30) DEF AllValid
<1>11. IsValidTogether(Keep(pool, some), DOMAIN Keep(pool, some), extra, h)
  <2>1. \A c : /\ Spenders(Keep(pool, some), DOMAIN Keep(pool, some), c) = Spenders(pool, some, c)
               /\ Creators(Keep(pool, some), DOMAIN Keep(pool, some), c) = Creators(pool, some, c)
    BY <1>7, KeepCounts
  <2>2. Weight(Keep(pool, some), DOMAIN Keep(pool, some)) = Weight(pool, some)
    BY <1>7, KeepWeighs
  <2> QED BY <1>6, <2>1, <2>2 DEF IsValidTogether
<1> QED BY <1>3, <1>4, <1>8, <1>10, <1>11

\* TransactionPool::ReconcileBlock leaves pools that are still valid at t, and that
\* are valid and fit together at the block.
LEMMA BlockIsReconciled ==
    ASSUME NEW pools \in Pools, NEW t, NEW h, AreSpendable(pools, t)
    PROVE  /\ ReconcileBlock(pools, h) \in Pools
           /\ AreSpendable(ReconcileBlock(pools, h), t)
           /\ AreSpendable(ReconcileBlock(pools, h), h)
           /\ FitTogether(ReconcileBlock(pools, h), h)
<1> DEFINE m == ReconcilePool(pools.mempool, h, <<>>)
           s == ReconcilePool(pools.stempool, h, m)
<1>1. pools.mempool \in Seq(MemEntry) /\ pools.stempool \in Seq(StemEntry)
  BY DEF Pools
<1>2. IsPool(pools.mempool) /\ IsPool(pools.stempool)
  <2>1. \A i \in DOMAIN pools.mempool : pools.mempool[i] \in MemEntry
    BY <1>1
  <2>2. \A i \in DOMAIN pools.stempool : pools.stempool[i] \in StemEntry
    BY <1>1
  <2>3. \A e \in MemEntry \cup StemEntry : e.tx \in SUBSET Kernel
    BY DEF MemEntry, StemEntry
  <2> QED BY <2>1, <2>2, <2>3 DEF IsPool
<1>3. <<>> \in Seq(MemEntry) /\ AllValid(<<>>, t) /\ AreValid(<<>>, h)
  <2>1. <<>> \in Seq(MemEntry) /\ DOMAIN <<>> = {}
    OBVIOUS
  <2>2. AllValid(<<>>, t)
    BY <2>1 DEF AllValid
  <2>3. \A c : Spenders(<<>>, {}, c) = 0 /\ Creators(<<>>, {}, c) = 0
    BY NoneIsZero, FS_EmptySet
  <2>4. Weight(<<>>, {}) + Weight(<<>>, {}) <= MaxWeight
    BY NothingWeighs, TxAssumption
  <2>5. AreValid(<<>>, h)
    BY <2>1, <2>3, <2>4 DEF AreValid, IsValidTogether, IsCut, IsFine
  <2> QED BY <2>1, <2>2, <2>5
<1>4. AllValid(pools.mempool, t) /\ AllValid(pools.stempool, t)
  BY DEF AreSpendable
<1>5. /\ m \in Seq(MemEntry) /\ AllValid(m, t) /\ AllValid(m, h)
      /\ IsValidTogether(m, DOMAIN m, <<>>, h)
  BY <1>1, <1>2, <1>3, <1>4, PoolIsReconciled, Zenon
<1>6. ReconcileBlock(pools, h) = [mempool |-> m, stempool |-> s]
  BY DEF ReconcileBlock
<1> HIDE DEF m
<1>7. AreValid(m, h)
  BY <1>5 DEF AreValid
<1>8. /\ s \in Seq(StemEntry) /\ AllValid(s, t) /\ AllValid(s, h)
      /\ IsValidTogether(s, DOMAIN s, m, h)
  BY <1>1, <1>2, <1>4, <1>5, <1>7, PoolIsReconciled
<1> HIDE DEF s
<1> DEFINE r == [mempool |-> m, stempool |-> s]
<1>9. r.mempool = m /\ r.stempool = s
  OBVIOUS
<1>10. r \in Pools
  BY <1>5, <1>8 DEF Pools
<1> HIDE DEF r
<1> QED BY <1>5, <1>6, <1>7, <1>8, <1>9, <1>10 DEF r, AreSpendable, FitTogether

\* There is a function that gives the pools after each of the blocks.
HasStages(start, blocks, len) ==
    \E V : \E f \in [0..len -> V] : \A n \in 0..len :
        f[n] = IF n = 0 THEN start ELSE ReconcileBlock(f[n - 1], blocks[n])

\* The recursive function of Reconciled is defined for any number of blocks.
LEMMA StagesExist ==
    ASSUME NEW start, NEW blocks, NEW len \in Nat
    PROVE  HasStages(start, blocks, len)
<1> DEFINE Is(f, m) == \A n \in 0..m : f[n] = IF n = 0 THEN start ELSE ReconcileBlock(f[n - 1], blocks[n])
           Has(m) == HasStages(start, blocks, m)
           Bad == {m \in Nat : ~Has(m)}
<1> SUFFICES ASSUME Bad # {} PROVE FALSE
  <2>1. Bad = {} => Has(len)
    <3> HIDE DEF Has
    <3> QED OBVIOUS
  <2> QED BY <2>1
<1>1. PICK m \in Bad : \A k \in Bad : m <= k
  <2>1. Bad \in SUBSET Nat
    OBVIOUS
  <2> HIDE DEF Bad
  <2> QED BY <2>1, SmallestElement
<1>2. m \in Nat /\ ~Has(m)
  BY <1>1
<1>3. m # 0
  <2>1. ASSUME m = 0 PROVE FALSE
    <3> DEFINE g == [n \in 0..0 |-> start]
    <3>1. g \in [0..0 -> {start}]
      OBVIOUS
    <3>2. Is(g, 0)
      OBVIOUS
    <3> HIDE DEF g
    <3> QED BY <1>2, <2>1, <3>1, <3>2, Zenon DEF HasStages
  <2> QED BY <2>1
<1>4. Has(m - 1)
  <2>1. m - 1 \in Nat /\ ~(m <= m - 1)
    BY <1>2, <1>3
  <2>2. m - 1 \notin Bad
    BY <1>1, <2>1
  <2> HIDE DEF Has
  <2> QED BY <2>1, <2>2
<1>5. PICK V : \E f \in [0..(m - 1) -> V] : Is(f, m - 1)
  BY <1>4 DEF HasStages
<1>6. PICK f \in [0..(m - 1) -> V] : Is(f, m - 1)
  BY <1>5
<1> DEFINE last == ReconcileBlock(f[m - 1], blocks[m])
           g == [n \in 0..m |-> IF n = m THEN last ELSE f[n]]
<1>7. g \in [0..m -> V \cup {last}]
  <2> SUFFICES ASSUME NEW n \in 0..m, n # m PROVE f[n] \in V
    OBVIOUS
  <2>1. n \in 0..(m - 1)
    BY <1>2
  <2> QED BY <1>6, <2>1
<1>8. \A n \in 0..(m - 1) : n \in 0..m /\ n # m
  BY <1>2
<1>9. \A n \in 0..(m - 1) : g[n] = f[n]
  BY <1>8
<1>10. g[m] = last
  BY <1>2
<1> HIDE DEF g
<1>11. Is(g, m)
  <2> SUFFICES ASSUME NEW n \in 0..m
               PROVE  g[n] = IF n = 0 THEN start ELSE ReconcileBlock(g[n - 1], blocks[n])
    OBVIOUS
  <2>1. CASE n = m
    <3>1. m - 1 \in 0..(m - 1)
      BY <1>2, <1>3
    <3>2. g[m - 1] = f[m - 1]
      BY <1>9, <3>1
    <3> QED BY <1>3, <1>10, <2>1, <3>2
  <2>2. CASE n # m
    <3>1. n \in 0..(m - 1)
      BY <1>2, <2>2
    <3>2. f[n] = IF n = 0 THEN start ELSE ReconcileBlock(f[n - 1], blocks[n])
      BY <1>6, <3>1
    <3>3. CASE n = 0
      BY <1>9, <3>1, <3>2, <3>3
    <3>4. CASE n # 0
      <4>1. n - 1 \in 0..(m - 1)
        BY <3>1, <3>4
      <4> QED BY <1>9, <3>1, <3>2, <3>4, <4>1
    <3> QED BY <3>3, <3>4
  <2> QED BY <2>1, <2>2
<1> HIDE DEF last
<1>12. Has(m)
  BY <1>7, <1>11, Zenon DEF HasStages
<1> QED BY <1>2, <1>12

\* After any number of blocks the pools are still valid at t, and after at least
\* one block they are valid and fit together at the last of them.
LEMMA StagesKeep ==
    ASSUME NEW start \in Pools, NEW t, AreSpendable(start, t), NEW blocks, NEW len \in Nat, NEW f,
           f = [n \in 0..len |-> IF n = 0 THEN start ELSE ReconcileBlock(f[n - 1], blocks[n])]
    PROVE  \A n \in 0..len :
              /\ f[n] \in Pools /\ AreSpendable(f[n], t)
              /\ n # 0 => AreSpendable(f[n], blocks[n]) /\ FitTogether(f[n], blocks[n])
<1>1. f[0] = start
  OBVIOUS
<1>2. \A n \in 1..len : f[n] = ReconcileBlock(f[n - 1], blocks[n])
  OBVIOUS
<1> DEFINE Good(n) == f[n] \in Pools /\ AreSpendable(f[n], t)
           Bad == {n \in 0..len : ~Good(n)}
<1>3. \A n \in 0..len : Good(n)
  <2> SUFFICES ASSUME Bad # {} PROVE FALSE
    BY Zenon
  <2>1. PICK n \in Bad : \A k \in Bad : n <= k
    <3>1. Bad \in SUBSET Nat
      OBVIOUS
    <3> HIDE DEF Bad
    <3> QED BY <3>1, SmallestElement, Zenon
  <2>2. n \in 0..len /\ ~Good(n)
    BY <2>1
  <2>3. n # 0
    BY <1>1, <2>2
  <2>4. n \in 1..len /\ n - 1 \in 0..len /\ ~(n <= n - 1)
    BY <2>2, <2>3
  <2>5. Good(n - 1)
    <3> HIDE DEF Good
    <3> QED BY <2>1, <2>4
  <2>6. f[n] = ReconcileBlock(f[n - 1], blocks[n])
    BY <1>2, <2>4
  <2>7. Good(n)
    BY <2>5, <2>6, BlockIsReconciled, Zenon
  <2> QED BY <2>2, <2>7
<1>4. ASSUME NEW n \in 0..len, n # 0
      PROVE  AreSpendable(f[n], blocks[n]) /\ FitTogether(f[n], blocks[n])
  <2>1. n \in 1..len /\ n - 1 \in 0..len
    BY <1>4
  <2>2. f[n] = ReconcileBlock(f[n - 1], blocks[n])
    BY <1>2, <2>1
  <2>3. Good(n - 1)
    BY <1>3, <2>1
  <2> QED BY <2>2, <2>3, BlockIsReconciled, Zenon
<1> QED BY <1>3, <1>4

\* What the pools are after the blocks of a branch.
LEMMA ReconciledKeeps ==
    ASSUME mempool \in Seq(MemEntry), stempool \in Seq(StemEntry), PoolsAreSpendable,
           NEW branch, Applied(branch) \in Seq(Hash)
    PROVE  /\ Reconciled(branch) \in Pools
           /\ AreSpendable(Reconciled(branch), tip)
           /\ Applied(branch) # <<>> =>
                /\ AreSpendable(Reconciled(branch), Applied(branch)[Len(Applied(branch))])
                /\ FitTogether(Reconciled(branch), Applied(branch)[Len(Applied(branch))])
<1> DEFINE start == [mempool |-> mempool, stempool |-> stempool]
           blocks == Applied(branch)
           len == Len(blocks)
           Is(f) == f = [n \in 0..len |-> IF n = 0 THEN start ELSE ReconcileBlock(f[n - 1], blocks[n])]
           stages == CHOOSE f : Is(f)
<1>1. start \in Pools /\ AreSpendable(start, tip)
  <2>1. start \in Pools
    BY DEF Pools
  <2>2. start.mempool = mempool /\ start.stempool = stempool
    OBVIOUS
  <2> HIDE DEF start
  <2> QED BY <2>1, <2>2 DEF AreSpendable, AllValid, PoolsAreSpendable
<1>2. len \in Nat
  OBVIOUS
<1>3. Reconciled(branch) = stages[len]
  BY DEF Reconciled
<1>4. Is(stages)
  <2>1. \E f : Is(f)
    <3> HIDE DEF start, blocks, len
    <3>1. HasStages(start, blocks, len)
      BY <1>2, StagesExist
    <3>2. PICK V : \E f \in [0..len -> V] : \A n \in 0..len :
             f[n] = IF n = 0 THEN start ELSE ReconcileBlock(f[n - 1], blocks[n])
      BY <3>1, Zenon DEF HasStages
    <3>3. PICK f \in [0..len -> V] : \A n \in 0..len :
             f[n] = IF n = 0 THEN start ELSE ReconcileBlock(f[n - 1], blocks[n])
      BY <3>2, Zenon
    <3>4. Is(f)
      BY <3>3
    <3> HIDE DEF Is
    <3> QED BY <3>4
  <2> HIDE DEF Is
  <2> QED BY <2>1
<1> HIDE DEF stages
<1>5. \A n \in 0..len :
         /\ stages[n] \in Pools /\ AreSpendable(stages[n], tip)
         /\ n # 0 => AreSpendable(stages[n], blocks[n]) /\ FitTogether(stages[n], blocks[n])
  <2> HIDE DEF start, blocks, len
  <2> QED BY <1>1, <1>2, <1>4, StagesKeep, Zenon
<1>6. len \in 0..len /\ (blocks # <<>> => len # 0)
  BY <1>2
<1> HIDE DEF len, blocks
<1>7. /\ stages[len] \in Pools /\ AreSpendable(stages[len], tip)
      /\ blocks # <<>> => AreSpendable(stages[len], blocks[len]) /\ FitTogether(stages[len], blocks[len])
  BY <1>5, <1>6
<1> QED BY <1>3, <1>7 DEF len, blocks

\* A branch consists of blocks, and if it is not empty it ends in its block.
LEMMA BranchEnds ==
    ASSUME NEW h \in Hash, tip \in Hash
    PROVE  /\ Branch(h) \in Seq(Hash)
           /\ Branch(h) # <<>> => Branch(h)[Len(Branch(h))] = h /\ Len(Branch(h)) \in DOMAIN Branch(h)
<1> DEFINE common == {n \in DOMAIN Path[h] : n <= Len(Path[tip]) /\ Path[h][n] = Path[tip][n]}
           c == Cardinality(common)
<1>1. Path[h] \in Seq(Hash) /\ Path[h] # <<>> /\ Path[h][Len(Path[h])] = h
  BY TxAssumption
<1>2. Branch(h) = SubSeq(Path[h], c + 1, Len(Path[h]))
  BY DEF Branch
<1>3. c \in Nat
  <2>1. IsFiniteSet(common)
    BY <1>1, PlacesAreFinite
  <2> HIDE DEF common
  <2> QED BY <2>1, FS_CardinalityType
<1> HIDE DEF c
<1>4. Branch(h) \in Seq(Hash)
  BY <1>1, <1>2, <1>3
<1>5. ASSUME Branch(h) # <<>>
      PROVE  Branch(h)[Len(Branch(h))] = h /\ Len(Branch(h)) \in DOMAIN Branch(h)
  <2>1. Len(Branch(h)) \in Nat /\ Len(Branch(h)) # 0 /\ DOMAIN Branch(h) = 1..Len(Branch(h))
    BY <1>4, <1>5
  <2>2. Len(Branch(h)) = Len(Path[h]) - c
    BY <1>1, <1>2, <1>3, <2>1
  <2>3. Branch(h)[Len(Branch(h))] = Path[h][Len(Path[h])]
    <3>1. c + 1 \in 1..Len(Path[h]) /\ c \in Int /\ Len(Path[h]) \in Nat
      BY <1>1, <1>3, <2>1, <2>2
    <3>2. \A i \in 1..(Len(Path[h]) - c) : SubSeq(Path[h], c + 1, Len(Path[h]))[i] = Path[h][c + i]
      BY <1>1, <3>1, SubSeqProperties
    <3>3. Len(Branch(h)) \in 1..(Len(Path[h]) - c) /\ c + Len(Branch(h)) = Len(Path[h])
      BY <2>1, <2>2, <3>1
    <3> QED BY <1>2, <3>2, <3>3, Zenon
  <2> QED BY <1>1, <2>1, <2>3
<1> QED BY <1>4, <1>5

\* What is applied of a branch are blocks.
LEMMA AppliedAreBlocks ==
    ASSUME NEW branch \in Seq(Hash)
    PROVE  Applied(branch) \in Seq(Hash)
<1> DEFINE bad == {n \in DOMAIN branch : branch[n] \notin GoodBlocks}
           first == CHOOSE n \in bad : \A m \in bad : n <= m
<1>1. CASE bad = {}
  BY <1>1 DEF Applied
<1>2. CASE bad # {}
  <2>1. first \in bad
    <3>1. bad \in SUBSET Nat
      OBVIOUS
    <3> HIDE DEF bad
    <3> QED BY <1>2, <3>1, SmallestElement, Zenon
  <2>2. first \in 1..Len(branch)
    <3> HIDE DEF first
    <3> QED BY <2>1
  <2>3. Applied(branch) = SubSeq(branch, 1, first - 1)
    BY <1>2, Zenon DEF Applied
  <2> HIDE DEF first
  <2> QED BY <2>2, <2>3
<1> QED BY <1>1, <1>2

-----------------------------------------------------------------------------
(* The invariant *)

\* Dandelion's thread has something to do when it is about to fluff.
PoolInv ==
    /\ TypeOK
    /\ pc \in {"unsent", "expired"} => todo # <<>>
    /\ PoolsAreSpendable

\* What is left after a removal was there.
LEMMA RemovalKeeps ==
    ASSUME NEW T, NEW pool \in Seq(T), NEW txs, NEW h, AllValid(pool, h)
    PROVE  RemoveTransactions(pool, txs) \in Seq(T) /\ AllValid(RemoveTransactions(pool, txs), h)
<1> DEFINE left == {i \in DOMAIN pool : pool[i].tx \in txs => \E j \in 1..(i - 1) : pool[j].tx = pool[i].tx}
<1>1. left \in SUBSET DOMAIN pool
  OBVIOUS
<1>2. RemoveTransactions(pool, txs) = Keep(pool, left)
  BY DEF RemoveTransactions
<1> HIDE DEF left
<1>3. /\ Keep(pool, left) \in Seq(T)
      /\ \A n \in DOMAIN Keep(pool, left) : \E i \in left : Keep(pool, left)[n] = pool[i]
  BY <1>1, KeepType
<1> QED BY <1>1, <1>2, <1>3 DEF AllValid

\* What is appended to a pool has to be valid.
LEMMA AppendKeeps ==
    ASSUME NEW T, NEW pool \in Seq(T), NEW e \in T, NEW h, AllValid(pool, h), IsValid(e.tx, h)
    PROVE  Append(pool, e) \in Seq(T) /\ AllValid(Append(pool, e), h)
<1>1. Append(pool, e) \in Seq(T)
  OBVIOUS
<1>2. /\ DOMAIN Append(pool, e) = 1..(Len(pool) + 1) /\ Len(pool) \in Nat
      /\ \A i \in 1..Len(pool) : Append(pool, e)[i] = pool[i]
      /\ Append(pool, e)[Len(pool) + 1] = e
      /\ DOMAIN pool = 1..Len(pool)
  OBVIOUS
<1>3. ASSUME NEW i \in DOMAIN Append(pool, e) PROVE IsValid(Append(pool, e)[i].tx, h)
  <2>1. CASE i \in 1..Len(pool)
    BY <1>2, <2>1 DEF AllValid
  <2>2. CASE i \notin 1..Len(pool)
    <3>1. i = Len(pool) + 1
      BY <1>2, <2>2
    <3> QED BY <1>2, <3>1
  <2> QED BY <2>1, <2>2
<1> QED BY <1>1, <1>3 DEF AllValid

\* The pools are sequences of entries that are valid at the tip.
LEMMA PoolsOf ==
    ASSUME PoolInv
    PROVE  /\ mempool \in Seq(MemEntry) /\ stempool \in Seq(StemEntry)
           /\ AllValid(mempool, tip) /\ AllValid(stempool, tip)
           /\ IsPool(mempool) /\ IsPool(stempool)
<1>1. mempool \in Seq(MemEntry) /\ stempool \in Seq(StemEntry)
  BY DEF PoolInv, TypeOK, MemEntry, StemEntry
<1>2. AllValid(mempool, tip) /\ AllValid(stempool, tip)
  BY DEF PoolInv, PoolsAreSpendable, AllValid
<1>3. \A e \in MemEntry \cup StemEntry : e.tx \in SUBSET Kernel
  BY DEF MemEntry, StemEntry
<1>4. \A i \in DOMAIN mempool : mempool[i] \in MemEntry
  BY <1>1
<1>5. \A i \in DOMAIN stempool : stempool[i] \in StemEntry
  BY <1>1
<1> QED BY <1>1, <1>2, <1>3, <1>4, <1>5 DEF IsPool

\* The aggregate of transactions that are valid is valid: its inputs and outputs
\* are inputs and outputs of its parts.
LEMMA AggregateIsValid ==
    ASSUME NEW entries, IsPool(entries), NEW h, AllValid(entries, h)
    PROVE  KernelsOf(entries) \in SUBSET Kernel /\ IsValid(KernelsOf(entries), h)
<1> DEFINE all == KernelsOf(entries)
<1>1. \A k : k \in all <=> \E i \in DOMAIN entries : k \in entries[i].tx
  BY DEF KernelsOf
<1>2. all \in SUBSET Kernel
  BY <1>1 DEF IsPool
<1> HIDE DEF all
<1>3. \A tx \in SUBSET Kernel : \A c :
         /\ c \in Ins[tx] <=> (\E k \in tx : c \in Spends[k]) /\ ~(\E k \in tx : c \in Creates[k])
         /\ c \in Outs[tx] <=> (\E k \in tx : c \in Creates[k]) /\ ~(\E k \in tx : c \in Spends[k])
  BY InsOfKernels
<1>4. ASSUME NEW c \in Ins[all] PROVE c \in Unspent[h]
  <2>1. PICK k \in all : c \in Spends[k]
    BY <1>2, <1>3, <1>4
  <2>2. PICK i \in DOMAIN entries : k \in entries[i].tx
    BY <1>1, <2>1
  <2>3. entries[i].tx \in SUBSET Kernel /\ entries[i].tx \in SUBSET all
    BY <1>1, <2>2 DEF IsPool
  <2>4. c \in Ins[entries[i].tx]
    BY <1>2, <1>3, <1>4, <2>1, <2>2, <2>3
  <2> QED BY <2>2, <2>4 DEF AllValid, IsValid
<1>5. ASSUME NEW c \in Outs[all] PROVE c \notin Unspent[h]
  <2>1. PICK k \in all : c \in Creates[k]
    BY <1>2, <1>3, <1>5, SMTT(30)
  <2>2. PICK i \in DOMAIN entries : k \in entries[i].tx
    BY <1>1, <2>1
  <2>3. entries[i].tx \in SUBSET Kernel /\ entries[i].tx \in SUBSET all
    BY <1>1, <2>2 DEF IsPool
  <2>4. c \in Outs[entries[i].tx]
    BY <1>2, <1>3, <1>5, <2>1, <2>2, <2>3, SMTT(30)
  <2> QED BY <2>2, <2>4 DEF AllValid, IsValid
<1> QED BY <1>2, <1>4, <1>5 DEF all, IsValid

\* What Dandelion chooses from the stem pool are entries of it.
LEMMA ChosenAreEntries ==
    ASSUME PoolInv, NEW status
    PROVE  LET chosen == FindValidTransactions(stempool, WithStatus(status), mempool, tip)
           IN  /\ chosen \in Seq(StemEntry)
               /\ KernelsOf(chosen) \in SUBSET Kernel
               /\ IsValid(KernelsOf(chosen), tip)
<1> DEFINE chosen == FindValidTransactions(stempool, WithStatus(status), mempool, tip)
<1>1. /\ stempool \in Seq(StemEntry) /\ AllValid(stempool, tip) /\ IsPool(stempool)
  BY PoolsOf
<1>2. WithStatus(status) \in SUBSET DOMAIN stempool
  BY DEF WithStatus
<1>3. PICK len \in Nat : DOMAIN stempool = 1..len
  BY <1>1
<1>4. PICK some \in SUBSET WithStatus(status) : chosen = Keep(stempool, some)
  <2>1. WithStatus(status) \in SUBSET (1..len)
    BY <1>2, <1>3
  <2>2. \E some \in SUBSET WithStatus(status) :
           /\ chosen = Keep(stempool, some)
           /\ some # {} => IsValidTogether(stempool, some, mempool, tip)
    BY <2>1, FoundIsValid, ZenonT(30)
  <2> QED BY <2>2
<1> HIDE DEF chosen
<1>5. some \in SUBSET DOMAIN stempool
  BY <1>2, <1>4
<1>6. chosen \in Seq(StemEntry) /\ \A n \in DOMAIN chosen : \E i \in some : chosen[n] = stempool[i]
  BY <1>1, <1>4, <1>5, KeepType
<1>7. AllValid(chosen, tip) /\ IsPool(chosen)
  BY <1>1, <1>5, <1>6 DEF AllValid, IsPool
<1> QED BY <1>6, <1>7, AggregateIsValid DEF chosen

\* Adding a valid transaction to the memory pool.
LEMMA MemPoolGrows ==
    ASSUME PoolInv, NEW tx \in SUBSET Kernel, IsValid(tx, tip), NEW txs, tip' = tip,
           mempool' = Append(mempool, Entry(tx, "FLUFFED")),
           stempool' = RemoveTransactions(stempool, txs)
    PROVE  /\ mempool' \in Seq(MemEntry) /\ stempool' \in Seq(StemEntry)
           /\ PoolsAreSpendable'
<1>1. /\ mempool \in Seq(MemEntry) /\ stempool \in Seq(StemEntry)
      /\ AllValid(mempool, tip) /\ AllValid(stempool, tip)
  BY PoolsOf
<1>2. Entry(tx, "FLUFFED") \in MemEntry /\ Entry(tx, "FLUFFED").tx = tx
  BY DEF Entry, MemEntry
<1>3. mempool' \in Seq(MemEntry) /\ AllValid(mempool', tip)
  <2> DEFINE e == Entry(tx, "FLUFFED")
  <2>1. e \in MemEntry /\ IsValid(e.tx, tip)
    BY <1>2
  <2> HIDE DEF e
  <2>2. Append(mempool, e) \in Seq(MemEntry) /\ AllValid(Append(mempool, e), tip)
    BY <1>1, <2>1, AppendKeeps
  <2> QED BY <2>2 DEF e
<1>4. stempool' \in Seq(StemEntry) /\ AllValid(stempool', tip)
  BY <1>1, RemovalKeeps
<1> QED BY <1>3, <1>4 DEF AllValid, PoolsAreSpendable

\* Adding a valid transaction to the stem pool.
LEMMA StemPoolGrows ==
    ASSUME PoolInv, NEW tx \in SUBSET Kernel, IsValid(tx, tip), tip' = tip, AddToStemPool(tx)
    PROVE  /\ mempool' \in Seq(MemEntry) /\ stempool' \in Seq(StemEntry)
           /\ PoolsAreSpendable'
<1>1. /\ mempool \in Seq(MemEntry) /\ stempool \in Seq(StemEntry)
      /\ AllValid(mempool, tip) /\ AllValid(stempool, tip)
  BY PoolsOf
<1>2. PICK status \in {"TO_STEM", "TO_FLUFF"} : stempool' = Append(stempool, Entry(tx, status))
  BY DEF AddToStemPool
<1> DEFINE e == Entry(tx, status)
<1>3. e \in StemEntry /\ IsValid(e.tx, tip)
  <2>1. e.tx = tx
    BY DEF Entry
  <2>2. status \in Status \ {"FLUFFED"}
    BY <1>2 DEF Status
  <2>3. e \in StemEntry
    BY <2>2 DEF Entry, StemEntry
  <2> QED BY <2>1, <2>3
<1> HIDE DEF e
<1>4. Append(stempool, e) \in Seq(StemEntry) /\ AllValid(Append(stempool, e), tip)
  BY <1>1, <1>3, AppendKeeps
<1>5. mempool' = mempool
  BY DEF AddToStemPool
<1> QED BY <1>1, <1>2, <1>4, <1>5 DEF e, AllValid, PoolsAreSpendable

\* The entries that were stemmed change their status and nothing else.
LEMMA StatusChanges ==
    ASSUME PoolInv, NEW chosen, tip' = tip, mempool' = mempool,
           stempool' = ChangeStatus(chosen, "TO_STEM", "STEMMED")
    PROVE  /\ mempool' \in Seq(MemEntry) /\ stempool' \in Seq(StemEntry)
           /\ PoolsAreSpendable'
<1>1. /\ mempool \in Seq(MemEntry) /\ stempool \in Seq(StemEntry)
      /\ AllValid(mempool, tip) /\ AllValid(stempool, tip)
  BY PoolsOf
<1>2. PICK len \in Nat : DOMAIN stempool = 1..len
  BY <1>1
<1>3. /\ DOMAIN stempool' = 1..len
      /\ \A i \in 1..len : stempool'[i] = stempool[i] \/ stempool'[i] = Entry(stempool[i].tx, "STEMMED")
  BY <1>2 DEF ChangeStatus
<1>4. \A i \in 1..len : stempool[i] \in StemEntry
  BY <1>1, <1>2
<1>5. \A e \in StemEntry : Entry(e.tx, "STEMMED") \in StemEntry /\ Entry(e.tx, "STEMMED").tx = e.tx
  BY DEF StemEntry, Entry, Status
<1>6. \A i \in 1..len : stempool'[i] \in StemEntry /\ stempool'[i].tx = stempool[i].tx
  BY <1>3, <1>4, <1>5
<1>7. stempool' \in Seq(StemEntry)
  <2>1. stempool' = [i \in 1..len |-> stempool'[i]]
    BY <1>2 DEF ChangeStatus
  <2> QED BY <1>6, <2>1, IsASeq
<1> QED BY <1>1, <1>2, <1>3, <1>6, <1>7 DEF AllValid, PoolsAreSpendable

\* The first transaction to do is added if it is valid.
LEMMA FirstIsAdded ==
    ASSUME PoolInv, todo # <<>>, AddFirst, tip' = tip
    PROVE  /\ mempool' \in Seq(MemEntry) /\ stempool' \in Seq(StemEntry)
           /\ announced' \subseteq SUBSET Kernel
           /\ PoolsAreSpendable'
<1> DEFINE tx == Head(todo)
<1>1. tx \in SUBSET Kernel /\ announced \subseteq SUBSET Kernel
  BY DEF PoolInv, TypeOK
<1>2. CASE CanAddToMemPool(tx)
  <2>1. /\ mempool' = Append(mempool, Entry(tx, "FLUFFED"))
        /\ stempool' = RemoveTransactions(stempool, {tx})
        /\ announced' = announced \cup {tx}
    BY <1>2 DEF AddFirst, AddToMemPool
  <2>2. IsValid(tx, tip)
    BY <1>2 DEF CanAddToMemPool, IsAcceptable
  <2> HIDE DEF tx
  <2> QED BY <1>1, <2>1, <2>2, MemPoolGrows, Zenon
<1>3. CASE ~CanAddToMemPool(tx)
  <2>1. mempool' = mempool /\ stempool' = stempool /\ announced' = announced
    BY <1>3 DEF AddFirst
  <2>2. mempool \in Seq(MemEntry) /\ stempool \in Seq(StemEntry) /\ PoolsAreSpendable
    BY PoolsOf DEF PoolInv
  <2> QED BY <1>1, <2>1, <2>2 DEF PoolsAreSpendable
<1> QED BY <1>2, <1>3

\* What a block leaves in the pools.
LEMMA BlockLeaves ==
    ASSUME PoolInv, NEW h \in Hash, ProcessBlock(h)
    PROVE  /\ mempool' \in Seq(MemEntry) /\ stempool' \in Seq(StemEntry)
           /\ tip' \in stored' /\ stored' \subseteq Hash
           /\ PoolsAreSpendable'
           /\ tip' # tip => /\ AreValid(mempool', tip')
                            /\ IsValidTogether(stempool', DOMAIN stempool', mempool', tip')
<1> DEFINE branch == Branch(h)
           succeeds == Applied(branch) = branch
           pools == Reconciled(branch)
<1>1. /\ mempool \in Seq(MemEntry) /\ stempool \in Seq(StemEntry) /\ PoolsAreSpendable
      /\ tip \in stored /\ stored \subseteq Hash
  BY PoolsOf DEF PoolInv, TypeOK
<1>2. /\ branch # <<>>
      /\ mempool' = pools.mempool /\ stempool' = pools.stempool
      /\ stored' = IF succeeds THEN stored \cup Range(branch) ELSE stored
      /\ tip' = tip \/ (tip' = h /\ succeeds)
  BY DEF ProcessBlock
<1>3. /\ branch \in Seq(Hash)
      /\ branch[Len(branch)] = h /\ Len(branch) \in DOMAIN branch
  BY <1>1, <1>2, BranchEnds
<1>4. Applied(branch) \in Seq(Hash)
  BY <1>3, AppliedAreBlocks
<1>5. /\ pools \in Pools /\ AreSpendable(pools, tip)
      /\ succeeds => AreSpendable(pools, h) /\ FitTogether(pools, h)
  <2> HIDE DEF branch
  <2>1. /\ pools \in Pools /\ AreSpendable(pools, tip)
        /\ Applied(branch) # <<>> => /\ AreSpendable(pools, Applied(branch)[Len(Applied(branch))])
                                     /\ FitTogether(pools, Applied(branch)[Len(Applied(branch))])
    BY <1>1, <1>4, ReconciledKeeps
  <2> QED BY <1>2, <1>3, <2>1
<1>6. Range(branch) \subseteq Hash /\ h \in Range(branch)
  BY <1>3 DEF Range
<1> HIDE DEF branch, succeeds, pools
<1>7. mempool' \in Seq(MemEntry) /\ stempool' \in Seq(StemEntry)
  BY <1>2, <1>5 DEF Pools
<1>8. tip' \in stored' /\ stored' \subseteq Hash
  BY <1>1, <1>2, <1>6
<1>9. AreSpendable(pools, tip') /\ (tip' # tip => FitTogether(pools, tip'))
  BY <1>2, <1>5, SMTT(30)
<1> QED BY <1>2, <1>7, <1>8, <1>9 DEF AreSpendable, FitTogether, AllValid, PoolsAreSpendable

\* Every step keeps the invariant.
LEMMA NextKeepsPoolInv ==
    ASSUME PoolInv, [Next]_vars
    PROVE  PoolInv'
<1> USE DEF MemEntry, StemEntry
<1>1. /\ mempool \in Seq(MemEntry) /\ stempool \in Seq(StemEntry) /\ PoolsAreSpendable
      /\ tip \in stored /\ stored \subseteq Hash /\ announced \subseteq SUBSET Kernel
      /\ pc \in {"stem", "unsent", "fluff", "expire", "expired"} /\ todo \in Seq(SUBSET Kernel)
      /\ pc \in {"unsent", "expired"} => todo # <<>>
  BY DEF PoolInv, TypeOK
<1>2. \A tx \in Received : tx \in SUBSET Kernel
  BY TxAssumption
<1> USE DEF PoolInv, TypeOK
<1>3. ASSUME NEW tx \in Received, ReceiveTransaction(tx) PROVE PoolInv'
  <2>1. /\ IsValid(tx, tip) /\ tx \in SUBSET Kernel /\ tip' = tip
        /\ mempool' = Append(mempool, Entry(tx, "FLUFFED")) /\ stempool' = RemoveTransactions(stempool, {tx})
    BY <1>2, <1>3 DEF ReceiveTransaction, CanAddToMemPool, IsAcceptable, AddToMemPool
  <2>2. mempool' \in Seq(MemEntry) /\ stempool' \in Seq(StemEntry) /\ PoolsAreSpendable'
    BY <2>1, MemPoolGrows, Zenon
  <2> QED BY <1>1, <1>3, <2>1, <2>2, SMTT(30) DEF ReceiveTransaction
<1>4. ASSUME NEW tx \in Received, ReceiveStemTransaction(tx) \/ PushTransaction(tx) PROVE PoolInv'
  <2>1. IsValid(tx, tip) /\ tx \in SUBSET Kernel /\ tip' = tip /\ AddToStemPool(tx)
    BY <1>2, <1>4 DEF ReceiveStemTransaction, PushTransaction, IsAcceptable
  <2>2. mempool' \in Seq(MemEntry) /\ stempool' \in Seq(StemEntry) /\ PoolsAreSpendable'
    BY <2>1, StemPoolGrows, Zenon
  <2>3. UNCHANGED <<tip, stored, pc, todo>> /\ announced' \subseteq SUBSET Kernel
    BY <1>1, <1>4, <2>1 DEF ReceiveStemTransaction, PushTransaction
  <2> QED BY <1>1, <2>2, <2>3
<1>5. CASE ProcessStemPhase
  <2> DEFINE chosen == FindValidTransactions(stempool, WithStatus("TO_STEM"), mempool, tip)
  <2>1. KernelsOf(chosen) \in SUBSET Kernel
    BY ChosenAreEntries
  <2>2. /\ stempool' = ChangeStatus(chosen, "TO_STEM", "STEMMED")
        /\ \/ pc' = "fluff" /\ todo' = <<>>
           \/ pc' = "unsent" /\ todo' = <<KernelsOf(chosen)>>
        /\ UNCHANGED <<tip, stored, mempool, announced>>
    BY <1>5 DEF ProcessStemPhase
  <2> HIDE DEF chosen
  <2>3. mempool' \in Seq(MemEntry) /\ stempool' \in Seq(StemEntry) /\ PoolsAreSpendable'
    BY <2>2, StatusChanges, Zenon
  <2>4. todo' \in Seq(SUBSET Kernel) /\ (pc' \in {"unsent", "expired"} => todo' # <<>>)
    <3>1. CASE pc' = "fluff" /\ todo' = <<>>
      BY <3>1
    <3>2. CASE pc' = "unsent" /\ todo' = <<KernelsOf(chosen)>>
      BY <2>1, <3>2
    <3> QED BY <2>2, <3>1, <3>2
  <2>5. pc' \in {"stem", "unsent", "fluff", "expire", "expired"}
    BY <2>2
  <2> QED BY <1>1, <2>2, <2>3, <2>4, <2>5
<1>6. CASE SkipStemPhase
  BY <1>1, <1>6 DEF SkipStemPhase, PoolsAreSpendable
<1>7. CASE FluffUnsent
  <2>1. /\ pc = "unsent" /\ AddFirst /\ pc' = "fluff" /\ todo' = <<>> /\ UNCHANGED <<tip, stored>>
    BY <1>7 DEF FluffUnsent
  <2>2. /\ mempool' \in Seq(MemEntry) /\ stempool' \in Seq(StemEntry) /\ PoolsAreSpendable'
        /\ announced' \subseteq SUBSET Kernel
    BY <1>1, <2>1, FirstIsAdded
  <2> QED BY <1>1, <2>1, <2>2
<1>8. CASE ProcessFluffPhase
  <2> DEFINE chosen == FindValidTransactions(stempool, WithStatus("TO_FLUFF"), mempool, tip)
             tx == KernelsOf(chosen)
             txs == {chosen[i].tx : i \in DOMAIN chosen}
  <2>1. tx \in SUBSET Kernel /\ IsValid(tx, tip)
    BY ChosenAreEntries
  <2>2. /\ pc' = "expire" /\ UNCHANGED <<tip, stored, todo>>
        /\ \/ UNCHANGED <<mempool, stempool, announced>>
           \/ /\ mempool' = Append(mempool, Entry(tx, "FLUFFED"))
              /\ stempool' = RemoveTransactions(stempool, txs)
              /\ announced' = announced \cup {tx}
    BY <1>8, SMTT(30) DEF ProcessFluffPhase
  <2> HIDE DEF tx, txs
  <2>3. CASE UNCHANGED <<mempool, stempool, announced>>
    BY <1>1, <2>2, <2>3 DEF PoolsAreSpendable
  <2>4. CASE /\ mempool' = Append(mempool, Entry(tx, "FLUFFED"))
             /\ stempool' = RemoveTransactions(stempool, txs)
             /\ announced' = announced \cup {tx}
    <3>1. mempool' \in Seq(MemEntry) /\ stempool' \in Seq(StemEntry) /\ PoolsAreSpendable'
      BY <2>1, <2>2, <2>4, MemPoolGrows, Zenon
    <3> QED BY <1>1, <2>1, <2>2, <2>4, <3>1
  <2> QED BY <2>2, <2>3, <2>4
<1>9. ASSUME NEW n \in 0..Len(stempool), ExpireEntries(n) PROVE PoolInv'
  <2>1. /\ todo' = [i \in 1..n |-> stempool[i].tx] /\ pc' = IF todo' = <<>> THEN "stem" ELSE "expired"
        /\ UNCHANGED <<tip, stored, mempool, stempool, announced>>
    BY <1>9 DEF ExpireEntries, GetExpiredTransactions
  <2>2. n \in Nat /\ \A i \in 1..n : stempool[i] \in StemEntry
    <3>1. n \in Nat /\ \A i \in 1..n : i \in 1..Len(stempool)
      BY <1>1
    <3>2. \A i \in 1..Len(stempool) : stempool[i] \in StemEntry
      <4> HIDE DEF StemEntry
      <4> QED BY <1>1
    <3> QED BY <3>1, <3>2
  <2>3. \A i \in 1..n : stempool[i].tx \in SUBSET Kernel
    BY <2>2
  <2>4. todo' \in Seq(SUBSET Kernel)
    BY <2>1, <2>2, <2>3, IsASeq
  <2>5. pc' \in {"stem", "expired"} /\ (pc' \in {"unsent", "expired"} => todo' # <<>>)
    BY <2>1, Zenon
  <2>6. mempool' \in Seq(MemEntry) /\ stempool' \in Seq(StemEntry) /\ PoolsAreSpendable'
    BY <1>1, <2>1 DEF PoolsAreSpendable
  <2> QED BY <1>1, <2>1, <2>4, <2>5, <2>6, Zenon
<1>10. CASE FluffExpired
  <2>1. /\ pc = "expired" /\ AddFirst /\ todo' = Tail(todo) /\ UNCHANGED <<tip, stored>>
        /\ pc' = IF todo' = <<>> THEN "stem" ELSE "expired"
    BY <1>10 DEF FluffExpired
  <2>2. /\ mempool' \in Seq(MemEntry) /\ stempool' \in Seq(StemEntry) /\ PoolsAreSpendable'
        /\ announced' \subseteq SUBSET Kernel
    BY <1>1, <2>1, FirstIsAdded
  <2>3. todo' \in Seq(SUBSET Kernel)
    BY <1>1, <2>1
  <2>4. pc' \in {"stem", "expired"} /\ (pc' \in {"unsent", "expired"} => todo' # <<>>)
    BY <2>1
  <2> QED BY <1>1, <2>1, <2>2, <2>3, <2>4
<1>11. ASSUME NEW h \in Hash, ProcessBlock(h) PROVE PoolInv'
  <2>1. /\ mempool' \in Seq(MemEntry) /\ stempool' \in Seq(StemEntry) /\ PoolsAreSpendable'
        /\ tip' \in stored' /\ stored' \subseteq Hash
    BY <1>11, BlockLeaves, Zenon
  <2>2. UNCHANGED <<announced, pc, todo>>
    BY <1>11 DEF ProcessBlock
  <2> QED BY <1>1, <2>1, <2>2
<1>12. CASE UNCHANGED vars
  BY <1>1, <1>12 DEF vars, PoolsAreSpendable
<1> QED BY <1>3, <1>4, <1>5, <1>6, <1>7, <1>8, <1>9, <1>10, <1>11, <1>12, Zenon DEF Next, Dandelion

\* The pools are empty at first.
LEMMA InitPoolInv == Init => PoolInv
  BY TxAssumption DEF Init, PoolInv, TypeOK, PoolsAreSpendable

\* TransactionPool: whatever is received, stemmed, fluffed, expired, and whatever
\* blocks come, win, lose or fail, each transaction of both pools spends outputs
\* that are unspent at the confirmed tip, and creates new ones.
THEOREM PoolsStaySpendable == Spec => []PoolsAreSpendable
<1>1. Init => PoolInv
  BY InitPoolInv
<1>2. PoolInv /\ [Next]_vars => PoolInv'
  BY NextKeepsPoolInv
<1>3. PoolInv => PoolsAreSpendable
  BY DEF PoolInv
<1> QED BY <1>1, <1>2, <1>3, PTL DEF Spec

\* TransactionPool::ReconcileBlock: the pools that a new tip leaves fit into one
\* block together, after any number of blocks of the branch that won.
THEOREM PoolsFitAfterBlocks == Spec => PoolsFitTogetherAfterBlock
<1>1. Init => PoolInv
  BY InitPoolInv
<1>2. PoolInv /\ [Next]_vars => PoolInv'
  BY NextKeepsPoolInv
<1>3. ASSUME PoolInv, [Next]_vars, tip' # tip
      PROVE  /\ AreValid(mempool', tip')
             /\ IsValidTogether(stempool', DOMAIN stempool', mempool', tip')
  <2>1. PICK h \in Hash : ProcessBlock(h)
    BY <1>3 DEF Next, vars, Dandelion, ReceiveTransaction, ReceiveStemTransaction, PushTransaction,
                ProcessStemPhase, SkipStemPhase, FluffUnsent, ProcessFluffPhase, ExpireEntries, FluffExpired
  <2> QED BY <1>3, <2>1, BlockLeaves, SMTT(30)
<1>4. PoolInv /\ [Next]_vars
      => [tip' /= tip => /\ AreValid(mempool', tip')
                         /\ IsValidTogether(stempool', DOMAIN stempool', mempool', tip')]_vars
  BY <1>3
<1> QED BY <1>1, <1>2, <1>4, PTL DEF Spec, PoolsFitTogetherAfterBlock
=============================================================================
