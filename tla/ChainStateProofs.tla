-------------------------- MODULE ChainStateProofs --------------------------
(***************************************************************************)
(* For every block tree, all roots the headers commit to, every number of  *)
(* threads and size of the caches: the confirmed chain stays linked and so *)
(* does the candidate chain up to every consistent header, the candidate   *)
(* chain is the heaviest one known, the TxHashSet follows the confirmed    *)
(* tip, rewinds find their blocks, and no chain loses work.                *)
(***************************************************************************)
EXTENDS ChainState, SequenceTheorems, FiniteSetTheorems, WellFoundedInduction, TLAPS

-----------------------------------------------------------------------------
(* The block tree *)

\* A set of naturals has a smallest element; proofs by induction below look at
\* the smallest counterexample.
LEMMA SmallestElement ==
    ASSUME NEW S \in SUBSET Nat, S /= {}
    PROVE  \E x \in S : \A y \in S : x <= y
<1> DEFINE R == OpToRel(<, Nat)
<1>1. IsWellFoundedOn(R, Nat)
  BY NatLessThanWellFounded
<1>2. \E x \in S : \A y \in S : ~(<<y, x>> \in R)
  <2> HIDE DEF R
  <2> QED BY <1>1, WFMin
<1>3. R = {ss \in Nat \X Nat : ss[1] < ss[2]}
  BY DEF OpToRel
<1>4. PICK x \in S : \A y \in S : ~(<<y, x>> \in R)
  BY <1>2
<1>5. \A y \in S : x <= y
  <2> SUFFICES ASSUME NEW y \in S PROVE x <= y
    OBVIOUS
  <2>1. <<y, x>> \notin {ss \in Nat \X Nat : ss[1] < ss[2]}
    BY <1>3, <1>4
  <2> QED BY <2>1
<1> QED BY <1>5

\* A block comes right after its parent's chain.
LEMMA PathOfParent ==
    ASSUME NEW h \in Hash
    PROVE  /\ Path[h] \in Seq(Hash)
           /\ Len(Path[h]) \in Nat \ {0}
           /\ Path[h][Len(Path[h])] = h
           /\ h = Genesis <=> Len(Path[h]) = 1
           /\ h /= Genesis => /\ Prev(h) \in Hash
                              /\ Len(Path[Prev(h)]) = Len(Path[h]) - 1
                              /\ Path[h] = Append(Path[Prev(h)], h)
<1>1. Path[h] \in Seq(Hash)
  BY TreeAssumption
<1>2. CASE h = Genesis
  BY <1>1, <1>2, TreeAssumption
<1>3. CASE h /= Genesis
  <2>1. Len(Path[h]) > 1 /\ Path[h] = Append(Path[Prev(h)], h)
    BY <1>3, TreeAssumption
  <2>2. Prev(h) \in Hash
    BY <1>1, <2>1 DEF Prev
  <2>3. Path[Prev(h)] \in Seq(Hash)
    BY <2>2, TreeAssumption
  <2> QED BY <1>1, <1>3, <2>1, <2>2, <2>3
<1> QED BY <1>2, <1>3

\* Every ancestor's chain is a prefix.
LEMMA PathOfAncestor ==
    ASSUME NEW h \in Hash, NEW n \in 1..Len(Path[h])
    PROVE  /\ Path[h][n] \in Hash
           /\ Path[Path[h][n]] = SubSeq(Path[h], 1, n)
           /\ Len(Path[Path[h][n]]) = n
<1> DEFINE Good(g, i) == Path[Path[g][i]] = SubSeq(Path[g], 1, i)
<1> DEFINE Bad == {l \in Nat : \E g \in Hash : /\ Len(Path[g]) = l
                                               /\ \E i \in 1..l : ~Good(g, i)}
<1>1. Bad = {}
  <2> SUFFICES ASSUME Bad /= {} PROVE FALSE
    OBVIOUS
  <2>1. PICK l \in Bad : \A m \in Bad : l <= m
    BY SmallestElement
  <2>2. PICK g \in Hash, i \in 1..l : Len(Path[g]) = l /\ ~Good(g, i)
    BY <2>1
  <2>3. CASE i = l
    <3>1. Path[g][i] = g
      BY <2>2, <2>3, PathOfParent
    <3>2. SubSeq(Path[g], 1, i) = Path[g]
      BY <2>2, <2>3, PathOfParent
    <3> QED BY <2>2, <3>1, <3>2
  <2>4. CASE i /= l
    <3>1. i < l /\ g /= Genesis
      BY <2>2, <2>4, PathOfParent
    <3> DEFINE p == Prev(g)
    <3>2. /\ p \in Hash
          /\ Len(Path[p]) = l - 1
          /\ Path[g] = Append(Path[p], g)
          /\ Path[p] \in Seq(Hash)
      BY <2>2, <3>1, PathOfParent
    <3> HIDE DEF p
    <3>3. l - 1 \notin Bad
      BY <2>1
    <3>4. Good(p, i)
      <4>1. l - 1 \in Nat /\ i \in 1..(l - 1)
        BY <3>1
      <4> QED BY <3>2, <3>3, <4>1, Zenon
    <3>5. Path[g][i] = Path[p][i]
      BY <3>1, <3>2
    <3>6. SubSeq(Path[g], 1, i) = SubSeq(Path[p], 1, i)
      BY <3>1, <3>2
    <3> QED BY <2>2, <3>4, <3>5, <3>6
  <2> QED BY <2>3, <2>4
<1>2. Path[h] \in Seq(Hash) /\ Len(Path[h]) \in Nat
  BY PathOfParent
<1>3. Good(h, n)
  BY <1>1, <1>2
<1> QED BY <1>2, <1>3

\* Genesis is the first entry of every chain, and only the first.
LEMMA GenesisIsFirst ==
    ASSUME NEW h \in Hash
    PROVE  /\ Path[h][1] = Genesis
           /\ \A n \in 2..Len(Path[h]) : Path[h][n] /= Genesis
<1>1. Len(Path[h]) \in Nat \ {0}
  BY PathOfParent
<1>2. \A n \in 1..Len(Path[h]) : Path[h][n] \in Hash /\ Len(Path[Path[h][n]]) = n
  BY PathOfAncestor
<1>3. ASSUME NEW n \in 2..Len(Path[h]) PROVE Path[h][n] /= Genesis
  <2>1. Path[h][n] \in Hash /\ Len(Path[Path[h][n]]) = n
    BY <1>1, <1>2
  <2> QED BY <2>1, PathOfParent
<1>a. \A g \in Hash : Len(Path[g]) = 1 => g = Genesis
  BY PathOfParent
<1>4. Path[h][1] = Genesis
  <2>0. 1 \in 1..Len(Path[h])
    BY <1>1
  <2>1. Path[h][1] \in Hash /\ Len(Path[Path[h][1]]) = 1
    BY <1>2, <2>0, Zenon
  <2> QED BY <1>a, <2>1, Zenon
<1> QED BY <1>3, <1>4

-----------------------------------------------------------------------------
(* Chains *)

\* A chain that lists the ancestors of its tip.
Linked(c) == c \in Seq(Hash) /\ c /= << >> /\ c = Path[Tip(c)]

\* The first entries of a linked chain are the chain of their last entry.
LEMMA PrefixOfLinked ==
    ASSUME NEW c, Linked(c), NEW x \in Hash, IsOnChain(c, x)
    PROVE  /\ FirstOf(c, Len(Path[x])) = Path[x]
           /\ Len(Path[x]) \in 1..Len(c)
<1> DEFINE n == Len(Path[x])
<1>1. c \in Seq(Hash) /\ Len(c) \in Nat \ {0} /\ Tip(c) \in Hash /\ c = Path[Tip(c)]
  BY DEF Linked, Tip
<1>2. n \in 1..Len(c) /\ c[n] = x
  BY <1>1, PathOfParent DEF IsOnChain
<1>3. Path[Path[Tip(c)][n]] = SubSeq(Path[Tip(c)], 1, n)
  BY <1>1, <1>2, PathOfAncestor
<1>4. Path[x] = SubSeq(c, 1, n)
  BY <1>1, <1>2, <1>3
<1> QED BY <1>2, <1>4 DEF FirstOf

\* A linked chain starts at genesis, and has one entry per height.
LEMMA LinkedFromGenesis ==
    ASSUME NEW c, Linked(c)
    PROVE  /\ c[1] = Genesis
           /\ \A n \in 1..Len(c) : Len(Path[c[n]]) = n
<1>1. Tip(c) \in Hash /\ c = Path[Tip(c)]
  BY DEF Linked, Tip
<1>2. Path[Tip(c)][1] = Genesis
  BY <1>1, GenesisIsFirst
<1>3. \A n \in 1..Len(Path[Tip(c)]) : Len(Path[Path[Tip(c)][n]]) = n
  BY <1>1, PathOfAncestor
<1> QED BY <1>1, <1>2, <1>3, Zenon

\* The walk from h towards genesis ends at an entry of a chain that starts there.
LEMMA ForkLengthOnChain ==
    ASSUME NEW c \in Seq(Hash), c /= << >>, c[1] = Genesis, NEW h \in Hash
    PROVE  /\ ForkLength(c, h) \in 1..Len(Path[h])
           /\ IsOnChain(c, Path[h][ForkLength(c, h)])
           /\ \A m \in (ForkLength(c, h) + 1)..Len(Path[h]) : ~IsOnChain(c, Path[h][m])
<1> DEFINE l == Len(Path[h])
           On(n) == IsOnChain(c, Path[h][n])
           Dist == {d \in 0..(l - 1) : On(l - d)}
<1>1. l \in Nat \ {0}
  BY PathOfParent
<1>2. On(1)
  <2>1. Path[h][1] = Genesis /\ Len(Path[Genesis]) = 1
    BY GenesisIsFirst, TreeAssumption
  <2>2. Len(c) >= 1
    OBVIOUS
  <2>3. IsOnChain(c, Genesis)
    BY <2>1, <2>2 DEF IsOnChain
  <2> QED BY <2>1, <2>3, Zenon
<1> HIDE DEF l, On
<1>3. l - 1 \in Dist
  <2>1. l - 1 \in 0..(l - 1) /\ l - (l - 1) = 1
    BY <1>1
  <2> QED BY <1>2, <2>1
<1>4. PICK d \in Dist : \A e \in Dist : d <= e
  <2>1. Dist \in SUBSET Nat
    BY <1>1
  <2> HIDE DEF Dist
  <2>2. Dist /= {}
    BY <1>3
  <2> QED BY <2>1, <2>2, SmallestElement
<1>5. l - d \in 1..l /\ On(l - d)
  BY <1>1, <1>4
<1>6. ASSUME NEW m \in (l - d + 1)..l PROVE ~On(m)
  <2>1. l - m \in 0..(l - 1) /\ l - (l - m) = m /\ ~(d <= l - m)
    BY <1>1, <1>4, <1>5
  <2> QED BY <1>4, <2>1
<1>7. \E n \in 1..l : On(n) /\ \A m \in (n + 1)..l : ~On(m)
  BY <1>5, <1>6
<1> QED BY <1>7 DEF ForkLength, l, On

\* Rewinding a linked chain to where h forks off and adding the rest of h's
\* ancestors gives the chain of h.
LEMMA RegrownAtFork ==
    ASSUME NEW c, Linked(c), NEW h \in Hash
    PROVE  /\ ForkLength(c, h) \in 1..Len(Path[h])
           /\ ForkLength(c, h) <= Len(c)
           /\ FirstOf(c, ForkLength(c, h)) = SubSeq(Path[h], 1, ForkLength(c, h))
           /\ FirstOf(c, ForkLength(c, h)) \o PathFrom(h, ForkLength(c, h)) = Path[h]
<1> DEFINE n == ForkLength(c, h)
           x == Path[h][n]
<1>1. n \in 1..Len(Path[h]) /\ IsOnChain(c, x)
  BY LinkedFromGenesis, ForkLengthOnChain DEF Linked
<1>2. x \in Hash /\ Path[x] = SubSeq(Path[h], 1, n) /\ Len(Path[x]) = n
  BY <1>1, PathOfAncestor
<1>3. FirstOf(c, n) = Path[x] /\ n <= Len(c)
  BY <1>1, <1>2, PrefixOfLinked
<1>4. Path[h] \in Seq(Hash)
  BY PathOfParent
<1> HIDE DEF n, x
<1>5. SubSeq(Path[h], 1, n) \o SubSeq(Path[h], n + 1, Len(Path[h])) = Path[h]
  BY <1>1, <1>4
<1> QED BY <1>1, <1>2, <1>3, <1>5 DEF PathFrom, n

\* Appending to a concatenation appends to its right part.
LEMMA AppendOfConcat ==
    ASSUME NEW s \in Seq(Hash), NEW t \in Seq(Hash), NEW e \in Hash
    PROVE  Append(s \o t, e) = s \o Append(t, e)
<1>1. /\ Append(s \o t, e) \in Seq(Hash) /\ s \o Append(t, e) \in Seq(Hash)
      /\ Len(Append(s \o t, e)) = Len(s \o Append(t, e))
  OBVIOUS
<1>2. ASSUME NEW i \in 1..(Len(s) + Len(t) + 1)
      PROVE  Append(s \o t, e)[i] = (s \o Append(t, e))[i]
  <2>1. CASE i <= Len(s)
    BY <2>1
  <2>2. CASE Len(s) < i /\ i <= Len(s) + Len(t)
    BY <2>2
  <2>3. CASE i = Len(s) + Len(t) + 1
    BY <2>3
  <2> QED BY <2>1, <2>2, <2>3
<1>3. Len(Append(s \o t, e)) = Len(s) + Len(t) + 1
  OBVIOUS
<1> QED BY <1>1, <1>2, <1>3, SeqEqual

\* A sequence is its front followed by its last entry.
LEMMA FrontAndLast ==
    ASSUME NEW t \in Seq(Hash), t /= << >>
    PROVE  /\ SubSeq(t, 1, Len(t) - 1) \in Seq(Hash)
           /\ t[Len(t)] \in Hash
           /\ Append(SubSeq(t, 1, Len(t) - 1), t[Len(t)]) = t
  OBVIOUS

\* The entries of a sequence after the first n.
LEMMA SuffixOfSeq ==
    ASSUME NEW s \in Seq(Hash), NEW n \in Nat, n < Len(s)
    PROVE  /\ SubSeq(s, n + 1, Len(s)) \in Seq(Hash)
           /\ SubSeq(s, n + 1, Len(s)) /= << >>
           /\ Len(SubSeq(s, n + 1, Len(s))) = Len(s) - n
           /\ \A i \in 1..(Len(s) - n) : SubSeq(s, n + 1, Len(s))[i] = s[n + i]
           /\ SubSeq(s, n + 1, Len(s))[Len(s) - n] = s[Len(s)]
<1> DEFINE t == SubSeq(s, n + 1, Len(s))
<1>1. t \in Seq(Hash) /\ Len(t) = Len(s) - n
  OBVIOUS
<1>2. \A i \in 1..(Len(s) - n) : t[i] = s[n + i]
  OBVIOUS
<1>3. t[Len(s) - n] = s[Len(s)]
  <2>1. Len(s) - n \in 1..(Len(s) - n) /\ n + (Len(s) - n) = Len(s)
    OBVIOUS
  <2> HIDE DEF t
  <2>2. t[Len(s) - n] = s[n + (Len(s) - n)]
    BY <1>2, <2>1
  <2> QED BY <2>1, <2>2
<1>4. t /= << >>
  <2> HIDE DEF t
  <2> QED BY <1>1
<1> QED BY <1>1, <1>2, <1>3, <1>4

\* A prefix has no elements of its own.
LEMMA ElementsOfPrefix ==
    ASSUME NEW s \in Seq(Hash), NEW n \in 0..Len(s)
    PROVE  Elements(SubSeq(s, 1, n)) \subseteq Elements(s)
<1> SUFFICES ASSUME NEW i \in DOMAIN SubSeq(s, 1, n)
             PROVE  SubSeq(s, 1, n)[i] \in Elements(s)
  BY DEF Elements
<1>1. i \in 1..n /\ SubSeq(s, 1, n)[i] = s[i]
  OBVIOUS
<1>2. i \in DOMAIN s
  BY <1>1
<1> QED BY <1>1, <1>2 DEF Elements

-----------------------------------------------------------------------------
(* Headers *)

\* A chain with one header per height, in which every consistent header stands
\* behind its own ancestors.
Stacked(c) ==
    /\ c \in Seq(Hash) /\ c /= << >>
    /\ c[1] = Genesis
    /\ \A n \in 1..Len(c) : Len(Path[c[n]]) = n
    /\ \A n \in 2..Len(c) : IsConsistent(c[n]) => FirstOf(c, n) = Path[c[n]]

\* The work a consistent header claims was compared with that of its parent.
ConsistentAddWork(S) ==
    \A h \in S \ {Genesis} :
        IsConsistent(h) => TotalDifficulty[h] > TotalDifficulty[Prev(h)]

\* The part of the inductive invariant that header processing maintains.
HeaderInv ==
    /\ Stacked(candidate)
    /\ mmr \in Seq(Hash)
    /\ headers \subseteq Hash
    /\ Elements(candidate) \subseteq headers
    /\ \A h \in headers : Elements(Path[h]) \subseteq headers
    /\ headers \ {Genesis} \subseteq GoodHeader
    /\ ConsistentAddWork(headers)
    /\ CandidateIsHeaviest
    /\ MMRHoldsCandidate

\* What a step may do to the candidate chain and to the stored headers.
HeadersGrow ==
    /\ headers \subseteq headers'
    /\ candidate' /= candidate =>
          TotalDifficulty[Tip(candidate')] > TotalDifficulty[Tip(candidate)]

\* The restarts' copies of genesis are a sequence.
LEMMA CopiesOfGenesis ==
    ASSUME NEW k \in Nat
    PROVE  /\ [i \in 1..k |-> Genesis] \in Seq(Hash)
           /\ Len([i \in 1..k |-> Genesis]) = k
  BY TreeAssumption

\* The MMR has at least the leaves of the candidate chain.
LEMMA MMRLength ==
    ASSUME HeaderInv
    PROVE  Len(mmr) >= Len(candidate)
<1>1. PICK k \in 0..MaxRestarts : mmr = [i \in 1..k |-> Genesis] \o candidate
  BY DEF HeaderInv, MMRHoldsCandidate
<1>2. k \in Nat
  BY BoundAssumption
<1> DEFINE g == [i \in 1..k |-> Genesis]
<1>3. g \in Seq(Hash) /\ Len(g) = k
  BY <1>2, CopiesOfGenesis
<1>4. mmr = g \o candidate
  BY <1>1
<1> HIDE DEF g
<1> QED BY <1>2, <1>3, <1>4 DEF HeaderInv, Stacked

\* The entries of the candidate chain are stored, genesis and the tip among them.
LEMMA CandidateIsStored ==
    ASSUME HeaderInv
    PROVE  /\ candidate \in Seq(Hash) /\ Len(candidate) \in Nat \ {0}
           /\ Tip(candidate) \in headers
           /\ Genesis \in headers
           /\ \A h \in Hash : IsOnChain(candidate, h) => h \in headers
<1>1. /\ candidate \in Seq(Hash) /\ Len(candidate) \in Nat \ {0}
      /\ candidate[1] = Genesis /\ Elements(candidate) \subseteq headers
  BY DEF HeaderInv, Stacked
<1>2. 1 \in DOMAIN candidate /\ Len(candidate) \in DOMAIN candidate
  BY <1>1
<1>3. Genesis \in headers /\ Tip(candidate) \in headers
  BY <1>1, <1>2 DEF Elements, Tip
<1>4. ASSUME NEW h \in Hash, IsOnChain(candidate, h) PROVE h \in headers
  <2>1. Len(Path[h]) \in DOMAIN candidate /\ candidate[Len(Path[h])] = h
    BY <1>1, <1>4, PathOfParent DEF IsOnChain
  <2> QED BY <1>1, <2>1 DEF Elements
<1> QED BY <1>1, <1>3, <1>4

\* Where the MMR has a header's previous root, its leaves are the entries of the
\* candidate chain: with an extra genesis in front the root differs from height 2 on.
LEMMA RootIsOfCandidate ==
    ASSUME HeaderInv, NEW n \in 1..Len(candidate), NEW h \in Hash,
           FirstOf(mmr, n) = PrevRoot[h]
    PROVE  FirstOf(mmr, n) = FirstOf(candidate, n)
<1>1. PICK k \in 0..MaxRestarts : mmr = [i \in 1..k |-> Genesis] \o candidate
  BY DEF HeaderInv, MMRHoldsCandidate
<1>2. k \in Nat
  BY BoundAssumption
<1> DEFINE g == [i \in 1..k |-> Genesis]
<1>3. g \in Seq(Hash) /\ Len(g) = k /\ \A i \in 1..k : g[i] = Genesis
  BY <1>2, CopiesOfGenesis
<1>4. mmr = g \o candidate
  BY <1>1
<1>5. /\ candidate \in Seq(Hash) /\ Len(candidate) \in Nat \ {0} /\ candidate[1] = Genesis
      /\ mmr \in Seq(Hash) /\ Len(mmr) >= Len(candidate)
  BY MMRLength DEF HeaderInv, Stacked
<1> HIDE DEF g
<1>6. CASE k = 0
  <2>1. mmr = candidate
    BY <1>3, <1>4, <1>5, <1>6
  <2> QED BY <2>1
<1>7. CASE k /= 0 /\ n >= 2
  <2>1. /\ FirstOf(mmr, n) \in Seq(Hash) /\ Len(FirstOf(mmr, n)) = n
        /\ FirstOf(mmr, n)[2] = mmr[2]
    BY <1>5, <1>7 DEF FirstOf
  <2>2. mmr[2] = Genesis
    <3>1. CASE k = 1
      <4>1. (g \o candidate)[Len(g) + 1] = candidate[1]
        BY <1>3, <1>5
      <4>2. Len(g) + 1 = 2
        BY <1>3, <3>1
      <4> QED BY <1>4, <1>5, <4>1, <4>2
    <3>2. CASE k /= 1
      BY <1>2, <1>3, <1>4, <1>5, <1>7, <3>2
    <3> QED BY <3>1, <3>2
  <2>3. 2 \in 2..Len(PrevRoot[h])
    BY <1>5, <1>7, <2>1
  <2>4. PrevRoot[h][2] /= Genesis
    BY <2>3, TreeAssumption
  <2> QED BY <2>1, <2>2, <2>4
<1>8. CASE k /= 0 /\ n = 1
  <2>1. mmr[1] = Genesis
    BY <1>2, <1>3, <1>4, <1>5, <1>8
  <2> DEFINE s == FirstOf(mmr, 1)
             t == FirstOf(candidate, 1)
  <2>2. /\ s \in Seq(Hash) /\ Len(s) = 1 /\ s[1] = Genesis
        /\ t \in Seq(Hash) /\ Len(t) = 1 /\ t[1] = Genesis
    BY <1>5, <2>1 DEF FirstOf
  <2> HIDE DEF s, t
  <2>3. s = t
    BY <2>2, SeqEqual
  <2> QED BY <1>8, <2>3 DEF s, t
<1> QED BY <1>5, <1>6, <1>7, <1>8

\* In validated headers work grows from each to the next.
LEMMA WorkAlongChunk ==
    ASSUME NEW hs \in Seq(Hash),
           \A n \in 2..Len(hs) : TotalDifficulty[hs[n]] > TotalDifficulty[hs[n - 1]],
           NEW k \in 1..Len(hs)
    PROVE  TotalDifficulty[hs[k]] <= TotalDifficulty[Tip(hs)]
<1> DEFINE l == Len(hs)
           Work(n) == TotalDifficulty[hs[n]]
           Bad == {d \in Nat : l - d \in 1..l /\ ~(Work(l - d) <= Work(l))}
<1>1. l \in Nat \ {0}
  OBVIOUS
<1>2. \A n \in 1..l : Work(n) \in Nat
  BY TreeAssumption
<1>3. \A n \in 2..l : Work(n) > Work(n - 1)
  OBVIOUS
<1> HIDE DEF l, Work
<1>5. Bad = {}
  <2> SUFFICES ASSUME Bad /= {} PROVE FALSE
    OBVIOUS
  <2>1. PICK d \in Bad : \A e \in Bad : d <= e
    BY SmallestElement
  <2>2. d \in Nat /\ l - d \in 1..l /\ ~(Work(l - d) <= Work(l))
    BY <2>1
  <2>3. d /= 0
    BY <1>1, <1>2, <2>2
  <2>4. d - 1 \notin Bad
    <3> HIDE DEF Bad
    <3> QED BY <2>1, <2>2
  <2>5. d - 1 \in Nat /\ l - (d - 1) \in 2..l
    BY <1>1, <2>2, <2>3
  <2>6. Work(l - (d - 1)) <= Work(l)
    BY <1>1, <2>4, <2>5
  <2>7. Work(l - (d - 1)) > Work(l - (d - 1) - 1)
    BY <1>3, <2>5
  <2>8. l - (d - 1) - 1 = l - d
    BY <1>1, <2>2
  <2>9. Work(l - d) \in Nat /\ Work(l) \in Nat /\ Work(l - (d - 1)) \in Nat
    BY <1>1, <1>2, <2>2, <2>5
  <2> QED BY <2>2, <2>6, <2>7, <2>8, <2>9
<1>6. l - k \in Nat /\ l - (l - k) = k /\ k \in 1..l
  BY <1>1 DEF l
<1>7. Work(k) <= Work(l)
  BY <1>5, <1>6
<1> QED BY <1>7 DEF Work, l, Tip

\* Validated headers come with all their ancestors: each names a parent that is
\* stored or earlier in the chunk.
LEMMA ChunkHasAncestors ==
    ASSUME NEW S, NEW hs \in Seq(Hash),
           \A h \in S : Elements(Path[h]) \subseteq S,
           \A n \in 1..Len(hs) : /\ hs[n] /= Genesis
                                 /\ Prev(hs[n]) \in S \cup Elements(SubSeq(hs, 1, n - 1)),
           NEW k \in 1..Len(hs)
    PROVE  Elements(Path[hs[k]]) \subseteq S \cup Elements(hs)
<1> DEFINE T == S \cup Elements(hs)
           Bad == {n \in Nat : n \in 1..Len(hs) /\ ~(Elements(Path[hs[n]]) \subseteq T)}
<1>1. Bad = {}
  <2> SUFFICES ASSUME Bad /= {} PROVE FALSE
    OBVIOUS
  <2>1. PICK n \in Bad : \A m \in Bad : n <= m
    BY SmallestElement
  <2>2. n \in 1..Len(hs) /\ ~(Elements(Path[hs[n]]) \subseteq T)
    BY <2>1
  <2> DEFINE p == Prev(hs[n])
  <2>3. p \in S \cup Elements(SubSeq(hs, 1, n - 1))
    BY <2>2
  <2>4. /\ hs[n] \in Hash /\ p \in Hash
        /\ Path[p] \in Seq(Hash)
        /\ Path[hs[n]] = Append(Path[p], hs[n])
    BY <2>2, PathOfParent
  <2>5. Elements(Path[p]) \subseteq T
    <3>1. CASE p \in S
      BY <3>1
    <3>2. CASE p \in Elements(SubSeq(hs, 1, n - 1))
      <4>1. PICK i \in DOMAIN SubSeq(hs, 1, n - 1) : p = SubSeq(hs, 1, n - 1)[i]
        BY <3>2 DEF Elements
      <4>2. i \in 1..(n - 1) /\ p = hs[i]
        BY <2>2, <4>1
      <4>3. i \in Nat /\ i \in 1..Len(hs) /\ ~(n <= i)
        BY <2>2, <4>2
      <4>4. i \notin Bad
        <5> HIDE DEF Bad
        <5> QED BY <2>1, <4>3
      <4> QED BY <4>2, <4>3, <4>4
    <3> QED BY <2>3, <3>1, <3>2
  <2>6. hs[n] \in T
    BY <2>2 DEF Elements
  <2> HIDE DEF p, T
  <2>7. Elements(Append(Path[p], hs[n])) \subseteq T
    <3> SUFFICES ASSUME NEW i \in DOMAIN Append(Path[p], hs[n])
                 PROVE  Append(Path[p], hs[n])[i] \in T
      BY DEF Elements
    <3>1. CASE i = Len(Path[p]) + 1
      BY <2>4, <2>6, <3>1
    <3>2. CASE i /= Len(Path[p]) + 1
      <4>1. i \in DOMAIN Path[p] /\ Append(Path[p], hs[n])[i] = Path[p][i]
        BY <2>4, <3>2
      <4> QED BY <2>5, <4>1 DEF Elements
    <3> QED BY <3>1, <3>2
  <2> QED BY <2>2, <2>4, <2>7
<1>2. k \in Nat
  OBVIOUS
<1> QED BY <1>1, <1>2

\* A chain of n entries, continued by validated headers of the next heights.
LEMMA ChunkIsStacked ==
    ASSUME NEW c, Stacked(c), NEW n \in 1..Len(c),
           NEW hs \in Seq(Hash), hs /= << >>,
           \A j \in 1..Len(hs) : hs[j] /= Genesis /\ Len(Path[hs[j]]) = n + j,
           HeadersValid(FirstOf(c, n), hs)
    PROVE  /\ Stacked(FirstOf(c, n) \o hs)
           /\ Tip(FirstOf(c, n) \o hs) = Tip(hs)
           /\ ConsistentAddWork(Elements(hs))
<1> DEFINE base == FirstOf(c, n)
           d == base \o hs
           l == Len(hs)
<1>1. c \in Seq(Hash) /\ Len(c) \in Nat \ {0} /\ l \in Nat \ {0}
  BY DEF Stacked
<1>2. /\ base \in Seq(Hash) /\ Len(base) = n /\ base = SubSeq(c, 1, n)
      /\ \A i \in 1..n : base[i] = c[i]
  BY <1>1 DEF FirstOf
<1> HIDE DEF base
<1>3. /\ d \in Seq(Hash) /\ Len(d) = n + l /\ d /= << >>
      /\ \A i \in 1..n : d[i] = c[i]
      /\ \A j \in 1..l : d[n + j] = hs[j]
      /\ d[n + l] = hs[l]
  <2>1. d \in Seq(Hash) /\ Len(d) = n + l /\ d /= << >>
    BY <1>1, <1>2
  <2>2. \A i \in 1..n : d[i] = c[i]
    BY <1>1, <1>2
  <2>3. \A j \in 1..l : d[n + j] = hs[j]
    BY <1>1, <1>2
  <2>4. l \in 1..l
    BY <1>1
  <2> HIDE DEF d, l
  <2> QED BY <2>1, <2>2, <2>3, <2>4
<1> DEFINE pre(j) == base \o SubSeq(hs, 1, j - 1)
<1>4. ASSUME NEW j \in 1..l
      PROVE  /\ hs[j] \in Hash /\ hs[j] /= Genesis
             /\ Prev(hs[j]) \in Hash /\ Path[hs[j]] = Append(Path[Prev(hs[j])], hs[j])
             /\ pre(j) \in Seq(Hash) /\ Len(pre(j)) = n + j - 1
             /\ pre(j) = PrevRoot[hs[j]]
             /\ SubSeq(d, 1, n + j) = Append(pre(j), hs[j])
  <2>1. hs[j] \in Hash /\ hs[j] /= Genesis /\ Len(Path[hs[j]]) = n + j
    OBVIOUS
  <2>2. pre(j) \in Seq(Hash) /\ Len(pre(j)) = n + j - 1
    BY <1>1, <1>2
  <2>3. FirstOf(pre(j), Height(hs[j])) = PrevRoot[hs[j]]
    <3>1. j \in DOMAIN hs
      OBVIOUS
    <3> QED BY <3>1 DEF HeadersValid, base
  <2>4. Height(hs[j]) = n + j - 1
    BY <1>1, <2>1 DEF Height
  <2>5. FirstOf(pre(j), n + j - 1) = pre(j)
    <3> HIDE DEF pre
    <3> QED BY <1>1, <2>2 DEF FirstOf
  <2>6. SubSeq(d, 1, n + j) = Append(pre(j), hs[j])
    <3> DEFINE s == SubSeq(d, 1, n + j)
               t == Append(pre(j), hs[j])
    <3>1. s \in Seq(Hash) /\ Len(s) = n + j /\ \A i \in 1..(n + j) : s[i] = d[i]
      <4> HIDE DEF d
      <4> QED BY <1>1, <1>3
    <3>2. t \in Seq(Hash) /\ Len(t) = n + j /\ t[n + j] = hs[j]
          /\ \A i \in 1..(n + j - 1) : t[i] = pre(j)[i]
      <4> HIDE DEF pre
      <4> QED BY <1>1, <2>1, <2>2
    <3>3. ASSUME NEW i \in 1..(n + j) PROVE d[i] = t[i]
      <4>1. CASE i <= n
        <5>1. pre(j)[i] = base[i] /\ i \in 1..(n + j - 1) /\ i \in 1..n
          BY <1>1, <1>2, <4>1
        <5> HIDE DEF d, t, pre
        <5> QED BY <1>2, <1>3, <3>2, <5>1
      <4>2. CASE n < i /\ i < n + j
        <5>1. pre(j)[i] = hs[i - n] /\ i \in 1..(n + j - 1)
          BY <1>1, <1>2, <4>2
        <5>2. i - n \in 1..l /\ n + (i - n) = i
          BY <1>1, <4>2
        <5> HIDE DEF d, t, pre
        <5>3. d[i] = hs[i - n]
          BY <1>3, <5>2
        <5> QED BY <3>2, <5>1, <5>3
      <4>3. CASE i = n + j
        <5> HIDE DEF d, t, pre
        <5> QED BY <1>3, <3>2, <4>3
      <4>4. i <= n \/ (n < i /\ i < n + j) \/ i = n + j
        BY <1>1
      <4> HIDE DEF d, t
      <4> QED BY <4>1, <4>2, <4>3, <4>4, Zenon
    <3> HIDE DEF s, t, d
    <3>4. \A i \in 1..Len(s) : s[i] = t[i]
      BY <3>1, <3>3
    <3>5. s = t
      BY <3>1, <3>2, <3>4, SeqEqual
    <3> QED BY <3>5 DEF s, t
  <2> QED BY <2>1, <2>2, <2>3, <2>4, <2>5, <2>6, PathOfParent
<1> HIDE DEF d, l, pre
<1>5. ASSUME NEW i \in 1..(n + l), ~(i <= n) PROVE i - n \in 1..l /\ n + (i - n) = i
  BY <1>1, <1>5
<1>6. \A i \in 1..Len(d) : Len(Path[d[i]]) = i
  <2> SUFFICES ASSUME NEW i \in 1..(n + l) PROVE Len(Path[d[i]]) = i
    BY <1>3
  <2>1. CASE i <= n
    <3>1. i \in 1..n /\ i \in 1..Len(c)
      BY <1>1, <2>1
    <3> QED BY <1>3, <3>1 DEF Stacked
  <2>2. CASE ~(i <= n)
    <3>1. i - n \in 1..l /\ n + (i - n) = i
      BY <1>5, <2>2
    <3>2. d[i] = hs[i - n] /\ Len(Path[hs[i - n]]) = n + (i - n)
      BY <1>3, <3>1 DEF l
    <3> QED BY <3>1, <3>2
  <2> QED BY <2>1, <2>2
<1>7. ASSUME NEW j \in 1..l, IsConsistent(hs[j]) PROVE pre(j) = Path[Prev(hs[j])]
  BY <1>4, <1>7 DEF IsConsistent
<1>8. ASSUME NEW i \in 2..Len(d), IsConsistent(d[i]) PROVE FirstOf(d, i) = Path[d[i]]
  <2>0. i \in 1..(n + l) /\ i \in Nat /\ i <= Len(d)
    BY <1>1, <1>3
  <2>1. FirstOf(d, i) = SubSeq(d, 1, i)
    BY <2>0 DEF FirstOf
  <2>2. CASE i <= n
    <3>1. i \in 1..n /\ i \in 2..Len(c)
      BY <1>1, <2>2
    <3>2. d[i] = c[i] /\ FirstOf(c, i) = Path[c[i]]
      BY <1>3, <1>8, <3>1 DEF Stacked
    <3>3. FirstOf(c, i) = SubSeq(c, 1, i)
      BY <1>1, <3>1 DEF FirstOf
    <3>4. SubSeq(d, 1, i) = SubSeq(c, 1, i)
      BY <1>1, <1>3, <2>0, <3>1
    <3> QED BY <2>1, <3>2, <3>3, <3>4
  <2>3. CASE ~(i <= n)
    <3> DEFINE j == i - n
    <3>1. j \in 1..l /\ n + j = i
      BY <1>5, <2>0, <2>3
    <3> HIDE DEF j
    <3>2. d[i] = hs[j]
      BY <1>3, <3>1
    <3>3. pre(j) = Path[Prev(hs[j])]
      BY <1>7, <1>8, <3>1, <3>2
    <3>4. SubSeq(d, 1, i) = Append(pre(j), hs[j]) /\ Path[hs[j]] = Append(Path[Prev(hs[j])], hs[j])
      BY <1>4, <3>1
    <3> QED BY <2>1, <3>2, <3>3, <3>4
  <2> QED BY <2>2, <2>3
<1>9. d[1] = Genesis
  BY <1>1, <1>3 DEF Stacked
<1>10. ASSUME NEW j \in 1..l, IsConsistent(hs[j])
       PROVE  TotalDifficulty[hs[j]] > TotalDifficulty[Prev(hs[j])]
  <2>1. TotalDifficulty[hs[j]] > TotalDifficulty[IF j = 1 THEN Prev(hs[1]) ELSE hs[j - 1]]
    <3>1. j \in DOMAIN hs
      BY DEF l
    <3> QED BY <3>1 DEF HeadersValid
  <2>2. CASE j = 1
    BY <2>1, <2>2
  <2>3. CASE j /= 1
    <3>1. j - 1 \in 1..l /\ n + j - 1 \in Nat \ {0}
      BY <1>1, <2>3
    <3>2. pre(j) = Path[Prev(hs[j])] /\ Len(pre(j)) = n + j - 1 /\ Prev(hs[j]) \in Hash
      BY <1>4, <1>7, <1>10
    <3>3. pre(j)[n + j - 1] = Prev(hs[j])
      BY <3>2, PathOfParent
    <3>4. pre(j)[n + j - 1] = hs[j - 1]
      BY <1>1, <1>2, <2>3 DEF pre, l
    <3> QED BY <2>1, <2>3, <3>3, <3>4
  <2> QED BY <2>2, <2>3
<1>11. ConsistentAddWork(Elements(hs))
  BY <1>10 DEF ConsistentAddWork, Elements, l
<1>12. Tip(d) = Tip(hs)
  BY <1>3 DEF Tip, l
<1>13. Stacked(d)
  BY <1>3, <1>6, <1>8, <1>9 DEF Stacked
<1> QED BY <1>11, <1>12, <1>13 DEF d, base

\* Headers hs of the heights after n that were validated on top of the first n
\* leaves keep the invariant, whether they win or are rolled back.
LEMMA AdoptHeadersInv ==
    ASSUME HeaderInv,
           NEW n \in 1..Len(candidate),
           NEW hs \in Seq(Hash), hs /= << >>,
           \A j \in 1..Len(hs) : hs[j] /= Genesis /\ Len(Path[hs[j]]) = n + j,
           HeadersValid(FirstOf(mmr, n), hs),
           AdoptHeaders(n, hs)
    PROVE  HeaderInv' /\ HeadersGrow
<1> DEFINE t == Tip(hs)
           base == FirstOf(candidate, n)
           new == base \o hs
<1>1. candidate \in Seq(Hash) /\ Len(candidate) \in Nat \ {0} /\ Stacked(candidate)
  BY DEF HeaderInv, Stacked
<1>2. Len(hs) \in Nat \ {0} /\ t \in Hash /\ t \in Elements(hs) /\ 1 \in DOMAIN hs
  BY DEF Tip, Elements
<1>3. FirstOf(mmr, n) = base
  <2> DEFINE mbase == FirstOf(mmr, n)
  <2>1. mbase \in Seq(Hash) /\ Len(mbase) = n
    BY <1>1, MMRLength DEF HeaderInv, FirstOf
  <2>2. FirstOf(mbase \o SubSeq(hs, 1, 0), Height(hs[1])) = PrevRoot[hs[1]]
    BY <1>2 DEF HeadersValid
  <2>3. Len(Path[hs[1]]) = n + 1
    BY <1>2
  <2>4. Height(hs[1]) = n
    BY <1>1, <2>3 DEF Height
  <2> HIDE DEF mbase
  <2>5. mbase \o SubSeq(hs, 1, 0) = mbase
    BY <2>1
  <2>6. FirstOf(mbase, n) = mbase
    BY <1>1, <2>1 DEF FirstOf
  <2>7. mbase = PrevRoot[hs[1]]
    BY <2>2, <2>4, <2>5, <2>6, Zenon
  <2>8. hs[1] \in Hash
    BY <1>2
  <2> QED BY <2>7, <2>8, RootIsOfCandidate DEF mbase
<1>4. /\ Stacked(new) /\ Tip(new) = t
      /\ ConsistentAddWork(Elements(hs))
  BY <1>1, <1>3, ChunkIsStacked
<1> HIDE DEF t, base
<1>5. headers' = headers \cup Elements(hs)
  BY DEF AdoptHeaders
<1>6. headers' \subseteq Hash /\ headers' \ {Genesis} \subseteq GoodHeader
  <2>1. \A k \in DOMAIN hs : hs[k] \in GoodHeader
    BY DEF HeadersValid
  <2> QED BY <1>5, <2>1 DEF Elements, HeaderInv
<1>7. \A h \in headers' : Elements(Path[h]) \subseteq headers'
  <2>1. \A k \in 1..Len(hs) : /\ hs[k] /= Genesis
                              /\ Prev(hs[k]) \in headers \cup Elements(SubSeq(hs, 1, k - 1))
    BY DEF HeadersValid
  <2>2. \A h \in headers : Elements(Path[h]) \subseteq headers
    BY DEF HeaderInv
  <2>3. \A k \in 1..Len(hs) : Elements(Path[hs[k]]) \subseteq headers'
    BY <1>5, <2>1, <2>2, ChunkHasAncestors
  <2> SUFFICES ASSUME NEW h \in headers' PROVE Elements(Path[h]) \subseteq headers'
    OBVIOUS
  <2>4. CASE h \in headers
    BY <1>5, <2>2, <2>4
  <2>5. CASE h \in Elements(hs)
    <3>1. PICK k \in 1..Len(hs) : h = hs[k]
      BY <2>5 DEF Elements
    <3> QED BY <2>3, <3>1
  <2> QED BY <1>5, <2>4, <2>5
<1>8. ConsistentAddWork(headers')
  BY <1>4, <1>5 DEF ConsistentAddWork, HeaderInv
<1>9. \A h \in Elements(hs) : TotalDifficulty[h] <= TotalDifficulty[t]
  <2>1. ASSUME NEW k \in 2..Len(hs) PROVE TotalDifficulty[hs[k]] > TotalDifficulty[hs[k - 1]]
    <3>1. k \in DOMAIN hs /\ k /= 1
      BY <1>2
    <3> QED BY <3>1 DEF HeadersValid
  <2>2. \A k \in 1..Len(hs) : TotalDifficulty[hs[k]] <= TotalDifficulty[t]
    BY <2>1, WorkAlongChunk DEF t
  <2> QED BY <2>2 DEF Elements
<1>10. /\ TotalDifficulty \in [Hash -> Nat]
       /\ Tip(candidate) \in headers /\ Tip(candidate) \in Hash
       /\ \A h \in headers : h \in Hash /\ TotalDifficulty[h] <= TotalDifficulty[Tip(candidate)]
       /\ \A h \in Elements(hs) : h \in Hash
  BY <1>5, <1>6, TreeAssumption, CandidateIsStored DEF HeaderInv, CandidateIsHeaviest
<1>11. CASE IsHeavier(candidate, t)
  <2>1. candidate' = new /\ mmr' = new
    BY <1>3, <1>11 DEF AdoptHeaders, base, t
  <2>2. TotalDifficulty[t] > TotalDifficulty[Tip(candidate)]
    BY <1>10, <1>11 DEF IsHeavier, GetTotalDifficulty
  <2>3. CandidateIsHeaviest'
    <3> SUFFICES ASSUME NEW h \in headers'
                 PROVE  TotalDifficulty[h] <= TotalDifficulty[t]
      BY <1>4, <2>1 DEF CandidateIsHeaviest, Tip
    <3>1. CASE h \in headers
      BY <1>2, <1>10, <2>2, <3>1
    <3>2. CASE h \in Elements(hs)
      BY <1>9, <3>2
    <3> QED BY <1>5, <3>1, <3>2
  <2>4. Elements(new) \subseteq headers'
    <3> SUFFICES ASSUME NEW i \in DOMAIN new PROVE new[i] \in headers'
      BY DEF Elements
    <3>1. base \in Seq(Hash) /\ Len(base) = n /\ \A j \in 1..n : base[j] = candidate[j]
      BY <1>1 DEF base, FirstOf
    <3>2. CASE i <= n
      <4>1. new[i] = candidate[i] /\ i \in DOMAIN candidate
        BY <1>1, <3>1, <3>2
      <4> QED BY <1>5, <4>1 DEF HeaderInv, Elements
    <3>3. CASE ~(i <= n)
      <4>1. new[i] = hs[i - n] /\ i - n \in DOMAIN hs
        BY <1>1, <1>2, <3>1, <3>3
      <4> QED BY <1>5, <4>1 DEF Elements
    <3> QED BY <3>2, <3>3
  <2> HIDE DEF new
  <2>5. new \in Seq(Hash)
    BY <1>4 DEF Stacked
  <2>6. MMRHoldsCandidate'
    <3> DEFINE g == [i \in 1..0 |-> Genesis]
    <3>1. g \in Seq(Hash) /\ Len(g) = 0
      BY CopiesOfGenesis
    <3>2. g \o new = new
      <4> HIDE DEF g
      <4> QED BY <2>5, <3>1
    <3>3. 0 \in 0..MaxRestarts
      BY BoundAssumption
    <3>4. mmr' = g \o candidate'
      <4> HIDE DEF g
      <4> QED BY <2>1, <3>2
    <3> QED BY <3>3, <3>4 DEF MMRHoldsCandidate
  <2>7. Stacked(candidate)' /\ (Elements(candidate) \subseteq headers)' /\ ConsistentAddWork(headers)'
    BY <1>4, <1>8, <2>1, <2>4 DEF Stacked, Elements, FirstOf, ConsistentAddWork
  <2>8. HeaderInv'
    BY <1>6, <1>7, <2>1, <2>3, <2>5, <2>6, <2>7 DEF HeaderInv
  <2> QED BY <1>4, <1>5, <2>1, <2>2, <2>8 DEF HeadersGrow, Tip
<1>12. CASE ~IsHeavier(candidate, t)
  <2>1. UNCHANGED <<candidate, mmr>>
    BY <1>12 DEF AdoptHeaders, t
  <2>2. TotalDifficulty[t] <= TotalDifficulty[Tip(candidate)]
    BY <1>2, <1>10, <1>12 DEF IsHeavier, GetTotalDifficulty
  <2>3. CandidateIsHeaviest'
    <3> SUFFICES ASSUME NEW h \in headers'
                 PROVE  TotalDifficulty[h] <= TotalDifficulty[Tip(candidate)]
      BY <2>1 DEF CandidateIsHeaviest, Tip
    <3>1. CASE h \in headers
      BY <1>10, <3>1
    <3>2. CASE h \in Elements(hs)
      <4>1. TotalDifficulty[h] <= TotalDifficulty[t] /\ h \in Hash
        BY <1>9, <1>10, <3>2
      <4> QED BY <1>2, <1>10, <2>2, <4>1
    <3> QED BY <1>5, <3>1, <3>2
  <2>4. Stacked(candidate)' /\ (Elements(candidate) \subseteq headers)' /\ ConsistentAddWork(headers)'
    BY <1>1, <1>5, <1>8, <2>1 DEF Stacked, Elements, FirstOf, ConsistentAddWork, HeaderInv
  <2>5. HeaderInv'
    BY <1>6, <1>7, <2>1, <2>3, <2>4 DEF HeaderInv, MMRHoldsCandidate
  <2> QED BY <1>5, <2>1, <2>5 DEF HeadersGrow
<1> QED BY <1>11, <1>12

\* A header that extends the candidate chain keeps the invariant.
LEMMA NextHeaderInv ==
    ASSUME HeaderInv, NEW h \in Hash, h \notin headers,
           IsNextHeader(h), HeadersValid(mmr, <<h>>),
           headers' = headers \cup {h},
           mmr' = Append(mmr, h),
           candidate' = Append(candidate, h)
    PROVE  HeaderInv' /\ HeadersGrow
<1> DEFINE n == Len(candidate)
           hs == <<h>>
<1>1. /\ candidate \in Seq(Hash) /\ n \in Nat \ {0}
      /\ Tip(candidate) \in headers /\ headers \subseteq Hash
      /\ Stacked(candidate) /\ mmr \in Seq(Hash) /\ Len(mmr) >= n
  BY CandidateIsStored, MMRLength DEF HeaderInv
<1>2. h /= Genesis
  BY CandidateIsStored
<1>3. hs \in Seq(Hash) /\ hs /= << >> /\ Len(hs) = 1 /\ hs[1] = h /\ 1 \in DOMAIN hs
  OBVIOUS
<1>4. Len(Path[h]) = n + 1 /\ Height(h) = n /\ Prev(h) = Tip(candidate)
  <2>1. Len(Path[candidate[n]]) = n
    BY <1>1 DEF Stacked
  <2>2. Prev(h) = candidate[n] /\ Len(Path[Prev(h)]) = Len(Path[h]) - 1 /\ Len(Path[h]) \in Nat
    BY <1>2, PathOfParent DEF IsNextHeader, Tip
  <2>3. Len(Path[h]) = n + 1
    BY <1>1, <2>1, <2>2
  <2> QED BY <1>1, <2>2, <2>3 DEF Height, Tip
<1>5. /\ h \in GoodHeader
      /\ TotalDifficulty[h] > TotalDifficulty[Prev(h)]
      /\ Prev(h) \in headers
      /\ FirstOf(mmr \o SubSeq(hs, 1, 0), n) = PrevRoot[h]
  BY <1>3, <1>4 DEF HeadersValid
<1>6. FirstOf(mmr, n) = PrevRoot[h]
  <2>1. mmr \o SubSeq(hs, 1, 0) = mmr
    BY <1>1
  <2> QED BY <1>5, <2>1
<1>7. FirstOf(candidate, n) = candidate /\ PrevRoot[h] = candidate
  <2>1. FirstOf(candidate, n) = candidate
    BY <1>1 DEF FirstOf
  <2>2. n \in 1..Len(candidate)
    BY <1>1
  <2> HIDE DEF n
  <2> QED BY <1>6, <2>1, <2>2, RootIsOfCandidate
<1> HIDE DEF n, hs
<1>8. HeadersValid(candidate, hs)
  <2> SUFFICES ASSUME NEW k \in DOMAIN hs
               PROVE  /\ hs[k] \in GoodHeader
                      /\ TotalDifficulty[hs[k]] > TotalDifficulty[IF k = 1 THEN Prev(hs[1]) ELSE hs[k - 1]]
                      /\ Prev(hs[k]) \in headers \cup Elements(SubSeq(hs, 1, k - 1))
                      /\ FirstOf(candidate \o SubSeq(hs, 1, k - 1), Height(hs[k])) = PrevRoot[hs[k]]
    BY <1>3, <1>5 DEF HeadersValid
  <2>1. k = 1
    BY <1>3
  <2>2. candidate \o SubSeq(hs, 1, 0) = candidate
    BY <1>1, <1>3
  <2>3. FirstOf(candidate \o SubSeq(hs, 1, k - 1), Height(hs[k])) = PrevRoot[hs[k]]
    <3>1. k - 1 = 0 /\ hs[k] = h
      BY <1>3, <2>1
    <3> QED BY <1>4, <1>7, <2>2, <3>1
  <2> QED BY <1>3, <1>5, <2>1, <2>3
<1>9. candidate \o hs = Append(candidate, h)
  BY <1>1 DEF hs
<1>10. Stacked(Append(candidate, h)) /\ Tip(Append(candidate, h)) = h
  <2>1. n \in 1..Len(candidate)
    BY <1>1 DEF n
  <2>2. \A j \in 1..Len(hs) : hs[j] /= Genesis /\ Len(Path[hs[j]]) = n + j
    BY <1>2, <1>3, <1>4
  <2>3. HeadersValid(FirstOf(candidate, n), hs)
    BY <1>7, <1>8
  <2>4. Stacked(FirstOf(candidate, n) \o hs)
    BY <1>1, <1>3, <2>1, <2>2, <2>3, ChunkIsStacked
  <2> QED BY <1>1, <1>7, <1>9, <2>4 DEF Tip
<1>11. Stacked(candidate)' /\ Tip(candidate') = h
  BY <1>10 DEF Stacked, FirstOf
<1>12. ConsistentAddWork(headers)'
  BY <1>5 DEF ConsistentAddWork, HeaderInv
<1>13. (Elements(candidate) \subseteq headers)'
  <2> SUFFICES ASSUME NEW i \in DOMAIN candidate' PROVE candidate'[i] \in headers'
    BY DEF Elements
  <2>1. CASE i = Len(candidate) + 1
    BY <1>1, <2>1
  <2>2. CASE i /= Len(candidate) + 1
    <3>1. i \in DOMAIN candidate /\ candidate'[i] = candidate[i]
      BY <1>1, <2>2
    <3> QED BY <3>1 DEF HeaderInv, Elements
  <2> QED BY <2>1, <2>2
<1>14. TotalDifficulty[h] > TotalDifficulty[Tip(candidate)]
  BY <1>4, <1>5
<1>15. CandidateIsHeaviest'
  <2> SUFFICES ASSUME NEW g \in headers' PROVE TotalDifficulty[g] <= TotalDifficulty[h]
    BY <1>11 DEF CandidateIsHeaviest, Tip
  <2>1. TotalDifficulty \in [Hash -> Nat]
    BY TreeAssumption
  <2>2. CASE g \in headers
    <3>1. TotalDifficulty[g] <= TotalDifficulty[Tip(candidate)]
      BY <2>2 DEF HeaderInv, CandidateIsHeaviest
    <3>2. g \in Hash /\ Tip(candidate) \in Hash
      BY <1>1, <2>2
    <3> QED BY <1>14, <2>1, <3>1, <3>2
  <2>3. CASE g = h
    BY <2>1, <2>3
  <2> QED BY <2>2, <2>3
<1>16. MMRHoldsCandidate'
  <2>1. PICK k \in 0..MaxRestarts : mmr = [i \in 1..k |-> Genesis] \o candidate
    BY DEF HeaderInv, MMRHoldsCandidate
  <2> DEFINE g == [i \in 1..k |-> Genesis]
  <2>2. g \in Seq(Hash)
    <3>1. k \in Nat
      BY BoundAssumption
    <3> QED BY <3>1, CopiesOfGenesis, Zenon
  <2>3. mmr' = g \o candidate'
    <3>1. mmr = g \o candidate
      BY <2>1
    <3> HIDE DEF g
    <3> QED BY <1>1, <2>2, <3>1, AppendOfConcat
  <2> QED BY <2>3 DEF MMRHoldsCandidate
<1>17. mmr' \in Seq(Hash)
  BY <1>1
<1>18. \A g \in headers' : Elements(Path[g]) \subseteq headers'
  <2>1. \A g \in headers : Elements(Path[g]) \subseteq headers
    BY DEF HeaderInv
  <2>2. \A k \in 1..Len(hs) : /\ hs[k] /= Genesis
                              /\ Prev(hs[k]) \in headers \cup Elements(SubSeq(hs, 1, k - 1))
    BY <1>2, <1>3, <1>5
  <2>3. Elements(Path[hs[1]]) \subseteq headers \cup Elements(hs)
    BY <1>3, <2>1, <2>2, ChunkHasAncestors
  <2>4. Elements(hs) = {h}
    BY <1>3 DEF Elements, hs
  <2> QED BY <1>3, <2>1, <2>3, <2>4
<1>19. headers' \ {Genesis} \subseteq GoodHeader /\ headers' \subseteq Hash
  BY <1>5 DEF HeaderInv
<1>20. HeaderInv'
  BY <1>11, <1>12, <1>13, <1>15, <1>16, <1>17, <1>18, <1>19 DEF HeaderInv
<1>21. HeadersGrow
  BY <1>11, <1>14 DEF HeadersGrow
<1> QED BY <1>20, <1>21

\* Steps that leave the header state alone.
LEMMA HeaderInvFrame ==
    ASSUME HeaderInv, UNCHANGED <<candidate, headers, mmr>>
    PROVE  HeaderInv' /\ HeadersGrow
<1>1. Stacked(candidate)' /\ ConsistentAddWork(headers)' /\ (Elements(candidate) \subseteq headers)'
  BY DEF HeaderInv, Stacked, FirstOf, ConsistentAddWork, Elements
<1>2. CandidateIsHeaviest' /\ MMRHoldsCandidate'
  BY DEF HeaderInv, CandidateIsHeaviest, MMRHoldsCandidate, Tip
<1> QED BY <1>1, <1>2 DEF HeaderInv, HeadersGrow

\* ProcessSingleHeader keeps the invariant in each of its four outcomes.
LEMMA ProcessSingleHeaderInv ==
    ASSUME HeaderInv, NEW h \in Hash, ProcessSingleHeader(h)
    PROVE  /\ HeaderInv' /\ HeadersGrow
           /\ UNCHANGED <<confirmed, blocks, sums, txHashSet, txFiles, compacted, orphanBlocks>>
           /\ UNCHANGED orphanHeaders \/ CacheHeader(h)
<1>1. ASSUME UNCHANGED <<candidate, headers, mmr>> PROVE HeaderInv' /\ HeadersGrow
  BY <1>1, HeaderInvFrame
<1>2. CASE UNCHANGED chainVars /\ UNCHANGED orphanVars
  BY <1>1, <1>2 DEF chainVars, orphanVars
<1>3. CASE /\ h \notin headers
           /\ IsNextHeader(h)
           /\ HeadersValid(mmr, <<h>>)
           /\ headers' = headers \cup {h}
           /\ mmr' = Append(mmr, h)
           /\ candidate' = Append(candidate, h)
           /\ UNCHANGED <<confirmed, blocks, sums, txHashSet, txFiles, compacted, orphanVars>>
  <2>1. HeaderInv' /\ HeadersGrow
    BY <1>3, NextHeaderInv
  <2> QED BY <1>3, <2>1 DEF orphanVars
<1>4. CASE CacheHeader(h) /\ UNCHANGED <<chainVars, orphanBlocks>>
  BY <1>1, <1>4 DEF chainVars
<1>5. CASE /\ h \notin headers
           /\ HeadersValid(FirstOf(mmr, ForkLength(candidate, h)),
                           PathFrom(h, ForkLength(candidate, h)))
           /\ AdoptHeaders(ForkLength(candidate, h), PathFrom(h, ForkLength(candidate, h)))
           /\ UNCHANGED orphanVars
  <2> DEFINE n == ForkLength(candidate, h)
             P == Path[h]
             hs == PathFrom(h, n)
  <2>1. candidate \in Seq(Hash) /\ candidate /= << >> /\ candidate[1] = Genesis
    BY DEF HeaderInv, Stacked
  <2>2. n \in 1..Len(P) /\ IsOnChain(candidate, P[n])
    BY <2>1, ForkLengthOnChain
  <2>3. P \in Seq(Hash) /\ Len(P) \in Nat /\ P[Len(P)] = h
    BY PathOfParent
  <2>4. \A m \in 1..Len(P) : P[m] \in Hash /\ Len(Path[P[m]]) = m
    BY PathOfAncestor
  <2>5. \A m \in 2..Len(P) : P[m] /= Genesis
    BY GenesisIsFirst
  <2>6. hs = SubSeq(P, n + 1, Len(P))
    BY DEF PathFrom
  <2> HIDE DEF n, P
  <2>7. n /= Len(P)
    BY <1>5, <2>2, <2>3, CandidateIsStored
  <2>8. n \in 1..Len(candidate)
    BY <2>1, <2>2, <2>4 DEF IsOnChain
  <2>9. /\ hs \in Seq(Hash) /\ hs /= << >> /\ Len(hs) = Len(P) - n
        /\ \A j \in 1..(Len(P) - n) : hs[j] = P[n + j]
    <3>1. n \in Nat /\ n < Len(P)
      BY <2>2, <2>3, <2>7
    <3> QED BY <2>3, <2>6, <3>1, SuffixOfSeq
  <2>10. HeadersValid(FirstOf(mmr, n), hs) /\ AdoptHeaders(n, hs)
    BY <1>5 DEF n
  <2> HIDE DEF hs
  <2>11. ASSUME NEW j \in 1..Len(hs) PROVE hs[j] /= Genesis /\ Len(Path[hs[j]]) = n + j
    <3>1. n + j \in 2..Len(P) /\ n + j \in 1..Len(P) /\ j \in 1..(Len(P) - n)
      BY <2>2, <2>3, <2>9
    <3> QED BY <2>4, <2>5, <2>9, <3>1
  <2>12. HeaderInv' /\ HeadersGrow
    BY <2>8, <2>9, <2>10, <2>11, AdoptHeadersInv
  <2> QED BY <1>5, <2>10, <2>12 DEF AdoptHeaders, orphanVars
<1> QED BY <1>2, <1>3, <1>4, <1>5 DEF ProcessSingleHeader

\* A sync chunk keeps the invariant, also when its headers name parents on
\* different forks.
LEMMA AddBlockHeadersInv ==
    ASSUME HeaderInv, NEW m \in 1..MaxSync, NEW hs \in SyncMessages[m], AddBlockHeaders(hs)
    PROVE  /\ HeaderInv' /\ HeadersGrow
           /\ UNCHANGED <<confirmed, blocks, sums, txHashSet, txFiles, compacted, orphanVars,
                          cachedTip, threadVars>>
<1>0. hs \in [1..m -> Hash \ {Genesis}] /\ IsSyncMessage(hs)
  BY DEF SyncMessages
<1>1. m \in Nat /\ hs \in Seq(Hash) /\ Len(hs) = m /\ DOMAIN hs = 1..m
  BY <1>0, BoundAssumption
<1>2. PICK first \in 1..m :
         /\ \A i \in 1..(first - 1) : IsOnChain(candidate, hs[i])
         /\ HeadersValid(FirstOf(mmr, Height(hs[first])), SubSeq(hs, first, Len(hs)))
         /\ AdoptHeaders(Height(hs[first]), SubSeq(hs, first, Len(hs)))
  BY <1>1 DEF AddBlockHeaders
<1> DEFINE new == SubSeq(hs, first, Len(hs))
           n == Height(hs[first])
           l == Len(new)
<1>3. /\ \A i \in 1..m : Height(hs[i]) = Height(hs[1]) + i - 1
      /\ IsOnChain(candidate, Prev(hs[1]))
  BY <1>0, <1>1 DEF AddBlockHeaders, IsSyncMessage
<1>4. candidate \in Seq(Hash) /\ Len(candidate) \in Nat \ {0}
  BY CandidateIsStored
<1>5. /\ new \in Seq(Hash) /\ l = m - first + 1 /\ l \in Nat \ {0}
      /\ \A i \in 1..l : new[i] = hs[first + i - 1] /\ first + i - 1 \in 1..m
  BY <1>1
<1>6. ASSUME NEW i \in 1..m
      PROVE  /\ hs[i] \in Hash /\ hs[i] /= Genesis
             /\ Height(hs[i]) \in Nat \ {0} /\ Len(Path[hs[i]]) = Height(hs[i]) + 1
             /\ Prev(hs[i]) \in Hash /\ Len(Path[Prev(hs[i])]) = Height(hs[i])
  <2>1. hs[i] \in Hash /\ hs[i] /= Genesis
    BY <1>0
  <2> QED BY <2>1, PathOfParent DEF Height
<1>7. Height(hs[1]) \in Nat
  <2>1. 1 \in 1..m
    BY <1>1
  <2> QED BY <1>6, <2>1, Zenon
<1>8. HeadersValid(FirstOf(mmr, n), new) /\ AdoptHeaders(n, new)
  BY <1>2
<1>9. ASSUME NEW j \in 1..l PROVE new[j] /= Genesis /\ Len(Path[new[j]]) = n + j
  <2>1. new[j] = hs[first + j - 1] /\ first + j - 1 \in 1..m
    BY <1>5
  <2>2. /\ Height(hs[first + j - 1]) = Height(hs[1]) + (first + j - 1) - 1
        /\ Height(hs[first]) = Height(hs[1]) + first - 1
    BY <1>3, <2>1
  <2>3. /\ hs[first + j - 1] /= Genesis
        /\ Len(Path[hs[first + j - 1]]) = Height(hs[first + j - 1]) + 1
    BY <1>6, <2>1
  <2> HIDE DEF new, l
  <2> QED BY <1>1, <1>5, <1>7, <2>1, <2>2, <2>3
<1>10. n \in 1..Len(candidate)
  <2>1. n \in Nat \ {0}
    BY <1>6
  <2>2. CASE first = 1
    <3>1. IsOnChain(candidate, Prev(hs[1])) /\ Len(Path[Prev(hs[1])]) = n
      BY <1>3, <1>6, <2>2
    <3> QED BY <1>4, <2>1, <3>1 DEF IsOnChain
  <2>3. CASE first /= 1
    <3>1. first - 1 \in 1..(first - 1) /\ first - 1 \in 1..m
      BY <1>1, <2>3
    <3>2. Height(hs[first - 1]) = Height(hs[1]) + (first - 1) - 1
      BY <1>3, <3>1
    <3>3. Height(hs[first]) = Height(hs[1]) + first - 1
      BY <1>3
    <3>4. IsOnChain(candidate, hs[first - 1]) /\ Len(Path[hs[first - 1]]) = Height(hs[first - 1]) + 1
      BY <1>2, <1>6, <3>1
    <3>5. Len(Path[hs[first - 1]]) = n
      BY <1>1, <1>7, <3>2, <3>3, <3>4
    <3> QED BY <1>4, <2>1, <3>4, <3>5 DEF IsOnChain
  <2> QED BY <2>2, <2>3
<1> HIDE DEF n, new
<1>11. new /= << >>
  BY <1>5
<1>12. HeaderInv' /\ HeadersGrow
  BY <1>5, <1>8, <1>9, <1>10, <1>11, AdoptHeadersInv
<1> QED BY <1>8, <1>12 DEF AdoptHeaders, AddBlockHeaders

-----------------------------------------------------------------------------
(* Blocks *)

\* Compaction has left the tip and every confirmed block at or above the highest
\* horizon it was run at.
BlocksAreKept ==
    \A m \in 2..Len(confirmed) :
        m > compacted \/ m = Len(confirmed) => confirmed[m] \in blocks

\* The part of the inductive invariant that block processing maintains.
BlockInv ==
    /\ Linked(confirmed)
    /\ compacted \in Nat
    /\ BlocksAreKept
    /\ Tip(confirmed) \in headers
    /\ blocks \subseteq Hash
    /\ sums \subseteq Hash
    /\ orphanBlocks \subseteq Hash
    /\ TxHashSetAtConfirmedTip
    /\ StoredBlocksAreValid

\* What a step may do to the confirmed chain.
ConfirmedGrows ==
    confirmed' /= confirmed =>
        \/ TotalDifficulty[Tip(confirmed')] > TotalDifficulty[Tip(confirmed)]
        \/ Prev(Tip(confirmed')) = Tip(confirmed) /\ ~IsConsistent(Tip(confirmed'))

\* The blocks that are applied for h complete the confirmed chain to h's chain,
\* when h extends the tip and when h ends a fork.
LEMMA BlocksToApplyReachBlock ==
    ASSUME Linked(confirmed), NEW h \in Hash, ~IsOnChain(confirmed, h)
    PROVE  /\ BlocksToApply(h) \in Seq(Hash)
           /\ Reorganized(BlocksToApply(h)) = Path[h]
           /\ Elements(Path[h]) \subseteq Elements(confirmed) \cup Elements(BlocksToApply(h))
           /\ Elements(BlocksToApply(h)) \subseteq Elements(Path[h])
           /\ \E n \in 1..Len(confirmed) :
                 /\ n < Len(Path[h])
                 /\ \A m \in 1..n : Path[h][m] = confirmed[m]
                 /\ \A m \in (n + 1)..Len(Path[h]) : Path[h][m] \in Elements(BlocksToApply(h))
<1>1. confirmed \in Seq(Hash) /\ Len(confirmed) \in Nat \ {0}
  BY DEF Linked
<1>2. Path[h] \in Seq(Hash) /\ Len(Path[h]) \in Nat \ {0} /\ Path[h][Len(Path[h])] = h
  BY PathOfParent
<1> DEFINE bs == BlocksToApply(h)
           n == Len(Path[h]) - Len(bs)
<1>3. /\ bs \in Seq(Hash)
      /\ n \in 1..Len(confirmed) /\ n < Len(Path[h])
      /\ bs = SubSeq(Path[h], n + 1, Len(Path[h]))
      /\ FirstOf(confirmed, n) = SubSeq(Path[h], 1, n)
  <2>1. CASE IsNextBlock(h)
    <3>1. bs = <<h>> /\ n = Len(Path[h]) - 1
      BY <2>1 DEF BlocksToApply
    <3>2. h /= Genesis
      <4>1. confirmed[1] = Genesis
        BY LinkedFromGenesis
      <4>2. Len(Path[Genesis]) = 1
        BY TreeAssumption
      <4>3. IsOnChain(confirmed, Genesis)
        BY <1>1, <4>1, <4>2 DEF IsOnChain
      <4> QED BY <4>3
    <3>3. /\ Path[h] = Append(Path[Prev(h)], h)
          /\ Len(Path[Prev(h)]) = Len(Path[h]) - 1
          /\ Path[Prev(h)] = confirmed
      BY <2>1, <3>2, PathOfParent DEF IsNextBlock, Linked
    <3>4. Len(confirmed) = Len(Path[h]) - 1
      BY <3>3
    <3>5. Path[h] = Append(confirmed, h)
      BY <3>3
    <3> HIDE DEF bs, n
    <3>6. SubSeq(Path[h], n + 1, Len(Path[h])) = <<h>>
      <4> DEFINE t == SubSeq(Path[h], n + 1, Len(Path[h]))
      <4>1. n \in Nat /\ n < Len(Path[h]) /\ Len(Path[h]) - n = 1
        BY <1>2, <3>1
      <4>2. t \in Seq(Hash) /\ Len(t) = 1 /\ t[1] = h
        BY <1>2, <4>1, SuffixOfSeq
      <4>3. <<h>> \in Seq(Hash) /\ Len(<<h>>) = 1 /\ <<h>>[1] = h
        OBVIOUS
      <4> HIDE DEF t
      <4>4. t = <<h>>
        BY <4>2, <4>3, SeqEqual
      <4> QED BY <4>4 DEF t
    <3>7. FirstOf(confirmed, n) = SubSeq(Path[h], 1, n)
      BY <1>1, <3>1, <3>4, <3>5 DEF FirstOf
    <3> QED BY <1>1, <1>2, <3>1, <3>4, <3>6, <3>7
  <2>2. CASE ~IsNextBlock(h)
    <3> DEFINE f == ForkLength(confirmed, h)
    <3>1. bs = SubSeq(Path[h], f + 1, Len(Path[h]))
      BY <2>2 DEF BlocksToApply, PathFrom
    <3>2. /\ f \in 1..Len(Path[h]) /\ f <= Len(confirmed)
          /\ FirstOf(confirmed, f) = SubSeq(Path[h], 1, f)
          /\ IsOnChain(confirmed, Path[h][f])
      BY <1>1, RegrownAtFork, LinkedFromGenesis, ForkLengthOnChain
    <3> HIDE DEF f
    <3>3. f /= Len(Path[h])
      BY <1>2, <3>2
    <3>4. f \in Nat /\ f < Len(Path[h])
      BY <1>2, <3>2, <3>3
    <3>5. bs \in Seq(Hash) /\ Len(bs) = Len(Path[h]) - f
      BY <1>2, <3>1, <3>4, SuffixOfSeq
    <3> HIDE DEF bs
    <3>6. n = f
      BY <1>2, <3>4, <3>5
    <3> HIDE DEF n
    <3> QED BY <1>1, <1>2, <3>1, <3>2, <3>4, <3>5, <3>6
  <2> QED BY <2>1, <2>2
<1> HIDE DEF bs, n
<1>4. /\ Len(bs) = Len(Path[h]) - n /\ bs /= << >>
      /\ \A i \in 1..(Len(Path[h]) - n) : bs[i] = Path[h][n + i]
  BY <1>2, <1>3, SuffixOfSeq
<1>5. Height(bs[1]) = n
  <2>1. 1 \in 1..(Len(Path[h]) - n) /\ n + 1 \in 1..Len(Path[h])
    BY <1>2, <1>3
  <2>2. bs[1] = Path[h][n + 1]
    BY <1>4, <2>1
  <2>3. Len(Path[Path[h][n + 1]]) = n + 1
    BY <2>1, PathOfAncestor
  <2> QED BY <1>2, <1>3, <2>2, <2>3 DEF Height
<1>6. Reorganized(bs) = Path[h]
  <2>1. Reorganized(bs) = SubSeq(Path[h], 1, n) \o SubSeq(Path[h], n + 1, Len(Path[h]))
    BY <1>3, <1>5 DEF Reorganized
  <2>2. n \in 1..Len(Path[h])
    BY <1>1, <1>2, <1>3
  <2>3. SubSeq(Path[h], 1, n) \o SubSeq(Path[h], n + 1, Len(Path[h])) = Path[h]
    BY <1>2, <2>2
  <2> QED BY <2>1, <2>3
<1>7. Elements(bs) \subseteq Elements(Path[h])
  <2> SUFFICES ASSUME NEW i \in 1..(Len(Path[h]) - n) PROVE bs[i] \in Elements(Path[h])
    BY <1>3, <1>4 DEF Elements
  <2>1. n + i \in DOMAIN Path[h]
    BY <1>1, <1>2, <1>3
  <2> QED BY <1>4, <2>1 DEF Elements
<1>8. ASSUME NEW m \in 1..n PROVE Path[h][m] = confirmed[m] /\ m \in DOMAIN confirmed
  <2>1. SubSeq(Path[h], 1, n)[m] = Path[h][m]
    BY <1>1, <1>2, <1>3
  <2>2. FirstOf(confirmed, n)[m] = confirmed[m] /\ m \in DOMAIN confirmed
    BY <1>1, <1>3 DEF FirstOf
  <2> QED BY <1>3, <2>1, <2>2
<1>9. ASSUME NEW m \in (n + 1)..Len(Path[h]) PROVE Path[h][m] \in Elements(bs)
  <2>1. m - n \in 1..(Len(Path[h]) - n) /\ n + (m - n) = m
    BY <1>1, <1>2, <1>3
  <2>2. bs[m - n] = Path[h][m] /\ m - n \in DOMAIN bs
    BY <1>3, <1>4, <2>1
  <2> QED BY <2>2 DEF Elements
<1>10. Elements(Path[h]) \subseteq Elements(confirmed) \cup Elements(bs)
  <2> SUFFICES ASSUME NEW m \in 1..Len(Path[h])
               PROVE  Path[h][m] \in Elements(confirmed) \cup Elements(bs)
    BY <1>2 DEF Elements
  <2>1. CASE m <= n
    <3>1. m \in 1..n
      BY <1>3, <2>1
    <3> QED BY <1>8, <3>1 DEF Elements
  <2>2. CASE ~(m <= n)
    <3>1. m \in (n + 1)..Len(Path[h])
      BY <1>1, <1>2, <1>3, <2>2
    <3> QED BY <1>9, <3>1
  <2> QED BY <2>1, <2>2
<1>11. \E k \in 1..Len(confirmed) :
          /\ k < Len(Path[h])
          /\ \A m \in 1..k : Path[h][m] = confirmed[m]
          /\ \A m \in (k + 1)..Len(Path[h]) : Path[h][m] \in Elements(bs)
  BY <1>3, <1>8, <1>9
<1> QED BY <1>3, <1>6, <1>7, <1>10, <1>11 DEF bs

\* Every outcome of ProcessBlockInternal keeps the invariant, and the confirmed
\* chain changes only to one with more work.
LEMMA BlockInvStep ==
    ASSUME HeaderInv, BlockInv, NEW h \in Hash,
           \/ BlockExists(h) \/ BlockOrphaned(h) \/ BlockConfirmed(h)
           \/ BlockStored(h) \/ BlockRejected(h)
    PROVE  /\ BlockInv' /\ ConfirmedGrows
           /\ UNCHANGED <<candidate, headers, mmr>>
           /\ UNCHANGED orphanHeaders \/ CacheHeader(h)
<1> DEFINE bs == BlocksToApply(h)
<1>1. ASSUME UNCHANGED chainVars, orphanBlocks' \subseteq orphanBlocks \cup {h},
             h \in blocks => orphanBlocks' \subseteq orphanBlocks
      PROVE  BlockInv' /\ ConfirmedGrows /\ UNCHANGED <<candidate, headers, mmr>>
  BY <1>1 DEF BlockInv, ConfirmedGrows, chainVars, Linked, Tip, TxHashSetAtConfirmedTip,
              StoredBlocksAreValid, BlocksAreKept
<1>2. CASE BlockExists(h)
  BY <1>1, <1>2 DEF BlockExists, orphanVars
<1>3. CASE BlockOrphaned(h)
  BY <1>1, <1>3 DEF BlockOrphaned, IsKnownBlock
<1>4. CASE BlockRejected(h)
  BY <1>1, <1>4 DEF BlockRejected
<1>5. ASSUME IsValidBlock(h)
      PROVE  /\ bs \in Seq(Hash)
             /\ Reorganized(bs) = Path[h]
             /\ Elements(Path[h]) \subseteq Elements(confirmed) \cup Elements(bs)
             /\ Elements(bs) \subseteq GoodBlock \cap SelfConsistent \cap headers
             /\ h \in headers
             /\ \E n \in 1..Len(confirmed) :
                   /\ n < Len(Path[h])
                   /\ \A m \in 1..n : Path[h][m] = confirmed[m]
                   /\ \A m \in (n + 1)..Len(Path[h]) : Path[h][m] \in Elements(bs)
  <2>1. ~IsOnChain(confirmed, h) /\ h \in headers
    BY <1>5 DEF IsValidBlock, IsKnownBlock, IsOrphanBlock
  <2>2. /\ bs \in Seq(Hash)
        /\ Reorganized(bs) = Path[h]
        /\ Elements(Path[h]) \subseteq Elements(confirmed) \cup Elements(bs)
        /\ Elements(bs) \subseteq Elements(Path[h])
        /\ \E n \in 1..Len(confirmed) :
              /\ n < Len(Path[h])
              /\ \A m \in 1..n : Path[h][m] = confirmed[m]
              /\ \A m \in (n + 1)..Len(Path[h]) : Path[h][m] \in Elements(bs)
    BY <2>1, BlocksToApplyReachBlock DEF BlockInv
  <2>3. Elements(Path[h]) \subseteq headers
    BY <2>1 DEF HeaderInv
  <2>4. \A i \in 1..Len(bs) : bs[i] \in GoodBlock \cap SelfConsistent
    BY <1>5 DEF IsValidBlock, CanApply
  <2>5. Elements(bs) \subseteq GoodBlock \cap SelfConsistent
    BY <2>2, <2>4 DEF Elements
  <2> QED BY <2>1, <2>2, <2>3, <2>5
<1>6. headers \subseteq Hash
  BY DEF HeaderInv
<1>7. CASE BlockStored(h)
  <2> HIDE DEF bs
  <2>1. /\ blocks' = blocks \cup Elements(bs)
        /\ orphanBlocks' = orphanBlocks \ Elements(bs)
        /\ UNCHANGED <<candidate, confirmed, headers, sums, mmr, txHashSet, txFiles,
                       compacted, orphanHeaders>>
        /\ IsValidBlock(h)
    BY <1>7 DEF BlockStored, bs
  <2>2. StoredBlocksAreValid'
    BY <1>5, <2>1 DEF StoredBlocksAreValid, BlockInv
  <2>3. BlocksAreKept'
    BY <2>1 DEF BlockInv, BlocksAreKept
  <2>4. BlockInv'
    BY <1>5, <1>6, <2>1, <2>2, <2>3 DEF BlockInv, Linked, Tip, TxHashSetAtConfirmedTip
  <2> QED BY <2>1, <2>4 DEF ConfirmedGrows
<1>8. CASE BlockConfirmed(h)
  <2> HIDE DEF bs
  <2>1. /\ IsValidBlock(h) /\ Wins(h)
        /\ confirmed' = Path[h]
        /\ blocks' = blocks \cup Elements(bs)
        /\ sums' = sums \cup Elements(bs)
        /\ orphanBlocks' = orphanBlocks \ Elements(bs)
        /\ txHashSet' = h
        /\ txFiles' = h
        /\ UNCHANGED <<candidate, headers, mmr, compacted, orphanHeaders>>
    <3>1. IsValidBlock(h)
      BY <1>8 DEF BlockConfirmed
    <3> QED BY <1>5, <1>8, <3>1 DEF BlockConfirmed, bs
  <2>2. /\ Path[h] \in Seq(Hash) /\ Path[h] /= << >> /\ Tip(Path[h]) = h
    BY PathOfParent DEF Tip
  <2>3. Tip(confirmed') = h /\ Linked(confirmed)'
    BY <2>1, <2>2 DEF Linked, Tip
  <2>4. Elements(confirmed') \subseteq Elements(confirmed) \cup Elements(bs)
    BY <1>5, <2>1
  <2>5. TxHashSetAtConfirmedTip'
    <3>1. Elements(confirmed) \subseteq sums
      BY DEF BlockInv, TxHashSetAtConfirmedTip
    <3>2. Elements(confirmed') \subseteq sums'
      BY <2>1, <2>4, <3>1
    <3> QED BY <2>1, <2>3, <3>2 DEF TxHashSetAtConfirmedTip, Tip, Elements
  <2>6. StoredBlocksAreValid'
    <3>1. /\ Elements(confirmed) \ {Genesis} \subseteq GoodBlock
          /\ blocks \subseteq GoodBlock \cap SelfConsistent \cap headers
          /\ blocks \cap orphanBlocks = {}
      BY DEF BlockInv, StoredBlocksAreValid
    <3>2. Elements(confirmed') \ {Genesis} \subseteq GoodBlock
      BY <1>5, <2>1, <2>4, <3>1
    <3>3. /\ blocks' \subseteq GoodBlock \cap SelfConsistent \cap headers'
          /\ blocks' \cap orphanBlocks' = {}
      BY <1>5, <2>1, <3>1
    <3> QED BY <3>2, <3>3 DEF StoredBlocksAreValid, Elements
  <2>7. BlocksAreKept'
    <3>1. PICK n \in 1..Len(confirmed) :
             /\ n < Len(Path[h])
             /\ \A m \in 1..n : Path[h][m] = confirmed[m]
             /\ \A m \in (n + 1)..Len(Path[h]) : Path[h][m] \in Elements(bs)
      BY <1>5, <2>1
    <3>2. Len(Path[h]) \in Nat /\ Len(confirmed) \in Nat /\ compacted \in Nat
      BY PathOfParent DEF BlockInv, Linked
    <3> SUFFICES ASSUME NEW m \in 2..Len(Path[h]), m > compacted \/ m = Len(Path[h])
                 PROVE  Path[h][m] \in blocks'
      BY <2>1 DEF BlocksAreKept
    <3>3. CASE m <= n
      <4>1. m \in 1..n /\ m \in 2..Len(confirmed) /\ m > compacted
        BY <3>1, <3>2, <3>3
      <4> QED BY <2>1, <3>1, <4>1 DEF BlockInv, BlocksAreKept
    <3>4. CASE ~(m <= n)
      <4>1. m \in (n + 1)..Len(Path[h])
        BY <3>2, <3>4
      <4> QED BY <2>1, <3>1, <4>1
    <3> QED BY <3>3, <3>4
  <2>8. BlockInv'
    <3>1. /\ blocks' \subseteq Hash /\ sums' \subseteq Hash /\ orphanBlocks' \subseteq Hash
      BY <1>5, <1>6, <2>1 DEF BlockInv
    <3>2. Tip(confirmed)' \in headers'
      BY <1>5, <2>1, <2>3 DEF Tip
    <3>3. compacted' \in Nat
      BY <2>1 DEF BlockInv
    <3> QED BY <2>3, <2>5, <2>6, <2>7, <3>1, <3>2, <3>3 DEF BlockInv
  <2>9. \/ TotalDifficulty[h] > TotalDifficulty[Tip(confirmed)]
        \/ Prev(h) = Tip(confirmed) /\ ~IsConsistent(h)
    <3>1. CASE IsNextBlock(h)
      <4>1. h /= Genesis
        <5>1. confirmed[1] = Genesis /\ Len(confirmed) \in Nat \ {0}
          BY LinkedFromGenesis DEF BlockInv, Linked
        <5>2. Len(Path[Genesis]) = 1
          BY TreeAssumption
        <5>3. IsOnChain(confirmed, Genesis)
          BY <5>1, <5>2 DEF IsOnChain
        <5> QED BY <2>1, <5>3 DEF IsValidBlock, IsKnownBlock
      <4>2. IsConsistent(h) => TotalDifficulty[h] > TotalDifficulty[Prev(h)]
        BY <1>5, <2>1, <4>1 DEF HeaderInv, ConsistentAddWork
      <4> QED BY <3>1, <4>2 DEF IsNextBlock
    <3>2. CASE IsHeavier(confirmed, h)
      BY <3>2 DEF IsHeavier, GetTotalDifficulty, BlockInv
    <3> QED BY <2>1, <3>1, <3>2 DEF Wins
  <2>10. ConfirmedGrows
    BY <2>3, <2>9 DEF ConfirmedGrows
  <2> QED BY <2>1, <2>8, <2>10
<1> QED
  <2>1. BlockOrphaned(h) => UNCHANGED orphanHeaders \/ CacheHeader(h)
    BY DEF BlockOrphaned
  <2>2. BlockExists(h) \/ BlockRejected(h) => UNCHANGED orphanHeaders
    BY DEF BlockExists, BlockRejected, orphanVars
  <2> QED BY <1>2, <1>3, <1>4, <1>7, <1>8, <2>1, <2>2

-----------------------------------------------------------------------------
(* The whole system *)

\* The orphan header cache, the cached tip and the threads.
ThreadInv ==
    /\ orphanHeaders \subseteq Hash
    /\ IsFiniteSet(orphanHeaders) /\ Cardinality(orphanHeaders) <= MaxOrphanHeaders
    /\ cachedTip \in Hash
    /\ pc \in [Thread -> Label]
    /\ block \in [Thread -> Hash]
    /\ readTip \in [Thread -> Hash]

\* The inductive invariant.
IInv == HeaderInv /\ BlockInv /\ ThreadInv

\* The inductive invariant implies the invariants of ChainState.
LEMMA IInvImpliesInvariants ==
    ASSUME IInv
    PROVE  /\ TypeOK /\ ChainsAreLinked /\ CandidateIsHeaviest /\ MMRHoldsCandidate
           /\ TxHashSetAtConfirmedTip /\ StoredBlocksAreValid
           /\ RewindFindsBlocks
<1>1. TypeOK
  <2>1. /\ candidate \in Seq(Hash) /\ candidate /= << >>
        /\ confirmed \in Seq(Hash) /\ confirmed /= << >>
        /\ Tip(confirmed) \in Hash
    BY DEF IInv, HeaderInv, BlockInv, Linked, Stacked
  <2>2. txHashSet \in Hash \cup {NULL} /\ txFiles \in Hash
    BY <2>1 DEF IInv, BlockInv, TxHashSetAtConfirmedTip
  <2> QED BY <2>1, <2>2 DEF TypeOK, IInv, HeaderInv, BlockInv, ThreadInv
<1>2. ChainsAreLinked
  BY CandidateIsStored DEF ChainsAreLinked, IInv, HeaderInv, BlockInv, Linked, Stacked
<1>3. RewindFindsBlocks
  <2>1. /\ confirmed \in Seq(Hash) /\ Len(confirmed) \in Nat \ {0} /\ compacted \in Nat
        /\ confirmed = Path[Tip(confirmed)]
        /\ \A n \in 1..Len(confirmed) : Len(Path[confirmed[n]]) = n
    BY LinkedFromGenesis DEF IInv, BlockInv, Linked
  <2>2. Path[txHashSet] = confirmed
    BY <2>1 DEF IInv, BlockInv, TxHashSetAtConfirmedTip
  <2> SUFFICES ASSUME NEW n \in DOMAIN confirmed, n >= compacted \/ n >= Len(confirmed) - 1
               PROVE  CanRewind(confirmed[n])
    BY DEF RewindFindsBlocks
  <2>3. n \in 1..Len(confirmed) /\ Len(Path[confirmed[n]]) = n
    BY <2>1
  <2>4. IsOnChain(confirmed, confirmed[n])
    BY <2>3 DEF IsOnChain
  <2>5. ASSUME NEW m \in (n + 1)..Len(confirmed) PROVE confirmed[m] \in blocks
    <3>1. m \in 2..Len(confirmed) /\ (m > compacted \/ m = Len(confirmed))
      BY <2>1, <2>3
    <3> QED BY <3>1 DEF IInv, BlockInv, BlocksAreKept
  <2> QED BY <2>2, <2>3, <2>4, <2>5 DEF CanRewind
<1> QED BY <1>1, <1>2, <1>3 DEF IInv, HeaderInv, BlockInv

\* The cache of orphan headers stays within its size.
LEMMA CacheHeaderBounded ==
    ASSUME ThreadInv, NEW h \in Hash, UNCHANGED orphanHeaders \/ CacheHeader(h)
    PROVE  /\ orphanHeaders' \subseteq Hash
           /\ IsFiniteSet(orphanHeaders')
           /\ Cardinality(orphanHeaders') <= MaxOrphanHeaders
<1>1. CASE UNCHANGED orphanHeaders
  BY <1>1 DEF ThreadInv
<1>2. CASE CacheHeader(h)
  <2>1. PICK keep \in SUBSET (orphanHeaders \ {h}) :
           Cardinality(keep) < MaxOrphanHeaders /\ orphanHeaders' = keep \cup {h}
    BY <1>2 DEF CacheHeader
  <2>2. IsFiniteSet(keep)
    BY <2>1, FS_Subset DEF ThreadInv
  <2>3. h \notin keep
    BY <2>1
  <2>4. IsFiniteSet(keep \cup {h}) /\ Cardinality(keep \cup {h}) = Cardinality(keep) + 1
    BY <2>2, <2>3, FS_AddElement
  <2>5. Cardinality(keep) \in Nat
    BY <2>2, FS_CardinalityType
  <2>6. orphanHeaders' \subseteq Hash
    BY <2>1 DEF ThreadInv
  <2> QED BY <2>1, <2>4, <2>5, <2>6, BoundAssumption
<1> QED BY <1>1, <1>2

\* Steps that leave the confirmed chain and the stored blocks alone, and only add
\* headers.
LEMMA BlockInvFrame ==
    ASSUME BlockInv, headers \subseteq headers', orphanBlocks' \subseteq orphanBlocks,
           UNCHANGED <<confirmed, blocks, sums, txHashSet, txFiles, compacted>>
    PROVE  BlockInv' /\ ConfirmedGrows
<1>1. StoredBlocksAreValid'
  BY DEF BlockInv, StoredBlocksAreValid, Elements
<1>2. TxHashSetAtConfirmedTip'
  BY DEF BlockInv, TxHashSetAtConfirmedTip, Elements, Tip
<1>3. Linked(confirmed)' /\ Tip(confirmed)' \in headers'
  BY DEF BlockInv, Linked, Tip
<1>4. BlocksAreKept'
  BY DEF BlockInv, BlocksAreKept
<1> QED BY <1>1, <1>2, <1>3, <1>4 DEF BlockInv, ConfirmedGrows

\* At height 0, a restart makes k copies of genesis k + 1.
LEMMA OneMoreGenesis ==
    ASSUME NEW k \in Nat, NEW c \in Seq(Hash), Len(c) = 1, c[1] = Genesis
    PROVE  /\ Len([i \in 1..k |-> Genesis] \o c) = k + 1
           /\ Append([i \in 1..k |-> Genesis] \o c, Genesis)
                 = [i \in 1..(k + 1) |-> Genesis] \o c
<1> DEFINE g == [i \in 1..k |-> Genesis]
           g1 == [i \in 1..(k + 1) |-> Genesis]
<1>1. Genesis \in Hash
  BY TreeAssumption
<1>2. k + 1 \in Nat
  OBVIOUS
<1>3. g \in Seq(Hash) /\ Len(g) = k /\ g1 \in Seq(Hash) /\ Len(g1) = k + 1
  BY <1>2, CopiesOfGenesis
<1>4. c = <<Genesis>>
  <2> DEFINE d == <<Genesis>>
  <2>1. d \in Seq(Hash) /\ Len(d) = 1 /\ d[1] = Genesis
    BY <1>1
  <2> HIDE DEF d
  <2>2. \A i \in 1..Len(c) : c[i] = d[i]
    BY <2>1
  <2>3. c = d
    BY <2>1, <2>2, SeqEqual
  <2> QED BY <2>3 DEF d
<1>5. g \o c = g1
  <2>1. g \o c \in Seq(Hash) /\ Len(g \o c) = k + 1
    <3> HIDE DEF g, g1
    <3>1. g \in Seq(Hash) /\ Len(g) = k
      BY <1>3
    <3>2. g \o c \in Seq(Hash) /\ Len(g \o c) = Len(g) + Len(c)
      BY <3>1, ConcatProperties
    <3> QED BY <3>1, <3>2
  <2>2. ASSUME NEW i \in 1..(k + 1) PROVE (g \o c)[i] = Genesis
    <3>1. \A j \in 1..k : g[j] = Genesis
      OBVIOUS
    <3> HIDE DEF g
    <3>2. CASE i <= k
      <4>1. (g \o c)[i] = g[i] /\ i \in 1..k
        BY <1>3, <3>2
      <4> QED BY <3>1, <4>1
    <3>3. CASE ~(i <= k)
      <4>1. i = Len(g) + 1
        BY <1>3, <3>3
      <4>2. i \in 1..(Len(g) + Len(c)) /\ ~(i <= Len(g)) /\ i - Len(g) = 1
        BY <1>3, <4>1
      <4>3. (g \o c)[i] = c[i - Len(g)]
        BY <1>3, <4>2, ConcatProperties
      <4> QED BY <4>2, <4>3
    <3> QED BY <3>2, <3>3
  <2>3. \A i \in 1..(k + 1) : g1[i] = Genesis
    OBVIOUS
  <2> HIDE DEF g, g1
  <2>4. \A i \in 1..Len(g \o c) : (g \o c)[i] = g1[i]
    BY <2>1, <2>2, <2>3
  <2> QED BY <1>3, <2>1, <2>4, SeqEqual
<1>6. Append(g1, Genesis) = g1 \o c
  <2> HIDE DEF g1
  <2> QED BY <1>1, <1>3, <1>4
<1> HIDE DEF g, g1
<1>7. Len(g \o c) = k + 1 /\ Append(g \o c, Genesis) = g1 \o c
  BY <1>3, <1>5, <1>6
<1> QED BY <1>7 DEF g, g1

\* Restarting keeps the invariant; at height 0 it adds a copy of genesis to the
\* header MMR.
LEMMA RestartInv ==
    ASSUME IInv, Restart
    PROVE  IInv' /\ HeadersGrow /\ ConfirmedGrows
<1>1. Genesis \in headers /\ Genesis \in Hash
  BY CandidateIsStored, TreeAssumption DEF IInv
<1>2. headers' = headers /\ candidate' = candidate /\ confirmed' = confirmed
  BY <1>1 DEF Restart
<1>3. HeaderInv' /\ HeadersGrow
  <2>1. CASE Len(candidate) /= 1
    BY <1>2, <2>1, HeaderInvFrame DEF IInv, Restart
  <2>2. CASE Len(candidate) = 1
    <3>1. PICK k \in 0..MaxRestarts : mmr = [i \in 1..k |-> Genesis] \o candidate
      BY DEF IInv, HeaderInv, MMRHoldsCandidate
    <3> DEFINE g1 == [i \in 1..(k + 1) |-> Genesis]
    <3>2. k \in Nat
      BY BoundAssumption
    <3>4. candidate \in Seq(Hash) /\ candidate[1] = Genesis
      BY DEF IInv, HeaderInv, Stacked
    <3>5. mmr' = Append(mmr, Genesis) /\ Len(mmr) <= MaxRestarts
      BY <2>2 DEF Restart
    <3>6. Len(mmr) = k + 1 /\ Append(mmr, Genesis) = g1 \o candidate
      BY <2>2, <3>1, <3>2, <3>4, OneMoreGenesis
    <3> HIDE DEF g1
    <3>7. k + 1 \in 0..MaxRestarts /\ mmr' = g1 \o candidate
      BY <3>2, <3>5, <3>6, BoundAssumption
    <3>8. MMRHoldsCandidate'
      <4>1. mmr' = g1 \o candidate'
        BY <1>2, <3>7
      <4> QED BY <3>7, <4>1 DEF MMRHoldsCandidate, g1
    <3>9. mmr' \in Seq(Hash)
      BY <1>1, <3>5 DEF IInv, HeaderInv
    <3>10. Stacked(candidate)' /\ ConsistentAddWork(headers)' /\ (Elements(candidate) \subseteq headers)'
      BY <1>2 DEF IInv, HeaderInv, Stacked, FirstOf, ConsistentAddWork, Elements
    <3>11. CandidateIsHeaviest'
      BY <1>2 DEF IInv, HeaderInv, CandidateIsHeaviest, Tip
    <3> QED BY <1>2, <3>8, <3>9, <3>10, <3>11 DEF IInv, HeaderInv, HeadersGrow
  <2> QED BY <2>1, <2>2
<1>4. BlockInv' /\ ConfirmedGrows
  <2>1. /\ blocks' \subseteq blocks /\ orphanBlocks' = {} /\ txHashSet' = Tip(confirmed)
        /\ txFiles' = txFiles
        /\ sums \subseteq sums' /\ sums' \subseteq sums \cup {Genesis}
    BY DEF Restart, Compact
  <2>2. StoredBlocksAreValid'
    BY <1>2, <2>1 DEF IInv, BlockInv, StoredBlocksAreValid, Elements
  <2>3. TxHashSetAtConfirmedTip'
    BY <1>2, <2>1 DEF IInv, BlockInv, TxHashSetAtConfirmedTip, Elements, Tip
  <2>4. Linked(confirmed)' /\ Tip(confirmed)' \in headers'
    BY <1>2 DEF IInv, BlockInv, Linked, Tip
  <2>5. blocks' \subseteq Hash /\ sums' \subseteq Hash /\ orphanBlocks' \subseteq Hash
    BY <1>1, <2>1 DEF IInv, BlockInv
  <2> DEFINE H == GetHorizonHeight(Len(confirmed) - 1)
  <2>6. /\ confirmed \in Seq(Hash) /\ Len(confirmed) \in Nat \ {0} /\ compacted \in Nat
        /\ \A n \in 1..Len(confirmed) : Len(Path[confirmed[n]]) = n
    BY LinkedFromGenesis DEF IInv, BlockInv, Linked
  <2>7. H \in Nat /\ H <= Len(confirmed) - 1
    BY <2>6, BoundAssumption DEF GetHorizonHeight
  <2>8. /\ blocks' = {h \in blocks : Height(h) >= H}
        /\ compacted' = IF H > compacted THEN H ELSE compacted
    BY DEF Restart, Compact
  <2> HIDE DEF H
  <2>9. BlocksAreKept'
    <3> SUFFICES ASSUME NEW m \in 2..Len(confirmed), m > compacted' \/ m = Len(confirmed)
                 PROVE  confirmed[m] \in blocks'
      BY <1>2 DEF BlocksAreKept
    <3>1. m \in 1..Len(confirmed) /\ Height(confirmed[m]) = m - 1
      BY <2>6 DEF Height
    <3>2. m > compacted \/ m = Len(confirmed)
      BY <2>6, <2>7, <2>8
    <3>3. confirmed[m] \in blocks
      BY <3>2 DEF IInv, BlockInv, BlocksAreKept
    <3>4. m - 1 >= H
      BY <2>6, <2>7, <2>8
    <3> QED BY <2>8, <3>1, <3>3, <3>4
  <2>10. compacted' \in Nat
    BY <2>6, <2>7, <2>8
  <2> QED BY <1>2, <2>2, <2>3, <2>4, <2>5, <2>9, <2>10 DEF BlockInv, ConfirmedGrows
<1>5. ThreadInv'
  <2>1. orphanHeaders' = {} /\ IsFiniteSet({}) /\ Cardinality({}) = 0
    BY FS_EmptySet DEF Restart
  <2>2. Tip(confirmed) \in Hash
    BY DEF IInv, HeaderInv, BlockInv
  <2>3. cachedTip' \in Hash
    BY <2>2 DEF Restart
  <2>4. /\ pc' \in [Thread -> Label] /\ block' \in [Thread -> Hash] /\ readTip' \in [Thread -> Hash]
    BY <1>1 DEF Restart, Label
  <2> QED BY <2>1, <2>3, <2>4, BoundAssumption DEF ThreadInv
<1> QED BY <1>3, <1>4, <1>5 DEF IInv

\* Every step of every thread keeps the invariant and loses no work.
LEMMA IInvStep ==
    ASSUME IInv, [Next]_vars
    PROVE  IInv' /\ HeadersGrow /\ ConfirmedGrows
<1> USE DEF IInv
<1>0. \A t \in Thread : block[t] \in Hash
  BY DEF ThreadInv
<1>a. Tip(confirmed) \in Hash
  BY DEF HeaderInv, BlockInv
<1>b. Worker \subseteq Thread /\ Orphaner \in Thread
  BY DEF Thread
<1>1. ASSUME NEW h \in Hash \ {Genesis}, AddBlockHeader(h)
      PROVE  IInv' /\ HeadersGrow /\ ConfirmedGrows
  <2>1. ProcessSingleHeader(h) /\ UNCHANGED <<cachedTip, threadVars>>
    BY <1>1 DEF AddBlockHeader
  <2>2. /\ HeaderInv' /\ HeadersGrow
        /\ UNCHANGED <<confirmed, blocks, sums, txHashSet, txFiles, compacted, orphanBlocks>>
        /\ UNCHANGED orphanHeaders \/ CacheHeader(h)
    BY <2>1, ProcessSingleHeaderInv
  <2>3. BlockInv' /\ ConfirmedGrows
    BY <2>2, BlockInvFrame DEF HeadersGrow
  <2>4. ThreadInv'
    BY <2>1, <2>2, CacheHeaderBounded DEF ThreadInv, threadVars
  <2> QED BY <2>2, <2>3, <2>4
<1>2. ASSUME NEW n \in 1..MaxSync, NEW hs \in SyncMessages[n], AddBlockHeaders(hs)
      PROVE  IInv' /\ HeadersGrow /\ ConfirmedGrows
  <2>1. /\ HeaderInv' /\ HeadersGrow
        /\ UNCHANGED <<confirmed, blocks, sums, txHashSet, txFiles, compacted, orphanVars,
                       cachedTip, threadVars>>
    BY <1>2, AddBlockHeadersInv
  <2>2. BlockInv' /\ ConfirmedGrows
    BY <2>1, BlockInvFrame DEF HeadersGrow, orphanVars
  <2>3. ThreadInv'
    BY <2>1 DEF ThreadInv, threadVars, orphanVars
  <2> QED BY <2>1, <2>2, <2>3
<1>3. ASSUME UNCHANGED chainVars, UNCHANGED orphanHeaders,
             orphanBlocks' \subseteq orphanBlocks,
             cachedTip' \in Hash, pc' \in [Thread -> Label],
             block' \in [Thread -> Hash], readTip' \in [Thread -> Hash]
      PROVE  IInv' /\ HeadersGrow /\ ConfirmedGrows
  <2>1. HeaderInv' /\ HeadersGrow
    BY <1>3, HeaderInvFrame DEF chainVars
  <2>2. BlockInv' /\ ConfirmedGrows
    BY <1>3, BlockInvFrame DEF chainVars
  <2> QED BY <1>3, <2>1, <2>2 DEF ThreadInv
<1>4. ASSUME NEW t \in Worker, NEW h \in Hash \ {Genesis}, AddBlock(t, h)
      PROVE  IInv' /\ HeadersGrow /\ ConfirmedGrows
  BY <1>3, <1>4, <1>b DEF AddBlock, Goto, ThreadInv, Label, orphanVars
<1>5. CASE ProcessNextOrphanBlock
  <2>1. candidate[Len(confirmed) + 1] \in Hash
    BY <1>5 DEF ProcessNextOrphanBlock, BlockInv
  <2> QED BY <1>3, <1>5, <1>b, <2>1
          DEF ProcessNextOrphanBlock, Goto, ThreadInv, Label, orphanVars
<1>6. CASE RemoveOrphan
  BY <1>3, <1>6, <1>b DEF RemoveOrphan, Goto, ThreadInv, Label
<1>7. ASSUME NEW t \in Thread, CheckHorizon(t)
      PROVE  IInv' /\ HeadersGrow /\ ConfirmedGrows
  BY <1>3, <1>7 DEF CheckHorizon, AfterThrow, Goto, ThreadInv, Label, orphanVars
<1>8. ASSUME NEW t \in Thread, AddHeaderOfBlock(t)
      PROVE  IInv' /\ HeadersGrow /\ ConfirmedGrows
  <2>1. pc' \in [Thread -> Label] /\ UNCHANGED <<cachedTip, block, readTip>>
    BY <1>8 DEF AddHeaderOfBlock, AfterThrow, Goto, ThreadInv, Label
  <2>2. CASE UNCHANGED <<chainVars, orphanVars>>
    BY <1>3, <2>1, <2>2 DEF ThreadInv, orphanVars
  <2>3. CASE ProcessSingleHeader(block[t])
    <3>1. /\ HeaderInv' /\ HeadersGrow
          /\ UNCHANGED <<confirmed, blocks, sums, txHashSet, txFiles, compacted, orphanBlocks>>
          /\ UNCHANGED orphanHeaders \/ CacheHeader(block[t])
      BY <1>0, <2>3, ProcessSingleHeaderInv
    <3>2. BlockInv' /\ ConfirmedGrows
      BY <3>1, BlockInvFrame DEF HeadersGrow
    <3>3. ThreadInv'
      BY <1>0, <2>1, <3>1, CacheHeaderBounded DEF ThreadInv
    <3> QED BY <3>1, <3>2, <3>3
  <2> QED BY <1>8, <2>2, <2>3 DEF AddHeaderOfBlock
<1>9. ASSUME NEW t \in Thread, ProcessBlockInternal(t)
      PROVE  IInv' /\ HeadersGrow /\ ConfirmedGrows
  <2>1. pc' \in [Thread -> Label] /\ UNCHANGED <<cachedTip, block, readTip>>
    BY <1>9 DEF ProcessBlockInternal, AfterThrow, Goto, ThreadInv, Label
  <2>2. \/ BlockExists(block[t]) \/ BlockOrphaned(block[t]) \/ BlockConfirmed(block[t])
        \/ BlockStored(block[t]) \/ BlockRejected(block[t])
    BY <1>9 DEF ProcessBlockInternal
  <2>3. /\ BlockInv' /\ ConfirmedGrows
        /\ UNCHANGED <<candidate, headers, mmr>>
        /\ UNCHANGED orphanHeaders \/ CacheHeader(block[t])
    BY <1>0, <2>2, BlockInvStep
  <2>4. HeaderInv' /\ HeadersGrow
    BY <2>3, HeaderInvFrame
  <2>5. ThreadInv'
    BY <1>0, <2>1, <2>3, CacheHeaderBounded DEF ThreadInv
  <2> QED BY <2>3, <2>4, <2>5
<1>10. ASSUME NEW t \in Thread, ReadConfirmedTip(t)
       PROVE  IInv' /\ HeadersGrow /\ ConfirmedGrows
  BY <1>3, <1>10, <1>a DEF ReadConfirmedTip, Goto, ThreadInv, Label, orphanVars
<1>11. ASSUME NEW t \in Thread, SetCachedTip(t)
       PROVE  IInv' /\ HeadersGrow /\ ConfirmedGrows
  BY <1>3, <1>11 DEF SetCachedTip, Goto, ThreadInv, Label, orphanVars
<1>12. CASE Restart
  BY <1>12, RestartInv
<1>13. CASE UNCHANGED vars
  BY <1>3, <1>13 DEF vars, orphanVars, threadVars, ThreadInv
<1> QED
  BY <1>1, <1>2, <1>4, <1>5, <1>6, <1>7, <1>8, <1>9, <1>10, <1>11, <1>12, <1>13
  DEF Next, HeaderStep, BlockStep, ThreadStep

\* ChainState::Create on empty files gives a state of the inductive invariant.
LEMMA IInvInit == Init => IInv
<1> SUFFICES ASSUME Init PROVE IInv
  OBVIOUS
<1>1. /\ Genesis \in Hash /\ Path[Genesis] = <<Genesis>>
      /\ TotalDifficulty[Genesis] \in Nat
  BY TreeAssumption
<1>2. /\ Tip(<<Genesis>>) = Genesis /\ Elements(<<Genesis>>) = {Genesis}
      /\ Linked(<<Genesis>>) /\ Stacked(<<Genesis>>)
  <2> DEFINE g == <<Genesis>>
  <2>1. g \in Seq(Hash) /\ Len(g) = 1 /\ g[1] = Genesis /\ g /= << >>
    BY <1>1
  <2>2. Elements(g) = {Genesis} /\ Tip(g) = Genesis
    BY DEF Elements, Tip
  <2>3. Path[Genesis] = g
    BY <1>1
  <2> HIDE DEF g
  <2>4. Stacked(g)
    <3>1. \A n \in 1..Len(g) : Len(Path[g[n]]) = n
      BY <2>1, <2>3
    <3>2. \A n \in 2..Len(g) : FALSE
      BY <2>1
    <3> QED BY <2>1, <3>1, <3>2 DEF Stacked
  <2>5. Linked(g)
    BY <2>1, <2>2, <2>3 DEF Linked
  <2> QED BY <2>2, <2>4, <2>5 DEF g
<1>3. MMRHoldsCandidate
  <2> DEFINE g == [i \in 1..0 |-> Genesis]
  <2>1. g \in Seq(Hash) /\ Len(g) = 0
    BY CopiesOfGenesis
  <2>2. mmr = g \o candidate
    <3> HIDE DEF g
    <3> QED BY <1>1, <2>1 DEF Init
  <2>3. 0 \in 0..MaxRestarts
    BY BoundAssumption
  <2> QED BY <2>2, <2>3 DEF MMRHoldsCandidate
<1>4. HeaderInv
  <2>1. candidate = <<Genesis>> /\ mmr = <<Genesis>> /\ headers = {Genesis}
    BY DEF Init
  <2>2. Stacked(candidate) /\ Tip(candidate) = Genesis
    BY <1>2, <2>1
  <2>3. mmr \in Seq(Hash)
    BY <1>1, <2>1
  <2>4. /\ headers \subseteq Hash /\ Elements(candidate) \subseteq headers
        /\ headers \ {Genesis} \subseteq GoodHeader /\ ConsistentAddWork(headers)
    BY <1>1, <1>2, <2>1 DEF ConsistentAddWork
  <2>5. \A h \in headers : Elements(Path[h]) \subseteq headers
    BY <1>1, <1>2, <2>1
  <2>6. CandidateIsHeaviest
    BY <1>1, <2>1, <2>2 DEF CandidateIsHeaviest
  <2> QED BY <1>3, <2>2, <2>3, <2>4, <2>5, <2>6 DEF HeaderInv
<1>5. BlockInv
  <2>1. BlocksAreKept
    BY DEF Init, BlocksAreKept
  <2> QED BY <1>1, <1>2, <2>1 DEF Init, BlockInv, TxHashSetAtConfirmedTip, StoredBlocksAreValid
<1>6. ThreadInv
  <2>1. orphanHeaders = {} /\ cachedTip = Genesis
    BY DEF Init
  <2>2. IsFiniteSet(orphanHeaders) /\ Cardinality(orphanHeaders) = 0
    BY <2>1, FS_EmptySet
  <2>3. 0 <= MaxOrphanHeaders
    BY BoundAssumption
  <2>4. pc \in [Thread -> Label]
    BY DEF Init, Label
  <2>5. block \in [Thread -> Hash] /\ readTip \in [Thread -> Hash]
    BY <1>1 DEF Init
  <2> QED BY <1>1, <2>1, <2>2, <2>3, <2>4, <2>5 DEF ThreadInv
<1> QED BY <1>4, <1>5, <1>6 DEF IInv

\* The inductive invariant holds in every reachable state.
LEMMA IInvHolds == Spec => []IInv
<1>1. IInv /\ [Next]_vars => IInv'
  BY IInvStep
<1> QED BY <1>1, IInvInit, PTL DEF Spec

\* The state of the chains, the database, the caches and the threads is well
\* typed, and the orphan header cache never exceeds its size.
THEOREM TypeCorrect == Spec => []TypeOK
<1>1. IInv => TypeOK
  BY IInvImpliesInvariants
<1> QED BY <1>1, IInvHolds, PTL

\* Header and block processing, by any number of threads and across restarts, keep
\* the confirmed chain linked and every stored header with its ancestors, whatever
\* parents and roots the headers of a chunk name; and where the candidate chain has a
\* header whose parent and root agree, it has that header's ancestors below it.
THEOREM ChainsStayLinked == Spec => []ChainsAreLinked
<1>1. IInv => ChainsAreLinked
  BY IInvImpliesInvariants
<1> QED BY <1>1, IInvHolds, PTL

\* The candidate chain is the heaviest of all the headers ever stored, whatever
\* forks were validated and rolled back.
THEOREM CandidateStaysHeaviest == Spec => []CandidateIsHeaviest
<1>1. IInv => CandidateIsHeaviest
  BY IInvImpliesInvariants
<1> QED BY <1>1, IInvHolds, PTL

\* After every locked section the header MMR has, apart from copies of genesis
\* in front, the leaves of the candidate chain, the TxHashSet is at the
\* confirmed tip, and every confirmed block has its sums.
THEOREM MMRsFollow == Spec => []MMRsFollowChains
<1>1. IInv => MMRsFollowChains
  BY IInvImpliesInvariants DEF MMRsFollowChains
<1> QED BY <1>1, IInvHolds, PTL

\* Only validated blocks are confirmed or stored, also when a fork is stored
\* without winning or fails halfway.
THEOREM StoredBlocksStayValid == Spec => []StoredBlocksAreValid
<1>1. IInv => StoredBlocksAreValid
  BY IInvImpliesInvariants
<1> QED BY <1>1, IInvHolds, PTL

\* The candidate chain is only replaced by one with more work, and so is the confirmed
\* one, except by a next block whose header commits to other ancestors than it names.
THEOREM WorkNeverDecreases == Spec => WorkIncreases
<1> DEFINE A == /\ candidate' /= candidate =>
                     TotalDifficulty[Tip(candidate')] > TotalDifficulty[Tip(candidate)]
                /\ confirmed' /= confirmed =>
                     \/ TotalDifficulty[Tip(confirmed')] > TotalDifficulty[Tip(confirmed)]
                     \/ Prev(Tip(confirmed')) = Tip(confirmed) /\ ~IsConsistent(Tip(confirmed'))
<1>1. IInv /\ [Next]_vars => [A]_vars
  BY IInvStep DEF HeadersGrow, ConfirmedGrows
<1>2. Spec => [][A]_vars
  BY <1>1, IInvHolds, PTL DEF Spec
<1> QED BY <1>2 DEF WorkIncreases

\* TxHashSet::Rewind finds the blocks it needs back to any fork at or above the highest
\* horizon of a compaction, whatever forks, shorter ones included, were confirmed.
THEOREM RewindAlwaysFindsBlocks == Spec => []RewindFindsBlocks
<1>1. IInv => RewindFindsBlocks
  BY IInvImpliesInvariants
<1> QED BY <1>1, IInvHolds, PTL
=============================================================================
