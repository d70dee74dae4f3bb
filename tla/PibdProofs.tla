----------------------------- MODULE PibdProofs -----------------------------
(***************************************************************************)
(* For any archive headers, numbers of segments, peers and limits, and     *)
(* with zip downloads, failures and crashes in any order: the bookkeeping  *)
(* of a download by segments agrees with itself and with the set in memory *)
(* and on disk, only whole sets are validated, and the set in use belongs  *)
(* to the confirmed chain.                                                 *)
(***************************************************************************)
EXTENDS Pibd, OrderLemmas

-----------------------------------------------------------------------------
(* The inductive invariant *)

Sets == [of : Headers, size : [DataTypes -> Nat], kind : {"pibd", "zip", "grown"}]
Running == {"start", "validate", "install", "report"}

DiskType == [meta : Headers \cup {None}, of : Headers \cup {None},
             size : [DataTypes -> Nat], kind : {"pibd", "zip", "grown"}]
JobType == [state : {"IDLE", "RUNNING", "SUCCESS", "FAILED"},
            pc : Running \cup {"none", "publish", "notify", "lock"},
            block : Headers \cup {None}, set : Sets \cup {None},
            result : {None, "SUCCESS", "INVALID", "THREW"}]
ZipType == [pc : {"none", "download", "close", "unpack", "install", "done", "failed"},
            block : Headers \cup {None}, good : BOOLEAN]

TypeInv ==
    /\ block \in Headers \cup {None} /\ applied \in [Types -> Nat]
    /\ cached \in [Types -> SUBSET Nat] /\ complete \in BOOLEAN /\ offset \in 0..2
    /\ uncommitted \in Nat
    /\ open # None => open \in Sets
    /\ disk \in DiskType /\ job \in JobType /\ zip \in ZipType
    /\ candidate \in SUBSET Headers
    /\ syncPc \in {"idle", "applied", "joining"}
    /\ overlap \in BOOLEAN

\* What is asked for, what waits and what is applied.
SegmentInv ==
    /\ IsFiniteSet(DOMAIN pending) /\ Cardinality(DOMAIN pending) <= RequestCount
    /\ \A s \in DOMAIN pending : s \in [type : Types, idx : Nat]
    /\ block # None =>
        /\ \A s \in DOMAIN pending : ~IsApplied(s) /\ s.idx \notin cached[s.type]
        /\ \A t \in Types : \A i \in cached[t] : i >= applied[t] /\ i < NumSegs[block][t]
        /\ complete => AllApplied(applied)

\* The set in memory is that of the stored header; the one on disk is too, unless the
\* header is no longer a candidate.
SetInv ==
    /\ disk.meta \in candidate /\ disk.kind = "pibd" /\ disk.of # None => disk.of = disk.meta
    /\ open # None /\ open.kind = "pibd" =>
        /\ open.of = disk.meta
        /\ block # None => open.of = block /\ \A t \in DataTypes : open.size[t] = applied[t]
    /\ zip.pc # "none" => zip.block \in Headers
    /\ ~overlap /\ block # None => zip.pc = "none"

\* A validation runs for the session there is, and nothing else happens to it.
JobInv ==
    /\ job.state = "RUNNING" <=> job.pc \in Running
    /\ job.state = "RUNNING" =>
        syncPc = "idle" /\ block = job.block /\ block # None /\ complete /\ status # "PIBD"
    /\ syncPc # "idle" => job.state # "RUNNING" /\ block # None
    /\ syncPc = "joining" => complete /\ status # "PIBD"
    /\ job.pc \in {"validate", "install"} => job.set \in Sets
    /\ job.pc = "validate" /\ job.set.kind = "pibd" => IsWholeSet(job.set, job.block)
    /\ job.pc = "install" => IsWholeSet(job.set, job.block)

\* How a validation that failed leaves the set.
ResultInv ==
    /\ job.pc = "lock" => job.state # "SUCCESS"
    /\ job.pc \in {"publish", "notify", "lock"} /\ job.result = "SUCCESS" => job.state = "SUCCESS"
    /\ ~overlap /\ job.pc # "none" /\ job.result = "INVALID" =>
        /\ block # None => open = None
        /\ syncPc = "idle"

\* Whom the set in memory belongs to on the way to the status "BLOCKS".
ConfirmInv == ~overlap =>
    /\ job.pc \in {"validate", "install", "report", "publish"} => status = "SETUP"
    /\ job.pc = "publish" => block # None /\ complete /\ syncPc = "idle"
    /\ job.pc \in {"validate", "install"} /\ open # None => open.of = job.set.of
    /\ (\/ job.pc = "report" /\ job.result = "SUCCESS"
        \/ job.pc = "publish" /\ job.state = "SUCCESS"
        \/ zip.pc = "done") /\ open # None => open.of = confirmed
    /\ zip.pc \notin {"none", "download"} => status = "PROCESSING"

PibdInv == /\ TypeInv /\ SegmentInv /\ SetInv /\ JobInv /\ ResultInv /\ ConfirmInv
           /\ SessionMatchesSet /\ OpenIsConfirmed

-----------------------------------------------------------------------------
(* Which segments are asked for *)

\* Segments that have not arrived are finitely many, and their ranks tell them apart.
LEMMA RanksDiffer ==
    ASSUME TypeInv, block # None, NEW t \in Types
    PROVE  /\ IsFiniteSet(Missing(t)) /\ Missing(t) \subseteq Nat
           /\ \A i \in Missing(t) : Rank(t, i) \in Nat
           /\ \A i, j \in Missing(t) : i < j => Rank(t, i) < Rank(t, j)
<1>1. applied[t] \in Nat /\ NumSegs[block][t] \in Nat
  BY PibdAssumption DEF TypeInv
<1>2. Missing(t) \in SUBSET Nat /\ \A i \in Missing(t) : i <= NumSegs[block][t]
  BY <1>1 DEF Missing
<1>3. IsFiniteSet(Missing(t))
  BY <1>1, <1>2, FS_BoundedSetOfNaturals, Zenon
<1>4. \A i \in Missing(t) : Rank(t, i) \in Nat
  <2> SUFFICES ASSUME NEW i \in Missing(t) PROVE Rank(t, i) \in Nat
    OBVIOUS
  <2> DEFINE A == {j \in Missing(t) : j < i}
  <2>1. A \in SUBSET Missing(t) /\ Rank(t, i) = Cardinality(A)
    BY DEF Rank
  <2> HIDE DEF A
  <2> QED BY <1>3, <2>1, FS_Subset, FS_CardinalityType
<1>5. \A i, j \in Missing(t) : i < j => Rank(t, i) < Rank(t, j)
  <2> SUFFICES ASSUME NEW i \in Missing(t), NEW j \in Missing(t), i < j
               PROVE  Rank(t, i) < Rank(t, j)
    OBVIOUS
  <2> DEFINE A == {k \in Missing(t) : k < i}
             B == {k \in Missing(t) : k < j}
  <2>1. A \in SUBSET B /\ i \in B /\ i \notin A /\ B \in SUBSET Missing(t)
    BY <1>2
  <2>2. Cardinality(A) = Rank(t, i) /\ Cardinality(B) = Rank(t, j)
    BY DEF Rank
  <2> HIDE DEF A, B
  <2>3. IsFiniteSet(B)
    BY <1>3, <2>1, FS_Subset
  <2>4. Cardinality(A) <= Cardinality(B) /\ Cardinality(A) # Cardinality(B)
    BY <2>1, <2>3, FS_Subset
  <2> QED BY <1>4, <2>2, <2>4
<1> QED BY <1>2, <1>3, <1>4, <1>5

\* What the desegmenter may ask for: segments that have not arrived, either of the
\* bitmap or of the other types.
Wishes == {s \in [type : Types, idx : Nat] : s.idx \in Missing(s.type)}

LEMMA DesiredAreWishes ==
    ASSUME TypeInv, block # None, NEW max \in Nat
    PROVE  /\ NextDesiredSegments(max) \subseteq Wishes
           /\ IsFiniteSet(NextDesiredSegments(max))
           /\ \/ \A s \in NextDesiredSegments(max) : s.type = "bitmap"
              \/ \A s \in NextDesiredSegments(max) : s.type \in DataTypes
<1>1. ASSUME NEW t \in Types
      PROVE  /\ AppendDesiredSegments(t, max) \subseteq Wishes
             /\ \A s \in AppendDesiredSegments(t, max) : s.type = t
             /\ IsFiniteSet(AppendDesiredSegments(t, max))
  <2> DEFINE M == {j \in Missing(t) : Rank(t, j) < IF Cardinality(cached[t]) >= MaxCached THEN 1 ELSE max}
             f == [i \in M |-> Seg(t, i)]
  <2>1. M \in SUBSET Missing(t)
    OBVIOUS
  <2>2. IsFiniteSet(M) /\ M \subseteq Nat
    <3> HIDE DEF M
    <3> QED BY <2>1, RanksDiffer, FS_Subset
  <2>3. AppendDesiredSegments(t, max) = {f[i] : i \in M}
    BY Zenon DEF AppendDesiredSegments
  <2>4. \A i \in M : Seg(t, i) \in Wishes /\ Seg(t, i).type = t
    BY <2>1, <2>2 DEF Wishes, Seg
  <2>5. DOMAIN f = M /\ \A i \in M : f[i] = Seg(t, i)
    OBVIOUS
  <2> HIDE DEF M, f
  <2>6. IsFiniteSet({f[i] : i \in M})
    BY <2>2, <2>5, FiniteImage, Zenon
  <2> QED BY <2>3, <2>4, <2>5, <2>6
<1>2. CASE ~BitmapComplete
  <2>1. NextDesiredSegments(max) = AppendDesiredSegments("bitmap", max)
    BY <1>2 DEF NextDesiredSegments
  <2> QED BY <1>1, <2>1 DEF Types
<1>3. CASE BitmapComplete
  <2> DEFINE A(t) == AppendDesiredSegments(t, max)
             all == UNION {A(t) : t \in DataTypes}
  <2>1. NextDesiredSegments(max) = FirstOf(all, Interleaved(all), max)
    BY <1>3 DEF NextDesiredSegments
  <2>2. NextDesiredSegments(max) \in SUBSET all
    BY <2>1 DEF FirstOf
  <2>3. DataTypes \subseteq Types
    BY DEF DataTypes, Types
  <2>4. all \subseteq Wishes /\ \A s \in all : s.type \in DataTypes
    BY <1>1, <2>3
  <2>5. all = (A("output") \cup A("rangeproof")) \cup A("kernel")
    BY DEF DataTypes
  <2>6. IsFiniteSet(A("output")) /\ IsFiniteSet(A("rangeproof")) /\ IsFiniteSet(A("kernel"))
    BY <1>1, <2>3 DEF DataTypes
  <2> HIDE DEF A, all
  <2>7. IsFiniteSet(all)
    BY <2>5, <2>6, FS_Union, Zenon
  <2> QED BY <2>2, <2>4, <2>7, FS_Subset
<1> QED BY <1>2, <1>3

\* The order of the requests tells them apart.
LEMMA OrderTellsApart ==
    ASSUME TypeInv, block # None, NEW S \in SUBSET Wishes,
           \/ \A s \in S : s.type = "bitmap"
           \/ \A s \in S : s.type \in DataTypes
    PROVE  /\ Interleaved(S) \in [S -> Nat]
           /\ \A r, s \in S : Interleaved(S)[r] = Interleaved(S)[s] => r = s
<1> DEFINE pos(s) == (TypeIndex[s.type] + 3 - offset) % 3
           rank(s) == Rank(s.type, s.idx)
<1>1. \A s \in S : s \in [type : Types, idx : Nat] /\ s.idx \in Missing(s.type)
  BY DEF Wishes
<1>2. \A s \in S : rank(s) \in Nat
  BY <1>1, RanksDiffer
<1>3. \A s \in S : pos(s) \in 0..2
  BY <1>1 DEF TypeInv, TypeIndex, Types
<1>4. \A s \in S : Interleaved(S)[s] = 3 * rank(s) + pos(s)
  BY DEF Interleaved
<1>5. ASSUME NEW r \in S, NEW s \in S, Interleaved(S)[r] = Interleaved(S)[s]
      PROVE  r = s
  <2>1. rank(r) = rank(s) /\ pos(r) = pos(s)
    <3> HIDE DEF rank, pos
    <3> QED BY <1>2, <1>3, <1>4, <1>5
  <2>2. r.type = s.type
    <3>1. CASE \A q \in S : q.type = "bitmap"
      BY <3>1
    <3>2. CASE \A q \in S : q.type \in DataTypes
      <4>1. offset \in {0, 1, 2}
        BY DEF TypeInv
      <4>2. \A t \in DataTypes : \A u \in DataTypes :
              (TypeIndex[t] + 3 - offset) % 3 = (TypeIndex[u] + 3 - offset) % 3 => t = u
        <5>1. CASE offset = 0
          BY <5>1 DEF TypeIndex, DataTypes
        <5>2. CASE offset = 1
          BY <5>2 DEF TypeIndex, DataTypes
        <5>3. CASE offset = 2
          BY <5>3 DEF TypeIndex, DataTypes
        <5> QED BY <4>1, <5>1, <5>2, <5>3
      <4> QED BY <2>1, <3>2, <4>2
    <3> QED BY <3>1, <3>2
  <2>3. r.idx \in Missing(r.type) /\ s.idx \in Missing(r.type) /\ r.idx \in Nat /\ s.idx \in Nat
    BY <1>1, <2>2
  <2>4. ~(r.idx < s.idx) /\ ~(s.idx < r.idx)
    <3>1. rank(r) \in Nat /\ rank(s) \in Nat
      BY <1>2
    <3>2. Rank(r.type, r.idx) = Rank(r.type, s.idx) /\ r.type \in Types
      BY <1>1, <2>1, <2>2
    <3> QED BY <2>3, <3>1, <3>2, RanksDiffer
  <2>5. r.idx = s.idx
    BY <2>3, <2>4
  <2> QED BY <1>1, <2>2, <2>5
<1>6. Interleaved(S) \in [S -> Nat]
  <2>1. \A s \in S : 3 * rank(s) + pos(s) \in Nat
    <3> HIDE DEF rank, pos
    <3> QED BY <1>2, <1>3
  <2> QED BY <2>1 DEF Interleaved
<1> QED BY <1>5, <1>6

\* Only what was chosen is sent.
LEMMA SentWasChosen ==
    ASSUME NEW reqs, NEW todo, NEW send, NEW peers, NEW reachable
    PROVE  \E sent \in SUBSET (todo.first \cup todo.hedge) :
              DOMAIN SendRequests(reqs, todo, send, peers, reachable).reqs = DOMAIN reqs \cup sent
BY Zenon DEF SendRequests

\* The first n are no more than n.
LEMMA FirstFew ==
    ASSUME NEW S, IsFiniteSet(S), NEW f \in [S -> Nat], NEW n \in Nat,
           \A x, y \in S : f[x] = f[y] => x = y
    PROVE  /\ IsFiniteSet(FirstOf(S, f, n)) /\ Cardinality(FirstOf(S, f, n)) <= n
           /\ FirstOf(S, f, n) \subseteq S
<1>1. FirstOf(S, f, n) = {x \in S : Cardinality({y \in S : f[y] < f[x]}) < n}
  BY DEF FirstOf
<1>2. FirstOf(S, f, n) \subseteq S
  BY <1>1
<1>3. PICK T : T = FirstOf(S, f, n)
  OBVIOUS
<1>4. T = {x \in S : Cardinality({y \in S : f[y] < f[x]}) < n}
  BY <1>1, <1>3
<1>5. IsFiniteSet(T) /\ Cardinality(T) <= n
  BY <1>4, FirstAreFew, SMTT(30)
<1> QED BY <1>2, <1>3, <1>5

\* A step that asks for segments keeps to SEGMENT_REQUEST_COUNT, and asks for nothing
\* that has arrived.
LEMMA SendKeepsSegments ==
    ASSUME TypeInv, SegmentInv, block # None, RequestSend
    PROVE  /\ IsFiniteSet(DOMAIN pending') /\ Cardinality(DOMAIN pending') <= RequestCount
           /\ \A s \in DOMAIN pending' : s \in DOMAIN pending \/ s \in Wishes
<1>1. PICK peers \in PeerOrders, late \in SUBSET DOMAIN pending, blocking \in {GetBlockingSegments} :
      \E reqs \in {Without(late)} :
      \E desired \in {NextDesiredSegments(RequestCount + Cardinality(DOMAIN reqs))} :
      \E todo \in {Requests(reqs, desired, blocking, peers, age) : age \in [DOMAIN reqs -> 0..2]} :
      \E send \in {InOrder(todo)}, reachable \in SUBSET Range(peers) :
         /\ pending' = SendRequests(reqs, todo, send, peers, reachable).reqs
         /\ nextPeer' = SendRequests(reqs, todo, send, peers, reachable).next
  BY ZenonT(30) DEF RequestSend
<1>2. PICK reqs, desired :
      /\ reqs = Without(late) /\ desired = NextDesiredSegments(RequestCount + Cardinality(DOMAIN reqs))
      /\ \E todo \in {Requests(reqs, desired, blocking, peers, age) : age \in [DOMAIN reqs -> 0..2]} :
         \E send \in {InOrder(todo)}, reachable \in SUBSET Range(peers) :
            pending' = SendRequests(reqs, todo, send, peers, reachable).reqs
  BY <1>1, Zenon
<1>3. PICK age, send, reachable :
         pending' = SendRequests(reqs, Requests(reqs, desired, blocking, peers, age),
                                 send, peers, reachable).reqs
  BY <1>2, ZenonT(30)
<1> DEFINE todo == Requests(reqs, desired, blocking, peers, age)
           D == DOMAIN reqs
           new == desired \ D
           fresh == FirstOf(new, Interleaved(new), RequestCount - Cardinality(D))
<1>4. D \in SUBSET DOMAIN pending
  BY <1>2 DEF Without
<1>5. IsFiniteSet(D) /\ Cardinality(D) \in Nat /\ Cardinality(D) <= RequestCount /\ RequestCount \in Nat
  <2>1. IsFiniteSet(DOMAIN pending) /\ Cardinality(DOMAIN pending) <= RequestCount
    BY DEF SegmentInv
  <2>2. IsFiniteSet(D) /\ Cardinality(D) <= Cardinality(DOMAIN pending)
    BY <1>4, <2>1, FS_Subset
  <2>3. Cardinality(D) \in Nat /\ Cardinality(DOMAIN pending) \in Nat
    BY <2>1, <2>2, FS_CardinalityType
  <2> QED BY <2>1, <2>2, <2>3, PibdAssumption
<1>6. /\ desired \subseteq Wishes /\ IsFiniteSet(desired)
      /\ (\A s \in desired : s.type = "bitmap") \/ (\A s \in desired : s.type \in DataTypes)
  <2>1. RequestCount + Cardinality(D) \in Nat
    BY <1>5
  <2>2. desired = NextDesiredSegments(RequestCount + Cardinality(D))
    BY <1>2
  <2> QED BY <2>1, <2>2, DesiredAreWishes
<1>7. IsFiniteSet(fresh) /\ Cardinality(fresh) <= RequestCount - Cardinality(D) /\ fresh \subseteq new
  <2>1. new \in SUBSET desired
    OBVIOUS
  <2>2. IsFiniteSet(new)
    BY <1>6, <2>1, FS_Subset
  <2>3. /\ Interleaved(new) \in [new -> Nat]
        /\ \A r, s \in new : Interleaved(new)[r] = Interleaved(new)[s] => r = s
    BY <1>6, OrderTellsApart
  <2>4. RequestCount - Cardinality(D) \in Nat
    BY <1>5, SMTT(30)
  <2> HIDE DEF new
  <2> QED BY <2>2, <2>3, <2>4, FirstFew
<1>8. todo.first \subseteq fresh \cup D /\ todo.hedge \subseteq D
  <2>1. \A S, f, n : FirstOf(S, f, n) \subseteq S
    BY DEF FirstOf
  <2> QED BY <2>1, Zenon DEF Requests
<1>9. PICK sent \in SUBSET (todo.first \cup todo.hedge) : DOMAIN pending' = D \cup sent
  <2> HIDE DEF todo
  <2> QED BY <1>3, SentWasChosen DEF todo
<1>10. DOMAIN pending' \in SUBSET (D \cup fresh)
  <2> HIDE DEF todo, fresh, D
  <2> QED BY <1>8, <1>9
<1> HIDE DEF todo, D, new, fresh
<1>11. /\ IsFiniteSet(D \cup fresh)
       /\ Cardinality(D \cup fresh) <= RequestCount
  <2>1. /\ IsFiniteSet(D \cup fresh)
        /\ Cardinality(D \cup fresh) = Cardinality(D) + Cardinality(fresh) - Cardinality(D \cap fresh)
    BY <1>5, <1>7, FS_Union
  <2>2. Cardinality(D \cap fresh) = 0
    <3>1. D \cap fresh = {}
      BY <1>7 DEF new
    <3> QED BY <3>1, FS_EmptySet
  <2>3. Cardinality(fresh) \in Nat
    BY <1>7, FS_CardinalityType
  <2> QED BY <1>5, <1>7, <2>1, <2>2, <2>3
<1>12. IsFiniteSet(DOMAIN pending') /\ Cardinality(DOMAIN pending') <= Cardinality(D \cup fresh)
  BY <1>10, <1>11, FS_Subset
<1>13. Cardinality(DOMAIN pending') <= RequestCount
  <2>1. Cardinality(DOMAIN pending') \in Nat /\ Cardinality(D \cup fresh) \in Nat
    BY <1>11, <1>12, FS_CardinalityType
  <2> QED BY <1>5, <1>11, <1>12, <2>1
<1>14. \A s \in DOMAIN pending' : s \in DOMAIN pending \/ s \in Wishes
  BY <1>4, <1>6, <1>7, <1>10 DEF new
<1> QED BY <1>12, <1>13, <1>14

-----------------------------------------------------------------------------
(* How segments are applied *)

\* What a batch applies waits in the cache.
LEMMA ReadyIsCached ==
    ASSUME TypeInv, NEW t \in Types
    PROVE  /\ ReadyCount(t) \in Nat
           /\ \A i \in 0..(ReadyCount(t) - 1) : applied[t] + i \in cached[t]
<1> DEFINE run == {n \in 0..ApplyBatch : \A i \in 0..(n - 1) : applied[t] + i \in cached[t]}
<1>1. ApplyBatch \in Nat /\ run \in SUBSET Nat /\ \A n \in run : n <= ApplyBatch
  BY PibdAssumption
<1>2. 0 \in run
  BY <1>1
<1>3. \E m \in run : \A n \in run : n <= m
  <2> HIDE DEF run
  <2> QED BY <1>1, <1>2, LargestElement, Zenon
<1>4. ReadyCount(t) = Max(run)
  BY DEF ReadyCount
<1>5. Max(run) \in run
  <2>1. \E m \in run : \A n \in run : m >= n
    BY <1>1, <1>3, Zenon
  <2> HIDE DEF run
  <2> QED BY <2>1 DEF Max
<1> QED BY <1>1, <1>4, <1>5

\* Also when a batch stops at a segment that does not fit.
LEMMA CountsAreReady ==
    ASSUME TypeInv, NEW fail, fail.type \in DataTypes => fail.after \in 0..ReadyCount(fail.type)
    PROVE  /\ ApplyCounts(fail) \in [DataTypes -> Nat]
           /\ \A t \in DataTypes : \A i \in 0..(ApplyCounts(fail)[t] - 1) : applied[t] + i \in cached[t]
<1>1. ASSUME NEW t \in DataTypes
      PROVE  /\ ApplyCounts(fail)[t] \in 0..ReadyCount(t)
             /\ ReadyCount(t) \in Nat
             /\ \A i \in 0..(ReadyCount(t) - 1) : applied[t] + i \in cached[t]
  <2>1. t \in Types
    BY DEF DataTypes, Types
  <2>2. /\ ReadyCount(t) \in Nat
        /\ \A i \in 0..(ReadyCount(t) - 1) : applied[t] + i \in cached[t]
    BY <2>1, ReadyIsCached
  <2>3. ApplyCounts(fail)[t] \in {0, ReadyCount(t)} \/ (t = fail.type /\ ApplyCounts(fail)[t] = fail.after)
    BY DEF ApplyCounts
  <2> QED BY <2>2, <2>3
<1>2. ApplyCounts(fail) = [t \in DataTypes |-> ApplyCounts(fail)[t]]
  BY DEF ApplyCounts
<1>3. \A t \in DataTypes : ApplyCounts(fail)[t] \in Nat
  BY <1>1
<1> QED BY <1>1, <1>2, <1>3

LEMMA WholeBatch ==
    ASSUME TypeInv
    PROVE  LET n == ApplyCounts(NoneFails)
           IN  /\ n \in [DataTypes -> Nat]
               /\ \A t \in DataTypes : \A i \in 0..(n[t] - 1) : applied[t] + i \in cached[t]
<1>1. NoneFails.type \in DataTypes => NoneFails.after \in 0..ReadyCount(NoneFails.type)
  BY ReadyIsCached DEF NoneFails, DataTypes, Types
<1> QED BY <1>1, CountsAreReady

LEMMA PartOfBatch ==
    ASSUME TypeInv, NEW t \in DataTypes, NEW k \in 0..(ReadyCount(t) - 1)
    PROVE  LET n == ApplyCounts([type |-> t, after |-> k])
           IN  /\ n \in [DataTypes -> Nat]
               /\ \A u \in DataTypes : \A i \in 0..(n[u] - 1) : applied[u] + i \in cached[u]
<1>1. k \in 0..ReadyCount(t)
  BY ReadyIsCached DEF DataTypes, Types
<1> QED BY <1>1, CountsAreReady

\* Applying moves segments from the cache to the set, and nothing that was asked for.
LEMMA ApplyMovesCached ==
    ASSUME TypeInv, SegmentInv, block # None, open # None, NEW n \in [DataTypes -> Nat],
           \A t \in DataTypes : \A i \in 0..(n[t] - 1) : applied[t] + i \in cached[t],
           ApplyReadySegments(n), UNCHANGED <<block, pending>>
    PROVE  /\ applied' \in [Types -> Nat] /\ cached' \in [Types -> SUBSET Nat]
           /\ \A s \in DOMAIN pending' : ~IsApplied(s)' /\ s.idx \notin cached'[s.type]
           /\ \A t \in Types : \A i \in cached'[t] : i >= applied'[t] /\ i < NumSegs[block'][t]
           /\ \A t \in DataTypes : applied'[t] = applied[t] + n[t]
           /\ applied'["bitmap"] = applied["bitmap"]
           /\ complete => \A t \in DataTypes : n[t] = 0
           /\ open' \in Sets /\ open'.of = open.of /\ open'.kind = open.kind
           /\ \A t \in DataTypes : open'.size[t] = open.size[t] + n[t]
<1>1. Types = DataTypes \cup {"bitmap"} /\ "bitmap" \notin DataTypes
  BY DEF Types, DataTypes
<1>2. /\ applied' = [t \in Types |-> applied[t] + IF t = "bitmap" THEN 0 ELSE n[t]]
      /\ cached' = [t \in Types |-> {i \in cached[t] : i >= applied'[t]}]
      /\ open' = [open EXCEPT !.size = [t \in DataTypes |-> @[t] + n[t]]]
  BY DEF ApplyReadySegments
<1>3. applied \in [Types -> Nat] /\ cached \in [Types -> SUBSET Nat] /\ open \in Sets
  BY DEF TypeInv
<1>4. /\ \A t \in DataTypes : applied'[t] = applied[t] + n[t] /\ applied'[t] \in Nat
      /\ applied'["bitmap"] = applied["bitmap"] /\ applied'["bitmap"] \in Nat
      /\ applied' \in [Types -> Nat]
  BY <1>1, <1>2, <1>3
<1>5. /\ cached' \in [Types -> SUBSET Nat]
      /\ \A t \in Types : \A i : i \in cached'[t] <=> i \in cached[t] /\ i >= applied'[t]
  BY <1>2, <1>3
<1>6. \A s \in DOMAIN pending' : ~IsApplied(s)' /\ s.idx \notin cached'[s.type]
  <2> SUFFICES ASSUME NEW s \in DOMAIN pending PROVE ~(s.idx < applied'[s.type]) /\ s.idx \notin cached'[s.type]
    BY DEF IsApplied
  <2>1. s.type \in Types /\ s.idx \in Nat /\ ~(s.idx < applied[s.type]) /\ s.idx \notin cached[s.type]
    BY DEF SegmentInv, IsApplied
  <2>2. CASE s.type = "bitmap"
    BY <1>4, <1>5, <2>1, <2>2
  <2>3. CASE s.type \in DataTypes
    <3>1. applied[s.type] \in Nat /\ n[s.type] \in Nat /\ applied'[s.type] = applied[s.type] + n[s.type]
      BY <1>3, <1>4, <2>1, <2>3
    <3>2. ASSUME s.idx < applied'[s.type] PROVE FALSE
      <4>1. s.idx - applied[s.type] \in 0..(n[s.type] - 1)
        BY <2>1, <3>1, <3>2
      <4>2. applied[s.type] + (s.idx - applied[s.type]) \in cached[s.type]
        BY <2>3, <4>1
      <4> QED BY <2>1, <3>1, <4>2
    <3> QED BY <1>5, <2>1, <3>2
  <2> QED BY <1>1, <2>1, <2>2, <2>3
<1>7. \A t \in Types : \A i \in cached'[t] : i >= applied'[t] /\ i < NumSegs[block'][t]
  BY <1>5 DEF SegmentInv
<1>8. ASSUME complete, NEW t \in DataTypes PROVE n[t] = 0
  <2>1. applied[t] = NumSegs[block][t] /\ \A i \in cached[t] : i < NumSegs[block][t]
    BY <1>1, <1>8 DEF SegmentInv, AllApplied
  <2>2. n[t] > 0 => applied[t] + 0 \in cached[t]
    OBVIOUS
  <2> QED BY <1>1, <1>3, <2>1, <2>2
<1>9. /\ open' \in Sets /\ open'.of = open.of /\ open'.kind = open.kind
      /\ \A t \in DataTypes : open'.size[t] = open.size[t] + n[t]
  BY <1>2, <1>3 DEF Sets
<1> QED BY <1>4, <1>5, <1>6, <1>7, <1>8, <1>9

\* The bitmap's segments that are applied at once wait in the cache or just arrived.
LEMMA BitmapRunIsCached ==
    ASSUME TypeInv, SegmentInv, block # None, NEW k \in Nat,
           k >= applied["bitmap"], k < NumSegs[block]["bitmap"]
    PROVE  LET indices == cached["bitmap"] \cup {k}
               n == BitmapRun(indices)
           IN  /\ n \in Nat /\ n >= applied["bitmap"] /\ n <= NumSegs[block]["bitmap"]
               /\ \A i \in applied["bitmap"]..(n - 1) : i \in indices
<1> DEFINE indices == cached["bitmap"] \cup {k}
           free == {n \in Nat : n >= applied["bitmap"] /\ n \notin indices}
           last == NumSegs[block]["bitmap"]
           OK(n) == /\ \A i \in applied["bitmap"]..(n - 1) : i \in indices
                    /\ n \notin indices /\ n >= applied["bitmap"]
<1>1. applied["bitmap"] \in Nat /\ last \in Nat /\ cached["bitmap"] \in SUBSET Nat
  BY PibdAssumption DEF TypeInv, Types
<1>2. \A i \in indices : i \in Nat /\ i < last
  BY <1>1 DEF SegmentInv, Types
<1>3. last \in free
  BY <1>1, <1>2
<1>4. PICK m \in free : \A n \in free : m <= n
  <2>1. free \in SUBSET Nat /\ free /= {}
    BY <1>3
  <2> HIDE DEF free
  <2> QED BY <2>1, SmallestElement
<1>5. m \in 0..last /\ OK(m)
  <2>1. m \in Nat /\ m <= last /\ m >= applied["bitmap"] /\ m \notin indices
    BY <1>1, <1>3, <1>4
  <2>2. ASSUME NEW i \in applied["bitmap"]..(m - 1) PROVE i \in indices
    <3>1. i \in Nat /\ i >= applied["bitmap"] /\ i < m
      BY <1>1, <2>1, <2>2
    <3>2. i \notin free
      BY <1>4, <2>1, <3>1
    <3> QED BY <3>1, <3>2
  <2> QED BY <1>1, <2>1, <2>2
<1>6. BitmapRun(indices) = CHOOSE n \in 0..last : OK(n)
  BY DEF BitmapRun
<1> HIDE DEF last, indices
<1>7. BitmapRun(indices) \in 0..last /\ OK(BitmapRun(indices))
  <2> HIDE DEF OK
  <2> QED BY <1>5, <1>6
<1> QED BY <1>1, <1>7 DEF indices, last

\* A segment that is wanted belongs to the session and was not applied.
LEMMA WantedIsMissing ==
    ASSUME TypeInv, NEW h \in Headers, NEW s \in Segments(h), Wanted(h, s)
    PROVE  /\ block = h /\ block # None /\ syncPc = "idle"
           /\ s.type \in Types /\ s.idx \in Nat
           /\ s.idx >= applied[s.type] /\ s.idx < NumSegs[block][s.type]
           /\ s \in [type : Types, idx : Nat]
<1>1. PICK t \in Types : \E i \in 0..(NumSegs[h][t] - 1) : s = Seg(t, i)
  BY DEF Segments
<1>2. PICK i \in 0..(NumSegs[h][t] - 1) : s = Seg(t, i)
  BY <1>1
<1>3. NumSegs[h][t] \in Nat
  BY PibdAssumption
<1>4. s.type = t /\ s.idx = i /\ i \in Nat /\ i < NumSegs[h][t] /\ s \in [type : Types, idx : Nat]
  BY <1>2, <1>3 DEF Seg
<1>5. applied[t] \in Nat
  BY DEF TypeInv
<1> QED BY <1>4, <1>5, PibdAssumption DEF Wanted, IsApplied

\* The header of a session is a candidate.
LEMMA EffectiveIsCandidate ==
    ASSUME TypeInv, NEW h \in candidate
    PROVE  EffectiveHeader(h) \in candidate /\ EffectiveHeader(h) \in Headers /\ EffectiveHeader(h) # None
BY PibdAssumption DEF EffectiveHeader, TypeInv

-----------------------------------------------------------------------------
(* Types *)

\* What OpenForPIBD opens.
LEMMA OpensSet ==
    ASSUME TypeInv, NEW h \in Headers, OpenForPIBD(h)
    PROVE  /\ open' \in Sets
           /\ disk' \in DiskType
           /\ disk'.of = open'.of /\ disk'.size = open'.size /\ disk'.kind = open'.kind
           /\ disk'.meta = h
           /\ CanResume(h) => disk' = disk
           /\ ~CanResume(h) => open'.of = h
<1>1. CASE CanResume(h)
  BY <1>1 DEF OpenForPIBD, CanResume, TypeInv, Sets, DiskType
<1>2. CASE ~CanResume(h)
  <2>1. Zero \in [DataTypes -> Nat]
    BY DEF Zero
  <2> QED BY <1>2, <2>1 DEF OpenForPIBD, OpenEmpty, Sets, DiskType
<1> QED BY <1>1, <1>2

\* What a commit writes.
LEMMA CommitsSet ==
    ASSUME TypeInv, open # None, CommitSet
    PROVE  /\ disk' \in DiskType
           /\ disk'.meta = disk.meta /\ disk'.of = open.of /\ disk'.size = open.size
           /\ disk'.kind = open.kind
BY ZenonT(30) DEF CommitSet, TypeInv, Sets, DiskType

\* What a commit that is interrupted writes.
LEMMA CommitsSome ==
    ASSUME TypeInv, NEW done \in SUBSET DataTypes, CommitSome(done)
    PROVE  /\ disk' \in DiskType
           /\ disk'.meta = disk.meta /\ disk'.of = open.of /\ disk'.kind = open.kind
<1> DEFINE n == ApplyCounts(NoneFails)
           size == [t \in DataTypes |-> open.size[t] + IF t \in done THEN n[t] ELSE 0]
<1>1. n \in [DataTypes -> Nat]
  BY WholeBatch
<1>2. open \in Sets /\ disk' = [disk EXCEPT !.of = open.of, !.size = size, !.kind = open.kind]
  BY DEF CommitSome, TypeInv
<1> HIDE DEF n
<1>3. size \in [DataTypes -> Nat]
  BY <1>1, <1>2 DEF Sets
<1> HIDE DEF size
<1> QED BY <1>2, <1>3, ZenonT(30) DEF TypeInv, Sets, DiskType

USE DEF deseg, requests, store, sync, jobFrame, zipFrame

LEMMA NoZipType == NoZip \in ZipType
BY Zenon DEF NoZip, ZipType

LEMMA TypeStep ==
    ASSUME TypeInv, SegmentInv, SetInv, JobInv, PibdNext
    PROVE  TypeInv'
<1> USE DEF TypeInv
<1>0. [t \in Types |-> 0] \in [Types -> Nat] /\ [t \in Types |-> {}] \in [Types -> SUBSET Nat]
  OBVIOUS
<1>1. ASSUME NEW h \in Headers, StartPIBD(h) PROVE TypeInv'
  <2>1. EffectiveHeader(h) \in Headers
    BY <1>1, EffectiveIsCandidate DEF StartPIBD
  <2>2. open' \in Sets /\ disk' \in DiskType
    BY <1>1, <2>1, OpensSet DEF StartPIBD
  <2>3. open'.size \in [DataTypes -> Nat]
    BY <2>2 DEF Sets
  <2>4. applied' \in [Types -> Nat]
    BY <1>1, <2>3 DEF StartPIBD, StartSizes, Types, DataTypes
  <2>5. job' \in JobType
    BY <1>1, Zenon DEF StartPIBD, JobType
  <2>6. cached' \in [Types -> SUBSET Nat]
    BY <1>0, <1>1 DEF StartPIBD
  <2>7. /\ block' = EffectiveHeader(h) /\ offset' = 0 /\ uncommitted' = 0
        /\ overlap' = (overlap \/ zip.pc # "none")
        /\ UNCHANGED <<candidate, syncPc, zip>>
    BY <1>1 DEF StartPIBD
  <2>8. overlap' \in BOOLEAN
    BY <2>7
  <2>9. complete' \in BOOLEAN
    BY <1>1, Zenon DEF StartPIBD
  <2> QED BY <2>1, <2>2, <2>4, <2>5, <2>6, <2>7, <2>8, <2>9
<1>2. ASSUME NEW h \in Headers, StartPIBDFails(h) PROVE TypeInv'
  BY <1>2 DEF StartPIBDFails
<1>3. ASSUME NEW h \in Headers, CandidateReorg(h) PROVE TypeInv'
  BY <1>3 DEF CandidateReorg
<1>4. ASSUME Restarted, disk' \in DiskType PROVE TypeInv'
  <2>1. job' \in JobType
    BY <1>4 DEF Restarted, IdleJob, JobType
  <2>2. zip' \in ZipType
    BY <1>4, NoZipType, Zenon DEF Restarted
  <2>3. applied' \in [Types -> Nat] /\ cached' \in [Types -> SUBSET Nat]
    BY <1>0, <1>4 DEF Restarted
  <2>4. complete' \in BOOLEAN /\ overlap' \in BOOLEAN
    BY <1>4, Zenon DEF Restarted
  <2>5. /\ block' = None /\ offset' = 0 /\ uncommitted' = 0 /\ open' = None /\ syncPc' = "idle"
        /\ candidate' = candidate
    BY <1>4 DEF Restarted
  <2> QED BY <1>4, <2>1, <2>2, <2>3, <2>4, <2>5
<1>5. ASSUME NEW h \in Headers, CrashInOpenEmpty(h) PROVE TypeInv'
  <2>1. EffectiveHeader(h) \in Headers
    BY <1>5, EffectiveIsCandidate DEF CrashInOpenEmpty
  <2>2. Zero \in [DataTypes -> Nat]
    BY DEF Zero
  <2>3. disk' \in DiskType
    BY <1>5, <2>1, <2>2, Zenon DEF CrashInOpenEmpty, OpenEmptyCrash, DiskType
  <2> QED BY <1>4, <1>5, <2>3 DEF CrashInOpenEmpty
<1>6. ASSUME RequestApply PROVE TypeInv'
  <2> DEFINE n == ApplyCounts(NoneFails)
  <2>1. /\ n \in [DataTypes -> Nat]
        /\ \A t \in DataTypes : \A i \in 0..(n[t] - 1) : applied[t] + i \in cached[t]
    BY WholeBatch
  <2>2. /\ applied' \in [Types -> Nat] /\ cached' \in [Types -> SUBSET Nat] /\ open' \in Sets
        /\ open'.of = open.of /\ open'.kind = open.kind
    <3> HIDE DEF n
    <3> QED BY <1>6, <2>1, ApplyMovesCached DEF RequestApply, n
  <2>3. n["output"] \in Nat /\ n["rangeproof"] \in Nat /\ n["kernel"] \in Nat
    BY <2>1 DEF DataTypes
  <2>4. uncommitted' \in Nat /\ disk' \in DiskType
    <3>1. disk' = [disk EXCEPT !.of = open.of, !.size = open'.size, !.kind = open.kind]
      BY <1>6 DEF RequestApply
    <3>2. uncommitted' = 0 \/ uncommitted' = uncommitted + n["output"] + n["rangeproof"] + n["kernel"]
      BY <1>6 DEF RequestApply
    <3> HIDE DEF n
    <3>3. disk' \in DiskType
      BY <1>6, <2>2, <3>1, Zenon DEF RequestApply, DiskType, Sets
    <3> QED BY <2>3, <3>2, <3>3
  <2>5. complete' \in BOOLEAN
    BY <1>6, Zenon DEF RequestApply, AllApplied
  <2> QED BY <1>6, <2>2, <2>4, <2>5 DEF RequestApply
<1>7. ASSUME NEW t \in DataTypes, RequestApplyFails(t) PROVE TypeInv'
  <2>1. PICK k \in 0..(ReadyCount(t) - 1) : ApplyReadySegments(ApplyCounts([type |-> t, after |-> k]))
    BY <1>7 DEF RequestApplyFails
  <2> DEFINE n == ApplyCounts([type |-> t, after |-> k])
  <2>2. /\ n \in [DataTypes -> Nat]
        /\ \A u \in DataTypes : \A i \in 0..(n[u] - 1) : applied[u] + i \in cached[u]
    BY PartOfBatch, SMTT(30)
  <2>3. applied' \in [Types -> Nat] /\ cached' \in [Types -> SUBSET Nat] /\ open' \in Sets
    <3> HIDE DEF n
    <3> QED BY <1>7, <2>1, <2>2, ApplyMovesCached DEF RequestApplyFails, n
  <2>4. disk' \in DiskType
    BY <1>7, <2>3, Zenon DEF RequestApplyFails, DiskType, Sets
  <2> QED BY <1>7, <2>3, <2>4 DEF RequestApplyFails
<1>8. ASSUME RequestValidation PROVE TypeInv'
  <2>1. disk' \in DiskType
    BY <1>8, CommitsSet DEF RequestValidation
  <2>2. job' \in JobType
    BY <1>8, ZenonT(30) DEF RequestValidation, IdleJob, JobType, Running
  <2> QED BY <1>8, <2>1, <2>2 DEF RequestValidation
<1>9. ASSUME JoinedValidation PROVE TypeInv'
  <2>1. job' \in JobType
    BY <1>9, Zenon DEF JoinedValidation, IdleJob, JobType, Running
  <2> QED BY <1>9, <2>1 DEF JoinedValidation
<1>10. ASSUME RequestValidationFails PROVE TypeInv'
  BY <1>10 DEF RequestValidationFails
<1>11. ASSUME RequestSend PROVE TypeInv'
  BY <1>11 DEF RequestSend
<1>12. ASSUME CommitIfNeeded PROVE disk' \in DiskType
  BY <1>12, CommitsSet DEF CommitIfNeeded
<1>13. ASSUME ClearPIBDRequests PROVE TypeInv'
  BY <1>12, <1>13 DEF ClearPIBDRequests
<1>14. ASSUME AbortPIBD PROVE TypeInv'
  <2>1. disk' \in DiskType
    BY <1>12, <1>14 DEF AbortPIBD
  <2>2. applied' \in [Types -> Nat] /\ cached' \in [Types -> SUBSET Nat]
    BY <1>0, <1>14 DEF AbortPIBD
  <2>3. complete' \in BOOLEAN
    BY <1>14, Zenon DEF AbortPIBD
  <2>4. /\ block' = None /\ offset' = 0 /\ uncommitted' = 0
        /\ UNCHANGED <<open, candidate, syncPc, job, zip, overlap>>
    BY <1>14 DEF AbortPIBD
  <2> QED BY <2>1, <2>2, <2>3, <2>4
<1>15. ASSUME NEW h \in Headers, NEW s \in Segments(h), ReceiveSegment(h, s) PROVE TypeInv'
  <2>1. /\ block # None /\ s.type \in Types /\ s.idx \in Nat
        /\ s.idx >= applied[s.type] /\ s.idx < NumSegs[block][s.type]
    BY <1>15, WantedIsMissing DEF ReceiveSegment
  <2>2. applied' \in [Types -> Nat] /\ cached' \in [Types -> SUBSET Nat]
    <3>1. CASE s.type = "bitmap"
      <4>1. BitmapRun(cached["bitmap"] \cup {s.idx}) \in Nat
        BY <2>1, <3>1, BitmapRunIsCached, SMTT(30)
      <4> QED BY <1>15, <2>1, <3>1, <4>1, SMTT(30) DEF ReceiveSegment
    <3>2. CASE s.type # "bitmap"
      BY <1>15, <2>1, <3>2 DEF ReceiveSegment
    <3> QED BY <3>1, <3>2, SMTT(30)
  <2> QED BY <1>15, <2>2, SMTT(30) DEF ReceiveSegment
<1>16. ASSUME NEW h \in Headers, NEW s \in Segments(h), DropSegment(h, s) PROVE TypeInv'
  BY <1>16 DEF DropSegment
<1>17. ASSUME ValidateStart PROVE TypeInv'
  <2>1. job' \in JobType
    BY <1>17, ZenonT(30) DEF ValidateStart, Finish, Running, JobType
  <2> QED BY <1>17, <2>1 DEF ValidateStart
<1>18. ASSUME NEW good \in BOOLEAN, Validate(good) PROVE TypeInv'
  <2>1. Zero \in [DataTypes -> Nat]
    BY DEF Zero
  <2>2. job' \in JobType
    BY <1>18, ZenonT(30) DEF Validate, Finish, Running, JobType
  <2>3. disk' \in DiskType /\ (open' # None => open' \in Sets)
    BY <1>18, <2>1 DEF Validate, ClearPIBDResumeState, DiskType
  <2> QED BY <1>18, <2>2, <2>3 DEF Validate
<1>19. ASSUME Install \/ InstallThrows PROVE TypeInv'
  <2>1. job' \in JobType
    BY <1>19, ZenonT(30) DEF Install, InstallThrows, Finish, Running, JobType
  <2> QED BY <1>19, <2>1 DEF Install, InstallThrows
<1>20. ASSUME ReportState \/ ReportStatus \/ OnComplete \/ OnCompleteLocked PROVE TypeInv'
  <2>1. job' \in JobType
    BY <1>20, ZenonT(30) DEF ReportState, ReportStatus, OnComplete, OnCompleteLocked, JobType
  <2> QED BY <1>20, <2>1, Zenon DEF ReportState, ReportStatus, OnComplete, OnCompleteLocked
<1>21. ASSUME NEW h \in ZipHeaders, NEW good \in BOOLEAN, ReceiveTxHashSet(h, good) PROVE TypeInv'
  BY <1>21, PibdAssumption DEF ReceiveTxHashSet, ZipType
<1>22. ASSUME ZipAborted \/ ZipDownloaded \/ ZipClose \/ ZipEnd PROVE TypeInv'
  <2>1. zip' \in ZipType
    <3>1. CASE ZipAborted \/ ZipEnd
      BY <3>1, NoZipType, Zenon DEF ZipAborted, ZipEnd
    <3>2. CASE ZipDownloaded \/ ZipClose
      BY <3>2 DEF ZipDownloaded, ZipClose, ZipType
    <3> QED BY <1>22, <3>1, <3>2
  <2> QED BY <1>22, <2>1 DEF ZipAborted, ZipDownloaded, ZipClose, ZipEnd
<1>23. ASSUME NEW h \in Headers PROVE Target(h) \in [DataTypes -> Nat]
  BY PibdAssumption DEF Target, Types, DataTypes
<1>24. ASSUME ZipUnpack PROVE TypeInv'
  <2>1. Target(zip.block) \in [DataTypes -> Nat] /\ zip.block \in Headers
    BY <1>23, <1>24 DEF ZipUnpack, SetInv
  <2>2. disk' \in DiskType
    BY <1>24, <2>1, Zenon DEF ZipUnpack, DiskType
  <2>3. zip' \in ZipType
    BY <1>24 DEF ZipUnpack, ZipType
  <2> QED BY <1>24, <2>2, <2>3 DEF ZipUnpack
<1>25. ASSUME ZipInstall PROVE TypeInv'
  <2>1. Target(zip.block) \in [DataTypes -> Nat] /\ zip.block \in Headers
    BY <1>23, <1>25 DEF ZipInstall, SetInv
  <2>2. zip' \in ZipType
    BY <1>25 DEF ZipInstall, ZipType
  <2> QED BY <1>25, <2>1, <2>2 DEF ZipInstall, Sets
<1>26. ASSUME BlocksAdded PROVE TypeInv'
  <2>1. open' \in Sets /\ disk' \in DiskType
    BY <1>26, Zenon DEF BlocksAdded, Sets, DiskType
  <2> QED BY <1>26, <2>1 DEF BlocksAdded
<1>27. ASSUME Crash PROVE TypeInv'
  <2>1. ASSUME NEW done \in SUBSET DataTypes, CommitSome(done) PROVE disk' \in DiskType
    BY <2>1, CommitsSome
  <2> QED BY <1>4, <1>27, <2>1 DEF Crash
<1> QED
  BY ZenonT(30), <1>1, <1>2, <1>3, <1>5, <1>6, <1>7, <1>8, <1>9, <1>10, <1>11, <1>13, <1>14, <1>15, <1>16,
     <1>17, <1>18, <1>19, <1>20, <1>21, <1>22, <1>24, <1>25, <1>26, <1>27 DEF PibdNext

-----------------------------------------------------------------------------
(* Segments *)

\* A session without requests and without waiting segments.
LEMMA EmptySession ==
    ASSUME pending' = <<>>, cached' = [t \in Types |-> {}], ~complete'
    PROVE  SegmentInv'
<1>1. DOMAIN pending' = {}
  OBVIOUS
<1>2. IsFiniteSet(DOMAIN pending') /\ Cardinality(DOMAIN pending') <= RequestCount
  <2>1. IsFiniteSet(DOMAIN pending') /\ Cardinality(DOMAIN pending') = 0
    BY <1>1, FS_EmptySet
  <2> QED BY <2>1, PibdAssumption
<1> QED BY <1>1, <1>2 DEF SegmentInv

\* Forgetting a request.
LEMMA ForgetsRequest ==
    ASSUME SegmentInv, NEW segs, pending' = Without(segs)
    PROVE  /\ IsFiniteSet(DOMAIN pending') /\ Cardinality(DOMAIN pending') <= RequestCount
           /\ DOMAIN pending' = DOMAIN pending \ segs
<1>1. DOMAIN pending' = DOMAIN pending \ segs
  BY DEF Without
<1>2. IsFiniteSet(DOMAIN pending) /\ Cardinality(DOMAIN pending) <= RequestCount
  BY DEF SegmentInv
<1>3. IsFiniteSet(DOMAIN pending') /\ Cardinality(DOMAIN pending') <= Cardinality(DOMAIN pending)
  BY <1>1, <1>2, FS_Subset
<1>4. Cardinality(DOMAIN pending') \in Nat /\ Cardinality(DOMAIN pending) \in Nat
  BY <1>2, <1>3, FS_CardinalityType
<1> QED BY <1>1, <1>2, <1>3, <1>4, PibdAssumption

LEMMA SegmentStep ==
    ASSUME TypeInv, SegmentInv, JobInv, PibdNext
    PROVE  SegmentInv'
<1>1. ASSUME NEW h \in Headers, StartPIBD(h) PROVE SegmentInv'
  BY <1>1, EmptySession DEF StartPIBD
<1>2. ASSUME Restarted \/ AbortPIBD PROVE SegmentInv'
  BY <1>2, EmptySession, ZenonT(30) DEF Restarted, AbortPIBD
<1>3. ASSUME NEW n \in [DataTypes -> Nat],
             \A t \in DataTypes : \A i \in 0..(n[t] - 1) : applied[t] + i \in cached[t],
             ApplyReadySegments(n), UNCHANGED <<block, pending>>, block # None, open # None,
             complete' => (complete /\ \A t \in DataTypes : n[t] = 0) \/ AllApplied(applied)'
      PROVE  SegmentInv'
  <2>1. /\ \A s \in DOMAIN pending' : ~IsApplied(s)' /\ s.idx \notin cached'[s.type]
        /\ \A t \in Types : \A i \in cached'[t] : i >= applied'[t] /\ i < NumSegs[block'][t]
        /\ \A t \in DataTypes : applied'[t] = applied[t] + n[t]
        /\ applied'["bitmap"] = applied["bitmap"]
    BY <1>3, ApplyMovesCached
  <2>2. complete' => AllApplied(applied)'
    <3>1. ASSUME complete, \A t \in DataTypes : n[t] = 0 PROVE AllApplied(applied)'
      <4>1. \A t \in DataTypes : applied[t] \in Nat
        BY DEF TypeInv, Types, DataTypes
      <4>2. \A t \in DataTypes : applied'[t] = applied[t]
        BY <2>1, <3>1, <4>1
      <4> QED BY <1>3, <2>1, <3>1, <4>2 DEF SegmentInv, AllApplied, BitmapComplete
    <3> QED BY <1>3, <3>1, SMTT(30)
  <2> QED BY <1>3, <2>1, <2>2, ZenonT(30) DEF SegmentInv
<1>4. ASSUME RequestApply PROVE SegmentInv'
  <2> DEFINE n == ApplyCounts(NoneFails)
  <2>1. /\ n \in [DataTypes -> Nat]
        /\ \A t \in DataTypes : \A i \in 0..(n[t] - 1) : applied[t] + i \in cached[t]
    BY WholeBatch
  <2>2. /\ ApplyReadySegments(n) /\ UNCHANGED <<block, pending>> /\ block # None /\ open # None
        /\ complete' = IF BitmapComplete THEN AllApplied(applied') ELSE complete
    BY <1>4 DEF RequestApply
  <2>3. applied'["bitmap"] = applied["bitmap"]
    BY <2>2 DEF ApplyReadySegments, Types, TypeInv
  <2>4. complete' => AllApplied(applied)'
    BY <2>2, <2>3, Zenon DEF AllApplied, BitmapComplete, SegmentInv
  <2> HIDE DEF n
  <2> QED BY <1>3, <2>1, <2>2, <2>4
<1>5. ASSUME NEW t \in DataTypes, RequestApplyFails(t) PROVE SegmentInv'
  <2>1. PICK k \in 0..(ReadyCount(t) - 1) : ApplyReadySegments(ApplyCounts([type |-> t, after |-> k]))
    BY <1>5 DEF RequestApplyFails
  <2> DEFINE n == ApplyCounts([type |-> t, after |-> k])
  <2>2. /\ n \in [DataTypes -> Nat]
        /\ \A u \in DataTypes : \A i \in 0..(n[u] - 1) : applied[u] + i \in cached[u]
    BY PartOfBatch
  <2>3. UNCHANGED <<block, pending, complete>> /\ block # None /\ open # None
    BY <1>5 DEF RequestApplyFails
  <2>4. complete => \A u \in DataTypes : n[u] = 0
    <3> HIDE DEF n
    <3> QED BY <2>1, <2>2, <2>3, ApplyMovesCached, SMTT(30) DEF n
  <2> HIDE DEF n
  <2> QED BY <1>3, <2>1, <2>2, <2>3, <2>4 DEF n
<1>6. ASSUME RequestSend PROVE SegmentInv'
  <2>1. block # None /\ UNCHANGED <<block, applied, cached, complete>>
    BY <1>6, Zenon DEF RequestSend, JobInv
  <2>2. /\ IsFiniteSet(DOMAIN pending') /\ Cardinality(DOMAIN pending') <= RequestCount
        /\ \A s \in DOMAIN pending' : s \in DOMAIN pending \/ s \in Wishes
    BY <1>6, <2>1, SendKeepsSegments
  <2>3. ASSUME NEW s \in Wishes
        PROVE  s \in [type : Types, idx : Nat] /\ ~IsApplied(s) /\ s.idx \notin cached[s.type]
    <3>1. s \in [type : Types, idx : Nat] /\ s.idx \in Missing(s.type)
      BY DEF Wishes
    <3>2. applied[s.type] \in Nat /\ NumSegs[block][s.type] \in Nat
      BY <2>1, <3>1, PibdAssumption DEF TypeInv
    <3> QED BY <3>1, <3>2 DEF Missing, IsApplied
  <2>4. \A s \in DOMAIN pending' :
           s \in [type : Types, idx : Nat] /\ ~IsApplied(s) /\ s.idx \notin cached[s.type]
    BY <2>1, <2>2, <2>3 DEF SegmentInv
  <2>5. \A s : IsApplied(s)' = IsApplied(s)
    BY <2>1 DEF IsApplied
  <2>6. AllApplied(applied)' = AllApplied(applied)
    BY <2>1, SMTT(30) DEF AllApplied, BitmapComplete
  <2> QED BY <2>1, <2>2, <2>4, <2>5, <2>6, SMTT(30) DEF SegmentInv
<1>7. ASSUME ClearPIBDRequests PROVE SegmentInv'
  <2>1. pending' = <<>> /\ UNCHANGED <<block, applied, cached, complete>>
    BY <1>7 DEF ClearPIBDRequests
  <2>2. DOMAIN pending' = {}
    BY <2>1
  <2>3. IsFiniteSet(DOMAIN pending') /\ Cardinality(DOMAIN pending') = 0
    BY <2>2, FS_EmptySet
  <2>4. AllApplied(applied)' = AllApplied(applied)
    BY <2>1, SMTT(30) DEF AllApplied, BitmapComplete
  <2> QED BY <2>1, <2>2, <2>3, <2>4, PibdAssumption, SMTT(30) DEF SegmentInv
<1>8. ASSUME NEW h \in Headers, NEW s \in Segments(h), ReceiveSegment(h, s) PROVE SegmentInv'
  <2>1. /\ block # None /\ s \in [type : Types, idx : Nat] /\ s.type \in Types /\ s.idx \in Nat
        /\ s.idx >= applied[s.type] /\ s.idx < NumSegs[block][s.type]
    BY <1>8, WantedIsMissing DEF ReceiveSegment
  <2>2. /\ IsFiniteSet(DOMAIN pending') /\ Cardinality(DOMAIN pending') <= RequestCount
        /\ DOMAIN pending' = DOMAIN pending \ {s}
    BY <1>8, ForgetsRequest, ZenonT(30) DEF ReceiveSegment
  <2>3. /\ applied \in [Types -> Nat] /\ cached \in [Types -> SUBSET Nat]
        /\ NumSegs[block][s.type] \in Nat
    BY <2>1, PibdAssumption, SMTT(30) DEF TypeInv
  <2>4. ~complete'
    <3>1. block' = block /\ complete' = complete
      BY <1>8, ZenonT(30) DEF ReceiveSegment
    <3>2. complete => s.idx >= NumSegs[block][s.type]
      BY <2>1, ZenonT(30) DEF SegmentInv, AllApplied, BitmapComplete, Types, DataTypes
    <3> QED BY <2>1, <2>3, <3>1, <3>2
  <2>5. /\ \A r \in DOMAIN pending' : ~(r.idx < applied'[r.type]) /\ r.idx \notin cached'[r.type]
        /\ \A t \in Types : \A i \in cached'[t] : i >= applied'[t] /\ i < NumSegs[block][t]
    <3>1. \A r \in DOMAIN pending' :
            /\ r \in [type : Types, idx : Nat] /\ r # s /\ ~(r.idx < applied[r.type])
            /\ r.idx \notin cached[r.type]
      BY <2>1, <2>2, ZenonT(30) DEF SegmentInv, IsApplied
    <3>2. \A r \in DOMAIN pending' : r.type = s.type => r.idx # s.idx
      BY <2>1, <3>1, SMTT(30)
    <3>3. \A t \in Types : \A i \in cached[t] : i >= applied[t] /\ i < NumSegs[block][t]
      BY <2>1 DEF SegmentInv
    <3>4. CASE s.type = "bitmap"
      <4> DEFINE indices == cached["bitmap"] \cup {s.idx}
                 n == BitmapRun(indices)
      <4>1. /\ n \in Nat /\ n >= applied["bitmap"]
            /\ \A i \in applied["bitmap"]..(n - 1) : i \in indices
        BY <2>1, <3>4, BitmapRunIsCached, SMTT(30)
      <4>2. /\ applied' = [applied EXCEPT !["bitmap"] = n]
            /\ cached' = [cached EXCEPT !["bitmap"] = {i \in indices : i >= n}]
        BY <1>8, <2>3, <3>4, SMTT(30) DEF ReceiveSegment, Types
      <4> HIDE DEF n
      <4>3. /\ applied'["bitmap"] = n /\ cached'["bitmap"] = {i \in indices : i >= n}
            /\ \A t \in Types \ {"bitmap"} : applied'[t] = applied[t] /\ cached'[t] = cached[t]
        BY <2>3, <4>2 DEF Types
      <4>4. ASSUME NEW r \in DOMAIN pending'
            PROVE  ~(r.idx < applied'[r.type]) /\ r.idx \notin cached'[r.type]
        <5>1. CASE r.type = "bitmap"
          <6>1. r.idx \notin indices /\ r.idx \in Nat /\ ~(r.idx < applied["bitmap"])
            BY <3>1, <3>2, <3>4, <5>1
          <6>2. applied["bitmap"] \in Nat
            BY <2>3 DEF Types
          <6>3. ~(r.idx < n)
            BY <4>1, <6>1, <6>2
          <6> QED BY <4>3, <5>1, <6>1, <6>3
        <5>2. CASE r.type # "bitmap"
          BY <3>1, <4>3, <5>2
        <5> QED BY <5>1, <5>2, SMTT(30)
      <4>5. ASSUME NEW t \in Types, NEW i \in cached'[t]
            PROVE  i >= applied'[t] /\ i < NumSegs[block][t]
        <5>1. CASE t = "bitmap"
          BY <2>1, <3>3, <3>4, <4>3, <5>1, SMTT(30)
        <5>2. CASE t # "bitmap"
          BY <3>3, <4>3, <5>2, SMTT(30)
        <5> QED BY <5>1, <5>2
      <4> QED BY <4>4, <4>5, SMTT(30)
    <3>5. CASE s.type # "bitmap"
      <4>1. applied' = applied /\ cached' = [cached EXCEPT ![s.type] = @ \cup {s.idx}]
        BY <1>8, <3>5, SMTT(30) DEF ReceiveSegment
      <4>2. /\ cached'[s.type] = cached[s.type] \cup {s.idx}
            /\ \A t \in Types : t # s.type => cached'[t] = cached[t]
        BY <2>1, <2>3, <4>1, SMTT(30)
      <4> QED BY <2>1, <3>1, <3>2, <3>3, <4>1, <4>2, SMTT(30)
    <3> QED BY <3>4, <3>5, ZenonT(30)
  <2>6. \A r \in DOMAIN pending' : r \in [type : Types, idx : Nat]
    BY <2>2, SMTT(30) DEF SegmentInv
  <2>7. block' = block
    BY <1>8, SMTT(30) DEF ReceiveSegment
  <2> QED BY <2>2, <2>4, <2>5, <2>6, <2>7, SMTT(30) DEF SegmentInv, IsApplied
<1>9. ASSUME NEW h \in Headers, NEW s \in Segments(h), DropSegment(h, s) PROVE SegmentInv'
  <2>1. /\ IsFiniteSet(DOMAIN pending') /\ Cardinality(DOMAIN pending') <= RequestCount
        /\ DOMAIN pending' = DOMAIN pending \ {s}
    BY <1>9, ForgetsRequest, Zenon DEF DropSegment
  <2>2. UNCHANGED <<block, applied, cached, complete>>
    BY <1>9 DEF DropSegment
  <2>3. AllApplied(applied)' = AllApplied(applied)
    BY <2>2, SMTT(30) DEF AllApplied, BitmapComplete
  <2> QED BY <2>1, <2>2, <2>3, Zenon DEF SegmentInv, IsApplied
<1>10. ASSUME UNCHANGED <<block, applied, cached, complete, pending>> PROVE SegmentInv'
  <2>1. AllApplied(applied)' = AllApplied(applied)
    BY <1>10 DEF AllApplied, BitmapComplete
  <2> QED BY <1>10, <2>1 DEF SegmentInv, IsApplied
<1>11. ASSUME NEW h \in Headers, StartPIBDFails(h) \/ CandidateReorg(h) PROVE SegmentInv'
  BY <1>10, <1>11 DEF StartPIBDFails, CandidateReorg
<1>12. ASSUME RequestValidation \/ JoinedValidation \/ RequestValidationFails PROVE SegmentInv'
  BY <1>10, <1>12, Zenon DEF RequestValidation, JoinedValidation, RequestValidationFails
<1>13. ASSUME \/ ValidateStart \/ (\E good \in BOOLEAN : Validate(good)) \/ Install \/ InstallThrows
              \/ ReportState \/ ReportStatus \/ OnComplete \/ OnCompleteLocked
       PROVE  SegmentInv'
  BY <1>10, <1>13, ZenonT(30) DEF ValidateStart, Validate, Install, InstallThrows, ReportState, ReportStatus,
                      OnComplete, OnCompleteLocked
<1>14. ASSUME \/ \E h \in ZipHeaders, good \in BOOLEAN : ReceiveTxHashSet(h, good)
              \/ ZipAborted \/ ZipDownloaded \/ ZipClose \/ ZipUnpack \/ ZipInstall \/ ZipEnd
              \/ BlocksAdded
       PROVE  SegmentInv'
  BY <1>10, <1>14 DEF ReceiveTxHashSet, ZipAborted, ZipDownloaded, ZipClose, ZipUnpack, ZipInstall,
                      ZipEnd, BlocksAdded
<1>15. ASSUME Crash \/ \E h \in Headers : CrashInOpenEmpty(h) PROVE SegmentInv'
  BY <1>2, <1>15, SMTT(30) DEF Crash, CrashInOpenEmpty
<1> QED
  BY <1>1, <1>2, <1>4, <1>5, <1>6, <1>7, <1>8, <1>9, <1>11, <1>12, <1>13, <1>14, <1>15, SMTT(30) DEF PibdNext

-----------------------------------------------------------------------------
(* The set in memory and on disk *)

LEMMA SetStep ==
    ASSUME TypeInv, SegmentInv, SetInv, JobInv, ResultInv, ConfirmInv, PibdNext
    PROVE  SetInv'
<1>1. ASSUME NEW h \in Headers, StartPIBD(h) PROVE SetInv'
  <2> DEFINE e == EffectiveHeader(h)
  <2>1. e \in candidate /\ e \in Headers /\ e # None
    BY <1>1, EffectiveIsCandidate DEF StartPIBD
  <2>2. /\ OpenForPIBD(e) /\ block' = e /\ applied' = StartSizes(open'.size)
        /\ overlap' = (overlap \/ zip.pc # "none") /\ UNCHANGED <<candidate, zip>>
    BY <1>1, SMTT(30) DEF StartPIBD
  <2> HIDE DEF e
  <2>3. /\ open' \in Sets /\ disk'.of = open'.of /\ disk'.size = open'.size /\ disk'.kind = open'.kind
        /\ disk'.meta = e
        /\ CanResume(e) => disk' = disk
        /\ ~CanResume(e) => open'.of = e
    BY <2>1, <2>2, OpensSet, Zenon
  <2>4. open'.kind = "pibd" => open'.of = e
    <3>1. CASE CanResume(e)
      BY <2>1, <2>3, <3>1 DEF CanResume, SetInv
    <3>2. CASE ~CanResume(e)
      BY <2>3, <3>2
    <3> QED BY <3>1, <3>2, SMTT(30)
  <2>5. \A t \in DataTypes : open'.size[t] = applied'[t]
    BY <2>2, SMTT(30) DEF StartSizes, Types, DataTypes
  <2> QED BY <2>2, <2>3, <2>4, <2>5, Zenon DEF SetInv
<1>2. ASSUME NEW h \in Headers, StartPIBDFails(h) PROVE SetInv'
  BY <1>2, SMTT(30) DEF StartPIBDFails, SetInv
<1>3. ASSUME NEW h \in Headers, CandidateReorg(h) PROVE SetInv'
  BY <1>3 DEF CandidateReorg, SetInv
<1>4. ASSUME NEW h \in Headers, CrashInOpenEmpty(h) PROVE SetInv'
  <2>1. /\ disk' = [disk EXCEPT !.of = EffectiveHeader(h), !.size = Zero, !.kind = "pibd"]
        /\ block' = None /\ open' = None /\ zip' = NoZip /\ candidate' = candidate
    BY <1>4 DEF CrashInOpenEmpty, OpenEmptyCrash, Restarted
  <2>2. disk'.meta = disk.meta /\ disk'.of = EffectiveHeader(h)
    BY <2>1 DEF TypeInv, DiskType
  <2>3. disk.meta \in candidate => EffectiveHeader(h) = disk.meta
    BY SMTT(30) DEF EffectiveHeader
  <2> QED BY <2>1, <2>2, <2>3 DEF SetInv, NoZip
<1>5. ASSUME Crash PROVE SetInv'
  <2>1. /\ block' = None /\ open' = None /\ zip'.pc = "none" /\ candidate' = candidate
        /\ disk' = disk \/ \E done \in SUBSET DataTypes : CommitSome(done)
    BY <1>5 DEF Crash, Restarted, NoZip
  <2>2. ASSUME NEW done \in SUBSET DataTypes, CommitSome(done)
        PROVE  disk'.meta = disk.meta /\ disk'.of = open.of /\ disk'.kind = open.kind /\ open # None
    BY <2>2, CommitsSome DEF CommitSome
  <2> QED BY <2>1, <2>2, ZenonT(30) DEF SetInv
<1>6. ASSUME RequestApply PROVE SetInv'
  <2> DEFINE n == ApplyCounts(NoneFails)
  <2>1. /\ n \in [DataTypes -> Nat]
        /\ \A t \in DataTypes : \A i \in 0..(n[t] - 1) : applied[t] + i \in cached[t]
    BY WholeBatch
  <2>2. /\ ApplyReadySegments(n) /\ UNCHANGED <<block, pending, candidate, zip, overlap>>
        /\ block # None /\ open # None
        /\ disk' = [disk EXCEPT !.of = open.of, !.size = open'.size, !.kind = open.kind]
    BY <1>6 DEF RequestApply
  <2> HIDE DEF n
  <2>3. /\ open' \in Sets /\ open'.of = open.of /\ open'.kind = open.kind
        /\ \A t \in DataTypes : applied'[t] = applied[t] + n[t] /\ open'.size[t] = open.size[t] + n[t]
    BY <2>1, <2>2, ApplyMovesCached
  <2>4. disk'.meta = disk.meta /\ disk'.of = open.of /\ disk'.kind = open.kind
    BY <2>2, SMTT(30) DEF TypeInv, DiskType
  <2> QED BY <2>2, <2>3, <2>4 DEF SetInv
<1>7. ASSUME NEW t \in DataTypes, RequestApplyFails(t) PROVE SetInv'
  <2>1. PICK k \in 0..(ReadyCount(t) - 1) : ApplyReadySegments(ApplyCounts([type |-> t, after |-> k]))
    BY <1>7, SMTT(30) DEF RequestApplyFails
  <2> DEFINE n == ApplyCounts([type |-> t, after |-> k])
  <2>2. /\ n \in [DataTypes -> Nat]
        /\ \A u \in DataTypes : \A i \in 0..(n[u] - 1) : applied[u] + i \in cached[u]
    BY PartOfBatch
  <2>3. /\ UNCHANGED <<block, pending, candidate, zip, overlap>> /\ block # None /\ open # None
        /\ disk' = [disk EXCEPT !.of = open.of, !.size = open'.size, !.kind = open.kind]
    BY <1>7 DEF RequestApplyFails
  <2>4. ApplyReadySegments(n)
    BY <2>1, SMTT(30)
  <2> HIDE DEF n
  <2>5. /\ open' \in Sets /\ open'.of = open.of /\ open'.kind = open.kind
        /\ \A u \in DataTypes : applied'[u] = applied[u] + n[u] /\ open'.size[u] = open.size[u] + n[u]
    BY <2>2, <2>3, <2>4, ApplyMovesCached
  <2>6. disk'.meta = disk.meta /\ disk'.of = open.of /\ disk'.kind = open.kind
    BY <2>3, SMTT(30) DEF TypeInv, DiskType
  <2> QED BY <2>3, <2>5, <2>6, SMTT(30) DEF SetInv
<1>8. ASSUME CommitSet, open # None
      PROVE  disk'.meta = disk.meta /\ disk'.of = open.of /\ disk'.kind = open.kind
  BY <1>8, CommitsSet
<1>9. ASSUME RequestValidation PROVE SetInv'
  BY <1>8, <1>9 DEF RequestValidation, SetInv
<1>10. ASSUME CommitIfNeeded
       PROVE  /\ disk'.meta = disk.meta
              /\ disk' = disk \/ (open # None /\ disk'.of = open.of /\ disk'.kind = open.kind)
  BY <1>8, <1>10 DEF CommitIfNeeded
<1>11. ASSUME ClearPIBDRequests PROVE SetInv'
  <2>1. /\ disk'.meta = disk.meta
        /\ disk' = disk \/ (open # None /\ disk'.of = open.of /\ disk'.kind = open.kind)
    BY <1>10, <1>11, ZenonT(30) DEF ClearPIBDRequests
  <2> QED BY <1>11, <2>1, ZenonT(30) DEF ClearPIBDRequests, SetInv
<1>12. ASSUME AbortPIBD PROVE SetInv'
  <2>1. /\ disk'.meta = disk.meta
        /\ disk' = disk \/ (open # None /\ disk'.of = open.of /\ disk'.kind = open.kind)
    BY <1>10, <1>12, ZenonT(30) DEF AbortPIBD
  <2> QED BY <1>12, <2>1, ZenonT(30) DEF AbortPIBD, SetInv
<1>13. ASSUME NEW h \in Headers, NEW s \in Segments(h), ReceiveSegment(h, s) PROVE SetInv'
  <2>1. \A t \in DataTypes : applied'[t] = applied[t]
    BY <1>13 DEF ReceiveSegment, TypeInv, Types, DataTypes
  <2> QED BY <1>13, <2>1, ZenonT(30) DEF ReceiveSegment, SetInv
<1>14. ASSUME NEW good \in BOOLEAN, Validate(good) PROVE SetInv'
  <2>1. CASE UNCHANGED store
    BY <1>14, <2>1 DEF Validate, SetInv
  <2>2. CASE ClearPIBDResumeState
    BY <1>14, <2>2 DEF Validate, ClearPIBDResumeState, SetInv
  <2> QED BY <1>14, <2>1, <2>2 DEF Validate
<1>15. ASSUME Install \/ InstallThrows PROVE SetInv'
  BY <1>15, ZenonT(30) DEF Install, InstallThrows, SetInv
<1>16. ASSUME NEW h \in ZipHeaders, NEW good \in BOOLEAN, ReceiveTxHashSet(h, good) PROVE SetInv'
  BY <1>16, PibdAssumption, Zenon DEF ReceiveTxHashSet, SetInv
<1>17. ASSUME ZipAborted \/ ZipEnd PROVE SetInv'
  <2>1. zip'.pc = "none"
    BY <1>17 DEF ZipAborted, ZipEnd, NoZip
  <2> QED BY <1>17, <2>1, ZenonT(30) DEF ZipAborted, ZipEnd, SetInv
<1>18. ASSUME ZipDownloaded \/ ZipClose PROVE SetInv'
  <2>1. zip'.block = zip.block /\ zip.pc # "none"
    BY <1>18 DEF ZipDownloaded, ZipClose, TypeInv, ZipType
  <2> QED BY <1>18, <2>1 DEF ZipDownloaded, ZipClose, SetInv
<1>19. ASSUME ZipUnpack PROVE SetInv'
  <2>1. zip'.block = zip.block /\ zip.pc # "none"
    BY <1>19 DEF ZipUnpack, TypeInv, ZipType
  <2>2. disk'.meta = disk.meta /\ disk'.kind = "zip"
    BY <1>19 DEF ZipUnpack, TypeInv, DiskType
  <2> QED BY <1>19, <2>1, <2>2 DEF ZipUnpack, SetInv
<1>20. ASSUME ZipInstall PROVE SetInv'
  <2>1. zip'.block = zip.block /\ zip.pc # "none"
    BY <1>20 DEF ZipInstall, TypeInv, ZipType
  <2>2. open' = None \/ open'.kind = "zip"
    BY <1>20 DEF ZipInstall
  <2> QED BY <1>20, <2>1, <2>2 DEF ZipInstall, SetInv
<1>21. ASSUME BlocksAdded PROVE SetInv'
  <2>1. open'.kind = "grown" /\ disk'.kind = "grown"
    BY <1>21, SMTT(30) DEF BlocksAdded, TypeInv, Sets, DiskType
  <2> QED BY <1>21, <2>1 DEF BlocksAdded, SetInv
<1>22. ASSUME UNCHANGED <<block, applied, open, disk, candidate, zip, overlap>> PROVE SetInv'
  BY <1>22 DEF SetInv
<1>23. ASSUME \/ JoinedValidation \/ RequestValidationFails \/ RequestSend
              \/ ValidateStart \/ ReportState \/ ReportStatus \/ OnComplete \/ OnCompleteLocked
              \/ \E h \in Headers : \E s \in Segments(h) : DropSegment(h, s)
       PROVE  SetInv'
  BY <1>22, <1>23, Zenon DEF JoinedValidation, RequestValidationFails, RequestSend, ValidateStart,
       ReportState, ReportStatus, OnComplete, OnCompleteLocked, DropSegment
<1> QED
  BY SMTT(30), <1>1, <1>2, <1>3, <1>4, <1>5, <1>6, <1>7, <1>9, <1>11, <1>12, <1>13, <1>14, <1>15, <1>16,
     <1>17, <1>18, <1>19, <1>20, <1>21, <1>23 DEF PibdNext

\* The set on disk is that in memory.
LEMMA CommittedMatches ==
    ASSUME SetInv', open' # None => disk'.of = open'.of, open' # None => disk'.size = open'.size
    PROVE  SessionMatchesSet'
BY Zenon DEF SetInv, SessionMatchesSet

LEMMA SessionStep ==
    ASSUME TypeInv, SegmentInv, SetInv, SessionMatchesSet, SetInv', TypeInv', PibdNext
    PROVE  SessionMatchesSet'
<1>1. ASSUME NEW h \in Headers, StartPIBD(h) PROVE SessionMatchesSet'
  <2>1. EffectiveHeader(h) \in Headers
    BY <1>1, EffectiveIsCandidate DEF StartPIBD
  <2>2. OpenForPIBD(EffectiveHeader(h))
    BY <1>1, SMTT(30) DEF StartPIBD
  <2>3. disk'.of = open'.of /\ disk'.size = open'.size
    BY <2>1, <2>2, OpensSet, SMTT(30)
  <2> QED BY <2>3, CommittedMatches, Zenon
<1>2. ASSUME open' = None \/ block' = None \/ overlap' PROVE SessionMatchesSet'
  BY <1>2 DEF SessionMatchesSet
<1>3. ASSUME RequestApply \/ \E t \in DataTypes : RequestApplyFails(t) PROVE SessionMatchesSet'
  <2>1. /\ disk' = [disk EXCEPT !.of = open.of, !.size = open'.size, !.kind = open.kind]
        /\ \E n : ApplyReadySegments(n)
        /\ open \in Sets
    BY <1>3 DEF RequestApply, RequestApplyFails, TypeInv
  <2>2. disk'.of = open.of /\ disk'.size = open'.size
    BY <2>1, SMTT(30) DEF TypeInv, DiskType
  <2>3. open'.of = open.of
    BY <2>1 DEF ApplyReadySegments, Sets
  <2> QED BY <2>2, <2>3, CommittedMatches, Zenon
<1>5. ASSUME RequestValidation PROVE SessionMatchesSet'
  <2>1. disk'.of = open.of /\ disk'.size = open.size /\ open' = open
    BY <1>5, CommitsSet DEF RequestValidation
  <2> QED BY <2>1, CommittedMatches, Zenon
<1>6. ASSUME ClearPIBDRequests PROVE SessionMatchesSet'
  <2>1. UNCHANGED <<block, applied, open, overlap>> /\ CommitIfNeeded
    BY <1>6, SMTT(30) DEF ClearPIBDRequests
  <2>2. CASE uncommitted > 0 /\ open # None
    <3>1. disk'.of = open.of /\ disk'.size = open.size
      BY <2>1, <2>2, CommitsSet DEF CommitIfNeeded
    <3> QED BY <2>1, <3>1, CommittedMatches, SMTT(30)
  <2>3. CASE ~(uncommitted > 0 /\ open # None)
    BY <2>1, <2>3, Zenon DEF CommitIfNeeded, SessionMatchesSet
  <2> QED BY <2>2, <2>3
<1>7. ASSUME NEW h \in Headers, NEW s \in Segments(h), ReceiveSegment(h, s) PROVE SessionMatchesSet'
  <2>1. \A t \in DataTypes : applied'[t] = applied[t]
    BY <1>7 DEF ReceiveSegment, TypeInv, Types, DataTypes
  <2>2. UNCHANGED <<block, open, disk, overlap>>
    BY <1>7, Zenon DEF ReceiveSegment
  <2> QED BY <2>1, <2>2, SMTT(30) DEF SessionMatchesSet
<1>8. ASSUME UNCHANGED <<block, applied, open, disk, overlap>> PROVE SessionMatchesSet'
  BY <1>8 DEF SessionMatchesSet
<1>9. ASSUME NEW good \in BOOLEAN, Validate(good) PROVE SessionMatchesSet'
  <2>1. CASE UNCHANGED store
    BY <1>8, <1>9, <2>1 DEF Validate
  <2>2. CASE ClearPIBDResumeState
    BY <1>2, <2>2 DEF ClearPIBDResumeState
  <2> QED BY <1>9, <2>1, <2>2 DEF Validate
<1>10. ASSUME Install \/ InstallThrows PROVE SessionMatchesSet'
  <2>1. open' = None \/ UNCHANGED <<block, applied, open, disk, overlap>>
    BY <1>10 DEF Install, InstallThrows
  <2> QED BY <1>2, <1>8, <2>1
<1>11. ASSUME NEW h \in ZipHeaders, NEW good \in BOOLEAN, ReceiveTxHashSet(h, good)
       PROVE  SessionMatchesSet'
  <2>1. UNCHANGED <<block, applied, open, disk>> /\ overlap' = (overlap \/ block # None)
    BY <1>11 DEF ReceiveTxHashSet
  <2> QED BY <2>1, ZenonT(30) DEF SessionMatchesSet
<1>12. ASSUME ZipUnpack \/ ZipInstall PROVE SessionMatchesSet'
  <2>1. zip.pc # "none" /\ UNCHANGED <<block, overlap>>
    BY <1>12, SMTT(30) DEF ZipUnpack, ZipInstall
  <2>2. overlap' \/ block' = None
    BY <2>1, Zenon DEF SetInv
  <2> QED BY <1>2, <2>2
<1>13. ASSUME BlocksAdded PROVE SessionMatchesSet'
  <2>1. open'.kind = "grown"
    BY <1>13 DEF BlocksAdded, TypeInv, Sets
  <2> QED BY <2>1 DEF SessionMatchesSet
<1>14. ASSUME \/ \E h \in Headers : StartPIBDFails(h) \/ CrashInOpenEmpty(h)
              \/ Crash \/ AbortPIBD \/ ZipClose
       PROVE  SessionMatchesSet'
  BY <1>2, <1>14, Zenon DEF StartPIBDFails, CrashInOpenEmpty, Crash, Restarted, AbortPIBD, ZipClose
<1>15. ASSUME \/ \E h \in Headers : CandidateReorg(h)
              \/ \E h \in Headers : \E s \in Segments(h) : DropSegment(h, s)
              \/ JoinedValidation \/ RequestValidationFails \/ RequestSend
       PROVE  SessionMatchesSet'
  BY <1>8, <1>15, Zenon DEF CandidateReorg, DropSegment, JoinedValidation, RequestValidationFails, RequestSend
<1>16. ASSUME \/ ValidateStart \/ ReportState \/ ReportStatus \/ OnComplete \/ OnCompleteLocked
              \/ ZipAborted \/ ZipDownloaded \/ ZipEnd
       PROVE  SessionMatchesSet'
  BY <1>8, <1>16, ZenonT(30) DEF ValidateStart, ReportState, ReportStatus, OnComplete, OnCompleteLocked,
                     ZipAborted, ZipDownloaded, ZipEnd
<1> QED
  BY <1>1, <1>3, <1>5, <1>6, <1>7, <1>9, <1>10, <1>11, <1>12, <1>13, <1>14, <1>15, <1>16, SMTT(30)
  DEF PibdNext

-----------------------------------------------------------------------------
(* The validation *)

\* No segment is wanted once all are applied.
LEMMA NothingWanted ==
    ASSUME TypeInv, SegmentInv, NEW h \in Headers, NEW s \in Segments(h), Wanted(h, s)
    PROVE  ~complete
<1>1. /\ block # None /\ s.type \in Types /\ s.idx \in Nat
      /\ s.idx >= applied[s.type] /\ s.idx < NumSegs[block][s.type]
  BY WantedIsMissing, SMTT(30)
<1>2. complete => applied[s.type] = NumSegs[block][s.type]
  BY <1>1, SMTT(30) DEF SegmentInv, AllApplied, BitmapComplete, Types, DataTypes
<1>3. NumSegs[block][s.type] \in Nat
  BY <1>1, PibdAssumption DEF TypeInv
<1> QED BY <1>1, <1>2, <1>3

\* A complete session has a whole set.
LEMMA CompleteIsWhole ==
    ASSUME TypeInv, SegmentInv, SetInv, block # None, complete, open # None, open.kind = "pibd"
    PROVE  IsWholeSet(open, block)
<1>1. open.of = block /\ \A t \in DataTypes : open.size[t] = NumSegs[block][t]
  BY DEF SetInv, SegmentInv, AllApplied
<1>2. open.size \in [DataTypes -> Nat]
  BY DEF TypeInv, Sets
<1>3. open.size = Target(block)
  BY <1>1, <1>2, SMTT(30) DEF Target
<1> QED BY <1>1, <1>3, SMTT(30) DEF IsWholeSet

LEMMA JobStep ==
    ASSUME TypeInv, SegmentInv, SetInv, JobInv, ResultInv, PibdNext
    PROVE  JobInv'
<1>0. job \in JobType /\ (job.state = "RUNNING" <=> job.pc \in Running)
  BY SMTT(30) DEF TypeInv, JobInv
<1>1. ASSUME NEW h \in Headers, StartPIBD(h) PROVE JobInv'
  <2>1. job'.state = job.state /\ job'.pc = job.pc /\ job'.set = job.set /\ job'.block = job.block
    BY <1>0, <1>1 DEF StartPIBD, JobType
  <2>2. job.state # "RUNNING" /\ syncPc' = "idle"
    BY <1>1, SMTT(30) DEF StartPIBD, MayDrive
  <2> QED BY <1>0, <2>1, <2>2 DEF JobInv, Running
<1>2. ASSUME MayDrive, UNCHANGED <<job, syncPc>> PROVE JobInv'
  BY <1>0, <1>2 DEF MayDrive, JobInv, Running
<1>3. ASSUME NEW h \in Headers, StartPIBDFails(h) PROVE JobInv'
  BY <1>2, <1>3 DEF StartPIBDFails
<1>4. ASSUME UNCHANGED <<job, syncPc, block, complete>>, status' = status \/ status' # "PIBD" PROVE JobInv'
  BY <1>4, ZenonT(30) DEF JobInv
<1>5. ASSUME Restarted PROVE JobInv'
  BY <1>5, ZenonT(30) DEF Restarted, JobInv, IdleJob, Running
<1>6. ASSUME RequestApply PROVE JobInv'
  <2>1. job.state # "RUNNING" /\ block' = block /\ block # None /\ job' = job /\ syncPc' = "applied"
    BY <1>6 DEF RequestApply, MayDrive
  <2> QED BY <1>0, <2>1, Zenon DEF JobInv, Running
<1>7. ASSUME NEW t \in DataTypes, RequestApplyFails(t) PROVE JobInv'
  BY <1>2, <1>7 DEF RequestApplyFails
<1>8. ASSUME RequestValidation PROVE JobInv'
  <2>1. /\ block # None /\ block' = block /\ complete /\ complete' = complete /\ status' = "LEAFSET"
        /\ job.state # "RUNNING"
    BY <1>8, SMTT(30) DEF RequestValidation, JobInv
  <2>2. CASE job.pc = "none"
    <3>1. job'.state = "RUNNING" /\ job'.pc = "start" /\ job'.block = block /\ syncPc' = "idle"
      BY <1>8, <2>2, ZenonT(30) DEF RequestValidation, IdleJob
    <3> QED BY <2>1, <3>1 DEF JobInv, Running
  <2>3. CASE job.pc # "none"
    <3>1. job' = job /\ syncPc' = "joining"
      BY <1>8, <2>3, SMTT(30) DEF RequestValidation
    <3> QED BY <1>0, <2>1, <3>1 DEF JobInv, Running
  <2> QED BY <2>2, <2>3
<1>9. ASSUME JoinedValidation PROVE JobInv'
  <2>1. /\ block # None /\ block' = block /\ complete /\ complete' = complete
        /\ status # "PIBD" /\ status' = status
    BY <1>9 DEF JoinedValidation, JobInv
  <2>2. job'.state = "RUNNING" /\ job'.pc = "start" /\ job'.block = block /\ syncPc' = "idle"
    BY <1>9, SMTT(30) DEF JoinedValidation, IdleJob
  <2> QED BY <2>1, <2>2 DEF JobInv, Running
<1>10. ASSUME RequestValidationFails \/ RequestSend PROVE JobInv'
  <2>1. job.state # "RUNNING" /\ job' = job /\ syncPc' = "idle"
    BY <1>10, Zenon DEF RequestValidationFails, RequestSend, JobInv
  <2> QED BY <1>0, <2>1 DEF JobInv, Running
<1>11. ASSUME ClearPIBDRequests \/ AbortPIBD PROVE JobInv'
  BY <1>2, <1>11, ZenonT(30) DEF ClearPIBDRequests, AbortPIBD
<1>12. ASSUME NEW h \in Headers, NEW s \in Segments(h), ReceiveSegment(h, s) PROVE JobInv'
  <2>1. ~complete /\ syncPc = "idle"
    BY <1>12, NothingWanted DEF ReceiveSegment, Wanted
  <2>2. job.state # "RUNNING" /\ UNCHANGED <<job, syncPc>>
    BY <1>12, <2>1, Zenon DEF ReceiveSegment, JobInv
  <2> QED BY <1>0, <2>1, <2>2, SMTT(30) DEF JobInv, Running
<1>13. ASSUME ValidateStart PROVE JobInv'
  <2>1. /\ job.pc = "start" /\ job.state = "RUNNING" /\ UNCHANGED <<block, complete, syncPc>>
        /\ status' = "SETUP"
    BY <1>0, <1>13, SMTT(30) DEF ValidateStart, Running
  <2>2. syncPc = "idle" /\ block = job.block /\ block # None /\ complete
    BY <2>1, SMTT(30) DEF JobInv
  <2>3. CASE open = None
    <3>1. job'.state = job.state /\ job'.pc = "report" /\ job'.block = job.block
      BY <1>0, <1>13, <2>3, ZenonT(30) DEF ValidateStart, Finish, JobType
    <3> QED BY <2>1, <2>2, <3>1 DEF JobInv, Running
  <2>4. CASE open # None
    <3>1. job'.state = job.state /\ job'.pc = "validate" /\ job'.block = job.block /\ job'.set = open
      BY <1>0, <1>13, <2>4, Zenon DEF ValidateStart, JobType
    <3>2. open \in Sets /\ (open.kind = "pibd" => IsWholeSet(open, block))
      BY <2>2, <2>4, CompleteIsWhole, Zenon DEF TypeInv
    <3> QED BY <2>1, <2>2, <3>1, <3>2 DEF JobInv, Running, Sets, IsWholeSet, Target, DataTypes
  <2> QED BY <2>3, <2>4
<1>14. ASSUME NEW good \in BOOLEAN, Validate(good) PROVE JobInv'
  <2>1. job.pc = "validate" /\ job.state = "RUNNING" /\ UNCHANGED <<block, complete, syncPc, status>>
    BY <1>0, <1>14 DEF Validate, Running
  <2>2. \/ /\ IsWholeSet(job.set, job.block) /\ job' = [job EXCEPT !.pc = "install"]
        \/ job' = [job EXCEPT !.pc = "report", !.result = "INVALID", !.set = None]
    BY <1>14 DEF Validate, Finish
  <2>3. CASE IsWholeSet(job.set, job.block) /\ job' = [job EXCEPT !.pc = "install"]
    <3>1. job'.state = job.state /\ job'.pc = "install" /\ job'.block = job.block /\ job'.set = job.set
      BY <1>0, <2>3 DEF JobType
    <3> QED BY <2>1, <2>3, <3>1 DEF JobInv, Running, IsWholeSet, Target
  <2>4. CASE job' = [job EXCEPT !.pc = "report", !.result = "INVALID", !.set = None]
    <3>1. job'.state = job.state /\ job'.pc = "report" /\ job'.block = job.block
      BY <1>0, <2>4, SMTT(30) DEF JobType
    <3> QED BY <2>1, <3>1, Zenon DEF JobInv, Running
  <2> QED BY <2>2, <2>3, <2>4
<1>15. ASSUME Install \/ InstallThrows PROVE JobInv'
  <2>1. job.pc = "install" /\ job.state = "RUNNING" /\ UNCHANGED <<block, complete, syncPc, status>>
    BY <1>0, <1>15 DEF Install, InstallThrows, Running
  <2>2. job'.state = job.state /\ job'.pc = "report" /\ job'.block = job.block
    BY <1>0, <1>15, ZenonT(30) DEF Install, InstallThrows, Finish, JobType
  <2> QED BY <2>1, <2>2, ZenonT(30) DEF JobInv, Running
<1>16. ASSUME ReportState PROVE JobInv'
  <2>1. job.pc = "report" /\ UNCHANGED <<block, complete, syncPc, status>>
    BY <1>16 DEF ReportState
  <2>2. job'.state # "RUNNING" /\ job'.pc = "publish"
    BY <1>0, <1>16, SMTT(30) DEF ReportState, JobType
  <2> QED BY <1>0, <2>1, <2>2 DEF JobInv, Running
<1>17. ASSUME ReportStatus \/ OnComplete PROVE JobInv'
  <2>1. /\ job.pc \in {"publish", "notify"} /\ UNCHANGED <<block, complete, syncPc>>
        /\ status' = status \/ status' # "PIBD"
    BY <1>17 DEF ReportStatus, OnComplete
  <2>2. job'.state = job.state /\ job'.pc \in {"notify", "none", "lock"}
    BY <1>0, <1>17, SMTT(30) DEF ReportStatus, OnComplete, JobType
  <2> QED BY <1>0, <2>1, <2>2 DEF JobInv, Running
<1>18. ASSUME OnCompleteLocked PROVE JobInv'
  <2>1. job.pc = "lock" /\ syncPc' = "idle"
    BY <1>18 DEF OnCompleteLocked
  <2>2. job'.state = job.state /\ job'.pc = "none"
    BY <1>0, <1>18 DEF OnCompleteLocked, JobType
  <2> QED BY <1>0, <2>1, <2>2 DEF JobInv, Running
<1>19. ASSUME \/ \E h \in Headers : CandidateReorg(h)
              \/ \E h \in Headers : \E s \in Segments(h) : DropSegment(h, s)
              \/ \E h \in ZipHeaders, good \in BOOLEAN : ReceiveTxHashSet(h, good)
       PROVE  JobInv'
  BY <1>4, <1>19, ZenonT(30) DEF CandidateReorg, DropSegment, ReceiveTxHashSet
<1>20. ASSUME ZipAborted \/ ZipDownloaded \/ ZipClose \/ ZipUnpack \/ ZipInstall \/ ZipEnd \/ BlocksAdded
       PROVE  JobInv'
  BY <1>4, <1>20 DEF ZipAborted, ZipDownloaded, ZipClose, ZipUnpack, ZipInstall, ZipEnd, BlocksAdded
<1>21. ASSUME Crash \/ \E h \in Headers : CrashInOpenEmpty(h) PROVE JobInv'
  BY <1>5, <1>21, SMTT(30) DEF Crash, CrashInOpenEmpty
<1> QED
  BY SMTT(30), <1>1, <1>3, <1>6, <1>7, <1>8, <1>9, <1>10, <1>11, <1>12, <1>13, <1>14, <1>15, <1>16, <1>17,
     <1>18, <1>19, <1>20, <1>21 DEF PibdNext

LEMMA ResultStep ==
    ASSUME TypeInv, SegmentInv, SetInv, JobInv, ResultInv, PibdNext
    PROVE  ResultInv'
<1>0. job \in JobType /\ None # "INVALID" /\ None # "SUCCESS"
  BY PibdAssumption DEF TypeInv
<1>1. ASSUME NEW h \in Headers, StartPIBD(h) PROVE ResultInv'
  <2>1. job'.state = job.state /\ job'.pc = job.pc /\ job'.result = None
    BY <1>0, <1>1 DEF StartPIBD, JobType
  <2> QED BY <1>0, <2>1 DEF ResultInv
<1>2. ASSUME UNCHANGED <<job, syncPc, overlap, block>>, open' = open \/ open' = None PROVE ResultInv'
  BY <1>2, SMTT(30) DEF ResultInv
<1>3. ASSUME NEW h \in Headers, StartPIBDFails(h) \/ CandidateReorg(h) PROVE ResultInv'
  BY <1>2, <1>3, SMTT(30) DEF StartPIBDFails, CandidateReorg
<1>4. ASSUME Crash \/ \E h \in Headers : CrashInOpenEmpty(h) PROVE ResultInv'
  <2>1. job' = IdleJob
    BY <1>4 DEF Crash, CrashInOpenEmpty, Restarted
  <2> QED BY <2>1 DEF ResultInv, IdleJob
<1>5. ASSUME RequestApply \/ \E t \in DataTypes : RequestApplyFails(t) PROVE ResultInv'
  <2>1. block # None /\ open # None /\ UNCHANGED <<job, overlap>>
    BY <1>5, Zenon DEF RequestApply, RequestApplyFails
  <2> QED BY <2>1 DEF ResultInv
<1>6. ASSUME RequestValidation \/ JoinedValidation PROVE ResultInv'
  <2>1. syncPc # "idle" /\ overlap' = overlap
    BY <1>6 DEF RequestValidation, JoinedValidation
  <2>2. job' = job \/ (job'.pc = "start" /\ job'.result = None)
    BY <1>6, Zenon DEF RequestValidation, JoinedValidation, IdleJob
  <2> QED BY <1>0, <2>1, <2>2 DEF ResultInv
<1>7. ASSUME RequestValidationFails \/ RequestSend PROVE ResultInv'
  <2>1. syncPc # "idle" /\ UNCHANGED <<job, overlap>>
    BY <1>7, Zenon DEF RequestValidationFails, RequestSend
  <2> QED BY <2>1 DEF ResultInv
<1>8. ASSUME ClearPIBDRequests \/ AbortPIBD PROVE ResultInv'
  <2>1. UNCHANGED <<job, syncPc, overlap, open>> /\ (block' = block \/ block' = None)
    BY <1>8, ZenonT(30) DEF ClearPIBDRequests, AbortPIBD
  <2> QED BY <2>1 DEF ResultInv
<1>9. ASSUME NEW h \in Headers, NEW s \in Segments(h), ReceiveSegment(h, s) \/ DropSegment(h, s)
      PROVE  ResultInv'
  BY <1>2, <1>9, Zenon DEF ReceiveSegment, DropSegment
<1>10. ASSUME job.pc \in Running PROVE syncPc = "idle"
  BY <1>10 DEF JobInv
<1>11. ASSUME ValidateStart PROVE ResultInv'
  <2>1. job.pc = "start" /\ syncPc = "idle" /\ UNCHANGED <<syncPc, overlap, block, open>>
    BY <1>10, <1>11 DEF ValidateStart, Running
  <2>2. CASE open = None
    <3>1. job'.pc = "report"
      BY <1>0, <1>11, <2>2, Zenon DEF ValidateStart, Finish, JobType
    <3> QED BY <2>1, <2>2, <3>1 DEF ResultInv
  <2>3. CASE open # None
    <3>1. job'.pc = "validate" /\ job'.result = job.result
      BY <1>0, <1>11, <2>3, Zenon DEF ValidateStart, JobType
    <3> QED BY <2>1, <3>1 DEF ResultInv
  <2> QED BY <2>2, <2>3
<1>12. ASSUME NEW good \in BOOLEAN, Validate(good) PROVE ResultInv'
  <2>1. job.pc = "validate" /\ syncPc = "idle" /\ UNCHANGED <<syncPc, overlap, block>>
    BY <1>10, <1>12 DEF Validate, Running
  <2>2. CASE open' = None
    <3>1. job'.pc \in {"install", "report"}
      BY <1>0, <1>12, Zenon DEF Validate, Finish, JobType
    <3> QED BY <2>1, <2>2, <3>1 DEF ResultInv
  <2>3. CASE UNCHANGED store /\ job' = [job EXCEPT !.pc = "install"]
    <3>1. job'.pc = "install" /\ job'.result = job.result
      BY <1>0, <2>3 DEF JobType
    <3> QED BY <2>1, <2>3, <3>1 DEF ResultInv
  <2> QED BY <1>12, <2>2, <2>3 DEF Validate, ClearPIBDResumeState
<1>13. ASSUME Install \/ InstallThrows PROVE ResultInv'
  <2>1. job.pc = "install" /\ syncPc = "idle" /\ UNCHANGED <<syncPc, overlap, block>>
    BY <1>10, <1>13 DEF Install, InstallThrows, Running
  <2>2. job'.pc = "report" /\ (job'.result = "INVALID" => open' = None)
    BY <1>0, <1>13, Zenon DEF Install, InstallThrows, Finish, JobType
  <2> QED BY <2>1, <2>2, SMTT(30) DEF ResultInv
<1>14. ASSUME ReportState PROVE ResultInv'
  <2>1. job.pc = "report" /\ UNCHANGED <<syncPc, overlap, block, open>>
    BY <1>14 DEF ReportState
  <2>2. /\ job'.pc = "publish" /\ job'.result = job.result
        /\ job.result = "SUCCESS" => job'.state = "SUCCESS"
    BY <1>0, <1>14 DEF ReportState, JobType
  <2> QED BY <2>1, <2>2 DEF ResultInv
<1>15. ASSUME ReportStatus \/ OnComplete \/ OnCompleteLocked PROVE ResultInv'
  <2>1. job.pc \in {"publish", "notify", "lock"} /\ UNCHANGED <<syncPc, overlap, block, open>>
    BY <1>15, Zenon DEF ReportStatus, OnComplete, OnCompleteLocked
  <2>2. /\ job'.state = job.state /\ job'.result = job.result
        /\ job'.pc \in {"notify", "none", "lock"}
        /\ job'.pc = "lock" => job.state # "SUCCESS"
    BY <1>0, <1>15, Zenon DEF ReportStatus, OnComplete, OnCompleteLocked, JobType
  <2> QED BY <2>1, <2>2 DEF ResultInv
<1>16. ASSUME NEW h \in ZipHeaders, NEW good \in BOOLEAN, ReceiveTxHashSet(h, good) PROVE ResultInv'
  <2>1. UNCHANGED <<job, syncPc, block, open>> /\ overlap' = (overlap \/ block # None)
    BY <1>16 DEF ReceiveTxHashSet
  <2> QED BY <2>1, Zenon DEF ResultInv
<1>17. ASSUME ZipAborted \/ ZipDownloaded \/ ZipClose \/ ZipUnpack \/ ZipEnd PROVE ResultInv'
  BY <1>2, <1>17 DEF ZipAborted, ZipDownloaded, ZipClose, ZipUnpack, ZipEnd
<1>18. ASSUME ZipInstall PROVE ResultInv'
  <2>1. zip.pc # "none" /\ UNCHANGED <<job, syncPc, block, overlap>>
    BY <1>18 DEF ZipInstall
  <2>2. overlap \/ block = None
    BY <2>1 DEF SetInv
  <2> QED BY <2>1, <2>2 DEF ResultInv
<1>19. ASSUME BlocksAdded PROVE ResultInv'
  <2>1. open # None /\ UNCHANGED <<job, syncPc, block, overlap>>
    BY <1>19, SMTT(30) DEF BlocksAdded
  <2> QED BY <2>1 DEF ResultInv
<1> QED
  BY SMTT(30), <1>1, <1>3, <1>4, <1>5, <1>6, <1>7, <1>8, <1>9, <1>11, <1>12, <1>13, <1>14, <1>15, <1>16,
     <1>17, <1>18, <1>19 DEF PibdNext

-----------------------------------------------------------------------------
(* The set in use *)

Validating == {"validate", "install", "report", "publish"}

\* While a set is validated there is a session, its segments are all applied, and
\* neither a zip download nor the sync thread does anything.
LEMMA NothingElse ==
    ASSUME JobInv, SetInv, ConfirmInv, ~overlap
    PROVE  /\ job.pc \in Validating =>
                block # None /\ complete /\ syncPc = "idle" /\ ~MayDrive /\ zip.pc = "none"
           /\ zip.pc \notin {"none", "download"} => block = None /\ ~MayDrive
BY DEF JobInv, SetInv, ConfirmInv, Validating, MayDrive, Running

UseInv == ConfirmInv /\ OpenIsConfirmed

LEMMA ConfirmStep ==
    ASSUME TypeInv, SegmentInv, SetInv, JobInv, ConfirmInv, OpenIsConfirmed, PibdNext
    PROVE  UseInv'
<1> USE DEF UseInv
<1>0. job \in JobType /\ zip \in ZipType /\ None # "SUCCESS"
  BY PibdAssumption, SMTT(30) DEF TypeInv
<1>1. ASSUME overlap' PROVE UseInv'
  BY <1>1, SMTT(30) DEF ConfirmInv, OpenIsConfirmed
<1>2. ASSUME UNCHANGED <<job, zip, status, block, complete, syncPc, confirmed, overlap>>,
             open' = open \/ open' = None
      PROVE  UseInv'
  BY <1>2, SMTT(30) DEF ConfirmInv, OpenIsConfirmed
<1>3. ASSUME job'.pc \notin Validating, zip'.pc \in {"none", "download"}, ~overlap,
             \/ status' # "BLOCKS"
             \/ UNCHANGED <<status, confirmed>> /\ (open' # None => open # None /\ open'.of = open.of)
      PROVE  UseInv'
  BY <1>3, SMTT(30) DEF ConfirmInv, OpenIsConfirmed, Validating
<1>4. ASSUME NEW h \in Headers, StartPIBD(h), ~overlap' PROVE UseInv'
  <2>1. MayDrive /\ status' = "PIBD" /\ ~overlap /\ zip.pc = "none" /\ zip' = zip
    BY <1>4, ZenonT(30) DEF StartPIBD
  <2>2. job'.pc = job.pc
    BY <1>0, <1>4, SMTT(30) DEF StartPIBD, JobType
  <2> QED BY <1>3, <2>1, <2>2, NothingElse
<1>5. ASSUME NEW h \in Headers, StartPIBDFails(h) \/ CandidateReorg(h) PROVE UseInv'
  BY <1>2, <1>5 DEF StartPIBDFails, CandidateReorg
<1>6. ASSUME Crash \/ \E h \in Headers : CrashInOpenEmpty(h) PROVE UseInv'
  <2>1. job' = IdleJob /\ zip' = NoZip /\ status' = "HEADERS"
    BY <1>6 DEF Crash, CrashInOpenEmpty, Restarted
  <2> QED BY <2>1, ZenonT(30) DEF ConfirmInv, OpenIsConfirmed, IdleJob, NoZip
<1>7. ASSUME RequestApply \/ \E t \in DataTypes : RequestApplyFails(t), ~overlap PROVE UseInv'
  <2>1. MayDrive /\ block # None /\ status' = "PIBD" /\ UNCHANGED <<job, zip>>
    BY <1>7, ZenonT(30) DEF RequestApply, RequestApplyFails, UpdatePIBDStatus
  <2>2. zip.pc = "none" /\ job.pc \notin Validating
    BY <1>7, <2>1, NothingElse, Zenon DEF SetInv
  <2> QED BY <1>3, <1>7, <2>1, <2>2
<1>8. ASSUME syncPc # "idle", ~overlap
      PROVE  job.pc \notin Validating /\ zip.pc = "none" /\ block # None
  BY <1>8, NothingElse, ZenonT(30) DEF JobInv, SetInv
<1>9. ASSUME RequestValidation \/ JoinedValidation, ~overlap PROVE UseInv'
  <2>1. syncPc # "idle" /\ UNCHANGED <<zip, open, confirmed>> /\ (status' = "LEAFSET" \/ status' = status)
    BY <1>9 DEF RequestValidation, JoinedValidation
  <2>2. job' = job \/ job'.pc = "start"
    BY <1>9, Zenon DEF RequestValidation, JoinedValidation, IdleJob
  <2>3. job'.pc \notin Validating
    BY <1>8, <1>9, <2>1, <2>2 DEF Validating
  <2> QED BY <1>3, <1>8, <1>9, <2>1, <2>3, Zenon
<1>10. ASSUME RequestValidationFails \/ RequestSend, ~overlap PROVE UseInv'
  <2>1. syncPc # "idle" /\ UNCHANGED <<job, zip, open, confirmed>> /\ (status' = "PIBD" \/ status' = status)
    BY <1>10, Zenon DEF RequestValidationFails, RequestSend, UpdatePIBDStatus
  <2> QED BY <1>3, <1>8, <1>10, <2>1
<1>11. ASSUME ClearPIBDRequests PROVE UseInv'
  BY <1>2, <1>11 DEF ClearPIBDRequests
<1>12. ASSUME AbortPIBD, ~overlap PROVE UseInv'
  <2>1. MayDrive /\ UNCHANGED <<job, zip, open, confirmed>> /\ (status' \in {"FAILED", "PIBD"} \/ status' = status)
    BY <1>12 DEF AbortPIBD
  <2> QED BY <1>3, <1>12, <2>1, NothingElse
<1>13. ASSUME NEW h \in Headers, NEW s \in Segments(h), ReceiveSegment(h, s), ~overlap PROVE UseInv'
  <2>1. ~complete /\ block # None
    BY <1>13, NothingWanted, WantedIsMissing DEF ReceiveSegment
  <2>2. UNCHANGED <<job, zip>> /\ status' = "PIBD"
    BY <1>13, <2>1, ZenonT(30) DEF ReceiveSegment, UpdatePIBDStatus
  <2>3. job.pc \notin Validating /\ zip.pc = "none"
    BY <1>13, <2>1, NothingElse, ZenonT(30) DEF SetInv
  <2> QED BY <1>3, <1>13, <2>2, <2>3, SMTT(30)
<1>14. ASSUME NEW h \in Headers, NEW s \in Segments(h), DropSegment(h, s) PROVE UseInv'
  BY <1>2, <1>14 DEF DropSegment
<1>15. ASSUME job.pc \in Running, ~overlap
       PROVE  zip.pc = "none" /\ syncPc = "idle" /\ block # None /\ complete /\ block = job.block
  BY <1>15, Zenon DEF JobInv, SetInv
<1>16. ASSUME ValidateStart, ~overlap PROVE UseInv'
  <2>1. /\ job.pc = "start" /\ status' = "SETUP" /\ zip.pc = "none"
        /\ UNCHANGED <<zip, open, confirmed>>
    BY <1>15, <1>16, SMTT(30) DEF ValidateStart, Running
  <2>2. CASE open = None
    <3>1. job'.pc = "report"
      BY <1>0, <1>16, <2>2, Zenon DEF ValidateStart, Finish, JobType
    <3> QED BY <2>1, <2>2, <3>1, Zenon DEF ConfirmInv, OpenIsConfirmed
  <2>3. CASE open # None
    <3>1. job'.pc = "validate" /\ job'.set = open
      BY <1>0, <1>16, <2>3, Zenon DEF ValidateStart, JobType
    <3> QED BY <2>1, <2>3, <3>1, Zenon DEF ConfirmInv, OpenIsConfirmed
  <2> QED BY <2>2, <2>3
<1>17. ASSUME NEW good \in BOOLEAN, Validate(good), ~overlap PROVE UseInv'
  <2>1. /\ job.pc = "validate" /\ status = "SETUP" /\ zip.pc = "none"
        /\ UNCHANGED <<zip, status, confirmed>>
    BY <1>15, <1>17, SMTT(30) DEF Validate, Running, ConfirmInv
  <2>2. CASE open' = None
    <3>1. job'.pc \in {"install", "report"}
      BY <1>0, <1>17, ZenonT(30) DEF Validate, Finish, JobType
    <3> QED BY <2>1, <2>2, <3>1, Zenon DEF ConfirmInv, OpenIsConfirmed
  <2>3. CASE UNCHANGED store /\ job' = [job EXCEPT !.pc = "install"]
    <3>1. job'.pc = "install" /\ job'.set = job.set
      BY <1>0, <2>3, SMTT(30) DEF JobType
    <3> QED BY <1>17, <2>1, <2>3, <3>1 DEF ConfirmInv, OpenIsConfirmed
  <2> QED BY <1>17, <2>2, <2>3 DEF Validate, ClearPIBDResumeState
<1>18. ASSUME Install \/ InstallThrows, ~overlap PROVE UseInv'
  <2>1. job.pc = "install" /\ status = "SETUP" /\ zip.pc = "none" /\ UNCHANGED <<zip, status>>
    BY <1>15, <1>18, Zenon DEF Install, InstallThrows, Running, ConfirmInv
  <2>2. job'.pc = "report"
    BY <1>0, <1>18, Zenon DEF Install, InstallThrows, Finish, JobType
  <2>3. job'.result = "SUCCESS" => confirmed' = job.block /\ open' = open
    BY <1>0, <1>18, ZenonT(30) DEF Install, InstallThrows, Finish, JobType
  <2>4. open # None => open.of = job.block
    BY <1>18, <2>1, Zenon DEF ConfirmInv, JobInv, IsWholeSet
  <2> QED BY <2>1, <2>2, <2>3, <2>4 DEF ConfirmInv, OpenIsConfirmed
<1>19. ASSUME ReportState, ~overlap PROVE UseInv'
  <2>1. /\ job.pc = "report" /\ status = "SETUP" /\ zip.pc = "none" /\ syncPc = "idle" /\ block # None /\ complete
        /\ UNCHANGED <<zip, status, open, confirmed, syncPc, block, complete>>
    BY <1>15, <1>19 DEF ReportState, Running, ConfirmInv
  <2>2. job'.pc = "publish" /\ (job'.state = "SUCCESS" => job.result = "SUCCESS")
    BY <1>0, <1>19 DEF ReportState, JobType
  <2> QED BY <1>19, <2>1, <2>2, Zenon DEF ConfirmInv, OpenIsConfirmed
<1>20. ASSUME ReportStatus, ~overlap PROVE UseInv'
  <2>1. /\ job.pc = "publish" /\ zip.pc = "none" /\ UNCHANGED <<zip, open, confirmed>>
        /\ status' = IF job.state = "SUCCESS" THEN "BLOCKS" ELSE "FAILED"
    BY <1>20, NothingElse DEF ReportStatus, Validating
  <2>2. job'.pc = "notify"
    BY <1>0, <1>20, SMTT(30) DEF ReportStatus, JobType
  <2> QED BY <1>20, <2>1, <2>2, Zenon DEF ConfirmInv, OpenIsConfirmed
<1>21. ASSUME OnComplete, ~overlap PROVE UseInv'
  <2>1. job.pc = "notify" /\ UNCHANGED <<zip, open, confirmed, status>>
    BY <1>21 DEF OnComplete
  <2>2. job'.pc \in {"none", "lock"}
    BY <1>0, <1>21, SMTT(30) DEF OnComplete, JobType
  <2> QED BY <1>21, <2>1, <2>2 DEF ConfirmInv, OpenIsConfirmed
<1>22. ASSUME OnCompleteLocked, ~overlap PROVE UseInv'
  <2>1. /\ job.pc = "lock" /\ UNCHANGED <<zip, open, confirmed>>
        /\ block = None => status' = status
        /\ block # None => status' = "PIBD" /\ zip.pc = "none"
    BY <1>22 DEF OnCompleteLocked, UpdatePIBDStatus, SetInv
  <2>2. job'.pc = "none"
    BY <1>0, <1>22, SMTT(30) DEF OnCompleteLocked, JobType
  <2> QED BY <1>22, <2>1, <2>2 DEF ConfirmInv, OpenIsConfirmed
<1>23. ASSUME NEW h \in ZipHeaders, NEW good \in BOOLEAN, ReceiveTxHashSet(h, good), ~overlap PROVE UseInv'
  <2>1. /\ UNCHANGED <<job, status, block, complete, syncPc, confirmed, open>> /\ zip.pc = "none"
        /\ zip'.pc = "download"
    BY <1>23 DEF ReceiveTxHashSet
  <2> QED BY <1>23, <2>1 DEF ConfirmInv, OpenIsConfirmed
<1>24. ASSUME zip.pc # "none", ~overlap PROVE job.pc \notin Validating
  BY <1>24, NothingElse, SMTT(30)
<1>25. ASSUME ZipAborted \/ ZipEnd, ~overlap PROVE UseInv'
  <2>1. /\ zip.pc # "none" /\ UNCHANGED <<job, open, confirmed>>
        /\ status' = "FAILED" \/ (status' = "BLOCKS" /\ zip.pc = "done")
    BY <1>25, SMTT(30) DEF ZipAborted, ZipEnd
  <2>2. zip'.pc = "none"
    BY <1>25 DEF ZipAborted, ZipEnd, NoZip
  <2>3. job'.pc \notin Validating
    BY <1>24, <1>25, <2>1
  <2> QED BY <1>25, <2>1, <2>2, <2>3, SMTT(30) DEF ConfirmInv, OpenIsConfirmed, Validating
<1>26. ASSUME ZipDownloaded \/ ZipClose \/ ZipUnpack, ~overlap PROVE UseInv'
  <2>1. /\ zip.pc # "none" /\ UNCHANGED <<job, confirmed>> /\ (open' = open \/ open' = None)
        /\ status' = "PROCESSING"
    BY <1>26 DEF ZipDownloaded, ZipClose, ZipUnpack, ConfirmInv
  <2>2. zip'.pc \notin {"none", "done"}
    BY <1>0, <1>26 DEF ZipDownloaded, ZipClose, ZipUnpack, ZipType
  <2>3. job'.pc \notin Validating
    BY <1>24, <1>26, <2>1, SMTT(30)
  <2> QED BY <2>1, <2>2, <2>3, Zenon DEF ConfirmInv, OpenIsConfirmed, Validating
<1>27. ASSUME ZipInstall, ~overlap PROVE UseInv'
  <2>1. zip.pc = "install" /\ job' = job /\ status' = "PROCESSING"
    BY <1>27 DEF ZipInstall, ConfirmInv
  <2>2. open' = None \/ open'.of = confirmed'
    BY <1>27 DEF ZipInstall
  <2>3. job'.pc \notin Validating
    BY <1>24, <1>27, <2>1
  <2> QED BY <2>1, <2>2, <2>3 DEF ConfirmInv, OpenIsConfirmed, Validating
<1>28. ASSUME BlocksAdded, ~overlap PROVE UseInv'
  <2>1. status = "BLOCKS" /\ open # None /\ UNCHANGED <<job, zip, status, confirmed>>
    BY <1>28 DEF BlocksAdded
  <2>2. open'.of = open.of
    BY <1>28, <2>1, SMTT(30) DEF BlocksAdded, TypeInv, Sets
  <2>3. job.pc \notin Validating /\ zip.pc \in {"none", "download"}
    BY <1>28, <2>1, SMTT(30) DEF ConfirmInv, Validating
  <2> QED BY <1>3, <1>28, <2>1, <2>2, <2>3
<1>29. ASSUME overlap, PibdNext PROVE overlap' \/ Crash \/ \E h \in Headers : CrashInOpenEmpty(h)
  <2>1. ASSUME NEW h \in Headers, StartPIBD(h) \/ StartPIBDFails(h) \/ CandidateReorg(h) PROVE overlap'
    BY <1>29, <2>1, Zenon DEF StartPIBD, StartPIBDFails, CandidateReorg
  <2>2. ASSUME \/ RequestApply \/ (\E t \in DataTypes : RequestApplyFails(t)) \/ RequestValidation
               \/ JoinedValidation \/ RequestValidationFails \/ RequestSend
               \/ ClearPIBDRequests \/ AbortPIBD
        PROVE  overlap'
    BY <1>29, <2>2, ZenonT(30) DEF RequestApply, RequestApplyFails, RequestValidation, JoinedValidation,
         RequestValidationFails, RequestSend, ClearPIBDRequests, AbortPIBD
  <2>3. ASSUME NEW h \in Headers, NEW s \in Segments(h), ReceiveSegment(h, s) \/ DropSegment(h, s)
        PROVE  overlap'
    BY <1>29, <2>3, Zenon DEF ReceiveSegment, DropSegment
  <2>4. ASSUME \/ ValidateStart \/ (\E good \in BOOLEAN : Validate(good)) \/ Install \/ InstallThrows
               \/ ReportState \/ ReportStatus \/ OnComplete \/ OnCompleteLocked
        PROVE  overlap'
    BY <1>29, <2>4, Zenon DEF ValidateStart, Validate, Install, InstallThrows, ReportState, ReportStatus,
         OnComplete, OnCompleteLocked
  <2>5. ASSUME \/ \E h \in ZipHeaders, good \in BOOLEAN : ReceiveTxHashSet(h, good)
               \/ ZipAborted \/ ZipDownloaded \/ ZipClose \/ ZipUnpack \/ ZipInstall \/ ZipEnd
               \/ BlocksAdded
        PROVE  overlap'
    BY <1>29, <2>5, ZenonT(30) DEF ReceiveTxHashSet, ZipAborted, ZipDownloaded, ZipClose, ZipUnpack, ZipInstall,
         ZipEnd, BlocksAdded
  <2> QED BY <1>29, <2>1, <2>2, <2>3, <2>4, <2>5, SMTT(30) DEF PibdNext
<1>30. CASE overlap
  BY <1>1, <1>6, <1>29, <1>30
<1>31. CASE ~overlap
  BY ZenonT(30), <1>1, <1>4, <1>5, <1>6, <1>7, <1>9, <1>10, <1>11, <1>12, <1>13, <1>14, <1>16, <1>17, <1>18,
     <1>19, <1>20, <1>21, <1>22, <1>23, <1>25, <1>26, <1>27, <1>28, <1>31 DEF PibdNext
<1> QED BY <1>30, <1>31, SMTT(30)

-----------------------------------------------------------------------------
(* Theorems *)

LEMMA PibdStart == PibdInit => PibdInv
<1> SUFFICES ASSUME PibdInit PROVE PibdInv
  OBVIOUS
<1>1. TypeInv
  <2>1. applied \in [Types -> Nat] /\ cached \in [Types -> SUBSET Nat]
    BY DEF PibdInit
  <2>2. complete \in BOOLEAN /\ overlap \in BOOLEAN
    BY Zenon DEF PibdInit
  <2>3. zip \in ZipType
    BY NoZipType, Zenon DEF PibdInit
  <2>4. job \in JobType
    BY ZenonT(30) DEF PibdInit, IdleJob, JobType
  <2>5. disk \in DiskType
    BY DEF PibdInit, DiskType, Zero
  <2>6. /\ block = None /\ offset = 0 /\ uncommitted = 0 /\ open = None /\ candidate = Headers
        /\ syncPc = "idle"
    BY DEF PibdInit
  <2> QED BY <2>1, <2>2, <2>3, <2>4, <2>5, <2>6, SMTT(30) DEF TypeInv
<1>2. SegmentInv
  <2>1. DOMAIN pending = {} /\ block = None
    BY DEF PibdInit
  <2>2. IsFiniteSet(DOMAIN pending) /\ Cardinality(DOMAIN pending) = 0
    BY <2>1, FS_EmptySet, SMTT(30)
  <2>3. Cardinality(DOMAIN pending) <= RequestCount
    BY <2>2, PibdAssumption
  <2> QED BY <2>1, <2>2, <2>3, ZenonT(30) DEF SegmentInv
<1>3. SetInv /\ SessionMatchesSet
  BY ZenonT(30) DEF PibdInit, SetInv, SessionMatchesSet, NoZip
<1>4. JobInv /\ ResultInv
  BY ZenonT(30) DEF PibdInit, JobInv, ResultInv, IdleJob, Running
<1>5. ConfirmInv /\ OpenIsConfirmed
  BY Zenon DEF PibdInit, ConfirmInv, OpenIsConfirmed, IdleJob, NoZip
<1> QED BY <1>1, <1>2, <1>3, <1>4, <1>5 DEF PibdInv

LEMMA PibdStep == PibdInv /\ [PibdNext]_pibdVars => PibdInv'
<1> SUFFICES ASSUME PibdInv, [PibdNext]_pibdVars PROVE PibdInv'
  OBVIOUS
<1>1. CASE PibdNext
  <2>1. TypeInv'
    BY <1>1, TypeStep DEF PibdInv
  <2>2. SegmentInv'
    BY <1>1, SegmentStep DEF PibdInv
  <2>3. SetInv'
    BY <1>1, SetStep DEF PibdInv
  <2>4. SessionMatchesSet'
    BY <1>1, <2>1, <2>3, SessionStep DEF PibdInv
  <2>5. JobInv'
    BY <1>1, JobStep DEF PibdInv
  <2>6. ResultInv'
    BY <1>1, ResultStep DEF PibdInv
  <2>7. ConfirmInv' /\ OpenIsConfirmed'
    BY <1>1, ConfirmStep DEF PibdInv, UseInv
  <2> QED BY <2>1, <2>2, <2>3, <2>4, <2>5, <2>6, <2>7 DEF PibdInv
<1>2. CASE UNCHANGED pibdVars
  <2>1. /\ UNCHANGED <<block, applied, cached, complete, offset, pending, uncommitted, open, disk>>
        /\ UNCHANGED <<candidate, confirmed, status, syncPc, job, zip, overlap>>
    BY <1>2 DEF pibdVars
  <2>2. TypeInv' /\ SetInv'
    BY <2>1, ZenonT(30) DEF PibdInv, TypeInv, SetInv
  <2>3. SegmentInv'
    <3>1. AllApplied(applied)' = AllApplied(applied)
      BY <2>1, ZenonT(30) DEF AllApplied, BitmapComplete
    <3> QED BY <2>1, <3>1, ZenonT(30) DEF PibdInv, SegmentInv, IsApplied
  <2>4. SessionMatchesSet'
    BY <2>1 DEF PibdInv, SessionMatchesSet
  <2>5. JobInv' /\ ResultInv'
    BY <2>1, ZenonT(30) DEF PibdInv, JobInv, ResultInv
  <2>6. ConfirmInv' /\ OpenIsConfirmed'
    BY <2>1, Zenon DEF PibdInv, ConfirmInv, OpenIsConfirmed
  <2> QED BY <2>2, <2>3, <2>4, <2>5, <2>6, SMTT(30) DEF PibdInv
<1> QED BY <1>1, <1>2

LEMMA PibdInvariant == PibdSpec => []PibdInv
BY PibdStart, PibdStep, PTL DEF PibdSpec

\* The segments that are applied, that wait and that are asked for are different ones,
\* and no more than SEGMENT_REQUEST_COUNT are asked for, whatever the peers do with the
\* requests of SegmentRequestTracker and however sessions follow each other.
THEOREM SegmentsAreAskedOnce == PibdSpec => []SegmentInOnePlace
<1>1. PibdInv => SegmentInOnePlace
  BY Zenon DEF PibdInv, SegmentInv, SegmentInOnePlace
<1> QED BY <1>1, PibdInvariant, PTL

\* What the desegmenter counts as applied is what the set has, in memory and on disk,
\* through resumes, crashes in OpenEmpty and in a commit (TxHashSet::Commit), and
\* batches that stop at a segment that does not fit.
THEOREM SessionsMatchSets == PibdSpec => []SessionMatchesSet
<1>1. PibdInv => SessionMatchesSet
  BY SMTT(30) DEF PibdInv
<1> QED BY <1>1, PibdInvariant, PTL

\* PIBDValidationJob is given the whole set of the header, and no thread reports a
\* download while it runs, also when a zip file is processed at the same time.
THEOREM OnlyWholeSetsAreValidated == PibdSpec => []ValidatesWholeSet
<1>1. PibdInv => ValidatesWholeSet
  BY DEF PibdInv, JobInv, ValidatesWholeSet
<1> QED BY <1>1, PibdInvariant, PTL

\* The sync thread joins a validation thread that waits for m_pibdMutex only after a
\* database error.
THEOREM JoinsOnlyAfterThrow == PibdSpec => []JoinOnlyAfterThrow
<1>1. PibdInv => JoinOnlyAfterThrow
  <2> SUFFICES ASSUME PibdInv, ~overlap, syncPc = "joining", job.pc = "lock"
               PROVE  job.result \in {"THREW", None}
    BY DEF JoinOnlyAfterThrow
  <2>1. job.result \in {None, "SUCCESS", "INVALID", "THREW"}
    BY DEF PibdInv, TypeInv, JobType
  <2>2. job.result # "SUCCESS" /\ job.result # "INVALID"
    BY DEF PibdInv, ResultInv
  <2> QED BY <2>1, <2>2
<1> QED BY <1>1, PibdInvariant, PTL

\* Once the status says that blocks are synchronized, the set in use is that of the
\* confirmed chain, whether it came from segments or from a zip file.
THEOREM UsesConfirmedSet == PibdSpec => []OpenIsConfirmed
<1>1. PibdInv => OpenIsConfirmed
  BY DEF PibdInv
<1> QED BY <1>1, PibdInvariant, PTL
=============================================================================
