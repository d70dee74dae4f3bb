----------------------------- MODULE SyncProofs -----------------------------
(***************************************************************************)
(* Header and block sync with any number of peers and any heights.         *)
(***************************************************************************)
EXTENDS HeaderSync, BlockSync, OrderLemmas, SequenceTheorems

-----------------------------------------------------------------------------
(* Header sync: the invariant *)

\* A batch that is cached has headers after genesis and up to the network's tip.
IsBatch(b) == /\ b \in [lo : Nat, hi : Nat, ok : BOOLEAN, peer : Range(HPeers), src : {"pihd", "legacy"}]
              /\ 1 <= b.lo /\ b.lo <= b.hi /\ b.hi <= NetHeight

IsRequest(r) == r \in [peer : Range(HPeers), kind : {"pihd", "legacy"}, idx : Nat]
IsPending(r) == r \in [peer : Range(HPeers), kind : {"pihd", "legacy"}, idx : Nat, late : BOOLEAN]

\* The inductive invariant.
HeaderInv ==
    /\ htip \in [b : {"m", "f"}, h : Nat]
    /\ IsFiniteSet(hpending) /\ \A r \in hpending : IsPending(r)
    /\ \A r \in wire : IsRequest(r)
    /\ \A b \in batches : IsBatch(b)
    /\ merging # NoBatch => IsBatch(merging) /\ OnCandidate(merging.lo - 1)

LEMMA KnownHeightType == HeaderInv => KnownHeight \in Nat
BY HeaderAssumption DEF HeaderInv, KnownHeight, Lower

\* A locator that the peer knows is found: genesis is one.
LEMMA CommonHeightType ==
    ASSUME HeaderInv
    PROVE  CommonHeight \in Nat
<1> DEFINE known == {h \in 0 .. KnownHeight : h \in LocatorHeights}
<1>1. KnownHeight \in Nat
  BY KnownHeightType
<1>2. 0 \in LocatorHeights
  BY DEF LocatorHeights
<1>3. known \in SUBSET Nat /\ known # {} /\ \A h \in known : h <= KnownHeight
  BY <1>1, <1>2
<1>4. CommonHeight = CHOOSE h \in known : \A k \in known : k <= h
  BY DEF CommonHeight
<1> HIDE DEF known
<1>5. \E h \in known : \A k \in known : k <= h
  BY <1>1, <1>3, LargestElement, Zenon
<1> QED BY <1>3, <1>4, <1>5, Zenon

\* What RequestHeaders asks of the peers.
LEMMA SegmentRequestsType ==
    ASSUME HeaderInv, NEW reqs \in SUBSET hpending
    PROVE  /\ IsFiniteSet(SegmentRequests(reqs))
           /\ \A r \in SegmentRequests(reqs) : IsPending(r) /\ r.kind = "pihd"
<1> DEFINE pihd == PihdRequests(reqs)
           ends == {htip.h \div SegmentSize} \cup {r.idx + 1 : r \in pihd}
           next == CHOOSE i \in ends : \A j \in ends : j <= i
           ns == {m \in DOMAIN HPeers : HPeers[m] \in SegmentSources}
           slots == UNION {{<<n, k>> : k \in 1 .. Room(HPeers[n], reqs)} : n \in ns}
           Rank(s) == Cardinality({t \in slots : t[1] < s[1] \/ (t[1] = s[1] /\ t[2] < s[2])})
           Chosen(s) == /\ Rank(s) + Cardinality(pihd) < MaxInFlight
                        /\ (next + Rank(s)) * SegmentSize + 1 <= NetHeight
           chosen == {t \in slots : Chosen(t)}
           f == [s \in chosen |-> [peer |-> HPeers[s[1]], kind |-> "pihd", idx |-> next + Rank(s), late |-> FALSE]]
<1>1. SegmentRequests(reqs) = {f[s] : s \in chosen}
  BY Zenon DEF SegmentRequests
<1>2. IsFiniteSet(pihd) /\ \A r \in pihd : r.idx \in Nat
  <2>1. pihd \in SUBSET hpending
    BY DEF PihdRequests
  <2> QED BY <2>1, FS_Subset DEF HeaderInv, IsPending
<1>3. next \in Nat
  <2> DEFINE g == [r \in pihd |-> r.idx + 1]
  <2>1. IsFiniteSet({g[r] : r \in pihd})
    <3> HIDE DEF pihd
    <3>1. DOMAIN g = pihd
      OBVIOUS
    <3> HIDE DEF g
    <3> QED BY <1>2, <3>1, FiniteImage
  <2>2. {g[r] : r \in pihd} = {r.idx + 1 : r \in pihd}
    OBVIOUS
  <2>3. htip.h \div SegmentSize \in Nat
    BY HeaderAssumption DEF HeaderInv
  <2>4. ends \in SUBSET Nat /\ ends # {}
    <3> HIDE DEF pihd
    <3> QED BY <1>2, <2>3
  <2>5. IsFiniteSet(ends)
    <3>1. ends = {r.idx + 1 : r \in pihd} \cup {htip.h \div SegmentSize}
      OBVIOUS
    <3> HIDE DEF ends, pihd
    <3> QED BY <2>1, <2>2, <3>1, FS_AddElement
  <2> HIDE DEF ends
  <2>6. \E i \in ends : \A j \in ends : j <= i
    BY <2>4, <2>5, FiniteLargest
  <2> QED BY <2>4, <2>6, Zenon
<1>4. \A n \in ns : n \in 1 .. Len(HPeers) /\ HPeers[n] \in Range(HPeers)
  BY HeaderAssumption DEF Range
<1>5. \A n \in ns : Room(HPeers[n], reqs) \in Int /\ Room(HPeers[n], reqs) <= MaxPerPeer
  <2> SUFFICES ASSUME NEW n \in ns
               PROVE  Room(HPeers[n], reqs) \in Int /\ Room(HPeers[n], reqs) <= MaxPerPeer
    OBVIOUS
  <2> DEFINE own == {r \in pihd : r.peer = HPeers[n]}
  <2>1. own \in SUBSET pihd
    OBVIOUS
  <2>2. Cardinality(own) \in Nat
    <3> HIDE DEF own, pihd
    <3> QED BY <1>2, <2>1, FS_Subset, FS_CardinalityType
  <2>3. Room(HPeers[n], reqs) = MaxPerPeer - Cardinality(own)
    BY DEF Room
  <2> HIDE DEF own
  <2> QED BY <2>2, <2>3, HeaderAssumption
<1>6. IsFiniteSet(slots) /\ \A s \in slots : s[1] \in ns
  <2> DEFINE grid == (1 .. Len(HPeers)) \X (1 .. MaxPerPeer)
  <2>1. IsFiniteSet(1 .. Len(HPeers)) /\ IsFiniteSet(1 .. MaxPerPeer)
    BY HeaderAssumption, FS_Interval
  <2>2. IsFiniteSet(grid)
    BY <2>1, FS_Product, Zenon
  <2>3. \A s \in slots : s \in grid /\ s[1] \in ns
    <3> SUFFICES ASSUME NEW n \in ns, NEW k \in 1 .. Room(HPeers[n], reqs)
                 PROVE  <<n, k>> \in grid
      OBVIOUS
    <3> QED BY <1>4, <1>5, HeaderAssumption
  <2> HIDE DEF slots, grid
  <2> QED BY <2>2, <2>3, FS_Subset
<1>7. \A s \in slots : Rank(s) \in Nat
  <2> SUFFICES ASSUME NEW s \in slots PROVE Rank(s) \in Nat
    OBVIOUS
  <2> DEFINE below == {t \in slots : t[1] < s[1] \/ (t[1] = s[1] /\ t[2] < s[2])}
  <2>1. below \in SUBSET slots
    OBVIOUS
  <2> HIDE DEF slots, below
  <2>2. Cardinality(below) \in Nat
    BY <1>6, <2>1, FS_Subset, FS_CardinalityType
  <2> QED BY <2>2 DEF below
<1> HIDE DEF next, slots, Rank, Chosen, ns
<1>8. IsFiniteSet(chosen) /\ chosen \subseteq slots
  BY <1>6, FS_Subset
<1>9. \A s \in chosen : IsPending(f[s]) /\ f[s].kind = "pihd"
  BY <1>3, <1>4, <1>6, <1>7, <1>8 DEF IsPending
<1>10. DOMAIN f = chosen
  OBVIOUS
<1> HIDE DEF f, chosen
<1>11. IsFiniteSet({f[s] : s \in chosen})
  BY <1>8, <1>10, FiniteImage
<1> QED BY <1>1, <1>9, <1>11

LEMMA RequestHeadersType ==
    ASSUME HeaderInv, NEW reqs \in SUBSET hpending, RequestHeaders(reqs)
    PROVE  /\ IsFiniteSet(hpending') /\ \A r \in hpending' : IsPending(r)
           /\ \A r \in wire' : IsRequest(r)
<1> DEFINE new == SegmentRequests(reqs)
<1>1. IsFiniteSet(new) /\ \A r \in new : IsPending(r) /\ r.kind = "pihd"
  BY SegmentRequestsType
<1>2. IsFiniteSet(reqs) /\ \A r \in reqs : IsPending(r)
  BY FS_Subset DEF HeaderInv
<1>3. CASE /\ hpending' = reqs \cup new
           /\ wire' = wire \cup {[peer |-> r.peer, kind |-> "pihd", idx |-> r.idx] : r \in new}
  <2> HIDE DEF new
  <2>1. IsFiniteSet(reqs \cup new)
    BY <1>1, <1>2, FS_Union, Zenon
  <2>2. \A r \in new : IsRequest([peer |-> r.peer, kind |-> "pihd", idx |-> r.idx])
    BY <1>1 DEF IsRequest, IsPending
  <2> QED BY <1>1, <1>2, <1>3, <2>1, <2>2 DEF HeaderInv
<1>4. ASSUME NEW p \in Connected,
             hpending' = {[peer |-> p, kind |-> "legacy", idx |-> htip.h, late |-> FALSE]},
             wire' = wire \cup {[peer |-> p, kind |-> "legacy", idx |-> CommonHeight]}
      PROVE  /\ IsFiniteSet(hpending') /\ \A r \in hpending' : IsPending(r)
             /\ \A r \in wire' : IsRequest(r)
  <2>1. p \in Range(HPeers) /\ htip.h \in Nat /\ CommonHeight \in Nat
    BY CommonHeightType DEF HeaderInv, Connected
  <2>2. IsFiniteSet(hpending')
    BY <1>4, FS_Singleton, Zenon
  <2> QED BY <1>4, <2>1, <2>2 DEF HeaderInv, IsRequest, IsPending
<1> QED BY <1>3, <1>4 DEF RequestHeaders

-----------------------------------------------------------------------------
(* Header sync: the steps *)

LEMMA SyncBehindType ==
    ASSUME HeaderInv, SyncBehind
    PROVE  /\ IsFiniteSet(hpending') /\ \A r \in hpending' : IsPending(r)
           /\ \A r \in wire' : IsRequest(r)
           /\ batches' \subseteq batches
<1> DEFINE kept == {r \in hpending : ~IsGone(r) /\ ~IsComplete(r)}
           usable == IF SegmentSources = {} THEN kept \ PihdRequests(kept) ELSE kept
<1>1. {} \in SUBSET hpending /\ kept \ PihdRequests(kept) \in SUBSET hpending /\ usable \in SUBSET hpending
  OBVIOUS
<1>2. batches' \subseteq batches
  BY DEF SyncBehind
<1>3. \/ RequestHeaders({}) \/ RequestHeaders(kept \ PihdRequests(kept)) \/ RequestHeaders(usable)
      \/ hpending' = usable /\ UNCHANGED wire
  BY DEF SyncBehind
<1>4. CASE hpending' = usable /\ UNCHANGED wire
  <2> HIDE DEF kept, usable
  <2>1. IsFiniteSet(usable)
    BY <1>1, FS_Subset DEF HeaderInv
  <2> QED BY <1>1, <1>2, <1>4, <2>1 DEF HeaderInv
<1> HIDE DEF kept, usable
<1> QED BY <1>1, <1>2, <1>3, <1>4, RequestHeadersType

\* The headers of an answer that are not known are a batch, or there are none.
LEMMA TrimmedIsBatch ==
    ASSUME HeaderInv, NEW b \in [lo : Nat, hi : Nat, ok : BOOLEAN, peer : Range(HPeers), src : {"pihd", "legacy"}],
           1 <= b.lo, b.hi <= NetHeight, ~IsEmpty(Trimmed(b))
    PROVE  IsBatch(Trimmed(b))
<1> DEFINE k == Lower(KnownHeight, IF b.ok THEN b.hi ELSE b.hi - 1) + 1
           lo == Higher(b.lo, k)
<1>1. KnownHeight \in Nat /\ NetHeight \in Nat
  BY KnownHeightType, HeaderAssumption
<1>2. k \in Int
  BY <1>1 DEF Lower
<1>3. Trimmed(b) = [b EXCEPT !.lo = lo]
  BY DEF Trimmed
<1> HIDE DEF k
<1>4. lo \in Nat /\ 1 <= lo
  BY <1>2 DEF Higher
<1> HIDE DEF lo
<1>5. /\ Trimmed(b) \in [lo : Nat, hi : Nat, ok : BOOLEAN, peer : Range(HPeers), src : {"pihd", "legacy"}]
      /\ Trimmed(b).lo = lo /\ Trimmed(b).hi = b.hi
  BY <1>3, <1>4
<1>6. lo <= b.hi
  BY <1>4, <1>5 DEF IsEmpty
<1> HIDE DEF lo
<1> QED BY <1>4, <1>5, <1>6 DEF IsBatch

LEMMA AnswerType ==
    ASSUME HeaderInv, NEW r \in wire
    PROVE  /\ Answer(r) \in [lo : Nat, hi : Nat, ok : BOOLEAN, peer : Range(HPeers), src : {"pihd", "legacy"}]
           /\ 1 <= Answer(r).lo /\ Answer(r).hi <= NetHeight
<1> DEFINE lo == IF r.kind = "pihd" THEN r.idx * SegmentSize + 1 ELSE r.idx + 1
           n == IF r.kind = "pihd" THEN SegmentSize ELSE MaxHeaders
           hi == Lower(lo + n - 1, NetHeight)
<1>1. r.kind \in {"pihd", "legacy"} /\ r.idx \in Nat /\ r.peer \in Range(HPeers)
  BY DEF HeaderInv, IsRequest
<1>2. r.idx * SegmentSize \in Nat
  BY <1>1, HeaderAssumption
<1>3. lo \in Nat /\ 1 <= lo /\ n \in Nat
  BY <1>1, <1>2, HeaderAssumption
<1>4. Answer(r) = [lo |-> lo, hi |-> hi, ok |-> r.peer \notin BadPeers, peer |-> r.peer, src |-> r.kind]
  BY DEF Answer
<1> HIDE DEF lo, n
<1>5. hi \in Nat /\ hi <= NetHeight
  BY <1>3, HeaderAssumption DEF Lower
<1> HIDE DEF hi
<1> QED BY <1>1, <1>3, <1>4, <1>5

\* A step that adds no batch and leaves the chain alone.
LEMMA OtherHeaderStep ==
    ASSUME HeaderInv, UNCHANGED <<htip, merging>>, batches' \subseteq batches,
           IsFiniteSet(hpending'), \A r \in hpending' : IsPending(r),
           \A r \in wire' : IsRequest(r)
    PROVE  HeaderInv'
BY DEF HeaderInv, OnCandidate, KnownHeight

LEMMA HeaderInitOK == HeaderInit => HeaderInv
<1> SUFFICES ASSUME HeaderInit PROVE HeaderInv
  OBVIOUS
<1>1. htip \in [b : {"m", "f"}, h : Nat]
  BY HeaderAssumption DEF HeaderInit
<1> QED BY <1>1, FS_EmptySet DEF HeaderInit, HeaderInv

LEMMA HeaderNextOK == HeaderInv /\ [HeaderNext]_headerVars => HeaderInv'
<1> SUFFICES ASSUME HeaderInv, [HeaderNext]_headerVars PROVE HeaderInv'
  OBVIOUS
<1>1. CASE UNCHANGED headerVars
  BY <1>1, OtherHeaderStep DEF headerVars, HeaderInv
<1>2. CASE SyncHeaders
  <2>1. UNCHANGED <<htip, merging>>
    BY <1>2 DEF SyncHeaders
  <2>2. CASE SyncBehind
    BY <2>1, <2>2, SyncBehindType, OtherHeaderStep
  <2>3. CASE hpending' = {} /\ batches' = {} /\ UNCHANGED wire
    BY <2>1, <2>3, FS_EmptySet, OtherHeaderStep DEF HeaderInv
  <2> QED BY <1>2, <2>2, <2>3 DEF SyncHeaders
<1>3. CASE HeaderTime
  <2> DEFINE f == [r \in hpending |-> [r EXCEPT !.late = TRUE]]
  <2>1. hpending' = {f[r] : r \in hpending} /\ UNCHANGED <<htip, merging, wire, batches>>
    BY <1>3 DEF HeaderTime
  <2>2. \A r \in hpending : IsPending(f[r])
    <3> SUFFICES ASSUME NEW r \in hpending PROVE IsPending([r EXCEPT !.late = TRUE])
      OBVIOUS
    <3>1. r \in [peer : Range(HPeers), kind : {"pihd", "legacy"}, idx : Nat, late : BOOLEAN]
      BY DEF HeaderInv, IsPending
    <3> QED BY <3>1, Zenon DEF IsPending
  <2>3. DOMAIN f = hpending
    OBVIOUS
  <2> HIDE DEF f
  <2>4. IsFiniteSet(hpending')
    BY <2>1, <2>3, FiniteImage DEF HeaderInv
  <2> QED BY <2>1, <2>2, <2>4, OtherHeaderStep DEF HeaderInv
<1>4. ASSUME NEW r \in wire, AddHeaders(r) PROVE HeaderInv'
  <2> DEFINE b == Trimmed(Answer(r))
  <2>1. UNCHANGED <<htip, hpending, merging>> /\ wire' \subseteq wire
    BY <1>4 DEF AddHeaders
  <2>2. CASE UNCHANGED batches
    BY <2>1, <2>2, OtherHeaderStep DEF HeaderInv
  <2>3. ASSUME ~IsEmpty(b), NEW cached \in MakeRoom(batches), batches' = cached \cup {b} PROVE HeaderInv'
    <3>1. IsBatch(b)
      BY <2>3, AnswerType, TrimmedIsBatch
    <3>2. cached \subseteq batches
      BY <2>3 DEF MakeRoom
    <3> HIDE DEF b
    <3> QED BY <2>1, <2>3, <3>1, <3>2 DEF HeaderInv, OnCandidate, KnownHeight
  <2> QED BY <1>4, <2>2, <2>3 DEF AddHeaders
<1>5. ASSUME NEW r \in wire, NoAnswer(r) PROVE HeaderInv'
  BY <1>5, OtherHeaderStep DEF NoAnswer, HeaderInv
<1>6. CASE ScanBatches
  <2>1. UNCHANGED <<htip, hpending, wire>>
    BY <1>6 DEF ScanBatches
  <2>2. CASE UNCHANGED <<batches, merging>>
    BY <2>1, <2>2, OtherHeaderStep DEF HeaderInv
  <2>3. ASSUME NEW b \in batches, IsEmpty(Trimmed(b)) \/ IsReady(Trimmed(b)), batches' = batches \ {b},
               merging' = IF IsEmpty(Trimmed(b)) THEN NoBatch ELSE Trimmed(b)
        PROVE  HeaderInv'
    <3>1. CASE IsEmpty(Trimmed(b))
      BY <2>1, <2>3, <3>1 DEF HeaderInv
    <3>2. CASE ~IsEmpty(Trimmed(b))
      <4>1. IsBatch(b) /\ IsBatch(Trimmed(b))
        BY <3>2, TrimmedIsBatch DEF HeaderInv, IsBatch
      <4>2. OnCandidate(Trimmed(b).lo - 1)
        BY <2>3, <3>2, <4>1 DEF IsReady, IsBatch
      <4>3. merging' = Trimmed(b)
        BY <2>3, <3>2
      <4>4. OnCandidate(merging.lo - 1)'
        BY <2>1, <4>2, <4>3 DEF OnCandidate, KnownHeight
      <4> QED BY <2>1, <2>3, <4>1, <4>3, <4>4 DEF HeaderInv
    <3> QED BY <3>1, <3>2
  <2> QED BY <1>6, <2>2, <2>3, Zenon DEF ScanBatches, First
<1>7. CASE MergeBatches
  <2>1. PICK b \in batches : /\ Links(b) /\ batches' = batches \ {b}
                             /\ merging' = [merging EXCEPT !.hi = b.hi, !.ok = b.ok]
    BY <1>7, Zenon DEF MergeBatches, First
  <2>2. IsBatch(b) /\ IsBatch(merging) /\ OnCandidate(merging.lo - 1) /\ UNCHANGED <<htip, hpending, wire>>
    BY <1>7 DEF MergeBatches, HeaderInv
  <2>3. /\ merging' \in [lo : Nat, hi : Nat, ok : BOOLEAN, peer : Range(HPeers), src : {"pihd", "legacy"}]
        /\ merging'.lo = merging.lo /\ merging'.hi = b.hi
    BY <2>1, <2>2, Zenon DEF IsBatch
  <2>4. IsBatch(merging')
    BY <2>1, <2>2, <2>3, HeaderAssumption DEF IsBatch, Links
  <2>5. OnCandidate(merging.lo - 1)'
    BY <2>2, <2>3 DEF OnCandidate, KnownHeight
  <2> QED BY <2>1, <2>2, <2>4, <2>5, SMTT(30) DEF HeaderInv
<1>8. CASE ProcessMerged
  <2>1. merging' = NoBatch /\ merging # NoBatch /\ UNCHANGED <<hpending, wire, batches>>
    BY <1>8 DEF ProcessMerged
  <2>2. htip' \in {htip, [b |-> "m", h |-> merging.hi]}
    BY <1>8 DEF ProcessMerged
  <2>3. htip' \in [b : {"m", "f"}, h : Nat]
    BY <2>1, <2>2 DEF HeaderInv, IsBatch
  <2> QED BY <2>1, <2>3 DEF HeaderInv
<1> QED BY <1>1, <1>2, <1>3, <1>4, <1>5, <1>6, <1>7, <1>8 DEF HeaderNext

\* Whatever peers answer, in whatever order, and on whichever branch the node started:
\* the headers HeaderBatchCache hands to the chain continue the candidate chain.
THEOREM HeadersContinueChain == HeaderSpec => []MergedContinuesChain
<1>1. HeaderInv => MergedContinuesChain
  BY DEF HeaderInv, MergedContinuesChain, IsBatch
<1> QED BY <1>1, HeaderInitOK, HeaderNextOK, PTL DEF HeaderSpec

-----------------------------------------------------------------------------
(* Block sync *)

IsAsked(r) == DOMAIN r = {"peer", "late", "retried"}

BlockInv == bheight \in Nat /\ \A h \in DOMAIN requested : IsAsked(requested[h])

\* Awaited is the set of the heights that are awaited.
LEMMA AwaitedRequests ==
    \A k : k \in Awaited <=> IsAwaited(k)
BY DEF Awaited, IsAwaited

\* What a round of the sync thread leaves of the requests and adds to them.
LEMMA RequestBlocksResult ==
    ASSUME NEW retry, RequestBlocks(retry), NEW h \in DOMAIN requested'
    PROVE  \/ h \in Considered(retry) /\ Wanted(h, retry)
              /\ \E p : requested'[h] = [peer |-> p, late |-> FALSE, retried |-> FALSE]
           \/ IsAwaited(h)
              /\ requested'[h] \in {requested[h], [requested[h] EXCEPT !.late = FALSE, !.retried = TRUE]}
<1> DEFINE seen == Considered(retry)
           again == {k \in seen : /\ ~IsProcessing(k) /\ IsOverdue(k, retry)
                                 /\ Retries(k) /\ ~IsGivenUp(k, retry)}
           new == {k \in seen : Wanted(k, retry)}
           given == {requested[k].peer : k \in {l \in new : IsAwaited(l)}}
           Rank(k) == Cardinality({l \in new : l < k})
           PeerFor(start, k) == MostWorkPeers[((start - 1 + (Rank(k) \div Window)) % Len(MostWorkPeers)) + 1]
           sent(start) == {k \in new : PeerFor(start, k) \notin given}
           New(start) == [k \in Awaited \cup sent(start) |->
                    IF k \in sent(start) THEN [peer |-> PeerFor(start, k), late |-> FALSE, retried |-> FALSE]
                    ELSE IF k \in again THEN [requested[k] EXCEPT !.late = FALSE, !.retried = TRUE]
                    ELSE requested[k]]
<1>1. PICK start \in DOMAIN MostWorkPeers : requested' = New(start)
  BY Zenon DEF RequestBlocks
<1>2. sent(start) \subseteq new
  OBVIOUS
<1>3. new \subseteq Considered(retry) /\ \A k \in new : Wanted(k, retry)
  BY SMTT(30)
<1> HIDE DEF again, new, PeerFor, sent
<1>4. CASE h \in sent(start)
  BY <1>1, <1>2, <1>3, <1>4, ZenonT(30)
<1>5. CASE h \notin sent(start)
  BY <1>1, <1>5, AwaitedRequests
<1> QED BY <1>4, <1>5, SMTT(30)

LEMMA BlockNextOK == BlockInv /\ [BlockNext]_blockVars => BlockInv'
<1> SUFFICES ASSUME BlockInv, [BlockNext]_blockVars PROVE BlockInv'
  OBVIOUS
<1>1. bheight' \in Nat
  BY DEF BlockInv, BlockNext, blockVars, SyncBlocks, BlockTime, ReceiveBlock, GoOffline, ProcessNewBlock
<1>2. CASE SyncBlocks
  <2>1. \A k : IsAwaited(k) => IsAsked(requested[k])
    BY DEF BlockInv, IsAwaited
  <2>2. CASE requested' = Restrict(requested, Awaited)
    BY <1>1, <2>1, <2>2, AwaitedRequests, SMTT(30) DEF BlockInv, Restrict
  <2>3. CASE RequestBlocks(bheight = lastHeight)
    <3> SUFFICES ASSUME NEW h \in DOMAIN requested' PROVE IsAsked(requested'[h])
      BY <1>1 DEF BlockInv
    <3>1. CASE IsAwaited(h)
               /\ requested'[h] \in {requested[h], [requested[h] EXCEPT !.late = FALSE, !.retried = TRUE]}
      BY <2>1, <3>1, Zenon DEF IsAsked
    <3>2. CASE \E p : requested'[h] = [peer |-> p, late |-> FALSE, retried |-> FALSE]
      BY <3>2 DEF IsAsked
    <3> QED BY <2>3, <3>1, <3>2, RequestBlocksResult, Zenon
  <2> QED BY <1>2, <2>2, <2>3 DEF SyncBlocks
<1>3. CASE BlockTime
  BY <1>1, <1>3 DEF BlockTime, BlockInv, IsAsked
<1>4. CASE UNCHANGED requested
  BY <1>1, <1>4 DEF BlockInv
<1> QED BY <1>2, <1>3, <1>4 DEF BlockNext, blockVars, ReceiveBlock, GoOffline, ProcessNewBlock

\* A request goes to another peer only where a peer is given up.
LEMMA OtherPeer ==
    ASSUME BlockInv, SyncBlocks, NEW h \in DOMAIN requested \cap DOMAIN requested',
           requested'[h].peer # requested[h].peer
    PROVE  \E k \in DOMAIN requested :
               /\ k <= h /\ requested[k].peer = requested[h].peer
               /\ requested[k].late \/ requested[k].peer \in slow
               /\ requested[k].retried \/ requested[k].peer \notin online \ bbanned
<1>1. \A k : IsAwaited(k) => k \in DOMAIN requested
  BY DEF IsAwaited
<1> DEFINE retry == bheight = lastHeight
<1>2. RequestBlocks(retry)
  BY AwaitedRequests DEF SyncBlocks, Restrict
<1> HIDE DEF retry
<1>3. CASE IsAwaited(h)
           /\ requested'[h] \in {requested[h], [requested[h] EXCEPT !.late = FALSE, !.retried = TRUE]}
  <2>1. IsAsked(requested[h])
    BY <1>1, <1>3 DEF BlockInv
  <2>2. requested'[h].peer = requested[h].peer
    BY <1>3, <2>1, Zenon DEF IsAsked
  <2> QED BY <1>1, <1>3, <2>2
<1>4. CASE h \in Considered(retry) /\ Wanted(h, retry)
  <2>1. h \in Int /\ h > bheight
    BY <1>4 DEF Considered, BlocksNeeded, BlockInv
  <2>2. IsAwaited(h)
    BY <2>1 DEF IsAwaited
  <2>3. PICK k \in bheight + 1 .. h : GivesUp(k, retry) /\ requested[k].peer = requested[h].peer
    BY <1>4, <2>2 DEF Wanted, IsGivenUp
  <2>4. k <= h
    BY <2>1, <2>3 DEF BlockInv
  <2>5. IsAwaited(k) /\ (requested[k].late \/ requested[k].peer \in slow) /\ ~Retries(k)
    BY <2>3 DEF GivesUp, IsOverdue
  <2> QED BY <1>1, <2>2, <2>3, <2>4, <2>5 DEF Retries
<1> QED BY <1>2, <1>3, <1>4, RequestBlocksResult, Zenon

\* For any number of peers and windows of any size: BlockSyncer asks another peer for a
\* block only when it has given the first one up.
THEOREM BlocksAreAskedOnce == BlockSpec => NoDoubleRequest
<1> DEFINE OtherIsGivenUp ==
      \A h \in DOMAIN requested \cap DOMAIN requested' :
           requested'[h].peer # requested[h].peer =>
               \E k \in DOMAIN requested :
                   /\ k <= h /\ requested[k].peer = requested[h].peer
                   /\ requested[k].late \/ requested[k].peer \in slow
                   /\ requested[k].retried \/ requested[k].peer \notin online \ bbanned
<1>1. BlockInit => BlockInv
  BY SMTT(30) DEF BlockInit, BlockInv
<1>2. BlockInv /\ [BlockNext]_blockVars => [OtherIsGivenUp]_blockVars
  <2> SUFFICES ASSUME BlockInv, BlockNext PROVE OtherIsGivenUp
    OBVIOUS
  <2>1. CASE SyncBlocks
    BY <2>1, OtherPeer
  <2>2. CASE BlockTime
    <3>1. \A h \in DOMAIN requested : requested'[h].peer = requested[h].peer
      BY <2>2 DEF BlockTime, BlockInv, IsAsked
    <3> QED BY <3>1
  <2>3. CASE UNCHANGED requested
    BY <2>3
  <2> QED BY <2>1, <2>2, <2>3 DEF BlockNext, ReceiveBlock, GoOffline, ProcessNewBlock
<1> QED BY <1>1, <1>2, BlockNextOK, PTL DEF BlockSpec, NoDoubleRequest
=============================================================================
