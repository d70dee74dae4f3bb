----------------------------- MODULE HeaderSync -----------------------------
(***************************************************************************)
(* Downloading headers: HeaderSyncer asks several peers for header         *)
(* segments (PIHD) or the peer with most work for headers after a locator, *)
(* and HeaderBatchCache collects the answers, which come in any order,     *)
(* merges neighbours and hands them to the chain.                          *)
(*                                                                         *)
(* The network is on branch "m".  The node may start on a branch "f" that  *)
(* leaves "m" after height ForkHeight.  Work is height.                    *)
(***************************************************************************)
EXTENDS Naturals, Sequences, FiniteSets, Functions

CONSTANTS HPeers,          \* sequence of connected peers, in connection order
          SegmentPeers,    \* alternatives for those with the capability PIHD_HIST
          BadPeers,        \* those whose last header of a batch is invalid
          NetHeight, StartTips, ForkHeight,
          SegmentSize,     \* 2 ^ PIHD_HEADER_SEGMENT_HEIGHT
          Lag,             \* a node this many headers behind synchronizes
          MaxInFlight, MaxPerPeer, MaxCachedBatches,
          MaxMerged, MaxHeaders, MaxLocators

ASSUME HeaderAssumption ==
    /\ HPeers \in Seq(Range(HPeers))
    /\ NetHeight \in Nat /\ ForkHeight \in Nat /\ MaxHeaders \in Nat /\ MaxPerPeer \in Nat
    /\ SegmentSize \in Nat \ {0}
    /\ StartTips \subseteq [b : {"m", "f"}, h : Nat]

VARIABLES htip,       \* tip of the candidate chain: branch and height
          hpending,   \* m_pendingRequests
          progress,   \* m_lastProgressHeight, and whether 30 seconds passed without any
          wire,       \* requests on their way to a peer
          batches,    \* m_batches
          merging,    \* the batch that ProcessReadyBatches took out, or NoBatch
          scanning,   \* m_mutex is held by ProcessReadyBatches
          startup,    \* !headers_synced
          capable,    \* peers that serve segments
          hbanned

headerVars == <<htip, hpending, progress, wire, batches, merging, scanning, startup, capable, hbanned>>

NoBatch == [lo |-> 0, hi |-> 0, ok |-> TRUE, peer |-> "none", src |-> "none"]

HeaderInit ==
    /\ htip \in StartTips /\ hpending = {} /\ progress = [height |-> 0, quiet |-> FALSE]
    /\ wire = {} /\ batches = {} /\ merging = NoBatch /\ scanning = FALSE
    /\ startup = TRUE /\ capable \in SegmentPeers /\ hbanned = {}

-----------------------------------------------------------------------------
(* The candidate chain against the headers of the network *)

Lower(a, b) == IF a < b THEN a ELSE b
Higher(a, b) == IF a < b THEN b ELSE a

\* GetBlockHeaderByHeight(h, CANDIDATE) is the header of the network up to this height.
KnownHeight == IF htip.b = "m" THEN htip.h ELSE Lower(htip.h, ForkHeight)
OnCandidate(h) == h <= KnownHeight

\* TrimAlreadyKnownPrefix.  An invalid header is never on the chain.
Trimmed(b) ==
    [b EXCEPT !.lo = Higher(b.lo, Lower(KnownHeight, IF b.ok THEN b.hi ELSE b.hi - 1) + 1)]

IsEmpty(b) == b.lo > b.hi

\* Mutant: batches are handed on in the order of their heights.
IsReadyAlways(b) == TRUE

IsReady(b) == b.lo = 0 \/ OnCandidate(b.lo - 1)

-----------------------------------------------------------------------------
(* Locators, used when no peer serves segments *)

\* GetLocatorHeights: back from the tip in growing steps.
LocatorHeights ==
    LET back[n \in 1 .. MaxLocators - 1] ==
            IF n = 1 THEN htip.h
            ELSE IF back[n - 1] > 2 ^ (n - 1) THEN back[n - 1] - 2 ^ (n - 1) ELSE 0
    IN  {back[n] : n \in 1 .. MaxLocators - 1} \cup {0}

\* FindCommonHeader: the first locator that the peer knows.
CommonHeight ==
    LET known == {h \in 0 .. KnownHeight : h \in LocatorHeights}
    IN  CHOOSE h \in known : \A k \in known : k <= h

-----------------------------------------------------------------------------
(* HeaderSyncer *)

Connected == Range(HPeers) \ hbanned
SegmentSources == Connected \cap capable
PihdRequests(reqs) == {r \in reqs : r.kind = "pihd"}
IsComplete(r) == IF r.kind = "pihd" THEN htip.h >= (r.idx + 1) * SegmentSize ELSE htip.h > r.idx

\* How many more segments may be asked of a peer.
Room(p, reqs) == MaxPerPeer - Cardinality({r \in PihdRequests(reqs) : r.peer = p})

\* RequestHeaders, the loop over the peers: the next segments in turn, to each peer as
\* many as it has room for.
SegmentRequests(reqs) ==
    LET ends == {htip.h \div SegmentSize} \cup {r.idx + 1 : r \in PihdRequests(reqs)}
        next == CHOOSE i \in ends : \A j \in ends : j <= i
        slots == UNION {{<<n, k>> : k \in 1 .. Room(HPeers[n], reqs)} :
                            n \in {m \in DOMAIN HPeers : HPeers[m] \in SegmentSources}}
        Rank(s) == Cardinality({t \in slots : t[1] < s[1] \/ (t[1] = s[1] /\ t[2] < s[2])})
        Chosen(s) == /\ Rank(s) + Cardinality(PihdRequests(reqs)) < MaxInFlight
                     /\ (next + Rank(s)) * SegmentSize + 1 <= NetHeight
    IN  {[peer |-> HPeers[s[1]], kind |-> "pihd", idx |-> next + Rank(s), late |-> FALSE] :
             s \in {t \in slots : Chosen(t)}}

\* RequestHeaders: segments, or headers after a locator if nothing is on its way.
RequestHeaders(reqs) ==
    LET new == SegmentRequests(reqs) IN
    IF new # {} \/ reqs # {}
      THEN /\ hpending' = reqs \cup new
           /\ wire' = wire \cup {[peer |-> r.peer, kind |-> "pihd", idx |-> r.idx] : r \in new}
      ELSE \E p \in Connected :
               /\ hpending' = {[peer |-> p, kind |-> "legacy", idx |-> htip.h, late |-> FALSE]}
               /\ wire' = wire \cup {[peer |-> p, kind |-> "legacy", idx |-> CommonHeight]}

\* No header for 30 seconds while segments are awaited.
IsStalled(reqs, quiet) == PihdRequests(reqs) # {} /\ quiet

\* Mutant: requests do not time out.
IsGoneNever(r) == r.peer \notin Connected

\* The peer is gone or had ten seconds.
IsGone(r) == r.peer \notin Connected \/ r.late

\* SyncHeaders while the node is behind: IsHeaderSyncDue drops what is done or late and
\* decides whether to ask again.
SyncBehind ==
    LET kept == {r \in hpending : ~IsGone(r) /\ ~IsComplete(r)}
        usable == IF SegmentSources = {} THEN kept \ PihdRequests(kept) ELSE kept
        legacy == usable \ PihdRequests(usable)
        quiet == progress.quiet /\ htip.h = progress.height
        due == IF SegmentSources = {} THEN legacy = {} \/ usable # hpending
               ELSE legacy = {} /\ (kept # hpending \/ Cardinality(kept) < MaxInFlight)
    IN  IF hpending = {}
          THEN RequestHeaders({}) /\ UNCHANGED <<progress, batches>>
        ELSE IF IsStalled(kept, quiet)
          THEN /\ ~scanning
               /\ RequestHeaders(kept \ PihdRequests(kept))
               /\ batches' = {}
               /\ progress' = [height |-> htip.h, quiet |-> FALSE]
        ELSE /\ IF due THEN RequestHeaders(usable) ELSE hpending' = usable /\ UNCHANGED wire
             /\ progress' = [height |-> htip.h, quiet |-> quiet]
             /\ UNCHANGED batches

\* One round of the sync thread.
SyncHeaders ==
    /\ Connected # {}
    /\ IF NetHeight >= htip.h + Lag \/ (startup /\ NetHeight > htip.h)
         THEN SyncBehind /\ UNCHANGED startup
         ELSE /\ ~scanning
              /\ hpending' = {} /\ batches' = {} /\ startup' = FALSE
              /\ UNCHANGED <<progress, wire>>
    /\ UNCHANGED <<htip, merging, scanning, capable, hbanned>>

\* Ten seconds pass, or thirty.
HeaderTime ==
    /\ hpending # {}
    /\ hpending' = {[r EXCEPT !.late = TRUE] : r \in hpending}
    /\ progress' \in {progress, [progress EXCEPT !.quiet = TRUE]}
    /\ UNCHANGED <<htip, wire, batches, merging, scanning, startup, capable, hbanned>>

-----------------------------------------------------------------------------
(* HeaderBatchCache *)

\* What a peer on the chain of the network answers: GetHeaderSegment and GetHeaders.
Answer(r) ==
    LET lo == IF r.kind = "pihd" THEN r.idx * SegmentSize + 1 ELSE r.idx + 1
        n == IF r.kind = "pihd" THEN SegmentSize ELSE MaxHeaders
    IN  [lo |-> lo, hi |-> Lower(lo + n - 1, NetHeight), ok |-> r.peer \notin BadPeers,
         peer |-> r.peer, src |-> r.kind]

\* A cached batch has the same first or the same last header.
IsDuplicate(b) ==
    \E c \in batches :
        \/ c.lo = b.lo /\ (c.lo < c.hi \/ c.ok) /\ (b.lo < b.hi \/ b.ok)
        \/ c.hi = b.hi /\ c.ok = b.ok

\* m_batches is sorted between calls: the batch that starts lowest is dropped.
MakeRoom(cached) ==
    IF Cardinality(cached) < MaxCachedBatches THEN {cached}
    ELSE {cached \ {c} : c \in {d \in cached : \A e \in cached : d.lo <= e.lo}}

\* AddHeaders, up to ProcessReadyBatches.
AddHeaders(r) ==
    LET b == Trimmed(Answer(r)) IN
    /\ ~scanning /\ r.peer \in Connected
    /\ wire' = wire \ {r}
    /\ IF IsEmpty(b) \/ IsDuplicate(b) THEN UNCHANGED <<batches, scanning>>
       ELSE \E cached \in MakeRoom(batches) : batches' = cached \cup {b} /\ scanning' = TRUE
    /\ UNCHANGED <<htip, hpending, progress, merging, startup, capable, hbanned>>

\* The answer is lost with the connection, or the peer does not answer.
NoAnswer(r) ==
    /\ wire' = wire \ {r}
    /\ UNCHANGED <<htip, hpending, progress, batches, merging, scanning, startup, capable, hbanned>>

First(bs) == {b \in bs : \A c \in bs : b.lo <= c.lo}

\* One round of ProcessReadyBatches: drop a batch that is known, take one that is ready,
\* or stop.
ScanBatches ==
    LET usable == {b \in batches : IsEmpty(Trimmed(b)) \/ IsReady(Trimmed(b))} IN
    /\ scanning /\ merging = NoBatch
    /\ \/ /\ usable = {} /\ scanning' = FALSE
          /\ UNCHANGED <<batches, merging>>
       \/ \E b \in First(usable) :
              /\ batches' = batches \ {b}
              /\ merging' = IF IsEmpty(Trimmed(b)) THEN NoBatch ELSE Trimmed(b)
              /\ UNCHANGED scanning
    /\ UNCHANGED <<htip, hpending, progress, wire, startup, capable, hbanned>>

\* TryAppendContiguousReadyBatches: a neighbour that fits.  Nothing follows an invalid
\* header.
Links(b) ==
    /\ b.src = merging.src /\ (b.hi - b.lo) + 1 + (merging.hi - merging.lo) + 1 <= MaxMerged
    /\ b.lo = merging.hi + 1 /\ merging.ok

MergeBatches ==
    /\ merging # NoBatch
    /\ \E b \in First({c \in batches : Links(c)}) :
           /\ batches' = batches \ {b}
           /\ merging' = [merging EXCEPT !.hi = b.hi, !.ok = b.ok]
    /\ UNCHANGED <<htip, hpending, progress, wire, scanning, startup, capable, hbanned>>

\* Hand the merged headers to the chain, which takes all of them or none; for invalid
\* ones the peer of the first batch is banned.
ProcessMerged ==
    /\ merging # NoBatch /\ ~\E b \in batches : Links(b)
    /\ IF merging.ok
         THEN /\ htip' = IF merging.hi > htip.h THEN [b |-> "m", h |-> merging.hi] ELSE htip
              /\ UNCHANGED hbanned
         ELSE hbanned' = hbanned \cup {merging.peer} /\ UNCHANGED htip
    /\ merging' = NoBatch
    /\ UNCHANGED <<hpending, progress, wire, batches, scanning, startup, capable>>

-----------------------------------------------------------------------------
HeaderNext ==
    \/ SyncHeaders \/ HeaderTime
    \/ \E r \in wire : AddHeaders(r) \/ NoAnswer(r)
    \/ ScanBatches \/ MergeBatches \/ ProcessMerged

\* A peer answers a request whose headers continue the chain.
AnswerNeeded ==
    \E r \in wire : /\ IsReady(Trimmed(Answer(r))) /\ ~IsEmpty(Trimmed(Answer(r)))
                    /\ AddHeaders(r)

\* The threads run, time passes, and what the node needs arrives if it asks again and
\* again.
HeaderFairness ==
    /\ WF_headerVars(SyncHeaders) /\ WF_headerVars(HeaderTime)
    /\ WF_headerVars(ScanBatches) /\ WF_headerVars(MergeBatches) /\ WF_headerVars(ProcessMerged)
    /\ SF_headerVars(AnswerNeeded)

HeaderSpec == HeaderInit /\ [][HeaderNext]_headerVars /\ HeaderFairness

-----------------------------------------------------------------------------
(* Properties *)

\* What is handed to the chain continues the candidate chain, whichever branch the node
\* was on and however the batches arrived.
MergedContinuesChain ==
    merging # NoBatch => /\ OnCandidate(merging.lo - 1)
                         /\ merging.lo <= merging.hi /\ merging.hi <= NetHeight

\* The node reaches the height of the network, or it has banned a peer that only sent
\* valid headers, which were merged with those of another peer.
HeadersCatchUp == <>(htip = [b |-> "m", h |-> NetHeight] \/ hbanned \ BadPeers # {})
=============================================================================
