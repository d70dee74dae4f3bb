-------------------------------- MODULE Pibd --------------------------------
(***************************************************************************)
(* Downloading the transaction hash set: the receiving half of             *)
(* TxHashSetPipe with the desegmenter, the request tracker, the manager of *)
(* the set on disk, the validation job and the thread of a zip download.   *)
(*                                                                         *)
(* A set is [of, size, kind]: the header it belongs to, how much of it is  *)
(* there, and whether it came from segments, from a zip file or grew with  *)
(* blocks since.  A segment is [type, idx], and the size of an MMR is the  *)
(* number of its segments that were applied.  m_pibdMutex serializes the   *)
(* sync thread and the connection threads; the validation job and the zip  *)
(* thread take it only where they say so.                                  *)
(***************************************************************************)
EXTENDS Integers, Sequences, FiniteSets, FiniteSetsExt

CONSTANTS Headers,          \* archive headers
          Peers,
          NumSegs,          \* NumSegs[h][t]: segments of type t for header h
          RequestCount,     \* SEGMENT_REQUEST_COUNT
          RetryCount,       \* BLOCKING_SEGMENT_RETRY_COUNT
          HedgeCount,       \* BLOCKING_SEGMENT_HEDGE_COUNT
          MaxCached,        \* MAX_CACHED_SEGMENTS
          ApplyBatch,       \* SEGMENT_APPLY_BATCH_SIZE
          CommitThreshold,  \* PIBD_COMMIT_SEGMENT_THRESHOLD
          PeerOrders,       \* sequences of peers that StateSyncer may pass
          ZipHeaders,       \* headers for which a zip file may arrive
          None

\* The order in which the desegmenter goes through the types.
TypeIndex == [bitmap |-> 0, output |-> 0, rangeproof |-> 1, kernel |-> 2]
DataTypes == {"output", "rangeproof", "kernel"}
Types == {"bitmap", "output", "rangeproof", "kernel"}

ASSUME PibdAssumption ==
    /\ None \notin Headers \cup {"SUCCESS", "INVALID", "THREW"}
    /\ ZipHeaders \subseteq Headers
    /\ \A h \in Headers, t \in Types : NumSegs[h][t] \in Nat \ {0}
    /\ RequestCount \in Nat \ {0} /\ ApplyBatch \in Nat \ {0}
    /\ RetryCount \in Nat /\ HedgeCount \in Nat /\ RetryCount <= HedgeCount

VARIABLES block,       \* m_pibdBlockHash and m_pDesegmenter's header, or None
          applied,     \* applied[t]: m_applied...MMRSize, in segments
          cached,      \* cached[t]: indices of segments that wait to be applied
          complete,    \* m_allSegmentsComplete
          offset,      \* m_nextDesiredTypeOffset
          pending,     \* m_segmentRequests
          nextPeer,    \* m_pibdNextPeerIndex
          uncommitted, \* m_uncommittedPIBDSegments
          processing,  \* m_processing
          open,        \* the TxHashSet in memory, or None
          disk,        \* the txhashset directory
          candidate,   \* archive headers on the candidate chain
          confirmed,   \* header whose set became the confirmed state
          status,      \* SyncStatus
          errored,     \* SyncStatus' PIBD error flag
          syncPc,      \* where the sync thread is while it holds m_pibdMutex
          job,         \* PIBDValidationJob and its thread
          zip,         \* the thread of a zip download
          overlap      \* history: a zip was processed while there was a session

deseg == <<block, applied, cached, complete, offset>>
requests == <<pending, nextPeer>>
store == <<open, disk>>
sync == <<status, errored>>
pibdVars == <<block, applied, cached, complete, offset, pending, nextPeer, uncommitted,
              processing, open, disk, candidate, confirmed, status, errored, syncPc,
              job, zip, overlap>>

Zero == [t \in DataTypes |-> 0]
Target(h) == [t \in DataTypes |-> NumSegs[h][t]]
Seg(t, i) == [type |-> t, idx |-> i]
Segments(h) == UNION {{Seg(t, i) : i \in 0..(NumSegs[h][t] - 1)} : t \in Types}

\* result is history: how the validation of this session ended.
IdleJob == [state |-> "IDLE", pc |-> "none", block |-> None, set |-> None, result |-> None]
NoZip == [pc |-> "none", block |-> None, good |-> FALSE]

PibdInit ==
    /\ block = None /\ applied = [t \in Types |-> 0] /\ cached = [t \in Types |-> {}]
    /\ complete = FALSE /\ offset = 0
    /\ pending = <<>> /\ nextPeer = 0 /\ uncommitted = 0 /\ processing = FALSE
    /\ open = None /\ disk = [meta |-> None, of |-> None, size |-> Zero, kind |-> "pibd"]
    /\ candidate = Headers /\ confirmed = None
    /\ status = "HEADERS" /\ errored = FALSE
    /\ syncPc = "idle" /\ job = IdleJob /\ zip = NoZip /\ overlap = FALSE

-----------------------------------------------------------------------------
(* TxHashSetDesegmenter *)

BitmapComplete == applied["bitmap"] = NumSegs[block]["bitmap"]
IsApplied(s) == s.idx < applied[s.type]

\* Segments of type t that have not arrived, and how many of them come before i.
Missing(t) == {i \in applied[t]..(NumSegs[block][t] - 1) : i \notin cached[t]}
Rank(t, i) == Cardinality({j \in Missing(t) : j < i})

\* Mutant: segments in the cache are asked for again.
AppendDesiredAgain(t, max) ==
    {Seg(t, i) : i \in {j \in applied[t]..(NumSegs[block][t] - 1) :
                           j - applied[t] < IF Cardinality(cached[t]) >= MaxCached THEN 1 ELSE max}}

\* The first segments of one type, without those in the cache; one only when the
\* cache is full.
AppendDesiredSegments(t, max) ==
    {Seg(t, i) : i \in {j \in Missing(t) :
                           Rank(t, j) < IF Cardinality(cached[t]) >= MaxCached THEN 1 ELSE max}}

\* The types are interleaved, beginning with another one in each call.
Interleaved(segs) == [s \in segs |-> 3 * Rank(s.type, s.idx) + ((TypeIndex[s.type] + 3 - offset) % 3)]

\* Those with fewer than n before them.
FirstOf(segs, order, n) == {s \in segs : Cardinality({r \in segs : order[r] < order[s]}) < n}

NextDesiredSegments(max) ==
    IF ~BitmapComplete THEN AppendDesiredSegments("bitmap", max)
    ELSE LET all == UNION {AppendDesiredSegments(t, max) : t \in DataTypes}
         IN  FirstOf(all, Interleaved(all), max)

\* The segment that each type needs next, if it has not arrived.
GetBlockingSegments ==
    LET types == IF BitmapComplete THEN DataTypes ELSE {"bitmap"}
    IN  {Seg(t, applied[t]) : t \in {u \in types : applied[u] < NumSegs[block][u] /\ applied[u] \notin cached[u]}}

\* How many segments of type t the next batch can apply.
ReadyCount(t) ==
    LET run == {n \in 0..ApplyBatch : \A i \in 0..(n - 1) : applied[t] + i \in cached[t]}
    IN  Max(run)

-----------------------------------------------------------------------------
(* SegmentRequestTracker: pending[s] is the peer that was asked last.  How  *)
(* long ago that was is read when the next requests are chosen: age[s] is 1 *)
(* past the shorter and 2 past the longer of the retry and hedge delays.    *)

CanRetry(s, age) == age[s] >= IF s.type = "bitmap" THEN 2 ELSE 1
CanHedge(s, age) == age[s] >= IF s.type = "bitmap" THEN 1 ELSE 2
Without(segs) == [r \in DOMAIN pending \ segs |-> pending[r]]

-----------------------------------------------------------------------------
(* The manager of the set: what is in memory and what is on disk *)

\* UpdatePIBDStatus: reports progress, and with it that PIBD is what runs.
UpdatePIBDStatus(isErrored) ==
    /\ status' = IF block = None THEN status ELSE "PIBD"
    /\ errored' = IF block = None THEN errored ELSE isErrored

\* ITxHashSet::Commit.  A Writer of the manager commits the set when it goes away, at
\* the end of every step that takes one.
CommitSet == disk' = [disk EXCEPT !.of = open.of, !.size = open.size, !.kind = open.kind]

\* Written by ClearPIBDRequests and AbortPIBD.
CommitIfNeeded == IF uncommitted > 0 /\ open # None THEN CommitSet ELSE UNCHANGED disk

\* OpenEmpty removes the three directories, creates them anew and then writes the
\* metadata.
OpenEmpty(h) ==
    /\ disk' = [meta |-> h, of |-> h, size |-> Zero, kind |-> "pibd"]
    /\ open' = [of |-> h, size |-> Zero, kind |-> "pibd"]

\* The process ends between the two.
OpenEmptyCrash(h) == [disk EXCEPT !.of = h, !.size = Zero, !.kind = "pibd"]

\* Whether OpenForPIBD can continue with what is on disk.
CanResume(h) ==
    /\ disk.meta = h
    /\ disk.kind # "grown"
    /\ disk.of # None
    /\ \A t \in DataTypes : disk.size[t] <= NumSegs[h][t]

OpenForPIBD(h) ==
    IF CanResume(h)
      THEN open' = [of |-> disk.of, size |-> disk.size, kind |-> disk.kind] /\ UNCHANGED disk
      ELSE OpenEmpty(h)

ClearPIBDResumeState ==
    /\ open' = None
    /\ disk' = [meta |-> None, of |-> None, size |-> Zero, kind |-> "pibd"]

-----------------------------------------------------------------------------
(* The sync thread.  StateSyncer asks for nothing while a set is processed  *)
(* or validated.                                                            *)

MayDrive == /\ syncPc = "idle"
            /\ job.state # "RUNNING"
            /\ status \notin {"PROCESSING", "LEAFSET", "SETUP"}

\* The stored header is preferred while it is on the candidate chain.
EffectiveHeader(h) == IF disk.meta \in candidate THEN disk.meta ELSE h

\* Mutant: the sizes of the set are not read.
StartSizesZero(sizes) == [t \in Types |-> 0]

\* SetAppliedMMRSizes of a new desegmenter: the bitmap is downloaded anew.
StartSizes(sizes) == [t \in Types |-> IF t = "bitmap" THEN 0 ELSE sizes[t]]

StartPIBD(h) ==
    /\ MayDrive /\ h \in candidate
    /\ LET e == EffectiveHeader(h) IN
       /\ block # e
       /\ OpenForPIBD(e)
       /\ block' = e
       /\ applied' = StartSizes(open'.size)
    /\ cached' = [t \in Types |-> {}] /\ complete' = FALSE /\ offset' = 0
    /\ pending' = <<>> /\ nextPeer' = 0 /\ uncommitted' = 0 /\ processing' = TRUE
    /\ status' = "PIBD" /\ errored' = FALSE
    /\ overlap' = (overlap \/ zip.pc # "none")
    /\ job' = [job EXCEPT !.result = None]
    /\ UNCHANGED <<candidate, confirmed, syncPc, zip>>

\* Opening the set fails: the manager holds none, the session stays as it was.
StartPIBDFails(h) ==
    /\ MayDrive /\ h \in candidate /\ block # EffectiveHeader(h)
    /\ open' = None
    /\ UNCHANGED <<deseg, requests, uncommitted, processing, disk, candidate, confirmed,
                   sync, syncPc, job, zip, overlap>>

\* RequestNextPIBDSegments up to its first status update: apply what is ready.
\* The batches stop at the first segment that does not fit, if one does not.
NoneFails == [type |-> None, after |-> 0]

ApplyCounts(fail) ==
    [t \in DataTypes |->
        IF ~BitmapComplete THEN 0
        ELSE IF fail = NoneFails \/ TypeIndex[t] < TypeIndex[fail.type] THEN ReadyCount(t)
        ELSE IF t = fail.type THEN fail.after ELSE 0]

\* Mutant: kernels are not counted.
OutputsApplied(sizes) ==
    BitmapComplete /\ \A t \in DataTypes \ {"kernel"} : sizes[t] = NumSegs[block][t]

AllApplied(sizes) == BitmapComplete /\ \A t \in DataTypes : sizes[t] = NumSegs[block][t]

ApplyReadySegments(n) ==
    /\ applied' = [t \in Types |-> applied[t] + IF t = "bitmap" THEN 0 ELSE n[t]]
    /\ cached' = [t \in Types |-> {i \in cached[t] : i >= applied'[t]}]
    /\ open' = [open EXCEPT !.size = [t \in DataTypes |-> @[t] + n[t]]]

RequestApply ==
    /\ MayDrive /\ block # None /\ open # None
    /\ LET n == ApplyCounts(NoneFails)
           count == uncommitted + n["output"] + n["rangeproof"] + n["kernel"] IN
       /\ ApplyReadySegments(n)
       /\ complete' = IF BitmapComplete THEN AllApplied(applied') ELSE complete
       /\ uncommitted' = IF count >= CommitThreshold THEN 0 ELSE count
    /\ disk' = [disk EXCEPT !.of = open.of, !.size = open'.size, !.kind = open.kind]
    /\ UpdatePIBDStatus(FALSE)
    /\ syncPc' = "applied"
    /\ UNCHANGED <<block, offset, requests, processing, candidate, confirmed, job, zip, overlap>>

\* The MMR refuses a segment of type t.  What was applied before it is not counted
\* as uncommitted.
RequestApplyFails(t) ==
    /\ MayDrive /\ block # None /\ open # None
    /\ BitmapComplete
    /\ \E k \in 0..(ReadyCount(t) - 1) :
           ApplyReadySegments(ApplyCounts([type |-> t, after |-> k]))
    /\ disk' = [disk EXCEPT !.of = open.of, !.size = open'.size, !.kind = open.kind]
    /\ UpdatePIBDStatus(TRUE)
    /\ UNCHANGED <<block, complete, offset, requests, uncommitted, processing,
                   candidate, confirmed, syncPc, job, zip, overlap>>

\* Everything is applied: write the leaf sets, commit, and start the validation.
\* Start joins the thread of an earlier validation first.
RequestValidation ==
    /\ syncPc = "applied" /\ complete /\ open # None
    /\ status' = "LEAFSET"
    /\ CommitSet /\ uncommitted' = 0
    /\ IF job.pc = "none"
         THEN /\ job' = [IdleJob EXCEPT !.state = "RUNNING", !.pc = "start", !.block = block]
              /\ syncPc' = "idle"
         ELSE UNCHANGED job /\ syncPc' = "joining"
    /\ UNCHANGED <<deseg, requests, processing, open, candidate, confirmed, errored, zip, overlap>>

JoinedValidation ==
    /\ syncPc = "joining" /\ job.pc = "none"
    /\ job' = [IdleJob EXCEPT !.state = "RUNNING", !.pc = "start", !.block = block]
    /\ syncPc' = "idle"
    /\ UNCHANGED <<deseg, requests, uncommitted, processing, store, candidate, confirmed,
                   sync, zip, overlap>>

\* The zip thread closed the set since the segments were applied.
RequestValidationFails ==
    /\ syncPc = "applied" /\ complete /\ open = None
    /\ processing' = FALSE
    /\ UpdatePIBDStatus(TRUE)
    /\ syncPc' = "idle"
    /\ UNCHANGED <<deseg, requests, uncommitted, store, candidate, confirmed, job, zip, overlap>>

\* Which segments are asked for: the first desired ones that are not pending, up to
\* the budget; the first pending ones that waited too long; and, when there is
\* another peer, the blocking ones that waited too long.
Requests(reqs, desired, blocking, peers, age) ==
    LET new == desired \ DOMAIN reqs
        fresh == FirstOf(new, Interleaved(new), RequestCount - Cardinality(DOMAIN reqs))
        late == {s \in desired \cap DOMAIN reqs : CanRetry(s, age)}
        retry == FirstOf(late, Interleaved(late), RetryCount)
        stuck == {s \in blocking \cap DOMAIN reqs : CanHedge(s, age) /\ s \notin fresh \cup retry}
        hedge == IF Len(peers) = 1 THEN {}
                 ELSE FirstOf(stuck, [s \in stuck |-> TypeIndex[s.type]], HedgeCount - Cardinality(retry))
    IN  [first |-> fresh \cup retry, hedge |-> hedge, again |-> retry \cup hedge]

\* The order numbers of segs differ.
Sorted(segs, order) ==
    [i \in 1..Cardinality(segs) |->
        CHOOSE s \in segs : Cardinality({r \in segs : order[r] < order[s]}) = i - 1]

InOrder(todo) == Sorted(todo.first, Interleaved(todo.first))
                   \o Sorted(todo.hedge, [s \in todo.hedge |-> TypeIndex[s.type]])

\* Each request goes to the next peer of the rotation that takes it; a repeated one
\* not to the peer that was asked before, if there is another.
SendRequests(reqs, todo, send, peers, reachable) ==
    LET n == Len(peers)
        Peer(k) == peers[(k % n) + 1]
        Usable(k, s) == {l \in k..(k + n - 1) : /\ Peer(l) \in reachable
                                               /\ ~(s \in todo.again /\ n > 1 /\ reqs[s] = Peer(l))}
        next[i \in 0..Len(send)] ==
            IF i = 0 THEN nextPeer % n
            ELSE LET usable == Usable(next[i - 1], send[i])
                 IN  IF usable = {} THEN next[i - 1] ELSE (Min(usable) + 1) % n
        Takers(s) == Usable(next[(CHOOSE i \in DOMAIN send : send[i] = s) - 1], s)
        sent == {s \in todo.first \cup todo.hedge : Takers(s) # {}}
    IN  [reqs |-> [s \in DOMAIN reqs \cup sent |-> IF s \in sent THEN Peer(Min(Takers(s))) ELSE reqs[s]],
         next |-> IF sent = {} THEN nextPeer ELSE next[Len(send)]]

\* Those that timed out are forgotten first.
RequestSend ==
    /\ syncPc = "applied" /\ ~complete
    /\ \E peers \in PeerOrders, late \in SUBSET DOMAIN pending, blocking \in {GetBlockingSegments} :
       \E reqs \in {Without(late)} :
       \E desired \in {NextDesiredSegments(RequestCount + Cardinality(DOMAIN reqs))} :
       \E todo \in {Requests(reqs, desired, blocking, peers, age) : age \in [DOMAIN reqs -> 0..2]} :
       \E send \in {InOrder(todo)}, reachable \in SUBSET Range(peers) :
       LET end == SendRequests(reqs, todo, send, peers, reachable)
       IN  /\ pending' = end.reqs
           /\ nextPeer' = end.next
    /\ offset' = IF BitmapComplete THEN (offset + 1) % 3 ELSE offset
    /\ UpdatePIBDStatus(FALSE)
    /\ syncPc' = "idle"
    /\ UNCHANGED <<block, applied, cached, complete, uncommitted, processing, store, candidate,
                   confirmed, job, zip, overlap>>

\* ClearPIBDRequests, when the peer that was asked is left.
ClearPIBDRequests ==
    /\ MayDrive /\ (pending # <<>> \/ uncommitted > 0 \/ nextPeer # 0)
    /\ CommitIfNeeded
    /\ pending' = <<>> /\ nextPeer' = 0 /\ uncommitted' = 0
    /\ UNCHANGED <<deseg, processing, open, candidate, confirmed, sync, syncPc, job, zip, overlap>>

\* AbortPIBD; StateSyncer reports a failure after it or starts again.
AbortPIBD ==
    /\ MayDrive
    /\ CommitIfNeeded
    /\ block' = None /\ applied' = [t \in Types |-> 0] /\ cached' = [t \in Types |-> {}]
    /\ complete' = FALSE /\ offset' = 0
    /\ pending' = <<>> /\ nextPeer' = 0 /\ uncommitted' = 0 /\ processing' = FALSE
    /\ status' \in {"FAILED", IF block = None THEN status ELSE "PIBD"}
    /\ errored' = IF block = None THEN errored ELSE FALSE
    /\ UNCHANGED <<open, candidate, confirmed, syncPc, job, zip, overlap>>

-----------------------------------------------------------------------------
(* The connection threads *)

\* A segment arrives.  Only one that is asked for and not applied counts; a good one
\* is kept until it can be applied, a bad one is asked for again.
Wanted(h, s) ==
    /\ syncPc = "idle" /\ block = h /\ s \in Segments(h)
    /\ ~IsApplied(s)
    /\ s \in DOMAIN pending

CanAdd(s) == s.type \in {"bitmap", "kernel"} \/ BitmapComplete

\* ApplyNextBitmapSegment until it fails.
BitmapRun(indices) ==
    CHOOSE n \in 0..NumSegs[block]["bitmap"] :
        /\ \A i \in applied["bitmap"]..(n - 1) : i \in indices
        /\ n \notin indices /\ n >= applied["bitmap"]

ReceiveSegment(h, s) ==
    /\ Wanted(h, s) /\ CanAdd(s)
    /\ pending' = Without({s})
    /\ IF s.type = "bitmap"
         THEN LET n == BitmapRun(cached["bitmap"] \cup {s.idx}) IN
              /\ applied' = [applied EXCEPT !["bitmap"] = n]
              /\ cached' = [cached EXCEPT !["bitmap"] = {i \in @ \cup {s.idx} : i >= n}]
         ELSE UNCHANGED applied /\ cached' = [cached EXCEPT ![s.type] = @ \cup {s.idx}]
    /\ UpdatePIBDStatus(FALSE)
    /\ UNCHANGED <<block, complete, offset, nextPeer, uncommitted, processing, store, candidate,
                   confirmed, syncPc, job, zip, overlap>>

\* The segment fails its check, or one of an applied range arrives again.
DropSegment(h, s) ==
    /\ syncPc = "idle" /\ block = h /\ s \in DOMAIN pending
    /\ pending' = Without({s})
    /\ UNCHANGED <<deseg, nextPeer, uncommitted, processing, store, candidate, confirmed, sync,
                   syncPc, job, zip, overlap>>

-----------------------------------------------------------------------------
(* PIBDValidationJob's thread and BlockChain::ProcessPIBDTransactionHashSet *)

jobFrame == <<deseg, requests, uncommitted, candidate, zip, overlap>>

Finish(result) == job' = [job EXCEPT !.pc = "report", !.result = result, !.set = None]

\* The thread starts and takes the set that is open.
ValidateStart ==
    /\ job.pc = "start"
    /\ status' = "SETUP"
    /\ IF open = None THEN Finish("INVALID")
       ELSE job' = [job EXCEPT !.pc = "validate", !.set = open]
    /\ UNCHANGED <<jobFrame, processing, store, confirmed, errored, syncPc>>

IsWholeSet(set, h) == set.of = h /\ set.size = Target(h) /\ set.kind # "grown"

\* ValidateTxHashSet runs without a lock.  It accepts the set of the header only, and
\* bad content of a segment that passed its own check makes it refuse that.
Validate(isGood) ==
    /\ job.pc = "validate"
    /\ IF isGood /\ IsWholeSet(job.set, job.block)
         THEN job' = [job EXCEPT !.pc = "install"] /\ UNCHANGED store
         ELSE Finish("INVALID") /\ ClearPIBDResumeState
    /\ UNCHANGED <<jobFrame, processing, confirmed, sync, syncPc>>

\* Mutant: the set is not closed when its header left the candidate chain.
InstallLeavesOpen ==
    /\ job.pc = "install"
    /\ IF job.block \in candidate
         THEN confirmed' = job.block /\ Finish("SUCCESS")
         ELSE UNCHANGED confirmed /\ Finish("INVALID")
    /\ UNCHANGED <<jobFrame, processing, store, sync, syncPc>>

\* The batch that makes the header the confirmed tip.
Install ==
    /\ job.pc = "install"
    /\ IF job.block \in candidate
         THEN confirmed' = job.block /\ Finish("SUCCESS") /\ UNCHANGED store
         ELSE UNCHANGED <<confirmed, disk>> /\ Finish("INVALID") /\ open' = None
    /\ UNCHANGED <<jobFrame, processing, sync, syncPc>>

\* A database error: the batch is rolled back, the set stays open.
InstallThrows ==
    /\ job.pc = "install"
    /\ Finish("THREW")
    /\ UNCHANGED <<jobFrame, processing, store, confirmed, sync, syncPc>>

\* m_state is set before the status, the status before the callback.
ReportState ==
    /\ job.pc = "report"
    /\ job' = [job EXCEPT !.pc = "publish",
                          !.state = IF job.result = "SUCCESS" THEN "SUCCESS" ELSE "FAILED"]
    /\ UNCHANGED <<jobFrame, processing, store, confirmed, sync, syncPc>>

ReportStatus ==
    /\ job.pc = "publish"
    /\ status' = IF job.state = "SUCCESS" THEN "BLOCKS" ELSE "FAILED"
    /\ job' = [job EXCEPT !.pc = "notify"]
    /\ UNCHANGED <<jobFrame, processing, store, confirmed, errored, syncPc>>

\* onComplete; m_pibdMutex is needed to report an error.
OnComplete ==
    /\ job.pc = "notify"
    /\ processing' = FALSE
    /\ job' = [job EXCEPT !.pc = IF job.state = "SUCCESS" THEN "none" ELSE "lock"]
    /\ UNCHANGED <<jobFrame, store, confirmed, sync, syncPc>>

OnCompleteLocked ==
    /\ job.pc = "lock" /\ syncPc = "idle"
    /\ UpdatePIBDStatus(TRUE)
    /\ job' = [job EXCEPT !.pc = "none"]
    /\ UNCHANGED <<jobFrame, processing, store, confirmed, syncPc>>

-----------------------------------------------------------------------------
(* The thread of a zip download *)

zipFrame == <<deseg, requests, uncommitted, candidate, errored, syncPc, job, overlap>>

\* ReceiveTxHashSet: refused while anything is processed.
ReceiveTxHashSet(h, isGood) ==
    /\ ~processing /\ zip.pc = "none"
    /\ processing' = TRUE
    /\ zip' = [pc |-> "download", block |-> h, good |-> isGood]
    /\ overlap' = (overlap \/ block # None)
    /\ UNCHANGED <<deseg, requests, uncommitted, candidate, sync, syncPc, job, store, confirmed>>

\* The file is empty, or the connection ends before its last byte.
ZipAborted ==
    /\ zip.pc = "download"
    /\ status' = "FAILED" /\ processing' = FALSE /\ zip' = NoZip
    /\ UNCHANGED <<zipFrame, store, confirmed>>

ZipDownloaded ==
    /\ zip.pc = "download"
    /\ status' = "PROCESSING"
    /\ zip' = [zip EXCEPT !.pc = "close"]
    /\ UNCHANGED <<zipFrame, processing, store, confirmed>>

\* TxHashSetProcessor::ProcessTxHashSet closes the set, unpacks the file over it and
\* validates what it loaded.
ZipClose ==
    /\ zip.pc = "close"
    /\ open' = None
    /\ zip' = [zip EXCEPT !.pc = "unpack"]
    /\ UNCHANGED <<zipFrame, processing, disk, confirmed, status>>

ZipUnpack ==
    /\ zip.pc = "unpack"
    /\ disk' = [disk EXCEPT !.of = zip.block, !.size = Target(zip.block), !.kind = "zip"]
    /\ zip' = [zip EXCEPT !.pc = IF zip.good THEN "install" ELSE "failed"]
    /\ UNCHANGED <<zipFrame, processing, open, confirmed, status>>

ZipInstall ==
    /\ zip.pc = "install"
    /\ IF zip.block \in candidate
         THEN /\ confirmed' = zip.block
              /\ open' = [of |-> zip.block, size |-> Target(zip.block), kind |-> "zip"]
              /\ zip' = [zip EXCEPT !.pc = "done"]
         ELSE UNCHANGED confirmed /\ open' = None /\ zip' = [zip EXCEPT !.pc = "failed"]
    /\ UNCHANGED <<zipFrame, processing, disk, status>>

ZipEnd ==
    /\ zip.pc \in {"done", "failed"}
    /\ status' = IF zip.pc = "done" THEN "BLOCKS" ELSE "FAILED"
    /\ processing' = FALSE /\ zip' = NoZip
    /\ UNCHANGED <<zipFrame, store, confirmed>>

-----------------------------------------------------------------------------
(* The rest of the node *)

\* Blocks extend the confirmed state.
BlocksAdded ==
    /\ status = "BLOCKS" /\ open # None /\ confirmed # None
    /\ open' = [open EXCEPT !.kind = "grown"]
    /\ disk' = [disk EXCEPT !.of = open.of, !.size = open.size, !.kind = "grown"]
    /\ UNCHANGED <<deseg, requests, uncommitted, processing, candidate, confirmed, sync, syncPc,
                   job, zip, overlap>>

\* A reorganization of headers.
CandidateReorg(h) ==
    /\ Cardinality(candidate) > 1 /\ h \in candidate
    /\ candidate' = candidate \ {h}
    /\ UNCHANGED <<deseg, requests, uncommitted, processing, store, confirmed, sync, syncPc,
                   job, zip, overlap>>

\* The process ends and starts again.
Restarted ==
    /\ block' = None /\ applied' = [t \in Types |-> 0] /\ cached' = [t \in Types |-> {}]
    /\ complete' = FALSE /\ offset' = 0
    /\ pending' = <<>> /\ nextPeer' = 0 /\ uncommitted' = 0 /\ processing' = FALSE
    /\ open' = None /\ status' = "HEADERS" /\ errored' = FALSE
    /\ syncPc' = "idle" /\ job' = IdleJob /\ zip' = NoZip /\ overlap' = FALSE
    /\ UNCHANGED <<candidate, confirmed>>

\* Each MMR is committed by a thread of its own: some may be when the process ends.
CommitSome(done) ==
    /\ MayDrive /\ block # None /\ open # None
    /\ LET n == ApplyCounts(NoneFails)
           size == [t \in DataTypes |-> open.size[t] + IF t \in done THEN n[t] ELSE 0]
       IN  disk' = [disk EXCEPT !.of = open.of, !.size = size, !.kind = open.kind]

Crash == Restarted /\ (UNCHANGED disk \/ \E done \in SUBSET DataTypes : CommitSome(done))

CrashInOpenEmpty(h) ==
    /\ MayDrive /\ h \in candidate
    /\ block # EffectiveHeader(h) /\ ~CanResume(EffectiveHeader(h))
    /\ disk' = OpenEmptyCrash(EffectiveHeader(h))
    /\ Restarted

PibdNext ==
    \/ \E h \in Headers : StartPIBD(h) \/ StartPIBDFails(h) \/ CandidateReorg(h) \/ CrashInOpenEmpty(h)
    \/ RequestApply \/ \E t \in DataTypes : RequestApplyFails(t)
    \/ RequestValidation \/ JoinedValidation \/ RequestValidationFails
    \/ RequestSend
    \/ ClearPIBDRequests \/ AbortPIBD
    \/ \E h \in Headers : \E s \in Segments(h) : ReceiveSegment(h, s) \/ DropSegment(h, s)
    \/ ValidateStart \/ (\E good \in BOOLEAN : Validate(good)) \/ Install \/ InstallThrows
    \/ ReportState \/ ReportStatus \/ OnComplete \/ OnCompleteLocked
    \/ \E h \in ZipHeaders, good \in BOOLEAN : ReceiveTxHashSet(h, good)
    \/ ZipAborted \/ ZipDownloaded \/ ZipClose \/ ZipUnpack \/ ZipInstall \/ ZipEnd
    \/ BlocksAdded \/ Crash

PibdSpec == PibdInit /\ [][PibdNext]_pibdVars

-----------------------------------------------------------------------------
(* Properties *)

\* A segment is in one place: applied, waiting in the cache, or asked for.  So none is
\* asked for after it arrived, and none is applied twice.  And no more than
\* SEGMENT_REQUEST_COUNT are outstanding, whatever is retried, hedged, timed out or
\* cleared.
SegmentInOnePlace ==
    /\ Cardinality(DOMAIN pending) <= RequestCount
    /\ block # None =>
        /\ \A s \in DOMAIN pending : ~IsApplied(s) /\ s.idx \notin cached[s.type]
        /\ \A t \in Types : \A i \in cached[t] : i >= applied[t] /\ i < NumSegs[block][t]

\* The desegmenter's idea of what is applied is what the set holds, in memory and on
\* disk, also after a resume, a failed apply, or a crash while the directory is
\* prepared or while some MMRs are committed and others are not.  So neither a restart
\* nor the Rollback of a batch of the chain state takes an applied segment away.
SessionMatchesSet ==
    ~overlap /\ block # None /\ open # None /\ open.kind = "pibd" =>
        /\ open.of = block /\ disk.of = block
        /\ \A t \in DataTypes : open.size[t] = applied[t] /\ disk.size[t] = applied[t]

\* A set built from segments is complete when its validation starts, and while it is
\* validated no thread reports that segments are being downloaded; with that no sync
\* step touches the set that is being validated.
ValidatesWholeSet ==
    /\ job.pc = "validate" /\ job.set.kind = "pibd" => IsWholeSet(job.set, job.block)
    /\ job.state = "RUNNING" => status # "PIBD"

\* The sync thread waits, with m_pibdMutex, for a validation thread that needs this
\* mutex only after a database error: every other failure closes the set first, and a
\* new session starts with a new set (which forgets the result of the old one).
JoinOnlyAfterThrow ==
    ~overlap /\ syncPc = "joining" /\ job.pc = "lock" => job.result \in {"THREW", None}

\* The set in use belongs to the confirmed chain.
OpenIsConfirmed ==
    ~overlap /\ status = "BLOCKS" /\ open # None => open.of = confirmed
=============================================================================
