------------------------------ MODULE StateSync ------------------------------
(***************************************************************************)
(* Which sync is next: the rounds of Syncer's thread, StateSyncer's choice *)
(* between segments (PIBD), the zip archive and plain blocks, its timers   *)
(* and peers, against the pipe that downloads and validates.  Segments     *)
(* themselves are in Pibd, blocks in BlockSync.                            *)
(***************************************************************************)
EXTENDS Naturals, FiniteSets, Sequences, SequencesExt

CONSTANTS SPeers, StartPeers, Capable,  \* peers, those connected first, those with PIBD_HIST_1
          Leavers,           \* peers that may go away
          HeaderHeight, Horizon, ArchiveHeight, NetworkHeight,
          UintSize,          \* number of values of the code's uint64
          StartMinPeers,     \* PIBD_START_MIN_PEERS
          StallCycles,       \* PIBD_STALL_CYCLES_WITHOUT_ALTERNATIVE_BEFORE_ABORT
          Leaves,            \* leaves of the archive
          MaxFaults,         \* bound: how often the state of a peer turns out invalid
          Nobody

VARIABLES ss,         \* SyncStatus, StateSyncer's members and the pipe's session
          sblock,     \* height of the confirmed chain
          sconn,      \* connected peers
          gone,       \* peers that do not come back: each connects once
          archives,   \* peers with a TxHashSetRequest on its way
          zipping,    \* peer whose archive Thread_ProcessTxHashSet is reading, or Nobody
          validating  \* a PIBDValidationJob is running

stateVars == <<ss, sblock, sconn, gone, archives, zipping, validating>>

StateFields(status) ==
    ss = [status |-> status, errored |-> FALSE, leaves |-> 0, downloaded |-> 0,
          peer |-> Nobody, asked |-> FALSE, last |-> UintSize, cycles |-> 0,
          nopeer |-> "off", grace |-> "off", stall |-> "on", age |-> 0, blocked |-> {},
          session |-> "none", applied |-> 0, proc |-> FALSE, ret |-> FALSE,
          faults |-> 0]

StateInit ==
    /\ StateFields("none")
    /\ sblock = 0 /\ sconn = StartPeers /\ gone = {} /\ archives = {} /\ zipping = Nobody /\ validating = FALSE

\* Orders in which peers may be preferred: by work, direction and chance.
Orders == SetToSeqs(SPeers)

IsTxHashSetSyncStatus == ss.status \in {"zip", "pibd", "processing"}

-----------------------------------------------------------------------------
(* The pipe, as far as the choice depends on it *)

UpdatePIBDStatus(s, isErrored) ==
    IF s.session = "none" THEN s
    ELSE [s EXCEPT !.status = "pibd", !.errored = isErrored,
                   !.leaves = s.applied, !.downloaded = s.applied]

StartPIBD(s) ==
    IF s.session # "none" THEN s
    ELSE UpdatePIBDStatus([s EXCEPT !.session = "open", !.proc = TRUE], FALSE)

AbortPIBD(s) ==
    [UpdatePIBDStatus(s, FALSE) EXCEPT !.session = "none", !.proc = FALSE]

\* A complete session goes to validation, an open one sends its requests.
RequestNextPIBDSegments(s) ==
    IF s.session # "open" THEN [s EXCEPT !.ret = FALSE]
    ELSE LET t == UpdatePIBDStatus(s, FALSE)
         IN  [t EXCEPT !.ret = TRUE, !.status = IF s.applied = Leaves THEN "processing" ELSE @]

-----------------------------------------------------------------------------
(* RequestPIBDState: sets ret *)

PIBDPeers == sconn \cap Capable
FirstOf(order, S) == order[CHOOSE i \in DOMAIN order :
                               order[i] \in S /\ \A j \in 1..(i - 1) : order[j] \notin S]

\* The part of RequestPIBDState that looks for a peer.
SelectPIBDPeer(s, order) ==
    LET eligible == PIBDPeers \ s.blocked
        waited == IF s.nopeer = "off" THEN "on" ELSE s.nopeer
    IN  IF eligible = {} /\ waited = "up"
          THEN [AbortPIBD(s) EXCEPT !.status = "failed", !.nopeer = "off", !.grace = "off",
                                    !.last = UintSize, !.ret = FALSE]
        ELSE IF eligible = {}
          THEN [s EXCEPT !.nopeer = waited, !.grace = "off", !.ret = FALSE]
        ELSE IF ~s.asked /\ Cardinality(eligible) < StartMinPeers /\ s.grace # "up"
          THEN [s EXCEPT !.nopeer = "off", !.grace = "on", !.status = "pibd", !.ret = TRUE]
        ELSE LET t == StartPIBD([s EXCEPT !.nopeer = "off", !.grace = "off"])
             IN  RequestNextPIBDSegments(
                     [t EXCEPT !.peer = FirstOf(order, eligible), !.age = 0, !.asked = TRUE,
                               !.last = t.leaves, !.stall = "on", !.cycles = 0])

\* The peer has answered nothing for too long.
CheckStall(s) ==
    IF s.last = UintSize \/ s.leaves > s.last
      THEN [s EXCEPT !.last = s.leaves, !.stall = "on", !.cycles = 0, !.nopeer = "off"]
    ELSE IF s.stall # "up" THEN s
    ELSE IF PIBDPeers \ {s.peer} # {}
      THEN [s EXCEPT !.cycles = 0, !.blocked = @ \cup {s.peer}, !.peer = Nobody]
    ELSE IF s.cycles + 1 >= StallCycles
      THEN [AbortPIBD(s) EXCEPT !.blocked = @ \cup {s.peer}, !.peer = Nobody, !.asked = FALSE,
                                !.last = UintSize, !.cycles = 0, !.status = "failed"]
    ELSE [s EXCEPT !.cycles = @ + 1, !.stall = "on"]

RequestPIBDState(s, order) ==
    IF s.peer = Nobody THEN SelectPIBDPeer(s, order)
    ELSE IF s.peer \notin PIBDPeers THEN SelectPIBDPeer([s EXCEPT !.peer = Nobody], order)
    ELSE LET t == CheckStall(s)
             u == RequestNextPIBDSegments(t)
         IN  IF t.status = "failed" /\ s.status # "failed" THEN [t EXCEPT !.ret = FALSE]
             ELSE IF t.peer = Nobody THEN SelectPIBDPeer(t, order)
             ELSE [u EXCEPT !.ret = u.ret \/ ~u.errored]

-----------------------------------------------------------------------------
(* SyncState: sets ret, and whether an archive is requested *)

\* The code's unsigned difference.
BelowHorizon == sblock < (UintSize + HeaderHeight - Horizon) % UintSize

\* Mutant: only a first request is ever due.
IsStateSyncDueOnce == ~ss.asked

IsStateSyncDue ==
    /\ ss.status # "processing"
    /\ \/ ss.status = "failed"
       \/ /\ HeaderHeight >= Horizon
          /\ sblock <= HeaderHeight - Horizon
          /\ \/ ~ss.asked
             \/ ss.age = 2
             \/ ss.age = 1 /\ ss.downloaded = 0
             \/ ss.peer # Nobody /\ ss.peer \notin sconn

\* RequestZipState
RequestZipState(s, order) ==
    LET t == IF s.peer = Nobody THEN s
             ELSE [AbortPIBD(s) EXCEPT !.peer = Nobody, !.status = "zip"]
    IN  IF sconn = {} THEN t
        ELSE [t EXCEPT !.peer = FirstOf(order, sconn), !.age = 0, !.asked = TRUE]

\* What one call of SyncState does: the new ss and the peer that is asked for an archive.
SyncState(order) ==
    IF validating THEN [s |-> [ss EXCEPT !.ret = TRUE], zip |-> Nobody]
    ELSE IF ss.status = "pibd"
      THEN LET t == RequestPIBDState(ss, order)
               again == RequestPIBDState([AbortPIBD(t) EXCEPT !.peer = Nobody], order)
           IN  [s |-> IF t.ret THEN t
                      ELSE IF t.errored THEN again
                      ELSE [t EXCEPT !.ret = t.peer # Nobody
                                \/ (HeaderHeight >= Horizon /\ sblock < HeaderHeight - Horizon)],
                zip |-> Nobody]
    ELSE IF IsStateSyncDue
      THEN LET t == RequestPIBDState([ss EXCEPT !.status = "zip"], order)
               z == RequestZipState(t, order)
           IN  IF t.ret THEN [s |-> t, zip |-> Nobody]
               ELSE [s |-> [z EXCEPT !.ret = TRUE], zip |-> IF sconn = {} THEN Nobody ELSE z.peer]
    ELSE [s |-> [ss EXCEPT !.ret = BelowHorizon], zip |-> Nobody]

-----------------------------------------------------------------------------
(* Rounds of Syncer::Thread_Sync *)

\* SyncState's request and the validation that RequestNextPIBDSegments starts.
Takes(r) ==
    /\ ss' = [r.s EXCEPT !.ret = FALSE, !.stall = IF r.s.peer = Nobody THEN "on" ELSE @]
    /\ archives' = archives \cup ({r.zip} \ {Nobody})
    /\ validating' = (validating \/ (r.s.status = "processing" /\ ss.status # "processing"))

\* Headers are still to be synced.
HeaderRound ==
    /\ sconn # {} /\ sblock # NetworkHeight
    /\ ss' = IF IsTxHashSetSyncStatus THEN ss ELSE [ss EXCEPT !.status = "headers"]
    /\ UNCHANGED <<sblock, sconn, gone, archives, zipping, validating>>

\* State sync, and block sync if no state sync is needed: BlockSync's round, here one that
\* brings all blocks; peers have none that are older than the horizon.  The model ends when
\* they are there.
SyncRound ==
    /\ sconn # {} /\ sblock # NetworkHeight
    /\ \E order \in Orders :
           LET r == SyncState(order)
           IN  IF r.s.ret THEN Takes(r) /\ UNCHANGED sblock
               ELSE /\ Takes([r EXCEPT !.s.status = "blocks"])
                    /\ sblock' = IF sblock + Horizon >= HeaderHeight THEN NetworkHeight ELSE sblock
    /\ UNCHANGED <<sconn, gone, zipping>>

\* Without connections only a running PIBD is looked after.
LonelyRound ==
    /\ sconn = {}
    /\ IF ss.status = "pibd"
         THEN \E order \in Orders :
                  Takes(SyncState(order))
         ELSE /\ ss' = IF IsTxHashSetSyncStatus THEN ss ELSE [ss EXCEPT !.status = "waiting"]
              /\ UNCHANGED <<archives, validating>>
    /\ UNCHANGED <<sblock, sconn, gone, zipping>>

-----------------------------------------------------------------------------
(* The pipe's threads, peers and time *)

\* Segments from the active peers are received and applied.
SegmentsApplied ==
    /\ ss.session = "open" /\ ss.peer \in PIBDPeers
    /\ ss.applied < Leaves /\ ~validating
    /\ ss' = [ss EXCEPT !.applied = @ + 1]
    /\ UNCHANGED <<sblock, sconn, gone, archives, zipping, validating>>

\* Applying a segment fails, or the validation of the whole: the set is closed and emptied.
SegmentsFail ==
    /\ ss.session = "open" /\ ss.faults < MaxFaults
    /\ ss' = [UpdatePIBDStatus(ss, TRUE) EXCEPT !.session = "closed", !.applied = 0, !.faults = @ + 1]
    /\ validating' = FALSE
    /\ UNCHANGED <<sblock, sconn, gone, archives, zipping>>

\* PIBDValidationJob ends, with its m_onComplete.
ValidationDone ==
    /\ validating
    /\ validating' = FALSE
    /\ sblock' = ArchiveHeight
    /\ ss' = [ss EXCEPT !.status = "blocks", !.proc = FALSE]
    /\ UNCHANGED <<sconn, gone, archives, zipping>>

\* ReceiveTxHashSet: the archive of p starts to arrive.
ReceiveTxHashSet(p) ==
    /\ p \in archives \cap sconn /\ sblock # NetworkHeight
    /\ archives' = archives \ {p}
    /\ IF ss.proc THEN sconn' = sconn \ {p} /\ gone' = gone \cup {p} /\ UNCHANGED <<ss, zipping>>
       ELSE /\ zipping' = p /\ ss' = [ss EXCEPT !.proc = TRUE, !.downloaded = 0]
            /\ UNCHANGED <<sconn, gone>>
    /\ UNCHANGED <<sblock, validating>>

\* The rest of Thread_ProcessTxHashSet: download, then process.
ZipDownloaded ==
    /\ zipping \in sconn /\ ss.status # "processing"
    /\ ss' = [ss EXCEPT !.downloaded = 1, !.status = "processing"]
    /\ UNCHANGED <<sblock, sconn, gone, archives, zipping, validating>>

ZipProcessed(isValid) ==
    /\ zipping # Nobody /\ ss.status = "processing" /\ ~validating
    /\ zipping' = Nobody
    /\ IF isValid
         THEN /\ ss' = [ss EXCEPT !.status = "blocks", !.proc = FALSE]
              /\ sblock' = ArchiveHeight /\ UNCHANGED <<sconn, gone>>
         ELSE /\ ss.faults < MaxFaults
              /\ ss' = [ss EXCEPT !.status = "failed", !.proc = FALSE, !.faults = @ + 1]
              /\ sconn' = sconn \ {zipping} /\ gone' = gone \cup {zipping} /\ UNCHANGED sblock
    /\ UNCHANGED <<archives, validating>>

ZipAborted ==
    /\ zipping # Nobody /\ zipping \notin sconn /\ ss.status # "processing"
    /\ zipping' = Nobody
    /\ ss' = [ss EXCEPT !.status = "failed", !.proc = FALSE]
    /\ UNCHANGED <<sblock, sconn, gone, archives, validating>>

Disconnects(p) ==
    /\ p \in sconn \cap Leavers
    /\ sconn' = sconn \ {p} /\ gone' = gone \cup {p} /\ archives' = archives \ {p}
    /\ UNCHANGED <<ss, sblock, zipping, validating>>

Connects(p) == /\ p \notin sconn \cup gone /\ sconn' = sconn \cup {p}
            /\ UNCHANGED <<ss, sblock, gone, archives, zipping, validating>>

\* Timers advance only where the code looks at them before it sets them again.
Passes(timer) == /\ ss[timer] = "on" /\ (timer = "stall" => ss.peer \in Capable)
                 /\ ss' = [ss EXCEPT ![timer] = "up"]
                 /\ UNCHANGED <<sblock, sconn, gone, archives, zipping, validating>>

Ages == /\ ss.age < 2 /\ ss.asked /\ ss.status \notin {"pibd", "failed", "processing"}
        /\ ss' = [ss EXCEPT !.age = @ + 1]
        /\ UNCHANGED <<sblock, sconn, gone, archives, zipping, validating>>

Unblocks == /\ ss.blocked # {} /\ ss' = [ss EXCEPT !.blocked = {}]
            /\ UNCHANGED <<sblock, sconn, gone, archives, zipping, validating>>

\* Peers and time, until the state is there.
Environment ==
    /\ sblock = 0
    /\ \/ \E p \in SPeers : Disconnects(p) \/ Connects(p)
       \/ \E timer \in {"nopeer", "grace", "stall"} : Passes(timer)
       \/ Ages \/ Unblocks

StateNext ==
    \/ HeaderRound \/ SyncRound \/ LonelyRound
    \/ SegmentsApplied \/ SegmentsFail \/ ValidationDone
    \/ \E p \in SPeers : ReceiveTxHashSet(p)
    \/ ZipDownloaded \/ ZipAborted \/ \E isValid \in BOOLEAN : ZipProcessed(isValid)
    \/ Environment

StateSpec == StateInit /\ [][StateNext]_stateVars

\* The threads run, time passes, and connected peers answer.
StateFairness ==
    /\ WF_stateVars(SyncRound) /\ WF_stateVars(LonelyRound)
    /\ SF_stateVars(SegmentsApplied \/ \E p \in SPeers : ReceiveTxHashSet(p))
    /\ SF_stateVars(ZipDownloaded)
    /\ WF_stateVars(ValidationDone \/ ZipProcessed(TRUE)) /\ WF_stateVars(ZipAborted)
    /\ SF_stateVars(Passes("stall")) /\ SF_stateVars(Ages) /\ WF_stateVars(Unblocks)
    /\ WF_stateVars(Passes("nopeer")) /\ WF_stateVars(Passes("grace"))
    /\ WF_stateVars(\E p \in SPeers : Connects(p))

FairStateSpec == StateSpec /\ StateFairness

-----------------------------------------------------------------------------
(* Properties *)

\* State and blocks are synced as long as one peer that works stays, whatever was tried,
\* stalled, failed or went away before.
StateCatchesUp == <>(sblock = NetworkHeight \/ gone = SPeers)
=============================================================================
