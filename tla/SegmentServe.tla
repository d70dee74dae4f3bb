----------------------------- MODULE SegmentServe -----------------------------
(***************************************************************************)
(* Serving segments of the transaction hash set: the bounded queue of      *)
(* requests, the workers that take from it, the snapshot that one worker   *)
(* creates while the others wait, and the cache of the output bitmap.      *)
(*                                                                         *)
(* The set of the node moves on with the chain; live is the header that it *)
(* was last flushed at.  A snapshot is rewound to its header and never     *)
(* changes.  What a segment contains is the header whose state was read.   *)
(***************************************************************************)
EXTENDS Naturals, Sequences, FiniteSets, SequencesExt

CONSTANTS Workers, Hashes, Tip,
          Requested,        \* the requests that peers send
          QueueCapacity,    \* PIBD_SEGMENT_SERVE_QUEUE_CAPACITY
          NoHash

ServeTypes == <<"bitmap", "output", "rangeproof", "kernel">>

ASSUME ServeAssumption ==
    /\ Tip \in Hashes /\ NoHash \notin Hashes /\ QueueCapacity \in Nat \ {0}
    /\ Requested \subseteq [type : Range(ServeTypes), idx : Nat, hash : Hashes]

VARIABLES queue,      \* m_pibdSegmentServeQueue
          live,       \* header that the open set was flushed at, or NoHash
          creating,   \* m_pibdSegmentTxHashSetCreatingHash
          snapshot,   \* m_pibdSegmentTxHashSetHash
          bitmap,     \* m_pibdSegmentBitmapCache
          worker,     \* what each worker does
          sentStale   \* type and source of the segments that were sent and do not show the
                      \* state at the header asked for

serveVars == <<queue, live, creating, snapshot, bitmap, worker, sentStale>>

NoBitmap == [hash |-> NoHash, acc |-> NoHash, root |-> NoHash]
NoSet == [kind |-> "none", hash |-> NoHash]
LiveSet == [kind |-> "live", hash |-> NoHash]
SnapshotSet(h) == [kind |-> "snapshot", hash |-> h]
Idle == [pc |-> "idle", req |-> NoHash, set |-> NoSet, seg |-> NoHash, acc |-> NoHash]

ServeInit ==
    /\ queue = <<>> /\ live = Tip /\ creating = NoHash /\ snapshot = NoHash
    /\ bitmap = NoBitmap /\ worker = [w \in Workers |-> Idle] /\ sentStale = {}

-----------------------------------------------------------------------------
(* The queue *)

\* EnqueuePIBDSegmentServeRequest: a full queue drops the request.
Enqueue(r) ==
    /\ Len(queue) < QueueCapacity
    /\ queue' = Append(queue, r)
    /\ UNCHANGED <<live, creating, snapshot, bitmap, worker, sentStale>>

Priority(t) == CHOOSE n \in DOMAIN ServeTypes : ServeTypes[n] = t

\* SelectNextPIBDSegmentServeRequest: bitmap segments first, then by index, by type
\* and by age.
IsBefore(i, j) ==
    LET a == queue[i]
        b == queue[j]
    IN  IF (a.type = "bitmap") # (b.type = "bitmap") THEN a.type = "bitmap"
        ELSE IF a.idx # b.idx THEN a.idx < b.idx
        ELSE IF a.type # b.type THEN Priority(a.type) < Priority(b.type)
        ELSE i < j

SelectNext == CHOOSE i \in DOMAIN queue : \A j \in DOMAIN queue \ {i} : IsBefore(i, j)

\* Thread_ServePIBDSegments takes a request; ProcessPIBDSegmentServeRequest drops it
\* if the connection is gone.
TakeRequest(w) ==
    /\ worker[w].pc = "idle" /\ queue # <<>>
    /\ queue' = RemoveAt(queue, SelectNext)
    /\ \/ worker' = [worker EXCEPT ![w].pc = "lookup", ![w].req = queue[SelectNext]]
       \/ UNCHANGED worker
    /\ UNCHANGED <<live, creating, snapshot, bitmap, sentStale>>

-----------------------------------------------------------------------------
(* GetSegmentTxHashSet *)

Got(w, set) == worker' = [worker EXCEPT ![w].set = set, ![w].pc = "build"]

\* The set of the node, if it was flushed at the header asked for.
LookupLive(w) ==
    /\ worker[w].pc = "lookup"
    /\ IF live = worker[w].req.hash THEN Got(w, LiveSet)
       ELSE worker' = [worker EXCEPT ![w].pc = "lock"]
    /\ UNCHANGED <<queue, live, creating, snapshot, bitmap, sentStale>>

\* Mutant: a snapshot is created without looking whether another worker does.
LookupSnapshotEagerly(w) ==
    /\ worker[w].pc = "lock"
    /\ IF snapshot = worker[w].req.hash
         THEN Got(w, SnapshotSet(snapshot)) /\ UNCHANGED creating
         ELSE /\ creating' = worker[w].req.hash
              /\ worker' = [worker EXCEPT ![w].pc = "create"]
    /\ UNCHANGED <<queue, live, snapshot, bitmap, sentStale>>

\* Under m_pibdSegmentTxHashSetMutex: use the snapshot if it is the right one, wait
\* while another worker creates one, or be the one that does.
LookupSnapshot(w) ==
    /\ worker[w].pc = "lock"
    /\ \/ /\ snapshot = worker[w].req.hash
          /\ Got(w, SnapshotSet(snapshot))
          /\ UNCHANGED creating
       \/ /\ snapshot # worker[w].req.hash /\ creating # NoHash
          /\ worker' = [worker EXCEPT ![w].pc = "wait"]
          /\ UNCHANGED creating
       \/ /\ snapshot # worker[w].req.hash /\ creating = NoHash
          /\ creating' = worker[w].req.hash
          /\ worker' = [worker EXCEPT ![w].pc = "create"]
    /\ UNCHANGED <<queue, live, snapshot, bitmap, sentStale>>

\* CreateTxHashSetSnapshot succeeds: publish it.
CreateSnapshot(w) ==
    /\ worker[w].pc = "create" /\ live # NoHash
    /\ snapshot' = worker[w].req.hash
    /\ creating' = NoHash
    /\ worker' = [worker EXCEPT ![w].set = SnapshotSet(worker[w].req.hash), ![w].pc = "clear"]
    /\ UNCHANGED <<queue, live, bitmap, sentStale>>

\* Mutant: nobody is told about the failure.
CreateSnapshotFailsQuietly(w) ==
    /\ worker[w].pc = "create"
    /\ creating' = NoHash
    /\ worker' = [worker EXCEPT ![w] = Idle]
    /\ UNCHANGED <<queue, live, snapshot, bitmap, sentStale>>

\* The header is unknown, beyond the horizon, or the files cannot be copied.
CreateSnapshotFails(w) ==
    /\ worker[w].pc = "create"
    /\ creating' = NoHash
    /\ worker' = [worker EXCEPT ![w].pc = "notify"]
    /\ UNCHANGED <<queue, live, snapshot, bitmap, sentStale>>

\* The bitmap cache is emptied after the mutex of the snapshot was released.
ClearBitmapCache(w) ==
    /\ worker[w].pc = "clear"
    /\ bitmap' = NoBitmap
    /\ worker' = [worker EXCEPT ![w].pc = "notify"]
    /\ UNCHANGED <<queue, live, creating, snapshot, sentStale>>

\* notify_all
NotifyAll(w) ==
    /\ worker[w].pc = "notify"
    /\ worker' = [v \in Workers |->
            IF v = w THEN (IF worker[w].set = NoSet THEN Idle ELSE [worker[w] EXCEPT !.pc = "build"])
            ELSE IF worker[v].pc = "wait" THEN [worker[v] EXCEPT !.pc = "lock"]
            ELSE worker[v]]
    /\ UNCHANGED <<queue, live, creating, snapshot, bitmap, sentStale>>

-----------------------------------------------------------------------------
(* Process...SegmentRequest *)

\* The header whose state a set shows now.
ContentOf(set) == IF set.kind = "live" THEN live ELSE set.hash

\* The segment is read from the set.
BuildSegment(w) ==
    /\ worker[w].pc = "build" /\ ContentOf(worker[w].set) # NoHash
    /\ worker' = [worker EXCEPT ![w].seg = ContentOf(worker[w].set),
                                ![w].pc = IF worker[w].req.type = "kernel" THEN "send" ELSE "acc"]
    /\ UNCHANGED <<queue, live, creating, snapshot, bitmap, sentStale>>

\* No such segment, or the set was closed.
BuildFails(w) ==
    /\ worker[w].pc = "build"
    /\ worker' = [worker EXCEPT ![w] = Idle]
    /\ UNCHANGED <<queue, live, creating, snapshot, bitmap, sentStale>>

\* GetCachedOutputBitmapAccumulator: look under the lock, compute without it.
LookupBitmap(w) ==
    /\ worker[w].pc = "acc"
    /\ IF bitmap.hash = worker[w].req.hash /\ bitmap.acc # NoHash
         THEN worker' = [worker EXCEPT ![w].acc = bitmap.acc, ![w].pc = "root"]
         ELSE worker' = [worker EXCEPT ![w].acc = ContentOf(worker[w].set), ![w].pc = "store"]
    /\ UNCHANGED <<queue, live, creating, snapshot, bitmap, sentStale>>

StoreBitmap(w) ==
    /\ worker[w].pc = "store"
    /\ bitmap' = [hash |-> worker[w].req.hash, acc |-> worker[w].acc, root |-> NoHash]
    /\ worker' = [worker EXCEPT ![w].pc = "root"]
    /\ UNCHANGED <<queue, live, creating, snapshot, sentStale>>

\* GetCachedOutputBitmapRoot, which only output segments carry.  A miss stores the
\* root and the hash and leaves the accumulator alone.
LookupRoot(w) ==
    /\ worker[w].pc = "root"
    /\ worker' = [worker EXCEPT ![w].acc = NoHash, ![w].pc = "send"]
    /\ IF worker[w].req.type # "output"
          \/ (bitmap.hash = worker[w].req.hash /\ bitmap.root # NoHash)
         THEN UNCHANGED bitmap
         ELSE bitmap' = [bitmap EXCEPT !.hash = worker[w].req.hash,
                                       !.root = ContentOf(worker[w].set)]
    /\ UNCHANGED <<queue, live, creating, snapshot, sentStale>>

\* Mutant: every segment is sent as it was read.
Passes(r, seg) == TRUE

\* Data segments are checked against the header before they are sent; bitmap segments
\* are not.
Validates(r, seg) == r.type = "bitmap" \/ seg = r.hash

\* The connection may be gone.
SendSegment(w) ==
    /\ worker[w].pc = "send"
    /\ LET r == worker[w].req IN
       sentStale' \in {sentStale} \cup
           IF Validates(r, worker[w].seg) /\ worker[w].seg # r.hash
             THEN {sentStale \cup {<<r.type, worker[w].set.kind>>}}
             ELSE {}
    /\ worker' = [worker EXCEPT ![w] = Idle]
    /\ UNCHANGED <<queue, live, creating, snapshot, bitmap>>

-----------------------------------------------------------------------------
\* Blocks move the set of the node, a state sync closes it.
MoveLive(h) ==
    /\ live' = h
    /\ UNCHANGED <<queue, creating, snapshot, bitmap, worker, sentStale>>

WorkerStep(w) ==
    \/ TakeRequest(w) \/ LookupLive(w) \/ LookupSnapshot(w) \/ CreateSnapshot(w)
    \/ CreateSnapshotFails(w) \/ ClearBitmapCache(w) \/ NotifyAll(w) \/ BuildSegment(w)
    \/ BuildFails(w) \/ LookupBitmap(w) \/ StoreBitmap(w) \/ LookupRoot(w) \/ SendSegment(w)

ServeNext ==
    \/ \E r \in Requested : Enqueue(r)
    \/ \E h \in Hashes \cup {NoHash} : MoveLive(h)
    \/ \E w \in Workers : WorkerStep(w)

ServeSpec == ServeInit /\ [][ServeNext]_serveVars

-----------------------------------------------------------------------------
(* Properties *)

\* m_pibdSegmentTxHashSetCreatingHash stands for one worker, the one that copies the
\* files: no two of them copy into the same directory.
SingleFlight ==
    /\ \A v, w \in Workers : worker[v].pc = "create" /\ worker[w].pc = "create" => v = w
    /\ creating # NoHash <=> \E w \in Workers : worker[w].pc = "create"
    /\ \A w \in Workers : worker[w].pc = "create" => creating = worker[w].req.hash

\* A segment that is sent shows the state at the header it was asked for, also when the
\* chain moved on meanwhile.  A bitmap segment read from the set of the node is the
\* exception: it is sent unchecked.
SentMatchesRequest ==
    sentStale \subseteq {<<"bitmap", "live">>}

\* While somebody waits, somebody creates or is about to notify: no wake-up is lost.
WaiterIsNotified ==
    (\E w \in Workers : worker[w].pc = "wait") =>
        \E v \in Workers : worker[v].pc \in {"create", "clear", "notify"}
=============================================================================
