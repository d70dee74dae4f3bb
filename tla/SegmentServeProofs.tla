------------------------- MODULE SegmentServeProofs -------------------------
(***************************************************************************)
(* For any number of workers, headers and requests and any capacity of the *)
(* queue: the snapshot is created by one worker at a time, no waiting      *)
(* worker is forgotten, and what is sent from a snapshot is what was asked *)
(* for.                                                                    *)
(***************************************************************************)
EXTENDS SegmentServe, OrderLemmas, SequenceTheorems

-----------------------------------------------------------------------------
(* The queue *)

\* Types that differ have priorities that differ.
LEMMA PriorityOrders ==
    ASSUME NEW s \in Range(ServeTypes), NEW t \in Range(ServeTypes)
    PROVE  /\ Priority(s) \in Nat
           /\ s # t => Priority(s) # Priority(t)
<1>1. Priority(s) \in 1..4 /\ ServeTypes[Priority(s)] = s
  <2>1. \E n \in DOMAIN ServeTypes : ServeTypes[n] = s
    BY DEF Range
  <2>2. DOMAIN ServeTypes = 1..4
    BY DEF ServeTypes
  <2> QED BY <2>1, <2>2 DEF Priority
<1>2. Priority(t) \in 1..4 /\ ServeTypes[Priority(t)] = t
  <2>1. \E n \in DOMAIN ServeTypes : ServeTypes[n] = t
    BY DEF Range
  <2>2. DOMAIN ServeTypes = 1..4
    BY DEF ServeTypes
  <2> QED BY <2>1, <2>2 DEF Priority
<1> QED BY <1>1, <1>2

\* SelectNextPIBDSegmentServeRequest finds a request that comes before all
\* others, whatever is in the queue: first the bitmap segments, among them the
\* lowest indices, among those the first types, and of these the oldest.
LEMMA SelectNextIsFirst ==
    ASSUME queue \in Seq(Requested), queue # <<>>
    PROVE  /\ SelectNext \in DOMAIN queue
           /\ \A j \in DOMAIN queue \ {SelectNext} : IsBefore(SelectNext, j)
<1> DEFINE D == DOMAIN queue
           B == {i \in D : queue[i].type = "bitmap"}
           C == IF B = {} THEN D ELSE B
<1>1. D \subseteq Nat /\ D # {}
  <2>1. Len(queue) \in Nat /\ Len(queue) # 0 /\ D = 1..Len(queue)
    BY EmptySeq
  <2> QED BY <2>1
<1>2. \A i \in D : /\ queue[i] \in Requested
                   /\ queue[i].idx \in Nat
                   /\ queue[i].type \in Range(ServeTypes)
  BY ServeAssumption
<1>3. C # {} /\ C \subseteq D
  BY <1>1
<1>4. PICK a \in C : \A j \in C : queue[a].idx <= queue[j].idx
  <2> DEFINE S == {queue[i].idx : i \in C}
  <2>1. S \subseteq Nat /\ S # {}
    BY <1>2, <1>3
  <2>2. \E x \in S : \A y \in S : x <= y
    <3> HIDE DEF S
    <3> QED BY <2>1, SmallestElement
  <2> QED BY <2>2
<1> DEFINE E == {i \in C : queue[i].idx = queue[a].idx}
<1>5. PICK b \in E : \A j \in E : Priority(queue[b].type) <= Priority(queue[j].type)
  <2> DEFINE S == {Priority(queue[i].type) : i \in E}
  <2>1. S \subseteq Nat /\ S # {}
    BY <1>2, <1>3, <1>4, PriorityOrders
  <2>2. \E x \in S : \A y \in S : x <= y
    <3> HIDE DEF S
    <3> QED BY <2>1, SmallestElement
  <2> QED BY <2>2
<1> DEFINE F == {i \in E : queue[i].type = queue[b].type}
<1>6. PICK c \in F : \A j \in F : c <= j
  <2>1. F \subseteq Nat /\ F # {}
    BY <1>1, <1>3, <1>5
  <2> HIDE DEF F
  <2> QED BY <2>1, SmallestElement
<1>7. \A j \in D \ {c} : IsBefore(c, j)
  <2> SUFFICES ASSUME NEW j \in D \ {c}
               PROVE  IsBefore(c, j)
    OBVIOUS
  <2>1. c \in D /\ c \in Nat /\ j \in Nat
    BY <1>1, <1>3, <1>6
  <2>2. CASE j \notin C
    <3>1. queue[j].type # "bitmap" /\ queue[c].type = "bitmap"
      BY <1>3, <1>6, <2>2
    <3> QED BY <3>1 DEF IsBefore
  <2>3. CASE j \in C \ E
    <3>1. (queue[c].type = "bitmap") = (queue[j].type = "bitmap")
      BY <1>3, <1>6, <2>3
    <3>2. queue[c].idx # queue[j].idx /\ queue[c].idx < queue[j].idx
      BY <1>2, <1>3, <1>4, <1>6, <2>3
    <3> QED BY <3>1, <3>2 DEF IsBefore
  <2>4. CASE j \in E \ F
    <3>1. (queue[c].type = "bitmap") = (queue[j].type = "bitmap")
      BY <1>3, <1>6, <2>4
    <3>2. queue[c].idx = queue[j].idx /\ queue[c].type # queue[j].type
      BY <1>6, <2>4
    <3>3. Priority(queue[c].type) < Priority(queue[j].type)
      BY <1>2, <1>3, <1>5, <1>6, <2>1, <2>4, <3>2, PriorityOrders
    <3> QED BY <3>1, <3>2, <3>3 DEF IsBefore
  <2>5. CASE j \in F
    <3>1. c < j
      BY <1>6, <2>1, <2>5
    <3> QED BY <1>6, <2>5, <3>1 DEF IsBefore
  <2> QED BY <2>2, <2>3, <2>4, <2>5
<1>8. c \in D
  BY <1>3, <1>6
<1> QED BY <1>7, <1>8 DEF SelectNext

\* Taking a request leaves a shorter queue of requests.
LEMMA TakenQueue ==
    ASSUME queue \in Seq(Requested), queue # <<>>
    PROVE  /\ queue[SelectNext] \in Requested
           /\ RemoveAt(queue, SelectNext) \in Seq(Requested)
           /\ Len(RemoveAt(queue, SelectNext)) < Len(queue)
<1>1. SelectNext \in 1..Len(queue)
  BY SelectNextIsFirst
<1> DEFINE n == SelectNext
<1> HIDE DEF n
<1> DEFINE front == SubSeq(queue, 1, n - 1)
           back == SubSeq(queue, n + 1, Len(queue))
<1>2. front \in Seq(Requested) /\ Len(front) = n - 1
  BY <1>1, SubSeqProperties DEF n
<1>3. back \in Seq(Requested) /\ Len(back) = Len(queue) - n
  BY <1>1, SubSeqProperties DEF n
<1>4. RemoveAt(queue, n) = front \o back
  BY DEF RemoveAt
<1> HIDE DEF front, back
<1>5. front \o back \in Seq(Requested) /\ Len(front \o back) = Len(front) + Len(back)
  BY <1>2, <1>3, ConcatProperties
<1>6. n \in 1..Len(queue) /\ Len(queue) \in Nat /\ queue[n] \in Requested
  BY <1>1 DEF n
<1>7. Len(front) + Len(back) = Len(queue) - 1
  BY <1>2, <1>3, <1>6
<1>8. Len(RemoveAt(queue, n)) < Len(queue)
  BY <1>4, <1>5, <1>6, <1>7
<1> QED BY <1>4, <1>5, <1>6, <1>8 DEF n

-----------------------------------------------------------------------------
(* The invariant *)

Known == Hashes \cup {NoHash}

Before == {"idle", "lookup", "lock", "wait", "create"}
Copied == {"clear", "notify"}
Reading == {"build", "acc", "store", "root", "send"}

WorkerRecord ==
    [pc : Before \cup Copied \cup Reading, req : Requested \cup {NoHash},
     set : [kind : {"none", "live", "snapshot"}, hash : Known], seg : Known, acc : Known]

\* What holds of one worker x: a request while it is busy, no set before it
\* found one, the snapshot of its request, and a segment that shows it.
WorkerOK(x) ==
    /\ x.pc # "idle" => x.req \in Requested
    /\ x.pc \in Before => x.set = NoSet
    /\ x.pc = "clear" => x.set.kind = "snapshot"
    /\ x.pc = "notify" => x.set = NoSet \/ x.set.kind = "snapshot"
    /\ x.pc \in Reading => x.set.kind # "none"
    /\ x.set.kind = "snapshot" => x.set.hash = x.req.hash
    /\ x.pc \in Reading \ {"build"} /\ x.set.kind = "snapshot" => x.seg = x.req.hash

\* The inductive invariant: the types, every worker for itself, and the two
\* properties that relate workers, which rest on each other.
ServeInv ==
    /\ queue \in Seq(Requested) /\ Len(queue) <= QueueCapacity
    /\ live \in Known /\ creating \in Known /\ snapshot \in Known
    /\ bitmap \in [hash : Known, acc : Known, root : Known]
    /\ worker \in [Workers -> WorkerRecord]
    /\ \A w \in Workers : WorkerOK(worker[w])
    /\ SingleFlight
    /\ WaiterIsNotified
    /\ SentMatchesRequest

-----------------------------------------------------------------------------
(* What the steps have in common *)

\* The conjuncts of the invariant that are about the workers.
WorkersOK ==
    /\ worker \in [Workers -> WorkerRecord]
    /\ \A w \in Workers : WorkerOK(worker[w])
    /\ SingleFlight
    /\ WaiterIsNotified

\* A worker that changes alone, and neither starts or ends the copying, nor
\* starts to wait, nor owes a notification, leaves the others in order.
LEMMA QuietStep ==
    ASSUME WorkersOK,
           NEW w \in Workers, NEW x \in WorkerRecord, WorkerOK(x),
           worker' = [worker EXCEPT ![w] = x], creating' = creating,
           worker[w].pc \notin {"create", "clear", "notify"},
           x.pc \notin {"create", "wait"}
    PROVE  WorkersOK'
<1>1. /\ worker' \in [Workers -> WorkerRecord]
      /\ worker'[w] = x
      /\ \A v \in Workers : v # w => worker'[v] = worker[v]
  BY DEF WorkersOK
<1>2. \A v \in Workers : WorkerOK(worker'[v])
  BY <1>1 DEF WorkersOK
<1>3. \A v \in Workers : worker'[v].pc = "create" <=> worker[v].pc = "create"
  BY <1>1
<1>4. SingleFlight'
  BY <1>1, <1>3 DEF WorkersOK, SingleFlight
<1>5. WaiterIsNotified'
  <2>1. \A v \in Workers : worker'[v].pc = "wait" => worker[v].pc = "wait"
    BY <1>1
  <2>2. \A v \in Workers : worker[v].pc \in {"create", "clear", "notify"}
                             => worker'[v].pc \in {"create", "clear", "notify"}
    BY <1>1
  <2> QED BY <2>1, <2>2 DEF WorkersOK, WaiterIsNotified
<1> QED BY <1>1, <1>2, <1>4, <1>5 DEF WorkersOK

\* The invariant has no other conjuncts.
LEMMA SplitServeInv ==
    ServeInv <=> /\ queue \in Seq(Requested) /\ Len(queue) <= QueueCapacity
                 /\ live \in Known /\ creating \in Known /\ snapshot \in Known
                 /\ bitmap \in [hash : Known, acc : Known, root : Known]
                 /\ WorkersOK
                 /\ SentMatchesRequest
BY DEF ServeInv, WorkersOK

\* A request has a type and names a header.
LEMMA RequestHash ==
    ASSUME NEW r \in Requested
    PROVE  r.hash \in Hashes /\ r.hash \in Known /\ r.hash # NoHash
BY ServeAssumption DEF Known
-----------------------------------------------------------------------------
(* The steps that are quiet *)

LEMMA TakeRequestStep ==
    ASSUME ServeInv, NEW w \in Workers, TakeRequest(w)
    PROVE  ServeInv'
<1>1. /\ queue' \in Seq(Requested) /\ Len(queue') <= QueueCapacity
      /\ queue[SelectNext] \in Requested
  <2>1. queue \in Seq(Requested) /\ queue # <<>> /\ Len(queue) <= QueueCapacity
    BY DEF ServeInv, TakeRequest
  <2>2. /\ queue[SelectNext] \in Requested
        /\ RemoveAt(queue, SelectNext) \in Seq(Requested)
        /\ Len(RemoveAt(queue, SelectNext)) < Len(queue)
    BY <2>1, TakenQueue
  <2>3. QueueCapacity \in Nat /\ Len(queue) \in Nat
    BY <2>1, ServeAssumption
  <2>4. Len(RemoveAt(queue, SelectNext)) \in Nat
    BY <2>2
  <2> QED BY <2>1, <2>2, <2>3, <2>4 DEF TakeRequest
<1>2. WorkersOK'
  <2>1. CASE UNCHANGED worker
    BY <2>1 DEF ServeInv, TakeRequest, WorkersOK, SingleFlight, WaiterIsNotified
  <2>2. CASE worker' = [worker EXCEPT ![w].pc = "lookup", ![w].req = queue[SelectNext]]
    <3> DEFINE x == [worker[w] EXCEPT !.pc = "lookup", !.req = queue[SelectNext]]
    <3>1. worker[w] \in WorkerRecord /\ WorkerOK(worker[w]) /\ worker[w].pc = "idle"
      BY DEF ServeInv, TakeRequest
    <3>2. x \in WorkerRecord /\ x.pc = "lookup"
      BY <1>1, <3>1 DEF WorkerRecord, Before
    <3>3. WorkerOK(x)
      BY <1>1, <3>1 DEF WorkerOK, WorkerRecord, Before, Reading, NoSet
    <3>4. worker' = [worker EXCEPT ![w] = x] /\ creating' = creating
      BY <2>2 DEF ServeInv, TakeRequest
    <3>5. WorkersOK
      BY SplitServeInv
    <3> HIDE DEF x
    <3> QED BY <3>1, <3>2, <3>3, <3>4, <3>5, QuietStep
  <2> QED BY <2>1, <2>2 DEF TakeRequest
<1>3. SentMatchesRequest'
  BY DEF ServeInv, TakeRequest, SentMatchesRequest
<1>4. UNCHANGED <<live, creating, snapshot, bitmap>>
  BY DEF TakeRequest
<1> QED BY <1>1, <1>2, <1>3, <1>4 DEF ServeInv, WorkersOK

\* The same for the whole invariant, when at most the bitmap cache changes too.
LEMMA QuietStepInv ==
    ASSUME ServeInv,
           NEW w \in Workers, NEW x \in WorkerRecord, WorkerOK(x),
           worker' = [worker EXCEPT ![w] = x],
           UNCHANGED <<queue, live, creating, snapshot, sentStale>>,
           bitmap' \in [hash : Known, acc : Known, root : Known],
           worker[w].pc \notin {"create", "clear", "notify"},
           x.pc \notin {"create", "wait"}
    PROVE  ServeInv'
<1>1. WorkersOK'
  BY SplitServeInv, QuietStep
<1>2. SentMatchesRequest'
  BY DEF ServeInv, SentMatchesRequest
<1> QED BY <1>1, <1>2 DEF ServeInv, WorkersOK

\* What is known of a worker that has something to do.
LEMMA BusyWorker ==
    ASSUME ServeInv, NEW w \in Workers, worker[w].pc # "idle"
    PROVE  /\ worker[w] \in WorkerRecord /\ WorkerOK(worker[w])
           /\ worker[w].req \in Requested /\ worker[w].req.hash \in Hashes
           /\ ContentOf(worker[w].set) \in Known
<1>1. worker[w] \in WorkerRecord /\ WorkerOK(worker[w])
  BY DEF ServeInv
<1>2. worker[w].req \in Requested
  BY <1>1 DEF WorkerOK
<1>3. worker[w].req.hash \in Hashes
  BY <1>2, RequestHash
<1>4. ContentOf(worker[w].set) \in Known
  BY <1>1 DEF ServeInv, ContentOf, WorkerRecord
<1> QED BY <1>1, <1>2, <1>3, <1>4

\* A worker without a task is in order.
LEMMA IdleWorker == Idle \in WorkerRecord /\ WorkerOK(Idle) /\ Idle.pc = "idle"
BY DEF Idle, WorkerRecord, WorkerOK, Before, Copied, Reading, NoSet, Known

LEMMA LookupLiveStep ==
    ASSUME ServeInv, NEW w \in Workers, LookupLive(w)
    PROVE  ServeInv'
<1>1. worker[w].pc = "lookup" /\ bitmap' = bitmap /\ bitmap \in [hash : Known, acc : Known, root : Known]
  BY DEF LookupLive, ServeInv
<1>2. worker[w] \in WorkerRecord /\ WorkerOK(worker[w]) /\ worker[w].req \in Requested
  BY <1>1, BusyWorker
<1>3. UNCHANGED <<queue, live, creating, snapshot, sentStale>>
  BY DEF LookupLive
<1>4. CASE live = worker[w].req.hash
  <2> DEFINE x == [worker[w] EXCEPT !.set = LiveSet, !.pc = "build"]
  <2>1. x \in WorkerRecord /\ x.pc = "build"
    BY <1>2 DEF WorkerRecord, LiveSet, Known, Reading
  <2>2. WorkerOK(x)
    BY <1>2 DEF WorkerOK, WorkerRecord, Before, Reading, LiveSet, NoSet
  <2>3. worker' = [worker EXCEPT ![w] = x]
    BY <1>4 DEF LookupLive, Got, ServeInv
  <2> HIDE DEF x
  <2> QED BY <1>1, <1>3, <2>1, <2>2, <2>3, QuietStepInv
<1>5. CASE live # worker[w].req.hash
  <2> DEFINE x == [worker[w] EXCEPT !.pc = "lock"]
  <2>1. x \in WorkerRecord /\ x.pc = "lock"
    BY <1>2 DEF WorkerRecord, Before
  <2>2. WorkerOK(x)
    BY <1>1, <1>2 DEF WorkerOK, WorkerRecord, Before, Reading, NoSet
  <2>3. worker' = [worker EXCEPT ![w] = x]
    BY <1>5 DEF LookupLive, ServeInv
  <2> HIDE DEF x
  <2> QED BY <1>1, <1>3, <2>1, <2>2, <2>3, QuietStepInv
<1> QED BY <1>4, <1>5

LEMMA BuildSegmentStep ==
    ASSUME ServeInv, NEW w \in Workers, BuildSegment(w)
    PROVE  ServeInv'
<1>1. worker[w].pc = "build" /\ bitmap' = bitmap /\ bitmap \in [hash : Known, acc : Known, root : Known]
  BY DEF BuildSegment, ServeInv
<1>2. /\ worker[w] \in WorkerRecord /\ WorkerOK(worker[w]) /\ worker[w].req \in Requested
      /\ ContentOf(worker[w].set) \in Known
  BY <1>1, BusyWorker
<1>3. UNCHANGED <<queue, live, creating, snapshot, sentStale>>
  BY DEF BuildSegment
<1> DEFINE c == ContentOf(worker[w].set)
           p == IF worker[w].req.type = "kernel" THEN "send" ELSE "acc"
           x == [worker[w] EXCEPT !.seg = c, !.pc = p]
<1>4. x \in WorkerRecord /\ x.pc \in {"send", "acc"}
  BY <1>2 DEF WorkerRecord, Reading
<1>5. WorkerOK(x)
  BY <1>1, <1>2 DEF WorkerOK, WorkerRecord, Before, Reading, NoSet, ContentOf
<1>6. worker' = [worker EXCEPT ![w] = x]
  BY DEF BuildSegment, ServeInv
<1> HIDE DEF x
<1> QED BY <1>1, <1>3, <1>4, <1>5, <1>6, QuietStepInv

LEMMA BuildFailsStep ==
    ASSUME ServeInv, NEW w \in Workers, BuildFails(w)
    PROVE  ServeInv'
<1>1. /\ worker[w].pc = "build" /\ bitmap' = bitmap /\ bitmap \in [hash : Known, acc : Known, root : Known]
      /\ UNCHANGED <<queue, live, creating, snapshot, sentStale>>
      /\ worker' = [worker EXCEPT ![w] = Idle]
  BY DEF BuildFails, ServeInv
<1> QED BY <1>1, IdleWorker, QuietStepInv

LEMMA LookupBitmapStep ==
    ASSUME ServeInv, NEW w \in Workers, LookupBitmap(w)
    PROVE  ServeInv'
<1>1. worker[w].pc = "acc" /\ bitmap' = bitmap /\ bitmap \in [hash : Known, acc : Known, root : Known]
  BY DEF LookupBitmap, ServeInv
<1>2. /\ worker[w] \in WorkerRecord /\ WorkerOK(worker[w]) /\ worker[w].req \in Requested
      /\ ContentOf(worker[w].set) \in Known
  BY <1>1, BusyWorker
<1>3. UNCHANGED <<queue, live, creating, snapshot, sentStale>>
  BY DEF LookupBitmap
<1>4. PICK a \in Known, p \in {"root", "store"} :
        worker' = [worker EXCEPT ![w] = [worker[w] EXCEPT !.acc = a, !.pc = p]]
  <2>1. CASE bitmap.hash = worker[w].req.hash /\ bitmap.acc # NoHash
    <3>1. bitmap.acc \in Known
      BY <1>1
    <3>2. worker' = [worker EXCEPT ![w] = [worker[w] EXCEPT !.acc = bitmap.acc, !.pc = "root"]]
      BY <2>1 DEF LookupBitmap, ServeInv
    <3> QED BY <3>1, <3>2
  <2>2. CASE ~(bitmap.hash = worker[w].req.hash /\ bitmap.acc # NoHash)
    <3>1. worker' = [worker EXCEPT ![w] = [worker[w] EXCEPT !.acc = ContentOf(worker[w].set), !.pc = "store"]]
      BY <2>2 DEF LookupBitmap, ServeInv
    <3> QED BY <1>2, <3>1
  <2> QED BY <2>1, <2>2
<1> DEFINE x == [worker[w] EXCEPT !.acc = a, !.pc = p]
<1>5. x \in WorkerRecord /\ x.pc \in {"root", "store"}
  BY <1>2 DEF WorkerRecord, Reading
<1>6. WorkerOK(x)
  BY <1>1, <1>2 DEF WorkerOK, WorkerRecord, Before, Reading, NoSet
<1>7. worker' = [worker EXCEPT ![w] = x]
  BY <1>4
<1> HIDE DEF x
<1> QED BY <1>1, <1>3, <1>5, <1>6, <1>7, QuietStepInv

LEMMA StoreBitmapStep ==
    ASSUME ServeInv, NEW w \in Workers, StoreBitmap(w)
    PROVE  ServeInv'
<1>1. worker[w].pc = "store"
  BY DEF StoreBitmap
<1>2. /\ worker[w] \in WorkerRecord /\ WorkerOK(worker[w])
      /\ worker[w].req \in Requested /\ worker[w].req.hash \in Hashes
  BY <1>1, BusyWorker
<1>3. UNCHANGED <<queue, live, creating, snapshot, sentStale>>
  BY DEF StoreBitmap
<1>4. bitmap' \in [hash : Known, acc : Known, root : Known]
  BY <1>2 DEF StoreBitmap, WorkerRecord, Known
<1> DEFINE x == [worker[w] EXCEPT !.pc = "root"]
<1>5. x \in WorkerRecord /\ x.pc = "root"
  BY <1>2 DEF WorkerRecord, Reading
<1>6. WorkerOK(x)
  BY <1>1, <1>2 DEF WorkerOK, WorkerRecord, Before, Reading, NoSet
<1>7. worker' = [worker EXCEPT ![w] = x]
  BY DEF StoreBitmap, ServeInv
<1> HIDE DEF x
<1> QED BY <1>1, <1>3, <1>4, <1>5, <1>6, <1>7, QuietStepInv

LEMMA LookupRootStep ==
    ASSUME ServeInv, NEW w \in Workers, LookupRoot(w)
    PROVE  ServeInv'
<1>1. worker[w].pc = "root" /\ bitmap \in [hash : Known, acc : Known, root : Known]
  BY DEF LookupRoot, ServeInv
<1>2. /\ worker[w] \in WorkerRecord /\ WorkerOK(worker[w])
      /\ worker[w].req \in Requested /\ worker[w].req.hash \in Hashes
      /\ ContentOf(worker[w].set) \in Known
  BY <1>1, BusyWorker
<1>3. UNCHANGED <<queue, live, creating, snapshot, sentStale>>
  BY DEF LookupRoot
<1>4. bitmap' \in [hash : Known, acc : Known, root : Known]
  BY <1>1, <1>2 DEF LookupRoot, Known
<1> DEFINE x == [worker[w] EXCEPT !.acc = NoHash, !.pc = "send"]
<1>5. x \in WorkerRecord /\ x.pc = "send"
  BY <1>2 DEF WorkerRecord, Reading, Known
<1>6. WorkerOK(x)
  BY <1>1, <1>2 DEF WorkerOK, WorkerRecord, Before, Reading, NoSet
<1>7. worker' = [worker EXCEPT ![w] = x]
  BY DEF LookupRoot, ServeInv
<1> HIDE DEF x
<1> QED BY <1>1, <1>3, <1>4, <1>5, <1>6, <1>7, QuietStepInv

\* What is sent without being what was asked for is a bitmap segment of the
\* node's own set: the other types are checked, and a snapshot does not change.
LEMMA SendSegmentStep ==
    ASSUME ServeInv, NEW w \in Workers, SendSegment(w)
    PROVE  ServeInv'
<1>1. worker[w].pc = "send" /\ worker' = [worker EXCEPT ![w] = Idle]
  BY DEF SendSegment
<1>2. /\ worker[w] \in WorkerRecord /\ WorkerOK(worker[w]) /\ worker[w].req \in Requested
  BY <1>1, BusyWorker
<1>3. UNCHANGED <<queue, live, creating, snapshot, bitmap>>
  BY DEF SendSegment
<1>4. WorkersOK'
  BY <1>1, <1>3, IdleWorker, QuietStep, SplitServeInv
<1>5. SentMatchesRequest'
  <2>1. worker[w].set.kind \in {"live", "snapshot"}
    BY <1>1, <1>2 DEF WorkerOK, WorkerRecord, Reading
  <2>2. worker[w].set.kind = "snapshot" => worker[w].seg = worker[w].req.hash
    BY <1>1, <1>2 DEF WorkerOK, Reading
  <2>3. \/ sentStale' = sentStale
        \/ /\ worker[w].req.type = "bitmap" /\ worker[w].seg # worker[w].req.hash
           /\ sentStale' = sentStale \cup {<<worker[w].req.type, worker[w].set.kind>>}
    BY DEF SendSegment, Validates
  <2>4. sentStale \subseteq {<<"bitmap", "live">>}
    BY DEF ServeInv, SentMatchesRequest
  <2> QED BY <2>1, <2>2, <2>3, <2>4 DEF SentMatchesRequest
<1> QED BY <1>3, <1>4, <1>5 DEF ServeInv, WorkersOK
-----------------------------------------------------------------------------
(* The steps of the handover: who copies, who waits, who notifies *)

LEMMA LookupSnapshotStep ==
    ASSUME ServeInv, NEW w \in Workers, LookupSnapshot(w)
    PROVE  ServeInv'
<1>1. worker[w].pc = "lock" /\ bitmap' = bitmap /\ bitmap \in [hash : Known, acc : Known, root : Known]
  BY DEF LookupSnapshot, ServeInv
<1>2. /\ worker[w] \in WorkerRecord /\ WorkerOK(worker[w])
      /\ worker[w].req \in Requested /\ worker[w].req.hash \in Hashes
  BY <1>1, BusyWorker
<1>3. UNCHANGED <<queue, live, snapshot, bitmap, sentStale>>
  BY DEF LookupSnapshot
<1>4. CASE snapshot = worker[w].req.hash /\ Got(w, SnapshotSet(snapshot)) /\ UNCHANGED creating
  <2> DEFINE x == [worker[w] EXCEPT !.set = SnapshotSet(snapshot), !.pc = "build"]
  <2>1. x \in WorkerRecord /\ x.pc = "build"
    BY <1>2, <1>4 DEF WorkerRecord, SnapshotSet, Known, Reading
  <2>2. WorkerOK(x)
    BY <1>2, <1>4 DEF WorkerOK, WorkerRecord, Before, Reading, SnapshotSet, NoSet
  <2>3. worker' = [worker EXCEPT ![w] = x]
    BY <1>4 DEF Got, ServeInv
  <2> HIDE DEF x
  <2> QED BY <1>1, <1>3, <1>4, <2>1, <2>2, <2>3, QuietStepInv
<1>5. CASE creating # NoHash /\ worker' = [worker EXCEPT ![w].pc = "wait"] /\ UNCHANGED creating
  <2>1. /\ worker' \in [Workers -> WorkerRecord]
        /\ \A v \in Workers : v # w => worker'[v] = worker[v]
        /\ worker'[w] = [worker[w] EXCEPT !.pc = "wait"]
    BY <1>2, <1>5 DEF ServeInv, WorkerRecord, Before
  <2>2. WorkerOK(worker'[w]) /\ worker'[w].pc = "wait"
    BY <1>1, <1>2, <2>1 DEF WorkerOK, WorkerRecord, Before, Reading, NoSet
  <2>3. \A v \in Workers : WorkerOK(worker'[v])
    BY <2>1, <2>2 DEF ServeInv
  <2>4. \A v \in Workers : worker'[v].pc = "create" <=> worker[v].pc = "create"
    BY <1>1, <2>1, <2>2
  <2>5. SingleFlight'
    BY <1>5, <2>1, <2>2, <2>4 DEF ServeInv, SingleFlight
  <2>6. WaiterIsNotified'
    <3>1. PICK v \in Workers : worker[v].pc = "create"
      BY <1>5 DEF ServeInv, SingleFlight
    <3> QED BY <2>4, <3>1 DEF WaiterIsNotified
  <2>7. SentMatchesRequest'
    BY <1>3 DEF ServeInv, SentMatchesRequest
  <2> QED BY <1>3, <1>5, <2>1, <2>3, <2>5, <2>6, <2>7 DEF ServeInv
<1>6. CASE /\ creating = NoHash /\ creating' = worker[w].req.hash
           /\ worker' = [worker EXCEPT ![w].pc = "create"]
  <2>1. /\ worker' \in [Workers -> WorkerRecord]
        /\ \A v \in Workers : v # w => worker'[v] = worker[v]
        /\ worker'[w] = [worker[w] EXCEPT !.pc = "create"]
    BY <1>2, <1>6 DEF ServeInv, WorkerRecord, Before
  <2>2. /\ WorkerOK(worker'[w]) /\ worker'[w].pc = "create" /\ worker'[w].req = worker[w].req
    BY <1>1, <1>2, <2>1 DEF WorkerOK, WorkerRecord, Before, Reading, NoSet
  <2>3. \A v \in Workers : WorkerOK(worker'[v])
    BY <2>1, <2>2 DEF ServeInv
  <2>4. \A v \in Workers : worker[v].pc # "create"
    BY <1>6 DEF ServeInv, SingleFlight
  <2>5. SingleFlight'
    <3>1. creating' # NoHash
      BY <1>2, <1>6, RequestHash
    <3> QED BY <1>6, <2>1, <2>2, <2>4, <3>1 DEF SingleFlight
  <2>6. WaiterIsNotified'
    BY <2>2 DEF WaiterIsNotified
  <2>7. SentMatchesRequest' /\ creating' \in Known
    BY <1>2, <1>3, <1>6 DEF ServeInv, SentMatchesRequest, Known
  <2> QED BY <1>3, <2>1, <2>3, <2>5, <2>6, <2>7 DEF ServeInv
<1> QED BY <1>4, <1>5, <1>6 DEF LookupSnapshot

\* The copying ends, well or not: the worker is the only one that copied, and
\* it owes the others a notification.
LEMMA CopyEnds ==
    ASSUME WorkersOK,
           NEW w \in Workers, NEW x \in WorkerRecord, WorkerOK(x),
           worker[w].pc = "create", x.pc \in {"clear", "notify"},
           worker' = [worker EXCEPT ![w] = x], creating' = NoHash
    PROVE  WorkersOK'
<1>1. /\ worker' \in [Workers -> WorkerRecord]
      /\ worker'[w] = x
      /\ \A v \in Workers : v # w => worker'[v] = worker[v]
  BY DEF WorkersOK
<1>2. \A v \in Workers : WorkerOK(worker'[v])
  BY <1>1 DEF WorkersOK
<1>3. \A v \in Workers : worker'[v].pc # "create"
  BY <1>1 DEF WorkersOK, SingleFlight
<1>4. SingleFlight'
  BY <1>3 DEF SingleFlight
<1>5. WaiterIsNotified'
  BY <1>1 DEF WaiterIsNotified
<1> QED BY <1>1, <1>2, <1>4, <1>5 DEF WorkersOK

LEMMA CreateSnapshotStep ==
    ASSUME ServeInv, NEW w \in Workers, CreateSnapshot(w)
    PROVE  ServeInv'
<1>1. worker[w].pc = "create" /\ creating' = NoHash /\ UNCHANGED <<queue, live, bitmap, sentStale>>
  BY DEF CreateSnapshot
<1>2. /\ worker[w] \in WorkerRecord /\ WorkerOK(worker[w])
      /\ worker[w].req \in Requested /\ worker[w].req.hash \in Hashes
  BY <1>1, BusyWorker
<1> DEFINE x == [worker[w] EXCEPT !.set = SnapshotSet(worker[w].req.hash), !.pc = "clear"]
<1>3. x \in WorkerRecord /\ x.pc = "clear"
  BY <1>2 DEF WorkerRecord, SnapshotSet, Known, Copied
<1>4. WorkerOK(x)
  BY <1>2 DEF WorkerOK, WorkerRecord, Before, Reading, SnapshotSet
<1>5. worker' = [worker EXCEPT ![w] = x]
  BY DEF CreateSnapshot, ServeInv
<1>6. WorkersOK'
  <2> HIDE DEF x
  <2> QED BY <1>1, <1>3, <1>4, <1>5, SplitServeInv, CopyEnds
<1>7. snapshot' \in Known /\ creating' \in Known
  BY <1>1, <1>2 DEF CreateSnapshot, Known
<1>8. SentMatchesRequest'
  BY <1>1 DEF ServeInv, SentMatchesRequest
<1> QED BY <1>1, <1>6, <1>7, <1>8 DEF ServeInv, WorkersOK

LEMMA CreateSnapshotFailsStep ==
    ASSUME ServeInv, NEW w \in Workers, CreateSnapshotFails(w)
    PROVE  ServeInv'
<1>1. worker[w].pc = "create" /\ creating' = NoHash /\ UNCHANGED <<queue, live, snapshot, bitmap, sentStale>>
  BY DEF CreateSnapshotFails
<1>2. worker[w] \in WorkerRecord /\ WorkerOK(worker[w]) /\ worker[w].req \in Requested
  BY <1>1, BusyWorker
<1> DEFINE x == [worker[w] EXCEPT !.pc = "notify"]
<1>3. x \in WorkerRecord /\ x.pc = "notify"
  BY <1>2 DEF WorkerRecord, Copied
<1>4. WorkerOK(x)
  BY <1>1, <1>2 DEF WorkerOK, WorkerRecord, Before, Reading, NoSet
<1>5. worker' = [worker EXCEPT ![w] = x]
  BY DEF CreateSnapshotFails, ServeInv
<1>6. WorkersOK'
  <2> HIDE DEF x
  <2> QED BY <1>1, <1>3, <1>4, <1>5, SplitServeInv, CopyEnds
<1>7. SentMatchesRequest' /\ creating' \in Known
  BY <1>1 DEF ServeInv, SentMatchesRequest, Known
<1> QED BY <1>1, <1>6, <1>7 DEF ServeInv, WorkersOK

LEMMA ClearBitmapCacheStep ==
    ASSUME ServeInv, NEW w \in Workers, ClearBitmapCache(w)
    PROVE  ServeInv'
<1>1. worker[w].pc = "clear" /\ UNCHANGED <<queue, live, creating, snapshot, sentStale>>
  BY DEF ClearBitmapCache
<1>2. worker[w] \in WorkerRecord /\ WorkerOK(worker[w]) /\ worker[w].req \in Requested
  BY <1>1, BusyWorker
<1>3. /\ worker' \in [Workers -> WorkerRecord]
      /\ \A v \in Workers : v # w => worker'[v] = worker[v]
      /\ worker'[w] = [worker[w] EXCEPT !.pc = "notify"]
  BY <1>2 DEF ClearBitmapCache, ServeInv, WorkerRecord, Copied
<1>4. WorkerOK(worker'[w]) /\ worker'[w].pc = "notify"
  BY <1>1, <1>2, <1>3 DEF WorkerOK, WorkerRecord, Before, Reading, NoSet
<1>5. \A v \in Workers : WorkerOK(worker'[v])
  BY <1>3, <1>4 DEF ServeInv
<1>6. SingleFlight'
  <2>1. \A v \in Workers : worker'[v].pc = "create" <=> worker[v].pc = "create"
    BY <1>1, <1>3, <1>4
  <2> QED BY <1>1, <1>3, <1>4, <2>1 DEF ServeInv, SingleFlight
<1>7. WaiterIsNotified'
  BY <1>4 DEF WaiterIsNotified
<1>8. SentMatchesRequest' /\ bitmap' \in [hash : Known, acc : Known, root : Known]
  BY <1>1 DEF ServeInv, SentMatchesRequest, ClearBitmapCache, NoBitmap, Known
<1> QED BY <1>1, <1>3, <1>5, <1>6, <1>7, <1>8 DEF ServeInv

\* notify_all leaves nobody waiting.
LEMMA NotifyAllStep ==
    ASSUME ServeInv, NEW w \in Workers, NotifyAll(w)
    PROVE  ServeInv'
<1>1. worker[w].pc = "notify" /\ UNCHANGED <<queue, live, creating, snapshot, bitmap, sentStale>>
  BY DEF NotifyAll
<1>2. \A v \in Workers : worker[v] \in WorkerRecord /\ WorkerOK(worker[v])
  BY DEF ServeInv
<1>3. \A v \in Workers : \/ v = w /\ worker'[v] = Idle
                         \/ /\ v = w /\ worker[w].set # NoSet
                            /\ worker'[v] = [worker[v] EXCEPT !.pc = "build"]
                         \/ v # w /\ worker[v].pc = "wait" /\ worker'[v] = [worker[v] EXCEPT !.pc = "lock"]
                         \/ v # w /\ worker[v].pc # "wait" /\ worker'[v] = worker[v]
  BY DEF NotifyAll
<1>4. \A v \in Workers : /\ worker'[v] \in WorkerRecord /\ WorkerOK(worker'[v])
                         /\ worker'[v].pc # "wait"
                         /\ worker'[v].pc = "create" <=> worker[v].pc = "create"
                         /\ worker[v].pc = "create" => worker'[v].req = worker[v].req
  <2> SUFFICES ASSUME NEW v \in Workers
               PROVE  /\ worker'[v] \in WorkerRecord /\ WorkerOK(worker'[v])
                      /\ worker'[v].pc # "wait"
                      /\ worker'[v].pc = "create" <=> worker[v].pc = "create"
                      /\ worker[v].pc = "create" => worker'[v].req = worker[v].req
    OBVIOUS
  <2>1. CASE v = w /\ worker'[v] = Idle
    BY <1>1, <2>1, IdleWorker
  <2>2. CASE v = w /\ worker[w].set # NoSet /\ worker'[v] = [worker[v] EXCEPT !.pc = "build"]
    BY <1>1, <1>2, <2>2 DEF WorkerRecord, WorkerOK, Before, Reading, NoSet
  <2>3. CASE v # w /\ worker[v].pc = "wait" /\ worker'[v] = [worker[v] EXCEPT !.pc = "lock"]
    BY <1>2, <2>3 DEF WorkerRecord, WorkerOK, Before, Reading, NoSet
  <2>4. CASE v # w /\ worker[v].pc # "wait" /\ worker'[v] = worker[v]
    BY <1>2, <2>4
  <2> QED BY <1>3, <2>1, <2>2, <2>3, <2>4
<1>5. worker' \in [Workers -> WorkerRecord]
  BY <1>4 DEF NotifyAll
<1>6. SingleFlight'
  BY <1>1, <1>4 DEF ServeInv, SingleFlight
<1>7. WaiterIsNotified'
  BY <1>4 DEF WaiterIsNotified
<1>8. SentMatchesRequest'
  BY <1>1 DEF ServeInv, SentMatchesRequest
<1> QED BY <1>1, <1>4, <1>5, <1>6, <1>7, <1>8 DEF ServeInv

-----------------------------------------------------------------------------
(* The theorems *)

LEMMA ServeInitOK == ServeInit => ServeInv
<1> SUFFICES ASSUME ServeInit PROVE ServeInv
  OBVIOUS
<1>1. queue \in Seq(Requested) /\ Len(queue) <= QueueCapacity
  BY ServeAssumption DEF ServeInit
<1>2. worker \in [Workers -> WorkerRecord] /\ \A w \in Workers : worker[w] = Idle
  BY IdleWorker DEF ServeInit
<1>3. \A w \in Workers : WorkerOK(worker[w]) /\ worker[w].pc = "idle"
  BY <1>2, IdleWorker
<1>4. SingleFlight /\ WaiterIsNotified /\ SentMatchesRequest
  BY <1>3 DEF ServeInit, SingleFlight, WaiterIsNotified, SentMatchesRequest
<1>5. live \in Known /\ creating \in Known /\ snapshot \in Known /\ bitmap \in [hash : Known, acc : Known, root : Known]
  BY ServeAssumption DEF ServeInit, Known, NoBitmap
<1> QED BY <1>1, <1>2, <1>3, <1>4, <1>5 DEF ServeInv

LEMMA ServeNextOK == ServeInv /\ [ServeNext]_serveVars => ServeInv'
<1> SUFFICES ASSUME ServeInv, [ServeNext]_serveVars PROVE ServeInv'
  OBVIOUS
<1>1. CASE UNCHANGED serveVars
  BY <1>1 DEF serveVars, ServeInv, SingleFlight, WaiterIsNotified, SentMatchesRequest
<1>2. ASSUME NEW r \in Requested, Enqueue(r) PROVE ServeInv'
  <2>1. queue' \in Seq(Requested) /\ Len(queue') <= QueueCapacity
    BY <1>2, ServeAssumption DEF Enqueue, ServeInv
  <2> QED BY <1>2, <2>1 DEF Enqueue, ServeInv, SingleFlight, WaiterIsNotified, SentMatchesRequest
<1>3. ASSUME NEW h \in Hashes \cup {NoHash}, MoveLive(h) PROVE ServeInv'
  BY <1>3 DEF MoveLive, ServeInv, Known, SingleFlight, WaiterIsNotified, SentMatchesRequest
<1>4. ASSUME NEW w \in Workers, WorkerStep(w) PROVE ServeInv'
  BY <1>4, TakeRequestStep, LookupLiveStep, LookupSnapshotStep, CreateSnapshotStep,
     CreateSnapshotFailsStep, ClearBitmapCacheStep, NotifyAllStep, BuildSegmentStep,
     BuildFailsStep, LookupBitmapStep, StoreBitmapStep, LookupRootStep, SendSegmentStep
     DEF WorkerStep
<1> QED BY <1>1, <1>2, <1>3, <1>4 DEF ServeNext

LEMMA ServeInvariant == ServeSpec => []ServeInv
<1> QED BY ServeInitOK, ServeNextOK, PTL DEF ServeSpec

\* Whatever the number of workers, the snapshot is created by one of them at a
\* time (GetSegmentTxHashSet), and the hash that announces it is the one of
\* that worker's request.
THEOREM CopiesOneAtATime == ServeSpec => []SingleFlight
<1>1. ServeInv => SingleFlight
  BY DEF ServeInv
<1> QED BY <1>1, ServeInvariant, PTL

\* No wake-up is lost: as long as a worker waits on the condition variable,
\* another one copies or is on the way to notify_all.
THEOREM NoLostWakeUp == ServeSpec => []WaiterIsNotified
<1>1. ServeInv => WaiterIsNotified
  BY DEF ServeInv
<1> QED BY <1>1, ServeInvariant, PTL

\* What is sent shows the header that was asked for, unless it is a bitmap
\* segment of the set that moves with the chain.
THEOREM SendsWhatWasAsked == ServeSpec => []SentMatchesRequest
<1>1. ServeInv => SentMatchesRequest
  BY DEF ServeInv
<1> QED BY <1>1, ServeInvariant, PTL
=============================================================================
