------------------------------- MODULE Locks --------------------------------
(***************************************************************************)
(* The locks of the node.  Locked<T> (Lockable.h) guards an object by a    *)
(* shared mutex: Read() gives a Reader, which holds the mutex shared,      *)
(* Write() and BatchWrite() give a Writer, which holds it alone.  When the *)
(* last copy of a Writer goes away, it commits the object (Write) or rolls *)
(* it back (BatchWrite) and releases the mutex.  MultiLocker takes several *)
(* mutexes at once with std::lock, which never waits for one while it      *)
(* holds another of them.                                                  *)
(*                                                                         *)
(* A Writer of the chain state is also a batch Writer of its four parts.   *)
(* The other users of the parts, and of the mutexes of the transaction     *)
(* pool and of the PIBD pipe, take them in the order that their code calls *)
(* for.  A call is the sequence of what it does to the mutexes; several    *)
(* threads run such calls.                                                 *)
(***************************************************************************)
EXTENDS Naturals, Sequences

CONSTANTS Threads,
          CallsOf       \* the calls that each thread makes

VARIABLES held,     \* held[t][m]: how thread t holds mutex m: "S", "X" or "-"
          todo,     \* what the call of each thread has still to do
          shown,      \* the batch that each part shows
          stored,     \* the batch that each part has committed
          loose,    \* the parts with changes that are not committed
          torn      \* a commit failed after it had committed some of the parts

lockVars == <<held, todo, shown, stored, loose, torn>>

\* The parts in the order in which ChainState::Commit commits them.
Part == <<"store", "db", "mmr", "set">>
Parts == {"store", "db", "mmr", "set"}
Mutex == Parts \cup {"state", "pool", "pibd"}

\* A lock and its mode, or what a kind of Writer does.
Step ==
    [op : {"lock"}, on : SUBSET Mutex, by : {"S", "X"}]
      \cup [op : {"end", "change", "commit", "rollback"}, on : SUBSET Mutex, by : {"plain", "batch"}]

Do(op, on, by) == <<[op |-> op, on |-> on, by |-> by]>>
Share(m) == Do("lock", {m}, "S")
Own(m) == Do("lock", {m}, "X")

\* A Reader, a plain Writer or a lock_guard goes away; and a batch Writer.
End(m) == Do("end", {m}, "plain")
EndBatch(m) == Do("end", {m}, "batch")

\* A lookup in the chain state: GetTipBlockHeader, GetBlockHeaderByHeight, ...
ReadChain == Share("state") \o Share("store") \o End("store") \o Share("db") \o End("db") \o End("state")

\* ~InnerWriter of the chain state: its parts are released one by one.
EndParts == EndBatch("store") \o EndBatch("db") \o EndBatch("mmr") \o EndBatch("set")
EndState == Do("rollback", Parts, "batch") \o EndParts \o End("state")

\* Locked<ChainState>::BatchWrite, with a body that may change the parts, update
\* the pool (ReconcileBlock) and commit.
BatchWrite ==
    Own("state") \o Do("lock", Parts, "X") \o Do("change", Parts, "batch") \o Own("pool") \o End("pool")
      \o Do("commit", Parts, "batch") \o EndState

\* Locked<ChainState>::Write: its users change nothing that has to be committed.
Write == Own("state") \o Do("lock", Parts, "X") \o Do("commit", Parts, "plain") \o EndParts \o End("state")

\* The readers are the arguments of the call of the pool, in either order.
AddTransaction ==
    {Share("state") \o Share("store") \o End("store") \o Share("db") \o End("db") \o p
       \o Own("pool") \o End("pool") \o End("set") \o End("db") \o End("state") :
         p \in {Share("db") \o Share("set"), Share("set") \o Share("db")}}

GetOutputType == Share("state") \o Share("db") \o Share("set") \o End("set") \o End("db") \o End("state")

ProcessStemPhase == Do("lock", {"db", "set"}, "S") \o Own("pool") \o End("pool") \o End("set") \o End("db")

PostTransaction == ReadChain \o Share("db") \o Own("pool") \o End("pool") \o End("db")

\* The block of a height and the outputs of that block, height by height.  The
\* form that keeps the reader of the database for the next height is not the code.
GetOutputsHolding == ReadChain \o Share("db") \o ReadChain \o End("db")
GetOutputs == ReadChain \o Share("db") \o End("db")

GetSegmentTxHashSet == Share("set") \o End("set")

\* A stored archive header is looked up while the TxHashSet is locked.
StartPIBDCalls ==
    {Own("pibd") \o Share("set") \o p \o End("set") \o Own("set") \o Do("change", {"set"}, "plain")
       \o End("set") \o ReadChain \o End("pibd") : p \in {<<>>, ReadChain}}

\* When a segment cannot be applied the status is updated, and for that headers
\* are looked up, while the TxHashSet is locked.
RequestSegmentsCalls ==
    {Own("pibd") \o Own("set") \o Do("change", {"set"}, "plain") \o p \o End("set") \o ReadChain \o End("pibd") :
       p \in {<<>>, ReadChain}}

Calls ==
    {ReadChain, BatchWrite, Write, GetOutputType, ProcessStemPhase, PostTransaction, GetOutputs,
     GetSegmentTxHashSet} \cup AddTransaction \cup StartPIBDCalls \cup RequestSegmentsCalls

Frees(step, p) == step.op = "end" /\ step.on = {p}
TakesParts(step) == step.op = "lock" /\ step.on = Parts /\ step.by = "X"
OnParts(step) == step.op \in {"lock", "end"} /\ step.on \cap Parts # {}

\* What a call changes it locks no more, which std::lock would give back unfinished.
ChangesLast(call) ==
    \A i, j \in 1..Len(call) :
      i < j /\ call[i].op = "change" /\ call[j].op = "lock" => call[i].on \cap call[j].on = {}

\* What a batch changed is committed or rolled back before one of its parts is released.
RollsBack(call) ==
    \A i, k \in 1..Len(call) :
      i < k /\ call[i].op = "change" /\ call[i].by = "batch" /\ call[k].op = "end" /\ OnParts(call[k])
        => \E j \in (i + 1)..(k - 1) : call[j].op = "rollback"

\* Every lock of a part is released.
Releases(call) ==
    \A i \in 1..Len(call) : call[i].op = "lock" =>
      \A p \in call[i].on \cap Parts : \E k \in (i + 1)..Len(call) : Frees(call[k], p)

\* A batch changes all the parts, and has taken them all at once.
OwnsBatch(call) ==
    \A i \in 1..Len(call) : call[i].op = "change" /\ call[i].by = "batch" =>
      /\ call[i].on = Parts
      /\ \E j \in 1..(i - 1) :
           /\ TakesParts(call[j])
           /\ \A k \in 1..(i - 1) : OnParts(call[k]) => k = j

IsDisciplined(call) == ChangesLast(call) /\ RollsBack(call) /\ Releases(call) /\ OwnsBatch(call)

ASSUME CallsAssumption ==
    \A t \in Threads : \A call \in CallsOf[t] : call \in Seq(Step) /\ IsDisciplined(call)
-----------------------------------------------------------------------------
At(t, op) == todo[t] # <<>> /\ Head(todo[t]).op = op

\* The parts that thread t has a Writer of.
Written(t) == {p \in Parts : held[t][p] = "X"}

\* A shared mutex can be taken.
IsFree(t, m, mode) ==
    \A u \in Threads \ {t} : held[u][m] = "-" \/ (mode = "S" /\ held[u][m] = "S")

Continue(t) == todo' = [todo EXCEPT ![t] = Tail(todo[t])]

Begin(t) ==
    /\ todo[t] = <<>>
    /\ \E c \in CallsOf[t] : todo' = [todo EXCEPT ![t] = c]
    /\ UNCHANGED <<held, shown, stored, loose, torn>>

\* lock(), lock_shared(), or one step of std::lock: it takes one more mutex, or it
\* gives back those that it took since one of the others is not free.
Acquire(t) ==
    /\ At(t, "lock")
    /\ LET s == Head(todo[t])
           mine == {m \in s.on : held[t][m] # "-"}
       IN \E m \in s.on \ mine :
            \/ /\ IsFree(t, m, s.by)
               /\ held' = [held EXCEPT ![t][m] = s.by]
               /\ IF s.on = mine \cup {m} THEN Continue(t) ELSE UNCHANGED todo
            \/ /\ ~IsFree(t, m, s.by) /\ mine # {}
               /\ held' = [held EXCEPT ![t] = [n \in Mutex |-> IF n \in mine THEN "-" ELSE @[n]]]
               /\ UNCHANGED todo
    /\ UNCHANGED <<shown, stored, loose, torn>>

\* ~InnerReader, ~InnerWriter, ~lock_guard.  The form without Rollback is not the
\* code.
EndUnfinished(t) ==
    /\ At(t, "end")
    /\ \E m \in Head(todo[t]).on : held' = [held EXCEPT ![t][m] = "-"]
    /\ Continue(t)
    /\ UNCHANGED <<shown, stored, loose, torn>>
EndHeld(t) ==
    /\ At(t, "end")
    /\ \E m \in Head(todo[t]).on :
         /\ held' = [held EXCEPT ![t][m] = "-"]
         /\ loose' = IF m \in Written(t) THEN loose \ {m} ELSE loose
         /\ shown' = IF m \in Written(t) /\ Head(todo[t]).by = "batch" THEN [shown EXCEPT ![m] = stored[m]] ELSE shown
         /\ stored' = IF m \in Written(t) /\ Head(todo[t]).by = "plain" THEN [stored EXCEPT ![m] = shown[m]] ELSE stored
    /\ Continue(t)
    /\ UNCHANGED torn

\* A batch of the chain state changes all parts; the PIBD pipe applies segments.
Change(t) ==
    /\ At(t, "change") /\ ~torn
    /\ LET changed == Head(todo[t]).on \cap Written(t)
       IN  /\ loose' = loose \cup changed
           /\ shown' = [p \in Parts |-> IF Head(todo[t]).by = "batch" /\ p \in changed
                                         THEN 1 - shown[p] ELSE shown[p]]
    /\ Continue(t)
    /\ UNCHANGED <<held, stored, torn>>

\* ChainState::Commit: the first n parts are committed, and then the Commit of the
\* next one threw.  The set commits in threads, where it would end the process.
CommitFirst(t, n) ==
    /\ stored' = [p \in Parts |-> IF \E i \in 1..n : Part[i] = p THEN shown[p] ELSE stored[p]]
    /\ loose' = loose \ {Part[i] : i \in 1..n}
    /\ torn' = (torn \/ n \in 1..2)
    /\ IF n = 4 THEN Continue(t) ELSE todo' = [todo EXCEPT ![t] = EndState]
    /\ UNCHANGED <<held, shown>>
CommitState(t) ==
    /\ At(t, "commit")
    /\ \E n \in (IF Head(todo[t]).by = "batch" THEN {0, 1, 2, 4} ELSE {4}) : CommitFirst(t, n)

\* ChainState::Rollback.
RollbackState(t) ==
    /\ At(t, "rollback")
    /\ shown' = [p \in Parts |-> IF p \in Written(t) THEN stored[p] ELSE shown[p]]
    /\ loose' = loose \ Written(t)
    /\ Continue(t)
    /\ UNCHANGED <<held, stored, torn>>

\* The body of a batch returns, or throws, before it commits.
LeaveBatch(t) ==
    /\ At(t, "change") \/ At(t, "commit")
    /\ Head(todo[t]).by = "batch"
    /\ todo' = [todo EXCEPT ![t] = EndState]
    /\ UNCHANGED <<held, shown, stored, loose, torn>>

LocksInit ==
    /\ held = [t \in Threads |-> [m \in Mutex |-> "-"]]
    /\ todo = [t \in Threads |-> <<>>]
    /\ shown = [p \in Parts |-> 0] /\ stored = shown
    /\ loose = {} /\ torn = FALSE

LocksNext ==
    \E t \in Threads :
      \/ Begin(t) \/ Acquire(t) \/ EndHeld(t) \/ Change(t)
      \/ CommitState(t) \/ RollbackState(t) \/ LeaveBatch(t)

LocksSpec == LocksInit /\ [][LocksNext]_lockVars
-----------------------------------------------------------------------------
\* A mutex has one owner or several readers.
Exclusive ==
    \A t, u \in Threads, m \in Mutex : t # u /\ held[t][m] = "X" => held[u][m] = "-"

\* A Reader never shows changes that a Writer has not committed, whichever way
\* the body of that Writer was left (~InnerWriter, Lockable.h).
ReadersSeeCommitted ==
    \A t \in Threads, p \in Parts : held[t][p] = "S" => p \notin loose /\ shown[p] = stored[p]

\* Who reads the block database and the TxHashSet together sees them after the
\* same batch, unless a commit failed half way.
SameBatch ==
    \A t \in Threads : held[t]["db"] = "S" /\ held[t]["set"] = "S" /\ ~torn => shown["db"] = shown["set"]

\* Readers see all of a batch or nothing of it (Lockable.h, ChainState::Commit).
ReadersSeeWholeBatches == ReadersSeeCommitted /\ SameBatch

\* Thread t cannot continue before u does: u holds what t waits for, or it waits
\* before t for what t wants to share (a mutex may prefer writers).  What std::lock
\* took it gives back, hence it keeps nobody waiting.
WaitsFor(t, u) ==
    /\ t # u /\ At(t, "lock")
    /\ \E m \in Head(todo[t]).on :
         \/ /\ held[u][m] # "-" /\ (held[u][m] = "X" \/ Head(todo[t]).by = "X")
            /\ ~(At(u, "lock") /\ m \in Head(todo[u]).on)
         \/ /\ Head(todo[t]).by = "S" /\ At(u, "lock")
            /\ m \in Head(todo[u]).on /\ Head(todo[u]).by = "X"

\* A reader of the chain state that still holds the TxHashSet in the PIBD pipe.
LooksUpLocked(t) ==
    /\ held[t]["pibd"] = "X" /\ held[t]["set"] # "-"
    /\ At(t, "lock") /\ Head(todo[t]).on = {"state"}

\* Threads wait for each other in a circle only when the PIBD pipe looks up a
\* header while it holds the TxHashSet (TxHashSetPipe.cpp:1180 and :1297): every
\* other call takes its mutexes in an order that excludes it.
CirclesOnlyInPibd ==
    \A D \in (SUBSET Threads) \ {{}} :
      (\A t \in D : \E u \in D : WaitsFor(t, u)) => \E t \in D : LooksUpLocked(t)
=============================================================================
