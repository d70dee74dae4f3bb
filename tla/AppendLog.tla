----------------------------- MODULE AppendLog -----------------------------
(***************************************************************************)
(* What a batched append-only store promises its users: a committed        *)
(* sequence that survives a restart and a working sequence that readers    *)
(* and the writer of the current batch see.  AppendOnlyFile (bytes)        *)
(* implements it, and the chain and MMR models rely on it.                 *)
(*                                                                         *)
(* health says what became of the writes since the last restart.  After a  *)
(* write that failed and said so ("failed") a part of the committed        *)
(* sequence may be gone, but the batch is still there and can be committed *)
(* again.  After a write that went wrong unnoticed, or a rollback of a     *)
(* batch whose write had failed ("lost"), nothing is promised until the    *)
(* next restart.                                                           *)
(***************************************************************************)
EXTENDS Naturals, Sequences

CONSTANT Value

VARIABLES committed, working, health

logVars == <<committed, working, health>>

Prefix(s, n) == SubSeq(s, 1, n)

LogInit ==
    /\ committed = << >>
    /\ working = << >>
    /\ health = "ok"

\* The batch appends to, or cuts back, what it sees.
LogAppend ==
    /\ health /= "lost"
    /\ working' \in Seq(Value)
    /\ Len(working) <= Len(working')
    /\ Prefix(working', Len(working)) = working
    /\ UNCHANGED <<committed, health>>

LogRewind ==
    /\ health /= "lost"
    /\ \E n \in 0..Len(working) : working' = Prefix(working, n)
    /\ UNCHANGED <<committed, health>>

LogCommit ==
    /\ health /= "lost"
    /\ committed' = working
    /\ health' = "ok"
    /\ UNCHANGED working

LogRollback ==
    /\ health = "ok"
    /\ working' = committed
    /\ UNCHANGED <<committed, health>>

\* A write that fails and says so keeps a beginning of the committed sequence,
\* and all of the batch.
LogFail ==
    /\ health /= "lost"
    /\ \E n \in 0..Len(committed) : committed' = Prefix(committed, n)
    /\ health' = "failed"
    /\ UNCHANGED working

\* A write that goes wrong unnoticed leaves a beginning of the sequence being
\* committed, or has added a piece of it behind the old one; and there is nothing
\* to roll back to after a write has failed.
LogLose ==
    /\ health /= "lost"
    /\ \/ \E n \in 0..Len(working) : committed' = Prefix(working, n)
       \/ \E m \in 1..(Len(working) + 1), n \in 0..Len(working) :
             committed' = committed \o SubSeq(working, m, n)
       \/ health = "failed" /\ UNCHANGED committed
    /\ health' = "lost"

\* A restart finds what was committed, or, when a commit was under way, some
\* beginning of the sequence that was being committed.
LogRestart ==
    /\ health /= "lost"
    /\ \/ committed' = committed
       \/ \E n \in 0..Len(working) : committed' = Prefix(working, n)
    /\ working' = committed'
    /\ health' = "ok"

\* Only a restart ends the loss: what it finds is what is committed from then on.
LogLost ==
    /\ health = "lost"
    /\ \/ health' = "lost"
       \/ health' = "ok" /\ working' = committed'

LogNext ==
    \/ LogAppend
    \/ LogRewind
    \/ LogCommit
    \/ LogRollback
    \/ LogFail
    \/ LogLose
    \/ LogRestart
    \/ LogLost

LogSpec == LogInit /\ [][LogNext]_logVars
=============================================================================
