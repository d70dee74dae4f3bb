------------------------------ MODULE MCStores ------------------------------
(***************************************************************************)
(* The file under every index and MMR, the transaction hash set, the       *)
(* choice of the way to download it, the locks of the stores, and the      *)
(* socket of a connection, each while the others do nothing.               *)
(*                                                                         *)
(* File: two byte values, files of up to four bytes, appends of up to two. *)
(*                                                                         *)
(* Transaction hash set: a chain that spends a commitment and creates it   *)
(* again (x), a fork, and blocks that break one rule each; and downloads   *)
(* of the set in between.                                                  *)
(*                                                                         *)
(*    g -- a1 -- a2 -- a3 -- a4 -- n5  a4 is a fine NRD repeat, n5 is not  *)
(*          |     |     +--- n4        n4 repeats an NRD kernel too soon   *)
(*          |     +--------- m3        m3 spends an immature coinbase      *)
(*          +--- f2 -- f3              f2 also creates y                   *)
(*          +--- d2                    d2 creates x, which is unspent      *)
(*          +--- s2                    s2 spends z, which is not there     *)
(*                                                                         *)
(* Download: one peer that has segments and may go away, one that has      *)
(* only the zip file.                                                      *)
(*                                                                         *)
(* Locks: a thread that changes the chain, one that rebuilds the set from  *)
(* segments, and one that makes any call that only reads.                  *)
(*                                                                         *)
(* Socket: three messages of two priorities for the queue, one past it.    *)
(***************************************************************************)
EXTENDS AppendOnlyFile, TxHashSet, StateSync, Locks, SocketWrites

VARIABLE part

MCHash == {"g", "a1", "a2", "a3", "a4", "f2", "f3", "d2", "s2", "m3", "n4", "n5"}

MCPath ==
    [h \in MCHash |->
        CASE h = "g"  -> <<"g">>
          [] h = "a1" -> <<"g", "a1">>
          [] h = "a2" -> <<"g", "a1", "a2">>
          [] h = "a3" -> <<"g", "a1", "a2", "a3">>
          [] h = "a4" -> <<"g", "a1", "a2", "a3", "a4">>
          [] h = "n4" -> <<"g", "a1", "a2", "a3", "n4">>
          [] h = "n5" -> <<"g", "a1", "a2", "a3", "a4", "n5">>
          [] h = "m3" -> <<"g", "a1", "a2", "m3">>
          [] h = "f2" -> <<"g", "a1", "f2">>
          [] h = "f3" -> <<"g", "a1", "f2", "f3">>
          [] h = "d2" -> <<"g", "a1", "d2">>
          [] h = "s2" -> <<"g", "a1", "s2">>]

MCCommitment == {"c", "r", "x", "y", "z"}

MCInputs ==
    [h \in MCHash |->
        CASE h = "a2" -> {"x"}
          [] h = "a3" -> {"y"}
          [] h = "a4" -> {"c", "r"}
          [] h = "m3" -> {"r"}
          [] h = "f2" -> {"c"}
          [] h = "f3" -> {"x", "z"}
          [] h = "s2" -> {"z"}
          [] OTHER    -> {}]

MCOutputs ==
    [h \in MCHash |->
        CASE h = "g"  -> <<"c">>
          [] h = "a1" -> <<"x">>
          [] h = "a2" -> <<"y", "r">>
          [] h = "a3" -> <<"x">>
          [] h = "a4" -> <<"z">>
          [] h = "f2" -> <<"z", "y">>
          [] h = "d2" -> <<"x">>
          [] OTHER    -> <<>>]

Plain == [nrd |-> FALSE, excess |-> "p", relative |-> 0]

NRD(relative) == [nrd |-> TRUE, excess |-> "e", relative |-> relative]

MCKernels ==
    [h \in MCHash |->
        CASE h = "a2" -> <<Plain, NRD(1)>>
          [] h \in {"a4", "n5"} -> <<NRD(2)>>
          [] h = "n4" -> <<NRD(3), Plain>>
          [] OTHER    -> <<Plain>>]

MCThreads == {"chain", "pibd", "user"}

MCCallsOf ==
    [t \in MCThreads |->
        CASE t = "chain" -> {BatchWrite, Write}
          [] t = "pibd"  -> StartPIBDCalls \cup RequestSegmentsCalls
          [] t = "user"  -> {ReadChain, GetOutputType, ProcessStemPhase, PostTransaction, GetOutputs,
                             GetSegmentTxHashSet} \cup AddTransaction]

MCPriority ==
    [m \in {"ping", "kernels", "outputs"} |-> IF m = "ping" THEN 0 ELSE 2]

\* Nothing is left to download.
StateSynced ==
    /\ StateFields("blocks") /\ sblock = NetworkHeight
    /\ sconn = {} /\ gone = {} /\ archives = {} /\ zipping = Nobody /\ validating = FALSE

MCInit ==
    /\ Init /\ SetInit /\ LocksInit /\ SocketInit
    /\ \/ part = "set" /\ StateSynced
       \/ part = "download" /\ checksBitmap /\ StateInit
       \/ part \in {"file", "locks", "socket"} /\ checksBitmap /\ StateSynced
MCNext ==
    \/ part = "file" /\ Next /\ UNCHANGED <<part, setVars, stateVars, lockVars, socketVars>>
    \/ part = "set" /\ SetNext /\ UNCHANGED <<part, fileVars, stateVars, lockVars, socketVars>>
    \/ part = "download" /\ StateNext /\ UNCHANGED <<part, fileVars, setVars, lockVars, socketVars>>
    \/ part = "locks" /\ LocksNext /\ UNCHANGED <<part, fileVars, setVars, stateVars, socketVars>>
    \/ part = "socket" /\ SocketNext /\ UNCHANGED <<part, fileVars, setVars, stateVars, lockVars>>
MCSpec ==
    /\ MCInit /\ [][MCNext]_<<part, fileVars, setVars, stateVars, lockVars, socketVars>>
    /\ StateFairness
=============================================================================
