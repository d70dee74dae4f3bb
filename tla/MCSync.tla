------------------------------- MODULE MCSync -------------------------------
(***************************************************************************)
(* Header sync, block sync, the encoding of messages and the pruned output *)
(* set, each from a state in which it has work while the others have none. *)
(*                                                                         *)
(* Headers: two peers, one of which sends invalid headers; the node starts *)
(* at genesis or on a fork of height 3 that leaves the network's chain at  *)
(* 2.  Blocks: two peers, one of which sends invalid blocks or none, and   *)
(* may go away.  Set: an archive of four outputs, any of them spent and    *)
(* any spent ones compacted.                                               *)
(***************************************************************************)
EXTENDS HeaderSync, BlockSync, Wire, PrunedMmr

VARIABLE part

MCPeers == <<"p", "q">>
MCStartTips == {[b |-> "f", h |-> 3], [b |-> "m", h |-> 0]}

HeadersSynced ==
    /\ htip = [b |-> "m", h |-> NetHeight] /\ hpending = {} /\ progress = [height |-> 0, quiet |-> FALSE]
    /\ wire = {} /\ batches = {} /\ merging = NoBatch /\ scanning = FALSE
    /\ startup = FALSE /\ capable = {} /\ hbanned = {}
BlocksSynced ==
    /\ bheight = BNetHeight /\ lastHeight = BNetHeight /\ requested = <<>> /\ slow = {}
    /\ bbanned = {} /\ online = {} /\ bwire = {} /\ bqueue = {}

\* In the other parts a rebuild of the set waits at genesis.
SetWaits ==
    /\ mem = Genesis /\ disk = Genesis /\ cache = Nothing
    /\ base = [leaves |-> <<<<0, 0>>>>, spent |-> {}] /\ chain = <<>> /\ saved = <<>>
    /\ forks = 0 /\ sync = [NoSync EXCEPT !.stage = "segments"]

MCInit ==
    \/ part = "headers" /\ HeaderInit /\ BlocksSynced /\ WireInit /\ SetWaits
    \/ part = "blocks" /\ HeadersSynced /\ BlockInit /\ WireInit /\ SetWaits
    \/ part = "messages" /\ HeadersSynced /\ BlocksSynced /\ WireInit /\ SetWaits
    \/ part = "set" /\ HeadersSynced /\ BlocksSynced /\ WireInit /\ PrunedInit
MCNext ==
    \/ part = "headers" /\ HeaderNext /\ UNCHANGED <<part, blockVars, wireVars, prunedVars>>
    \/ part = "blocks" /\ BlockNext /\ UNCHANGED <<part, headerVars, wireVars, prunedVars>>
    \/ part = "messages" /\ WireNext /\ UNCHANGED <<part, headerVars, blockVars, prunedVars>>
    \/ part = "set" /\ PrunedNext /\ UNCHANGED <<part, headerVars, blockVars, wireVars>>
MCSpec ==
    /\ MCInit /\ [][MCNext]_<<part, headerVars, blockVars, wireVars, prunedVars>>
    /\ HeaderFairness /\ BlockFairness
=============================================================================
