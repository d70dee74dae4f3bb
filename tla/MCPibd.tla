------------------------------- MODULE MCPibd -------------------------------
(***************************************************************************)
(* Three parts in one run.  Two instances of Pibd: one header and two      *)
(* peers, so that requests are retried and hedged; and two headers and a   *)
(* zip file with one peer, so that sessions follow each other over the     *)
(* same directory.  And SegmentServe: two worker threads, two horizon      *)
(* headers between which the set of the node moves.                        *)
(***************************************************************************)
EXTENDS Pibd, SegmentServe, TLC

VARIABLE part

MCNumSegs == [h \in Headers |-> [t \in Types |-> IF t = "output" /\ h = "h3" THEN 2 ELSE 1]]
MCPeerOrders == {<<"p", "q">>}

P == INSTANCE Pibd WITH Headers <- {"h3"}, ZipHeaders <- {}
D == INSTANCE Pibd WITH Headers <- {"h1", "h2"}, RequestCount <- 1, PeerOrders <- {<<"p">>}

MCRequested == {[type |-> "bitmap", idx |-> 1, hash |-> "a"],
                [type |-> "output", idx |-> 0, hash |-> "b"]}
ServeSymmetry == Permutations(Workers)

MCInit ==
    \/ part = "peers" /\ P!PibdInit /\ ServeInit
    \/ part = "disk" /\ D!PibdInit /\ ServeInit
    \/ part = "serve" /\ PibdInit /\ ServeInit
MCNext ==
    \/ part = "peers" /\ P!PibdNext /\ UNCHANGED <<part, serveVars>>
    \/ part = "disk" /\ D!PibdNext /\ UNCHANGED <<part, serveVars>>
    \/ part = "serve" /\ ServeNext /\ UNCHANGED <<part, pibdVars>>
MCSpec == MCInit /\ [][MCNext]_<<pibdVars, serveVars, part>>

\* Where a zip file and a session change the same directory little is claimed, and the
\* run follows them only until the set is closed.
NoOverlap == overlap => zip.pc \in {"download", "close", "unpack"} /\ complete
=============================================================================
