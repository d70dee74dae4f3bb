------------------------------- MODULE MCNode -------------------------------
(***************************************************************************)
(* The chain state over the trees Forks, Deep (with a horizon of one       *)
(* block) and Broken, and the connections of the node, each while the      *)
(* others do nothing.                                                      *)
(*                                                                         *)
(* Connections: one host, which the node connects to and which connects to *)
(* the node; two connections that share a Peer, or one while two Peers are *)
(* known.                                                                  *)
(***************************************************************************)
EXTENDS MCChainState, Connections, TLC

VARIABLE part

\* All trees, from one genesis.
NodePath == ForksPath @@ DeepPath @@ BrokenPath
NodeHash == DOMAIN NodePath
NodePrevRoot == ForksPrevRoot @@ DeepPrevRoot @@ BrokenPrevRoot
NodeTotalDifficulty == ForksTotalDifficulty @@ DeepTotalDifficulty @@ BrokenTotalDifficulty
NodeGoodBlock == NodeHash \ (ForksHash \ ForksGoodBlock)

Forks == INSTANCE ChainState WITH Hash <- ForksHash
Deep == INSTANCE ChainState WITH Hash <- DeepHash, Horizon <- 1
Broken == INSTANCE ChainState WITH Hash <- BrokenHash

NodeInit == Init /\ ConnectionsInit /\ part \in {"forks", "deep", "broken", "peers"}

NodeNext ==
    \/ part = "forks" /\ Forks!Next /\ UNCHANGED <<part, connVars>>
    \/ part = "deep" /\ Deep!Next /\ UNCHANGED <<part, connVars>>
    \/ part = "broken" /\ Broken!Next /\ UNCHANGED <<part, connVars>>
    \/ part = "peers" /\ ConnectionsNext /\ UNCHANGED <<part, vars>>

NodeSpec ==
    /\ NodeInit /\ [][NodeNext]_<<part, vars, connVars>>
    /\ WF_connVars(part = "peers" /\ SeederStep)
=============================================================================
