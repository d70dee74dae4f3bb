---------------------------- MODULE MCChainState ----------------------------
(***************************************************************************)
(* Small block trees for ChainState.                                       *)
(*                                                                         *)
(*   Forks:      G -- a1 -- a2         f2 is heavier than a2               *)
(*                \-- f1 -- f2                                             *)
(*                      \-- b2         the heaviest, but does not apply    *)
(*                                     to the state at f1                  *)
(*                                                                         *)
(*   Deep:       G -- d1 -- d2 -- d3                                       *)
(*                \-- g1              heavier than d3, and two shorter     *)
(*                                                                         *)
(*   Broken:     G -- p1              u2 and w2 name q1 as their parent,   *)
(*                \-- q1 -- u2        but their roots are those of G, p1;  *)
(*                      \-- w2        u2 has less work than q1            *)
(*                                                                         *)
(*   Late:       G -- c1 -- c2 -- c3                                       *)
(*                      \-- b2         heavier than c2, but does not apply *)
(***************************************************************************)
EXTENDS ChainState

\* Every header commits to the ancestors it names.
Consistent(path) ==
    [h \in DOMAIN path |-> SubSeq(path[h], 1, Len(path[h]) - 1)]

ForksPath ==
    [G  |-> <<"G">>,
     a1 |-> <<"G", "a1">>,
     a2 |-> <<"G", "a1", "a2">>,
     f1 |-> <<"G", "f1">>,
     f2 |-> <<"G", "f1", "f2">>,
     b2 |-> <<"G", "f1", "b2">>]

ForksHash == DOMAIN ForksPath

ForksPrevRoot == Consistent(ForksPath)

ForksTotalDifficulty ==
    [G |-> 1, a1 |-> 3, a2 |-> 4, f1 |-> 2, f2 |-> 5, b2 |-> 6]

ForksGoodBlock == ForksHash \ {"b2"}

DeepPath ==
    [G  |-> <<"G">>,
     d1 |-> <<"G", "d1">>,
     d2 |-> <<"G", "d1", "d2">>,
     d3 |-> <<"G", "d1", "d2", "d3">>,
     g1 |-> <<"G", "g1">>]

DeepHash == DOMAIN DeepPath

DeepPrevRoot == Consistent(DeepPath)

DeepTotalDifficulty == [G |-> 1, d1 |-> 2, d2 |-> 3, d3 |-> 4, g1 |-> 5]

BrokenPath ==
    [G  |-> <<"G">>,
     p1 |-> <<"G", "p1">>,
     q1 |-> <<"G", "q1">>,
     u2 |-> <<"G", "q1", "u2">>,
     w2 |-> <<"G", "q1", "w2">>]

BrokenHash == DOMAIN BrokenPath

BrokenPrevRoot ==
    [Consistent(BrokenPath) EXCEPT !["u2"] = <<"G", "p1">>, !["w2"] = <<"G", "p1">>]

BrokenTotalDifficulty == [G |-> 1, p1 |-> 2, q1 |-> 4, u2 |-> 3, w2 |-> 5]

LatePath ==
    [G  |-> <<"G">>,
     c1 |-> <<"G", "c1">>,
     c2 |-> <<"G", "c1", "c2">>,
     c3 |-> <<"G", "c1", "c2", "c3">>,
     b2 |-> <<"G", "c1", "b2">>]

LateHash == DOMAIN LatePath

LatePrevRoot == Consistent(LatePath)

LateTotalDifficulty == [G |-> 1, c1 |-> 2, c2 |-> 3, c3 |-> 5, b2 |-> 4]

LateGoodBlock == LateHash \ {"b2"}
=============================================================================
