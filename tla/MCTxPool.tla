------------------------------ MODULE MCTxPool ------------------------------
(***************************************************************************)
(* Kernels a and b spend the same output, c spends the output of a, d is   *)
(* independent and locked until height 2.  Blocks:                         *)
(*                                                                         *)
(*    g -- h1 {a} -- e2 {c}      e2 is not valid                           *)
(*     +-- f1 {b} -- f2 {}       f1 has as much work as h1, f2 has more    *)
(***************************************************************************)
EXTENDS TxPool

MCKernel == {"a", "b", "c", "d"}
MCCommitment == {"u", "v", "w", "x", "y", "z"}

MCSpends == [k \in MCKernel |-> CASE k = "a" -> {"u"} [] k = "b" -> {"u"}
                                  [] k = "c" -> {"x"} [] k = "d" -> {"v"}]
MCCreates == [k \in MCKernel |-> CASE k = "a" -> {"x"} [] k = "b" -> {"y"}
                                   [] k = "c" -> {"z"} [] k = "d" -> {"w"}]
MCLockHeight == [k \in MCKernel |-> IF k = "d" THEN 2 ELSE 0]

MCHash == {"g", "h1", "e2", "f1", "f2"}
MCPath == [h \in MCHash |->
    CASE h = "g" -> <<"g">>
      [] h = "h1" -> <<"g", "h1">>
      [] h = "e2" -> <<"g", "h1", "e2">>
      [] h = "f1" -> <<"g", "f1">>
      [] h = "f2" -> <<"g", "f1", "f2">>]
MCWork == [h \in MCHash |-> Len(MCPath[h])]
MCContent == [h \in MCHash |-> CASE h = "h1" -> {"a"} [] h = "e2" -> {"c"}
                                 [] h = "f1" -> {"b"} [] OTHER -> {}]

\* Transactions that arrive.
All == {{"a"}, {"b"}, {"c"}, {"d"}}
Conflicting == {{"a"}, {"b"}, {"c"}}
=============================================================================
