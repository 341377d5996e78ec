----------------------------- MODULE MCConsole -----------------------------
(***************************************************************************)
(* A console over the small worlds of MCSession: one fire to be seen, room *)
(* for one more incident, and a response of one step.                      *)
(***************************************************************************)
EXTENDS Console

CONSTANTS u, g

PairFleet == {u, g}
PairAble  == [k \in 0..Steps |-> IF k = 0 THEN {u} ELSE {g}]
=============================================================================
