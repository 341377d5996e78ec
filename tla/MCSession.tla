----------------------------- MODULE MCSession -----------------------------
(***************************************************************************)
(* Sessions of a small world: a drone that patrols and a ground vehicle    *)
(* that makes every step of a response.                                    *)
(***************************************************************************)
EXTENDS OnlineSession

CONSTANTS u, g

PairFleet == {u, g}
PairAble  == [k \in 0..Steps |-> IF k = 0 THEN {u} ELSE {g}]
=============================================================================
