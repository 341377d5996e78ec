------------------------------ MODULE MCPatch ------------------------------
(***************************************************************************)
(* Candidates and patches over two incidents: a is reachable and may be    *)
(* inspected (ia) and suppressed (sa), of b only the inspection (ib) is    *)
(* named.  x is an inspection of an incident the scene does not know, and  *)
(* r the recon of a zone, which no agent of a fleet of ground vehicles can *)
(* do, and c the inspection of an incident no lane leads to.               *)
(***************************************************************************)
EXTENDS PatchTransaction, SequencesExt

CONSTANTS ia, sa, ib, x, r, c, g, h, A, B, C, X

MCKeys == {ia, sa, ib, x, r, c}
MCRequired == [k \in MCKeys |-> IF k = sa THEN {ia} ELSE {}]
MCIncident ==
  [k \in MCKeys |-> CASE k \in {ia, sa} -> A [] k = ib -> B [] k = c -> C
                      [] k = x -> X [] OTHER -> NoIncident]

\* The edges a caller may name: the workflow edge, its reverse, one between
\* two incidents, a loop, and one from a zone.
Named == {<<ia, sa>>, <<sa, ia>>, <<ib, sa>>, <<ia, ia>>, <<r, ib>>}
NamedOperations ==
  {[op |-> "AddTask", on |-> k] : k \in MCKeys}
    \cup [op : {"AddEdge", "RemoveEdge"}, on : Named]
    \cup {[op |-> "Malformed", on |-> Malformed]}

MCPatches == BoundedSeq(NamedOperations, 3)
MCCandidates ==
  [tasks : BoundedSeq(MCKeys \cup {Malformed, BadType}, 3),
   edges : BoundedSeq(Named \cup {Malformed, BadType}, 2)]
=============================================================================
