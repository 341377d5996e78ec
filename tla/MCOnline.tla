------------------------------ MODULE MCOnline ------------------------------
(***************************************************************************)
(* One incident, inspected and then suppressed by one of two vehicles that *)
(* can do both, while a drone surveys a zone.  The response is extended to *)
(* the suppression by the mission or, later, by the operator.              *)
(***************************************************************************)
EXTENDS OnlineRun

CONSTANTS u1, g1, g2, r1, i1, s1

ScenePreds == [t \in Tasks |-> IF t = s1 THEN {i1} ELSE {}]
SceneEligible == [t \in Tasks |-> IF t = r1 THEN {u1} ELSE {g1, g2}]
SceneGraphs == {{r1, i1}, {r1, i1, s1}}
SceneTeams == {{u1, g1, g2}, {u1, g1}}
AnyTeam == SUBSET Agents

=============================================================================
