----------------------------- MODULE MCExecutor -----------------------------
(***************************************************************************)
(* Scenes for the executor.  Each is a set of tasks and a fleet out of     *)
(*   - a reconnaissance task, for the drone;                               *)
(*   - incidents with an inspection, for every ground vehicle, and for two *)
(*     of them a suppression, for g2 only, which needs the inspection done *)
(*     (the eligibility of TASK_TABLE, the workflow of whole_graph.py).    *)
(* The operator reports an incident, extends a response and changes the    *)
(* team while both vehicles work.                                          *)
(***************************************************************************)
EXTENDS Executor

CONSTANTS u1, g1, g2,
          r1, i1, s1, i2, s2

ScenePreds ==
  [t \in Tasks |-> CASE t = s1 -> {i1} [] t = s2 -> {i2} [] OTHER -> {}]

SceneEligible ==
  [t \in Tasks |->
     CASE t = r1 -> {u1}
       [] t \in {i1, i2} -> {g1, g2}
       [] t \in {s1, s2} -> {g2}]

AnyTeam == SUBSET Agents

GroundTasks  == {r1, i1, s1, i2, s2}
GroundAgents == {u1, g1, g2}
GroundGraphs == {{i1, s1}, {r1, i1, i2}}
GroundTeams  == {{u1, g1, g2}, {u1, g1}}

\* What the theorem about SuffixAddsNothing asks of the eligibility.
ASSUME SceneNested == NestedEligibility

=============================================================================
