---------------------------- MODULE MissionGraph ----------------------------
(***************************************************************************)
(* The task dependency graph of a mission (core/task_graph.py) and the     *)
(* structural rules a graph must obey before the executor may adopt it     *)
(* (validator/whole_graph.py).                                             *)
(*                                                                         *)
(* The workflow rule (E_WORKFLOW) leaves no freedom in the edges: a task   *)
(* that is in a valid graph has exactly the predecessors its type and its  *)
(* target dictate.  A valid graph is therefore the set of its tasks, and   *)
(* the predecessor sets are a constant of the vocabulary.                  *)
(***************************************************************************)
EXTENDS Naturals, FiniteSets

CONSTANTS
  Tasks,      \* every task key (type, target) the scene can name
  Agents,     \* the fleet of the scene
  Preds,      \* the predecessors a task must have when it is in the graph
  Eligible    \* the agents whose platform and capabilities fit a task

ASSUME GraphAssumption ==
  /\ IsFiniteSet(Tasks)
  /\ IsFiniteSet(Agents)
  /\ Preds \in [Tasks -> SUBSET Tasks]
  /\ Eligible \in [Tasks -> SUBSET Agents]

(***************************************************************************)
(* E_CYCLE: Kahn's algorithm removes every task exactly when no nonempty   *)
(* set of tasks feeds itself.                                              *)
(***************************************************************************)
Acyclic == \A S \in (SUBSET Tasks) \ {{}} : \E t \in S : Preds[t] \cap S = {}

ASSUME AcyclicAssumption == Acyclic

(***************************************************************************)
(* TaskStatus, with "ABSENT" for a task key that is not in the graph.      *)
(* CANCELLED is declared by the code and assigned nowhere.                 *)
(***************************************************************************)
Recomputable == {"PENDING", "READY"}
Committed    == {"ASSIGNED", "RUNNING"}
Unfinished   == Recomputable \cup Committed
TaskStatus   == Unfinished \cup {"COMPLETED", "ABSENT"}

\* Mutant of PredsDone: a predecessor that was started is good enough.
PredsStarted(st, t) == \A p \in Preds[t] : st[p] \in {"RUNNING", "COMPLETED"}

PredsDone(st, t) == \A p \in Preds[t] : st[p] = "COMPLETED"

\* TaskGraph.recompute_ready: the frontier is derived from the predecessors.
Recomputed(st) ==
  [t \in Tasks |->
     IF st[t] \in Recomputable
     THEN IF PredsDone(st, t) THEN "READY" ELSE "PENDING"
     ELSE st[t]]

AllFinished(st) == \A t \in Tasks : st[t] \notin Unfinished

\* validate_structure on a task set: the workflow rule closes it under
\* predecessors, and every task has an eligible agent somewhere in the fleet.
ValidGraph(S) == \A t \in S : Preds[t] \subseteq S /\ Eligible[t] # {}

=============================================================================
