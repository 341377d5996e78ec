-------------------------- MODULE MissionLifecycle --------------------------
(***************************************************************************)
(* What the executor promises, without auctions, bundles or clocks: tasks  *)
(* are admitted with the predecessors they need, an idle agent that is     *)
(* eligible may start an open task whose predecessors are done, an agent   *)
(* does one task at a time, and a task is done once, by the agent that     *)
(* started it.                                                             *)
(***************************************************************************)
EXTENDS MissionGraph

CONSTANTS NoTask

VARIABLES
  stage,     \* outside the graph, open, running or done
  doing      \* the task each agent is doing, or NoTask

lifecycleVars == <<stage, doing>>

Admitted == {t \in Tasks : stage[t] # "outside"}

Init ==
  /\ \E graph \in SUBSET Tasks :
       /\ ValidGraph(graph)
       /\ stage = [t \in Tasks |-> IF t \in graph THEN "open" ELSE "outside"]
  /\ doing = [a \in Agents |-> NoTask]

Admit(new) ==
  /\ new \cap Admitted = {}
  /\ ValidGraph(Admitted \cup new)
  /\ stage' = [t \in Tasks |-> IF t \in new THEN "open" ELSE stage[t]]
  /\ UNCHANGED doing

\* Some idle agents start one open task each, no two of them the same task.
Start(job) ==
  /\ \A a \in DOMAIN job :
       /\ doing[a] = NoTask
       /\ stage[job[a]] = "open"
       /\ a \in Eligible[job[a]]
       /\ \A p \in Preds[job[a]] : stage[p] = "done"
  /\ \A a, b \in DOMAIN job : job[a] = job[b] => a = b
  /\ stage' = [t \in Tasks |->
                 IF \E a \in DOMAIN job : job[a] = t THEN "running" ELSE stage[t]]
  /\ doing' = [a \in Agents |-> IF a \in DOMAIN job THEN job[a] ELSE doing[a]]

Finish(S) ==
  /\ S # {}
  /\ \A a \in S : doing[a] # NoTask
  /\ stage' = [t \in Tasks |-> IF \E a \in S : doing[a] = t THEN "done" ELSE stage[t]]
  /\ doing' = [a \in Agents |-> IF a \in S THEN NoTask ELSE doing[a]]

Next ==
  \/ \E new \in SUBSET Tasks : Admit(new)
  \/ \E S \in SUBSET Agents : \E job \in [S -> Tasks] : Start(job)
  \/ \E S \in SUBSET Agents : Finish(S)

Spec == Init /\ [][Next]_lifecycleVars

=============================================================================
