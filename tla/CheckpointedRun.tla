-------------------------- MODULE CheckpointedRun --------------------------
(***************************************************************************)
(* What the operator is promised of a mission that is run from checkpoint  *)
(* to checkpoint, without copies, auctions, clocks and turns: an advance   *)
(* ends with a task done or with nobody who could do anything, one that    *)
(* fails changes nothing, and between advances the mission may grow or     *)
(* change hands, but only to a team that can do what has not begun.        *)
(*                                                                         *)
(* The executor under the checkpoint protocol implements it (OnlineRun),   *)
(* and so does the session, where the executor is reduced to what it       *)
(* promises (OnlineSession).                                               *)
(***************************************************************************)
CONSTANTS
  Tasks, Agents,
  Preds,      \* the predecessors of a task
  Eligible    \* the agents that can do a task

VARIABLES
  stage,      \* outside the mission, open, running or done
  team,       \* the agents that may start a task
  outcome     \* none before the first checkpoint, then running, raised,
              \* completed or deadlocked

runVars == <<stage, team, outcome>>

Stages == {"outside", "open", "running", "done"}

Fresh(G) == [t \in Tasks |-> IF t \in G THEN "open" ELSE "outside"]
Members(st) == {t \in Tasks : st[t] # "outside"}
Closed(G) == \A t \in G : Preds[t] \subseteq G

Over(st) == \A t \in Tasks : st[t] \notin {"open", "running"}
Serves(T, st) == \A t \in Tasks : st[t] = "open" => Eligible[t] \cap T # {}

Startable(st, T) ==
  {t \in Tasks : /\ st[t] = "open" /\ Eligible[t] \cap T # {}
                 /\ \A p \in Preds[t] : st[p] = "done"}

Init == stage = Fresh({}) /\ team = {} /\ outcome = "none"

\* From the stages st on, the team T starts what it can, and something ends.
Progress(st, T) ==
  /\ stage' \in [Tasks -> Stages]
  /\ \A t \in Tasks :
       \/ stage'[t] = st[t]
       \/ st[t] = "running" /\ stage'[t] = "done"
       \/ t \in Startable(st, T) /\ stage'[t] \in {"running", "done"}
  /\ \E t \in Tasks : st[t] # "done" /\ stage'[t] = "done"
  /\ outcome' = IF Over(stage') THEN "completed" ELSE "running"

\* Nothing runs and the team T can start nothing.
Deadlock(st, T) ==
  /\ ~ Over(st) /\ Startable(st, T) = {} /\ \A t \in Tasks : st[t] # "running"
  /\ stage' = st /\ outcome' = "deadlocked"

\* The first advance is that of a mission nobody has begun.
Launch ==
  /\ outcome = "none"
  /\ \E T \in SUBSET Agents :
       LET G == Members(stage') IN
       /\ Closed(G) /\ team' = T
       /\ Progress(Fresh(G), T) \/ Deadlock(Fresh(G), T)

Advance ==
  /\ outcome \in {"running", "raised"}
  /\ Progress(stage, team) \/ Deadlock(stage, team)
  /\ UNCHANGED team

Raise ==
  /\ outcome \in {"running", "raised"} /\ outcome' = "raised"
  /\ UNCHANGED <<stage, team>>

\* The mission grows, which takes a completed one up again; with it the team
\* may change.
Extend(new) ==
  /\ outcome \in {"running", "completed"} /\ outcome' = "running"
  /\ new # {} /\ new \cap Members(stage) = {} /\ Closed(Members(stage) \cup new)
  /\ stage' = [t \in Tasks |-> IF t \in new THEN "open" ELSE stage[t]]
  /\ team' = team \/ (team' \in SUBSET Agents /\ Serves(team', stage'))

ChangeTeam ==
  /\ outcome = "running"
  /\ team' \in SUBSET Agents /\ Serves(team', stage)
  /\ UNCHANGED <<stage, outcome>>

\* A new mission takes the place of one that is not being advanced.
Restart ==
  /\ outcome \in {"running", "completed"} /\ outcome' = "running"
  /\ \E G \in SUBSET Tasks : G # {} /\ Closed(G) /\ stage' = Fresh(G)
  /\ team' \in SUBSET Agents

Next ==
  \/ Launch \/ Advance \/ Raise \/ ChangeTeam \/ Restart
  \/ \E new \in SUBSET Tasks : Extend(new)

Spec == Init /\ [][Next]_runVars

=============================================================================
