------------------------------ MODULE Executor ------------------------------
(***************************************************************************)
(* SimExecutor (execution/executor.py): the discrete-event executor that   *)
(* assigns the READY frontier by an auction, lets each agent travel to and *)
(* dwell at the head of its path, completes tasks, and auctions again when *)
(* a completion unlocks a task.  Two ways to drive it are modelled: run()  *)
(* plays a mission to its end in one call, advance_to_next_completion()    *)
(* stops after each completion event.  Between two such calls the operator *)
(* may replace the active team (replace_active_team) or extend the graph   *)
(* (allocation/online.py, apply_online_patch).                             *)
(*                                                                         *)
(* A call is a sequence of steps, one per pass of its loop; the program is *)
(* single-threaded, so nothing interleaves with the steps of a call and    *)
(* the operator acts only when inCall is FALSE.                            *)
(*                                                                         *)
(* What an auction decides is abstracted to every outcome the consensus    *)
(* algorithm may produce: each frontier task that some active agent is     *)
(* eligible for goes to one such agent, at any place of its path.  How the *)
(* algorithm gets there is module CBBA's subject.  Travel and dwell time   *)
(* are drawn from Durations, and the positions they follow from are left   *)
(* out.                                                                    *)
(***************************************************************************)
EXTENDS MissionGraph, TaskLists

CONSTANTS
  Durations,      \* travel + dwell times, the model's bound on the clock
  InitialGraphs,  \* the task sets a session may start executing
  InitialTeams,   \* the active teams it may start with
  NextTeams,      \* the active teams the operator may change to
  Policies,       \* the ReleasePolicy values a patch may be applied with
  NoTask, NoAgent

ASSUME ExecutorAssumption ==
  /\ Durations \subseteq Nat /\ Durations # {}
  /\ InitialGraphs \subseteq {S \in SUBSET Tasks : S # {} /\ ValidGraph(S)}
  /\ InitialTeams \subseteq SUBSET Agents
  /\ NextTeams \subseteq SUBSET Agents
  /\ Policies \subseteq {"NO_RESET", "FULL_RESET", "SELECTIVE"}
  /\ NoTask \notin Tasks
  /\ NoAgent \notin Agents

VARIABLES
  status,        \* Task.status
  owner,         \* Task.assigned_agent
  bundle,        \* Agent.bundle
  path,          \* Agent.path
  current,       \* Agent.current_task and _Sim.current, set and cleared together
  finishAt,      \* _Sim.finish_at
  now,           \* the simulation clock
  assignments,   \* SimExecutor.assignments: every award that was not released
  departure,     \* task_departure, NoTime before it
  completion,    \* task_completion, NoTime before it
  active,        \* _active_agent_ids
  started,       \* _started
  epochPending,  \* _epoch_pending
  mode,          \* how the executor is driven: NEW until the first call
  inCall,        \* inside run() or advance_to_next_completion()
  result         \* Termination of the latest call, NONE for a plain checkpoint

allocVars == <<status, owner, bundle, path, assignments>>
clockVars == <<current, finishAt, now, departure, completion>>
epochVars == <<started, epochPending>>
callVars  == <<mode, inCall, result>>
vars == <<allocVars, clockVars, active, epochVars, callVars>>

NoTime == 0 - 1

-----------------------------------------------------------------------------
(* The auction of a READY frontier: _run_epoch.                            *)

Frontier(st, asg) == {t \in Tasks : st[t] = "READY" /\ asg[t] = NoAgent}

Biddable(st, asg, team) == {t \in Frontier(st, asg) : Eligible[t] \cap team # {}}

\* Mutant of Awards: eligibility is forgotten.
AnyAwards(st, asg, team) == [Biddable(st, asg, team) -> team]

\* The awards an auction among team may end with.
Awards(st, asg, team) ==
  {w \in [Biddable(st, asg, team) -> team] :
     \A t \in DOMAIN w : w[t] \in Eligible[t]}

WonBy(w, a) == {t \in DOMAIN w : w[t] = a}

\* Mutants of AuctionedPaths: the running task stays in the path during the
\* auction; it is not put back.
RunningLeftIn(p, run, W) == Inserted(p, W)
RunningLost(p, run, W) == Inserted(Without(p, {run}), W)

\* The running task is taken out of the path, the won tasks are inserted
\* anywhere in what is left, and the running task returns to the head.
AuctionedPaths(p, run, W) ==
  IF run = NoTask
  THEN Inserted(p, W)
  ELSE {<<run>> \o q : q \in Inserted(Without(p, {run}), W)}

AuctionedBundles(b, W) == {b \o s : s \in SetToSeqs(W)}

RunEpoch(st, own, asg, bun, pth, cur, team) ==
  IF Frontier(st, asg) = {} \/ team = {}
  THEN /\ status' = st
       /\ owner' = own
       /\ assignments' = asg
       /\ bundle' = bun
       /\ path' = pth
  ELSE \E w \in Awards(st, asg, team) :
         /\ status' = [t \in Tasks |-> IF t \in DOMAIN w THEN "ASSIGNED" ELSE st[t]]
         /\ owner' = [t \in Tasks |-> IF t \in DOMAIN w THEN w[t] ELSE own[t]]
         /\ assignments' = [t \in Tasks |-> IF t \in DOMAIN w THEN w[t] ELSE asg[t]]
         /\ \E b \in Picks([a \in team |-> AuctionedBundles(bun[a], WonBy(w, a))]) :
              bundle' = [a \in Agents |-> IF a \in team THEN b[a] ELSE bun[a]]
         /\ \E p \in Picks([a \in team |-> AuctionedPaths(pth[a], cur[a], WonBy(w, a))]) :
              path' = [a \in Agents |-> IF a \in team THEN p[a] ELSE pth[a]]

-----------------------------------------------------------------------------
(* A call: _prepare_epoch, then one step per pass of the loop.             *)

\* _prepare_epoch: the first call recomputes the frontier, a resumed one runs
\* the auction its last completion deferred.
PrepareEpoch ==
  /\ IF ~started
     THEN RunEpoch(Recomputed(status), owner, assignments, bundle, path, current, active)
     ELSE IF epochPending
          THEN RunEpoch(status, owner, assignments, bundle, path, current, active)
          ELSE UNCHANGED allocVars
  /\ started' = TRUE
  /\ epochPending' = FALSE
  /\ inCall' = TRUE
  /\ UNCHANGED <<clockVars, active, result>>

\* execute_session always plays a new executor; a run is never resumed.
BeginRun ==
  /\ ~inCall
  /\ mode = "NEW"
  /\ mode' = "ONE_SHOT"
  /\ PrepareEpoch

\* advance_online_session starts or resumes, and refuses a run that ended.
BeginAdvance ==
  /\ ~inCall
  /\ mode \in {"NEW", "ONLINE"}
  /\ result = "NONE"
  /\ mode' = "ONLINE"
  /\ PrepareEpoch

Return(termination) ==
  /\ inCall' = FALSE
  /\ result' = termination

Finished ==
  /\ inCall
  /\ AllFinished(status)
  /\ Return("COMPLETED")
  /\ UNCHANGED <<allocVars, clockVars, active, epochVars, mode>>

\* An idle active agent goes for the head of its path once the task's
\* predecessors are done.  The code does not look at the task's status.
Dispatchable ==
  {a \in active : /\ current[a] = NoTask
                  /\ path[a] # <<>>
                  /\ PredsDone(status, Head(path[a]))}

Dispatch ==
  LET heads == {Head(path[a]) : a \in Dispatchable}
  IN  /\ inCall
      /\ ~AllFinished(status)
      /\ Dispatchable # {}
      /\ \E d \in [Dispatchable -> Durations] :
           finishAt' = [a \in Agents |->
                          IF a \in Dispatchable THEN now + d[a] ELSE finishAt[a]]
      /\ current' = [a \in Agents |->
                       IF a \in Dispatchable THEN Head(path[a]) ELSE current[a]]
      /\ departure' = [t \in Tasks |-> IF t \in heads THEN now ELSE departure[t]]
      /\ status' = [t \in Tasks |-> IF t \in heads THEN "RUNNING" ELSE status[t]]
      /\ UNCHANGED <<owner, bundle, path, assignments, now, completion, active,
                     epochVars, callVars>>

\* Mutant of Working: agents that left the team are not waited for.
WorkingActive == {a \in active : current[a] # NoTask}

Working == {a \in Agents : current[a] # NoTask}

\* Mutant of Due: an agent is due only if no other finishes with it.
DueAlone == {a \in Working : \A b \in Working \ {a} : finishAt[a] < finishAt[b]}

\* The working agents that finish first.
Due == {a \in Working : \A b \in Working : finishAt[a] <= finishAt[b]}

\* _advance: the clock jumps to the earliest finish time and everything due
\* then completes; what the loop does next differs between the two callers.
CompleteDue ==
  LET ends == {current[a] : a \in Due}
      st == [t \in Tasks |-> IF t \in ends THEN "COMPLETED" ELSE status[t]]
      own == [t \in Tasks |-> IF t \in ends THEN NoAgent ELSE owner[t]]
      bun == [a \in Agents |->
                IF a \in Due THEN Without(bundle[a], {current[a]}) ELSE bundle[a]]
      pth == [a \in Agents |->
                IF a \in Due THEN Without(path[a], {current[a]}) ELSE path[a]]
      cur == [a \in Agents |-> IF a \in Due THEN NoTask ELSE current[a]]
  IN  /\ inCall
      /\ ~AllFinished(status)
      /\ Dispatchable = {}
      /\ Working # {}
      /\ \E a \in Due : now' = finishAt[a]
      /\ current' = cur
      /\ completion' = [t \in Tasks |-> IF t \in ends THEN now' ELSE completion[t]]
      /\ UNCHANGED <<finishAt, departure, active, started, mode>>
      /\ \/ /\ mode = "ONE_SHOT"
            /\ RunEpoch(Recomputed(st), own, assignments, bun, pth, cur, active)
            /\ epochPending' = FALSE
            /\ UNCHANGED <<inCall, result>>
         \/ /\ mode = "ONLINE"
            /\ status' = Recomputed(st)
            /\ owner' = own
            /\ bundle' = bun
            /\ path' = pth
            /\ UNCHANGED assignments
            /\ epochPending' = TRUE
            /\ Return(IF AllFinished(st) THEN "COMPLETED" ELSE "NONE")

\* Nobody works and nothing can start: the frontier is recomputed once more,
\* and only an auction that awards nothing is a deadlock.
LastFrontier ==
  LET st == Recomputed(status)
  IN  /\ inCall
      /\ ~AllFinished(status)
      /\ Dispatchable = {}
      /\ Working = {}
      /\ RunEpoch(st, owner, assignments, bundle, path, current, active)
      /\ IF Biddable(st, assignments, active) # {}
         THEN started' = TRUE /\ epochPending' = FALSE /\ UNCHANGED <<inCall, result>>
         ELSE Return("DEADLOCK") /\ UNCHANGED epochVars
      /\ UNCHANGED <<clockVars, active, mode>>

CallStep == Finished \/ Dispatch \/ CompleteDue \/ LastFrontier

-----------------------------------------------------------------------------
(* Between two calls: the operator changes the team or the graph.          *)

\* release_assignments, then auction_ready, on a graph whose statuses are st.
ReleaseAndAuction(st, released, team) ==
  /\ RunEpoch(
       Recomputed([t \in Tasks |-> IF t \in released THEN "PENDING" ELSE st[t]]),
       [t \in Tasks |-> IF t \in released THEN NoAgent ELSE owner[t]],
       [t \in Tasks |-> IF t \in released THEN NoAgent ELSE assignments[t]],
       [a \in Agents |-> Without(bundle[a], released)],
       [a \in Agents |-> Without(path[a], released)],
       current, team)
  /\ started' = TRUE
  /\ epochPending' = FALSE

Assigned == {t \in Tasks : status[t] = "ASSIGNED"}

\* Mutant of BehindIn: a running task behind an affected one is released too.
BehindInAll(affected) == UNION {Suffix(bundle[a], affected) : a \in Agents}

\* Every unstarted commitment from the first affected one on, in each bundle.
BehindIn(affected) == Assigned \cap UNION {Suffix(bundle[a], affected) : a \in Agents}

\* Who joins, who leaves, and who must bid again.
Changed(desired, forced) == (desired \ active) \cup (active \ desired) \cup forced

\* replace_active_team.
TeamReplaced(desired, forced) ==
  LET affected == {t \in Assigned : Eligible[t] \cap Changed(desired, forced) # {}}
  IN  /\ ReleaseAndAuction(status, BehindIn(affected), desired)
      /\ active' = desired
      /\ UNCHANGED <<clockVars, callVars>>

\* The session publishes the new team only when it can finish the residual
\* work: each task that has not started needs an eligible agent in it.  That
\* this is what resolve_runtime_team finds out is shown in OnlineRun.
ReplaceActiveTeam(desired, forced) ==
  /\ ~inCall
  /\ mode = "ONLINE"
  /\ result = "NONE"
  /\ \A t \in Tasks :
       status[t] \in Unfinished \ {"RUNNING"} => Eligible[t] \cap desired # {}
  /\ TeamReplaced(desired, forced)

\* _release_set.
ReleaseSet(policy, affected) ==
  CASE policy = "NO_RESET"   -> {}
    [] policy = "FULL_RESET" -> Assigned
    [] policy = "SELECTIVE"  -> BehindIn(affected)

\* The graph a patch with the tasks of new leads to, before any release.
InGraph == {t \in Tasks : status[t] # "ABSENT"}

Patched(new) ==
  Recomputed([t \in Tasks |-> IF t \in new THEN "PENDING" ELSE status[t]])

\* _directly_affected: the assigned tasks that share an active eligible bidder
\* with a task the patch makes ready.
NewBidders(new) ==
  UNION {Eligible[t] \cap active : t \in {n \in new : Patched(new)[n] = "READY"}}

\* Mutant of DirectlyAffected: every unstarted commitment.
AllAffected(new) == Assigned

DirectlyAffected(new) ==
  {t \in Assigned : Eligible[t] \cap active \cap NewBidders(new) # {}}

\* apply_online_patch with a patch that adds the tasks of new and the edges
\* the workflow demands.  It also reopens a mission that was COMPLETED.
ApplyOnlinePatch(policy, new) ==
  /\ ~inCall
  /\ mode = "ONLINE"
  /\ result # "DEADLOCK"
  /\ new # {}
  /\ new \cap InGraph = {}
  /\ ValidGraph(InGraph \cup new)
  /\ ReleaseAndAuction(Patched(new), ReleaseSet(policy, DirectlyAffected(new)), active)
  /\ result' = "NONE"
  /\ UNCHANGED <<clockVars, active, mode, inCall>>

Operator ==
  \/ \E desired \in NextTeams : \E forced \in SUBSET desired :
       ReplaceActiveTeam(desired, forced)
  \/ \E policy \in Policies : \E new \in SUBSET Tasks : ApplyOnlinePatch(policy, new)

-----------------------------------------------------------------------------

Init ==
  /\ \E graph \in InitialGraphs :
       status = [t \in Tasks |-> IF t \in graph THEN "PENDING" ELSE "ABSENT"]
  /\ owner = [t \in Tasks |-> NoAgent]
  /\ assignments = [t \in Tasks |-> NoAgent]
  /\ bundle = [a \in Agents |-> <<>>]
  /\ path = [a \in Agents |-> <<>>]
  /\ current = [a \in Agents |-> NoTask]
  /\ finishAt = [a \in Agents |-> 0]
  /\ now = 0
  /\ departure = [t \in Tasks |-> NoTime]
  /\ completion = [t \in Tasks |-> NoTime]
  /\ active \in InitialTeams
  /\ started = FALSE
  /\ epochPending = FALSE
  /\ mode = "NEW"
  /\ inCall = FALSE
  /\ result = "NONE"

Next == BeginRun \/ BeginAdvance \/ CallStep \/ Operator

Spec == Init /\ [][Next]_vars

-----------------------------------------------------------------------------
(* What holds in every state.                                              *)

TypeOK ==
  /\ status \in [Tasks -> TaskStatus]
  /\ owner \in [Tasks -> Agents \cup {NoAgent}]
  /\ assignments \in [Tasks -> Agents \cup {NoAgent}]
  /\ bundle \in [Agents -> Seq(Tasks)]
  /\ path \in [Agents -> Seq(Tasks)]
  /\ current \in [Agents -> Tasks \cup {NoTask}]
  /\ finishAt \in [Agents -> Nat]
  /\ now \in Nat
  /\ departure \in [Tasks -> Nat \cup {NoTime}]
  /\ completion \in [Tasks -> Nat \cup {NoTime}]
  /\ active \subseteq Agents
  /\ started \in BOOLEAN
  /\ epochPending \in BOOLEAN
  /\ mode \in {"NEW", "ONE_SHOT", "ONLINE"}
  /\ inCall \in BOOLEAN
  /\ result \in {"NONE", "COMPLETED", "DEADLOCK"}

\* The four records of who holds a task agree: Task.assigned_agent, the
\* bundles, the paths and the executor's assignments (the assignment
\* consistency invariant _assignment_invariant_errors checks on a patch, here
\* at every step of the executor).
HoldersAgree ==
  /\ \A t \in Tasks : status[t] \in Committed <=> owner[t] # NoAgent
  /\ \A a \in Agents :
       /\ IsInjective(bundle[a]) /\ ToSet(bundle[a]) = {t \in Tasks : owner[t] = a}
       /\ IsInjective(path[a]) /\ ToSet(path[a]) = {t \in Tasks : owner[t] = a}
  /\ \A t \in Tasks :
       /\ status[t] \in Committed => assignments[t] = owner[t]
       /\ assignments[t] # NoAgent => status[t] \in Committed \cup {"COMPLETED"}

\* The simulated agents and the task graph tell the same story: an agent is
\* busy with exactly the RUNNING task it owns, which heads its path, and the
\* clock has not passed its finish time (what replace_state demands of a state
\* it adopts, and what _run_epoch restores after it took the task out).
ClocksAgree ==
  /\ \A a \in Agents : \A t \in Tasks :
       current[a] = t <=> status[t] = "RUNNING" /\ owner[t] = a
  /\ \A a \in Agents :
       current[a] # NoTask => Head(path[a]) = current[a] /\ finishAt[a] >= now

\* Nothing is awarded, started or completed before its predecessors are done,
\* whatever patches extend the graph (predecessors of a READY task only).
CommittedInOrder ==
  \A t \in Tasks :
    status[t] \in Committed \cup {"COMPLETED"} => PredsDone(status, t)

\* capability_violations stays empty: every award is to an eligible agent.
AwardsEligible ==
  \A t \in Tasks : assignments[t] # NoAgent => assignments[t] \in Eligible[t]

\* After any change of the team, an unstarted commitment is held by an agent
\* that may be dispatched; only a RUNNING task may outlive its agent's
\* exclusion (the deferred exclusions of replace_active_team).
CommittedToActive ==
  \A t \in Tasks : status[t] = "ASSIGNED" => owner[t] \in active

\* A task in the frontier has no stale award, which would keep it out of every
\* later auction.
NoStrandedReady ==
  \A t \in Tasks : status[t] \in {"PENDING", "READY"} => assignments[t] = NoAgent

\* precedence_violations stays empty: no agent departs for a task before the
\* recorded completion of its predecessors.
DepartsAfterPreds ==
  \A t \in Tasks : \A p \in Preds[t] :
    departure[t] # NoTime => completion[p] # NoTime /\ completion[p] <= departure[t]

\* A deadlock is never premature: nobody is working, and what is left waits
\* for a task that no active agent can do.
DeadlockJustified ==
  result = "DEADLOCK" =>
    /\ Working = {}
    /\ \E t \in Tasks : status[t] = "READY"
    /\ \A t \in Tasks : status[t] \in Unfinished =>
         \/ status[t] = "READY" /\ Eligible[t] \cap active = {}
         \/ status[t] = "PENDING" /\ ~PredsDone(status, t)

-----------------------------------------------------------------------------
(* What a step may never do.                                               *)

\* A RUNNING task is never released, moved or retimed, by a team change, a
\* patch or an auction: it ends by completing at the time booked for it.
KeepsRunning ==
  \A t \in Tasks : status[t] = "RUNNING" =>
    \/ /\ status'[t] = "RUNNING" /\ owner'[t] = owner[t]
       /\ finishAt'[owner[t]] = finishAt[owner[t]]
    \/ status'[t] = "COMPLETED" /\ now' = finishAt[owner[t]]

RunningIsKept == [][KeepsRunning]_vars

\* Rolling auctions do not contest a commitment: inside a call an assigned
\* task keeps its agent until that agent starts it.
KeepsAwards ==
  inCall => \A t \in Tasks : status[t] = "ASSIGNED" =>
              owner'[t] = owner[t] /\ status'[t] \in Committed

AwardsKept == [][KeepsAwards]_vars

\* A selective patch leaves a commitment alone unless the agent that holds it
\* also holds some commitment that a newly ready task competes with.
Rivals(t, new) ==
  {n \in new : PredsDone(status, n) /\ Eligible[n] \cap Eligible[t] \cap active # {}}

SelectiveKeeps ==
  [][\A new \in SUBSET Tasks : ApplyOnlinePatch("SELECTIVE", new) =>
       \A t \in Assigned :
         (\A u \in Assigned : owner[u] = owner[t] => Rivals(u, new) = {})
           => owner'[t] = owner[t]]_vars

\* Tasks that share a bidder with one task are one at least as open as the other
\* (so are those of TASK_TABLE in any fleet: the recon drones, the ground
\* vehicles, and the ground vehicles that carry an applicator).
NestedEligibility ==
  \A t, u, n \in Tasks :
    Eligible[t] \cap Eligible[u] # {} /\ Eligible[t] \cap Eligible[n] # {} =>
      Eligible[u] \subseteq Eligible[n] \/ Eligible[n] \subseteq Eligible[u]

\* The release of what stands behind an affected task never releases more than
\* the affected tasks, which allocation/online.py leaves untested.
SuffixAddsNothing ==
  \A new \in SUBSET (Tasks \ InGraph) :
    ~inCall /\ ValidGraph(InGraph \cup new) =>
      BehindIn(DirectlyAffected(new)) = DirectlyAffected(new)

-----------------------------------------------------------------------------
(* The promise as a whole.                                                 *)

\* The executor implements MissionLifecycle.
stageOf ==
  [t \in Tasks |->
     CASE status[t] = "ABSENT"    -> "outside"
       [] status[t] = "RUNNING"   -> "running"
       [] status[t] = "COMPLETED" -> "done"
       [] OTHER                   -> "open"]

Lifecycle == INSTANCE MissionLifecycle WITH stage <- stageOf, doing <- current

ImplementsLifecycle == Lifecycle!Spec

=============================================================================
