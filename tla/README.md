# A verification of the LLM_MRTA mission console

LLM_MRTA lets an operator run a mission of drones (UAV) and ground vehicles
(UGV) in natural language.  A language model only turns text into typed
requests; everything that follows is deterministic Python: a task dependency
graph is validated, its READY frontier is auctioned by a consensus-based bundle
algorithm (CBBA), a discrete-event executor plays the mission, and the operator
may change the graph or the team between two completions while agents are under
way.  This directory models that deterministic part in TLA+, and the protocol the
session follows with the model (repair, recording, replay), checks it with TLC
and proves the central properties of every one of those parts with TLAPS.

## 1. Inventory

| Part (source) | State it keeps | Operations | What makes it correct |
|---|---|---|---|
| task graph, mission state (`core/`) | tasks, statuses, edges, bundles and paths of agents | recompute READY, clear an assignment, clone | READY exactly when all predecessors are COMPLETED |
| executor (`execution/executor.py`) | clock, per-agent simulation, assignments, departure and completion times, active team, deferred epoch | `run`, `advance_to_next_completion`, `replace_active_team`, `release_assignments`, `auction_ready`, `replace_state`, checkpoints | owners, bundles, paths and awards agree; nothing starts before its predecessors; running tasks are inviolable; deadlock only when justified; calls return |
| online patches (`allocation/online.py`) | none (works on a clone of the executor) | patch, release by policy, auction again | only what competes with the new tasks is released |
| auction (`allocation/cbba.py`, `scoring.py`) | per agent: beliefs about winners and bids, time stamps, bundle | `run_epoch`: build, consensus, release, until quiet | terminates, conflict-free, complete, commitments locked |
| travel and routes (`core/route_graph.py`, `allocation/travel.py`) | memo of distances and paths | shortest path, distance of a leg | routes are shortest; nobody asks for a leg that does not exist |
| plan-time allocation (`allocation/allocate.py`) | clones only | wave after wave of auctions, rehearsed by departure times | every task assigned, in order, and on time |
| team resolution (`allocation/team.py`, `interaction/resources.py`) | clones only | rehearse the permitted teams, choose the best | the chosen team finishes the work; a request is refused only when no team serves it |
| whole-graph validator (`validator/whole_graph.py`, `candidate.py`, `validate.py`) | none | accept or reject a raw candidate | acyclic, workflow-closed, feasible, reachable |
| patch transaction (`validator/patch.py`, `patch_apply.py`) | candidate state | check, materialise, validate, reconcile, or reject | all or nothing; execution order survives; locked and terminal tasks untouched; only the validator decides |
| session (`interaction/orchestrator.py`, `session.py`, `incident_response.py`) | scene, state, plan, runtime, phase, pending clarification, approvals, referents | one turn per utterance, selection, cancellation | all-or-nothing turns; phases; nothing but a commit changes scene or state |
| session execution (`interaction/execute.py`, `online_execute.py`) | phase, runtime | one-shot run, advance, retry | a failed advance keeps the last good runtime; a finished run is not resumed |
| fire approval (`interaction/observe.py`, `scenarios/latent.py`) | queue of fires, decisions | reveal, decide, apply at a boundary | FIFO, exactly one outcome per fire |
| console (`desktop/controller.py`) | command queue, current segment, clock, halts | tick, queue, cancel, apply | commands apply at boundaries, none lost |
| generation, cache (`llm/`) | cache files | two-step generation with one repair; record and replay | no second step on an invalid first; an entry is whole; replay is exact |
| grounding (`interaction/interpret.py`, `ground.py`) | referents of the session | classify, repair once, resolve a phrase or a pronoun | a pronoun means what the operator was last shown, within the window; every turn ends |
| audits, evaluation, demonstration, presentation | files nobody reads back | | not about the system's state |

How they interact: the console calls the session; the session builds candidates
(a scene, a state with a plan, or a clone of the executor) through the
validator, the allocator and the executor, and publishes them at the end of a
turn; the executor calls the auction at the start, after completions and after
every release.  In live mode each answer of the language model is recorded on
disk under a key of its prompt, and a later session may replay it.  Everything
runs in one thread, but the window lets its event loop run inside two of its
callbacks.  What is hard is not parallelism but order: what the operator does falls between two completions, while agents
travel, while an auction is deferred, or after the run ended; several records
(status, owner, bundle, path, award, clock) must move together; and candidates
must not leak.  The process may crash while an entry is written, and the model
may fail or answer wrongly at any call.

`PROJECT.json` lists the components with their sources and the hazards with
their lines.

## 2. Modules

| Module | Models | Role |
|---|---|---|
| `MissionGraph` | `core/task_graph.py`, `validator/whole_graph.py` | constants and operators of the task graph: statuses, predecessors, READY, validity |
| `TaskLists` | bundles and paths | duplicate-free lists: insertion anywhere, removal, the suffix behind a task |
| `Executor` | `execution/executor.py`, `allocation/online.py` | the executor, driven by `run` or step by step, and the operator's changes between steps |
| `OnlineRun` (extends `Executor`) | `interaction/online_execute.py`, `incident_response.py`, `resolve_runtime_team` of `allocation/team.py`, checkpoints of `executor.py` | the copies the session works on: advances that fail and are retried, patches, rehearsed teams, and what is published |
| `MissionLifecycle` | | what the executor promises, without auctions or clocks |
| `CheckpointedRun` | | what the operator is promised of a run from checkpoint to checkpoint, without copies, auctions, clocks and turns; `OnlineRun` and `OnlineSession` implement it |
| `CBBA` | `allocation/cbba.py` | one epoch of the auction |
| `PatchTransaction` | `validator/`, `scenarios/compiler.py` | candidates and patches, while the graph is being carried out |
| `Routes` | `core/route_graph.py` | the shortest-path search and its memo |
| `TeamPlanner` (extends `Routes`) | `allocation/allocate.py`, `team.py`, `travel.py`, `interaction/resources.py` | from a request for resources to a team and a plan |
| `OnlineSession` | `interaction/` | the session: turns, clarifications, incident transactions, answers about fires, runs |
| `Dialogue` | `llm/`, `interaction/interpret.py`, `ground.py`, the turn functions of `orchestrator.py` | one turn from the utterance to its result, with a model that fails and a cache that is replayed |
| `Console` (extends `OnlineSession`) | `desktop/controller.py`, `desktop/window.py` | which calls the console makes, and when: segments, queue, timers |
| `MCExecutor`, `MCOnline`, `MCCBBA`, `MCPatch`, `MCPlanner`, `MCSession`, `MCDialogue`, `MCConsole` | | scenes, maps, gain tables, patches and fleets for TLC |
| `TaskListsProofs`, `ExecutorProofs`, `OnlineProofs`, `CBBAProofs`, `PatchProofs`, `PlannerProofs`, `SessionProofs`, `DialogueProofs` | | theorems and proofs |

**How `Executor` corresponds to the code.**  `status` and `owner` are
`Task.status` and `Task.assigned_agent`; `bundle`, `path` and `current` those of
`Agent` (`current_task` and `_Sim.current` are always written together);
`finishAt`, `now`, `assignments`, `departure`, `completion`, `active`, `started`
and `epochPending` have their names in the code.  `mode` records how the
executor is driven and `result` how the last call ended.  A call is split into
its loop passes: `BeginRun`/`BeginAdvance` are `_prepare_epoch`; `Dispatch`,
`CompleteDue` and `LastFrontier` are the three branches of the loop and
`Finished` its exit.  `CompleteDue` holds everything a pass does: completing all
due tasks, the recomputation of READY, and then either the auction (one-shot) or
the deferral of it and the return (online).  `ReplaceActiveTeam` is
`replace_active_team` under the guard of the session that uses it (which
`RehearsalDecides` of `OnlineRun` justifies), and
`ApplyOnlinePatch` is `apply_online_patch` with the patches the session builds:
tasks of an incident's workflow with the edges the workflow demands.

Abstractions: an edge set is determined by the task set (the workflow rule of
`whole_graph.py` demands exactly those edges), so a graph is the set of its
tasks; travel and dwell times are drawn from `Durations`, so positions and
distances are left out; an auction may end with any award of each biddable task
to an eligible active agent, inserted anywhere in its path.  The last one is
what `CBBA` justifies: `ConflictFree`, `AwardsComplete` and `HeldLocked` are the
executor's assumptions about an epoch, and theorems of it.

**How `OnlineRun` corresponds to the code.**  The session never works on its own
executor: it restores a copy from a checkpoint (`MakeCopy`), and the variables of
`Executor` are those of the copy that is worked on.  `runtime` is
`session.runtime`, by its checkpoint; `phase` and `execution` are the session's
fields.  `Advance`, `Loop` and `Publish` are `advance_online_session`;
`AdvanceRaises` is its handler, and `HalfAuctioned` what an auction that raises
leaves of the copy: running tasks out of the paths, bids in the bundles, no award.
`Patch` and `PublishPatch` are an incident with a response.  `TryTeam`,
`CopyAgain`, `Rehearse` and `Judge` are `resolve_runtime_team` with one permitted
team: the change is made on the copy, a second copy plays the mission to its end,
and the first one is published, together with the patch it may stand on, or both
are dropped.  `ChangeRaises` is the handler of `handle_turn`.  Which of the teams
that serve is the best depends on times and distances; the model may take any.

**How `CBBA` corresponds to the code.**  `y`, `z`, `s` are `CBBAState`, `bundle`
is `Agent.bundle`.  `Bid` is one pass of `_bundle_build` of every agent that
still bids (agents only touch their own beliefs there), `StartConsensus` takes
the snapshot, `Hear(k)` is sender `k` of `_consensus_round` for every receiver,
`EndRound` is `_release_suffix` of every agent and the loop test of `run_epoch`.
`Updates` and `Resets` are the decision table of `_action_rule`.  Marginal
scores (`marginal_score`: the best place of a task in the path) are a table of
gains per agent, task and list of the frontier tasks already won, in the order
they were won.  That order determines the path: a path starts with what is held,
each task went where the score was best, and a release takes the latest ones out
again; so `path` is no variable.

**How `PatchTransaction` corresponds to the code.**  What the scene says of a
task (its target is known, some agent can do it, every vehicle reaches it) is
four constants, `Known`, `Feasible`, `Reachable` and `Required`; `Candidates` and
`Patches` are the raw lists a model or a caller may submit, malformed and
contradictory ones included.  A candidate is parsed, checked and compiled by
`LoadCandidate`; `ApplyPatch` is `apply_patch` with its checks in the order of
the code, so that `verdict` is the code of the first that fails: conflicts, field
errors, terminal tasks, exceptions of the materialisation, the structural errors
of the whole graph, reachability, the reconciliation with what is locked, and
the closing consistency check.  The graph is executed between patches (`Award`,
`Dispatch`, `Complete`, `Release`), which is what a patch meets.

**How `Routes` and `TeamPlanner` correspond to the code.**  One pass of the while
loop of `_shortest_path` is one action; the heap is a set, because an entry is
pushed only below the distance its node has.  `phase` follows
`resolve_initial_team`: `checking` is the reachability check of the validator
(one leg at a time), `choosing` takes the next permitted team, `rehearsing` is
`allocate` with it.  The auction of a wave awards each task to an eligible member
and puts the tasks in any order (the path of a member are its tasks in that
order), which is what `CBBA` promises; `Walk` is what `_walk` makes of it for one
agent.  Each vehicle's leg is a query to `Routes`, each drone's an entry of the
table `Flight`, at speed one.  A team is kept if its rehearsal satisfies the
request, and of those the code's sort key picks one (`Better`).

**How `Dialogue` corresponds to the code.**  `stage` is the model call a turn is
in: the classification, its repair, the two steps of the generation and their
repairs.  `reply` is an answer that has come and is not yet looked at, so that a
failure of the backend, a wrong answer and a crash fall between any two of them.
`tmp` and `disk` are the temporary file and the entries of `llm/cache.py`; a live
session writes them, and after it ended or crashed another session replays
`script`, what was said to it, from the entries alone.  What a call's answer leads
to is a function of the session's state (`Ends`: the result, the call that
follows, what is mentioned), as it is in the turn functions of `orchestrator.py`;
the actions only decide when it happens.  `ResolveIncident` takes a missing phrase
for a pronoun, as `_is_deixis` does, and `Clarify` raises where the question it
would leave open cannot be stored.  `session.referents` with `turns` is the
window of pronouns.  `asked`, `heard`, `exact` and `mentioned` are
history variables of the properties.  Zones, teams and phases are left to
`OnlineSession`: here a session is online or not, and a phrase resolves or not.

**How `OnlineSession` corresponds to the code.**  Its variables are fields of
`MissionSession`:

| Variable | Code |
|---|---|
| `phase`, `runtime`, `execution`, `plan` | the fields of that name; `runtime` is the preserved executor's work, active team and scene |
| `mission` | the task graph of `session.state`, by status |
| `scene` | `session.scene`: how many incidents are registered |
| `directive` | the future-incident response of the last mission proposal |
| `team` | `session.active_team` |
| `pending` | `pending_clarification` |
| `approvals` | `pending_approvals`, with the recorded answers |
| `fate` | of a fire, the outcome of its last audit |
| `call` | a call that works through the answers and has not returned |

Each action is one call (`handle_turn` by kind of request, `select_candidate`,
`record_fire_decision`, `execute_session`, `advance_checkpoint`, ...).  The loop
that carries out answers takes a step for each fire (`ApplyDecision`), because
each has a transaction of its own and may fail alone; nothing else happens
between those steps.  A turn that commits nothing is a stuttering step.  What the
executor does during an advance is reduced to what `Executor` promises of it:
ready tasks that an active agent can do are started, one or several end, and it
gives up only when nothing runs and nothing can start.  `CheckpointedRun` says
that once, and both the executor on its copies (`OnlineRun`) and the session
are shown to implement it, so that what the session assumes of an advance is
what an advance does.  `Faults` names the
calls that may raise although nothing in the session's state says so: an advance
(the auction's `ConvergenceError` of the finding below) and a transaction.

**How `Console` corresponds to the code.**  `play` and `turn` tell where the
window's playback is (`_busy`, `_continuous`, a boundary of the continuous clock
that has taken a queued command); `queue` counts `queued_commands`; `resume` is
`_resume_continuous_after_approval`; `due` is a `QTimer.singleShot` that will
start the run.  Two callbacks call `QApplication.processEvents()` in their middle
(`window.py:474` and 563), and are two steps here: `BeginSubmit` is `submit_command`
up to there and `SubmitCommand` the rest, with `submits` the commands in between;
`PlayCheckpoint` and `OpenClip` are the halves of a single checkpoint.  Between the
halves whatever the window's own checks allow may happen.  The console is busy in
the second case (`_busy` is set first) and not in the first, so that a run may be
started there by a click or a timer; the callbacks stand on one stack, and the turn
comes when what was started above it has returned to the event loop.  A boundary may find an empty segment, which is crossed at once
(`SkipSegment`), or one that cannot be drawn, which stops the run (`StopUndrawn`);
a queued command may be cancelled, and `NewSession` begins the session anew under
flags that are kept from the old one.  The session's actions appear under the console's conditions, so
`Console` shows what the promises of `OnlineSession` are worth to the operator.

## 3. Runs

| Run | Question | Bounds | States |
|---|---|---|---|
| `executor_ground` | consistency and order under patches and team changes, both drivers; a selective patch leaves uninvolved commitments alone; the lifecycle is implemented | 5 tasks (a recon, two incidents), 1 drone and 2 ground vehicles, durations 1 and 2, every team, the three policies | 110,680 |
| `online` | what the session holds is whole, no work is lost, repeated or left without an auction, a rehearsal decides, the run from checkpoint to checkpoint is implemented, a run settles | 3 tasks (a recon, an incident with both steps), 1 drone and 2 vehicles that can do both steps, every team, 1 auction that raises | 197,883 |
| `cbba_epoch` | an epoch ends, in agreement, with complete and greedy awards; held tasks stay | 3 agents that bid for 2 tasks beside one held task; ties one unit wide in one part of the tables, exact bids of two agents in the other; one table of 3 tasks with a tie that comes late, and one with the scores of the code for a layout of 3 tasks | 203,502 |
| `patch` | what is committed is valid, order survives, only the validator decides, what exists is kept | 6 keys of four incidents and a zone; all patches of up to 3 operations, all candidates of up to 3 tasks and 2 edges, malformed ones included; 2 agents | 4,724 |
| `planning` | routes are shortest, no leg is asked for that does not exist, a chosen team serves, a team is dropped for a reason, the search ends | every map of 4 nodes with lanes of 1 or 3, for one route; three maps with 2 drones, 2 vehicles, 3 tasks and every request | 76,621 |
| `session` | mission, plan, runtime, phase and clarification stay consistent in any order of calls, also when advances raise | 1 zone with a fire, 2 incidents, 2 steps of response | 416,333 |
| `dialogue` | replay is exact, entries are whole, calls come in order, pronouns keep their window, turns end | 3 turns, one with a failing model, a window of 2, 2 incidents and a third to be reported, 2 steps of response | 453,417 |
| `console` | a fire is queued once and its answer carried out, a run is paused and can go on, nothing but a command submitted before it changes the mission under a segment | 1 fire, 2 incidents, 1 step, both faults, a queue of 1, 1 submission open to other callbacks | 765,716 |
| `cbba_rising`, `session_team`, `session_lost`, `planning_refused` | disagreements of code and documentation (expected violations) | | |

Why the bounds are enough for what they show: two durations give early, late and
tied completions; two vehicles, one of which alone can suppress, give every
relation of eligibility the task table has (equal, nested, disjoint); a two-task
chain beside an independent task gives a READY task that appears while another
runs, and is where a patch, a team change and the deferred auction meet.  In
`online` both vehicles bid for the suppression that a completion unlocks, so that
an auction that raises leaves bids of a loser behind, and the drone's work gives
completions between which it happens; one failure falls at every place where one
can, and the retry is free of a second.

In the session, two steps of response are needed for a step that waits for
another (the code's workflow has that shape); two incidents leave one to be
reported by the operator beside one that is seen, and `RoomToReport` keeps a
number for every fire so that the bound never blocks an approved response.  One
fire in the console is both the first and the last of the queue, which is where
the conditions of the window differ; that several wait in order behind each other
is proved for any number.  One submission open to other callbacks lets a run, an
answer, a choice or a new session come between its check and its turn; the theorems
hold for any number of submissions inside one another.

In the auction two frontier tasks are the least for which a bid depends on what an
agent has won, and the bids of the tables are in every order to each other; the
layout of three tasks was found by running `marginal_score`: what a drone gains from
a task depends on which of the others it has, and it bids less for one than before
after losing another.

A patch of three operations can add a task, add its edge and contradict one of
them, or break a workflow twice; the keys give a task of each kind that the
checks tell apart, so each error code is reached but `E_RUNNING_LOCKED`, which no
patch ever meets (`ValidationDecides`).  Four
nodes are the least on which the way with fewer lanes is not the shortest and an
entry of the heap is stale when it is taken.  Two vehicles with different bases,
one of them cut off on one map, and two drones of which one is nearer, give teams
that serve, teams in which a required agent is idle, and teams that leave a task
over.  The window of the dialogue is two turns instead of three and the
conversation three, so that a referent is spoken of, missed and forgotten within
it; with more than one failing turn nothing new can be written to the cache.

The theorems below remove the bounds for the safety properties of the executor,
of the online runs, of the auction, of the patches, of routes and plans, of the
session, of the dialogue and of the console.

Deadlock checking is off: the executor stops for good when a one-shot run ends,
an epoch when it is done, the planner when its call returns, a replay where the
recorded conversation stops, and a session when it failed for good with no command
left that it accepts.

Fairness: `OnlineSpec` assumes weak fairness of what a command does once it was
begun (`Internal`: loops of one call, and publications behind them) and of taking
up the next command; and strong fairness of advancing a run that is paused,
because the continuous runtime commits the next checkpoint whenever a segment ends
and the operator's commands are taken between two of those.  A retry after a
failure and all other commands are up to the operator and under no fairness.
`ConsoleSpec` assumes that callbacks return (`SettleFires`,
`CrossBoundary`, `TakeQueued`) and that the clock of a run reaches the end of
its segment (`SegmentEnds`, a repeating timer); the operator owes neither an
answer nor a command, and neither the one-shot timer `StartDue` nor the end of a
submission or a clip that was opened to other callbacks is needed.
`CBBA!FairSpec` assumes weak fairness of the loop of `run_epoch`,
`PlannerSpec` of the steps of the planner, which are loops of one call, and
`DialogueSpec` of the steps of a turn (`Turn`): a model answers or its client
raises, and a call that has its answer goes on; neither what is said next nor a
crash is under fairness.
A team may be changed for ever, so `RunSettles` relies on the strong fairness of
the advance and on the finite set of tasks, not on an operator who stops.

### Findings

Four runs show the code disagree with what its documentation says.

**`cbba_rising`.** The run takes the gains the scoring code computes for two drones, each
holding a task, and two ready tasks close to each other and far from both
drones.  The second drone gains more from one of them when it already holds the
other, because the insertion at the best place shares the long leg.  The drones
then outbid each other in a cycle, and `run_epoch` raises `ConvergenceError`
(`allocation/cbba.py:263`), against its documentation ("Run CBBA to convergence
over the current READY frontier") and the "diminishing-marginal-gain property"
the scoring module relies on.  Executing `run_epoch` on this layout raises the
exception.  The convergence run `cbba_epoch` therefore states the condition
it needs: gains that do not rise with the bundle, and tolerances that do not
chain.  Safety needs neither: agreement at the end of an epoch is a theorem.

**`session_team`.**  A report that names resources but no response, during an
online run, resolves a team on a copy of the executor and stores it in
`session.active_team`; the publication then takes its scene-only branch
(`interaction/incident_response.py:101`) and keeps the old executor.  The
operator is told one team, and the executor dispatches with another, until the
next change of resources.

**`session_lost`.**  `apply_recorded_fire_decisions` takes a fire from the queue
before its transaction runs (`interaction/observe.py:273`).  If an advance has
raised, the retry first carries out the answers in a phase that refuses them: an
approved fire ends as `TURN_ERROR`, an outcome the documentation does not list,
and is never asked about again.

**`planning_refused`.**  `resolve_initial_team` tries the subsets of a platform
only if the request constrains it by a count; otherwise the platform takes part as
a whole (`allocation/team.py:80`).  With two drones of which the farther one is
required, the nearer one wins the only reconnaissance, the required one gets no
task, the single team is dropped, and the request is refused with
`ResourceInfeasibleError` ("No active fleet subset can satisfy both the request
and the mission", line 17) although the team without the nearer drone, which the
request permits, serves the mission.

Other places where code and documents differ, met while modelling and stated
here without a run: `submit_command` runs the event loop between its check that the
console is idle and the turn (`desktop/window.py:474`), so that a click or a pending
timer starts a run there and the turn then commits, or leaves a clarification
pending, under the segment being played, although a command given during playback
is to wait for the next safe checkpoint (`docs/RESEARCH_CONTRACT.md:2025-2027`) and
the comment at `desktop/window.py:521-524` excludes reentrancy for the answers only
(it is why `RunIsPaused` speaks of a pending clarification and `SegmentIsFrozen` of
commands submitted before the segment; a run whose next advance is refused for the
clarification stops with an error); an update that names a step but no incident is
ambiguous with several incidents and ends as `TURN_ERROR` instead of the
clarification `ground.py:266-282` prepares, because `PendingClarification` demands a
target phrase among the slots (`interaction/session.py:120`); a mission update in PLANNING remakes the plan for the whole
fleet and not for the active team (`interaction/orchestrator.py:779`);
`UPDATE_RESOURCES` is refused after a completed run, although
`docs/RESEARCH_CONTRACT.md:2072-2073` accepts it; commands still queued when a
run ends are not taken (`desktop/controller.py:609`); a fire first seen at the
last checkpoint of a mission is not revealed (`desktop/controller.py:443`); the
end of a single checkpoint's playback takes a queued command while a fire waits
for approval (`desktop/window.py:681`), where the continuous path, and the
documentation, make the command wait; a new session leaves
`_resume_continuous_after_approval` as it was, so that an answer in the new
session can start a run nobody asked for (`desktop/window.py:739-748` with
550-557); an answer given while the last segment is shown is carried out under
it, because the run is over by its phase; of two agents that gain the same from a
task the one with the smaller id does not get it if its gain only rises to the tie
when it loses other tasks, because a bid must be higher than the one it believes
(`allocation/cbba.py:100`; table `LateTie` of `MCCBBA`); a turn that was repaired
cannot be replayed, because the invalid first answer is not recorded and its replay raises
`CacheMissError` (`llm/cache.py:115`); of the same prompt asked twice only the
second answer is kept; a first advance that raises leaves EXECUTION_FAILED without a runtime, a phase
from which the console's play buttons cannot leave.

## 4. Proofs

Assumptions: `GraphAssumption` (finite tasks and agents, well-typed tables),
`AcyclicAssumption`, `ExecutorAssumption`, `CBBAAssumption`, `PatchAssumption`
(finite keys and agents, raw lists well typed), `NoneAssumption` (of `OnlineRun`:
`None` is no checkpoint), `RoutesAssumption` (finitely many
nodes; what stands for no search and for no route is neither a search nor a
route), `PlannerAssumption` (well-typed tables, no task without an eligible agent
in the fleet or without a duration, and no more tasks than `max_epochs`, which is
50 in the code: a chain of more would be cut off), `FlightAssumption` (drones fly
straight: the triangle inequality of `math.dist`), `ScenarioAssumption` (what comes
to be planned has lanes with lengths and a graph the validator accepts as closed
and acyclic), `SessionAssumption`,
`QueueAssumption` (the queue's bound is a number), `DialogueAssumption` (finite
incidents, bounds that are numbers) and, of `OnlineSession` and of `Dialogue`,
`NoValueAssumption` (`None` is no value of the other types), all evaluated by TLC
on the instances above.

* `ExecutorProofs`.  The invariants of the run are not inductive one by one: that
  owners, bundles and paths agree after a completion needs that a busy agent's
  task is the head of its path and is its own (`ClockOK`); that a dispatch
  starts an assigned task needs that a path holds only owned tasks
  (`AllocOK`, `BusyOK`) and that owned tasks are in order (`FrontierOK`); that no
  assigned task is left with an inactive agent needs the release to cover the
  suffix.  `IInv` is their conjunction with the state of a call (`CallOK`).
  `InductiveInvariant` proves `Spec => []IInv` by one lemma per action, on top of
  lemmas about the auction and the release, which are used by four actions.  The
  invariants of the run follow.
  Its second part is about steps.  From `IInv`: running tasks are kept, awards are
  kept, and the executor implements `MissionLifecycle` (safety), with tasks mapped to
  stages and agents to what they do.  Two additions to `IInv`, about the recorded
  times and about the end of a call, give `DepartsAfterPreds` and
  `DeadlockJustified`; the latter uses that an unfinished task below which
  everything waits would need a cycle.  `SelectiveAlwaysKeeps`: what a selective
  patch releases is what the new tasks compete with and the suffixes behind it,
  so that everything else keeps its owner and its place.  `SuffixNeverAdds`
  proves, for nested eligibility, what `allocation/online.py` leaves open.
* `OnlineProofs`.  The executor's invariant, carried through the copies the session
  works on.  The copy that is worked on keeps `IInv`, up to the points where an
  auction has raised, from where it is only ever thrown away (`CopyOK`); what is
  published is a whole executor at rest, with its mission, its team and nothing
  left to bid for (`RestOK`, because the deferred auction is the first thing an
  advance does); a rehearsal ends with the mission or with a reason against the
  team (`RehearsalOK`), and the phase of the session fits all three.
  `RuntimeAlwaysAtRest`, `NothingEverLeftToBid`, `RehearsalAlwaysDecides` and
  `WorkAlwaysKept` follow.
  `OnlineImplementsRun`: what the session holds goes from checkpoint to
  checkpoint as `CheckpointedRun` says, whatever the copies do.  The copy takes
  many steps where the abstract run takes one, at the publication, so the proof
  needs to know how far the copy has come: `RunInv` compares its stages with
  those the call started from (nothing but ready tasks of active agents begun,
  nothing undone, something ended when the call returns).  `DeadlockJustified`
  gives the abstract deadlock, and `RehearsalDecides` the guard of a change of
  team, that the new team can do whatever has not begun.
* `CBBAProofs`.  The invariant of an epoch: beliefs are typed, held tasks are
  believed by everyone in the view and in the snapshot, and bundles are the held
  tasks followed by bids.  It gives the type invariant and `HeldLocked` for any
  number of agents, tasks and any gains.  Agreement (`AlwaysConflictFree`,
  `AwardsAlwaysComplete`) needs no convergence argument, because `run_epoch` ends
  only after a round that changed nothing.  `AgreeInv` says that timestamps never
  bring news of a third agent (`OwnNewsOnly` then reduces the decision table to
  what a sender says of its own claims), that this round's bids stand behind the
  bundles the round started with, and what a receiver may believe of the claims
  it has heard.  In a quiet round nobody loses a task: an agent that did would
  believe what it believed before it bid, less than its bid, and that takes two
  rivals with smaller ids that tie in a chain; of the agents that lose something
  the one with the smallest id has no two such rivals, since of two agents that
  both keep a claim one beats the other.  So nobody bid, all have heard the one
  agent that claims a task, and nobody wants to bid.  Neither exact ties nor
  diminishing gains are assumed.  `AwardsComplete` assumes `GainsWorthABid`: who
  can do a task gains more from it than the tolerance of 1e-9, which the decaying
  reward gives for completions up to some 20,700 seconds.
  That the awards are a greedy auctioneer's (`AlwaysMatchesGreedy`) does not
  follow from quiet rounds alone, because an agent keeps what it once chose:
  each choice must stay the best one while prices change (`BestPlaced`), and
  that needs that prices never fall. They could, since an agent that loses a
  task releases what stands behind it and announces no claim for it. Where gains
  diminish they do not (`GreedyInv`): of each price that was announced there is
  an agent that set it (`Board`); if it had to release that task, the tasks
  behind the lost one were best choices at their places and nobody had bid more,
  so it wins them back one by one, at their old places or further ahead, for no
  less (`Released`, `Owed`, `Rebuilt`), and by the end of the round claims the
  price again (`KeepsPrice`); and what a receiver believes is never less than
  the claims it has heard (`HeardBest`). At the end, where all agree, the awards
  are listed by their prices, of equal ones the smaller task first. In that
  order each bundle is filled from the front, so an agent's offer for a task at
  its turn is what the task was worth to it at that place, and somebody who
  offered more would have bid. The hypotheses of `MatchesGreedy` are that gains
  diminish (with every task added to the list of won ones), that different ones are
  further apart than the tolerance, and that a gain depends on how many tasks were
  won and not on which (`LengthDecides`). Without the first the epoch may not end at
  all (`cbba_rising`). The last one is no property of the scores: it always holds
  where no agent can do more than two frontier tasks, because who bids for one of
  them has won the other or none, and that is `PairsMatchGreedy`: for any number of
  agents and tasks, and scores that depend on the path in any way, it needs nothing
  of the kind. For agents that can do three frontier tasks or more
  `AlwaysMatchesGreedy` is about such scores only that depend on the number: an
  agent that loses one task may bid less for another than before, so prices can
  fall and `KeepsPrice` with them, and nothing is claimed there (the layout of
  `cbba_epoch` is one where prices fall, and is there for `ConflictFree`,
  `AwardsComplete` and `Converges`). Both theorems add a hypothesis about ties (`TiesStand`): of two agents that may gain the same from a task,
  the one with the smaller id gains it whatever it has won. It holds whenever no
  two agents gain the same, as distances in general position do not. Without it
  an agent with a smaller id may come to offer a price that others have long
  believed of another, and `Board` does not describe who is then taken for the
  winner; those tables are left to TLC (`LateTie` in `cbba_epoch`).
* `SessionProofs`.  For any fleet, any zones and fires, any length of response
  and any set of faults: the runtime the session preserves is its mission and
  scene, the table of phases, responses in order, the plan up to date, the queue
  of fires, clarifications that can be resumed, commitments kept, and a failed
  run final.  The invariant `SessionInv` has a core (types, phases, mission and
  runtime) and the fires; the core needs that approvals exist only with a
  mission, and both need that the incidents of the scene and the fires not yet
  settled together stay within the bound, or a response could not be registered.
  One lemma shows what `Adapt` and `RegisterIncident` do, and the turns and the
  loop over the answers, which share them, cite it.
  `SessionImplementsRun`: seen as tasks, team and last outcome, every call of the
  session is a step of `CheckpointedRun` or none.  A session without a runtime is
  a run not yet launched, so plans and patches before the first advance, and a
  one-shot execution, which preserves none, are no steps of it; the first advance
  is its launch.
* `PatchProofs`.  For any keys, scene, agents, candidates and patches: what is
  committed is valid, no patch leaves a task begun before its predecessors are
  done, what exists is kept, and what the validator accepts is carried out.  The
  invariant adds to validity that owners, holders and statuses agree.  Its heart
  is that the checks before the materialisation leave nothing for it to raise on,
  and that the workflow rule gives an existing task no new predecessor, so that
  the reconciliation finds nothing to release and the closing check nothing to
  object to.
* `PlannerProofs`.  For any map, fleet, mission and request: routes are shortest, no
  wave asks for a leg that does not exist, a rehearsal leaves over only what its
  team cannot do, and a published plan can be carried out and is what was asked
  for.  The heart of the search is Dijkstra's argument, with the stale entries
  the code leaves in the heap: a node whose least entry was taken has its
  distance (`Settled`, `HeapOK`), `previous` leads back along lanes that add up
  to it (`TreeOK`), and a search that ends empty has closed a set no lane leaves
  (`ReachOK`).  Distances are stated without ways: a gauge gives every node a
  height such that no lane climbs more than its length, and a distance is the
  greatest difference in height any gauge has (`IsDistance`); an enclosure is a
  set no lane leaves (`Separated`).  The distances a search gives are a gauge
  themselves.  So the triangle inequality, on which travel between waves rests
  (`Travel`), and that a vehicle reaches from any task what it reaches from its
  base, because lanes go both ways (`LegsExist`), need no ways to be joined; that
  gauges and enclosures say the same as the ways of `RoutesShortest` is proved
  once (`RightRoutesAreShortest`).  A plan keeps `PlanOK`: times fit durations,
  predecessors and the barrier, and between two tasks of an agent, and from each
  of them to where it stands, there is the time to travel (`TravelOK`; that it is
  about all pairs and not the neighbours on a path is what makes it inductive, and
  rests on the triangle inequality).  `WalkLater` carries it along a walk.  That a
  rehearsal stops only when its team can do nothing more needs that there are no
  more epochs than assigned tasks.  What is defined by recursion (`BackFrom`,
  `Milestones`, `Walk`) is unrolled by an induction over sets of numbers: a set
  that holds the first number of an interval and with each the next holds the
  interval (`IntervalInduction`, from the least number that is not in it).
* `DialogueProofs`.  For any number of turns, incidents, steps of response and
  any window: calls come in order (the repair of an intent after an invalid answer, that of a
  graph after a second step that was unfit, a second step after a clean first, never
  a third try), which is a rank on the calls a turn has
  made (`AskedOK`); an entry on disk is whole and is what was last heard of its
  prompt, whenever the process crashes (`DiskOK`); a pronoun means what was last
  mentioned, within the window (`WindowOK`); and a replay is exact.  The last is
  not an invariant of single states: that a replay meets the entry of every call
  it makes needs that the recorded turn, started from the same session, went
  through the same calls with the same answers.  `ReplayOK` states it by the
  chain of calls a turn can make (`Reaches`, `Replays`): a turn's end is a
  function of the session and the answers, so equal beginnings have equal ends.
* The last section of `SessionProofs` is about the console.  Each of its steps is a
  step of the session, leaves it alone, or begins it anew, so `SessionInv` carries
  over; `ConsoleInv` adds that a mission has a plan and how the callback under way,
  the segment and the phase go together (`CallbackOK`).  That a run is paused
  between boundaries needs that a boundary never leaves a run going whose phase it
  did not settle, and that the turn of a command submitted before the run keeps the
  phase; that nothing else changes under a segment needs that answers are carried
  out only inside a callback or when the run is over, and that a choice or a new
  session needs an idle console.
* `TaskListsProofs`.  The lemmas about lists they rest on.

Proved and in no run, because the theorem says more than an instance would: the
types, `CommittedInOrder`, `AwardsEligible`, `NoStrandedReady`,
`CommittedToActive`, `AwardsKept`, `ResponsesKnown`, `TerminalIsFinal` and
`SuffixAddsNothing`; `PlanCovers`, which is the last part of `PhaseTable`; and the
session's `ImplementsRun`, which TLC confirms in the bounds of `session`, but too
slowly to be part of that run.

Only model-checked: everything about liveness (`RunSettles`,
`Converges`, `SearchEnds`, `FireServed`, `TurnEnds`), which is beyond the prover
(that `run_epoch` ends within its rounds is part of `Converges`); and the awards of
a greedy auctioneer where an offer rises to a tie late.  Neither proved nor checked:
the awards of a greedy auctioneer where gains depend on which tasks an agent has won
and not on their number only.

## 5. What is not modelled

Metrics of a result (distances, workload, utilisation); the limit of 10,000
passes, which needs more passes than a scene has tasks and agents; positions and
travel in the executor; the reward that decays with time, below the tie tolerance
after some 20,700 seconds; which of several teams that serve a running mission is
ranked first; the hashes of a patch; error texts.  In the session and
the dialogue: the statuses of incidents, which only change what maps and answers
show, the matching of names and phrases, prompts beyond what they depend on, and
the older single source of observations that applies them without asking.  In
the console: a change of mode and the drawing of frames.  Audits are written and
never read back; the evaluation, the demonstration and the presentation run the
system or show it and have no way into its state.

## 6. Plan

What is left, in the order it would be taken:

1. Statuses of incidents, and the scene object that is written in place.
2. Liveness of queued commands in the console; several fires in `FireServed`.
