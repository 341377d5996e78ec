----------------------------- MODULE OnlineRun -----------------------------
(***************************************************************************)
(* How the session drives an executor online: every advance, every patch   *)
(* and every change of the team works on a copy made from a checkpoint     *)
(* (checkpoint, from_checkpoint), and the copy becomes the session's       *)
(* runtime when the work has succeeded (interaction/online_execute.py,     *)
(* orchestrator.py, allocation/online.py, team.py).  An auction may raise  *)
(* (cbba.py:263, travel.py:46) and leave the copy half changed; the        *)
(* operator may then retry the advance.  A change of the team is rehearsed *)
(* to the end of the mission on one more copy (resolve_runtime_team).      *)
(*                                                                         *)
(* The variables of Executor are those of the copy that is worked on; what *)
(* the session holds is runtime, by its checkpoint.                        *)
(***************************************************************************)
EXTENDS Executor

CONSTANTS
  MaxRaises,     \* a bound of the run, on the auctions that raise
  None

VARIABLES
  runtime,       \* session.runtime, None before the first advance
  phase,         \* session.phase
  execution,     \* session.execution, by its termination
  step,          \* what the copy is at
  candidate,     \* the new team's executor while its future is played
  required,      \* agents the request wants to see at work
  raises

sessionVars == <<runtime, phase, execution>>
rehearsalVars == <<candidate, required>>
onlineVars == <<vars, sessionVars, step, rehearsalVars, raises>>

-----------------------------------------------------------------------------
(* Checkpoints.                                                            *)

Checkpoints ==
  [status : [Tasks -> TaskStatus], owner : [Tasks -> Agents \cup {NoAgent}],
   bundle : [Agents -> Seq(Tasks)], path : [Agents -> Seq(Tasks)],
   assignments : [Tasks -> Agents \cup {NoAgent}],
   current : [Agents -> Tasks \cup {NoTask}], finishAt : [Agents -> Nat], now : Nat,
   departure : [Tasks -> Nat \cup {NoTime}], completion : [Tasks -> Nat \cup {NoTime}],
   active : SUBSET Agents, started : BOOLEAN, epochPending : BOOLEAN]

ASSUME NoneAssumption == None \notin Checkpoints

\* Mutants of Checkpoint: the clocks of the agents are forgotten; the deferred
\* auction is.
CheckpointIdle ==
  [status |-> status, owner |-> owner, bundle |-> bundle, path |-> path,
   assignments |-> assignments, current |-> [a \in Agents |-> NoTask],
   finishAt |-> finishAt, now |-> now, departure |-> departure,
   completion |-> completion, active |-> active, started |-> started,
   epochPending |-> epochPending]

CheckpointSettled ==
  [status |-> status, owner |-> owner, bundle |-> bundle, path |-> path,
   assignments |-> assignments, current |-> current, finishAt |-> finishAt,
   now |-> now, departure |-> departure, completion |-> completion,
   active |-> active, started |-> started, epochPending |-> FALSE]

\* checkpoint().
Checkpoint ==
  [status |-> status, owner |-> owner, bundle |-> bundle, path |-> path,
   assignments |-> assignments, current |-> current, finishAt |-> finishAt,
   now |-> now, departure |-> departure, completion |-> completion,
   active |-> active, started |-> started, epochPending |-> epochPending]

\* from_checkpoint(), for a copy that will be driven as m says.
Restore(c, m) ==
  /\ status' = c.status /\ owner' = c.owner
  /\ bundle' = c.bundle /\ path' = c.path /\ assignments' = c.assignments
  /\ current' = c.current /\ finishAt' = c.finishAt /\ now' = c.now
  /\ departure' = c.departure /\ completion' = c.completion
  /\ active' = c.active
  /\ started' = c.started /\ epochPending' = c.epochPending
  /\ mode' = m /\ inCall' = FALSE /\ result' = "NONE"

\* Mutant of Copy: the executor that was worked on last is taken up again.
TakeUp ==
  UNCHANGED <<allocVars, clockVars, active, epochVars>>
    /\ mode' = "ONLINE" /\ inCall' = FALSE /\ result' = "NONE"

\* Whatever the session is asked to do next, it does on a copy.
Copy == Restore(runtime, "ONLINE")

MakeCopy ==
  /\ step = "idle" /\ runtime # None /\ execution # "DEADLOCK"
  /\ Copy
  /\ step' = "copied"
  /\ UNCHANGED <<sessionVars, rehearsalVars, raises>>

-----------------------------------------------------------------------------
(* An advance, and its failure.                                            *)

MayAdvance ==
  /\ step = "copied"
  /\ phase \in {"PLANNING", "EXECUTION_PAUSED", "EXECUTION_FAILED"}

\* _preconditions, advance_to_next_completion.
Advance ==
  /\ MayAdvance /\ BeginAdvance
  /\ step' = "advancing"
  /\ UNCHANGED <<sessionVars, rehearsalVars, raises>>

Loop ==
  /\ step \in {"advancing", "rehearsing"} /\ CallStep
  /\ UNCHANGED <<sessionVars, step, rehearsalVars, raises>>

\* The copy becomes the runtime when the call has returned.
Publish ==
  /\ step = "advancing" /\ ~inCall
  /\ runtime' = Checkpoint /\ execution' = result
  /\ phase' = CASE result = "NONE" -> "EXECUTION_PAUSED"
                [] result = "COMPLETED" -> "EXECUTED"
                [] result = "DEADLOCK" -> "EXECUTION_FAILED"
  /\ step' = "idle"
  /\ UNCHANGED <<vars, rehearsalVars, raises>>

\* What an auction that raises leaves of an executor: the running tasks are out
\* of the paths, every active agent has bid on all it can do, and nothing has
\* been awarded.
HalfAuctioned ==
  LET bids(a) == {t \in Biddable(Recomputed(status), assignments, active) : a \in Eligible[t]}
      bundles == [a \in active |-> AuctionedBundles(bundle[a], bids(a))]
      paths == [a \in active |-> Inserted(Without(path[a], {current[a]}), bids(a))]
  IN /\ Biddable(Recomputed(status), assignments, active) # {}
     /\ \E b \in Picks(bundles) :
          bundle' = [a \in Agents |-> IF a \in active THEN b[a] ELSE bundle[a]]
     /\ \E p \in Picks(paths) :
          path' = [a \in Agents |-> IF a \in active THEN p[a] ELSE path[a]]
     /\ status' = Recomputed(status)
     /\ UNCHANGED <<owner, assignments, clockVars, active, epochVars, callVars>>

\* The session keeps the runtime it had; that a run has failed is recorded.
AdvanceRaises ==
  /\ MayAdvance /\ (~started \/ epochPending)
  /\ raises < MaxRaises /\ raises' = raises + 1
  /\ HalfAuctioned
  /\ step' = "idle" /\ phase' = "EXECUTION_FAILED" /\ execution' = "NONE"
  /\ UNCHANGED <<runtime, rehearsalVars>>

-----------------------------------------------------------------------------
(* Patches.                                                                *)

\* prepare_incident_transaction with a response; it also takes a mission up
\* again that was completed.
Patch(new) ==
  /\ step = "copied" /\ phase \in {"EXECUTION_PAUSED", "EXECUTED"}
  /\ ApplyOnlinePatch("SELECTIVE", new)
  /\ step' = "patched"
  /\ UNCHANGED <<sessionVars, rehearsalVars, raises>>

PublishPatch ==
  /\ step = "patched"
  /\ runtime' = Checkpoint /\ execution' = "NONE" /\ phase' = "EXECUTION_PAUSED"
  /\ step' = "idle"
  /\ UNCHANGED <<vars, rehearsalVars, raises>>

-----------------------------------------------------------------------------
(* A change of the team, alone or with a patch: resolve_runtime_team, for  *)
(* one of the teams that the request permits.                              *)

TryTeam(desired, forced) ==
  /\ \/ step = "patched"
     \/ step = "copied" /\ phase = "EXECUTION_PAUSED"
  /\ TeamReplaced(desired, forced)
  /\ step' = "replaced" /\ required' = forced
  /\ UNCHANGED <<sessionVars, candidate, raises>>

\* Mutant of Future: the mission is played with the team of before.
FutureOfBefore == runtime

Future == Checkpoint

\* One more copy, to play the mission to its end.
CopyAgain ==
  /\ step = "replaced"
  /\ candidate' = Checkpoint
  /\ Restore(Future, "NEW")
  /\ step' = "rehearsing"
  /\ UNCHANGED <<sessionVars, required, raises>>

Rehearse ==
  /\ step = "rehearsing" /\ BeginRun
  /\ UNCHANGED <<sessionVars, step, rehearsalVars, raises>>

Rehearsed == step = "rehearsing" /\ result # "NONE"

\* The team is published as it was before its future, with the patch it came
\* with, or both are given up.
Residual == {t \in Tasks : candidate.status[t] # "COMPLETED"}

\* Mutant of Serves: how the future ends is not looked at.
ServesRequired == required \subseteq {assignments[t] : t \in Residual}

Serves == result = "COMPLETED" /\ required \subseteq {assignments[t] : t \in Residual}

Judge ==
  /\ Rehearsed
  /\ IF Serves
     THEN runtime' = candidate /\ execution' = "NONE" /\ phase' = "EXECUTION_PAUSED"
     ELSE UNCHANGED sessionVars
  /\ candidate' = None /\ required' = {}
  /\ step' = "idle"
  /\ UNCHANGED <<vars, raises>>

\* An auction of the patch, of the new team or of its future raises: the turn
\* ends in an error and nothing has happened.
ChangeRaises ==
  /\ step \in {"patched", "replaced", "rehearsing"}
  /\ raises < MaxRaises /\ raises' = raises + 1
  /\ candidate' = None /\ required' = {}
  /\ step' = "idle"
  /\ UNCHANGED <<vars, sessionVars>>

-----------------------------------------------------------------------------

OnlineInit ==
  /\ Init
  /\ runtime = None /\ phase = "PLANNING" /\ execution = "NONE"
  /\ step = "copied" /\ candidate = None /\ required = {} /\ raises = 0

Internal == Loop \/ Publish \/ PublishPatch \/ CopyAgain \/ Rehearse \/ Judge

OnlineNext ==
  \/ MakeCopy \/ Advance \/ AdvanceRaises \/ ChangeRaises \/ Internal
  \/ \E new \in SUBSET Tasks : Patch(new)
  \/ \E desired \in NextTeams : \E forced \in SUBSET desired : TryTeam(desired, forced)

\* A command that was begun ends.  A run is driven on from one completion to
\* the next, whatever the operator asks between two of them; to retry a run
\* that failed is up to the operator.
OnlineSpec ==
  /\ OnlineInit /\ [][OnlineNext]_onlineVars
  /\ WF_onlineVars(Internal) /\ WF_onlineVars(MakeCopy)
  /\ SF_onlineVars(Advance /\ phase = "EXECUTION_PAUSED")

-----------------------------------------------------------------------------
(* Properties.                                                             *)

Published ==
  INSTANCE Executor WITH
    status <- runtime.status, owner <- runtime.owner, bundle <- runtime.bundle,
    path <- runtime.path, assignments <- runtime.assignments,
    current <- runtime.current, finishAt <- runtime.finishAt, now <- runtime.now,
    departure <- runtime.departure, completion <- runtime.completion,
    active <- runtime.active, started <- runtime.started,
    epochPending <- runtime.epochPending

\* Whatever raises halfway and whatever is rehearsed, what the session holds is
\* an executor at rest: its records agree, and each of its commitments can be
\* kept by the team it has (online_execute.py: "an exception cannot leave a
\* half-advanced clock or task status behind").
RuntimeAtRest ==
  runtime # None =>
    Published!HoldersAgree /\ Published!ClocksAgree /\ Published!CommittedToActive

\* Nothing the operator was shown is undone or done again by a retry, a patch
\* or a rehearsal: the clock does not go back, what is completed stays so at
\* its time, and a running task is departed for once and ends at the time it
\* was booked for, by the agent that runs it (online_execute.py: a retry "does
\* not rewind simulation time or the completed prefix").
WorkIsKept ==
  [][runtime # None =>
       /\ runtime.now <= runtime'.now
       /\ \A t \in Tasks :
            /\ runtime.status[t] = "COMPLETED" =>
                 /\ runtime'.status[t] = "COMPLETED"
                 /\ runtime'.completion[t] = runtime.completion[t]
            /\ runtime.status[t] = "RUNNING" =>
                 LET a == runtime.owner[t] IN
                 /\ runtime'.departure[t] = runtime.departure[t]
                 /\ \/ /\ runtime'.status[t] = "RUNNING" /\ runtime'.owner[t] = a
                       /\ runtime'.finishAt[a] = runtime.finishAt[a]
                    \/ /\ runtime'.status[t] = "COMPLETED"
                       /\ runtime'.completion[t] = runtime.finishAt[a]]_onlineVars

\* While agents are sent out, no ready task that one of them can do is left
\* without an award: the auction a completion has deferred is neither lost
\* between checkpoints nor with a failed advance.
NothingLeftToBid == inCall => Biddable(status, assignments, active) = {}

\* A future ends in completion exactly when each task that is not begun can be
\* done by a member of the team: this is the guard of ReplaceActiveTeam.
RehearsalDecides ==
  Rehearsed =>
    (result = "COMPLETED" <=>
       \A t \in Tasks :
         candidate.status[t] \in Unfinished \ {"RUNNING"} =>
           Eligible[t] \cap candidate.active # {})

\* A run that is driven on comes to its end, however often the operator adds to
\* the mission or changes the team, or it fails and waits for the operator.
RunSettles ==
  phase = "EXECUTION_PAUSED" ~> execution # "NONE" \/ phase = "EXECUTION_FAILED"

-----------------------------------------------------------------------------
(* The promise as a whole.                                                 *)

\* The stages, the team and the outcome of the run the session holds.
RunStage == IF runtime = None THEN [t \in Tasks |-> "outside"] ELSE Published!stageOf
RunTeam == IF runtime = None THEN {} ELSE runtime.active
RunOutcome ==
  CASE runtime = None -> "none"
    [] runtime # None /\ phase = "EXECUTION_PAUSED" -> "running"
    [] runtime # None /\ phase = "EXECUTED" -> "completed"
    [] OTHER -> IF execution = "DEADLOCK" THEN "deadlocked" ELSE "raised"

Run ==
  INSTANCE CheckpointedRun WITH stage <- RunStage, team <- RunTeam, outcome <- RunOutcome

\* Whatever becomes of the copies, what the session holds is a mission that is
\* run from checkpoint to checkpoint.
ImplementsRun == Run!Spec

=============================================================================
