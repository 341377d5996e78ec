---------------------------- MODULE OnlineProofs ----------------------------
(***************************************************************************)
(* The checkpoint, copy and publish protocol of OnlineRun, for every task  *)
(* graph, fleet, team and number of auctions that raise.                   *)
(*                                                                         *)
(* A copy that is given up may be half auctioned, so the invariant of the  *)
(* executor holds of the copy while a command works on it, and, as RestOK, *)
(* of the checkpoint the session holds at all times.                       *)
(***************************************************************************)
EXTENDS OnlineRun, ExecutorProofs

\* What a checkpoint must hold for the copies made of it to be executors.
RestOK(c) ==
  /\ AllocOK(c.status, c.owner, c.assignments, c.bundle, c.path)
  /\ BusyOK(c.status, c.owner, c.path, c.current)
  /\ FrontierOK(c.status)
  /\ c.finishAt \in [Agents -> Nat] /\ c.now \in Nat
  /\ c.departure \in [Tasks -> Nat \cup {NoTime}]
  /\ c.completion \in [Tasks -> Nat \cup {NoTime}]
  /\ \A a \in Agents : c.current[a] # NoTask => c.finishAt[a] >= c.now
  /\ c.active \subseteq Agents /\ c.started \in BOOLEAN /\ c.epochPending \in BOOLEAN
  /\ \A t \in Tasks : c.status[t] = "ASSIGNED" => c.owner[t] \in c.active
  /\ \A t \in Tasks : c.status[t] # "ABSENT" => \A p \in Preds[t] : c.status[p] # "ABSENT"
  /\ c.started /\ ~c.epochPending => Biddable(c.status, c.assignments, c.active) = {}

\* What was done by c is done by d, and what c had running runs in d or has
\* ended there as it was booked.
Continues(c, d) ==
  /\ c.now <= d.now
  /\ \A t \in Tasks :
       /\ c.status[t] = "COMPLETED" =>
            d.status[t] = "COMPLETED" /\ d.completion[t] = c.completion[t]
       /\ c.status[t] = "RUNNING" =>
            /\ d.departure[t] = c.departure[t]
            /\ \/ /\ d.status[t] = "RUNNING" /\ d.owner[t] = c.owner[t]
                  /\ d.finishAt[c.owner[t]] = c.finishAt[c.owner[t]]
               \/ d.status[t] = "COMPLETED" /\ d.completion[t] = c.finishAt[c.owner[t]]

\* The copy that plays the future of the candidate has its team and its graph,
\* and whatever has left its frontier since can be done by a member of the team.
RehearsalOK ==
  /\ RestOK(candidate)
  /\ runtime # None => Continues(runtime, candidate)
  /\ mode \in {"NEW", "ONE_SHOT"}
  /\ result = "COMPLETED" => AllFinished(status)
  /\ active = candidate.active
  /\ \A t \in Tasks :
       /\ status[t] = "ABSENT" <=> candidate.status[t] = "ABSENT"
       /\ status[t] \in Recomputable => candidate.status[t] \in Unstarted
       /\ candidate.status[t] \in Unstarted /\ status[t] \notin Recomputable =>
            Eligible[t] \cap active # {}

\* The copy a command works on.
CopyOK ==
  /\ IInv /\ EndOK
  /\ runtime # None => Continues(runtime, Checkpoint)
  /\ step \in {"copied", "patched", "replaced"} => ~inCall /\ result = "NONE"
  /\ step = "rehearsing" => RehearsalOK

\* The inductive invariant.
OnlineInv ==
  /\ runtime # None => RestOK(runtime)
  /\ step # "idle" => CopyOK
  /\ Quiet

-----------------------------------------------------------------------------
(* Checkpoints and copies.                                                 *)

\* The checkpoint of an executor that is at rest is one a copy can be made of.
LEMMA CheckpointRests ==
  ASSUME IInv, EndOK, Quiet
  PROVE  RestOK(Checkpoint)
BY DEF Checkpoint, RestOK, IInv, ClockOK, CallOK, CommittedToActive, EndOK, Quiet

\* A copy of a checkpoint is an executor at rest, to be driven anew.
LEMMA RestoreOK ==
  ASSUME NEW c, RestOK(c), NEW m \in {"NEW", "ONLINE"}, Restore(c, m)
  PROVE  IInv' /\ EndOK' /\ Quiet' /\ ~inCall' /\ result' = "NONE" /\ mode' = m
<1>1. /\ AllocOK(status', owner', assignments', bundle', path')
      /\ BusyOK(status', owner', path', current')
      /\ FrontierOK(status')
  BY DEF RestOK, Restore
<1>2. ClockOK' /\ CallOK'
  BY DEF RestOK, Restore, ClockOK, CallOK
<1>3. CommittedToActive'
  BY DEF RestOK, Restore, CommittedToActive
<1>4. EndOK'
  BY DEF RestOK, Restore, EndOK, DeadlockJustified
<1>5. Quiet'
  BY DEF RestOK, Restore, Quiet
<1> QED
  BY <1>1, <1>2, <1>3, <1>4, <1>5 DEF IInv, Restore

\* Nothing is lost by a copy.
LEMMA RestoreContinues ==
  ASSUME NEW c, RestOK(c), NEW m, Restore(c, m)
  PROVE  Continues(c, Checkpoint')
BY DEF RestOK, Restore, Continues, Checkpoint

\* What a step of the copy keeps is kept since the checkpoint.
LEMMA WorkContinues ==
  ASSUME NEW c, RestOK(c), Continues(c, Checkpoint), IInv, KeepsWork, now' \in Nat
  PROVE  Continues(c, Checkpoint')
<1>1. /\ c.now \in Nat /\ now \in Nat /\ c.now <= now
  BY DEF RestOK, IInv, ClockOK, Continues, Checkpoint
<1>2. c.now <= now'
  BY <1>1 DEF KeepsWork
<1>3. ASSUME NEW t \in Tasks, c.status[t] = "COMPLETED"
      PROVE  status'[t] = "COMPLETED" /\ completion'[t] = c.completion[t]
  <2>1. status[t] = "COMPLETED" /\ completion[t] = c.completion[t]
    BY <1>3 DEF Continues, Checkpoint
  <2> QED
    BY <2>1 DEF KeepsWork
<1>4. ASSUME NEW t \in Tasks, c.status[t] = "RUNNING"
      PROVE  /\ departure'[t] = c.departure[t]
             /\ \/ /\ status'[t] = "RUNNING" /\ owner'[t] = c.owner[t]
                   /\ finishAt'[c.owner[t]] = c.finishAt[c.owner[t]]
                \/ status'[t] = "COMPLETED" /\ completion'[t] = c.finishAt[c.owner[t]]
  <2>1. /\ departure[t] = c.departure[t]
        /\ \/ /\ status[t] = "RUNNING" /\ owner[t] = c.owner[t]
              /\ finishAt[c.owner[t]] = c.finishAt[c.owner[t]]
           \/ status[t] = "COMPLETED" /\ completion[t] = c.finishAt[c.owner[t]]
    BY <1>4 DEF Continues, Checkpoint
  <2>2. CASE status[t] = "COMPLETED"
    <3>1. completion[t] = c.finishAt[c.owner[t]]
      BY <2>1, <2>2
    <3>2. /\ status'[t] = "COMPLETED" /\ completion'[t] = completion[t]
          /\ departure'[t] = departure[t]
      BY <2>2 DEF KeepsWork
    <3> QED
      BY <2>1, <3>1, <3>2
  <2>3. CASE status[t] = "RUNNING"
    <3>1. owner[t] = c.owner[t] /\ finishAt[c.owner[t]] = c.finishAt[c.owner[t]]
      BY <2>1, <2>3
    <3>2. /\ departure'[t] = departure[t]
          /\ \/ /\ status'[t] = "RUNNING" /\ owner'[t] = owner[t]
                /\ finishAt'[owner[t]] = finishAt[owner[t]]
             \/ status'[t] = "COMPLETED" /\ completion'[t] = finishAt[owner[t]]
      BY <2>3 DEF KeepsWork
    <3> QED
      BY <2>1, <3>1, <3>2
  <2> QED
    BY <2>1, <2>2, <2>3
<1>5. Checkpoint' = [status |-> status', owner |-> owner', bundle |-> bundle', path |-> path',
                     assignments |-> assignments', current |-> current',
                     finishAt |-> finishAt', now |-> now', departure |-> departure',
                     completion |-> completion', active |-> active', started |-> started',
                     epochPending |-> epochPending']
  BY DEF Checkpoint
<1> QED
  BY <1>2, <1>3, <1>4, <1>5 DEF Continues

-----------------------------------------------------------------------------
(* Rehearsals.                                                             *)

\* An unstarted commitment can be done by a member of the team.
LEMMA CommittedCanBeDone ==
  ASSUME IInv, NEW t \in Tasks, status[t] = "ASSIGNED"
  PROVE  Eligible[t] \cap active # {}
<1>1. owner[t] \in active /\ owner[t] # NoAgent /\ assignments[t] = owner[t]
  BY DEF IInv, AllocOK, CommittedToActive, Committed
<1>2. assignments[t] \in Eligible[t]
  BY <1>1 DEF IInv, AllocOK
<1> QED
  BY <1>1, <1>2

\* A rehearsal begins with the candidate's team, graph and commitments.
LEMMA RehearsalBegins ==
  ASSUME IInv, EndOK, Quiet, runtime # None => Continues(runtime, Checkpoint),
         Restore(Checkpoint, "NEW"), candidate' = Checkpoint, runtime' = runtime
  PROVE  RehearsalOK'
<1>1. RestOK(candidate')
  BY CheckpointRests
<1>2. runtime' # None => Continues(runtime', candidate')
  OBVIOUS
<1>3. /\ mode' = "NEW" /\ result' = "NONE" /\ status' = status /\ active' = active
      /\ candidate'.status = status /\ candidate'.active = active
  BY DEF Restore, Checkpoint
<1>4. ASSUME NEW t \in Tasks, status[t] \in Unstarted, status[t] \notin Recomputable
      PROVE  Eligible[t] \cap active # {}
  BY <1>4, CommittedCanBeDone DEF Unstarted
<1> QED
  BY <1>1, <1>2, <1>3, <1>4 DEF RehearsalOK, Unstarted

\* Each step of its run keeps what is known of it.
LEMMA RehearsalStep ==
  ASSUME IInv, IInv', EndOK, RehearsalOK, BeginRun \/ CallStep,
         UNCHANGED <<runtime, candidate>>
  PROVE  RehearsalOK'
<1>1. KeepsTeam
  BY CallKeepsTeam
<1>2. mode' \in {"NEW", "ONE_SHOT"}
  BY DEF BeginRun, CallStep, Finished, Dispatch, CompleteDue, LastFrontier, Return, callVars,
         RehearsalOK
<1>3. ASSUME result' = "COMPLETED" PROVE AllFinished(status')
  <2>1. CASE BeginRun
    BY <1>3, <2>1 DEF BeginRun, PrepareEpoch, EndOK
  <2>2. CASE Finished
    BY <2>2 DEF Finished, allocVars
  <2>3. CASE Dispatch
    BY <1>3, <2>3 DEF Dispatch, callVars, EndOK
  <2>4. CASE CompleteDue
    BY <1>3, <2>4 DEF CompleteDue, EndOK, RehearsalOK
  <2>5. CASE LastFrontier
    BY <1>3, <2>5 DEF LastFrontier, Return, EndOK
  <2> QED
    BY <2>1, <2>2, <2>3, <2>4, <2>5 DEF CallStep
<1>4. ASSUME NEW t \in Tasks, candidate.status[t] \in Unstarted, status'[t] \notin Recomputable
      PROVE  Eligible[t] \cap active # {}
  <2>1. CASE status[t] \notin Recomputable
    BY <1>4, <2>1 DEF RehearsalOK
  <2>2. CASE status[t] \in Recomputable
    <3>1. status'[t] = "ASSIGNED"
      BY <1>1, <1>4, <2>2 DEF KeepsTeam, Unstarted
    <3>2. owner'[t] \in active' /\ owner'[t] # NoAgent /\ assignments'[t] = owner'[t]
      BY <3>1 DEF IInv, AllocOK, CommittedToActive, Committed
    <3>3. assignments'[t] \in Eligible[t]
      BY <3>2 DEF IInv, AllocOK
    <3> QED
      BY <1>1, <3>2, <3>3 DEF KeepsTeam
  <2> QED
    BY <2>1, <2>2
<1>5. ASSUME NEW t \in Tasks
      PROVE  /\ status'[t] = "ABSENT" <=> candidate.status[t] = "ABSENT"
             /\ status'[t] \in Recomputable => candidate.status[t] \in Unstarted
  BY <1>1 DEF KeepsTeam, RehearsalOK
<1> QED
  BY <1>1, <1>2, <1>3, <1>4, <1>5 DEF RehearsalOK, KeepsTeam

\* The outcome of a rehearsal tells whether each task the candidate has not
\* begun has an eligible agent in its team.
LEMMA OutcomeDecides ==
  ASSUME IInv, EndOK, RehearsalOK
  PROVE  RehearsalDecides
<1> SUFFICES ASSUME result # "NONE"
             PROVE  result = "COMPLETED" <=>
                      \A t \in Tasks :
                        candidate.status[t] \in Unfinished \ {"RUNNING"} =>
                          Eligible[t] \cap candidate.active # {}
  BY DEF RehearsalDecides, Rehearsed
<1>1. Unfinished \ {"RUNNING"} = Unstarted
  BY DEF Unfinished, Unstarted, Recomputable, Committed
<1>2. status \in [Tasks -> TaskStatus] /\ candidate.active = active
  BY DEF IInv, AllocOK, RehearsalOK
<1>3. ASSUME result = "COMPLETED", NEW t \in Tasks, candidate.status[t] \in Unstarted
      PROVE  Eligible[t] \cap active # {}
  <2>1. status[t] \notin Unfinished
    BY <1>3 DEF RehearsalOK, AllFinished
  <2> QED
    BY <1>3, <2>1 DEF RehearsalOK, Unfinished
<1>4. ASSUME result # "COMPLETED"
      PROVE  \E t \in Tasks : candidate.status[t] \in Unstarted /\ Eligible[t] \cap active = {}
  <2>1. result = "DEADLOCK"
    BY <1>4 DEF IInv, CallOK
  <2>2. PICK t \in Tasks : status[t] = "READY"
    BY <2>1 DEF EndOK, DeadlockJustified
  <2>3. Eligible[t] \cap active = {}
    BY <2>1, <2>2 DEF EndOK, DeadlockJustified, Unfinished, Recomputable
  <2>4. candidate.status[t] \in Unstarted
    BY <2>2 DEF RehearsalOK, Recomputable
  <2> QED
    BY <2>3, <2>4
<1> QED
  BY <1>1, <1>2, <1>3, <1>4

-----------------------------------------------------------------------------
(* The steps of the session.                                               *)

\* A step of the copy that keeps its invariant and its work, in a command that
\* is no rehearsal.
LEMMA CopyStep ==
  ASSUME OnlineInv, step # "idle", IInv', EndOK', KeepsWork, runtime' = runtime,
         step' # "rehearsing",
         step' \in {"copied", "patched", "replaced"} => ~inCall' /\ result' = "NONE"
  PROVE  CopyOK'
<1>1. now' \in Nat
  BY DEF IInv, ClockOK
<1>2. runtime' # None => Continues(runtime', Checkpoint')
  BY <1>1, WorkContinues DEF OnlineInv, CopyOK
<1> QED
  BY <1>2 DEF CopyOK

\* A command begins with a copy of the runtime.
LEMMA MakeCopyStep ==
  ASSUME OnlineInv, MakeCopy
  PROVE  OnlineInv'
<1>1. /\ RestOK(runtime) /\ Restore(runtime, "ONLINE")
      /\ runtime' = runtime /\ step' = "copied"
  BY DEF OnlineInv, MakeCopy, Copy, sessionVars
<1>2. IInv' /\ EndOK' /\ Quiet' /\ ~inCall' /\ result' = "NONE"
  BY <1>1, RestoreOK
<1>3. Continues(runtime, Checkpoint')
  BY <1>1, RestoreContinues
<1> QED
  BY <1>1, <1>2, <1>3 DEF OnlineInv, CopyOK

\* An advance and the passes of its loop are steps of the executor, and so are
\* those of a rehearsal.
LEMMA CallOnline ==
  ASSUME OnlineInv, Advance \/ Loop \/ Rehearse
  PROVE  OnlineInv'
<1>1. /\ step # "idle" /\ step' # "idle"
      /\ BeginAdvance \/ CallStep \/ BeginRun
      /\ runtime' = runtime /\ candidate' = candidate
      /\ \/ step' = "advancing"
         \/ step = "rehearsing" /\ step' = "rehearsing" /\ (BeginRun \/ CallStep)
  BY DEF Advance, MayAdvance, Loop, Rehearse, sessionVars, rehearsalVars
<1>2. CopyOK /\ IInv /\ EndOK /\ Quiet
  BY <1>1 DEF OnlineInv, CopyOK
<1>3. IInv'
  BY <1>1, <1>2, NextOK DEF Next
<1>4. EndOK' /\ Quiet' /\ KeepsWork
  BY <1>1, <1>2, EndCall, QuietCall, CallKeepsWork
<1>5. CASE step' = "advancing"
  <2>1. CopyOK'
    BY <1>1, <1>3, <1>4, <1>5, CopyStep
  <2> QED
    BY <1>1, <1>4, <2>1 DEF OnlineInv
<1>6. CASE step = "rehearsing" /\ step' = "rehearsing" /\ (BeginRun \/ CallStep)
  <2>1. RehearsalOK'
    BY <1>1, <1>2, <1>3, <1>6, RehearsalStep DEF CopyOK
  <2>2. now' \in Nat
    BY <1>3 DEF IInv, ClockOK
  <2>3. runtime' # None => Continues(runtime', Checkpoint')
    BY <1>1, <1>2, <1>4, <2>2, WorkContinues DEF OnlineInv, CopyOK
  <2> QED
    BY <1>1, <1>3, <1>4, <1>6, <2>1, <2>3 DEF OnlineInv, CopyOK
<1> QED
  BY <1>1, <1>5, <1>6

\* A patch works on the copy.
LEMMA PatchOnline ==
  ASSUME OnlineInv, NEW new \in SUBSET Tasks, Patch(new)
  PROVE  OnlineInv'
<1>1. /\ step = "copied" /\ step' = "patched" /\ runtime' = runtime
      /\ ApplyOnlinePatch("SELECTIVE", new)
  BY DEF Patch, sessionVars
<1>2. "SELECTIVE" \in ReleasePolicies
  BY DEF ReleasePolicies
<1>3. IInv /\ EndOK
  BY <1>1 DEF OnlineInv, CopyOK
<1>4. IInv' /\ EndOK' /\ KeepsWork
  BY <1>1, <1>2, <1>3, ApplyOnlinePatchOK, EndPatch, PatchKeepsWork
<1>5. Quiet' /\ ~inCall' /\ result' = "NONE"
  BY <1>1, QuietRelease DEF ApplyOnlinePatch
<1>6. CopyOK'
  BY <1>1, <1>4, <1>5, CopyStep
<1> QED
  BY <1>1, <1>5, <1>6 DEF OnlineInv

\* So does a change of the team.
LEMMA TeamOnline ==
  ASSUME OnlineInv, NEW desired \in NextTeams, NEW forced \in SUBSET desired,
         TryTeam(desired, forced)
  PROVE  OnlineInv'
<1>1. /\ step \in {"copied", "patched"} /\ step' = "replaced" /\ runtime' = runtime
      /\ TeamReplaced(desired, forced)
  BY DEF TryTeam, sessionVars
<1>2. desired \in SUBSET Agents
  BY ExecutorAssumption
<1>3. IInv /\ EndOK /\ ~inCall /\ result = "NONE"
  BY <1>1 DEF OnlineInv, CopyOK
<1>4. IInv' /\ EndOK' /\ KeepsWork
  BY <1>1, <1>2, <1>3, TeamReplacedOK, EndTeam, TeamKeepsWork
<1>5. Quiet' /\ ~inCall' /\ result' = "NONE"
  BY <1>1, <1>3, QuietRelease DEF TeamReplaced, callVars
<1>6. CopyOK'
  BY <1>1, <1>4, <1>5, CopyStep
<1> QED
  BY <1>1, <1>5, <1>6 DEF OnlineInv

\* A rehearsal works on one more copy.
LEMMA CopyAgainStep ==
  ASSUME OnlineInv, CopyAgain
  PROVE  OnlineInv'
<1>1. /\ step = "replaced" /\ step' = "rehearsing" /\ runtime' = runtime
      /\ candidate' = Checkpoint /\ Restore(Checkpoint, "NEW")
  BY DEF CopyAgain, Future, sessionVars
<1>2. CopyOK /\ IInv /\ EndOK /\ Quiet
  BY <1>1 DEF OnlineInv, CopyOK
<1>3. RestOK(Checkpoint)
  BY <1>2, CheckpointRests
<1>4. IInv' /\ EndOK' /\ Quiet'
  BY <1>1, <1>3, RestoreOK
<1>5. RehearsalOK'
  BY <1>1, <1>2, RehearsalBegins DEF CopyOK
<1>6. Checkpoint' = Checkpoint
  BY <1>1 DEF Restore, Checkpoint
<1>7. runtime' # None => Continues(runtime', Checkpoint')
  BY <1>1, <1>2, <1>6 DEF CopyOK
<1> QED
  BY <1>1, <1>2, <1>4, <1>5, <1>7 DEF OnlineInv, CopyOK

\* A copy that is given up leaves the runtime alone, whatever is left of it.
LEMMA RaiseOnline ==
  ASSUME OnlineInv, AdvanceRaises \/ ChangeRaises
  PROVE  OnlineInv'
<1>1. step' = "idle" /\ runtime' = runtime
  BY DEF AdvanceRaises, ChangeRaises, sessionVars
<1>2. CASE AdvanceRaises
  <2>1. /\ ~inCall /\ (~started \/ epochPending)
        /\ UNCHANGED <<started, epochPending, inCall>>
    BY <1>2 DEF AdvanceRaises, MayAdvance, HalfAuctioned, OnlineInv, CopyOK, epochVars, callVars
  <2> QED
    BY <1>1, <2>1 DEF OnlineInv, Quiet
<1>3. CASE ChangeRaises
  <2>1. UNCHANGED <<status, assignments, active, started, epochPending, inCall>>
    BY <1>3 DEF ChangeRaises, vars, allocVars, epochVars, callVars
  <2> QED
    BY <1>1, <2>1 DEF OnlineInv, Quiet
<1> QED
  BY <1>2, <1>3

\* What is published is the checkpoint of a copy whose command has succeeded.
LEMMA PublishOnline ==
  ASSUME OnlineInv, Publish \/ PublishPatch \/ Judge
  PROVE  OnlineInv'
<1>1. /\ step # "idle" /\ step' = "idle"
      /\ UNCHANGED <<status, assignments, active, started, epochPending, inCall>>
      /\ \/ runtime' = Checkpoint
         \/ runtime' = runtime
         \/ runtime' = candidate /\ step = "rehearsing"
  BY DEF Publish, PublishPatch, Judge, Rehearsed, sessionVars, vars, allocVars, epochVars,
         callVars
<1>2. RestOK(Checkpoint)
  BY <1>1, CheckpointRests DEF OnlineInv, CopyOK
<1>3. runtime' # None => RestOK(runtime')
  BY <1>1, <1>2 DEF OnlineInv, CopyOK, RehearsalOK
<1> QED
  BY <1>1, <1>3 DEF OnlineInv, Quiet

\* Nothing happens to a copy while the session stutters.
LEMMA StutterOnline ==
  ASSUME OnlineInv, UNCHANGED onlineVars
  PROVE  OnlineInv'
<1>1. /\ UNCHANGED <<status, owner, bundle, path, assignments>>
      /\ UNCHANGED <<current, finishAt, now, departure, completion>>
      /\ UNCHANGED <<active, started, epochPending, mode, inCall, result>>
      /\ UNCHANGED <<runtime, candidate, step>>
  BY DEF onlineVars, vars, allocVars, clockVars, epochVars, callVars, sessionVars, rehearsalVars
<1>2. Quiet' = Quiet
  BY <1>1 DEF Quiet
<1>3. ASSUME step # "idle" PROVE CopyOK'
  <2>1. CopyOK
    BY <1>3 DEF OnlineInv
  <2>2. IInv'
    BY <1>1, <2>1, NextOK DEF CopyOK, vars, allocVars, clockVars, epochVars, callVars
  <2>3. EndOK'
    BY <1>1, <2>1 DEF CopyOK, EndOK, DeadlockJustified, Working
  <2>4. Checkpoint' = Checkpoint
    BY <1>1 DEF Checkpoint
  <2>5. RehearsalOK' = RehearsalOK
    BY <1>1 DEF RehearsalOK
  <2> QED
    BY <1>1, <2>1, <2>2, <2>3, <2>4, <2>5 DEF CopyOK
<1> QED
  BY <1>1, <1>2, <1>3 DEF OnlineInv

\* A session has no runtime at first, and the executor it makes is a new one.
LEMMA OnlineStarts ==
  ASSUME OnlineInit
  PROVE  OnlineInv
<1>1. IInv /\ EndOK
  BY InitOK, EndInit DEF OnlineInit
<1> QED
  BY <1>1 DEF OnlineInit, Init, OnlineInv, CopyOK, Quiet

\* Every step of the session keeps the invariant.
LEMMA OnlineStep ==
  ASSUME OnlineInv, [OnlineNext]_onlineVars
  PROVE  OnlineInv'
BY MakeCopyStep, CallOnline, PatchOnline, TeamOnline, CopyAgainStep, RaiseOnline, PublishOnline,
   StutterOnline
   DEF OnlineNext, Internal

\* The invariant holds of every behaviour of the session.
THEOREM OnlineInvariant == OnlineSpec => []OnlineInv
BY OnlineStarts, OnlineStep, PTL DEF OnlineSpec

-----------------------------------------------------------------------------
(* The theorems.                                                           *)

\* Whatever raises halfway and whatever is rehearsed, what the session holds is
\* an executor at rest.
THEOREM RuntimeAlwaysAtRest == OnlineSpec => []RuntimeAtRest
<1>1. ASSUME OnlineInv, runtime # None
      PROVE  Published!HoldersAgree /\ Published!ClocksAgree /\ Published!CommittedToActive
  <2>1. RestOK(runtime)
    BY <1>1 DEF OnlineInv
  <2>2. Published!HoldersAgree
    <3>1. AllocOK(runtime.status, runtime.owner, runtime.assignments, runtime.bundle, runtime.path)
      BY <2>1 DEF RestOK
    <3>2. Published!Committed = Committed
      BY DEF Committed, Published!Committed
    <3>3. \A a \in Agents :
            /\ IsInjective(runtime.bundle[a])
            /\ ToSet(runtime.bundle[a]) = {t \in Tasks : runtime.owner[t] = a}
            /\ IsInjective(runtime.path[a])
            /\ ToSet(runtime.path[a]) = {t \in Tasks : runtime.owner[t] = a}
      BY <3>1 DEF AllocOK, Owned
    <3>4. \A t \in Tasks :
            /\ runtime.status[t] \in Committed <=> runtime.owner[t] # NoAgent
            /\ runtime.status[t] \in Committed => runtime.assignments[t] = runtime.owner[t]
            /\ runtime.assignments[t] # NoAgent =>
                 runtime.status[t] \in Committed \cup {"COMPLETED"}
      BY <3>1 DEF AllocOK
    <3> QED
      BY <3>2, <3>3, <3>4
      DEF Published!HoldersAgree, IsInjective, Published!IsInjective, ToSet, Published!ToSet
  <2>3. Published!ClocksAgree
    BY <2>1 DEF RestOK, BusyOK, Published!ClocksAgree
  <2>4. Published!CommittedToActive
    BY <2>1 DEF RestOK, Published!CommittedToActive
  <2> QED
    BY <2>2, <2>3, <2>4
<1>2. OnlineInv => RuntimeAtRest
  BY <1>1 DEF RuntimeAtRest
<1> QED
  BY <1>2, OnlineInvariant, PTL

\* The auction a completion defers is lost neither between two checkpoints nor
\* with an advance that failed.
THEOREM NothingEverLeftToBid == OnlineSpec => []NothingLeftToBid
<1>1. OnlineInv => NothingLeftToBid
  BY DEF OnlineInv, Quiet, NothingLeftToBid
<1> QED
  BY <1>1, OnlineInvariant, PTL

\* The rehearsal to the end of the mission decides what replace_active_team
\* relies on: each task that is not begun has an eligible agent in the team.
THEOREM RehearsalAlwaysDecides == OnlineSpec => []RehearsalDecides
<1>1. ASSUME OnlineInv PROVE RehearsalDecides
  <2>1. CASE step = "rehearsing"
    <3>1. CopyOK /\ RehearsalOK
      BY <1>1, <2>1 DEF OnlineInv, CopyOK
    <3> QED
      BY <3>1, OutcomeDecides DEF CopyOK
  <2>2. CASE step # "rehearsing"
    BY <2>2 DEF RehearsalDecides, Rehearsed
  <2> QED
    BY <2>1, <2>2
<1>2. OnlineInv => RehearsalDecides
  BY <1>1
<1> QED
  BY <1>2, OnlineInvariant, PTL

\* What the session publishes continues what it held.
LEMMA PublishContinues ==
  ASSUME OnlineInv, [OnlineNext]_onlineVars, runtime # None
  PROVE  runtime' = runtime \/ Continues(runtime, runtime')
<1>1. CASE Publish \/ PublishPatch \/ Judge
  <2>1. /\ step # "idle"
        /\ \/ runtime' = Checkpoint
           \/ runtime' = runtime
           \/ runtime' = candidate /\ step = "rehearsing"
    BY <1>1 DEF Publish, PublishPatch, Judge, Rehearsed, sessionVars
  <2> QED
    BY <2>1 DEF OnlineInv, CopyOK, RehearsalOK
<1>2. CASE ~(Publish \/ PublishPatch \/ Judge)
  BY <1>2 DEF OnlineNext, Internal, onlineVars, sessionVars, MakeCopy, Advance, AdvanceRaises,
              ChangeRaises, Loop, CopyAgain, Rehearse, Patch, TryTeam
<1> QED
  BY <1>1, <1>2

\* Nothing the operator was shown is undone or done again by a retry, a patch
\* or a rehearsal.
THEOREM WorkAlwaysKept == OnlineSpec => WorkIsKept
<1> DEFINE Shown ==
             runtime # None =>
               /\ runtime.now <= runtime'.now
               /\ \A t \in Tasks :
                    /\ runtime.status[t] = "COMPLETED" =>
                         /\ runtime'.status[t] = "COMPLETED"
                         /\ runtime'.completion[t] = runtime.completion[t]
                    /\ runtime.status[t] = "RUNNING" =>
                         LET a == runtime.owner[t] IN
                         /\ runtime'.departure[t] = runtime.departure[t]
                         /\ \/ /\ runtime'.status[t] = "RUNNING" /\ runtime'.owner[t] = a
                               /\ runtime'.finishAt[a] = runtime.finishAt[a]
                            \/ /\ runtime'.status[t] = "COMPLETED"
                               /\ runtime'.completion[t] = runtime.finishAt[a]
<1>1. ASSUME OnlineInv, [OnlineNext]_onlineVars PROVE Shown
  <2>1. CASE runtime # None
    <3>1. CASE runtime' = runtime
      <4>1. runtime.now \in Nat
        BY <1>1, <2>1 DEF OnlineInv, RestOK
      <4> QED
        BY <3>1, <4>1
    <3>2. CASE Continues(runtime, runtime')
      BY <3>2 DEF Continues
    <3> QED
      BY <1>1, <2>1, <3>1, <3>2, PublishContinues
  <2> QED
    BY <2>1
<1>2. OnlineInv /\ [OnlineNext]_onlineVars => [Shown]_onlineVars
  BY <1>1
<1> QED
  BY <1>2, OnlineInvariant, PTL DEF OnlineSpec, WorkIsKept

-----------------------------------------------------------------------------
(* What the session holds is a run from checkpoint to checkpoint.          *)
(*                                                                         *)
(* A published step is taken at once where the copy took many.  RunInv     *)
(* says how far the copy has come from what the session holds.             *)

\* The mission and the team a command has begun with.
BaseStage ==
  IF runtime = None
  THEN [t \in Tasks |-> IF status[t] = "ABSENT" THEN "outside" ELSE "open"]
  ELSE StageFor(runtime.status)
BaseTeam == IF runtime = None THEN active ELSE runtime.active

\* Statuses st after some tasks have been started.
Begun(b, T, st) ==
  \A t \in Tasks :
    \/ StageFor(st)[t] = b[t]
    \/ t \in Run!Startable(b, T) /\ StageFor(st)[t] = "running"

\* Statuses st when some have ended.
Ended(b, T, st) ==
  /\ \A t \in Tasks :
       \/ StageFor(st)[t] = b[t]
       \/ b[t] = "running" /\ StageFor(st)[t] = "done"
       \/ t \in Run!Startable(b, T) /\ StageFor(st)[t] \in {"running", "done"}
  /\ \E t \in Tasks : b[t] # "done" /\ StageFor(st)[t] = "done"

Same(b, st) == \A t \in Tasks : StageFor(st)[t] = b[t]

\* Statuses st of a mission that may have grown.
Grown(b, st) ==
  \A t \in Tasks : StageFor(st)[t] = b[t] \/ (b[t] = "outside" /\ StageFor(st)[t] = "open")
Larger(b, st) == \E t \in Tasks : b[t] = "outside" /\ StageFor(st)[t] = "open"

\* A mission that a change has prepared, with statuses st.
Prepared(st) ==
  /\ runtime # None /\ phase \in {"EXECUTION_PAUSED", "EXECUTED"}
  /\ Grown(BaseStage, st)
  /\ phase = "EXECUTED" => Larger(BaseStage, st)

AdvanceOK ==
  /\ phase # "EXECUTED" /\ mode = "ONLINE" /\ active = BaseTeam
  /\ inCall => Begun(BaseStage, active, status)
  /\ ~inCall /\ result = "DEADLOCK" => Same(BaseStage, status)
  /\ ~inCall /\ result # "DEADLOCK" =>
       /\ Ended(BaseStage, active, status)
       /\ result = "COMPLETED" <=> AllFinished(status)

RunInv ==
  /\ phase \in {"PLANNING", "EXECUTION_PAUSED", "EXECUTED", "EXECUTION_FAILED"}
  /\ phase = "PLANNING" => runtime = None
  /\ phase \in {"EXECUTION_PAUSED", "EXECUTED"} => runtime # None
  /\ runtime # None /\ phase # "EXECUTED" => ~ AllFinished(runtime.status)
  /\ step # "idle" =>
       /\ execution # "DEADLOCK"
       /\ runtime = None => \E t \in Tasks : status[t] # "ABSENT"
  /\ step = "copied" => Same(BaseStage, status) /\ active = BaseTeam
  /\ step = "advancing" => AdvanceOK
  /\ step = "patched" =>
       Prepared(status) /\ Larger(BaseStage, status) /\ active = runtime.active
  /\ step = "replaced" => Prepared(status)
  /\ step = "rehearsing" => Prepared(candidate.status) /\ candidate # None
  /\ step \in {"idle", "copied", "advancing", "patched", "replaced", "rehearsing"}

\* A checkpoint is not None.
LEMMA CheckpointIsSome ==
  ASSUME IInv
  PROVE  Checkpoint # None
<1>1. Checkpoint \in Checkpoints
  BY DEF Checkpoint, Checkpoints, IInv, AllocOK, BusyOK, ClockOK, CallOK
<1> QED
  BY <1>1, NoneAssumption

\* A mission is over when all its tasks are finished.
LEMMA OverOf ==
  ASSUME NEW st \in [Tasks -> TaskStatus]
  PROVE  Run!Over(StageFor(st)) <=> AllFinished(st)
<1>1. ASSUME NEW t \in Tasks
      PROVE  StageFor(st)[t] \in {"open", "running"} <=> st[t] \in Unfinished
  <2>1. st[t] \in TaskStatus
    OBVIOUS
  <2> QED
    BY <2>1, StageForOf DEF TaskStatus, Unfinished, Recomputable, Committed
<1> QED
  BY <1>1 DEF Run!Over, AllFinished

\* Stages are what the run knows.
LEMMA StageForType ==
  ASSUME NEW st
  PROVE  StageFor(st) \in [Tasks -> Run!Stages]
<1>1. \A t \in Tasks : StageFor(st)[t] \in Run!Stages
  BY StageForOf DEF Run!Stages
<1>2. StageFor(st) = [t \in Tasks |-> StageFor(st)[t]]
  BY DEF StageFor
<1> QED
  BY <1>1, <1>2

\* A step that moves unstarted tasks only is seen by nobody.
LEMMA RearrangedSame ==
  ASSUME Rearranged(status, owner)
  PROVE  /\ \A t \in Tasks : StageFor(status')[t] = StageFor(status)[t]
         /\ \A t \in Tasks : status'[t] = "ABSENT" <=> status[t] = "ABSENT"
<1>1. ASSUME NEW t \in Tasks PROVE StageFor(status')[t] = StageFor(status)[t]
  BY StageForOf DEF Rearranged, Unstarted, Recomputable
<1> QED
  BY <1>1, RearrangedGraph

\* Some task of a mission that is not over stays unfinished while none ends.
LEMMA BegunUnfinished ==
  ASSUME NEW b, NEW T, NEW st \in [Tasks -> TaskStatus], Begun(b, T, st), ~ Run!Over(b)
  PROVE  ~ AllFinished(st)
<1>1. PICK t \in Tasks : b[t] \in {"open", "running"}
  BY DEF Run!Over
<1>2. StageFor(st)[t] \in {"open", "running"}
  BY <1>1 DEF Begun
<1> QED
  BY <1>2, OverOf DEF Run!Over

\* What a command begins with is not over, unless it was completed.
LEMMA BaseUnfinished ==
  ASSUME OnlineInv, RunInv, step # "idle", phase # "EXECUTED"
  PROVE  ~ Run!Over(BaseStage)
<1>1. CASE runtime = None
  <2>1. PICK t \in Tasks : status[t] # "ABSENT"
    BY <1>1 DEF RunInv
  <2>2. BaseStage[t] = "open"
    BY <1>1, <2>1 DEF BaseStage
  <2> QED
    BY <2>2 DEF Run!Over
<1>2. CASE runtime # None
  <2>1. runtime.status \in [Tasks -> TaskStatus]
    BY <1>2 DEF OnlineInv, RestOK, AllocOK
  <2>2. ~ AllFinished(runtime.status) /\ BaseStage = StageFor(runtime.status)
    BY <1>2 DEF RunInv, BaseStage
  <2> QED
    BY <2>1, <2>2, OverOf
<1> QED
  BY <1>1, <1>2

\* Within a call what it has begun with stays.
LEMMA BaseKept ==
  ASSUME KeepsTeam, runtime' = runtime
  PROVE  BaseStage' = BaseStage /\ (active = BaseTeam => active' = BaseTeam')
<1>1. \A t \in Tasks : status'[t] = "ABSENT" <=> status[t] = "ABSENT"
  BY DEF KeepsTeam
<1>2. active' = active
  BY DEF KeepsTeam
<1> QED
  BY <1>1, <1>2 DEF BaseStage, BaseTeam

\* A dispatch starts what the team could have started from the beginning.
LEMMA DispatchBegins ==
  ASSUME IInv, Dispatch, NEW b, Begun(b, active, status)
  PROVE  Begun(b, active, status')
<1> DEFINE heads == {Head(path[a]) : a \in Dispatchable}
<1>1. \A t \in Tasks : \/ t \in heads /\ status'[t] = "RUNNING"
                       \/ t \notin heads /\ status'[t] = status[t]
  BY DispatchMoves
<1>2. \A t \in heads : t \in Tasks /\ status[t] = "ASSIGNED" /\ PredsDone(status, t)
  BY DispatchMoves
<1> HIDE DEF heads
<1> SUFFICES ASSUME NEW t \in Tasks
             PROVE  \/ StageFor(status')[t] = b[t]
                    \/ t \in Run!Startable(b, active) /\ StageFor(status')[t] = "running"
  BY DEF Begun
<1>3. CASE t \notin heads
  <2>1. StageFor(status')[t] = StageFor(status)[t]
    BY <1>1, <1>3, StageForOf
  <2> QED
    BY <2>1 DEF Begun
<1>4. CASE t \in heads
  <2>1. StageFor(status')[t] = "running" /\ StageFor(status)[t] = "open"
    BY <1>1, <1>2, <1>4, StageForOf
  <2>2. b[t] = "open"
    BY <2>1 DEF Begun
  <2>3. Eligible[t] \cap active # {}
    BY <1>2, <1>4, CommittedCanBeDone
  <2>4. ASSUME NEW p \in Preds[t] PROVE b[p] = "done"
    <3>1. p \in Tasks
      BY GraphAssumption
    <3>2. StageFor(status)[p] = "done"
      BY <1>2, <1>4, <3>1, StageForOf DEF PredsDone
    <3> QED
      BY <3>1, <3>2 DEF Begun
  <2> QED
    BY <2>1, <2>2, <2>3, <2>4 DEF Run!Startable
<1> QED
  BY <1>3, <1>4

\* A completion event ends what runs.
LEMMA CompletionEnds ==
  ASSUME IInv, CompleteDue, NEW b, Begun(b, active, status)
  PROVE  Ended(b, active, status')
<1> DEFINE ends == {current[a] : a \in Due}
<1>1. Due # {} /\ Due \subseteq Working
  BY CompleteDueMoves
<1>2. \A t \in ends : status[t] = "RUNNING" /\ status'[t] = "COMPLETED"
  BY CompleteDueMoves
<1>3. \A t \in Tasks \ ends :
        \/ status[t] \in Unstarted /\ status'[t] \in Unstarted
        \/ status[t] \notin Unstarted /\ status'[t] = status[t]
  BY CompleteDueMoves
<1>4. \E t \in Tasks : t \in ends
  <2>1. PICK a \in Due : TRUE
    BY <1>1
  <2>2. a \in Agents /\ current[a] # NoTask
    BY <1>1, <2>1 DEF Working
  <2>3. current[a] \in Tasks
    BY <2>2 DEF IInv, BusyOK
  <2> QED
    BY <2>1, <2>3
<1> HIDE DEF ends
<1>5. \A t \in Tasks : t \in ends => StageFor(status)[t] = "running" /\ StageFor(status')[t] = "done"
  BY <1>2, StageForOf
<1>6. \A t \in Tasks : t \notin ends => StageFor(status')[t] = StageFor(status)[t]
  BY <1>3, StageForOf DEF Unstarted, Recomputable
<1>7. ASSUME NEW t \in Tasks
      PROVE  \/ StageFor(status')[t] = b[t]
             \/ b[t] = "running" /\ StageFor(status')[t] = "done"
             \/ t \in Run!Startable(b, active) /\ StageFor(status')[t] \in {"running", "done"}
  <2>1. CASE t \in ends
    BY <1>5, <2>1 DEF Begun
  <2>2. CASE t \notin ends
    BY <1>6, <2>2 DEF Begun
  <2> QED
    BY <2>1, <2>2
<1>8. PICK t \in Tasks : t \in ends
  BY <1>4
<1>9. b[t] # "done"
  <2>1. b[t] = "running" \/ t \in Run!Startable(b, active)
    BY <1>5, <1>8 DEF Begun
  <2> QED
    BY <2>1 DEF Run!Startable
<1> QED
  BY <1>5, <1>7, <1>8, <1>9 DEF Ended

\* An online completion event tells whether the mission is over.
LEMMA CompletionTells ==
  ASSUME CompleteDue, mode = "ONLINE"
  PROVE  /\ ~inCall' /\ mode' = "ONLINE"
         /\ result' = IF AllFinished(status') THEN "COMPLETED" ELSE "NONE"
<1> DEFINE ends == {current[a] : a \in Due}
           st == [t \in Tasks |-> IF t \in ends THEN "COMPLETED" ELSE status[t]]
<1>1. /\ status' = Recomputed(st) /\ mode' = "ONLINE" /\ inCall' = FALSE
      /\ result' = IF AllFinished(st) THEN "COMPLETED" ELSE "NONE"
  BY DEF CompleteDue, Return
<1> HIDE DEF st
<1>2. \A t \in Tasks : status'[t] \in Unfinished <=> st[t] \in Unfinished
  BY <1>1, RecomputedMoves DEF Unfinished
<1>3. AllFinished(status') <=> AllFinished(st)
  BY <1>2 DEF AllFinished
<1> QED
  BY <1>1, <1>3

\* Where nobody works nothing has been started.
LEMMA NobodyWorks ==
  ASSUME IInv, Working = {}, Dispatchable = {}, NEW b, NEW T, Begun(b, T, status)
  PROVE  Same(b, status)
<1>1. \A t \in Tasks : status[t] # "RUNNING"
  BY NothingCommitted DEF Committed
<1>2. \A t \in Tasks : StageFor(status)[t] # "running"
  BY <1>1, StageForOf
<1> QED
  BY <1>2 DEF Begun, Same

\* An advance begins and goes on from what it was given.
LEMMA AdvanceRun ==
  ASSUME OnlineInv, RunInv, OnlineInv',
         Advance \/ (step = "advancing" /\ Loop)
  PROVE  RunInv'
<1>1. /\ step # "idle" /\ step' = "advancing" /\ UNCHANGED sessionVars
      /\ BeginAdvance \/ CallStep
      /\ IInv /\ EndOK
  BY DEF Advance, MayAdvance, Loop, OnlineInv, CopyOK
<1>2. UNCHANGED <<runtime, phase, execution>>
  BY <1>1 DEF sessionVars
<1>3. KeepsTeam
  BY <1>1, CallKeepsTeam
<1>4. BaseStage' = BaseStage /\ (active = BaseTeam => active' = BaseTeam')
  BY <1>2, <1>3, BaseKept
<1>5. active' = active /\ phase # "EXECUTED" /\ active = BaseTeam
  BY <1>1, <1>3 DEF KeepsTeam, Advance, MayAdvance, RunInv, AdvanceOK
<1>6. ~ Run!Over(BaseStage)
  BY <1>1, <1>5, BaseUnfinished
<1>7. AdvanceOK'
  <2>1. CASE Advance
    <3>1. step = "copied" /\ BeginAdvance
      BY <2>1 DEF Advance, MayAdvance
    <3>2. Rearranged(status, owner) /\ inCall' = TRUE /\ mode' = "ONLINE"
      BY <3>1, PrepareEpochMoves DEF BeginAdvance, PrepareEpoch
    <3>3. Same(BaseStage, status')
      BY <3>1, <3>2, RearrangedSame DEF RunInv, Same
    <3>4. Begun(BaseStage, active, status')
      BY <3>3 DEF Same, Begun
    <3> QED
      BY <1>2, <1>4, <1>5, <3>2, <3>4 DEF AdvanceOK
  <2>2. CASE step = "advancing" /\ Loop
    <3>1. CallStep /\ AdvanceOK
      BY <2>2 DEF Loop, RunInv
    <3>2. inCall /\ mode = "ONLINE" /\ Begun(BaseStage, active, status)
      BY <3>1 DEF CallStep, Finished, Dispatch, CompleteDue, LastFrontier, AdvanceOK
    <3>3. CASE Finished
      <4>1. status \in [Tasks -> TaskStatus] /\ AllFinished(status)
        BY <1>1, <3>3 DEF Finished, IInv, AllocOK
      <4> QED
        BY <1>6, <3>2, <4>1, BegunUnfinished
    <3>4. CASE Dispatch
      <4>1. Begun(BaseStage, active, status')
        BY <1>1, <3>2, <3>4, DispatchBegins
      <4>2. mode' = mode /\ inCall' = inCall
        BY <3>4 DEF Dispatch, callVars
      <4> QED
        BY <1>2, <1>4, <1>5, <3>2, <4>1, <4>2 DEF AdvanceOK
    <3>5. CASE CompleteDue
      <4>1. Ended(BaseStage, active, status')
        BY <1>1, <3>2, <3>5, CompletionEnds
      <4>2. /\ ~inCall' /\ mode' = "ONLINE"
            /\ result' = IF AllFinished(status') THEN "COMPLETED" ELSE "NONE"
        BY <3>2, <3>5, CompletionTells
      <4> QED
        BY <1>2, <1>4, <1>5, <4>1, <4>2 DEF AdvanceOK
    <3>6. CASE LastFrontier
      <4>1. /\ Rearranged(status, owner) /\ Working = {} /\ Dispatchable = {} /\ mode' = mode
            /\ inCall' = inCall \/ (inCall' = FALSE /\ result' = "DEADLOCK")
        BY <3>6, AuctionMoves DEF LastFrontier, Return
      <4>2. Same(BaseStage, status)
        BY <1>1, <3>2, <4>1, NobodyWorks
      <4>3. Same(BaseStage, status')
        BY <4>1, <4>2, RearrangedSame DEF Same
      <4>4. Begun(BaseStage, active, status')
        BY <4>3 DEF Same, Begun
      <4> QED
        BY <1>2, <1>4, <1>5, <3>2, <4>1, <4>3, <4>4 DEF AdvanceOK
    <3> QED
      BY <3>1, <3>3, <3>4, <3>5, <3>6 DEF CallStep
  <2> QED
    BY <2>1, <2>2
<1>8. runtime = None => \E t \in Tasks : status'[t] # "ABSENT"
  BY <1>1, <1>3 DEF RunInv, KeepsTeam
<1> QED
  BY <1>1, <1>2, <1>7, <1>8 DEF RunInv

\* A copy has what the session holds.
LEMMA MakeCopyRun ==
  ASSUME OnlineInv, RunInv, MakeCopy
  PROVE  RunInv'
<1>1. /\ runtime # None /\ Restore(runtime, "ONLINE") /\ step' = "copied"
      /\ execution # "DEADLOCK" /\ UNCHANGED <<runtime, phase, execution>>
  BY DEF MakeCopy, Copy, sessionVars
<1>2. status' = runtime.status /\ active' = runtime.active
  BY <1>1 DEF Restore
<1>3. Same(BaseStage', status') /\ active' = BaseTeam'
  BY <1>1, <1>2 DEF Same, BaseStage, BaseTeam
<1> QED
  BY <1>1, <1>3 DEF RunInv

\* A patch makes the mission larger.
LEMMA PatchRun ==
  ASSUME OnlineInv, RunInv, NEW new \in SUBSET Tasks, Patch(new)
  PROVE  RunInv'
<1>1. /\ step = "copied" /\ step' = "patched" /\ UNCHANGED <<runtime, phase, execution>>
      /\ phase \in {"EXECUTION_PAUSED", "EXECUTED"}
      /\ ApplyOnlinePatch("SELECTIVE", new)
  BY DEF Patch, sessionVars
<1>2. runtime # None /\ execution # "DEADLOCK" /\ IInv /\ Same(BaseStage, status)
      /\ active = runtime.active
  BY <1>1 DEF RunInv, OnlineInv, CopyOK, BaseTeam
<1>3. /\ \A t \in new : status[t] = "ABSENT" /\ status'[t] \in Unstarted
      /\ \A t \in Tasks \ new :
           \/ status[t] \in Unstarted /\ status'[t] \in Unstarted
           \/ status[t] \notin Unstarted /\ status'[t] = status[t]
  BY <1>1, <1>2, ApplyOnlinePatchMoves DEF ReleasePolicies
<1>4. \A t \in new : StageFor(status)[t] = "outside" /\ StageFor(status')[t] = "open"
  BY <1>3, StageForOf DEF Unstarted, Recomputable
<1>5. \A t \in Tasks \ new : StageFor(status')[t] = StageFor(status)[t]
  BY <1>3, StageForOf DEF Unstarted, Recomputable
<1>6. new # {} /\ active' = active
  BY <1>1 DEF ApplyOnlinePatch
<1>7. BaseStage' = BaseStage
  BY <1>1, <1>2 DEF BaseStage
<1>8. Grown(BaseStage, status') /\ Larger(BaseStage, status')
  BY <1>2, <1>4, <1>5, <1>6 DEF Same, Grown, Larger
<1>9. Prepared(status') /\ Prepared(status)' /\ Larger(BaseStage, status)'
  BY <1>1, <1>2, <1>7, <1>8 DEF Prepared
<1> QED
  BY <1>1, <1>2, <1>6, <1>9 DEF RunInv

\* A change of the team moves no task.
LEMMA TeamRun ==
  ASSUME OnlineInv, RunInv, NEW desired, NEW forced, TryTeam(desired, forced)
  PROVE  RunInv'
<1>1. /\ step' = "replaced" /\ UNCHANGED <<runtime, phase, execution>>
      /\ step = "patched" \/ (step = "copied" /\ phase = "EXECUTION_PAUSED")
      /\ TeamReplaced(desired, forced)
  BY DEF TryTeam, sessionVars
<1>2. Prepared(status) /\ runtime # None /\ execution # "DEADLOCK"
  BY <1>1 DEF RunInv, Prepared, Same, Grown
<1>3. \A t \in Tasks : StageFor(status')[t] = StageFor(status)[t]
  BY <1>1, TeamReplacedMoves, RearrangedSame
<1>4. BaseStage' = BaseStage
  BY <1>1, <1>2 DEF BaseStage
<1>5. Prepared(status)'
  BY <1>1, <1>2, <1>3, <1>4 DEF Prepared, Grown, Larger
<1> QED
  BY <1>1, <1>2, <1>5 DEF RunInv

\* A rehearsal, too, is about the mission that was prepared.
LEMMA RehearsalRun ==
  ASSUME OnlineInv, RunInv, CopyAgain \/ Rehearse \/ (step = "rehearsing" /\ Loop)
  PROVE  RunInv'
<1>1. /\ step' = "rehearsing" /\ UNCHANGED <<runtime, phase, execution>> /\ step # "idle"
      /\ \/ step = "replaced" /\ candidate' = Checkpoint /\ candidate'.status = status
         \/ step = "rehearsing" /\ candidate' = candidate
  BY DEF CopyAgain, Rehearse, Loop, sessionVars, rehearsalVars, Checkpoint
<1>2. Prepared(candidate'.status) /\ runtime # None
  BY <1>1 DEF RunInv, Prepared
<1>5. candidate' # None
  BY <1>1, CheckpointIsSome DEF RunInv, OnlineInv, CopyOK
<1>3. BaseStage' = BaseStage
  BY <1>1, <1>2 DEF BaseStage
<1>4. Prepared(candidate.status)'
  BY <1>1, <1>2, <1>3 DEF Prepared
<1> QED
  BY <1>1, <1>2, <1>4, <1>5 DEF RunInv

\* A mission that a change has prepared is not over.
LEMMA PreparedUnfinished ==
  ASSUME OnlineInv, RunInv, NEW st \in [Tasks -> TaskStatus], Prepared(st)
  PROVE  ~ AllFinished(st)
<1>1. PICK t \in Tasks : StageFor(st)[t] \in {"open", "running"}
  <2>1. CASE phase = "EXECUTED"
    BY <2>1 DEF Prepared, Larger
  <2>2. CASE phase # "EXECUTED"
    <3>1. ~ AllFinished(runtime.status) /\ runtime.status \in [Tasks -> TaskStatus]
      BY <2>2 DEF RunInv, Prepared, OnlineInv, RestOK, AllocOK
    <3>2. BaseStage = StageFor(runtime.status)
      BY DEF BaseStage, Prepared
    <3>3. PICK t \in Tasks : BaseStage[t] \in {"open", "running"}
      BY <3>1, <3>2, OverOf DEF Run!Over
    <3>4. StageFor(st)[t] = BaseStage[t]
      BY <3>3 DEF Prepared, Grown
    <3> QED
      BY <3>3, <3>4
  <2> QED
    BY <2>1, <2>2
<1> QED
  BY <1>1, OverOf DEF Run!Over

\* A command that raises leaves what the session holds.
LEMMA RaiseRun ==
  ASSUME OnlineInv, RunInv, AdvanceRaises \/ ChangeRaises
  PROVE  RunInv'
<1>1. CASE AdvanceRaises
  <2>1. /\ step' = "idle" /\ runtime' = runtime /\ phase' = "EXECUTION_FAILED"
        /\ phase # "EXECUTED"
    BY <1>1 DEF AdvanceRaises, MayAdvance
  <2> QED
    BY <2>1 DEF RunInv
<1>2. CASE ChangeRaises
  <2>1. step' = "idle" /\ UNCHANGED <<runtime, phase, execution>>
    BY <1>2 DEF ChangeRaises, sessionVars
  <2> QED
    BY <2>1 DEF RunInv
<1> QED
  BY <1>1, <1>2

\* What is published fits its phase.
LEMMA PublishRun ==
  ASSUME OnlineInv, RunInv, Publish \/ PublishPatch \/ Judge
  PROVE  RunInv'
<1>1. step # "idle" /\ step' = "idle"
  BY DEF Publish, PublishPatch, Judge, Rehearsed
<1>2. IInv /\ status \in [Tasks -> TaskStatus]
  BY <1>1 DEF OnlineInv, CopyOK, IInv, AllocOK
<1>3. CASE Publish
  <2>1. /\ step = "advancing" /\ ~inCall /\ runtime' = Checkpoint
        /\ phase' = CASE result = "NONE" -> "EXECUTION_PAUSED"
                      [] result = "COMPLETED" -> "EXECUTED"
                      [] result = "DEADLOCK" -> "EXECUTION_FAILED"
    BY <1>3 DEF Publish
  <2>2. result \in {"NONE", "COMPLETED", "DEADLOCK"} /\ AdvanceOK
    BY <1>2, <2>1 DEF IInv, CallOK, RunInv
  <2>3. phase' # "EXECUTED" => ~ AllFinished(status)
    <3>1. CASE result = "DEADLOCK"
      <4>1. ~ Run!Over(BaseStage)
        BY <1>1, <2>2, BaseUnfinished DEF AdvanceOK
      <4>2. Begun(BaseStage, active, status)
        BY <2>1, <2>2, <3>1 DEF AdvanceOK, Same, Begun
      <4> QED
        BY <1>2, <4>1, <4>2, BegunUnfinished
    <3>2. CASE result = "NONE"
      BY <2>1, <2>2, <3>2 DEF AdvanceOK
    <3> QED
      BY <2>1, <2>2, <3>1, <3>2
  <2>4. runtime' # None /\ runtime'.status = status
    <3>1. Checkpoint.status = status
      BY DEF Checkpoint
    <3> QED
      BY <1>2, <2>1, <3>1, CheckpointIsSome
  <2>5. phase' \in {"EXECUTION_PAUSED", "EXECUTED", "EXECUTION_FAILED"}
    BY <2>1, <2>2
  <2> QED
    BY <1>1, <2>3, <2>4, <2>5 DEF RunInv
<1>4. CASE PublishPatch
  <2>1. /\ step = "patched" /\ runtime' = Checkpoint /\ phase' = "EXECUTION_PAUSED"
    BY <1>4 DEF PublishPatch
  <2>2. ~ AllFinished(status)
    BY <1>2, <2>1, PreparedUnfinished DEF RunInv
  <2>3. runtime' # None /\ runtime'.status = status
    <3>1. Checkpoint.status = status
      BY DEF Checkpoint
    <3> QED
      BY <1>2, <2>1, <3>1, CheckpointIsSome
  <2> QED
    BY <1>1, <2>1, <2>2, <2>3 DEF RunInv
<1>5. CASE Judge
  <2>1. CASE UNCHANGED sessionVars
    BY <1>1, <2>1 DEF RunInv, sessionVars
  <2>2. CASE runtime' = candidate /\ phase' = "EXECUTION_PAUSED"
    <3>1. step = "rehearsing"
      BY <1>5 DEF Judge, Rehearsed
    <3>2. RestOK(candidate) /\ Prepared(candidate.status)
      BY <3>1 DEF OnlineInv, CopyOK, RehearsalOK, RunInv
    <3>3. candidate.status \in [Tasks -> TaskStatus]
      BY <3>2 DEF RestOK, AllocOK
    <3>4. ~ AllFinished(candidate.status)
      BY <3>2, <3>3, PreparedUnfinished
    <3>5. candidate # None
      BY <3>1 DEF RunInv
    <3> QED
      BY <1>1, <2>2, <3>4, <3>5 DEF RunInv
  <2> QED
    BY <1>5, <2>1, <2>2 DEF Judge
<1> QED
  BY <1>3, <1>4, <1>5

\* A session starts with a mission that is not begun.
LEMMA RunStarts ==
  ASSUME OnlineInit
  PROVE  RunInv
<1>1. PICK graph \in InitialGraphs :
        status = [t \in Tasks |-> IF t \in graph THEN "PENDING" ELSE "ABSENT"]
  BY DEF OnlineInit, Init
<1>2. \E t \in Tasks : status[t] # "ABSENT"
  BY <1>1, ExecutorAssumption
<1>3. /\ runtime = None /\ phase = "PLANNING" /\ execution = "NONE" /\ step = "copied"
      /\ BaseTeam = active
  BY DEF OnlineInit, BaseTeam
<1>4. Same(BaseStage, status)
  <2>1. ASSUME NEW t \in Tasks PROVE StageFor(status)[t] = BaseStage[t]
    <3>1. status[t] \in {"PENDING", "ABSENT"}
      BY <1>1
    <3>2. BaseStage[t] = IF status[t] = "ABSENT" THEN "outside" ELSE "open"
      BY <1>3 DEF BaseStage
    <3> QED
      BY <3>1, <3>2, StageForOf
  <2> QED
    BY <2>1 DEF Same
<1> QED
  BY <1>2, <1>3, <1>4 DEF RunInv

\* It stays as it is while the session stutters.
LEMMA RunStutters ==
  ASSUME RunInv, UNCHANGED onlineVars
  PROVE  RunInv'
<1>1. /\ UNCHANGED <<status, active, mode, inCall, result>>
      /\ UNCHANGED <<runtime, phase, execution, candidate, step>>
  BY DEF onlineVars, vars, allocVars, epochVars, callVars, sessionVars, rehearsalVars
<1>2. BaseStage' = BaseStage /\ BaseTeam' = BaseTeam
  BY <1>1 DEF BaseStage, BaseTeam
<1>3. AdvanceOK' = AdvanceOK
  BY <1>1, <1>2 DEF AdvanceOK
<1>4. /\ Prepared(status)' = Prepared(status)
      /\ Prepared(candidate.status)' = Prepared(candidate.status)
      /\ Same(BaseStage, status)' = Same(BaseStage, status)
      /\ Larger(BaseStage, status)' = Larger(BaseStage, status)
  BY <1>1, <1>2 DEF Prepared, Same, Grown, Larger
<1> QED
  BY <1>1, <1>2, <1>3, <1>4 DEF RunInv

\* Every step of the session keeps the invariant.
LEMMA RunStep ==
  ASSUME OnlineInv, RunInv, [OnlineNext]_onlineVars
  PROVE  RunInv'
<1>1. OnlineInv'
  BY OnlineStep
<1>2. CASE Loop
  <2>1. step = "advancing" \/ step = "rehearsing"
    BY <1>2 DEF Loop
  <2> QED
    BY <1>1, <1>2, <2>1, AdvanceRun, RehearsalRun
<1>3. CASE Advance
  BY <1>1, <1>3, AdvanceRun
<1>4. CASE CopyAgain \/ Rehearse
  BY <1>4, RehearsalRun
<1>5. CASE MakeCopy \/ AdvanceRaises \/ ChangeRaises
  BY <1>5, MakeCopyRun, RaiseRun
<1>6. CASE Publish \/ PublishPatch \/ Judge
  BY <1>6, PublishRun
<1>7. CASE \E new \in SUBSET Tasks : Patch(new)
  BY <1>7, PatchRun
<1>8. CASE \E desired \in NextTeams : \E forced \in SUBSET desired : TryTeam(desired, forced)
  BY <1>8, TeamRun
<1>9. CASE UNCHANGED onlineVars
  BY <1>9, RunStutters
<1> QED
  BY <1>2, <1>3, <1>4, <1>5, <1>6, <1>7, <1>8, <1>9 DEF OnlineNext, Internal

\* The stages the session shows.
LEMMA RunStageIs ==
  /\ runtime # None => RunStage = StageFor(runtime.status)
  /\ runtime' # None => RunStage' = StageFor(runtime'.status)
BY DEF RunStage, Published!stageOf, StageFor

\* A mission whose tasks have their predecessors is closed.
LEMMA ClosedMission ==
  ASSUME NEW st,
         \A t \in Tasks : st[t] # "ABSENT" => \A p \in Preds[t] : st[p] # "ABSENT"
  PROVE  Run!Closed(Run!Members(StageFor(st)))
<1>1. \A t \in Tasks : t \in Run!Members(StageFor(st)) <=> st[t] # "ABSENT"
  BY StageForOf DEF Run!Members
<1>2. \A t \in Tasks : Preds[t] \subseteq Tasks
  BY GraphAssumption
<1>3. Run!Members(StageFor(st)) \subseteq Tasks
  BY DEF Run!Members
<1> QED
  BY <1>1, <1>2, <1>3 DEF Run!Closed

\* Where the executor reports a deadlock there is one.
LEMMA DeadlockShows ==
  ASSUME IInv, EndOK, result = "DEADLOCK", NEW b, Same(b, status)
  PROVE  Run!Startable(b, active) = {} /\ \A t \in Tasks : b[t] # "running"
<1>1. \A t \in Tasks : status[t] \in Unfinished =>
        \/ status[t] = "READY" /\ Eligible[t] \cap active = {}
        \/ status[t] = "PENDING" /\ ~PredsDone(status, t)
  BY DEF EndOK, DeadlockJustified
<1>2. ASSUME NEW t \in Tasks PROVE b[t] # "running"
  <2>1. status[t] # "RUNNING"
    BY <1>1 DEF Unfinished, Committed
  <2> QED
    BY <2>1, StageForOf DEF Same
<1>3. ASSUME NEW t \in Run!Startable(b, active) PROVE FALSE
  <2>1. /\ t \in Tasks /\ b[t] = "open" /\ Eligible[t] \cap active # {}
        /\ \A p \in Preds[t] : b[p] = "done"
    BY <1>3 DEF Run!Startable
  <2>2. status[t] \in TaskStatus
    BY <2>1 DEF IInv, AllocOK
  <2>3. status[t] \in Unfinished
    BY <2>1, <2>2, StageForOf DEF Same, TaskStatus, Unfinished, Recomputable, Committed
  <2>4. PredsDone(status, t)
    <3>1. ASSUME NEW p \in Preds[t] PROVE status[p] = "COMPLETED"
      <4>1. p \in Tasks /\ b[p] = "done"
        BY <2>1, GraphAssumption
      <4> QED
        BY <4>1, StageForOf DEF Same
    <3> QED
      BY <3>1 DEF PredsDone
  <2> QED
    BY <1>1, <2>1, <2>3, <2>4
<1> QED
  BY <1>2, <1>3

\* An advance that is published is one step of the run, from what it has begun
\* with.
LEMMA PublishShows ==
  ASSUME OnlineInv, RunInv, Publish
  PROVE  /\ Run!Progress(BaseStage, active) \/ Run!Deadlock(BaseStage, active)
         /\ RunStage' = StageFor(status) /\ RunTeam' = active
<1>1. /\ step = "advancing" /\ ~inCall /\ runtime' = Checkpoint /\ execution' = result
      /\ phase' = CASE result = "NONE" -> "EXECUTION_PAUSED"
                    [] result = "COMPLETED" -> "EXECUTED"
                    [] result = "DEADLOCK" -> "EXECUTION_FAILED"
  BY DEF Publish
<1>2. /\ IInv /\ EndOK /\ status \in [Tasks -> TaskStatus]
      /\ result \in {"NONE", "COMPLETED", "DEADLOCK"}
  BY <1>1 DEF OnlineInv, CopyOK, IInv, AllocOK, CallOK
<1>3. AdvanceOK
  BY <1>1 DEF RunInv
<1>4. runtime' # None /\ runtime'.status = status /\ runtime'.active = active
  <2>1. Checkpoint.status = status /\ Checkpoint.active = active
    BY DEF Checkpoint
  <2> QED
    BY <1>1, <1>2, <2>1, CheckpointIsSome
<1>5. RunStage' = StageFor(status) /\ RunTeam' = active
  BY <1>4, RunStageIs DEF RunTeam
<1>6. RunOutcome' = CASE result = "NONE" -> "running"
                      [] result = "COMPLETED" -> "completed"
                      [] result = "DEADLOCK" -> "deadlocked"
  BY <1>1, <1>2, <1>4 DEF RunOutcome
<1>7. CASE result = "DEADLOCK"
  <2>1. Same(BaseStage, status)
    BY <1>1, <1>3, <1>7 DEF AdvanceOK
  <2>2. ~ Run!Over(BaseStage)
    BY <1>1, <1>3, BaseUnfinished DEF AdvanceOK
  <2>3. RunStage' = BaseStage
    <3>1. \A t \in Tasks : StageFor(status)[t] = BaseStage[t]
      BY <2>1 DEF Same
    <3>2. /\ BaseStage = [t \in Tasks |-> BaseStage[t]]
          /\ StageFor(status) = [t \in Tasks |-> StageFor(status)[t]]
      BY DEF BaseStage, StageFor
    <3> QED
      BY <1>5, <3>1, <3>2
  <2>4. Run!Deadlock(BaseStage, active)
    BY <1>2, <1>6, <1>7, <2>1, <2>2, <2>3, DeadlockShows DEF Run!Deadlock
  <2> QED
    BY <1>5, <2>4
<1>8. CASE result # "DEADLOCK"
  <2>1. Ended(BaseStage, active, status) /\ (result = "COMPLETED" <=> AllFinished(status))
    BY <1>1, <1>3, <1>8 DEF AdvanceOK
  <2>2. RunOutcome' = IF Run!Over(StageFor(status)) THEN "completed" ELSE "running"
    BY <1>2, <1>6, <1>8, <2>1, OverOf
  <2>3. Run!Progress(BaseStage, active)
    BY <1>5, <2>1, <2>2, StageForType DEF Run!Progress, Ended
  <2> QED
    BY <1>5, <2>3
<1> QED
  BY <1>7, <1>8

\* An advance that is published is that of a mission nobody has begun, or of
\* what the session held.
LEMMA PublishSimulates ==
  ASSUME OnlineInv, RunInv, Publish
  PROVE  Run!Launch \/ Run!Advance
<1>1. /\ Run!Progress(BaseStage, active) \/ Run!Deadlock(BaseStage, active)
      /\ RunStage' = StageFor(status) /\ RunTeam' = active
  BY PublishShows
<1>2. /\ step = "advancing" /\ ~inCall /\ IInv /\ EndOK /\ AdvanceOK /\ active \subseteq Agents
      /\ result \in {"NONE", "COMPLETED", "DEADLOCK"}
  BY DEF Publish, OnlineInv, CopyOK, RunInv, IInv, CallOK
<1>3. CASE runtime = None
  <2> DEFINE G == Run!Members(StageFor(status))
  <2>1. Run!Closed(G)
    BY <1>2, ClosedMission DEF EndOK
  <2>2. RunOutcome = "none"
    BY <1>3 DEF RunOutcome
  <2>3. ASSUME NEW t \in Tasks
        PROVE  BaseStage[t] = IF StageFor(status)[t] # "outside" THEN "open" ELSE "outside"
    <3>1. BaseStage[t] = IF status[t] = "ABSENT" THEN "outside" ELSE "open"
      BY <1>3 DEF BaseStage
    <3> QED
      BY <3>1, StageForOf
  <2>4. BaseStage = Run!Fresh(G)
    <3>1. BaseStage = [t \in Tasks |-> BaseStage[t]]
      BY <1>3 DEF BaseStage
    <3> QED
      BY <2>3, <3>1 DEF Run!Fresh, Run!Members
  <2> HIDE DEF G
  <2>5. G = Run!Members(RunStage')
    BY <1>1 DEF G
  <2> QED
    BY <1>1, <1>2, <2>1, <2>2, <2>4, <2>5 DEF Run!Launch
<1>4. CASE runtime # None
  <2>1. BaseStage = RunStage /\ BaseTeam = RunTeam
    BY <1>4, RunStageIs DEF BaseStage, BaseTeam, RunTeam
  <2>2. RunOutcome \in {"running", "raised"}
    BY <1>2, <1>4 DEF RunOutcome, AdvanceOK, RunInv
  <2>3. active = RunTeam /\ RunTeam' = RunTeam
    BY <1>1, <1>2, <2>1 DEF AdvanceOK
  <2>4. Run!Progress(RunStage, RunTeam) \/ Run!Deadlock(RunStage, RunTeam)
    BY <1>1, <2>1, <2>3
  <2> QED
    BY <2>2, <2>3, <2>4 DEF Run!Advance
<1> QED
  BY <1>3, <1>4

\* A change that is published makes the mission grow or change hands.
LEMMA ChangeSimulates ==
  ASSUME OnlineInv, RunInv, NEW c, RestOK(c), c # None, Prepared(c.status),
         runtime' = c, phase' = "EXECUTION_PAUSED",
         \/ c.active = runtime.active /\ Larger(BaseStage, c.status)
         \/ Run!Serves(c.active, StageFor(c.status))
  PROVE  Run!ChangeTeam \/ \E new \in SUBSET Tasks : Run!Extend(new)
<1> DEFINE new == {t \in Tasks : RunStage[t] = "outside" /\ StageFor(c.status)[t] = "open"}
<1>1. /\ RunStage' = StageFor(c.status) /\ RunTeam' = c.active /\ RunOutcome' = "running"
      /\ c.active \in SUBSET Agents
  BY RunStageIs DEF RunTeam, RunOutcome, RestOK
<1>2. /\ runtime # None /\ RunStage = StageFor(runtime.status) /\ RunTeam = runtime.active
      /\ BaseStage = RunStage
  BY RunStageIs DEF Prepared, RunTeam, BaseStage
<1>3. /\ RunOutcome \in {"running", "completed"}
      /\ RunOutcome = "completed" => Larger(BaseStage, c.status)
  BY <1>2 DEF Prepared, RunOutcome
<1>4. \A t \in Tasks : t \in new \/ StageFor(c.status)[t] = RunStage[t]
  BY <1>2 DEF Prepared, Grown
<1>5. \A t \in new : RunStage[t] = "outside" /\ StageFor(c.status)[t] = "open"
  OBVIOUS
<1>6. Larger(BaseStage, c.status) => new # {}
  BY <1>2 DEF Larger
<1>7. new \subseteq Tasks
  OBVIOUS
<1> HIDE DEF new
<1>8. /\ RunStage = [t \in Tasks |-> RunStage[t]]
      /\ StageFor(c.status) = [t \in Tasks |-> StageFor(c.status)[t]]
  BY <1>2 DEF StageFor
<1>9. RunStage' = [t \in Tasks |-> IF t \in new THEN "open" ELSE RunStage[t]]
  BY <1>1, <1>4, <1>5, <1>8
<1>10. CASE new = {}
  <2>1. RunStage' = RunStage
    BY <1>8, <1>9, <1>10
  <2>2. RunOutcome = "running" /\ Run!Serves(c.active, StageFor(c.status))
    BY <1>3, <1>6, <1>10
  <2>3. Run!ChangeTeam
    BY <1>1, <2>1, <2>2 DEF Run!ChangeTeam
  <2> QED
    BY <2>3
<1>11. CASE new # {}
  <2>1. Run!Closed(Run!Members(StageFor(c.status)))
    BY ClosedMission DEF RestOK
  <2>2. Run!Members(StageFor(c.status)) = Run!Members(RunStage) \cup new
    BY <1>4, <1>5, <1>7 DEF Run!Members
  <2>3. new \cap Run!Members(RunStage) = {}
    BY <1>5 DEF Run!Members
  <2>4. RunTeam' = RunTeam \/ (RunTeam' \in SUBSET Agents /\ Run!Serves(RunTeam', RunStage'))
    BY <1>1, <1>2
  <2>5. Run!Closed(Run!Members(RunStage) \cup new)
    BY <2>1, <2>2
  <2>6. Run!Extend(new)
    BY <1>1, <1>3, <1>9, <1>11, <2>3, <2>4, <2>5 DEF Run!Extend
  <2> QED
    BY <1>7, <2>6
<1> QED
  BY <1>10, <1>11

\* A rehearsed team is published only when it can do what is not begun.
LEMMA JudgeSimulates ==
  ASSUME OnlineInv, RunInv, Judge
  PROVE  \/ UNCHANGED Run!runVars
         \/ Run!ChangeTeam
         \/ \E new \in SUBSET Tasks : Run!Extend(new)
<1>1. CASE UNCHANGED sessionVars
  BY <1>1 DEF sessionVars, Run!runVars, RunStage, RunTeam, RunOutcome, Published!stageOf
<1>2. CASE ~ UNCHANGED sessionVars
  <2>1. /\ step = "rehearsing" /\ Rehearsed /\ Serves
        /\ runtime' = candidate /\ phase' = "EXECUTION_PAUSED"
    BY <1>2 DEF Judge, Rehearsed
  <2>2. /\ IInv /\ EndOK /\ RehearsalOK /\ RestOK(candidate)
        /\ Prepared(candidate.status) /\ candidate # None
    BY <2>1 DEF OnlineInv, CopyOK, RehearsalOK, RunInv
  <2>3. \A t \in Tasks : candidate.status[t] \in Unfinished \ {"RUNNING"} =>
          Eligible[t] \cap candidate.active # {}
    BY <2>1, <2>2, OutcomeDecides DEF RehearsalDecides, Serves
  <2>4. Run!Serves(candidate.active, StageFor(candidate.status))
    <3>1. ASSUME NEW t \in Tasks, StageFor(candidate.status)[t] = "open"
          PROVE  Eligible[t] \cap candidate.active # {}
      <4>1. candidate.status[t] \in TaskStatus
        BY <2>2 DEF RestOK, AllocOK
      <4>2. candidate.status[t] \in Unfinished \ {"RUNNING"}
        BY <3>1, <4>1, StageForOf DEF TaskStatus, Unfinished, Recomputable, Committed
      <4> QED
        BY <2>3, <4>2
    <3> QED
      BY <3>1 DEF Run!Serves
  <2> QED
    BY <2>1, <2>2, <2>4, ChangeSimulates
<1> QED
  BY <1>1, <1>2

\* So is a patch that comes alone.
LEMMA PatchSimulates ==
  ASSUME OnlineInv, RunInv, PublishPatch
  PROVE  Run!ChangeTeam \/ \E new \in SUBSET Tasks : Run!Extend(new)
<1>1. step = "patched" /\ runtime' = Checkpoint /\ phase' = "EXECUTION_PAUSED"
  BY DEF PublishPatch
<1>2. IInv /\ EndOK /\ Quiet
  BY <1>1 DEF OnlineInv, CopyOK
<1>3. RestOK(Checkpoint) /\ Checkpoint # None
  BY <1>2, CheckpointRests, CheckpointIsSome
<1>4. Checkpoint.status = status /\ Checkpoint.active = active
  BY DEF Checkpoint
<1>5. Prepared(status) /\ Larger(BaseStage, status) /\ active = runtime.active
  BY <1>1 DEF RunInv
<1> QED
  BY <1>1, <1>3, <1>4, <1>5, ChangeSimulates

\* An advance that raises shows as that and no more, and before the first
\* checkpoint not at all.
LEMMA RaiseSimulates ==
  ASSUME OnlineInv, RunInv, AdvanceRaises
  PROVE  Run!Raise \/ UNCHANGED Run!runVars
<1>1. /\ runtime' = runtime /\ phase' = "EXECUTION_FAILED" /\ execution' = "NONE"
      /\ step = "copied" /\ phase \in {"PLANNING", "EXECUTION_PAUSED", "EXECUTION_FAILED"}
  BY DEF AdvanceRaises, MayAdvance
<1>2. RunStage' = RunStage /\ RunTeam' = RunTeam
  BY <1>1 DEF RunStage, RunTeam, Published!stageOf
<1>3. CASE runtime = None
  BY <1>1, <1>2, <1>3 DEF RunOutcome, Run!runVars
<1>4. CASE runtime # None
  <2>1. RunOutcome \in {"running", "raised"} /\ RunOutcome' = "raised"
    BY <1>1, <1>4 DEF RunOutcome, RunInv
  <2> QED
    BY <1>2, <2>1 DEF Run!Raise
<1> QED
  BY <1>3, <1>4

\* Every step of the session is a step of the run, or shows nothing.
LEMMA OnlineSimulates ==
  ASSUME OnlineInv, RunInv, [OnlineNext]_onlineVars
  PROVE  [Run!Next]_(Run!runVars)
<1>1. CASE Publish
  BY <1>1, PublishSimulates DEF Run!Next
<1>2. CASE PublishPatch
  BY <1>2, PatchSimulates DEF Run!Next
<1>3. CASE Judge
  BY <1>3, JudgeSimulates DEF Run!Next
<1>4. CASE AdvanceRaises
  BY <1>4, RaiseSimulates DEF Run!Next
<1>5. CASE ~(Publish \/ PublishPatch \/ Judge \/ AdvanceRaises)
  <2>1. UNCHANGED <<runtime, phase, execution>>
    BY <1>5 DEF OnlineNext, Internal, onlineVars, sessionVars, MakeCopy, Advance,
                ChangeRaises, Loop, CopyAgain, Rehearse, Patch, TryTeam
  <2> QED
    BY <2>1 DEF Run!runVars, RunStage, RunTeam, RunOutcome, Published!stageOf
<1> QED
  BY <1>1, <1>2, <1>3, <1>4, <1>5

\* The checkpoint protocol implements CheckpointedRun: an advance, a patch, a
\* change of the team and each of their failures is one step of the mission the
\* session holds, whatever the copies go through.
THEOREM OnlineImplementsRun == OnlineSpec => ImplementsRun
<1>1. OnlineInit => RunInv
  BY RunStarts
<1>2. OnlineInit => Run!Init
  <2> SUFFICES ASSUME OnlineInit PROVE Run!Init
    OBVIOUS
  <2>1. runtime = None
    BY DEF OnlineInit
  <2>2. RunStage = Run!Fresh({})
    BY <2>1 DEF RunStage, Run!Fresh
  <2> QED
    BY <2>1, <2>2 DEF Run!Init, RunTeam, RunOutcome
<1>3. OnlineInv /\ RunInv /\ [OnlineNext]_onlineVars => RunInv'
  BY RunStep
<1>4. OnlineInv /\ RunInv /\ [OnlineNext]_onlineVars => [Run!Next]_(Run!runVars)
  BY OnlineSimulates
<1> QED
  BY <1>1, <1>2, <1>3, <1>4, OnlineInvariant, PTL DEF OnlineSpec, ImplementsRun, Run!Spec

=============================================================================
