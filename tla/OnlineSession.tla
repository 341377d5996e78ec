--------------------------- MODULE OnlineSession ---------------------------
(***************************************************************************)
(* The operator's session: one mission, its simulated execution, the       *)
(* incidents of its scene, the clarification the operator owes and the     *)
(* sensed fires that wait for an answer.  One action is one call of the    *)
(* session's functions, as the operator console makes them; only the calls *)
(* that carry out the answers about fires take a step for each fire, and   *)
(* nothing else happens between those steps.                               *)
(*                                                                         *)
(* An incident is a number, in the order of registration: the scene is the *)
(* number of incidents in it.  A task is <<zone, 0>>, the patrol of a      *)
(* zone, or <<incident, k>>, step k of the response to an incident.  The   *)
(* executor is reduced to what Executor promises of it: ready tasks that   *)
(* an agent of the active team can do are started and end one by one or    *)
(* together, and it gives up only when nothing runs and nothing can start. *)
(*                                                                         *)
(* A turn that is refused, answered or fails (UNSUPPORTED, REJECTED, a     *)
(* clarification that cannot be resumed, ANSWERED, NO_CHANGE, TURN_ERROR)  *)
(* adds a line to the log, which is left out: it is a stuttering step.     *)
(***************************************************************************)
EXTENDS Integers, FiniteSets, Sequences

CONSTANTS
  Fleet,            \* the agents of the scene
  Zones,            \* zones a mission may patrol, numbered
  Fires,            \* zones in which a fire waits to be seen
  Steps,            \* length of the response workflow
  Able,             \* who can patrol (0) and who can do each step (1..Steps)
  MaxIncidents,     \* bound on the incidents of the scene
  Faults,           \* what may raise: "advance", "transaction"
  NoValue           \* Python's None

ASSUME SessionAssumption ==
  /\ Zones \subseteq Nat /\ Fires \subseteq Zones /\ IsFiniteSet(Fires)
  /\ Steps \in Nat \ {0}
  /\ MaxIncidents \in Nat /\ MaxIncidents >= Cardinality(Fires)
  /\ Able \in [0..Steps -> SUBSET Fleet]

VARIABLES
  phase,
  scene,          \* incidents registered so far
  mission,        \* the tasks of session.state by status, or NoValue
  plan,           \* the tasks the last plan-time analysis covers, or NoValue
  execution,      \* how the last run ended, or NoValue
  runtime,        \* the preserved executor, or NoValue
  directive,      \* steps owed to a future incident, 0 for none
  team,           \* the active team
  pending,        \* the clarification in progress, or NoValue
  approvals,      \* sensed fires in order, with the operator's answer
  fate,           \* of each fire of Fires: what its last audit says
  call            \* a call that carries out answers: "none", "decide", "advance"

sessionVars == <<phase, scene, mission, plan, execution, runtime, directive,
                 team, pending, approvals, fate, call>>

Tasks == (Zones \X {0}) \cup ((1..MaxIncidents) \X (1..Steps))

\* The workflow of an incident up to step k.
Chain(i, k) == {i} \X (1..k)

\* Work: the tasks of a mission by status, of which a task has one.
Works ==
  {w \in [open: SUBSET Tasks, running: SUBSET Tasks, done: SUBSET Tasks] :
     /\ w.open \cap w.running = {} /\ w.open \cap w.done = {}
     /\ w.running \cap w.done = {}}
Runtimes == [work: Works, team: SUBSET Fleet, scene: 0..MaxIncidents]
Endings == {"COMPLETED", "DEADLOCK"}
ASSUME NoValueAssumption ==
  /\ NoValue \notin Works \cup Runtimes \cup Endings
  /\ \A G \in SUBSET Tasks : G # NoValue

Fresh(G) == [open |-> G, running |-> {}, done |-> {}]
All(w) == w.open \cup w.running \cup w.done

\* Mutant of Extended: the copy starts the mission again.
Restarted(w, G) == Fresh(All(w) \cup G)

\* A patch adds the tasks that are not there.
Extended(w, G) == [w EXCEPT !.open = @ \cup (G \ All(w))]
Finished(w) == w.open \cup w.running = {}

Doable(T, t) == T \cap Able[t[2]] # {}

Ready(w) == {t \in w.open : t[2] > 1 => <<t[1], t[2] - 1>> \in w.done}
Startable(r) == {t \in Ready(r.work) : Doable(r.team, t)}

\* The teams a resource request may resolve to when the tasks G are left.
Teams(G) == {T \in SUBSET Fleet : \A t \in G : Doable(T, t)}

Decided(entry) == entry.answer # NoValue
Undecided == {n \in DOMAIN approvals : ~ Decided(approvals[n])}
HeadDecided(Q) == Q # <<>> /\ Decided(Head(Q))

\* The fires still to be settled: each may take one more incident.
Unsettled == {f \in Fires : fate[f] \in {"latent", "awaiting"}}
RoomToReport == scene + Cardinality(Unsettled) < MaxIncidents

Init ==
  /\ phase = "PLANNING" /\ scene \in {0, 1} \cap (0..(MaxIncidents - Cardinality(Fires)))
  /\ mission = NoValue /\ plan = NoValue
  /\ execution = NoValue /\ runtime = NoValue
  /\ directive = 0 /\ team = {}
  /\ pending = NoValue /\ approvals = <<>>
  /\ fate = [f \in Fires |-> "latent"]
  /\ call = "none"

-----------------------------------------------------------------------------
(* Turns.  Natural language is refused while a clarification is pending.   *)

Asked == call = "none" /\ pending = NoValue

CompletedTerminal ==
  /\ phase = "EXECUTED" /\ runtime # NoValue /\ execution = "COMPLETED"

MayChange == phase \in {"PLANNING", "EXECUTION_PAUSED"} \/ CompletedTerminal

\* NEW_MISSION.  The language model proposes the mission G; a preserved
\* runtime is branched into a fresh episode that drops the old mission.
NewMission ==
  /\ Asked
  /\ IF mission = NoValue THEN phase = "PLANNING"
     ELSE runtime # NoValue /\ phase \in {"EXECUTION_PAUSED", "EXECUTED"}
  /\ \E Z \in SUBSET Zones, reach \in [1..scene -> 0..Steps] :
       LET G == (Z \X {0}) \cup UNION {Chain(i, reach[i]) : i \in 1..scene} IN
       /\ G # {}
       /\ mission' = Fresh(G) /\ plan' = G
       /\ team' \in Teams(G) \cup {Fleet}
       /\ directive' \in 0..Steps
       /\ IF runtime = NoValue
            THEN UNCHANGED <<phase, execution, runtime>>
            ELSE /\ runtime' = [work |-> Fresh(G), team |-> team', scene |-> scene]
                 /\ execution' = NoValue
                 /\ phase' = "EXECUTION_PAUSED"
  /\ UNCHANGED <<scene, pending, approvals, fate, call>>

\* UPDATE_RESOURCES: a new team for the tasks that have not started.
UpdateResources ==
  /\ Asked /\ mission # NoValue
  /\ phase \in {"PLANNING", "EXECUTION_PAUSED"}
  /\ \E T \in Teams(mission.open) \cup (IF phase = "PLANNING" THEN {Fleet} ELSE {}) :
       /\ team' = T
       /\ runtime' = IF phase = "PLANNING" THEN runtime
                     ELSE [runtime EXCEPT !.team = T]
  /\ UNCHANGED <<phase, scene, mission, plan, execution, directive, pending,
                 approvals, fate, call>>

\* The session with the tasks G and s incidents, executed by T if it runs:
\* the plan is remade in PLANNING, the executor replaced when there is one,
\* and a completed one opens a follow-on episode.
Adapt(G, s, T) ==
  LET w == Extended(mission, G) IN
  /\ scene' = s /\ mission' = w
  /\ IF phase \in {"EXECUTION_PAUSED", "EXECUTED"}
       THEN /\ runtime' = [work |-> w, team |-> T, scene |-> s]
            /\ execution' = IF phase = "EXECUTED" THEN NoValue ELSE execution
            /\ phase' = "EXECUTION_PAUSED"
            /\ UNCHANGED plan
       ELSE /\ plan' = All(w)
            /\ UNCHANGED <<runtime, execution, phase>>

\* Mutant of RegisterIncident: the preserved runtime keeps the old scene.
RegisterBesideRuntime(k, T) ==
  IF k > 0 THEN Adapt(Chain(scene + 1, k), scene + 1, T)
  ELSE scene' = scene + 1 /\ UNCHANGED <<runtime, phase, mission, plan, execution>>

\* One prepared and published incident transaction.  Without a response only
\* the scene changes, also the one a preserved runtime refers to.
RegisterIncident(k, T) ==
  IF k > 0 THEN Adapt(Chain(scene + 1, k), scene + 1, T)
  ELSE /\ scene' = scene + 1
       /\ runtime' = IF phase \in {"EXECUTION_PAUSED", "EXECUTED"}
                       THEN [runtime EXCEPT !.scene = scene'] ELSE runtime
       /\ UNCHANGED <<phase, mission, plan, execution>>

\* The team of the executor a transaction adapts.
RunningTeam == IF runtime = NoValue THEN {} ELSE runtime.team

\* REPORT_INCIDENT with an explicit response, or the one the directive owes.
ReportIncident ==
  /\ Asked /\ MayChange /\ RoomToReport
  /\ \E step \in 0..Steps :
       LET k == IF step > 0 THEN step ELSE directive IN
       /\ k > 0 => mission # NoValue
       /\ RegisterIncident(k, RunningTeam)
  /\ UNCHANGED <<directive, team, pending, approvals, fate, call>>

\* REPORT_INCIDENT that also replaces the resource request.  The team is
\* resolved for the prepared mission, but without a response the executor
\* that carries it is not the one that is published.
ReportWithResources ==
  /\ Asked /\ MayChange /\ mission # NoValue /\ RoomToReport
  /\ \E step \in 0..Steps :
       LET k == IF step > 0 THEN step ELSE directive
           G == mission.open \cup Chain(scene + 1, k)
       IN \E T \in Teams(G) \cup (IF phase = "PLANNING" THEN {Fleet} ELSE {}) :
            /\ team' = T
            /\ RegisterIncident(k, T)
  /\ UNCHANGED <<directive, pending, approvals, fate, call>>

\* UPDATE_MISSION: the response to incident i, up to step k.
Extend(i, k) ==
  /\ mission # NoValue
  /\ ~ (Chain(i, k) \subseteq All(mission))
  /\ Adapt(Chain(i, k), scene, RunningTeam)
  /\ UNCHANGED <<directive, team, approvals, fate, call>>

UpdateMission ==
  /\ Asked /\ MayChange
  /\ \E i \in 1..scene, k \in 1..Steps : Extend(i, k)
  /\ UNCHANGED pending

\* UPDATE_MISSION or QUERY_STATUS (step 0) that may mean any of several
\* incidents: the ones it may mean become the candidates.  A report in one of
\* several zones asks in the same way, but no scene has zones of like names.
Clarify ==
  /\ Asked
  /\ \E C \in SUBSET (1..scene), k \in 0..Steps :
       /\ Cardinality(C) >= 2
       /\ k > 0 => MayChange /\ mission # NoValue
       /\ pending' = [candidates |-> C, step |-> k]
  /\ UNCHANGED <<phase, scene, mission, plan, execution, runtime, directive,
                 team, approvals, fate, call>>

\* The operator picks a candidate: the update is resumed, past the checks of
\* the phase it had passed, or the query answered.
SelectCandidate ==
  /\ call = "none"
  /\ pending # NoValue /\ pending' = NoValue
  /\ \E i \in pending.candidates \cap (1..scene) :
       \/ pending.step > 0 /\ Extend(i, pending.step)
       \/ /\ pending.step > 0 => Chain(i, pending.step) \subseteq All(mission)
          /\ UNCHANGED <<phase, scene, mission, plan, execution, runtime,
                         directive, team, approvals, fate, call>>

CancelClarification ==
  /\ call = "none"
  /\ pending # NoValue /\ pending' = NoValue
  /\ UNCHANGED <<phase, scene, mission, plan, execution, runtime, directive,
                 team, approvals, fate, call>>

-----------------------------------------------------------------------------
(* Sensed fires.                                                           *)

\* The answer to the first fire without one: steps to respond with, 0 declines.
RecordDecision ==
  /\ call = "none"
  /\ \E n \in Undecided :
       /\ \A m \in Undecided : n <= m
       /\ \E k \in 0..Steps : approvals' = [approvals EXCEPT ![n].answer = k]
  /\ UNCHANGED <<phase, scene, mission, plan, execution, runtime, directive,
                 team, pending, fate, call>>

\* The first fire leaves the queue with the outcome its audit records; the
\* call ends with the first fire without an answer, or goes on to advance.
Dequeue(outcome) ==
  /\ approvals' = Tail(approvals)
  /\ fate' = [fate EXCEPT ![Head(approvals).fire] = outcome]
  /\ call' = IF call = "decide" /\ ~ HeadDecided(approvals') THEN "none" ELSE call
  /\ UNCHANGED <<directive, team, pending>>

\* Where a response to an approved fire can be prepared.
MayRespond == MayChange

\* The transaction of an approved fire: committed, raised or refused.
Respond(k) ==
  \/ MayRespond /\ RegisterIncident(k, RunningTeam) /\ Dequeue("COMMITTED")
  \/ /\ \/ (MayRespond => "transaction" \in Faults) /\ Dequeue("TURN_ERROR")
        \/ MayRespond /\ "transaction" \in Faults /\ Dequeue("REJECTED")
     /\ UNCHANGED <<phase, scene, mission, plan, execution, runtime>>

\* One round of the loop that carries out the answers.
ApplyDecision ==
  /\ call # "none" /\ HeadDecided(approvals)
  /\ LET k == Head(approvals).answer IN
     \/ k > 0 /\ Respond(k)
     \/ /\ k = 0 /\ Dequeue("DECLINED")
        /\ UNCHANGED <<phase, scene, mission, plan, execution, runtime>>

\* The answers are carried out at once when the run is over and no later
\* boundary could do it.
ApplyPendingDecisions ==
  /\ call = "none" /\ HeadDecided(approvals)
  /\ phase = "EXECUTED" /\ Undecided = {}
  /\ call' = "decide"
  /\ UNCHANGED <<phase, scene, mission, plan, execution, runtime, directive,
                 team, pending, approvals, fate>>

-----------------------------------------------------------------------------
(* Execution.                                                              *)

Ending(completed) == IF completed THEN "COMPLETED" ELSE "DEADLOCK"

\* Mutant of PhaseAfter: whatever ended has been executed.
AlwaysExecuted(completed) == "EXECUTED"

PhaseAfter(completed) == IF completed THEN "EXECUTED" ELSE "EXECUTION_FAILED"

RunReady ==
  /\ mission # NoValue /\ plan # NoValue /\ pending = NoValue
  /\ runtime = NoValue /\ phase \in {"PLANNING", "EXECUTION_FAILED"}

\* The one-shot run works on a copy: only its result is kept.
ExecuteSession ==
  /\ call = "none" /\ RunReady
  /\ LET completed == \A t \in All(mission) : Doable(team, t) IN
     \/ execution' = Ending(completed) /\ phase' = PhaseAfter(completed)
     \/ "advance" \in Faults /\ execution' = NoValue /\ phase' = "EXECUTION_FAILED"
  /\ UNCHANGED <<scene, mission, plan, runtime, directive, team, pending,
                 approvals, fate, call>>

\* Mutant of AdvanceReady: the pending clarification is not looked at.
AdvanceReadyUnasked ==
  /\ mission # NoValue /\ plan # NoValue
  /\ phase \in {"PLANNING", "EXECUTION_PAUSED", "EXECUTION_FAILED"}
  /\ phase = "PLANNING" <=> runtime = NoValue
  /\ ~ (phase = "EXECUTION_FAILED" /\ execution # NoValue)

AdvanceReady ==
  /\ mission # NoValue /\ plan # NoValue /\ pending = NoValue
  /\ phase \in {"PLANNING", "EXECUTION_PAUSED", "EXECUTION_FAILED"}
  /\ phase = "PLANNING" <=> runtime = NoValue
  /\ ~ (phase = "EXECUTION_FAILED" /\ execution # NoValue)

\* advance_checkpoint, called where the console finds that the session can
\* advance, and by a run that is paused, whatever has been asked under it.  It
\* carries out the answers first.
BeginAdvance ==
  /\ call = "none" /\ (AdvanceReady \/ phase = "EXECUTION_PAUSED")
  /\ call' = "advance"
  /\ UNCHANGED <<phase, scene, mission, plan, execution, runtime, directive,
                 team, pending, approvals, fate>>

Boundary == call = "advance" /\ ~ HeadDecided(approvals) /\ AdvanceReady

\* The executor an advance works on: a new one, or a copy of the checkpoint.
Candidate ==
  IF phase = "PLANNING" THEN [work |-> mission, team |-> team, scene |-> scene]
  ELSE [runtime EXCEPT !.scene = scene]

Publish(r) == runtime' = r /\ mission' = r.work

\* Mutant of Revealed: the sensor does not remember what it revealed.
RevealedAgain(Ended) == {f \in Fires : <<f, 0>> \in Ended}

\* Fires whose zone's patrol is among the tasks that ended, in zone order;
\* each is revealed once.
Revealed(Ended) == {f \in Fires : fate[f] = "latent" /\ <<f, 0>> \in Ended}
EnqueueFires(F) ==
  /\ \E zones \in [1..Cardinality(F) -> F] :
       /\ \A m, n \in DOMAIN zones : m < n => zones[m] < zones[n]
       /\ approvals' = approvals \o
            [n \in DOMAIN zones |-> [fire |-> zones[n], answer |-> NoValue]]
  /\ fate' = [f \in Fires |-> IF f \in F THEN "awaiting" ELSE fate[f]]

\* The tasks Started begin, and of all that run the tasks Ended end.
AdvanceTo(Started, Ended) ==
  LET r == Candidate
      busy == r.work.running \cup Started
      w == [open |-> r.work.open \ Started,
            running |-> busy \ Ended,
            done |-> r.work.done \cup Ended]
  IN /\ Started \subseteq Startable(r)
     /\ Ended # {} /\ Ended \subseteq busy
     /\ Publish([r EXCEPT !.work = w])
     /\ IF Finished(w)
          THEN execution' = "COMPLETED" /\ phase' = "EXECUTED"
               /\ UNCHANGED <<approvals, fate>>
          ELSE phase' = "EXECUTION_PAUSED" /\ UNCHANGED execution
               /\ EnqueueFires(Revealed(Ended))

Advance ==
  /\ Boundary /\ call' = "none"
  /\ \E S \in SUBSET Startable(Candidate) :
       \E E \in SUBSET (Candidate.work.running \cup S) : AdvanceTo(S, E)
  /\ UNCHANGED <<scene, plan, directive, team, pending>>

\* Nothing runs and no ready task has an agent: the run is over.
AdvanceStuck ==
  /\ Boundary /\ call' = "none"
  /\ LET r == Candidate IN
     /\ ~ Finished(r.work) /\ r.work.running = {} /\ Startable(r) = {}
     /\ Publish(r)
  /\ execution' = "DEADLOCK" /\ phase' = "EXECUTION_FAILED"
  /\ UNCHANGED <<scene, plan, directive, team, pending, approvals, fate>>

\* The executor raises: the candidate is dropped, the checkpoint kept.
AdvanceRaises ==
  /\ Boundary /\ call' = "none" /\ "advance" \in Faults
  /\ execution' = NoValue /\ phase' = "EXECUTION_FAILED"
  /\ UNCHANGED <<scene, mission, plan, runtime, directive, team, pending,
                 approvals, fate>>

\* The preconditions of an advance refuse; the answers stay carried out.
AdvanceRefused ==
  /\ call = "advance" /\ ~ HeadDecided(approvals) /\ ~ AdvanceReady
  /\ call' = "none"
  /\ UNCHANGED <<phase, scene, mission, plan, execution, runtime, directive,
                 team, pending, approvals, fate>>

Next ==
  \/ NewMission \/ UpdateResources \/ ReportIncident \/ ReportWithResources
  \/ UpdateMission \/ Clarify \/ SelectCandidate \/ CancelClarification
  \/ RecordDecision \/ ApplyPendingDecisions \/ ApplyDecision
  \/ ExecuteSession \/ BeginAdvance \/ Advance \/ AdvanceStuck \/ AdvanceRaises
  \/ AdvanceRefused

Spec == Init /\ [][Next]_sessionVars

-----------------------------------------------------------------------------
(* Properties.                                                             *)

Phases == {"PLANNING", "EXECUTION_PAUSED", "EXECUTED", "EXECUTION_FAILED"}
Fates == {"latent", "awaiting", "COMMITTED", "REJECTED", "DECLINED", "TURN_ERROR"}

\* Every variable has its type.
TypeOK ==
  /\ phase \in Phases /\ scene \in 0..MaxIncidents
  /\ mission \in Works \cup {NoValue} /\ plan \in (SUBSET Tasks) \cup {NoValue}
  /\ execution \in Endings \cup {NoValue}
  /\ runtime \in Runtimes \cup {NoValue}
  /\ directive \in 0..Steps /\ team \subseteq Fleet
  /\ pending \in [candidates: SUBSET (1..MaxIncidents), step: 0..Steps] \cup {NoValue}
  /\ approvals \in Seq([fire: Fires, answer: (0..Steps) \cup {NoValue}])
  /\ fate \in [Fires -> Fates] /\ call \in {"none", "decide", "advance"}

\* The mission and the scene the operator sees are those of the preserved
\* executor, whichever of turns, advances and answers replaced it last.
RuntimeIsSession ==
  runtime # NoValue => mission = runtime.work /\ scene = runtime.scene

\* Until an online run starts, the plan the operator is shown covers the
\* mission exactly, and nothing of the mission has been done.
PlanCovers ==
  mission # NoValue /\ runtime = NoValue => mission = Fresh(plan)

\* What each phase says of the runtime, the mission and the recorded result:
\* a run that was paused can go on, one that completed left nothing undone,
\* a failed one never keeps the result of a completed run, and where none has
\* started the plan is that of the mission.
PhaseTable ==
  /\ mission = NoValue => phase = "PLANNING"
  /\ phase = "PLANNING" => runtime = NoValue /\ execution = NoValue
  /\ phase = "EXECUTION_PAUSED" =>
       runtime # NoValue /\ execution = NoValue /\ ~ Finished(mission)
  /\ phase = "EXECUTED" =>
       execution = "COMPLETED" /\ (runtime # NoValue => Finished(mission))
  /\ phase = "EXECUTION_FAILED" => execution # "COMPLETED"
  /\ PlanCovers

\* The response tasks of a mission are for incidents of its scene, come with
\* the steps before them and are begun in their order.
ResponsesKnown ==
  mission # NoValue =>
    \A t \in {u \in All(mission) : u[2] > 0} :
      /\ t[1] <= scene
      /\ Chain(t[1], t[2]) \subseteq All(mission)
      /\ t \notin mission.open => Chain(t[1], t[2] - 1) \subseteq mission.done

\* A fire that awaits an answer is in the queue, once, and no other fire is;
\* the answered fires stand before those without an answer.
FiresOnce ==
  /\ \A f \in Fires :
       fate[f] = "awaiting" <=> \E n \in DOMAIN approvals : approvals[n].fire = f
  /\ \A m, n \in DOMAIN approvals :
       m < n => /\ approvals[m].fire # approvals[n].fire
                /\ Decided(approvals[n]) => Decided(approvals[m])

\* A clarification can be resumed as long as it is pending: its candidates
\* are known and the mission it would extend may still change.
PendingResumable ==
  pending # NoValue =>
    /\ Cardinality(pending.candidates) >= 2
    /\ pending.candidates \subseteq 1..scene
    /\ pending.step > 0 => mission # NoValue /\ MayChange

\* Unless a new mission is begun, no task of a mission is dropped, what is
\* done stays done and what runs goes on until it is done.
CommitmentsKept ==
  [][mission # NoValue /\ ~ NewMission =>
       /\ mission' # NoValue
       /\ All(mission) \subseteq All(mission')
       /\ mission.done \subseteq mission'.done
       /\ mission.running \subseteq mission'.running \cup mission'.done]_sessionVars

\* An online run that gave up is over for good: no turn, answer or advance
\* changes its mission or the result recorded for it.
TerminalIsFinal ==
  [][phase = "EXECUTION_FAILED" /\ runtime # NoValue /\ execution # NoValue =>
       UNCHANGED <<phase, scene, mission, execution, runtime>>]_sessionVars

\* The team a turn promises the operator is the one the executor works with.
TeamAgrees == runtime # NoValue => runtime.team = team

\* What becomes of a sensed fire is what the operator decided or the
\* validator refused.
NoFireLost == \A f \in Fires : fate[f] # "TURN_ERROR"

-----------------------------------------------------------------------------
(* The promise as a whole.                                                 *)

\* The stages, the team and the outcome of the run the session preserves.
StageOf(w) ==
  [t \in Tasks |->
     CASE t \in w.open    -> "open"
       [] t \in w.running -> "running"
       [] t \in w.done    -> "done"
       [] OTHER           -> "outside"]
RunStage == IF runtime = NoValue THEN [t \in Tasks |-> "outside"] ELSE StageOf(runtime.work)
RunOutcome ==
  CASE runtime = NoValue -> "none"
    [] runtime # NoValue /\ phase = "EXECUTION_PAUSED" -> "running"
    [] runtime # NoValue /\ phase = "EXECUTED" -> "completed"
    [] OTHER -> IF execution = "DEADLOCK" THEN "deadlocked" ELSE "raised"

StepBefore == [t \in Tasks |-> IF t[2] > 1 THEN {<<t[1], t[2] - 1>>} ELSE {}]
AbleFor == [t \in Tasks |-> Able[t[2]]]

Run ==
  INSTANCE CheckpointedRun WITH
    Agents <- Fleet, Preds <- StepBefore, Eligible <- AbleFor,
    stage <- RunStage, team <- RunningTeam, outcome <- RunOutcome

\* Whatever is asked, answered and reported between two advances, the mission
\* the operator sees is run from checkpoint to checkpoint.
ImplementsRun == Run!Spec

=============================================================================
