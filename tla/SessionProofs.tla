--------------------------- MODULE SessionProofs ---------------------------
(***************************************************************************)
(* What the session keeps whatever the operator, the model, the sensor and *)
(* the executor do, for every fleet, map, workflow and set of fires.       *)
(*                                                                         *)
(* The invariant has a part about the mission and its runtime (CoreOK), a  *)
(* part about the fires that wait (FiresOK) and the pending clarification. *)
(* FiresOK carries the reserve of incidents: a fire that is not settled    *)
(* still finds room in the scene.                                          *)
(*                                                                         *)
(* The last part is about the console that drives the session.             *)
(***************************************************************************)
EXTENDS Console, FiniteSetTheorems, SequenceTheorems, TLAPS

coreVars == <<phase, scene, mission, plan, execution, runtime>>

CoreOK ==
  /\ phase \in Phases /\ scene \in 0..MaxIncidents
  /\ mission \in Works \cup {NoValue} /\ plan \in (SUBSET Tasks) \cup {NoValue}
  /\ execution \in Endings \cup {NoValue}
  /\ runtime \in Runtimes \cup {NoValue}
  /\ RuntimeIsSession /\ PhaseTable /\ ResponsesKnown

FiresOK ==
  /\ approvals \in Seq([fire: Fires, answer: (0..Steps) \cup {NoValue}])
  /\ fate \in [Fires -> Fates]
  /\ FiresOnce
  /\ scene + Cardinality(Unsettled) <= MaxIncidents

\* What a step that begins no mission keeps of the one there is.
WorkKept ==
  mission # NoValue =>
    /\ mission' # NoValue
    /\ All(mission) \subseteq All(mission')
    /\ mission.done \subseteq mission'.done
    /\ mission.running \subseteq mission'.running \cup mission'.done

SessionInv ==
  /\ CoreOK /\ FiresOK
  /\ approvals # <<>> => mission # NoValue
  /\ directive \in 0..Steps /\ team \subseteq Fleet
  /\ pending \in [candidates: SUBSET (1..MaxIncidents), step: 0..Steps] \cup {NoValue}
  /\ call \in {"none", "decide", "advance"}
  /\ PendingResumable

-----------------------------------------------------------------------------
(* Work.                                                                   *)

\* The workflow of an incident of the scene consists of tasks.
LEMMA ChainType ==
  ASSUME NEW i \in 1..MaxIncidents, NEW k \in 0..Steps
  PROVE  Chain(i, k) \subseteq Tasks
BY SessionAssumption DEF Chain, Tasks

\* A fresh mission has everything open.
LEMMA FreshWork ==
  ASSUME NEW G \in SUBSET Tasks
  PROVE  /\ Fresh(G) \in Works /\ Fresh(G) # NoValue
         /\ All(Fresh(G)) = G
         /\ Fresh(G).open = G /\ Fresh(G).running = {} /\ Fresh(G).done = {}
BY NoValueAssumption DEF Fresh, Works, All

\* A patch adds open tasks and touches no other.
LEMMA ExtendedWork ==
  ASSUME NEW w \in Works, NEW G \in SUBSET Tasks
  PROVE  /\ Extended(w, G) \in Works /\ Extended(w, G) # NoValue
         /\ All(Extended(w, G)) = All(w) \cup G
         /\ Extended(w, G).open = w.open \cup (G \ All(w))
         /\ Extended(w, G).running = w.running
         /\ Extended(w, G).done = w.done
BY NoValueAssumption DEF Extended, Works, All

\* A session that may change has a paused or completed run, or none at all.
LEMMA ChangePhases ==
  ASSUME CoreOK, MayChange
  PROVE  /\ phase \in {"PLANNING", "EXECUTION_PAUSED", "EXECUTED"}
         /\ phase = "PLANNING" <=> runtime = NoValue
BY DEF CoreOK, MayChange, CompletedTerminal, PhaseTable

\* The tasks of a mission are for incidents of the scene, so the response to
\* an incident that is registered next is new.
LEMMA NextIsNew ==
  ASSUME CoreOK, mission # NoValue, NEW k \in 1..Steps
  PROVE  ~ (Chain(scene + 1, k) \subseteq All(mission))
<1>1. <<scene + 1, 1>> \in Chain(scene + 1, k)
  BY SessionAssumption DEF Chain, CoreOK
<1>2. <<scene + 1, 1>> \notin All(mission)
  BY DEF CoreOK, ResponsesKnown
<1> QED  BY <1>1, <1>2

\* A task names its zone or incident, and its step, by number.
LEMMA TaskNumbers ==
  ASSUME NEW t \in Tasks
  PROVE  t[1] \in Nat /\ t[2] \in 0..Steps
<1>1. CASE t \in Zones \X {0}
  <2>1. t[1] \in Zones /\ t[2] = 0
    BY <1>1
  <2>2. t[1] \in Nat
    BY <2>1, SessionAssumption
  <2>3. 0 \in 0..Steps
    BY SessionAssumption
  <2> QED  BY <2>1, <2>2, <2>3
<1>2. CASE t \in (1..MaxIncidents) \X (1..Steps)
  <2>1. t[1] \in 1..MaxIncidents /\ t[2] \in 1..Steps
    BY <1>2
  <2> QED  BY <2>1, SessionAssumption
<1> QED  BY <1>1, <1>2 DEF Tasks

\* A mission stays within a scene that grows.
LEMMA MoreIncidents ==
  ASSUME CoreOK, UNCHANGED mission, scene' \in Nat, scene' >= scene
  PROVE  ResponsesKnown'
<1> SUFFICES ASSUME mission # NoValue, NEW t \in All(mission), t[2] > 0
             PROVE  /\ t[1] <= scene'
                    /\ Chain(t[1], t[2]) \subseteq All(mission)
                    /\ t \notin mission.open => Chain(t[1], t[2] - 1) \subseteq mission.done
  BY DEF ResponsesKnown
<1>1. t \in Tasks
  BY DEF CoreOK, Works, All
<1>2. t[1] \in Nat
  BY <1>1, TaskNumbers
<1> QED  BY <1>2 DEF CoreOK, ResponsesKnown

-----------------------------------------------------------------------------
(* The mission and its runtime.                                            *)

\* Extending the response to an incident, known or registered with it.
LEMMA AdaptKeepsCore ==
  ASSUME CoreOK, MayChange, mission # NoValue,
         NEW s \in scene..MaxIncidents, NEW i \in 1..s, NEW k \in 1..Steps,
         NEW T \in SUBSET Fleet,
         ~ (Chain(i, k) \subseteq All(mission)),
         Adapt(Chain(i, k), s, T)
  PROVE  CoreOK' /\ scene' = s /\ WorkKept /\ mission' # NoValue /\ MayChange'
<1> DEFINE G == Chain(i, k)
           w == Extended(mission, G)
<1>1. s \in 0..MaxIncidents /\ i \in 1..MaxIncidents /\ k \in 0..Steps
  BY SessionAssumption DEF CoreOK
<1>2. G \in SUBSET Tasks
  BY <1>1, ChainType
<1>3. mission \in Works
  BY DEF CoreOK
<1>4. /\ w \in Works /\ w # NoValue /\ All(w) = All(mission) \cup G
      /\ w.open = mission.open \cup (G \ All(mission))
      /\ w.running = mission.running /\ w.done = mission.done
  BY <1>2, <1>3, ExtendedWork
<1>5. scene' = s /\ mission' = w
  BY DEF Adapt
<1>6. phase \in {"PLANNING", "EXECUTION_PAUSED", "EXECUTED"} /\ (phase = "PLANNING" <=> runtime = NoValue)
  BY ChangePhases
<1>7. All(w) \in SUBSET Tasks
  BY <1>4 DEF Works, All
<1>8. ResponsesKnown'
  <2> SUFFICES ASSUME NEW t \in All(w), t[2] > 0
               PROVE  /\ t[1] <= s
                      /\ Chain(t[1], t[2]) \subseteq All(w)
                      /\ t \notin w.open => Chain(t[1], t[2] - 1) \subseteq w.done
    BY <1>4, <1>5 DEF ResponsesKnown
  <2>1. CASE t \in All(mission)
    <3>1. /\ t[1] <= scene /\ Chain(t[1], t[2]) \subseteq All(mission)
          /\ t \notin mission.open => Chain(t[1], t[2] - 1) \subseteq mission.done
      BY <2>1 DEF CoreOK, ResponsesKnown
    <3>2. t[1] <= s
      <4>1. t \in Tasks
        BY <1>7
      <4>2. t[1] \in Int
        BY <4>1, TaskNumbers
      <4> QED  BY <3>1, <4>2 DEF CoreOK
    <3> QED  BY <1>4, <3>1, <3>2
  <2>2. CASE t \notin All(mission)
    <3>1. t \in G /\ t \in w.open
      BY <1>4, <2>2
    <3>2. t[1] = i /\ t[2] \in 1..k
      BY <3>1 DEF Chain
    <3>3. Chain(t[1], t[2]) \subseteq G
      BY <3>2 DEF Chain
    <3> QED  BY <1>4, <3>1, <3>2, <3>3
  <2> QED  BY <2>1, <2>2
<1>9. ~ Finished(w)
  BY <1>4 DEF Finished, All
<1>10. ASSUME phase \in {"EXECUTION_PAUSED", "EXECUTED"}
       PROVE  CoreOK' /\ MayChange'
  <2>1. /\ runtime' = [work |-> w, team |-> T, scene |-> s]
        /\ phase' = "EXECUTION_PAUSED" /\ plan' = plan
        /\ execution' = IF phase = "EXECUTED" THEN NoValue ELSE execution
    BY <1>10 DEF Adapt
  <2>2. execution' = NoValue
    BY <1>10, <2>1 DEF CoreOK, PhaseTable
  <2>3. runtime' \in Runtimes /\ runtime' # NoValue
    BY <1>1, <1>4, <2>1, NoValueAssumption DEF Runtimes
  <2>4. RuntimeIsSession' /\ PhaseTable' /\ PlanCovers'
    BY <1>4, <1>5, <1>9, <2>1, <2>2, <2>3 DEF RuntimeIsSession, PhaseTable, PlanCovers
  <2> QED  BY <1>1, <1>4, <1>5, <1>8, <2>1, <2>2, <2>3, <2>4 DEF CoreOK, Phases, MayChange
<1>11. ASSUME phase = "PLANNING"
       PROVE  CoreOK' /\ MayChange'
  <2>1. plan' = All(w) /\ UNCHANGED <<runtime, execution, phase>>
    BY <1>11 DEF Adapt
  <2>2. runtime = NoValue /\ mission = Fresh(plan)
    BY <1>6, <1>11 DEF CoreOK, PhaseTable, PlanCovers
  <2>3. mission.running = {} /\ mission.done = {}
    BY <2>2 DEF Fresh
  <2>4. w = Fresh(All(w))
    BY <1>4, <2>3 DEF Fresh, All, Works
  <2>5. RuntimeIsSession' /\ PhaseTable' /\ PlanCovers'
    BY <1>4, <1>5, <1>11, <2>1, <2>2, <2>4 DEF CoreOK, RuntimeIsSession, PhaseTable, PlanCovers
  <2> QED  BY <1>1, <1>4, <1>5, <1>7, <1>8, <1>11, <2>1, <2>5 DEF CoreOK, MayChange
<1>12. WorkKept /\ mission' # NoValue
  BY <1>4, <1>5 DEF WorkKept
<1> QED  BY <1>5, <1>6, <1>10, <1>11, <1>12

\* Registering an incident, with or without a response.
LEMMA RegisterKeepsCore ==
  ASSUME CoreOK, MayChange, scene < MaxIncidents,
         NEW k \in 0..Steps, NEW T \in SUBSET Fleet,
         k > 0 => mission # NoValue,
         RegisterIncident(k, T)
  PROVE  /\ CoreOK' /\ scene' = scene + 1 /\ WorkKept
         /\ k > 0 => mission' # NoValue /\ MayChange'
<1>1. scene + 1 \in scene..MaxIncidents /\ scene + 1 \in 1..(scene + 1)
  BY SessionAssumption DEF CoreOK
<1>2. CASE k > 0
  <2>1. k \in 1..Steps /\ mission # NoValue
    BY <1>2, SessionAssumption
  <2>2. Adapt(Chain(scene + 1, k), scene + 1, T)
    BY <1>2 DEF RegisterIncident
  <2>3. ~ (Chain(scene + 1, k) \subseteq All(mission))
    BY <2>1, NextIsNew
  <2> QED  BY <1>1, <2>1, <2>2, <2>3, AdaptKeepsCore
<1>3. CASE ~ (k > 0)
  <2>1. /\ scene' = scene + 1 /\ UNCHANGED <<phase, mission, plan, execution>>
        /\ runtime' = IF phase \in {"EXECUTION_PAUSED", "EXECUTED"}
                        THEN [runtime EXCEPT !.scene = scene'] ELSE runtime
    BY <1>3 DEF RegisterIncident
  <2>2. phase \in {"PLANNING", "EXECUTION_PAUSED", "EXECUTED"} /\ (phase = "PLANNING" <=> runtime = NoValue)
    BY ChangePhases
  <2>3. scene' \in 0..MaxIncidents
    BY <1>1, <2>1 DEF CoreOK
  <2>4. ASSUME runtime = NoValue PROVE CoreOK'
    <3>1. ResponsesKnown'
      BY <1>1, <2>1, <2>3, MoreIncidents DEF CoreOK
    <3> QED  BY <2>1, <2>2, <2>3, <2>4, <3>1 DEF CoreOK, RuntimeIsSession, PhaseTable, PlanCovers
  <2>5. ASSUME runtime # NoValue PROVE CoreOK'
    <3>1. /\ runtime' \in Runtimes /\ runtime' # NoValue
          /\ runtime'.work = runtime.work /\ runtime'.scene = scene'
      BY <2>1, <2>2, <2>3, <2>5, NoValueAssumption DEF CoreOK, Runtimes
    <3>2. RuntimeIsSession' /\ PhaseTable' /\ PlanCovers'
      BY <2>1, <2>5, <3>1 DEF CoreOK, RuntimeIsSession, PhaseTable, PlanCovers
    <3>3. ResponsesKnown'
      BY <1>1, <2>1, <2>3, MoreIncidents DEF CoreOK
    <3> QED  BY <2>1, <2>3, <3>1, <3>2, <3>3 DEF CoreOK
  <2>6. WorkKept
    BY <2>1 DEF WorkKept
  <2> QED  BY <1>3, <2>1, <2>4, <2>5, <2>6
<1> QED  BY <1>2, <1>3

\* A call that leaves the six variables alone.
LEMMA SameCore ==
  ASSUME CoreOK, UNCHANGED coreVars
  PROVE  CoreOK'
BY DEF CoreOK, coreVars, RuntimeIsSession, PhaseTable, ResponsesKnown, PlanCovers

\* A new mission is planned afresh, and branches the episode of a runtime.
LEMMA NewMissionKeepsCore ==
  ASSUME SessionInv, NewMission
  PROVE  CoreOK' /\ directive' \in 0..Steps /\ team' \subseteq Fleet /\ mission' # NoValue
<1>1. PICK Z \in SUBSET Zones, reach \in [1..scene -> 0..Steps] :
        LET G == (Z \X {0}) \cup UNION {Chain(i, reach[i]) : i \in 1..scene} IN
        /\ G # {}
        /\ mission' = Fresh(G) /\ plan' = G
        /\ team' \in Teams(G) \cup {Fleet}
        /\ directive' \in 0..Steps
        /\ IF runtime = NoValue
             THEN UNCHANGED <<phase, execution, runtime>>
             ELSE /\ runtime' = [work |-> Fresh(G), team |-> team', scene |-> scene]
                  /\ execution' = NoValue
                  /\ phase' = "EXECUTION_PAUSED"
  BY DEF NewMission
<1> DEFINE G == (Z \X {0}) \cup UNION {Chain(i, reach[i]) : i \in 1..scene}
<1>2. scene' = scene /\ scene \in 0..MaxIncidents
  BY DEF NewMission, SessionInv, CoreOK
<1>3. G \in SUBSET Tasks
  <2>1. Z \X {0} \subseteq Tasks
    BY DEF Tasks
  <2>2. ASSUME NEW i \in 1..scene
        PROVE  Chain(i, reach[i]) \subseteq Tasks
    <3>1. i \in 1..MaxIncidents /\ reach[i] \in 0..Steps
      BY <1>2, SessionAssumption
    <3> QED  BY <3>1, ChainType
  <2> QED  BY <2>1, <2>2
<1>4. /\ Fresh(G) \in Works /\ Fresh(G) # NoValue /\ All(Fresh(G)) = G
      /\ Fresh(G).open = G /\ Fresh(G).running = {} /\ Fresh(G).done = {}
  BY <1>3, FreshWork
<1>5. team' \subseteq Fleet
  BY <1>1 DEF Teams
<1>6. ResponsesKnown'
  <2> SUFFICES ASSUME NEW t \in G, t[2] > 0
               PROVE  t[1] <= scene /\ Chain(t[1], t[2]) \subseteq G
    BY <1>1, <1>2, <1>4 DEF ResponsesKnown
  <2>1. PICK i \in 1..scene : t \in Chain(i, reach[i])
    <3>1. t \notin Z \X {0}
      OBVIOUS
    <3> QED  BY <3>1
  <2>2. t[1] = i /\ t[2] \in 1..reach[i] /\ reach[i] \in 0..Steps
    BY <2>1 DEF Chain
  <2>3. Chain(t[1], t[2]) \subseteq Chain(i, reach[i])
    BY <2>2, SessionAssumption DEF Chain
  <2> QED  BY <1>2, <2>2, <2>3
<1>7. ~ Finished(Fresh(G))
  BY <1>1, <1>4 DEF Finished
<1>8. ASSUME runtime = NoValue PROVE CoreOK'
  <2>1. UNCHANGED <<phase, execution, runtime>> /\ phase = "PLANNING"
    BY <1>1, <1>8 DEF NewMission
  <2>2. RuntimeIsSession' /\ PhaseTable' /\ PlanCovers'
    BY <1>1, <1>4, <1>8, <2>1 DEF SessionInv, CoreOK, RuntimeIsSession, PhaseTable, PlanCovers
  <2> QED  BY <1>1, <1>2, <1>3, <1>4, <1>5, <1>6, <2>1, <2>2 DEF SessionInv, CoreOK
<1>9. ASSUME runtime # NoValue PROVE CoreOK'
  <2>1. /\ runtime' = [work |-> Fresh(G), team |-> team', scene |-> scene]
        /\ execution' = NoValue /\ phase' = "EXECUTION_PAUSED"
    BY <1>1, <1>9
  <2>2. runtime' \in Runtimes /\ runtime' # NoValue
    BY <1>2, <1>4, <1>5, <2>1, NoValueAssumption DEF Runtimes
  <2>3. RuntimeIsSession' /\ PhaseTable' /\ PlanCovers'
    BY <1>1, <1>2, <1>4, <1>7, <2>1, <2>2 DEF RuntimeIsSession, PhaseTable, PlanCovers
  <2> QED  BY <1>1, <1>2, <1>3, <1>4, <1>5, <1>6, <2>1, <2>2, <2>3 DEF SessionInv, CoreOK, Phases
<1> QED  BY <1>1, <1>4, <1>5, <1>8, <1>9

\* A new team leaves the mission and the scene of the runtime alone.
LEMMA UpdateResourcesKeepsCore ==
  ASSUME SessionInv, UpdateResources
  PROVE  CoreOK' /\ team' \subseteq Fleet
<1>1. PICK T \in Teams(mission.open) \cup (IF phase = "PLANNING" THEN {Fleet} ELSE {}) :
        /\ team' = T
        /\ runtime' = IF phase = "PLANNING" THEN runtime ELSE [runtime EXCEPT !.team = T]
  BY DEF UpdateResources
<1>2. T \in SUBSET Fleet
  BY DEF Teams
<1>3. UNCHANGED <<phase, scene, mission, plan, execution>> /\ phase \in {"PLANNING", "EXECUTION_PAUSED"}
  BY DEF UpdateResources
<1>4. CASE phase = "PLANNING"
  BY <1>1, <1>2, <1>3, <1>4, SameCore DEF SessionInv, coreVars
<1>5. CASE phase = "EXECUTION_PAUSED"
  <2>1. runtime \in Runtimes /\ runtime # NoValue
    BY <1>5 DEF SessionInv, CoreOK, PhaseTable
  <2>2. /\ runtime' \in Runtimes /\ runtime' # NoValue
        /\ runtime'.work = runtime.work /\ runtime'.scene = runtime.scene
    BY <1>1, <1>2, <1>5, <2>1, NoValueAssumption DEF Runtimes
  <2>3. RuntimeIsSession' /\ PhaseTable' /\ ResponsesKnown' /\ PlanCovers'
    BY <1>3, <1>5, <2>1, <2>2
    DEF SessionInv, CoreOK, RuntimeIsSession, PhaseTable, ResponsesKnown, PlanCovers
  <2> QED  BY <1>1, <1>2, <1>3, <2>2, <2>3 DEF SessionInv, CoreOK
<1> QED  BY <1>3, <1>4, <1>5

-----------------------------------------------------------------------------
(* Execution.                                                              *)

\* A one-shot run leaves no runtime and a result that fits its phase.
LEMMA ExecuteKeepsCore ==
  ASSUME SessionInv, ExecuteSession
  PROVE  CoreOK'
<1>1. /\ mission # NoValue /\ runtime = NoValue
      /\ UNCHANGED <<scene, mission, plan, runtime>>
  BY DEF ExecuteSession, RunReady
<1>2. \/ execution' = "COMPLETED" /\ phase' = "EXECUTED"
      \/ execution' \in {"DEADLOCK", NoValue} /\ phase' = "EXECUTION_FAILED"
  BY DEF ExecuteSession, Ending, PhaseAfter
<1>3. execution' \in Endings \cup {NoValue} /\ (phase' = "EXECUTION_FAILED" => execution' # "COMPLETED")
  BY <1>2, NoValueAssumption DEF Endings
<1>4. RuntimeIsSession' /\ PhaseTable' /\ ResponsesKnown' /\ PlanCovers'
  BY <1>1, <1>2, <1>3 DEF SessionInv, CoreOK, RuntimeIsSession, PhaseTable, ResponsesKnown, PlanCovers
<1> QED  BY <1>1, <1>2, <1>3, <1>4 DEF SessionInv, CoreOK, Phases

\* The executor an advance works on carries the mission of the session.
LEMMA CandidateWork ==
  ASSUME SessionInv, AdvanceReady
  PROVE  /\ mission \in Works /\ mission # NoValue
         /\ Candidate \in Runtimes /\ Candidate.work = mission /\ Candidate.scene = scene
         /\ execution = NoValue
<1>1. mission \in Works /\ mission # NoValue /\ scene \in 0..MaxIncidents /\ team \in SUBSET Fleet
  BY DEF SessionInv, CoreOK, AdvanceReady
<1>2. execution = NoValue
  BY DEF SessionInv, CoreOK, AdvanceReady, PhaseTable
<1>3. CASE phase = "PLANNING"
  BY <1>1, <1>2, <1>3 DEF Candidate, Runtimes
<1>4. CASE phase # "PLANNING"
  <2>1. runtime \in Runtimes /\ runtime.work = mission
    BY <1>4 DEF SessionInv, CoreOK, AdvanceReady, RuntimeIsSession
  <2> QED  BY <1>1, <1>2, <1>4, <2>1 DEF Candidate, Runtimes
<1> QED  BY <1>3, <1>4

\* An advance begins tasks in the order of their workflow, and forgets none.
LEMMA AdvanceKeepsCore ==
  ASSUME SessionInv, AdvanceReady, UNCHANGED <<scene, plan>>,
         NEW S \in SUBSET Startable(Candidate),
         NEW E \in SUBSET (Candidate.work.running \cup S),
         AdvanceTo(S, E)
  PROVE  /\ CoreOK'
         /\ mission' # NoValue /\ WorkKept
<1> DEFINE busy == mission.running \cup S
           w == [open |-> mission.open \ S, running |-> busy \ E, done |-> mission.done \cup E]
           r == [Candidate EXCEPT !.work = w]
<1>1. /\ mission \in Works /\ mission # NoValue /\ Candidate \in Runtimes
      /\ Candidate.work = mission /\ Candidate.scene = scene /\ execution = NoValue
  BY CandidateWork
<1>2. S \subseteq mission.open /\ E \subseteq busy
  BY <1>1 DEF Startable, Ready
<1>3. /\ w \in Works /\ w # NoValue /\ All(w) = All(mission)
      /\ w.open = mission.open \ S /\ w.done = mission.done \cup E /\ w.running = busy \ E
  BY <1>1, <1>2, NoValueAssumption DEF Works, All
<1>4. runtime' = r /\ mission' = r.work
  BY <1>1 DEF AdvanceTo, Publish
<1>5. r \in Runtimes /\ r # NoValue /\ r.work = w /\ r.scene = scene
  BY <1>1, <1>3, NoValueAssumption DEF Runtimes
<1>6. \/ Finished(w) /\ execution' = "COMPLETED" /\ phase' = "EXECUTED"
      \/ ~ Finished(w) /\ phase' = "EXECUTION_PAUSED" /\ execution' = NoValue
  BY <1>1 DEF AdvanceTo
<1>7. ResponsesKnown'
  <2> SUFFICES ASSUME NEW t \in All(mission), t[2] > 0
               PROVE  /\ t[1] <= scene
                      /\ Chain(t[1], t[2]) \subseteq All(mission)
                      /\ t \notin w.open => Chain(t[1], t[2] - 1) \subseteq w.done
    BY <1>3, <1>4, <1>5 DEF ResponsesKnown
  <2>1. /\ t[1] <= scene /\ Chain(t[1], t[2]) \subseteq All(mission)
        /\ t \notin mission.open => Chain(t[1], t[2] - 1) \subseteq mission.done
    BY <1>1 DEF SessionInv, CoreOK, ResponsesKnown
  <2>2. ASSUME t \in S
        PROVE  Chain(t[1], t[2] - 1) \subseteq mission.done
    <3>1. t[2] > 1 => <<t[1], t[2] - 1>> \in mission.done
      BY <1>1, <2>2 DEF Startable, Ready
    <3>2. t \in Tasks /\ t[1] \in Nat /\ t[2] \in 0..Steps
      BY <1>1, TaskNumbers DEF Works, All
    <3>3. CASE t[2] = 1
      BY <3>3 DEF Chain
    <3>4. CASE t[2] > 1
      <4> DEFINE p == <<t[1], t[2] - 1>>
      <4>1. p \in mission.done /\ p[1] = t[1] /\ p[2] = t[2] - 1 /\ p[2] > 0
        BY <3>1, <3>2, <3>4, SessionAssumption
      <4>2. CASE p \in mission.open
        BY <1>1, <4>1, <4>2 DEF Works
      <4>3. CASE p \notin mission.open
        <5>1. Chain(p[1], p[2] - 1) \subseteq mission.done
          BY <1>1, <4>1, <4>3 DEF SessionInv, CoreOK, ResponsesKnown, All
        <5>2. Chain(t[1], t[2] - 1) \subseteq Chain(p[1], p[2] - 1) \cup {p}
          BY <3>2, <4>1, SessionAssumption DEF Chain
        <5> QED  BY <4>1, <5>1, <5>2
      <4> QED  BY <4>2, <4>3
    <3> QED  BY <3>2, <3>3, <3>4, SessionAssumption
  <2> QED  BY <1>3, <2>1, <2>2
<1>8. RuntimeIsSession' /\ PhaseTable' /\ PlanCovers'
  BY <1>3, <1>4, <1>5, <1>6, NoValueAssumption
  DEF RuntimeIsSession, PhaseTable, PlanCovers, Endings
<1>9. CoreOK'
  BY <1>3, <1>4, <1>5, <1>6, <1>7, <1>8 DEF SessionInv, CoreOK, Phases, Endings
<1>10. mission' = w
  BY <1>4, <1>5
<1> QED  BY <1>2, <1>3, <1>9, <1>10 DEF WorkKept

\* A run that gives up or raises keeps the mission as it was.
LEMMA FailureKeepsCore ==
  ASSUME SessionInv, AdvanceStuck \/ AdvanceRaises
  PROVE  CoreOK' /\ mission' = mission
<1>1. AdvanceReady /\ UNCHANGED <<scene, plan>> /\ phase' = "EXECUTION_FAILED"
  BY DEF AdvanceStuck, AdvanceRaises, Boundary
<1>2. /\ mission \in Works /\ mission # NoValue /\ Candidate \in Runtimes
      /\ Candidate.work = mission /\ Candidate.scene = scene
  BY <1>1, CandidateWork
<1>3. /\ mission' = mission /\ runtime' \in {runtime, Candidate}
      /\ execution' \in {"DEADLOCK", NoValue}
  BY <1>2 DEF AdvanceStuck, AdvanceRaises, Publish
<1>4. runtime' \in Runtimes \cup {NoValue} /\ RuntimeIsSession'
  BY <1>1, <1>2, <1>3 DEF SessionInv, CoreOK, RuntimeIsSession
<1>5. execution' \in Endings \cup {NoValue} /\ execution' # "COMPLETED"
  BY <1>3, NoValueAssumption DEF Endings
<1>6. PlanCovers'
  <2>1. CASE runtime' = NoValue
    BY <1>1, <1>2, <1>3, <2>1, NoValueAssumption DEF SessionInv, CoreOK, PhaseTable, PlanCovers
  <2> QED  BY <2>1 DEF PlanCovers
<1>7. PhaseTable' /\ ResponsesKnown'
  BY <1>1, <1>2, <1>3, <1>5, <1>6 DEF SessionInv, CoreOK, PhaseTable, ResponsesKnown
<1> QED  BY <1>1, <1>2, <1>3, <1>4, <1>5, <1>6, <1>7 DEF SessionInv, CoreOK, Phases

-----------------------------------------------------------------------------
(* The fires that wait.                                                    *)

Entries == [fire: Fires, answer: (0..Steps) \cup {NoValue}]

\* The fires without an outcome are finitely many.
LEMMA UnsettledFinite ==
  IsFiniteSet(Unsettled) /\ Cardinality(Unsettled) \in Nat
BY SessionAssumption, FS_Subset, FS_CardinalityType DEF Unsettled

\* A step that touches no fire, in a scene that keeps room for all of them.
LEMMA SameFires ==
  ASSUME FiresOK, UNCHANGED <<approvals, fate>>,
         scene' + Cardinality(Unsettled) <= MaxIncidents
  PROVE  FiresOK'
BY DEF FiresOK, FiresOnce, Unsettled, Decided

\* The first fire without an answer is the one answered.
LEMMA RecordKeepsFires ==
  ASSUME SessionInv, RecordDecision
  PROVE  FiresOK'
<1>1. PICK n \in Undecided :
        /\ \A m \in Undecided : n <= m
        /\ \E k \in 0..Steps : approvals' = [approvals EXCEPT ![n].answer = k]
  BY DEF RecordDecision
<1>2. PICK k \in 0..Steps : approvals' = [approvals EXCEPT ![n].answer = k]
  BY <1>1
<1>3. fate' = fate /\ scene' = scene
  BY DEF RecordDecision
<1>4. approvals \in Seq(Entries) /\ n \in DOMAIN approvals
  BY <1>1 DEF SessionInv, FiresOK, Entries, Undecided
<1>5. /\ approvals' \in Seq(Entries) /\ DOMAIN approvals' = DOMAIN approvals
      /\ \A m \in DOMAIN approvals : approvals'[m].fire = approvals[m].fire
      /\ \A m \in DOMAIN approvals : m # n => approvals'[m] = approvals[m]
  <2> DEFINE e == [approvals[n] EXCEPT !.answer = k]
  <2>1. n \in 1..Len(approvals) /\ approvals[n] \in Entries
    BY <1>4
  <2>2. e \in Entries /\ e.fire = approvals[n].fire
    BY <2>1 DEF Entries
  <2>3. approvals' = [approvals EXCEPT ![n] = e]
    BY <1>2
  <2>4. approvals' \in Seq(Entries) /\ Len(approvals') = Len(approvals)
    BY <1>4, <2>1, <2>2, <2>3, ExceptSeq
  <2>5. DOMAIN approvals' = DOMAIN approvals
    BY <1>4, <2>4
  <2>6. /\ approvals'[n] = e
        /\ \A m \in DOMAIN approvals : m # n => approvals'[m] = approvals[m]
    BY <1>4, <2>3
  <2> HIDE DEF e
  <2> QED  BY <2>2, <2>4, <2>5, <2>6
<1>6. FiresOnce'
  <2>1. \A f \in Fires :
          fate'[f] = "awaiting" <=> \E m \in DOMAIN approvals' : approvals'[m].fire = f
    BY <1>3, <1>5, SMTT(30) DEF SessionInv, FiresOK, FiresOnce
  <2>2. ASSUME NEW m \in DOMAIN approvals, NEW p \in DOMAIN approvals, m < p
        PROVE  /\ approvals'[m].fire # approvals'[p].fire
               /\ Decided(approvals'[p]) => Decided(approvals'[m])
    <3>1. /\ approvals[m].fire # approvals[p].fire
          /\ Decided(approvals[p]) => Decided(approvals[m])
          /\ p # n => (Decided(approvals[p]) => p \notin Undecided)
      BY <2>2 DEF SessionInv, FiresOK, FiresOnce, Undecided
    <3>2. CASE p = n
      <4>1. m \notin Undecided /\ m # n
        BY <1>1, <1>4, <2>2, <3>2
      <4> QED  BY <1>5, <3>1, <4>1 DEF Undecided
    <3>3. CASE p # n /\ m # n
      BY <1>5, <3>1, <3>3
    <3>4. CASE m = n
      <4>1. ~ Decided(approvals[p])
        BY <1>1, <3>1, <3>4 DEF Undecided
      <4> QED  BY <1>5, <2>2, <3>1, <3>4, <4>1
    <3> QED  BY <3>2, <3>3, <3>4
  <2> QED  BY <1>5, <2>1, <2>2 DEF FiresOnce, Decided
<1>7. scene' + Cardinality(Unsettled') <= MaxIncidents
  BY <1>3 DEF SessionInv, FiresOK, Unsettled
<1> QED  BY <1>3, <1>5, <1>6, <1>7 DEF SessionInv, FiresOK, Entries

\* The head of the queue is settled: its place in the scene is free to use.
LEMMA DequeueKeepsFires ==
  ASSUME SessionInv, approvals # <<>>,
         NEW outcome \in Fates \ {"latent", "awaiting"}, Dequeue(outcome),
         scene' \in {scene, scene + 1}
  PROVE  FiresOK' /\ scene < MaxIncidents
<1> DEFINE f == Head(approvals).fire
<1>1. /\ approvals' = Tail(approvals)
      /\ fate' = [fate EXCEPT ![f] = outcome]
  BY DEF Dequeue
<1>2. approvals \in Seq(Entries) /\ fate \in [Fires -> Fates] /\ scene \in Nat
  BY SessionAssumption DEF SessionInv, FiresOK, Entries, CoreOK
<1>3. /\ 1 \in DOMAIN approvals /\ Head(approvals) = approvals[1] /\ f \in Fires
      /\ approvals' \in Seq(Entries)
      /\ \A n \in DOMAIN approvals' :
           n + 1 \in DOMAIN approvals /\ approvals'[n] = approvals[n + 1] /\ n \in Nat \ {0}
      /\ \A n \in DOMAIN approvals :
           n # 1 => n - 1 \in DOMAIN approvals' /\ approvals'[n - 1] = approvals[n]
  <2>1. /\ approvals' \in Seq(Entries) /\ Len(approvals') = Len(approvals) - 1
        /\ \A n \in 1..Len(approvals') : approvals'[n] = approvals[n + 1]
        /\ Head(approvals) = approvals[1] /\ Head(approvals) \in Entries
    BY <1>1, <1>2, HeadTailProperties
  <2>2. Len(approvals) \in Nat \ {0} /\ DOMAIN approvals = 1..Len(approvals)
    BY <1>2, EmptySeq
  <2>3. DOMAIN approvals' = 1..Len(approvals')
    BY <2>1
  <2>4. f \in Fires
    BY <2>1 DEF Entries
  <2>5. \A n \in DOMAIN approvals' :
           n + 1 \in DOMAIN approvals /\ approvals'[n] = approvals[n + 1] /\ n \in Nat \ {0}
    BY <2>1, <2>2, <2>3
  <2>6. ASSUME NEW n \in DOMAIN approvals, n # 1
        PROVE  n - 1 \in DOMAIN approvals' /\ approvals'[n - 1] = approvals[n]
    <3>1. n \in 2..Len(approvals) /\ n - 1 \in 1..Len(approvals') /\ n - 1 + 1 = n
      BY <2>1, <2>2, <2>6
    <3> QED  BY <2>1, <2>3, <3>1
  <2> QED  BY <2>1, <2>2, <2>4, <2>5, <2>6
<1>4. fate[f] = "awaiting"
  BY <1>3 DEF SessionInv, FiresOK, FiresOnce
<1>5. Unsettled' = Unsettled \ {f} /\ f \in Unsettled
  BY <1>1, <1>2, <1>3, <1>4 DEF Unsettled
<1>6. Cardinality(Unsettled') = Cardinality(Unsettled) - 1
  BY <1>5, UnsettledFinite, FS_RemoveElement
<1>7. Cardinality(Unsettled) \in Nat /\ Cardinality(Unsettled') \in Nat
  BY <1>5, UnsettledFinite, FS_RemoveElement, FS_CardinalityType
<1>8. FiresOnce'
  <2>1. ASSUME NEW g \in Fires
        PROVE  fate'[g] = "awaiting" <=> \E n \in DOMAIN approvals' : approvals'[n].fire = g
    <3>1. CASE g = f
      <4>1. fate'[g] = outcome
        BY <1>1, <1>2, <3>1
      <4>2. ASSUME NEW n \in DOMAIN approvals' PROVE approvals'[n].fire # f
        BY <1>3, 1 < n + 1 DEF SessionInv, FiresOK, FiresOnce
      <4> QED  BY <3>1, <4>1, <4>2
    <3>2. CASE g # f
      <4>1. fate'[g] = fate[g]
        BY <1>1, <1>2, <3>2
      <4>2. fate[g] = "awaiting" <=> \E n \in DOMAIN approvals : approvals[n].fire = g
        BY DEF SessionInv, FiresOK, FiresOnce
      <4> QED  BY <1>3, <3>2, <4>1, <4>2, ZenonT(60)
    <3> QED  BY <3>1, <3>2
  <2>2. ASSUME NEW m \in DOMAIN approvals', NEW n \in DOMAIN approvals', m < n
        PROVE  /\ approvals'[m].fire # approvals'[n].fire
               /\ Decided(approvals'[n]) => Decided(approvals'[m])
    <3>1. m + 1 < n + 1
      BY <1>3, <2>2
    <3> QED  BY <1>3, <3>1 DEF SessionInv, FiresOK, FiresOnce
  <2> QED  BY <2>1, <2>2 DEF FiresOnce, Decided
<1>9. scene' + Cardinality(Unsettled') <= MaxIncidents /\ scene < MaxIncidents
  BY <1>2, <1>6, <1>7, SessionAssumption DEF SessionInv, FiresOK
<1> QED  BY <1>1, <1>2, <1>3, <1>8, <1>9 DEF FiresOK, Entries

\* The fires that are revealed join the queue, each once, without an answer.
LEMMA EnqueueKeepsFires ==
  ASSUME SessionInv, NEW F \in SUBSET Fires, \A f \in F : fate[f] = "latent",
         EnqueueFires(F), scene' = scene
  PROVE  FiresOK'
<1>1. PICK zones \in [1..Cardinality(F) -> F] :
        /\ \A m, n \in DOMAIN zones : m < n => zones[m] < zones[n]
        /\ approvals' = approvals \o
             [n \in DOMAIN zones |-> [fire |-> zones[n], answer |-> NoValue]]
  BY DEF EnqueueFires
<1> DEFINE new == [n \in DOMAIN zones |-> [fire |-> zones[n], answer |-> NoValue]]
           old == Len(approvals)
           add == Cardinality(F)
<1>2. IsFiniteSet(F) /\ add \in Nat /\ F \subseteq Nat
  BY SessionAssumption, FS_Subset, FS_CardinalityType
<1>3. approvals \in Seq(Entries) /\ old \in Nat /\ DOMAIN approvals = 1..old
  BY DEF SessionInv, FiresOK, Entries
<1>4. \A n \in 1..add : zones[n] \in F
  BY <1>1
<1>5. new \in Seq(Entries) /\ Len(new) = add
  <2>1. DOMAIN new = 1..add
    BY <1>1
  <2>2. \A n \in 1..add : new[n] \in Entries
    BY <1>1, <1>4 DEF Entries
  <2>3. new \in [1..add -> Entries]
    BY <2>1, <2>2
  <2>4. new \in Seq(Entries)
    BY <1>2, <2>3
  <2> HIDE DEF new
  <2> QED  BY <1>2, <2>1, <2>4
<1>6. \A n \in 1..add : new[n].fire = zones[n] /\ ~ Decided(new[n])
  BY <1>1 DEF Decided
<1>7. /\ approvals' \in Seq(Entries) /\ DOMAIN approvals' = 1..(old + add)
      /\ \A n \in 1..(old + add) :
           approvals'[n] = IF n <= old THEN approvals[n] ELSE new[n - old]
  <2> HIDE DEF new
  <2>1. approvals' \in Seq(Entries) /\ Len(approvals') = old + add
    BY <1>1, <1>3, <1>5, ConcatProperties DEF new
  <2>2. \A n \in 1..(old + add) :
           approvals'[n] = IF n <= old THEN approvals[n] ELSE new[n - old]
    BY <1>1, <1>3, <1>5, ConcatProperties DEF new
  <2> QED  BY <2>1, <2>2
<1> HIDE DEF new
<1>8. ASSUME NEW n \in 1..(old + add)
      PROVE  \/ /\ n \in 1..old /\ approvals'[n] = approvals[n]
                /\ approvals[n].fire \in Fires /\ fate[approvals[n].fire] = "awaiting"
             \/ /\ n > old /\ n - old \in 1..add
                /\ approvals'[n].fire = zones[n - old]
                /\ zones[n - old] \in F /\ ~ Decided(approvals'[n])
  <2>1. CASE n <= old
    <3>1. n \in 1..old /\ approvals'[n] = approvals[n]
      BY <1>3, <1>7, <2>1
    <3>2. approvals[n] \in Entries /\ approvals[n].fire \in Fires
      <4>1. approvals[n] \in Entries
        BY <1>3, <3>1
      <4> QED  BY <4>1 DEF Entries
    <3> QED  BY <1>3, <3>1, <3>2 DEF SessionInv, FiresOK, FiresOnce
  <2>2. CASE n > old
    <3>1. n - old \in 1..add /\ approvals'[n] = new[n - old]
      BY <1>2, <1>3, <1>7, <2>2
    <3> QED  BY <1>4, <1>6, <2>2, <3>1
  <2> QED  BY <1>2, <1>3, <2>1, <2>2
<1>9. ASSUME NEW f \in F
      PROVE  \E n \in 1..(old + add) : approvals'[n].fire = f
  <2>1. IsFiniteSet(1..add) /\ Cardinality(1..add) = add
    BY <1>2, FS_Interval
  <2>2. zones \in Injection(1..add, F)
    <3>1. ASSUME NEW m \in 1..add, NEW n \in 1..add, zones[m] = zones[n]
          PROVE  m = n
      <4>1. zones[m] \in Nat /\ zones[n] \in Nat
        BY <1>2, <1>4
      <4>2. ~ (zones[m] < zones[n]) /\ ~ (zones[n] < zones[m])
        BY <3>1, <4>1
      <4>3. DOMAIN zones = 1..add
        BY <1>1
      <4>4. ~ (m < n) /\ ~ (n < m)
        BY <1>1, <4>2, <4>3
      <4> QED  BY <4>4
    <3> QED  BY <1>1, <3>1 DEF Injection, IsInjective
  <2>3. zones \in Surjection(1..add, F)
    BY <1>2, <2>1, <2>2, FS_Injection
  <2>4. PICK n \in 1..add : zones[n] = f
    BY <2>3 DEF Surjection
  <2>5. old + n \in 1..(old + add) /\ ~ (old + n <= old) /\ (old + n) - old = n
    BY <1>2, <1>3
  <2>6. approvals'[old + n] = new[n]
    BY <1>7, <2>5
  <2> QED  BY <1>6, <2>4, <2>5, <2>6
<1>10. fate' = [f \in Fires |-> IF f \in F THEN "awaiting" ELSE fate[f]]
  BY DEF EnqueueFires
<1>11. FiresOnce'
  <2>1. ASSUME NEW f \in Fires
        PROVE  fate'[f] = "awaiting" <=> \E n \in DOMAIN approvals' : approvals'[n].fire = f
    <3>1. CASE f \in F
      BY <1>7, <1>9, <1>10, <3>1
    <3>2. CASE f \notin F
      <4>1. fate'[f] = fate[f]
        BY <1>10, <3>2
      <4>2. fate[f] = "awaiting" <=> \E n \in 1..old : approvals[n].fire = f
        BY <1>3 DEF SessionInv, FiresOK, FiresOnce
      <4>3. \A n \in 1..old : n \in 1..(old + add) /\ approvals'[n] = approvals[n]
        BY <1>2, <1>3, <1>7
      <4> QED  BY <1>7, <1>8, <3>2, <4>1, <4>2, <4>3
    <3> QED  BY <3>1, <3>2
  <2>2. ASSUME NEW m \in 1..(old + add), NEW n \in 1..(old + add), m < n
        PROVE  /\ approvals'[m].fire # approvals'[n].fire
               /\ Decided(approvals'[n]) => Decided(approvals'[m])
    <3>1. CASE n \in 1..old
      <4>1. m \in 1..old
        BY <1>3, <2>2, <3>1
      <4>2. approvals'[m] = approvals[m] /\ approvals'[n] = approvals[n]
        BY <1>3, <1>8, <3>1, <4>1
      <4> QED  BY <1>3, <2>2, <3>1, <4>1, <4>2, SMTT(30) DEF SessionInv, FiresOK, FiresOnce
    <3>2. CASE n > old
      <4>1. /\ approvals'[n].fire = zones[n - old] /\ n - old \in 1..add
            /\ zones[n - old] \in F /\ ~ Decided(approvals'[n])
        BY <1>3, <1>8, <3>2
      <4>2. CASE m \in 1..old
        <5>1. fate[approvals'[m].fire] = "awaiting"
          BY <1>3, <1>8, <4>2
        <5> QED  BY <4>1, <5>1
      <4>3. CASE m > old
        <5>1. approvals'[m].fire = zones[m - old] /\ m - old \in 1..add /\ zones[m - old] \in F
          BY <1>3, <1>8, <4>3
        <5>2. m - old < n - old /\ DOMAIN zones = 1..add
          BY <1>1, <1>3, <2>2
        <5>3. zones[m - old] < zones[n - old]
          BY <1>1, <4>1, <5>1, <5>2
        <5>4. zones[m - old] # zones[n - old]
          <6>1. zones[m - old] \in Nat /\ zones[n - old] \in Nat
            BY <1>2, <4>1, <5>1
          <6> QED  BY <5>3, <6>1
        <5> QED  BY <4>1, <5>1, <5>4
      <4> QED  BY <1>3, <4>2, <4>3
    <3> QED  BY <1>2, <1>3, <3>1, <3>2
  <2> QED  BY <1>7, <2>1, <2>2 DEF FiresOnce, Decided
<1>12. fate' \in [Fires -> Fates] /\ Unsettled' = Unsettled
  BY <1>10 DEF SessionInv, FiresOK, Unsettled, Fates
<1> QED  BY <1>7, <1>11, <1>12 DEF SessionInv, FiresOK, Entries

-----------------------------------------------------------------------------
(* The actions.                                                            *)

\* A turn that is taken when no clarification is pending and keeps room for
\* the fires that are not settled.
LEMMA TurnStep ==
  ASSUME SessionInv, CoreOK', WorkKept,
         directive' \in 0..Steps, team' \subseteq Fleet,
         pending' = NoValue, UNCHANGED <<approvals, fate, call>>,
         scene' + Cardinality(Unsettled) <= MaxIncidents
  PROVE  SessionInv'
<1>1. FiresOK'
  BY SameFires DEF SessionInv
<1> QED  BY <1>1 DEF SessionInv, WorkKept, PendingResumable

\* A new mission settles no fire.
LEMMA NewMissionStep ==
  ASSUME SessionInv, NewMission
  PROVE  SessionInv'
<1>1. CoreOK' /\ directive' \in 0..Steps /\ team' \subseteq Fleet /\ mission' # NoValue
  BY NewMissionKeepsCore
<1>2. UNCHANGED <<scene, pending, approvals, fate, call>> /\ pending = NoValue
  BY DEF NewMission, Asked
<1>3. FiresOK'
  BY <1>2, SameFires DEF SessionInv, FiresOK
<1> QED  BY <1>1, <1>2, <1>3 DEF SessionInv, PendingResumable

\* A new team for the tasks that have not started.
LEMMA UpdateResourcesStep ==
  ASSUME SessionInv, UpdateResources
  PROVE  SessionInv' /\ WorkKept
<1>1. CoreOK' /\ team' \subseteq Fleet
  BY UpdateResourcesKeepsCore
<1>2. /\ UNCHANGED <<scene, mission, directive, pending, approvals, fate, call>>
      /\ pending = NoValue
  BY DEF UpdateResources, Asked
<1>3. WorkKept
  BY <1>2 DEF WorkKept
<1> QED  BY <1>1, <1>2, <1>3, TurnStep DEF SessionInv, FiresOK

\* A report takes the room no fire needs.
LEMMA ReportStep ==
  ASSUME SessionInv, ReportIncident \/ ReportWithResources
  PROVE  SessionInv' /\ WorkKept
<1>1. /\ MayChange /\ RoomToReport /\ pending = NoValue
      /\ UNCHANGED <<directive, pending, approvals, fate, call>>
  BY DEF ReportIncident, ReportWithResources, Asked
<1>2. scene \in Nat /\ Cardinality(Unsettled) \in Nat /\ scene < MaxIncidents
      /\ scene + 1 + Cardinality(Unsettled) <= MaxIncidents
  BY <1>1, UnsettledFinite, SessionAssumption DEF SessionInv, CoreOK, RoomToReport
<1>3. /\ team' \in SUBSET Fleet
      /\ \E k \in 0..Steps, T \in SUBSET Fleet :
           (k > 0 => mission # NoValue) /\ RegisterIncident(k, T)
  <2>1. CASE ReportIncident
    <3>1. RunningTeam \in SUBSET Fleet
      BY DEF RunningTeam, SessionInv, CoreOK, Runtimes
    <3>2. PICK step \in 0..Steps :
            LET k == IF step > 0 THEN step ELSE directive IN
            (k > 0 => mission # NoValue) /\ RegisterIncident(k, RunningTeam)
      BY <2>1 DEF ReportIncident
    <3> DEFINE k == IF step > 0 THEN step ELSE directive
    <3>3. k \in 0..Steps /\ (k > 0 => mission # NoValue) /\ RegisterIncident(k, RunningTeam)
      BY <3>2 DEF SessionInv
    <3>4. team' = team
      BY <2>1 DEF ReportIncident
    <3> HIDE DEF k
    <3> QED  BY <3>1, <3>3, <3>4 DEF SessionInv
  <2>2. CASE ReportWithResources
    <3>1. PICK step \in 0..Steps :
            LET k == IF step > 0 THEN step ELSE directive
                G == mission.open \cup Chain(scene + 1, k)
            IN \E T \in Teams(G) \cup (IF phase = "PLANNING" THEN {Fleet} ELSE {}) :
                 /\ team' = T
                 /\ RegisterIncident(k, T)
      BY <2>2 DEF ReportWithResources
    <3> DEFINE k == IF step > 0 THEN step ELSE directive
               G == mission.open \cup Chain(scene + 1, k)
    <3>2. PICK T \in Teams(G) \cup (IF phase = "PLANNING" THEN {Fleet} ELSE {}) :
            team' = T /\ RegisterIncident(k, T)
      BY <3>1
    <3>3. T \in SUBSET Fleet
      BY DEF Teams
    <3>4. k \in 0..Steps /\ mission # NoValue
      BY <2>2 DEF SessionInv, ReportWithResources
    <3> HIDE DEF k
    <3> QED  BY <3>2, <3>3, <3>4
  <2> QED  BY <2>1, <2>2
<1>4. PICK k \in 0..Steps, T \in SUBSET Fleet :
        (k > 0 => mission # NoValue) /\ RegisterIncident(k, T)
  BY <1>3
<1>5. CoreOK' /\ scene' = scene + 1 /\ WorkKept
  BY <1>1, <1>2, <1>4, RegisterKeepsCore DEF SessionInv
<1> QED  BY <1>1, <1>2, <1>3, <1>5, TurnStep DEF SessionInv

\* The response to a known incident goes on, asked for or chosen.
LEMMA ExtendStep ==
  ASSUME SessionInv, MayChange, NEW i \in 1..scene, NEW k \in 1..Steps, Extend(i, k),
         pending' = NoValue
  PROVE  SessionInv' /\ WorkKept
<1>1. /\ mission # NoValue /\ ~ (Chain(i, k) \subseteq All(mission))
      /\ Adapt(Chain(i, k), scene, RunningTeam)
      /\ UNCHANGED <<directive, team, approvals, fate, call>>
  BY DEF Extend
<1>2. RunningTeam \in SUBSET Fleet
  BY DEF RunningTeam, SessionInv, CoreOK, Runtimes
<1>3. scene \in scene..MaxIncidents
  BY SessionAssumption DEF SessionInv, CoreOK
<1>4. CoreOK' /\ scene' = scene /\ WorkKept
  BY <1>1, <1>2, <1>3, AdaptKeepsCore DEF SessionInv
<1> QED  BY <1>1, <1>4, TurnStep DEF SessionInv, FiresOK

\* A step that leaves the mission and its runtime alone and asks nothing.
LEMMA QuietStep ==
  ASSUME SessionInv, UNCHANGED coreVars, UNCHANGED <<directive, team, approvals, fate>>,
         call' \in {"none", "decide", "advance"}, pending' \in {pending, NoValue}
  PROVE  SessionInv' /\ WorkKept
<1>1. CoreOK' /\ scene' = scene /\ mission' = mission
  BY SameCore DEF SessionInv, coreVars
<1>2. FiresOK'
  BY <1>1, SameFires DEF SessionInv, FiresOK
<1>3. PendingResumable'
  BY DEF SessionInv, coreVars, PendingResumable, MayChange, CompletedTerminal
<1> QED  BY <1>1, <1>2, <1>3 DEF SessionInv, WorkKept

\* The operator picks a candidate: the phase the update needs is still there.
LEMMA SelectStep ==
  ASSUME SessionInv, SelectCandidate
  PROVE  SessionInv' /\ WorkKept
<1>1. PICK i \in pending.candidates \cap (1..scene) :
        \/ pending.step > 0 /\ Extend(i, pending.step)
        \/ UNCHANGED <<phase, scene, mission, plan, execution, runtime,
                       directive, team, approvals, fate, call>>
  BY DEF SelectCandidate
<1>2. pending # NoValue /\ pending' = NoValue
  BY DEF SelectCandidate
<1>3. CASE pending.step > 0 /\ Extend(i, pending.step)
  <2>1. pending.step \in 1..Steps
    BY <1>2, <1>3, SessionAssumption DEF SessionInv
  <2>2. MayChange
    BY <1>2, <1>3 DEF SessionInv, PendingResumable
  <2> QED  BY <1>2, <1>3, <2>1, <2>2, ExtendStep
<1>4. CASE UNCHANGED <<phase, scene, mission, plan, execution, runtime,
                       directive, team, approvals, fate, call>>
  BY <1>2, <1>4, QuietStep DEF coreVars, SessionInv
<1> QED  BY <1>1, <1>3, <1>4

\* What is asked can be resumed.
LEMMA ClarifyStep ==
  ASSUME SessionInv, Clarify
  PROVE  SessionInv' /\ WorkKept
<1>1. PICK C \in SUBSET (1..scene), k \in 0..Steps :
        /\ Cardinality(C) >= 2
        /\ k > 0 => MayChange /\ mission # NoValue
        /\ pending' = [candidates |-> C, step |-> k]
  BY DEF Clarify
<1>2. UNCHANGED coreVars /\ UNCHANGED <<directive, team, approvals, fate, call>>
  BY DEF Clarify, coreVars
<1>3. CoreOK' /\ scene' = scene /\ mission' = mission
  BY <1>2, SameCore DEF SessionInv, coreVars
<1>4. FiresOK'
  BY <1>2, <1>3, SameFires DEF SessionInv, FiresOK
<1>5. pending' \in [candidates: SUBSET (1..MaxIncidents), step: 0..Steps]
  <2>1. C \in SUBSET (1..MaxIncidents)
    BY SessionAssumption DEF SessionInv, CoreOK
  <2> QED  BY <1>1, <2>1
<1>6. PendingResumable'
  BY <1>1, <1>2 DEF coreVars, PendingResumable, MayChange, CompletedTerminal
<1> QED  BY <1>2, <1>3, <1>4, <1>5, <1>6 DEF SessionInv, WorkKept

\* An answer is given; nothing is carried out yet.
LEMMA RecordStep ==
  ASSUME SessionInv, RecordDecision
  PROVE  SessionInv' /\ WorkKept
<1>1. FiresOK'
  BY RecordKeepsFires
<1>2. UNCHANGED coreVars /\ UNCHANGED <<directive, team, pending, call>> /\ approvals # <<>>
  BY DEF RecordDecision, coreVars, Undecided
<1>3. CoreOK' /\ mission' = mission
  BY <1>2, SameCore DEF SessionInv, coreVars
<1>4. PendingResumable'
  BY <1>2 DEF SessionInv, coreVars, PendingResumable, MayChange, CompletedTerminal
<1> QED  BY <1>1, <1>2, <1>3, <1>4 DEF SessionInv, WorkKept

\* An answer is carried out: a response may come while a question is open.
LEMMA DecisionStep ==
  ASSUME SessionInv, ApplyDecision
  PROVE  SessionInv' /\ WorkKept
<1>1. PICK outcome \in Fates \ {"latent", "awaiting"} :
        /\ Dequeue(outcome)
        /\ \/ UNCHANGED coreVars
           \/ /\ MayChange
              /\ \E k \in 1..Steps : RegisterIncident(k, RunningTeam)
  <2> DEFINE k == Head(approvals).answer
  <2>1. approvals # <<>> /\ Decided(Head(approvals))
    BY DEF ApplyDecision, HeadDecided
  <2>2. k \in 0..Steps
    <3>1. Head(approvals) \in Entries
      BY <2>1, HeadTailProperties DEF SessionInv, FiresOK, Entries
    <3> QED  BY <2>1, <3>1 DEF Entries, Decided
  <2>3. CASE k > 0 /\ MayRespond /\ RegisterIncident(k, RunningTeam) /\ Dequeue("COMMITTED")
    <3>1. k \in 1..Steps
      BY <2>2, <2>3, SessionAssumption
    <3> HIDE DEF k
    <3> QED  BY <2>3, <3>1 DEF Fates, MayRespond
  <2>4. CASE /\ Dequeue("DECLINED") \/ Dequeue("TURN_ERROR") \/ Dequeue("REJECTED")
             /\ UNCHANGED <<phase, scene, mission, plan, execution, runtime>>
    BY <2>4 DEF Fates, coreVars
  <2> QED  BY <2>3, <2>4 DEF ApplyDecision, Respond
<1>2. approvals # <<>> /\ mission # NoValue /\ UNCHANGED <<directive, team, pending>>
      /\ call' \in {"none", call}
  BY <1>1 DEF ApplyDecision, HeadDecided, Dequeue, SessionInv
<1>3. CASE UNCHANGED coreVars
  <2>1. CoreOK' /\ scene' = scene /\ mission' = mission
    BY <1>3, SameCore DEF SessionInv, coreVars
  <2>2. FiresOK'
    BY <1>1, <1>2, <2>1, DequeueKeepsFires
  <2>3. PendingResumable'
    BY <1>2, <1>3 DEF SessionInv, coreVars, PendingResumable, MayChange, CompletedTerminal
  <2> QED  BY <1>2, <2>1, <2>2, <2>3 DEF SessionInv, WorkKept
<1>4. CASE MayChange /\ \E k \in 1..Steps : RegisterIncident(k, RunningTeam)
  <2>1. PICK k \in 1..Steps : RegisterIncident(k, RunningTeam)
    BY <1>4
  <2>2. RunningTeam \in SUBSET Fleet /\ k \in 0..Steps /\ k > 0
    BY SessionAssumption DEF RunningTeam, SessionInv, CoreOK, Runtimes
  <2>3. scene' = scene + 1
    BY <2>1, <2>2 DEF RegisterIncident, Adapt
  <2>4. FiresOK' /\ scene < MaxIncidents
    BY <1>1, <1>2, <2>3, DequeueKeepsFires
  <2>5. CoreOK' /\ WorkKept /\ mission' # NoValue /\ MayChange'
    BY <1>2, <1>4, <2>1, <2>2, <2>4, RegisterKeepsCore DEF SessionInv
  <2>6. PendingResumable'
    <3>1. pending # NoValue => pending.candidates \subseteq 1..scene'
      BY <2>3, SessionAssumption DEF SessionInv, CoreOK, PendingResumable
    <3> QED  BY <1>2, <2>5, <3>1 DEF SessionInv, PendingResumable
  <2> QED  BY <1>2, <2>4, <2>5, <2>6 DEF SessionInv
<1> QED  BY <1>1, <1>3, <1>4

\* A run, in one go or up to a boundary, starts with no question open.
LEMMA RunStep ==
  ASSUME SessionInv, ExecuteSession \/ AdvanceStuck \/ AdvanceRaises
  PROVE  SessionInv' /\ WorkKept
<1>1. /\ pending = NoValue /\ UNCHANGED <<scene, directive, team, pending, approvals, fate>>
      /\ call' = "none"
  BY DEF ExecuteSession, RunReady, AdvanceStuck, AdvanceRaises, Boundary, AdvanceReady
<1>2. CoreOK' /\ mission' = mission
  BY ExecuteKeepsCore, FailureKeepsCore DEF ExecuteSession
<1>3. FiresOK'
  BY <1>1, SameFires DEF SessionInv, FiresOK
<1> QED  BY <1>1, <1>2, <1>3 DEF SessionInv, PendingResumable, WorkKept

\* An advance reveals fires that have not been seen.
LEMMA AdvanceStep ==
  ASSUME SessionInv, Advance
  PROVE  SessionInv' /\ WorkKept
<1>0. PICK S \in SUBSET Startable(Candidate) :
        \E E \in SUBSET (Candidate.work.running \cup S) : AdvanceTo(S, E)
  BY DEF Advance
<1>1. PICK E \in SUBSET (Candidate.work.running \cup S) : AdvanceTo(S, E)
  BY <1>0
<1>2. /\ AdvanceReady /\ pending = NoValue /\ call' = "none"
      /\ UNCHANGED <<scene, plan, directive, team, pending>>
  BY DEF Advance, Boundary, AdvanceReady
<1>3. CoreOK' /\ mission' # NoValue /\ WorkKept
  BY <1>1, <1>2, AdvanceKeepsCore
<1>4. UNCHANGED <<approvals, fate>> \/ EnqueueFires(Revealed(E))
  BY <1>1 DEF AdvanceTo
<1>5. FiresOK'
  <2>1. CASE UNCHANGED <<approvals, fate>>
    BY <1>2, <2>1, SameFires DEF SessionInv, FiresOK
  <2>2. CASE EnqueueFires(Revealed(E))
    <3>1. Revealed(E) \in SUBSET Fires /\ \A f \in Revealed(E) : fate[f] = "latent"
      BY DEF Revealed
    <3> QED  BY <1>2, <2>2, <3>1, EnqueueKeepsFires
  <2> QED  BY <1>4, <2>1, <2>2
<1> QED  BY <1>2, <1>3, <1>5 DEF SessionInv, PendingResumable

\* Only a new mission may drop work.
LEMMA Step ==
  ASSUME SessionInv, Next
  PROVE  SessionInv' /\ (WorkKept \/ NewMission)
<1>1. CASE UpdateMission
  <2>1. PICK i \in 1..scene, k \in 1..Steps : Extend(i, k)
    BY <1>1 DEF UpdateMission
  <2>2. MayChange /\ pending' = NoValue
    BY <1>1 DEF UpdateMission, Asked
  <2> QED  BY <2>1, <2>2, ExtendStep
<1>2. CASE CancelClarification \/ ApplyPendingDecisions \/ BeginAdvance \/ AdvanceRefused
  <2>1. /\ UNCHANGED coreVars /\ UNCHANGED <<directive, team, approvals, fate>>
        /\ call' \in {"none", "decide", "advance"} /\ pending' \in {pending, NoValue}
    BY <1>2
    DEF CancelClarification, ApplyPendingDecisions, BeginAdvance, AdvanceRefused, coreVars
  <2> QED  BY <2>1, QuietStep
<1> QED
  BY <1>1, <1>2, NewMissionStep, UpdateResourcesStep, ReportStep, ClarifyStep, SelectStep,
     RecordStep, DecisionStep, RunStep, AdvanceStep DEF Next

\* A session starts with nothing planned, run, asked or seen.
LEMMA InitOK ==
  Init => SessionInv
<1> SUFFICES ASSUME Init PROVE SessionInv
  OBVIOUS
<1>1. Unsettled = Fires
  BY DEF Init, Unsettled
<1>2. /\ Cardinality(Fires) \in Nat /\ scene \in Nat
      /\ scene + Cardinality(Fires) <= MaxIncidents
  BY SessionAssumption, FS_CardinalityType DEF Init
<1>3. CoreOK
  BY <1>2, SessionAssumption
  DEF Init, CoreOK, Phases, RuntimeIsSession, PhaseTable, ResponsesKnown, PlanCovers
<1>4. FiresOK
  BY <1>1, <1>2 DEF Init, FiresOK, FiresOnce, Fates
<1> QED  BY <1>3, <1>4, SessionAssumption DEF Init, SessionInv, PendingResumable

\* The invariant holds of every state of a session.
THEOREM SessionInvariant == Spec => []SessionInv
<1>1. SessionInv /\ UNCHANGED sessionVars => SessionInv'
  BY QuietStep DEF sessionVars, coreVars, SessionInv
<1>2. SessionInv /\ [Next]_sessionVars => SessionInv'
  BY <1>1, Step
<1> QED  BY <1>2, InitOK, PTL DEF Spec

-----------------------------------------------------------------------------
(* The properties of the runs, for all values of the constants.            *)

\* Every variable has its type (the state of session.py and the console's
\* approvals).
THEOREM SessionTypes == Spec => []TypeOK
<1>1. SessionInv => TypeOK
  BY DEF SessionInv, CoreOK, FiresOK, TypeOK
<1> QED  BY <1>1, SessionInvariant, PTL

\* The mission and the scene of the session are those of the preserved
\* runtime, whatever published it last.
THEOREM MissionOfRuntime == Spec => []RuntimeIsSession
<1>1. SessionInv => RuntimeIsSession
  BY DEF SessionInv, CoreOK
<1> QED  BY <1>1, SessionInvariant, PTL

\* Every phase has the runtime, the mission and the result that fit it.
THEOREM PhasesFit == Spec => []PhaseTable
<1>1. SessionInv => PhaseTable
  BY DEF SessionInv, CoreOK
<1> QED  BY <1>1, SessionInvariant, PTL

\* Responses are for known incidents and are begun in workflow order.
THEOREM ResponsesInOrder == Spec => []ResponsesKnown
<1>1. SessionInv => ResponsesKnown
  BY DEF SessionInv, CoreOK
<1> QED  BY <1>1, SessionInvariant, PTL

\* The plan shown before an online run covers the mission.
THEOREM PlanIsCurrent == Spec => []PlanCovers
<1>1. SessionInv => PlanCovers
  BY DEF SessionInv, CoreOK, PhaseTable
<1> QED  BY <1>1, SessionInvariant, PTL

\* A sensed fire waits exactly once, and the answers are given in order.
THEOREM FiresWaitOnce == Spec => []FiresOnce
<1>1. SessionInv => FiresOnce
  BY DEF SessionInv, FiresOK
<1> QED  BY <1>1, SessionInvariant, PTL

\* A clarification that is pending can be resumed.
THEOREM ClarificationsResume == Spec => []PendingResumable
<1>1. SessionInv => PendingResumable
  BY DEF SessionInv
<1> QED  BY <1>1, SessionInvariant, PTL

\* Patches, responses, advances and failures keep the work of a mission.
THEOREM CommitmentsSurvive == Spec => CommitmentsKept
<1> DEFINE Kept == mission # NoValue /\ ~ NewMission =>
       /\ mission' # NoValue
       /\ All(mission) \subseteq All(mission')
       /\ mission.done \subseteq mission'.done
       /\ mission.running \subseteq mission'.running \cup mission'.done
<1>1. SessionInv /\ [Next]_sessionVars => [Kept]_sessionVars
  BY Step DEF WorkKept
<1>2. Spec => [][Kept]_sessionVars
  BY <1>1, SessionInvariant, PTL DEF Spec
<1> QED  BY <1>2 DEF CommitmentsKept

\* A run that gave up stays as it ended.
THEOREM FailureIsFinal == Spec => TerminalIsFinal
<1> DEFINE Final == phase = "EXECUTION_FAILED" /\ runtime # NoValue /\ execution # NoValue =>
              UNCHANGED <<phase, scene, mission, execution, runtime>>
<1>1. SessionInv /\ [Next]_sessionVars => [Final]_sessionVars
  <2> SUFFICES ASSUME SessionInv, Next, phase = "EXECUTION_FAILED",
                      runtime # NoValue, execution # NoValue
               PROVE  UNCHANGED <<phase, scene, mission, execution, runtime>>
    OBVIOUS
  <2>1. mission # NoValue /\ ~ MayChange /\ ~ AdvanceReady /\ ~ RunReady
    BY DEF SessionInv, CoreOK, PhaseTable, MayChange, CompletedTerminal, AdvanceReady, RunReady
  <2>2. pending # NoValue => ~ (pending.step > 0)
    BY <2>1 DEF SessionInv, PendingResumable
  <2>3. CASE SelectCandidate
    BY <2>2, <2>3 DEF SelectCandidate
  <2>4. CASE ApplyDecision
    BY <2>1, <2>4 DEF ApplyDecision, Respond, MayRespond
  <2> QED
    BY <2>1, <2>3, <2>4 DEF Next, NewMission, UpdateResources, ReportIncident,
       ReportWithResources, UpdateMission, Clarify, CancelClarification, RecordDecision,
       ApplyPendingDecisions, ExecuteSession, BeginAdvance, Advance, AdvanceStuck,
       AdvanceRaises, AdvanceRefused, Boundary
<1>2. Spec => [][Final]_sessionVars
  BY <1>1, SessionInvariant, PTL DEF Spec
<1> QED  BY <1>2 DEF TerminalIsFinal

-----------------------------------------------------------------------------
(* The mission of a session is run from checkpoint to checkpoint.          *)

\* The stages of work.
LEMMA StageOfWork ==
  ASSUME NEW w \in Works, NEW t \in Tasks
  PROVE  /\ StageOf(w)[t] \in Run!Stages
         /\ StageOf(w)[t] = "open" <=> t \in w.open
         /\ StageOf(w)[t] = "running" <=> t \in w.running
         /\ StageOf(w)[t] = "done" <=> t \in w.done
         /\ StageOf(w)[t] = "outside" <=> t \notin All(w)
<1>1. StageOf(w)[t] = CASE t \in w.open    -> "open"
                        [] t \in w.running -> "running"
                        [] t \in w.done    -> "done"
                        [] OTHER           -> "outside"
  BY DEF StageOf
<1>2. w.open \cap w.running = {} /\ w.open \cap w.done = {} /\ w.running \cap w.done = {}
  BY DEF Works
<1> QED
  BY <1>1, <1>2 DEF Run!Stages, All

\* Work is over when it is finished, and its members are its tasks.
LEMMA StageOfAll ==
  ASSUME NEW w \in Works
  PROVE  /\ StageOf(w) \in [Tasks -> Run!Stages]
         /\ Run!Members(StageOf(w)) = All(w)
         /\ Run!Over(StageOf(w)) <=> Finished(w)
<1>1. w.open \subseteq Tasks /\ w.running \subseteq Tasks /\ All(w) \subseteq Tasks
  BY DEF Works, All
<1>2. StageOf(w) = [t \in Tasks |-> StageOf(w)[t]]
  BY DEF StageOf
<1>3. StageOf(w) \in [Tasks -> Run!Stages]
  BY <1>2, StageOfWork
<1>4. Run!Members(StageOf(w)) = All(w)
  BY <1>1, StageOfWork DEF Run!Members
<1>5. Run!Over(StageOf(w)) <=> Finished(w)
  BY <1>1, StageOfWork DEF Run!Over, Finished
<1> QED
  BY <1>3, <1>4, <1>5

\* A mission that contains the steps before each of its steps is closed.
LEMMA MissionClosed ==
  ASSUME NEW w \in Works,
         \A t \in {u \in All(w) : u[2] > 0} : Chain(t[1], t[2]) \subseteq All(w)
  PROVE  Run!Closed(All(w))
<1> SUFFICES ASSUME NEW t \in All(w), NEW p \in StepBefore[t]
             PROVE  p \in All(w)
  BY DEF Run!Closed
<1>1. t \in Tasks
  BY DEF Works, All
<1>2. t[2] > 1 /\ p = <<t[1], t[2] - 1>>
  BY <1>1 DEF StepBefore
<1>3. t[2] \in 0..Steps
  BY <1>1, TaskNumbers
<1>4. t[2] > 0 /\ p \in Chain(t[1], t[2])
  BY <1>2, <1>3, SessionAssumption DEF Chain
<1> QED
  BY <1>4

\* The executor's startable tasks are those of the run.
LEMMA StartableIs ==
  ASSUME CoreOK, mission # NoValue, NEW r \in Runtimes, r.work = mission
  PROVE  Run!Startable(StageOf(mission), r.team) = Startable(r)
<1>1. mission \in Works /\ mission.open \subseteq Tasks
  BY DEF CoreOK, Works
<1>2. ASSUME NEW t \in mission.open
      PROVE  (\A p \in StepBefore[t] : StageOf(mission)[p] = "done")
               <=> (t[2] > 1 => <<t[1], t[2] - 1>> \in mission.done)
  <2>1. t \in Tasks /\ t \in All(mission)
    BY <1>1 DEF All
  <2>2. CASE ~ (t[2] > 1)
    BY <2>1, <2>2 DEF StepBefore
  <2>3. CASE t[2] > 1
    <3> DEFINE p == <<t[1], t[2] - 1>>
    <3>1. StepBefore[t] = {p}
      BY <2>1, <2>3 DEF StepBefore
    <3>2. p \in All(mission)
      <4>1. Run!Closed(All(mission))
        BY <1>1, MissionClosed DEF CoreOK, ResponsesKnown
      <4> QED
        BY <2>1, <3>1, <4>1 DEF Run!Closed
    <3>3. p \in Tasks
      BY <1>1, <3>2 DEF Works, All
    <3> HIDE DEF p
    <3>4. StageOf(mission)[p] = "done" <=> p \in mission.done
      BY <1>1, <3>3, StageOfWork
    <3> QED
      BY <2>3, <3>1, <3>4 DEF p
  <2> QED
    BY <2>2, <2>3
<1>3. ASSUME NEW t \in Tasks
      PROVE  AbleFor[t] \cap r.team # {} <=> Doable(r.team, t)
  BY DEF AbleFor, Doable
<1>4. ASSUME NEW t \in Tasks
      PROVE  StageOf(mission)[t] = "open" <=> t \in mission.open
  BY <1>1, StageOfWork
<1>5. Startable(r) = {t \in {u \in mission.open : u[2] > 1 => <<u[1], u[2] - 1>> \in mission.done} :
                        Doable(r.team, t)}
  BY DEF Startable, Ready
<1> QED
  BY <1>1, <1>2, <1>3, <1>4, <1>5 DEF Run!Startable

\* A team that a request resolves to can do what the mission leaves to do.
LEMMA TeamServes ==
  ASSUME NEW w \in Works, NEW G, w.open \subseteq G, NEW T \in Teams(G)
  PROVE  Run!Serves(T, StageOf(w))
<1> SUFFICES ASSUME NEW t \in Tasks, StageOf(w)[t] = "open"
             PROVE  AbleFor[t] \cap T # {}
  BY DEF Run!Serves
<1>1. t \in G
  BY StageOfWork
<1>2. Doable(T, t)
  BY <1>1 DEF Teams
<1> QED
  BY <1>2 DEF Doable, AbleFor

\* What the session shows while it preserves a runtime.
LEMMA RunShown ==
  ASSUME CoreOK
  PROVE  /\ runtime = NoValue => RunOutcome = "none"
         /\ runtime # NoValue =>
              /\ RunStage = StageOf(mission) /\ RunningTeam = runtime.team
              /\ mission \in Works /\ mission # NoValue
              /\ phase = "EXECUTION_PAUSED" => RunOutcome = "running"
              /\ phase = "EXECUTED" => RunOutcome = "completed"
              /\ phase = "EXECUTION_FAILED" =>
                   RunOutcome = IF execution = "DEADLOCK" THEN "deadlocked" ELSE "raised"
<1>1. runtime # NoValue => mission = runtime.work /\ runtime \in Runtimes
  BY DEF CoreOK, RuntimeIsSession
<1>2. runtime # NoValue => mission \in Works /\ mission # NoValue
  BY <1>1, NoValueAssumption DEF Runtimes
<1>3. runtime # NoValue => RunStage = StageOf(mission) /\ RunningTeam = runtime.team
  BY <1>1 DEF RunStage, RunningTeam
<1>4. runtime = NoValue => RunOutcome = "none"
  BY DEF RunOutcome
<1>5. runtime # NoValue /\ phase = "EXECUTION_PAUSED" => RunOutcome = "running"
  BY DEF RunOutcome
<1>6. runtime # NoValue /\ phase = "EXECUTED" => RunOutcome = "completed"
  BY DEF RunOutcome
<1>7. runtime # NoValue /\ phase = "EXECUTION_FAILED" =>
        RunOutcome = IF execution = "DEADLOCK" THEN "deadlocked" ELSE "raised"
  BY DEF RunOutcome
<1> QED
  BY <1>2, <1>3, <1>4, <1>5, <1>6, <1>7

\* And after a step that has left it one.
LEMMA RunShownNext ==
  ASSUME CoreOK', runtime' # NoValue
  PROVE  /\ RunStage' = StageOf(mission') /\ RunningTeam' = runtime'.team
         /\ phase' = "EXECUTION_PAUSED" => RunOutcome' = "running"
         /\ phase' = "EXECUTED" => RunOutcome' = "completed"
         /\ phase' = "EXECUTION_FAILED" =>
              RunOutcome' = IF execution' = "DEADLOCK" THEN "deadlocked" ELSE "raised"
         /\ mission' \in Works /\ runtime'.team \in SUBSET Fleet
<1>1. mission' = runtime'.work /\ runtime' \in Runtimes
  BY DEF CoreOK, RuntimeIsSession
<1>2. mission' \in Works /\ runtime'.team \in SUBSET Fleet
  BY <1>1 DEF Runtimes
<1>3. RunStage' = StageOf(mission') /\ RunningTeam' = runtime'.team
  BY <1>1 DEF RunStage, RunningTeam, StageOf
<1>4. phase' = "EXECUTION_PAUSED" => RunOutcome' = "running"
  BY DEF RunOutcome
<1>5. phase' = "EXECUTED" => RunOutcome' = "completed"
  BY DEF RunOutcome
<1>6. phase' = "EXECUTION_FAILED" =>
        RunOutcome' = IF execution' = "DEADLOCK" THEN "deadlocked" ELSE "raised"
  BY DEF RunOutcome
<1> QED
  BY <1>2, <1>3, <1>4, <1>5, <1>6

\* Nothing shows of a step that leaves the runtime and the results alone.
LEMMA RunUnseen ==
  ASSUME UNCHANGED <<runtime, phase, execution>> \/ (runtime = NoValue /\ runtime' = NoValue)
  PROVE  UNCHANGED Run!runVars
BY DEF Run!runVars, RunStage, RunOutcome, RunningTeam

\* Responses make the mission of a runtime grow.
LEMMA AdaptSimulates ==
  ASSUME CoreOK, CoreOK', MayChange, mission # NoValue,
         NEW s, NEW G \in SUBSET Tasks, ~ (G \subseteq All(mission)), NEW T \in SUBSET Fleet,
         phase # "PLANNING" => T = RunningTeam \/ T \in Teams(mission.open \cup G),
         Adapt(G, s, T)
  PROVE  UNCHANGED Run!runVars \/ \E new \in SUBSET Tasks : Run!Extend(new)
<1>1. phase \in {"PLANNING", "EXECUTION_PAUSED", "EXECUTED"} /\ (phase = "PLANNING" <=> runtime = NoValue)
  BY ChangePhases
<1>2. CASE phase = "PLANNING"
  <2>1. UNCHANGED <<runtime, phase, execution>>
    BY <1>2 DEF Adapt
  <2> QED
    BY <2>1, RunUnseen
<1>3. CASE phase # "PLANNING"
  <2> DEFINE w == Extended(mission, G)
             new == G \ All(mission)
  <2>1. mission \in Works
    BY DEF CoreOK
  <2>2. /\ w \in Works /\ All(w) = All(mission) \cup G
        /\ w.open = mission.open \cup new
        /\ w.running = mission.running /\ w.done = mission.done
    BY <2>1, ExtendedWork
  <2>3. /\ mission' = w /\ runtime' = [work |-> w, team |-> T, scene |-> s]
        /\ phase' = "EXECUTION_PAUSED"
    BY <1>1, <1>3 DEF Adapt
  <2>4. runtime' # NoValue
    BY <2>3 DEF CoreOK, PhaseTable
  <2>5. runtime'.team = T
    BY <2>3
  <2> HIDE DEF w, new
  <2>6. RunStage' = StageOf(w) /\ RunningTeam' = T /\ RunOutcome' = "running"
    BY <2>3, <2>4, <2>5, RunShownNext
  <2>7. RunStage = StageOf(mission) /\ RunOutcome \in {"running", "completed"}
    BY <1>1, <1>3, RunShown
  <2>8. new \subseteq Tasks /\ new # {} /\ new \cap All(mission) = {}
    BY DEF new
  <2>9. ASSUME NEW t \in Tasks
        PROVE  StageOf(w)[t] = IF t \in new THEN "open" ELSE StageOf(mission)[t]
    <3>1. t \in new => t \in w.open
      BY <2>2
    <3>2. t \notin new => /\ t \in w.open <=> t \in mission.open
                          /\ t \in w.running <=> t \in mission.running
                          /\ t \in w.done <=> t \in mission.done
      BY <2>2
    <3>3. StageOf(w)[t] \in {"open", "running", "done", "outside"}
      BY <2>2, StageOfWork DEF Run!Stages
    <3>4. StageOf(mission)[t] \in {"open", "running", "done", "outside"}
      BY <2>1, StageOfWork DEF Run!Stages
    <3> QED
      BY <2>1, <2>2, <3>1, <3>2, <3>3, <3>4, StageOfWork
  <2>10. RunStage' = [t \in Tasks |-> IF t \in new THEN "open" ELSE RunStage[t]]
    <3>1. StageOf(w) = [t \in Tasks |-> StageOf(w)[t]]
      BY DEF StageOf
    <3> QED
      BY <2>6, <2>7, <2>9, <3>1
  <2>11. Run!Members(RunStage) = All(mission)
    BY <2>1, <2>7, StageOfAll
  <2>12. All(mission) \cup new = All(w)
    BY <2>2 DEF new
  <2>13. Run!Closed(All(mission) \cup new)
    <3>1. mission' # NoValue
      BY <2>1, <2>3, ExtendedWork DEF w
    <3>2. \A t \in {u \in All(w) : u[2] > 0} : Chain(t[1], t[2]) \subseteq All(w)
      BY <2>3, <3>1 DEF CoreOK, ResponsesKnown
    <3> QED
      BY <2>2, <2>12, <3>2, MissionClosed
  <2>14. RunningTeam' = RunningTeam \/ (RunningTeam' \in SUBSET Fleet /\ Run!Serves(RunningTeam', RunStage'))
    <3>1. CASE T \in Teams(mission.open \cup G)
      <4>1. w.open \subseteq mission.open \cup G
        BY <2>2 DEF new
      <4>2. Run!Serves(T, StageOf(w))
        BY <2>2, <3>1, <4>1, TeamServes
      <4> QED
        BY <2>6, <4>2
    <3> QED
      BY <1>3, <2>6, <3>1
  <2>15. Run!Extend(new)
    BY <2>6, <2>7, <2>8, <2>10, <2>11, <2>13, <2>14 DEF Run!Extend
  <2> QED
    BY <2>8, <2>15
<1> QED
  BY <1>2, <1>3

\* An incident without a response is not seen in the mission.
LEMMA RegisterSimulates ==
  ASSUME CoreOK, CoreOK', MayChange, scene < MaxIncidents,
         NEW k \in 0..Steps, NEW T \in SUBSET Fleet, k > 0 => mission # NoValue,
         phase # "PLANNING" =>
           T = RunningTeam \/ T \in Teams(mission.open \cup Chain(scene + 1, k)),
         RegisterIncident(k, T)
  PROVE  UNCHANGED Run!runVars \/ \E new \in SUBSET Tasks : Run!Extend(new)
<1>1. CASE k > 0
  <2>1. k \in 1..Steps /\ mission # NoValue /\ scene + 1 \in 1..MaxIncidents
    BY <1>1, SessionAssumption DEF CoreOK
  <2>2. Adapt(Chain(scene + 1, k), scene + 1, T)
    BY <1>1 DEF RegisterIncident
  <2>3. ~ (Chain(scene + 1, k) \subseteq All(mission)) /\ Chain(scene + 1, k) \subseteq Tasks
    BY <2>1, NextIsNew, ChainType
  <2> DEFINE G == Chain(scene + 1, k)
  <2>4. G \in SUBSET Tasks /\ ~ (G \subseteq All(mission)) /\ Adapt(G, scene + 1, T)
    BY <2>2, <2>3
  <2>5. phase # "PLANNING" => T = RunningTeam \/ T \in Teams(mission.open \cup G)
    OBVIOUS
  <2> HIDE DEF G
  <2> QED
    BY <2>1, <2>4, <2>5, AdaptSimulates
<1>2. CASE ~ (k > 0)
  <2>1. /\ UNCHANGED <<phase, mission, plan, execution>> /\ scene' = scene + 1
        /\ runtime' = IF phase \in {"EXECUTION_PAUSED", "EXECUTED"}
                        THEN [runtime EXCEPT !.scene = scene'] ELSE runtime
    BY <1>2 DEF RegisterIncident
  <2>2. phase \in {"PLANNING", "EXECUTION_PAUSED", "EXECUTED"} /\ (phase = "PLANNING" <=> runtime = NoValue)
    BY ChangePhases
  <2>3. CASE phase = "PLANNING"
    BY <2>1, <2>3, RunUnseen
  <2>4. CASE phase \in {"EXECUTION_PAUSED", "EXECUTED"}
    <3>1. runtime \in Runtimes /\ runtime # NoValue
      BY <2>2, <2>4 DEF CoreOK
    <3>2. scene' \in 0..MaxIncidents
      BY DEF CoreOK
    <3>3. runtime' \in Runtimes /\ runtime' # NoValue /\ runtime'.team = runtime.team
      BY <2>1, <2>4, <3>1, <3>2, NoValueAssumption DEF Runtimes
    <3>4. /\ RunStage = StageOf(mission) /\ RunningTeam = runtime.team
          /\ phase = "EXECUTION_PAUSED" => RunOutcome = "running"
          /\ phase = "EXECUTED" => RunOutcome = "completed"
      BY <3>1, RunShown
    <3>5. /\ RunStage' = StageOf(mission) /\ RunningTeam' = runtime'.team
          /\ phase = "EXECUTION_PAUSED" => RunOutcome' = "running"
          /\ phase = "EXECUTED" => RunOutcome' = "completed"
      BY <2>1, <3>3, RunShownNext
    <3> QED
      BY <2>4, <3>3, <3>4, <3>5 DEF Run!runVars
  <2> QED
    BY <2>2, <2>3, <2>4
<1> QED
  BY <1>1, <1>2

\* So does the response to a known incident.
LEMMA ExtendSimulates ==
  ASSUME SessionInv, CoreOK', MayChange, NEW i \in 1..scene, NEW k \in 1..Steps, Extend(i, k)
  PROVE  UNCHANGED Run!runVars \/ \E new \in SUBSET Tasks : Run!Extend(new)
<1> DEFINE G == Chain(i, k)
<1>1. mission # NoValue /\ ~ (G \subseteq All(mission)) /\ Adapt(G, scene, RunningTeam)
  BY DEF Extend
<1>2. RunningTeam \in SUBSET Fleet
  BY DEF RunningTeam, SessionInv, CoreOK, Runtimes
<1>3. i \in 1..MaxIncidents /\ k \in 0..Steps
  BY SessionAssumption DEF SessionInv, CoreOK
<1>4. G \in SUBSET Tasks
  BY <1>3, ChainType
<1> HIDE DEF G
<1> QED
  BY <1>1, <1>2, <1>4, AdaptSimulates DEF SessionInv

\* So do a report, and the team it may bring.
LEMMA ReportSimulates ==
  ASSUME SessionInv, CoreOK', ReportIncident \/ ReportWithResources
  PROVE  UNCHANGED Run!runVars \/ \E new \in SUBSET Tasks : Run!Extend(new)
<1>1. MayChange /\ RoomToReport
  BY DEF ReportIncident, ReportWithResources
<1>2. scene < MaxIncidents
  BY <1>1, UnsettledFinite, SessionAssumption DEF SessionInv, CoreOK, RoomToReport
<1>3. \E k \in 0..Steps, T \in SUBSET Fleet :
        /\ k > 0 => mission # NoValue
        /\ phase # "PLANNING" =>
             T = RunningTeam \/ T \in Teams(mission.open \cup Chain(scene + 1, k))
        /\ RegisterIncident(k, T)
  <2>1. CASE ReportIncident
    <3>1. RunningTeam \in SUBSET Fleet
      BY DEF RunningTeam, SessionInv, CoreOK, Runtimes
    <3>2. PICK step \in 0..Steps :
            LET k == IF step > 0 THEN step ELSE directive IN
            (k > 0 => mission # NoValue) /\ RegisterIncident(k, RunningTeam)
      BY <2>1 DEF ReportIncident
    <3> DEFINE k == IF step > 0 THEN step ELSE directive
    <3>3. k \in 0..Steps /\ (k > 0 => mission # NoValue) /\ RegisterIncident(k, RunningTeam)
      BY <3>2 DEF SessionInv
    <3> HIDE DEF k
    <3> QED
      BY <3>1, <3>3
  <2>2. CASE ReportWithResources
    <3>1. PICK step \in 0..Steps :
            LET k == IF step > 0 THEN step ELSE directive
                G == mission.open \cup Chain(scene + 1, k)
            IN \E T \in Teams(G) \cup (IF phase = "PLANNING" THEN {Fleet} ELSE {}) :
                 /\ team' = T
                 /\ RegisterIncident(k, T)
      BY <2>2 DEF ReportWithResources
    <3> DEFINE k == IF step > 0 THEN step ELSE directive
               G == mission.open \cup Chain(scene + 1, k)
    <3>2. PICK T \in Teams(G) \cup (IF phase = "PLANNING" THEN {Fleet} ELSE {}) :
            RegisterIncident(k, T)
      BY <3>1
    <3>3. T \in SUBSET Fleet
      BY DEF Teams
    <3>4. k \in 0..Steps /\ mission # NoValue
      BY <2>2 DEF SessionInv, ReportWithResources
    <3>5. phase # "PLANNING" => T \in Teams(G)
      OBVIOUS
    <3> HIDE DEF k
    <3> QED
      BY <3>2, <3>3, <3>4, <3>5
  <2> QED
    BY <2>1, <2>2
<1>4. PICK k \in 0..Steps, T \in SUBSET Fleet :
        /\ k > 0 => mission # NoValue
        /\ phase # "PLANNING" =>
             T = RunningTeam \/ T \in Teams(mission.open \cup Chain(scene + 1, k))
        /\ RegisterIncident(k, T)
  BY <1>3
<1> QED
  BY <1>1, <1>2, <1>4, RegisterSimulates DEF SessionInv

\* So does an answer about a fire.
LEMMA DecisionSimulates ==
  ASSUME SessionInv, CoreOK', ApplyDecision
  PROVE  UNCHANGED Run!runVars \/ \E new \in SUBSET Tasks : Run!Extend(new)
<1> DEFINE k == Head(approvals).answer
<1>1. approvals # <<>> /\ Decided(Head(approvals)) /\ mission # NoValue
  BY DEF ApplyDecision, HeadDecided, SessionInv
<1>2. k \in 0..Steps
  <2>1. Head(approvals) \in Entries
    BY <1>1, HeadTailProperties DEF SessionInv, FiresOK, Entries
  <2> QED
    BY <1>1, <2>1 DEF Entries, Decided
<1>3. CASE UNCHANGED <<phase, scene, mission, plan, execution, runtime>>
  BY <1>3, RunUnseen
<1>4. CASE k > 0 /\ MayRespond /\ RegisterIncident(k, RunningTeam) /\ Dequeue("COMMITTED")
  <2>1. k \in 1..Steps
    BY <1>2, <1>4, SessionAssumption
  <2> HIDE DEF k
  <2>2. RunningTeam \in SUBSET Fleet /\ k \in 0..Steps /\ k > 0
    BY <1>2, <1>4 DEF RunningTeam, SessionInv, CoreOK, Runtimes
  <2>3. scene' = scene + 1
    BY <1>4, <2>2 DEF RegisterIncident, Adapt
  <2>4. scene < MaxIncidents
    BY <2>3, SessionAssumption DEF SessionInv, CoreOK
  <2> QED
    BY <1>1, <1>4, <2>2, <2>4, RegisterSimulates DEF SessionInv, MayRespond
<1> QED
  BY <1>3, <1>4 DEF ApplyDecision, Respond

\* A fresh mission is open throughout.
LEMMA FreshStages ==
  ASSUME NEW G \in SUBSET Tasks
  PROVE  StageOf(Fresh(G)) = Run!Fresh(G)
BY DEF StageOf, Fresh, Run!Fresh

\* A new mission takes the place of the one that was run.
LEMMA NewMissionSimulates ==
  ASSUME SessionInv, CoreOK', NewMission
  PROVE  Run!Restart \/ UNCHANGED Run!runVars
<1>1. PICK Z \in SUBSET Zones, reach \in [1..scene -> 0..Steps] :
        LET G == (Z \X {0}) \cup UNION {Chain(i, reach[i]) : i \in 1..scene} IN
        /\ G # {}
        /\ mission' = Fresh(G) /\ plan' = G
        /\ team' \in Teams(G) \cup {Fleet}
        /\ IF runtime = NoValue
             THEN UNCHANGED <<phase, execution, runtime>>
             ELSE /\ runtime' = [work |-> Fresh(G), team |-> team', scene |-> scene]
                  /\ execution' = NoValue
                  /\ phase' = "EXECUTION_PAUSED"
  BY DEF NewMission
<1> DEFINE G == (Z \X {0}) \cup UNION {Chain(i, reach[i]) : i \in 1..scene}
<1>2. CASE runtime = NoValue
  BY <1>1, <1>2, RunUnseen
<1>3. CASE runtime # NoValue
  <2>1. /\ G # {} /\ mission' = Fresh(G) /\ phase' = "EXECUTION_PAUSED"
        /\ plan' = G
    BY <1>1, <1>3
  <2>2. G \in SUBSET Tasks
    <3>1. plan' \in (SUBSET Tasks) \cup {NoValue}
      BY DEF CoreOK
    <3>2. plan' # NoValue
      <4>1. \A i \in 1..scene : i \in 1..MaxIncidents /\ reach[i] \in 0..Steps
        BY SessionAssumption DEF SessionInv, CoreOK
      <4>2. \A i \in 1..scene : Chain(i, reach[i]) \subseteq Tasks
        BY <4>1, ChainType
      <4>3. Z \X {0} \subseteq Tasks
        BY DEF Tasks
      <4> QED
        BY <2>1, <4>2, <4>3, NoValueAssumption
    <3> QED
      BY <2>1, <3>1, <3>2
  <2> HIDE DEF G
  <2>3. Fresh(G) \in Works /\ Fresh(G) # NoValue /\ All(Fresh(G)) = G
    BY <2>2, FreshWork
  <2>4. runtime' # NoValue
    BY <2>1 DEF CoreOK, PhaseTable
  <2>5. Run!Closed(G)
    <3>1. \A t \in {u \in All(Fresh(G)) : u[2] > 0} : Chain(t[1], t[2]) \subseteq All(Fresh(G))
      BY <2>1, <2>3 DEF CoreOK, ResponsesKnown
    <3> QED
      BY <2>3, <3>1, MissionClosed
  <2>6. RunStage' = Run!Fresh(G) /\ RunningTeam' \in SUBSET Fleet /\ RunOutcome' = "running"
    BY <2>1, <2>2, <2>4, RunShownNext, FreshStages
  <2>7. RunOutcome \in {"running", "completed"}
    <3>1. mission # NoValue
      BY <1>3, RunShown DEF SessionInv
    <3>2. phase \in {"EXECUTION_PAUSED", "EXECUTED"}
      BY <3>1 DEF NewMission
    <3> QED
      BY <1>3, <3>2, RunShown DEF SessionInv
  <2> QED
    BY <2>1, <2>2, <2>5, <2>6, <2>7 DEF Run!Restart
<1> QED
  BY <1>2, <1>3

\* A new team can do what is open.
LEMMA ResourcesSimulate ==
  ASSUME SessionInv, CoreOK', UpdateResources
  PROVE  Run!ChangeTeam \/ UNCHANGED Run!runVars
<1>1. /\ UNCHANGED <<phase, mission, execution>> /\ phase \in {"PLANNING", "EXECUTION_PAUSED"}
      /\ phase = "PLANNING" => runtime' = runtime
  BY DEF UpdateResources
<1>2. CASE phase = "PLANNING"
  BY <1>1, <1>2, RunUnseen
<1>3. CASE phase = "EXECUTION_PAUSED"
  <2>1. PICK T \in Teams(mission.open) : runtime' = [runtime EXCEPT !.team = T]
    BY <1>3 DEF UpdateResources
  <2>2. runtime \in Runtimes /\ runtime # NoValue /\ mission \in Works
    BY <1>3, RunShown DEF SessionInv, CoreOK, PhaseTable
  <2>3. runtime' # NoValue /\ runtime'.team = T
    BY <1>1, <1>3, <2>1, <2>2 DEF CoreOK, PhaseTable, Runtimes
  <2>4. RunStage = StageOf(mission) /\ RunOutcome = "running"
    BY <1>3, <2>2, RunShown DEF SessionInv
  <2>5. /\ RunStage' = StageOf(mission) /\ RunningTeam' = T /\ RunOutcome' = "running"
        /\ RunningTeam' \in SUBSET Fleet
    BY <1>1, <1>3, <2>3, RunShownNext
  <2>6. Run!Serves(T, StageOf(mission))
    BY <2>2, TeamServes
  <2> QED
    BY <2>4, <2>5, <2>6 DEF Run!ChangeTeam
<1> QED
  BY <1>1, <1>2, <1>3

\* What an advance begins with: what the session holds, or a mission that
\* nobody has begun.
LEMMA AdvanceBegins ==
  ASSUME SessionInv, AdvanceReady, CoreOK', runtime' # NoValue, All(mission') = All(mission),
         runtime'.team = Candidate.team,
         \/ Run!Progress(StageOf(mission), Candidate.team)
         \/ Run!Deadlock(StageOf(mission), Candidate.team)
  PROVE  Run!Launch \/ Run!Advance
<1>1. /\ mission \in Works /\ mission # NoValue /\ Candidate \in Runtimes /\ execution = NoValue
  BY CandidateWork
<1>2. RunStage' = StageOf(mission') /\ RunningTeam' = Candidate.team /\ mission' \in Works
  BY RunShownNext
<1>3. CASE phase = "PLANNING"
  <2>1. runtime = NoValue /\ mission = Fresh(plan) /\ plan # NoValue
    BY <1>1, <1>3 DEF SessionInv, CoreOK, AdvanceReady, PhaseTable, PlanCovers
  <2>2. plan \in SUBSET Tasks
    BY <2>1 DEF SessionInv, CoreOK
  <2>3. All(mission) = plan /\ StageOf(mission) = Run!Fresh(plan)
    BY <2>1, <2>2, FreshWork, FreshStages
  <2>4. Run!Members(RunStage') = plan
    BY <1>2, <2>3, StageOfAll
  <2>5. Run!Closed(plan)
    BY <1>1, <2>3, MissionClosed DEF SessionInv, CoreOK, ResponsesKnown
  <2>6. RunOutcome = "none"
    BY <2>1 DEF RunOutcome
  <2>7. Candidate.team \in SUBSET Fleet
    BY <1>1 DEF Runtimes
  <2> QED
    BY <1>2, <2>3, <2>4, <2>5, <2>6, <2>7 DEF Run!Launch
<1>4. CASE phase # "PLANNING"
  <2>1. runtime # NoValue /\ phase \in {"EXECUTION_PAUSED", "EXECUTION_FAILED"}
    BY <1>4 DEF AdvanceReady
  <2>2. RunStage = StageOf(mission) /\ RunningTeam = runtime.team
    BY <2>1, RunShown DEF SessionInv
  <2>3. execution # "DEADLOCK"
    BY <1>1, NoValueAssumption DEF Endings
  <2>4. RunOutcome \in {"running", "raised"}
    BY <2>1, <2>3, RunShown DEF SessionInv
  <2>5. Candidate.team = runtime.team
    BY <1>4, <2>1 DEF Candidate, SessionInv, CoreOK, Runtimes
  <2> QED
    BY <1>2, <2>2, <2>4, <2>5 DEF Run!Advance
<1> QED
  BY <1>3, <1>4

\* An advance starts what it can and ends something.
LEMMA AdvanceSimulates ==
  ASSUME SessionInv, CoreOK', Advance
  PROVE  Run!Launch \/ Run!Advance
<1>1. PICK S \in SUBSET Startable(Candidate) :
        \E E \in SUBSET (Candidate.work.running \cup S) : AdvanceTo(S, E)
  BY DEF Advance
<1>2. PICK E \in SUBSET (Candidate.work.running \cup S) : AdvanceTo(S, E)
  BY <1>1
<1>3. AdvanceReady
  BY DEF Advance, Boundary
<1>4. /\ mission \in Works /\ mission # NoValue /\ Candidate \in Runtimes
      /\ Candidate.work = mission /\ execution = NoValue
  BY <1>3, CandidateWork
<1> DEFINE busy == mission.running \cup S
           w == [open |-> mission.open \ S, running |-> busy \ E, done |-> mission.done \cup E]
           T == Candidate.team
           b == StageOf(mission)
<1>5. /\ E # {} /\ E \subseteq busy /\ runtime' = [Candidate EXCEPT !.work = w]
      /\ mission' = [Candidate EXCEPT !.work = w].work
      /\ IF Finished(w) THEN phase' = "EXECUTED" ELSE phase' = "EXECUTION_PAUSED"
  BY <1>2, <1>4 DEF AdvanceTo, Publish
<1>6. S \subseteq mission.open /\ E \subseteq busy
  BY <1>4, <1>5 DEF Startable, Ready
<1>7. /\ w \in Works /\ All(w) = All(mission)
      /\ w.open = mission.open \ S /\ w.done = mission.done \cup E /\ w.running = busy \ E
  BY <1>4, <1>6 DEF Works, All
<1>8. mission' = w /\ runtime'.team = T
  BY <1>4, <1>5 DEF Runtimes
<1>9. runtime' # NoValue
  <2>1. [Candidate EXCEPT !.work = w] \in Runtimes
    BY <1>4, <1>7 DEF Runtimes
  <2> QED
    BY <1>5, <2>1, NoValueAssumption
<1>10. S \subseteq Run!Startable(b, T) /\ S \subseteq Tasks /\ E \subseteq Tasks
  <2>1. S \subseteq Run!Startable(b, T)
    BY <1>4, StartableIs DEF SessionInv
  <2>2. mission.running \subseteq Tasks
    BY <1>4 DEF Works
  <2> QED
    BY <1>6, <2>1, <2>2 DEF Run!Startable
<1>11. RunStage' = StageOf(w) /\ RunOutcome' = IF Finished(w) THEN "completed" ELSE "running"
  BY <1>5, <1>8, <1>9, RunShownNext
<1> HIDE DEF w, T, b
<1>12. ASSUME NEW t \in Tasks
       PROVE  \/ StageOf(w)[t] = b[t]
              \/ b[t] = "running" /\ StageOf(w)[t] = "done"
              \/ t \in Run!Startable(b, T) /\ StageOf(w)[t] \in {"running", "done"}
  <2>1. CASE t \in E
    <3>1. StageOf(w)[t] = "done"
      BY <1>7, <2>1, StageOfWork
    <3>2. t \in mission.running \/ t \in S
      BY <1>6, <2>1
    <3>3. t \in mission.running => b[t] = "running"
      BY <1>4, StageOfWork DEF b
    <3> QED
      BY <1>10, <3>1, <3>2, <3>3
  <2>2. CASE t \in S \ E
    <3>1. StageOf(w)[t] = "running"
      BY <1>7, <2>2, StageOfWork
    <3> QED
      BY <1>10, <2>2, <3>1
  <2>3. CASE t \notin E /\ t \notin S
    <3>1. /\ t \in w.open <=> t \in mission.open
          /\ t \in w.running <=> t \in mission.running
          /\ t \in w.done <=> t \in mission.done
      BY <1>7, <2>3
    <3>2. StageOf(w)[t] = b[t]
      BY <3>1 DEF StageOf, b
    <3> QED
      BY <3>2
  <2> QED
    BY <2>1, <2>2, <2>3
<1>13. \E t \in Tasks : b[t] # "done" /\ StageOf(w)[t] = "done"
  <2>1. PICK t \in E : TRUE
    BY <1>5
  <2>2. t \in Tasks /\ t \in w.done /\ t \notin mission.done
    BY <1>4, <1>6, <1>7, <1>10, <2>1 DEF Works
  <2> QED
    BY <1>4, <1>7, <2>2, StageOfWork DEF b
<1>14. Run!Progress(b, T)
  BY <1>7, <1>11, <1>12, <1>13, StageOfAll DEF Run!Progress
<1> QED
  BY <1>3, <1>7, <1>8, <1>9, <1>14, AdvanceBegins DEF b, T

\* Where nothing runs and nothing can start there is a deadlock.
LEMMA StuckSimulates ==
  ASSUME SessionInv, CoreOK', AdvanceStuck
  PROVE  Run!Launch \/ Run!Advance
<1>1. /\ AdvanceReady /\ execution' = "DEADLOCK" /\ phase' = "EXECUTION_FAILED"
      /\ ~ Finished(Candidate.work) /\ Candidate.work.running = {} /\ Startable(Candidate) = {}
      /\ runtime' = Candidate /\ mission' = Candidate.work
  BY DEF AdvanceStuck, Boundary, Publish
<1>2. /\ mission \in Works /\ mission # NoValue /\ Candidate \in Runtimes
      /\ Candidate.work = mission
  BY <1>1, CandidateWork
<1>3. runtime' # NoValue /\ mission' = mission /\ runtime'.team = Candidate.team
  BY <1>1, <1>2, NoValueAssumption
<1> DEFINE b == StageOf(mission)
<1>4. RunStage' = b /\ RunOutcome' = "deadlocked"
  BY <1>1, <1>3, RunShownNext
<1>5. ~ Run!Over(b)
  BY <1>1, <1>2, StageOfAll
<1>6. Run!Startable(b, Candidate.team) = {}
  BY <1>1, <1>2, StartableIs DEF SessionInv
<1>7. \A t \in Tasks : b[t] # "running"
  BY <1>1, <1>2, StageOfWork
<1> HIDE DEF b
<1>8. Run!Deadlock(b, Candidate.team)
  BY <1>4, <1>5, <1>6, <1>7 DEF Run!Deadlock
<1> QED
  BY <1>1, <1>3, <1>8, AdvanceBegins DEF b

\* An advance that raises shows as that and no more.
LEMMA RaiseSimulates ==
  ASSUME SessionInv, CoreOK', AdvanceRaises
  PROVE  Run!Raise \/ UNCHANGED Run!runVars
<1>1. /\ AdvanceReady /\ execution' = NoValue /\ phase' = "EXECUTION_FAILED"
      /\ UNCHANGED <<mission, runtime>>
  BY DEF AdvanceRaises, Boundary
<1>2. CASE runtime = NoValue
  BY <1>1, <1>2, RunUnseen
<1>3. CASE runtime # NoValue
  <2>1. execution = NoValue /\ NoValue # "DEADLOCK"
    BY <1>1, CandidateWork, NoValueAssumption DEF Endings
  <2>2. phase \in {"EXECUTION_PAUSED", "EXECUTION_FAILED"}
    BY <1>1, <1>3 DEF AdvanceReady
  <2>3. RunOutcome \in {"running", "raised"} /\ RunOutcome' = "raised"
    BY <1>1, <1>3, <2>1, <2>2, RunShown, RunShownNext DEF SessionInv
  <2>4. RunStage' = RunStage /\ RunningTeam' = RunningTeam
    BY <1>1 DEF RunStage, RunningTeam
  <2> QED
    BY <2>3, <2>4 DEF Run!Raise
<1> QED
  BY <1>2, <1>3

\* Every call of the session is a step of the run, or shows nothing.
LEMMA SessionSimulates ==
  ASSUME SessionInv, [Next]_sessionVars
  PROVE  [Run!Next]_(Run!runVars)
<1>1. CASE UNCHANGED sessionVars
  BY <1>1, RunUnseen DEF sessionVars
<1>2. CASE Next
  <2>1. CoreOK'
    BY <1>2, Step DEF SessionInv
  <2>2. CASE UpdateMission
    <3>1. PICK i \in 1..scene, k \in 1..Steps : Extend(i, k)
      BY <2>2 DEF UpdateMission
    <3>2. MayChange
      BY <2>2 DEF UpdateMission
    <3> QED
      BY <2>1, <3>1, <3>2, ExtendSimulates DEF Run!Next
  <2>3. CASE SelectCandidate
    <3>1. PICK i \in pending.candidates \cap (1..scene) :
            \/ pending.step > 0 /\ Extend(i, pending.step)
            \/ UNCHANGED <<phase, execution, runtime>>
      BY <2>3 DEF SelectCandidate
    <3>2. pending # NoValue
      BY <2>3 DEF SelectCandidate
    <3>3. CASE pending.step > 0 /\ Extend(i, pending.step)
      <4>1. pending.step \in 1..Steps /\ MayChange
        BY <3>2, <3>3, SessionAssumption DEF SessionInv, PendingResumable
      <4> QED
        BY <2>1, <3>3, <4>1, ExtendSimulates DEF Run!Next
    <3>4. CASE UNCHANGED <<phase, execution, runtime>>
      BY <3>4, RunUnseen
    <3> QED
      BY <3>1, <3>3, <3>4
  <2>4. CASE Clarify \/ CancelClarification \/ RecordDecision \/ ApplyPendingDecisions
             \/ BeginAdvance \/ AdvanceRefused
    <3>1. UNCHANGED <<runtime, phase, execution>>
      BY <2>4
      DEF Clarify, CancelClarification, RecordDecision, ApplyPendingDecisions,
          BeginAdvance, AdvanceRefused
    <3> QED
      BY <3>1, RunUnseen
  <2>5. CASE ExecuteSession
    <3>1. runtime = NoValue /\ runtime' = NoValue
      BY <2>5 DEF ExecuteSession, RunReady
    <3> QED
      BY <3>1, RunUnseen
  <2>6. CASE ReportIncident \/ ReportWithResources \/ ApplyDecision
    BY <2>1, <2>6, ReportSimulates, DecisionSimulates DEF Run!Next
  <2>7. CASE NewMission \/ UpdateResources
    BY <2>1, <2>7, NewMissionSimulates, ResourcesSimulate DEF Run!Next
  <2>8. CASE Advance \/ AdvanceStuck \/ AdvanceRaises
    BY <2>1, <2>8, AdvanceSimulates, StuckSimulates, RaiseSimulates DEF Run!Next
  <2> QED
    BY <1>2, <2>2, <2>3, <2>4, <2>5, <2>6, <2>7, <2>8 DEF Next
<1> QED
  BY <1>1, <1>2

\* The session implements CheckpointedRun: no turn, answer, clarification or
\* report that comes between two advances makes of the preserved mission
\* anything but one that grows, changes hands or is replaced as a whole.
THEOREM SessionImplementsRun == Spec => ImplementsRun
<1>1. Init => Run!Init
  <2> SUFFICES ASSUME Init PROVE Run!Init
    OBVIOUS
  <2>1. runtime = NoValue
    BY DEF Init
  <2>2. RunStage = Run!Fresh({})
    BY <2>1 DEF RunStage, Run!Fresh
  <2> QED
    BY <2>1, <2>2 DEF Run!Init, RunningTeam, RunOutcome
<1>2. SessionInv /\ [Next]_sessionVars => [Run!Next]_(Run!runVars)
  BY SessionSimulates
<1> QED
  BY <1>1, <1>2, SessionInvariant, PTL DEF Spec, ImplementsRun, Run!Spec

-----------------------------------------------------------------------------
(* The console.  A step of it is a step of the session, leaves it alone,   *)
(* or begins it anew, so that SessionInv carries over; ConsoleInv adds     *)
(* what a segment and a boundary rely on.                                  *)

\* How the callback under way, the segment and the session go together.
CallbackOK ==
  /\ play \in {"idle", "clip", "run"}
  /\ turn \in {"none", "take", "again", "open"}
  /\ turn # "none" => call = "none"
  /\ turn \in {"take", "again"} => play = "run"
  /\ turn = "open" => play = "clip" /\ AdvanceReady
  /\ play = "run" => call # "decide"
  /\ call = "advance" => play # "idle"
  /\ play = "run" /\ call = "none" => phase = "EXECUTION_PAUSED"

ConsoleInv ==
  /\ SessionInv
  /\ mission # NoValue => plan # NoValue
  /\ submits \in Nat
  /\ CallbackOK

-----------------------------------------------------------------------------
(* The session under the console.                                          *)

\* What the console does to the session.
LEMMA SessionSteps ==
  ASSUME ConsoleNext
  PROVE  Next \/ UNCHANGED sessionVars \/ NewSession
<1>1. CASE BeginSubmit \/ SubmitCommand
  BY <1>1 DEF BeginSubmit, SubmitCommand, Commits, Next
<1>2. CASE QueueCommand \/ CancelQueued
  BY <1>2 DEF QueueCommand, CancelQueued
<1>3. CASE ChooseCandidate \/ CancelCandidate
  BY <1>3 DEF ChooseCandidate, CancelCandidate, Next
<1>4. CASE AnswerFire \/ SettleFires
  BY <1>4 DEF AnswerFire, SettleFires, Next
<1>5. CASE PlayCheckpoint \/ OpenClip \/ PlayContinuous \/ StartDue \/ SegmentEnds
  BY <1>5 DEF PlayCheckpoint, OpenClip, PlayContinuous, StartDue, SegmentEnds, Next
<1>6. CASE CrossBoundary
  BY <1>6 DEF CrossBoundary, Next
<1>7. CASE TakeQueued \/ ClipEnds
  BY <1>7 DEF TakeQueued, ClipEnds, Commits, Next
<1> QED  BY <1>1, <1>2, <1>3, <1>4, <1>5, <1>6, <1>7 DEF ConsoleNext

\* The fields of the session are those of its first state.
LEMMA FreshSession ==
  ASSUME NewSession
  PROVE  Init'
BY DEF NewSession, Idle, Quiet, Listening, Init

\* The invariant of a session survives every step of the console.
LEMMA SessionKept ==
  SessionInv /\ [ConsoleNext]_allVars => SessionInv'
<1>1. SessionInv /\ UNCHANGED sessionVars => SessionInv'
  BY QuietStep DEF sessionVars, coreVars, SessionInv
<1>2. Init' => SessionInv'
  BY InitOK, PTL
<1> QED  BY <1>1, <1>2, SessionSteps, FreshSession, Step DEF allVars

\* The plan of a mission is never lost.
LEMMA PlanKept ==
  ASSUME SessionInv, SessionInv', mission # NoValue => plan # NoValue, Next
  PROVE  mission' # NoValue => plan' # NoValue
<1>1. ASSUME NEW G, NEW s, NEW T, Adapt(G, s, T), mission # NoValue
      PROVE  plan' = plan \/ plan' = All(mission')
  BY <1>1 DEF Adapt
<1>2. ASSUME plan' = plan, mission # NoValue \/ mission' = NoValue
      PROVE  mission' # NoValue => plan' # NoValue
  BY <1>2
<1>3. ASSUME plan' = All(mission') \/ mission' = Fresh(plan')
      PROVE  mission' # NoValue => plan' # NoValue
  <2>1. mission' # NoValue => mission' \in Works
    BY DEF SessionInv, CoreOK
  <2>2. mission' # NoValue => All(mission') \in SUBSET Tasks /\ mission'.open \in SUBSET Tasks
    BY <2>1 DEF Works, All
  <2> QED  BY <1>3, <2>2, NoValueAssumption DEF Fresh
<1>4. CASE NewMission
  BY <1>3, <1>4 DEF NewMission
<1>5. ASSUME NEW k, NEW T, RegisterIncident(k, T), k > 0 => mission # NoValue
      PROVE  mission' # NoValue => plan' # NoValue
  BY <1>1, <1>2, <1>3, <1>5 DEF RegisterIncident
<1>6. CASE ReportIncident \/ ReportWithResources
  BY <1>5, <1>6 DEF ReportIncident, ReportWithResources
<1>7. ASSUME NEW i, NEW k, Extend(i, k)
      PROVE  mission' # NoValue => plan' # NoValue
  BY <1>1, <1>2, <1>3, <1>7 DEF Extend
<1>8. CASE UpdateMission \/ SelectCandidate
  BY <1>2, <1>7, <1>8 DEF UpdateMission, SelectCandidate
<1>9. CASE ApplyDecision
  <2>1. mission # NoValue
    BY <1>9 DEF ApplyDecision, HeadDecided, SessionInv
  <2> QED  BY <1>2, <1>5, <1>9, <2>1 DEF ApplyDecision, Respond
<1>10. CASE UpdateResources \/ Clarify \/ CancelClarification \/ RecordDecision
            \/ ApplyPendingDecisions \/ ExecuteSession \/ BeginAdvance \/ AdvanceRaises
            \/ AdvanceRefused
  BY <1>2, <1>10
  DEF UpdateResources, Clarify, CancelClarification, RecordDecision, ApplyPendingDecisions,
      ExecuteSession, BeginAdvance, AdvanceRaises, AdvanceRefused
<1>11. CASE Advance \/ AdvanceStuck
  BY <1>2, <1>11 DEF Advance, AdvanceStuck, Boundary, AdvanceReady
<1> QED  BY <1>4, <1>6, <1>8, <1>9, <1>10, <1>11 DEF Next

\* A paused session with nothing asked can advance.
LEMMA PausedIsReady ==
  ASSUME SessionInv, mission # NoValue => plan # NoValue,
         phase = "EXECUTION_PAUSED", pending = NoValue
  PROVE  AdvanceReady
BY DEF SessionInv, CoreOK, PhaseTable, AdvanceReady

\* A turn that commits leaves a paused session paused.
LEMMA CommitsPaused ==
  ASSUME SessionInv, Commits, phase = "EXECUTION_PAUSED"
  PROVE  phase' = "EXECUTION_PAUSED" /\ call' = "none"
<1>1. runtime # NoValue
  BY DEF SessionInv, CoreOK, PhaseTable
<1>2. ASSUME NEW G, NEW s, NEW T, Adapt(G, s, T)
      PROVE  phase' = "EXECUTION_PAUSED"
  BY <1>2 DEF Adapt
<1>3. ASSUME NEW k, NEW T, RegisterIncident(k, T)
      PROVE  phase' = "EXECUTION_PAUSED"
  BY <1>2, <1>3 DEF RegisterIncident
<1> QED
  BY <1>1, <1>2, <1>3
  DEF Commits, NewMission, UpdateResources, ReportIncident, ReportWithResources,
      UpdateMission, Extend, Asked

\* Answers move neither the phase nor the question, unless a call is made.
LEMMA DecisionCall ==
  ASSUME ApplyDecision
  PROVE  pending' = pending /\ call' \in {"none", call} /\ (call = "advance" => call' = "advance")
BY DEF ApplyDecision, Respond, Dequeue

-----------------------------------------------------------------------------
(* One step of the console.                                                *)

\* A turn, whatever is played, leaves a run paused.
LEMMA SubmittedStep ==
  ASSUME ConsoleInv, SubmitCommand
  PROVE  CallbackOK'
<1>1. call = "none" /\ turn = "none" /\ turn' = turn /\ play' = play
  BY DEF SubmitCommand, Quiet, Listening
<1>2. CASE Commits
  <2>1. call' = "none"
    BY <1>1, <1>2 DEF Commits, NewMission, UpdateResources, ReportIncident,
       ReportWithResources, UpdateMission, Extend
  <2>2. phase = "EXECUTION_PAUSED" => phase' = "EXECUTION_PAUSED"
    BY <1>2, CommitsPaused DEF ConsoleInv
  <2> QED  BY <1>1, <2>1, <2>2 DEF ConsoleInv, CallbackOK
<1>3. CASE Clarify \/ UNCHANGED sessionVars
  BY <1>1, <1>3 DEF Clarify, sessionVars, ConsoleInv, CallbackOK
<1> QED  BY <1>2, <1>3 DEF SubmitCommand

\* A command, an answer or a button of the idle console.
LEMMA OperatorStep ==
  ASSUME ConsoleInv,
         BeginSubmit \/ QueueCommand \/ CancelQueued \/ ChooseCandidate
         \/ CancelCandidate \/ NewSession \/ AnswerFire
  PROVE  CallbackOK'
<1>1. CASE BeginSubmit \/ QueueCommand \/ CancelQueued
  BY <1>1 DEF BeginSubmit, QueueCommand, CancelQueued, ConsoleInv, CallbackOK, sessionVars,
     AdvanceReady
<1>2. CASE ChooseCandidate \/ CancelCandidate \/ NewSession
  <2>1. call' = call /\ play' = play /\ turn' = turn /\ play = "idle" /\ call = "none" /\ turn = "none"
    BY <1>2 DEF ChooseCandidate, CancelCandidate, NewSession, consoleVars, Idle, Quiet,
       Listening, SelectCandidate, CancelClarification, Extend
  <2> QED  BY <2>1 DEF CallbackOK
<1>3. CASE AnswerFire
  <2>1. /\ call' = call /\ play' = play /\ turn' = turn /\ phase' = phase /\ pending' = pending
        /\ UNCHANGED <<mission, plan, runtime, execution>>
    BY <1>3 DEF AnswerFire, ResumeRun, RecordDecision, consoleVars
  <2> QED  BY <2>1 DEF ConsoleInv, CallbackOK, AdvanceReady
<1> QED  BY <1>1, <1>2, <1>3

\* The answers are carried out by a callback of their own only when the run is
\* over, never under a run.
LEMMA SettleStep ==
  ASSUME ConsoleInv, SettleFires
  PROVE  CallbackOK' /\ play # "run"
<1>1. play' = play /\ turn' = turn
  BY DEF SettleFires, ResumeRun, consoleVars
<1>2. CASE ApplyPendingDecisions
  BY <1>1, <1>2 DEF ApplyPendingDecisions, ConsoleInv, CallbackOK, AdvanceReady
<1>3. CASE call = "decide" /\ ApplyDecision
  <2>1. call' \in {"none", "decide"}
    BY <1>3, DecisionCall
  <2> QED  BY <1>1, <1>3, <2>1 DEF ConsoleInv, CallbackOK
<1> QED  BY <1>2, <1>3 DEF SettleFires

\* A segment begins, or a timer finds nothing to begin.
LEMMA SegmentStep ==
  ASSUME ConsoleInv,
         PlayCheckpoint \/ OpenClip \/ PlayContinuous \/ StartDue \/ SegmentEnds
  PROVE  CallbackOK'
<1>1. CASE PlayCheckpoint
  BY <1>1 DEF PlayCheckpoint, Idle, Quiet, Listening, sessionVars, CallbackOK, AdvanceReady
<1>2. CASE OpenClip
  BY <1>2 DEF OpenClip, BeginAdvance, ConsoleInv, CallbackOK
<1>3. CASE PlayContinuous
  BY <1>3 DEF PlayContinuous, Idle, Quiet, BeginAdvance, CallbackOK
<1>4. CASE StartDue
  <2>1. CASE play = "idle" /\ AdvanceReady
    <3>1. turn = "none"
      BY <1>4, <2>1 DEF StartDue, Listening, ConsoleInv, CallbackOK
    <3> QED  BY <1>4, <2>1, <3>1 DEF StartDue, BeginAdvance, CallbackOK
  <2>2. CASE ~ (play = "idle" /\ AdvanceReady)
    BY <1>4, <2>2 DEF StartDue, ConsoleInv, CallbackOK, sessionVars, AdvanceReady
  <2> QED  BY <2>1, <2>2
<1>5. CASE SegmentEnds
  BY <1>5 DEF SegmentEnds, BeginAdvance, CallbackOK
<1> QED  BY <1>1, <1>2, <1>3, <1>4, <1>5

\* A boundary leaves a run that goes on paused.
LEMMA BoundaryStep ==
  ASSUME ConsoleInv, CrossBoundary
  PROVE  CallbackOK'
<1>1. CASE call = "advance" /\ ApplyDecision /\ UNCHANGED consoleVars
  <2>1. call' = "advance"
    BY <1>1, DecisionCall
  <2> QED  BY <1>1, <2>1 DEF ConsoleInv, CallbackOK, consoleVars
<1>2. CASE Advance /\ IF play = "run" /\ RunOver THEN Stop
                     ELSE NextSegment \/ SkipSegment \/ StopUndrawn
  <2>1. /\ call' = "none" /\ call = "advance"
        /\ phase' \in {"EXECUTED", "EXECUTION_PAUSED"}
    BY <1>2 DEF Advance, AdvanceTo, Boundary, AdvanceReady
  <2>2. play \in {"clip", "run"} /\ turn = "none"
    BY <2>1 DEF ConsoleInv, CallbackOK
  <2>3. CASE Stop \/ StopUndrawn
    BY <2>1, <2>2, <2>3 DEF Stop, StopUndrawn, CallbackOK
  <2>4. CASE ~ (play = "run" /\ RunOver) /\ (NextSegment \/ SkipSegment)
    <3>1. play = "run" => phase' = "EXECUTION_PAUSED"
      BY <2>1, <2>4 DEF RunOver
    <3>2. CASE NextSegment
      BY <2>1, <2>2, <3>1, <3>2 DEF NextSegment, TakesOne, CallbackOK
    <3>3. CASE SkipSegment
      BY <2>1, <2>2, <3>1, <3>3 DEF SkipSegment, StopUndrawn, Stop, CallbackOK
    <3> QED  BY <2>4, <3>2, <3>3
  <2> QED  BY <1>2, <2>3, <2>4
<1>3. CASE \/ (AdvanceStuck \/ AdvanceRaises) /\ Stop
           \/ AdvanceRefused /\ StopUndrawn
  <2>1. call' = "none" /\ call = "advance" /\ play' = "idle" /\ turn' = turn
    BY <1>3 DEF AdvanceStuck, AdvanceRaises, AdvanceRefused, Boundary, Stop, StopUndrawn
  <2> QED  BY <2>1 DEF ConsoleInv, CallbackOK
<1> QED  BY <1>1, <1>2, <1>3 DEF CrossBoundary

\* A queued command that commits leaves the run paused; one that asks ends it.
LEMMA QueueStep ==
  ASSUME ConsoleInv, TakeQueued \/ ClipEnds
  PROVE  CallbackOK'
<1>1. CASE TakeQueued
  <2>1. play = "run" /\ call = "none" /\ phase = "EXECUTION_PAUSED"
    BY <1>1 DEF TakeQueued, ConsoleInv, CallbackOK
  <2>2. CASE Commits /\ UNCHANGED play /\ turn' \in {"again", "none"}
    <3>1. phase' = "EXECUTION_PAUSED" /\ call' = "none"
      BY <2>1, <2>2, CommitsPaused DEF ConsoleInv
    <3> QED  BY <2>1, <2>2, <3>1 DEF CallbackOK
  <2>3. CASE Clarify /\ turn' = "none" /\ play' = "idle"
    BY <2>1, <2>3 DEF Clarify, CallbackOK
  <2>4. CASE UNCHANGED sessionVars /\ turn' = "none" /\ play' \in {"run", "idle"}
    BY <2>1, <2>4 DEF sessionVars, CallbackOK
  <2> QED  BY <1>1, <2>2, <2>3, <2>4 DEF TakeQueued
<1>2. CASE ClipEnds
  <2>1. call' = "none" /\ play' = "idle" /\ turn' = turn /\ turn = "none"
    BY <1>2 DEF ClipEnds, Quiet, Listening, Commits, NewMission, UpdateResources, ReportIncident,
       ReportWithResources, UpdateMission, Extend, Clarify, sessionVars
  <2> QED  BY <2>1 DEF CallbackOK
<1> QED  BY <1>1, <1>2

\* Every step keeps the invariant.
LEMMA ConsoleStep ==
  ConsoleInv /\ [ConsoleNext]_allVars => ConsoleInv'
<1> SUFFICES ASSUME ConsoleInv, [ConsoleNext]_allVars
             PROVE  ConsoleInv'
  OBVIOUS
<1>1. SessionInv'
  BY SessionKept DEF ConsoleInv
<1>2. mission' # NoValue => plan' # NoValue
  <2>1. CASE Next
    BY <1>1, <2>1, PlanKept DEF ConsoleInv
  <2>2. CASE UNCHANGED sessionVars
    BY <2>2 DEF sessionVars, ConsoleInv
  <2>3. CASE NewSession
    BY <2>3 DEF NewSession
  <2> QED  BY <2>1, <2>2, <2>3, SessionSteps DEF allVars
<1>3. CallbackOK'
  <2>1. CASE UNCHANGED allVars
    BY <2>1 DEF allVars, sessionVars, consoleVars, ConsoleInv, CallbackOK, AdvanceReady
  <2>2. CASE ConsoleNext
    <3>1. CASE SubmitCommand
      BY <3>1, SubmittedStep
    <3>2. CASE \/ BeginSubmit \/ QueueCommand \/ CancelQueued \/ ChooseCandidate
               \/ CancelCandidate \/ NewSession \/ AnswerFire
      BY <3>2, OperatorStep
    <3>3. CASE \/ SettleFires \/ PlayCheckpoint \/ OpenClip \/ PlayContinuous
               \/ StartDue \/ SegmentEnds
      BY <3>3, SettleStep, SegmentStep
    <3>4. CASE CrossBoundary \/ TakeQueued \/ ClipEnds
      BY <3>4, BoundaryStep, QueueStep
    <3> QED  BY <2>2, <3>1, <3>2, <3>3, <3>4 DEF ConsoleNext
  <2> QED  BY <2>1, <2>2
<1>4. submits' \in Nat
  <2>1. UNCHANGED submits \/ BeginSubmit \/ SubmitCommand
    BY DEF ConsoleNext, allVars, consoleVars, QueueCommand, CancelQueued, ChooseCandidate,
       CancelCandidate, NewSession, AnswerFire, SettleFires, ResumeRun, PlayCheckpoint,
       OpenClip, PlayContinuous, StartDue, SegmentEnds, CrossBoundary, Stop, NextSegment,
       SkipSegment, StopUndrawn, TakeQueued, ClipEnds
  <2> QED  BY <2>1 DEF BeginSubmit, SubmitCommand, ConsoleInv
<1> QED  BY <1>1, <1>2, <1>3, <1>4 DEF ConsoleInv

\* The invariant holds of every state of the console.
THEOREM ConsoleInvariant == ConsoleSpec => []ConsoleInv
<1>1. ConsoleInit => ConsoleInv
  <2> SUFFICES ASSUME ConsoleInit PROVE ConsoleInv
    OBVIOUS
  <2>1. SessionInv
    BY InitOK DEF ConsoleInit
  <2> QED  BY <2>1 DEF ConsoleInit, Init, ConsoleInv, CallbackOK
<1> QED  BY <1>1, ConsoleStep, PTL DEF ConsoleSpec

-----------------------------------------------------------------------------
(* The properties of the run, for all values of the constants.             *)

\* A sensed fire waits for its answer exactly once, also when the operator
\* answers during a segment, the run stops and goes on, or a session is begun.
THEOREM ConsoleFiresWaitOnce == ConsoleSpec => []FiresOnce
<1>1. ConsoleInv => FiresOnce
  BY DEF ConsoleInv, SessionInv, FiresOK
<1> QED  BY <1>1, ConsoleInvariant, PTL

\* A run can be advanced when its segment has been played, unless the operator
\* has been asked back by a command submitted before it was started.
THEOREM RunAlwaysPaused == ConsoleSpec => []RunIsPaused
<1>1. ConsoleInv => RunIsPaused
  BY PausedIsReady DEF ConsoleInv, CallbackOK, RunIsPaused
<1> QED  BY <1>1, ConsoleInvariant, PTL

\* Nothing of the mission changes under a segment that is being played, but by
\* a command submitted before it.
THEOREM SegmentsFrozen == ConsoleSpec => SegmentIsFrozen
<1> DEFINE Frozen ==
      /\ play # "idle" /\ play' = play /\ turn = "none" /\ call # "advance"
      /\ play = "clip" => call = "none"
      => \/ UNCHANGED <<phase, scene, mission, runtime, team, pending>>
         \/ submits' < submits
<1>1. ConsoleInv /\ [ConsoleNext]_allVars => [Frozen]_allVars
  <2> SUFFICES ASSUME ConsoleInv, ConsoleNext,
                      play # "idle", play' = play, turn = "none", call # "advance",
                      play = "clip" => call = "none"
               PROVE  \/ UNCHANGED <<phase, scene, mission, runtime, team, pending>>
                      \/ submits' < submits
    OBVIOUS
  <2>1. CASE QueueCommand \/ CancelQueued
    BY <2>1 DEF QueueCommand, CancelQueued, sessionVars
  <2>2. CASE SubmitCommand
    BY <2>2 DEF SubmitCommand, ConsoleInv
  <2>3. CASE AnswerFire
    BY <2>3 DEF AnswerFire, RecordDecision
  <2>4. CASE SettleFires
    <3>1. call # "decide"
      BY <2>4, SettleStep DEF ConsoleInv, CallbackOK
    <3> QED  BY <2>4, <3>1 DEF SettleFires, ApplyPendingDecisions
  <2>5. CASE StartDue \/ SegmentEnds
    BY <2>5 DEF StartDue, SegmentEnds, BeginAdvance, sessionVars
  <2>6. CASE CrossBoundary
    BY <2>6 DEF CrossBoundary, Advance, AdvanceStuck, AdvanceRaises, AdvanceRefused, Boundary
  <2>7. CASE TakeQueued \/ ClipEnds \/ OpenClip
    BY <2>7 DEF TakeQueued, ClipEnds, OpenClip
  <2> QED
    BY <2>1, <2>2, <2>3, <2>4, <2>5, <2>6, <2>7
    DEF ConsoleNext, BeginSubmit, ChooseCandidate, CancelCandidate, NewSession,
        PlayCheckpoint, PlayContinuous, Idle
<1>2. ConsoleSpec => [][Frozen]_allVars
  BY <1>1, ConsoleInvariant, PTL DEF ConsoleSpec
<1> QED  BY <1>2 DEF SegmentIsFrozen

=============================================================================
