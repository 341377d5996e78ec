------------------------------- MODULE Dialogue -------------------------------
(***************************************************************************)
(* The operator talks to the session through a language model: one turn is *)
(* a classification (interaction/interpret.py), the grounding of what was  *)
(* said (interaction/ground.py), for a new mission the generation of its   *)
(* graph (llm/pipeline.py), and the turn functions of                      *)
(* interaction/orchestrator.py.  In live mode every answer is recorded on  *)
(* disk (llm/cache.py), so that a later session can replay the             *)
(* conversation without the model; the process may crash at any time.      *)
(*                                                                         *)
(* Incidents are numbered in the order of their registration.  Utterances  *)
(* are opaque: what the model makes of one is its answer.  Phases, teams   *)
(* and directives are the subject of OnlineSession; here a session is      *)
(* online as soon as a fire was found, and zones are known or unknown.     *)
(***************************************************************************)
EXTENDS Naturals, Sequences, FiniteSets

CONSTANTS
  Utterances,
  Intents,        \* envelopes the model may answer
  Modes,          \* "live", "mock": how the first session talks to a model
  InScene,        \* incidents of the scene file are 1..InScene
  MaxIncidents,   \* a bound of the run, on all incidents
  Steps,          \* length of WORKFLOW_CHAIN
  MaxTurns,       \* a bound of the run, on the turns of all live sessions
  MaxFaulty,      \* a bound of the run, on the turns in which a model fails
  Window,         \* REFERENT_WINDOW_TURNS
  Deictic,        \* a phrase that may stand for a referent
  Invalid,        \* an answer that does not fit the schema
  None

Calls == {"intent", "intentRepair", "step1", "step2", "graphRepair"}
Verdicts == {"clean", "unclean", "fit", "unfit"}
Replies == Intents \cup Verdicts \cup {Invalid}
Means == {"EXPLICIT", "REFERENT", "SOLE_INCIDENT"}
Incidents == 1..MaxIncidents
Chains == [Incidents -> 0..Steps]
Referents == [incident : Incidents, turn : Nat]
Prompts ==
  [stage : Calls,
   context : [incidents : 0..MaxIncidents]
     \cup [incidents : 0..MaxIncidents, online : BOOLEAN,
           chain : Chains \cup {None}, referents : SUBSET Referents],
   user : Utterances \cup {None}, given : Seq(Verdicts)]

ASSUME DialogueAssumption ==
  /\ Modes \subseteq {"live", "mock"}
  /\ InScene \in Nat /\ MaxIncidents \in Nat /\ InScene <= MaxIncidents
  /\ Steps \in Nat /\ Window \in Nat \ {0}
  /\ \A a \in Intents : a.step \in 0..Steps

\* None and Invalid are nothing else.
ASSUME NoValueAssumption ==
  /\ None \notin Replies /\ None \notin Means /\ None \notin Chains
  /\ None \notin [key : Prompts, answer : Replies]
  /\ Invalid \notin Intents /\ Invalid \notin Verdicts

VARIABLES
  mode,        \* of the backend
  session,     \* [incidents, online, chain, referents, turns, pending]
  stage,       \* the model call the turn is in, "idle" between turns
  utterance, drafts,  \* of the turn: what was said, what the model drafted
  reply,       \* an answer that has come and is not yet looked at
  tmp, disk,   \* the temporary file, and the entries of the cache
  script,      \* inputs and results of a live session that was recorded
  position,    \* how much of it a replay has gone through
  last,        \* result of the last turn: [outcome, via, incident]
  spent,       \* turns of sessions that crashed
  faulty,      \* turns in which the model failed
  asked,       \* history: the calls of this turn, with their answers
  heard,       \* history: the answers of this live session, by prompt
  exact,       \* history: no answer was invalid or contradicted a former one
  mentioned    \* history: the last turn that spoke about an incident itself

turnVars == <<stage, utterance, drafts, reply, asked>>
storeVars == <<tmp, disk>>
historyVars == <<heard, exact, mentioned>>
dialogueVars == <<mode, session, turnVars, storeVars, script, position, last,
                  spent, faulty, historyVars>>

Empty == [x \in {} |-> None]
Put(f, x, v) == [d \in DOMAIN f \cup {x} |-> IF d = x THEN v ELSE f[d]]

\* A session before its first turn; the chain of an incident is how many steps
\* of the workflow the mission has for it.
Opened ==
  [incidents |-> InScene, online |-> FALSE, chain |-> None,
   referents |-> {}, turns |-> 0, pending |-> None]
Quiet == [outcome |-> None, via |-> None, incident |-> 0]

-----------------------------------------------------------------------------
(* What the model is asked.                                                *)

\* The answers to a call when so many incidents are known.
Answers(st, incidents) ==
  CASE st \in {"intent", "intentRepair"} ->
         {a \in Intents : a.kind = "REPORT_INCIDENT" => incidents < MaxIncidents}
    [] st = "step1" -> {"clean", "unclean"}
    [] OTHER -> {"fit", "unfit"}

\* An answer the code has to reject or to correct; a graph is unfit when
\* validate_candidate does not accept it.
IsFault(st, a) ==
  IF st \in {"intent", "intentRepair"} THEN a = Invalid ELSE a \notin {"clean", "fit"}

\* live_referents: introduced within the window, seen from the current turn.
Live(s) == {r \in s.referents : r.turn + Window > s.turns}

\* build_context_summary; the prompts of the generation show the scene only.
Context(st, s) ==
  IF st \in {"intent", "intentRepair"}
  THEN [incidents |-> s.incidents, online |-> s.online,
        chain |-> s.chain, referents |-> Live(s)]
  ELSE [incidents |-> s.incidents]

PromptAt(st, s, said, given) ==
  [stage |-> st, context |-> Context(st, s), user |-> said, given |-> given]
Prompt == PromptAt(stage, session, utterance, drafts)

\* Mutant of Key: the context hash is left out.
KeyWithoutContext(p) == [p EXCEPT !.context = None]

\* cache_key: hashes are taken to be without collisions.
Key(p) == p

-----------------------------------------------------------------------------
(* How a turn ends: its result, the session after it, and the incidents it *)
(* spoke about itself.                                                     *)

Result(outcome) == [outcome |-> outcome, via |-> None, incident |-> 0]
Grounded(outcome, via, i) == [outcome |-> outcome, via |-> via, incident |-> i]

Unspoken(result, s) == [result |-> result, after |-> s, about |-> {}]
Speaks(i, result, s) == [result |-> result, after |-> s, about |-> {i}]

\* _finish; a live session is recorded with it, a replay goes one input on.
Ends(input, end) ==
  /\ session' = end.after /\ last' = end.result
  /\ mentioned' = [i \in DOMAIN mentioned \cup end.about |->
                     IF i \in end.about THEN end.after.turns ELSE mentioned[i]]
  /\ stage' = "idle" /\ utterance' = None /\ drafts' = <<>> /\ reply' = None
  /\ script' = IF mode = "live"
               THEN Append(script, [input |-> input, result |-> end.result,
                                    after |-> end.after])
               ELSE script
  /\ position' = IF mode = "cached" THEN position + 1 ELSE position
  /\ UNCHANGED <<mode, storeVars, spent, heard>>

Finish(input, end) == Ends(input, end) /\ UNCHANGED <<faulty, asked, exact>>

Said(u) == [kind |-> "say", on |-> u]
FinishTurn(end) == Finish(Said(utterance), end)

\* The turn error of handle_turn leaves the session as it was.
Failed(s) == Unspoken(Result("TURN_ERROR"), s)
TurnError == FinishTurn(Failed(session))

\* note_referent, with the pruning of what fell out of the window.
Note(s, i) ==
  [s EXCEPT !.referents =
     {r \in @ \cup {[incident |-> i, turn |-> s.turns]} : r.turn + Window > s.turns}]

-----------------------------------------------------------------------------
(* Grounding.                                                              *)

Known(s) == 1..s.incidents

\* latest_referent_candidates.
Newest(s) == {r.incident : r \in {r \in Live(s) : \A q \in Live(s) : q.turn <= r.turn}}

IsOne(S) == \E x \in S : S = {x}
TheOne(S) == CHOOSE x \in S : TRUE

\* resolve_incident: what a phrase stands for, or who is to be asked about.  No
\* phrase at all is as good as a pronoun.
Resolved(via, i) == [via |-> via, incident |-> i, candidates |-> {}]
Unclear(candidates) == [via |-> None, incident |-> 0, candidates |-> candidates]
ResolveIncident(s, phrase) ==
  IF phrase \in Known(s) THEN Resolved("EXPLICIT", phrase)
  ELSE IF phrase \notin {Deictic, None} \/ Known(s) = {} THEN Unclear({})
  ELSE IF Newest(s) # {}
       THEN IF IsOne(Newest(s)) THEN Resolved("REFERENT", TheOne(Newest(s)))
            ELSE Unclear(Newest(s))
  ELSE IF IsOne(Known(s)) THEN Resolved("SOLE_INCIDENT", TheOne(Known(s)))
  ELSE Unclear(Known(s))

\* _store_pending_if_resumable: an ambiguity among at least two.  Of an intent
\* without a phrase nothing could be filled in later: PendingClarification
\* raises, and the turn with it.
Clarify(s, intent, candidates) ==
  IF candidates = {} \/ IsOne(candidates) THEN Unspoken(Result("CLARIFICATION"), s)
  ELSE IF intent.phrase = None THEN Failed(s)
  ELSE Unspoken(Result("CLARIFICATION"),
                [s EXCEPT !.pending = [intent |-> intent, candidates |-> candidates]])

-----------------------------------------------------------------------------
(* The turn functions, for a referent that is resolved: by what was said,  *)
(* or by the choice of a candidate.                                        *)

\* _do_query_status: only who is named becomes a referent again.
\* Mutant of Refreshes: every read does it.
RefreshesAlways(via) == TRUE

Refreshes(via) == via = "EXPLICIT"

Query(s, ground) ==
  [result |-> Grounded("ANSWERED", ground.via, ground.incident),
   after |-> IF Refreshes(ground.via) THEN Note(s, ground.incident) ELSE s,
   about |-> IF ground.via = "EXPLICIT" THEN {ground.incident} ELSE {}]

\* _do_update_mission, after its referent; build_chain_patch only adds.
Update(s, ground, step) ==
  LET i == ground.incident IN
  IF step = 0 THEN Unspoken(Result("CLARIFICATION"), s)
  ELSE IF s.chain[i] >= step
       THEN Speaks(i, Grounded("NO_CHANGE", ground.via, i), Note(s, i))
  ELSE Speaks(i, Grounded("COMMITTED", ground.via, i),
              Note([s EXCEPT !.chain[i] = step], i))

\* next_incident_id and register_incident: ids are counted up, never reused.
NextIncident(s) == s.incidents + 1
Registered(s) == [s EXCEPT !.incidents = NextIncident(s)]

\* _do_report_incident.
Report(s, step) ==
  LET i == NextIncident(s) IN
  IF s.chain = None
  THEN IF step > 0 THEN Unspoken(Result("CLARIFICATION"), s)
       ELSE Speaks(i, Grounded("COMMITTED", None, i), Note(Registered(s), i))
  ELSE Speaks(i, Grounded("COMMITTED", None, i),
              Note([Registered(s) EXCEPT !.chain[i] = step], i))

\* _do_new_mission up to the first call of generate_mission: a running mission is
\* replaced only online.
StartsGeneration(s, a) == a.kind = "NEW_MISSION" /\ (s.chain = None \/ s.online)

\* _dispatch, of an intent for which no graph has to be generated.
Respond(s, a) ==
  CASE a.kind = "NEW_MISSION" -> Unspoken(Result("CLARIFICATION"), s)
    [] a.kind = "REPORT_INCIDENT" ->
         IF a.phrase = "zone" THEN Report(s, a.step) ELSE Clarify(s, a, {})
    [] a.kind = "UPDATE_MISSION" ->
         LET ground == ResolveIncident(s, a.phrase) IN
         IF s.chain = None THEN Clarify(s, a, {})
         ELSE IF ground.via = None
              THEN Clarify(s, a, IF a.step = 0 THEN {} ELSE ground.candidates)
         ELSE Update(s, ground, a.step)
    [] a.kind = "QUERY_STATUS" ->
         LET ground == ResolveIncident(s, a.phrase) IN
         IF a.phrase = None THEN Unspoken(Result("ANSWERED"), s)
         ELSE IF ground.via = None THEN Clarify(s, a, ground.candidates)
         ELSE Query(s, ground)
    [] OTHER -> Unspoken(Result("UNSUPPORTED"), s)

-----------------------------------------------------------------------------
(* One call of the model and what is done with the answer.                 *)

Calling == stage # "idle" /\ reply = None /\ tmp = None

\* The bound on faults: any number of them in each of MaxFaulty turns.
FaultyNow == \E n \in DOMAIN asked : IsFault(asked[n].stage, asked[n].answer)
Fault ==
  /\ FaultyNow \/ faulty < MaxFaulty
  /\ faulty' = IF FaultyNow THEN faulty ELSE faulty + 1

\* history of the first calls of a turn, one more than it may make.
Asks(a) ==
  asked' = IF Len(asked) < 6 THEN Append(asked, [stage |-> stage, answer |-> a]) ELSE asked

\* history of an answer.
Hears(a) ==
  /\ Asks(a)
  /\ IF mode = "mock" THEN UNCHANGED <<heard, exact>>
     ELSE /\ heard' = Put(heard, Prompt, a)
          /\ exact' = (exact /\ a # Invalid
                         /\ (Prompt \in DOMAIN heard => heard[Prompt] = a))

\* Mutant of Record: the entry is written where it is read.
RecordInPlace(a) ==
  /\ disk' = Put(disk, Key(Prompt), [answer |-> a, whole |-> FALSE])
  /\ tmp' = [key |-> Key(Prompt), answer |-> a]

\* _write_entry begins: the temporary file is being filled.
Record(a) ==
  /\ tmp' = [key |-> Key(Prompt), answer |-> a]
  /\ UNCHANGED disk

\* A valid answer of a live model is recorded before it is used.
ModelAnswers ==
  /\ Calling /\ mode \in {"live", "mock"}
  /\ \E a \in Answers(stage, session.incidents) \cup {Invalid} :
       /\ reply' = a
       /\ IF IsFault(stage, a) THEN Fault ELSE UNCHANGED faulty
       /\ Hears(a)
       /\ IF mode = "live" /\ a # Invalid THEN Record(a) ELSE UNCHANGED storeVars
  /\ UNCHANGED <<mode, session, stage, utterance, drafts, script, position, last,
                 spent, mentioned>>

\* The file is complete and renamed.
StoreEntry ==
  /\ tmp # None
  /\ disk' = Put(disk, tmp.key, [answer |-> tmp.answer, whole |-> TRUE])
  /\ tmp' = None
  /\ UNCHANGED <<mode, session, turnVars, script, position, last, spent, faulty, historyVars>>

\* CachedBackend: a hit, or an exception that ends the turn.
CacheAnswers ==
  /\ Calling /\ mode = "cached"
  /\ IF Key(Prompt) \in DOMAIN disk /\ disk[Key(Prompt)].whole
     THEN /\ reply' = disk[Key(Prompt)].answer
          /\ Asks(reply')
          /\ UNCHANGED <<mode, session, stage, utterance, drafts, storeVars, script,
                         position, last, spent, faulty, historyVars>>
     ELSE TurnError

\* Mutant of Repairs: an invalid answer is asked for again and again.
RepairsAlways == stage \in {"intent", "intentRepair"} /\ mode # "mock"

\* classify: one correction of the first answer, none of a mock's.
Repairs == stage = "intent" /\ mode # "mock"

Proceed(next, given) ==
  /\ stage' = next /\ drafts' = given /\ reply' = None
  /\ UNCHANGED <<mode, session, utterance, storeVars, script, position, last, spent, faulty,
                 asked, historyVars>>

Dispatch(a) ==
  IF StartsGeneration(session, a) THEN Proceed("step1", drafts)
  ELSE FinishTurn(Respond(session, a))

Understand ==
  /\ stage \in {"intent", "intentRepair"}
  /\ IF reply # Invalid THEN Dispatch(reply)
     ELSE IF Repairs THEN Proceed("intentRepair", drafts) ELSE TurnError

Refused(s) == Unspoken(Result("REJECTED"), s)
Refuse == FinishTurn(Refused(session))

\* A graph is approved and becomes the mission: a patrol of the zones.
Approved(s) ==
  Unspoken(Result("COMMITTED"), [s EXCEPT !.chain = [i \in Incidents |-> 0]])
Approve == FinishTurn(Approved(session))

\* Mutant of Clean: only the schema is checked.
CleanBySchema(draft) == draft # Invalid

\* Step 1 parses and is consistent in itself.
Clean(draft) == draft \notin {Invalid, "unclean"}

FirstStep ==
  /\ stage = "step1"
  /\ IF Clean(reply) THEN Proceed("step2", <<reply>>) ELSE Refuse

SecondStep ==
  /\ stage = "step2"
  /\ IF reply = Invalid THEN Refuse
     ELSE IF reply = "fit" THEN Approve
     ELSE Proceed("graphRepair", Append(drafts, reply))

RepairStep ==
  /\ stage = "graphRepair"
  /\ IF reply \in {Invalid, "unfit"} THEN Refuse ELSE Approve

\* The answer is there, and stored when it has to be.
UseReply ==
  /\ reply # None /\ tmp = None
  /\ Understand \/ FirstStep \/ SecondStep \/ RepairStep

\* The backend raises: the network, or a mock without another answer.
BackendFails ==
  /\ Calling /\ mode \in {"live", "mock"}
  /\ Fault
  /\ exact' = FALSE
  /\ Ends(Said(utterance), Failed(session))
  /\ UNCHANGED asked

-----------------------------------------------------------------------------
(* What comes from outside.                                                *)

Idle == stage = "idle"

\* A replay repeats the inputs that were recorded.
Comes(input) ==
  /\ Idle
  /\ mode = "cached" =>
       position < Len(script) /\ script[position + 1].input = input

TurnsLeft == session.turns + (IF mode = "live" THEN spent ELSE 0) < MaxTurns
NextTurn(s) == [s EXCEPT !.turns = @ + 1]

\* handle_turn: a pending clarification is repeated, anything else is asked.
Repeated(s) == Unspoken(Result("CLARIFICATION"), NextTurn(s))

Say(u) ==
  /\ Comes(Said(u)) /\ TurnsLeft
  /\ asked' = <<>>
  /\ IF session.pending # None
     THEN /\ Ends(Said(u), Repeated(session))
          /\ UNCHANGED <<faulty, exact>>
     ELSE /\ session' = NextTurn(session)
          /\ stage' = "intent" /\ utterance' = u
          /\ UNCHANGED <<mode, drafts, reply, storeVars, script, position, last,
                         spent, faulty, historyVars>>

\* select_clarification_candidate, with one of the candidates.
Chosen(s, i) ==
  LET intent == s.pending.intent
      t == [NextTurn(s) EXCEPT !.pending = None]
  IN IF intent.kind = "UPDATE_MISSION"
     THEN Update(t, Resolved("EXPLICIT", i), intent.step)
     ELSE Query(t, Resolved("EXPLICIT", i))

Select(i) ==
  LET input == [kind |-> "select", on |-> i] IN
  /\ Comes(input) /\ TurnsLeft
  /\ session.pending # None /\ i \in session.pending.candidates
  /\ Finish(input, Chosen(session, i))

\* cancel_clarification.
Cancelled(s) ==
  Unspoken(Result("CANCELLED"), [NextTurn(s) EXCEPT !.pending = None])

Cancel ==
  LET input == [kind |-> "cancel", on |-> None] IN
  /\ Comes(input) /\ TurnsLeft
  /\ session.pending # None
  /\ Finish(input, Cancelled(session))

\* A fire is observed between two turns and registered (observe.py).
Observed(s) ==
  LET i == NextIncident(s) IN
  Speaks(i, Quiet, Note([Registered(s) EXCEPT !.online = TRUE], i))

Observe ==
  LET input == [kind |-> "fire", on |-> None] IN
  /\ Comes(input)
  /\ session.chain # None /\ NextIncident(session) <= MaxIncidents
  /\ Finish(input, Observed(session))

Restart(m, newScript) ==
  /\ mode' = m /\ session' = Opened /\ last' = Quiet
  /\ stage' = "idle" /\ utterance' = None /\ drafts' = <<>> /\ reply' = None
  /\ asked' = <<>> /\ mentioned' = Empty
  /\ script' = newScript /\ position' = 0
  /\ tmp' = None /\ UNCHANGED disk

\* The process dies within a turn; a temporary file is left that nobody reads.
\* A new live session is opened, or what was recorded so far is replayed.
Crash ==
  /\ mode = "live" /\ ~ Idle
  /\ spent' = spent + session.turns /\ UNCHANGED faulty
  /\ \/ Restart("cached", script) /\ UNCHANGED <<heard, exact>>
     \/ Restart("live", <<>>) /\ heard' = Empty /\ exact' = TRUE

\* The recorded conversation is replayed in a session of its own.
Replay ==
  /\ mode = "live" /\ Idle /\ script # <<>>
  /\ Restart("cached", script)
  /\ UNCHANGED <<spent, faulty, heard, exact>>

Init ==
  /\ mode \in Modes /\ session = Opened /\ last = Quiet
  /\ stage = "idle" /\ utterance = None /\ drafts = <<>> /\ reply = None
  /\ tmp = None /\ disk = Empty
  /\ script = <<>> /\ position = 0 /\ spent = 0 /\ faulty = 0
  /\ asked = <<>> /\ heard = Empty /\ exact = TRUE /\ mentioned = Empty

Turn == ModelAnswers \/ StoreEntry \/ CacheAnswers \/ UseReply \/ BackendFails

Operator ==
  \/ \E u \in Utterances : Say(u)
  \/ \E i \in Known(session) : Select(i)
  \/ Cancel \/ Observe \/ Replay

Next == Turn \/ Operator \/ Crash

DialogueSpec == Init /\ [][Next]_dialogueVars /\ WF_dialogueVars(Turn)

-----------------------------------------------------------------------------
(* Properties.                                                             *)

\* "Record successful responses for exact replay" (cache.py:115): when every
\* answer was valid and none contradicted an earlier answer to the same prompt,
\* the replay gives each input the result it had and goes through the same
\* sessions, in whatever contexts the same words were said and though other
\* sessions and crashes have left entries before.
ReplayExact ==
  mode = "cached" /\ exact /\ Idle =>
    \A n \in {position} \ {0} :
      /\ last = script[n].result
      /\ session = script[n].after

\* However the process dies, what the cache holds was completely written, so a
\* lookup finds an answer or nothing (_write_entry: temporary file and rename).
CacheWhole == \A k \in DOMAIN disk : disk[k].whole

\* What the former call and its answer must be for the model to be asked next.
Leads(former, next) ==
  CASE next = "intent"       -> FALSE
    [] next = "intentRepair" -> former.stage = "intent" /\ former.answer = Invalid
    [] next = "step1"        ->
         /\ former.stage \in {"intent", "intentRepair"}
         /\ former.answer \in Intents /\ former.answer.kind = "NEW_MISSION"
    [] next = "step2"        -> former.stage = "step1" /\ former.answer = "clean"
    [] next = "graphRepair"  -> former.stage = "step2" /\ former.answer = "unfit"

\* A turn asks the model in the order of the pipeline, each call at most once: it
\* corrects an intent only when it was invalid, never a mock's, and a graph only
\* when it was unfit, lists tasks only for an understood new mission, and asks for no
\* dependencies of a list that is not clean (pipeline.py:1-11, D-052).
CallsInOrder ==
  \A n \in DOMAIN asked :
    /\ IF n = 1 THEN asked[n].stage = "intent" ELSE Leads(asked[n - 1], asked[n].stage)
    /\ asked[n].stage = "intentRepair" => mode # "mock"

\* A pronoun stands for an incident only while the last turn that spoke about
\* it is within the window and about no other one later; reading the status of
\* "it" does not keep it alive (note_referent, D-029).
WindowHolds ==
  Idle /\ last.via = "REFERENT" =>
    /\ last.incident \in DOMAIN mentioned
    /\ last.outcome = "ANSWERED" =>
         session.turns < mentioned[last.incident] + Window
    /\ \A i \in DOMAIN mentioned \ {last.incident} :
         mentioned[i] < mentioned[last.incident]

\* Every turn ends, whatever the model answers: corrections are bounded.
TurnEnds == stage # "idle" ~> stage = "idle"

=============================================================================
