---------------------------- MODULE DialogueProofs ----------------------------
(***************************************************************************)
(* What the dialogue keeps, for any utterances, any envelopes the model    *)
(* may answer, any scene, window and number of turns and failures.         *)
(*                                                                         *)
(* DialogueInv has a part on the turn under way, one on the entries of the *)
(* cache, one on the calls of the turn, one on the referents, and one on   *)
(* the recorded conversation and its replay.  The last one rests on        *)
(* agreement: an answer that was heard and is stored completely is what a  *)
(* replay will read, and answers that agree lead a turn from the same      *)
(* session through the same calls to the same end.                         *)
(***************************************************************************)
EXTENDS Dialogue, TLAPS

Sessions ==
  [incidents : 0..MaxIncidents, online : BOOLEAN, chain : Chains \cup {None},
   referents : SUBSET Referents, turns : Nat,
   pending : [intent : Intents, candidates : SUBSET Incidents] \cup {None}]

Outcomes ==
  {"ANSWERED", "CLARIFICATION", "COMMITTED", "NO_CHANGE", "REJECTED", "UNSUPPORTED",
   "CANCELLED", "TURN_ERROR", None}
Results == [outcome : Outcomes, via : Means \cup {None},
            incident : 0..MaxIncidents]

Inputs == [kind : {"say", "select", "cancel", "fire"},
           on : Utterances \cup Incidents \cup {None}]

Recorded == [input : Inputs, result : Results, after : Sessions]

MentionedOK ==
  DOMAIN mentioned \subseteq Incidents /\ mentioned \in [DOMAIN mentioned -> Nat]

TypeOK ==
  /\ mode \in {"live", "mock", "cached"} /\ session \in Sessions
  /\ stage \in Calls \cup {"idle"} /\ utterance \in Utterances \cup {None}
  /\ drafts \in Seq(Verdicts) /\ reply \in Replies \cup {None}
  /\ tmp \in [key : Prompts, answer : Replies] \cup {None}
  /\ DOMAIN disk \subseteq Prompts
  /\ disk \in [DOMAIN disk -> [answer : Replies, whole : BOOLEAN]]
  /\ script \in Seq(Recorded) /\ position \in Nat /\ last \in Results
  /\ spent \in Nat /\ faulty \in Nat
  /\ asked \in Seq([stage : Calls, answer : Replies])
  /\ DOMAIN heard \subseteq Prompts /\ exact \in BOOLEAN
  /\ MentionedOK

\* What the model has drafted when the generation comes to a call.
DraftsAt(st) ==
  IF st = "step2" THEN <<"clean">>
  ELSE IF st = "graphRepair" THEN Append(<<"clean">>, "unfit")
  ELSE <<>>

\* Only a session with a mission is asked which incident to update.
PendingOK(s) ==
  s.pending # None /\ s.pending.intent.kind = "UPDATE_MISSION" => s.chain # None

\* The turn under way.
TurnOK ==
  /\ PendingOK(session)
  /\ session.pending # None => Idle
  /\ drafts = DraftsAt(stage)
  /\ Idle => reply = None
  /\ ~ Idle => reply \in Answers(stage, session.incidents) \cup {Invalid, None}
  /\ tmp # None =>
       /\ mode = "live" /\ reply # None /\ reply # Invalid
       /\ tmp = [key |-> Key(Prompt), answer |-> reply]

\* An entry answers the call its key was made for.
DiskOK ==
  /\ CacheWhole
  /\ \A k \in DOMAIN disk :
       disk[k].answer \in Answers(k.stage, k.context.incidents)

-----------------------------------------------------------------------------
(* The calls of a turn.                                                    *)

Rank(st) ==
  CASE st = "intent" -> 1 [] st = "intentRepair" -> 2 [] st = "step1" -> 3
    [] st = "step2" -> 4 [] OTHER -> 5

AskedOK ==
  /\ Len(asked) > 0 => asked[1].stage = "intent"
  /\ mode = "mock" =>
       stage # "intentRepair" /\ \A n \in 1..Len(asked) : asked[n].stage # "intentRepair"
  /\ \A n \in 1..Len(asked) : n <= Rank(asked[n].stage)
  /\ \A n \in 1..(Len(asked) - 1) : Leads(asked[n], asked[n + 1].stage)
  /\ \A m, n \in 1..Len(asked) : m < n => Rank(asked[m].stage) < Rank(asked[n].stage)
  /\ ~ Idle /\ reply = None =>
       /\ Len(asked) < Rank(stage)
       /\ \A n \in 1..Len(asked) : Rank(asked[n].stage) < Rank(stage)
       /\ IF Len(asked) = 0 THEN stage = "intent" ELSE Leads(asked[Len(asked)], stage)
  /\ ~ Idle /\ reply # None =>
       Len(asked) > 0 /\ asked[Len(asked)] = [stage |-> stage, answer |-> reply]

-----------------------------------------------------------------------------
(* The referents.                                                          *)

\* A referent was spoken about; the last time is kept while the window is open.
WindowAt(s) ==
  /\ \A r \in s.referents :
       r.incident \in DOMAIN mentioned /\ r.turn <= mentioned[r.incident]
  /\ \A i \in DOMAIN mentioned :
       /\ mentioned[i] <= s.turns
       /\ mentioned[i] + Window > s.turns =>
            [incident |-> i, turn |-> mentioned[i]] \in s.referents

WindowOK == WindowAt(session) /\ WindowHolds

-----------------------------------------------------------------------------
(* The recorded conversation.                                              *)

\* What was heard is what a lookup finds.
Agreed(p) ==
  /\ p \in DOMAIN heard /\ Key(p) \in DOMAIN disk
  /\ disk[Key(p)] = [answer |-> heard[p], whole |-> TRUE]

Ask(s, said, st) == PromptAt(st, s, said, DraftsAt(st))

\* With agreed answers the turn of said in session s comes to call st.
Passes(s, said, st, answer) ==
  Agreed(Ask(s, said, st)) /\ heard[Ask(s, said, st)] = answer
Reaches(s, said, st) ==
  /\ st \in Calls \ {"intentRepair"}
  /\ st # "intent" =>
       /\ Agreed(Ask(s, said, "intent"))
       /\ StartsGeneration(s, heard[Ask(s, said, "intent")])
  /\ st \in {"step2", "graphRepair"} => Passes(s, said, "step1", "clean")
  /\ st = "graphRepair" => Passes(s, said, "step2", "unfit")

\* A valid answer ends the turn at call st, and how.
IsEnd(s, st, a) ==
  CASE st = "intent" -> ~ StartsGeneration(s, a)
    [] st = "step1" -> a # "clean"
    [] st = "step2" -> a # "unfit"
    [] OTHER -> TRUE
EndAt(s, st, a) ==
  IF st = "intent" THEN Respond(s, a)
  ELSE IF st # "step1" /\ a = "fit" THEN Approved(s) ELSE Refused(s)

Before(n) == IF n = 1 THEN Opened ELSE script[n - 1].after
Shows(entry, end) == entry.result = end.result /\ entry.after = end.after

\* Agreed answers lead from session s to what was recorded.
Replays(s, entry) ==
  CASE entry.input.kind = "say" ->
         IF s.pending # None THEN Shows(entry, Repeated(s))
         ELSE \E st \in Calls :
                LET p == Ask(NextTurn(s), entry.input.on, st) IN
                /\ Reaches(NextTurn(s), entry.input.on, st)
                /\ Agreed(p) /\ IsEnd(NextTurn(s), st, heard[p])
                /\ Shows(entry, EndAt(NextTurn(s), st, heard[p]))
    [] entry.input.kind = "select" -> Shows(entry, Chosen(s, entry.input.on))
    [] entry.input.kind = "cancel" -> Shows(entry, Cancelled(s))
    [] OTHER -> Shows(entry, Observed(s))

\* The turn that was begun in session s.
Underway(s) ==
  /\ s.pending = None /\ session = NextTurn(s)
  /\ Reaches(session, utterance, stage)

ScriptOK == \A n \in 1..Len(script) : Replays(Before(n), script[n])

LiveOK ==
  /\ Idle => session = Before(Len(script) + 1)
  /\ ~ Idle => Underway(Before(Len(script) + 1))
  /\ reply # None =>
       /\ reply # Invalid /\ Prompt \in DOMAIN heard /\ heard[Prompt] = reply
       /\ tmp = None => Agreed(Prompt)

CachedOK ==
  /\ position <= Len(script)
  /\ Idle =>
       /\ session = Before(position + 1)
       /\ position > 0 => last = script[position].result
  /\ ~ Idle =>
       /\ position < Len(script) /\ script[position + 1].input = Said(utterance)
       /\ Underway(Before(position + 1))
  /\ reply # None => Agreed(Prompt) /\ heard[Prompt] = reply

ReplayOK ==
  exact =>
    /\ mode # "mock" => ScriptOK
    /\ mode = "live" => LiveOK
    /\ mode = "cached" => CachedOK

DialogueInv == TypeOK /\ TurnOK /\ DiskOK /\ AskedOK /\ WindowOK /\ ReplayOK

-----------------------------------------------------------------------------
(* The turn functions.                                                     *)

Endings == [result : Results, after : Sessions, about : SUBSET Incidents]

\* Whom an end speaks about becomes a referent, and a pronoun stands for the
\* newest one.
Referring(s, end) ==
  /\ end.after.turns = s.turns
  /\ \/ end.about = {} /\ end.after.referents = s.referents
     \/ \E i \in Incidents :
          /\ end.about = {i}
          /\ end.after.referents = Note(s, i).referents
  /\ end.result.via = "REFERENT" =>
       /\ Newest(s) = {end.result.incident}
       /\ end.about \subseteq {end.result.incident}

\* An end of a turn of session s.
EndOK(s, end) ==
  end \in Endings /\ PendingOK(end.after) /\ Referring(s, end)

\* A new referent (note_referent) leaves the rest of the session alone.
LEMMA NoteOK ==
  ASSUME NEW s \in Sessions, NEW i \in Incidents
  PROVE  /\ Note(s, i) \in Sessions /\ Note(s, i).turns = s.turns
         /\ Note(s, i).pending = s.pending /\ Note(s, i).chain = s.chain
<1> DEFINE R == {r \in s.referents \cup {[incident |-> i, turn |-> s.turns]} :
                  r.turn + Window > s.turns}
<1>1. [incident |-> i, turn |-> s.turns] \in Referents
  BY DEF Sessions, Referents
<1>2. R \subseteq Referents
  BY <1>1 DEF Sessions
<1>3. Note(s, i) = [s EXCEPT !.referents = R]
  BY DEF Note
<1> QED  BY <1>2, <1>3 DEF Sessions

\* What only answers and leaves the referents alone is an end.
LEMMA UnspokenOK ==
  ASSUME NEW s \in Sessions, NEW t \in Sessions, NEW outcome \in Outcomes,
         t.turns = s.turns, t.referents = s.referents, PendingOK(t)
  PROVE  EndOK(s, Unspoken(Result(outcome), t))
BY DialogueAssumption, NoValueAssumption
   DEF EndOK, Endings, Unspoken, Result, Results, Referring, Means

\* What speaks about an incident, and notes it, is an end.
LEMMA SpeaksOK ==
  ASSUME NEW s \in Sessions, NEW t \in Sessions, NEW outcome \in Outcomes,
         NEW via \in Means \cup {None}, NEW i \in Incidents,
         via = "REFERENT" => Newest(s) = {i},
         t.turns = s.turns, t.referents = s.referents, PendingOK(t)
  PROVE  EndOK(s, Speaks(i, Grounded(outcome, via, i), Note(t, i)))
<1> DEFINE end == Speaks(i, Grounded(outcome, via, i), Note(t, i))
<1>1. /\ Note(t, i) \in Sessions /\ Note(t, i).turns = s.turns
      /\ Note(t, i).pending = t.pending /\ Note(t, i).chain = t.chain
  BY NoteOK
<1>2. Note(t, i).referents = Note(s, i).referents
  BY DEF Note, Sessions
<1>3. end \in Endings
  BY <1>1, DialogueAssumption DEF Endings, Speaks, Grounded, Results, Incidents
<1>4. PendingOK(end.after)
  BY <1>1 DEF PendingOK, Speaks
<1>5. Referring(s, end)
  BY <1>1, <1>2 DEF Referring, Speaks, Grounded
<1> QED  BY <1>3, <1>4, <1>5 DEF EndOK

\* A phrase stands for an incident, for the newest referent if for a referent.
LEMMA GroundOK ==
  ASSUME NEW s \in Sessions, NEW phrase
  PROVE  LET ground == ResolveIncident(s, phrase) IN
         /\ ground.via \in Means \cup {None} /\ ground.candidates \subseteq Incidents
         /\ ground.via # None => ground.incident \in Incidents
         /\ ground.via = "REFERENT" => Newest(s) = {ground.incident}
<1> DEFINE ground == ResolveIncident(s, phrase)
<1>1. Known(s) \subseteq Incidents
  BY DialogueAssumption DEF Known, Incidents, Sessions
<1>2. Newest(s) \subseteq Incidents
  BY DEF Newest, Live, Sessions, Referents
<1>3. ASSUME NEW S, IsOne(S) PROVE TheOne(S) \in S /\ S = {TheOne(S)}
  BY <1>3 DEF IsOne, TheOne
<1>4. CASE phrase \in Known(s)
  BY <1>1, <1>4 DEF ResolveIncident, Resolved, Means
<1>5. CASE phrase \notin Known(s) /\ (phrase \notin {Deictic, None} \/ Known(s) = {})
  BY <1>5, NoValueAssumption DEF ResolveIncident, Unclear, Means
<1>6. CASE /\ phrase \notin Known(s) /\ ~ (phrase \notin {Deictic, None} \/ Known(s) = {})
           /\ Newest(s) # {}
  <2>1. CASE IsOne(Newest(s))
    BY <1>2, <1>3, <1>6, <2>1 DEF ResolveIncident, Resolved, Means
  <2>2. CASE ~ IsOne(Newest(s))
    BY <1>2, <1>6, <2>2, NoValueAssumption DEF ResolveIncident, Unclear, Means
  <2> QED  BY <2>1, <2>2
<1>7. CASE /\ phrase \notin Known(s) /\ ~ (phrase \notin {Deictic, None} \/ Known(s) = {})
           /\ Newest(s) = {}
  <2>1. CASE IsOne(Known(s))
    BY <1>1, <1>3, <1>7, <2>1 DEF ResolveIncident, Resolved, Means
  <2>2. CASE ~ IsOne(Known(s))
    BY <1>1, <1>7, <2>2, NoValueAssumption DEF ResolveIncident, Unclear, Means
  <2> QED  BY <2>1, <2>2
<1> QED  BY <1>4, <1>5, <1>6, <1>7

\* A clarification ends a turn.
LEMMA ClarifyOK ==
  ASSUME NEW s \in Sessions, PendingOK(s), NEW a \in Intents,
         NEW candidates \in SUBSET Incidents,
         candidates # {} /\ a.kind = "UPDATE_MISSION" => s.chain # None
  PROVE  EndOK(s, Clarify(s, a, candidates))
<1>1. CASE candidates = {} \/ IsOne(candidates)
  BY <1>1, UnspokenOK DEF Clarify, Outcomes
<1>2. CASE ~ (candidates = {} \/ IsOne(candidates)) /\ a.phrase = None
  BY <1>2, UnspokenOK DEF Clarify, Failed, Outcomes
<1>3. CASE ~ (candidates = {} \/ IsOne(candidates)) /\ a.phrase # None
  <2> DEFINE t == [s EXCEPT !.pending = [intent |-> a, candidates |-> candidates]]
  <2>1. t \in Sessions /\ t.turns = s.turns /\ t.referents = s.referents /\ PendingOK(t)
    BY <1>3 DEF Sessions, PendingOK
  <2> HIDE DEF t
  <2>2. EndOK(s, Unspoken(Result("CLARIFICATION"), t))
    BY <2>1, UnspokenOK DEF Outcomes
  <2>3. Clarify(s, a, candidates) = Unspoken(Result("CLARIFICATION"), t)
    BY <1>3 DEF Clarify, t
  <2> QED  BY <2>2, <2>3
<1> QED  BY <1>1, <1>2, <1>3

\* A status is read in a turn of its own.
LEMMA QueryOK ==
  ASSUME NEW s \in Sessions, PendingOK(s), NEW ground,
         ground.via \in Means, ground.incident \in Incidents,
         ground.via = "REFERENT" => Newest(s) = {ground.incident}
  PROVE  EndOK(s, Query(s, ground))
<1> DEFINE end == Query(s, ground)
           result == Grounded("ANSWERED", ground.via, ground.incident)
<1>1. result \in Results
  BY DialogueAssumption DEF Results, Grounded, Incidents, Outcomes
<1>2. CASE ground.via = "EXPLICIT"
  <2>1. end = Speaks(ground.incident, result, Note(s, ground.incident))
    BY <1>2 DEF Query, Refreshes, Speaks
  <2> QED  BY <1>2, <2>1, SpeaksOK DEF Outcomes
<1>3. CASE ground.via # "EXPLICIT"
  BY <1>1, <1>3 DEF Query, Refreshes, EndOK, Endings, Referring, Grounded
<1> QED  BY <1>2, <1>3

\* An update ends a turn in which a mission is there.
LEMMA UpdateOK ==
  ASSUME NEW s \in Sessions, PendingOK(s), s.chain # None, NEW ground,
         ground.via \in Means, ground.incident \in Incidents,
         ground.via = "REFERENT" => Newest(s) = {ground.incident},
         NEW step \in 0..Steps
  PROVE  EndOK(s, Update(s, ground, step))
<1> DEFINE i == ground.incident
           t == [s EXCEPT !.chain[i] = step]
<1>1. CASE step = 0
  BY <1>1, UnspokenOK DEF Update, Outcomes
<1>2. CASE step # 0 /\ s.chain[i] >= step
  BY <1>2, SpeaksOK DEF Update, Outcomes
<1>3. CASE step # 0 /\ ~ (s.chain[i] >= step)
  <2>1. t.chain \in Chains
    BY DEF Sessions, Chains
  <2>2. t \in Sessions /\ t.turns = s.turns /\ t.referents = s.referents
    BY <2>1 DEF Sessions
  <2>3. PendingOK(t)
    BY <2>1, NoValueAssumption DEF PendingOK, Sessions
  <2> QED  BY <1>3, <2>2, <2>3, SpeaksOK DEF Update, Outcomes
<1> QED  BY <1>1, <1>2, <1>3

\* A session with one incident more.
LEMMA RegisteredOK ==
  ASSUME NEW s \in Sessions, PendingOK(s), NextIncident(s) <= MaxIncidents
  PROVE  /\ NextIncident(s) \in Incidents
         /\ Registered(s) \in Sessions /\ PendingOK(Registered(s))
         /\ Registered(s).turns = s.turns /\ Registered(s).referents = s.referents
         /\ Registered(s).chain = s.chain /\ Registered(s).pending = s.pending
BY DialogueAssumption DEF NextIncident, Registered, Sessions, Incidents, PendingOK

\* A report ends a turn.
LEMMA ReportOK ==
  ASSUME NEW s \in Sessions, PendingOK(s), s.incidents < MaxIncidents,
         NEW step \in 0..Steps
  PROVE  EndOK(s, Report(s, step))
<1> DEFINE i == NextIncident(s)
           t == [Registered(s) EXCEPT !.chain[i] = step]
<1>a. "COMMITTED" \in Outcomes /\ None # "REFERENT" /\ None \in Means \cup {None}
  BY NoValueAssumption DEF Outcomes, Means
<1>b. NextIncident(s) <= MaxIncidents
  BY DialogueAssumption DEF NextIncident, Sessions
<1>1. CASE s.chain = None
  <2>1. EndOK(s, Unspoken(Result("CLARIFICATION"), s))
    BY UnspokenOK DEF Outcomes
  <2>2. EndOK(s, Speaks(i, Grounded("COMMITTED", None, i), Note(Registered(s), i)))
    BY <1>b, <1>a, RegisteredOK, SpeaksOK
  <2> QED  BY <1>1, <2>1, <2>2 DEF Report
<1>2. CASE s.chain # None
  <2>1. t.chain \in Chains
    BY <1>b, <1>2, RegisteredOK DEF Sessions, Chains
  <2>2. t \in Sessions /\ t.turns = s.turns /\ t.referents = s.referents
    BY <1>b, <2>1, RegisteredOK DEF Sessions
  <2>3. PendingOK(t)
    BY <2>1, NoValueAssumption DEF PendingOK
  <2>4. EndOK(s, Speaks(i, Grounded("COMMITTED", None, i), Note(t, i)))
    BY <1>b, <1>a, <2>2, <2>3, RegisteredOK, SpeaksOK
  <2> QED  BY <1>2, <2>4 DEF Report
<1> QED  BY <1>1, <1>2

\* Whatever is understood, the turn it is about ends (_dispatch).
LEMMA RespondOK ==
  ASSUME NEW s \in Sessions, PendingOK(s), NEW a \in Answers("intent", s.incidents)
  PROVE  EndOK(s, Respond(s, a))
<1> DEFINE ground == ResolveIncident(s, a.phrase)
<1>1. /\ a \in Intents /\ a.step \in 0..Steps
      /\ a.kind = "REPORT_INCIDENT" => s.incidents < MaxIncidents
  BY DialogueAssumption DEF Answers
<1>2. /\ ground.via \in Means \cup {None} /\ ground.candidates \subseteq Incidents
      /\ ground.via # None => ground.incident \in Incidents
      /\ ground.via = "REFERENT" => Newest(s) = {ground.incident}
  BY GroundOK
<1>3. CASE a.kind = "REPORT_INCIDENT"
  BY <1>1, <1>3, ReportOK, ClarifyOK DEF Respond
<1>4. CASE a.kind = "UPDATE_MISSION"
  <2>1. CASE s.chain = None
    BY <1>1, <1>4, <2>1, ClarifyOK DEF Respond
  <2>2. CASE s.chain # None /\ ground.via = None
    BY <1>1, <1>2, <1>4, <2>2, ClarifyOK DEF Respond
  <2>3. CASE s.chain # None /\ ground.via # None
    BY <1>1, <1>2, <1>4, <2>3, UpdateOK DEF Respond
  <2> QED  BY <2>1, <2>2, <2>3
<1>5. CASE a.kind = "QUERY_STATUS"
  <2>1. CASE a.phrase = None
    BY <1>5, <2>1, UnspokenOK DEF Respond, Outcomes
  <2>2. CASE a.phrase # None /\ ground.via = None
    BY <1>1, <1>2, <1>5, <2>2, ClarifyOK DEF Respond
  <2>3. CASE a.phrase # None /\ ground.via # None
    BY <1>1, <1>2, <1>5, <2>3, QueryOK DEF Respond
  <2> QED  BY <2>1, <2>2, <2>3
<1>6. CASE a.kind = "NEW_MISSION"
  BY <1>6, UnspokenOK DEF Respond, Outcomes
<1>7. CASE a.kind \notin {"REPORT_INCIDENT", "UPDATE_MISSION", "QUERY_STATUS", "NEW_MISSION"}
  BY <1>7, UnspokenOK DEF Respond, Outcomes
<1> QED  BY <1>3, <1>4, <1>5, <1>6, <1>7

\* A graph that is approved or refused, and a failure, end a turn.
LEMMA GenerationOK ==
  ASSUME NEW s \in Sessions, PendingOK(s)
  PROVE  EndOK(s, Approved(s)) /\ EndOK(s, Refused(s)) /\ EndOK(s, Failed(s))
<1> DEFINE t == [s EXCEPT !.chain = [i \in Incidents |-> 0]]
<1>1. [i \in Incidents |-> 0] \in Chains
  BY DialogueAssumption DEF Chains
<1>2. t \in Sessions /\ t.turns = s.turns /\ t.referents = s.referents /\ PendingOK(t)
  BY <1>1, NoValueAssumption DEF Sessions, PendingOK
<1> QED  BY <1>2, UnspokenOK DEF Approved, Refused, Failed, Outcomes

\* The session in which a turn runs.
LEMMA NextTurnOK ==
  ASSUME NEW s \in Sessions, PendingOK(s)
  PROVE  LET answered == [NextTurn(s) EXCEPT !.pending = None] IN
         /\ NextTurn(s) \in Sessions /\ PendingOK(NextTurn(s))
         /\ answered \in Sessions /\ PendingOK(answered)
         /\ \A t \in {NextTurn(s), answered} :
              /\ t.turns = s.turns + 1 /\ t.referents = s.referents
              /\ t.incidents = s.incidents /\ t.chain = s.chain
         /\ NextTurn(s).pending = s.pending
<1> DEFINE answered == [NextTurn(s) EXCEPT !.pending = None]
<1>1. /\ NextTurn(s) \in Sessions /\ NextTurn(s).turns = s.turns + 1
      /\ NextTurn(s).referents = s.referents /\ NextTurn(s).incidents = s.incidents
      /\ NextTurn(s).chain = s.chain /\ NextTurn(s).pending = s.pending
  BY DEF NextTurn, Sessions
<1>2. /\ answered \in Sessions /\ answered.turns = s.turns + 1
      /\ answered.referents = s.referents /\ answered.incidents = s.incidents
      /\ answered.chain = s.chain /\ answered.pending = None
  BY <1>1 DEF Sessions
<1> QED  BY <1>1, <1>2 DEF PendingOK

\* The choice of a candidate ends the turn it is.
LEMMA ChosenOK ==
  ASSUME NEW s \in Sessions, PendingOK(s), s.pending # None,
         NEW i \in s.pending.candidates
  PROVE  EndOK([NextTurn(s) EXCEPT !.pending = None], Chosen(s, i))
<1> DEFINE t == [NextTurn(s) EXCEPT !.pending = None]
           ground == Resolved("EXPLICIT", i)
<1>1. s.pending.intent \in Intents /\ i \in Incidents
  BY DEF Sessions
<1>2. s.pending.intent.step \in 0..Steps
  BY <1>1, DialogueAssumption
<1>3. ground.via = "EXPLICIT" /\ ground.incident = i /\ ground.via \in Means
  BY DEF Resolved, Means
<1>4. t \in Sessions /\ PendingOK(t) /\ t.chain = s.chain
  BY NextTurnOK
<1>5. CASE s.pending.intent.kind = "UPDATE_MISSION"
  <2>1. t.chain # None
    BY <1>4, <1>5 DEF PendingOK
  <2>2. EndOK(t, Update(t, ground, s.pending.intent.step))
    BY <1>1, <1>2, <1>3, <1>4, <2>1, UpdateOK
  <2> QED  BY <1>5, <2>2 DEF Chosen
<1>6. CASE s.pending.intent.kind # "UPDATE_MISSION"
  <2>1. EndOK(t, Query(t, ground))
    BY <1>1, <1>3, <1>4, QueryOK
  <2> QED  BY <1>6, <2>1 DEF Chosen
<1> QED  BY <1>5, <1>6

\* So do a repetition, a cancellation and an observed fire.
LEMMA DeterministicOK ==
  ASSUME NEW s \in Sessions, PendingOK(s)
  PROVE  /\ EndOK(NextTurn(s), Repeated(s))
         /\ EndOK([NextTurn(s) EXCEPT !.pending = None], Cancelled(s))
         /\ s.chain # None /\ NextIncident(s) <= MaxIncidents => EndOK(s, Observed(s))
<1>1. EndOK(NextTurn(s), Repeated(s))
  BY NextTurnOK, UnspokenOK DEF Repeated, Outcomes
<1>2. EndOK([NextTurn(s) EXCEPT !.pending = None], Cancelled(s))
  BY NextTurnOK, UnspokenOK DEF Cancelled, Outcomes
<1>3. ASSUME NextIncident(s) <= MaxIncidents
      PROVE  EndOK(s, Observed(s))
  <2> DEFINE i == NextIncident(s)
             t == [Registered(s) EXCEPT !.online = TRUE]
  <2>1. i \in Incidents
    BY <1>3, RegisteredOK
  <2>2. t \in Sessions /\ t.turns = s.turns /\ t.referents = s.referents /\ PendingOK(t)
    BY <1>3, RegisteredOK DEF Sessions, PendingOK
  <2>3. Note(t, i) \in Sessions /\ PendingOK(Note(t, i)) /\ Note(t, i).turns = s.turns
    BY <2>1, <2>2, NoteOK DEF PendingOK
  <2>4. Note(t, i).referents = Note(s, i).referents
    BY <2>2 DEF Note, Sessions
  <2>5. Quiet \in Results /\ Quiet.via # "REFERENT"
    BY DialogueAssumption, NoValueAssumption DEF Quiet, Results, Outcomes, Means
  <2> QED  BY <2>1, <2>3, <2>4, <2>5
           DEF Observed, Speaks, EndOK, Endings, Referring
<1> QED  BY <1>1, <1>2, <1>3

-----------------------------------------------------------------------------
(* The end of a turn.                                                      *)

\* A sole newest referent is the incident that was spoken about last, and not
\* too long ago.
LEMMA NewestIsLast ==
  ASSUME NEW s \in Sessions, MentionedOK, WindowAt(s), NEW i, Newest(s) = {i}
  PROVE  /\ i \in DOMAIN mentioned /\ s.turns < mentioned[i] + Window
         /\ \A j \in DOMAIN mentioned \ {i} : mentioned[j] < mentioned[i]
<1>1. PICK r \in Live(s) : r.incident = i /\ \A q \in Live(s) : q.turn <= r.turn
  BY DEF Newest
<1>2. r \in s.referents /\ r.turn \in Nat /\ r.turn + Window > s.turns
  BY <1>1 DEF Live, Sessions, Referents
<1>3. i \in DOMAIN mentioned /\ r.turn <= mentioned[i] /\ mentioned[i] \in Nat
  BY <1>1, <1>2 DEF WindowAt, MentionedOK
<1>4. s.turns \in Nat /\ Window \in Nat
  BY DialogueAssumption DEF Sessions
<1>5. ASSUME NEW j \in DOMAIN mentioned \ {i}
      PROVE  mentioned[j] < mentioned[i]
  <2>1. mentioned[j] \in Nat
    BY DEF MentionedOK
  <2>2. CASE mentioned[j] + Window > s.turns
    <3> DEFINE q == [incident |-> j, turn |-> mentioned[j]]
    <3>1. q \in Live(s)
      BY <2>2 DEF WindowAt, Live
    <3>2. q.turn <= r.turn
      BY <1>1, <3>1
    <3>3. q.turn # r.turn
      <4>1. SUFFICES ASSUME q.turn = r.turn PROVE FALSE
        OBVIOUS
      <4>2. \A p \in Live(s) : p.turn <= q.turn
        BY <1>1, <4>1
      <4>3. q.incident \in Newest(s)
        BY <3>1, <4>2 DEF Newest
      <4> QED  BY <4>3
    <3> QED  BY <1>2, <1>3, <2>1, <3>2, <3>3
  <2>3. CASE ~ (mentioned[j] + Window > s.turns)
    BY <1>2, <1>3, <1>4, <2>1, <2>3
  <2> QED  BY <2>2, <2>3
<1> QED  BY <1>2, <1>3, <1>4, <1>5

\* The window holds when the turn of session s ends.
LEMMA WindowAtEnd ==
  ASSUME NEW s \in Sessions, MentionedOK, WindowAt(s), NEW input, NEW end,
         EndOK(s, end), Ends(input, end)
  PROVE  MentionedOK' /\ WindowOK'
<1>1. /\ session' = end.after /\ session' \in Sessions /\ last' = end.result
      /\ session'.turns = s.turns /\ s.turns \in Nat /\ Window \in Nat \ {0}
      /\ s.referents \subseteq Referents
  BY DialogueAssumption DEF Ends, EndOK, Endings, Referring, Sessions
<1>2. mentioned' = [i \in DOMAIN mentioned \cup end.about |->
                     IF i \in end.about THEN s.turns ELSE mentioned[i]]
  BY <1>1 DEF Ends
<1>3. MentionedOK'
  BY <1>1, <1>2 DEF MentionedOK, EndOK, Endings
<1>4. CASE end.about = {} /\ end.after.referents = s.referents
  <2>1. mentioned' = mentioned
    BY <1>2, <1>4 DEF MentionedOK
  <2>2. WindowAt(session)'
    BY <1>1, <1>4, <2>1 DEF WindowAt
  <2>3. WindowHolds'
    <3>1. SUFFICES ASSUME last'.via = "REFERENT"
                   PROVE  /\ last'.incident \in DOMAIN mentioned
                          /\ s.turns < mentioned[last'.incident] + Window
                          /\ \A j \in DOMAIN mentioned \ {last'.incident} :
                               mentioned[j] < mentioned[last'.incident]
      BY <1>1, <2>1 DEF WindowHolds
    <3>2. Newest(s) = {last'.incident}
      BY <1>1, <3>1 DEF EndOK, Referring
    <3> QED  BY <3>2, NewestIsLast
  <2> QED  BY <1>3, <2>2, <2>3 DEF WindowOK
<1>5. ASSUME NEW i \in Incidents, end.about = {i},
             end.after.referents = Note(s, i).referents
      PROVE  WindowOK'
  <2> DEFINE new == [incident |-> i, turn |-> s.turns]
  <2>1. session'.referents = {r \in s.referents \cup {new} : r.turn + Window > s.turns}
    BY <1>1, <1>5 DEF Note, Sessions
  <2>2. /\ DOMAIN mentioned' = DOMAIN mentioned \cup {i} /\ mentioned'[i] = s.turns
        /\ \A j \in DOMAIN mentioned \ {i} : mentioned'[j] = mentioned[j]
    BY <1>2, <1>5
  <2>3. \A j \in DOMAIN mentioned : mentioned[j] \in Nat /\ mentioned[j] <= s.turns
    BY DEF MentionedOK, WindowAt
  <2>4. ASSUME NEW r \in session'.referents
        PROVE  r.incident \in DOMAIN mentioned' /\ r.turn <= mentioned'[r.incident]
    <3>1. CASE r = new
      BY <1>1, <2>2, <3>1
    <3>2. CASE r \in s.referents
      <4>1. r.incident \in DOMAIN mentioned /\ r.turn <= mentioned[r.incident]
        BY <3>2 DEF WindowAt
      <4>2. r.turn \in Nat
        BY <1>1, <3>2 DEF Referents
      <4> QED  BY <1>1, <2>2, <2>3, <4>1, <4>2
    <3> QED  BY <2>1, <3>1, <3>2
  <2>5. ASSUME NEW j \in DOMAIN mentioned'
        PROVE  /\ mentioned'[j] <= s.turns
               /\ mentioned'[j] + Window > s.turns =>
                    [incident |-> j, turn |-> mentioned'[j]] \in session'.referents
    <3>1. CASE j = i
      BY <1>1, <2>1, <2>2, <3>1
    <3>2. CASE j \in DOMAIN mentioned /\ j # i
      <4>1. mentioned[j] + Window > s.turns =>
              [incident |-> j, turn |-> mentioned[j]] \in s.referents
        BY <3>2 DEF WindowAt
      <4> QED  BY <2>1, <2>2, <2>3, <3>2, <4>1
    <3> QED  BY <2>2, <3>1, <3>2
  <2>6. WindowAt(session)'
    BY <1>1, <2>4, <2>5 DEF WindowAt
  <2>7. WindowHolds'
    <3>1. SUFFICES ASSUME last'.via = "REFERENT"
                   PROVE  /\ last'.incident = i
                          /\ \A j \in DOMAIN mentioned' \ {i} : mentioned'[j] < s.turns
      BY <1>1, <2>2 DEF WindowHolds
    <3>2. Newest(s) = {last'.incident} /\ {i} \subseteq {last'.incident}
      BY <1>1, <1>5, <3>1 DEF EndOK, Referring
    <3>3. i \in DOMAIN mentioned /\ \A j \in DOMAIN mentioned \ {i} : mentioned[j] < mentioned[i]
      BY <3>2, NewestIsLast
    <3> QED  BY <1>1, <2>2, <2>3, <3>2, <3>3
  <2> QED  BY <2>6, <2>7 DEF WindowOK
<1> QED  BY <1>3, <1>4, <1>5 DEF EndOK, Referring

\* The last words are forgotten no sooner when the next turn begins.
LEMMA WindowNextTurn ==
  ASSUME NEW s \in Sessions, NEW t, MentionedOK, WindowAt(s),
         t.turns = s.turns + 1, t.referents = s.referents
  PROVE  WindowAt(t)
<1>1. s.turns \in Nat /\ Window \in Nat /\ \A i \in DOMAIN mentioned : mentioned[i] \in Nat
  BY DialogueAssumption DEF Sessions, MentionedOK
<1> QED  BY <1>1 DEF WindowAt

-----------------------------------------------------------------------------
(* One step at a time: what holds without regard to the recording.         *)

BaseInv == TypeOK /\ TurnOK /\ DiskOK /\ AskedOK /\ WindowOK

\* What ends a turn leaves everything in order.
LEMMA EndsStep ==
  ASSUME BaseInv, NEW s \in Sessions, WindowAt(s), tmp = None,
         NEW input \in Inputs, NEW end, EndOK(s, end), Ends(input, end),
         UNCHANGED asked \/ asked' = <<>>, faulty' \in Nat, exact' \in BOOLEAN
  PROVE  BaseInv'
<1>1. MentionedOK' /\ WindowOK'
  BY WindowAtEnd DEF BaseInv, TypeOK
<1>2. end \in Endings /\ PendingOK(end.after)
  BY DEF EndOK
<1>3. asked' \in Seq([stage : Calls, answer : Replies])
  <2>1. asked \in Seq([stage : Calls, answer : Replies])
    BY DEF BaseInv, TypeOK
  <2>2. <<>> \in Seq([stage : Calls, answer : Replies])
    OBVIOUS
  <2> QED  BY <2>1, <2>2
<1>4. script' \in Seq(Recorded)
  <2> DEFINE entry == [input |-> input, result |-> end.result, after |-> end.after]
  <2>1. entry \in Recorded
    BY <1>2 DEF Recorded, Endings
  <2>2. script \in Seq(Recorded)
    BY DEF BaseInv, TypeOK
  <2>3. script' = Append(script, entry) \/ script' = script
    BY DEF Ends
  <2> HIDE DEF entry
  <2> QED  BY <2>1, <2>2, <2>3
<1>5. TypeOK'
  BY <1>1, <1>2, <1>3, <1>4 DEF BaseInv, TypeOK, Ends, Endings, storeVars
<1>6. TurnOK'
  BY <1>2 DEF TurnOK, Ends, Idle, DraftsAt, storeVars
<1>7. DiskOK'
  BY DEF BaseInv, DiskOK, CacheWhole, Ends, storeVars
<1>8. AskedOK'
  <2>1. CASE UNCHANGED asked
    BY <2>1 DEF BaseInv, AskedOK, Leads, Ends, Idle
  <2>2. CASE asked' = <<>>
    BY <2>2 DEF AskedOK, Leads, Ends, Idle
  <2> QED  BY <2>1, <2>2
<1> QED  BY <1>1, <1>5, <1>6, <1>7, <1>8 DEF BaseInv

\* The answers to a call, and the prompt that is sent.
LEMMA AnswersAreReplies ==
  ASSUME NEW st \in Calls, NEW n
  PROVE  Answers(st, n) \subseteq Replies
BY DEF Calls, Answers, Replies, Verdicts

\* A prompt tells the call it is for, and how many incidents are known.
LEMMA PromptOK ==
  ASSUME BaseInv, ~ Idle
  PROVE  /\ stage \in Calls /\ Prompt \in Prompts
         /\ Prompt.stage = stage /\ Prompt.context.incidents = session.incidents
<1>1. stage \in Calls
  BY DEF BaseInv, TypeOK, Idle
<1>2. Live(session) \subseteq Referents
  BY DEF BaseInv, TypeOK, Live, Sessions
<1>3. CASE stage \in {"intent", "intentRepair"}
  <2> DEFINE c == [incidents |-> session.incidents, online |-> session.online,
                   chain |-> session.chain, referents |-> Live(session)]
  <2>1. Context(stage, session) = c
    BY <1>3 DEF Context
  <2>2. c \in [incidents : 0..MaxIncidents, online : BOOLEAN,
               chain : Chains \cup {None}, referents : SUBSET Referents]
    BY <1>2 DEF BaseInv, TypeOK, Sessions
  <2>3. c.incidents = session.incidents
    OBVIOUS
  <2> HIDE DEF c
  <2> QED  BY <1>1, <2>1, <2>2, <2>3 DEF BaseInv, TypeOK, Prompt, PromptAt, Prompts
<1>4. CASE stage \notin {"intent", "intentRepair"}
  <2>1. Context(stage, session) = [incidents |-> session.incidents]
    BY <1>4 DEF Context
  <2>2. [incidents |-> session.incidents] \in [incidents : 0..MaxIncidents]
    BY DEF BaseInv, TypeOK, Sessions
  <2> QED  BY <1>1, <2>1, <2>2 DEF BaseInv, TypeOK, Prompt, PromptAt, Prompts
<1> QED  BY <1>3, <1>4

\* A call is made once, after those it rests on.
LEMMA AsksStep ==
  ASSUME BaseInv, Calling, NEW a \in Replies, reply' = a, Asks(a),
         UNCHANGED <<stage, mode>>
  PROVE  asked' \in Seq([stage : Calls, answer : Replies]) /\ AskedOK'
<1> DEFINE call == [stage |-> stage, answer |-> a]
<1>1. ~ Idle /\ stage \in Calls /\ reply = None /\ a # None
  BY NoValueAssumption DEF BaseInv, TypeOK, Calling, Idle
<1>2. call \in [stage : Calls, answer : Replies]
  BY <1>1
<1>3. asked \in Seq([stage : Calls, answer : Replies]) /\ Len(asked) \in Nat
  BY DEF BaseInv, TypeOK
<1>4. Len(asked) < Rank(stage) /\ Rank(stage) \in 1..5
  BY <1>1 DEF BaseInv, AskedOK, Rank, Calls
<1>5. asked' = Append(asked, call)
  BY <1>3, <1>4 DEF Asks
<1>6. /\ asked' \in Seq([stage : Calls, answer : Replies])
      /\ Len(asked') = Len(asked) + 1 /\ asked'[Len(asked) + 1] = call
      /\ \A n \in 1..Len(asked) : asked'[n] = asked[n]
  BY <1>2, <1>3, <1>5
<1>7. /\ \A n \in 1..Len(asked) : n <= Rank(asked[n].stage)
      /\ \A n \in 1..(Len(asked) - 1) : Leads(asked[n], asked[n + 1].stage)
      /\ \A m, n \in 1..Len(asked) : m < n => Rank(asked[m].stage) < Rank(asked[n].stage)
      /\ \A n \in 1..Len(asked) : Rank(asked[n].stage) < Rank(stage)
      /\ Len(asked) > 0 => Leads(asked[Len(asked)], stage) /\ asked[1].stage = "intent"
      /\ Len(asked) = 0 => stage = "intent"
  <2>1. AskedOK /\ ~ Idle /\ reply = None
    BY <1>1 DEF BaseInv
  <2> HIDE DEF call
  <2> QED  BY <1>3, <2>1 DEF AskedOK
<1> HIDE DEF call
<1>8. call.stage = stage
  BY DEF call
<1>9. \A n \in 1..Len(asked') : n <= Rank(asked'[n].stage)
  BY <1>3, <1>4, <1>6, <1>7, <1>8
<1>10. \A n \in 1..(Len(asked') - 1) : Leads(asked'[n], asked'[n + 1].stage)
  <2> TAKE n \in 1..(Len(asked') - 1)
  <2>1. CASE n < Len(asked)
    <3>1. n \in 1..(Len(asked) - 1) /\ n + 1 \in 1..Len(asked)
      BY <1>3, <1>6, <2>1
    <3> QED  BY <1>3, <1>6, <1>7, <3>1
  <2>2. CASE n = Len(asked)
    BY <1>3, <1>6, <1>7, <1>8, <2>2
  <2> QED  BY <1>3, <1>6, <2>1, <2>2
<1>11. \A m, n \in 1..Len(asked') :
         m < n => Rank(asked'[m].stage) < Rank(asked'[n].stage)
  <2> TAKE m, n \in 1..Len(asked')
  <2>1. CASE m \in 1..Len(asked) /\ n \in 1..Len(asked)
    BY <1>6, <1>7, <2>1
  <2>2. CASE m \in 1..Len(asked) /\ n = Len(asked) + 1
    BY <1>6, <1>7, <1>8, <2>2
  <2>3. CASE m = Len(asked) + 1
    BY <1>3, <1>6, <2>3
  <2> QED  BY <1>3, <1>6, <2>1, <2>2, <2>3
<1>12. mode' = "mock" =>
         /\ stage' # "intentRepair"
         /\ \A n \in 1..Len(asked') : asked'[n].stage # "intentRepair"
  BY <1>3, <1>6, <1>8 DEF BaseInv, AskedOK
<1>13. Len(asked') > 0 /\ asked'[Len(asked')] = [stage |-> stage', answer |-> reply']
  BY <1>3, <1>6 DEF call
<1>14. ~ (~ Idle' /\ reply' = None)
  BY <1>1
<1>15. asked'[1].stage = "intent"
  BY <1>3, <1>6, <1>7, <1>8
<1> QED  BY <1>6, <1>9, <1>10, <1>11, <1>12, <1>13, <1>14, <1>15 DEF AskedOK

\* The model answers, and the answer is about to be stored.
LEMMA ModelAnswersStep ==
  ASSUME BaseInv, ModelAnswers
  PROVE  BaseInv'
<1>1. PICK a \in Answers(stage, session.incidents) \cup {Invalid} :
        /\ reply' = a /\ Hears(a)
        /\ IF IsFault(stage, a) THEN Fault ELSE UNCHANGED faulty
        /\ IF mode = "live" /\ a # Invalid THEN Record(a) ELSE UNCHANGED storeVars
  BY DEF ModelAnswers
<1>2. /\ Calling /\ ~ Idle /\ reply = None /\ tmp = None
      /\ UNCHANGED <<mode, session, stage, utterance, drafts, script, position, last, spent,
                     mentioned>>
  BY DEF ModelAnswers, Calling, Idle
<1>3. stage \in Calls /\ Prompt \in Prompts
  BY <1>2, PromptOK
<1>4. a \in Replies
  BY <1>3, AnswersAreReplies DEF Replies
<1>5. asked' \in Seq([stage : Calls, answer : Replies]) /\ AskedOK'
  BY <1>1, <1>2, <1>4, AsksStep DEF Hears
<1>6. /\ disk' = disk
      /\ tmp' # None => /\ mode = "live" /\ a # Invalid
                       /\ tmp' = [key |-> Key(Prompt), answer |-> a]
  BY <1>1, <1>2 DEF Record, storeVars
<1>7. DOMAIN heard' \subseteq Prompts /\ exact' \in BOOLEAN
  <2>1. DOMAIN heard \subseteq Prompts /\ exact \in BOOLEAN
    BY DEF BaseInv, TypeOK
  <2> QED  BY <1>1, <1>3, <2>1 DEF Hears, Put
<1>8. faulty' \in Nat
  <2>1. faulty \in Nat
    BY DEF BaseInv, TypeOK
  <2> QED  BY <1>1, <2>1 DEF Fault
<1>9. tmp' \in [key : Prompts, answer : Replies] \cup {None}
  BY <1>3, <1>4, <1>6 DEF Key
<1>10. TypeOK'
  BY <1>1, <1>2, <1>4, <1>5, <1>6, <1>7, <1>8, <1>9 DEF BaseInv, TypeOK, MentionedOK
<1>11. TurnOK'
  <2>1. Prompt' = Prompt /\ Key(Prompt)' = Key(Prompt)
    BY <1>2 DEF Prompt, PromptAt, Context, Live, Key
  <2>2. a # None
    BY <1>4, NoValueAssumption
  <2> QED  BY <1>1, <1>2, <1>6, <2>1, <2>2 DEF BaseInv, TurnOK, Idle, PendingOK
<1>12. DiskOK'
  BY <1>6 DEF BaseInv, DiskOK, CacheWhole
<1>13. WindowOK'
  BY <1>2 DEF BaseInv, WindowOK, WindowAt, WindowHolds, Idle
<1> QED  BY <1>5, <1>10, <1>11, <1>12, <1>13 DEF BaseInv

\* The entry is complete: it answers the prompt of the call.
LEMMA StoreEntryStep ==
  ASSUME BaseInv, StoreEntry
  PROVE  BaseInv'
<1>1. /\ tmp # None /\ reply # None /\ reply # Invalid
      /\ tmp.key = Prompt /\ tmp.answer = reply /\ tmp' = None
      /\ disk' = Put(disk, Prompt, [answer |-> reply, whole |-> TRUE])
      /\ UNCHANGED <<mode, session, turnVars, script, position, last, spent, faulty, historyVars>>
  <2>1. /\ tmp # None /\ tmp = [key |-> Key(Prompt), answer |-> reply]
        /\ reply # None /\ reply # Invalid
    BY DEF StoreEntry, BaseInv, TurnOK
  <2>2. tmp.key = Key(Prompt) /\ tmp.answer = reply
    BY <2>1
  <2>3. Key(Prompt) = Prompt
    BY DEF Key
  <2> QED  BY <2>1, <2>2, <2>3 DEF StoreEntry
<1>2. ~ Idle /\ reply \in Answers(stage, session.incidents) /\ reply \in Replies
  BY <1>1 DEF BaseInv, TypeOK, TurnOK
<1>3. /\ Prompt \in Prompts /\ Prompt.stage = stage
      /\ Prompt.context.incidents = session.incidents
  BY <1>2, PromptOK
<1>4. /\ DOMAIN disk' = DOMAIN disk \cup {Prompt}
      /\ \A k \in DOMAIN disk' :
           disk'[k] = IF k = Prompt THEN [answer |-> reply, whole |-> TRUE] ELSE disk[k]
  BY <1>1 DEF Put
<1>5. disk' \in [DOMAIN disk' -> [answer : Replies, whole : BOOLEAN]]
  <2>1. disk' = [k \in DOMAIN disk' |->
                  IF k = Prompt THEN [answer |-> reply, whole |-> TRUE] ELSE disk[k]]
    BY <1>1 DEF Put
  <2>2. ASSUME NEW k \in DOMAIN disk'
        PROVE  disk'[k] \in [answer : Replies, whole : BOOLEAN]
    <3>1. [answer |-> reply, whole |-> TRUE] \in [answer : Replies, whole : BOOLEAN]
      BY <1>2
    <3>2. k # Prompt => disk[k] \in [answer : Replies, whole : BOOLEAN]
      BY <1>4 DEF BaseInv, TypeOK
    <3> QED  BY <1>4, <3>1, <3>2
  <2> QED  BY <2>1, <2>2
<1>6. TypeOK'
  BY <1>1, <1>3, <1>4, <1>5 DEF BaseInv, TypeOK, MentionedOK, turnVars, historyVars
<1>7. TurnOK'
  BY <1>1 DEF BaseInv, TurnOK, Idle, PendingOK, turnVars
<1>8. DiskOK'
  <2>1. ASSUME NEW k \in DOMAIN disk'
        PROVE  disk'[k].whole /\ disk'[k].answer \in Answers(k.stage, k.context.incidents)
    BY <1>2, <1>3, <1>4 DEF BaseInv, DiskOK, CacheWhole
  <2> QED  BY <2>1 DEF DiskOK, CacheWhole
<1>9. AskedOK'
  BY <1>1 DEF BaseInv, AskedOK, Idle, turnVars
<1>10. WindowOK'
  BY <1>1 DEF BaseInv, WindowOK, WindowAt, WindowHolds, Idle, turnVars, historyVars
<1> QED  BY <1>6, <1>7, <1>8, <1>9, <1>10 DEF BaseInv

\* A hit is an answer to this call.
LEMMA HitStep ==
  ASSUME BaseInv, Calling, Key(Prompt) \in DOMAIN disk,
         reply' = disk[Key(Prompt)].answer, Asks(reply'),
         UNCHANGED <<mode, session, stage, utterance, drafts, storeVars, script, position, last,
                     spent, faulty, historyVars>>
  PROVE  BaseInv'
<1>1. ~ Idle /\ reply = None /\ tmp = None
  BY DEF Calling, Idle
<1>2. /\ stage \in Calls /\ Prompt.stage = stage
      /\ Prompt.context.incidents = session.incidents
  BY <1>1, PromptOK
<1>3. reply' \in Answers(stage, session.incidents)
  BY <1>2 DEF BaseInv, DiskOK, Key
<1>4. reply' \in Replies
  BY <1>2, <1>3, AnswersAreReplies
<1>5. asked' \in Seq([stage : Calls, answer : Replies]) /\ AskedOK'
  BY <1>4, AsksStep
<1>6. TypeOK'
  BY <1>4, <1>5 DEF BaseInv, TypeOK, MentionedOK, storeVars, historyVars
<1>7. TurnOK'
  BY <1>1, <1>3 DEF BaseInv, TurnOK, Idle, PendingOK, storeVars
<1>8. DiskOK' /\ WindowOK'
  BY DEF BaseInv, DiskOK, CacheWhole, WindowOK, WindowAt, WindowHolds, Idle, storeVars,
         historyVars
<1> QED  BY <1>5, <1>6, <1>7, <1>8 DEF BaseInv

\* A call comes after the one that led to it.
LEMMA LeadsOn ==
  ASSUME NEW former, former.stage \in Calls, NEW next \in Calls, Leads(former, next)
  PROVE  /\ Rank(former.stage) < Rank(next)
         /\ Rank(former.stage) \in Nat /\ Rank(next) \in Nat
<1>1. CASE next = "intent"
  BY <1>1 DEF Leads
<1>2. CASE next = "intentRepair"
  BY <1>2 DEF Leads, Rank
<1>3. CASE next = "step1"
  BY <1>3 DEF Leads, Rank
<1>4. CASE next = "step2"
  BY <1>4 DEF Leads, Rank
<1>5. CASE next = "graphRepair"
  BY <1>5 DEF Leads, Rank
<1> QED  BY <1>1, <1>2, <1>3, <1>4, <1>5 DEF Calls

\* The generation goes on to its next call.
LEMMA ProceedStep ==
  ASSUME BaseInv, ~ Idle, reply # None, tmp = None, NEW next \in Calls,
         Leads([stage |-> stage, answer |-> reply], next),
         next = "intentRepair" => mode # "mock", Proceed(next, DraftsAt(next))
  PROVE  BaseInv'
<1>1. DraftsAt(next) \in Seq(Verdicts)
  <2>1. "clean" \in Verdicts /\ "unfit" \in Verdicts
    BY DEF Verdicts
  <2>2. /\ <<>> \in Seq(Verdicts) /\ <<"clean">> \in Seq(Verdicts)
        /\ Append(<<"clean">>, "unfit") \in Seq(Verdicts)
    BY <2>1
  <2> QED  BY <2>2 DEF DraftsAt
<1>2. TypeOK'
  BY <1>1 DEF BaseInv, TypeOK, MentionedOK, Proceed, storeVars, historyVars
<1>3. next # "idle"
  BY DEF Calls
<1>4. TurnOK'
  BY <1>3 DEF BaseInv, TurnOK, Idle, PendingOK, Proceed, storeVars
<1>5. DiskOK' /\ WindowOK'
  BY <1>3 DEF BaseInv, DiskOK, CacheWhole, WindowOK, WindowAt, WindowHolds, Idle, Proceed,
              storeVars, historyVars
<1>6. AskedOK'
  <2> DEFINE call == [stage |-> stage, answer |-> reply]
  <2>1. Len(asked) \in Nat /\ Len(asked) > 0 /\ asked[Len(asked)] = call
    BY DEF BaseInv, TypeOK, AskedOK
  <2>2. call.stage = stage
    OBVIOUS
  <2>3. stage \in Calls
    BY DEF BaseInv, TypeOK, Idle
  <2>4. /\ \A n \in 1..Len(asked) : n <= Rank(asked[n].stage)
        /\ \A m, n \in 1..Len(asked) : m < n => Rank(asked[m].stage) < Rank(asked[n].stage)
    BY DEF BaseInv, AskedOK
  <2> HIDE DEF call
  <2>5. Rank(stage) < Rank(next) /\ Rank(stage) \in Nat /\ Rank(next) \in Nat
    <3>1. Leads(call, next)
      BY DEF call
    <3> QED  BY <2>2, <2>3, <3>1, LeadsOn
  <2>6. Len(asked) < Rank(next)
    BY <2>1, <2>2, <2>4, <2>5
  <2>7. ASSUME NEW n \in 1..Len(asked) PROVE Rank(asked[n].stage) < Rank(next)
    <3>1. CASE n = Len(asked)
      BY <2>1, <2>2, <2>5, <3>1
    <3>2. CASE n < Len(asked)
      <4>1. asked[n].stage \in Calls
        <5> DEFINE calls == [stage : Calls, answer : Replies]
        <5>1. asked \in Seq(calls)
          BY DEF BaseInv, TypeOK
        <5>2. \A c \in calls : c.stage \in Calls
          OBVIOUS
        <5> HIDE DEF calls
        <5>3. asked[n] \in calls
          BY <5>1
        <5> QED  BY <5>2, <5>3
      <4>2. Rank(asked[n].stage) \in Nat
        BY <4>1 DEF Rank, Calls
      <4> QED  BY <2>1, <2>2, <2>4, <2>5, <3>2, <4>2
    <3> QED  BY <2>1, <3>1, <3>2
  <2>8. Leads(asked[Len(asked)], next)
    BY <2>1 DEF call
  <2> QED  BY <2>6, <2>7, <2>8 DEF BaseInv, AskedOK, Proceed, Idle
<1> QED  BY <1>2, <1>4, <1>5, <1>6 DEF BaseInv

\* A new turn begins with its classification.
LEMMA TurnBegins ==
  ASSUME BaseInv, Idle, session.pending = None, NEW u \in Utterances,
         session' = NextTurn(session), stage' = "intent", utterance' = u, asked' = <<>>,
         UNCHANGED <<mode, drafts, reply, storeVars, script, position, last, spent, faulty,
                     historyVars>>
  PROVE  BaseInv'
<1>1. session \in Sessions /\ PendingOK(session)
  BY DEF BaseInv, TypeOK, TurnOK
<1>2. /\ session' \in Sessions /\ PendingOK(session)' /\ session'.pending = None
      /\ session'.turns = session.turns + 1 /\ session'.referents = session.referents
  BY <1>1, NextTurnOK DEF PendingOK
<1>3. asked' \in Seq([stage : Calls, answer : Replies]) /\ Len(asked') = 0
  <2>1. <<>> \in Seq([stage : Calls, answer : Replies]) /\ Len(<<>>) = 0
    OBVIOUS
  <2> QED  BY <2>1
<1>4. TypeOK'
  BY <1>2, <1>3 DEF BaseInv, TypeOK, MentionedOK, Calls, storeVars, historyVars
<1>5. TurnOK'
  BY <1>2 DEF BaseInv, TurnOK, Idle, DraftsAt, storeVars
<1>6. WindowAt(session')
  BY <1>1, <1>2, WindowNextTurn DEF BaseInv, TypeOK, WindowOK
<1>7. WindowOK'
  BY <1>6 DEF WindowOK, WindowAt, WindowHolds, Idle, historyVars
<1>8. AskedOK'
  BY <1>3 DEF BaseInv, TurnOK, AskedOK, Idle, Rank
<1>9. DiskOK'
  BY DEF BaseInv, DiskOK, CacheWhole, storeVars
<1> QED  BY <1>4, <1>5, <1>7, <1>8, <1>9 DEF BaseInv

\* A session that is opened anew has nothing to remember.
LEMMA OpenedOK ==
  /\ Opened \in Sessions /\ Opened.pending = None /\ Opened.referents = {}
  /\ Quiet \in Results /\ Quiet.via # "REFERENT"
BY DialogueAssumption, NoValueAssumption
   DEF Opened, Sessions, Incidents, Quiet, Results, Outcomes, Means

\* A crash and a replay open a session, whatever was left by the last one.
LEMMA RestartStep ==
  ASSUME BaseInv, NEW m \in {"live", "cached"}, NEW kept \in Seq(Recorded),
         Restart(m, kept), spent' \in Nat, faulty' = faulty,
         heard' = heard \/ heard' = Empty, exact' \in BOOLEAN
  PROVE  BaseInv'
<1>1. /\ <<>> \in Seq([stage : Calls, answer : Replies]) /\ <<>> \in Seq(Verdicts)
      /\ Len(<<>>) = 0
  OBVIOUS
<1>2. DOMAIN Empty = {} /\ Empty \in [{} -> Nat]
  BY DEF Empty
<1>3. TypeOK'
  BY <1>1, <1>2, OpenedOK DEF BaseInv, TypeOK, MentionedOK, Restart
<1>4. TurnOK'
  BY OpenedOK DEF TurnOK, Restart, Idle, PendingOK, DraftsAt
<1>5. DiskOK'
  BY DEF BaseInv, DiskOK, CacheWhole, Restart
<1>6. AskedOK'
  BY <1>1 DEF AskedOK, Restart, Idle
<1>7. WindowOK'
  BY <1>2, OpenedOK DEF WindowOK, WindowAt, WindowHolds, Restart
<1> QED  BY <1>3, <1>4, <1>5, <1>6, <1>7 DEF BaseInv

\* The first session is opened with an empty cache.
LEMMA BaseInit == Init => BaseInv
<1> SUFFICES ASSUME Init PROVE BaseInv
  OBVIOUS
<1>1. /\ <<>> \in Seq([stage : Calls, answer : Replies]) /\ <<>> \in Seq(Verdicts)
      /\ <<>> \in Seq(Recorded) /\ Len(<<>>) = 0
  OBVIOUS
<1>2. DOMAIN Empty = {} /\ Empty \in [{} -> Nat]
      /\ Empty \in [{} -> [answer : Replies, whole : BOOLEAN]]
  BY DEF Empty
<1>3. TypeOK
  BY <1>1, <1>2, OpenedOK, DialogueAssumption DEF TypeOK, MentionedOK, Init
<1>4. TurnOK
  BY OpenedOK DEF TurnOK, Init, Idle, PendingOK, DraftsAt
<1>5. DiskOK
  BY <1>2 DEF DiskOK, CacheWhole, Init
<1>6. AskedOK
  BY <1>1 DEF AskedOK, Init, Idle
<1>7. WindowOK
  BY <1>2, OpenedOK DEF WindowOK, WindowAt, WindowHolds, Init
<1> QED  BY <1>3, <1>4, <1>5, <1>6, <1>7 DEF BaseInv

-----------------------------------------------------------------------------
(* What is done with an answer.                                            *)

Following(st) ==
  IF st = "intent" THEN "step1" ELSE IF st = "step1" THEN "step2" ELSE "graphRepair"

\* A valid answer ends the turn or leads to the next call of the pipeline.
LEMMA ValidReply ==
  ASSUME BaseInv, UseReply, reply # Invalid, stage # "intentRepair"
  PROVE  /\ stage \in Calls \ {"intentRepair"}
         /\ reply \in Answers(stage, session.incidents)
         /\ IF IsEnd(session, stage, reply)
            THEN FinishTurn(EndAt(session, stage, reply))
            ELSE /\ stage # "graphRepair"
                 /\ Proceed(Following(stage), DraftsAt(Following(stage)))
<1>1. stage \in {"intent", "step1", "step2", "graphRepair"} /\ reply # None
  BY DEF UseReply, Understand, FirstStep, SecondStep, RepairStep
<1>2. reply \in Answers(stage, session.incidents) /\ drafts = DraftsAt(stage)
  BY <1>1 DEF BaseInv, TurnOK, Idle
<1>3. CASE stage = "intent"
  <2>1. Dispatch(reply) /\ drafts = <<>>
    BY <1>2, <1>3 DEF UseReply, Understand, FirstStep, SecondStep, RepairStep, DraftsAt
  <2> QED  BY <1>2, <1>3, <2>1 DEF Dispatch, IsEnd, EndAt, Following, DraftsAt, Calls
<1>4. CASE stage = "step1"
  <2>1. reply \in {"clean", "unclean"}
    BY <1>2, <1>4 DEF Answers
  <2>2. FirstStep
    BY <1>4 DEF UseReply, Understand, SecondStep, RepairStep
  <2>3. CASE reply = "clean"
    <3>1. Proceed("step2", <<"clean">>)
      BY <2>2, <2>3 DEF FirstStep, Clean
    <3> QED  BY <1>2, <1>4, <2>3, <3>1 DEF IsEnd, Following, DraftsAt, Calls
  <2>4. CASE reply = "unclean"
    <3>1. Refuse
      BY <2>2, <2>4 DEF FirstStep, Clean
    <3> QED  BY <1>2, <1>4, <2>4, <3>1 DEF IsEnd, EndAt, Refuse, Calls
  <2> QED  BY <2>1, <2>3, <2>4
<1>5. CASE stage = "step2"
  <2>1. reply \in {"fit", "unfit"}
    BY <1>2, <1>5 DEF Answers
  <2>2. SecondStep
    BY <1>5 DEF UseReply, Understand, FirstStep, RepairStep
  <2>3. CASE reply = "fit"
    <3>1. Approve
      BY <2>2, <2>3 DEF SecondStep
    <3> QED  BY <1>2, <1>5, <2>3, <3>1 DEF IsEnd, EndAt, Approve, Calls
  <2>4. CASE reply = "unfit"
    <3>1. Proceed("graphRepair", Append(<<"clean">>, "unfit"))
      <4>1. drafts = <<"clean">>
        BY <1>2, <1>5 DEF DraftsAt
      <4> QED  BY <2>2, <2>4, <4>1 DEF SecondStep
    <3> QED  BY <1>2, <1>5, <2>4, <3>1 DEF IsEnd, Following, DraftsAt, Calls
  <2> QED  BY <2>1, <2>3, <2>4
<1>6. CASE stage = "graphRepair"
  <2>1. reply \in {"fit", "unfit"}
    BY <1>2, <1>6 DEF Answers
  <2>2. RepairStep
    BY <1>6 DEF UseReply, Understand, FirstStep, SecondStep
  <2>3. CASE reply = "fit"
    <3>1. Approve
      BY <2>2, <2>3 DEF RepairStep
    <3> QED  BY <1>2, <1>6, <2>3, <3>1 DEF IsEnd, EndAt, Approve, Calls
  <2>4. CASE reply = "unfit"
    <3>1. Refuse
      BY <2>2, <2>4 DEF RepairStep
    <3> QED  BY <1>2, <1>6, <2>4, <3>1 DEF IsEnd, EndAt, Refuse, Calls
  <2> QED  BY <2>1, <2>3, <2>4
<1> QED  BY <1>1, <1>3, <1>4, <1>5, <1>6

\* An answer, valid or not, is taken as the end of the turn or leads on.
LEMMA UseReplyStep ==
  ASSUME BaseInv, UseReply
  PROVE  BaseInv'
<1>1. /\ ~ Idle /\ reply # None /\ tmp = None /\ stage \in Calls
      /\ session \in Sessions /\ PendingOK(session) /\ WindowAt(session)
      /\ exact \in BOOLEAN /\ faulty \in Nat /\ drafts = DraftsAt(stage)
  BY DEF UseReply, BaseInv, TypeOK, TurnOK, WindowOK, Idle
<1>2. Said(utterance) \in Inputs
  BY DEF BaseInv, TypeOK, Said, Inputs
<1>3. ASSUME NEW end, EndOK(session, end), FinishTurn(end)
      PROVE  BaseInv'
  BY <1>1, <1>2, <1>3, EndsStep DEF FinishTurn, Finish
<1>4. EndOK(session, Refused(session)) /\ EndOK(session, Approved(session))
      /\ EndOK(session, Failed(session))
  BY <1>1, GenerationOK
<1>5. CASE stage = "intentRepair" /\ reply # Invalid
  <2>1. reply \in Answers("intent", session.incidents)
    BY <1>1, <1>5 DEF BaseInv, TurnOK, Answers
  <2>2. Dispatch(reply) /\ drafts = DraftsAt("step1")
    BY <1>1, <1>5 DEF UseReply, Understand, FirstStep, SecondStep, RepairStep, DraftsAt
  <2>3. CASE StartsGeneration(session, reply)
    <3>1. Leads([stage |-> stage, answer |-> reply], "step1")
      BY <1>5, <2>1, <2>3 DEF Leads, Answers, StartsGeneration
    <3>2. Proceed("step1", DraftsAt("step1"))
      BY <2>2, <2>3 DEF Dispatch
    <3>3. "step1" \in Calls
      BY DEF Calls
    <3> QED  BY <1>1, <3>1, <3>2, <3>3, ProceedStep
  <2>4. CASE ~ StartsGeneration(session, reply)
    <3>1. FinishTurn(Respond(session, reply))
      BY <2>2, <2>4 DEF Dispatch
    <3> QED  BY <1>1, <1>3, <2>1, <3>1, RespondOK
  <2> QED  BY <2>3, <2>4
<1>6. CASE reply = Invalid
  <2>1. CASE stage = "intent" /\ mode # "mock"
    <3>1. Leads([stage |-> stage, answer |-> reply], "intentRepair")
      BY <1>6, <2>1 DEF Leads
    <3>2. Proceed("intentRepair", DraftsAt("intentRepair"))
      BY <1>1, <1>6, <2>1
         DEF UseReply, Understand, FirstStep, SecondStep, RepairStep, Repairs, DraftsAt
    <3>3. "intentRepair" \in Calls
      BY DEF Calls
    <3> QED  BY <1>1, <2>1, <3>1, <3>2, <3>3, ProceedStep
  <2>2. CASE stage \in {"intent", "intentRepair"} /\ ~ (stage = "intent" /\ mode # "mock")
    <3>1. TurnError
      BY <1>6, <2>2 DEF UseReply, Understand, FirstStep, SecondStep, RepairStep, Repairs
    <3> QED  BY <1>3, <1>4, <3>1 DEF TurnError
  <2>3. CASE stage \notin {"intent", "intentRepair"}
    <3>1. Refuse
      BY <1>6, <2>3 DEF UseReply, Understand, FirstStep, SecondStep, RepairStep, Clean
    <3> QED  BY <1>3, <1>4, <3>1 DEF Refuse
  <2> QED  BY <2>1, <2>2, <2>3
<1>7. CASE stage # "intentRepair" /\ reply # Invalid
  <2>1. /\ stage \in Calls \ {"intentRepair"}
        /\ reply \in Answers(stage, session.incidents)
        /\ IF IsEnd(session, stage, reply)
           THEN FinishTurn(EndAt(session, stage, reply))
           ELSE /\ stage # "graphRepair"
                /\ Proceed(Following(stage), DraftsAt(Following(stage)))
    BY <1>7, ValidReply
  <2>2. CASE IsEnd(session, stage, reply)
    <3>1. CASE stage = "intent"
      BY <1>1, <1>3, <2>1, <2>2, <3>1, RespondOK DEF EndAt
    <3>2. CASE stage # "intent"
      BY <1>3, <1>4, <2>1, <2>2, <3>2 DEF EndAt
    <3> QED  BY <3>1, <3>2
  <2>3. CASE ~ IsEnd(session, stage, reply)
    <3>1. Following(stage) \in Calls \ {"intentRepair"}
      BY DEF Following, Calls
    <3>2. Leads([stage |-> stage, answer |-> reply], Following(stage))
      <4>1. CASE stage = "intent"
        BY <2>1, <2>3, <4>1 DEF Leads, Following, IsEnd, Answers, StartsGeneration
      <4>2. CASE stage = "step1"
        BY <2>1, <2>3, <4>2 DEF Leads, Following, IsEnd, Answers
      <4>3. CASE stage = "step2"
        BY <2>1, <2>3, <4>3 DEF Leads, Following, IsEnd, Answers
      <4> QED  BY <2>1, <2>3, <4>1, <4>2, <4>3 DEF Calls
    <3> QED  BY <1>1, <2>1, <2>3, <3>1, <3>2, ProceedStep
  <2> QED  BY <2>2, <2>3
<1> QED  BY <1>5, <1>6, <1>7

\* Without the model: a repetition, a choice, a cancellation, a fire.
LEMMA SilentEnds ==
  ASSUME BaseInv, Idle
  PROVE  /\ tmp = None /\ session \in Sessions /\ PendingOK(session) /\ WindowAt(session)
         /\ NextTurn(session) \in Sessions /\ WindowAt(NextTurn(session))
         /\ [NextTurn(session) EXCEPT !.pending = None] \in Sessions
         /\ WindowAt([NextTurn(session) EXCEPT !.pending = None])
<1>1. tmp = None /\ session \in Sessions /\ PendingOK(session) /\ WindowAt(session)
      /\ MentionedOK
  BY DEF BaseInv, TypeOK, TurnOK, WindowOK
<1> QED  BY <1>1, NextTurnOK, WindowNextTurn

\* What is said begins a turn, or ends it when a clarification is pending.
LEMMA SayStep ==
  ASSUME BaseInv, NEW u \in Utterances, Say(u)
  PROVE  BaseInv'
<1>1. Idle /\ exact \in BOOLEAN /\ faulty \in Nat /\ asked' = <<>>
  BY DEF Say, Comes, BaseInv, TypeOK
<1>2. CASE session.pending # None
  <2>1. Ends(Said(u), Repeated(session)) /\ UNCHANGED <<faulty, exact>>
    BY <1>2 DEF Say
  <2>2. EndOK(NextTurn(session), Repeated(session))
    BY <1>1, SilentEnds, DeterministicOK
  <2>3. Said(u) \in Inputs
    BY DEF Said, Inputs
  <2> QED  BY <1>1, <2>1, <2>2, <2>3, SilentEnds, EndsStep
<1>3. CASE session.pending = None
  BY <1>1, <1>3, TurnBegins DEF Say
<1> QED  BY <1>2, <1>3

\* A choice, a cancellation and a fire end at once.
LEMMA SilentStep ==
  ASSUME BaseInv, (\E i \in Known(session) : Select(i)) \/ Cancel \/ Observe
  PROVE  BaseInv'
<1>1. Idle /\ exact \in BOOLEAN /\ faulty \in Nat
  BY DEF Select, Cancel, Observe, Comes, BaseInv, TypeOK
<1>2. ASSUME NEW i \in Known(session), Select(i)
      PROVE  BaseInv'
  <2> DEFINE input == [kind |-> "select", on |-> i]
  <2>1. Finish(input, Chosen(session, i))
    BY <1>2 DEF Select
  <2>2. EndOK([NextTurn(session) EXCEPT !.pending = None], Chosen(session, i))
    BY <1>1, <1>2, SilentEnds, ChosenOK DEF Select
  <2>3. input \in Inputs
    BY <1>1, SilentEnds, DialogueAssumption DEF Inputs, Known, Incidents, Sessions
  <2> QED  BY <1>1, <2>1, <2>2, <2>3, SilentEnds, EndsStep DEF Finish
<1>3. CASE Cancel
  <2> DEFINE input == [kind |-> "cancel", on |-> None]
  <2>1. Finish(input, Cancelled(session))
    BY <1>3 DEF Cancel
  <2>2. EndOK([NextTurn(session) EXCEPT !.pending = None], Cancelled(session))
    BY <1>1, SilentEnds, DeterministicOK
  <2>3. input \in Inputs
    BY DEF Inputs
  <2> QED  BY <1>1, <2>1, <2>2, <2>3, SilentEnds, EndsStep DEF Finish
<1>4. CASE Observe
  <2> DEFINE input == [kind |-> "fire", on |-> None]
  <2>1. Finish(input, Observed(session))
    BY <1>4 DEF Observe
  <2>2. EndOK(session, Observed(session))
    BY <1>1, <1>4, SilentEnds, DeterministicOK DEF Observe
  <2>3. input \in Inputs
    BY DEF Inputs
  <2> QED  BY <1>1, <2>1, <2>2, <2>3, SilentEnds, EndsStep DEF Finish
<1> QED  BY <1>2, <1>3, <1>4

\* A miss and a failing model end the turn.
LEMMA FailedStep ==
  ASSUME BaseInv, BackendFails \/ (Calling /\ TurnError)
  PROVE  BaseInv'
<1>1. Calling /\ tmp = None /\ Ends(Said(utterance), Failed(session)) /\ UNCHANGED asked
  BY DEF BackendFails, TurnError, FinishTurn, Finish, Calling
<1>2. exact' \in BOOLEAN /\ faulty' \in Nat
  <2>1. exact \in BOOLEAN /\ faulty \in Nat
    BY DEF BaseInv, TypeOK
  <2>2. CASE BackendFails
    <3>1. faulty' \in Nat
      BY <2>1, <2>2 DEF BackendFails, Fault
    <3> QED  BY <2>2, <3>1 DEF BackendFails
  <2>3. CASE TurnError
    BY <2>1, <2>3 DEF TurnError, FinishTurn, Finish
  <2> QED  BY <2>2, <2>3
<1>3. session \in Sessions /\ PendingOK(session) /\ WindowAt(session)
  BY DEF BaseInv, TypeOK, TurnOK, WindowOK
<1>4. EndOK(session, Failed(session))
  BY <1>3, GenerationOK
<1>5. Said(utterance) \in Inputs
  BY DEF BaseInv, TypeOK, Said, Inputs
<1> QED  BY <1>1, <1>2, <1>3, <1>4, <1>5, EndsStep

\* No step breaks it.
LEMMA BaseStep ==
  ASSUME BaseInv, [Next]_dialogueVars
  PROVE  BaseInv'
<1>1. CASE ModelAnswers
  BY <1>1, ModelAnswersStep
<1>2. CASE StoreEntry
  BY <1>2, StoreEntryStep
<1>3. CASE CacheAnswers
  BY <1>3, HitStep, FailedStep DEF CacheAnswers
<1>4. CASE UseReply
  BY <1>4, UseReplyStep
<1>5. CASE BackendFails
  BY <1>5, FailedStep
<1>6. CASE Operator
  <2>1. CASE Replay
    <3>1. script \in Seq(Recorded) /\ spent' \in Nat /\ exact' \in BOOLEAN
      BY <2>1 DEF BaseInv, TypeOK, Replay
    <3> QED  BY <2>1, <3>1, RestartStep DEF Replay
  <2> QED  BY <1>6, <2>1, SayStep, SilentStep DEF Operator
<1>7. CASE Crash
  <2>1. script \in Seq(Recorded) /\ <<>> \in Seq(Recorded)
    BY DEF BaseInv, TypeOK
  <2>2. spent' \in Nat
    BY <1>7 DEF BaseInv, TypeOK, Crash, Sessions
  <2>3. exact' \in BOOLEAN
    BY <1>7 DEF BaseInv, TypeOK, Crash
  <2> QED  BY <1>7, <2>1, <2>2, <2>3, RestartStep DEF Crash
<1>8. CASE UNCHANGED dialogueVars
  <2>1. TypeOK' /\ TurnOK'
    BY <1>8 DEF BaseInv, TypeOK, TurnOK, MentionedOK, PendingOK, Idle, Prompt, PromptAt,
       Context, Live, dialogueVars, turnVars, storeVars, historyVars
  <2>2. DiskOK' /\ AskedOK' /\ WindowOK'
    BY <1>8 DEF BaseInv, DiskOK, CacheWhole, AskedOK, WindowOK, WindowAt, WindowHolds,
       Idle, dialogueVars, turnVars, storeVars, historyVars
  <2> QED  BY <2>1, <2>2 DEF BaseInv
<1> QED  BY <1>1, <1>2, <1>3, <1>4, <1>5, <1>6, <1>7, <1>8 DEF Next, Turn

-----------------------------------------------------------------------------
(* The recorded conversation and its replay.                               *)

\* What was agreed on is not forgotten and not contradicted.
AgreementKept == \A p : Agreed(p) => Agreed(p)' /\ heard'[p] = heard[p]

\* What was reached by agreed answers is still reached.
LEMMA ReachesKept ==
  ASSUME AgreementKept, NEW s, NEW said, NEW st, Reaches(s, said, st)
  PROVE  Reaches(s, said, st)'
BY DEF AgreementKept, Reaches, Passes

\* What could be replayed can be replayed.
LEMMA ReplaysKept ==
  ASSUME AgreementKept, NEW s, NEW entry, Replays(s, entry)
  PROVE  Replays(s, entry)'
<1>1. CASE entry.input.kind = "say" /\ s.pending = None
  <2> DEFINE p(st) == Ask(NextTurn(s), entry.input.on, st)
  <2>1. PICK st \in Calls :
          /\ Reaches(NextTurn(s), entry.input.on, st)
          /\ Agreed(p(st)) /\ IsEnd(NextTurn(s), st, heard[p(st)])
          /\ Shows(entry, EndAt(NextTurn(s), st, heard[p(st)]))
    BY <1>1 DEF Replays
  <2>2. Reaches(NextTurn(s), entry.input.on, st)'
    BY <2>1, ReachesKept
  <2>3. Agreed(p(st))' /\ heard'[p(st)] = heard[p(st)]
    BY <2>1 DEF AgreementKept
  <2> QED  BY <1>1, <2>1, <2>2, <2>3 DEF Replays
<1>2. CASE ~ (entry.input.kind = "say" /\ s.pending = None)
  BY <1>2 DEF Replays
<1> QED  BY <1>1, <1>2

\* Agreed answers lead to one call that ends the turn, and through agreed calls.
LEMMA Deterministic ==
  ASSUME NEW s, NEW said, NEW st, NEW other,
         Reaches(s, said, st), Agreed(Ask(s, said, st)),
         IsEnd(s, st, heard[Ask(s, said, st)]), Reaches(s, said, other)
  PROVE  /\ Agreed(Ask(s, said, other))
         /\ IsEnd(s, other, heard[Ask(s, said, other)]) => other = st
<1>1. /\ st \in {"intent", "step1", "step2", "graphRepair"}
      /\ other \in {"intent", "step1", "step2", "graphRepair"}
  BY DEF Reaches, Calls
<1>2. CASE other = st
  BY <1>2
<1>3. CASE other = "intent" /\ st # "intent"
  BY <1>3 DEF Reaches, IsEnd
<1>4. CASE other # "intent" /\ st = "intent"
  BY <1>4 DEF Reaches, IsEnd
<1>5. CASE other = "step1" /\ st \in {"step2", "graphRepair"}
  BY <1>5 DEF Reaches, Passes, IsEnd
<1>6. CASE st = "step1" /\ other \in {"step2", "graphRepair"}
  BY <1>6 DEF Reaches, Passes, IsEnd
<1>7. CASE other = "step2" /\ st = "graphRepair"
  BY <1>7 DEF Reaches, Passes, IsEnd
<1>8. CASE other = "graphRepair" /\ st = "step2"
  BY <1>8 DEF Reaches, Passes, IsEnd
<1> QED  BY <1>1, <1>2, <1>3, <1>4, <1>5, <1>6, <1>7, <1>8

\* The prompt of the turn under way.
LEMMA PromptIsAsk ==
  ASSUME BaseInv
  PROVE  Prompt = Ask(session, utterance, stage)
BY DEF BaseInv, TurnOK, Prompt, Ask

\* A recording that is left alone can be replayed as before.
LEMMA ScriptKept ==
  ASSUME AgreementKept, script' = script, ScriptOK
  PROVE  ScriptOK'
<1>1. \A x, y : Replays(x, y) => Replays(x, y)'
  BY ReplaysKept
<1>2. \A n : Before(n)' = Before(n)
  BY DEF Before
<1> QED  BY <1>1, <1>2 DEF ScriptOK

\* So does a turn under way.
LEMMA UnderwayKept ==
  ASSUME AgreementKept, UNCHANGED <<session, stage, utterance>>, NEW s, Underway(s)
  PROVE  Underway(s)'
<1>1. \A x, y, z : Reaches(x, y, z) => Reaches(x, y, z)'
  BY ReachesKept
<1>2. Reaches(session, utterance, stage)
  BY DEF Underway
<1>3. \A x, y, z : Reaches(x, y, z)' =>
        (x = session /\ y = utterance /\ z = stage => Reaches(session, utterance, stage)')
  OBVIOUS
<1>4. Reaches(session, utterance, stage)'
  BY <1>1, <1>2, <1>3
<1> QED  BY <1>4 DEF Underway

\* What a live turn records can be replayed.
LEMMA LiveEnds ==
  ASSUME BaseInv, ReplayOK, exact, mode = "live", NEW input, NEW end, Ends(input, end),
         Replays(Before(Len(script) + 1),
                 [input |-> input, result |-> end.result, after |-> end.after])
  PROVE  ReplayOK'
<1> DEFINE entry == [input |-> input, result |-> end.result, after |-> end.after]
<1>1. script' = Append(script, entry) /\ script \in Seq(Recorded) /\ Len(script) \in Nat
  BY DEF Ends, BaseInv, TypeOK
<1>2. /\ Len(script') = Len(script) + 1 /\ script'[Len(script) + 1] = entry
      /\ \A n \in 1..Len(script) : script'[n] = script[n]
  BY <1>1
<1>3. AgreementKept
  BY DEF AgreementKept, Agreed, Ends, storeVars
<1>4. \A n \in 1..(Len(script) + 1) : Before(n)' = Before(n)
  BY <1>1, <1>2 DEF Before
<1>5. ScriptOK'
  <2> SUFFICES ASSUME NEW n \in 1..Len(script') PROVE Replays(Before(n), script[n])'
    BY DEF ScriptOK
  <2>1. CASE n \in 1..Len(script)
    <3>1. Replays(Before(n), script[n])
      BY <2>1 DEF ReplayOK, ScriptOK
    <3>2. \A x, y : Replays(x, y) => Replays(x, y)'
      BY <1>3, ReplaysKept
    <3> QED  BY <1>1, <1>2, <1>4, <2>1, <3>1, <3>2
  <2>2. CASE n = Len(script) + 1
    <3>1. \A x, y : Replays(x, y) => Replays(x, y)'
      BY <1>3, ReplaysKept
    <3> QED  BY <1>1, <1>2, <1>4, <2>2, <3>1
  <2> QED  BY <1>1, <1>2, <2>1, <2>2
<1>6. session' = Before(Len(script) + 1)'
  <2>1. session' = entry.after
    BY DEF Ends
  <2> HIDE DEF entry
  <2>2. Len(script') + 1 # 1 /\ (Len(script') + 1) - 1 = Len(script) + 1
    BY <1>1, <1>2
  <2> QED  BY <1>2, <2>1, <2>2 DEF Before
<1>7. LiveOK'
  BY <1>6 DEF LiveOK, Ends, Idle
<1> QED  BY <1>5, <1>7 DEF ReplayOK, Ends

\* What a replayed turn ends with is what was recorded.
LEMMA CachedEnds ==
  ASSUME BaseInv, ReplayOK, exact, mode = "cached", NEW input, NEW end, Ends(input, end),
         position < Len(script), Shows(script[position + 1], end)
  PROVE  ReplayOK'
<1>1. /\ script' = script /\ position' = position + 1 /\ mode' = mode /\ Idle'
      /\ session' = end.after /\ last' = end.result /\ reply' = None
      /\ UNCHANGED <<heard, disk>>
  BY DEF Ends, storeVars, Idle
<1>2. position \in Nat /\ Len(script) \in Nat
  BY DEF BaseInv, TypeOK
<1>3. AgreementKept
  BY <1>1 DEF AgreementKept, Agreed
<1>4. ScriptOK'
  BY <1>1, <1>3, ScriptKept DEF ReplayOK
<1>5. CachedOK'
  BY <1>1, <1>2 DEF CachedOK, Shows, Before
<1> QED  BY <1>1, <1>4, <1>5 DEF ReplayOK

\* An input that needs no model ends in the same way whenever it comes.
LEMMA SilentReplays ==
  ASSUME BaseInv, ReplayOK, NEW input, NEW end, Comes(input), Ends(input, end),
         UNCHANGED exact,
         \A entry : entry.input = input => (Replays(session, entry) <=> Shows(entry, end))
  PROVE  ReplayOK'
<1>1. Idle /\ mode' = mode /\ mode \in {"live", "mock", "cached"}
  BY DEF Comes, Ends, BaseInv, TypeOK
<1>2. CASE ~ exact \/ mode = "mock"
  BY <1>1, <1>2 DEF ReplayOK
<1>3. CASE exact /\ mode = "live"
  <2> DEFINE entry == [input |-> input, result |-> end.result, after |-> end.after]
  <2>1. entry.input = input /\ Shows(entry, end)
    BY DEF Shows
  <2>2. Replays(session, entry)
    BY <2>1
  <2>3. session = Before(Len(script) + 1)
    BY <1>1, <1>3 DEF ReplayOK, LiveOK
  <2> QED  BY <1>3, <2>2, <2>3, LiveEnds
<1>4. CASE exact /\ mode = "cached"
  <2>1. position < Len(script) /\ script[position + 1].input = input
    BY <1>4 DEF Comes
  <2>2. session = Before(position + 1)
    BY <1>1, <1>4 DEF ReplayOK, CachedOK
  <2>3. position + 1 \in 1..Len(script)
    BY <2>1 DEF BaseInv, TypeOK
  <2>4. Replays(session, script[position + 1])
    BY <1>4, <2>2, <2>3 DEF ReplayOK, ScriptOK
  <2>5. Shows(script[position + 1], end)
    BY <2>1, <2>4
  <2> QED  BY <1>4, <2>1, <2>5, CachedEnds
<1> QED  BY <1>1, <1>2, <1>3, <1>4

\* A live turn: each answer is remembered as it will be read.
LEMMA ReplayModelAnswers ==
  ASSUME BaseInv, ReplayOK, ModelAnswers
  PROVE  ReplayOK'
<1>1. PICK a \in Answers(stage, session.incidents) \cup {Invalid} :
        /\ reply' = a /\ Hears(a)
        /\ IF mode = "live" /\ a # Invalid THEN Record(a) ELSE UNCHANGED storeVars
  BY DEF ModelAnswers
<1>2. /\ ~ Idle /\ reply = None /\ mode \in {"live", "mock"}
      /\ UNCHANGED <<mode, session, stage, utterance, drafts, script, position>>
  BY DEF ModelAnswers, Calling, Idle
<1>3. SUFFICES ASSUME exact', mode = "live" PROVE ScriptOK' /\ LiveOK'
  BY <1>2 DEF ReplayOK
<1>4. /\ exact /\ a # Invalid /\ heard' = Put(heard, Prompt, a)
      /\ Prompt \in DOMAIN heard => heard[Prompt] = a
  BY <1>1, <1>3 DEF Hears
<1>5. /\ DOMAIN heard' = DOMAIN heard \cup {Prompt} /\ heard'[Prompt] = a
      /\ \A p \in DOMAIN heard : heard'[p] = heard[p]
  BY <1>4 DEF Put
<1>6. disk' = disk /\ tmp' = [key |-> Key(Prompt), answer |-> a]
  BY <1>1, <1>3, <1>4 DEF Record
<1>7. AgreementKept
  BY <1>5, <1>6 DEF AgreementKept, Agreed
<1>8. tmp' # None
  <2>1. Prompt \in Prompts /\ stage \in Calls
    BY <1>2, PromptOK
  <2>2. a \in Replies
    BY <2>1, AnswersAreReplies DEF Replies
  <2> QED  BY <1>6, <2>1, <2>2, NoValueAssumption DEF Key
<1>9. ScriptOK'
  BY <1>2, <1>3, <1>4, <1>7, ScriptKept DEF ReplayOK
<1>10. LiveOK'
  <2>1. Underway(Before(Len(script) + 1))
    BY <1>2, <1>3, <1>4 DEF ReplayOK, LiveOK
  <2>2. \A x : Underway(x) => Underway(x)'
    BY <1>2, <1>7, UnderwayKept
  <2>3. Underway(Before(Len(script) + 1))'
    BY <1>2, <2>1, <2>2 DEF Before
  <2>4. Prompt' = Prompt
    BY <1>2 DEF Prompt, PromptAt, Context, Live
  <2> QED  BY <1>1, <1>2, <1>4, <1>5, <1>8, <2>3, <2>4 DEF LiveOK, Idle
<1> QED  BY <1>9, <1>10

\* The stored entry is the answer that was heard.
LEMMA ReplayStoreEntry ==
  ASSUME BaseInv, ReplayOK, StoreEntry
  PROVE  ReplayOK'
<1>1. /\ mode = "live" /\ reply # None /\ tmp = [key |-> Key(Prompt), answer |-> reply]
  BY DEF StoreEntry, BaseInv, TurnOK
<1>2. /\ disk' = Put(disk, Key(Prompt), [answer |-> reply, whole |-> TRUE])
      /\ UNCHANGED <<mode, session, stage, utterance, drafts, reply, script, position, heard,
                     exact>>
  <2>1. tmp.key = Key(Prompt) /\ tmp.answer = reply
    BY <1>1
  <2> QED  BY <2>1 DEF StoreEntry, turnVars, historyVars
<1>3. SUFFICES ASSUME exact PROVE ScriptOK' /\ LiveOK'
  BY <1>1, <1>2 DEF ReplayOK
<1>4. Prompt \in DOMAIN heard /\ heard[Prompt] = reply /\ LiveOK
  BY <1>1, <1>3 DEF ReplayOK, LiveOK
<1>5. /\ DOMAIN disk' = DOMAIN disk \cup {Key(Prompt)}
      /\ disk'[Key(Prompt)] = [answer |-> reply, whole |-> TRUE]
      /\ \A k \in DOMAIN disk \ {Key(Prompt)} : disk'[k] = disk[k]
  BY <1>2 DEF Put
<1>6. AgreementKept
  BY <1>2, <1>4, <1>5 DEF AgreementKept, Agreed, Key
<1>7. Prompt' = Prompt /\ Agreed(Prompt)'
  <2>1. Prompt' = Prompt
    BY <1>2 DEF Prompt, PromptAt, Context, Live
  <2>2. Key(Prompt)' = Key(Prompt)
    BY <2>1 DEF Key
  <2> QED  BY <1>2, <1>4, <1>5, <2>1, <2>2 DEF Agreed
<1>8. ScriptOK'
  BY <1>1, <1>2, <1>3, <1>6, ScriptKept DEF ReplayOK
<1>9. LiveOK'
  <2>1. \A x : Underway(x) => Underway(x)'
    BY <1>2, <1>6, UnderwayKept
  <2>2. ~ Idle
    BY <1>1 DEF BaseInv, TurnOK
  <2>3. Underway(Before(Len(script) + 1))
    BY <1>4, <2>2 DEF LiveOK
  <2>4. Underway(Before(Len(script) + 1))'
    BY <1>2, <2>1, <2>3 DEF Before
  <2> QED  BY <1>2, <1>4, <1>7, <2>2, <2>4 DEF LiveOK, Idle
<1> QED  BY <1>8, <1>9

\* The recorded turn that a replay is in: its prompts are all in the cache, and
\* it ends where the recorded one did.
LEMMA ReplayedTurn ==
  ASSUME BaseInv, ReplayOK, exact, mode = "cached", ~ Idle
  PROVE  /\ position < Len(script) /\ script[position + 1].input = Said(utterance)
         /\ Agreed(Prompt)
         /\ IsEnd(session, stage, heard[Prompt]) =>
              Shows(script[position + 1], EndAt(session, stage, heard[Prompt]))
<1> DEFINE entry == script[position + 1]
           s == Before(position + 1)
<1>1. /\ position < Len(script) /\ entry.input = Said(utterance) /\ Underway(s)
  BY DEF ReplayOK, CachedOK
<1>2. position + 1 \in 1..Len(script)
  BY <1>1 DEF BaseInv, TypeOK
<1>3. Replays(s, entry)
  BY <1>2 DEF ReplayOK, ScriptOK
<1>4. entry.input.kind = "say" /\ entry.input.on = utterance
  BY <1>1 DEF Said
<1>5. s.pending = None /\ session = NextTurn(s) /\ Reaches(session, utterance, stage)
  BY <1>1 DEF Underway
<1> HIDE DEF entry, s
<1>6. PICK st \in Calls :
        LET p == Ask(session, utterance, st) IN
        /\ Reaches(session, utterance, st)
        /\ Agreed(p) /\ IsEnd(session, st, heard[p])
        /\ Shows(entry, EndAt(session, st, heard[p]))
  BY <1>3, <1>4, <1>5 DEF Replays
<1>7. /\ Agreed(Ask(session, utterance, stage))
      /\ IsEnd(session, stage, heard[Ask(session, utterance, stage)]) => stage = st
  BY <1>5, <1>6, Deterministic
<1> QED  BY <1>1, <1>6, <1>7, PromptIsAsk DEF entry

\* A replay finds the answer that was heard; it never misses.
LEMMA ReplayCacheAnswers ==
  ASSUME BaseInv, ReplayOK, CacheAnswers
  PROVE  ReplayOK'
<1>1. mode = "cached" /\ ~ Idle /\ reply = None
  BY DEF CacheAnswers, Calling, Idle
<1>2. CASE ~ exact
  BY <1>2 DEF CacheAnswers, TurnError, FinishTurn, Finish, ReplayOK, historyVars
<1>3. CASE exact
  <2>1. Agreed(Prompt)
    BY <1>1, <1>3, ReplayedTurn
  <2>2. /\ reply' = heard[Prompt]
        /\ UNCHANGED <<mode, session, stage, utterance, drafts, storeVars, script, position,
                       last, historyVars>>
    BY <2>1 DEF CacheAnswers, Agreed
  <2>3. AgreementKept
    BY <2>2 DEF AgreementKept, Agreed, storeVars, historyVars
  <2>4. ScriptOK'
    BY <1>1, <1>3, <2>2, <2>3, ScriptKept DEF ReplayOK
  <2>5. Prompt' = Prompt /\ Agreed(Prompt)'
    <3>1. Prompt' = Prompt
      BY <2>2 DEF Prompt, PromptAt, Context, Live
    <3> QED  BY <2>1, <2>2, <3>1 DEF Agreed, Key, storeVars, historyVars
  <2>6. CachedOK'
    <3>1. \A x : Underway(x) => Underway(x)'
      BY <2>2, <2>3, UnderwayKept
    <3>2. CachedOK
      BY <1>1, <1>3 DEF ReplayOK
    <3>3. Underway(Before(position + 1))'
      BY <1>1, <2>2, <3>1, <3>2 DEF CachedOK, Before
    <3> QED  BY <1>1, <2>2, <2>5, <3>2, <3>3 DEF CachedOK, Idle, historyVars
  <2> QED  BY <1>1, <2>2, <2>4, <2>6 DEF ReplayOK
<1> QED  BY <1>2, <1>3

\* An agreed answer that does not end the turn leads to the next call.
LEMMA NextReached ==
  ASSUME NEW s, NEW said, NEW st, Reaches(s, said, st), Agreed(Ask(s, said, st)),
         ~ IsEnd(s, st, heard[Ask(s, said, st)])
  PROVE  Reaches(s, said, Following(st))
<1>1. st \in {"intent", "step1", "step2", "graphRepair"}
  BY DEF Reaches, Calls
<1>2. CASE st = "intent"
  BY <1>2 DEF Reaches, IsEnd, Following, Calls
<1>3. CASE st = "step1"
  BY <1>3 DEF Reaches, Passes, IsEnd, Following, Calls
<1>4. CASE st = "step2"
  BY <1>4 DEF Reaches, Passes, IsEnd, Following, Calls
<1>5. CASE st = "graphRepair"
  BY <1>5 DEF IsEnd
<1> QED  BY <1>1, <1>2, <1>3, <1>4, <1>5

\* A valid answer is used alike when it is given and when it is replayed.
LEMMA ReplayValidReply ==
  ASSUME BaseInv, ReplayOK, UseReply, exact, mode \in {"live", "cached"},
         reply # Invalid, stage # "intentRepair", Agreed(Prompt), heard[Prompt] = reply,
         NEW s, Underway(s),
         mode = "live" => s = Before(Len(script) + 1),
         mode = "cached" => s = Before(position + 1)
  PROVE  ReplayOK'
<1>1. /\ s.pending = None /\ session = NextTurn(s) /\ Reaches(session, utterance, stage)
      /\ Prompt = Ask(session, utterance, stage)
  BY PromptIsAsk DEF Underway
<1>2. /\ stage \in Calls
      /\ IF IsEnd(session, stage, reply)
         THEN FinishTurn(EndAt(session, stage, reply))
         ELSE Proceed(Following(stage), DraftsAt(Following(stage)))
  BY ValidReply
<1>3. CASE IsEnd(session, stage, reply)
  <2> DEFINE end == EndAt(session, stage, reply)
             entry == [input |-> Said(utterance), result |-> end.result, after |-> end.after]
  <2>1. Ends(Said(utterance), end)
    BY <1>2, <1>3 DEF FinishTurn, Finish
  <2>2. CASE mode = "live"
    <3>1. entry.input.kind = "say" /\ entry.input.on = utterance /\ Shows(entry, end)
      BY DEF Said, Shows
    <3>2. Replays(s, entry)
      <4> HIDE DEF entry
      <4> QED  BY <1>1, <1>2, <1>3, <3>1 DEF Replays
    <3> QED  BY <2>1, <2>2, <3>2, LiveEnds
  <2>3. CASE mode = "cached"
    <3>1. ~ Idle
      BY <1>2 DEF Idle, Calls
    <3>2. position < Len(script) /\ Shows(script[position + 1], end)
      BY <1>3, <2>3, <3>1, ReplayedTurn
    <3> QED  BY <2>1, <2>3, <3>2, CachedEnds
  <2> QED  BY <2>2, <2>3
<1>4. CASE ~ IsEnd(session, stage, reply)
  <2>1. /\ stage' = Following(stage) /\ reply' = None
        /\ UNCHANGED <<mode, session, utterance, script, position, last, disk, heard, exact>>
    BY <1>2, <1>4 DEF Proceed, storeVars, historyVars
  <2>2. AgreementKept
    BY <2>1 DEF AgreementKept, Agreed
  <2>3. ScriptOK'
    BY <2>1, <2>2, ScriptKept DEF ReplayOK
  <2>4. Reaches(session, utterance, stage)'
    <3>1. Reaches(session, utterance, Following(stage))
      BY <1>1, <1>4, NextReached
    <3>2. \A x, y, z : Reaches(x, y, z) => Reaches(x, y, z)'
      BY <2>2, ReachesKept
    <3>3. \A x, y, z : Reaches(x, y, z)' =>
            (x = session /\ y = utterance /\ z = Following(stage) =>
               Reaches(session, utterance, stage)')
      BY <2>1
    <3> QED  BY <3>1, <3>2, <3>3
  <2>5. Underway(s)'
    BY <1>1, <2>1, <2>4 DEF Underway
  <2>6. ~ Idle /\ ~ Idle'
    BY <1>2, <2>1 DEF Idle, Calls, Following
  <2>7. CASE mode = "live"
    <3>1. LiveOK'
      BY <2>1, <2>5, <2>6, <2>7 DEF LiveOK, Before
    <3> QED  BY <2>1, <2>3, <2>7, <3>1 DEF ReplayOK
  <2>8. CASE mode = "cached"
    <3>1. CachedOK
      BY <2>8 DEF ReplayOK
    <3>2. CachedOK'
      BY <2>1, <2>5, <2>6, <2>8, <3>1 DEF CachedOK, Before
    <3> QED  BY <2>1, <2>3, <2>8, <3>2 DEF ReplayOK
  <2> QED  BY <2>7, <2>8
<1> QED  BY <1>3, <1>4

\* An answer that is used, valid or not.
LEMMA ReplayUseReply ==
  ASSUME BaseInv, ReplayOK, UseReply
  PROVE  ReplayOK'
<1>1. /\ ~ Idle /\ reply # None /\ tmp = None /\ stage \in Calls
  BY DEF UseReply, BaseInv, TypeOK, TurnOK, Idle
<1>2. UNCHANGED <<mode, exact>>
  <2>1. CASE Understand
    BY <2>1 DEF Understand, Dispatch, TurnError, FinishTurn, Finish, Ends, Proceed, historyVars
  <2>2. CASE FirstStep
    BY <2>2 DEF FirstStep, Refuse, FinishTurn, Finish, Ends, Proceed, historyVars
  <2>3. CASE SecondStep
    BY <2>3 DEF SecondStep, Refuse, Approve, FinishTurn, Finish, Ends, Proceed, historyVars
  <2>4. CASE RepairStep
    BY <2>4 DEF RepairStep, Refuse, Approve, FinishTurn, Finish, Ends
  <2> QED  BY <2>1, <2>2, <2>3, <2>4 DEF UseReply
<1>3. CASE ~ exact \/ mode \notin {"live", "cached"}
  BY <1>2, <1>3 DEF ReplayOK, BaseInv, TypeOK
<1>4. CASE exact /\ mode = "live"
  <2>1. /\ Underway(Before(Len(script) + 1)) /\ reply # Invalid
        /\ Agreed(Prompt) /\ heard[Prompt] = reply
    BY <1>1, <1>4 DEF ReplayOK, LiveOK
  <2>2. stage # "intentRepair"
    BY <2>1 DEF Underway, Reaches
  <2> QED  BY <1>4, <2>1, <2>2, ReplayValidReply
<1>5. CASE exact /\ mode = "cached"
  <2>1. /\ Underway(Before(position + 1)) /\ Agreed(Prompt) /\ heard[Prompt] = reply
    BY <1>1, <1>5 DEF ReplayOK, CachedOK
  <2>2. stage # "intentRepair"
    BY <2>1 DEF Underway, Reaches
  <2>3. reply # Invalid
    <3>1. /\ Key(Prompt) \in DOMAIN disk /\ disk[Key(Prompt)].answer = reply
      BY <2>1 DEF Agreed
    <3>2. reply \in Answers(stage, session.incidents)
      BY <1>1, <3>1, PromptOK DEF BaseInv, DiskOK, Key
    <3> QED  BY <1>1, <3>2, NoValueAssumption DEF Answers, Calls, Verdicts
  <2> QED  BY <1>5, <2>1, <2>2, <2>3, ReplayValidReply
<1> QED  BY <1>3, <1>4, <1>5

\* Saying something, in a live session and in its replay.
LEMMA ReplaySay ==
  ASSUME BaseInv, ReplayOK, NEW u \in Utterances, Say(u)
  PROVE  ReplayOK'
<1>1. Comes(Said(u)) /\ Idle /\ reply = None /\ tmp = None
  BY DEF Say, Comes, BaseInv, TurnOK
<1>2. CASE session.pending # None
  <2>1. Ends(Said(u), Repeated(session)) /\ UNCHANGED exact
    BY <1>2 DEF Say
  <2>2. \A entry : entry.input = Said(u) =>
          (Replays(session, entry) <=> Shows(entry, Repeated(session)))
    BY <1>2 DEF Replays, Said
  <2> QED  BY <1>1, <2>1, <2>2, SilentReplays
<1>3. CASE session.pending = None
  <2>1. /\ session' = NextTurn(session) /\ stage' = "intent" /\ utterance' = u
        /\ UNCHANGED <<mode, reply, tmp, disk, script, position, last, heard, exact>>
    BY <1>3 DEF Say, storeVars, historyVars
  <2>2. AgreementKept
    BY <2>1 DEF AgreementKept, Agreed
  <2>4. ASSUME NEW s, s = session PROVE Underway(s)'
    BY <1>3, <2>1, <2>4 DEF Underway, Reaches, Calls
  <2>5. SUFFICES ASSUME exact, mode # "mock"
                 PROVE  /\ ScriptOK' /\ (mode = "live" => LiveOK')
                        /\ (mode = "cached" => CachedOK')
    BY <2>1 DEF ReplayOK
  <2>6. ScriptOK'
    BY <2>1, <2>2, <2>5, ScriptKept DEF ReplayOK
  <2>7. CASE mode = "live"
    <3>1. session = Before(Len(script) + 1)
      BY <1>1, <2>5, <2>7 DEF ReplayOK, LiveOK
    <3>2. Underway(Before(Len(script) + 1))'
      BY <2>1, <2>4, <3>1 DEF Before
    <3> QED  BY <1>1, <2>1, <2>6, <2>7, <3>2 DEF LiveOK, Idle
  <2>8. CASE mode = "cached"
    <3>1. session = Before(position + 1) /\ CachedOK
      BY <1>1, <2>5, <2>8 DEF ReplayOK, CachedOK
    <3>2. Underway(Before(position + 1))'
      BY <2>1, <2>4, <3>1 DEF Before
    <3>3. position < Len(script) /\ script[position + 1].input = Said(u)
      BY <1>1, <2>8 DEF Comes
    <3> QED  BY <1>1, <2>1, <2>6, <2>8, <3>1, <3>2, <3>3 DEF CachedOK, Idle
  <2> QED  BY <2>5, <2>6, <2>7, <2>8
<1> QED  BY <1>2, <1>3

\* Inputs that need no model.
LEMMA ReplaySilent ==
  ASSUME BaseInv, ReplayOK, (\E i \in Known(session) : Select(i)) \/ Cancel \/ Observe
  PROVE  ReplayOK'
<1>1. ASSUME NEW i \in Known(session), Select(i)
      PROVE  ReplayOK'
  <2> DEFINE input == [kind |-> "select", on |-> i]
  <2>1. Comes(input) /\ Ends(input, Chosen(session, i)) /\ UNCHANGED exact
    BY <1>1 DEF Select, Finish
  <2>2. \A entry : entry.input = input =>
          (Replays(session, entry) <=> Shows(entry, Chosen(session, i)))
    BY DEF Replays
  <2> QED  BY <2>1, <2>2, SilentReplays
<1>2. CASE Cancel
  <2> DEFINE input == [kind |-> "cancel", on |-> None]
  <2>1. Comes(input) /\ Ends(input, Cancelled(session)) /\ UNCHANGED exact
    BY <1>2 DEF Cancel, Finish
  <2>2. \A entry : entry.input = input =>
          (Replays(session, entry) <=> Shows(entry, Cancelled(session)))
    BY DEF Replays
  <2> QED  BY <2>1, <2>2, SilentReplays
<1>3. CASE Observe
  <2> DEFINE input == [kind |-> "fire", on |-> None]
  <2>1. Comes(input) /\ Ends(input, Observed(session)) /\ UNCHANGED exact
    BY <1>3 DEF Observe, Finish
  <2>2. \A entry : entry.input = input =>
          (Replays(session, entry) <=> Shows(entry, Observed(session)))
    BY DEF Replays
  <2> QED  BY <2>1, <2>2, SilentReplays
<1> QED  BY <1>1, <1>2, <1>3

\* A replay begins where its recording began, also after a crash.
LEMMA ReplayRestart ==
  ASSUME BaseInv, ReplayOK, Crash \/ Replay
  PROVE  ReplayOK'
<1>1. mode = "live" /\ reply' = None /\ stage' = "idle" /\ session' = Opened /\ position' = 0
      /\ disk' = disk
  BY DEF Crash, Replay, Restart
<1>2. CASE mode' = "cached" /\ script' = script /\ UNCHANGED <<heard, exact>>
  <2>1. AgreementKept
    BY <1>1, <1>2 DEF AgreementKept, Agreed
  <2>2. exact => ScriptOK'
    BY <1>1, <1>2, <2>1, ScriptKept DEF ReplayOK
  <2>3. CachedOK'
    <3>1. Len(script') \in Nat
      BY <1>2 DEF BaseInv, TypeOK
    <3> QED  BY <1>1, <3>1 DEF CachedOK, Idle, Before
  <2> QED  BY <1>2, <2>2, <2>3 DEF ReplayOK
<1>3. CASE mode' = "live" /\ script' = <<>>
  <2>1. Len(<<>>) = 0
    OBVIOUS
  <2>2. ScriptOK'
    BY <1>3, <2>1 DEF ScriptOK
  <2>3. LiveOK'
    BY <1>1, <1>3, <2>1 DEF LiveOK, Idle, Before
  <2> QED  BY <1>3, <2>2, <2>3 DEF ReplayOK
<1> QED  BY <1>2, <1>3 DEF Crash, Replay, Restart

\* No step breaks the replay.
LEMMA ReplayStep ==
  ASSUME BaseInv, ReplayOK, [Next]_dialogueVars
  PROVE  ReplayOK'
<1>1. CASE BackendFails
  BY <1>1 DEF BackendFails, ReplayOK
<1>2. CASE UNCHANGED dialogueVars
  <2>1. /\ UNCHANGED <<mode, session, stage, utterance, drafts, reply, tmp, disk, script,
                       position, last, heard, exact>>
    BY <1>2 DEF dialogueVars, turnVars, storeVars, historyVars
  <2>2. AgreementKept
    BY <2>1 DEF AgreementKept, Agreed
  <2>3. \A x : Underway(x) => Underway(x)'
    BY <2>1, <2>2, UnderwayKept
  <2>4. ScriptOK => ScriptOK'
    BY <2>1, <2>2, ScriptKept
  <2>5. Prompt' = Prompt /\ (Agreed(Prompt) => Agreed(Prompt)')
    <3>1. Prompt' = Prompt
      BY <2>1 DEF Prompt, PromptAt, Context, Live
    <3> QED  BY <2>1, <3>1 DEF Agreed, Key
  <2>6. LiveOK => LiveOK'
    BY <2>1, <2>3, <2>5 DEF LiveOK, Idle, Before
  <2>7. CachedOK => CachedOK'
    BY <2>1, <2>3, <2>5 DEF CachedOK, Idle, Before
  <2> QED  BY <2>1, <2>4, <2>6, <2>7 DEF ReplayOK
<1> QED  BY <1>1, <1>2, ReplayModelAnswers, ReplayStoreEntry, ReplayCacheAnswers,
            ReplayUseReply, ReplaySay, ReplaySilent, ReplayRestart
         DEF Next, Turn, Operator

-----------------------------------------------------------------------------
(* What holds in every state.                                              *)

\* For any utterances, envelopes, scene, window and bounds: what the turns
\* functions, the recording and the crashes keep.
THEOREM DialogueBasics == DialogueSpec => []BaseInv
<1>1. Init => BaseInv
  BY BaseInit
<1>2. BaseInv /\ [Next]_dialogueVars => BaseInv'
  BY BaseStep
<1> QED  BY <1>1, <1>2, PTL DEF DialogueSpec

\* Every variable of the dialogue keeps its type.
THEOREM DialogueTypes == DialogueSpec => []TypeOK
<1>1. BaseInv => TypeOK
  BY DEF BaseInv
<1> QED  BY <1>1, DialogueBasics, PTL

\* Whenever the process dies, the cache holds complete entries only
\* (_write_entry: temporary file and rename).
THEOREM CacheAlwaysWhole == DialogueSpec => []CacheWhole
<1>1. BaseInv => CacheWhole
  BY DEF BaseInv, DiskOK
<1> QED  BY <1>1, DialogueBasics, PTL

\* In every turn the model is asked in the order of the pipeline, each call at
\* most once: an intent is corrected only after an invalid answer, a graph only
\* after an unfit one, and each later call has the answer of the one it rests on
\* (classify, generate_mission).
THEOREM CallsAlwaysInOrder == DialogueSpec => []CallsInOrder
<1>1. BaseInv => CallsInOrder
  <2> SUFFICES ASSUME BaseInv, NEW n \in DOMAIN asked
               PROVE  /\ n = 1 => asked[n].stage = "intent"
                      /\ n # 1 => Leads(asked[n - 1], asked[n].stage)
                      /\ asked[n].stage = "intentRepair" => mode # "mock"
    BY DEF CallsInOrder
  <2>1. n \in 1..Len(asked) /\ Len(asked) \in Nat
    BY DEF BaseInv, TypeOK
  <2>2. n # 1 => n - 1 \in 1..(Len(asked) - 1) /\ (n - 1) + 1 = n
    BY <2>1
  <2> QED  BY <2>1, <2>2 DEF BaseInv, AskedOK
<1> QED  BY <1>1, DialogueBasics, PTL

\* A pronoun is never resolved to an incident outside the window, or to one
\* that was not the last to be spoken about (note_referent, resolve_incident).
THEOREM WindowAlwaysHolds == DialogueSpec => []WindowHolds
<1>1. BaseInv => WindowHolds
  BY DEF BaseInv, WindowOK
<1> QED  BY <1>1, DialogueBasics, PTL

\* The inductive invariant of the dialogue, with the recording: for any
\* conversation, failures, crashes and replays.
THEOREM DialogueInvariant == DialogueSpec => []DialogueInv
<1>1. Init => BaseInv /\ ReplayOK
  <2> SUFFICES ASSUME Init PROVE ReplayOK
    BY BaseInit
  <2>1. Len(<<>>) = 0
    OBVIOUS
  <2>2. ScriptOK
    BY <2>1 DEF Init, ScriptOK
  <2>3. LiveOK
    BY <2>1 DEF Init, LiveOK, Idle, Before
  <2>4. mode # "cached"
    BY DialogueAssumption DEF Init
  <2> QED  BY <2>2, <2>3, <2>4 DEF ReplayOK
<1>2. BaseInv /\ ReplayOK /\ [Next]_dialogueVars => (BaseInv /\ ReplayOK)'
  BY BaseStep, ReplayStep
<1>3. BaseInv /\ ReplayOK => DialogueInv
  BY DEF BaseInv, DialogueInv
<1> QED  BY <1>1, <1>2, <1>3, PTL DEF DialogueSpec

\* "Record successful responses for exact replay" (cache.py:115): however long
\* the conversation, whatever entries other sessions and crashes have left.
THEOREM ReplayAlwaysExact == DialogueSpec => []ReplayExact
<1>1. DialogueInv => ReplayExact
  BY DEF DialogueInv, TypeOK, ReplayOK, CachedOK, ReplayExact, Before
<1> QED  BY <1>1, DialogueInvariant, PTL

=============================================================================
