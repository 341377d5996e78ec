------------------------------ MODULE Console ------------------------------
(***************************************************************************)
(* The operator console: which calls of the session its buttons, its input *)
(* line and its timers make, and when.  The console plays a segment of the *)
(* simulation while the session already stands at the segment's end: one   *)
(* segment at a time on request ("clip"), or one after the other ("run"),  *)
(* and meanwhile only queues commands and records answers about fires.     *)
(*                                                                         *)
(* Callbacks of the window run one at a time, and to completion but for    *)
(* two that let the event loop run inside them: submit_command between its *)
(* check that the console is idle and the turn, and a clip between that    *)
(* check and its advance.  There other callbacks come and go, also ones    *)
(* that start a run, and only then the outer one goes on: submits counts   *)
(* the commands that wait so, turn = "open" is a clip that does.  A        *)
(* callback that makes several calls of the session takes several steps:   *)
(* call (of OnlineSession) and turn tell that it has not returned.         *)
(*                                                                         *)
(* The mode decides only which backend the next turn asks (Dialogue) and   *)
(* is left out, as is the display of incidents that were put out.          *)
(***************************************************************************)
EXTENDS OnlineSession

CONSTANTS
  MaxQueue,     \* bound on the queued commands
  MaxSubmits    \* bound on the submissions nested in one another

ASSUME QueueAssumption == MaxQueue \in Nat /\ MaxSubmits \in Nat

VARIABLES
  play,       \* "idle", or busy with a "clip" or a "run"
  queue,      \* how many commands wait for a boundary
  submits,    \* commands whose submission has begun and whose turn has not
  turn,       \* of a boundary of the run: "take" a queued command, advance
              \* "again"; of a clip: "open" to other callbacks
  resume,     \* the run stopped for a fire and is to go on after the answer
  due         \* a timer is set that will start the run

consoleVars == <<play, queue, submits, turn, resume, due>>
allVars == <<sessionVars, consoleVars>>

ConsoleInit ==
  /\ Init
  /\ play = "idle" /\ queue = 0 /\ submits = 0 /\ turn = "none"
  /\ resume = FALSE /\ due = FALSE

\* Mutant of MustSettle: answers wait for a boundary that never comes.
NeverSettles == FALSE

\* The last answer about a fire, given when the run is over, is carried out
\* by the callback that recorded it.
MustSettle == phase = "EXECUTED" /\ HeadDecided(approvals) /\ Undecided = {}

\* The event loop runs: no callback is under way but those that let it run.
Listening == call = "none" /\ turn \in {"none", "open"} /\ ~ MustSettle

\* The callback on top, if any, is a submission.
Quiet == Listening /\ turn = "none"

\* Neither is a segment being played: the buttons and the input line work.
Idle == Quiet /\ play = "idle"

Commits ==
  NewMission \/ UpdateResources \/ ReportIncident \/ ReportWithResources \/ UpdateMission

-----------------------------------------------------------------------------
(* Commands and answers.                                                   *)

\* The input line is closed while a clarification or a fire waits for the
\* operator.
BeginSubmit ==
  /\ Idle /\ pending = NoValue /\ Undecided = {}
  /\ submits < MaxSubmits /\ submits' = submits + 1
  /\ UNCHANGED <<sessionVars, play, queue, turn, resume, due>>

\* The turn of the last submission begun, whatever has been started since: it
\* commits, asks back, or is refused.  A commit starts the run.
SubmitCommand ==
  /\ Quiet /\ submits > 0 /\ submits' = submits - 1
  /\ \/ Commits /\ due' = (due \/ AdvanceReady')
     \/ (Clarify \/ UNCHANGED sessionVars) /\ UNCHANGED due
  /\ UNCHANGED <<play, queue, turn, resume>>

QueueCommand ==
  /\ Quiet /\ play # "idle" /\ pending = NoValue /\ Undecided = {}
  /\ queue < MaxQueue /\ queue' = queue + 1
  /\ UNCHANGED <<sessionVars, play, submits, turn, resume, due>>

\* cancel_queued: a command that no boundary has taken yet.
CancelQueued ==
  /\ Quiet /\ queue > 0 /\ queue' = queue - 1
  /\ UNCHANGED <<sessionVars, play, submits, turn, resume, due>>

ChooseCandidate ==
  /\ Idle /\ SelectCandidate
  /\ due' = (due \/ (mission' # mission /\ AdvanceReady'))
  /\ UNCHANGED <<play, queue, submits, turn, resume>>

CancelCandidate ==
  /\ Idle /\ CancelClarification
  /\ UNCHANGED consoleVars

\* The end of the callback that records an answer.
ResumeRun ==
  /\ IF Undecided' = {} /\ resume /\ AdvanceReady'
       THEN resume' = FALSE /\ due' = TRUE
       ELSE UNCHANGED <<resume, due>>
  /\ UNCHANGED <<play, queue, submits, turn>>

\* Answers are accepted at any time, also during a segment.
AnswerFire ==
  /\ Listening /\ RecordDecision
  /\ IF MustSettle' THEN UNCHANGED consoleVars ELSE ResumeRun

SettleFires ==
  \/ ApplyPendingDecisions /\ UNCHANGED consoleVars
  \/ /\ call = "decide" /\ ApplyDecision
     /\ IF call' = "none" THEN ResumeRun ELSE UNCHANGED consoleVars

-----------------------------------------------------------------------------
(* Segments.                                                               *)

\* A clip marks the console busy before it lets other callbacks in: they find
\* nothing they may do but record an answer.
PlayCheckpoint ==
  /\ Idle /\ AdvanceReady
  /\ play' = "clip" /\ turn' = "open"
  /\ UNCHANGED <<sessionVars, queue, submits, resume, due>>

OpenClip ==
  /\ Listening /\ turn = "open" /\ BeginAdvance
  /\ turn' = "none" /\ UNCHANGED <<play, queue, submits, resume, due>>

PlayContinuous ==
  /\ Idle /\ AdvanceReady /\ BeginAdvance
  /\ play' = "run" /\ UNCHANGED <<queue, submits, turn, resume, due>>

\* The timer starts the run, unless the console is busy or cannot.
StartDue ==
  /\ Listening /\ due /\ due' = FALSE
  /\ IF play = "idle" /\ AdvanceReady THEN BeginAdvance /\ play' = "run"
     ELSE UNCHANGED <<sessionVars, play>>
  /\ UNCHANGED <<queue, submits, turn, resume>>

\* The clock of the run reaches the end of the segment.
SegmentEnds ==
  /\ play = "run" /\ turn \in {"none", "again"} /\ BeginAdvance
  /\ turn' = "none" /\ UNCHANGED <<play, queue, submits, resume, due>>

\* A run stops at the end of the mission or at an error, and remembers to go
\* on if a fire waits for its answer.
Stop ==
  /\ play' = "idle"
  /\ resume' = (resume \/ (play = "run" /\ Undecided' # {}))
  /\ UNCHANGED <<queue, submits, turn, due>>

\* The run takes one queued command at a boundary, unless a fire is in the
\* queue of approvals.
TakesOne == play = "run" /\ approvals' = <<>> /\ queue > 0

NextSegment ==
  /\ turn' = IF TakesOne THEN "take" ELSE "none"
  /\ UNCHANGED <<play, queue, submits, resume, due>>

\* Mutant of RunOver: the run goes on until the fires are answered.
RunOverWhenAnswered == phase' = "EXECUTED" /\ Undecided' = {}

RunOver == phase' = "EXECUTED"

\* The mission has moved on but its segment cannot be drawn, or the advance was
\* refused: the console stops where it is, whatever waits for an answer.
StopUndrawn == play' = "idle" /\ UNCHANGED <<queue, submits, turn, resume, due>>

\* No time passes between two completions: there is nothing to show.  A run
\* advances again at once, but halts when this has happened a few times in a
\* row; a clip is over.
SkipSegment ==
  IF play = "clip" THEN StopUndrawn
  ELSE \/ turn' = "again" /\ UNCHANGED <<play, queue, submits, resume, due>>
       \/ Stop

CrossBoundary ==
  \/ call = "advance" /\ ApplyDecision /\ UNCHANGED consoleVars
  \/ Advance /\ IF play = "run" /\ RunOver THEN Stop
                ELSE NextSegment \/ SkipSegment \/ StopUndrawn
  \/ (AdvanceStuck \/ AdvanceRaises) /\ Stop
  \/ AdvanceRefused /\ StopUndrawn

\* The queued command is a turn: accepted, answered, refused, or a question
\* back.  A new mission drops the segment and advances again.
TakeQueued ==
  /\ call = "none" /\ turn = "take"
  /\ queue' = queue - 1
  /\ \/ /\ Commits /\ UNCHANGED play
        /\ turn' = IF NewMission THEN "again" ELSE "none"
     \/ Clarify /\ turn' = "none" /\ play' = "idle"
     \/ UNCHANGED sessionVars /\ turn' = "none" /\ play' \in {"run", "idle"}
  /\ UNCHANGED <<submits, resume, due>>

\* The end of a clip takes one queued command, whatever else waits.
ClipEnds ==
  /\ Quiet /\ play = "clip" /\ play' = "idle"
  /\ IF queue > 0
       THEN /\ queue' = queue - 1
            /\ Commits \/ Clarify \/ UNCHANGED sessionVars
       ELSE UNCHANGED <<sessionVars, queue>>
  /\ UNCHANGED <<submits, turn, resume, due>>

\* A new session, also for another scenario: the session and the queue are
\* given up; the flag and the timer that start a run are left as they are.
NewSession ==
  /\ Idle
  /\ phase' = "PLANNING"
  /\ scene' \in {0, 1} \cap (0..(MaxIncidents - Cardinality(Fires)))
  /\ mission' = NoValue /\ plan' = NoValue
  /\ execution' = NoValue /\ runtime' = NoValue
  /\ directive' = 0 /\ team' = {}
  /\ pending' = NoValue /\ approvals' = <<>>
  /\ fate' = [f \in Fires |-> "latent"]
  /\ queue' = 0
  /\ UNCHANGED <<call, play, submits, turn, resume, due>>

ConsoleNext ==
  \/ BeginSubmit \/ SubmitCommand \/ QueueCommand \/ CancelQueued
  \/ ChooseCandidate \/ CancelCandidate \/ NewSession
  \/ AnswerFire \/ SettleFires
  \/ PlayCheckpoint \/ OpenClip \/ PlayContinuous \/ StartDue
  \/ SegmentEnds \/ CrossBoundary \/ TakeQueued \/ ClipEnds

\* Callbacks return, and the timers of a run fire; the operator owes nothing.
ConsoleSpec ==
  /\ ConsoleInit /\ [][ConsoleNext]_allVars
  /\ WF_allVars(SettleFires) /\ WF_allVars(CrossBoundary)
  /\ WF_allVars(TakeQueued) /\ WF_allVars(SegmentEnds)

-----------------------------------------------------------------------------
(* Properties.                                                             *)

\* Every variable of the console has its type.
ConsoleTypeOK ==
  /\ play \in {"idle", "clip", "run"}
  /\ queue \in 0..MaxQueue /\ submits \in 0..MaxSubmits
  /\ turn \in {"none", "take", "again", "open"} /\ resume \in BOOLEAN /\ due \in BOOLEAN

\* Whenever no boundary is being crossed, a run is paused, and the timer that
\* ends its segment can advance it unless the operator has been asked back: no
\* queued command, answer, empty segment, new session or turn submitted before
\* the run was started takes the mission away from it.
RunIsPaused ==
  play = "run" /\ call = "none" =>
    phase = "EXECUTION_PAUSED" /\ (pending = NoValue => AdvanceReady)

\* While a segment is played, nothing the operator does changes the mission, the
\* scene, the team or what is asked, but a command that was submitted before the
\* segment began: other commands wait for its end, answers for the boundary
\* after it.  Only answers given during the last clip of a mission, for which no
\* boundary is left, are carried out under it.
SegmentIsFrozen ==
  [][/\ play # "idle" /\ play' = play /\ turn = "none" /\ call # "advance"
     /\ play = "clip" => call = "none"
     => \/ UNCHANGED <<phase, scene, mission, runtime, team, pending>>
        \/ submits' < submits]_allVars

Settled(f) == fate[f] \in {"COMMITTED", "REJECTED", "DECLINED", "TURN_ERROR"}
Answered(f) == \E n \in DOMAIN approvals : approvals[n].fire = f /\ Decided(approvals[n])

\* The operator's answer about a fire is carried out: at the next boundary of
\* the run or, when the run is over, once no fire is left without an answer.
FireServed ==
  \A f \in Fires :
    Answered(f) /\ (play = "run" \/ (phase = "EXECUTED" /\ Undecided = {}))
      ~> Settled(f)

=============================================================================
