-------------------------- MODULE PatchTransaction --------------------------
(***************************************************************************)
(* How tasks and edges get into a mission: a candidate of the generation   *)
(* pipeline is validated as a raw list and compiled into a task graph      *)
(* (validator/candidate.py, validate.py, whole_graph.py,                   *)
(* scenarios/compiler.py), and patches change the graph while it is        *)
(* carried out (validator/patch.py, patch_apply.py).                       *)
(*                                                                         *)
(* A task key stands for (task_type, target).  What the scene says of a    *)
(* key is a constant: whether its target is known, some agent of the fleet *)
(* can do it, and every ground vehicle can reach it.  The mission state is *)
(* the graph with the statuses and owners, and what each agent holds in    *)
(* bundle or path.  MissionState.winning_bids is left out: no code fills   *)
(* it, the executor keeps its bids itself.                                 *)
(*                                                                         *)
(* Validation and application of one patch are one step, as they are one   *)
(* call; its verdict stays in view until the caller has read it.  The      *)
(* hashes of the audit record are left out.                                *)
(***************************************************************************)
EXTENDS Naturals, Sequences, FiniteSets

CONSTANTS
  Keys,         \* task keys a candidate or a patch may name
  Required,     \* WORKFLOW_PREDECESSOR: the predecessors E_WORKFLOW demands
  Known,        \* keys whose target is in the scene
  Feasible,     \* keys that some agent of the fleet can do
  Reachable,    \* keys whose access node every ground vehicle reaches
  Incident,     \* the incident a key is about, NoIncident for a zone
  Agents,
  Candidates,   \* the raw candidates a model may answer, a bound of the run
  Patches,      \* the operation lists a caller may submit, a bound of the run
  NoIncident, NoAgent, Malformed, BadType

Edges == Keys \X Keys
Operations ==
  [op : {"AddTask"}, on : Keys] \cup [op : {"AddEdge", "RemoveEdge"}, on : Edges]
    \cup [op : {"Malformed"}, on : {Malformed}]
RawTasks == Keys \cup {Malformed, BadType}
RawEdges == Edges \cup {Malformed, BadType}

ASSUME PatchAssumption ==
  /\ IsFiniteSet(Keys) /\ IsFiniteSet(Agents) /\ NoAgent \notin Agents
  /\ Required \in [Keys -> SUBSET Keys]
  /\ \A c \in Candidates : c.tasks \in Seq(RawTasks) /\ c.edges \in Seq(RawEdges)
  /\ \A p \in Patches : p \in Seq(Operations)
  /\ Malformed \notin Keys \cup Edges /\ BadType \notin Keys \cup Edges

VARIABLES
  loaded,    \* an accepted candidate has been compiled
  status,    \* of every key, "ABSENT" when it is not in the graph
  edges,
  owner,     \* task.assigned_agent
  holds,     \* bundle and path of every agent, as a set
  verdict    \* of the last candidate or patch, until the caller has read it

missionVars == <<status, edges, owner, holds>>
patchVars == <<loaded, status, edges, owner, holds, verdict>>

Statuses  == {"ABSENT", "PENDING", "READY", "ASSIGNED", "RUNNING", "COMPLETED"}
Committed == {"ASSIGNED", "RUNNING"}
Present   == {k \in Keys : status[k] # "ABSENT"}

ErrorCodes ==
  {"E_SCHEMA", "E_DUPLICATE_ID", "E_TYPE_NOT_ALLOWED", "E_UNKNOWN_REF",
   "E_SELF_LOOP", "E_DUPLICATE_EDGE", "E_CYCLE", "E_INFEASIBLE", "E_WORKFLOW",
   "E_CROSS_INCIDENT", "E_UNREACHABLE", "E_TERMINAL_IMMUTABLE",
   "E_PATCH_CONFLICT", "E_RUNNING_LOCKED"}

\* A verdict: how the call ended, which check decided, with which codes.
Checks == {"none", "parse", "fields", "conflicts", "terminal", "structure",
           "reconcile", "assignments"}
Verdicts == [outcome : {"none", "accepted", "rejected", "raised"},
             check : Checks, codes : SUBSET ErrorCodes]
Unread == [outcome |-> "none", check |-> "none", codes |-> {}]
Accepted == [outcome |-> "accepted", check |-> "none", codes |-> {}]
Raised == [outcome |-> "raised", check |-> "none", codes |-> {}]
Rejected(check, codes) == [outcome |-> "rejected", check |-> check, codes |-> codes]

-----------------------------------------------------------------------------
(* The whole-graph rules, on any set of nodes and edges.                   *)

PredsIn(E, k) == {p \in Keys : <<p, k>> \in E}

\* Kahn's algorithm leaves tasks over exactly when some tasks feed each other.
Cyclic(N, E) ==
  \E S \in (SUBSET N) \ {{}} : \A k \in S : PredsIn(E, k) \cap S # {}

\* Mutant of BreaksWorkflow: only what the patch adds is looked at.
BreaksWorkflowAnew(N, E) == \E k \in N \ Present : PredsIn(E, k) # Required[k]

BreaksWorkflow(N, E) == \E k \in N : PredsIn(E, k) # Required[k]

CrossesIncidents(E) ==
  \E e \in E : /\ Incident[e[1]] # NoIncident
               /\ Incident[e[2]] # NoIncident
               /\ Incident[e[1]] # Incident[e[2]]

\* Mutants of UnknownRefs: one half of the look-up is missing.
UnknownEndpoints(N, E) == \E e \in E : {e[1], e[2]} \ N # {}
UnknownTargets(N, E) == N \ Known # {}

UnknownRefs(N, E) == N \ Known # {} \/ \E e \in E : {e[1], e[2]} \ N # {}

StructureCodes(N, E) ==
  {c \in ErrorCodes :
     \/ c = "E_UNKNOWN_REF" /\ UnknownRefs(N, E)
     \/ c = "E_INFEASIBLE" /\ N \ Feasible # {}
     \/ c = "E_SELF_LOOP" /\ \E e \in E : e[1] = e[2]
     \/ c = "E_CROSS_INCIDENT" /\ CrossesIncidents(E)
     \/ c = "E_CYCLE" /\ Cyclic(N, E)
     \/ c = "E_WORKFLOW" /\ BreaksWorkflow(N, E)
     \/ c = "E_UNREACHABLE" /\ N \ Reachable # {}}

\* TaskGraph.recompute_ready, on given statuses and edges.
Frontier(st, E) ==
  [k \in Keys |->
     IF st[k] \in {"PENDING", "READY"}
     THEN IF \A p \in PredsIn(E, k) : st[p] = "COMPLETED" THEN "READY" ELSE "PENDING"
     ELSE st[k]]

\* It looks up every predecessor of a task whose status it derives.
FrontierRaises(st, E) ==
  \E k \in Keys : /\ st[k] \in {"PENDING", "READY"}
                  /\ \E p \in PredsIn(E, k) : st[p] = "ABSENT"

Elements(s) == {s[i] : i \in DOMAIN s}
Repeats(s) == \E i, j \in DOMAIN s : i # j /\ s[i] = s[j]

-----------------------------------------------------------------------------
(* A candidate becomes the mission.                                        *)

ParseCodes(c) ==
  {code \in ErrorCodes :
     \/ code = "E_SCHEMA" /\ Malformed \in Elements(c.tasks) \cup Elements(c.edges)
     \/ code = "E_TYPE_NOT_ALLOWED" /\ BadType \in Elements(c.tasks) \cup Elements(c.edges)}

\* consistency_errors and validate_structure, of a list that parses.
CandidateCodes(c) ==
  {code \in ErrorCodes :
     \/ code = "E_DUPLICATE_ID" /\ Repeats(c.tasks)
     \/ code = "E_DUPLICATE_EDGE" /\ Repeats(c.edges)
     \/ code \in StructureCodes(Elements(c.tasks), Elements(c.edges))}

\* compile_reference_graph raises on what the validator should have found.
CompileRaises(c) ==
  \/ Repeats(c.tasks) \/ Repeats(c.edges)
  \/ Elements(c.tasks) \ Known # {}
  \/ \E e \in Elements(c.edges) : {e[1], e[2]} \ Elements(c.tasks) # {}

CandidateVerdict(c) ==
  IF ParseCodes(c) # {} THEN Rejected("parse", ParseCodes(c))
  ELSE IF CandidateCodes(c) # {} THEN Rejected("structure", CandidateCodes(c))
  ELSE IF CompileRaises(c) THEN Raised ELSE Accepted

LoadCandidate(c) ==
  /\ ~ loaded /\ verdict = Unread
  /\ verdict' = CandidateVerdict(c)
  /\ IF CandidateVerdict(c) = Accepted
     THEN /\ loaded' = TRUE
          /\ edges' = Elements(c.edges)
          /\ status' = Frontier([k \in Keys |-> IF k \in Elements(c.tasks)
                                                THEN "PENDING" ELSE "ABSENT"],
                                Elements(c.edges))
          /\ UNCHANGED <<owner, holds>>
     ELSE UNCHANGED <<loaded, missionVars>>

-----------------------------------------------------------------------------
(* A patch.                                                                *)

Ops(p, kind) == {i \in DOMAIN p : p[i].op = kind}
Subjects(p, kind) == {p[i].on : i \in Ops(p, kind)}

Twice(p, kind) == \E i, j \in Ops(p, kind) : i # j /\ p[i].on = p[j].on

FieldErrors(p) == Ops(p, "Malformed") # {}

Conflicts(p) ==
  \/ Twice(p, "AddTask") \/ Twice(p, "AddEdge") \/ Twice(p, "RemoveEdge")
  \/ Subjects(p, "AddTask") \cap Present # {}
  \/ Subjects(p, "AddEdge") \cap edges # {}
  \/ Subjects(p, "AddEdge") \cap Subjects(p, "RemoveEdge") # {}
  \/ Subjects(p, "RemoveEdge") \ (edges \cup Subjects(p, "AddEdge")) # {}

\* post_patch_keys: the graph the patch asks for, before anything is built.
PostNodes(p) == Present \cup Subjects(p, "AddTask")
PostEdges(p) == (edges \ Subjects(p, "RemoveEdge")) \cup Subjects(p, "AddEdge")

\* E_TERMINAL_IMMUTABLE: an edge moved into a finished task, or out of one
\* towards a running task.
TouchesTerminal(p) ==
  \E e \in (edges \ PostEdges(p)) \cup (PostEdges(p) \ edges) :
     \/ status[e[2]] = "COMPLETED"
     \/ status[e[1]] = "COMPLETED" /\ status[e[2]] = "RUNNING"

\* Materialising goes through the operations in canonical order on the clone:
\* a task that is there or whose target is unknown, an edge to remove that is
\* not there any more, raise.
MaterialiseRaises(p) ==
  \/ \E i \in Ops(p, "AddTask") :
       \/ p[i].on \notin Known \/ p[i].on \in Present
       \/ \E j \in Ops(p, "AddTask") : j < i /\ p[j].on = p[i].on
  \/ \E i \in Ops(p, "RemoveEdge") :
       \/ p[i].on \notin edges
       \/ \E j \in Ops(p, "RemoveEdge") : j < i /\ p[j].on = p[i].on

\* _predecessor_diff, of the tasks the mission had.
Changed(p) == {k \in Present : PredsIn(edges, k) # PredsIn(PostEdges(p), k)}
Locked(p) == {k \in Changed(p) : status[k] = "RUNNING"}
Released(p) == {k \in Changed(p) : status[k] = "ASSIGNED"}

\* Statuses on the clone before recompute_ready, owners and holdings.
BeforeFrontier(p) ==
  [k \in Keys |->
     IF \/ k \in Subjects(p, "AddTask")
        \/ k \in Changed(p) /\ status[k] \in {"ASSIGNED", "READY"}
     THEN "PENDING" ELSE status[k]]

\* Mutant of PostStatus: the frontier is left to the executor.
PostStatusStale(p) == BeforeFrontier(p)

PostStatus(p) == Frontier(BeforeFrontier(p), PostEdges(p))
PostOwner(p) == [k \in Keys |-> IF k \in Released(p) THEN NoAgent ELSE owner[k]]
PostHolds(p) == [a \in Agents |-> holds[a] \ Released(p)]

\* The assignment rules of step 7, on any state.
Consistent(st, own, hold) ==
  /\ \A k \in Keys :
       LET holders == {a \in Agents : k \in hold[a]} IN
       IF st[k] \in Committed
       THEN own[k] # NoAgent /\ holders = {own[k]}
       ELSE own[k] = NoAgent /\ holders = {}

PatchVerdict(p) ==
  IF FieldErrors(p) THEN Rejected("fields", {"E_SCHEMA"})
  ELSE IF Conflicts(p) THEN Rejected("conflicts", {"E_PATCH_CONFLICT"})
  ELSE IF TouchesTerminal(p) THEN Rejected("terminal", {"E_TERMINAL_IMMUTABLE"})
  ELSE IF StructureCodes(PostNodes(p), PostEdges(p)) # {}
       THEN Rejected("structure", StructureCodes(PostNodes(p), PostEdges(p)))
  ELSE IF MaterialiseRaises(p) THEN Raised
  ELSE IF Locked(p) # {} THEN Rejected("reconcile", {"E_RUNNING_LOCKED"})
  ELSE IF FrontierRaises(BeforeFrontier(p), PostEdges(p)) THEN Raised
  ELSE IF ~ Consistent(PostStatus(p), PostOwner(p), PostHolds(p))
       THEN Rejected("assignments", {"E_SCHEMA"})
  ELSE Accepted

ApplyPatch(p) ==
  /\ loaded /\ verdict = Unread
  /\ verdict' = PatchVerdict(p)
  /\ IF PatchVerdict(p) = Accepted
     THEN /\ status' = PostStatus(p)
          /\ edges' = PostEdges(p)
          /\ owner' = PostOwner(p)
          /\ holds' = PostHolds(p)
     ELSE UNCHANGED missionVars
  /\ UNCHANGED loaded

\* The caller takes the result of a candidate or a patch.
ReadVerdict ==
  /\ verdict # Unread
  /\ verdict' = Unread
  /\ UNCHANGED <<loaded, missionVars>>

-----------------------------------------------------------------------------
(* What the executor does to the mission between two patches.              *)

Executing == loaded /\ verdict = Unread /\ UNCHANGED <<loaded, edges, verdict>>

Award(k, a) ==
  /\ Executing
  /\ status[k] = "READY"
  /\ status' = [status EXCEPT ![k] = "ASSIGNED"]
  /\ owner' = [owner EXCEPT ![k] = a]
  /\ holds' = [holds EXCEPT ![a] = @ \cup {k}]

Release(k) ==
  /\ Executing
  /\ status[k] = "ASSIGNED"
  /\ status' = Frontier([status EXCEPT ![k] = "PENDING"], edges)
  /\ owner' = [owner EXCEPT ![k] = NoAgent]
  /\ holds' = [a \in Agents |-> holds[a] \ {k}]

Dispatch(k) ==
  /\ Executing
  /\ status[k] = "ASSIGNED"
  /\ status' = [status EXCEPT ![k] = "RUNNING"]
  /\ UNCHANGED <<owner, holds>>

Complete(k) ==
  /\ Executing
  /\ status[k] = "RUNNING"
  /\ status' = Frontier([status EXCEPT ![k] = "COMPLETED"], edges)
  /\ owner' = [owner EXCEPT ![k] = NoAgent]
  /\ holds' = [holds EXCEPT ![owner[k]] = @ \ {k}]

Init ==
  /\ loaded = FALSE
  /\ status = [k \in Keys |-> "ABSENT"] /\ edges = {}
  /\ owner = [k \in Keys |-> NoAgent] /\ holds = [a \in Agents |-> {}]
  /\ verdict = Unread

Next ==
  \/ \E c \in Candidates : LoadCandidate(c)
  \/ \E p \in Patches : ApplyPatch(p)
  \/ ReadVerdict
  \/ \E k \in Keys, a \in Agents : Award(k, a)
  \/ \E k \in Keys : Release(k) \/ Dispatch(k) \/ Complete(k)

Spec == Init /\ [][Next]_patchVars

-----------------------------------------------------------------------------
(* Properties.                                                             *)

PatchTypeOK ==
  /\ loaded \in BOOLEAN
  /\ status \in [Keys -> Statuses]
  /\ edges \subseteq Edges
  /\ owner \in [Keys -> Agents \cup {NoAgent}]
  /\ holds \in [Agents -> SUBSET Keys]
  /\ verdict \in Verdicts

\* Whatever sequence of candidates and patches was accepted, the graph is one
\* the executor may carry out: every edge joins two of its tasks, every task
\* has the predecessors its type needs and no others, can be done and reached,
\* and the tasks can be ordered (validate_structure and the two ways in).
CommittedIsValid ==
  /\ edges \subseteq Present \X Present
  /\ \A k \in Present : PredsIn(edges, k) = Required[k]
  /\ Present \subseteq Known \cap Feasible \cap Reachable
  /\ ~ Cyclic(Present, edges)

\* The claim of patch_apply.py:8: no valid patch changes the predecessors of a
\* task that was there, so that no patch releases, locks or reorders anything
\* of the work in progress; it only adds.
ExistingKept ==
  [][verdict'.outcome = "accepted" /\ loaded =>
       /\ \A k \in Present :
            /\ PredsIn(edges', k) = PredsIn(edges, k)
            /\ status'[k] = status[k]
       /\ owner' = owner /\ holds' = holds]_patchVars

\* Whatever was patched in between, a task is committed, started or done only
\* after all its predecessors, and exactly the open tasks whose predecessors
\* are done are ready for the next auction.
OrderSurvives ==
  \A k \in Present :
    LET done == \A p \in PredsIn(edges, k) : status[p] = "COMPLETED" IN
    IF status[k] = "PENDING" THEN ~ done ELSE done

\* "A bad AddTask target is E_UNKNOWN_REF, not a crash" (patch_apply.py:113),
\* and the compiler that "raises on structurally broken input" never sees any:
\* the validation finds everything that building the graph would trip over, and
\* the checks behind it, the lock of running tasks and the assignment rules of
\* step 7, have nothing left to reject.
ValidationDecides ==
  /\ verdict.outcome # "raised"
  /\ verdict.check \notin {"reconcile", "assignments"}

=============================================================================
