---------------------------- MODULE PatchProofs ----------------------------
(***************************************************************************)
(* Proofs about PatchTransaction, for every vocabulary, scene, fleet, and  *)
(* every candidate and patch, well formed or not.                          *)
(*                                                                         *)
(* The whole-graph validation gives every task exactly the predecessors    *)
(* its type requires, before and after a patch; a task that was there      *)
(* therefore keeps its predecessors (PatchKeepsPreds), nothing is released *)
(* or locked, and the rest of the invariant follows for the tasks added.   *)
(***************************************************************************)
EXTENDS PatchTransaction, TLAPS

PatchInv ==
  /\ PatchTypeOK
  /\ ~ loaded => \A k \in Keys : status[k] = "ABSENT"
  /\ CommittedIsValid
  /\ OrderSurvives
  /\ Consistent(status, owner, holds)

-----------------------------------------------------------------------------
(* What an empty list of error codes says.                                 *)

\* The structural rules hold of a graph for which no code is reported.
LEMMA StructureSound ==
  ASSUME NEW N, NEW E, StructureCodes(N, E) = {}
  PROVE /\ N \subseteq Known \cap Feasible \cap Reachable
        /\ \A e \in E : {e[1], e[2]} \subseteq N
        /\ ~ Cyclic(N, E)
        /\ \A k \in N : PredsIn(E, k) = Required[k]
<1>1. ~ UnknownRefs(N, E)
  BY DEF StructureCodes, ErrorCodes
<1>2. N \ Feasible = {} /\ N \ Reachable = {}
  BY DEF StructureCodes, ErrorCodes
<1>3. ~ Cyclic(N, E)
  BY DEF StructureCodes, ErrorCodes
<1>4. ~ BreaksWorkflow(N, E)
  BY DEF StructureCodes, ErrorCodes
<1>5. QED
  BY <1>1, <1>2, <1>3, <1>4 DEF UnknownRefs, BreaksWorkflow

\* A well-formed operation list names keys and edges of the vocabulary.
LEMMA SubjectTypes ==
  ASSUME NEW p \in Seq(Operations)
  PROVE /\ Subjects(p, "AddTask") \subseteq Keys
        /\ Subjects(p, "AddEdge") \subseteq Edges
        /\ Subjects(p, "RemoveEdge") \subseteq Edges
<1>1. ASSUME NEW i \in DOMAIN p PROVE p[i] \in Operations
  OBVIOUS
<1>2. QED
  BY <1>1 DEF Subjects, Ops, Operations

\* The frontier keeps every status it does not derive, and derives the others
\* from the predecessors.
LEMMA FrontierValue ==
  ASSUME NEW st \in [Keys -> Statuses], NEW E, NEW k \in Keys
  PROVE /\ Frontier(st, E) \in [Keys -> Statuses]
        /\ st[k] \notin {"PENDING", "READY"} => Frontier(st, E)[k] = st[k]
        /\ st[k] \in {"PENDING", "READY"} =>
             Frontier(st, E)[k] = IF \A p \in PredsIn(E, k) : st[p] = "COMPLETED"
                                  THEN "READY" ELSE "PENDING"
        /\ Frontier(st, E)[k] = "COMPLETED" <=> st[k] = "COMPLETED"
        /\ Frontier(st, E)[k] = "ABSENT" <=> st[k] = "ABSENT"
        /\ Frontier(st, E)[k] \in Committed <=> st[k] \in Committed
BY DEF Frontier, Statuses, Committed

\* The predecessors a set of edges among N gives are in N.
LEMMA PredsAmong ==
  ASSUME NEW N, NEW E, \A e \in E : {e[1], e[2]} \subseteq N, NEW k
  PROVE PredsIn(E, k) \subseteq N /\ (k \notin N => PredsIn(E, k) = {})
BY DEF PredsIn

-----------------------------------------------------------------------------
(* Patches.                                                                *)

\* A patch that gets past the structural check keeps the predecessors of
\* every task that was there, and whatever it adds was not there.
LEMMA PatchKeepsPreds ==
  ASSUME PatchInv, NEW p \in Seq(Operations),
         StructureCodes(PostNodes(p), PostEdges(p)) = {}
  PROVE  /\ \A k \in Present : PredsIn(PostEdges(p), k) = PredsIn(edges, k)
         /\ Changed(p) = {} /\ Locked(p) = {} /\ Released(p) = {}
         /\ PostOwner(p) = owner /\ PostHolds(p) = holds
<1>1. \A k \in Present : PredsIn(PostEdges(p), k) = PredsIn(edges, k)
  BY StructureSound DEF PatchInv, CommittedIsValid, PostNodes
<1>2. Changed(p) = {}
  BY <1>1 DEF Changed
<1>3. Locked(p) = {} /\ Released(p) = {}
  BY <1>2 DEF Locked, Released
<1>4. PostOwner(p) = owner /\ PostHolds(p) = holds
  BY <1>3 DEF PostOwner, PostHolds, PatchInv, PatchTypeOK
<1>5. QED
  BY <1>1, <1>2, <1>3, <1>4

\* The statuses such a patch leaves: the old ones, and the added tasks open.
LEMMA PatchStatuses ==
  ASSUME PatchInv, NEW p \in Seq(Operations), ~ Conflicts(p),
         StructureCodes(PostNodes(p), PostEdges(p)) = {}
  PROVE  /\ BeforeFrontier(p) \in [Keys -> Statuses]
         /\ PostStatus(p) \in [Keys -> Statuses]
         /\ \A k \in Present : BeforeFrontier(p)[k] = status[k]
         /\ \A k \in Present : PostStatus(p)[k] = status[k]
         /\ \A k \in Keys \ Present :
              IF k \in Subjects(p, "AddTask")
              THEN BeforeFrontier(p)[k] = "PENDING"
              ELSE BeforeFrontier(p)[k] = "ABSENT" /\ PostStatus(p)[k] = "ABSENT"
<1>1. BeforeFrontier(p) \in [Keys -> Statuses]
  BY DEF BeforeFrontier, PatchInv, PatchTypeOK, Statuses
<1>2. PostStatus(p) \in [Keys -> Statuses]
  BY <1>1 DEF PostStatus, Frontier, Statuses
<1>3. ASSUME NEW k \in Present PROVE BeforeFrontier(p)[k] = status[k]
  <2>1. k \notin Subjects(p, "AddTask")
    BY DEF Conflicts
  <2>2. k \notin Changed(p)
    BY PatchKeepsPreds
  <2>3. QED
    BY <2>1, <2>2 DEF BeforeFrontier, Present
<1>4. ASSUME NEW k \in Present PROVE PostStatus(p)[k] = status[k]
  <2>1. CASE status[k] \notin {"PENDING", "READY"}
    BY <2>1, <1>1, <1>3, FrontierValue DEF PostStatus, Present
  <2>2. CASE status[k] \in {"PENDING", "READY"}
    <3>1. PredsIn(PostEdges(p), k) = PredsIn(edges, k) /\ PredsIn(edges, k) \subseteq Present
      BY PatchKeepsPreds DEF PatchInv, CommittedIsValid, PredsIn
    <3>2. \A q \in PredsIn(PostEdges(p), k) : BeforeFrontier(p)[q] = status[q]
      BY <3>1, <1>3
    <3>3. PostStatus(p)[k] =
            IF \A q \in PredsIn(edges, k) : status[q] = "COMPLETED" THEN "READY" ELSE "PENDING"
      BY <2>2, <1>1, <1>3, <3>1, <3>2, FrontierValue DEF PostStatus, Present
    <3>4. QED
      BY <2>2, <3>3 DEF PatchInv, OrderSurvives
  <2>3. QED
    BY <2>1, <2>2
<1>5. ASSUME NEW k \in Keys \ Present
      PROVE  IF k \in Subjects(p, "AddTask")
             THEN BeforeFrontier(p)[k] = "PENDING"
             ELSE BeforeFrontier(p)[k] = "ABSENT" /\ PostStatus(p)[k] = "ABSENT"
  <2>1. CASE k \in Subjects(p, "AddTask")
    BY <2>1 DEF BeforeFrontier
  <2>2. CASE k \notin Subjects(p, "AddTask")
    <3>1. BeforeFrontier(p)[k] = "ABSENT"
      BY <2>2 DEF BeforeFrontier, Changed, Present
    <3>2. QED
      BY <2>2, <3>1, <1>1, FrontierValue DEF PostStatus
  <2>3. QED
    BY <2>1, <2>2
<1>6. QED
  BY <1>1, <1>2, <1>3, <1>4, <1>5

\* Nothing that building the graph would trip over gets past the validation.
LEMMA PatchBuilds ==
  ASSUME PatchInv, NEW p \in Seq(Operations), ~ Conflicts(p),
         StructureCodes(PostNodes(p), PostEdges(p)) = {}
  PROVE  /\ ~ MaterialiseRaises(p)
         /\ ~ FrontierRaises(BeforeFrontier(p), PostEdges(p))
<1>1. ~ MaterialiseRaises(p)
  <2>1. ASSUME NEW i \in Ops(p, "AddTask")
        PROVE  /\ p[i].on \in Known /\ p[i].on \notin Present
               /\ ~ \E j \in Ops(p, "AddTask") : j < i /\ p[j].on = p[i].on
    <3>1. p[i].on \in Subjects(p, "AddTask")
      BY DEF Subjects
    <3>2. p[i].on \in Known
      BY <3>1, StructureSound DEF PostNodes
    <3>3. i \in Nat
      BY DEF Ops
    <3>4. QED
      BY <3>1, <3>2, <3>3 DEF Conflicts, Twice, Ops
  <2>2. ASSUME NEW i \in Ops(p, "RemoveEdge")
        PROVE  /\ p[i].on \in edges
               /\ ~ \E j \in Ops(p, "RemoveEdge") : j < i /\ p[j].on = p[i].on
    <3>1. p[i].on \in Subjects(p, "RemoveEdge")
      BY DEF Subjects
    <3>2. i \in Nat
      BY DEF Ops
    <3>3. QED
      BY <3>1, <3>2 DEF Conflicts, Twice, Ops
  <2>3. QED
    BY <2>1, <2>2 DEF MaterialiseRaises
<1>2. ASSUME NEW k \in Keys, BeforeFrontier(p)[k] \in {"PENDING", "READY"},
             NEW q \in PredsIn(PostEdges(p), k)
      PROVE  BeforeFrontier(p)[q] # "ABSENT"
  <2>1. q \in PostNodes(p)
    BY StructureSound, PredsAmong
  <2>2. q \in Keys
    BY DEF PredsIn
  <2>3. QED
    BY <2>1, <2>2, PatchStatuses DEF PostNodes, Present
<1>3. QED
  BY <1>1, <1>2 DEF FrontierRaises

\* So an accepted patch leaves a valid graph with the same work in progress,
\* and the two late checks reject nothing.
LEMMA PatchAccepted ==
  ASSUME PatchInv, NEW p \in Seq(Operations), ~ Conflicts(p),
         StructureCodes(PostNodes(p), PostEdges(p)) = {}
  PROVE  Consistent(PostStatus(p), PostOwner(p), PostHolds(p))
<1>1. PostOwner(p) = owner /\ PostHolds(p) = holds
  BY PatchKeepsPreds
<1>2. ASSUME NEW k \in Keys PROVE PostStatus(p)[k] \in Committed <=> status[k] \in Committed
  <2>1. CASE k \in Present
    BY <2>1, PatchStatuses
  <2>2. CASE k \notin Present
    <3>1. status[k] \notin Committed /\ BeforeFrontier(p)[k] \notin Committed
      BY <2>2, PatchStatuses DEF Present, Committed
    <3>2. QED
      BY <3>1, PatchStatuses, FrontierValue DEF PostStatus
  <2>3. QED
    BY <2>1, <2>2
<1>3. QED
  BY <1>1, <1>2 DEF PatchInv, Consistent

LEMMA VerdictOfPatch ==
  ASSUME PatchInv, NEW p \in Seq(Operations)
  PROVE  /\ PatchVerdict(p) \in Verdicts
         /\ PatchVerdict(p).outcome # "raised"
         /\ PatchVerdict(p).check \notin {"reconcile", "assignments"}
         /\ PatchVerdict(p).outcome = "accepted" <=> PatchVerdict(p) = Accepted
         /\ PatchVerdict(p) = Accepted =>
              /\ ~ Conflicts(p)
              /\ StructureCodes(PostNodes(p), PostEdges(p)) = {}
<1>0. \A N, E : StructureCodes(N, E) \subseteq ErrorCodes
  BY DEF StructureCodes
<1>1. CASE FieldErrors(p)
  BY <1>1 DEF PatchVerdict, Rejected, Accepted, Verdicts, Checks, ErrorCodes
<1>2. CASE ~ FieldErrors(p) /\ Conflicts(p)
  BY <1>2 DEF PatchVerdict, Rejected, Accepted, Verdicts, Checks, ErrorCodes
<1>3. CASE ~ FieldErrors(p) /\ ~ Conflicts(p) /\ TouchesTerminal(p)
  BY <1>3 DEF PatchVerdict, Rejected, Accepted, Verdicts, Checks, ErrorCodes
<1>4. CASE /\ ~ FieldErrors(p) /\ ~ Conflicts(p) /\ ~ TouchesTerminal(p)
           /\ StructureCodes(PostNodes(p), PostEdges(p)) # {}
  BY <1>4, <1>0 DEF PatchVerdict, Rejected, Accepted, Verdicts, Checks
<1>5. CASE /\ ~ FieldErrors(p) /\ ~ Conflicts(p) /\ ~ TouchesTerminal(p)
           /\ StructureCodes(PostNodes(p), PostEdges(p)) = {}
  <2>1. PatchVerdict(p) = Accepted
    BY <1>5, PatchBuilds, PatchAccepted, PatchKeepsPreds DEF PatchVerdict
  <2>2. QED
    BY <2>1, <1>5 DEF Accepted, Verdicts, Checks
<1>6. QED
  BY <1>1, <1>2, <1>3, <1>4, <1>5

-----------------------------------------------------------------------------
(* Steps.                                                                  *)

\* The executor changes no edge and brings no task into the graph.
LEMMA GraphKept ==
  ASSUME PatchInv, edges' = edges, status' \in [Keys -> Statuses],
         \A k \in Keys : status'[k] = "ABSENT" <=> status[k] = "ABSENT"
  PROVE  Present' = Present /\ CommittedIsValid'
<1>1. Present' = Present
  BY DEF Present
<1>2. QED
  BY <1>1 DEF PatchInv, CommittedIsValid, PredsIn, Cyclic

\* A graph without error codes is valid once it is the graph of the mission.
LEMMA NewGraphValid ==
  ASSUME NEW N, NEW E, E \subseteq Edges, StructureCodes(N, E) = {},
         Present' = N, edges' = E
  PROVE  CommittedIsValid'
<1>1. /\ N \subseteq Known \cap Feasible \cap Reachable
      /\ \A e \in E : {e[1], e[2]} \subseteq N
      /\ ~ Cyclic(N, E)
      /\ \A k \in N : PredsIn(E, k) = Required[k]
  BY StructureSound
<1>2. edges' \subseteq Present' \X Present'
  BY <1>1 DEF Edges
<1>3. ~ Cyclic(Present', edges')
  BY <1>1
<1>4. \A k \in Present' : PredsIn(edges', k) = Required[k]
  BY <1>1
<1>5. QED
  BY <1>1, <1>2, <1>3, <1>4 DEF CommittedIsValid

\* A candidate that is accepted starts the mission in order, with nothing
\* assigned; any other leaves no mission.
LEMMA LoadStep ==
  ASSUME PatchInv, NEW c \in Candidates, LoadCandidate(c)
  PROVE  PatchInv' /\ verdict'.outcome # "raised"
                   /\ verdict'.check \notin {"reconcile", "assignments"}
<1>1. c.tasks \in Seq(RawTasks) /\ c.edges \in Seq(RawEdges)
  BY PatchAssumption
<1>2. ParseCodes(c) \subseteq ErrorCodes /\ CandidateCodes(c) \subseteq ErrorCodes
  BY DEF ParseCodes, CandidateCodes
<1>3. CASE ParseCodes(c) # {} \/ CandidateCodes(c) # {}
  <2>1. /\ verdict' \in Verdicts /\ verdict' # Accepted /\ verdict'.outcome # "raised"
        /\ verdict'.check \notin {"reconcile", "assignments"}
        /\ CandidateVerdict(c) # Accepted
    BY <1>2, <1>3 DEF LoadCandidate, CandidateVerdict, Rejected, Accepted, Verdicts, Checks
  <2>2. UNCHANGED <<loaded, missionVars>>
    BY <2>1 DEF LoadCandidate
  <2>3. QED
    BY <2>1, <2>2 DEF PatchInv, PatchTypeOK, missionVars, CommittedIsValid, OrderSurvives,
                      Consistent, Present
<1>4. CASE ParseCodes(c) = {} /\ CandidateCodes(c) = {}
  <2> DEFINE N == Elements(c.tasks)
             E == Elements(c.edges)
             start == [k \in Keys |-> IF k \in N THEN "PENDING" ELSE "ABSENT"]
  <2>1. N \subseteq Keys /\ E \subseteq Edges
    <3>1. Malformed \notin N \cup E
      BY <1>4 DEF ParseCodes, ErrorCodes
    <3>2. BadType \notin N \cup E
      BY <1>4 DEF ParseCodes, ErrorCodes
    <3>3. N \subseteq RawTasks /\ E \subseteq RawEdges
      BY <1>1 DEF Elements
    <3>4. QED
      BY <3>1, <3>2, <3>3 DEF RawTasks, RawEdges
  <2>2. ~ Repeats(c.tasks) /\ ~ Repeats(c.edges) /\ StructureCodes(N, E) = {}
    BY <1>4 DEF CandidateCodes, ErrorCodes, StructureCodes
  <2>3. /\ N \subseteq Known \cap Feasible \cap Reachable
        /\ \A e \in E : {e[1], e[2]} \subseteq N
        /\ ~ Cyclic(N, E)
        /\ \A k \in N : PredsIn(E, k) = Required[k]
    BY <2>2, StructureSound
  <2>4. CandidateVerdict(c) = Accepted
    BY <1>4, <2>2, <2>3 DEF CandidateVerdict, CompileRaises
  <2>5. /\ loaded' = TRUE /\ edges' = E /\ status' = Frontier(start, E)
        /\ owner' = owner /\ holds' = holds /\ verdict' = Accepted
    BY <2>4 DEF LoadCandidate
  <2>6. start \in [Keys -> Statuses]
    BY DEF Statuses
  <2>7. status' \in [Keys -> Statuses] /\ Present' = N
    BY <2>1, <2>5 DEF Frontier, Present, Statuses
  <2>8. ASSUME NEW k \in Keys PROVE status'[k] \notin Committed
    BY <2>5, <2>6, FrontierValue DEF Committed
  <2>9. ASSUME NEW k \in Keys
        PROVE owner[k] = NoAgent /\ {a \in Agents : k \in holds[a]} = {}
    BY DEF LoadCandidate, PatchInv, Consistent, Committed
  <2>10. Consistent(status, owner, holds)'
    BY <2>5, <2>8, <2>9 DEF Consistent
  <2>11. OrderSurvives'
    <3>1. SUFFICES ASSUME NEW k \in N
                   PROVE  LET done == \A q \in PredsIn(E, k) : status'[q] = "COMPLETED" IN
                          IF status'[k] = "PENDING" THEN ~ done ELSE done
      BY <2>5, <2>7 DEF OrderSurvives, PredsIn
    <3>2. start[k] = "PENDING"
      BY <2>1
    <3>3. \A q \in PredsIn(E, k) : start[q] = "COMPLETED" <=> status'[q] = "COMPLETED"
      BY <2>5, <2>6, FrontierValue DEF PredsIn
    <3>4. QED
      BY <2>1, <2>5, <2>6, <3>2, <3>3, FrontierValue
  <2>12. CommittedIsValid'
    BY <2>1, <2>2, <2>5, <2>7, NewGraphValid
  <2>13. PatchTypeOK'
    BY <2>1, <2>5, <2>7 DEF PatchInv, PatchTypeOK, Accepted, Verdicts, Checks
  <2>14. QED
    BY <2>5, <2>10, <2>11, <2>12, <2>13 DEF PatchInv, Accepted
<1>5. QED
  BY <1>3, <1>4

LEMMA ApplyStep ==
  ASSUME PatchInv, NEW p \in Patches, ApplyPatch(p)
  PROVE  /\ PatchInv' /\ verdict'.outcome # "raised"
         /\ verdict'.check \notin {"reconcile", "assignments"}
         /\ verdict'.outcome = "accepted" =>
              /\ \A k \in Present : PredsIn(edges', k) = PredsIn(edges, k) /\ status'[k] = status[k]
              /\ owner' = owner /\ holds' = holds
<1>0. p \in Seq(Operations)
  BY PatchAssumption
<1>1. verdict' = PatchVerdict(p)
  BY DEF ApplyPatch
<1>2. CASE PatchVerdict(p) # Accepted
  <2>1. UNCHANGED <<loaded, missionVars>>
    BY <1>2 DEF ApplyPatch
  <2>2. QED
    BY <1>0, <1>1, <1>2, <2>1, VerdictOfPatch
       DEF PatchInv, PatchTypeOK, missionVars, CommittedIsValid, OrderSurvives, Consistent, Present
<1>3. CASE PatchVerdict(p) = Accepted
  <2> DEFINE N == PostNodes(p)
             E == PostEdges(p)
  <2>1. ~ Conflicts(p) /\ StructureCodes(N, E) = {}
    BY <1>0, <1>3, VerdictOfPatch
  <2>2. /\ status' = PostStatus(p) /\ edges' = E /\ owner' = PostOwner(p)
        /\ holds' = PostHolds(p) /\ loaded' = loaded /\ loaded
    BY <1>3 DEF ApplyPatch
  <2>3. /\ N \subseteq Known \cap Feasible \cap Reachable
        /\ \A e \in E : {e[1], e[2]} \subseteq N
        /\ ~ Cyclic(N, E)
        /\ \A k \in N : PredsIn(E, k) = Required[k]
    BY <2>1, StructureSound
  <2>4. owner' = owner /\ holds' = holds
    BY <1>0, <2>1, <2>2, PatchKeepsPreds
  <2>5. /\ \A k \in Present : PredsIn(edges', k) = PredsIn(edges, k)
        /\ \A k \in Present : status'[k] = status[k]
    BY <1>0, <2>1, <2>2, PatchKeepsPreds, PatchStatuses
  <2>6. Subjects(p, "AddTask") \subseteq Keys /\ E \subseteq Edges
    BY <1>0, SubjectTypes DEF PostEdges, PatchInv, PatchTypeOK
  <2>7. status' \in [Keys -> Statuses] /\ BeforeFrontier(p) \in [Keys -> Statuses]
    BY <1>0, <2>1, <2>2, PatchStatuses
  <2>8. Present' = N
    <3>1. ASSUME NEW k \in Keys PROVE status'[k] # "ABSENT" <=> k \in N
      <4>1. CASE k \in Present
        BY <4>1, <2>5 DEF PostNodes, Present
      <4>2. CASE k \notin Present
        BY <4>2, <1>0, <2>1, <2>2, <2>7, PatchStatuses, FrontierValue DEF PostStatus, PostNodes
      <4>3. QED
        BY <4>1, <4>2
    <3>2. QED
      BY <3>1, <2>6 DEF Present, PostNodes
  <2>9. CommittedIsValid'
    BY <2>1, <2>2, <2>6, <2>8, NewGraphValid
  <2>10. OrderSurvives'
    <3>1. SUFFICES ASSUME NEW k \in N
                   PROVE  LET done == \A q \in PredsIn(E, k) : status'[q] = "COMPLETED" IN
                          IF status'[k] = "PENDING" THEN ~ done ELSE done
      BY <2>2, <2>8 DEF OrderSurvives, PredsIn
    <3>2. CASE k \in Present
      <4>1. PredsIn(E, k) = PredsIn(edges, k) /\ PredsIn(edges, k) \subseteq Present
        BY <3>2, <2>2, <2>5 DEF PatchInv, CommittedIsValid, PredsIn
      <4>2. QED
        BY <3>2, <4>1, <2>5 DEF PatchInv, OrderSurvives
    <3>3. CASE k \notin Present
      <4>1. k \in Keys /\ BeforeFrontier(p)[k] = "PENDING"
        BY <3>3, <1>0, <2>1, <2>6, PatchStatuses DEF PostNodes
      <4>2. \A q \in PredsIn(E, k) :
              BeforeFrontier(p)[q] = "COMPLETED" <=> status'[q] = "COMPLETED"
        BY <2>2, <2>7, FrontierValue DEF PostStatus, PredsIn
      <4>3. QED
        BY <4>1, <4>2, <2>2, <2>7, FrontierValue DEF PostStatus
    <3>4. QED
      BY <3>2, <3>3
  <2>11. Consistent(status, owner, holds)'
    BY <1>0, <2>1, <2>2, PatchAccepted DEF Consistent
  <2>12. PatchTypeOK'
    BY <1>0, <1>1, <2>2, <2>4, <2>6, <2>7, VerdictOfPatch DEF PatchInv, PatchTypeOK
  <2>13. QED
    BY <1>0, <1>1, <2>2, <2>4, <2>5, <2>9, <2>10, <2>11, <2>12, VerdictOfPatch DEF PatchInv
<1>4. QED
  BY <1>2, <1>3

\* Awards, releases, dispatches and completions keep the invariant.
LEMMA ExecutionStep ==
  ASSUME PatchInv, NEW k \in Keys,
         \/ \E a \in Agents : Award(k, a)
         \/ Release(k) \/ Dispatch(k) \/ Complete(k)
  PROVE  PatchInv' /\ verdict' = verdict /\ verdict = Unread
<1>1. edges' = edges /\ loaded' = loaded /\ verdict' = verdict /\ verdict = Unread /\ loaded
  BY DEF Award, Release, Dispatch, Complete, Executing
<1>2. status[k] \notin {"ABSENT", "PENDING", "COMPLETED"}
  BY DEF Award, Release, Dispatch, Complete
<1>3. \A q \in PredsIn(edges, k) : status[q] = "COMPLETED"
  BY <1>2 DEF PatchInv, OrderSurvives, Present
<1>4. ASSUME NEW q \in Keys, k \in PredsIn(edges, q) PROVE status[q] \in {"ABSENT", "PENDING"}
  <2>1. CASE status[q] = "ABSENT"
    BY <2>1
  <2>2. CASE status[q] # "ABSENT"
    BY <1>2, <1>4, <2>2 DEF PatchInv, OrderSurvives, Present
  <2>3. QED
    BY <2>1, <2>2
<1>5. k \notin PredsIn(edges, k)
  BY <1>2, <1>4
<1>6. CASE \E a \in Agents : Award(k, a)
  <2>1. PICK a \in Agents : Award(k, a)
    BY <1>6
  <2>2. /\ status[k] = "READY" /\ status' = [status EXCEPT ![k] = "ASSIGNED"]
        /\ owner' = [owner EXCEPT ![k] = a] /\ holds' = [holds EXCEPT ![a] = @ \cup {k}]
    BY <2>1 DEF Award
  <2>3. Consistent(status, owner, holds)'
    <3>1. ASSUME NEW q \in Keys, q # k
          PROVE  {b \in Agents : q \in holds'[b]} = {b \in Agents : q \in holds[b]}
      BY <2>2, <3>1 DEF PatchInv, PatchTypeOK
    <3>2. {b \in Agents : k \in holds[b]} = {}
      BY <2>2 DEF PatchInv, Consistent, Committed
    <3>3. {b \in Agents : k \in holds'[b]} = {a}
      BY <2>2, <3>2 DEF PatchInv, PatchTypeOK
    <3>4. a # NoAgent
      BY PatchAssumption
    <3>5. QED
      BY <2>2, <3>1, <3>3, <3>4 DEF PatchInv, PatchTypeOK, Consistent, Committed
  <2>4. status' \in [Keys -> Statuses] /\ CommittedIsValid'
    BY <2>2, <1>1, GraphKept DEF PatchInv, PatchTypeOK, Statuses
  <2>5. OrderSurvives'
    BY <2>2, <1>1, <1>3, <1>4, <1>5 DEF PatchInv, PatchTypeOK, OrderSurvives, Present, Statuses, PredsIn
  <2>6. QED
    BY <1>1, <2>2, <2>3, <2>4, <2>5 DEF PatchInv, PatchTypeOK
<1>7. CASE Dispatch(k)
  <2>1. /\ status[k] = "ASSIGNED" /\ status' = [status EXCEPT ![k] = "RUNNING"]
        /\ owner' = owner /\ holds' = holds
    BY <1>7 DEF Dispatch
  <2>2. status' \in [Keys -> Statuses] /\ CommittedIsValid'
    BY <2>1, <1>1, GraphKept DEF PatchInv, PatchTypeOK, Statuses
  <2>3. OrderSurvives'
    BY <2>1, <1>1, <1>3, <1>4, <1>5 DEF PatchInv, PatchTypeOK, OrderSurvives, Present, Statuses, PredsIn
  <2>4. Consistent(status, owner, holds)'
    BY <2>1 DEF PatchInv, PatchTypeOK, Consistent, Committed
  <2>5. QED
    BY <1>1, <2>1, <2>2, <2>3, <2>4 DEF PatchInv, PatchTypeOK
<1>8. CASE Release(k) \/ Complete(k)
  <2> DEFINE new == IF Release(k) THEN "PENDING" ELSE "COMPLETED"
             st == [status EXCEPT ![k] = new]
  <2>1. /\ status[k] \in Committed /\ status' = Frontier(st, edges)
        /\ owner' = [owner EXCEPT ![k] = NoAgent]
        /\ holds' = [b \in Agents |-> holds[b] \ {k}]
    <3>1. CASE Release(k)
      BY <3>1 DEF Release, Committed
    <3>2. CASE Complete(k) /\ ~ Release(k)
      <4>1. /\ status[k] = "RUNNING" /\ status' = Frontier(st, edges)
            /\ owner' = [owner EXCEPT ![k] = NoAgent]
            /\ holds' = [holds EXCEPT ![owner[k]] = @ \ {k}]
        BY <3>2 DEF Complete
      <4>2. {b \in Agents : k \in holds[b]} = {owner[k]}
        BY <4>1 DEF PatchInv, Consistent, Committed
      <4>3. \A b \in Agents : b # owner[k] => holds[b] \ {k} = holds[b]
        BY <4>2
      <4>4. holds' = [b \in Agents |-> holds[b] \ {k}]
        BY <4>1, <4>3 DEF PatchInv, PatchTypeOK
      <4>5. QED
        BY <4>1, <4>4 DEF Committed
    <3>3. QED
      BY <1>8, <3>1, <3>2
  <2>2. /\ st \in [Keys -> Statuses] /\ st[k] = new /\ new \in {"PENDING", "COMPLETED"}
        /\ \A q \in Keys : q # k => st[q] = status[q]
    BY DEF PatchInv, PatchTypeOK, Statuses
  <2> HIDE DEF st, new
  <2>9. ASSUME NEW q \in Keys
        PROVE  /\ st[q] \notin {"PENDING", "READY"} => status'[q] = st[q]
               /\ st[q] \in {"PENDING", "READY"} =>
                    status'[q] = IF \A r \in PredsIn(edges, q) : st[r] = "COMPLETED"
                                 THEN "READY" ELSE "PENDING"
               /\ status'[q] = "COMPLETED" <=> st[q] = "COMPLETED"
               /\ status'[q] = "ABSENT" <=> st[q] = "ABSENT"
               /\ status'[q] \in Committed <=> st[q] \in Committed
    BY <2>1, <2>2, FrontierValue
  <2>3. ASSUME NEW q \in Keys
        PROVE  /\ status'[q] = "ABSENT" <=> status[q] = "ABSENT"
               /\ status'[q] = "COMPLETED" <=> st[q] = "COMPLETED"
    BY <1>2, <2>2, <2>9
  <2>4. status' \in [Keys -> Statuses]
    BY <2>1, <2>2 DEF Frontier, Statuses
  <2>5. CommittedIsValid' /\ Present' = Present
    BY <2>3, <2>4, <1>1, GraphKept
  <2>6. OrderSurvives'
    <3>1. SUFFICES ASSUME NEW q \in Present
                   PROVE  LET done == \A r \in PredsIn(edges, q) : status'[r] = "COMPLETED" IN
                          IF status'[q] = "PENDING" THEN ~ done ELSE done
      BY <1>1, <2>5 DEF OrderSurvives
    <3>2. \A r \in PredsIn(edges, q) : status'[r] = "COMPLETED" <=> st[r] = "COMPLETED"
      BY <2>3 DEF PredsIn
    <3>3. CASE st[q] \in {"PENDING", "READY"}
      BY <3>2, <3>3, <2>9 DEF Present
    <3>4. CASE st[q] \notin {"PENDING", "READY"}
      <4>1. status'[q] = st[q] /\ st[q] # "PENDING" /\ q \in Keys
        BY <3>4, <2>9 DEF Present
      <4>2. \A r \in PredsIn(edges, q) : status[r] = "COMPLETED"
        BY <1>3, <2>2, <3>4, <4>1 DEF PatchInv, OrderSurvives, Present
      <4>3. k \notin PredsIn(edges, q)
        BY <1>2, <4>2
      <4>4. QED
        BY <2>2, <3>2, <4>1, <4>2, <4>3 DEF PredsIn
    <3>5. QED
      BY <3>3, <3>4
  <2>7. Consistent(status, owner, holds)'
    <3>1. SUFFICES ASSUME NEW q \in Keys
                   PROVE  LET holders == {b \in Agents : q \in holds'[b]} IN
                          IF status'[q] \in Committed
                          THEN owner'[q] # NoAgent /\ holders = {owner'[q]}
                          ELSE owner'[q] = NoAgent /\ holders = {}
      BY DEF Consistent
    <3>2. CASE q = k
      <4>1. status'[q] \notin Committed
        BY <3>2, <2>2, <2>9 DEF Committed
      <4>2. QED
        BY <3>2, <4>1, <2>1 DEF PatchInv, PatchTypeOK
    <3>3. CASE q # k
      <4>1. {b \in Agents : q \in holds'[b]} = {b \in Agents : q \in holds[b]}
        BY <3>3, <2>1
      <4>2. owner'[q] = owner[q] /\ (status'[q] \in Committed <=> status[q] \in Committed)
        BY <3>3, <2>1, <2>2, <2>9 DEF PatchInv, PatchTypeOK
      <4>3. QED
        BY <4>1, <4>2 DEF PatchInv, Consistent
    <3>4. QED
      BY <3>2, <3>3
  <2>8. QED
    BY <1>1, <2>1, <2>4, <2>5, <2>6, <2>7 DEF PatchInv, PatchTypeOK
<1>9. QED
  BY <1>6, <1>7, <1>8

-----------------------------------------------------------------------------
(* Theorems.                                                               *)

LEMMA InvStep ==
  ASSUME PatchInv, [Next]_patchVars
  PROVE  PatchInv'
<1>1. CASE \E c \in Candidates : LoadCandidate(c)
  BY <1>1, LoadStep
<1>2. CASE \E p \in Patches : ApplyPatch(p)
  BY <1>2, ApplyStep
<1>3. CASE ReadVerdict \/ UNCHANGED patchVars
  <2>1. UNCHANGED <<loaded, missionVars>> /\ verdict' \in Verdicts
    BY <1>3 DEF ReadVerdict, patchVars, missionVars, PatchInv, PatchTypeOK, Unread, Verdicts, Checks
  <2>2. Present' = Present /\ CommittedIsValid'
    BY <2>1, GraphKept DEF missionVars, PatchInv, PatchTypeOK
  <2>3. OrderSurvives' /\ Consistent(status, owner, holds)'
    BY <2>1, <2>2 DEF missionVars, PatchInv, OrderSurvives, Consistent
  <2>4. QED
    BY <2>1, <2>2, <2>3 DEF missionVars, PatchInv, PatchTypeOK
<1>4. CASE \/ \E k \in Keys, a \in Agents : Award(k, a)
           \/ \E k \in Keys : Release(k) \/ Dispatch(k) \/ Complete(k)
  BY <1>4, ExecutionStep
<1>5. QED
  BY <1>1, <1>2, <1>3, <1>4 DEF Next

LEMMA InitInv == Init => PatchInv
<1>1. SUFFICES ASSUME Init PROVE PatchInv
  OBVIOUS
<1>2. Present = {}
  BY <1>1 DEF Init, Present
<1>3. CommittedIsValid /\ OrderSurvives
  BY <1>1, <1>2 DEF Init, CommittedIsValid, OrderSurvives, Cyclic
<1>4. QED
  BY <1>1, <1>3 DEF Init, PatchInv, PatchTypeOK, Consistent, Unread, Verdicts, Checks,
                    Statuses, Committed

\* The inductive invariant: the graph is valid, the frontier is derived, and
\* owners and holdings agree with the statuses.
THEOREM PatchInvariant == Spec => []PatchInv
<1>1. QED
  BY InitInv, InvStep, PTL DEF Spec

\* Whatever candidates and patches were accepted, the graph obeys the rules.
THEOREM CommittedAlwaysValid == Spec => []CommittedIsValid
<1>1. PatchInv => CommittedIsValid
  BY DEF PatchInv
<1>2. QED
  BY <1>1, PatchInvariant, PTL

\* Executing and patching in any order keeps the order of the workflow.
THEOREM OrderAlwaysSurvives == Spec => []OrderSurvives
<1>1. PatchInv => OrderSurvives
  BY DEF PatchInv
<1>2. QED
  BY <1>1, PatchInvariant, PTL

\* The compiler and the materialisation never raise, and the late checks never
\* reject: what a verdict may be is settled by the whole-graph validation.
THEOREM ValidationSuffices == Spec => []ValidationDecides
<1>1. Init => ValidationDecides
  BY DEF Init, ValidationDecides, Unread
<1>2. ASSUME PatchInv, ValidationDecides, [Next]_patchVars
      PROVE  ValidationDecides'
  <2>1. CASE \E c \in Candidates : LoadCandidate(c)
    BY <2>1, <1>2, LoadStep DEF ValidationDecides
  <2>2. CASE \E p \in Patches : ApplyPatch(p)
    BY <2>2, <1>2, ApplyStep DEF ValidationDecides
  <2>3. CASE ReadVerdict \/ UNCHANGED patchVars
    BY <2>3, <1>2 DEF ReadVerdict, patchVars, ValidationDecides, Unread
  <2>4. CASE \/ \E k \in Keys, a \in Agents : Award(k, a)
             \/ \E k \in Keys : Release(k) \/ Dispatch(k) \/ Complete(k)
    <3>1. verdict' = verdict
      BY <2>4, <1>2, ExecutionStep
    <3>2. QED
      BY <3>1, <1>2 DEF ValidationDecides
  <2>5. QED
    BY <1>2, <2>1, <2>2, <2>3, <2>4 DEF Next
<1>3. QED
  BY <1>1, <1>2, PatchInvariant, PTL DEF Spec

\* No accepted patch changes the predecessors, the status or the owner of a
\* task that was in the mission.
THEOREM ExistingAlwaysKept == Spec => ExistingKept
<1> DEFINE Kept == verdict'.outcome = "accepted" /\ loaded =>
                     /\ \A k \in Present :
                          /\ PredsIn(edges', k) = PredsIn(edges, k)
                          /\ status'[k] = status[k]
                     /\ owner' = owner /\ holds' = holds
<1>1. ASSUME PatchInv, [Next]_patchVars PROVE [Kept]_patchVars
  <2>1. CASE \E c \in Candidates : LoadCandidate(c)
    BY <2>1 DEF LoadCandidate
  <2>2. CASE \E p \in Patches : ApplyPatch(p)
    BY <2>2, <1>1, ApplyStep
  <2>3. CASE ReadVerdict
    BY <2>3 DEF ReadVerdict, Unread
  <2>4. CASE \/ \E k \in Keys, a \in Agents : Award(k, a)
             \/ \E k \in Keys : Release(k) \/ Dispatch(k) \/ Complete(k)
    BY <2>4, <1>1, ExecutionStep DEF Unread
  <2>5. CASE UNCHANGED patchVars
    BY <2>5
  <2>6. QED
    BY <1>1, <2>1, <2>2, <2>3, <2>4, <2>5 DEF Next
<1>2. QED
  BY <1>1, PatchInvariant, PTL DEF Spec, ExistingKept

=============================================================================
