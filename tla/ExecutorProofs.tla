--------------------------- MODULE ExecutorProofs ---------------------------
(***************************************************************************)
(* The invariants of module Executor, for every task graph, fleet, team,   *)
(* duration and release policy; then what none of its steps may do, that   *)
(* every step is one of the steps MissionLifecycle allows, and how a       *)
(* mission is recorded and ends.                                           *)
(*                                                                         *)
(* An auction and a release work on copies of the allocation (RunEpoch has *)
(* them as parameters), so the inductive invariant is stated of any such   *)
(* copy: AllocOK of statuses, owners, awards and lists, BusyOK of them and *)
(* the tasks the agents are doing, and FrontierOK of a frontier that is up *)
(* to date.                                                                *)
(***************************************************************************)
EXTENDS Executor, TaskListsProofs

\* The tasks of an agent.
Owned(own, a) == {t \in Tasks : own[t] = a}

AllocOK(st, own, asg, bun, pth) ==
  /\ st \in [Tasks -> TaskStatus]
  /\ own \in [Tasks -> Agents \cup {NoAgent}]
  /\ asg \in [Tasks -> Agents \cup {NoAgent}]
  /\ bun \in [Agents -> Seq(Tasks)]
  /\ pth \in [Agents -> Seq(Tasks)]
  /\ \A a \in Agents :
       /\ IsInjective(bun[a]) /\ ToSet(bun[a]) = Owned(own, a)
       /\ IsInjective(pth[a]) /\ ToSet(pth[a]) = Owned(own, a)
  /\ \A t \in Tasks :
       /\ st[t] \in Committed <=> own[t] # NoAgent
       /\ st[t] \in Committed => asg[t] = own[t]
       /\ asg[t] # NoAgent => st[t] \in Committed \cup {"COMPLETED"}
       /\ asg[t] # NoAgent => asg[t] \in Eligible[t]
       /\ st[t] \in Committed \cup {"COMPLETED"} => PredsDone(st, t)

BusyOK(st, own, pth, cur) ==
  /\ cur \in [Agents -> Tasks \cup {NoTask}]
  /\ \A a \in Agents : \A t \in Tasks :
       cur[a] = t <=> st[t] = "RUNNING" /\ own[t] = a
  /\ \A a \in Agents :
       cur[a] # NoTask => pth[a] # <<>> /\ Head(pth[a]) = cur[a]

FrontierOK(st) == \A t \in Tasks : st[t] = "READY" => PredsDone(st, t)

ClockOK ==
  /\ finishAt \in [Agents -> Nat]
  /\ now \in Nat
  /\ departure \in [Tasks -> Nat \cup {NoTime}]
  /\ completion \in [Tasks -> Nat \cup {NoTime}]
  /\ \A a \in Agents : current[a] # NoTask => finishAt[a] >= now

CallOK ==
  /\ active \subseteq Agents
  /\ started \in BOOLEAN
  /\ epochPending \in BOOLEAN
  /\ mode \in {"NEW", "ONE_SHOT", "ONLINE"}
  /\ inCall \in BOOLEAN
  /\ result \in {"NONE", "COMPLETED", "DEADLOCK"}

\* The inductive invariant.
IInv ==
  /\ AllocOK(status, owner, assignments, bundle, path)
  /\ BusyOK(status, owner, path, current)
  /\ FrontierOK(status)
  /\ ClockOK
  /\ CallOK
  /\ CommittedToActive

-----------------------------------------------------------------------------
(* Auctions.                                                               *)

\* A bundle after an auction holds what it held and what was won.
LEMMA AuctionedBundlesOf ==
  ASSUME NEW b \in Seq(Tasks), IsInjective(b), NEW W \in SUBSET Tasks, W \cap ToSet(b) = {},
         NEW q \in AuctionedBundles(b, W)
  PROVE  q \in Seq(Tasks) /\ IsInjective(q) /\ ToSet(q) = ToSet(b) \cup W
<1>1. IsFiniteSet(W)
  BY FS_Subset, GraphAssumption
<1>2. PICK s \in SetToSeqs(W) : q = b \o s
  BY DEF AuctionedBundles
<1>3. s \in Seq(W) /\ IsInjective(s) /\ ToSet(s) = W
  BY <1>1, ListingOf
<1>4. s \in Seq(Tasks)
  BY <1>3
<1> QED
  BY <1>2, <1>3, <1>4, ConcatOf

\* A path after an auction holds what it held and what was won, and the task
\* that is being done is its head.
LEMMA AuctionedPathsOf ==
  ASSUME NEW p \in Seq(Tasks), IsInjective(p), NEW W \in SUBSET Tasks, W \cap ToSet(p) = {},
         NEW run \in ToSet(p) \cup {NoTask}, NEW q \in AuctionedPaths(p, run, W)
  PROVE  /\ q \in Seq(Tasks) /\ IsInjective(q) /\ ToSet(q) = ToSet(p) \cup W
         /\ run # NoTask => q # <<>> /\ Head(q) = run
<1>1. ToSet(p) \subseteq Tasks
  BY ListIsFinite
<1>2. CASE run = NoTask
  <2>1. q \in Keeping(p, ToSet(p) \cup W)
    BY <1>2 DEF AuctionedPaths, Inserted
  <2>2. ToSet(p) \cup W \in SUBSET Tasks
    BY <1>1
  <2>3. IsFiniteSet(ToSet(p) \cup W)
    BY <2>2, FS_Subset, GraphAssumption
  <2>4. q \in Seq(ToSet(p) \cup W) /\ IsInjective(q) /\ ToSet(q) = ToSet(p) \cup W
    BY <2>1, <2>3, KeepingOf
  <2> QED
    BY <1>2, <2>2, <2>4
<1>3. CASE run # NoTask
  <2> DEFINE r == Without(p, {run})
  <2>1. r \in Seq(Tasks) /\ ToSet(r) = ToSet(p) \ {run}
    BY WithoutOf
  <2>2. PICK s \in Keeping(r, ToSet(r) \cup W) : q = <<run>> \o s
    BY <1>3 DEF AuctionedPaths, Inserted
  <2>3. run \in ToSet(p) /\ run \in Tasks /\ run \notin W
    BY <1>1, <1>3
  <2> HIDE DEF r
  <2> DEFINE R == ToSet(r) \cup W
  <2>4. R \in SUBSET Tasks
    BY <1>1, <2>1
  <2>5. IsFiniteSet(R)
    BY <2>4, FS_Subset, GraphAssumption
  <2>6. s \in Seq(R) /\ IsInjective(s) /\ ToSet(s) = R
    BY <2>2, <2>5, KeepingOf
  <2>7. s \in Seq(Tasks)
    BY <2>4, <2>6
  <2>8. PICK h \in Seq(Tasks) : h = <<run>> /\ IsInjective(h) /\ ToSet(h) = {run}
    <3>1. <<run>> \in Seq(Tasks) /\ IsInjective(<<run>>) /\ ToSet(<<run>>) = {run}
      BY <2>3 DEF IsInjective, ToSet
    <3> QED
      BY <3>1
  <2>9. run \notin R
    BY <2>1, <2>3
  <2>10. q \in Seq(Tasks) /\ IsInjective(q) /\ ToSet(q) = {run} \cup R
    <3> HIDE DEF R
    <3>1. IsInjective(h) /\ IsInjective(s) /\ ToSet(h) \cap ToSet(s) = {}
      BY <2>6, <2>8, <2>9
    <3>2. h \o s \in Seq(Tasks) /\ IsInjective(h \o s) /\ ToSet(h \o s) = ToSet(h) \cup ToSet(s)
      BY <2>7, <3>1, ConcatOf
    <3> QED
      BY <2>2, <2>6, <2>8, <3>2
  <2>11. {run} \cup R = ToSet(p) \cup W
    BY <2>1, <2>3
  <2>12. q # <<>> /\ Head(q) = run
    BY <2>2, <2>3, <2>7
  <2> QED
    BY <2>10, <2>11, <2>12
<1> QED
  BY <1>2, <1>3

\* An auction awards READY tasks to agents of the team that are eligible and
\* changes nothing else.
LEMMA RunEpochOK ==
  ASSUME NEW st, NEW own, NEW asg, NEW bun, NEW pth, NEW cur, NEW team \in SUBSET Agents,
         AllocOK(st, own, asg, bun, pth),
         BusyOK(st, own, pth, cur),
         FrontierOK(st),
         RunEpoch(st, own, asg, bun, pth, cur, team)
  PROVE  /\ AllocOK(status', owner', assignments', bundle', path')
         /\ BusyOK(status', owner', path', cur)
         /\ FrontierOK(status')
         /\ \A t \in Tasks :
              \/ status'[t] = st[t] /\ owner'[t] = own[t]
              \/ st[t] = "READY" /\ status'[t] = "ASSIGNED" /\ owner'[t] \in team
<1>1. CASE Frontier(st, asg) = {} \/ team = {}
  BY <1>1 DEF RunEpoch
<1>2. CASE ~(Frontier(st, asg) = {} \/ team = {})
  <2>1. PICK w \in Awards(st, asg, team) :
         /\ status' = [t \in Tasks |-> IF t \in DOMAIN w THEN "ASSIGNED" ELSE st[t]]
         /\ owner' = [t \in Tasks |-> IF t \in DOMAIN w THEN w[t] ELSE own[t]]
         /\ assignments' = [t \in Tasks |-> IF t \in DOMAIN w THEN w[t] ELSE asg[t]]
         /\ \E b \in Picks([a \in team |-> AuctionedBundles(bun[a], WonBy(w, a))]) :
              bundle' = [a \in Agents |-> IF a \in team THEN b[a] ELSE bun[a]]
         /\ \E p \in Picks([a \in team |-> AuctionedPaths(pth[a], cur[a], WonBy(w, a))]) :
              path' = [a \in Agents |-> IF a \in team THEN p[a] ELSE pth[a]]
    BY <1>2 DEF RunEpoch
  <2> DEFINE D == DOMAIN w
  <2>2. D \subseteq Tasks /\ \A t \in D : /\ st[t] = "READY" /\ asg[t] = NoAgent
                                          /\ w[t] \in team /\ w[t] \in Eligible[t]
    BY <2>1 DEF Awards, Biddable, Frontier
  <2>3. \A t \in D : own[t] = NoAgent
    BY <2>2 DEF AllocOK, Committed
  <2>4. NoAgent \notin Agents /\ NoTask \notin Tasks
    BY ExecutorAssumption
  <2>5. \A a \in Agents :
          /\ WonBy(w, a) \in SUBSET Tasks
          /\ WonBy(w, a) \cap Owned(own, a) = {}
          /\ a \notin team => WonBy(w, a) = {}
    BY <2>2, <2>3, <2>4 DEF WonBy, Owned
  <2>6. \A a \in Agents : Owned(owner', a) = Owned(own, a) \cup WonBy(w, a)
    BY <2>1, <2>2, <2>3, <2>4 DEF WonBy, Owned
  <2>7. ASSUME NEW a \in Agents
        PROVE  /\ bundle'[a] \in Seq(Tasks) /\ IsInjective(bundle'[a])
               /\ ToSet(bundle'[a]) = Owned(owner', a)
    <3>1. /\ bun[a] \in Seq(Tasks) /\ IsInjective(bun[a])
          /\ ToSet(bun[a]) = Owned(own, a)
      BY DEF AllocOK
    <3>2. CASE a \notin team
      BY <2>1, <2>5, <2>6, <3>1, <3>2
    <3>3. CASE a \in team
      <4> DEFINE F == [c \in team |-> AuctionedBundles(bun[c], WonBy(w, c))]
      <4>1. bundle'[a] \in AuctionedBundles(bun[a], WonBy(w, a))
        <5>1. PICK b \in Picks(F) :
                bundle' = [c \in Agents |-> IF c \in team THEN b[c] ELSE bun[c]]
          BY <2>1
        <5>2. b[a] \in F[a]
          BY <3>3 DEF Picks
        <5> QED
          BY <3>3, <5>1, <5>2
      <4>2. WonBy(w, a) \in SUBSET Tasks /\ WonBy(w, a) \cap ToSet(bun[a]) = {}
        BY <2>5, <3>1
      <4> QED
        BY <2>6, <3>1, <4>1, <4>2, AuctionedBundlesOf
    <3> QED
      BY <3>2, <3>3
  <2>8. ASSUME NEW a \in Agents
        PROVE  /\ path'[a] \in Seq(Tasks) /\ IsInjective(path'[a])
               /\ ToSet(path'[a]) = Owned(owner', a)
               /\ cur[a] # NoTask => path'[a] # <<>> /\ Head(path'[a]) = cur[a]
    <3>1. /\ pth[a] \in Seq(Tasks) /\ IsInjective(pth[a])
          /\ ToSet(pth[a]) = Owned(own, a)
      BY DEF AllocOK
    <3>2. /\ cur[a] \in ToSet(pth[a]) \cup {NoTask}
          /\ cur[a] # NoTask => pth[a] # <<>> /\ Head(pth[a]) = cur[a]
      BY <3>1 DEF BusyOK, Owned
    <3>3. CASE a \notin team
      BY <2>1, <2>5, <2>6, <3>1, <3>2, <3>3
    <3>4. CASE a \in team
      <4> DEFINE F == [c \in team |-> AuctionedPaths(pth[c], cur[c], WonBy(w, c))]
      <4>1. path'[a] \in AuctionedPaths(pth[a], cur[a], WonBy(w, a))
        <5>1. PICK p \in Picks(F) :
                path' = [c \in Agents |-> IF c \in team THEN p[c] ELSE pth[c]]
          BY <2>1
        <5>2. p[a] \in F[a]
          BY <3>4 DEF Picks
        <5> QED
          BY <3>4, <5>1, <5>2
      <4>2. WonBy(w, a) \in SUBSET Tasks /\ WonBy(w, a) \cap ToSet(pth[a]) = {}
        BY <2>5, <3>1
      <4>3. /\ path'[a] \in Seq(Tasks) /\ IsInjective(path'[a])
            /\ ToSet(path'[a]) = ToSet(pth[a]) \cup WonBy(w, a)
            /\ cur[a] # NoTask => path'[a] # <<>> /\ Head(path'[a]) = cur[a]
        BY <3>1, <3>2, <4>1, <4>2, AuctionedPathsOf
      <4> QED
        BY <2>6, <3>1, <4>3
    <3> QED
      BY <3>3, <3>4
  <2>9. /\ bundle' \in [Agents -> Seq(Tasks)]
        /\ path' \in [Agents -> Seq(Tasks)]
    BY <2>1, <2>7, <2>8
  <2>10. \A t \in Tasks :
           \/ t \notin D /\ status'[t] = st[t] /\ owner'[t] = own[t] /\ assignments'[t] = asg[t]
           \/ t \in D /\ status'[t] = "ASSIGNED" /\ owner'[t] = w[t] /\ assignments'[t] = w[t]
    BY <2>1
  <2>11. \A t \in Tasks : status'[t] = "COMPLETED" <=> st[t] = "COMPLETED"
    BY <2>2, <2>10
  <2>12. \A t \in Tasks : PredsDone(st, t) => PredsDone(status', t)
    BY <2>11, GraphAssumption DEF PredsDone
  <2>13. /\ status' \in [Tasks -> TaskStatus]
         /\ owner' \in [Tasks -> Agents \cup {NoAgent}]
         /\ assignments' \in [Tasks -> Agents \cup {NoAgent}]
    BY <2>1, <2>2 DEF AllocOK, TaskStatus, Unfinished, Committed, Recomputable
  <2>14. ASSUME NEW t \in Tasks
         PROVE  /\ status'[t] \in Committed <=> owner'[t] # NoAgent
                /\ status'[t] \in Committed => assignments'[t] = owner'[t]
                /\ assignments'[t] # NoAgent => status'[t] \in Committed \cup {"COMPLETED"}
                /\ assignments'[t] # NoAgent => assignments'[t] \in Eligible[t]
                /\ status'[t] \in Committed \cup {"COMPLETED"} => PredsDone(status', t)
    <3>1. CASE t \notin D
      BY <2>10, <2>12, <3>1 DEF AllocOK
    <3>2. CASE t \in D
      <4>1. PredsDone(status', t)
        BY <2>2, <2>12, <3>2 DEF FrontierOK
      <4> QED
        BY <2>2, <2>4, <2>10, <3>2, <4>1 DEF Committed
    <3> QED
      BY <3>1, <3>2
  <2>15. AllocOK(status', owner', assignments', bundle', path')
    BY <2>7, <2>8, <2>9, <2>13, <2>14 DEF AllocOK
  <2>16. ASSUME NEW a \in Agents, NEW t \in Tasks
         PROVE  cur[a] = t <=> status'[t] = "RUNNING" /\ owner'[t] = a
    BY <2>2, <2>10 DEF BusyOK
  <2>17. BusyOK(status', owner', path', cur)
    BY <2>8, <2>16 DEF BusyOK
  <2>18. FrontierOK(status')
    BY <2>10, <2>12 DEF FrontierOK
  <2>19. \A t \in Tasks :
           \/ status'[t] = st[t] /\ owner'[t] = own[t]
           \/ st[t] = "READY" /\ status'[t] = "ASSIGNED" /\ owner'[t] \in team
    BY <2>2, <2>10
  <2> QED
    BY <2>15, <2>17, <2>18, <2>19
<1> QED
  BY <1>1, <1>2

-----------------------------------------------------------------------------
(* Recomputing the frontier and releasing commitments.                     *)

\* Recomputing the frontier changes PENDING and READY tasks only and brings the
\* frontier up to date.
LEMMA RecomputedOK ==
  ASSUME NEW st, NEW own, NEW asg, NEW bun, NEW pth, NEW cur,
         AllocOK(st, own, asg, bun, pth),
         BusyOK(st, own, pth, cur)
  PROVE  /\ AllocOK(Recomputed(st), own, asg, bun, pth)
         /\ BusyOK(Recomputed(st), own, pth, cur)
         /\ FrontierOK(Recomputed(st))
         /\ \A t \in Tasks :
              \/ Recomputed(st)[t] = st[t]
              \/ st[t] \in Recomputable /\ Recomputed(st)[t] \in Recomputable
<1> DEFINE r == Recomputed(st)
<1>1. r = [t \in Tasks |-> IF st[t] \in Recomputable
                            THEN IF PredsDone(st, t) THEN "READY" ELSE "PENDING"
                            ELSE st[t]]
  BY DEF Recomputed
<1>2. \A t \in Tasks : \/ st[t] \in Recomputable /\ PredsDone(st, t) /\ r[t] = "READY"
                       \/ st[t] \in Recomputable /\ ~PredsDone(st, t) /\ r[t] = "PENDING"
                       \/ st[t] \notin Recomputable /\ r[t] = st[t]
  BY <1>1, Zenon
<1> HIDE DEF r
<1>3. r \in [Tasks -> TaskStatus]
  <2>1. st \in [Tasks -> TaskStatus]
    BY DEF AllocOK
  <2> QED
    BY <1>1, <2>1 DEF TaskStatus, Unfinished, Recomputable
<1>4. \A t \in Tasks : r[t] = "COMPLETED" <=> st[t] = "COMPLETED"
  BY <1>2 DEF Recomputable
<1>5. \A t \in Tasks : PredsDone(r, t) <=> PredsDone(st, t)
  BY <1>4, GraphAssumption DEF PredsDone
<1>6. \A t \in Tasks : r[t] \in Committed <=> st[t] \in Committed
  BY <1>2 DEF Recomputable, Committed
<1>7. \A t \in Tasks : r[t] = "RUNNING" <=> st[t] = "RUNNING"
  BY <1>2 DEF Recomputable
<1>8. AllocOK(r, own, asg, bun, pth)
  BY <1>3, <1>4, <1>5, <1>6 DEF AllocOK
<1>9. BusyOK(r, own, pth, cur)
  BY <1>7 DEF BusyOK
<1>10. FrontierOK(r)
  BY <1>2, <1>5 DEF FrontierOK, Recomputable
<1>11. \A t \in Tasks :
         \/ r[t] = st[t]
         \/ st[t] \in Recomputable /\ r[t] \in Recomputable
  BY <1>2 DEF Recomputable
<1> QED
  BY <1>8, <1>9, <1>10, <1>11 DEF r

\* A release of unstarted commitments, and the auction that follows it, leave
\* every list in agreement; what is ASSIGNED afterwards was not released or
\* was just awarded.
LEMMA ReleaseAndAuctionOK ==
  ASSUME NEW st, NEW released, NEW team \in SUBSET Agents,
         AllocOK(st, owner, assignments, bundle, path),
         BusyOK(st, owner, path, current),
         released \subseteq {t \in Tasks : st[t] = "ASSIGNED"},
         ReleaseAndAuction(st, released, team)
  PROVE  /\ AllocOK(status', owner', assignments', bundle', path')
         /\ BusyOK(status', owner', path', current)
         /\ FrontierOK(status')
         /\ \A t \in Tasks : status'[t] = "ASSIGNED" =>
              \/ owner'[t] \in team
              \/ t \notin released /\ st[t] = "ASSIGNED" /\ owner'[t] = owner[t]
<1> DEFINE st1 == [t \in Tasks |-> IF t \in released THEN "PENDING" ELSE st[t]]
           own == [t \in Tasks |-> IF t \in released THEN NoAgent ELSE owner[t]]
           asg == [t \in Tasks |-> IF t \in released THEN NoAgent ELSE assignments[t]]
           bun == [a \in Agents |-> Without(bundle[a], released)]
           pth == [a \in Agents |-> Without(path[a], released)]
<1>1. NoAgent \notin Agents /\ NoTask \notin Tasks
  BY ExecutorAssumption
<1>2. \A t \in Tasks :
        \/ t \in released /\ st[t] = "ASSIGNED" /\ st1[t] = "PENDING"
             /\ own[t] = NoAgent /\ asg[t] = NoAgent
        \/ t \notin released /\ st1[t] = st[t] /\ own[t] = owner[t] /\ asg[t] = assignments[t]
  OBVIOUS
<1>3. /\ st1 \in [Tasks -> TaskStatus]
      /\ own \in [Tasks -> Agents \cup {NoAgent}]
      /\ asg \in [Tasks -> Agents \cup {NoAgent}]
  BY DEF AllocOK, TaskStatus, Unfinished, Recomputable
<1>4. \A a \in Agents : Owned(own, a) = Owned(owner, a) \ released
  BY <1>1, <1>2 DEF Owned
<1>5. ASSUME NEW a \in Agents
      PROVE  /\ bun[a] \in Seq(Tasks) /\ IsInjective(bun[a]) /\ ToSet(bun[a]) = Owned(own, a)
             /\ pth[a] \in Seq(Tasks) /\ IsInjective(pth[a]) /\ ToSet(pth[a]) = Owned(own, a)
             /\ current[a] # NoTask => pth[a] # <<>> /\ Head(pth[a]) = current[a]
  <2>1. /\ bundle[a] \in Seq(Tasks) /\ IsInjective(bundle[a]) /\ ToSet(bundle[a]) = Owned(owner, a)
        /\ path[a] \in Seq(Tasks) /\ IsInjective(path[a]) /\ ToSet(path[a]) = Owned(owner, a)
    BY DEF AllocOK
  <2>2. bun[a] = Without(bundle[a], released) /\ pth[a] = Without(path[a], released)
    OBVIOUS
  <2>3. bun[a] \in Seq(Tasks) /\ IsInjective(bun[a]) /\ ToSet(bun[a]) = Owned(owner, a) \ released
    BY <2>1, <2>2, WithoutOf
  <2>4. pth[a] \in Seq(Tasks) /\ IsInjective(pth[a]) /\ ToSet(pth[a]) = Owned(owner, a) \ released
    BY <2>1, <2>2, WithoutOf
  <2>5. ASSUME current[a] # NoTask PROVE pth[a] # <<>> /\ Head(pth[a]) = current[a]
    <3>1. path[a] # <<>> /\ Head(path[a]) = current[a] /\ current[a] \in Tasks
          /\ st[current[a]] = "RUNNING"
      BY <2>5 DEF BusyOK
    <3>2. Head(path[a]) \notin released
      BY <3>1
    <3> QED
      BY <2>1, <2>2, <3>1, <3>2, WithoutOf
  <2> QED
    BY <1>4, <2>3, <2>4, <2>5
<1>6. bun \in [Agents -> Seq(Tasks)] /\ pth \in [Agents -> Seq(Tasks)]
  BY <1>5
<1> HIDE DEF st1, own, asg, bun, pth
<1>7. \A t \in Tasks : st1[t] = "COMPLETED" <=> st[t] = "COMPLETED"
  BY <1>2
<1>8. \A t \in Tasks : PredsDone(st1, t) <=> PredsDone(st, t)
  BY <1>7, GraphAssumption DEF PredsDone
<1>9. ASSUME NEW t \in Tasks
      PROVE  /\ st1[t] \in Committed <=> own[t] # NoAgent
             /\ st1[t] \in Committed => asg[t] = own[t]
             /\ asg[t] # NoAgent => st1[t] \in Committed \cup {"COMPLETED"}
             /\ asg[t] # NoAgent => asg[t] \in Eligible[t]
             /\ st1[t] \in Committed \cup {"COMPLETED"} => PredsDone(st1, t)
  <2>1. CASE t \in released
    BY <1>2, <2>1 DEF Committed
  <2>2. CASE t \notin released
    BY <1>2, <1>8, <2>2 DEF AllocOK
  <2> QED
    BY <2>1, <2>2
<1>10. AllocOK(st1, own, asg, bun, pth)
  BY <1>3, <1>5, <1>6, <1>9 DEF AllocOK
<1>11. \A a \in Agents : \A t \in Tasks : current[a] = t <=> st1[t] = "RUNNING" /\ own[t] = a
  BY <1>2 DEF BusyOK
<1>12. BusyOK(st1, own, pth, current)
  BY <1>5, <1>11 DEF BusyOK
<1> DEFINE r == Recomputed(st1)
<1>13. /\ AllocOK(r, own, asg, bun, pth) /\ BusyOK(r, own, pth, current) /\ FrontierOK(r)
       /\ \A t \in Tasks :
            \/ r[t] = st1[t]
            \/ st1[t] \in Recomputable /\ r[t] \in Recomputable
  BY <1>10, <1>12, RecomputedOK
<1>14. RunEpoch(r, own, asg, bun, pth, current, team)
  BY DEF ReleaseAndAuction, st1, own, asg, bun, pth
<1> HIDE DEF r
<1>15. /\ AllocOK(status', owner', assignments', bundle', path')
       /\ BusyOK(status', owner', path', current)
       /\ FrontierOK(status')
       /\ \A t \in Tasks :
            \/ status'[t] = r[t] /\ owner'[t] = own[t]
            \/ r[t] = "READY" /\ status'[t] = "ASSIGNED" /\ owner'[t] \in team
  BY <1>13, <1>14, RunEpochOK
<1>16. ASSUME NEW t \in Tasks, status'[t] = "ASSIGNED", owner'[t] \notin team
       PROVE  t \notin released /\ st[t] = "ASSIGNED" /\ owner'[t] = owner[t]
  <2>1. r[t] = "ASSIGNED" /\ owner'[t] = own[t]
    BY <1>15, <1>16
  <2>2. st1[t] = "ASSIGNED"
    BY <1>13, <2>1 DEF Recomputable
  <2> QED
    BY <1>2, <2>1, <2>2
<1> QED
  BY <1>15, <1>16

-----------------------------------------------------------------------------
(* The steps of a call.                                                    *)

\* The auction a call begins with keeps the invariant.
LEMMA PrepareEpochOK ==
  ASSUME IInv, PrepareEpoch, mode' \in {"ONE_SHOT", "ONLINE"}
  PROVE  IInv'
<1>1. /\ AllocOK(status, owner, assignments, bundle, path)
      /\ BusyOK(status, owner, path, current)
      /\ FrontierOK(status)
      /\ active \in SUBSET Agents
  BY DEF IInv, CallOK
<1>2. UNCHANGED <<clockVars, active, result>> /\ started' = TRUE /\ epochPending' = FALSE
        /\ inCall' = TRUE
  BY DEF PrepareEpoch
<1>3. /\ AllocOK(status', owner', assignments', bundle', path')
      /\ BusyOK(status', owner', path', current)
      /\ FrontierOK(status')
      /\ CommittedToActive'
  <2>1. CASE RunEpoch(Recomputed(status), owner, assignments, bundle, path, current, active)
    <3> DEFINE r == Recomputed(status)
    <3>1. /\ AllocOK(r, owner, assignments, bundle, path)
          /\ BusyOK(r, owner, path, current)
          /\ FrontierOK(r)
          /\ \A t \in Tasks :
               \/ r[t] = status[t]
               \/ status[t] \in Recomputable /\ r[t] \in Recomputable
      BY <1>1, RecomputedOK
    <3> HIDE DEF r
    <3>2. /\ AllocOK(status', owner', assignments', bundle', path')
          /\ BusyOK(status', owner', path', current)
          /\ FrontierOK(status')
          /\ \A t \in Tasks :
               \/ status'[t] = r[t] /\ owner'[t] = owner[t]
               \/ r[t] = "READY" /\ status'[t] = "ASSIGNED" /\ owner'[t] \in active
      BY <1>1, <2>1, <3>1, RunEpochOK DEF r
    <3>3. CommittedToActive'
      BY <1>2, <3>1, <3>2 DEF IInv, CommittedToActive, Recomputable
    <3> QED
      BY <3>2, <3>3
  <2>2. CASE RunEpoch(status, owner, assignments, bundle, path, current, active)
    <3>1. /\ AllocOK(status', owner', assignments', bundle', path')
          /\ BusyOK(status', owner', path', current)
          /\ FrontierOK(status')
          /\ \A t \in Tasks :
               \/ status'[t] = status[t] /\ owner'[t] = owner[t]
               \/ status[t] = "READY" /\ status'[t] = "ASSIGNED" /\ owner'[t] \in active
      BY <1>1, <2>2, RunEpochOK
    <3>2. CommittedToActive'
      BY <1>2, <3>1 DEF IInv, CommittedToActive
    <3> QED
      BY <3>1, <3>2
  <2>3. CASE UNCHANGED allocVars
    BY <1>1, <1>2, <2>3 DEF IInv, CommittedToActive, allocVars
  <2> QED
    BY <2>1, <2>2, <2>3 DEF PrepareEpoch
<1>4. BusyOK(status', owner', path', current')
  BY <1>2, <1>3 DEF clockVars
<1>5. ClockOK' /\ CallOK'
  BY <1>2 DEF IInv, ClockOK, CallOK, clockVars
<1> QED
  BY <1>3, <1>4, <1>5 DEF IInv

\* What an agent may be dispatched to is an ASSIGNED task of its own, although
\* the code looks at the task's predecessors only.
LEMMA HeadIsAssigned ==
  ASSUME IInv, NEW a \in Dispatchable
  PROVE  /\ a \in Agents /\ current[a] = NoTask
         /\ Head(path[a]) \in Tasks /\ owner[Head(path[a])] = a
         /\ status[Head(path[a])] = "ASSIGNED" /\ PredsDone(status, Head(path[a]))
<1>1. /\ AllocOK(status, owner, assignments, bundle, path)
      /\ BusyOK(status, owner, path, current)
      /\ CallOK
  BY DEF IInv
<1>2. NoAgent \notin Agents /\ NoTask \notin Tasks
  BY ExecutorAssumption
<1>3. a \in Agents /\ current[a] = NoTask /\ path[a] # <<>> /\ PredsDone(status, Head(path[a]))
  BY <1>1 DEF Dispatchable, CallOK
<1>4. path[a] \in Seq(Tasks) /\ ToSet(path[a]) = Owned(owner, a)
  BY <1>1, <1>3 DEF AllocOK
<1>5. Head(path[a]) \in ToSet(path[a])
  BY <1>3, <1>4 DEF ToSet
<1>6. Head(path[a]) \in Tasks /\ owner[Head(path[a])] = a
  BY <1>4, <1>5 DEF Owned
<1>7. status[Head(path[a])] \in Committed
  BY <1>1, <1>2, <1>3, <1>6 DEF AllocOK
<1>8. status[Head(path[a])] # "RUNNING"
  BY <1>1, <1>2, <1>3, <1>6 DEF BusyOK
<1> QED
  BY <1>3, <1>6, <1>7, <1>8 DEF Committed

\* Starting the heads of idle agents' paths keeps the invariant: such a head is
\* an ASSIGNED task of its agent.
LEMMA DispatchOK ==
  ASSUME IInv, Dispatch
  PROVE  IInv'
<1> DEFINE heads == {Head(path[a]) : a \in Dispatchable}
<1>1. /\ AllocOK(status, owner, assignments, bundle, path)
      /\ BusyOK(status, owner, path, current)
      /\ FrontierOK(status)
      /\ ClockOK /\ CallOK /\ CommittedToActive
  BY DEF IInv
<1>2. /\ status' = [t \in Tasks |-> IF t \in heads THEN "RUNNING" ELSE status[t]]
      /\ current' = [a \in Agents |->
                       IF a \in Dispatchable THEN Head(path[a]) ELSE current[a]]
      /\ departure' = [t \in Tasks |-> IF t \in heads THEN now ELSE departure[t]]
      /\ UNCHANGED <<owner, bundle, path, assignments, now, completion, active,
                     epochVars, callVars>>
  BY DEF Dispatch
<1>3. PICK d \in [Dispatchable -> Durations] :
        finishAt' = [a \in Agents |-> IF a \in Dispatchable THEN now + d[a] ELSE finishAt[a]]
  BY DEF Dispatch
<1>4. NoAgent \notin Agents /\ NoTask \notin Tasks /\ Durations \subseteq Nat
  BY ExecutorAssumption
<1>5. \A a \in Dispatchable :
        /\ a \in Agents /\ current[a] = NoTask
        /\ Head(path[a]) \in Tasks /\ owner[Head(path[a])] = a
        /\ status[Head(path[a])] = "ASSIGNED" /\ PredsDone(status, Head(path[a]))
  BY HeadIsAssigned
<1>6. \A t \in heads : /\ t \in Tasks /\ status[t] = "ASSIGNED" /\ PredsDone(status, t)
                       /\ owner[t] \in Dispatchable /\ t = Head(path[owner[t]])
  BY <1>5
<1> HIDE DEF heads
<1>7. \A t \in Tasks : \/ t \in heads /\ status'[t] = "RUNNING"
                       \/ t \notin heads /\ status'[t] = status[t]
  BY <1>2
<1>8. \A t \in Tasks : /\ status'[t] = "COMPLETED" <=> status[t] = "COMPLETED"
                       /\ status'[t] \in Committed <=> status[t] \in Committed
  BY <1>6, <1>7 DEF Committed
<1>9. \A t \in Tasks : PredsDone(status', t) <=> PredsDone(status, t)
  BY <1>8, GraphAssumption DEF PredsDone
<1>10. status' \in [Tasks -> TaskStatus]
  BY <1>1, <1>2 DEF AllocOK, TaskStatus, Unfinished, Committed
<1>11. AllocOK(status', owner, assignments, bundle, path)
  BY <1>1, <1>8, <1>9, <1>10 DEF AllocOK
<1>12. AllocOK(status', owner', assignments', bundle', path')
  BY <1>2, <1>11
<1>13. ASSUME NEW a \in Agents, NEW t \in Tasks
       PROVE  current'[a] = t <=> status'[t] = "RUNNING" /\ owner[t] = a
  <2>1. CASE a \in Dispatchable
    <3>1. current'[a] = Head(path[a]) /\ Head(path[a]) \in heads
      BY <1>2, <2>1 DEF heads
    <3>2. current[a] # t
      BY <1>4, <1>5, <2>1
    <3> QED
      BY <1>1, <1>5, <1>6, <1>7, <2>1, <3>1, <3>2 DEF BusyOK
  <2>2. CASE a \notin Dispatchable
    <3>1. current'[a] = current[a]
      BY <1>2, <2>2
    <3>2. t \in heads => owner[t] # a
      BY <1>6, <2>2
    <3> QED
      BY <1>1, <1>6, <1>7, <3>1, <3>2 DEF BusyOK
  <2> QED
    BY <2>1, <2>2
<1>14. ASSUME NEW a \in Agents
       PROVE  /\ current'[a] \in Tasks \cup {NoTask}
              /\ current'[a] # NoTask => path[a] # <<>> /\ Head(path[a]) = current'[a]
  <2>1. CASE a \in Dispatchable
    BY <1>2, <1>5, <2>1 DEF Dispatchable
  <2>2. CASE a \notin Dispatchable
    BY <1>1, <1>2, <2>2 DEF BusyOK
  <2> QED
    BY <2>1, <2>2
<1>15. BusyOK(status', owner', path', current')
  <2>1. current' \in [Agents -> Tasks \cup {NoTask}]
    BY <1>2, <1>14
  <2> QED
    BY <1>2, <1>13, <1>14, <2>1 DEF BusyOK
<1>16. FrontierOK(status')
  BY <1>1, <1>6, <1>7, <1>9 DEF FrontierOK
<1>17. ClockOK'
  <2>1. now' = now /\ completion' = completion /\ now \in Nat
    BY <1>1, <1>2 DEF ClockOK
  <2>2. finishAt' \in [Agents -> Nat]
    <3>1. \A a \in Dispatchable : now + d[a] \in Nat
      <4>1. \A a \in Dispatchable : d[a] \in Nat
        BY <1>4
      <4> QED
        BY <2>1, <4>1
    <3>2. finishAt \in [Agents -> Nat]
      BY <1>1 DEF ClockOK
    <3> QED
      BY <1>3, <3>1, <3>2
  <2>3. departure' \in [Tasks -> Nat \cup {NoTime}]
    BY <1>1, <1>2, <2>1 DEF ClockOK
  <2>4. ASSUME NEW a \in Agents, current'[a] # NoTask PROVE finishAt'[a] >= now
    <3>1. CASE a \in Dispatchable
      <4>1. finishAt'[a] = now + d[a] /\ d[a] \in Nat
        BY <1>3, <1>4, <3>1
      <4> QED
        BY <2>1, <4>1
    <3>2. CASE a \notin Dispatchable
      BY <1>1, <1>2, <1>3, <2>4, <3>2 DEF ClockOK
    <3> QED
      BY <3>1, <3>2
  <2> QED
    BY <1>1, <2>1, <2>2, <2>3, <2>4 DEF ClockOK
<1>18. CallOK' /\ CommittedToActive'
  BY <1>1, <1>2, <1>7 DEF CallOK, CommittedToActive, epochVars, callVars
<1> QED
  BY <1>12, <1>15, <1>16, <1>17, <1>18 DEF IInv

\* Completing what is due keeps the invariant, whether the next auction follows
\* at once or is left to the next call.
LEMMA CompleteDueOK ==
  ASSUME IInv, CompleteDue
  PROVE  IInv'
<1> DEFINE ends == {current[a] : a \in Due}
           st == [t \in Tasks |-> IF t \in ends THEN "COMPLETED" ELSE status[t]]
           own == [t \in Tasks |-> IF t \in ends THEN NoAgent ELSE owner[t]]
           bun == [a \in Agents |->
                     IF a \in Due THEN Without(bundle[a], {current[a]}) ELSE bundle[a]]
           pth == [a \in Agents |->
                     IF a \in Due THEN Without(path[a], {current[a]}) ELSE path[a]]
           cur == [a \in Agents |-> IF a \in Due THEN NoTask ELSE current[a]]
<1>1. /\ AllocOK(status, owner, assignments, bundle, path)
      /\ BusyOK(status, owner, path, current)
      /\ ClockOK /\ CallOK /\ CommittedToActive
  BY DEF IInv
<1>2. NoAgent \notin Agents /\ NoTask \notin Tasks
  BY ExecutorAssumption
<1>3. \A a \in Due : /\ a \in Agents /\ current[a] \in Tasks
                     /\ status[current[a]] = "RUNNING" /\ owner[current[a]] = a
                     /\ \A b \in Agents : current[b] # NoTask => finishAt[a] <= finishAt[b]
  BY <1>1 DEF Due, Working, BusyOK
<1>4. \A t \in ends : /\ t \in Tasks /\ status[t] = "RUNNING"
                      /\ owner[t] \in Due /\ t = current[owner[t]]
  BY <1>3
<1>5. \A t \in Tasks :
        \/ t \in ends /\ st[t] = "COMPLETED" /\ own[t] = NoAgent
        \/ t \notin ends /\ st[t] = status[t] /\ own[t] = owner[t]
  OBVIOUS
<1>6. st \in [Tasks -> TaskStatus] /\ own \in [Tasks -> Agents \cup {NoAgent}]
  BY <1>1 DEF AllocOK, TaskStatus
<1>7. ASSUME NEW a \in Agents
      PROVE  /\ bun[a] \in Seq(Tasks) /\ IsInjective(bun[a]) /\ ToSet(bun[a]) = Owned(own, a)
             /\ pth[a] \in Seq(Tasks) /\ IsInjective(pth[a]) /\ ToSet(pth[a]) = Owned(own, a)
  <2>1. /\ bundle[a] \in Seq(Tasks) /\ IsInjective(bundle[a]) /\ ToSet(bundle[a]) = Owned(owner, a)
        /\ path[a] \in Seq(Tasks) /\ IsInjective(path[a]) /\ ToSet(path[a]) = Owned(owner, a)
    BY <1>1 DEF AllocOK
  <2>2. CASE a \in Due
    <3>1. Owned(own, a) = Owned(owner, a) \ {current[a]}
      <4>1. current[a] \in ends
        BY <2>2
      <4>2. \A t \in Tasks : owner[t] = a /\ t \in ends => t = current[a]
        BY <1>4
      <4> QED
        BY <1>2, <1>5, <4>1, <4>2 DEF Owned
    <3>2. bun[a] = Without(bundle[a], {current[a]}) /\ pth[a] = Without(path[a], {current[a]})
      BY <2>2
    <3>3. /\ bun[a] \in Seq(Tasks) /\ IsInjective(bun[a])
          /\ ToSet(bun[a]) = Owned(owner, a) \ {current[a]}
      BY <2>1, <3>2, WithoutOf
    <3>4. /\ pth[a] \in Seq(Tasks) /\ IsInjective(pth[a])
          /\ ToSet(pth[a]) = Owned(owner, a) \ {current[a]}
      BY <2>1, <3>2, WithoutOf
    <3> QED
      BY <3>1, <3>3, <3>4
  <2>3. CASE a \notin Due
    <3>1. Owned(own, a) = Owned(owner, a)
      BY <1>2, <1>4, <1>5, <2>3 DEF Owned
    <3> QED
      BY <2>1, <2>3, <3>1
  <2> QED
    BY <2>2, <2>3
<1>8. bun \in [Agents -> Seq(Tasks)] /\ pth \in [Agents -> Seq(Tasks)]
  BY <1>7
<1>9. \A a \in Agents : \/ a \in Due /\ cur[a] = NoTask
                        \/ a \notin Due /\ cur[a] = current[a] /\ pth[a] = path[a]
  OBVIOUS
<1>10. cur \in [Agents -> Tasks \cup {NoTask}]
  BY <1>1 DEF BusyOK
<1>11. /\ \E a \in Due : now' = finishAt[a]
       /\ current' = cur
       /\ completion' = [t \in Tasks |-> IF t \in ends THEN now' ELSE completion[t]]
       /\ UNCHANGED <<finishAt, departure, active, started, mode>>
  BY DEF CompleteDue
<1>12. \/ /\ RunEpoch(Recomputed(st), own, assignments, bun, pth, cur, active)
          /\ epochPending' = FALSE
          /\ UNCHANGED <<inCall, result>>
       \/ /\ status' = Recomputed(st) /\ owner' = own /\ bundle' = bun /\ path' = pth
          /\ UNCHANGED assignments
          /\ epochPending' = TRUE
          /\ inCall' = FALSE /\ result' \in {"COMPLETED", "NONE"}
  BY DEF CompleteDue, Return
<1> HIDE DEF ends, st, own, bun, pth, cur
<1>13. \A t \in Tasks : PredsDone(status, t) => PredsDone(st, t)
  BY <1>5, GraphAssumption DEF PredsDone
<1>14. AllocOK(st, own, assignments, bun, pth)
  <2>1. ASSUME NEW t \in Tasks
        PROVE  /\ st[t] \in Committed <=> own[t] # NoAgent
               /\ st[t] \in Committed => assignments[t] = own[t]
               /\ assignments[t] # NoAgent => st[t] \in Committed \cup {"COMPLETED"}
               /\ assignments[t] # NoAgent => assignments[t] \in Eligible[t]
               /\ st[t] \in Committed \cup {"COMPLETED"} => PredsDone(st, t)
    <3>1. CASE t \in ends
      BY <1>1, <1>4, <1>5, <1>13, <3>1 DEF AllocOK, Committed
    <3>2. CASE t \notin ends
      BY <1>1, <1>5, <1>13, <3>2 DEF AllocOK
    <3> QED
      BY <3>1, <3>2
  <2>2. assignments \in [Tasks -> Agents \cup {NoAgent}]
    BY <1>1 DEF AllocOK
  <2> QED
    BY <1>6, <1>7, <1>8, <2>1, <2>2 DEF AllocOK
<1>15. BusyOK(st, own, pth, cur)
  <2>1. ASSUME NEW a \in Agents, NEW t \in Tasks
        PROVE  cur[a] = t <=> st[t] = "RUNNING" /\ own[t] = a
    <3>1. CASE a \in Due
      <4>1. cur[a] # t
        BY <1>2, <1>9, <3>1
      <4>2. CASE t \in ends
        BY <1>5, <4>1, <4>2
      <4>3. CASE t \notin ends
        <5>1. current[a] # t
          BY <3>1, <4>3 DEF ends
        <5> QED
          BY <1>1, <1>5, <4>1, <4>3, <5>1 DEF BusyOK
      <4> QED
        BY <4>2, <4>3
    <3>2. CASE a \notin Due
      <4>1. CASE t \in ends
        BY <1>1, <1>4, <1>5, <1>9, <3>2, <4>1 DEF BusyOK
      <4>2. CASE t \notin ends
        BY <1>1, <1>5, <1>9, <3>2, <4>2 DEF BusyOK
      <4> QED
        BY <4>1, <4>2
    <3> QED
      BY <3>1, <3>2
  <2>2. \A a \in Agents : cur[a] # NoTask => pth[a] # <<>> /\ Head(pth[a]) = cur[a]
    BY <1>1, <1>9 DEF BusyOK
  <2> QED
    BY <1>10, <2>1, <2>2 DEF BusyOK
<1> DEFINE r == Recomputed(st)
<1>16. /\ AllocOK(r, own, assignments, bun, pth)
       /\ BusyOK(r, own, pth, cur)
       /\ FrontierOK(r)
       /\ \A t \in Tasks :
            \/ r[t] = st[t]
            \/ st[t] \in Recomputable /\ r[t] \in Recomputable
  BY <1>14, <1>15, RecomputedOK
<1> HIDE DEF r
<1>17. ASSUME NEW t \in Tasks, r[t] = "ASSIGNED" PROVE own[t] \in active
  <2>1. st[t] = "ASSIGNED"
    BY <1>16, <1>17 DEF Recomputable
  <2>2. status[t] = "ASSIGNED" /\ own[t] = owner[t]
    BY <1>5, <2>1
  <2> QED
    BY <1>1, <2>2 DEF CommittedToActive
<1>18. active \in SUBSET Agents /\ active' = active
  BY <1>1, <1>11 DEF CallOK
<1>19. /\ AllocOK(status', owner', assignments', bundle', path')
       /\ BusyOK(status', owner', path', cur)
       /\ FrontierOK(status')
       /\ CommittedToActive'
       /\ CallOK'
  <2>1. CASE /\ RunEpoch(r, own, assignments, bun, pth, cur, active)
             /\ epochPending' = FALSE
             /\ UNCHANGED <<inCall, result>>
    <3>1. /\ AllocOK(status', owner', assignments', bundle', path')
          /\ BusyOK(status', owner', path', cur)
          /\ FrontierOK(status')
          /\ \A t \in Tasks :
               \/ status'[t] = r[t] /\ owner'[t] = own[t]
               \/ r[t] = "READY" /\ status'[t] = "ASSIGNED" /\ owner'[t] \in active
      BY <1>16, <1>18, <2>1, RunEpochOK
    <3>2. CommittedToActive'
      BY <1>17, <1>18, <3>1 DEF CommittedToActive
    <3>3. CallOK'
      BY <1>1, <1>11, <2>1 DEF CallOK
    <3> QED
      BY <3>1, <3>2, <3>3
  <2>2. CASE /\ status' = r /\ owner' = own /\ bundle' = bun /\ path' = pth
             /\ UNCHANGED assignments
             /\ epochPending' = TRUE
             /\ inCall' = FALSE /\ result' \in {"COMPLETED", "NONE"}
    <3>1. /\ AllocOK(status', owner', assignments', bundle', path')
          /\ BusyOK(status', owner', path', cur)
          /\ FrontierOK(status')
      BY <1>16, <2>2
    <3>2. CommittedToActive'
      BY <1>17, <1>18, <2>2 DEF CommittedToActive
    <3>3. CallOK'
      BY <1>1, <1>11, <2>2 DEF CallOK
    <3> QED
      BY <3>1, <3>2, <3>3
  <2> QED
    BY <1>12, <2>1, <2>2 DEF r
<1>20. ClockOK'
  <2>1. PICK a \in Due : now' = finishAt[a]
    BY <1>11
  <2>2. now' \in Nat /\ finishAt' = finishAt /\ departure' = departure
    BY <1>1, <1>3, <1>11, <2>1 DEF ClockOK
  <2>3. completion' \in [Tasks -> Nat \cup {NoTime}]
    BY <1>1, <1>11, <2>2 DEF ClockOK
  <2>4. ASSUME NEW b \in Agents, current'[b] # NoTask PROVE finishAt'[b] >= now'
    <3>1. current[b] # NoTask
      BY <1>9, <1>11, <2>4
    <3>2. finishAt[a] <= finishAt[b] /\ finishAt[a] \in Nat /\ finishAt[b] \in Nat
      BY <1>1, <1>3, <3>1 DEF ClockOK
    <3> QED
      BY <2>1, <2>2, <3>2
  <2> QED
    BY <1>1, <2>2, <2>3, <2>4 DEF ClockOK
<1> QED
  BY <1>11, <1>19, <1>20 DEF IInv

\* The last auction before a deadlock keeps the invariant.
LEMMA LastFrontierOK ==
  ASSUME IInv, LastFrontier
  PROVE  IInv'
<1> DEFINE r == Recomputed(status)
<1>1. /\ AllocOK(status, owner, assignments, bundle, path)
      /\ BusyOK(status, owner, path, current)
      /\ ClockOK /\ CallOK /\ CommittedToActive
  BY DEF IInv
<1>2. /\ RunEpoch(r, owner, assignments, bundle, path, current, active)
      /\ UNCHANGED <<clockVars, active, mode>>
      /\ started' \in BOOLEAN /\ epochPending' \in BOOLEAN /\ inCall' \in BOOLEAN
      /\ result' \in {"NONE", "COMPLETED", "DEADLOCK"}
  BY <1>1 DEF LastFrontier, Return, CallOK, epochVars
<1>3. /\ AllocOK(r, owner, assignments, bundle, path)
      /\ BusyOK(r, owner, path, current)
      /\ FrontierOK(r)
      /\ \A t \in Tasks :
           \/ r[t] = status[t]
           \/ status[t] \in Recomputable /\ r[t] \in Recomputable
  BY <1>1, RecomputedOK
<1> HIDE DEF r
<1>4. active \in SUBSET Agents
  BY <1>1 DEF CallOK
<1>5. /\ AllocOK(status', owner', assignments', bundle', path')
      /\ BusyOK(status', owner', path', current)
      /\ FrontierOK(status')
      /\ \A t \in Tasks :
           \/ status'[t] = r[t] /\ owner'[t] = owner[t]
           \/ r[t] = "READY" /\ status'[t] = "ASSIGNED" /\ owner'[t] \in active
  BY <1>2, <1>3, <1>4, RunEpochOK
<1>6. CommittedToActive'
  BY <1>1, <1>2, <1>3, <1>5 DEF CommittedToActive, Recomputable
<1>7. ClockOK' /\ CallOK' /\ current' = current
  BY <1>1, <1>2 DEF ClockOK, CallOK, clockVars
<1> QED
  BY <1>5, <1>6, <1>7 DEF IInv

-----------------------------------------------------------------------------
(* The operator's actions.                                                 *)

\* A commitment of an agent that is itself affected stands behind an affected
\* one.
LEMMA AffectedIsBehind ==
  ASSUME AllocOK(status, owner, assignments, bundle, path),
         NEW affected, NEW t \in Assigned, t \in affected
  PROVE  t \in BehindIn(affected)
<1>1. t \in Tasks /\ owner[t] \in Agents /\ t \in Owned(owner, owner[t])
  BY ExecutorAssumption DEF AllocOK, Assigned, Committed, Owned
<1>2. ToSet(bundle[owner[t]]) = Owned(owner, owner[t])
  BY <1>1 DEF AllocOK
<1>3. PICK j \in DOMAIN bundle[owner[t]] : bundle[owner[t]][j] = t
  BY <1>1, <1>2 DEF ToSet
<1>4. bundle[owner[t]] \in Seq(Tasks)
  BY <1>1 DEF AllocOK
<1>5. j <= j
  BY <1>3, <1>4
<1>6. t \in Suffix(bundle[owner[t]], affected)
  BY <1>3, <1>5 DEF Suffix
<1> QED
  BY <1>1, <1>6 DEF BehindIn

\* A change of the team keeps the invariant: whoever holds an unstarted task
\* and leaves has it released.
LEMMA TeamReplacedOK ==
  ASSUME IInv, NEW desired \in SUBSET Agents, NEW forced \in SUBSET desired,
         TeamReplaced(desired, forced)
  PROVE  IInv'
<1> DEFINE affected == {t \in Assigned : Eligible[t] \cap Changed(desired, forced) # {}}
<1>1. /\ AllocOK(status, owner, assignments, bundle, path)
      /\ BusyOK(status, owner, path, current)
      /\ ClockOK /\ CallOK /\ CommittedToActive
  BY DEF IInv
<1>2. /\ ReleaseAndAuction(status, BehindIn(affected), desired)
      /\ active' = desired
      /\ UNCHANGED <<clockVars, callVars>>
  BY DEF TeamReplaced
<1>3. started' = TRUE /\ epochPending' = FALSE
  BY <1>2 DEF ReleaseAndAuction
<1>4. ASSUME NEW t \in Tasks, status[t] = "ASSIGNED", t \notin BehindIn(affected)
      PROVE  owner[t] \in desired
  <2>1. owner[t] \in active /\ owner[t] \in Eligible[t]
    BY <1>1, <1>4, ExecutorAssumption
    DEF AllocOK, CommittedToActive, Committed
  <2>2. t \notin affected
    BY <1>1, <1>4, AffectedIsBehind DEF Assigned
  <2>3. owner[t] \notin Changed(desired, forced)
    BY <1>4, <2>1, <2>2 DEF Assigned
  <2> QED
    BY <2>1, <2>3 DEF Changed
<1>5. BehindIn(affected) \subseteq {t \in Tasks : status[t] = "ASSIGNED"}
  BY DEF BehindIn, Assigned
<1> HIDE DEF affected
<1>6. /\ AllocOK(status', owner', assignments', bundle', path')
      /\ BusyOK(status', owner', path', current)
      /\ FrontierOK(status')
      /\ \A t \in Tasks : status'[t] = "ASSIGNED" =>
           \/ owner'[t] \in desired
           \/ t \notin BehindIn(affected) /\ status[t] = "ASSIGNED" /\ owner'[t] = owner[t]
  BY <1>1, <1>2, <1>5, ReleaseAndAuctionOK
<1>7. CommittedToActive'
  BY <1>2, <1>4, <1>6 DEF CommittedToActive
<1>8. ClockOK' /\ CallOK' /\ current' = current
  BY <1>1, <1>2, <1>3 DEF ClockOK, CallOK, clockVars, callVars
<1> QED
  BY <1>6, <1>7, <1>8 DEF IInv

\* The graph a patch leads to, before any release, keeps every list in
\* agreement: a task that joins the graph was held by nobody.
LEMMA PatchedOK ==
  ASSUME AllocOK(status, owner, assignments, bundle, path),
         BusyOK(status, owner, path, current),
         NEW new \in SUBSET Tasks, new \cap InGraph = {}
  PROVE  /\ AllocOK(Patched(new), owner, assignments, bundle, path)
         /\ BusyOK(Patched(new), owner, path, current)
         /\ \A t \in Tasks : Patched(new)[t] = "ASSIGNED" <=> status[t] = "ASSIGNED"
<1> DEFINE st == [t \in Tasks |-> IF t \in new THEN "PENDING" ELSE status[t]]
<1>1. \A t \in Tasks :
        \/ t \in new /\ status[t] = "ABSENT" /\ st[t] = "PENDING"
        \/ t \notin new /\ st[t] = status[t]
  BY DEF InGraph
<1>2. st \in [Tasks -> TaskStatus]
  BY DEF AllocOK, TaskStatus, Unfinished, Recomputable
<1>3. Patched(new) = Recomputed(st)
  BY DEF Patched
<1> HIDE DEF st
<1>4. \A t \in Tasks : st[t] = "COMPLETED" <=> status[t] = "COMPLETED"
  BY <1>1
<1>5. \A t \in Tasks : PredsDone(st, t) <=> PredsDone(status, t)
  BY <1>4, GraphAssumption DEF PredsDone
<1>6. \A t \in Tasks : st[t] \in Committed <=> status[t] \in Committed
  BY <1>1 DEF Committed
<1>7. AllocOK(st, owner, assignments, bundle, path)
  BY <1>2, <1>4, <1>5, <1>6 DEF AllocOK
<1>8. \A t \in Tasks : st[t] = "RUNNING" <=> status[t] = "RUNNING"
  BY <1>1
<1>9. BusyOK(st, owner, path, current)
  BY <1>8 DEF BusyOK
<1> DEFINE r == Recomputed(st)
<1>10. /\ AllocOK(r, owner, assignments, bundle, path)
       /\ BusyOK(r, owner, path, current)
       /\ \A t \in Tasks :
            \/ r[t] = st[t]
            \/ st[t] \in Recomputable /\ r[t] \in Recomputable
  BY <1>7, <1>9, RecomputedOK
<1> HIDE DEF r
<1>11. \A t \in Tasks : r[t] = "ASSIGNED" <=> status[t] = "ASSIGNED"
  BY <1>1, <1>10 DEF Recomputable
<1> QED
  BY <1>3, <1>10, <1>11 DEF r

\* The members of ReleasePolicy.
ReleasePolicies == {"NO_RESET", "FULL_RESET", "SELECTIVE"}

\* A patch is applied with one of them.
LEMMA PoliciesKnown == Policies \subseteq ReleasePolicies
BY ExecutorAssumption DEF ReleasePolicies

\* A policy releases unstarted commitments only.
LEMMA ReleaseSetOf ==
  ASSUME NEW policy \in ReleasePolicies, NEW affected
  PROVE  ReleaseSet(policy, affected) \subseteq Assigned
<1>1. CASE policy = "NO_RESET"
  BY <1>1 DEF ReleaseSet
<1>2. CASE policy = "FULL_RESET"
  BY <1>2 DEF ReleaseSet
<1>3. CASE policy = "SELECTIVE"
  BY <1>3 DEF ReleaseSet, BehindIn
<1> QED
  BY <1>1, <1>2, <1>3 DEF ReleasePolicies

\* A patch keeps the invariant, whatever the policy releases.
LEMMA ApplyOnlinePatchOK ==
  ASSUME IInv, NEW policy \in ReleasePolicies, NEW new \in SUBSET Tasks,
         ApplyOnlinePatch(policy, new)
  PROVE  IInv'
<1> DEFINE released == ReleaseSet(policy, DirectlyAffected(new))
<1>1. /\ AllocOK(status, owner, assignments, bundle, path)
      /\ BusyOK(status, owner, path, current)
      /\ ClockOK /\ CallOK /\ CommittedToActive
  BY DEF IInv
<1>2. /\ new \cap InGraph = {}
      /\ ReleaseAndAuction(Patched(new), released, active)
      /\ result' = "NONE"
      /\ UNCHANGED <<clockVars, active, mode, inCall>>
  BY DEF ApplyOnlinePatch
<1>3. started' = TRUE /\ epochPending' = FALSE
  BY <1>2 DEF ReleaseAndAuction
<1>4. released \subseteq Assigned
  BY ReleaseSetOf
<1> HIDE DEF released
<1> DEFINE st == Patched(new)
<1>6. /\ AllocOK(st, owner, assignments, bundle, path)
      /\ BusyOK(st, owner, path, current)
      /\ \A t \in Tasks : st[t] = "ASSIGNED" <=> status[t] = "ASSIGNED"
  BY <1>1, <1>2, PatchedOK
<1>7. ReleaseAndAuction(st, released, active)
  BY <1>2
<1> HIDE DEF st
<1>8. released \subseteq {t \in Tasks : st[t] = "ASSIGNED"}
  BY <1>4, <1>6 DEF Assigned
<1>9. active \in SUBSET Agents
  BY <1>1 DEF CallOK
<1>10. /\ AllocOK(status', owner', assignments', bundle', path')
       /\ BusyOK(status', owner', path', current)
       /\ FrontierOK(status')
       /\ \A t \in Tasks : status'[t] = "ASSIGNED" =>
            \/ owner'[t] \in active
            \/ t \notin released /\ st[t] = "ASSIGNED" /\ owner'[t] = owner[t]
  BY <1>1, <1>6, <1>7, <1>8, <1>9, ReleaseAndAuctionOK
<1>11. CommittedToActive'
  BY <1>1, <1>2, <1>6, <1>10 DEF CommittedToActive
<1>12. ClockOK' /\ CallOK' /\ current' = current
  BY <1>1, <1>2, <1>3 DEF ClockOK, CallOK, clockVars
<1> QED
  BY <1>10, <1>11, <1>12 DEF IInv

-----------------------------------------------------------------------------
(* The theorems.                                                           *)

\* A session starts with the invariant.
LEMMA InitOK ==
  ASSUME Init
  PROVE  IInv
<1>1. NoAgent \notin Agents /\ NoTask \notin Tasks
  BY ExecutorAssumption
<1>2. PICK graph \in InitialGraphs :
        status = [t \in Tasks |-> IF t \in graph THEN "PENDING" ELSE "ABSENT"]
  BY DEF Init
<1>3. \A t \in Tasks : status[t] \in {"PENDING", "ABSENT"}
  BY <1>2
<1>4. status \in [Tasks -> TaskStatus]
  BY <1>2 DEF TaskStatus, Unfinished, Recomputable
<1>5. <<>> \in Seq(Tasks) /\ IsInjective(<<>>) /\ ToSet(<<>>) = {}
  BY DEF IsInjective, ToSet
<1>6. /\ owner = [t \in Tasks |-> NoAgent]
      /\ assignments = [t \in Tasks |-> NoAgent]
      /\ current = [a \in Agents |-> NoTask]
  BY DEF Init
<1>7. PICK e \in Seq(Tasks) : /\ e = <<>> /\ IsInjective(e) /\ ToSet(e) = {}
                              /\ bundle = [a \in Agents |-> e] /\ path = [a \in Agents |-> e]
  BY <1>5 DEF Init
<1>8. \A a \in Agents : Owned(owner, a) = {}
  BY <1>1, <1>6 DEF Owned
<1>9. \A t \in Tasks : status[t] \notin Committed \cup {"COMPLETED"}
  BY <1>3 DEF Committed
<1>10. AllocOK(status, owner, assignments, bundle, path)
  BY <1>4, <1>6, <1>7, <1>8, <1>9 DEF AllocOK
<1>11. BusyOK(status, owner, path, current)
  BY <1>1, <1>3, <1>6 DEF BusyOK
<1>12. FrontierOK(status) /\ CommittedToActive
  BY <1>3 DEF FrontierOK, CommittedToActive
<1>13. ClockOK
  BY DEF Init, ClockOK
<1>14. CallOK
  BY ExecutorAssumption DEF Init, CallOK
<1> QED
  BY <1>10, <1>11, <1>12, <1>13, <1>14 DEF IInv

\* A step that moves neither the allocation nor the clock keeps the invariant.
LEMMA Unmoved ==
  ASSUME IInv, CallOK', UNCHANGED <<allocVars, clockVars, active>>
  PROVE  IInv'
<1>1. UNCHANGED <<status, owner, bundle, path, assignments, current, active>>
  BY DEF allocVars, clockVars
<1>2. /\ AllocOK(status', owner', assignments', bundle', path')
      /\ BusyOK(status', owner', path', current')
      /\ FrontierOK(status')
  BY <1>1 DEF IInv
<1>3. ClockOK'
  BY DEF IInv, ClockOK, clockVars
<1>4. CommittedToActive'
  BY <1>1 DEF IInv, CommittedToActive
<1> QED
  BY <1>2, <1>3, <1>4 DEF IInv

\* Every step of the executor and of the operator keeps the invariant.
LEMMA NextOK ==
  ASSUME IInv, [Next]_vars
  PROVE  IInv'
<1>1. CASE BeginRun
  BY <1>1, PrepareEpochOK DEF BeginRun
<1>2. CASE BeginAdvance
  BY <1>2, PrepareEpochOK DEF BeginAdvance
<1>3. CASE Finished
  BY <1>3, Unmoved DEF Finished, Return, IInv, CallOK, epochVars
<1>4. CASE Dispatch
  BY <1>4, DispatchOK
<1>5. CASE CompleteDue
  BY <1>5, CompleteDueOK
<1>6. CASE LastFrontier
  BY <1>6, LastFrontierOK
<1>7. CASE Operator
  <2>1. CASE \E desired \in NextTeams : \E forced \in SUBSET desired :
               ReplaceActiveTeam(desired, forced)
    <3>1. PICK desired \in NextTeams : \E forced \in SUBSET desired :
                                        ReplaceActiveTeam(desired, forced)
      BY <2>1
    <3>2. PICK forced \in SUBSET desired : ReplaceActiveTeam(desired, forced)
      BY <3>1
    <3>3. desired \in SUBSET Agents
      BY ExecutorAssumption
    <3> QED
      BY <3>2, <3>3, TeamReplacedOK DEF ReplaceActiveTeam
  <2>2. CASE \E policy \in Policies : \E new \in SUBSET Tasks : ApplyOnlinePatch(policy, new)
    BY <2>2, ApplyOnlinePatchOK, PoliciesKnown
  <2> QED
    BY <1>7, <2>1, <2>2 DEF Operator
<1>8. CASE UNCHANGED vars
  BY <1>8, Unmoved DEF vars, IInv, CallOK, epochVars, callVars
<1> QED
  BY <1>1, <1>2, <1>3, <1>4, <1>5, <1>6, <1>7, <1>8 DEF Next, CallStep

\* The invariant holds of every behaviour.
THEOREM InductiveInvariant == Spec => []IInv
<1>1. Init => IInv
  BY InitOK
<1>2. IInv /\ [Next]_vars => IInv'
  BY NextOK
<1> QED
  BY <1>1, <1>2, PTL DEF Spec

\* The state variables keep their types: every list is a sequence of tasks and
\* every clock a natural number.
THEOREM TypeCorrect == Spec => []TypeOK
<1>1. IInv => TypeOK
  BY DEF IInv, AllocOK, BusyOK, ClockOK, CallOK, TypeOK
<1> QED
  BY <1>1, InductiveInvariant, PTL

\* Task.assigned_agent, the bundles, the paths and the executor's assignments
\* name the same holder of every task, at every step and after every patch and
\* team change.
THEOREM HoldersAlwaysAgree == Spec => []HoldersAgree
<1>1. IInv => HoldersAgree
  BY DEF IInv, AllocOK, HoldersAgree, Owned
<1> QED
  BY <1>1, InductiveInvariant, PTL

\* An agent is busy with exactly the RUNNING task it owns, that task heads its
\* path, and its finish time is not in the past.
THEOREM ClocksAlwaysAgree == Spec => []ClocksAgree
<1>1. IInv => ClocksAgree
  BY DEF IInv, BusyOK, ClockOK, ClocksAgree
<1> QED
  BY <1>1, InductiveInvariant, PTL

\* Nothing is awarded, started or completed before its predecessors.
THEOREM AlwaysInOrder == Spec => []CommittedInOrder
<1>1. IInv => CommittedInOrder
  BY DEF IInv, AllocOK, CommittedInOrder
<1> QED
  BY <1>1, InductiveInvariant, PTL

\* Every award is to an eligible agent.
THEOREM AlwaysEligible == Spec => []AwardsEligible
<1>1. IInv => AwardsEligible
  BY DEF IInv, AllocOK, AwardsEligible
<1> QED
  BY <1>1, InductiveInvariant, PTL

\* Unstarted commitments are held by agents of the active team.
THEOREM AlwaysDispatchable == Spec => []CommittedToActive
<1>1. IInv => CommittedToActive
  BY DEF IInv
<1> QED
  BY <1>1, InductiveInvariant, PTL

\* A task that waits for an auction has no stale award.
THEOREM NeverStranded == Spec => []NoStrandedReady
<1>1. IInv => NoStrandedReady
  BY DEF IInv, AllocOK, NoStrandedReady, Committed
<1> QED
  BY <1>1, InductiveInvariant, PTL

-----------------------------------------------------------------------------
(* Steps: what they may not do, and which steps of MissionLifecycle they   *)
(* are.                                                                    *)


Unstarted == Recomputable \cup {"ASSIGNED"}

\* From statuses st and owners own, a step may have moved unstarted tasks only.
Rearranged(st, own) ==
  \A t \in Tasks :
    \/ st[t] \in Unstarted /\ status'[t] \in Unstarted
    \/ st[t] \notin Unstarted /\ status'[t] = st[t] /\ owner'[t] = own[t]

-----------------------------------------------------------------------------
(* What an auction, a recomputed frontier and a release move.              *)

\* An auction moves READY tasks only.
LEMMA RunEpochMoves ==
  ASSUME NEW st, NEW own, NEW asg, NEW bun, NEW pth, NEW cur, NEW team,
         RunEpoch(st, own, asg, bun, pth, cur, team)
  PROVE  \A t \in Tasks :
           \/ status'[t] = st[t] /\ owner'[t] = own[t]
           \/ st[t] = "READY" /\ status'[t] = "ASSIGNED"
<1>1. CASE Frontier(st, asg) = {} \/ team = {}
  BY <1>1 DEF RunEpoch
<1>2. CASE ~(Frontier(st, asg) = {} \/ team = {})
  <2>1. PICK w \in Awards(st, asg, team) :
          /\ status' = [t \in Tasks |-> IF t \in DOMAIN w THEN "ASSIGNED" ELSE st[t]]
          /\ owner' = [t \in Tasks |-> IF t \in DOMAIN w THEN w[t] ELSE own[t]]
    BY <1>2 DEF RunEpoch
  <2>2. \A t \in DOMAIN w : st[t] = "READY"
    BY <2>1 DEF Awards, Biddable, Frontier
  <2> QED
    BY <2>1, <2>2
<1> QED
  BY <1>1, <1>2

\* A recomputed frontier moves PENDING and READY tasks only.
LEMMA RecomputedMoves ==
  ASSUME NEW st
  PROVE  \A t \in Tasks :
           \/ Recomputed(st)[t] = st[t]
           \/ st[t] \in Recomputable /\ Recomputed(st)[t] \in Recomputable
<1> DEFINE r == Recomputed(st)
<1>1. r = [t \in Tasks |-> IF st[t] \in Recomputable
                            THEN IF PredsDone(st, t) THEN "READY" ELSE "PENDING"
                            ELSE st[t]]
  BY DEF Recomputed
<1>2. \A t \in Tasks : \/ st[t] \in Recomputable /\ r[t] = "READY"
                       \/ st[t] \in Recomputable /\ r[t] = "PENDING"
                       \/ st[t] \notin Recomputable /\ r[t] = st[t]
  BY <1>1, Zenon
<1> HIDE DEF r
<1>3. \A t \in Tasks : \/ r[t] = st[t]
                       \/ st[t] \in Recomputable /\ r[t] \in Recomputable
  BY <1>2 DEF Recomputable
<1> QED
  BY <1>3 DEF r

\* An auction on a recomputed frontier moves unstarted tasks only, and no
\* ASSIGNED one.
LEMMA AuctionMoves ==
  ASSUME NEW st, NEW own, NEW asg, NEW bun, NEW pth, NEW cur, NEW team,
         \/ RunEpoch(Recomputed(st), own, asg, bun, pth, cur, team)
         \/ RunEpoch(st, own, asg, bun, pth, cur, team)
         \/ status' = Recomputed(st) /\ owner' = own
  PROVE  /\ Rearranged(st, own)
         /\ \A t \in Tasks : st[t] = "ASSIGNED" => status'[t] = "ASSIGNED" /\ owner'[t] = own[t]
<1> DEFINE r == Recomputed(st)
<1>1. \A t \in Tasks : \/ r[t] = st[t]
                       \/ st[t] \in Recomputable /\ r[t] \in Recomputable
  BY RecomputedMoves
<1> HIDE DEF r
<1>2. CASE RunEpoch(r, own, asg, bun, pth, cur, team)
  <2>1. \A t \in Tasks : \/ status'[t] = r[t] /\ owner'[t] = own[t]
                         \/ r[t] = "READY" /\ status'[t] = "ASSIGNED"
    BY <1>2, RunEpochMoves
  <2> QED
    BY <1>1, <2>1 DEF Rearranged, Unstarted, Recomputable
<1>3. CASE RunEpoch(st, own, asg, bun, pth, cur, team)
  <2>1. \A t \in Tasks : \/ status'[t] = st[t] /\ owner'[t] = own[t]
                         \/ st[t] = "READY" /\ status'[t] = "ASSIGNED"
    BY <1>3, RunEpochMoves
  <2> QED
    BY <2>1 DEF Rearranged, Unstarted, Recomputable
<1>4. CASE status' = r /\ owner' = own
  BY <1>1, <1>4 DEF Rearranged, Unstarted, Recomputable
<1> QED
  BY <1>2, <1>3, <1>4 DEF r

\* A release of ASSIGNED tasks, with the auction that follows it, moves
\* unstarted tasks only.
LEMMA ReleaseMoves ==
  ASSUME NEW st, NEW released, NEW team,
         released \subseteq {t \in Tasks : st[t] = "ASSIGNED"},
         ReleaseAndAuction(st, released, team)
  PROVE  Rearranged(st, owner)
<1> DEFINE st1 == [t \in Tasks |-> IF t \in released THEN "PENDING" ELSE st[t]]
           own == [t \in Tasks |-> IF t \in released THEN NoAgent ELSE owner[t]]
           asg == [t \in Tasks |-> IF t \in released THEN NoAgent ELSE assignments[t]]
           bun == [a \in Agents |-> Without(bundle[a], released)]
           pth == [a \in Agents |-> Without(path[a], released)]
<1>1. RunEpoch(Recomputed(st1), own, asg, bun, pth, current, team)
  BY DEF ReleaseAndAuction
<1>2. \A t \in Tasks :
        \/ t \in released /\ st[t] = "ASSIGNED" /\ st1[t] = "PENDING"
        \/ t \notin released /\ st1[t] = st[t] /\ own[t] = owner[t]
  OBVIOUS
<1> HIDE DEF st1, own, asg, bun, pth
<1>3. Rearranged(st1, own)
  BY <1>1, AuctionMoves
<1> QED
  BY <1>2, <1>3 DEF Rearranged, Unstarted, Recomputable

-----------------------------------------------------------------------------
(* What each action moves.                                                 *)

\* The auction that begins a call.
LEMMA PrepareEpochMoves ==
  ASSUME PrepareEpoch
  PROVE  Rearranged(status, owner) /\ UNCHANGED clockVars
<1>1. CASE UNCHANGED allocVars
  BY <1>1 DEF allocVars, Rearranged, PrepareEpoch
<1>2. CASE \/ RunEpoch(Recomputed(status), owner, assignments, bundle, path, current, active)
           \/ RunEpoch(status, owner, assignments, bundle, path, current, active)
  BY <1>2, AuctionMoves DEF PrepareEpoch
<1> QED
  BY <1>1, <1>2 DEF PrepareEpoch

\* A change of the team.
LEMMA TeamReplacedMoves ==
  ASSUME NEW desired, NEW forced, TeamReplaced(desired, forced)
  PROVE  Rearranged(status, owner) /\ UNCHANGED clockVars
<1> DEFINE affected == {t \in Assigned : Eligible[t] \cap Changed(desired, forced) # {}}
<1>1. ReleaseAndAuction(status, BehindIn(affected), desired) /\ UNCHANGED clockVars
  BY DEF TeamReplaced
<1>2. BehindIn(affected) \subseteq {t \in Tasks : status[t] = "ASSIGNED"}
  BY DEF BehindIn, Assigned
<1> QED
  BY <1>1, <1>2, ReleaseMoves

\* A patch adds tasks that were not in the graph.
LEMMA ApplyOnlinePatchMoves ==
  ASSUME IInv, NEW policy \in ReleasePolicies, NEW new \in SUBSET Tasks,
         ApplyOnlinePatch(policy, new)
  PROVE  /\ \A t \in new : status[t] = "ABSENT" /\ status'[t] \in Unstarted
         /\ \A t \in Tasks \ new :
              \/ status[t] \in Unstarted /\ status'[t] \in Unstarted
              \/ /\ status[t] \notin Unstarted
                 /\ status'[t] = status[t] /\ owner'[t] = owner[t]
         /\ UNCHANGED clockVars
<1> DEFINE st == [t \in Tasks |-> IF t \in new THEN "PENDING" ELSE status[t]]
           r == Recomputed(st)
           released == ReleaseSet(policy, DirectlyAffected(new))
<1>1. \A t \in Tasks :
        \/ t \in new /\ status[t] = "ABSENT" /\ st[t] = "PENDING"
        \/ t \notin new /\ st[t] = status[t]
  BY DEF ApplyOnlinePatch, InGraph
<1>2. ReleaseAndAuction(r, released, active) /\ UNCHANGED clockVars
  BY DEF ApplyOnlinePatch, Patched
<1>3. released \subseteq Assigned
  BY ReleaseSetOf
<1>4. \A t \in Tasks : \/ r[t] = st[t]
                       \/ st[t] \in Recomputable /\ r[t] \in Recomputable
  BY RecomputedMoves
<1> HIDE DEF st, r, released
<1>5. released \subseteq {t \in Tasks : r[t] = "ASSIGNED"}
  BY <1>1, <1>3, <1>4 DEF Assigned, Recomputable
<1>6. Rearranged(r, owner)
  BY <1>2, <1>5, ReleaseMoves
<1>7. \A t \in Tasks :
        \/ st[t] \in Unstarted /\ status'[t] \in Unstarted
        \/ st[t] \notin Unstarted /\ status'[t] = st[t] /\ owner'[t] = owner[t]
  BY <1>4, <1>6 DEF Rearranged, Unstarted, Recomputable
<1> QED
  BY <1>1, <1>2, <1>7 DEF Unstarted, Recomputable

\* A completion event ends what was due and moves nothing else that runs.
LEMMA CompleteDueMoves ==
  ASSUME IInv, CompleteDue
  PROVE  /\ Due # {} /\ Due \subseteq Working
         /\ \A a \in Due : now' = finishAt[a]
         /\ finishAt' = finishAt
         /\ current' = [a \in Agents |-> IF a \in Due THEN NoTask ELSE current[a]]
         /\ \A t \in {current[a] : a \in Due} :
              /\ status[t] = "RUNNING" /\ status'[t] = "COMPLETED" /\ owner[t] \in Due
         /\ \A t \in Tasks \ {current[a] : a \in Due} :
              /\ \/ status[t] \in Unstarted /\ status'[t] \in Unstarted
                 \/ /\ status[t] \notin Unstarted
                    /\ status'[t] = status[t] /\ owner'[t] = owner[t]
              /\ status[t] = "ASSIGNED" => status'[t] = "ASSIGNED" /\ owner'[t] = owner[t]
<1> DEFINE ends == {current[a] : a \in Due}
           st == [t \in Tasks |-> IF t \in ends THEN "COMPLETED" ELSE status[t]]
           own == [t \in Tasks |-> IF t \in ends THEN NoAgent ELSE owner[t]]
           bun == [a \in Agents |->
                     IF a \in Due THEN Without(bundle[a], {current[a]}) ELSE bundle[a]]
           pth == [a \in Agents |->
                     IF a \in Due THEN Without(path[a], {current[a]}) ELSE path[a]]
           cur == [a \in Agents |-> IF a \in Due THEN NoTask ELSE current[a]]
<1>1. /\ \E a \in Due : now' = finishAt[a]
      /\ current' = cur
      /\ finishAt' = finishAt
      /\ \/ RunEpoch(Recomputed(st), own, assignments, bun, pth, cur, active)
         \/ status' = Recomputed(st) /\ owner' = own
  BY DEF CompleteDue
<1>2. \A a \in Due : /\ a \in Agents /\ a \in Working /\ current[a] \in Tasks
                     /\ status[current[a]] = "RUNNING" /\ owner[current[a]] = a
                     /\ finishAt[a] \in Nat
                     /\ \A b \in Due : finishAt[a] <= finishAt[b]
  BY DEF Due, Working, IInv, BusyOK, ClockOK
<1>3. \A a \in Due : now' = finishAt[a]
  BY <1>1, <1>2
<1>4. \A t \in ends : t \in Tasks /\ status[t] = "RUNNING" /\ owner[t] \in Due
  BY <1>2
<1>5. \A t \in Tasks :
        \/ t \in ends /\ st[t] = "COMPLETED"
        \/ t \notin ends /\ st[t] = status[t] /\ own[t] = owner[t]
  OBVIOUS
<1> HIDE DEF ends, st, own, bun, pth
<1>6. /\ Rearranged(st, own)
      /\ \A t \in Tasks : st[t] = "ASSIGNED" => status'[t] = "ASSIGNED" /\ owner'[t] = own[t]
  BY <1>1, AuctionMoves
<1>7. \A t \in ends : status'[t] = "COMPLETED"
  BY <1>4, <1>5, <1>6 DEF Rearranged, Unstarted, Recomputable
<1>8. \A t \in Tasks \ ends :
        /\ \/ status[t] \in Unstarted /\ status'[t] \in Unstarted
           \/ status[t] \notin Unstarted /\ status'[t] = status[t] /\ owner'[t] = owner[t]
        /\ status[t] = "ASSIGNED" => status'[t] = "ASSIGNED" /\ owner'[t] = owner[t]
  BY <1>5, <1>6 DEF Rearranged
<1> QED
  BY <1>1, <1>2, <1>3, <1>4, <1>7, <1>8 DEF ends

\* A dispatch starts ASSIGNED tasks of idle agents.
LEMMA DispatchMoves ==
  ASSUME IInv, Dispatch
  PROVE  /\ \A a \in Dispatchable :
              /\ a \in Agents /\ current[a] = NoTask
              /\ Head(path[a]) \in Tasks /\ owner[Head(path[a])] = a
              /\ status[Head(path[a])] = "ASSIGNED" /\ PredsDone(status, Head(path[a]))
         /\ \A t \in Tasks :
              \/ t \in {Head(path[a]) : a \in Dispatchable} /\ status'[t] = "RUNNING"
              \/ t \notin {Head(path[a]) : a \in Dispatchable} /\ status'[t] = status[t]
         /\ owner' = owner
<1>1. \A t \in Tasks :
        \/ t \in {Head(path[a]) : a \in Dispatchable} /\ status'[t] = "RUNNING"
        \/ t \notin {Head(path[a]) : a \in Dispatchable} /\ status'[t] = status[t]
  BY DEF Dispatch
<1>2. owner' = owner
  BY DEF Dispatch
<1>3. ASSUME NEW a \in Dispatchable
      PROVE  /\ a \in Agents /\ current[a] = NoTask
             /\ Head(path[a]) \in Tasks /\ owner[Head(path[a])] = a
             /\ status[Head(path[a])] = "ASSIGNED" /\ PredsDone(status, Head(path[a]))
  BY <1>3, HeadIsAssigned
<1> QED
  BY <1>1, <1>2, <1>3

-----------------------------------------------------------------------------
(* What no step may do.                                                    *)

\* A step that moves unstarted tasks only, and no clock, leaves what runs alone.
LEMMA RearrangedKeeps ==
  ASSUME Rearranged(status, owner), finishAt' = finishAt
  PROVE  KeepsRunning
BY DEF Rearranged, Unstarted, Recomputable, KeepsRunning

\* A RUNNING task is never released, moved or retimed: it ends by completing at
\* the time booked for it.
THEOREM RunningAlwaysKept == Spec => RunningIsKept
<1>1. ASSUME IInv, [Next]_vars PROVE KeepsRunning
  <2>1. CASE BeginRun \/ BeginAdvance
    BY <2>1, PrepareEpochMoves, RearrangedKeeps DEF BeginRun, BeginAdvance, clockVars
  <2>2. CASE Finished
    BY <2>2 DEF Finished, allocVars, clockVars, KeepsRunning
  <2>3. CASE Dispatch
    <3>1. ASSUME NEW t \in Tasks, status[t] = "RUNNING"
          PROVE  /\ status'[t] = "RUNNING" /\ owner'[t] = owner[t]
                 /\ finishAt'[owner[t]] = finishAt[owner[t]]
      <4>1. status'[t] = "RUNNING" /\ owner' = owner
        BY <2>3, <3>1, <1>1, DispatchMoves
      <4>2. owner[t] \in Agents
        BY <1>1, <3>1 DEF IInv, AllocOK, Committed
      <4>3. current[owner[t]] = t /\ t # NoTask
        BY <1>1, <3>1, <4>2, ExecutorAssumption DEF IInv, BusyOK
      <4>4. owner[t] \notin Dispatchable
        BY <4>3 DEF Dispatchable
      <4> QED
        BY <2>3, <4>1, <4>2, <4>4 DEF Dispatch
    <3> QED
      BY <3>1 DEF KeepsRunning
  <2>4. CASE CompleteDue
    <3>1. ASSUME NEW t \in Tasks, status[t] = "RUNNING"
          PROVE  \/ /\ status'[t] = "RUNNING" /\ owner'[t] = owner[t]
                    /\ finishAt'[owner[t]] = finishAt[owner[t]]
                 \/ status'[t] = "COMPLETED" /\ now' = finishAt[owner[t]]
      <4>1. CASE t \in {current[a] : a \in Due}
        BY <1>1, <2>4, <4>1, CompleteDueMoves
      <4>2. CASE t \notin {current[a] : a \in Due}
        BY <1>1, <2>4, <3>1, <4>2, CompleteDueMoves DEF Unstarted, Recomputable
      <4> QED
        BY <4>1, <4>2
    <3> QED
      BY <3>1 DEF KeepsRunning
  <2>5. CASE LastFrontier
    <3>1. Rearranged(status, owner)
      BY <2>5, AuctionMoves DEF LastFrontier
    <3> QED
      BY <2>5, <3>1, RearrangedKeeps DEF LastFrontier, clockVars
  <2>6. ASSUME NEW desired, NEW forced, ReplaceActiveTeam(desired, forced)
        PROVE  KeepsRunning
    BY <2>6, TeamReplacedMoves, RearrangedKeeps DEF ReplaceActiveTeam, clockVars
  <2>7. ASSUME NEW policy \in ReleasePolicies, NEW new \in SUBSET Tasks, ApplyOnlinePatch(policy, new)
        PROVE  KeepsRunning
    BY <1>1, <2>7, ApplyOnlinePatchMoves DEF Unstarted, Recomputable, clockVars, KeepsRunning
  <2>8. CASE UNCHANGED vars
    BY <2>8 DEF vars, allocVars, clockVars, KeepsRunning
  <2> QED
    BY <1>1, <2>1, <2>2, <2>3, <2>4, <2>5, <2>6, <2>7, <2>8, PoliciesKnown
    DEF Next, CallStep, Operator
<1>2. IInv /\ [Next]_vars => [KeepsRunning]_vars
  BY <1>1
<1> QED
  BY <1>2, InductiveInvariant, PTL DEF Spec, RunningIsKept

\* Inside a call an award is final until the agent starts the task: rolling
\* auctions do not contest it.
THEOREM AwardsAlwaysKept == Spec => AwardsKept
<1>1. ASSUME IInv, [Next]_vars PROVE [KeepsAwards]_vars
  <2>1. CASE BeginRun \/ BeginAdvance \/ Operator
    BY <2>1 DEF BeginRun, BeginAdvance, Operator, ReplaceActiveTeam, TeamReplaced, ApplyOnlinePatch, KeepsAwards
  <2>2. CASE Finished
    BY <2>2 DEF Finished, allocVars, KeepsAwards, Committed
  <2>3. CASE Dispatch
    <3>1. \A t \in Tasks : /\ status[t] = "ASSIGNED" => status'[t] \in Committed
                           /\ owner'[t] = owner[t]
      BY <1>1, <2>3, DispatchMoves DEF Committed
    <3> QED
      BY <3>1 DEF KeepsAwards
  <2>4. CASE CompleteDue
    <3>1. ASSUME NEW t \in Tasks, status[t] = "ASSIGNED"
          PROVE  owner'[t] = owner[t] /\ status'[t] = "ASSIGNED"
      BY <1>1, <2>4, <3>1, CompleteDueMoves
    <3> QED
      BY <3>1 DEF KeepsAwards, Committed
  <2>5. CASE LastFrontier
    <3>1. \A t \in Tasks : status[t] = "ASSIGNED" => status'[t] = "ASSIGNED" /\ owner'[t] = owner[t]
      BY <2>5, AuctionMoves DEF LastFrontier
    <3> QED
      BY <3>1 DEF KeepsAwards, Committed
  <2> QED
    BY <1>1, <2>1, <2>2, <2>3, <2>4, <2>5 DEF Next, CallStep
<1>2. IInv /\ [Next]_vars => [KeepsAwards]_vars
  BY <1>1
<1> QED
  BY <1>2, InductiveInvariant, PTL DEF Spec, AwardsKept

-----------------------------------------------------------------------------
(* The executor implements MissionLifecycle.                               *)

\* stageOf, of any statuses.
StageFor(st) ==
  [t \in Tasks |->
     CASE st[t] = "ABSENT"    -> "outside"
       [] st[t] = "RUNNING"   -> "running"
       [] st[t] = "COMPLETED" -> "done"
       [] OTHER               -> "open"]

\* The stages tell the four kinds of status apart.
LEMMA StageForOf ==
  ASSUME NEW st, NEW t \in Tasks
  PROVE  \/ st[t] = "ABSENT" /\ StageFor(st)[t] = "outside"
         \/ st[t] = "RUNNING" /\ StageFor(st)[t] = "running"
         \/ st[t] = "COMPLETED" /\ StageFor(st)[t] = "done"
         \/ st[t] \notin {"ABSENT", "RUNNING", "COMPLETED"} /\ StageFor(st)[t] = "open"
<1>1. StageFor(st)[t] = CASE st[t] = "ABSENT"    -> "outside"
                          [] st[t] = "RUNNING"   -> "running"
                          [] st[t] = "COMPLETED" -> "done"
                          [] OTHER               -> "open"
  BY DEF StageFor
<1> QED
  BY <1>1

\* A step that moves unstarted tasks only changes no stage.
LEMMA RearrangedStages ==
  ASSUME Rearranged(status, owner)
  PROVE  stageOf' = stageOf
<1>1. stageOf = StageFor(status) /\ stageOf' = StageFor(status')
  BY DEF stageOf, StageFor
<1>2. ASSUME NEW t \in Tasks PROVE StageFor(status')[t] = StageFor(status)[t]
  BY StageForOf DEF Rearranged, Unstarted, Recomputable
<1>3. StageFor(status') = StageFor(status)
  BY <1>2 DEF StageFor
<1> QED
  BY <1>1, <1>3

\* A session starts as a lifecycle does.
LEMMA LifecycleInit ==
  ASSUME Init
  PROVE  Lifecycle!Init
<1>1. PICK graph \in InitialGraphs :
        status = [t \in Tasks |-> IF t \in graph THEN "PENDING" ELSE "ABSENT"]
  BY DEF Init
<1>2. graph \in SUBSET Tasks /\ ValidGraph(graph)
  BY ExecutorAssumption
<1>3. Lifecycle!ValidGraph(graph)
  BY <1>2 DEF ValidGraph, Lifecycle!ValidGraph
<1>4. \A t \in Tasks : StageFor(status)[t] = IF t \in graph THEN "open" ELSE "outside"
  BY <1>1, StageForOf
<1>5. stageOf = StageFor(status)
  BY DEF stageOf, StageFor
<1>6. stageOf = [t \in Tasks |-> IF t \in graph THEN "open" ELSE "outside"]
  BY <1>4, <1>5 DEF StageFor
<1>7. current = [a \in Agents |-> NoTask]
  BY DEF Init
<1> QED
  BY <1>2, <1>3, <1>6, <1>7 DEF Lifecycle!Init

\* A dispatch is a Start of the heads.
LEMMA DispatchStarts ==
  ASSUME IInv, Dispatch
  PROVE  Lifecycle!Next
<1> DEFINE job == [a \in Dispatchable |-> Head(path[a])]
<1>1. \A a \in Dispatchable :
        /\ a \in Agents /\ current[a] = NoTask
        /\ Head(path[a]) \in Tasks /\ owner[Head(path[a])] = a
        /\ status[Head(path[a])] = "ASSIGNED" /\ PredsDone(status, Head(path[a]))
  BY DispatchMoves
<1>2. \A t \in Tasks :
        \/ t \in {Head(path[a]) : a \in Dispatchable} /\ status'[t] = "RUNNING"
        \/ t \notin {Head(path[a]) : a \in Dispatchable} /\ status'[t] = status[t]
  BY DispatchMoves
<1>3. stageOf = StageFor(status) /\ stageOf' = StageFor(status')
  BY DEF stageOf, StageFor
<1>4. Dispatchable \in SUBSET Agents /\ job \in [Dispatchable -> Tasks]
  BY <1>1
<1>5. ASSUME NEW a \in DOMAIN job
      PROVE  /\ current[a] = NoTask
             /\ stageOf[job[a]] = "open"
             /\ a \in Eligible[job[a]]
             /\ \A p \in Preds[job[a]] : stageOf[p] = "done"
  <2>1. a \in Dispatchable /\ job[a] = Head(path[a])
    OBVIOUS
  <2>2. stageOf[job[a]] = "open"
    BY <1>1, <1>3, <2>1, StageForOf
  <2>3. a \in Eligible[job[a]]
    BY <1>1, <2>1, ExecutorAssumption DEF IInv, AllocOK, Committed
  <2>4. ASSUME NEW p \in Preds[job[a]] PROVE stageOf[p] = "done"
    <3>1. p \in Tasks /\ status[p] = "COMPLETED"
      BY <1>1, <2>1, GraphAssumption DEF PredsDone
    <3> QED
      BY <1>3, <3>1, StageForOf
  <2> QED
    BY <1>1, <2>1, <2>2, <2>3, <2>4
<1>6. \A a, b \in DOMAIN job : job[a] = job[b] => a = b
  BY <1>1
<1>7. stageOf' = [t \in Tasks |->
                    IF \E a \in DOMAIN job : job[a] = t THEN "running" ELSE stageOf[t]]
  <2>1. ASSUME NEW t \in Tasks
        PROVE  StageFor(status')[t]
                 = IF \E a \in DOMAIN job : job[a] = t THEN "running" ELSE StageFor(status)[t]
    <3>1. CASE t \in {Head(path[a]) : a \in Dispatchable}
      <4>1. \E a \in DOMAIN job : job[a] = t
        BY <3>1
      <4>2. status'[t] = "RUNNING"
        BY <1>2, <3>1
      <4> QED
        BY <4>1, <4>2, StageForOf
    <3>2. CASE t \notin {Head(path[a]) : a \in Dispatchable}
      <4>1. ~\E a \in DOMAIN job : job[a] = t
        BY <3>2
      <4>2. status'[t] = status[t]
        BY <1>2, <3>2
      <4>3. StageFor(status')[t] = StageFor(status)[t]
        BY <4>2 DEF StageFor
      <4> QED
        BY <4>1, <4>3
    <3> QED
      BY <3>1, <3>2
  <2>2. StageFor(status') = [t \in Tasks |-> StageFor(status')[t]]
    BY DEF StageFor
  <2> QED
    BY <1>3, <2>1, <2>2
<1>8. current' = [a \in Agents |-> IF a \in DOMAIN job THEN job[a] ELSE current[a]]
  BY DEF Dispatch
<1> HIDE DEF job
<1>9. Lifecycle!Start(job)
  BY <1>5, <1>6, <1>7, <1>8 DEF Lifecycle!Start
<1> QED
  BY <1>4, <1>9 DEF Lifecycle!Next

\* A completion event is a Finish of the agents that are due.
LEMMA CompleteDueFinishes ==
  ASSUME IInv, CompleteDue
  PROVE  Lifecycle!Next
<1>1. /\ Due # {} /\ Due \subseteq Working
      /\ current' = [a \in Agents |-> IF a \in Due THEN NoTask ELSE current[a]]
  BY CompleteDueMoves
<1>2. \A t \in {current[a] : a \in Due} : status'[t] = "COMPLETED"
  BY CompleteDueMoves
<1>3. \A t \in Tasks \ {current[a] : a \in Due} :
        \/ status[t] \in Unstarted /\ status'[t] \in Unstarted
        \/ status[t] \notin Unstarted /\ status'[t] = status[t]
  BY CompleteDueMoves
<1>4. stageOf = StageFor(status) /\ stageOf' = StageFor(status')
  BY DEF stageOf, StageFor
<1>5. ASSUME NEW t \in Tasks
      PROVE  StageFor(status')[t]
               = IF \E a \in Due : current[a] = t THEN "done" ELSE StageFor(status)[t]
  <2>1. CASE t \in {current[a] : a \in Due}
    <3>1. StageFor(status')[t] = "done"
      BY <1>2, <2>1, StageForOf
    <3>2. \E a \in Due : current[a] = t
      BY <2>1
    <3> QED
      BY <3>1, <3>2
  <2>2. CASE t \notin {current[a] : a \in Due}
    <3>1. StageFor(status')[t] = StageFor(status)[t]
      BY <1>3, <2>2, StageForOf DEF Unstarted, Recomputable
    <3>2. ~\E a \in Due : current[a] = t
      BY <2>2
    <3> QED
      BY <3>1, <3>2
  <2> QED
    BY <2>1, <2>2
<1>6. StageFor(status') = [t \in Tasks |-> StageFor(status')[t]]
  BY DEF StageFor
<1>7. stageOf' = [t \in Tasks |-> IF \E a \in Due : current[a] = t THEN "done" ELSE stageOf[t]]
  BY <1>4, <1>5, <1>6
<1>8. Due \in SUBSET Agents /\ \A a \in Due : current[a] # NoTask
  BY <1>1 DEF Working
<1>9. Lifecycle!Finish(Due)
  BY <1>1, <1>7, <1>8 DEF Lifecycle!Finish
<1> QED
  BY <1>8, <1>9 DEF Lifecycle!Next

\* A patch is an Admit of the tasks it adds.
LEMMA ApplyOnlinePatchAdmits ==
  ASSUME IInv, NEW policy \in ReleasePolicies, NEW new \in SUBSET Tasks,
         ApplyOnlinePatch(policy, new)
  PROVE  Lifecycle!Next
<1>1. /\ \A t \in new : status[t] = "ABSENT" /\ status'[t] \in Unstarted
      /\ \A t \in Tasks \ new :
           \/ status[t] \in Unstarted /\ status'[t] \in Unstarted
           \/ status[t] \notin Unstarted /\ status'[t] = status[t]
      /\ UNCHANGED clockVars
  BY ApplyOnlinePatchMoves
<1>2. stageOf = StageFor(status) /\ stageOf' = StageFor(status')
  BY DEF stageOf, StageFor
<1>3. ASSUME NEW t \in Tasks
      PROVE  StageFor(status')[t] = IF t \in new THEN "open" ELSE StageFor(status)[t]
  BY <1>1, StageForOf DEF Unstarted, Recomputable
<1>4. StageFor(status') = [t \in Tasks |-> StageFor(status')[t]]
  BY DEF StageFor
<1>5. stageOf' = [t \in Tasks |-> IF t \in new THEN "open" ELSE stageOf[t]]
  BY <1>2, <1>3, <1>4
<1>6. Lifecycle!Admitted = InGraph
  <2>1. \A t \in Tasks : stageOf[t] # "outside" <=> status[t] # "ABSENT"
    BY <1>2, StageForOf
  <2> QED
    BY <2>1 DEF Lifecycle!Admitted, InGraph
<1>7. new \cap InGraph = {} /\ Lifecycle!ValidGraph(InGraph \cup new)
  BY DEF ApplyOnlinePatch, ValidGraph, Lifecycle!ValidGraph
<1>8. current' = current
  BY <1>1 DEF clockVars
<1>9. Lifecycle!Admit(new)
  BY <1>5, <1>6, <1>7, <1>8 DEF Lifecycle!Admit
<1> QED
  BY <1>9 DEF Lifecycle!Next

\* The executor, with its auctions, releases, team changes and patches,
\* implements the lifecycle: an eligible idle agent starts a task once its
\* predecessors are done and finishes it once.
THEOREM LifecycleImplemented == Spec => ImplementsLifecycle
<1>1. Init => Lifecycle!Init
  BY LifecycleInit
<1>2. ASSUME IInv, [Next]_vars PROVE [Lifecycle!Next]_(Lifecycle!lifecycleVars)
  <2>1. ASSUME Rearranged(status, owner), UNCHANGED clockVars
        PROVE  UNCHANGED Lifecycle!lifecycleVars
    BY <2>1, RearrangedStages DEF clockVars, Lifecycle!lifecycleVars
  <2>2. CASE BeginRun \/ BeginAdvance
    BY <2>1, <2>2, PrepareEpochMoves DEF BeginRun, BeginAdvance
  <2>3. CASE Finished \/ UNCHANGED vars
    BY <2>3 DEF Finished, vars, allocVars, clockVars, stageOf, Lifecycle!lifecycleVars
  <2>4. CASE Dispatch
    BY <1>2, <2>4, DispatchStarts
  <2>5. CASE CompleteDue
    BY <1>2, <2>5, CompleteDueFinishes
  <2>6. CASE LastFrontier
    BY <2>1, <2>6, AuctionMoves DEF LastFrontier
  <2>7. ASSUME NEW desired, NEW forced, ReplaceActiveTeam(desired, forced)
        PROVE  UNCHANGED Lifecycle!lifecycleVars
    BY <2>1, <2>7, TeamReplacedMoves DEF ReplaceActiveTeam
  <2>8. ASSUME NEW policy \in ReleasePolicies, NEW new \in SUBSET Tasks, ApplyOnlinePatch(policy, new)
        PROVE  Lifecycle!Next
    BY <1>2, <2>8, ApplyOnlinePatchAdmits
  <2> QED
    BY <1>2, <2>2, <2>3, <2>4, <2>5, <2>6, <2>7, <2>8, PoliciesKnown
    DEF Next, CallStep, Operator
<1> QED
  BY <1>1, <1>2, InductiveInvariant, PTL DEF Spec, ImplementsLifecycle, Lifecycle!Spec

-----------------------------------------------------------------------------
(* The recorded times.                                                     *)

\* A task has a departure once it was started and a completion once it is done.
TimesOK ==
  /\ \A t \in Tasks :
       /\ departure[t] # NoTime => status[t] \in {"RUNNING", "COMPLETED"}
       /\ status[t] = "COMPLETED" => completion[t] # NoTime /\ completion[t] <= now
  /\ DepartsAfterPreds

\* A step that records nothing and starts or ends nothing keeps the times.
LEMMA TimesKept ==
  ASSUME TimesOK, UNCHANGED <<now, departure, completion>>,
         \A t \in Tasks :
           \/ status[t] \in Unstarted \cup {"ABSENT"} /\ status'[t] \in Unstarted \cup {"ABSENT"}
           \/ status'[t] = status[t]
  PROVE  TimesOK'
<1>1. \A t \in Tasks : /\ departure'[t] # NoTime => status'[t] \in {"RUNNING", "COMPLETED"}
                       /\ status'[t] = "COMPLETED" => completion'[t] # NoTime /\ completion'[t] <= now'
  BY DEF TimesOK, Unstarted, Recomputable
<1>2. DepartsAfterPreds'
  BY DEF TimesOK, DepartsAfterPreds
<1> QED
  BY <1>1, <1>2 DEF TimesOK

\* A dispatch records the current time as a departure, after the completions of
\* the predecessors.
LEMMA TimesDispatch ==
  ASSUME IInv, TimesOK, Dispatch
  PROVE  TimesOK'
<1> DEFINE heads == {Head(path[a]) : a \in Dispatchable}
<1>1. /\ departure' = [t \in Tasks |-> IF t \in heads THEN now ELSE departure[t]]
      /\ now' = now /\ completion' = completion
  BY DEF Dispatch
<1>2. \A t \in Tasks : \/ t \in heads /\ status'[t] = "RUNNING"
                       \/ t \notin heads /\ status'[t] = status[t]
  BY DispatchMoves
<1>3. \A t \in heads : status[t] = "ASSIGNED" /\ PredsDone(status, t)
  BY DispatchMoves
<1> HIDE DEF heads
<1>4. \A t \in Tasks : /\ departure'[t] # NoTime => status'[t] \in {"RUNNING", "COMPLETED"}
                       /\ status'[t] = "COMPLETED" => completion'[t] # NoTime /\ completion'[t] <= now'
  BY <1>1, <1>2, <1>3 DEF TimesOK
<1>5. ASSUME NEW t \in Tasks, NEW p \in Preds[t], departure'[t] # NoTime
      PROVE  completion'[p] # NoTime /\ completion'[p] <= departure'[t]
  <2>1. CASE t \in heads
    <3>1. p \in Tasks /\ status[p] = "COMPLETED"
      BY <1>3, <2>1, GraphAssumption DEF PredsDone
    <3> QED
      BY <1>1, <2>1, <3>1 DEF TimesOK
  <2>2. CASE t \notin heads
    BY <1>1, <1>5, <2>2 DEF TimesOK, DepartsAfterPreds
  <2> QED
    BY <2>1, <2>2
<1> QED
  BY <1>4, <1>5 DEF TimesOK, DepartsAfterPreds

\* A completion event records the new time as the completion of what was
\* RUNNING, for which nothing has departed that depends on it.
LEMMA TimesComplete ==
  ASSUME IInv, TimesOK, CompleteDue
  PROVE  TimesOK'
<1> DEFINE ends == {current[a] : a \in Due}
<1>1. /\ completion' = [t \in Tasks |-> IF t \in ends THEN now' ELSE completion[t]]
      /\ departure' = departure
  BY DEF CompleteDue
<1>2. PICK a \in Due : now' = finishAt[a]
  BY CompleteDueMoves
<1>3. a \in Working
  BY CompleteDueMoves
<1>4. now \in Nat /\ now' \in Nat /\ now <= now'
  BY <1>2, <1>3 DEF IInv, ClockOK, Working
<1>5. \A t \in ends : status[t] = "RUNNING" /\ status'[t] = "COMPLETED"
  BY CompleteDueMoves
<1>6. \A t \in Tasks \ ends :
        \/ status[t] \in Unstarted /\ status'[t] \in Unstarted
        \/ status[t] \notin Unstarted /\ status'[t] = status[t]
  BY CompleteDueMoves
<1> HIDE DEF ends
<1>7. completion \in [Tasks -> Nat \cup {NoTime}] /\ departure \in [Tasks -> Nat \cup {NoTime}]
  BY DEF IInv, ClockOK
<1>8. NoTime \notin Nat
  BY DEF NoTime
<1>9. ASSUME NEW t \in Tasks
      PROVE  /\ departure'[t] # NoTime => status'[t] \in {"RUNNING", "COMPLETED"}
             /\ status'[t] = "COMPLETED" => completion'[t] # NoTime /\ completion'[t] <= now'
  <2>1. CASE t \in ends
    BY <1>1, <1>4, <1>5, <1>8, <2>1
  <2>2. CASE t \notin ends
    <3>1. departure'[t] # NoTime => status'[t] \in {"RUNNING", "COMPLETED"}
      BY <1>1, <1>6, <2>2 DEF TimesOK, Unstarted, Recomputable
    <3>2. ASSUME status'[t] = "COMPLETED" PROVE completion'[t] # NoTime /\ completion'[t] <= now'
      <4>1. status[t] = "COMPLETED"
        BY <1>6, <2>2, <3>2 DEF Unstarted, Recomputable
      <4>2. completion[t] # NoTime /\ completion[t] <= now /\ completion[t] \in Nat
        BY <1>7, <4>1 DEF TimesOK
      <4> QED
        BY <1>1, <1>4, <2>2, <4>2
    <3> QED
      BY <3>1, <3>2
  <2> QED
    BY <2>1, <2>2
<1>10. ASSUME NEW t \in Tasks, NEW p \in Preds[t], departure'[t] # NoTime
       PROVE  completion'[p] # NoTime /\ completion'[p] <= departure'[t]
  <2>1. p \in Tasks /\ departure[t] # NoTime
    BY <1>1, <1>10, GraphAssumption
  <2>2. status[t] \in {"RUNNING", "COMPLETED"}
    BY <2>1 DEF TimesOK
  <2>3. status[p] = "COMPLETED"
    BY <2>1, <2>2 DEF IInv, AllocOK, Committed, PredsDone
  <2>4. p \notin ends
    BY <1>5, <2>3
  <2> QED
    BY <1>1, <2>1, <2>4 DEF TimesOK, DepartsAfterPreds
<1> QED
  BY <1>9, <1>10 DEF TimesOK, DepartsAfterPreds

\* precedence_violations stays empty: no agent departs for a task before its
\* predecessors were completed, by the recorded times.
THEOREM AlwaysDepartsAfterPreds == Spec => []DepartsAfterPreds
<1>1. Init => TimesOK
  <2>1. ASSUME Init PROVE TimesOK
    <3>1. \A t \in Tasks : departure[t] = NoTime /\ status[t] \in {"PENDING", "ABSENT"}
      BY <2>1 DEF Init
    <3> QED
      BY <3>1 DEF TimesOK, DepartsAfterPreds
  <2> QED
    BY <2>1
<1>2. ASSUME IInv, TimesOK, [Next]_vars PROVE TimesOK'
  <2>1. ASSUME Rearranged(status, owner), UNCHANGED clockVars PROVE TimesOK'
    BY <1>2, <2>1, TimesKept DEF Rearranged, clockVars
  <2>2. CASE BeginRun \/ BeginAdvance
    BY <2>1, <2>2, PrepareEpochMoves DEF BeginRun, BeginAdvance
  <2>3. CASE Finished \/ UNCHANGED vars
    BY <1>2, <2>3, TimesKept DEF Finished, vars, allocVars, clockVars
  <2>4. CASE Dispatch
    BY <1>2, <2>4, TimesDispatch
  <2>5. CASE CompleteDue
    BY <1>2, <2>5, TimesComplete
  <2>6. CASE LastFrontier
    BY <2>1, <2>6, AuctionMoves DEF LastFrontier
  <2>7. ASSUME NEW desired, NEW forced, ReplaceActiveTeam(desired, forced) PROVE TimesOK'
    BY <2>1, <2>7, TeamReplacedMoves DEF ReplaceActiveTeam
  <2>8. ASSUME NEW policy \in ReleasePolicies, NEW new \in SUBSET Tasks, ApplyOnlinePatch(policy, new)
        PROVE  TimesOK'
    <3>1. \A t \in Tasks :
            \/ status[t] \in Unstarted \cup {"ABSENT"} /\ status'[t] \in Unstarted \cup {"ABSENT"}
            \/ status'[t] = status[t]
      BY <1>2, <2>8, ApplyOnlinePatchMoves
    <3> QED
      BY <1>2, <2>8, <3>1, ApplyOnlinePatchMoves, TimesKept DEF clockVars
  <2> QED
    BY <1>2, <2>2, <2>3, <2>4, <2>5, <2>6, <2>7, <2>8, PoliciesKnown
    DEF Next, CallStep, Operator
<1>3. IInv /\ TimesOK /\ [Next]_vars => TimesOK'
  BY <1>2
<1>4. TimesOK => DepartsAfterPreds
  BY DEF TimesOK
<1> QED
  BY <1>1, <1>3, <1>4, InductiveInvariant, PTL DEF Spec

-----------------------------------------------------------------------------
(* Deadlocks.                                                              *)

\* The graph is closed under predecessors, a call runs only while no result is
\* set, and a deadlock that was reported is one.
EndOK ==
  /\ \A t \in Tasks : status[t] # "ABSENT" => \A p \in Preds[t] : status[p] # "ABSENT"
  /\ mode = "NEW" => result = "NONE"
  /\ inCall => result = "NONE" /\ mode # "NEW"
  /\ DeadlockJustified

\* With nobody at work and nobody to dispatch, no task is committed.
LEMMA NothingCommitted ==
  ASSUME IInv, Working = {}, Dispatchable = {}, NEW t \in Tasks
  PROVE  status[t] \notin Committed
<1>1. NoAgent \notin Agents /\ NoTask \notin Tasks
  BY ExecutorAssumption
<1>2. SUFFICES ASSUME status[t] \in Committed PROVE FALSE
  OBVIOUS
<1> DEFINE a == owner[t]
<1>3. a \in Agents
  BY <1>1, <1>2 DEF IInv, AllocOK
<1>4. current[a] = NoTask
  BY <1>3 DEF Working
<1>5. status[t] = "ASSIGNED"
  BY <1>1, <1>2, <1>3, <1>4 DEF IInv, BusyOK, Committed
<1>6. a \in active
  BY <1>5 DEF IInv, CommittedToActive
<1>7. path[a] \in Seq(Tasks) /\ ToSet(path[a]) = Owned(owner, a)
  BY <1>3 DEF IInv, AllocOK
<1>8. t \in ToSet(path[a])
  BY <1>7 DEF Owned
<1>9. path[a] # <<>> /\ Head(path[a]) \in ToSet(path[a])
  BY <1>7, <1>8 DEF ToSet
<1>10. Head(path[a]) \in Tasks /\ owner[Head(path[a])] = a
  BY <1>7, <1>9 DEF Owned
<1>11. PredsDone(status, Head(path[a]))
  BY <1>1, <1>3, <1>10 DEF IInv, AllocOK
<1> QED
  BY <1>4, <1>6, <1>9, <1>11 DEF Dispatchable

\* An auction nobody can bid in changes nothing.
LEMMA NoBids ==
  ASSUME NEW st, NEW own, NEW asg, NEW bun, NEW pth, NEW cur, NEW team,
         RunEpoch(st, own, asg, bun, pth, cur, team), Biddable(st, asg, team) = {}
  PROVE  \A t \in Tasks : status'[t] = st[t]
<1>1. CASE Frontier(st, asg) = {} \/ team = {}
  BY <1>1 DEF RunEpoch
<1>2. CASE ~(Frontier(st, asg) = {} \/ team = {})
  <2>1. PICK w \in Awards(st, asg, team) :
          status' = [t \in Tasks |-> IF t \in DOMAIN w THEN "ASSIGNED" ELSE st[t]]
    BY <1>2 DEF RunEpoch
  <2>2. DOMAIN w = {}
    BY <2>1 DEF Awards
  <2> QED
    BY <2>1, <2>2
<1> QED
  BY <1>1, <1>2

\* What the last auction leaves when it awards nothing is a deadlock: by the
\* acyclicity of the graph some task is READY, and whatever is READY has no
\* eligible agent in the team.
LEMMA DeadlockIsReal ==
  ASSUME IInv, EndOK, LastFrontier, Biddable(Recomputed(status), assignments, active) = {}
  PROVE  DeadlockJustified'
<1> DEFINE r == Recomputed(status)
<1>1. /\ Working = {} /\ Dispatchable = {} /\ ~AllFinished(status)
      /\ UNCHANGED <<current, active>>
      /\ RunEpoch(r, owner, assignments, bundle, path, current, active)
  BY DEF LastFrontier, clockVars
<1>2. \A t \in Tasks : status'[t] = r[t]
  BY <1>1, NoBids
<1>3. \A t \in Tasks : status[t] \notin Committed
  BY <1>1, NothingCommitted
<1>4. r = [t \in Tasks |-> IF status[t] \in Recomputable
                            THEN IF PredsDone(status, t) THEN "READY" ELSE "PENDING"
                            ELSE status[t]]
  BY DEF Recomputed
<1>5. \A t \in Tasks : \/ status[t] \in Recomputable /\ PredsDone(status, t) /\ r[t] = "READY"
                       \/ status[t] \in Recomputable /\ ~PredsDone(status, t) /\ r[t] = "PENDING"
                       \/ status[t] \notin Recomputable /\ r[t] = status[t]
  BY <1>4, Zenon
<1>6. \A t \in Tasks : Biddable(r, assignments, active) = {} /\ r[t] = "READY"
                         /\ assignments[t] = NoAgent => Eligible[t] \cap active = {}
  BY DEF Biddable, Frontier
<1>7. Biddable(r, assignments, active) = {}
  OBVIOUS
<1> HIDE DEF r
<1>8. \A t \in Tasks : status'[t] = "COMPLETED" <=> status[t] = "COMPLETED"
  BY <1>2, <1>5 DEF Recomputable
<1>9. \A t \in Tasks : PredsDone(status', t) <=> PredsDone(status, t)
  BY <1>8, GraphAssumption DEF PredsDone
<1>10. status \in [Tasks -> TaskStatus]
  BY DEF IInv, AllocOK
<1>11. ASSUME NEW t \in Tasks, status'[t] \in Unfinished
       PROVE  \/ status'[t] = "READY" /\ Eligible[t] \cap active' = {}
              \/ status'[t] = "PENDING" /\ ~PredsDone(status', t)
  <2>1. status[t] \in Recomputable
    BY <1>2, <1>3, <1>5, <1>11 DEF Unfinished
  <2>2. CASE PredsDone(status, t)
    <3>1. r[t] = "READY"
      BY <1>5, <2>1, <2>2
    <3>2. assignments[t] = NoAgent
      BY <2>1 DEF IInv, AllocOK, Recomputable, Committed
    <3> QED
      BY <1>1, <1>2, <1>6, <1>7, <3>1, <3>2
  <2>3. CASE ~PredsDone(status, t)
    BY <1>2, <1>5, <1>9, <2>1, <2>3
  <2> QED
    BY <2>2, <2>3
<1>12. \E t \in Tasks : status'[t] = "READY"
  <2> DEFINE S == {t \in Tasks : status[t] \in Unfinished}
  <2>1. S \in (SUBSET Tasks) \ {{}}
    BY <1>1 DEF AllFinished
  <2>2. PICK t \in S : Preds[t] \cap S = {}
    BY <2>1, AcyclicAssumption DEF Acyclic
  <2>3. t \in Tasks /\ status[t] \in Recomputable /\ status[t] # "ABSENT"
    BY <1>3, <2>2 DEF Unfinished, Recomputable
  <2>4. ASSUME NEW p \in Preds[t] PROVE status[p] = "COMPLETED"
    <3>1. p \in Tasks /\ status[p] # "ABSENT" /\ status[p] \notin Unfinished
      BY <2>2, <2>3, GraphAssumption DEF EndOK
    <3>2. status[p] \in TaskStatus
      BY <1>10, <3>1
    <3> QED
      BY <3>1, <3>2 DEF TaskStatus
  <2>5. PredsDone(status, t)
    BY <2>4 DEF PredsDone
  <2> QED
    BY <1>2, <1>5, <2>3, <2>5
<1>13. Working' = {}
  BY <1>1 DEF Working
<1> QED
  BY <1>11, <1>12, <1>13 DEF DeadlockJustified

\* A step that reports no deadlock and keeps the graph keeps the rest.
LEMMA EndKept ==
  ASSUME EndOK, result' # "DEADLOCK",
         mode' = "NEW" => result' = "NONE",
         inCall' => result' = "NONE" /\ mode' # "NEW",
         \A t \in Tasks : status'[t] = "ABSENT" <=> status[t] = "ABSENT"
  PROVE  EndOK'
<1>1. \A t \in Tasks : status'[t] # "ABSENT" => \A p \in Preds[t] : status'[p] # "ABSENT"
  BY GraphAssumption DEF EndOK
<1> QED
  BY <1>1 DEF EndOK, DeadlockJustified

\* A step that moves unstarted tasks only keeps the graph.
LEMMA RearrangedGraph ==
  ASSUME Rearranged(status, owner)
  PROVE  \A t \in Tasks : status'[t] = "ABSENT" <=> status[t] = "ABSENT"
BY DEF Rearranged, Unstarted, Recomputable

\* The steps of a call keep it.
LEMMA EndCall ==
  ASSUME IInv, EndOK, BeginRun \/ BeginAdvance \/ CallStep
  PROVE  EndOK'
<1>1. CASE BeginRun \/ BeginAdvance
  <2>1. result' = "NONE" /\ mode' # "NEW"
    BY <1>1 DEF BeginRun, BeginAdvance, PrepareEpoch, EndOK
  <2>2. Rearranged(status, owner)
    BY <1>1, PrepareEpochMoves DEF BeginRun, BeginAdvance
  <2> QED
    BY <2>1, <2>2, RearrangedGraph, EndKept
<1>2. CASE Finished
  <2>1. /\ result' = "COMPLETED" /\ inCall' = FALSE /\ mode' = mode /\ status' = status
        /\ mode # "NEW"
    BY <1>2 DEF Finished, Return, allocVars, EndOK
  <2> QED
    BY <2>1, EndKept
<1>3. CASE Dispatch
  <2>1. \A t \in Tasks : status'[t] = "ABSENT" <=> status[t] = "ABSENT"
    BY <1>3, DispatchMoves
  <2>2. result' = "NONE" /\ mode' = mode /\ mode # "NEW"
    BY <1>3 DEF Dispatch, callVars, EndOK
  <2> QED
    BY <2>1, <2>2, EndKept
<1>4. CASE CompleteDue
  <2>1. \A t \in Tasks : status'[t] = "ABSENT" <=> status[t] = "ABSENT"
    BY <1>4, CompleteDueMoves DEF Unstarted, Recomputable
  <2>2. /\ mode' = mode /\ mode # "NEW" /\ result = "NONE"
        /\ \/ inCall' = inCall /\ result' = result
           \/ inCall' = FALSE /\ result' \in {"COMPLETED", "NONE"}
    BY <1>4 DEF CompleteDue, Return, EndOK
  <2> QED
    BY <2>1, <2>2, EndKept
<1>5. CASE LastFrontier
  <2>1. /\ Rearranged(status, owner) /\ mode' = mode /\ mode # "NEW" /\ result = "NONE"
    BY <1>5, AuctionMoves DEF LastFrontier, EndOK
  <2>2. CASE Biddable(Recomputed(status), assignments, active) # {}
    <3>1. inCall' = inCall /\ result' = result
      BY <1>5, <2>2 DEF LastFrontier
    <3> QED
      BY <2>1, <3>1, RearrangedGraph, EndKept
  <2>3. CASE Biddable(Recomputed(status), assignments, active) = {}
    <3>1. inCall' = FALSE
      BY <1>5, <2>3 DEF LastFrontier, Return
    <3>2. DeadlockJustified'
      BY <1>5, <2>3, DeadlockIsReal
    <3>3. \A t \in Tasks : status'[t] # "ABSENT" => \A p \in Preds[t] : status'[p] # "ABSENT"
      BY <2>1, RearrangedGraph, GraphAssumption DEF EndOK
    <3> QED
      BY <2>1, <3>1, <3>2, <3>3 DEF EndOK
  <2> QED
    BY <2>2, <2>3
<1> QED
  BY <1>1, <1>2, <1>3, <1>4, <1>5 DEF CallStep

\* A change of the team keeps it, while there is no result.
LEMMA EndTeam ==
  ASSUME EndOK, ~inCall, result = "NONE", NEW desired, NEW forced, TeamReplaced(desired, forced)
  PROVE  EndOK'
<1>1. /\ Rearranged(status, owner)
      /\ mode' = mode /\ inCall' = inCall /\ result' = result
  BY TeamReplacedMoves DEF TeamReplaced, callVars
<1> QED
  BY <1>1, RearrangedGraph, EndKept

\* A patch keeps it: the graph it leads to is valid.
LEMMA EndPatch ==
  ASSUME IInv, EndOK, NEW policy \in ReleasePolicies, NEW new \in SUBSET Tasks,
         ApplyOnlinePatch(policy, new)
  PROVE  EndOK'
<1>1. /\ mode' = mode /\ mode = "ONLINE" /\ inCall' = inCall /\ ~inCall /\ result' = "NONE"
      /\ ValidGraph(InGraph \cup new)
  BY DEF ApplyOnlinePatch
<1>2. \A t \in Tasks : status'[t] # "ABSENT" <=> t \in InGraph \cup new
  BY ApplyOnlinePatchMoves DEF InGraph, Unstarted, Recomputable
<1>3. \A t \in Tasks : status'[t] # "ABSENT" => \A p \in Preds[t] : status'[p] # "ABSENT"
  BY <1>1, <1>2, GraphAssumption DEF ValidGraph
<1> QED
  BY <1>1, <1>3 DEF EndOK, DeadlockJustified

\* An executor starts with it.
LEMMA EndInit ==
  ASSUME Init
  PROVE  EndOK
<1>1. PICK graph \in InitialGraphs :
        status = [t \in Tasks |-> IF t \in graph THEN "PENDING" ELSE "ABSENT"]
  BY DEF Init
<1>2. ValidGraph(graph)
  BY ExecutorAssumption
<1>3. \A t \in Tasks : status[t] # "ABSENT" <=> t \in graph
  BY <1>1
<1>4. \A t \in Tasks : status[t] # "ABSENT" => \A p \in Preds[t] : status[p] # "ABSENT"
  BY <1>2, <1>3, GraphAssumption DEF ValidGraph
<1> QED
  BY <1>4 DEF Init, EndOK, DeadlockJustified

\* A deadlock is never premature: when the executor reports one, nobody works,
\* some task is READY, every READY task has no eligible agent in the active
\* team, and the rest waits for those.
THEOREM DeadlockAlwaysJustified == Spec => []DeadlockJustified
<1>1. ASSUME IInv, EndOK, [Next]_vars PROVE EndOK'
  <2>1. CASE BeginRun \/ BeginAdvance \/ CallStep
    BY <1>1, <2>1, EndCall
  <2>2. ASSUME NEW desired, NEW forced, ReplaceActiveTeam(desired, forced) PROVE EndOK'
    BY <1>1, <2>2, EndTeam DEF ReplaceActiveTeam
  <2>3. ASSUME NEW policy \in ReleasePolicies, NEW new \in SUBSET Tasks,
               ApplyOnlinePatch(policy, new)
        PROVE  EndOK'
    BY <1>1, <2>3, EndPatch
  <2>4. CASE UNCHANGED vars
    <3>1. UNCHANGED <<status, current, active, mode, inCall, result>>
      BY <2>4 DEF vars, allocVars, clockVars, callVars
    <3>2. Working' = Working
      BY <3>1 DEF Working
    <3> QED
      BY <1>1, <3>1, <3>2 DEF EndOK, DeadlockJustified
  <2> QED
    BY <1>1, <2>1, <2>2, <2>3, <2>4, PoliciesKnown DEF Next, Operator
<1>2. IInv /\ EndOK /\ [Next]_vars => EndOK'
  BY <1>1
<1>3. EndOK => DeadlockJustified
  BY DEF EndOK
<1> QED
  BY <1>2, <1>3, EndInit, InductiveInvariant, PTL DEF Spec

-----------------------------------------------------------------------------
(* What an auction leaves to bid for.                                      *)

\* Inside a call, and between two calls unless a completion has deferred the
\* auction, no ready task that an active agent can do is left without an award.
Quiet ==
  /\ started /\ ~epochPending => Biddable(status, assignments, active) = {}
  /\ inCall => started /\ ~epochPending

\* An auction awards every task it can award.
LEMMA AuctionAwardsAll ==
  ASSUME NEW st, NEW own, NEW asg, NEW bun, NEW pth, NEW cur, NEW team,
         RunEpoch(st, own, asg, bun, pth, cur, team)
  PROVE  Biddable(status', assignments', team) = {}
<1>1. CASE Frontier(st, asg) = {} \/ team = {}
  <2>1. status' = st /\ assignments' = asg
    BY <1>1 DEF RunEpoch
  <2> QED
    BY <1>1, <2>1 DEF Biddable
<1>2. CASE ~(Frontier(st, asg) = {} \/ team = {})
  <2>1. PICK w \in Awards(st, asg, team) :
          /\ status' = [t \in Tasks |-> IF t \in DOMAIN w THEN "ASSIGNED" ELSE st[t]]
          /\ assignments' = [t \in Tasks |-> IF t \in DOMAIN w THEN w[t] ELSE asg[t]]
    BY <1>2 DEF RunEpoch
  <2>2. DOMAIN w = Biddable(st, asg, team)
    BY <2>1 DEF Awards
  <2>3. ASSUME NEW t \in Biddable(status', assignments', team) PROVE FALSE
    <3>1. t \in Tasks /\ status'[t] = "READY" /\ assignments'[t] = NoAgent
          /\ Eligible[t] \cap team # {}
      BY <2>3 DEF Biddable, Frontier
    <3>2. t \notin DOMAIN w
      BY <2>1, <3>1
    <3> QED
      BY <2>1, <2>2, <3>1, <3>2 DEF Biddable, Frontier
  <2> QED
    BY <2>3
<1> QED
  BY <1>1, <1>2

\* The steps of a call leave nothing to bid for.
LEMMA QuietCall ==
  ASSUME Quiet, BeginRun \/ BeginAdvance \/ CallStep
  PROVE  Quiet'
<1>1. CASE BeginRun \/ BeginAdvance
  <2>1. /\ started' = TRUE /\ epochPending' = FALSE /\ active' = active
        /\ \/ RunEpoch(Recomputed(status), owner, assignments, bundle, path, current, active)
           \/ RunEpoch(status, owner, assignments, bundle, path, current, active)
           \/ started /\ ~epochPending /\ UNCHANGED allocVars
    BY <1>1 DEF BeginRun, BeginAdvance, PrepareEpoch
  <2>2. Biddable(status', assignments', active) = {}
    BY <2>1, AuctionAwardsAll DEF Quiet, allocVars
  <2> QED
    BY <2>1, <2>2 DEF Quiet
<1>2. CASE Finished
  BY <1>2 DEF Finished, Return, allocVars, epochVars, Quiet
<1>3. CASE Dispatch
  <2>1. /\ started /\ ~epochPending /\ Biddable(status, assignments, active) = {}
        /\ UNCHANGED <<started, epochPending, assignments, active>>
    BY <1>3 DEF Dispatch, Quiet, epochVars
  <2>2. \A t \in Tasks : status'[t] = "READY" => status[t] = "READY"
    BY <1>3 DEF Dispatch
  <2>3. Biddable(status', assignments', active') = {}
    BY <2>1, <2>2 DEF Biddable, Frontier
  <2> QED
    BY <2>1, <2>3 DEF Quiet
<1>4. CASE CompleteDue
  <2> DEFINE ends == {current[a] : a \in Due}
             st == [t \in Tasks |-> IF t \in ends THEN "COMPLETED" ELSE status[t]]
             own == [t \in Tasks |-> IF t \in ends THEN NoAgent ELSE owner[t]]
             bun == [a \in Agents |->
                       IF a \in Due THEN Without(bundle[a], {current[a]}) ELSE bundle[a]]
             pth == [a \in Agents |->
                       IF a \in Due THEN Without(path[a], {current[a]}) ELSE path[a]]
             cur == [a \in Agents |-> IF a \in Due THEN NoTask ELSE current[a]]
  <2>1. /\ UNCHANGED <<active, started>> /\ inCall
        /\ \/ /\ RunEpoch(Recomputed(st), own, assignments, bun, pth, cur, active)
              /\ epochPending' = FALSE /\ inCall' = inCall
           \/ epochPending' = TRUE /\ inCall' = FALSE
    BY <1>4 DEF CompleteDue, Return
  <2> HIDE DEF st, own, bun, pth, cur
  <2> QED
    BY <2>1, AuctionAwardsAll DEF Quiet
<1>5. CASE LastFrontier
  <2>1. /\ RunEpoch(Recomputed(status), owner, assignments, bundle, path, current, active)
        /\ active' = active /\ inCall
        /\ \/ started' = TRUE /\ epochPending' = FALSE /\ inCall' = inCall
           \/ UNCHANGED epochVars /\ inCall' = FALSE
    BY <1>5 DEF LastFrontier, Return
  <2>2. Biddable(status', assignments', active') = {}
    BY <2>1, AuctionAwardsAll
  <2> QED
    BY <2>1, <2>2 DEF Quiet, epochVars
<1> QED
  BY <1>1, <1>2, <1>3, <1>4, <1>5 DEF CallStep

\* So does a change of the team or a patch, which ends with an auction.
LEMMA QuietRelease ==
  ASSUME NEW st, NEW released, NEW team, ReleaseAndAuction(st, released, team), active' = team
  PROVE  Quiet'
BY AuctionAwardsAll DEF ReleaseAndAuction, Quiet

-----------------------------------------------------------------------------
(* What was done stays done.                                               *)

\* The clock does not go back, a completed task stays so at its time, and a
\* RUNNING one is departed for once and completes at the time booked for it.
KeepsWork ==
  /\ now <= now'
  /\ \A t \in Tasks :
       /\ status[t] \in {"RUNNING", "COMPLETED"} => departure'[t] = departure[t]
       /\ status[t] = "COMPLETED" =>
            status'[t] = "COMPLETED" /\ completion'[t] = completion[t]
       /\ status[t] = "RUNNING" =>
            \/ /\ status'[t] = "RUNNING" /\ owner'[t] = owner[t]
               /\ finishAt'[owner[t]] = finishAt[owner[t]]
            \/ status'[t] = "COMPLETED" /\ completion'[t] = finishAt[owner[t]]

\* A step that moves unstarted tasks only, or none, and no clock keeps the work.
LEMMA ClocksKeepWork ==
  ASSUME IInv, UNCHANGED clockVars,
         \A t \in Tasks : status[t] \in {"RUNNING", "COMPLETED"} =>
           status'[t] = status[t] /\ owner'[t] = owner[t]
  PROVE  KeepsWork
<1>1. now \in Nat
  BY DEF IInv, ClockOK
<1> QED
  BY <1>1 DEF KeepsWork, clockVars

\* So does a dispatch.
LEMMA DispatchKeepsWork ==
  ASSUME IInv, Dispatch
  PROVE  KeepsWork
<1> DEFINE heads == {Head(path[a]) : a \in Dispatchable}
<1>1. /\ now \in Nat /\ UNCHANGED <<now, completion, owner>>
      /\ departure' = [t \in Tasks |-> IF t \in heads THEN now ELSE departure[t]]
      /\ \A a \in Agents : a \in Dispatchable \/ finishAt'[a] = finishAt[a]
  BY DEF Dispatch, IInv, ClockOK
<1>2. \A t \in Tasks : \/ t \in heads /\ status[t] = "ASSIGNED"
                       \/ t \notin heads /\ status'[t] = status[t]
  BY DispatchMoves
<1> HIDE DEF heads
<1>3. ASSUME NEW t \in Tasks, status[t] = "RUNNING"
      PROVE  t \notin heads /\ finishAt'[owner[t]] = finishAt[owner[t]]
  <2>1. owner[t] \in Agents
    BY <1>3 DEF IInv, AllocOK, Committed
  <2>2. current[owner[t]] = t /\ t # NoTask
    BY <1>3, <2>1, ExecutorAssumption DEF IInv, BusyOK
  <2>3. owner[t] \notin Dispatchable
    BY <2>2 DEF Dispatchable
  <2> QED
    BY <1>1, <1>2, <1>3, <2>1, <2>3
<1> QED
  BY <1>1, <1>2, <1>3 DEF KeepsWork

\* So does a completion event.
LEMMA CompleteDueKeepsWork ==
  ASSUME IInv, CompleteDue
  PROVE  KeepsWork
<1> DEFINE ends == {current[a] : a \in Due}
<1>1. /\ completion' = [t \in Tasks |-> IF t \in ends THEN now' ELSE completion[t]]
      /\ departure' = departure
  BY DEF CompleteDue
<1>2. /\ \A a \in Due : now' = finishAt[a] /\ a \in Working
      /\ \E a \in Due : TRUE
      /\ finishAt' = finishAt
  BY CompleteDueMoves
<1>3. now <= now'
  BY <1>2 DEF IInv, ClockOK, Working
<1>4. \A t \in ends : status[t] = "RUNNING" /\ status'[t] = "COMPLETED" /\ owner[t] \in Due
  BY CompleteDueMoves
<1>5. \A t \in Tasks \ ends :
        \/ status[t] \in Unstarted
        \/ status'[t] = status[t] /\ owner'[t] = owner[t]
  BY CompleteDueMoves
<1> HIDE DEF ends
<1> QED
  BY <1>1, <1>2, <1>3, <1>4, <1>5 DEF KeepsWork, Unstarted, Recomputable

\* So do all the steps of a call.
LEMMA CallKeepsWork ==
  ASSUME IInv, BeginRun \/ BeginAdvance \/ CallStep
  PROVE  KeepsWork
<1>1. ASSUME Rearranged(status, owner), UNCHANGED clockVars PROVE KeepsWork
  BY <1>1, ClocksKeepWork DEF Rearranged, Unstarted, Recomputable
<1>2. CASE BeginRun \/ BeginAdvance
  BY <1>1, <1>2, PrepareEpochMoves DEF BeginRun, BeginAdvance
<1>3. CASE Finished
  BY <1>3, ClocksKeepWork DEF Finished, allocVars
<1>4. CASE LastFrontier
  BY <1>1, <1>4, AuctionMoves DEF LastFrontier
<1> QED
  BY <1>2, <1>3, <1>4, DispatchKeepsWork, CompleteDueKeepsWork DEF CallStep

\* So does a change of the team.
LEMMA TeamKeepsWork ==
  ASSUME IInv, NEW desired, NEW forced, TeamReplaced(desired, forced)
  PROVE  KeepsWork
<1>1. Rearranged(status, owner) /\ UNCHANGED clockVars
  BY TeamReplacedMoves
<1> QED
  BY <1>1, ClocksKeepWork DEF Rearranged, Unstarted, Recomputable

\* So does a patch.
LEMMA PatchKeepsWork ==
  ASSUME IInv, NEW policy \in ReleasePolicies, NEW new \in SUBSET Tasks,
         ApplyOnlinePatch(policy, new)
  PROVE  KeepsWork
<1>1. /\ \A t \in new : status[t] = "ABSENT"
      /\ \A t \in Tasks \ new :
           \/ status[t] \in Unstarted
           \/ status'[t] = status[t] /\ owner'[t] = owner[t]
      /\ UNCHANGED clockVars
  BY ApplyOnlinePatchMoves
<1> QED
  BY <1>1, ClocksKeepWork DEF Unstarted, Recomputable

-----------------------------------------------------------------------------
(* A call works with the team and the graph it was given.                  *)

\* Within a call the team and the graph stay, no task becomes unassigned, and
\* what waited for an auction leaves the frontier by an award only.
KeepsTeam ==
  /\ active' = active
  /\ \A t \in Tasks :
       /\ status'[t] = "ABSENT" <=> status[t] = "ABSENT"
       /\ status'[t] \in Recomputable => status[t] \in Recomputable
       /\ status[t] \in Recomputable => status'[t] \in Unstarted

\* This is so of every step of a call.
LEMMA CallKeepsTeam ==
  ASSUME IInv, BeginRun \/ BeginAdvance \/ CallStep
  PROVE  KeepsTeam
<1>1. ASSUME Rearranged(status, owner), active' = active,
             \A t \in Tasks : status[t] = "ASSIGNED" => status'[t] = "ASSIGNED"
      PROVE  KeepsTeam
  BY <1>1 DEF Rearranged, Unstarted, Recomputable, KeepsTeam
<1>2. CASE BeginRun \/ BeginAdvance
  <2>1. CASE UNCHANGED allocVars
    BY <1>2, <2>1 DEF BeginRun, BeginAdvance, PrepareEpoch, allocVars, KeepsTeam, Unstarted
  <2>2. CASE \/ RunEpoch(Recomputed(status), owner, assignments, bundle, path, current, active)
             \/ RunEpoch(status, owner, assignments, bundle, path, current, active)
    BY <1>1, <1>2, <2>2, AuctionMoves DEF BeginRun, BeginAdvance, PrepareEpoch
  <2> QED
    BY <1>2, <2>1, <2>2 DEF BeginRun, BeginAdvance, PrepareEpoch
<1>3. CASE Finished
  BY <1>3 DEF Finished, allocVars, KeepsTeam, Unstarted
<1>4. CASE Dispatch
  <2>1. \A t \in Tasks : \/ status[t] = "ASSIGNED" /\ status'[t] = "RUNNING"
                         \/ status'[t] = status[t]
    BY <1>4, DispatchMoves
  <2> QED
    BY <1>4, <2>1 DEF Dispatch, KeepsTeam, Unstarted, Recomputable
<1>5. CASE CompleteDue
  <2>1. \A t \in Tasks : \/ status[t] = "RUNNING" /\ status'[t] = "COMPLETED"
                         \/ /\ \/ status[t] \in Unstarted /\ status'[t] \in Unstarted
                               \/ status[t] \notin Unstarted /\ status'[t] = status[t]
                            /\ status[t] = "ASSIGNED" => status'[t] = "ASSIGNED"
    BY <1>5, CompleteDueMoves
  <2> QED
    BY <1>5, <2>1 DEF CompleteDue, KeepsTeam, Unstarted, Recomputable
<1>6. CASE LastFrontier
  BY <1>1, <1>6, AuctionMoves DEF LastFrontier
<1> QED
  BY <1>2, <1>3, <1>4, <1>5, <1>6 DEF CallStep

-----------------------------------------------------------------------------
(* Selective release.                                                      *)

\* With nested eligibility a bundle is never part affected and part not: the
\* selective policy releases exactly the affected commitments, which is what
\* allocation/online.py could not construct a counterexample to.
THEOREM SuffixNeverAdds ==
  ASSUME NestedEligibility
  PROVE  Spec => []SuffixAddsNothing
<1>1. ASSUME IInv PROVE SuffixAddsNothing
  <2>1. ASSUME NEW new \in SUBSET (Tasks \ InGraph)
        PROVE  BehindIn(DirectlyAffected(new)) = DirectlyAffected(new)
    <3> DEFINE D == DirectlyAffected(new)
               ready == {n \in new : Patched(new)[n] = "READY"}
    <3>1. D = {t \in Assigned : \E n \in ready : Eligible[t] \cap active \cap Eligible[n] # {}}
      BY DEF DirectlyAffected, NewBidders
    <3>2. ready \subseteq Tasks
      OBVIOUS
    <3> HIDE DEF ready, D
    <3>3. D \subseteq BehindIn(D)
      BY <1>1, <3>1, AffectedIsBehind DEF IInv
    <3>4. ASSUME NEW u \in BehindIn(D) PROVE u \in D
      <4>1. u \in Assigned /\ u \in Tasks
        BY DEF BehindIn, Assigned
      <4>2. PICK a \in Agents : u \in Suffix(bundle[a], D)
        BY DEF BehindIn
      <4>3. PICK i, k \in DOMAIN bundle[a] : bundle[a][i] \in D /\ bundle[a][k] = u
        BY <4>2 DEF Suffix
      <4>4. ToSet(bundle[a]) = Owned(owner, a)
        BY <1>1 DEF IInv, AllocOK
      <4> DEFINE t == bundle[a][i]
      <4>5. t \in D /\ t \in Tasks /\ owner[t] = a /\ owner[u] = a
        BY <4>3, <4>4 DEF ToSet, Owned
      <4>6. t \in Assigned
        BY <3>1, <4>5
      <4> HIDE DEF t
      <4>7. a \in Eligible[t] /\ a \in Eligible[u] /\ a \in active
        BY <1>1, <4>1, <4>5, <4>6, ExecutorAssumption
        DEF IInv, AllocOK, CommittedToActive, Assigned, Committed
      <4>8. PICK n \in ready : Eligible[t] \cap active \cap Eligible[n] # {}
        BY <3>1, <4>5
      <4>9. Eligible[u] \subseteq Eligible[n] \/ Eligible[n] \subseteq Eligible[u]
        BY <3>2, <4>1, <4>5, <4>7, <4>8 DEF NestedEligibility
      <4>10. Eligible[u] \cap active \cap Eligible[n] # {}
        BY <4>7, <4>8, <4>9
      <4> QED
        BY <3>1, <4>1, <4>10
    <3> QED
      BY <3>3, <3>4 DEF D
  <2> QED
    BY <2>1 DEF SuffixAddsNothing
<1>2. IInv => SuffixAddsNothing
  BY <1>1
<1> QED
  BY <1>2, InductiveInvariant, PTL

\* What a release leaves to its agent stays with it through the auction.
LEMMA ReleaseLeaves ==
  ASSUME NEW st, NEW released, NEW team, ReleaseAndAuction(st, released, team),
         NEW t \in Tasks \ released, st[t] = "ASSIGNED"
  PROVE  owner'[t] = owner[t]
<1> DEFINE st1 == [u \in Tasks |-> IF u \in released THEN "PENDING" ELSE st[u]]
           own == [u \in Tasks |-> IF u \in released THEN NoAgent ELSE owner[u]]
           asg == [u \in Tasks |-> IF u \in released THEN NoAgent ELSE assignments[u]]
           bun == [a \in Agents |-> Without(bundle[a], released)]
           pth == [a \in Agents |-> Without(path[a], released)]
<1>1. RunEpoch(Recomputed(st1), own, asg, bun, pth, current, team)
  BY DEF ReleaseAndAuction
<1>2. st1[t] = "ASSIGNED" /\ own[t] = owner[t]
  OBVIOUS
<1> HIDE DEF st1, own, asg, bun, pth
<1> QED
  BY <1>1, <1>2, AuctionMoves

\* A task that a patch makes ready had its predecessors completed before it.
LEMMA PatchedReady ==
  ASSUME NEW new \in SUBSET Tasks, NEW n \in new, Patched(new)[n] = "READY"
  PROVE  PredsDone(status, n)
<1> DEFINE st == [t \in Tasks |-> IF t \in new THEN "PENDING" ELSE status[t]]
<1>1. Patched(new) = [t \in Tasks |-> IF st[t] \in Recomputable
                                       THEN IF PredsDone(st, t) THEN "READY" ELSE "PENDING"
                                       ELSE st[t]]
  BY DEF Patched, Recomputed
<1>2. st[n] = "PENDING" /\ st[n] \in Recomputable
  BY DEF Recomputable
<1>3. Patched(new)[n] = IF PredsDone(st, n) THEN "READY" ELSE "PENDING"
  <2> HIDE DEF st
  <2> QED
    BY <1>1, <1>2, Zenon
<1>4. PredsDone(st, n)
  BY <1>3
<1> QED
  BY <1>4, GraphAssumption DEF PredsDone

\* A selective patch takes nothing from an agent whose commitments have no
\* rival among the tasks the patch makes ready.
THEOREM SelectiveAlwaysKeeps == Spec => SelectiveKeeps
<1> DEFINE Kept ==
             \A new \in SUBSET Tasks : ApplyOnlinePatch("SELECTIVE", new) =>
               \A t \in Assigned :
                 (\A u \in Assigned : owner[u] = owner[t] => Rivals(u, new) = {})
                   => owner'[t] = owner[t]
<1>1. ASSUME IInv PROVE Kept
  <2> SUFFICES ASSUME NEW new \in SUBSET Tasks, ApplyOnlinePatch("SELECTIVE", new),
                      NEW t \in Assigned,
                      \A u \in Assigned : owner[u] = owner[t] => Rivals(u, new) = {}
               PROVE  owner'[t] = owner[t]
    OBVIOUS
  <2> DEFINE D == DirectlyAffected(new)
             released == ReleaseSet("SELECTIVE", D)
  <2>1. ReleaseAndAuction(Patched(new), released, active) /\ new \cap InGraph = {}
    BY DEF ApplyOnlinePatch
  <2>2. released = BehindIn(D)
    BY DEF ReleaseSet
  <2>3. t \in Tasks /\ Patched(new)[t] = "ASSIGNED"
    BY <1>1, <2>1, PatchedOK DEF IInv, Assigned
  <2>4. ASSUME t \in released PROVE FALSE
    <3>1. PICK a \in Agents : t \in Suffix(bundle[a], D)
      BY <2>2, <2>4 DEF BehindIn
    <3>2. PICK i, k \in DOMAIN bundle[a] : bundle[a][i] \in D /\ bundle[a][k] = t
      BY <3>1 DEF Suffix
    <3>3. ToSet(bundle[a]) = Owned(owner, a)
      BY <1>1 DEF IInv, AllocOK
    <3> DEFINE u == bundle[a][i]
    <3>4. u \in D /\ owner[u] = owner[t]
      BY <3>2, <3>3 DEF ToSet, Owned
    <3> HIDE DEF u
    <3>5. u \in Assigned /\ Eligible[u] \cap active \cap NewBidders(new) # {}
      BY <3>4 DEF DirectlyAffected
    <3>6. PICK n \in new : /\ Patched(new)[n] = "READY"
                           /\ Eligible[u] \cap active \cap Eligible[n] # {}
      BY <3>5 DEF NewBidders
    <3>7. n \in Rivals(u, new)
      BY <3>6, PatchedReady DEF Rivals
    <3> QED
      BY <3>4, <3>5, <3>7
  <2> HIDE DEF released
  <2> QED
    BY <2>1, <2>3, <2>4, ReleaseLeaves
<1>2. IInv => [Kept]_vars
  BY <1>1
<1> QED
  BY <1>2, InductiveInvariant, PTL DEF SelectiveKeeps

=============================================================================
