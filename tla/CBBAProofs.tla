----------------------------- MODULE CBBAProofs -----------------------------
(***************************************************************************)
(* An epoch keeps its types, never contests a held commitment and ends in  *)
(* agreement, with every task awarded that somebody can do, for any number *)
(* of agents, any gains and any tie tolerance.  Where gains diminish, its  *)
(* awards are those of a single greedy auctioneer, if no agent can do more *)
(* than two tasks of the frontier, or else if its gains depend on how many *)
(* tasks it has won and not on which.                                      *)
(***************************************************************************)
EXTENDS CBBA, TaskListsProofs, SequenceTheorems

\* The held tasks stand before the frontier tasks in every bundle.
HeldFirst ==
  \A a \in Bidders : \A m, n \in DOMAIN bundle[a] :
    m <= n /\ bundle[a][n] \in Held => bundle[a][m] \in Held

\* What the senders claim during the consensus is what they believed before it.
SnapLocked ==
  phase = "hear" =>
    \A k \in Bidders : \A j \in Held :
      /\ snap.z[k][j] = scenario.held[j].winner
      /\ snap.y[k][j] = scenario.held[j].bid

\* Beside what it holds an agent carries only tasks it can do, each one once.
BundlesOK ==
  \A a \in Bidders :
    /\ IsInjective(bundle[a])
    /\ \A n \in DOMAIN bundle[a] : bundle[a][n] \in Held \cup Doable(a)

\* The inductive invariant.
EpochInv ==
  /\ TypeOK
  /\ HeldLocked
  /\ HeldFirst
  /\ BundlesOK
  /\ SnapLocked
  /\ phase \in {"build", "hear"} => unchanged < QuietRounds

-----------------------------------------------------------------------------
(* Agreement.  No progress towards agreement is needed for it: a round that *)
(* changes nothing leaves no room for a disagreement.                       *)

\* An agent that can do a task always gains more from it than the tolerance.
GainsWorthABid ==
  \A a \in Bidders : \A j \in FrontierTasks : \A g \in GainsOf(a, j) :
    g > Epsilon <=> Able(a, j)

\* Agents that gain enough from a task to bid for it, with some bundle.
Wanting(j) == {a \in Bidders : \E g \in GainsOf(a, j) : g > Epsilon}

\* How many rounds ago an agent was heard from: in every round everybody hears
\* everybody, so no news come through a third.
StampsOK ==
  /\ phase \in {"build", "hear"} =>
       \A i, m \in Bidders : i # m => s[i][m] >= rnd - 1
  /\ phase = "build" => \A i, m \in Bidders : s[i][m] <= rnd - 1
  /\ phase = "hear" =>
       /\ \A i, m \in Bidders : snap.s[i][m] <= rnd - 1 /\ s[i][m] <= rnd
       /\ \A i \in Bidders : \A m \in heard \ {i} : s[i][m] = rnd

\* What agents believe of a frontier task: somebody wins it who wants it, or
\* nobody and for nothing; who believes to win it has it in its bundle.
ClaimsOK(Y, Z) ==
  \A a \in Bidders : \A j \in FrontierTasks :
    /\ Z[a][j] \in Wanting(j) \cup {NoAgent}
    /\ Z[a][j] = NoAgent => Y[a][j] = 0
    /\ Z[a][j] = a => j \in ToSet(bundle[a])

\* The tasks a has bid for in this round.
Fresh(a) == {bundle[a][n] : n \in Len(before.b[a]) + 1 .. Len(bundle[a])}

\* The bids of this round stand behind the bundle the round started with, and
\* only beliefs about them have changed, for the better.
BidsOK(Y, Z) ==
  \A a \in Bidders :
    /\ before.b[a] \in Seq(Tasks) /\ Len(before.b[a]) <= Len(bundle[a])
    /\ \A n \in 1 .. Len(before.b[a]) : bundle[a][n] = before.b[a][n]
    /\ \A j \in Tasks :
         IF j \in Fresh(a) THEN Z[a][j] = a /\ BidGt(Y[a][j], before.y[a][j])
         ELSE Z[a][j] = before.z[a][j] /\ Y[a][j] = before.y[a][j]

\* k claimed task j for itself when the consensus started.
Claims(k, j) == snap.z[k][j] = k

\* What i makes of the claims to task j it has heard: it believes one of them,
\* keeps its own only if none beats it, and ends up with a lower bid than its
\* own only if two agents with smaller ids claimed the task.
HeardOK(i, j) ==
  /\ \A k \in heard \ {i} : z[i][j] = k => Claims(k, j) /\ y[i][j] = snap.y[k][j]
  /\ snap.z[i][j] \in {i, NoAgent} =>
       \/ z[i][j] \in heard \ {i}
       \/ z[i][j] = snap.z[i][j] /\ y[i][j] = snap.y[i][j]
  /\ Claims(i, j) /\ z[i][j] = i =>
       \A k \in heard \ {i} : Claims(k, j) => ~ Beats(snap.y[k][j], k, snap.y[i][j], i)
  /\ snap.z[i][j] = NoAgent /\ z[i][j] = NoAgent => \A k \in heard \ {i} : ~ Claims(k, j)
  /\ Claims(i, j) /\ BidGt(snap.y[i][j], y[i][j]) =>
       \E k, l \in heard : k # l /\ k < i /\ l < i /\ Claims(k, j) /\ Claims(l, j)

\* The consensus: it follows a complete round of bids and hears the senders in
\* the order of their ids.
HearingOK ==
  /\ ClaimsOK(snap.y, snap.z)
  /\ BidsOK(snap.y, snap.z)
  /\ \A a \in Bidders : \A j \in FrontierTasks \ ToSet(bundle[a]) :
       ~ BidGt(Offer(a, j), snap.y[a][j])
  /\ \A m \in heard : \A n \in Bidders \ heard : m < n
  /\ \A i \in Bidders : \A j \in FrontierTasks : HeardOK(i, j)

\* The inductive invariant of agreement.
AgreeInv ==
  /\ EpochInv
  /\ StampsOK
  /\ phase \in {"build", "hear"} => ClaimsOK(y, z)
  /\ phase = "build" => BidsOK(y, z)
  /\ phase = "hear" => HearingOK
  /\ ConflictFree
  /\ GainsWorthABid => AwardsComplete

-----------------------------------------------------------------------------

\* What a scenario is.
LEMMA ScenarioOf ==
  ASSUME scenario \in Scenarios
  PROVE  /\ Held \subseteq Tasks
         /\ FrontierTasks = Tasks \ Held /\ IsFiniteSet(FrontierTasks)
         /\ \A a \in Bidders : \A j \in FrontierTasks :
              /\ scenario.gain[a][j] \in [Lists(FrontierTasks \ {j}) -> Int]
              /\ ~ Able(a, j) => \A g \in GainsOf(a, j) : g = Ineligible
         /\ \A j \in Held : /\ scenario.held[j].winner \in Nat \ {NoAgent}
                            /\ scenario.held[j].bid \in Nat
<1>1. IsScenario(scenario)
  BY CBBAAssumption
<1>2. FrontierTasks \in SUBSET Tasks
  BY DEF FrontierTasks
<1>3. IsFiniteSet(FrontierTasks)
  BY <1>2, CBBAAssumption, FS_Subset
<1>4. ASSUME NEW a \in Bidders, NEW j \in FrontierTasks
      PROVE  /\ scenario.gain[a][j] \in [Lists(FrontierTasks \ {j}) -> Int]
             /\ scenario.gain[a][j][<<>>] = Ineligible =>
                  \A l \in Lists(FrontierTasks \ {j}) : scenario.gain[a][j][l] = Ineligible
  BY <1>1 DEF IsScenario, Held, FrontierTasks
<1> QED
  BY <1>1, <1>3, <1>4 DEF IsScenario, Held, FrontierTasks, Able, GainsOf

\* What an agent has won is a list of tasks it can do, the held ones left out.
LEMMA WonTasks ==
  ASSUME TypeOK, BundlesOK, NEW a \in Bidders
  PROVE  /\ Won(a) \in Seq(Tasks) /\ IsInjective(Won(a))
         /\ ToSet(Won(a)) = ToSet(bundle[a]) \ Held
         /\ ToSet(Won(a)) \subseteq Doable(a)
<1>1. bundle[a] \in Seq(Tasks) /\ IsInjective(bundle[a])
  BY DEF TypeOK, BundlesOK
<1>2. /\ Won(a) \in Seq(Tasks) /\ IsInjective(Won(a))
      /\ ToSet(Won(a)) = ToSet(bundle[a]) \ Held
  BY <1>1, WithoutOf DEF Won
<1>3. ToSet(bundle[a]) \subseteq Held \cup Doable(a)
  BY DEF BundlesOK, ToSet
<1> QED
  BY <1>2, <1>3

\* What an agent offers for a task it does not carry is one of its gains.
LEMMA OfferOf ==
  ASSUME TypeOK, BundlesOK, NEW a \in Bidders, NEW j \in FrontierTasks, j \notin ToSet(bundle[a])
  PROVE  /\ Won(a) \in Lists(Doable(a) \ {j}) /\ Won(a) \in Lists(FrontierTasks \ {j})
         /\ Offer(a, j) \in GainsOf(a, j) /\ Offer(a, j) \in Int
<1>1. scenario \in Scenarios
  BY DEF TypeOK
<1>2. /\ Won(a) \in Seq(Tasks) /\ IsInjective(Won(a))
      /\ ToSet(Won(a)) \subseteq Doable(a) \ {j}
  BY WonTasks
<1>3. Doable(a) \ {j} \subseteq FrontierTasks \ {j}
  BY DEF Doable
<1>4. Won(a) \in Lists(Doable(a) \ {j}) /\ Won(a) \in Lists(FrontierTasks \ {j})
  <2>1. ToSet(Won(a)) \subseteq FrontierTasks \ {j}
    BY <1>2, <1>3
  <2> QED
    BY <1>2, <2>1, IsList
<1>5. Offer(a, j) \in GainsOf(a, j)
  BY <1>4 DEF Offer, GainsOf
<1>6. Offer(a, j) \in Int
  <2>1. scenario.gain[a][j] \in [Lists(FrontierTasks \ {j}) -> Int]
    BY <1>1, ScenarioOf
  <2> QED
    BY <1>4, <2>1 DEF Offer
<1> QED
  BY <1>4, <1>5, <1>6

\* A bid is a natural number, on a frontier task that the agent can do and does
\* not carry.
LEMMA CandidateOf ==
  ASSUME TypeOK, BundlesOK, NEW a \in Bidders, NEW j \in Candidates(a)
  PROVE  /\ j \in Tasks /\ j \notin Held /\ j \notin ToSet(bundle[a]) /\ j \in Doable(a)
         /\ Offer(a, j) \in Nat /\ Offer(a, j) > Epsilon /\ a \in Wanting(j)
<1>1. j \in FrontierTasks /\ j \notin ToSet(bundle[a]) /\ BidGt(Offer(a, j), y[a][j])
  BY DEF Candidates
<1>2. j \in Tasks /\ j \notin Held /\ y[a][j] \in Nat /\ scenario \in Scenarios
  BY <1>1 DEF FrontierTasks, TypeOK, Views
<1>3. Offer(a, j) \in GainsOf(a, j) /\ Offer(a, j) \in Int
  BY <1>1, OfferOf
<1>4. Offer(a, j) \in Nat /\ Offer(a, j) > Epsilon
  BY <1>1, <1>2, <1>3, CBBAAssumption DEF BidGt
<1>5. Able(a, j)
  <2>1. Offer(a, j) # Ineligible
    BY <1>4 DEF Ineligible
  <2> QED
    BY <1>1, <1>2, <1>3, <2>1, ScenarioOf
<1> QED
  BY <1>1, <1>2, <1>3, <1>4, <1>5 DEF Wanting, Doable

\* A bundle with another such task behind it is one.
LEMMA BundleGrows ==
  ASSUME TypeOK, BundlesOK, NEW a \in Bidders, NEW p \in Doable(a) \ ToSet(bundle[a]),
         NEW b, b = Append(bundle[a], p)
  PROVE  IsInjective(b) /\ \A n \in DOMAIN b : b[n] \in Held \cup Doable(a)
<1>1. bundle[a] \in Seq(Tasks) /\ IsInjective(bundle[a])
  BY DEF TypeOK, BundlesOK
<1>2. p \in Tasks
  BY DEF Doable, FrontierTasks
<1>3. \A n \in DOMAIN bundle[a] : bundle[a][n] # p /\ bundle[a][n] \in Held \cup Doable(a)
  BY DEF ToSet, BundlesOK
<1>4. DOMAIN bundle[a] = 1 .. Len(bundle[a]) /\ Len(bundle[a]) \in Nat
  BY <1>1
<1>5. /\ DOMAIN b = 1 .. Len(bundle[a]) + 1
      /\ b[Len(bundle[a]) + 1] = p
      /\ \A n \in DOMAIN bundle[a] : b[n] = bundle[a][n]
  BY <1>1, <1>2
<1>6. \A n \in DOMAIN b : n \in DOMAIN bundle[a] \/ n = Len(bundle[a]) + 1
  BY <1>4, <1>5
<1>7. \A n \in DOMAIN b : b[n] \in Held \cup Doable(a)
  BY <1>3, <1>5, <1>6
<1>8. ASSUME NEW m \in DOMAIN b, NEW n \in DOMAIN b, b[m] = b[n]
      PROVE  m = n
  <2>1. CASE m \in DOMAIN bundle[a] /\ n \in DOMAIN bundle[a]
    BY <1>1, <1>5, <1>8, <2>1 DEF IsInjective
  <2>2. CASE m \notin DOMAIN bundle[a] \/ n \notin DOMAIN bundle[a]
    BY <1>3, <1>5, <1>6, <1>8, <2>2
  <2> QED
    BY <2>1, <2>2
<1> QED
  BY <1>7, <1>8 DEF IsInjective

\* Where an agent lost a task, the release starts at the first such one.
LEMMA FirstLostOf ==
  ASSUME NEW a \in Bidders, bundle[a] \in Seq(Tasks), Lost(a) # {}
  PROVE  FirstLost(a) \in Lost(a) /\ \A m \in Lost(a) : FirstLost(a) <= m
<1>1. Lost(a) \subseteq Nat
  <2>1. DOMAIN bundle[a] \subseteq Nat
    OBVIOUS
  <2> QED
    BY <2>1 DEF Lost
<1>2. \E n \in Lost(a) : \A m \in Lost(a) : n <= m
  BY <1>1, LeastOf
<1> QED
  BY <1>2 DEF FirstLost

-----------------------------------------------------------------------------
(* The steps.                                                              *)

\* An epoch starts with every agent believing the held commitments.
LEMMA EpochInit ==
  ASSUME Init
  PROVE  EpochInv
<1>1. scenario \in Scenarios /\ Held \subseteq Tasks
  BY ScenarioOf DEF Init
<1>2. ASSUME NEW a \in Bidders
      PROVE  /\ bundle[a] \in Seq(Tasks) /\ IsInjective(bundle[a])
             /\ \A n \in DOMAIN bundle[a] : bundle[a][n] \in Held
  <2>1. bundle[a] \in Lists(Held)
    BY DEF Init
  <2>2. Held \in SUBSET Tasks
    BY <1>1
  <2>3. IsFiniteSet(Held)
    BY <2>2, CBBAAssumption, FS_Subset
  <2>4. bundle[a] \in Seq(Held) /\ IsInjective(bundle[a])
    BY <2>1, <2>3, ListOf
  <2> QED
    BY <2>2, <2>4
<1>3. bundle \in [Bidders -> Seq(Tasks)]
  BY <1>2 DEF Init
<1>4. TypeOK
  <2>1. \A j \in Held : scenario.held[j].winner \in Nat /\ scenario.held[j].bid \in Nat
    BY <1>1, ScenarioOf
  <2>2. y \in Views /\ z \in Views
    BY <2>1 DEF Init, Views, NoAgent
  <2> QED
    BY <1>1, <1>3, <2>2 DEF Init, TypeOK, QuietRounds
<1>5. HeldLocked
  <2>1. \A j \in Held : \A a \in Bidders :
          z[a][j] = scenario.held[j].winner /\ y[a][j] = scenario.held[j].bid
    BY <1>1 DEF Init
  <2>2. \A a \in Bidders : ToSet(bundle[a]) = {j \in Held : scenario.held[j].winner = a}
    BY DEF Init
  <2> QED
    BY <2>1, <2>2 DEF HeldLocked
<1>6. HeldFirst /\ BundlesOK
  BY <1>2 DEF HeldFirst, BundlesOK
<1> QED
  BY <1>4, <1>5, <1>6 DEF EpochInv, SnapLocked, Init, QuietRounds

\* A bid is never for a held task.
LEMMA EpochBid ==
  ASSUME EpochInv, Bid
  PROVE  EpochInv'
<1> DEFINE bidding == {a \in Bidders : Candidates(a) # {}}
<1>1. PICK best \in Picks([a \in bidding |-> BestCandidates(a)]) :
        /\ bundle' = [a \in Bidders |->
                        IF a \in bidding THEN Append(bundle[a], best[a]) ELSE bundle[a]]
        /\ y' = [a \in Bidders |->
                   IF a \in bidding
                   THEN [y[a] EXCEPT ![best[a]] = Offer(a, best[a])] ELSE y[a]]
        /\ z' = [a \in Bidders |->
                   IF a \in bidding THEN [z[a] EXCEPT ![best[a]] = a] ELSE z[a]]
  BY DEF Bid
<1>2. UNCHANGED <<scenario, s, snap, before, rnd, unchanged, phase, heard>> /\ phase = "build"
  BY DEF Bid
<1>3. TypeOK /\ HeldLocked /\ HeldFirst /\ BundlesOK
  BY DEF EpochInv
<1>4. ASSUME NEW a \in bidding
      PROVE  /\ a \in Bidders /\ best[a] \in Tasks /\ best[a] \notin Held
             /\ best[a] \in Doable(a) \ ToSet(bundle[a])
             /\ Offer(a, best[a]) \in Nat /\ a \in Nat
  <2>1. best[a] \in BestCandidates(a)
    BY <1>1 DEF Picks
  <2>2. best[a] \in Candidates(a)
    BY <2>1 DEF BestCandidates
  <2> QED
    BY <1>3, <2>2, CandidateOf, CBBAAssumption
<1> HIDE DEF bidding
<1>5. Held' = Held
  BY <1>2 DEF Held
<1>6. ASSUME NEW a \in Bidders
      PROVE  /\ bundle'[a] \in Seq(Tasks)
             /\ \A n \in DOMAIN bundle[a] : n \in DOMAIN bundle'[a] /\ bundle'[a][n] = bundle[a][n]
             /\ \A n \in DOMAIN bundle'[a] : n \in DOMAIN bundle[a] \/ bundle'[a][n] \notin Held
             /\ y'[a] \in [Tasks -> Nat] /\ z'[a] \in [Tasks -> Nat]
             /\ \A j \in Held : y'[a][j] = y[a][j] /\ z'[a][j] = z[a][j]
  <2>1. bundle[a] \in Seq(Tasks) /\ y[a] \in [Tasks -> Nat] /\ z[a] \in [Tasks -> Nat]
    BY <1>3 DEF TypeOK, Views
  <2>2. CASE a \in bidding
    <3>1. /\ bundle'[a] = Append(bundle[a], best[a])
          /\ y'[a] = [y[a] EXCEPT ![best[a]] = Offer(a, best[a])]
          /\ z'[a] = [z[a] EXCEPT ![best[a]] = a]
      BY <1>1, <2>2
    <3> QED
      <4>1. best[a] \in Tasks /\ best[a] \notin Held
        BY <1>4, <2>2
      <4>2. bundle'[a] \in Seq(Tasks)
        BY <2>1, <3>1, <4>1, AppendProperties
      <4>3. /\ DOMAIN bundle[a] = 1 .. Len(bundle[a]) /\ Len(bundle[a]) \in Nat
            /\ DOMAIN bundle'[a] = 1 .. Len(bundle[a]) + 1
            /\ \A n \in 1 .. Len(bundle[a]) : bundle'[a][n] = bundle[a][n]
            /\ bundle'[a][Len(bundle[a]) + 1] = best[a]
        BY <2>1, <3>1, <4>1, <4>2, AppendProperties, LenProperties
      <4>4. /\ \A n \in DOMAIN bundle[a] : n \in DOMAIN bundle'[a] /\ bundle'[a][n] = bundle[a][n]
            /\ \A n \in DOMAIN bundle'[a] : n \in DOMAIN bundle[a] \/ bundle'[a][n] \notin Held
        BY <4>1, <4>3
      <4>5. /\ y'[a] \in [Tasks -> Nat] /\ z'[a] \in [Tasks -> Nat]
            /\ \A j \in Held : y'[a][j] = y[a][j] /\ z'[a][j] = z[a][j]
        BY <1>4, <2>1, <2>2, <3>1
      <4> QED
        BY <4>2, <4>4, <4>5
  <2>3. CASE a \notin bidding
    BY <1>1, <2>1, <2>3
  <2> QED
    BY <2>2, <2>3
<1>7. TypeOK'
  <2>1. bundle' \in [Bidders -> Seq(Tasks)]
    BY <1>1, <1>6
  <2>2. y' \in Views /\ z' \in Views
    BY <1>1, <1>6 DEF Views
  <2> QED
    BY <1>2, <1>3, <2>1, <2>2 DEF TypeOK, Views
<1>8. HeldLocked'
  <2>1. ASSUME NEW a \in Bidders, NEW j \in Held
        PROVE  j \in ToSet(bundle'[a]) <=> j \in ToSet(bundle[a])
    BY <1>6 DEF ToSet
  <2> QED
    BY <1>2, <1>3, <1>5, <1>6, <2>1 DEF HeldLocked
<1>9. HeldFirst'
  <2>1. ASSUME NEW a \in Bidders, NEW m \in DOMAIN bundle'[a], NEW n \in DOMAIN bundle'[a],
               m <= n, bundle'[a][n] \in Held
        PROVE  bundle'[a][m] \in Held
    <3>1. n \in DOMAIN bundle[a] /\ bundle[a][n] \in Held
      BY <1>6, <2>1
    <3>2. m \in DOMAIN bundle[a]
      BY <1>3, <1>6, <2>1, <3>1 DEF TypeOK
    <3> QED
      BY <1>3, <1>6, <2>1, <3>1, <3>2 DEF HeldFirst
  <2> QED
    BY <1>5, <2>1 DEF HeldFirst
<1>10. BundlesOK'
  <2>1. ASSUME NEW a \in Bidders
        PROVE  /\ IsInjective(bundle'[a])
               /\ \A n \in DOMAIN bundle'[a] : bundle'[a][n] \in Held \cup Doable(a)
    <3>1. CASE a \in bidding
      <4>1. bundle'[a] = Append(bundle[a], best[a])
        BY <1>1, <3>1
      <4> QED
        BY <1>3, <1>4, <3>1, <4>1, BundleGrows
    <3>2. CASE a \notin bidding
      <4>1. bundle'[a] = bundle[a]
        BY <1>1, <3>2
      <4> QED
        BY <1>3, <4>1 DEF BundlesOK
    <3> QED
      BY <3>1, <3>2
  <2>2. \A a : Doable(a)' = Doable(a)
    BY <1>2, <1>5 DEF Doable, FrontierTasks, Able
  <2> QED
    BY <1>5, <2>1, <2>2 DEF BundlesOK
<1> QED
  BY <1>2, <1>7, <1>8, <1>9, <1>10 DEF EpochInv, SnapLocked, QuietRounds

\* The snapshot is what the agents believe.
LEMMA EpochStart ==
  ASSUME EpochInv, StartConsensus
  PROVE  EpochInv'
<1>1. /\ phase' = "hear" /\ phase = "build"
      /\ snap' = [y |-> y, z |-> z, s |-> s]
      /\ heard' = {}
      /\ UNCHANGED <<scenario, bundle, y, z, s, before, rnd, unchanged>>
  BY DEF StartConsensus
<1>2. snap'.y = y /\ snap'.z = z /\ snap'.s = s /\ Held' = Held
  BY <1>1 DEF Held
<1>3. TypeOK'
  BY <1>1, <1>2 DEF EpochInv, TypeOK, Views
<1>4. HeldLocked' /\ HeldFirst' /\ SnapLocked'
  BY <1>1, <1>2 DEF EpochInv, HeldLocked, HeldFirst, SnapLocked
<1>5. BundlesOK'
  BY <1>1, <1>2 DEF EpochInv, BundlesOK, Doable, FrontierTasks, Able
<1> QED
  BY <1>1, <1>3, <1>4, <1>5 DEF EpochInv, QuietRounds

\* Two agents that agree on a held commitment leave it as it is.
LEMMA EpochHear ==
  ASSUME EpochInv, NEW k \in Bidders, Hear(k)
  PROVE  EpochInv'
<1>1. /\ y' = [i \in Bidders |-> [j \in Tasks |->
                IF i = k THEN y[i][j]
                ELSE IF UpdatesFrom(i, k, j) THEN snap.y[k][j]
                ELSE IF ResetsFrom(i, k, j) THEN 0 ELSE y[i][j]]]
      /\ z' = [i \in Bidders |-> [j \in Tasks |->
                IF i = k THEN z[i][j]
                ELSE IF UpdatesFrom(i, k, j) THEN snap.z[k][j]
                ELSE IF ResetsFrom(i, k, j) THEN NoAgent ELSE z[i][j]]]
      /\ s' = [i \in Bidders |-> [m \in Bidders |->
                IF i = k \/ m = i THEN s[i][m]
                ELSE IF m = k THEN rnd
                ELSE IF snap.s[k][m] > s[i][m] THEN snap.s[k][m] ELSE s[i][m]]]
      /\ heard' = heard \cup {k} /\ phase = "hear"
      /\ UNCHANGED <<scenario, bundle, snap, before, rnd, unchanged, phase>>
  BY DEF Hear
<1>2. TypeOK /\ HeldLocked /\ HeldFirst /\ SnapLocked
  BY DEF EpochInv
<1>3. Held' = Held /\ Held \subseteq Tasks
  BY <1>1, <1>2, ScenarioOf DEF Held, TypeOK
<1>4. /\ snap.y \in Views /\ snap.z \in Views /\ snap.s \in [Bidders -> [Bidders -> Nat]]
      /\ y \in Views /\ z \in Views /\ s \in [Bidders -> [Bidders -> Nat]] /\ rnd \in Nat
  BY <1>1, <1>2 DEF TypeOK
<1>5. y' \in Views /\ z' \in Views
  <2>1. \A i \in Bidders : \A j \in Tasks : y[i][j] \in Nat /\ z[i][j] \in Nat
                                         /\ snap.y[k][j] \in Nat /\ snap.z[k][j] \in Nat
    BY <1>4 DEF Views
  <2>2. \A i \in Bidders : \A j \in Tasks : y'[i][j] \in Nat /\ z'[i][j] \in Nat
    BY <1>1, <2>1 DEF NoAgent
  <2>3. \A i \in Bidders : y'[i] \in [Tasks -> Nat] /\ z'[i] \in [Tasks -> Nat]
    BY <1>1, <2>2
  <2> QED
    BY <1>1, <2>3 DEF Views
<1>6. s' \in [Bidders -> [Bidders -> Nat]]
  BY <1>1, <1>4
<1>7. TypeOK'
  BY <1>1, <1>2, <1>4, <1>5, <1>6 DEF TypeOK, Views
<1>8. ASSUME NEW i \in Bidders, NEW j \in Held
      PROVE  z'[i][j] = scenario.held[j].winner /\ y'[i][j] = scenario.held[j].bid
  <2> DEFINE w == scenario.held[j].winner
  <2>1. /\ z[i][j] = w /\ y[i][j] = scenario.held[j].bid
        /\ snap.z[k][j] = w /\ snap.y[k][j] = scenario.held[j].bid
    BY <1>1, <1>2 DEF HeldLocked, SnapLocked
  <2>2. w # NoAgent
    BY <1>2, ScenarioOf DEF TypeOK
  <2>3. i # k => ~ResetsFrom(i, k, j)
    <3>1. ASSUME i # k, NEW si, NEW sk, NEW b, NEW c PROVE ~Resets(w, b, si, w, c, sk, i, k)
      BY <2>2, <3>1 DEF Resets
    <3> HIDE DEF w
    <3> QED
      BY <2>1, <3>1 DEF ResetsFrom
  <2>4. j \in Tasks
    BY <1>3
  <2>5. /\ z'[i][j] = IF i = k THEN z[i][j]
                      ELSE IF UpdatesFrom(i, k, j) THEN snap.z[k][j]
                      ELSE IF ResetsFrom(i, k, j) THEN NoAgent ELSE z[i][j]
        /\ y'[i][j] = IF i = k THEN y[i][j]
                      ELSE IF UpdatesFrom(i, k, j) THEN snap.y[k][j]
                      ELSE IF ResetsFrom(i, k, j) THEN 0 ELSE y[i][j]
    BY <1>1, <2>4
  <2> QED
    BY <2>1, <2>3, <2>5
<1>9. HeldLocked' /\ HeldFirst' /\ SnapLocked'
  <2>1. HeldLocked'
    BY <1>1, <1>2, <1>3, <1>8 DEF HeldLocked
  <2>2. HeldFirst' /\ SnapLocked'
    BY <1>1, <1>2, <1>3, <1>8 DEF HeldFirst, SnapLocked
  <2> QED
    BY <2>1, <2>2
<1>10. BundlesOK'
  BY <1>1, <1>3 DEF EpochInv, BundlesOK, Doable, FrontierTasks, Able
<1> QED
  BY <1>1, <1>7, <1>9, <1>10 DEF EpochInv

\* The release at the end of a round starts behind the held tasks.
LEMMA EpochRelease ==
  ASSUME EpochInv, NEW a \in Bidders
  PROVE  /\ Kept(a) \in Seq(Tasks)
         /\ \A n \in DOMAIN Kept(a) : n \in DOMAIN bundle[a] /\ Kept(a)[n] = bundle[a][n]
         /\ \A n \in DOMAIN bundle[a] : bundle[a][n] \in Held => n \in DOMAIN Kept(a)
         /\ Voided(a) \cap Held = {}
<1>1. TypeOK /\ HeldLocked /\ HeldFirst /\ bundle[a] \in Seq(Tasks)
  BY DEF EpochInv, TypeOK
<1>2. CASE Lost(a) = {}
  BY <1>1, <1>2 DEF Kept, Voided
<1>3. CASE Lost(a) # {}
  <2> DEFINE f == FirstLost(a)
  <2>1. f \in Lost(a)
    BY <1>1, <1>3, FirstLostOf
  <2>2. f \in DOMAIN bundle[a] /\ z[a][bundle[a][f]] # a
    BY <2>1 DEF Lost
  <2>3. f \in 1 .. Len(bundle[a])
    BY <1>1, <2>2
  <2> HIDE DEF f
  <2>4. bundle[a][f] \notin Held
    <3>1. bundle[a][f] \in ToSet(bundle[a])
      BY <2>2 DEF ToSet
    <3> QED
      BY <1>1, <2>2, <3>1 DEF HeldLocked
  <2>5. \A n \in DOMAIN bundle[a] : bundle[a][n] \in Held => n < f
    <3>1. ASSUME NEW n \in DOMAIN bundle[a], bundle[a][n] \in Held PROVE n < f
      <4>1. n \in Nat /\ f \in Nat
        BY <1>1, <2>3
      <4>2. ~(f <= n)
        BY <1>1, <2>2, <2>4, <3>1 DEF HeldFirst
      <4> QED
        BY <4>1, <4>2
    <3> QED
      BY <3>1
  <2>6. Kept(a) = SubSeq(bundle[a], 1, f - 1)
    BY <1>3 DEF Kept, f
  <2>7. /\ Kept(a) \in Seq(Tasks) /\ DOMAIN Kept(a) = 1 .. f - 1
        /\ \A n \in 1 .. f - 1 : Kept(a)[n] = bundle[a][n]
    BY <1>1, <2>3, <2>6
  <2>8. Voided(a) = {bundle[a][n] : n \in f + 1 .. Len(bundle[a])}
    BY <1>3 DEF Voided, f
  <2>9. Voided(a) \cap Held = {}
    <3>1. ASSUME NEW n \in f + 1 .. Len(bundle[a]) PROVE bundle[a][n] \notin Held
      BY <1>1, <2>3, <2>5, <3>1
    <3> QED
      BY <2>8, <3>1
  <2> QED
    BY <1>1, <2>3, <2>5, <2>7, <2>9
<1> QED
  BY <1>2, <1>3

\* The end of a round keeps the invariant.
LEMMA EpochEnd ==
  ASSUME EpochInv, EndRound
  PROVE  EpochInv'
<1>1. /\ bundle' = [a \in Bidders |-> Kept(a)]
      /\ y' = [a \in Bidders |-> [j \in Tasks |-> IF j \in Voided(a) THEN 0 ELSE y[a][j]]]
      /\ z' = [a \in Bidders |-> [j \in Tasks |-> IF j \in Voided(a) THEN NoAgent ELSE z[a][j]]]
      /\ unchanged' \in {unchanged + 1, 0}
      /\ heard' = {} /\ phase = "hear"
      /\ UNCHANGED <<scenario, s>>
  BY DEF EndRound
<1>2. \/ unchanged' = QuietRounds /\ phase' = "done" /\ rnd' = rnd
      \/ unchanged' # QuietRounds /\ phase' = "failed" /\ rnd' = rnd
      \/ unchanged' # QuietRounds /\ phase' = "build" /\ rnd' = rnd + 1
  BY DEF EndRound
<1>3. TypeOK /\ HeldLocked /\ HeldFirst /\ unchanged < QuietRounds
  BY <1>1 DEF EpochInv
<1>4. Held' = Held /\ Held \subseteq Tasks
  BY <1>1, <1>3, ScenarioOf DEF Held, TypeOK
<1>5. TypeOK'
  <2>1. bundle' \in [Bidders -> Seq(Tasks)]
    BY <1>1, EpochRelease
  <2>2. y' \in Views /\ z' \in Views
    <3>1. \A a \in Bidders : y[a] \in [Tasks -> Nat] /\ z[a] \in [Tasks -> Nat]
      BY <1>3 DEF TypeOK, Views
    <3>2. \A a \in Bidders : y'[a] \in [Tasks -> Nat] /\ z'[a] \in [Tasks -> Nat]
      BY <1>1, <3>1 DEF NoAgent
    <3> QED
      BY <1>1, <3>2 DEF Views
  <2>3. unchanged' \in 0 .. QuietRounds /\ rnd' \in Nat \ {0}
    BY <1>1, <1>2, <1>3 DEF TypeOK, QuietRounds
  <2> QED
    BY <1>1, <1>2, <1>3, <2>1, <2>2, <2>3 DEF TypeOK
<1>6. HeldLocked'
  <2>1. ASSUME NEW j \in Held, NEW a \in Bidders
        PROVE  /\ z'[a][j] = z[a][j] /\ y'[a][j] = y[a][j]
               /\ j \in ToSet(bundle'[a]) <=> j \in ToSet(bundle[a])
    <3>1. j \in Tasks /\ j \notin Voided(a)
      BY <1>4, EpochRelease
    <3>2. bundle'[a] = Kept(a)
      BY <1>1
    <3>3. j \in ToSet(Kept(a)) <=> j \in ToSet(bundle[a])
      BY EpochRelease DEF ToSet
    <3> QED
      BY <1>1, <3>1, <3>2, <3>3
  <2> QED
    BY <1>1, <1>3, <1>4, <2>1 DEF HeldLocked
<1>7. HeldFirst'
  <2>1. ASSUME NEW a \in Bidders, NEW m \in DOMAIN bundle'[a], NEW n \in DOMAIN bundle'[a],
               m <= n, bundle'[a][n] \in Held
        PROVE  bundle'[a][m] \in Held
    <3>1. bundle'[a] = Kept(a)
      BY <1>1
    <3>2. /\ m \in DOMAIN bundle[a] /\ bundle'[a][m] = bundle[a][m]
          /\ n \in DOMAIN bundle[a] /\ bundle'[a][n] = bundle[a][n]
      BY <2>1, <3>1, EpochRelease
    <3> QED
      BY <1>3, <2>1, <3>2 DEF HeldFirst
  <2> QED
    BY <1>4, <2>1 DEF HeldFirst
<1>8. phase' \in {"build", "hear"} => unchanged' < QuietRounds
  BY <1>2, <1>5 DEF TypeOK, QuietRounds
<1>9. BundlesOK'
  <2>1. ASSUME NEW a \in Bidders
        PROVE  /\ IsInjective(Kept(a))
               /\ \A n \in DOMAIN Kept(a) : Kept(a)[n] \in Held \cup Doable(a)
    <3>1. \A n \in DOMAIN Kept(a) : n \in DOMAIN bundle[a] /\ Kept(a)[n] = bundle[a][n]
      BY EpochRelease
    <3>2. /\ IsInjective(bundle[a])
          /\ \A n \in DOMAIN bundle[a] : bundle[a][n] \in Held \cup Doable(a)
      BY DEF EpochInv, BundlesOK
    <3> QED
      BY <3>1, <3>2 DEF IsInjective
  <2>2. \A a : Doable(a)' = Doable(a)
    BY <1>1, <1>4 DEF Doable, FrontierTasks, Able
  <2>3. \A a \in Bidders : bundle'[a] = Kept(a)
    BY <1>1
  <2> QED
    BY <1>4, <2>1, <2>2, <2>3 DEF BundlesOK
<1> QED
  BY <1>2, <1>5, <1>6, <1>7, <1>8, <1>9 DEF EpochInv, SnapLocked

-----------------------------------------------------------------------------
(* The steps keep the agreement.                                           *)

\* Of a third party a sender has no news, so it is heard about itself only.
LEMMA OwnNewsOnly ==
  ASSUME NEW i \in Bidders, NEW k \in Bidders, i # k, NEW zi, NEW zk, NEW yi, NEW yk,
         NEW si, NEW sk, \A m \in {zi, zk} \ {i, k, NoAgent} : ~ Newer(sk, si, m)
  PROVE  /\ Updates(zi, yi, si, zk, yk, sk, i, k) <=>
              \/ zk = k /\ (zi \in {k, NoAgent} \/ Beats(yk, k, yi, i))
              \/ zk = NoAgent /\ zi = k
         /\ Resets(zi, yi, si, zk, yk, sk, i, k) <=> zi = k /\ zk \notin {k, NoAgent}
<1>1. i # NoAgent /\ k # NoAgent
  BY CBBAAssumption
<1>2. Updates(zi, yi, si, zk, yk, sk, i, k) <=>
        \/ zk = k /\ (zi \in {k, NoAgent} \/ Beats(yk, k, yi, i))
        \/ zk = NoAgent /\ zi = k
  BY <1>1 DEF Updates
<1>3. Resets(zi, yi, si, zk, yk, sk, i, k) <=> zi = k /\ zk \notin {k, NoAgent}
  BY <1>1 DEF Resets
<1> QED
  BY <1>2, <1>3

\* In the consensus every agent's timestamps of the others are the latest.
LEMMA NoNews ==
  ASSUME AgreeInv, phase = "hear", NEW i \in Bidders, NEW k \in Bidders, NEW m \in Bidders,
         m # i
  PROVE  ~ Newer(snap.s[k], s[i], m)
<1>1. /\ snap.s \in [Bidders -> [Bidders -> Nat]] /\ s \in [Bidders -> [Bidders -> Nat]]
      /\ rnd \in Nat
  BY DEF AgreeInv, EpochInv, TypeOK
<1>2. snap.s[k][m] <= rnd - 1 /\ s[i][m] >= rnd - 1
  BY DEF AgreeInv, StampsOK
<1>3. Stamp(snap.s[k], m) = snap.s[k][m] /\ Stamp(s[i], m) = s[i][m]
  BY <1>1 DEF Stamp
<1>4. snap.s[k][m] \in Nat /\ s[i][m] \in Nat
  BY <1>1
<1> QED
  BY <1>1, <1>2, <1>3, <1>4 DEF Newer

\* What hearing a sender does to the belief about a frontier task.
HeardFrom(k, i, j) ==
  IF Claims(k, j) /\ (z[i][j] \in {k, NoAgent} \/ Beats(snap.y[k][j], k, y[i][j], i))
  THEN z'[i][j] = k /\ y'[i][j] = snap.y[k][j]
  ELSE IF z[i][j] = k THEN z'[i][j] = NoAgent /\ y'[i][j] = 0
  ELSE z'[i][j] = z[i][j] /\ y'[i][j] = y[i][j]

\* A consensus step is that, for every receiver and every frontier task.
LEMMA HearOf ==
  ASSUME AgreeInv, NEW k \in Bidders, Hear(k), NEW i \in Bidders, i # k, NEW j \in FrontierTasks
  PROVE  HeardFrom(k, i, j)
<1>1. /\ j \in Tasks /\ phase = "hear"
      /\ z'[i][j] = (IF UpdatesFrom(i, k, j) THEN snap.z[k][j]
                     ELSE IF ResetsFrom(i, k, j) THEN NoAgent ELSE z[i][j])
      /\ y'[i][j] = (IF UpdatesFrom(i, k, j) THEN snap.y[k][j]
                     ELSE IF ResetsFrom(i, k, j) THEN 0 ELSE y[i][j])
  BY DEF Hear, FrontierTasks
<1>2. ClaimsOK(y, z) /\ ClaimsOK(snap.y, snap.z)
  BY <1>1 DEF AgreeInv, HearingOK
<1>3. /\ z[i][j] \in Bidders \cup {NoAgent} /\ snap.z[k][j] \in Bidders \cup {NoAgent}
      /\ snap.z[k][j] = NoAgent => snap.y[k][j] = 0
  BY <1>2 DEF ClaimsOK, Wanting
<1>4. \A m \in {z[i][j], snap.z[k][j]} \ {i, k, NoAgent} : ~ Newer(snap.s[k], s[i], m)
  BY <1>1, <1>3, NoNews
<1>5. /\ UpdatesFrom(i, k, j) <=>
           \/ Claims(k, j) /\ (z[i][j] \in {k, NoAgent} \/ Beats(snap.y[k][j], k, y[i][j], i))
           \/ snap.z[k][j] = NoAgent /\ z[i][j] = k
      /\ ResetsFrom(i, k, j) <=> z[i][j] = k /\ snap.z[k][j] \notin {k, NoAgent}
  BY <1>4, OwnNewsOnly DEF UpdatesFrom, ResetsFrom, Claims
<1>6. k # NoAgent
  BY CBBAAssumption
<1>7. CASE UpdatesFrom(i, k, j)
  BY <1>1, <1>3, <1>5, <1>6, <1>7 DEF HeardFrom, Claims
<1>8. CASE ~ UpdatesFrom(i, k, j)
  BY <1>1, <1>3, <1>5, <1>6, <1>8 DEF HeardFrom, Claims
<1> QED
  BY <1>7, <1>8

\* Hearing keeps what is known of the claims.
LEMMA HeardStep ==
  ASSUME AgreeInv, NEW k \in Bidders, Hear(k), NEW i \in Bidders, NEW j \in FrontierTasks
  PROVE  HeardOK(i, j)'
<1>1. /\ phase = "hear" /\ k \notin heard /\ heard' = heard \cup {k} /\ snap' = snap
      /\ \A m \in Bidders \ heard : k <= m /\ heard \subseteq Bidders
  BY DEF Hear, AgreeInv, EpochInv, TypeOK
<1>2. HearingOK /\ HeardOK(i, j)
  BY <1>1 DEF AgreeInv, HearingOK
<1>3. \A m \in Bidders : m \in Nat /\ m # NoAgent
  BY CBBAAssumption
<1>4. CASE i = k
  <2>1. z'[i][j] = z[i][j] /\ y'[i][j] = y[i][j]
    BY <1>4 DEF Hear, FrontierTasks
  <2>2. heard' \ {i} = heard \ {i} /\ heard \subseteq heard'
    BY <1>1, <1>4
  <2> QED
    BY <1>1, <1>2, <2>1, <2>2 DEF HeardOK, Claims
<1>5. CASE i # k
  <2> DEFINE Y == y[i][j]
             Z == z[i][j]
             Yk == snap.y[k][j]
             Yi == snap.y[i][j]
             takes == Claims(k, j) /\ (Z \in {k, NoAgent} \/ Beats(Yk, k, Y, i))
  <2>1. HeardFrom(k, i, j)
    BY <1>5, HearOf
  <2>2. /\ takes => z'[i][j] = k /\ y'[i][j] = Yk
        /\ ~ takes /\ Z = k => z'[i][j] = NoAgent /\ y'[i][j] = 0
        /\ ~ takes /\ Z # k => z'[i][j] = Z /\ y'[i][j] = Y
    BY <2>1 DEF HeardFrom
  <2>3. /\ \A m \in heard \ {i} : Z = m => Claims(m, j) /\ Y = snap.y[m][j]
        /\ snap.z[i][j] \in {i, NoAgent} =>
             \/ Z \in heard \ {i}
             \/ Z = snap.z[i][j] /\ Y = Yi
        /\ Claims(i, j) /\ Z = i =>
             \A m \in heard \ {i} : Claims(m, j) => ~ Beats(snap.y[m][j], m, Yi, i)
        /\ snap.z[i][j] = NoAgent /\ Z = NoAgent => \A m \in heard \ {i} : ~ Claims(m, j)
        /\ Claims(i, j) /\ BidGt(Yi, Y) =>
             \E m, l \in heard : m # l /\ m < i /\ l < i /\ Claims(m, j) /\ Claims(l, j)
    BY <1>2 DEF HeardOK
  <2>4. Y \in Nat /\ Yk \in Nat /\ Yi \in Nat
    BY <1>1, SMTT(30) DEF AgreeInv, EpochInv, TypeOK, Views, FrontierTasks
  <2> HIDE DEF Y, Z, Yk, Yi, takes
  <2>5. heard' \ {i} = (heard \ {i}) \cup {k}
    BY <1>1, <1>5
  <2>6. snap.z[i][j] \in {i, NoAgent} => Z # k
    BY <1>1, <1>3, <1>5, <2>3
  <2>7. \A m \in heard' \ {i} : z'[i][j] = m => Claims(m, j) /\ y'[i][j] = snap.y[m][j]
    <3>1. takes => Claims(k, j) /\ Yk = snap.y[k][j]
      BY DEF takes, Yk
    <3> QED
      BY <1>1, <1>3, <2>2, <2>3, <2>5, <3>1
  <2>8. snap.z[i][j] \in {i, NoAgent} =>
          \/ z'[i][j] \in heard' \ {i}
          \/ z'[i][j] = snap.z[i][j] /\ y'[i][j] = Yi
    BY <2>2, <2>3, <2>5, <2>6
  <2>9. Claims(i, j) /\ z'[i][j] = i =>
          \A m \in heard' \ {i} : Claims(m, j) => ~ Beats(snap.y[m][j], m, Yi, i)
    <3>1. ASSUME Claims(i, j), z'[i][j] = i PROVE ~ takes /\ Z = i /\ Y = Yi
      BY <1>3, <1>5, <2>2, <2>3, <3>1 DEF Claims
    <3>2. ASSUME Claims(i, j), z'[i][j] = i, Claims(k, j) PROVE ~ Beats(Yk, k, Yi, i)
      BY <3>1, <3>2 DEF takes
    <3> QED
      BY <2>3, <2>5, <3>1, <3>2 DEF Yk
  <2>10. snap.z[i][j] = NoAgent /\ z'[i][j] = NoAgent => \A m \in heard' \ {i} : ~ Claims(m, j)
    <3>1. ASSUME snap.z[i][j] = NoAgent, z'[i][j] = NoAgent PROVE ~ takes /\ Z = NoAgent
      BY <1>3, <2>2, <2>6, <3>1
    <3> QED
      BY <2>3, <2>5, <3>1 DEF takes
  <2>11. Claims(i, j) /\ BidGt(Yi, y'[i][j]) =>
           \E m, l \in heard' : m # l /\ m < i /\ l < i /\ Claims(m, j) /\ Claims(l, j)
    <3> SUFFICES ASSUME Claims(i, j), BidGt(Yi, y'[i][j]), ~ BidGt(Yi, Y)
                 PROVE  \E m, l \in heard' :
                          m # l /\ m < i /\ l < i /\ Claims(m, j) /\ Claims(l, j)
      BY <1>1, <2>3
    <3>1. takes /\ y'[i][j] = Yk
      BY <2>2, <2>6 DEF Claims
    <3>2. Claims(k, j) /\ (Z = NoAgent \/ Beats(Yk, k, Y, i))
      BY <2>6, <3>1 DEF takes, Claims
    <3>3. Z \in heard \ {i} \/ (Z = i /\ Y = Yi)
      BY <2>3 DEF Claims
    <3>4. BidGt(Yi, Yk) /\ Epsilon \in Nat
      BY <3>1, CBBAAssumption
    <3>5. ~ BidGt(Yk, Y)
      BY <2>4, <3>4 DEF BidGt
    <3>6. k < i /\ ~ BidGt(Y, Yk)
      BY <1>1, <1>3, <3>2, <3>3, <3>5 DEF Beats
    <3>7. Z \in heard \ {i} /\ Claims(Z, j)
      BY <2>3, <3>3, <3>4, <3>6
    <3>8. Z < k
      BY <1>1, <1>2, <3>7 DEF HearingOK
    <3>9. Z \in heard' /\ k \in heard' /\ Z # k /\ Z < i
      BY <1>1, <1>3, <3>6, <3>7, <3>8
    <3> QED
      BY <3>2, <3>6, <3>7, <3>9
  <2>12. Claims(i, j)' = Claims(i, j) /\ \A m : Claims(m, j)' = Claims(m, j)
    BY <1>1 DEF Claims
  <2> QED
    BY <1>1, <2>7, <2>8, <2>9, <2>10, <2>11, <2>12 DEF HeardOK, Yi, Claims
<1> QED
  BY <1>4, <1>5

\* An epoch starts in agreement: nobody claims a frontier task.
LEMMA AgreeInit ==
  ASSUME Init
  PROVE  AgreeInv
<1>1. EpochInv /\ phase = "build" /\ rnd = 1
  BY EpochInit DEF Init
<1>2. StampsOK
  BY <1>1 DEF StampsOK, Init
<1>4. ClaimsOK(y, z)
  <2>1. ASSUME NEW a \in Bidders, NEW j \in FrontierTasks
        PROVE  z[a][j] = NoAgent /\ y[a][j] = 0 /\ a # NoAgent
    BY CBBAAssumption DEF Init, FrontierTasks
  <2> QED
    BY <2>1 DEF ClaimsOK
<1>5. BidsOK(y, z)
  <2>1. before.b = bundle /\ before.y = y /\ before.z = z
    BY DEF Init
  <2>2. ASSUME NEW a \in Bidders
        PROVE  bundle[a] \in Seq(Tasks) /\ Len(bundle[a]) \in Nat /\ Fresh(a) = {}
    <3>1. bundle[a] \in Seq(Tasks)
      BY <1>1 DEF EpochInv, TypeOK
    <3>2. Len(bundle[a]) \in Nat
      BY <3>1
    <3>3. Len(bundle[a]) + 1 .. Len(bundle[a]) = {}
      BY <3>2
    <3> QED
      BY <2>1, <3>1, <3>2, <3>3 DEF Fresh
  <2> QED
    BY <2>1, <2>2 DEF BidsOK
<1> QED
  BY <1>1, <1>2, <1>4, <1>5 DEF AgreeInv, ConflictFree, AwardsComplete

\* A bid is for a task the agent wants and does not carry, and it beats what the
\* agent believed.
LEMMA AgreeBid ==
  ASSUME AgreeInv, Bid
  PROVE  AgreeInv'
<1> DEFINE bidding == {a \in Bidders : Candidates(a) # {}}
<1>1. PICK best \in Picks([a \in bidding |-> BestCandidates(a)]) :
        /\ bundle' = [a \in Bidders |->
                        IF a \in bidding THEN Append(bundle[a], best[a]) ELSE bundle[a]]
        /\ y' = [a \in Bidders |->
                   IF a \in bidding
                   THEN [y[a] EXCEPT ![best[a]] = Offer(a, best[a])] ELSE y[a]]
        /\ z' = [a \in Bidders |->
                   IF a \in bidding THEN [z[a] EXCEPT ![best[a]] = a] ELSE z[a]]
  BY DEF Bid
<1>2. /\ UNCHANGED <<scenario, s, snap, before, rnd, unchanged, phase, heard>> /\ phase = "build"
      /\ FrontierTasks' = FrontierTasks
  BY DEF Bid, FrontierTasks, Held
<1>3. EpochInv' /\ TypeOK /\ BundlesOK /\ ClaimsOK(y, z) /\ BidsOK(y, z)
  BY <1>2, EpochBid DEF AgreeInv, EpochInv
<1>4. ASSUME NEW a \in bidding
      PROVE  /\ a \in Bidders /\ best[a] \in Tasks /\ best[a] \in FrontierTasks
             /\ best[a] \notin ToSet(bundle[a]) /\ a \in Wanting(best[a])
             /\ BidGt(Offer(a, best[a]), y[a][best[a]]) /\ a # NoAgent
  <2>1. best[a] \in BestCandidates(a)
    BY <1>1 DEF Picks
  <2>2. best[a] \in Candidates(a)
    BY <2>1 DEF BestCandidates
  <2> QED
    BY <1>3, <2>2, CandidateOf, CBBAAssumption DEF Candidates
<1> HIDE DEF bidding
<1>5. ASSUME NEW a \in Bidders
      PROVE  \/ a \in bidding /\ bundle'[a] = Append(bundle[a], best[a])
                /\ y'[a] = [y[a] EXCEPT ![best[a]] = Offer(a, best[a])]
                /\ z'[a] = [z[a] EXCEPT ![best[a]] = a]
             \/ bundle'[a] = bundle[a] /\ y'[a] = y[a] /\ z'[a] = z[a]
  BY <1>1
<1>6. ASSUME NEW a \in Bidders
      PROVE  bundle[a] \in Seq(Tasks) /\ y[a] \in [Tasks -> Nat] /\ z[a] \in [Tasks -> Nat]
  BY <1>3 DEF TypeOK, Views
<1>8. ClaimsOK(y, z)'
  <2>1. ASSUME NEW a \in Bidders, NEW j \in FrontierTasks
        PROVE  /\ z'[a][j] \in Wanting(j) \cup {NoAgent}
               /\ z'[a][j] = NoAgent => y'[a][j] = 0
               /\ z'[a][j] = a => j \in ToSet(bundle'[a])
    <3>0. j \in Tasks
      BY DEF FrontierTasks
    <3>1. /\ z[a][j] \in Wanting(j) \cup {NoAgent}
          /\ z[a][j] = NoAgent => y[a][j] = 0
          /\ z[a][j] = a => j \in ToSet(bundle[a])
      BY <1>3 DEF ClaimsOK
    <3>2. CASE /\ a \in bidding /\ bundle'[a] = Append(bundle[a], best[a])
               /\ y'[a] = [y[a] EXCEPT ![best[a]] = Offer(a, best[a])]
               /\ z'[a] = [z[a] EXCEPT ![best[a]] = a]
      <4>1. j \in ToSet(bundle[a]) \/ j = best[a] => j \in ToSet(bundle'[a])
        <5>1. /\ DOMAIN bundle'[a] = 1 .. Len(bundle[a]) + 1 /\ Len(bundle[a]) \in Nat
              /\ DOMAIN bundle[a] = 1 .. Len(bundle[a])
              /\ bundle'[a][Len(bundle[a]) + 1] = best[a]
              /\ \A n \in DOMAIN bundle[a] : bundle'[a][n] = bundle[a][n]
          BY <1>4, <1>6, <3>2
        <5> QED
          BY <5>1 DEF ToSet
      <4>2. CASE j = best[a]
        <5>1. z'[a][j] = a
          BY <1>6, <3>0, <3>2, <4>2
        <5> QED
          BY <1>4, <3>2, <4>1, <4>2, <5>1
      <4>3. CASE j # best[a]
        <5>1. z'[a][j] = z[a][j] /\ y'[a][j] = y[a][j]
          BY <1>6, <3>0, <3>2, <4>3
        <5> QED
          BY <3>1, <4>1, <5>1
      <4> QED
        BY <4>2, <4>3
    <3>3. CASE bundle'[a] = bundle[a] /\ y'[a] = y[a] /\ z'[a] = z[a]
      BY <3>1, <3>3
    <3> QED
      BY <1>5, <3>2, <3>3
  <2>2. \A j : Wanting(j)' = Wanting(j)
    BY <1>2 DEF Wanting, GainsOf
  <2> QED
    BY <1>2, <2>1, <2>2 DEF ClaimsOK
<1>9. BidsOK(y, z)'
  <2>1. ASSUME NEW a \in Bidders
        PROVE  /\ before.b[a] \in Seq(Tasks) /\ Len(before.b[a]) <= Len(bundle'[a])
               /\ \A n \in 1 .. Len(before.b[a]) : bundle'[a][n] = before.b[a][n]
               /\ \A j \in Tasks :
                    IF j \in Fresh(a)' THEN z'[a][j] = a /\ BidGt(y'[a][j], before.y[a][j])
                    ELSE z'[a][j] = before.z[a][j] /\ y'[a][j] = before.y[a][j]
    <3> DEFINE n0 == Len(before.b[a])
               m0 == Len(bundle[a])
    <3>1. /\ before.b[a] \in Seq(Tasks) /\ n0 <= m0
          /\ \A n \in 1 .. n0 : bundle[a][n] = before.b[a][n]
          /\ \A j \in Tasks :
               IF j \in Fresh(a) THEN z[a][j] = a /\ BidGt(y[a][j], before.y[a][j])
               ELSE z[a][j] = before.z[a][j] /\ y[a][j] = before.y[a][j]
      BY <1>3 DEF BidsOK
    <3>2. CASE /\ a \in bidding /\ bundle'[a] = Append(bundle[a], best[a])
               /\ y'[a] = [y[a] EXCEPT ![best[a]] = Offer(a, best[a])]
               /\ z'[a] = [z[a] EXCEPT ![best[a]] = a]
      <4>1. /\ Len(bundle'[a]) = m0 + 1 /\ m0 \in Nat /\ n0 \in Nat
            /\ DOMAIN bundle[a] = 1 .. m0
            /\ bundle'[a][m0 + 1] = best[a]
            /\ \A n \in 1 .. m0 : bundle'[a][n] = bundle[a][n]
        BY <1>4, <1>6, <3>1, <3>2
      <4>2. Fresh(a)' = {bundle'[a][n] : n \in n0 + 1 .. m0 + 1}
        BY <1>2, <4>1 DEF Fresh
      <4>3. Fresh(a) = {bundle[a][n] : n \in n0 + 1 .. m0}
        BY DEF Fresh
      <4> HIDE DEF n0, m0
      <4>4. \A j : j \in Fresh(a)' <=> j \in Fresh(a) \/ j = best[a]
        <5>1. \A k : k \in n0 + 1 .. m0 + 1 <=> k \in n0 + 1 .. m0 \/ k = m0 + 1
          BY <3>1, <4>1
        <5>2. \A k \in n0 + 1 .. m0 : bundle'[a][k] = bundle[a][k]
          BY <4>1
        <5> QED
          BY <4>1, <4>2, <4>3, <5>1, <5>2
      <4>5. best[a] \notin Fresh(a)
        BY <1>4, <3>2, <4>1, <4>3 DEF ToSet
      <4>6. ASSUME NEW j \in Tasks
            PROVE  IF j \in Fresh(a)' THEN z'[a][j] = a /\ BidGt(y'[a][j], before.y[a][j])
                   ELSE z'[a][j] = before.z[a][j] /\ y'[a][j] = before.y[a][j]
        <5>1. CASE j = best[a]
          <6>1. z'[a][j] = a /\ y'[a][j] = Offer(a, j)
            BY <1>6, <3>2, <5>1
          <6>2. y[a][j] = before.y[a][j]
            BY <3>1, <4>5, <5>1
          <6> QED
            BY <1>4, <3>2, <4>4, <5>1, <6>1, <6>2
        <5>2. CASE j # best[a]
          <6>1. z'[a][j] = z[a][j] /\ y'[a][j] = y[a][j]
            BY <1>6, <3>2, <5>2
          <6> QED
            BY <3>1, <4>4, <5>2, <6>1
        <5> QED
          BY <5>1, <5>2
      <4>7. before.b[a] \in Seq(Tasks) /\ n0 <= Len(bundle'[a])
        BY <3>1, <4>1
      <4>8. \A n \in 1 .. n0 : bundle'[a][n] = before.b[a][n]
        BY <3>1, <4>1
      <4> QED
        BY <4>6, <4>7, <4>8 DEF n0
    <3>3. CASE bundle'[a] = bundle[a] /\ y'[a] = y[a] /\ z'[a] = z[a]
      <4>1. Fresh(a)' = Fresh(a)
        BY <1>2, <3>3 DEF Fresh
      <4> QED
        BY <3>1, <3>3, <4>1
    <3> QED
      BY <1>5, <3>2, <3>3
  <2> QED
    BY <1>2, <2>1 DEF BidsOK
<1>10. StampsOK'
  BY <1>2 DEF AgreeInv, StampsOK
<1> QED
  BY <1>2, <1>3, <1>8, <1>9, <1>10 DEF AgreeInv, ConflictFree, AwardsComplete

\* The snapshot holds every bid of the round, and nobody has another one to make.
LEMMA AgreeStart ==
  ASSUME AgreeInv, StartConsensus
  PROVE  AgreeInv'
<1>1. /\ phase' = "hear" /\ phase = "build" /\ heard' = {}
      /\ snap' = [y |-> y, z |-> z, s |-> s]
      /\ \A a \in Bidders : Candidates(a) = {}
      /\ UNCHANGED <<scenario, bundle, y, z, s, before, rnd, unchanged>>
  BY DEF StartConsensus
<1>2. snap'.y = y /\ snap'.z = z /\ snap'.s = s
  BY <1>1
<1>3. EpochInv' /\ ClaimsOK(y, z) /\ BidsOK(y, z) /\ TypeOK
  BY <1>1, EpochStart DEF AgreeInv, EpochInv
<1>4. FrontierTasks' = FrontierTasks /\ \A j : Wanting(j)' = Wanting(j)
  BY <1>1 DEF FrontierTasks, Held, Wanting, GainsOf
<1>5. StampsOK'
  <2>1. rnd \in Nat /\ \A i, m \in Bidders : s[i][m] \in Nat
    BY <1>3 DEF TypeOK
  <2>2. \A i, m \in Bidders : s[i][m] <= rnd - 1
    BY <1>1 DEF AgreeInv, StampsOK
  <2>3. \A i, m \in Bidders : s[i][m] <= rnd
    BY <2>1, <2>2
  <2> QED
    BY <1>1, <1>2, <2>2, <2>3 DEF AgreeInv, StampsOK
<1>7. ClaimsOK(y, z)' /\ ClaimsOK(snap.y, snap.z)'
  BY <1>1, <1>2, <1>3, <1>4 DEF ClaimsOK
<1>8. BidsOK(snap.y, snap.z)'
  BY <1>1, <1>2, <1>3 DEF BidsOK, Fresh
<1>9. ASSUME NEW a \in Bidders, NEW j \in FrontierTasks \ ToSet(bundle[a])
      PROVE  ~ BidGt(Offer(a, j), y[a][j])
  BY <1>1 DEF Candidates
<1>10. \A i \in Bidders : \A j \in FrontierTasks : HeardOK(i, j)'
  <2>1. ASSUME NEW i \in Bidders, NEW j \in FrontierTasks PROVE HeardOK(i, j)'
    <3>1. y[i][j] \in Nat /\ Epsilon \in Nat
      BY <1>3, CBBAAssumption DEF TypeOK, Views, FrontierTasks
    <3>2. ~ BidGt(y[i][j], y[i][j])
      BY <3>1 DEF BidGt
    <3> QED
      BY <1>1, <1>2, <3>2 DEF HeardOK, Claims
  <2> QED
    BY <2>1
<1>11. HearingOK'
  <2>1. \A a \in Bidders : \A j \in FrontierTasks \ ToSet(bundle[a]) :
          ~ BidGt(Offer(a, j), y[a][j])
    BY <1>9
  <2>2. \A a \in Bidders : \A j : Offer(a, j)' = Offer(a, j)
    BY <1>1 DEF Offer, Won, Held
  <2> QED
    BY <1>1, <1>2, <1>4, <1>7, <1>8, <1>10, <2>1, <2>2 DEF HearingOK
<1> QED
  BY <1>1, <1>3, <1>5, <1>7, <1>11 DEF AgreeInv, ConflictFree, AwardsComplete

\* Hearing a sender keeps the invariant.
LEMMA AgreeHear ==
  ASSUME AgreeInv, NEW k \in Bidders, Hear(k)
  PROVE  AgreeInv'
<1>1. /\ s' = [i \in Bidders |-> [m \in Bidders |->
                IF i = k \/ m = i THEN s[i][m]
                ELSE IF m = k THEN rnd
                ELSE IF snap.s[k][m] > s[i][m] THEN snap.s[k][m] ELSE s[i][m]]]
      /\ heard' = heard \cup {k} /\ phase = "hear" /\ k \notin heard
      /\ \A m \in Bidders \ heard : k <= m
      /\ UNCHANGED <<scenario, bundle, snap, before, rnd, unchanged, phase>>
  BY DEF Hear
<1>2. EpochInv' /\ HearingOK /\ ClaimsOK(y, z) /\ TypeOK /\ StampsOK
  BY <1>1, EpochHear DEF AgreeInv, EpochInv
<1>3. FrontierTasks' = FrontierTasks /\ \A j : Wanting(j)' = Wanting(j)
  BY <1>1 DEF FrontierTasks, Held, Wanting, GainsOf
<1>4. StampsOK'
  <2>1. /\ rnd \in Nat /\ \A i, m \in Bidders : s[i][m] \in Nat /\ snap.s[i][m] \in Nat
        /\ heard \subseteq Bidders
    BY <1>1, <1>2 DEF TypeOK
  <2>2. /\ \A i, m \in Bidders : i # m => s[i][m] >= rnd - 1
        /\ \A i, m \in Bidders : snap.s[i][m] <= rnd - 1 /\ s[i][m] <= rnd
        /\ \A i \in Bidders : \A m \in heard \ {i} : s[i][m] = rnd
    BY <1>1, <1>2 DEF StampsOK
  <2>3. ASSUME NEW i \in Bidders, NEW m \in Bidders
        PROVE  /\ i # m => s'[i][m] >= rnd - 1
               /\ s'[i][m] <= rnd
               /\ m \in heard' \ {i} => s'[i][m] = rnd
    <3>1. s'[i][m] = IF i = k \/ m = i THEN s[i][m]
                     ELSE IF m = k THEN rnd
                     ELSE IF snap.s[k][m] > s[i][m] THEN snap.s[k][m] ELSE s[i][m]
      BY <1>1
    <3> QED
      BY <1>1, <2>1, <2>2, <3>1
  <2>4. heard' \subseteq Bidders
    BY <1>1, <2>1
  <2> QED
    BY <1>1, <2>2, <2>3, <2>4 DEF StampsOK
<1>6. ClaimsOK(y, z)'
  <2>1. ASSUME NEW a \in Bidders, NEW j \in FrontierTasks
        PROVE  /\ z'[a][j] \in Wanting(j) \cup {NoAgent}
               /\ z'[a][j] = NoAgent => y'[a][j] = 0
               /\ z'[a][j] = a => j \in ToSet(bundle[a])
    <3>1. /\ z[a][j] \in Wanting(j) \cup {NoAgent}
          /\ z[a][j] = NoAgent => y[a][j] = 0
          /\ z[a][j] = a => j \in ToSet(bundle[a])
          /\ snap.z[k][j] \in Wanting(j) \cup {NoAgent}
      BY <1>2 DEF ClaimsOK, HearingOK
    <3>2. a # NoAgent /\ k # NoAgent
      BY CBBAAssumption
    <3>3. CASE a = k
      <4>1. z'[a][j] = z[a][j] /\ y'[a][j] = y[a][j]
        BY <3>3 DEF Hear, FrontierTasks
      <4> QED
        BY <3>1, <4>1
    <3>4. CASE a # k
      <4>1. HeardFrom(k, a, j)
        BY <3>4, HearOf
      <4> QED
        BY <3>1, <3>2, <3>4, <4>1 DEF HeardFrom, Claims
    <3> QED
      BY <3>3, <3>4
  <2> QED
    BY <1>1, <1>3, <2>1 DEF ClaimsOK
<1>7. HearingOK'
  <2>1. ClaimsOK(snap.y, snap.z)' /\ BidsOK(snap.y, snap.z)'
    BY <1>1, <1>2, <1>3 DEF HearingOK, ClaimsOK, BidsOK, Fresh
  <2>2. \A a \in Bidders : \A j : Offer(a, j)' = Offer(a, j)
    BY <1>1 DEF Offer, Won, Held
  <2>3. \A m \in heard' : \A n \in Bidders \ heard' : m < n
    <3>1. ASSUME NEW m \in heard', NEW n \in Bidders \ heard' PROVE m < n
      <4>1. n \in Bidders \ heard /\ n # k /\ k \in Nat /\ n \in Nat
        BY <1>1, CBBAAssumption
      <4>2. CASE m \in heard
        BY <1>2, <4>1, <4>2 DEF HearingOK
      <4>3. CASE m = k
        BY <1>1, <4>1, <4>3
      <4> QED
        BY <1>1, <4>2, <4>3
    <3> QED
      BY <3>1
  <2>4. \A i \in Bidders : \A j \in FrontierTasks : HeardOK(i, j)'
    BY HeardStep
  <2>5. \A a \in Bidders : \A j \in FrontierTasks \ ToSet(bundle[a]) :
          ~ BidGt(Offer(a, j), snap.y[a][j])
    BY <1>2 DEF HearingOK
  <2> QED
    BY <1>1, <1>3, <2>1, <2>2, <2>3, <2>4, <2>5 DEF HearingOK
<1> QED
  BY <1>1, <1>2, <1>4, <1>6, <1>7 DEF AgreeInv, ConflictFree, AwardsComplete

\* Of two agents that keep their claims to a task after hearing each other, one
\* beats the other.
LEMMA OneKeepsItsClaim ==
  ASSUME AgreeInv, phase = "hear", heard = Bidders, NEW j \in FrontierTasks,
         NEW k \in Bidders, Claims(k, j), z[k][j] = k,
         NEW l \in Bidders, Claims(l, j), z[l][j] = l
  PROVE  k = l
<1> SUFFICES ASSUME k # l PROVE FALSE
  OBVIOUS
<1>1. HeardOK(k, j) /\ HeardOK(l, j)
  BY DEF AgreeInv, HearingOK
<1>2. ~ Beats(snap.y[l][j], l, snap.y[k][j], k) /\ ~ Beats(snap.y[k][j], k, snap.y[l][j], l)
  BY <1>1 DEF HeardOK
<1>3. k \in Nat /\ l \in Nat
  BY CBBAAssumption
<1> QED
  BY <1>2, <1>3 DEF Beats

\* In a round that changes nothing nobody loses a task: of the agents that do,
\* the one with the smallest id would have lost it to an agent that keeps its
\* claim against another such agent.
LEMMA QuietLosesNothing ==
  ASSUME AgreeInv, EndRound, before = [y |-> y', z |-> z', b |-> bundle'], NEW c \in Bidders
  PROVE  Lost(c) = {}
<1> DEFINE D == {a \in Bidders : Lost(a) # {}}
<1>1. /\ phase = "hear" /\ heard = Bidders
      /\ bundle' = [a \in Bidders |-> Kept(a)]
      /\ y' = [a \in Bidders |-> [j \in Tasks |-> IF j \in Voided(a) THEN 0 ELSE y[a][j]]]
  BY DEF EndRound
<1>2. HearingOK /\ TypeOK /\ HeldLocked /\ BundlesOK
  BY <1>1 DEF AgreeInv, EpochInv
<1> SUFFICES ASSUME D # {} PROVE FALSE
  OBVIOUS
<1>3. D \subseteq Nat
  BY CBBAAssumption
<1>4. PICK i \in D : \A m \in D : ~(<<m, i>> \in OpToRel(<, Nat))
  BY <1>3, NatLessThanWellFounded, WFMin
<1>5. i \in Bidders /\ Lost(i) # {} /\ \A m \in D : ~(m < i)
  BY <1>3, <1>4 DEF OpToRel
<1> DEFINE f == FirstLost(i)
           j == bundle[i][f]
<1>6. bundle[i] \in Seq(Tasks)
  BY <1>2, <1>5 DEF TypeOK
<1>7. f \in DOMAIN bundle[i] /\ z[i][j] # i
  BY <1>5, <1>6, FirstLostOf DEF Lost
<1>8. f \in 1 .. Len(bundle[i]) /\ f \in Nat /\ Len(bundle[i]) \in Nat
  BY <1>6, <1>7
<1>9. Kept(i) = SubSeq(bundle[i], 1, f - 1)
  BY <1>5 DEF Kept
<1>10. Voided(i) = {bundle[i][n] : n \in f + 1 .. Len(bundle[i])}
  BY <1>5 DEF Voided
<1>11. before.b[i] = Kept(i) /\ before.y[i] = y'[i]
  BY <1>1, <1>5
<1> HIDE DEF f
<1>12. Len(before.b[i]) = f - 1
  BY <1>6, <1>8, <1>9, <1>11
<1>13. j \in Fresh(i)
  BY <1>8, <1>12 DEF Fresh
<1>14. j \in Tasks /\ j \in ToSet(bundle[i])
  BY <1>6, <1>7 DEF ToSet
<1>15. j \notin Held
  BY <1>2, <1>5, <1>7, <1>14 DEF HeldLocked
<1>16. j \notin Voided(i)
  <2>1. IsInjective(bundle[i])
    BY <1>2, <1>5 DEF BundlesOK
  <2>2. ASSUME NEW n \in f + 1 .. Len(bundle[i]) PROVE bundle[i][n] # j
    <3>1. n \in DOMAIN bundle[i] /\ n # f
      BY <1>6, <1>8, <2>2
    <3> QED
      BY <1>7, <2>1, <3>1 DEF IsInjective
  <2> QED
    BY <1>10, <2>2
<1>17. j \in FrontierTasks
  BY <1>14, <1>15 DEF FrontierTasks
<1>18. before.y[i][j] = y[i][j]
  BY <1>1, <1>5, <1>11, <1>14, <1>16
<1> HIDE DEF j
<1>19. Claims(i, j) /\ BidGt(snap.y[i][j], y[i][j])
  BY <1>2, <1>5, <1>13, <1>14, <1>18 DEF HearingOK, BidsOK, Claims
<1>20. PICK k \in heard, l \in heard :
         k # l /\ k < i /\ l < i /\ Claims(k, j) /\ Claims(l, j)
  BY <1>2, <1>5, <1>17, <1>19 DEF HearingOK, HeardOK
<1>21. ASSUME NEW m \in Bidders, m < i, Claims(m, j) PROVE z[m][j] = m
  <2>1. Lost(m) = {}
    BY <1>5, <1>21
  <2>2. j \in ToSet(bundle[m])
    BY <1>2, <1>17, <1>21 DEF HearingOK, ClaimsOK, Claims
  <2>3. PICK n \in DOMAIN bundle[m] : bundle[m][n] = j
    BY <2>2 DEF ToSet
  <2> QED
    BY <2>1, <2>3 DEF Lost
<1>22. k \in Bidders /\ l \in Bidders /\ z[k][j] = k /\ z[l][j] = l
  BY <1>1, <1>20, <1>21
<1> QED
  BY <1>1, <1>17, <1>20, <1>22, OneKeepsItsClaim

\* So nobody bid either, and all believe what they told each other.
LEMMA QuietRound ==
  ASSUME AgreeInv, EndRound, before = [y |-> y', z |-> z', b |-> bundle']
  PROVE  /\ y' = y /\ z' = z /\ bundle' = bundle
         /\ \A a \in Bidders : \A j \in Tasks :
              snap.z[a][j] = z[a][j] /\ snap.y[a][j] = y[a][j]
<1>1. /\ phase = "hear" /\ heard = Bidders
      /\ bundle' = [a \in Bidders |-> Kept(a)]
      /\ y' = [a \in Bidders |-> [j \in Tasks |-> IF j \in Voided(a) THEN 0 ELSE y[a][j]]]
      /\ z' = [a \in Bidders |-> [j \in Tasks |-> IF j \in Voided(a) THEN NoAgent ELSE z[a][j]]]
  BY DEF EndRound
<1>2. HearingOK /\ TypeOK
  BY <1>1 DEF AgreeInv, EpochInv
<1>3. ASSUME NEW a \in Bidders PROVE Kept(a) = bundle[a] /\ Voided(a) = {}
  <2>1. Lost(a) = {}
    BY QuietLosesNothing
  <2> QED
    BY <2>1 DEF Kept, Voided
<1>4. bundle' = bundle
  BY <1>1, <1>2, <1>3 DEF TypeOK
<1>5. ASSUME NEW a \in Bidders PROVE y'[a] = y[a] /\ z'[a] = z[a]
  <2>1. y[a] \in [Tasks -> Nat] /\ z[a] \in [Tasks -> Nat]
    BY <1>2 DEF TypeOK, Views
  <2>2. y'[a] = [j \in Tasks |-> y[a][j]] /\ z'[a] = [j \in Tasks |-> z[a][j]]
    BY <1>1, <1>3
  <2> QED
    BY <2>1, <2>2
<1>6. y' = y /\ z' = z
  BY <1>1, <1>2, <1>5 DEF TypeOK, Views
<1>7. before.b = bundle /\ before.y = y /\ before.z = z
  BY <1>4, <1>6
<1>8. ASSUME NEW a \in Bidders, NEW j \in Tasks
      PROVE  snap.z[a][j] = z[a][j] /\ snap.y[a][j] = y[a][j]
  <2>1. Len(bundle[a]) \in Nat
    BY <1>2 DEF TypeOK
  <2>2. Len(bundle[a]) + 1 .. Len(bundle[a]) = {}
    BY <2>1
  <2>3. Fresh(a) = {}
    BY <1>7, <2>2 DEF Fresh
  <2> QED
    BY <1>2, <1>7, <2>3 DEF HearingOK, BidsOK
<1> QED
  BY <1>4, <1>6, <1>8

\* What an agent believes of a frontier task at the end of a quiet round: a
\* bidder that claims it, with its bid, or that nobody does.
LEMMA QuietBelief ==
  ASSUME AgreeInv, EndRound, before = [y |-> y', z |-> z', b |-> bundle'],
         NEW a \in Bidders, NEW j \in FrontierTasks
  PROVE  \/ /\ z[a][j] \in Bidders /\ z[z[a][j]][j] = z[a][j] /\ y[a][j] = y[z[a][j]][j]
            /\ Claims(z[a][j], j)
         \/ z[a][j] = NoAgent /\ y[a][j] = 0 /\ \A k \in Bidders : ~ Claims(k, j)
<1>1. phase = "hear" /\ heard = Bidders /\ j \in Tasks
  BY DEF EndRound, FrontierTasks
<1>2. HeardOK(a, j) /\ ClaimsOK(y, z)
  BY <1>1 DEF AgreeInv, HearingOK
<1>3. \A m \in Bidders : snap.z[m][j] = z[m][j] /\ snap.y[m][j] = y[m][j]
  BY <1>1, QuietRound
<1>4. /\ z[a][j] \in Bidders \cup {NoAgent} /\ a # NoAgent
      /\ z[a][j] = NoAgent => y[a][j] = 0
  BY <1>2, CBBAAssumption DEF ClaimsOK, Wanting
<1>5. CASE z[a][j] = NoAgent
  <2>1. \A k \in Bidders \ {a} : ~ Claims(k, j)
    BY <1>1, <1>2, <1>3, <1>5 DEF HeardOK
  <2>2. ~ Claims(a, j)
    BY <1>3, <1>4, <1>5 DEF Claims
  <2> QED
    BY <1>4, <1>5, <2>1, <2>2
<1>6. CASE z[a][j] = a
  BY <1>3, <1>6 DEF Claims
<1>7. CASE z[a][j] \in Bidders \ {a}
  <2>1. Claims(z[a][j], j) /\ y[a][j] = snap.y[z[a][j]][j]
    BY <1>1, <1>2, <1>7 DEF HeardOK
  <2> QED
    BY <1>3, <1>7, <2>1 DEF Claims
<1> QED
  BY <1>4, <1>5, <1>6, <1>7

\* A quiet round ends in agreement.
LEMMA QuietAgrees ==
  ASSUME AgreeInv, EndRound, before = [y |-> y', z |-> z', b |-> bundle']
  PROVE  /\ \A a, b \in Bidders : z[a] = z[b] /\ y[a] = y[b]
         /\ \A a \in Bidders :
              IsInjective(bundle[a]) /\ ToSet(bundle[a]) = {j \in Tasks : z[a][j] = a}
<1>1. phase = "hear" /\ heard = Bidders
  BY DEF EndRound
<1>2. HearingOK /\ ClaimsOK(y, z) /\ TypeOK /\ HeldLocked /\ BundlesOK
  BY <1>1 DEF AgreeInv, EpochInv
<1>3. ASSUME NEW a \in Bidders, NEW b \in Bidders, NEW j \in Tasks
      PROVE  z[a][j] = z[b][j] /\ y[a][j] = y[b][j]
  <2>1. CASE j \in Held
    BY <1>2, <2>1 DEF HeldLocked
  <2>2. CASE j \in FrontierTasks
    <3>1. /\ \/ /\ z[a][j] \in Bidders /\ z[z[a][j]][j] = z[a][j] /\ y[a][j] = y[z[a][j]][j]
                /\ Claims(z[a][j], j)
             \/ z[a][j] = NoAgent /\ y[a][j] = 0 /\ \A k \in Bidders : ~ Claims(k, j)
          /\ \/ /\ z[b][j] \in Bidders /\ z[z[b][j]][j] = z[b][j] /\ y[b][j] = y[z[b][j]][j]
                /\ Claims(z[b][j], j)
             \/ z[b][j] = NoAgent /\ y[b][j] = 0 /\ \A k \in Bidders : ~ Claims(k, j)
      BY <2>2, QuietBelief
    <3>2. CASE z[a][j] \in Bidders /\ z[b][j] \in Bidders
      <4>1. NoAgent \notin Bidders
        BY CBBAAssumption
      <4>2. z[a][j] = z[b][j]
        BY <1>1, <2>2, <3>1, <3>2, <4>1, OneKeepsItsClaim
      <4> QED
        BY <3>1, <3>2, <4>1, <4>2
    <3>3. CASE ~ (z[a][j] \in Bidders /\ z[b][j] \in Bidders)
      BY <3>1, <3>3
    <3> QED
      BY <3>2, <3>3
  <2> QED
    BY <2>1, <2>2 DEF FrontierTasks
<1>4. ASSUME NEW a \in Bidders, NEW b \in Bidders PROVE z[a] = z[b] /\ y[a] = y[b]
  <2>1. /\ z[a] \in [Tasks -> Nat] /\ z[b] \in [Tasks -> Nat]
        /\ y[a] \in [Tasks -> Nat] /\ y[b] \in [Tasks -> Nat]
    BY <1>2 DEF TypeOK, Views
  <2> QED
    BY <1>3, <2>1
<1>5. ASSUME NEW a \in Bidders PROVE ToSet(bundle[a]) = {j \in Tasks : z[a][j] = a}
  <2>1. bundle[a] \in Seq(Tasks) /\ Lost(a) = {}
    BY <1>2, QuietLosesNothing DEF TypeOK
  <2>2. ASSUME NEW j \in ToSet(bundle[a]) PROVE j \in Tasks /\ z[a][j] = a
    BY <2>1, <2>2 DEF Lost, ToSet
  <2>3. ASSUME NEW j \in Tasks, z[a][j] = a PROVE j \in ToSet(bundle[a])
    <3>1. CASE j \in Held
      BY <1>2, <2>3, <3>1 DEF HeldLocked
    <3>2. CASE j \in FrontierTasks
      BY <1>2, <2>3, <3>2 DEF ClaimsOK
    <3> QED
      BY <2>3, <3>1, <3>2 DEF FrontierTasks
  <2> QED
    BY <2>2, <2>3
<1> QED
  BY <1>2, <1>4, <1>5 DEF BundlesOK

\* A quiet round leaves no task that somebody can do without a winner.
LEMMA QuietAwards ==
  ASSUME AgreeInv, EndRound, before = [y |-> y', z |-> z', b |-> bundle'], GainsWorthABid,
         NEW a \in Bidders, NEW j \in FrontierTasks
  PROVE  LET able == {b \in Bidders : Able(b, j)}
         IN  IF able = {} THEN z[a][j] = NoAgent ELSE z[a][j] \in able
<1> DEFINE able == {b \in Bidders : Able(b, j)}
<1>1. phase = "hear" /\ j \in Tasks
  BY DEF EndRound, FrontierTasks
<1>2. HearingOK /\ ClaimsOK(y, z) /\ TypeOK /\ BundlesOK
  BY <1>1 DEF AgreeInv, EpochInv
<1>3. z[a][j] \in Wanting(j) \cup {NoAgent}
  BY <1>2 DEF ClaimsOK
<1>4. Wanting(j) \subseteq able
  BY DEF Wanting, GainsWorthABid
<1>5. ASSUME NEW b \in able PROVE z[a][j] # NoAgent
  <2> SUFFICES ASSUME z[a][j] = NoAgent PROVE FALSE
    OBVIOUS
  <2>1. z[b][j] = NoAgent /\ b # NoAgent
    BY QuietAgrees, CBBAAssumption
  <2>2. y[b][j] = 0 /\ snap.y[b][j] = 0
    BY <1>1, <1>2, <2>1, QuietRound DEF ClaimsOK
  <2>3. j \notin ToSet(bundle[b])
    BY <2>1, QuietAgrees
  <2>4. ~ BidGt(Offer(b, j), 0)
    BY <1>2, <2>2, <2>3 DEF HearingOK
  <2>5. Offer(b, j) \in GainsOf(b, j)
    BY <1>2, <2>3, OfferOf
  <2>6. Offer(b, j) > Epsilon
    BY <2>5 DEF GainsWorthABid
  <2>7. Offer(b, j) \in Int /\ Epsilon \in Nat
    BY <1>2, <2>3, OfferOf, CBBAAssumption
  <2> QED
    BY <2>4, <2>6, <2>7 DEF BidGt
<1> QED
  BY <1>3, <1>4, <1>5

\* The end of a round keeps the invariant.
LEMMA AgreeEnd ==
  ASSUME AgreeInv, EndRound
  PROVE  AgreeInv'
<1>1. /\ bundle' = [a \in Bidders |-> Kept(a)]
      /\ y' = [a \in Bidders |-> [j \in Tasks |-> IF j \in Voided(a) THEN 0 ELSE y[a][j]]]
      /\ z' = [a \in Bidders |-> [j \in Tasks |-> IF j \in Voided(a) THEN NoAgent ELSE z[a][j]]]
      /\ before' = [y |-> y', z |-> z', b |-> bundle']
      /\ heard' = {} /\ phase = "hear" /\ heard = Bidders
      /\ UNCHANGED <<scenario, s>>
  BY DEF EndRound
<1>2. \/ phase' = "done" /\ unchanged' = QuietRounds
      \/ phase' = "failed"
      \/ phase' = "build" /\ rnd' = rnd + 1
  BY DEF EndRound
<1>3. EpochInv /\ EpochInv' /\ TypeOK /\ BundlesOK /\ ClaimsOK(y, z) /\ StampsOK
  BY <1>1, EpochEnd DEF AgreeInv, EpochInv
<1>4. FrontierTasks' = FrontierTasks /\ \A j : Wanting(j)' = Wanting(j)
  BY <1>1 DEF FrontierTasks, Held, Wanting, GainsOf
<1>5. phase' = "build" => StampsOK'
  <2>1. rnd \in Nat /\ \A i, m \in Bidders : s[i][m] \in Nat
    BY <1>3 DEF TypeOK
  <2>2. ASSUME NEW i \in Bidders, NEW m \in Bidders
        PROVE  s[i][m] <= rnd /\ (i # m => s[i][m] = rnd)
    BY <1>1, <1>3 DEF StampsOK
  <2> QED
    BY <1>1, <1>2, <2>1, <2>2 DEF StampsOK
<1>6. StampsOK'
  BY <1>2, <1>5 DEF StampsOK
<1>8. ClaimsOK(y, z)'
  <2>1. ASSUME NEW a \in Bidders, NEW j \in FrontierTasks
        PROVE  /\ z'[a][j] \in Wanting(j) \cup {NoAgent}
               /\ z'[a][j] = NoAgent => y'[a][j] = 0
               /\ z'[a][j] = a => j \in ToSet(Kept(a))
    <3>1. /\ z[a][j] \in Wanting(j) \cup {NoAgent}
          /\ z[a][j] = NoAgent => y[a][j] = 0
          /\ z[a][j] = a => j \in ToSet(bundle[a])
      BY <1>3 DEF ClaimsOK
    <3>2. /\ z'[a][j] = (IF j \in Voided(a) THEN NoAgent ELSE z[a][j])
          /\ y'[a][j] = (IF j \in Voided(a) THEN 0 ELSE y[a][j])
      BY <1>1 DEF FrontierTasks
    <3>3. a # NoAgent
      BY CBBAAssumption
    <3>4. ASSUME z'[a][j] = a PROVE j \in ToSet(Kept(a))
      <4>1. j \notin Voided(a) /\ z[a][j] = a
        BY <3>2, <3>3, <3>4
      <4>2. PICK n \in DOMAIN bundle[a] : bundle[a][n] = j
        BY <3>1, <4>1 DEF ToSet
      <4>3. CASE Lost(a) = {}
        BY <3>1, <4>1, <4>3 DEF Kept
      <4>4. CASE Lost(a) # {}
        <5> DEFINE f == FirstLost(a)
        <5>1. bundle[a] \in Seq(Tasks)
          BY <1>3 DEF TypeOK
        <5>2. f \in DOMAIN bundle[a] /\ z[a][bundle[a][f]] # a
          BY <4>4, <5>1, FirstLostOf DEF Lost
        <5>3. Voided(a) = {bundle[a][m] : m \in f + 1 .. Len(bundle[a])}
          BY <4>4 DEF Voided
        <5>4. Kept(a) = SubSeq(bundle[a], 1, f - 1)
          BY <4>4 DEF Kept
        <5> HIDE DEF f
        <5>5. n \in 1 .. Len(bundle[a]) /\ f \in 1 .. Len(bundle[a]) /\ Len(bundle[a]) \in Nat
          BY <4>2, <5>1, <5>2
        <5>6. n # f /\ ~ (n \in f + 1 .. Len(bundle[a]))
          BY <4>1, <4>2, <5>2, <5>3
        <5>7. n \in 1 .. f - 1
          BY <5>5, <5>6
        <5>8. DOMAIN Kept(a) = 1 .. f - 1 /\ Kept(a)[n] = bundle[a][n]
          BY <5>1, <5>4, <5>5, <5>7
        <5> QED
          BY <4>2, <5>7, <5>8 DEF ToSet
      <4> QED
        BY <4>3, <4>4
    <3> QED
      BY <3>1, <3>2, <3>4
  <2>2. \A a \in Bidders : bundle'[a] = Kept(a)
    BY <1>1
  <2> QED
    BY <1>4, <2>1, <2>2 DEF ClaimsOK
<1>9. BidsOK(y, z)'
  <2>1. before'.b = bundle' /\ before'.y = y' /\ before'.z = z'
    BY <1>1
  <2>2. ASSUME NEW a \in Bidders
        PROVE  bundle'[a] \in Seq(Tasks) /\ Len(bundle'[a]) \in Nat /\ Fresh(a)' = {}
    <3>1. bundle'[a] \in Seq(Tasks)
      BY <1>3 DEF EpochInv, TypeOK
    <3>2. Len(bundle'[a]) \in Nat
      BY <3>1
    <3>3. Len(bundle'[a]) + 1 .. Len(bundle'[a]) = {}
      BY <3>2
    <3> QED
      BY <2>1, <3>1, <3>2, <3>3 DEF Fresh
  <2> QED
    BY <2>1, <2>2 DEF BidsOK
<1>10. ConflictFree' /\ (GainsWorthABid => AwardsComplete)'
  <2>1. ASSUME phase' = "done" PROVE before = [y |-> y', z |-> z', b |-> bundle']
    <3>1. unchanged' = QuietRounds
      BY <1>2, <2>1
    <3> QED
      BY <3>1 DEF EndRound, QuietRounds
  <2>2. phase' = "done" => y' = y /\ z' = z /\ bundle' = bundle
    BY <2>1, QuietRound
  <2>3. ConflictFree'
    BY <2>1, <2>2, QuietAgrees DEF ConflictFree
  <2>4. GainsWorthABid' = GainsWorthABid /\ \A b, j : Able(b, j)' = Able(b, j)
    BY <1>1, <1>4 DEF GainsWorthABid, GainsOf, Able
  <2>5. (GainsWorthABid => AwardsComplete)'
    BY <1>4, <2>1, <2>2, <2>4, QuietAwards DEF AwardsComplete
  <2> QED
    BY <2>3, <2>5
<1> QED
  BY <1>2, <1>3, <1>6, <1>8, <1>9, <1>10 DEF AgreeInv

\* Nothing changes in a stutter.
LEMMA AgreeStutter ==
  ASSUME AgreeInv, UNCHANGED vars
  PROVE  AgreeInv'
<1>1. UNCHANGED <<scenario, bundle, y, z, s, snap, before, rnd, unchanged, phase, heard>>
  BY DEF vars
<1>2. EpochInv'
  <2>1. TypeOK' /\ HeldLocked' /\ HeldFirst' /\ SnapLocked'
    BY <1>1 DEF AgreeInv, EpochInv, TypeOK, Views, HeldLocked, HeldFirst, SnapLocked, Held
  <2>2. BundlesOK'
    BY <1>1 DEF AgreeInv, EpochInv, BundlesOK, Held, Doable, FrontierTasks, Able
  <2> QED
    BY <1>1, <2>1, <2>2 DEF AgreeInv, EpochInv
<1>3. StampsOK'
  BY <1>1 DEF AgreeInv, StampsOK
<1>4. /\ FrontierTasks' = FrontierTasks /\ \A j : Wanting(j)' = Wanting(j)
      /\ \A a : Fresh(a)' = Fresh(a)
      /\ \A a, j : Offer(a, j)' = Offer(a, j)
      /\ \A k, j : Claims(k, j)' = Claims(k, j)
      /\ \A a, j : GainsOf(a, j)' = GainsOf(a, j) /\ Able(a, j)' = Able(a, j)
  BY <1>1 DEF FrontierTasks, Held, Wanting, Fresh, Offer, Won, GainsOf, Able, Claims
<1>5. phase' \in {"build", "hear"} => ClaimsOK(y, z)'
  BY <1>1, <1>4 DEF AgreeInv, ClaimsOK
<1>6. phase' = "build" => BidsOK(y, z)'
  BY <1>1, <1>4 DEF AgreeInv, BidsOK
<1>7. phase' = "hear" => HearingOK'
  BY <1>1, <1>4 DEF AgreeInv, HearingOK, ClaimsOK, BidsOK, HeardOK
<1>8. ConflictFree' /\ (GainsWorthABid => AwardsComplete)'
  BY <1>1, <1>4 DEF AgreeInv, ConflictFree, GainsWorthABid, AwardsComplete
<1> QED
  BY <1>2, <1>3, <1>5, <1>6, <1>7, <1>8 DEF AgreeInv

-----------------------------------------------------------------------------
(* The greedy auctioneer.  Where gains diminish, prices never fall in an    *)
(* epoch: the agent that set a price claims the task again in the next      *)
(* round, for no less, since what it has to release it wins back in the     *)
(* same order.  So an agent that builds its bundle bids against prices that *)
(* only rise, and each of its choices remains the best one.                 *)

\* Gains that fall with the number of tasks won, whichever these are.
FallingGains == DiminishingGains /\ LengthDecides

\* What a gains from j beside n other tasks; there may be fewer it can do.
Others(a, j) == Doable(a) \ {j}
Capped(n, c) == IF n <= c THEN n ELSE c
Gain(a, j, n) ==
  LET l == CHOOSE l \in Lists(Others(a, j)) : Len(l) = Capped(n, Cardinality(Others(a, j)))
  IN  scenario.gain[a][j][l]

\* How many tasks a carries into the epoch, and what it gains from a frontier
\* task at position n of its bundle.
Carried(a) == Cardinality({j \in Held : scenario.held[j].winner = a})
Worth(a, n, j) == Gain(a, j, n - 1 - Carried(a))

\* The order of the auctioneer: the higher bid, of equal ones the smaller task.
Ahead(g, j, h, i) == g > h \/ (g = h /\ j < i)

\* Of two agents that may offer the same for a task, the one with the smaller id
\* offers it from the start, whatever it has won.
TiesStand ==
  \A a, b \in Bidders : \A j \in FrontierTasks :
    a < b /\ (\E g \in GainsOf(a, j) \cap GainsOf(b, j) : g > Epsilon) => Steady(a, j)

Regular == ExactOffers /\ FallingGains /\ TiesStand

\* What an agent believes is bid for a task is what the winner may gain from it.
PricesOK(Y, Z) ==
  \A a \in Bidders : \A j \in FrontierTasks :
    Z[a][j] # NoAgent =>
      Z[a][j] \in Bidders /\ Y[a][j] \in GainsOf(Z[a][j], j) /\ Y[a][j] > Epsilon

\* A task of a bundle is claimed for what it is worth at its position.
PlacesOK(Y, Z) ==
  \A a \in Bidders : \A n \in DOMAIN bundle[a] :
    LET j == bundle[a][n] IN
    j \notin Held =>
      /\ n > Carried(a)
      /\ Z[a][j] = a /\ Y[a][j] = Worth(a, n, j) /\ Y[a][j] > Epsilon

\* Placed at n, a task of a bundle was the best choice: what would be ahead of it
\* costs too much.
BestPlaced(a) ==
  \A n \in DOMAIN bundle[a] : \A i \in FrontierTasks :
    LET j == bundle[a][n] IN
    j \notin Held /\ i \notin {bundle[a][m] : m \in 1 .. n} =>
      \/ Ahead(Worth(a, n, j), j, Worth(a, n, i), i)
      \/ i \notin ToSet(bundle[a]) /\ ~ BidGt(Worth(a, n, i), y[a][i])

Told(a, j) == before.z[a][j] # NoAgent

\* At the start of the round all that believe a task is won believe the same bid,
\* which is that of own[j]; in a tie an agent may take one between own[j] and
\* itself for the winner.
Board(own) ==
  \A j \in FrontierTasks : \A a \in Bidders :
    Told(a, j) =>
      /\ before.z[a][j] = own[j] \/ (own[j] < before.z[a][j] /\ before.z[a][j] < a)
      /\ \A b \in Bidders : Told(b, j) => before.y[a][j] = before.y[b][j]
      /\ \A b \in Bidders : Steady(b, j) /\ Gain(b, j, 0) = before.y[a][j] => own[j] <= b

\* The bundle b that k had before the last release, which began at position f.
Released(k, b, f) ==
  /\ f \in 1 .. Len(b) + 1
  /\ IsInjective(b)
  /\ Len(before.b[k]) = f - 1 /\ \A n \in 1 .. f - 1 : before.b[k][n] = b[n]
  /\ f <= Len(b) =>
       b[f] \in FrontierTasks /\ f > Carried(k) /\ ~ BidGt(Worth(k, f, b[f]), before.y[k][b[f]])
  /\ \A n \in f + 1 .. Len(b) :
       /\ b[n] \in FrontierTasks /\ before.y[k][b[n]] = 0 /\ Worth(k, n, b[n]) > Epsilon
       /\ \A i \in FrontierTasks :
            i \notin {b[m] : m \in 1 .. n} =>
              \/ Ahead(Worth(k, n, b[n]), b[n], Worth(k, n, i), i)
              \/ ~ BidGt(Worth(k, n, i), before.y[k][i])

\* What k has announced and released it can win again at the same price.
Owed(k, b, f, own) ==
  \A j \in FrontierTasks : \A a \in Bidders :
    own[j] = k /\ Told(a, j) /\ before.z[k][j] # k =>
      \E n \in f + 1 .. Len(b) : b[n] = j /\ before.y[a][j] = Worth(k, n, j)

\* A released task is back in the bundle as soon as that has its old length.
Rebuilt(k, b, f) ==
  \A n \in f + 1 .. Len(b) :
    n <= Len(bundle[k]) => \E m \in 1 .. n : bundle[k][m] = b[n]

BuildGreedy ==
  /\ PricesOK(y, z) /\ PlacesOK(y, z)
  /\ \E own \in [FrontierTasks -> Bidders] :
       /\ Board(own)
       /\ \A k \in Bidders : \E b \in Seq(Tasks) : \E f \in Nat :
            Released(k, b, f) /\ Owed(k, b, f, own) /\ Rebuilt(k, b, f)

\* Nobody who has heard of a bid is told of a lower one.
KeepsPrice(own) ==
  \A j \in FrontierTasks : \A a \in Bidders :
    Told(a, j) => Claims(own[j], j) /\ snap.y[own[j]][j] >= before.y[a][j]

HeardBest(i, j, own) ==
  /\ y[i][j] >= snap.y[i][j]
  /\ \A k \in heard : Claims(k, j) => z[i][j] # NoAgent /\ y[i][j] >= snap.y[k][j]
  /\ \/ z[i][j] \in heard \cup {i} /\ Claims(z[i][j], j) /\ y[i][j] = snap.y[z[i][j]][j]
     \/ /\ z[i][j] = snap.z[i][j] /\ y[i][j] = snap.y[i][j]
        /\ z[i][j] = NoAgent \/ (z[i][j] \notin heard \cup {i} /\ own[j] \notin heard)
  /\ Claims(i, j) /\ z[i][j] # i /\ y[i][j] = snap.y[i][j] => z[i][j] < i
  /\ \A k \in heard :
       z[i][j] \in heard \ {i} /\ k < z[i][j] /\ Claims(k, j) /\ snap.y[k][j] >= y[i][j] =>
         z[i][j] < i

HearGreedy ==
  /\ PricesOK(y, z) /\ PricesOK(snap.y, snap.z) /\ PlacesOK(snap.y, snap.z)
  /\ \E own \in [FrontierTasks -> Bidders] :
       /\ Board(own) /\ KeepsPrice(own)
       /\ \A i \in Bidders : \A j \in FrontierTasks : HeardBest(i, j, own)

GreedyInv ==
  /\ AgreeInv
  /\ Regular =>
       /\ phase \in {"build", "hear"} =>
            PricesOK(before.y, before.z) /\ \A a \in Bidders : BestPlaced(a)
       /\ phase = "build" => BuildGreedy
       /\ phase = "hear" => HearGreedy
       /\ MatchesGreedy

-----------------------------------------------------------------------------

\* What an agent gains beside a number of others is one of its gains.
LEMMA GainOf ==
  ASSUME scenario \in Scenarios, NEW a \in Bidders, NEW j \in FrontierTasks, NEW n \in Nat
  PROVE  /\ Gain(a, j, n) \in GainsOf(a, j) /\ Gain(a, j, n) \in Int
         /\ \E l \in Lists(Others(a, j)) :
              /\ Len(l) = Capped(n, Cardinality(Others(a, j))) /\ l \in Lists(FrontierTasks \ {j})
              /\ Gain(a, j, n) = scenario.gain[a][j][l]
<1> DEFINE S == Others(a, j)
           c == Capped(n, Cardinality(S))
           l == CHOOSE l \in Lists(S) : Len(l) = c
<1>1. /\ IsFiniteSet(FrontierTasks)
      /\ scenario.gain[a][j] \in [Lists(FrontierTasks \ {j}) -> Int]
  BY ScenarioOf
<1>2. IsFiniteSet(S) /\ S \subseteq FrontierTasks \ {j}
  <2>1. S \in SUBSET FrontierTasks /\ S \subseteq FrontierTasks \ {j}
    BY DEF Others, Doable
  <2> QED
    BY <1>1, <2>1, FS_Subset
<1>3. c \in 0 .. Cardinality(S)
  <2>1. Cardinality(S) \in Nat
    BY <1>2, FS_CardinalityType
  <2> QED
    BY <2>1 DEF Capped
<1> HIDE DEF S, c
<1>4. l \in Lists(S) /\ Len(l) = c
  BY <1>2, <1>3, ListExists
<1> HIDE DEF l
<1>5. l \in Lists(FrontierTasks \ {j})
  <2>1. l \in Seq(S) /\ IsInjective(l)
    BY <1>2, <1>4, ListOf
  <2>2. ToSet(l) \subseteq FrontierTasks \ {j}
    BY <1>2, <2>1, ListIsFinite
  <2> QED
    BY <2>1, <2>2, IsList
<1>6. Gain(a, j, n) = scenario.gain[a][j][l]
  BY DEF Gain, l, c, S
<1>7. Gain(a, j, n) \in GainsOf(a, j) /\ Gain(a, j, n) \in Int
  BY <1>1, <1>5, <1>6 DEF GainsOf
<1> QED
  BY <1>4, <1>5, <1>6, <1>7 DEF S, c

\* Where only the number of the others matters, that is the gain beside any list.
LEMMA GainOfList ==
  ASSUME scenario \in Scenarios, FallingGains, NEW a \in Bidders, NEW j \in FrontierTasks,
         NEW l \in Lists(Others(a, j))
  PROVE  scenario.gain[a][j][l] = Gain(a, j, Len(l))
<1>1. IsFiniteSet(Others(a, j))
  <2>1. IsFiniteSet(FrontierTasks) /\ Others(a, j) \in SUBSET FrontierTasks
    BY ScenarioOf DEF Others, Doable
  <2> QED
    BY <2>1, FS_Subset
<1>2. Len(l) \in 0 .. Cardinality(Others(a, j))
  BY <1>1, ListOf
<1>3. Cardinality(Others(a, j)) \in Nat
  BY <1>1, FS_CardinalityType
<1> DEFINE n == Len(l)
           c == Cardinality(Others(a, j))
<1>4. n \in Nat /\ Capped(n, c) = n
  BY <1>2, <1>3 DEF Capped
<1> HIDE DEF n
<1>5. PICK m \in Lists(Others(a, j)) :
        Len(m) = Capped(n, c) /\ Gain(a, j, n) = scenario.gain[a][j][m]
  BY <1>4, GainOf
<1> QED
  BY <1>4, <1>5 DEF FallingGains, LengthDecides, Others, n

\* The more others, the smaller the gain.
LEMMA GainFalls ==
  ASSUME scenario \in Scenarios, FallingGains, NEW a \in Bidders, NEW j \in FrontierTasks,
         NEW m \in Nat, NEW n \in Nat, m <= n
  PROVE  Gain(a, j, n) <= Gain(a, j, m)
<1> DEFINE S == Others(a, j)
           c == Cardinality(S)
<1>1. IsFiniteSet(S) /\ c \in Nat
  <2>1. IsFiniteSet(FrontierTasks) /\ S \in SUBSET FrontierTasks
    BY ScenarioOf DEF Others, Doable
  <2>2. IsFiniteSet(S)
    BY <2>1, FS_Subset
  <2> QED
    BY <2>2, FS_CardinalityType
<1>2. PICK l \in Lists(S) : /\ Len(l) = Capped(n, c) /\ l \in Lists(FrontierTasks \ {j})
                           /\ Gain(a, j, n) = scenario.gain[a][j][l]
  BY GainOf
<1>3. PICK k \in Lists(S) : /\ Len(k) = Capped(m, c)
                           /\ Gain(a, j, m) = scenario.gain[a][j][k]
  BY GainOf
<1> DEFINE p == SubSeq(l, 1, Len(k))
<1> HIDE DEF S, c
<1>4. Len(k) \in 0 .. Len(l)
  BY <1>1, <1>2, <1>3 DEF Capped
<1>5. p \in Lists(S) /\ Len(p) = Len(k)
  BY <1>1, <1>4, PrefixOf
<1>6. scenario.gain[a][j][p] = scenario.gain[a][j][k]
  BY <1>3, <1>5 DEF FallingGains, LengthDecides, S, Others
<1>7. scenario.gain[a][j][l] <= scenario.gain[a][j][p]
  BY <1>2, <1>4 DEF FallingGains, DiminishingGains
<1> QED
  BY <1>2, <1>3, <1>6, <1>7

\* The gain beside none.
LEMMA FirstGain ==
  ASSUME scenario \in Scenarios, NEW a \in Bidders, NEW j \in FrontierTasks
  PROVE  Gain(a, j, 0) = scenario.gain[a][j][<<>>]
<1>1. IsFiniteSet(Others(a, j))
  <2>1. IsFiniteSet(FrontierTasks) /\ Others(a, j) \in SUBSET FrontierTasks
    BY ScenarioOf DEF Others, Doable
  <2> QED
    BY <2>1, FS_Subset
<1>2. Capped(0, Cardinality(Others(a, j))) = 0
  <2>1. Cardinality(Others(a, j)) \in Nat
    BY <1>1, FS_CardinalityType
  <2> QED
    BY <2>1 DEF Capped
<1> DEFINE n == 0
           c == Cardinality(Others(a, j))
<1>2a. n \in Nat
  OBVIOUS
<1> HIDE DEF n
<1>3. PICK l \in Lists(Others(a, j)) :
        Len(l) = Capped(n, c) /\ Gain(a, j, n) = scenario.gain[a][j][l]
  BY <1>2a, GainOf
<1>4. l \in Seq(Others(a, j))
  BY <1>1, ListOf
<1>5. l = <<>>
  BY <1>2, <1>3, <1>4 DEF n
<1> QED
  BY <1>3, <1>5 DEF n

\* What a carries into the epoch is a part of its bundle, the rest is frontier.
LEMMA CarriedOf ==
  ASSUME EpochInv, NEW a \in Bidders
  PROVE  /\ Carried(a) \in Nat /\ Len(bundle[a]) \in Nat /\ Carried(a) <= Len(bundle[a])
         /\ FallingGains =>
              \A j \in FrontierTasks \ ToSet(bundle[a]) :
                Offer(a, j) = Worth(a, Len(bundle[a]) + 1, j)
<1> DEFINE S == ToSet(bundle[a])
           H == {j \in Held : scenario.held[j].winner = a}
<1>1. TypeOK /\ HeldLocked /\ BundlesOK /\ bundle[a] \in Seq(Tasks) /\ IsInjective(bundle[a])
  BY DEF EpochInv, TypeOK, BundlesOK
<1>2. IsFiniteSet(S) /\ Cardinality(S) = Len(bundle[a]) /\ Cardinality(S) \in Nat
  BY <1>1, ListIsFinite
<1>3. Carried(a) = Cardinality(S \cap Held)
  <2>1. H = S \cap Held
    BY <1>1 DEF HeldLocked
  <2> QED
    BY <2>1 DEF Carried
<1> HIDE DEF S, H
<1>4. IsFiniteSet(S \cap Held) /\ Cardinality(S \cap Held) <= Cardinality(S)
  BY <1>2, FS_Intersection
<1>5. Cardinality(S \cap Held) \in Nat
  BY <1>4, FS_CardinalityType
<1>6. Cardinality(S \ Held) = Len(bundle[a]) - Carried(a)
  <2>1. Cardinality(S \ Held) = Cardinality(S) - Cardinality(S \cap Held)
    BY <1>2, FS_Difference, Zenon
  <2> QED
    BY <1>2, <1>3, <2>1
<1>7. ASSUME FallingGains, NEW j \in FrontierTasks \ S
      PROVE  Offer(a, j) = Worth(a, Len(bundle[a]) + 1, j)
  <2>1. j \in FrontierTasks /\ j \notin ToSet(bundle[a])
    BY DEF S
  <2>2. Won(a) \in Lists(Others(a, j))
    BY <1>1, <2>1, OfferOf DEF Others
  <2>3. Won(a) \in Seq(Tasks) /\ IsInjective(Won(a)) /\ ToSet(Won(a)) = S \ Held
    BY <1>1, WonTasks DEF S
  <2>4. Len(Won(a)) = Len(bundle[a]) - Carried(a)
    BY <1>6, <2>3, ListIsFinite
  <2>5. Offer(a, j) = Gain(a, j, Len(Won(a)))
    BY <1>1, <1>7, <2>1, <2>2, GainOfList DEF Offer, TypeOK
  <2>6. Len(bundle[a]) + 1 - 1 - Carried(a) = Len(bundle[a]) - Carried(a)
    BY <1>2, <1>3, <1>5
  <2> QED
    BY <2>4, <2>5, <2>6 DEF Worth
<1> QED
  BY <1>2, <1>3, <1>4, <1>5, <1>7 DEF S

\* What a task is worth at a position is a gain, and not more than further ahead.
LEMMA WorthOf ==
  ASSUME TypeOK, NEW a \in Bidders, NEW j \in FrontierTasks, Carried(a) \in Nat,
         NEW n \in Nat, Carried(a) < n
  PROVE  /\ Worth(a, n, j) \in Int /\ Worth(a, n, j) \in GainsOf(a, j)
         /\ FallingGains =>
              \A m \in Nat : Carried(a) < m /\ m <= n => Worth(a, n, j) <= Worth(a, m, j)
<1>1. scenario \in Scenarios
  BY DEF TypeOK
<1>2. n - 1 - Carried(a) \in Nat
  OBVIOUS
<1>3. Worth(a, n, j) \in Int /\ Worth(a, n, j) \in GainsOf(a, j)
  BY <1>1, <1>2, GainOf DEF Worth
<1>4. ASSUME FallingGains, NEW m \in Nat, Carried(a) < m, m <= n
      PROVE  Worth(a, n, j) <= Worth(a, m, j)
  <2>1. m - 1 - Carried(a) \in Nat /\ m - 1 - Carried(a) <= n - 1 - Carried(a)
    BY <1>4
  <2> QED
    BY <1>1, <1>2, <1>4, <2>1, GainFalls DEF Worth
<1> QED
  BY <1>3, <1>4

\* Between gains a bid is higher or not; there is no near miss.
LEMMA ExactBids ==
  ASSUME TypeOK, ExactOffers, NEW a \in Bidders, NEW b \in Bidders,
         NEW j \in FrontierTasks, NEW i \in FrontierTasks,
         NEW g \in GainsOf(a, j), NEW h \in GainsOf(b, i)
  PROVE  g \in Int /\ h \in Int /\ (BidGt(g, h) <=> g > h)
<1>1. /\ scenario.gain[a][j] \in [Lists(FrontierTasks \ {j}) -> Int]
      /\ scenario.gain[b][i] \in [Lists(FrontierTasks \ {i}) -> Int]
  BY ScenarioOf DEF TypeOK
<1>2. g \in Int /\ h \in Int
  BY <1>1 DEF GainsOf
<1>3. g \in Offered /\ h \in Offered
  BY DEF Offered
<1>4. h < g => g - h > Epsilon
  BY <1>3 DEF ExactOffers
<1>5. Epsilon \in Nat
  BY CBBAAssumption
<1> QED
  BY <1>2, <1>4, <1>5 DEF BidGt

\* The best candidate is ahead of every other one.
LEMMA ChoiceOf ==
  ASSUME TypeOK, BundlesOK, ExactOffers, NEW a \in Bidders, NEW p \in BestCandidates(a),
         NEW c \in Candidates(a), c # p
  PROVE  p \in Candidates(a) /\ Ahead(Offer(a, p), p, Offer(a, c), c)
<1>1. p \in Candidates(a)
  BY DEF BestCandidates
<1>2. PICK L \in SUBSET Candidates(a) : Leaders(a, L) /\ p \in L /\ \A h \in L : h <= p
  BY DEF BestCandidates
<1>3. ASSUME NEW h \in Candidates(a), NEW i \in Candidates(a)
      PROVE  /\ Offer(a, h) \in Int /\ Offer(a, i) \in Int /\ h \in Nat
             /\ BidGt(Offer(a, h), Offer(a, i)) <=> Offer(a, h) > Offer(a, i)
  <2>1. h \in FrontierTasks \ ToSet(bundle[a]) /\ i \in FrontierTasks \ ToSet(bundle[a])
    BY DEF Candidates
  <2>2. Offer(a, h) \in GainsOf(a, h) /\ Offer(a, i) \in GainsOf(a, i)
    BY <2>1, OfferOf
  <2>3. h \in Nat
    BY <2>1, CBBAAssumption DEF FrontierTasks
  <2> QED
    BY <2>1, <2>2, <2>3, ExactBids
<1>4. CASE c \in L
  <2>1. c <= p /\ c \in Nat /\ p \in Nat
    BY <1>1, <1>2, <1>3, <1>4
  <2>2. BidGt(Offer(a, p), Offer(a, c))
    BY <1>1, <1>2, <1>4, <2>1 DEF Leaders
  <2> QED
    BY <1>1, <1>3, <2>2 DEF Ahead
<1>5. CASE c \notin L
  <2>1. PICK h \in L : h < c /\ ~ BidGt(Offer(a, c), Offer(a, h))
    BY <1>2, <1>5 DEF Leaders
  <2>2. h \in Candidates(a) /\ h \in Nat /\ c \in Nat /\ p \in Nat
    BY <1>1, <1>2, <1>3, <2>1
  <2>3. Offer(a, c) <= Offer(a, h) /\ Offer(a, c) \in Int /\ Offer(a, h) \in Int /\ Offer(a, p) \in Int
    BY <1>1, <1>3, <2>1, <2>2
  <2>4. CASE h = p
    BY <1>1, <2>1, <2>2, <2>3, <2>4 DEF Ahead
  <2>5. CASE h # p
    <3>1. h < p
      BY <1>2, <2>1, <2>2, <2>5
    <3>2. BidGt(Offer(a, p), Offer(a, h))
      BY <1>1, <1>2, <2>1, <3>1 DEF Leaders
    <3>3. Offer(a, p) > Offer(a, h)
      BY <1>1, <1>3, <2>2, <3>2
    <3> QED
      BY <1>1, <2>3, <3>3 DEF Ahead
  <2> QED
    BY <2>4, <2>5
<1> QED
  BY <1>4, <1>5

\* A position of a bundle behind what is carried has a worth for every task.
LEMMA PlaceWorth ==
  ASSUME EpochInv, NEW a \in Bidders, NEW n \in DOMAIN bundle[a], n > Carried(a),
         NEW j \in FrontierTasks
  PROVE  /\ n \in Nat /\ Carried(a) \in Nat
         /\ Worth(a, n, j) \in Int /\ Worth(a, n, j) \in GainsOf(a, j)
<1>1. TypeOK /\ bundle[a] \in Seq(Tasks)
  BY DEF EpochInv, TypeOK
<1>2. n \in Nat
  BY <1>1
<1>3. Carried(a) \in Nat /\ Carried(a) < n
  BY <1>2, CarriedOf
<1>4. Worth(a, n, j) \in Int /\ Worth(a, n, j) \in GainsOf(a, j)
  BY <1>1, <1>2, <1>3, WorthOf
<1> QED
  BY <1>2, <1>3, <1>4

\* What only depends on the scenario stays the same in an epoch.
LEMMA SameScenario ==
  ASSUME scenario' = scenario
  PROVE  /\ FrontierTasks' = FrontierTasks /\ Held' = Held /\ Regular' = Regular
         /\ ExactOffers' = ExactOffers /\ FallingGains' = FallingGains
         /\ DiminishingGains' = DiminishingGains /\ LengthDecides' = LengthDecides
         /\ \A a : Doable(a)' = Doable(a)
         /\ \A a, j : GainsOf(a, j)' = GainsOf(a, j) /\ Steady(a, j)' = Steady(a, j)
         /\ \A a : Carried(a)' = Carried(a)
         /\ \A a, j, n : Gain(a, j, n)' = Gain(a, j, n) /\ Worth(a, n, j)' = Worth(a, n, j)
<1>1. FrontierTasks' = FrontierTasks /\ Held' = Held
  BY DEF FrontierTasks, Held
<1>2. \A a, j : GainsOf(a, j)' = GainsOf(a, j)
  BY <1>1 DEF GainsOf
<1>2a. \A a : Doable(a)' = Doable(a)
  BY <1>1 DEF Doable, Able
<1>3. \A a, j, n : Gain(a, j, n)' = Gain(a, j, n)
  BY <1>2a DEF Gain, Others
<1>4. \A a, j : Steady(a, j)' = Steady(a, j)
  BY <1>2 DEF Steady
<1>5. \A a : Carried(a)' = Carried(a)
  BY <1>1 DEF Carried
<1>6. \A a, j, n : Worth(a, n, j)' = Worth(a, n, j)
  BY <1>3, <1>5 DEF Worth
<1>7. Offered' = Offered
  BY <1>1, <1>2 DEF Offered
<1>8. ExactOffers' = ExactOffers
  BY <1>7 DEF ExactOffers
<1>9. DiminishingGains' = DiminishingGains /\ LengthDecides' = LengthDecides
  BY <1>1, <1>2a DEF DiminishingGains, LengthDecides
<1>10. TiesStand' = TiesStand
  BY <1>1, <1>2, <1>4 DEF TiesStand
<1> QED
  BY <1>1, <1>2, <1>2a, <1>3, <1>4, <1>5, <1>6, <1>8, <1>9, <1>10 DEF Regular, FallingGains

\* At the start nobody has bid, and nothing has been released.
LEMMA GreedyInit ==
  ASSUME Init
  PROVE  GreedyInv
<1>1. AgreeInv /\ phase = "build" /\ before = [y |-> y, z |-> z, b |-> bundle]
  BY AgreeInit DEF Init
<1>2. EpochInv /\ BundlesOK /\ TypeOK
  BY <1>1 DEF AgreeInv, EpochInv
<1>3. before.y = y /\ before.z = z /\ before.b = bundle
  BY <1>1
<1>4. ASSUME NEW a \in Bidders, NEW j \in FrontierTasks PROVE z[a][j] = NoAgent
  BY DEF Init, FrontierTasks
<1>5. PricesOK(y, z)
  BY <1>4 DEF PricesOK
<1>6. ASSUME NEW a \in Bidders, NEW n \in DOMAIN bundle[a] PROVE bundle[a][n] \in Held
  <2>1. bundle[a][n] \in ToSet(bundle[a])
    BY DEF ToSet
  <2> QED
    BY <2>1 DEF Init
<1>7. PlacesOK(y, z) /\ \A a \in Bidders : BestPlaced(a)
  BY <1>6 DEF PlacesOK, BestPlaced
<1>8. \A a \in Bidders : \A j \in FrontierTasks : ~ Told(a, j)
  BY <1>3, <1>4 DEF Told
<1>9. ASSUME NEW k \in Bidders, NEW own
      PROVE  \E b \in Seq(Tasks) : \E f \in Nat :
               Released(k, b, f) /\ Owed(k, b, f, own) /\ Rebuilt(k, b, f)
  <2> DEFINE b == bundle[k]
             f == Len(b) + 1
  <2>1. b \in Seq(Tasks) /\ Len(b) \in Nat /\ IsInjective(b)
    BY <1>2 DEF TypeOK, BundlesOK
  <2>2. f \in Nat /\ f \in 1 .. Len(b) + 1 /\ ~ (f <= Len(b)) /\ f - 1 = Len(b) /\ f + 1 .. Len(b) = {}
    BY <2>1
  <2>4. before.b[k] = b
    BY <1>3
  <2> HIDE DEF b, f
  <2>5. Released(k, b, f)
    BY <2>1, <2>2, <2>4 DEF Released
  <2>6. Owed(k, b, f, own)
    BY <1>8 DEF Owed
  <2>7. Rebuilt(k, b, f)
    BY <2>2 DEF Rebuilt
  <2> QED
    BY <2>1, <2>2, <2>5, <2>6, <2>7
<1>10. BuildGreedy
  <2> DEFINE own == [j \in FrontierTasks |-> CHOOSE b \in Bidders : TRUE]
  <2>1. own \in [FrontierTasks -> Bidders]
    BY CBBAAssumption
  <2> HIDE DEF own
  <2>2. Board(own)
    BY <1>8 DEF Board
  <2> QED
    BY <1>5, <1>7, <1>9, <2>1, <2>2 DEF BuildGreedy
<1>11. PricesOK(before.y, before.z)
  BY <1>3, <1>5
<1> QED
  BY <1>1, <1>7, <1>10, <1>11 DEF GreedyInv, MatchesGreedy, GreedyAwards

-----------------------------------------------------------------------------
(* A bid.                                                                  *)

\* A bid in terms of one agent.
BidsFor(a, p) ==
  /\ bundle'[a] = Append(bundle[a], p)
  /\ y'[a] = [y[a] EXCEPT ![p] = Offer(a, p)]
  /\ z'[a] = [z[a] EXCEPT ![p] = a]

\* In a round of bids every agent leaves its bundle alone or appends its choice.
LEMMA BidOf ==
  ASSUME TypeOK, Bid, NEW a \in Bidders
  PROVE  \/ bundle'[a] = bundle[a] /\ y'[a] = y[a] /\ z'[a] = z[a]
         \/ \E p \in BestCandidates(a) : BidsFor(a, p)
<1> DEFINE bidding == {b \in Bidders : Candidates(b) # {}}
<1>1. PICK best \in Picks([b \in bidding |-> BestCandidates(b)]) :
        /\ bundle' = [b \in Bidders |->
                        IF b \in bidding THEN Append(bundle[b], best[b]) ELSE bundle[b]]
        /\ y' = [b \in Bidders |->
                   IF b \in bidding THEN [y[b] EXCEPT ![best[b]] = Offer(b, best[b])] ELSE y[b]]
        /\ z' = [b \in Bidders |->
                   IF b \in bidding THEN [z[b] EXCEPT ![best[b]] = b] ELSE z[b]]
  BY DEF Bid
<1>2. CASE a \in bidding
  <2>1. best[a] \in BestCandidates(a)
    BY <1>1, <1>2 DEF Picks
  <2>2. BidsFor(a, best[a])
    BY <1>1, <1>2 DEF BidsFor
  <2> QED
    BY <2>1, <2>2
<1>3. CASE a \notin bidding
  BY <1>1, <1>3
<1> QED
  BY <1>2, <1>3

\* What a bid does to the bundle and the beliefs of its agent.
LEMMA BidFor ==
  ASSUME TypeOK, BundlesOK, NEW a \in Bidders, NEW p \in BestCandidates(a), BidsFor(a, p)
  PROVE  /\ p \in Candidates(a) /\ p \in FrontierTasks \ ToSet(bundle[a])
         /\ Offer(a, p) \in Nat /\ Offer(a, p) > Epsilon /\ Offer(a, p) \in GainsOf(a, p)
         /\ Len(bundle[a]) \in Nat
         /\ DOMAIN bundle[a] = 1 .. Len(bundle[a])
         /\ Len(bundle'[a]) = Len(bundle[a]) + 1
         /\ DOMAIN bundle'[a] = 1 .. Len(bundle[a]) + 1
         /\ \A n \in 1 .. Len(bundle[a]) : bundle'[a][n] = bundle[a][n] /\ bundle[a][n] # p
         /\ bundle'[a][Len(bundle[a]) + 1] = p
         /\ ToSet(bundle'[a]) = ToSet(bundle[a]) \cup {p}
         /\ y'[a][p] = Offer(a, p) /\ z'[a][p] = a
         /\ \A j \in FrontierTasks \ {p} : y'[a][j] = y[a][j] /\ z'[a][j] = z[a][j]
<1>1. bundle[a] \in Seq(Tasks) /\ y[a] \in [Tasks -> Nat] /\ z[a] \in [Tasks -> Nat]
  BY DEF TypeOK, Views
<1>2. p \in Candidates(a)
  BY DEF BestCandidates
<1>3. p \in Tasks /\ p \notin ToSet(bundle[a]) /\ p \in FrontierTasks
  BY <1>2, CandidateOf DEF FrontierTasks
<1>4. Offer(a, p) \in Nat /\ Offer(a, p) > Epsilon
  BY <1>2, CandidateOf
<1>5. Offer(a, p) \in GainsOf(a, p)
  BY <1>3, OfferOf
<1>6. Len(bundle[a]) \in Nat /\ DOMAIN bundle[a] = 1 .. Len(bundle[a])
  BY <1>1
<1>7. /\ Len(bundle'[a]) = Len(bundle[a]) + 1
      /\ DOMAIN bundle'[a] = 1 .. Len(bundle[a]) + 1
      /\ \A n \in 1 .. Len(bundle[a]) : bundle'[a][n] = bundle[a][n]
      /\ bundle'[a][Len(bundle[a]) + 1] = p
  <2> DEFINE b == bundle[a]
             c == bundle'[a]
  <2>1. c = Append(b, p) /\ b \in Seq(Tasks) /\ p \in Tasks
    BY <1>1, <1>3 DEF BidsFor
  <2> HIDE DEF b, c
  <2>2. /\ Len(c) = Len(b) + 1 /\ DOMAIN c = 1 .. Len(b) + 1
        /\ \A n \in 1 .. Len(b) : c[n] = b[n]
        /\ c[Len(b) + 1] = p
    BY <2>1
  <2> QED
    BY <2>2 DEF b, c
<1>8. \A n \in 1 .. Len(bundle[a]) : bundle[a][n] # p
  BY <1>3, <1>6 DEF ToSet
<1>9. ToSet(bundle'[a]) = ToSet(bundle[a]) \cup {p}
  <2>1. 1 .. Len(bundle[a]) + 1 = 1 .. Len(bundle[a]) \cup {Len(bundle[a]) + 1}
    BY <1>6
  <2> QED
    BY <1>6, <1>7, <2>1 DEF ToSet
<1>10. FrontierTasks \subseteq Tasks
  BY DEF FrontierTasks
<1>11. y'[a][p] = Offer(a, p) /\ z'[a][p] = a
  BY <1>1, <1>3 DEF BidsFor
<1>12. \A j \in FrontierTasks \ {p} : y'[a][j] = y[a][j] /\ z'[a][j] = z[a][j]
  BY <1>1, <1>10 DEF BidsFor
<1> QED
  BY <1>2, <1>3, <1>4, <1>5, <1>6, <1>7, <1>8, <1>9, <1>11, <1>12

\* A bid is what the task is worth to its agent at the position it gets.
LEMMA BidPlaces ==
  ASSUME AgreeInv, FallingGains, PricesOK(y, z), PlacesOK(y, z), Bid
  PROVE  PricesOK(y, z)' /\ PlacesOK(y, z)'
<1>1. TypeOK /\ EpochInv /\ BundlesOK /\ scenario' = scenario
  BY DEF AgreeInv, EpochInv, Bid
<1>2. /\ FrontierTasks' = FrontierTasks /\ Held' = Held
      /\ \A a, j : GainsOf(a, j)' = GainsOf(a, j)
      /\ \A a : Carried(a)' = Carried(a)
      /\ \A a, j, n : Worth(a, n, j)' = Worth(a, n, j)
  BY <1>1, SameScenario
<1>3. ASSUME NEW a \in Bidders, NEW j \in FrontierTasks, z'[a][j] # NoAgent
      PROVE  /\ z'[a][j] \in Bidders /\ y'[a][j] \in GainsOf(z'[a][j], j)
             /\ y'[a][j] > Epsilon
  <2>1. CASE z'[a][j] = z[a][j] /\ y'[a][j] = y[a][j]
    BY <1>3, <2>1 DEF PricesOK
  <2>2. CASE ~ (z'[a][j] = z[a][j] /\ y'[a][j] = y[a][j])
    <3>1. PICK p \in BestCandidates(a) : BidsFor(a, p)
      BY <1>1, <2>2, BidOf
    <3>2. j = p
      BY <1>1, <2>2, <3>1, BidFor
    <3> QED
      BY <1>1, <3>1, <3>2, BidFor
  <2> QED
    BY <2>1, <2>2
<1>4. PricesOK(y, z)'
  BY <1>2, <1>3 DEF PricesOK
<1>5. ASSUME NEW a \in Bidders, NEW n \in DOMAIN bundle'[a], bundle'[a][n] \notin Held
      PROVE  /\ n > Carried(a)
             /\ z'[a][bundle'[a][n]] = a /\ y'[a][bundle'[a][n]] = Worth(a, n, bundle'[a][n])
             /\ y'[a][bundle'[a][n]] > Epsilon
  <2>1. CASE bundle'[a] = bundle[a] /\ y'[a] = y[a] /\ z'[a] = z[a]
    BY <1>5, <2>1 DEF PlacesOK
  <2>2. ASSUME NEW p \in BestCandidates(a), BidsFor(a, p)
        PROVE  /\ n > Carried(a)
               /\ z'[a][bundle'[a][n]] = a /\ y'[a][bundle'[a][n]] = Worth(a, n, bundle'[a][n])
               /\ y'[a][bundle'[a][n]] > Epsilon
    <3>1. Len(bundle[a]) \in Nat /\ n \in 1 .. Len(bundle[a]) + 1
      BY <1>1, <2>2, BidFor
    <3>2. CASE n \in 1 .. Len(bundle[a])
      <4>1. bundle'[a][n] = bundle[a][n] /\ bundle[a][n] # p /\ n \in DOMAIN bundle[a]
        BY <1>1, <2>2, <3>2, BidFor
      <4>2. bundle[a][n] \in FrontierTasks
        <5>1. bundle[a] \in Seq(Tasks)
          BY <1>1 DEF TypeOK
        <5> QED
          BY <1>5, <4>1, <5>1 DEF FrontierTasks
      <4>3. y'[a][bundle[a][n]] = y[a][bundle[a][n]] /\ z'[a][bundle[a][n]] = z[a][bundle[a][n]]
        BY <1>1, <2>2, <4>1, <4>2, BidFor
      <4> QED
        BY <1>5, <4>1, <4>3 DEF PlacesOK
    <3>3. CASE n = Len(bundle[a]) + 1
      <4>1. bundle'[a][n] = p /\ y'[a][p] = Offer(a, p) /\ z'[a][p] = a /\ Offer(a, p) > Epsilon
        BY <1>1, <2>2, <3>3, BidFor
      <4>2. /\ Carried(a) <= Len(bundle[a]) /\ Carried(a) \in Nat
            /\ Offer(a, p) = Worth(a, Len(bundle[a]) + 1, p)
        BY <1>1, <2>2, BidFor, CarriedOf
      <4> QED
        BY <3>1, <3>3, <4>1, <4>2
    <3> QED
      BY <3>1, <3>2, <3>3
  <2> QED
    BY <1>1, <2>1, <2>2, BidOf
<1>6. PlacesOK(y, z)'
  BY <1>2, <1>5 DEF PlacesOK
<1> QED
  BY <1>4, <1>6

\* A bid for the best candidate leaves nothing better behind.
LEMMA BidBest ==
  ASSUME AgreeInv, ExactOffers, FallingGains, PlacesOK(y, z), Bid,
         NEW a \in Bidders, BestPlaced(a)
  PROVE  BestPlaced(a)'
<1>1. TypeOK /\ EpochInv /\ BundlesOK /\ scenario' = scenario
  BY DEF AgreeInv, EpochInv, Bid
<1>2. /\ FrontierTasks' = FrontierTasks /\ Held' = Held
      /\ \A n, j : Worth(a, n, j)' = Worth(a, n, j)
  BY <1>1, SameScenario
<1>3. CASE bundle'[a] = bundle[a] /\ y'[a] = y[a]
  BY <1>2, <1>3 DEF BestPlaced
<1>4. ASSUME NEW p \in BestCandidates(a), BidsFor(a, p),
             NEW n \in DOMAIN bundle'[a], NEW i \in FrontierTasks,
             bundle'[a][n] \notin Held, i \notin {bundle'[a][m] : m \in 1 .. n}
      PROVE  \/ Ahead(Worth(a, n, bundle'[a][n]), bundle'[a][n], Worth(a, n, i), i)
             \/ i \notin ToSet(bundle'[a]) /\ ~ BidGt(Worth(a, n, i), y'[a][i])
  <2>1. /\ Len(bundle[a]) \in Nat /\ n \in 1 .. Len(bundle[a]) + 1
        /\ DOMAIN bundle[a] = 1 .. Len(bundle[a])
        /\ \A m \in 1 .. Len(bundle[a]) : bundle'[a][m] = bundle[a][m]
    BY <1>1, <1>4, BidFor
  <2>2. /\ p \in Candidates(a) /\ p \in FrontierTasks /\ p \notin ToSet(bundle[a])
        /\ ToSet(bundle'[a]) = ToSet(bundle[a]) \cup {p}
        /\ \A j \in FrontierTasks \ {p} : y'[a][j] = y[a][j]
        /\ bundle'[a][Len(bundle[a]) + 1] = p
    BY <1>1, <1>4, BidFor
  <2>3. /\ Carried(a) \in Nat /\ Carried(a) <= Len(bundle[a])
        /\ \A j \in FrontierTasks \ ToSet(bundle[a]) : Offer(a, j) = Worth(a, Len(bundle[a]) + 1, j)
    BY <1>1, <2>2, CarriedOf
  <2>4. CASE n \in 1 .. Len(bundle[a])
    <3>1. bundle'[a][n] = bundle[a][n] /\ i \notin {bundle[a][m] : m \in 1 .. n}
      BY <1>4, <2>1, <2>4
    <3>2. /\ bundle[a][n] \notin Held /\ n \in DOMAIN bundle[a] /\ n > Carried(a)
      BY <1>4, <2>1, <2>4, <3>1 DEF PlacesOK
    <3>3. \/ Ahead(Worth(a, n, bundle[a][n]), bundle[a][n], Worth(a, n, i), i)
          \/ i \notin ToSet(bundle[a]) /\ ~ BidGt(Worth(a, n, i), y[a][i])
      BY <3>1, <3>2 DEF BestPlaced
    <3>4. i = p => BidGt(Worth(a, n, i), y[a][i])
      <4> DEFINE l == Len(bundle[a]) + 1
      <4>1. BidGt(Worth(a, l, p), y[a][p])
        BY <2>2, <2>3 DEF Candidates
      <4>2. n \in Nat /\ n <= l /\ l \in Nat /\ Carried(a) < n /\ Carried(a) < l
        BY <2>1, <2>3, <3>2
      <4> HIDE DEF l
      <4>4. Worth(a, l, p) <= Worth(a, n, p)
        BY <1>1, <2>2, <2>3, <4>2, WorthOf
      <4>5. Worth(a, l, p) \in Int
        BY <1>1, <2>2, <2>3, <4>2, WorthOf
      <4>6. Worth(a, n, p) \in Int
        BY <1>1, <2>2, <2>3, <4>2, WorthOf
      <4>7. y[a][p] \in Nat /\ Epsilon \in Nat
        <5>1. y \in Views /\ p \in Tasks
          BY <1>1, <2>2, Zenon DEF TypeOK, FrontierTasks
        <5> QED
          BY <5>1, CBBAAssumption DEF Views
      <4> QED
        BY <4>1, <4>4, <4>5, <4>6, <4>7 DEF BidGt
    <3>5. i # p => y'[a][i] = y[a][i]
      BY <2>2
    <3> QED
      BY <2>2, <3>1, <3>3, <3>4, <3>5
  <2>5. CASE n = Len(bundle[a]) + 1
    <3>1. bundle'[a][n] = p /\ i # p
      BY <1>4, <2>1, <2>2, <2>5
    <3>2. i \notin ToSet(bundle[a])
      <4>1. \A m \in 1 .. Len(bundle[a]) : m \in 1 .. n /\ bundle'[a][m] = bundle[a][m]
        BY <2>1, <2>5
      <4> QED
        BY <1>4, <2>1, <4>1 DEF ToSet
    <3>3. Offer(a, p) = Worth(a, n, p) /\ Offer(a, i) = Worth(a, n, i)
      BY <1>4, <2>2, <2>3, <2>5, <3>2
    <3>4. CASE i \in Candidates(a)
      <4>1. Ahead(Offer(a, p), p, Offer(a, i), i)
        BY <1>1, <1>4, <3>1, <3>4, ChoiceOf
      <4> QED
        BY <3>1, <3>3, <4>1
    <3>5. CASE i \notin Candidates(a)
      <4>1. ~ BidGt(Offer(a, i), y[a][i]) /\ y'[a][i] = y[a][i]
        BY <2>2, <3>1, <3>2, <3>5 DEF Candidates
      <4> QED
        BY <2>2, <3>1, <3>2, <3>3, <4>1
    <3> QED
      BY <3>4, <3>5
  <2> QED
    BY <2>1, <2>4, <2>5
<1>5. ASSUME NEW p \in BestCandidates(a), BidsFor(a, p)
      PROVE  BestPlaced(a)'
  BY <1>2, <1>4, <1>5 DEF BestPlaced
<1> QED
  BY <1>1, <1>3, <1>5, BidOf

\* The released tasks come back in their old order: while one is missing at its
\* old position, what was not better than it before the release is not better now.
LEMMA BidRebuilt ==
  ASSUME AgreeInv, ExactOffers, FallingGains, Bid, NEW k \in Bidders,
         NEW b \in Seq(Tasks), NEW f \in Nat, Released(k, b, f), Rebuilt(k, b, f)
  PROVE  Rebuilt(k, b, f)'
<1>1. TypeOK /\ EpochInv /\ BundlesOK /\ BidsOK(y, z)
  BY DEF AgreeInv, EpochInv, Bid
<1>2. Len(bundle[k]) \in Nat /\ DOMAIN bundle[k] = 1 .. Len(bundle[k]) /\ Len(b) \in Nat
  BY <1>1 DEF TypeOK
<1>3. CASE bundle'[k] = bundle[k]
  BY <1>3 DEF Rebuilt
<1>4. ASSUME NEW p \in BestCandidates(k), BidsFor(k, p),
             NEW n \in f + 1 .. Len(b), n <= Len(bundle'[k])
      PROVE  \E m \in 1 .. n : bundle'[k][m] = b[n]
  <2>1. /\ p \in Candidates(k) /\ p \in FrontierTasks /\ p \notin ToSet(bundle[k])
        /\ Len(bundle'[k]) = Len(bundle[k]) + 1
        /\ \A m \in 1 .. Len(bundle[k]) : bundle'[k][m] = bundle[k][m]
        /\ bundle'[k][Len(bundle[k]) + 1] = p
    BY <1>1, <1>4, BidFor, SMTT(30)
  <2>2. n \in Nat /\ f < n /\ n <= Len(b) /\ 1 <= f /\ f <= Len(b)
    BY <1>2 DEF Released
  <2>3. CASE n <= Len(bundle[k])
    <3>1. PICK m \in 1 .. n : bundle[k][m] = b[n]
      BY <2>3 DEF Rebuilt
    <3>2. m \in 1 .. Len(bundle[k])
      BY <1>2, <2>2, <2>3
    <3> QED
      BY <2>1, <3>1, <3>2
  <2>4. CASE n = Len(bundle[k]) + 1
    <3> SUFFICES ASSUME ~ \E m \in 1 .. n : bundle'[k][m] = b[n]
                 PROVE  FALSE
      OBVIOUS
    <3>1. n \in 1 .. n
      BY <2>2
    <3>2. b[n] # p
      BY <2>1, <2>4, <3>1
    <3>3. b[n] \notin ToSet(bundle[k])
      <4>1. \A m \in 1 .. Len(bundle[k]) : m \in 1 .. n /\ bundle'[k][m] = bundle[k][m]
        BY <1>2, <2>1, <2>4
      <4> QED
        BY <1>2, <4>1 DEF ToSet
    <3>4. /\ b[n] \in FrontierTasks /\ before.y[k][b[n]] = 0 /\ Worth(k, n, b[n]) > Epsilon
          /\ \A i \in FrontierTasks :
               i \notin {b[m] : m \in 1 .. n} =>
                 \/ Ahead(Worth(k, n, b[n]), b[n], Worth(k, n, i), i)
                 \/ ~ BidGt(Worth(k, n, i), before.y[k][i])
      BY DEF Released
    <3>5. \A j \in FrontierTasks \ ToSet(bundle[k]) : y[k][j] = before.y[k][j]
      <4>1. /\ Len(before.b[k]) \in Nat
        BY <1>1 DEF BidsOK
      <4>2. \A j : j \notin ToSet(bundle[k]) => j \notin Fresh(k)
        BY <1>2, <4>1 DEF Fresh, ToSet
      <4> QED
        BY <1>1, <4>2 DEF BidsOK, FrontierTasks
    <3>6. \A j \in FrontierTasks \ ToSet(bundle[k]) : Offer(k, j) = Worth(k, n, j)
      BY <1>1, <2>4, CarriedOf
    <3>7. Carried(k) \in Nat
      BY <1>1, CarriedOf
    <3>8. Carried(k) < f
      BY <2>2 DEF Released
    <3>9. b[n] \in Candidates(k)
      <4>1. Worth(k, n, b[n]) > 0 + Epsilon
        <5>1. Epsilon \in Nat
          BY CBBAAssumption
        <5> QED
          BY <3>4, <5>1
      <4> QED
        BY <3>3, <3>4, <3>5, <3>6, <4>1 DEF Candidates, BidGt
    <3>10. Ahead(Worth(k, n, p), p, Worth(k, n, b[n]), b[n])
      BY <1>1, <1>4, <2>1, <3>2, <3>3, <3>4, <3>6, <3>9, ChoiceOf
    <3>11. BidGt(Worth(k, n, p), before.y[k][p])
      BY <2>1, <3>5, <3>6 DEF Candidates
    <3>12. ASSUME NEW m \in 1 .. n, b[m] = p PROVE FALSE
      <4>1. CASE m < f
        <5>1. m \in 1 .. f - 1 /\ Len(before.b[k]) = f - 1
          BY <2>2, <4>1 DEF Released
        <5>2. before.b[k][m] = p /\ m \in 1 .. Len(before.b[k])
          BY <3>12, <5>1 DEF Released
        <5>3. bundle[k][m] = p /\ Len(before.b[k]) <= Len(bundle[k]) 
          BY <1>1, <5>2 DEF BidsOK
        <5>4. m \in 1 .. Len(bundle[k])
          BY <1>2, <2>2, <5>1, <5>3
        <5> QED
          BY <1>2, <2>1, <5>3, <5>4 DEF ToSet
      <4>2. CASE m = f
        <5>1. ~ BidGt(Worth(k, f, p), before.y[k][p])
          BY <2>2, <3>12, <4>2 DEF Released
        <5>3. Worth(k, n, p) <= Worth(k, f, p) /\ Worth(k, n, p) \in Int
          BY <1>1, <2>1, <2>2, <3>7, <3>8, WorthOf
        <5>4. Worth(k, f, p) \in Int
          BY <1>1, <2>1, <3>7, <3>8, WorthOf
        <5>5. before.y[k][p] \in Nat /\ Epsilon \in Nat
          <6>1. before.y[k][p] = y[k][p]
            BY <2>1, <3>5
          <6> QED
            BY <1>1, <2>1, <6>1, CBBAAssumption DEF TypeOK, Views, FrontierTasks
        <5> QED
          BY <3>11, <5>1, <5>3, <5>4, <5>5 DEF BidGt
      <4>3. CASE f < m /\ m < n
        <5>1. m \in f + 1 .. Len(b) /\ m <= Len(bundle[k])
          BY <1>2, <2>2, <2>4, <4>3
        <5>2. PICK l \in 1 .. m : bundle[k][l] = b[m]
          BY <5>1 DEF Rebuilt
        <5>3. l \in 1 .. Len(bundle[k])
          BY <1>2, <5>1, <5>2
        <5> QED
          BY <1>2, <2>1, <3>12, <5>2, <5>3 DEF ToSet
      <4>4. CASE m = n
        BY <3>2, <3>12, <4>4
      <4> QED
        BY <2>2, <4>1, <4>2, <4>3, <4>4
    <3>13. Ahead(Worth(k, n, b[n]), b[n], Worth(k, n, p), p)
      BY <2>1, <3>4, <3>11, <3>12
    <3>14. Worth(k, n, b[n]) \in Int /\ Worth(k, n, p) \in Int /\ b[n] \in Nat /\ p \in Nat
      <4>1. Carried(k) < n
        BY <2>2, <3>7, <3>8
      <4>2. Worth(k, n, b[n]) \in Int
        BY <1>1, <2>2, <3>4, <3>7, <4>1, WorthOf
      <4>3. Worth(k, n, p) \in Int
        BY <1>1, <2>1, <2>2, <3>7, <4>1, WorthOf
      <4> QED
        BY <2>1, <3>4, <4>2, <4>3, CBBAAssumption DEF FrontierTasks
    <3> HIDE DEF Worth
    <3> QED
      BY <3>2, <3>10, <3>13, <3>14 DEF Ahead
  <2> QED
    BY <1>2, <1>4, <2>1, <2>2, <2>3, <2>4
<1>5. ASSUME NEW p \in BestCandidates(k), BidsFor(k, p)
      PROVE  Rebuilt(k, b, f)'
  BY <1>4, <1>5 DEF Rebuilt
<1> QED
  BY <1>1, <1>3, <1>5, BidOf

\* A bid keeps the invariant.
LEMMA GreedyBid ==
  ASSUME GreedyInv, Bid
  PROVE  GreedyInv'
<1>1. AgreeInv /\ AgreeInv' /\ scenario' = scenario /\ phase = "build" /\ phase' = "build"
  BY AgreeBid DEF GreedyInv, Bid
<1>2. before' = before
  BY DEF Bid
<1> SUFFICES ASSUME Regular
             PROVE  /\ PricesOK(before.y, before.z)' /\ (\A a \in Bidders : BestPlaced(a))'
                    /\ BuildGreedy' /\ MatchesGreedy'
  BY <1>1, SameScenario DEF GreedyInv
<1>3. ExactOffers /\ FallingGains
  BY DEF Regular
<1>4. PricesOK(before.y, before.z) /\ (\A a \in Bidders : BestPlaced(a)) /\ BuildGreedy
  BY <1>1 DEF GreedyInv
<1>5. PricesOK(y, z) /\ PlacesOK(y, z)
  BY <1>4 DEF BuildGreedy
<1>6. PricesOK(before.y, before.z)'
  BY <1>1, <1>2, <1>4, SameScenario DEF PricesOK
<1>7. (\A a \in Bidders : BestPlaced(a))'
  <2>1. ASSUME NEW a \in Bidders PROVE BestPlaced(a)'
    BY <1>1, <1>3, <1>4, <1>5, BidBest
  <2> QED
    BY <2>1
<1>8. PICK own \in [FrontierTasks -> Bidders] :
        /\ Board(own)
        /\ \A k \in Bidders : \E b \in Seq(Tasks) : \E f \in Nat :
             Released(k, b, f) /\ Owed(k, b, f, own) /\ Rebuilt(k, b, f)
  BY <1>4 DEF BuildGreedy
<1>9. Board(own)'
  BY <1>1, <1>2, <1>8, SameScenario DEF Board, Told
<1>10. ASSUME NEW k \in Bidders
       PROVE  \E b \in Seq(Tasks) : \E f \in Nat :
                Released(k, b, f)' /\ Owed(k, b, f, own)' /\ Rebuilt(k, b, f)'
  <2>1. PICK b \in Seq(Tasks), f \in Nat :
          Released(k, b, f) /\ Owed(k, b, f, own) /\ Rebuilt(k, b, f)
    BY <1>8
  <2>2. Rebuilt(k, b, f)'
    BY <1>1, <1>3, <2>1, BidRebuilt
  <2>3. Released(k, b, f)'
    BY <1>1, <1>2, <2>1, SameScenario DEF Released
  <2>4. Owed(k, b, f, own)'
    BY <1>1, <1>2, <2>1, SameScenario DEF Owed, Told
  <2> QED
    BY <2>1, <2>2, <2>3, <2>4
<1>11. BuildGreedy'
  <2>1. own \in [FrontierTasks' -> Bidders]
    BY <1>1, <1>8, SameScenario
  <2>2. PricesOK(y, z)' /\ PlacesOK(y, z)'
    BY <1>1, <1>3, <1>5, BidPlaces
  <2> QED
    BY <1>9, <1>10, <2>1, <2>2 DEF BuildGreedy
<1>12. MatchesGreedy'
  BY <1>1 DEF MatchesGreedy, GreedyAwards
<1> QED
  BY <1>6, <1>7, <1>11, <1>12

-----------------------------------------------------------------------------
(* The start of the consensus.                                             *)

\* Who set the price of a task claims it again, for no less: what it has released
\* is worth as much to it at its old position, and it has had room to bid.
LEMMA OwnerKeepsPrice ==
  ASSUME AgreeInv, ExactOffers, FallingGains, StartConsensus,
         PricesOK(before.y, before.z), PlacesOK(y, z),
         NEW own, Board(own), NEW k \in Bidders, NEW b \in Seq(Tasks), NEW f \in Nat,
         Released(k, b, f), Owed(k, b, f, own), Rebuilt(k, b, f),
         NEW j \in FrontierTasks, own[j] = k, NEW a \in Bidders, Told(a, j)
  PROVE  z[k][j] = k /\ y[k][j] >= before.y[a][j]
<1>1. /\ TypeOK /\ EpochInv /\ BundlesOK /\ BidsOK(y, z)
      /\ \A c \in Bidders : Candidates(c) = {}
  BY DEF AgreeInv, EpochInv, StartConsensus
<1>2. /\ Len(bundle[k]) \in Nat /\ DOMAIN bundle[k] = 1 .. Len(bundle[k]) /\ Len(b) \in Nat
      /\ y[k][j] \in Nat /\ Epsilon \in Nat /\ j \in Tasks /\ j \notin Held
  <2>1. j \in Tasks /\ j \notin Held
    BY DEF FrontierTasks
  <2>2. bundle[k] \in Seq(Tasks) /\ y[k][j] \in Nat
    BY <1>1, <2>1 DEF TypeOK, Views
  <2> QED
    BY <2>1, <2>2, CBBAAssumption
<1>3. CASE before.z[k][j] = k
  <2>1. Told(k, j)
    BY <1>3, CBBAAssumption DEF Told
  <2>2. before.y[k][j] = before.y[a][j]
    BY <2>1 DEF Board
  <2>3. CASE j \in Fresh(k)
    <3>1. z[k][j] = k /\ BidGt(y[k][j], before.y[k][j])
      BY <1>1, <1>2, <2>3 DEF BidsOK
    <3>2. before.y[k][j] \in Int
      <4>1. before.y[k][j] \in GainsOf(k, j)
        BY <1>3, <2>1 DEF PricesOK, Told
      <4> QED
        BY <1>1, <4>1, ExactBids
    <3> QED
      BY <1>2, <2>2, <3>1, <3>2 DEF BidGt
  <2>4. CASE j \notin Fresh(k)
    <3>1. z[k][j] = before.z[k][j] /\ y[k][j] = before.y[k][j]
      BY <1>1, <1>2, <2>4 DEF BidsOK
    <3> QED
      BY <1>2, <1>3, <2>2, <3>1
  <2> QED
    BY <2>3, <2>4
<1>4. CASE before.z[k][j] # k
  <2>1. PICK n \in f + 1 .. Len(b) : b[n] = j /\ before.y[a][j] = Worth(k, n, j)
    BY <1>4 DEF Owed
  <2>2. before.y[k][j] = 0 /\ Worth(k, n, j) > Epsilon
    BY <2>1 DEF Released
  <2>3. n \in Nat /\ f < n /\ n <= Len(b) /\ f <= Len(b)
    BY <1>2
  <2>4. Carried(k) < f
    BY <2>3 DEF Released
  <2>5. /\ Carried(k) \in Nat /\ Carried(k) <= Len(bundle[k])
        /\ j \notin ToSet(bundle[k]) => Offer(k, j) = Worth(k, Len(bundle[k]) + 1, j)
    BY <1>1, CarriedOf
  <2>6. Carried(k) < n
    BY <1>2, <2>3, <2>4, <2>5
  <2>7. /\ Worth(k, n, j) \in Int
        /\ \A m \in Nat : Carried(k) < m /\ m <= n => Worth(k, n, j) <= Worth(k, m, j)
    BY <1>1, <2>3, <2>5, <2>6, WorthOf
  <2>8. ASSUME NEW m \in Nat, Carried(k) < m, m <= n PROVE Worth(k, m, j) \in Int
    BY <1>1, <2>5, <2>8, WorthOf
  <2> HIDE DEF Worth
  <2>9. j \in ToSet(bundle[k])
    <3> SUFFICES ASSUME j \notin ToSet(bundle[k]) PROVE FALSE
      OBVIOUS
    <3>1. y[k][j] = 0
      <4>1. Len(before.b[k]) \in Nat
        BY <1>1 DEF BidsOK
      <4>2. j \notin Fresh(k)
        BY <1>2, <4>1 DEF Fresh, ToSet
      <4> QED
        BY <1>1, <1>2, <2>2, <4>2 DEF BidsOK
    <3>2. ~ BidGt(Offer(k, j), 0)
      BY <1>1, <3>1 DEF Candidates
    <3>3. ~ (n <= Len(bundle[k]))
      <4> SUFFICES ASSUME n <= Len(bundle[k]) PROVE FALSE
        OBVIOUS
      <4>1. PICK m \in 1 .. n : bundle[k][m] = j
        BY <2>1 DEF Rebuilt
      <4>2. m \in 1 .. Len(bundle[k])
        BY <1>2, <2>3
      <4> QED
        BY <1>2, <4>1, <4>2 DEF ToSet
    <3> DEFINE l == Len(bundle[k]) + 1
    <3>4. l \in Nat /\ Carried(k) < l /\ l <= n
      BY <1>2, <2>3, <2>5, <3>3
    <3>5. Offer(k, j) = Worth(k, l, j)
      BY <2>5
    <3> HIDE DEF l
    <3>6. Worth(k, n, j) <= Worth(k, l, j) /\ Worth(k, l, j) \in Int
      BY <2>7, <2>8, <3>4
    <3> QED
      BY <1>2, <2>2, <2>7, <3>2, <3>5, <3>6 DEF BidGt
  <2>10. \E m \in 1 .. Len(bundle[k]) : m <= n /\ bundle[k][m] = j
    <3>1. CASE n <= Len(bundle[k])
      <4>1. PICK m \in 1 .. n : bundle[k][m] = j
        BY <2>1, <3>1 DEF Rebuilt
      <4>2. m \in 1 .. Len(bundle[k]) /\ m <= n
        BY <1>2, <2>3, <3>1
      <4> QED
        BY <4>1, <4>2
    <3>2. CASE ~ (n <= Len(bundle[k]))
      <4>1. PICK m \in 1 .. Len(bundle[k]) : bundle[k][m] = j
        BY <1>2, <2>9 DEF ToSet
      <4>2. m <= n
        BY <1>2, <2>3, <3>2
      <4> QED
        BY <4>1, <4>2
    <3> QED
      BY <3>1, <3>2
  <2>11. PICK m \in 1 .. Len(bundle[k]) : m <= n /\ bundle[k][m] = j
    BY <2>10
  <2>12. m > Carried(k) /\ z[k][j] = k /\ y[k][j] = Worth(k, m, j)
    BY <1>2, <2>11 DEF PlacesOK
  <2>13. Worth(k, n, j) <= Worth(k, m, j)
    BY <2>5, <2>7, <2>11, <2>12
  <2> QED
    BY <1>2, <2>1, <2>7, <2>12, <2>13
<1> QED
  BY <1>3, <1>4

\* The consensus starts with every price kept.
LEMMA GreedyStart ==
  ASSUME GreedyInv, StartConsensus
  PROVE  GreedyInv'
<1>1. AgreeInv /\ AgreeInv' /\ scenario' = scenario /\ phase = "build" /\ phase' = "hear"
  BY AgreeStart DEF GreedyInv, StartConsensus
<1>2. /\ before' = before /\ bundle' = bundle /\ y' = y /\ z' = z /\ heard' = {}
      /\ snap' = [y |-> y, z |-> z, s |-> s]
  BY DEF StartConsensus
<1> SUFFICES ASSUME Regular
             PROVE  /\ PricesOK(before.y, before.z)' /\ (\A a \in Bidders : BestPlaced(a))'
                    /\ HearGreedy' /\ MatchesGreedy'
  BY <1>1, SameScenario DEF GreedyInv
<1>3. ExactOffers /\ FallingGains
  BY DEF Regular
<1>4. PricesOK(before.y, before.z) /\ (\A a \in Bidders : BestPlaced(a)) /\ BuildGreedy
  BY <1>1 DEF GreedyInv
<1>5. PricesOK(y, z) /\ PlacesOK(y, z)
  BY <1>4 DEF BuildGreedy
<1>6. PricesOK(before.y, before.z)' /\ PricesOK(y, z)'
  BY <1>1, <1>2, <1>4, <1>5, SameScenario DEF PricesOK
<1>7. (\A a \in Bidders : BestPlaced(a))'
  BY <1>1, <1>2, <1>4, SameScenario DEF BestPlaced
<1>8. snap'.y = y /\ snap'.z = z
  BY <1>2
<1>9. PricesOK(snap.y, snap.z)'
  BY <1>1, <1>5, <1>8, SameScenario DEF PricesOK
<1>10. PlacesOK(snap.y, snap.z)'
  BY <1>1, <1>2, <1>5, <1>8, SameScenario DEF PlacesOK
<1>11. PICK own \in [FrontierTasks -> Bidders] :
        /\ Board(own)
        /\ \A k \in Bidders : \E b \in Seq(Tasks) : \E f \in Nat :
             Released(k, b, f) /\ Owed(k, b, f, own) /\ Rebuilt(k, b, f)
  BY <1>4 DEF BuildGreedy
<1>12. Board(own)' /\ own \in [FrontierTasks' -> Bidders]
  BY <1>1, <1>2, <1>11, SameScenario DEF Board, Told
<1>13. ASSUME NEW j \in FrontierTasks, NEW a \in Bidders, Told(a, j)
       PROVE  z[own[j]][j] = own[j] /\ y[own[j]][j] >= before.y[a][j]
  <2>1. PICK k \in Bidders : own[j] = k
    BY <1>11
  <2>2. PICK b \in Seq(Tasks), f \in Nat :
          Released(k, b, f) /\ Owed(k, b, f, own) /\ Rebuilt(k, b, f)
    BY <1>11
  <2> QED
    BY <1>1, <1>3, <1>4, <1>5, <1>11, <1>13, <2>1, <2>2, OwnerKeepsPrice
<1>14. KeepsPrice(own)'
  BY <1>1, <1>2, <1>8, <1>13, SameScenario DEF KeepsPrice, Claims, Told
<1>15. ASSUME NEW i \in Bidders, NEW j \in FrontierTasks PROVE HeardBest(i, j, own)'
  <2>1. y[i][j] \in Nat /\ i # NoAgent
    BY <1>1, CBBAAssumption DEF AgreeInv, EpochInv, TypeOK, Views, FrontierTasks
  <2> QED
    BY <1>1, <1>2, <1>8, <2>1 DEF HeardBest, Claims
<1>16. HearGreedy'
  <2>1. \A i \in Bidders : \A j \in FrontierTasks' : HeardBest(i, j, own)'
    BY <1>1, <1>15, SameScenario
  <2> QED
    BY <1>6, <1>9, <1>10, <1>12, <1>14, <2>1 DEF HearGreedy
<1>17. MatchesGreedy'
  BY <1>1 DEF MatchesGreedy, GreedyAwards
<1> QED
  BY <1>6, <1>7, <1>16, <1>17

-----------------------------------------------------------------------------
(* The consensus.                                                          *)

\* A gain that does not depend on the bundle is the only one.
LEMMA SteadyGain ==
  ASSUME scenario \in Scenarios, NEW a \in Bidders, NEW j \in FrontierTasks, Steady(a, j),
         NEW g \in GainsOf(a, j)
  PROVE  g = Gain(a, j, 0)
BY FirstGain DEF Steady

\* What i knows before it hears of k: who wins by old news has not spoken yet,
\* so it is the one that set the price, or that one comes first.
LEMMA OldNews ==
  ASSUME AgreeInv, phase = "hear", NEW own \in [FrontierTasks -> Bidders],
         Board(own), KeepsPrice(own),
         NEW i \in Bidders, NEW j \in FrontierTasks,
         z[i][j] = snap.z[i][j], y[i][j] = snap.y[i][j], z[i][j] \notin {i, NoAgent}
  PROVE  /\ z[i][j] = own[j] \/ (own[j] < z[i][j] /\ z[i][j] < i)
         /\ Claims(own[j], j) /\ snap.y[own[j]][j] >= y[i][j] /\ own[j] # i
         /\ \A b \in Bidders : Steady(b, j) /\ Gain(b, j, 0) = y[i][j] => own[j] <= b
<1>1. BidsOK(snap.y, snap.z) /\ j \in Tasks
  BY DEF AgreeInv, HearingOK, FrontierTasks
<1>2. before.z[i][j] = z[i][j] /\ before.y[i][j] = y[i][j]
  BY <1>1 DEF BidsOK
<1>3. Told(i, j)
  BY <1>2 DEF Told
<1>4. Claims(own[j], j) /\ snap.y[own[j]][j] >= y[i][j]
  BY <1>2, <1>3 DEF KeepsPrice
<1>5. own[j] # i
  BY <1>4 DEF Claims
<1>6. z[i][j] = own[j] \/ (own[j] < z[i][j] /\ z[i][j] < i)
  BY <1>2, <1>3 DEF Board
<1>7. \A b \in Bidders : Steady(b, j) /\ Gain(b, j, 0) = y[i][j] => own[j] <= b
  BY <1>2, <1>3 DEF Board
<1> QED
  BY <1>4, <1>5, <1>6, <1>7

\* The price an agent believes never falls while it hears the others.
LEMMA HearRaises ==
  ASSUME AgreeInv, ExactOffers, NEW own \in [FrontierTasks -> Bidders],
         Board(own), KeepsPrice(own), PricesOK(y, z), PricesOK(snap.y, snap.z),
         NEW k \in Bidders, Hear(k), NEW i \in Bidders, i # k, NEW j \in FrontierTasks,
         HeardBest(i, j, own)
  PROVE  \/ /\ Claims(k, j) /\ z'[i][j] = k /\ y'[i][j] = snap.y[k][j]
            /\ snap.y[k][j] >= y[i][j]
            /\ \/ z[i][j] = k /\ own[j] = k /\ z[i][j] = snap.z[i][j] /\ y[i][j] = snap.y[i][j]
               \/ z[i][j] = NoAgent
               \/ Beats(snap.y[k][j], k, y[i][j], i)
         \/ /\ z'[i][j] = z[i][j] /\ y'[i][j] = y[i][j] /\ z[i][j] # k
            /\ Claims(k, j) =>
                 /\ z[i][j] # NoAgent /\ ~ Beats(snap.y[k][j], k, y[i][j], i)
                 /\ snap.y[k][j] <= y[i][j]
<1>1. /\ TypeOK /\ HearingOK /\ ClaimsOK(y, z) /\ phase = "hear" /\ k \notin heard
      /\ \A m \in Bidders \ heard : k <= m
  BY DEF AgreeInv, EpochInv, Hear
<1>2. HeardFrom(k, i, j)
  BY HearOf
<1>3. j \in Tasks /\ y[i][j] \in Nat /\ snap.y[k][j] \in Nat /\ Epsilon \in Nat /\ k \in Nat /\ i \in Nat
      /\ k # NoAgent
  <2>1. j \in Tasks
    BY DEF FrontierTasks
  <2>2. y \in Views /\ snap.y \in Views
    BY <1>1 DEF TypeOK
  <2>3. y[i][j] \in Nat /\ snap.y[k][j] \in Nat
    BY <2>1, <2>2 DEF Views
  <2> QED
    BY <2>1, <2>3, CBBAAssumption
<1>4. z[i][j] = k => /\ Claims(k, j) /\ snap.y[k][j] >= y[i][j] /\ own[j] = k
                     /\ z[i][j] = snap.z[i][j] /\ y[i][j] = snap.y[i][j]
  <2> SUFFICES ASSUME z[i][j] = k
               PROVE  /\ Claims(k, j) /\ snap.y[k][j] >= y[i][j] /\ own[j] = k
                      /\ z[i][j] = snap.z[i][j] /\ y[i][j] = snap.y[i][j]
    OBVIOUS
  <2>1. z[i][j] = snap.z[i][j] /\ y[i][j] = snap.y[i][j] /\ own[j] \notin heard
    BY <1>1, <1>3 DEF HeardBest
  <2>2. /\ z[i][j] = own[j] \/ (own[j] < z[i][j] /\ z[i][j] < i)
        /\ Claims(own[j], j) /\ snap.y[own[j]][j] >= y[i][j]
    BY <1>1, <1>3, <2>1, OldNews
  <2>3. own[j] \in Bidders /\ own[j] \in Nat
    BY CBBAAssumption
  <2>4. k <= own[j]
    BY <1>1, <2>1, <2>3
  <2>5. own[j] = k
    BY <1>3, <2>2, <2>3, <2>4
  <2> QED
    BY <2>1, <2>2, <2>5
<1>5. Claims(k, j) => snap.y[k][j] \in GainsOf(k, j) /\ snap.y[k][j] > Epsilon
  BY <1>3 DEF Claims, PricesOK
<1>6. ASSUME Claims(k, j), z[i][j] # NoAgent
      PROVE  /\ BidGt(snap.y[k][j], y[i][j]) <=> snap.y[k][j] > y[i][j]
             /\ BidGt(y[i][j], snap.y[k][j]) <=> y[i][j] > snap.y[k][j]
  <2>1. z[i][j] \in Bidders /\ y[i][j] \in GainsOf(z[i][j], j)
    BY <1>6 DEF PricesOK
  <2> QED
    BY <1>1, <1>5, <1>6, <2>1, ExactBids
<1>7. z[i][j] = NoAgent => y[i][j] = 0
  BY <1>1 DEF ClaimsOK
<1>8. CASE Claims(k, j) /\ (z[i][j] \in {k, NoAgent} \/ Beats(snap.y[k][j], k, y[i][j], i))
  <2>1. z'[i][j] = k /\ y'[i][j] = snap.y[k][j]
    BY <1>2, <1>8 DEF HeardFrom
  <2>2. CASE z[i][j] = k
    BY <1>4, <1>8, <2>1, <2>2
  <2>3. CASE z[i][j] = NoAgent
    <3>1. snap.y[k][j] >= y[i][j]
      BY <1>3, <1>7, <2>3
    <3> QED
      BY <1>8, <2>1, <2>3, <3>1
  <2>4. CASE z[i][j] \notin {k, NoAgent}
    <3>1. snap.y[k][j] >= y[i][j]
      BY <1>3, <1>6, <1>8, <2>4 DEF Beats
    <3> QED
      BY <1>8, <2>1, <2>4, <3>1
  <2> QED
    BY <2>2, <2>3, <2>4
<1>9. CASE ~ (Claims(k, j) /\ (z[i][j] \in {k, NoAgent} \/ Beats(snap.y[k][j], k, y[i][j], i)))
  <2>1. z[i][j] # k
    BY <1>4, <1>9
  <2>2. z'[i][j] = z[i][j] /\ y'[i][j] = y[i][j]
    BY <1>2, <1>9, <2>1 DEF HeardFrom
  <2>3. ASSUME Claims(k, j)
        PROVE  /\ z[i][j] # NoAgent /\ ~ Beats(snap.y[k][j], k, y[i][j], i)
               /\ snap.y[k][j] <= y[i][j]
    <3>1. z[i][j] # NoAgent /\ ~ Beats(snap.y[k][j], k, y[i][j], i)
      BY <1>9, <2>3
    <3> QED
      BY <1>3, <1>6, <2>3, <3>1 DEF Beats
  <2> QED
    BY <2>1, <2>2, <2>3
<1> QED
  BY <1>8, <1>9

\* What the speaker itself believes is what it believed.
LEMMA SpeakerBest ==
  ASSUME AgreeInv, NEW own \in [FrontierTasks -> Bidders], Board(own), KeepsPrice(own),
         NEW k \in Bidders, Hear(k), NEW j \in FrontierTasks, HeardBest(k, j, own)
  PROVE  HeardBest(k, j, own)' /\ y'[k][j] = y[k][j] /\ z'[k][j] = z[k][j]
<1>1. /\ TypeOK /\ HearingOK /\ phase = "hear" /\ heard' = heard \cup {k} /\ snap' = snap
      /\ k \notin heard /\ heard \subseteq Bidders
  BY DEF AgreeInv, EpochInv, Hear, TypeOK
<1>2. y'[k][j] = y[k][j] /\ z'[k][j] = z[k][j]
  BY DEF Hear, FrontierTasks
<1>3. j \in Tasks /\ y[k][j] \in Nat /\ snap.y[k][j] \in Nat /\ k # NoAgent /\ k \in Nat
  <2>1. j \in Tasks
    BY DEF FrontierTasks
  <2>2. y \in Views /\ snap.y \in Views
    BY <1>1 DEF TypeOK
  <2>3. y[k][j] \in Nat /\ snap.y[k][j] \in Nat
    BY <2>1, <2>2 DEF Views
  <2> QED
    BY <2>1, <2>3, CBBAAssumption
<1>4. Claims(k, j)' <=> Claims(k, j)
  BY <1>1 DEF Claims
<1>5. \A l : Claims(l, j)' <=> Claims(l, j)
  BY <1>1 DEF Claims
<1>6. y[k][j] >= snap.y[k][j]
  BY DEF HeardBest
<1>7. ASSUME NEW l \in heard \cup {k}, Claims(l, j)
      PROVE  z[k][j] # NoAgent /\ y[k][j] >= snap.y[l][j]
  <2>1. CASE l \in heard
    BY <1>7, <2>1 DEF HeardBest
  <2>2. CASE l = k
    <3>1. snap.z[k][j] = k
      BY <1>7, <2>2 DEF Claims
    <3>2. HeardOK(k, j)
      BY <1>1 DEF HearingOK
    <3>3. z[k][j] \in heard \/ z[k][j] = k
      BY <3>1, <3>2 DEF HeardOK
    <3>4. z[k][j] # NoAgent
      BY <1>1, <3>3, CBBAAssumption
    <3> QED
      BY <1>6, <2>2, <3>4
  <2> QED
    BY <2>1, <2>2
<1>8. \/ z[k][j] \in heard \cup {k} /\ Claims(z[k][j], j) /\ y[k][j] = snap.y[z[k][j]][j]
      \/ /\ z[k][j] = snap.z[k][j] /\ y[k][j] = snap.y[k][j]
         /\ z[k][j] = NoAgent \/ (z[k][j] \notin heard \cup {k} /\ own[j] \notin heard \cup {k})
  <2>1. CASE z[k][j] \in heard \cup {k} /\ Claims(z[k][j], j) /\ y[k][j] = snap.y[z[k][j]][j]
    BY <2>1
  <2>2. CASE /\ z[k][j] = snap.z[k][j] /\ y[k][j] = snap.y[k][j]
             /\ z[k][j] = NoAgent \/ (z[k][j] \notin heard \cup {k} /\ own[j] \notin heard)
    <3>1. CASE z[k][j] = NoAgent
      BY <2>2, <3>1
    <3>2. CASE z[k][j] # NoAgent
      <4>1. own[j] # k
        BY <1>1, <2>2, <3>2, OldNews
      <4> QED
        BY <2>2, <3>2, <4>1
    <3> QED
      BY <3>1, <3>2
  <2> QED
    BY <2>1, <2>2 DEF HeardBest
<1>9. Claims(k, j) /\ z[k][j] # k /\ y[k][j] = snap.y[k][j] => z[k][j] < k
  BY DEF HeardBest
<1>10. ASSUME NEW l \in heard \cup {k}, z[k][j] \in heard \ {k}, l < z[k][j], Claims(l, j),
              snap.y[l][j] >= y[k][j]
       PROVE  z[k][j] < k
  <2>1. CASE l \in heard
    BY <1>10, <2>1 DEF HeardBest
  <2>2. CASE l = k
    <3>1. y[k][j] = snap.y[k][j]
      BY <1>3, <1>6, <1>10, <2>2
    <3> QED
      BY <1>9, <1>10, <2>2, <3>1
  <2> QED
    BY <2>1, <2>2
<1>11. snap'.y = snap.y /\ snap'.z = snap.z
  BY <1>1
<1>12. HeardBest(k, j, own)'
  <2>1. y'[k][j] >= snap'.y[k][j]
    BY <1>2, <1>6, <1>11
  <2>2. \A l \in heard' : Claims(l, j)' => z'[k][j] # NoAgent /\ y'[k][j] >= snap'.y[l][j]
    BY <1>1, <1>2, <1>5, <1>7, <1>11
  <2>3. \/ z'[k][j] \in heard' \cup {k} /\ snap'.z[z'[k][j]][j] = z'[k][j]
             /\ y'[k][j] = snap'.y[z'[k][j]][j]
        \/ /\ z'[k][j] = snap'.z[k][j] /\ y'[k][j] = snap'.y[k][j]
           /\ z'[k][j] = NoAgent \/ (z'[k][j] \notin heard' \cup {k} /\ own[j] \notin heard')
    BY <1>1, <1>2, <1>8, <1>11 DEF Claims
  <2>4. Claims(k, j)' /\ z'[k][j] # k /\ y'[k][j] = snap'.y[k][j] => z'[k][j] < k
    BY <1>2, <1>4, <1>9, <1>11
  <2>5. \A l \in heard' :
          z'[k][j] \in heard' \ {k} /\ l < z'[k][j] /\ Claims(l, j)' /\ snap'.y[l][j] >= y'[k][j] =>
            z'[k][j] < k
    BY <1>1, <1>2, <1>5, <1>10, <1>11
  <2> QED
    BY <2>1, <2>2, <2>3, <2>4, <2>5 DEF HeardBest, Claims
<1> QED
  BY <1>2, <1>12

\* A listener believes the highest of the claims it has heard, in a tie that of
\* the smaller id, unless the others spoke too late.
LEMMA ListenerBest ==
  ASSUME AgreeInv, ExactOffers, TiesStand, NEW own \in [FrontierTasks -> Bidders],
         Board(own), KeepsPrice(own), PricesOK(y, z), PricesOK(snap.y, snap.z),
         NEW k \in Bidders, Hear(k), NEW i \in Bidders, i # k, NEW j \in FrontierTasks,
         HeardBest(i, j, own)
  PROVE  HeardBest(i, j, own)' /\ y'[i][j] >= y[i][j]
<1>1. /\ TypeOK /\ HearingOK /\ phase = "hear" /\ heard' = heard \cup {k} /\ snap' = snap
      /\ k \notin heard /\ heard \subseteq Bidders
  BY DEF AgreeInv, EpochInv, Hear, TypeOK
<1>2. j \in Tasks /\ y[i][j] \in Nat /\ Epsilon \in Nat /\ \A l \in Bidders : snap.y[l][j] \in Nat
  <2>1. j \in Tasks
    BY DEF FrontierTasks
  <2>2. y \in Views /\ snap.y \in Views
    BY <1>1 DEF TypeOK
  <2>3. y[i][j] \in Nat /\ \A l \in Bidders : snap.y[l][j] \in Nat
    BY <2>1, <2>2 DEF Views
  <2> QED
    BY <2>1, <2>3, CBBAAssumption
<1>3. NoAgent \notin Bidders /\ Bidders \subseteq Nat /\ k \in Nat /\ i \in Nat /\ k # NoAgent
  BY CBBAAssumption
<1>4. \A m \in heard : m < k
  BY <1>1 DEF HearingOK
<1>5. snap'.y = snap.y /\ snap'.z = snap.z /\ \A l : Claims(l, j)' <=> Claims(l, j)
  BY <1>1 DEF Claims
<1>6. /\ y[i][j] >= snap.y[i][j]
      /\ \A l \in heard : Claims(l, j) => z[i][j] # NoAgent /\ y[i][j] >= snap.y[l][j]
      /\ \/ z[i][j] \in heard \cup {i} /\ Claims(z[i][j], j) /\ y[i][j] = snap.y[z[i][j]][j]
         \/ /\ z[i][j] = snap.z[i][j] /\ y[i][j] = snap.y[i][j]
            /\ z[i][j] = NoAgent \/ (z[i][j] \notin heard \cup {i} /\ own[j] \notin heard)
      /\ Claims(i, j) /\ z[i][j] # i /\ y[i][j] = snap.y[i][j] => z[i][j] < i
      /\ \A l \in heard :
           z[i][j] \in heard \ {i} /\ l < z[i][j] /\ Claims(l, j) /\ snap.y[l][j] >= y[i][j] =>
             z[i][j] < i
  BY DEF HeardBest
<1>7. CASE /\ Claims(k, j) /\ z'[i][j] = k /\ y'[i][j] = snap.y[k][j]
           /\ snap.y[k][j] >= y[i][j]
           /\ \/ z[i][j] = k /\ own[j] = k /\ z[i][j] = snap.z[i][j] /\ y[i][j] = snap.y[i][j]
              \/ z[i][j] = NoAgent
              \/ Beats(snap.y[k][j], k, y[i][j], i)
  <2>1. y'[i][j] >= snap'.y[i][j] /\ y'[i][j] >= y[i][j]
    BY <1>2, <1>5, <1>6, <1>7
  <2>2. \A l \in heard' : Claims(l, j)' => z'[i][j] # NoAgent /\ y'[i][j] >= snap'.y[l][j]
    BY <1>1, <1>2, <1>3, <1>5, <1>6, <1>7
  <2>3. z'[i][j] \in heard' \cup {i} /\ snap'.z[z'[i][j]][j] = z'[i][j]
        /\ y'[i][j] = snap'.y[z'[i][j]][j]
    BY <1>1, <1>5, <1>7 DEF Claims
  <2>4. ASSUME Claims(i, j), y'[i][j] = snap.y[i][j] PROVE k < i
    <3>1. snap.y[k][j] = y[i][j]
      BY <1>2, <1>6, <1>7, <2>4
    <3>2. HeardOK(i, j) /\ snap.z[i][j] = i
      BY <1>1, <2>4 DEF HearingOK, Claims
    <3>3. z[i][j] \in heard \/ z[i][j] = i
      BY <3>2 DEF HeardOK
    <3>4. z[i][j] # k /\ z[i][j] # NoAgent
      BY <1>1, <1>3, <3>3
    <3> QED
      BY <1>2, <1>7, <3>1, <3>4 DEF Beats, BidGt
  <2>5. ASSUME NEW l \in heard, Claims(l, j), snap.y[l][j] >= y'[i][j] PROVE k < i
    <3>1. z[i][j] # NoAgent /\ y[i][j] >= snap.y[l][j]
      BY <1>6, <2>5
    <3>2. snap.y[k][j] = y[i][j] /\ snap.y[l][j] = y[i][j]
      BY <1>1, <1>2, <1>7, <2>5, <3>1
    <3>3. ~ (z[i][j] = k /\ own[j] = k /\ z[i][j] = snap.z[i][j] /\ y[i][j] = snap.y[i][j])
      <4> SUFFICES ASSUME z[i][j] = k, own[j] = k, z[i][j] = snap.z[i][j], y[i][j] = snap.y[i][j]
                   PROVE  FALSE
        OBVIOUS
      <4>1. \A b \in Bidders : Steady(b, j) /\ Gain(b, j, 0) = y[i][j] => own[j] <= b
        BY <1>1, <1>3, OldNews
      <4>2. l \in Bidders /\ l < k /\ l \in Nat
        BY <1>1, <1>3, <1>4
      <4>3. /\ snap.y[l][j] \in GainsOf(l, j) /\ snap.y[k][j] \in GainsOf(k, j)
            /\ snap.y[l][j] > Epsilon
        <5>1. snap.z[l][j] = l /\ snap.z[k][j] = k
          BY <1>7, <2>5 DEF Claims
        <5>2. l # NoAgent
          BY <1>3, <4>2
        <5> QED
          BY <1>3, <4>2, <5>1, <5>2 DEF PricesOK
      <4>4. y[i][j] \in GainsOf(l, j) \cap GainsOf(k, j) /\ y[i][j] > Epsilon
        BY <3>2, <4>3
      <4>5. Steady(l, j)
        BY <4>2, <4>4 DEF TiesStand
      <4>6. Gain(l, j, 0) = y[i][j]
        <5>1. scenario \in Scenarios
          BY DEF AgreeInv, EpochInv, TypeOK
        <5> QED
          BY <4>2, <4>4, <4>5, <5>1, SteadyGain
      <4> QED
        BY <1>3, <4>1, <4>2, <4>5, <4>6
    <3> QED
      BY <1>2, <1>7, <3>1, <3>2, <3>3 DEF Beats, BidGt
  <2>6. \A l \in heard' :
          z'[i][j] \in heard' \ {i} /\ l < z'[i][j] /\ Claims(l, j)' /\ snap'.y[l][j] >= y'[i][j] =>
            z'[i][j] < i
    BY <1>1, <1>3, <1>5, <1>7, <2>5
  <2>7. Claims(i, j)' /\ z'[i][j] # i /\ y'[i][j] = snap'.y[i][j] => z'[i][j] < i
    BY <1>5, <1>7, <2>4
  <2> QED
    BY <2>1, <2>2, <2>3, <2>6, <2>7 DEF HeardBest, Claims
<1>8. CASE /\ z'[i][j] = z[i][j] /\ y'[i][j] = y[i][j] /\ z[i][j] # k
           /\ Claims(k, j) =>
                /\ z[i][j] # NoAgent /\ ~ Beats(snap.y[k][j], k, y[i][j], i)
                /\ snap.y[k][j] <= y[i][j]
  <2>1. y'[i][j] >= snap'.y[i][j] /\ y'[i][j] >= y[i][j]
    BY <1>2, <1>5, <1>6, <1>8
  <2>2. \A l \in heard' : Claims(l, j)' => z'[i][j] # NoAgent /\ y'[i][j] >= snap'.y[l][j]
    BY <1>1, <1>2, <1>3, <1>5, <1>6, <1>8
  <2>3. \/ z[i][j] \in heard' \cup {i} /\ Claims(z[i][j], j) /\ y[i][j] = snap.y[z[i][j]][j]
        \/ /\ z[i][j] = snap.z[i][j] /\ y[i][j] = snap.y[i][j]
           /\ z[i][j] = NoAgent \/ (z[i][j] \notin heard' \cup {i} /\ own[j] \notin heard')
    <3>1. CASE z[i][j] \in heard \cup {i} /\ Claims(z[i][j], j) /\ y[i][j] = snap.y[z[i][j]][j]
      BY <1>1, <3>1
    <3>2. CASE /\ z[i][j] = snap.z[i][j] /\ y[i][j] = snap.y[i][j]
               /\ z[i][j] = NoAgent \/ (z[i][j] \notin heard \cup {i} /\ own[j] \notin heard)
      <4>1. CASE z[i][j] = NoAgent
        BY <3>2, <4>1
      <4>2. CASE z[i][j] # NoAgent
        <5>1. /\ z[i][j] = own[j] \/ (own[j] < z[i][j] /\ z[i][j] < i)
              /\ Claims(own[j], j) /\ snap.y[own[j]][j] >= y[i][j]
          BY <1>1, <3>2, <4>2, OldNews
        <5>2. own[j] # k
          <6> SUFFICES ASSUME own[j] = k PROVE FALSE
            OBVIOUS
          <6>1. z[i][j] \in Bidders
            BY <4>2 DEF PricesOK
          <6>2. z[i][j] \in Nat
            BY <1>3, <6>1
          <6>3. k < i
            BY <1>3, <1>8, <5>1, <6>2
          <6>4. Claims(k, j) /\ snap.y[k][j] >= y[i][j]
            BY <5>1
          <6>5. ~ BidGt(y[i][j], snap.y[k][j])
            BY <1>2, <6>4 DEF BidGt
          <6> QED
            BY <1>8, <6>3, <6>4, <6>5 DEF Beats
        <5> QED
          BY <1>1, <1>8, <3>2, <4>2, <5>2
      <4> QED
        BY <4>1, <4>2
    <3> QED
      BY <1>6, <3>1, <3>2
  <2>4. \/ z'[i][j] \in heard' \cup {i} /\ snap'.z[z'[i][j]][j] = z'[i][j]
             /\ y'[i][j] = snap'.y[z'[i][j]][j]
        \/ /\ z'[i][j] = snap'.z[i][j] /\ y'[i][j] = snap'.y[i][j]
           /\ z'[i][j] = NoAgent \/ (z'[i][j] \notin heard' \cup {i} /\ own[j] \notin heard')
    BY <1>5, <1>8, <2>3 DEF Claims
  <2>5. Claims(i, j)' /\ z'[i][j] # i /\ y'[i][j] = snap'.y[i][j] => z'[i][j] < i
    BY <1>5, <1>6, <1>8
  <2>6. ASSUME NEW l \in heard \cup {k}, z[i][j] \in (heard \cup {k}) \ {i}, l < z[i][j],
               Claims(l, j), snap.y[l][j] >= y[i][j]
        PROVE  z[i][j] < i
    <3>1. z[i][j] \in heard \ {i} /\ z[i][j] < k /\ z[i][j] \in Nat
      BY <1>1, <1>3, <1>4, <1>8, <2>6
    <3>2. l \in heard
      BY <1>3, <2>6, <3>1
    <3> QED
      BY <1>6, <2>6, <3>1, <3>2
  <2>7. \A l \in heard' :
          z'[i][j] \in heard' \ {i} /\ l < z'[i][j] /\ Claims(l, j)' /\ snap'.y[l][j] >= y'[i][j] =>
            z'[i][j] < i
    BY <1>1, <1>5, <1>8, <2>6
  <2> QED
    BY <2>1, <2>2, <2>4, <2>5, <2>7 DEF HeardBest, Claims
<1> QED
  BY <1>7, <1>8, HearRaises

\* Hearing a sender keeps the invariant.
LEMMA GreedyHear ==
  ASSUME GreedyInv, NEW k \in Bidders, Hear(k)
  PROVE  GreedyInv'
<1>1. AgreeInv /\ AgreeInv' /\ scenario' = scenario /\ phase = "hear" /\ phase' = "hear"
  BY AgreeHear DEF GreedyInv, Hear
<1>2. before' = before /\ bundle' = bundle /\ snap' = snap
  BY DEF Hear
<1> SUFFICES ASSUME Regular
             PROVE  /\ PricesOK(before.y, before.z)' /\ (\A a \in Bidders : BestPlaced(a))'
                    /\ HearGreedy' /\ MatchesGreedy'
  BY <1>1, SameScenario DEF GreedyInv
<1>3. ExactOffers /\ FallingGains /\ TiesStand
  BY DEF Regular
<1>4. PricesOK(before.y, before.z) /\ (\A a \in Bidders : BestPlaced(a)) /\ HearGreedy
  BY <1>1 DEF GreedyInv
<1>5. PICK own \in [FrontierTasks -> Bidders] :
        Board(own) /\ KeepsPrice(own) /\ \A i \in Bidders : \A j \in FrontierTasks : HeardBest(i, j, own)
  BY <1>4 DEF HearGreedy
<1>6. PricesOK(y, z) /\ PricesOK(snap.y, snap.z) /\ PlacesOK(snap.y, snap.z)
  BY <1>4 DEF HearGreedy
<1>7. snap'.y = snap.y /\ snap'.z = snap.z
  BY <1>2
<1>8. PricesOK(before.y, before.z)' /\ PricesOK(snap.y, snap.z)'
  BY <1>1, <1>2, <1>4, <1>6, <1>7, SameScenario DEF PricesOK
<1>9. PlacesOK(snap.y, snap.z)'
  BY <1>1, <1>2, <1>6, <1>7, SameScenario DEF PlacesOK
<1>10. Board(own)' /\ own \in [FrontierTasks' -> Bidders]
  BY <1>1, <1>2, <1>5, SameScenario DEF Board, Told
<1>11. KeepsPrice(own)'
  BY <1>1, <1>2, <1>5, <1>7, SameScenario DEF KeepsPrice, Claims, Told
<1>12. ASSUME NEW i \in Bidders, NEW j \in FrontierTasks
       PROVE  /\ HeardBest(i, j, own)' /\ y'[i][j] >= y[i][j]
              /\ z'[i][j] # NoAgent =>
                   /\ z'[i][j] \in Bidders /\ y'[i][j] \in GainsOf(z'[i][j], j)
                   /\ y'[i][j] > Epsilon
  <2>1. y[i][j] \in Nat
    <3>1. j \in Tasks /\ y \in Views
      BY <1>1 DEF AgreeInv, EpochInv, TypeOK, FrontierTasks
    <3> QED
      BY <3>1 DEF Views
  <2>2. CASE i = k
    <3>1. HeardBest(k, j, own)' /\ y'[k][j] = y[k][j] /\ z'[k][j] = z[k][j]
      BY <1>1, <1>5, SpeakerBest
    <3> QED
      BY <1>6, <2>1, <2>2, <3>1 DEF PricesOK
  <2>3. CASE i # k
    <3>1. HeardBest(i, j, own)' /\ y'[i][j] >= y[i][j]
      BY <1>1, <1>3, <1>5, <1>6, <2>3, ListenerBest
    <3>2. \/ Claims(k, j) /\ z'[i][j] = k /\ y'[i][j] = snap.y[k][j]
          \/ z'[i][j] = z[i][j] /\ y'[i][j] = y[i][j]
      BY <1>1, <1>3, <1>5, <1>6, <2>3, HearRaises
    <3>3. Claims(k, j) => snap.y[k][j] \in GainsOf(k, j) /\ snap.y[k][j] > Epsilon
      BY <1>6, CBBAAssumption DEF Claims, PricesOK
    <3> QED
      BY <1>6, <3>1, <3>2, <3>3 DEF PricesOK
  <2> QED
    BY <2>2, <2>3
<1>13. PricesOK(y, z)'
  BY <1>1, <1>12, SameScenario DEF PricesOK
<1>14. HearGreedy'
  <2>1. \A i \in Bidders : \A j \in FrontierTasks' : HeardBest(i, j, own)'
    BY <1>1, <1>12, SameScenario
  <2> QED
    BY <1>8, <1>9, <1>10, <1>11, <1>13, <2>1 DEF HearGreedy
<1>15. ASSUME NEW a \in Bidders PROVE BestPlaced(a)'
  <2>1. /\ FrontierTasks' = FrontierTasks /\ Held' = Held
        /\ \A n, j : Worth(a, n, j)' = Worth(a, n, j)
    BY <1>1, SameScenario
  <2>2. ASSUME NEW n \in DOMAIN bundle[a], NEW i \in FrontierTasks,
               bundle[a][n] \notin Held, i \notin {bundle[a][m] : m \in 1 .. n}
        PROVE  \/ Ahead(Worth(a, n, bundle[a][n]), bundle[a][n], Worth(a, n, i), i)
               \/ i \notin ToSet(bundle[a]) /\ ~ BidGt(Worth(a, n, i), y'[a][i])
    <3>1. \/ Ahead(Worth(a, n, bundle[a][n]), bundle[a][n], Worth(a, n, i), i)
          \/ i \notin ToSet(bundle[a]) /\ ~ BidGt(Worth(a, n, i), y[a][i])
      BY <1>4, <2>2 DEF BestPlaced
    <3>2. y'[a][i] >= y[a][i]
      BY <1>12
    <3>3. Worth(a, n, i) \in Int
      <4>1. bundle[a][n] \in FrontierTasks /\ n > Carried(a)
        <5>1. bundle[a] \in Seq(Tasks)
          BY <1>1 DEF AgreeInv, EpochInv, TypeOK
        <5> QED
          BY <1>6, <2>2, <5>1 DEF PlacesOK, FrontierTasks
      <4> QED
        BY <1>1, <4>1, PlaceWorth DEF AgreeInv
    <3>4. y[a][i] \in Nat /\ y'[a][i] \in Nat /\ Epsilon \in Nat
      <4>1. i \in Tasks /\ y \in Views /\ y' \in Views
        BY <1>1 DEF AgreeInv, EpochInv, TypeOK, FrontierTasks, Views
      <4> QED
        BY <4>1, CBBAAssumption DEF Views
    <3>5. ~ BidGt(Worth(a, n, i), y[a][i]) => ~ BidGt(Worth(a, n, i), y'[a][i])
      <4> DEFINE w == Worth(a, n, i)
      <4>1. w \in Int
        BY <3>3
      <4> HIDE DEF w
      <4>2. ~ BidGt(w, y[a][i]) => ~ BidGt(w, y'[a][i])
        BY <3>2, <3>4, <4>1 DEF BidGt
      <4> QED
        BY <4>2 DEF w
    <3> QED
      BY <3>1, <3>5
  <2> QED
    BY <1>2, <2>1, <2>2 DEF BestPlaced
<1>16. MatchesGreedy'
  BY <1>1 DEF MatchesGreedy, GreedyAwards
<1> QED
  BY <1>8, <1>14, <1>15, <1>16

-----------------------------------------------------------------------------
(* The end of a round.                                                     *)

\* Where the part of its bundle begins that a releases.
FirstGone(a) == IF Lost(a) = {} THEN Len(bundle[a]) + 1 ELSE FirstLost(a)

\* What is released and what is kept, by position.
LEMMA ReleaseOf ==
  ASSUME EpochInv, NEW a \in Bidders
  PROVE  LET f == FirstGone(a)
             l == Len(bundle[a])
         IN  /\ l \in Nat /\ f \in 1 .. l + 1 /\ DOMAIN bundle[a] = 1 .. l
             /\ Len(Kept(a)) = f - 1 /\ DOMAIN Kept(a) = 1 .. f - 1
             /\ \A n \in 1 .. f - 1 :
                  /\ n \in 1 .. l /\ Kept(a)[n] = bundle[a][n]
                  /\ z[a][bundle[a][n]] = a /\ bundle[a][n] \notin Voided(a)
             /\ Voided(a) = {bundle[a][n] : n \in f + 1 .. l}
             /\ f <= l =>
                  /\ z[a][bundle[a][f]] # a /\ bundle[a][f] \notin Voided(a)
                  /\ \A n \in f .. l : bundle[a][n] \in FrontierTasks
<1> DEFINE f == FirstGone(a)
           l == Len(bundle[a])
<1>1. TypeOK /\ HeldLocked /\ HeldFirst /\ bundle[a] \in Seq(Tasks) /\ IsInjective(bundle[a])
  BY DEF EpochInv, TypeOK, BundlesOK
<1>2. l \in Nat /\ DOMAIN bundle[a] = 1 .. l
  BY <1>1
<1>3. CASE Lost(a) = {}
  <2>1. f = l + 1 /\ Kept(a) = bundle[a] /\ Voided(a) = {}
    BY <1>3 DEF FirstGone, Kept, Voided
  <2>2. \A n \in 1 .. l : z[a][bundle[a][n]] = a
    BY <1>2, <1>3 DEF Lost
  <2>3. f \in 1 .. l + 1 /\ f - 1 = l /\ f + 1 .. l = {} /\ ~ (f <= l)
    BY <1>2, <2>1
  <2> HIDE DEF f, l
  <2> QED
    BY <1>2, <2>1, <2>2, <2>3 DEF f, l
<1>4. CASE Lost(a) # {}
  <2>1. f = FirstLost(a) /\ f \in Lost(a) /\ \A m \in Lost(a) : f <= m
    BY <1>1, <1>4, FirstLostOf DEF FirstGone
  <2>2. f \in 1 .. l /\ z[a][bundle[a][f]] # a
    BY <1>2, <2>1 DEF Lost
  <2>3. Kept(a) = SubSeq(bundle[a], 1, f - 1) /\ Voided(a) = {bundle[a][n] : n \in f + 1 .. l}
    BY <1>4, <2>1 DEF Kept, Voided
  <2>4. f - 1 \in 0 .. l /\ f \in 1 .. l + 1 /\ f \in Nat
    BY <1>2, <2>2
  <2> HIDE DEF f
  <2>5. /\ Len(Kept(a)) = f - 1 /\ DOMAIN Kept(a) = 1 .. f - 1
        /\ \A n \in 1 .. f - 1 : Kept(a)[n] = bundle[a][n]
    BY <1>1, <2>3, <2>4
  <2>6. ASSUME NEW n \in 1 .. f - 1
        PROVE  n \in 1 .. l /\ z[a][bundle[a][n]] = a
    <3>1. n \in 1 .. l /\ ~ (f <= n)
      BY <1>2, <2>4
    <3>2. n \notin Lost(a)
      BY <2>1, <3>1
    <3> QED
      BY <1>2, <3>1, <3>2 DEF Lost
  <2>7. ASSUME NEW n \in 1 .. f, n \in 1 .. l PROVE bundle[a][n] \notin Voided(a)
    <3> SUFFICES ASSUME NEW m \in f + 1 .. l, bundle[a][m] = bundle[a][n]
                 PROVE  FALSE
      BY <2>3
    <3>1. m \in 1 .. l /\ m # n
      BY <1>2, <2>4
    <3> QED
      BY <1>1, <1>2, <2>7, <3>1 DEF IsInjective
  <2>8. ASSUME NEW n \in f .. l PROVE bundle[a][n] \in FrontierTasks
    <3>1. n \in 1 .. l /\ f <= n
      BY <1>2, <2>4
    <3>2. bundle[a][n] \in Tasks /\ bundle[a][f] \in Tasks
      BY <1>1, <1>2, <2>2, <3>1
    <3>3. bundle[a][n] \in Held => bundle[a][f] \in Held
      BY <1>1, <1>2, <2>2, <3>1 DEF HeldFirst
    <3>4. bundle[a][f] \notin Held
      <4>1. bundle[a][f] \in ToSet(bundle[a])
        BY <1>2, <2>2 DEF ToSet
      <4> QED
        BY <1>1, <2>2, <4>1 DEF HeldLocked
    <3> QED
      BY <3>2, <3>3, <3>4 DEF FrontierTasks
  <2>9. \A n \in 1 .. f - 1 : n \in 1 .. f /\ n \in 1 .. l
    BY <2>4, <2>6
  <2>10. f \in 1 .. f /\ f \in 1 .. l
    BY <2>2, <2>4
  <2>11. \A n \in 1 .. f - 1 : bundle[a][n] \notin Voided(a)
    BY <2>7, <2>9
  <2>12. bundle[a][f] \notin Voided(a)
    BY <2>7, <2>10
  <2> HIDE DEF l
  <2> QED
    BY <1>2, <2>2, <2>3, <2>4, <2>5, <2>6, <2>8, <2>11, <2>12 DEF f, l
<1> QED
  BY <1>3, <1>4

\* The agents that claimed task j for the highest price.
Top(j) ==
  {k \in Bidders : Claims(k, j) /\ \A l \in Bidders : Claims(l, j) => snap.y[l][j] <= snap.y[k][j]}

TopWins(won) ==
  \A j \in FrontierTasks :
    Top(j) # {} => won[j] \in Top(j) /\ \A l \in Top(j) : won[j] <= l

\* The smallest of them is the winner of the round.
LEMMA RoundWinner ==
  \E won \in [FrontierTasks -> Bidders] : TopWins(won)
<1> DEFINE least(j) == CHOOSE k \in Top(j) : \A l \in Top(j) : k <= l
           some == CHOOSE b \in Bidders : TRUE
           won == [j \in FrontierTasks |-> IF Top(j) # {} THEN least(j) ELSE some]
<1>1. some \in Bidders /\ Bidders \subseteq Nat
  BY CBBAAssumption
<1>2. ASSUME NEW j \in FrontierTasks, Top(j) # {}
      PROVE  least(j) \in Top(j) /\ \A l \in Top(j) : least(j) <= l
  <2>1. Top(j) \in SUBSET Nat
    BY <1>1 DEF Top
  <2>2. \E k \in Top(j) : \A l \in Top(j) : k <= l
    BY <1>2, <2>1, LeastOf
  <2> QED
    BY <2>2
<1> HIDE DEF least, some
<1>3. won \in [FrontierTasks -> Bidders]
  BY <1>1, <1>2 DEF Top
<1>4. TopWins(won)
  BY <1>2 DEF TopWins
<1> QED
  BY <1>3, <1>4

\* Who has heard everybody believes the highest claim, or that there is none.
LEMMA HeardAll ==
  ASSUME AgreeInv, ExactOffers, phase = "hear", heard = Bidders, NEW own,
         PricesOK(y, z), PricesOK(snap.y, snap.z),
         NEW i \in Bidders, NEW j \in FrontierTasks, HeardBest(i, j, own)
  PROVE  \/ z[i][j] \in Top(j) /\ y[i][j] = snap.y[z[i][j]][j]
         \/ z[i][j] = NoAgent /\ y[i][j] = 0 /\ \A k \in Bidders : ~ Claims(k, j)
<1>1. TypeOK /\ ClaimsOK(y, z)
  BY DEF AgreeInv, EpochInv
<1>2. /\ \A k \in Bidders : Claims(k, j) => z[i][j] # NoAgent /\ y[i][j] >= snap.y[k][j]
      /\ \/ z[i][j] \in Bidders /\ Claims(z[i][j], j) /\ y[i][j] = snap.y[z[i][j]][j]
         \/ z[i][j] = NoAgent
         \/ z[i][j] \notin Bidders
  BY DEF HeardBest
<1>3. CASE z[i][j] = NoAgent
  <2>1. y[i][j] = 0
    BY <1>1, <1>3 DEF ClaimsOK
  <2> QED
    BY <1>2, <1>3, <2>1
<1>4. CASE z[i][j] # NoAgent
  <2>1. z[i][j] \in Bidders
    BY <1>4 DEF PricesOK
  <2>2. Claims(z[i][j], j) /\ y[i][j] = snap.y[z[i][j]][j]
    BY <1>2, <1>4, <2>1
  <2>3. y[i][j] \in Int /\ \A l \in Bidders : snap.y[l][j] \in Int
    <3>1. j \in Tasks /\ y \in Views /\ snap.y \in Views
      BY <1>1 DEF TypeOK, FrontierTasks
    <3> QED
      BY <3>1 DEF Views
  <2>4. \A l \in Bidders : Claims(l, j) => snap.y[l][j] <= y[i][j]
    BY <1>2, <2>3
  <2> QED
    BY <2>1, <2>2, <2>4 DEF Top
<1> QED
  BY <1>3, <1>4

\* What the highest claims have in common.
LEMMA TopPrice ==
  ASSUME AgreeInv, phase = "hear", NEW j \in FrontierTasks, NEW k \in Top(j), NEW l \in Top(j)
  PROVE  snap.y[k][j] = snap.y[l][j]
<1>1. k \in Bidders /\ l \in Bidders /\ snap.y[k][j] <= snap.y[l][j] /\ snap.y[l][j] <= snap.y[k][j]
  BY DEF Top
<1>2. snap.y[k][j] \in Int /\ snap.y[l][j] \in Int
  <2>1. j \in Tasks /\ snap.y \in Views
    BY DEF AgreeInv, EpochInv, TypeOK, FrontierTasks
  <2> QED
    BY <1>1, <2>1 DEF Views
<1> QED
  BY <1>1, <1>2

\* The winner knows that it won.
LEMMA WinnerKeeps ==
  ASSUME AgreeInv, ExactOffers, phase = "hear", heard = Bidders, NEW own,
         PricesOK(y, z), PricesOK(snap.y, snap.z),
         NEW won, TopWins(won), NEW j \in FrontierTasks, Top(j) # {},
         HeardBest(won[j], j, own)
  PROVE  z[won[j]][j] = won[j]
<1> DEFINE k == won[j]
<1>1. k \in Top(j) /\ \A l \in Top(j) : k <= l
  BY DEF TopWins
<1>2. k \in Bidders /\ Claims(k, j)
  BY <1>1 DEF Top
<1>3. z[k][j] \in Top(j) /\ y[k][j] = snap.y[z[k][j]][j]
  BY <1>2, HeardAll
<1>4. y[k][j] = snap.y[k][j]
  BY <1>1, <1>3, TopPrice
<1>5. z[k][j] # k => z[k][j] < k
  BY <1>2, <1>4 DEF HeardBest
<1>6. z[k][j] \in Nat /\ k \in Nat /\ k <= z[k][j]
  BY <1>1, <1>3, CBBAAssumption DEF Top
<1> QED
  BY <1>5, <1>6

\* The winner comes before everybody else that offered the same all along.
LEMMA WinnerFirst ==
  ASSUME AgreeInv, ExactOffers, phase = "hear", NEW own \in [FrontierTasks -> Bidders],
         Board(own), KeepsPrice(own), PricesOK(snap.y, snap.z), PlacesOK(snap.y, snap.z),
         NEW won, TopWins(won), NEW j \in FrontierTasks, NEW k \in Top(j),
         NEW b \in Bidders, Steady(b, j), Gain(b, j, 0) = snap.y[k][j]
  PROVE  won[j] <= b
<1> DEFINE g == snap.y[k][j]
<1>1. TypeOK /\ BundlesOK /\ HearingOK /\ j \in Tasks /\ j \notin Held
  BY DEF AgreeInv, EpochInv, FrontierTasks
<1>2. won[j] \in Top(j) /\ \A l \in Top(j) : won[j] <= l
  BY DEF TopWins
<1>3. k \in Bidders /\ Claims(k, j) /\ \A l \in Bidders : Claims(l, j) => snap.y[l][j] <= snap.y[k][j]
  BY DEF Top
<1>4. NoAgent \notin Bidders /\ Bidders \subseteq Nat /\ Epsilon \in Nat
  BY CBBAAssumption
<1>5. g \in GainsOf(k, j) /\ g > Epsilon
  BY <1>3, <1>4 DEF PricesOK, Claims
<1>6. \A l \in Bidders : snap.y[l][j] \in Nat
  <2>1. snap.y \in Views
    BY <1>1 DEF TypeOK
  <2> QED
    BY <1>1, <2>1 DEF Views
<1>7. ASSUME NEW l \in Bidders, Claims(l, j), snap.y[l][j] >= g PROVE l \in Top(j)
  <2>1. snap.y[l][j] = snap.y[k][j]
    BY <1>3, <1>6, <1>7
  <2> QED
    BY <1>3, <1>7, <2>1 DEF Top
<1>8. CASE Claims(b, j)
  <2>1. snap.y[b][j] \in GainsOf(b, j)
    BY <1>4, <1>8 DEF PricesOK, Claims
  <2>2. snap.y[b][j] = g
    BY <1>1, <2>1, SteadyGain DEF TypeOK
  <2>3. b \in Top(j)
    BY <1>3, <1>8, <2>2 DEF Top
  <2> QED
    BY <1>2, <2>3
<1>9. CASE ~ Claims(b, j)
  <2>1. j \notin ToSet(bundle[b])
    BY <1>1, <1>9 DEF PlacesOK, ToSet, Claims
  <2>2. ~ BidGt(Offer(b, j), snap.y[b][j])
    BY <1>1, <2>1 DEF HearingOK
  <2>3. Offer(b, j) \in GainsOf(b, j)
    BY <1>1, <2>1, OfferOf
  <2>4. Offer(b, j) = g
    BY <1>1, <2>3, SteadyGain DEF TypeOK
  <2>5. snap.z[b][j] # NoAgent
    <3>1. snap.z[b][j] = NoAgent => snap.y[b][j] = 0
      BY <1>1 DEF HearingOK, ClaimsOK
    <3> QED
      BY <1>3, <1>4, <1>5, <1>6, <2>2, <2>4, <3>1 DEF BidGt
  <2>6. snap.z[b][j] \in Bidders /\ snap.y[b][j] \in GainsOf(snap.z[b][j], j)
    BY <2>5 DEF PricesOK
  <2>7. g <= snap.y[b][j]
    <3>1. BidGt(g, snap.y[b][j]) <=> g > snap.y[b][j]
      BY <1>1, <1>3, <1>5, <2>6, ExactBids
    <3> QED
      BY <1>3, <1>6, <2>2, <2>4, <3>1
  <2>8. before.z[b][j] = snap.z[b][j] /\ before.y[b][j] = snap.y[b][j]
    BY <1>1, <1>9 DEF HearingOK, BidsOK, Claims
  <2>9. Told(b, j)
    BY <2>5, <2>8 DEF Told
  <2>10. Claims(own[j], j) /\ snap.y[own[j]][j] >= before.y[b][j] /\ own[j] \in Bidders
    BY <2>9 DEF KeepsPrice
  <2>11. snap.y[own[j]][j] >= g /\ snap.y[own[j]][j] <= g
    BY <1>3, <1>6, <2>7, <2>8, <2>10
  <2>12. own[j] \in Top(j) /\ before.y[b][j] = g
    BY <1>3, <1>6, <1>7, <2>7, <2>8, <2>10, <2>11
  <2>13. own[j] <= b
    BY <2>9, <2>12 DEF Board
  <2>14. won[j] <= own[j] /\ won[j] \in Nat /\ own[j] \in Nat /\ b \in Nat
    BY <1>2, <1>4, <2>12 DEF Top
  <2> QED
    BY <2>13, <2>14
<1> QED
  BY <1>8, <1>9

\* What the end of a round does to the beliefs and the bundle of an agent.
LEMMA EndOf ==
  ASSUME AgreeInv, EndRound, NEW a \in Bidders
  PROVE  /\ bundle'[a] = Kept(a)
         /\ \A j \in FrontierTasks :
              IF j \in Voided(a) THEN y'[a][j] = 0 /\ z'[a][j] = NoAgent
              ELSE y'[a][j] = y[a][j] /\ z'[a][j] = z[a][j]
         /\ scenario' = scenario /\ before'.y = y' /\ before'.z = z' /\ before'.b = bundle'
<1>1. before' = [y |-> y', z |-> z', b |-> bundle']
  BY DEF EndRound
<1>2. scenario' = scenario /\ bundle'[a] = Kept(a)
  BY DEF EndRound
<1>3. ASSUME NEW j \in FrontierTasks
      PROVE  IF j \in Voided(a) THEN y'[a][j] = 0 /\ z'[a][j] = NoAgent
             ELSE y'[a][j] = y[a][j] /\ z'[a][j] = z[a][j]
  BY DEF EndRound, FrontierTasks
<1> QED
  BY <1>1, <1>2, <1>3

\* What an agent keeps it had claimed at that price, and what it keeps or releases
\* was its best choice.
LEMMA EndPlaces ==
  ASSUME AgreeInv, EndRound, PricesOK(y, z), PlacesOK(snap.y, snap.z)
  PROVE  PricesOK(y, z)' /\ PlacesOK(y, z)'
<1>1. /\ EpochInv /\ TypeOK /\ BundlesOK /\ HearingOK /\ scenario' = scenario
  BY DEF AgreeInv, EpochInv, EndRound
<1>2. /\ FrontierTasks' = FrontierTasks /\ Held' = Held
      /\ \A a, j : GainsOf(a, j)' = GainsOf(a, j)
      /\ \A a : Carried(a)' = Carried(a)
      /\ \A a, n, j : Worth(a, n, j)' = Worth(a, n, j)
  BY <1>1, SameScenario
<1>3. ASSUME NEW a \in Bidders, NEW j \in FrontierTasks, z'[a][j] # NoAgent
      PROVE  z'[a][j] \in Bidders /\ y'[a][j] \in GainsOf(z'[a][j], j) /\ y'[a][j] > Epsilon
  <2>1. y'[a][j] = y[a][j] /\ z'[a][j] = z[a][j]
    BY <1>3, EndOf
  <2> QED
    BY <1>3, <2>1 DEF PricesOK
<1>4. PricesOK(y, z)'
  BY <1>2, <1>3 DEF PricesOK
<1>5. ASSUME NEW a \in Bidders, NEW n \in DOMAIN bundle'[a], bundle'[a][n] \notin Held
      PROVE  /\ n > Carried(a)
             /\ z'[a][bundle'[a][n]] = a
             /\ y'[a][bundle'[a][n]] = Worth(a, n, bundle'[a][n])
             /\ y'[a][bundle'[a][n]] > Epsilon
  <2> DEFINE f == FirstGone(a)
             j == bundle[a][n]
  <2>1. n \in 1 .. f - 1 /\ n \in DOMAIN bundle[a]
    BY <1>1, ReleaseOf, EndOf
  <2>2. bundle'[a][n] = j /\ z[a][j] = a /\ j \notin Voided(a)
    BY <1>1, <2>1, ReleaseOf, EndOf
  <2>3. j \in FrontierTasks
    <3>1. bundle[a] \in Seq(Tasks)
      BY <1>1 DEF TypeOK
    <3> QED
      BY <1>5, <2>1, <2>2, <3>1 DEF FrontierTasks
  <2>4. n > Carried(a) /\ snap.z[a][j] = a /\ snap.y[a][j] = Worth(a, n, j) /\ snap.y[a][j] > Epsilon
    BY <1>5, <2>1, <2>2 DEF PlacesOK
  <2>5. y[a][j] = snap.y[a][j]
    <3>1. HeardOK(a, j)
      BY <1>1, <2>3 DEF HearingOK
    <3> QED
      BY <2>2, <2>4, <3>1 DEF HeardOK
  <2>6. y'[a][j] = y[a][j] /\ z'[a][j] = z[a][j]
    BY <2>2, <2>3, EndOf
  <2> HIDE DEF j
  <2> QED
    BY <2>2, <2>4, <2>5, <2>6
<1>6. PlacesOK(y, z)'
  BY <1>2, <1>5 DEF PlacesOK
<1> QED
  BY <1>4, <1>6

\* What is left of a bundle after the release was the best choice at its place.
LEMMA EndBest ==
  ASSUME AgreeInv, EndRound, NEW a \in Bidders, BestPlaced(a)
  PROVE  BestPlaced(a)'
<1>1. /\ EpochInv /\ TypeOK /\ BundlesOK /\ scenario' = scenario
  BY DEF AgreeInv, EpochInv, EndRound
<1>2. /\ FrontierTasks' = FrontierTasks /\ Held' = Held
      /\ \A n, j : Worth(a, n, j)' = Worth(a, n, j)
  BY <1>1, SameScenario
<1>3. ASSUME NEW n \in DOMAIN bundle'[a], NEW i \in FrontierTasks,
             bundle'[a][n] \notin Held, i \notin {bundle'[a][m] : m \in 1 .. n}
      PROVE  \/ Ahead(Worth(a, n, bundle'[a][n]), bundle'[a][n], Worth(a, n, i), i)
             \/ i \notin ToSet(bundle'[a]) /\ ~ BidGt(Worth(a, n, i), y'[a][i])
  <2> DEFINE f == FirstGone(a)
             l == Len(bundle[a])
  <2>1. /\ l \in Nat /\ f \in 1 .. l + 1 /\ DOMAIN bundle[a] = 1 .. l /\ bundle'[a] = Kept(a)
        /\ DOMAIN Kept(a) = 1 .. f - 1
        /\ \A m \in 1 .. f - 1 : m \in 1 .. l /\ Kept(a)[m] = bundle[a][m]
        /\ Voided(a) = {bundle[a][m] : m \in f + 1 .. l}
    BY <1>1, ReleaseOf, EndOf
  <2> HIDE DEF f, l
  <2>2. n \in 1 .. f - 1 /\ n \in DOMAIN bundle[a] /\ bundle'[a][n] = bundle[a][n]
    BY <2>1
  <2>3. \A m \in 1 .. n : m \in 1 .. f - 1 /\ bundle'[a][m] = bundle[a][m]
    BY <2>1, <2>2
  <2>4. i \notin {bundle[a][m] : m \in 1 .. n}
    BY <1>3, <2>3
  <2>5. \/ Ahead(Worth(a, n, bundle[a][n]), bundle[a][n], Worth(a, n, i), i)
        \/ i \notin ToSet(bundle[a]) /\ ~ BidGt(Worth(a, n, i), y[a][i])
    BY <1>3, <2>2, <2>4 DEF BestPlaced
  <2>6. ASSUME i \notin ToSet(bundle[a])
        PROVE  i \notin ToSet(bundle'[a]) /\ y'[a][i] = y[a][i]
    <3>1. i \notin Voided(a)
      BY <2>1, <2>6 DEF ToSet
    <3>2. i \notin ToSet(bundle'[a])
      BY <2>1, <2>6 DEF ToSet
    <3> QED
      BY <3>1, <3>2, EndOf
  <2> QED
    BY <2>2, <2>5, <2>6
<1> QED
  BY <1>2, <1>3 DEF BestPlaced

\* At the end of a round all agree on the prices, and in a tie on a winner or on
\* one who comes too late to know better.
LEMMA EndBoard ==
  ASSUME AgreeInv, ExactOffers, EndRound, NEW own \in [FrontierTasks -> Bidders],
         Board(own), KeepsPrice(own), \A i \in Bidders : \A j \in FrontierTasks : HeardBest(i, j, own),
         PricesOK(y, z), PricesOK(snap.y, snap.z), PlacesOK(snap.y, snap.z),
         NEW won \in [FrontierTasks -> Bidders], TopWins(won)
  PROVE  Board(won)'
<1>1. /\ TypeOK /\ HearingOK /\ scenario' = scenario /\ phase = "hear" /\ heard = Bidders
  BY DEF AgreeInv, EpochInv, EndRound
<1>2. /\ FrontierTasks' = FrontierTasks
      /\ \A a, j : Gain(a, j, 0)' = Gain(a, j, 0) /\ Steady(a, j)' = Steady(a, j)
  BY <1>1, SameScenario
<1>3. before'.y = y' /\ before'.z = z'
  <2>1. PICK a \in Bidders : TRUE
    BY CBBAAssumption
  <2> QED
    BY <2>1, EndOf
<1>4. ASSUME NEW a \in Bidders, NEW j \in FrontierTasks, z'[a][j] # NoAgent
      PROVE  /\ z'[a][j] = z[a][j] /\ y'[a][j] = y[a][j]
             /\ z[a][j] \in Top(j) /\ y[a][j] = snap.y[z[a][j]][j]
  <2>1. z'[a][j] = z[a][j] /\ y'[a][j] = y[a][j]
    BY <1>4, EndOf
  <2> QED
    BY <1>1, <1>4, <2>1, HeardAll
<1>5. ASSUME NEW a \in Bidders, NEW j \in FrontierTasks, z'[a][j] # NoAgent
      PROVE  /\ z'[a][j] = won[j] \/ (won[j] < z'[a][j] /\ z'[a][j] < a)
             /\ \A b \in Bidders : z'[b][j] # NoAgent => y'[a][j] = y'[b][j]
             /\ \A b \in Bidders : Steady(b, j) /\ Gain(b, j, 0) = y'[a][j] => won[j] <= b
  <2> DEFINE w == won[j]
             k == z[a][j]
  <2>1. /\ z'[a][j] = k /\ y'[a][j] = y[a][j] /\ k \in Top(j) /\ y[a][j] = snap.y[k][j]
    BY <1>4, <1>5
  <2>2. w \in Top(j) /\ \A l \in Top(j) : w <= l
    BY <2>1 DEF TopWins
  <2>3. k \in Nat /\ w \in Nat /\ a \in Nat /\ w \in Bidders /\ Claims(w, j) /\ k \in Bidders
        /\ Claims(k, j)
    BY <2>1, <2>2, CBBAAssumption DEF Top
  <2>4. snap.y[w][j] = snap.y[k][j] /\ snap.y[k][j] \in Nat
    <3>1. snap.y[w][j] = snap.y[k][j]
      BY <1>1, <2>1, <2>2, TopPrice
    <3>2. j \in Tasks /\ snap.y \in Views
      BY <1>1 DEF TypeOK, FrontierTasks
    <3> QED
      BY <2>3, <3>1, <3>2 DEF Views
  <2>5. k = w \/ (w < k /\ k < a)
    <3> SUFFICES ASSUME k # w PROVE w < k /\ k < a
      OBVIOUS
    <3>1. w < k
      BY <2>1, <2>2, <2>3
    <3>2. CASE k = a
      <4>1. HeardOK(a, j)
        BY <1>1 DEF HearingOK
      <4>2. ~ Beats(snap.y[w][j], w, snap.y[a][j], a)
        BY <1>1, <2>3, <3>1, <3>2, <4>1 DEF HeardOK
      <4>3. Epsilon \in Nat
        BY CBBAAssumption
      <4> QED
        BY <2>3, <2>4, <3>1, <3>2, <4>2, <4>3 DEF Beats, BidGt
    <3>3. CASE k # a
      <4>1. k \in heard \ {a} /\ w \in heard /\ snap.y[w][j] >= y[a][j]
        BY <1>1, <2>1, <2>3, <2>4, <3>3
      <4> QED
        BY <2>3, <3>1, <4>1 DEF HeardBest
    <3> QED
      BY <3>2, <3>3
  <2>6. ASSUME NEW b \in Bidders, z'[b][j] # NoAgent PROVE y'[a][j] = y'[b][j]
    <3>1. y'[b][j] = y[b][j] /\ z[b][j] \in Top(j) /\ y[b][j] = snap.y[z[b][j]][j]
      BY <1>4, <2>6
    <3>2. snap.y[z[b][j]][j] = snap.y[k][j]
      BY <1>1, <2>1, <3>1, TopPrice
    <3> QED
      BY <2>1, <3>1, <3>2
  <2>7. ASSUME NEW b \in Bidders, Steady(b, j), Gain(b, j, 0) = y'[a][j] PROVE w <= b
    BY <1>1, <2>1, <2>7, WinnerFirst
  <2> QED
    BY <2>1, <2>5, <2>6, <2>7
<1> QED
  BY <1>2, <1>3, <1>5 DEF Board, Told

\* What the winner of a task releases it is still owed.
LEMMA EndRelease ==
  ASSUME AgreeInv, ExactOffers, EndRound, NEW own \in [FrontierTasks -> Bidders],
         \A i \in Bidders : \A j \in FrontierTasks : HeardBest(i, j, own),
         PricesOK(y, z), PricesOK(snap.y, snap.z), PlacesOK(snap.y, snap.z),
         NEW won \in [FrontierTasks -> Bidders], TopWins(won), NEW k \in Bidders, BestPlaced(k)
  PROVE  \E b \in Seq(Tasks) : \E f \in Nat :
           Released(k, b, f)' /\ Owed(k, b, f, won)' /\ Rebuilt(k, b, f)'
<1>1. /\ EpochInv /\ TypeOK /\ BundlesOK /\ HearingOK /\ scenario' = scenario
      /\ phase = "hear" /\ heard = Bidders
  BY DEF AgreeInv, EpochInv, EndRound
<1> PICK b \in Seq(Tasks), f \in Nat : b = bundle[k] /\ f = FirstGone(k)
  <2>1. bundle[k] \in Seq(Tasks)
    BY <1>1 DEF TypeOK
  <2>2. Len(bundle[k]) \in Nat
    BY <2>1
  <2>3. FirstGone(k) \in 1 .. Len(bundle[k]) + 1
    BY <1>1, ReleaseOf
  <2>4. FirstGone(k) \in Nat
    BY <2>2, <2>3
  <2> QED
    BY <2>1, <2>4
<1> DEFINE l == Len(b)
<1>2. /\ FrontierTasks' = FrontierTasks
      /\ \A a : Carried(a)' = Carried(a)
      /\ \A a, n, j : Worth(a, n, j)' = Worth(a, n, j)
  BY <1>1, SameScenario
<1>3. before'.y = y' /\ before'.z = z' /\ before'.b[k] = Kept(k) /\ bundle'[k] = Kept(k)
  BY EndOf
<1>4. IsInjective(b) /\ DOMAIN b = 1 .. l /\ l = Len(b)
  BY <1>1 DEF TypeOK, BundlesOK
<1>5. Carried(k) \in Nat
  BY <1>1, CarriedOf
<1>6. /\ l \in Nat /\ f \in 1 .. l + 1
      /\ Len(Kept(k)) = f - 1
      /\ \A n \in 1 .. f - 1 : Kept(k)[n] = b[n]
      /\ Voided(k) = {b[n] : n \in f + 1 .. l}
      /\ f <= l =>
           /\ z[k][b[f]] # k /\ b[f] \notin Voided(k)
           /\ \A n \in f .. l : b[n] \in FrontierTasks
  BY <1>1, ReleaseOf, SMTT(30)
<1> HIDE DEF l
<1>7. f \in Nat
  OBVIOUS
<1>8. ASSUME NEW n \in f .. l
      PROVE  /\ n \in 1 .. l /\ b[n] \in FrontierTasks /\ b[n] \in Tasks /\ b[n] \notin Held
             /\ n > Carried(k)
             /\ snap.z[k][b[n]] = k /\ snap.y[k][b[n]] = Worth(k, n, b[n])
             /\ snap.y[k][b[n]] > Epsilon
  <2>1. n \in 1 .. l /\ f <= l
    BY <1>6, <1>7
  <2>2. b[n] \in FrontierTasks
    BY <1>6, <2>1
  <2>3. b[n] \in Tasks /\ b[n] \notin Held
    BY <2>2 DEF FrontierTasks
  <2>4. n \in DOMAIN bundle[k] /\ b[n] = bundle[k][n]
    BY <1>4, <2>1
  <2> QED
    BY <2>1, <2>2, <2>3, <2>4 DEF PlacesOK
<1>9. \A j \in FrontierTasks :
        IF j \in Voided(k) THEN y'[k][j] = 0 /\ z'[k][j] = NoAgent
        ELSE y'[k][j] = y[k][j] /\ z'[k][j] = z[k][j]
  BY EndOf
<1>10. ASSUME f <= l
       PROVE  b[f] \in FrontierTasks /\ f > Carried(k) /\ ~ BidGt(Worth(k, f, b[f]), y'[k][b[f]])
  <2>1. f \in f .. l
    BY <1>6, <1>7, <1>10
  <2>2. /\ b[f] \in FrontierTasks /\ f > Carried(k) /\ snap.y[k][b[f]] = Worth(k, f, b[f])
        /\ b[f] \in Tasks
    BY <1>8, <2>1
  <2>3. y'[k][b[f]] = y[k][b[f]]
    BY <1>6, <1>9, <1>10, <2>2
  <2>4. y[k][b[f]] >= snap.y[k][b[f]]
    BY <2>2 DEF HeardBest
  <2>5. y[k][b[f]] \in Nat /\ snap.y[k][b[f]] \in Nat /\ Epsilon \in Nat
    <3>1. y \in Views /\ snap.y \in Views
      BY <1>1 DEF TypeOK
    <3> QED
      BY <2>2, <3>1, CBBAAssumption DEF Views
  <2>6. ~ BidGt(snap.y[k][b[f]], y[k][b[f]])
    BY <2>4, <2>5 DEF BidGt
  <2> QED
    BY <2>2, <2>3, <2>6
<1>11. ASSUME NEW n \in f + 1 .. l
       PROVE  /\ b[n] \in FrontierTasks /\ y'[k][b[n]] = 0 /\ Worth(k, n, b[n]) > Epsilon
              /\ \A i \in FrontierTasks :
                   i \notin {b[m] : m \in 1 .. n} =>
                     \/ Ahead(Worth(k, n, b[n]), b[n], Worth(k, n, i), i)
                     \/ ~ BidGt(Worth(k, n, i), y'[k][i])
  <2>1. n \in f .. l
    BY <1>6, <1>7
  <2>2. /\ n \in 1 .. l /\ b[n] \in FrontierTasks /\ b[n] \notin Held
        /\ snap.y[k][b[n]] = Worth(k, n, b[n]) /\ snap.y[k][b[n]] > Epsilon
    BY <1>8, <2>1
  <2>3. y'[k][b[n]] = 0
    BY <1>6, <1>9, <2>2
  <2>4. ASSUME NEW i \in FrontierTasks, i \notin {b[m] : m \in 1 .. n}
        PROVE  \/ Ahead(Worth(k, n, b[n]), b[n], Worth(k, n, i), i)
               \/ ~ BidGt(Worth(k, n, i), y'[k][i])
    <3>1. n \in DOMAIN bundle[k] /\ b[n] = bundle[k][n] /\ i \notin {bundle[k][m] : m \in 1 .. n}
      BY <1>4, <2>2, <2>4
    <3>2. \/ Ahead(Worth(k, n, b[n]), b[n], Worth(k, n, i), i)
          \/ i \notin ToSet(b) /\ ~ BidGt(Worth(k, n, i), y[k][i])
      BY <2>2, <3>1 DEF BestPlaced
    <3>3. i \notin ToSet(b) => y'[k][i] = y[k][i]
      <4>1. \A m \in f + 1 .. l : m \in 1 .. l
        BY <1>6, <1>7
      <4> QED
        BY <1>4, <1>6, <1>9, <4>1, SMTT(30) DEF ToSet
    <3> QED
      BY <3>2, <3>3
  <2> QED
    BY <2>2, <2>3, <2>4
<1>12. Released(k, b, f)'
  <2>1. f \in 1 .. Len(b) + 1
    BY <1>4, <1>6
  <2>2. Len(before'.b[k]) = f - 1 /\ \A n \in 1 .. f - 1 : before'.b[k][n] = b[n]
    BY <1>3, <1>6
  <2> QED
    BY <1>2, <1>3, <1>4, <1>10, <1>11, <2>1, <2>2 DEF Released
<1>13. ASSUME NEW j \in FrontierTasks, NEW a \in Bidders, won[j] = k, z'[a][j] # NoAgent, z'[k][j] # k
       PROVE  \E n \in f + 1 .. l : b[n] = j /\ y'[a][j] = Worth(k, n, j)
  <2>1. z[a][j] \in Top(j) /\ y[a][j] = snap.y[z[a][j]][j] /\ y'[a][j] = y[a][j]
    <3>1. z'[a][j] = z[a][j] /\ y'[a][j] = y[a][j]
      BY <1>13, EndOf
    <3> QED
      BY <1>1, <1>13, <3>1, HeardAll
  <2>2. z[k][j] = k
    BY <1>1, <1>13, <2>1, WinnerKeeps, ZenonT(60)
  <2>3. j \in Voided(k)
    BY <1>9, <1>13, <2>2
  <2>4. PICK n \in f + 1 .. l : b[n] = j
    BY <1>6, <2>3
  <2>5. n \in f .. l
    BY <1>6, <1>7
  <2>6. snap.y[k][j] = Worth(k, n, j)
    BY <1>8, <2>4, <2>5
  <2>7. k \in Top(j)
    BY <1>13, <2>1 DEF TopWins
  <2>8. snap.y[z[a][j]][j] = snap.y[k][j]
    BY <1>1, <2>1, <2>7, TopPrice
  <2> QED
    BY <2>1, <2>4, <2>6, <2>8
<1>14. Owed(k, b, f, won)'
  BY <1>2, <1>3, <1>4, <1>13 DEF Owed, Told
<1>15. Rebuilt(k, b, f)'
  <2>1. \A n \in f + 1 .. Len(b) : ~ (n <= Len(bundle'[k]))
    BY <1>3, <1>4, <1>6, <1>7
  <2> QED
    BY <2>1 DEF Rebuilt
<1> QED
  BY <1>4, <1>7, <1>12, <1>14, <1>15

-----------------------------------------------------------------------------
(* The auctioneer.                                                         *)

\* Tasks with prices can be listed in the order of the auctioneer.
LEMMA SortedListing ==
  ASSUME NEW A \in SUBSET Nat, IsFiniteSet(A), NEW p, \A j \in A : p[j] \in Nat
  PROVE  \E o \in SetToSeqs(A) : \A m, n \in DOMAIN o : m < n => Ahead(p[o[m]], o[m], p[o[n]], o[n])
<1> DEFINE c == Cardinality(A)
           upTo(j) == {i \in A : i = j \/ Ahead(p[i], i, p[j], j)}
           r == [j \in A |-> Cardinality(upTo(j))]
<1>1. c \in Nat
  BY FS_CardinalityType
<1>2. ASSUME NEW j \in A
      PROVE  /\ IsFiniteSet(upTo(j)) /\ upTo(j) \subseteq A /\ j \in upTo(j)
             /\ r[j] = Cardinality(upTo(j)) /\ r[j] \in 1 .. c
  <2>1. upTo(j) \in SUBSET A /\ j \in upTo(j)
    OBVIOUS
  <2>2. r[j] = Cardinality(upTo(j))
    OBVIOUS
  <2> HIDE DEF upTo, r
  <2>3. IsFiniteSet(upTo(j)) /\ Cardinality(upTo(j)) <= c
    BY <2>1, FS_Subset
  <2>4. Cardinality(upTo(j)) \in Nat /\ Cardinality(upTo(j)) # 0
    BY <2>1, <2>3, FS_CardinalityType, FS_EmptySet
  <2> QED
    BY <1>1, <2>1, <2>2, <2>3, <2>4
<1>3. ASSUME NEW i \in A, NEW j \in A, Ahead(p[i], i, p[j], j) PROVE r[i] < r[j]
  <2>1. p[i] \in Nat /\ p[j] \in Nat /\ i \in Nat /\ j \in Nat
    OBVIOUS
  <2>2. upTo(i) \subseteq upTo(j)
    <3>1. ASSUME NEW h \in upTo(i) PROVE h \in upTo(j)
      <4>1. h \in A /\ p[h] \in Nat /\ h \in Nat /\ (h = i \/ Ahead(p[h], h, p[i], i))
        OBVIOUS
      <4>2. Ahead(p[h], h, p[j], j)
        BY <1>3, <2>1, <4>1 DEF Ahead
      <4> QED
        BY <4>1, <4>2
    <3> QED
      BY <3>1
  <2>3. j \notin upTo(i)
    BY <1>3, <2>1 DEF Ahead
  <2>4. upTo(i) # upTo(j) /\ upTo(i) \in SUBSET upTo(j)
    BY <1>2, <2>2, <2>3
  <2>5. IsFiniteSet(upTo(j)) /\ r[i] = Cardinality(upTo(i)) /\ r[j] = Cardinality(upTo(j))
        /\ r[i] \in Nat /\ r[j] \in Nat
    BY <1>2
  <2> HIDE DEF upTo, r
  <2>6. /\ Cardinality(upTo(i)) <= Cardinality(upTo(j))
        /\ Cardinality(upTo(i)) = Cardinality(upTo(j)) => upTo(i) = upTo(j)
    BY <2>4, <2>5, FS_Subset
  <2> QED
    BY <2>4, <2>5, <2>6
<1>4. ASSUME NEW i \in A, NEW j \in A, r[i] = r[j] PROVE i = j
  <2>1. p[i] \in Nat /\ p[j] \in Nat /\ i \in Nat /\ j \in Nat
    OBVIOUS
  <2>2. i = j \/ Ahead(p[i], i, p[j], j) \/ Ahead(p[j], j, p[i], i)
    BY <2>1 DEF Ahead
  <2>3. r[i] \in Nat /\ r[j] \in Nat
    BY <1>2
  <2> HIDE DEF r
  <2> QED
    BY <1>3, <1>4, <2>2, <2>3
<1>5. r \in [A -> 1 .. c]
  BY <1>2
<1> HIDE DEF r, upTo
<1>6. r \in Injection(A, 1 .. c)
  BY <1>4, <1>5 DEF Injection, IsInjective
<1>7. IsFiniteSet(1 .. c) /\ Cardinality(1 .. c) = c
  BY <1>1, FS_Interval
<1>8. r \in Surjection(A, 1 .. c)
  BY <1>6, <1>7, FS_Injection
<1>9. \A n \in 1 .. c : \E j \in A : r[j] = n
  BY <1>8 DEF Surjection
<1> DEFINE o == [n \in 1 .. c |-> CHOOSE j \in A : r[j] = n]
<1>10. ASSUME NEW n \in 1 .. c PROVE o[n] \in A /\ r[o[n]] = n
  BY <1>9
<1>11. o \in [1 .. c -> A] /\ DOMAIN o = 1 .. c
  BY <1>10
<1> HIDE DEF o
<1>12. IsInjective(o)
  BY <1>10, <1>11 DEF IsInjective
<1>13. o \in SetToSeqs(A)
  <2>1. \A m, n \in 1 .. c : m # n => o[m] # o[n]
    BY <1>11, <1>12 DEF IsInjective
  <2> QED
    BY <1>11, <2>1 DEF SetToSeqs
<1>14. ASSUME NEW m \in 1 .. c, NEW n \in 1 .. c, m < n
       PROVE  Ahead(p[o[m]], o[m], p[o[n]], o[n])
  <2>1. o[m] \in A /\ o[n] \in A /\ r[o[m]] = m /\ r[o[n]] = n
    BY <1>10
  <2>2. p[o[m]] \in Nat /\ p[o[n]] \in Nat /\ o[m] \in Nat /\ o[n] \in Nat
    BY <2>1
  <2>3. o[m] = o[n] \/ Ahead(p[o[m]], o[m], p[o[n]], o[n]) \/ Ahead(p[o[n]], o[n], p[o[m]], o[m])
    BY <2>2 DEF Ahead
  <2>4. m \in Nat /\ n \in Nat /\ m < n
    BY <1>1, <1>14
  <2>5. o[m] # o[n]
    BY <2>1, <2>4
  <2>6. ~ Ahead(p[o[n]], o[n], p[o[m]], o[m])
    <3> SUFFICES ASSUME Ahead(p[o[n]], o[n], p[o[m]], o[m]) PROVE FALSE
      OBVIOUS
    <3>1. r[o[n]] < r[o[m]]
      BY <1>3, <2>1
    <3> QED
      BY <2>1, <2>4, <3>1
  <2> QED
    BY <2>3, <2>5, <2>6
<1> QED
  BY <1>11, <1>13, <1>14

\* All agents believe that won wins for the prices p, and have told each other.
Settled(won, p) ==
  /\ phase = "hear"
  /\ PricesOK(snap.y, snap.z) /\ PlacesOK(snap.y, snap.z)
  /\ \A a \in Bidders :
       /\ BestPlaced(a) /\ z[a] = won /\ y[a] = p
       /\ ToSet(bundle[a]) = {j \in Tasks : won[j] = a}
       /\ \A j \in Tasks : snap.z[a][j] = won[j] /\ snap.y[a][j] = p[j]

Awarded(won) == {j \in FrontierTasks : won[j] # NoAgent}

\* What is known of a settled round.
LEMMA SettledOf ==
  ASSUME AgreeInv, NEW won, NEW p, Settled(won, p)
  PROVE  /\ TypeOK /\ EpochInv /\ BundlesOK /\ HearingOK
         /\ Awarded(won) \subseteq Tasks /\ Awarded(won) \subseteq Nat /\ IsFiniteSet(Awarded(won))
         /\ \A j \in Tasks : p[j] \in Nat
         /\ \A j \in Awarded(won) :
              /\ won[j] \in Bidders /\ j \in ToSet(bundle[won[j]]) /\ j \notin Held
              /\ p[j] \in GainsOf(won[j], j) /\ p[j] > Epsilon
         /\ \A a \in Bidders : \A n \in DOMAIN bundle[a] :
              bundle[a][n] \notin Held =>
                /\ bundle[a][n] \in Awarded(won) /\ won[bundle[a][n]] = a
                /\ n > Carried(a) /\ p[bundle[a][n]] = Worth(a, n, bundle[a][n])
<1>1. TypeOK /\ EpochInv /\ BundlesOK /\ HearingOK
  BY DEF AgreeInv, EpochInv, Settled
<1>2. PICK c \in Bidders : TRUE
  BY CBBAAssumption
<1>3. Awarded(won) \subseteq Tasks /\ Awarded(won) \subseteq Nat
  BY CBBAAssumption DEF Awarded, FrontierTasks
<1>4. IsFiniteSet(Awarded(won))
  <2>1. IsFiniteSet(FrontierTasks) /\ Awarded(won) \in SUBSET FrontierTasks
    BY <1>1, ScenarioOf DEF TypeOK, Awarded
  <2> QED
    BY <2>1, FS_Subset
<1>5. \A j \in Tasks : p[j] \in Nat
  <2>1. p = y[c] /\ y \in Views
    BY <1>1, <1>2 DEF Settled, TypeOK
  <2> QED
    BY <2>1 DEF Views
<1>6. ASSUME NEW j \in Awarded(won)
      PROVE  /\ won[j] \in Bidders /\ j \in ToSet(bundle[won[j]]) /\ j \notin Held
             /\ p[j] \in GainsOf(won[j], j) /\ p[j] > Epsilon
  <2>1. j \in FrontierTasks /\ j \in Tasks /\ j \notin Held /\ won[j] # NoAgent
    BY DEF Awarded, FrontierTasks
  <2>2. snap.z[c][j] = won[j] /\ snap.y[c][j] = p[j]
    BY <2>1 DEF Settled
  <2>3. won[j] \in Bidders /\ p[j] \in GainsOf(won[j], j) /\ p[j] > Epsilon
    BY <2>1, <2>2 DEF Settled, PricesOK
  <2>4. j \in ToSet(bundle[won[j]])
    BY <2>1, <2>3 DEF Settled
  <2> QED
    BY <2>1, <2>3, <2>4
<1>7. ASSUME NEW a \in Bidders, NEW n \in DOMAIN bundle[a], bundle[a][n] \notin Held
      PROVE  /\ bundle[a][n] \in Awarded(won) /\ won[bundle[a][n]] = a
             /\ n > Carried(a) /\ p[bundle[a][n]] = Worth(a, n, bundle[a][n])
  <2> DEFINE j == bundle[a][n]
  <2>1. j \in ToSet(bundle[a]) /\ a # NoAgent
    BY CBBAAssumption DEF ToSet
  <2>2. j \in Tasks /\ won[j] = a
    BY <2>1 DEF Settled
  <2>3. j \in Awarded(won)
    BY <1>7, <2>1, <2>2 DEF Awarded, FrontierTasks
  <2>4. n > Carried(a) /\ snap.y[a][j] = Worth(a, n, j)
    BY <1>7 DEF Settled, PlacesOK
  <2>5. snap.y[a][j] = p[j]
    BY <2>2 DEF Settled
  <2> QED
    BY <2>2, <2>3, <2>4, <2>5
<1> QED
  BY <1>1, <1>3, <1>4, <1>5, <1>6, <1>7

\* An agent bid for its tasks in the order of the auctioneer.
LEMMA OwnOrder ==
  ASSUME AgreeInv, FallingGains, NEW won, NEW p, Settled(won, p), NEW a \in Bidders,
         NEW k \in DOMAIN bundle[a], NEW l \in DOMAIN bundle[a], k < l,
         bundle[a][k] \notin Held, bundle[a][l] \notin Held
  PROVE  Ahead(p[bundle[a][k]], bundle[a][k], p[bundle[a][l]], bundle[a][l])
<1> DEFINE i == bundle[a][k]
           j == bundle[a][l]
<1>1. TypeOK /\ EpochInv /\ BundlesOK
  BY SettledOf
<1>2. /\ i \in Awarded(won) /\ j \in Awarded(won) /\ k > Carried(a) /\ l > Carried(a)
      /\ p[i] = Worth(a, k, i) /\ p[j] = Worth(a, l, j)
  BY SettledOf
<1>3. i \in FrontierTasks /\ j \in FrontierTasks /\ i \in Nat /\ j \in Nat
  BY <1>2, SettledOf DEF Awarded
<1>4. k \in Nat /\ l \in Nat /\ k \in 1 .. Len(bundle[a]) /\ l \in 1 .. Len(bundle[a])
  <2>1. bundle[a] \in Seq(Tasks)
    BY <1>1 DEF TypeOK
  <2> QED
    BY <2>1
<1>5. Carried(a) \in Nat /\ Worth(a, l, j) \in Int
  BY <1>1, <1>2, <1>3, PlaceWorth
<1>6. Worth(a, k, j) \in Int /\ Worth(a, k, i) \in Int
  BY <1>1, <1>2, <1>3, PlaceWorth
<1>7. Worth(a, l, j) <= Worth(a, k, j)
  BY <1>1, <1>2, <1>3, <1>4, <1>5, WorthOf
<1>8. j \notin {bundle[a][m] : m \in 1 .. k}
  <2> SUFFICES ASSUME NEW m \in 1 .. k, bundle[a][m] = bundle[a][l] PROVE FALSE
    OBVIOUS
  <2>1. m \in DOMAIN bundle[a] /\ m # l
    <3>1. DOMAIN bundle[a] = 1 .. Len(bundle[a]) /\ Len(bundle[a]) \in Nat
      BY <1>1 DEF TypeOK
    <3> QED
      BY <1>4, <3>1
  <2> QED
    BY <1>1, <2>1 DEF BundlesOK, IsInjective
<1>9. Ahead(Worth(a, k, i), i, Worth(a, k, j), j)
  <2>1. j \in ToSet(bundle[a])
    BY DEF ToSet
  <2>2. BestPlaced(a)
    BY DEF Settled
  <2> QED
    BY <1>3, <1>8, <2>1, <2>2 DEF BestPlaced
<1> HIDE DEF i, j
<1>10. Ahead(p[i], i, p[j], j)
  BY <1>2, <1>3, <1>5, <1>6, <1>7, <1>9 DEF Ahead
<1> QED
  BY <1>10 DEF i, j

\* The position a task would get in the bundle of a in the order of the auctioneer.
PlaceOf(a, p, j, n) ==
  /\ n \in 1 .. Len(bundle[a]) + 1
  /\ \A k \in 1 .. n - 1 :
       bundle[a][k] \in Held \/ Ahead(p[bundle[a][k]], bundle[a][k], p[j], j)
  /\ \A k \in n .. Len(bundle[a]) :
       bundle[a][k] \in FrontierTasks /\ ~ Ahead(p[bundle[a][k]], bundle[a][k], p[j], j)

\* At the end every awarded task has such a place in the bundle of every agent.
LEMMA PlaceExists ==
  ASSUME AgreeInv, FallingGains, NEW won, NEW p, Settled(won, p), NEW a \in Bidders,
         NEW j \in Awarded(won)
  PROVE  \E n \in Nat : PlaceOf(a, p, j, n)
<1> DEFINE b == bundle[a]
           l == Len(bundle[a])
           ahead(i) == Ahead(p[i], i, p[j], j)
           S == {n \in 1 .. l + 1 : n = l + 1 \/ (b[n] \notin Held /\ ~ ahead(b[n]))}
<1>1. TypeOK /\ EpochInv /\ BundlesOK /\ HeldFirst /\ b \in Seq(Tasks)
  BY SettledOf DEF EpochInv, TypeOK
<1>2. l \in Nat /\ DOMAIN b = 1 .. l
  BY <1>1
<1>3. l + 1 \in S /\ S \in SUBSET Nat
  BY <1>2
<1>4. PICK n \in S : \A m \in S : n <= m
  BY <1>3, LeastOf
<1>5. n \in 1 .. l + 1 /\ n \in Nat
  BY <1>2
<1>6. ASSUME NEW k \in 1 .. n - 1 PROVE b[k] \in Held \/ ahead(b[k])
  <2>1. k \in 1 .. l + 1 /\ k # l + 1 /\ ~ (n <= k)
    BY <1>2, <1>5
  <2>2. k \notin S
    BY <1>4, <2>1
  <2> QED
    BY <2>1, <2>2
<1>7. ASSUME NEW k \in n .. l PROVE b[k] \in FrontierTasks /\ ~ ahead(b[k])
  <2>1. n \in 1 .. l /\ k \in 1 .. l /\ n <= k /\ n # l + 1 /\ k \in Nat
    BY <1>2, <1>5
  <2>2. b[n] \notin Held /\ ~ ahead(b[n])
    BY <2>1
  <2>3. b[k] \notin Held
    BY <1>1, <1>2, <2>1, <2>2 DEF HeldFirst
  <2>4. b[k] \in FrontierTasks
    BY <1>1, <1>2, <2>1, <2>3 DEF FrontierTasks
  <2>5. ~ ahead(b[k])
    <3>1. CASE k = n
      BY <2>2, <3>1
    <3>2. CASE k # n
      <4>1. n < k
        BY <1>5, <2>1, <3>2
      <4>2. Ahead(p[b[n]], b[n], p[b[k]], b[k])
        BY <1>2, <2>1, <2>2, <2>3, <4>1, OwnOrder
      <4>3. b[n] \in Awarded(won) /\ b[k] \in Awarded(won)
        BY <1>2, <2>1, <2>2, <2>3, SettledOf
      <4>4. /\ b[n] \in Nat /\ b[k] \in Nat /\ j \in Nat
            /\ p[b[n]] \in Nat /\ p[b[k]] \in Nat /\ p[j] \in Nat
        BY <4>3, SettledOf
      <4> HIDE DEF b
      <4> QED
        BY <2>2, <4>2, <4>4 DEF Ahead
    <3> QED
      BY <3>1, <3>2
  <2> QED
    BY <2>4, <2>5
<1>8. PlaceOf(a, p, j, n)
  BY <1>5, <1>6, <1>7 DEF PlaceOf
<1> QED
  BY <1>5, <1>8

\* The list the auctioneer works through.
InOrder(o, won, p) ==
  /\ o \in SetToSeqs(Awarded(won))
  /\ \A m, n \in DOMAIN o : m < n => Ahead(p[o[m]], o[m], p[o[n]], o[n])

\* When the auctioneer comes to a task, a has won what stands before the place
\* of that task in its bundle.
LEMMA WonBefore ==
  ASSUME AgreeInv, NEW won, NEW p, Settled(won, p),
         NEW o, InOrder(o, won, p), NEW n \in DOMAIN o, NEW a \in Bidders,
         NEW c \in Nat, PlaceOf(a, p, o[n], c)
  PROVE  LET l == WonOf(a, o, n - 1, won)
         IN  /\ Len(l) = c - 1 - Carried(a)
             /\ \A m \in n .. Len(o) : l \in Lists(Others(a, o[m]))
<1> DEFINE b == bundle[a]
           j == o[n]
           A == Awarded(won)
           M == {m \in 1 .. n - 1 : won[o[m]] = a}
           T == {b[k] : k \in 1 .. c - 1}
           H == {i \in Held : scenario.held[i].winner = a}
           g == [k \in 1 .. c - 1 |-> b[k]]
           q == SubSeq(o, 1, n - 1)
           X == {i \in Tasks : won[i] # a}
           w == WonOf(a, o, n - 1, won)
<1>1. /\ TypeOK /\ EpochInv /\ BundlesOK /\ HeldLocked /\ b \in Seq(Tasks) /\ IsInjective(b)
      /\ A \subseteq Tasks /\ A \subseteq Nat /\ IsFiniteSet(A)
      /\ \A i \in A : p[i] \in Nat /\ i \notin Held /\ i \in FrontierTasks
  <2>1. TypeOK /\ EpochInv /\ BundlesOK
    BY SettledOf
  <2>2. HeldLocked /\ b \in Seq(Tasks) /\ IsInjective(b)
    BY <2>1 DEF EpochInv, TypeOK, BundlesOK
  <2>3. A \subseteq Tasks /\ A \subseteq Nat /\ IsFiniteSet(A)
    BY SettledOf
  <2>4. \A i \in A : p[i] \in Nat
    BY <2>3, SettledOf
  <2>5. \A i \in A : i \notin Held /\ i \in FrontierTasks
    BY DEF Awarded, FrontierTasks
  <2> QED
    BY <2>1, <2>2, <2>3, <2>4, <2>5
<1>2. Len(b) \in Nat /\ DOMAIN b = 1 .. Len(b) /\ c \in 1 .. Len(b) + 1
  BY <1>1 DEF PlaceOf
<1>3. \A k \in 1 .. c - 1 : k \in 1 .. Len(b)
  BY <1>2
<1>4. /\ \A k \in 1 .. c - 1 : b[k] \in Held \/ Ahead(p[b[k]], b[k], p[j], j)
      /\ \A k \in c .. Len(b) : b[k] \notin Held /\ ~ Ahead(p[b[k]], b[k], p[j], j)
  BY DEF PlaceOf, FrontierTasks
<1>5. /\ o \in [1 .. Cardinality(A) -> A] /\ IsInjective(o) /\ ToSet(o) = A
      /\ \A m, l \in DOMAIN o : m < l => Ahead(p[o[m]], o[m], p[o[l]], o[l])
  BY <1>1, ListingOf DEF InOrder
<1>6. Cardinality(A) \in Nat /\ DOMAIN o = 1 .. Cardinality(A) /\ n \in Nat /\ j \in A
  BY <1>1, <1>5, FS_CardinalityType
<1>7. \A m \in 1 .. n - 1 : m \in DOMAIN o /\ m < n /\ o[m] \in A
  BY <1>5, <1>6
<1>8. \A i \in ToSet(b) : \E k \in 1 .. Len(b) : b[k] = i
  BY <1>2 DEF ToSet
<1>9. ToSet(b) = {i \in Tasks : won[i] = a}
  BY DEF Settled
<1>10. ASSUME NEW m \in M PROVE o[m] \in T \ Held
  <2>1. o[m] \in A /\ m \in DOMAIN o /\ m < n /\ won[o[m]] = a
    BY <1>7
  <2>2. Ahead(p[o[m]], o[m], p[j], j)
    BY <1>5, <2>1
  <2>3. PICK k \in 1 .. Len(b) : b[k] = o[m]
    BY <1>1, <1>8, <1>9, <2>1
  <2>4. ~ (k \in c .. Len(b))
    BY <1>4, <2>2, <2>3
  <2>5. k \in 1 .. c - 1
    BY <1>2, <2>4
  <2> QED
    BY <1>1, <2>1, <2>3, <2>5
<1>11. ASSUME NEW i \in T \ Held PROVE \E m \in M : o[m] = i
  <2>1. PICK k \in 1 .. c - 1 : i = b[k]
    OBVIOUS
  <2>2. Ahead(p[i], i, p[j], j) /\ k \in 1 .. Len(b)
    BY <1>3, <1>4, <2>1
  <2>3. i \in A /\ won[i] = a
    <3>1. b[k] \notin Held
      BY <2>1
    <3> HIDE DEF b
    <3> QED
      BY <1>2, <2>1, <2>2, <3>1, SettledOf DEF b
  <2>4. PICK m \in DOMAIN o : o[m] = i
    BY <1>5, <2>3 DEF ToSet
  <2>5. m \in Nat /\ 1 <= m
    BY <1>6
  <2>6. i \in Nat /\ j \in Nat /\ p[i] \in Nat /\ p[j] \in Nat
    BY <1>1, <1>6, <2>3
  <2>7. m < n
    <3> SUFFICES ASSUME ~ (m < n) PROVE FALSE
      OBVIOUS
    <3>1. CASE m = n
      BY <2>2, <2>4, <2>6, <3>1 DEF Ahead
    <3>2. CASE m # n
      <4>1. n < m
        BY <1>6, <2>5, <3>2
      <4>2. Ahead(p[j], j, p[i], i)
        BY <1>5, <2>4, <4>1
      <4> HIDE DEF j
      <4> QED
        BY <2>2, <2>6, <4>2 DEF Ahead
    <3> QED
      BY <3>1, <3>2
  <2>8. m \in 1 .. n - 1
    BY <1>6, <2>5, <2>7
  <2> QED
    BY <2>3, <2>4, <2>8
<1>12. T \cap Held = H
  <2>1. ASSUME NEW i \in T \cap Held PROVE i \in H
    <3>1. i \in ToSet(b)
      BY <1>2, <1>3 DEF ToSet
    <3> QED
      BY <1>1, <3>1 DEF HeldLocked
  <2>2. ASSUME NEW i \in H PROVE i \in T \cap Held
    <3>1. i \in Held /\ i \in ToSet(b)
      BY <1>1 DEF HeldLocked
    <3>2. PICK k \in 1 .. Len(b) : b[k] = i
      BY <1>8, <3>1
    <3>3. ~ (k \in c .. Len(b))
      BY <1>4, <3>1, <3>2
    <3>4. k \in 1 .. c - 1
      BY <1>2, <3>3
    <3> QED
      BY <3>1, <3>2, <3>4
  <2> QED
    BY <2>1, <2>2
<1>13. IsFiniteSet(T) /\ Cardinality(T) = c - 1
  <2>1. g \in [1 .. c - 1 -> T]
    OBVIOUS
  <2>2. g \in Surjection(1 .. c - 1, T)
    BY <2>1 DEF Surjection
  <2>3. g \in Injection(1 .. c - 1, T)
    BY <1>1, <1>2, <1>3, <2>1 DEF Injection, IsInjective
  <2>4. IsFiniteSet(1 .. c - 1) /\ Cardinality(1 .. c - 1) = c - 1
    <3>1. c >= 1
      BY <1>2
    <3> QED
      BY <3>1, FS_Interval
  <2> HIDE DEF g, T
  <2> QED
    BY <2>2, <2>3, <2>4, FS_Surjection
<1>14. q \in Seq(Tasks) /\ IsInjective(q) /\ ToSet(q) = {o[m] : m \in 1 .. n - 1}
  <2>1. o \in Seq(Tasks) /\ n - 1 \in 0 .. Len(o) /\ Len(o) \in Nat
    BY <1>1, <1>5, <1>6
  <2>2. /\ q \in Seq(Tasks) /\ DOMAIN q = 1 .. n - 1
        /\ \A m \in 1 .. n - 1 : q[m] = o[m]
    <3> HIDE DEF A
    <3> QED
      BY <2>1
  <2> HIDE DEF q
  <2>3. IsInjective(q)
    BY <1>5, <1>7, <2>2 DEF IsInjective
  <2> QED
    BY <2>2, <2>3 DEF ToSet
<1>15. w \in Seq(Tasks) /\ IsInjective(w) /\ ToSet(w) = {o[m] : m \in M}
  <2>1. w = Without(q, X)
    BY DEF WonOf
  <2> HIDE DEF w, q, X
  <2>2. w \in Seq(Tasks) /\ IsInjective(w) /\ ToSet(w) = ToSet(q) \ X
    BY <1>14, <2>1, WithoutOf
  <2>3. ToSet(q) \ X = {o[m] : m \in M}
    BY <1>1, <1>7, <1>14 DEF X
  <2> QED
    BY <2>2, <2>3
<1>16. ToSet(w) = T \ Held
  <2> HIDE DEF w
  <2> QED
    BY <1>10, <1>11, <1>15
<1>17. Carried(a) = Cardinality(H)
  BY DEF Carried
<1>17a. \A m \in n .. Len(o) : o[m] \notin {o[k] : k \in M}
  <2>1. \A m \in n .. Len(o) : m \in DOMAIN o /\ \A k \in 1 .. n - 1 : m # k
    BY <1>5, <1>6
  <2> QED
    BY <1>5, <1>7, <2>1 DEF IsInjective
<1>17b. T \ Held \subseteq Doable(a)
  BY <1>1, <1>2, <1>3 DEF BundlesOK
<1> HIDE DEF M, T, H, w
<1>18. IsFiniteSet(T \ Held) /\ Cardinality(T \ Held) = c - 1 - Carried(a)
  <2>1. IsFiniteSet(T \ Held) /\ Cardinality(T \ Held) = Cardinality(T) - Cardinality(T \cap Held)
    BY <1>13, FS_Difference
  <2>2. Cardinality(T \cap Held) = Carried(a)
    BY <1>12, <1>17
  <2> QED
    BY <1>13, <2>1, <2>2
<1>19. Len(w) = c - 1 - Carried(a)
  BY <1>15, <1>16, <1>18, ListIsFinite
<1>20. ASSUME NEW m \in n .. Len(o) PROVE w \in Lists(Others(a, o[m]))
  <2>1. ToSet(w) \subseteq Others(a, o[m])
    BY <1>15, <1>16, <1>17a, <1>17b DEF Others
  <2> QED
    BY <1>15, <2>1, IsList
<1> QED
  BY <1>19, <1>20 DEF w

\* The winner of a task offers its price.
LEMMA WinnersPlace ==
  ASSUME AgreeInv, FallingGains, NEW won, NEW p, Settled(won, p), NEW j \in Awarded(won),
         NEW c \in Nat, PlaceOf(won[j], p, j, c)
  PROVE  Worth(won[j], c, j) = p[j]
<1> DEFINE a == won[j]
           b == bundle[a]
<1>1. /\ TypeOK /\ a \in Bidders /\ j \in ToSet(b) /\ j \notin Held /\ b \in Seq(Tasks)
      /\ j \in Nat /\ p[j] \in Nat
  BY SettledOf DEF TypeOK
<1>2. Len(b) \in Nat /\ DOMAIN b = 1 .. Len(b) /\ c \in 1 .. Len(b) + 1
  BY <1>1 DEF PlaceOf
<1>3. PICK k \in 1 .. Len(b) : b[k] = j
  BY <1>1, <1>2 DEF ToSet
<1>4. ~ (k \in 1 .. c - 1)
  BY <1>1, <1>3 DEF PlaceOf, Ahead
<1>5. c <= k /\ c \in 1 .. Len(b) /\ k \in Nat
  BY <1>2, <1>4
<1>6. c = k
  <2> SUFFICES ASSUME c < k PROVE FALSE
    BY <1>5
  <2>1. c \in c .. Len(b)
    BY <1>2, <1>5
  <2>2. b[c] \notin Held /\ ~ Ahead(p[b[c]], b[c], p[j], j)
    BY <2>1 DEF PlaceOf, FrontierTasks
  <2>3. Ahead(p[b[c]], b[c], p[b[k]], b[k])
    BY <1>1, <1>2, <1>3, <1>5, <2>2, OwnOrder
  <2> QED
    BY <1>3, <2>2, <2>3
<1>7. p[b[k]] = Worth(a, k, b[k])
  BY <1>1, <1>2, <1>3, SettledOf
<1> QED
  BY <1>3, <1>6, <1>7

\* The agreed winners are the only claimants.
LEMMA SettledTop ==
  ASSUME AgreeInv, NEW won, NEW p, Settled(won, p), NEW j \in Awarded(won)
  PROVE  Top(j) = {won[j]}
<1>1. j \in Tasks /\ won[j] \in Bidders /\ p[j] \in Nat
  BY SettledOf
<1>2. \A k \in Bidders : (Claims(k, j) <=> k = won[j]) /\ snap.y[k][j] = p[j]
  BY <1>1 DEF Settled, Claims
<1> QED
  BY <1>1, <1>2 DEF Top

\* Nobody offers more for what the auctioneer has still to close.
LEMMA OfferBound ==
  ASSUME AgreeInv, ExactOffers, FallingGains, NEW won, NEW p, Settled(won, p),
         NEW own \in [FrontierTasks -> Bidders], Board(own), KeepsPrice(own),
         NEW a \in Bidders, NEW j \in Awarded(won), NEW i \in Awarded(won),
         i = j \/ Ahead(p[j], j, p[i], i), NEW c \in Nat, PlaceOf(a, p, j, c)
  PROVE  \/ Worth(a, c, i) < p[j]
         \/ Worth(a, c, i) = p[j] /\ (i = j /\ Steady(a, j) => won[j] <= a)
<1> DEFINE b == bundle[a]
           w == Worth(a, c, i)
<1>1. /\ TypeOK /\ EpochInv /\ BundlesOK /\ HearingOK /\ b \in Seq(Tasks) /\ IsInjective(b)
      /\ i \in Tasks /\ i \in Nat /\ j \in Nat /\ p[i] \in Nat /\ p[j] \in Nat
      /\ i \in FrontierTasks /\ i \notin Held /\ j \in FrontierTasks /\ j \in Tasks
      /\ won[i] \in Bidders /\ p[i] \in GainsOf(won[i], i)
      /\ won[j] \in Bidders /\ a \in Nat /\ won[j] \in Nat
  BY SettledOf, CBBAAssumption DEF TypeOK, BundlesOK, Awarded
<1>2. Len(b) \in Nat /\ DOMAIN b = 1 .. Len(b) /\ c \in 1 .. Len(b) + 1
  BY <1>1 DEF PlaceOf
<1>3. ~ Ahead(p[i], i, p[j], j)
  BY <1>1 DEF Ahead
<1>4. ASSUME NEW k \in 1 .. c - 1 PROVE b[k] # i
  BY <1>1, <1>3 DEF PlaceOf
<1>5. y[a][i] = p[i] /\ snap.y[a][i] = p[i]
  BY <1>1 DEF Settled
\* Its bid would not have been high enough.
<1>6. ASSUME w \in Int, w \in GainsOf(a, i), ~ BidGt(w, p[i])
      PROVE  \/ w < p[j]
             \/ w = p[j] /\ (i = j /\ Steady(a, j) => won[j] <= a)
  <2>1. w <= p[i]
    <3>1. BidGt(w, p[i]) <=> w > p[i]
      BY <1>1, <1>6, ExactBids
    <3> QED
      BY <1>1, <1>6, <3>1
  <2>2. p[i] <= p[j]
    BY <1>1 DEF Ahead
  <2>3. ASSUME w = p[j], i = j, Steady(a, j) PROVE won[j] <= a
    <3>1. Gain(a, j, 0) = p[j]
      BY <1>1, <1>6, <2>3, SteadyGain DEF TypeOK
    <3>2. Top(j) = {won[j]} /\ snap.y[won[j]][j] = p[j]
      BY <1>1, SettledTop DEF Settled
    <3>3. TopWins(won)
      <4>1. ASSUME NEW h \in FrontierTasks, Top(h) # {}
            PROVE  won[h] \in Top(h) /\ \A l \in Top(h) : won[h] <= l
        <5>1. PICK l \in Bidders : Claims(l, h)
          BY <4>1 DEF Top
        <5>2. h \in Tasks
          BY DEF FrontierTasks
        <5>3. won[h] = l /\ l # NoAgent
          BY <5>1, <5>2, CBBAAssumption DEF Claims, Settled
        <5>4. Top(h) = {won[h]}
          BY <5>3, SettledTop DEF Awarded
        <5>5. won[h] \in Nat
          BY <5>3, CBBAAssumption
        <5> QED
          BY <5>4, <5>5
      <4> QED
        BY <4>1 DEF TopWins
    <3>4. phase = "hear" /\ PricesOK(snap.y, snap.z) /\ PlacesOK(snap.y, snap.z)
      BY DEF Settled
    <3> QED
      BY <1>1, <2>3, <3>1, <3>2, <3>3, <3>4, WinnerFirst
  <2> HIDE DEF w
  <2> QED
    BY <1>1, <1>6, <2>1, <2>2, <2>3
<1>7. CASE c = Len(b) + 1
  <2>1. i \notin ToSet(b)
    <3>1. \A k \in 1 .. Len(b) : k \in 1 .. c - 1
      BY <1>2, <1>7
    <3> QED
      BY <1>2, <1>4, <3>1 DEF ToSet
  <2>2. Offer(a, i) = w
    BY <1>1, <1>7, <2>1, CarriedOf
  <2>3. ~ BidGt(Offer(a, i), p[i])
    BY <1>1, <1>5, <2>1 DEF HearingOK
  <2>4. Offer(a, i) \in Int /\ Offer(a, i) \in GainsOf(a, i)
    BY <1>1, <2>1, OfferOf
  <2> QED
    BY <1>6, <2>2, <2>3, <2>4
<1>8. CASE c # Len(b) + 1
  <2> DEFINE q == b[c]
             v == Worth(a, c, b[c])
  <2>1. c \in 1 .. Len(b) /\ c \in c .. Len(b)
    BY <1>2, <1>8
  <2>2. q \in FrontierTasks /\ q \notin Held /\ ~ Ahead(p[q], q, p[j], j)
    BY <2>1 DEF PlaceOf, FrontierTasks
  <2>3. q \in Awarded(won) /\ won[q] = a /\ c > Carried(a) /\ p[q] = v
    BY <1>2, <2>1, <2>2, SettledOf
  <2>4. q \in Nat /\ p[q] \in Nat
    BY <2>3, SettledOf
  <2>5. w \in Int /\ w \in GainsOf(a, i)
    BY <1>1, <1>2, <2>1, <2>3, PlaceWorth
  <2>6. CASE i = q
    <3>1. w = p[q]
      BY <2>3, <2>6
    <3>2. i = j => won[j] = a
      BY <2>3, <2>6
    <3> HIDE DEF w, q
    <3>3. w < p[j] \/ (w = p[j] /\ (i = j => won[j] <= a))
      BY <1>1, <2>2, <2>4, <3>1, <3>2 DEF Ahead
    <3> QED
      BY <3>3 DEF w
  <2>7. CASE i # q
    <3>1. i \notin {b[k] : k \in 1 .. c}
      <4>1. \A k \in 1 .. c : k \in 1 .. c - 1 \/ k = c
        BY <1>2
      <4> QED
        BY <1>4, <2>7, <4>1
    <3>2. \/ Ahead(v, q, w, i)
          \/ ~ BidGt(w, p[i])
      <4>1. BestPlaced(a) /\ c \in DOMAIN bundle[a]
        BY <1>2, <2>1 DEF Settled
      <4> QED
        BY <1>1, <1>5, <2>2, <3>1, <4>1 DEF BestPlaced
    <3>3. CASE ~ BidGt(w, p[i])
      BY <1>6, <2>5, <3>3
    <3>4. CASE Ahead(v, q, w, i)
      <4>1. w <= p[q] /\ p[q] <= p[j] /\ (w = p[j] => q < i /\ p[q] = p[j])
        <5>1. v = p[q] /\ w \in Int
          BY <2>3, <2>5
        <5> HIDE DEF v, w, q
        <5> QED
          BY <1>1, <2>2, <2>4, <3>4, <5>1 DEF Ahead
      <4>2. w = p[j] => i # j
        <5> HIDE DEF w, q
        <5> QED
          BY <1>1, <2>2, <2>4, <4>1 DEF Ahead
      <4>3. w < p[j] \/ (w = p[j] /\ i # j)
        <5>1. w \in Int
          BY <2>5
        <5> HIDE DEF w, q
        <5> QED
          BY <1>1, <2>4, <4>1, <4>2, <5>1
      <4> QED
        BY <4>3
    <3> QED
      BY <3>2, <3>3, <3>4
  <2> QED
    BY <2>6, <2>7
<1> QED
  BY <1>7, <1>8

\* A settled round awards what the auctioneer does.
LEMMA SettledGreedy ==
  ASSUME AgreeInv, ExactOffers, FallingGains, NEW won, NEW p, Settled(won, p),
         NEW own \in [FrontierTasks -> Bidders], Board(own), KeepsPrice(own)
  PROVE  \E o \in SetToSeqs(Awarded(won)) : ClosedInOrder(o, won)
<1>1. /\ Awarded(won) \in SUBSET Nat /\ IsFiniteSet(Awarded(won))
      /\ \A j \in Awarded(won) : p[j] \in Nat /\ won[j] \in Bidders
  BY SettledOf
<1>2. PICK o : InOrder(o, won, p)
  <2> HIDE DEF Awarded
  <2> QED
    BY <1>1, SortedListing DEF InOrder
<1>3. /\ o \in [1 .. Cardinality(Awarded(won)) -> Awarded(won)]
      /\ \A m, n \in DOMAIN o : m < n => Ahead(p[o[m]], o[m], p[o[n]], o[n])
      /\ Cardinality(Awarded(won)) \in Nat /\ Len(o) = Cardinality(Awarded(won))
  <2>1. Cardinality(Awarded(won)) \in Nat
    BY <1>1, FS_CardinalityType
  <2>2. o \in [1 .. Cardinality(Awarded(won)) -> Awarded(won)]
    BY <1>1, <1>2, ListingOf DEF InOrder
  <2> HIDE DEF Awarded
  <2> QED
    BY <1>2, <2>1, <2>2 DEF InOrder
<1>4. ASSUME NEW n \in DOMAIN o, NEW a \in Bidders, NEW m \in n .. Len(o)
      PROVE  LET g == scenario.gain[a][o[m]][WonOf(a, o, n - 1, won)]
             IN  \E c \in Nat : PlaceOf(a, p, o[n], c) /\ g = Worth(a, c, o[m])
  <2> DEFINE l == WonOf(a, o, n - 1, won)
  <2>1. o[n] \in Awarded(won) /\ o[m] \in FrontierTasks
    <3>1. m \in DOMAIN o
      BY <1>3
    <3> QED
      BY <1>3, <3>1 DEF Awarded
  <2>2. PICK c \in Nat : PlaceOf(a, p, o[n], c)
    BY <2>1, PlaceExists
  <2>3. Len(l) = c - 1 - Carried(a) /\ l \in Lists(Others(a, o[m]))
    BY <1>2, <2>2, WonBefore
  <2>4. scenario \in Scenarios
    BY SettledOf DEF TypeOK
  <2> HIDE DEF l
  <2>5. scenario.gain[a][o[m]][l] = Gain(a, o[m], Len(l))
    BY <2>1, <2>3, <2>4, GainOfList
  <2> QED
    BY <2>2, <2>3, <2>5 DEF Worth, l
<1>5. ASSUME NEW n \in DOMAIN o, NEW a \in Bidders, NEW m \in n .. Len(o)
      PROVE  LET j == o[n]
                 g == scenario.gain[a][o[m]][WonOf(a, o, n - 1, won)]
                 h == scenario.gain[won[j]][j][WonOf(won[j], o, n - 1, won)]
             IN  \/ g < h
                 \/ g = h /\ (o[m] = j /\ Steady(a, j) => won[j] <= a)
  <2> DEFINE j == o[n]
             i == o[m]
  <2>1. j \in Awarded(won) /\ won[j] \in Bidders
    BY <1>1, <1>3
  <2>2. m \in DOMAIN o /\ (m = n \/ n < m)
    BY <1>3
  <2>3. i \in Awarded(won) /\ (i = j \/ Ahead(p[j], j, p[i], i))
    BY <1>3, <2>2
  <2>4. scenario.gain[won[j]][j][WonOf(won[j], o, n - 1, won)] = p[j]
    <3>1. n \in n .. Len(o)
      BY <1>3
    <3>2. PICK c \in Nat :
            /\ PlaceOf(won[j], p, j, c)
            /\ scenario.gain[won[j]][j][WonOf(won[j], o, n - 1, won)] = Worth(won[j], c, j)
      BY <1>4, <2>1, <3>1
    <3> QED
      BY <2>1, <3>2, WinnersPlace
  <2>5. PICK c \in Nat :
          /\ PlaceOf(a, p, j, c)
          /\ scenario.gain[a][i][WonOf(a, o, n - 1, won)] = Worth(a, c, i)
    BY <1>4
  <2>6. \/ Worth(a, c, i) < p[j]
        \/ Worth(a, c, i) = p[j] /\ (i = j /\ Steady(a, j) => won[j] <= a)
    BY <2>1, <2>3, <2>5, OfferBound
  <2> QED
    BY <2>4, <2>5, <2>6
<1>6. ClosedInOrder(o, won)
  BY <1>5 DEF ClosedInOrder
<1> QED
  BY <1>2, <1>6 DEF InOrder

\* A quiet round is settled.
LEMMA QuietGreedy ==
  ASSUME AgreeInv, ExactOffers, FallingGains, HearGreedy, \A a \in Bidders : BestPlaced(a),
         EndRound, before = [y |-> y', z |-> z', b |-> bundle']
  PROVE  MatchesGreedy'
<1>1. y' = y /\ z' = z /\ scenario' = scenario /\ phase = "hear"
  BY QuietRound DEF EndRound
<1>2. ASSUME NEW x \in Bidders
      PROVE  \E o \in SetToSeqs({j \in FrontierTasks : z[x][j] # NoAgent}) : ClosedInOrder(o, z[x])
  <2>1. PICK won : won = z[x]
    OBVIOUS
  <2>2. PICK p : p = y[x]
    OBVIOUS
  <2>3. /\ \A a \in Bidders : z[a] = won /\ y[a] = p
        /\ \A a \in Bidders : ToSet(bundle[a]) = {j \in Tasks : won[j] = a}
        /\ \A a \in Bidders : \A j \in Tasks : snap.z[a][j] = won[j] /\ snap.y[a][j] = p[j]
    <3>1. \A a \in Bidders : z[a] = won /\ y[a] = p
      BY <2>1, <2>2, QuietAgrees
    <3>2. \A a \in Bidders : ToSet(bundle[a]) = {j \in Tasks : z[a][j] = a}
      BY QuietAgrees
    <3>3. \A a \in Bidders : \A j \in Tasks : snap.z[a][j] = z[a][j] /\ snap.y[a][j] = y[a][j]
      BY QuietRound
    <3> QED
      BY <3>1, <3>2, <3>3
  <2>4. Settled(won, p)
    BY <1>1, <2>3 DEF Settled, HearGreedy
  <2>5. PICK own \in [FrontierTasks -> Bidders] : Board(own) /\ KeepsPrice(own)
    BY DEF HearGreedy
  <2>6. \E o \in SetToSeqs(Awarded(won)) : ClosedInOrder(o, won)
    BY <2>4, <2>5, SettledGreedy
  <2> QED
    BY <2>1, <2>6 DEF Awarded
<1>3. ASSUME NEW o, NEW won PROVE ClosedInOrder(o, won)' <=> ClosedInOrder(o, won)
  BY <1>1, SameScenario DEF ClosedInOrder, WonOf
<1> QED
  BY <1>1, <1>2, <1>3, SameScenario DEF MatchesGreedy, GreedyAwards

\* The end of a round keeps the invariant.
LEMMA GreedyEnd ==
  ASSUME GreedyInv, EndRound
  PROVE  GreedyInv'
<1>1. AgreeInv /\ AgreeInv' /\ scenario' = scenario /\ phase = "hear" /\ phase' # "hear"
  <2>1. phase' \in {"done", "failed", "build"}
    BY DEF EndRound
  <2> QED
    BY <2>1, AgreeEnd DEF GreedyInv, EndRound
<1> SUFFICES ASSUME Regular
             PROVE  /\ PricesOK(before.y, before.z)' /\ (\A a \in Bidders : BestPlaced(a))'
                    /\ BuildGreedy' /\ MatchesGreedy'
  BY <1>1, SameScenario DEF GreedyInv
<1>2. ExactOffers /\ FallingGains
  BY DEF Regular
<1>3. (\A a \in Bidders : BestPlaced(a)) /\ HearGreedy
  BY <1>1 DEF GreedyInv
<1>4. PICK own \in [FrontierTasks -> Bidders] :
        Board(own) /\ KeepsPrice(own) /\ \A i \in Bidders : \A j \in FrontierTasks : HeardBest(i, j, own)
  BY <1>3 DEF HearGreedy
<1>5. PricesOK(y, z) /\ PricesOK(snap.y, snap.z) /\ PlacesOK(snap.y, snap.z)
  BY <1>3 DEF HearGreedy
<1>6. PICK won \in [FrontierTasks -> Bidders] : TopWins(won)
  BY RoundWinner
<1>7. PricesOK(y, z)' /\ PlacesOK(y, z)'
  BY <1>1, <1>5, EndPlaces
<1>8. PricesOK(before.y, before.z)'
  <2>1. before'.y = y' /\ before'.z = z'
    BY DEF EndRound
  <2> QED
    BY <1>7, <2>1 DEF PricesOK
<1>9. (\A a \in Bidders : BestPlaced(a))'
  BY <1>1, <1>3, EndBest
<1>10. BuildGreedy'
  <2>1. Board(won)'
    BY <1>1, <1>2, <1>4, <1>5, <1>6, EndBoard
  <2>2. ASSUME NEW k \in Bidders
        PROVE  \E b \in Seq(Tasks) : \E f \in Nat :
                 Released(k, b, f)' /\ Owed(k, b, f, won)' /\ Rebuilt(k, b, f)'
    BY <1>1, <1>2, <1>3, <1>4, <1>5, <1>6, EndRelease
  <2>3. won \in [FrontierTasks' -> Bidders]
    BY <1>1, <1>6, SameScenario
  <2> QED
    BY <1>7, <2>1, <2>2, <2>3 DEF BuildGreedy
<1>11. MatchesGreedy'
  <2>1. CASE phase' = "done"
    <3>1. before = [y |-> y', z |-> z', b |-> bundle']
      <4>1. unchanged' = QuietRounds
        BY <2>1 DEF EndRound
      <4> QED
        BY <4>1 DEF EndRound, QuietRounds
    <3> QED
      BY <1>1, <1>2, <1>3, <3>1, QuietGreedy
  <2>2. CASE phase' # "done"
    BY <2>2 DEF MatchesGreedy, GreedyAwards
  <2> QED
    BY <2>1, <2>2
<1> QED
  BY <1>8, <1>9, <1>10, <1>11

\* Nothing changes in a stutter.
LEMMA GreedyStutter ==
  ASSUME GreedyInv, UNCHANGED vars
  PROVE  GreedyInv'
<1>1. /\ UNCHANGED <<scenario, bundle, y, z, snap, before, phase, heard>>
      /\ snap'.y = snap.y /\ snap'.z = snap.z /\ AgreeInv'
  BY AgreeStutter DEF vars, GreedyInv
<1> SUFFICES ASSUME Regular
             PROVE  /\ phase \in {"build", "hear"} =>
                         PricesOK(before.y, before.z)' /\ (\A a \in Bidders : BestPlaced(a))'
                    /\ phase = "build" => BuildGreedy'
                    /\ phase = "hear" => HearGreedy'
                    /\ MatchesGreedy'
  BY <1>1, SameScenario DEF GreedyInv
<1>2. /\ PricesOK(y, z)' <=> PricesOK(y, z)
      /\ PricesOK(snap.y, snap.z)' <=> PricesOK(snap.y, snap.z)
      /\ PricesOK(before.y, before.z)' <=> PricesOK(before.y, before.z)
  BY <1>1, SameScenario DEF PricesOK
<1>3. /\ PlacesOK(y, z)' <=> PlacesOK(y, z)
      /\ PlacesOK(snap.y, snap.z)' <=> PlacesOK(snap.y, snap.z)
  BY <1>1, SameScenario DEF PlacesOK
<1>4. \A a \in Bidders : BestPlaced(a)' <=> BestPlaced(a)
  BY <1>1, SameScenario DEF BestPlaced
<1>5. ASSUME NEW own PROVE Board(own)' <=> Board(own)
  BY <1>1, SameScenario DEF Board, Told
<1>6. ASSUME NEW k, NEW b, NEW f, NEW own
      PROVE  Released(k, b, f) /\ Owed(k, b, f, own) /\ Rebuilt(k, b, f) =>
               Released(k, b, f)' /\ Owed(k, b, f, own)' /\ Rebuilt(k, b, f)'
  <2>1. Released(k, b, f) => Released(k, b, f)'
    BY <1>1, SameScenario DEF Released
  <2>2. Owed(k, b, f, own) => Owed(k, b, f, own)'
    BY <1>1, SameScenario DEF Owed, Told
  <2>3. Rebuilt(k, b, f) => Rebuilt(k, b, f)'
    BY <1>1 DEF Rebuilt
  <2> QED
    BY <2>1, <2>2, <2>3
<1>7. BuildGreedy => BuildGreedy'
  BY <1>1, <1>2, <1>3, <1>5, <1>6, SameScenario DEF BuildGreedy
<1>8. ASSUME NEW own PROVE KeepsPrice(own)' <=> KeepsPrice(own)
  BY <1>1, SameScenario DEF KeepsPrice, Told, Claims
<1>9. ASSUME NEW own, NEW i, NEW j PROVE HeardBest(i, j, own)' <=> HeardBest(i, j, own)
  BY <1>1 DEF HeardBest, Claims
<1>10. HearGreedy => HearGreedy'
  BY <1>1, <1>2, <1>3, <1>5, <1>8, <1>9, SameScenario DEF HearGreedy
<1>11. MatchesGreedy => MatchesGreedy'
  <2>1. ASSUME NEW o, NEW won PROVE ClosedInOrder(o, won)' <=> ClosedInOrder(o, won)
    BY <1>1, SameScenario DEF ClosedInOrder, WonOf
  <2> QED
    BY <1>1, <2>1, SameScenario DEF MatchesGreedy, GreedyAwards
<1> QED
  BY <1>1, <1>2, <1>4, <1>7, <1>10, <1>11 DEF GreedyInv

-----------------------------------------------------------------------------
(* The theorems.                                                           *)

\* The invariant holds of every epoch.
THEOREM EpochInvariant == Spec => []EpochInv
<1>1. Init => EpochInv
  BY EpochInit
<1>2. ASSUME EpochInv, [Next]_vars PROVE EpochInv'
  <2>1. CASE UNCHANGED vars
    <3>1. TypeOK' /\ HeldLocked' /\ HeldFirst' /\ SnapLocked'
      BY <1>2, <2>1 DEF vars, EpochInv, TypeOK, Views, HeldLocked, HeldFirst, SnapLocked, Held
    <3>2. BundlesOK'
      BY <1>2, <2>1 DEF vars, EpochInv, BundlesOK, Held, Doable, FrontierTasks, Able
    <3> QED
      BY <1>2, <2>1, <3>1, <3>2 DEF vars, EpochInv
  <2> QED
    BY <1>2, <2>1, EpochBid, EpochStart, EpochHear, EpochEnd DEF Next
<1>3. EpochInv /\ [Next]_vars => EpochInv'
  BY <1>2
<1> QED
  BY <1>1, <1>3, PTL DEF Spec

\* The beliefs of the agents, their bundles and the counters keep their types;
\* every bid that was made is a natural number.
THEOREM EpochTypeCorrect == Spec => []TypeOK
<1>1. EpochInv => TypeOK
  BY DEF EpochInv
<1> QED
  BY <1>1, EpochInvariant, PTL

\* A commitment carried into an epoch is never contested: every agent believes
\* its winner and its bid in every round, and its winner's bundle keeps it.
THEOREM HeldAlwaysLocked == Spec => []HeldLocked
<1>1. EpochInv => HeldLocked
  BY DEF EpochInv
<1> QED
  BY <1>1, EpochInvariant, PTL

\* Through an epoch the agents' claims, timestamps and bundles are of the kind
\* that two quiet rounds turn into agreement.
THEOREM AgreementInvariant == Spec => []AgreeInv
<1>1. Init => AgreeInv
  BY AgreeInit
<1>2. ASSUME AgreeInv, [Next]_vars PROVE AgreeInv'
  <2>1. CASE UNCHANGED vars
    BY <1>2, <2>1, AgreeStutter
  <2> QED
    BY <1>2, <2>1, AgreeBid, AgreeStart, AgreeHear, AgreeEnd DEF Next
<1>3. AgreeInv /\ [Next]_vars => AgreeInv'
  BY <1>2
<1> QED
  BY <1>1, <1>3, PTL DEF Spec

\* When run_epoch ends, every agent believes the same and carries what it wins,
\* so the view of the one agent it reads speaks for all; whatever the gains and
\* the tolerance, and without any assumption on how the rounds went.
THEOREM AlwaysConflictFree == Spec => []ConflictFree
<1>1. AgreeInv => ConflictFree
  BY DEF AgreeInv
<1> QED
  BY <1>1, AgreementInvariant, PTL

\* When run_epoch ends, every frontier task that some agent can do is awarded to
\* one that can, provided the gains of who can do a task exceed the tolerance
\* of the bids (below it the code leaves the task unassigned).
THEOREM AwardsAlwaysComplete == Spec => [](GainsWorthABid => AwardsComplete)
<1>1. AgreeInv => (GainsWorthABid => AwardsComplete)
  BY DEF AgreeInv
<1> QED
  BY <1>1, AgreementInvariant, PTL

\* Along an epoch prices never fall, and what an agent must release it wins again.
THEOREM GreedyInvariant == Spec => []GreedyInv
<1>1. Init => GreedyInv
  BY GreedyInit
<1>2. GreedyInv /\ [Next]_vars => GreedyInv'
  <2> SUFFICES ASSUME GreedyInv, [Next]_vars
               PROVE  GreedyInv'
    OBVIOUS
  <2>1. CASE Bid
    BY <2>1, GreedyBid
  <2>2. CASE StartConsensus
    BY <2>2, GreedyStart
  <2>3. ASSUME NEW k \in Bidders, Hear(k)
        PROVE  GreedyInv'
    BY <2>3, GreedyHear
  <2>4. CASE EndRound
    BY <2>4, GreedyEnd
  <2>5. CASE UNCHANGED vars
    BY <2>5, GreedyStutter
  <2> QED
    BY <2>1, <2>2, <2>3, <2>4, <2>5 DEF Next
<1> QED
  BY <1>1, <1>2, PTL DEF Spec

\* When run_epoch ends, its awards are those of a single auctioneer who, again and
\* again, closes the highest offer, for any number of agents and tasks, under the
\* conditions MatchesGreedy names (gains are equal or further apart than the
\* tolerance, do not rise with the bundle and depend on how much an agent has won
\* only) and if, of two agents that may tie on a task, the one with the smaller id
\* offers it from the start (in particular if no two agents gain the same): a
\* later offer comes too late for the tie-break.
THEOREM AlwaysMatchesGreedy == Spec => [](TiesStand => MatchesGreedy)
<1>1. GreedyInv => (TiesStand => MatchesGreedy)
  BY DEF GreedyInv, Regular, FallingGains, MatchesGreedy
<1> QED
  BY <1>1, GreedyInvariant, PTL

\* Two lists of one task or none that are as long as each other are equal.
LEMMA ShortLists ==
  ASSUME NEW S, IsFiniteSet(S), Cardinality(S) <= 1,
         NEW l \in Lists(S), NEW m \in Lists(S), Len(l) = Len(m)
  PROVE  l = m
<1>1. l \in Seq(S) /\ m \in Seq(S) /\ Len(l) \in 0 .. 1
  <2>1. Cardinality(S) \in Nat
    BY FS_CardinalityType
  <2> QED
    BY <2>1, ListOf
<1>2. CASE Len(l) = 0
  <2>1. \A i \in 1 .. Len(l) : l[i] = m[i]
    BY <1>2
  <2> QED
    BY <1>1, <2>1, SeqEqual
<1>3. CASE Len(l) = 1
  <2>1. l[1] \in S /\ m[1] \in S
    <3>1. 1 \in 1 .. Len(l) /\ 1 \in 1 .. Len(m)
      BY <1>3
    <3> QED
      BY <1>1, <3>1
  <2>2. S = {l[1]}
    <3>1. Cardinality(S) = 1
      BY <2>1, FS_CardinalityType, FS_EmptySet
    <3> QED
      BY <2>1, <3>1, FS_Singleton
  <2>3. \A i \in 1 .. Len(l) : l[i] = m[i]
    BY <1>3, <2>1, <2>2
  <2> QED
    BY <1>1, <2>3, SeqEqual
<1> QED
  BY <1>1, <1>2, <1>3

\* Who can do two tasks of the frontier has won, when it bids, the other one or
\* none: how much an agent has won says what.
LEMMA PairsDecide ==
  ASSUME scenario \in Scenarios, \A a \in Bidders : Cardinality(Doable(a)) <= 2
  PROVE  LengthDecides
<1>1. SUFFICES ASSUME NEW a \in Bidders, NEW j \in FrontierTasks,
                      NEW l \in Lists(Doable(a) \ {j}), NEW m \in Lists(Doable(a) \ {j}),
                      Len(l) = Len(m)
               PROVE  scenario.gain[a][j][l] = scenario.gain[a][j][m]
  BY DEF LengthDecides
<1>2. /\ IsFiniteSet(FrontierTasks) /\ Doable(a) \in SUBSET FrontierTasks
      /\ ~ Able(a, j) => \A g \in GainsOf(a, j) : g = Ineligible
  BY ScenarioOf DEF Doable
<1>3. IsFiniteSet(Doable(a)) /\ IsFiniteSet(Doable(a) \ {j})
  <2>1. IsFiniteSet(Doable(a))
    BY <1>2, FS_Subset
  <2> QED
    BY <2>1, FS_RemoveElement
<1>4. CASE Able(a, j)
  <2>1. j \in Doable(a)
    BY <1>4 DEF Doable
  <2>2. Cardinality(Doable(a) \ {j}) = Cardinality(Doable(a)) - 1
    BY <1>3, <2>1, FS_RemoveElement
  <2>3. Cardinality(Doable(a) \ {j}) <= 1
    BY <1>3, <2>2, FS_CardinalityType
  <2>4. l = m
    BY <1>1, <1>3, <2>3, ShortLists
  <2> QED
    BY <2>4
\* What an agent cannot do it cannot do beside anything.
<1>5. CASE ~ Able(a, j)
  <2>1. ASSUME NEW k \in Lists(Doable(a) \ {j}) PROVE k \in Lists(FrontierTasks \ {j})
    <3>1. k \in Seq(Doable(a) \ {j}) /\ IsInjective(k)
      BY <1>3, ListOf
    <3>2. ToSet(k) \subseteq FrontierTasks \ {j}
      BY <1>2, <3>1, ListIsFinite
    <3> QED
      BY <3>1, <3>2, IsList
  <2>2. scenario.gain[a][j][l] \in GainsOf(a, j) /\ scenario.gain[a][j][m] \in GainsOf(a, j)
    BY <2>1 DEF GainsOf
  <2> QED
    BY <1>2, <1>5, <2>2
<1> QED
  BY <1>4, <1>5

\* So nothing need be assumed of what the gains depend on where no agent can do
\* more than two tasks of the frontier, whatever the number of agents and tasks:
\* then the marginal scores of the code, which depend on the tasks of the path and
\* on their order, give the awards of the greedy auctioneer.
THEOREM PairsMatchGreedy ==
  Spec => [](/\ \A a \in Bidders : Cardinality(Doable(a)) <= 2
             /\ ExactOffers /\ DiminishingGains /\ TiesStand
             => GreedyAwards)
<1>1. GreedyInv => (/\ \A a \in Bidders : Cardinality(Doable(a)) <= 2
                    /\ ExactOffers /\ DiminishingGains /\ TiesStand
                    => GreedyAwards)
  <2> SUFFICES ASSUME GreedyInv, \A a \in Bidders : Cardinality(Doable(a)) <= 2,
                      ExactOffers, DiminishingGains, TiesStand
               PROVE  GreedyAwards
    OBVIOUS
  <2>1. scenario \in Scenarios
    BY DEF GreedyInv, AgreeInv, EpochInv, TypeOK
  <2>2. LengthDecides
    BY <2>1, PairsDecide
  <2>3. MatchesGreedy
    BY <2>2 DEF GreedyInv, Regular, FallingGains
  <2> QED
    BY <2>2, <2>3 DEF MatchesGreedy
<1> QED
  BY <1>1, GreedyInvariant, PTL

=============================================================================
