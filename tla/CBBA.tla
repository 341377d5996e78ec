-------------------------------- MODULE CBBA --------------------------------
(***************************************************************************)
(* One scheduling epoch of the consensus-based bundle algorithm            *)
(* (allocation/cbba.py, run_epoch): rounds of bundle construction and of   *)
(* fully connected, synchronous consensus, until two rounds in a row       *)
(* change nothing; after 10 rounds per task it gives up (ConvergenceError).*)
(*                                                                         *)
(* Agents and tasks are numbered in the order of their ids, which is the   *)
(* order of every loop and of every tie-break.  The marginal score of a    *)
(* task is a table of gains per agent, task and list of the frontier tasks *)
(* the agent has won, in the order it won them.  That order and the held   *)
(* tasks fix the path, since each task went where the score was best and a *)
(* release takes the latest ones out again; so the path is no variable.    *)
(* Bids are integers, two bids at most Epsilon apart are a tie.            *)
(*                                                                         *)
(* Within a round the agents work one after the other, each on its own     *)
(* beliefs and on a snapshot of the others', so what they do in the same   *)
(* position of their loops is one step here.                               *)
(***************************************************************************)
EXTENDS TaskLists

CONSTANTS
  Bidders,      \* the agents of the auction, natural numbers
  Tasks,        \* the tasks that are not completed, natural numbers
  Epsilon,      \* bids closer than this are a tie
  Scenarios     \* records [gain, held]: the gain tables and the commitments
                \* carried into the epoch

NoAgent == 0
Ineligible == 0 - 1

\* held maps a task to its winner and bid; winners may be outside the auction.
\* Who is not eligible for a task is not, whatever else it has won.
IsScenario(sc) ==
  /\ DOMAIN sc.held \subseteq Tasks
  /\ LET frontier == Tasks \ DOMAIN sc.held IN
       \A a \in Bidders : \A j \in frontier :
         /\ sc.gain[a][j] \in [Lists(frontier \ {j}) -> Int]
         /\ sc.gain[a][j][<<>>] = Ineligible =>
              \A l \in Lists(frontier \ {j}) : sc.gain[a][j][l] = Ineligible
  /\ \A j \in DOMAIN sc.held : sc.held[j].winner \in Nat \ {NoAgent} /\ sc.held[j].bid \in Nat

ASSUME CBBAAssumption ==
  /\ Bidders \subseteq Nat \ {NoAgent} /\ IsFiniteSet(Bidders) /\ Bidders # {}
  /\ Tasks \subseteq Nat /\ IsFiniteSet(Tasks)
  /\ Epsilon \in Nat
  /\ \A sc \in Scenarios : IsScenario(sc)

VARIABLES
  scenario,    \* the gains and the held tasks of this epoch
  bundle,      \* Agent.bundle
  y, z, s,     \* CBBAState: winning bids, winning agents, timestamps
  snap,        \* the start-of-round snapshot the consensus reads
  before,      \* the state the round started from, to detect a quiet round
  rnd,         \* rounds so far
  unchanged,   \* quiet rounds in a row
  phase,       \* "build", "hear", "done" or "failed"
  heard        \* the senders this round has been heard from

vars == <<scenario, bundle, y, z, s, snap, before, rnd, unchanged, phase, heard>>

Held == DOMAIN scenario.held

\* The READY frontier: what is not held.
FrontierTasks == Tasks \ Held

\* Mutant of MaxRounds: a limit that only counts the tasks.
OneRoundPerTask == IF Tasks = {} THEN 1 ELSE Cardinality(Tasks)

MaxRounds == 10 * (IF Tasks = {} THEN 1 ELSE Cardinality(Tasks))

\* Mutant of QuietRounds: the epoch ends without a quiet round.
NoQuietRounds == 0

QuietRounds == 2    \* network_diameter + 1

-----------------------------------------------------------------------------
(* Bids.                                                                   *)

BidGt(a, b) == a > b + Epsilon

\* Mutant of Beats: the larger id wins a tie.
BeatsByLargerId(yk, k, yi, i) == BidGt(yk, yi) \/ (~BidGt(yi, yk) /\ k > i)

\* Strictly better, or a tie and the smaller id.
Beats(yk, k, yi, i) == BidGt(yk, yi) \/ (~BidGt(yi, yk) /\ k < i)

\* The frontier tasks a has won, in that order.
Won(a) == Without(bundle[a], Held)

\* marginal_score: what a gains from task j beside those.
Offer(a, j) == scenario.gain[a][j][Won(a)]

\* _eligible: whether a can do task j.
Able(a, j) == scenario.gain[a][j][<<>>] # Ineligible

\* Mutant of Candidates: a capacity of one task.
OneCandidate(a) ==
  {j \in FrontierTasks \ ToSet(bundle[a]) :
     ToSet(bundle[a]) \subseteq Held /\ BidGt(Offer(a, j), y[a][j])}

\* The tasks for which a outbids what it believes.
Candidates(a) == {j \in FrontierTasks \ ToSet(bundle[a]) : BidGt(Offer(a, j), y[a][j])}

\* The scan for the best candidate, in the order of the ids: L holds the tasks
\* that led it, each one better than the leader it replaced.
Leaders(a, L) ==
  \A j \in Candidates(a) :
    j \in L <=> \A h \in L : h < j => BidGt(Offer(a, j), Offer(a, h))

BestCandidates(a) ==
  {j \in Candidates(a) :
     \E L \in SUBSET Candidates(a) : Leaders(a, L) /\ j \in L /\ \A h \in L : h <= j}

-----------------------------------------------------------------------------
(* The decision table of the consensus (_action_rule).  Receiver i         *)
(* believes zi wins with yi; sender k claims zk wins with yk; si and sk    *)
(* are their timestamps.                                                   *)

Stamp(st, m) == IF m \in DOMAIN st THEN st[m] ELSE 0

Newer(sk, si, m) == Stamp(sk, m) > Stamp(si, m)

Updates(zi, yi, si, zk, yk, sk, i, k) ==
  LET better == Beats(yk, k, yi, i)
      third  == zk \notin {i, k, NoAgent}
  IN  \/ zk = k /\ zi = i /\ better
      \/ zk = k /\ zi \in {k, NoAgent}
      \/ zk = k /\ zi \notin {i, k, NoAgent} /\ (Newer(sk, si, zi) \/ better)
      \/ zk = NoAgent /\ zi = k
      \/ zk = NoAgent /\ zi \notin {i, k, NoAgent} /\ Newer(sk, si, zi)
      \/ third /\ zi = i /\ Newer(sk, si, zk) /\ better
      \/ third /\ zi \in {k, zk, NoAgent} /\ Newer(sk, si, zk)
      \/ third /\ zi \notin {i, k, zk, NoAgent} /\ Newer(sk, si, zk)
               /\ (Newer(sk, si, zi) \/ better)

Resets(zi, yi, si, zk, yk, sk, i, k) ==
  LET third == zk \notin {i, k, NoAgent}
  IN  \/ zk = i /\ zi = k
      \/ zk = i /\ zi \notin {i, k, NoAgent} /\ Newer(sk, si, zi)
      \/ third /\ zi = k /\ ~Newer(sk, si, zk)
      \/ third /\ zi \notin {i, k, zk, NoAgent} /\ Newer(sk, si, zi) /\ Newer(si, sk, zk)

-----------------------------------------------------------------------------
(* A round.                                                                *)

\* _bundle_build, one bid at a time: the best candidate is appended.  A bundle
\* has room for every frontier task, so the capacity is never reached.
Bid ==
  LET bidding == {a \in Bidders : Candidates(a) # {}}
  IN  /\ phase = "build"
      /\ bidding # {}
      /\ \E best \in Picks([a \in bidding |-> BestCandidates(a)]) :
           /\ bundle' = [a \in Bidders |->
                           IF a \in bidding THEN Append(bundle[a], best[a]) ELSE bundle[a]]
           /\ y' = [a \in Bidders |->
                      IF a \in bidding
                      THEN [y[a] EXCEPT ![best[a]] = Offer(a, best[a])] ELSE y[a]]
           /\ z' = [a \in Bidders |->
                      IF a \in bidding THEN [z[a] EXCEPT ![best[a]] = a] ELSE z[a]]
      /\ UNCHANGED <<scenario, s, snap, before, rnd, unchanged, phase, heard>>

\* Every bundle is built: the consensus reads a snapshot.
StartConsensus ==
  /\ phase = "build"
  /\ \A a \in Bidders : Candidates(a) = {}
  /\ phase' = "hear"
  /\ snap' = [y |-> y, z |-> z, s |-> s]
  /\ heard' = {}
  /\ UNCHANGED <<scenario, bundle, y, z, s, before, rnd, unchanged>>

UpdatesFrom(i, k, j) ==
  Updates(z[i][j], y[i][j], s[i], snap.z[k][j], snap.y[k][j], snap.s[k], i, k)

ResetsFrom(i, k, j) ==
  Resets(z[i][j], y[i][j], s[i], snap.z[k][j], snap.y[k][j], snap.s[k], i, k)

\* Every receiver hears sender k; senders come in the order of their ids.
Hear(k) ==
  /\ phase = "hear"
  /\ k \notin heard
  /\ \A m \in Bidders \ heard : k <= m
  /\ y' = [i \in Bidders |-> [j \in Tasks |->
             IF i = k THEN y[i][j]
             ELSE IF UpdatesFrom(i, k, j) THEN snap.y[k][j]
             ELSE IF ResetsFrom(i, k, j) THEN 0 ELSE y[i][j]]]
  /\ z' = [i \in Bidders |-> [j \in Tasks |->
             IF i = k THEN z[i][j]
             ELSE IF UpdatesFrom(i, k, j) THEN snap.z[k][j]
             ELSE IF ResetsFrom(i, k, j) THEN NoAgent ELSE z[i][j]]]
  /\ s' = [i \in Bidders |-> [m \in Bidders |->
             IF i = k \/ m = i THEN s[i][m]
             ELSE IF m = k THEN rnd
             ELSE IF snap.s[k][m] > s[i][m] THEN snap.s[k][m] ELSE s[i][m]]]
  /\ heard' = heard \cup {k}
  /\ UNCHANGED <<scenario, bundle, snap, before, rnd, unchanged, phase>>

\* Positions in the bundle of a of the tasks a no longer wins.
Lost(a) == {n \in DOMAIN bundle[a] : z[a][bundle[a][n]] # a}

\* Mutant of FirstLost: the release starts one task too early.
EarlyLost(a) ==
  LET first == CHOOSE n \in Lost(a) : \A m \in Lost(a) : n <= m
  IN  IF first > 1 THEN first - 1 ELSE first

FirstLost(a) == CHOOSE n \in Lost(a) : \A m \in Lost(a) : n <= m

Kept(a) ==
  IF Lost(a) = {} THEN bundle[a] ELSE SubSeq(bundle[a], 1, FirstLost(a) - 1)

\* The tasks bid after the first lost one; the beliefs about them are reset.
Voided(a) ==
  IF Lost(a) = {} THEN {} ELSE {bundle[a][n] : n \in FirstLost(a) + 1 .. Len(bundle[a])}

\* _release_suffix of every agent, and the end of the round.
EndRound ==
  /\ phase = "hear"
  /\ heard = Bidders
  /\ bundle' = [a \in Bidders |-> Kept(a)]
  /\ y' = [a \in Bidders |-> [j \in Tasks |-> IF j \in Voided(a) THEN 0 ELSE y[a][j]]]
  /\ z' = [a \in Bidders |-> [j \in Tasks |-> IF j \in Voided(a) THEN NoAgent ELSE z[a][j]]]
  /\ unchanged' = IF before = [y |-> y', z |-> z', b |-> bundle'] THEN unchanged + 1 ELSE 0
  /\ before' = [y |-> y', z |-> z', b |-> bundle']
  /\ snap' = <<>>
  /\ heard' = {}
  /\ IF unchanged' = QuietRounds
     THEN phase' = "done" /\ rnd' = rnd
     ELSE IF rnd = MaxRounds
     THEN phase' = "failed" /\ rnd' = rnd
     ELSE phase' = "build" /\ rnd' = rnd + 1
  /\ UNCHANGED <<scenario, s>>

-----------------------------------------------------------------------------

\* CBBAState.initialize: every agent believes the held commitments, and the
\* agents of the auction carry theirs in their bundles.
Init ==
  /\ scenario \in Scenarios
  /\ bundle \in [Bidders -> Lists(Held)]
  /\ \A a \in Bidders : ToSet(bundle[a]) = {j \in Held : scenario.held[j].winner = a}
  /\ y = [a \in Bidders |-> [j \in Tasks |-> IF j \in Held THEN scenario.held[j].bid ELSE 0]]
  /\ z = [a \in Bidders |-> [j \in Tasks |->
            IF j \in Held THEN scenario.held[j].winner ELSE NoAgent]]
  /\ s = [a \in Bidders |-> [m \in Bidders |-> 0]]
  /\ before = [y |-> y, z |-> z, b |-> bundle]
  /\ snap = <<>>
  /\ rnd = 1
  /\ unchanged = 0
  /\ phase = "build"
  /\ heard = {}

Next == Bid \/ StartConsensus \/ (\E k \in Bidders : Hear(k)) \/ EndRound

Spec == Init /\ [][Next]_vars

FairSpec == Spec /\ WF_vars(Next)

-----------------------------------------------------------------------------
(* What an epoch promises to the executor.                                 *)

Views == [Bidders -> [Tasks -> Nat]]

TypeOK ==
  /\ scenario \in Scenarios
  /\ bundle \in [Bidders -> Seq(Tasks)]
  /\ y \in Views
  /\ z \in Views
  /\ s \in [Bidders -> [Bidders -> Nat]]
  /\ phase \in {"build", "hear", "done", "failed"}
  /\ phase = "hear" =>
       snap.y \in Views /\ snap.z \in Views /\ snap.s \in [Bidders -> [Bidders -> Nat]]
  /\ rnd \in Nat \ {0}
  /\ unchanged \in 0 .. QuietRounds
  /\ heard \subseteq Bidders

\* A commitment carried into the epoch is never contested: through every
\* round each agent believes its winner and its bid, and the winner's bundle
\* keeps it (run_epoch: held locks already-committed tasks).
HeldLocked ==
  \A j \in Held :
    /\ \A a \in Bidders : z[a][j] = scenario.held[j].winner /\ y[a][j] = scenario.held[j].bid
    /\ \A a \in Bidders : j \in ToSet(bundle[a]) <=> a = scenario.held[j].winner

\* At the end every agent believes the same and carries what it wins, so the
\* view of one agent, the only one run_epoch reads, speaks for all.
ConflictFree ==
  phase = "done" =>
    /\ \A a, b \in Bidders : z[a] = z[b] /\ y[a] = y[b]
    /\ \A a \in Bidders :
         IsInjective(bundle[a]) /\ ToSet(bundle[a]) = {j \in Tasks : z[a][j] = a}

\* Every frontier task that some agent of the auction can do is awarded, and to
\* one that can: what module Executor assumes of an auction.
AwardsComplete ==
  phase = "done" =>
    \A a \in Bidders : \A j \in FrontierTasks :
      LET able == {b \in Bidders : Able(b, j)}
      IN  IF able = {} THEN z[a][j] = NoAgent ELSE z[a][j] \in able

\* What a may gain from task j.
GainsOf(a, j) == {scenario.gain[a][j][l] : l \in Lists(FrontierTasks \ {j})}

\* Two gains of one agent or of two are never close enough to be a tie without
\* being equal.
Offered == UNION {GainsOf(a, j) : a \in Bidders, j \in FrontierTasks}
ExactOffers == \A g, h \in Offered : g < h => h - g > Epsilon

\* A bundle that grows never makes a task worth more.
DiminishingGains ==
  \A a \in Bidders : \A j \in FrontierTasks : \A l \in Lists(FrontierTasks \ {j}) :
    \A n \in 0 .. Len(l) : scenario.gain[a][j][l] <= scenario.gain[a][j][SubSeq(l, 1, n)]

\* It only matters how many tasks an agent has won, not which: always so when
\* no agent can do more than two tasks of the frontier.
Doable(a) == {j \in FrontierTasks : Able(a, j)}
LengthDecides ==
  \A a \in Bidders : \A j \in FrontierTasks : \A l, m \in Lists(Doable(a) \ {j}) :
    Len(l) = Len(m) => scenario.gain[a][j][l] = scenario.gain[a][j][m]

\* What a gains from j does not depend on its bundle.
Steady(a, j) == \A g \in GainsOf(a, j) : g = scenario.gain[a][j][<<>>]

\* What a has won when the first n tasks of o are closed.
WonOf(a, o, n, won) == Without(SubSeq(o, 1, n), {j \in Tasks : won[j] # a})

ClosedInOrder(o, won) ==
  \A n \in DOMAIN o :
    LET offer(a, j) == scenario.gain[a][j][WonOf(a, o, n - 1, won)]
        j == o[n]
    IN  \A a \in Bidders : \A m \in n .. Len(o) :
          \/ offer(a, o[m]) < offer(won[j], j)
          \/ /\ offer(a, o[m]) = offer(won[j], j)
             /\ o[m] = j /\ Steady(a, j) => won[j] <= a

\* The awards are what a single auctioneer would make who, again and again,
\* closes the highest offer on the table.  A tie on one task goes to the
\* smaller id if that offer stood all along (contract: deterministic
\* tie-break); one that rises to the tie when its agent loses other tasks comes
\* too late, since a bid must be higher than what its agent believes.
GreedyAwards ==
  phase = "done" =>
    \A a \in Bidders :
      \E o \in SetToSeqs({j \in FrontierTasks : z[a][j] # NoAgent}) : ClosedInOrder(o, z[a])

\* The consensus makes the awards of the greedy auctioneer where gains diminish
\* and depend only on how much was won.  (Where they depend on what was won, a
\* price can fall when its agent loses another task, and who was deterred by it
\* has bid elsewhere.)
MatchesGreedy == ExactOffers /\ DiminishingGains /\ LengthDecides => GreedyAwards

\* The epoch does not end in ConvergenceError.
NeverFails == phase # "failed"

\* An epoch ends in agreement.
Converges == <>(phase = "done")

=============================================================================
