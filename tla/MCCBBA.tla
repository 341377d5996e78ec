------------------------------- MODULE MCCBBA -------------------------------
(***************************************************************************)
(* Epochs for the auction.  A gain that depends only on how much was won   *)
(* is a tuple: what an agent gains from a frontier task when it has won    *)
(* none yet, one other, two others.                                        *)
(* Epoch: three agents bid for two tasks, some not eligible, beside a     *)
(* third one that is held; in one part of the tables bids one unit apart   *)
(* are ties, and no chain of ties spans a difference, in the other all     *)
(* bids are exact; one table of three tasks where a tie comes too late;    *)
(* and what the scoring code computes for drones U1 at (3797, 70) and U2   *)
(* at (2089, 661) and three tasks at (2981, 4068), (2645, 3879) and        *)
(* (3879, 3492), of priority 3, 3 and 7: twice the rank of each gain.      *)
(* Rising: what the scoring code computes for drones U1 and U2 at          *)
(* (6279.7, 2986.4) and (3126.7, 3691.5), each holding a task at           *)
(* (6014.5, 1774.2) and (5956.2, 3004.0), of priority 6 and 8, and two     *)
(* frontier tasks at (54.5, 3816.9) and (286.0, 3544.2), of priority 10    *)
(* and 9, with 30 s of dwell and 8 m/s; the eight gains by their rank.     *)
(* U2 gains more from one frontier task when it holds the other.           *)
(***************************************************************************)
EXTENDS CBBA

Unable == <<Ineligible, Ineligible>>

Never == <<Ineligible, Ineligible, Ineligible>>

NoHeld == [j \in {} |-> [winner |-> NoAgent, bid |-> 0]]

\* The gains that a tuple for each agent and task of F stands for.
ByLength(F, gain) ==
  [a \in DOMAIN gain |-> [j \in F |-> [l \in Lists(F \ {j}) |-> gain[a][j][Len(l) + 1]]]]

\* Gains that do not rise with the bundle; 2 and 3 are a tie, 5 is above both.
TiedGains == {<<2, 2>>, <<3, 2>>, <<5, 2>>, Unable}

\* Task 3 is held by a member of the auction or by one outside, with a low or
\* a high bid.
HeldBy(winners, bids) ==
  {[j \in {3} |-> [winner |-> a, bid |-> b]] : a \in winners, b \in bids}

TiedScenarios ==
  [gain : {ByLength({1, 2}, gain) : gain \in [Bidders -> [{1, 2} -> TiedGains]]},
   held : HeldBy({1}, {4})]

\* Gains of which no two are a tie unless they are equal.
ExactGains == {<<6, 6>>, <<6, 2>>, <<4, 4>>, <<4, 2>>, <<2, 2>>, Unable}

ExactScenarios ==
  [gain : {ByLength({1, 2}, gain) :
             gain \in {g \in [Bidders -> [{1, 2} -> ExactGains]] :
                         \A j \in {1, 2} : g[3][j] = Unable}},
   held : HeldBy({2, 7}, {0, 4})]

\* Agent 1 gains as much from task 2 as agent 2, but only when it has lost task 3
\* to agent 3, which bids for that after it has lost task 1 to agent 2.
LateTie ==
  [gain |-> ByLength({1, 2, 3},
              << <<Never, <<7, 5, 5>>, <<10, 10, 10>> >>,
                 << <<22, 22, 22>>, <<7, 7, 7>>, Never >>,
                 << <<20, 20, 20>>, Never, <<12, 2, 2>> >> >>),
   held |-> NoHeld]

\* What a gains from j beside k and l: none won yet, k, l, both.
Beside(k, l, none, first, second, both) ==
  <<>> :> none @@ <<k>> :> first @@ <<l>> :> second @@ <<k, l>> :> both @@ <<l, k>> :> both

\* Which tasks were won matters, and when drone 2 loses task 2 to drone 1 it bids
\* less for task 1 than before.
Layout ==
  [gain |-> << <<Beside(2, 3, 22, 18, 14, 6), Beside(1, 3, 24, 20, 10, 2),
                 Beside(1, 2, 46, 44, 42, 36)>>,
               <<Beside(2, 3, 30, 26, 16, 8), Beside(1, 3, 32, 28, 12, 4),
                 Beside(1, 2, 48, 40, 38, 34)>>,
               ByLength({1, 2, 3}, << <<Never, Never, Never>> >>)[1] >>,
   held |-> NoHeld]

EpochScenarios == TiedScenarios \cup ExactScenarios \cup {LateTie, Layout}

RisingScenarios ==
  {[gain |-> ByLength({1, 2}, << << <<6, 4>>, <<3, 1>> >>, << <<5, 8>>, <<2, 7>> >> >>),
    held |-> (3 :> [winner |-> 1, bid |-> 4] @@ 4 :> [winner |-> 2, bid |-> 4])]}

=============================================================================
