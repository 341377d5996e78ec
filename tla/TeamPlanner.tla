----------------------------- MODULE TeamPlanner -----------------------------
(***************************************************************************)
(* From a request for resources to a plan: whether every task can be       *)
(* reached (validator/whole_graph.py), the search over the teams the       *)
(* request permits (interaction/resources.py, allocation/team.py) and the  *)
(* rehearsal of the mission with one team, wave by wave                    *)
(* (allocation/allocate.py), over the legs of allocation/travel.py.        *)
(*                                                                         *)
(* The auction of a wave is what run_epoch promises (see CBBA.tla): each   *)
(* task of the frontier that a member can do is awarded to one such        *)
(* member, in any order on its path.  Speed is one, so that distances are  *)
(* times.  A point is the access node of a site on the ground and its      *)
(* position in the air.                                                    *)
(***************************************************************************)
EXTENDS Routes, FiniteSetsExt

CONSTANTS
  Tasks, Preds, Eligible,
  Agents, Drones,    \* the fleet, and the UAVs of it
  Rank,              \* the order of agent ids
  Home, Site,        \* the point an agent starts from, and a task is at
  Grounded,          \* tasks that a UGV may do at an incident
  Flight,            \* distance between two points in the air
  Duration,
  MaxEpochs,         \* max_epochs of allocate: no mission has more tasks
  Scenarios,         \* what a run starts from: [lanes, tasks, request]
  NoRequest,         \* of a scenario in which only the map asks for routes
  NoAgent, NoCount

ASSUME PlannerAssumption ==
  /\ IsFiniteSet(Tasks) /\ IsFiniteSet(Agents) /\ Drones \subseteq Agents
  /\ Preds \in [Tasks -> SUBSET Tasks] /\ Eligible \in [Tasks -> SUBSET Agents]
  /\ \A t \in Tasks : Eligible[t] # {}
  /\ \A t \in Tasks : Eligible[t] \ Drones # {} => t \in Grounded
  /\ Home \in [Agents -> Nodes] /\ Site \in [Tasks -> Nodes]
  /\ Duration \in [Tasks -> Nat \ {0}]
  /\ MaxEpochs \in Nat /\ MaxEpochs >= Cardinality(Tasks)
  /\ NoAgent \notin Agents

\* A drone flies straight.
ASSUME FlightAssumption ==
  /\ Flight \in [Nodes -> [Nodes -> Nat]]
  /\ \A a, b, c \in Nodes : Flight[a][a] = 0 /\ Flight[a][c] <= Flight[a][b] + Flight[b][c]

\* A mission that comes to be planned has a graph the validator accepts.
ASSUME ScenarioAssumption ==
  \A s \in Scenarios :
    /\ s.lanes \in [Links -> Nat]
    /\ s.tasks \subseteq Tasks /\ \A t \in s.tasks : Preds[t] \subseteq s.tasks
    /\ \A S \in SUBSET s.tasks : S # {} => \E t \in S : Preds[t] \cap S = {}

VARIABLES
  tasks,       \* the graph of the mission
  request,
  phase,       \* "checking", "choosing", "rehearsing" or how the call ended
  untried,     \* teams that are still to be rehearsed
  plan,        \* the rehearsal, [team, owner, start, done, free, place, since,
               \*  epochs, travelled]
  feasible     \* plans that satisfy the request

plannerVars == <<routeVars, tasks, request, phase, untried, plan, feasible>>
scenarioVars == <<lanes, tasks, request>>

Ended == {"planned", "rejected", "refused", "infeasible"}

-----------------------------------------------------------------------------
(* Constraints.                                                            *)

Vehicles == Agents \ Drones
CountFor(platform) == IF platform = Drones THEN request.uav ELSE request.ugv

Unlimited == [exact |-> NoCount, minimum |-> NoCount, maximum |-> NoCount]
IsConstrained(c) == c # Unlimited

RequestConstrained ==
  \/ IsConstrained(request.uav) \/ IsConstrained(request.ugv)
  \/ request.required # {} \/ request.excluded # {}

\* permitted_sizes.
Permitted(c, available) ==
  {k \in 0..available :
     IF c.exact # NoCount THEN k = c.exact
     ELSE /\ c.minimum # NoCount => k >= c.minimum
          /\ c.maximum # NoCount => k <= c.maximum}

\* validate_scene: more members asked for than the fleet has.
ExceedsFleet ==
  \E platform \in {Drones, Vehicles} :
    LET c == CountFor(platform)  total == Cardinality(platform) IN
    \/ c.exact # NoCount /\ c.exact > total
    \/ c.minimum # NoCount /\ c.minimum > total

\* _platform_teams: an unconstrained platform takes part as a whole.
PlatformTeams(platform) ==
  LET available == platform \ request.excluded
      sizes == Permitted(CountFor(platform), Cardinality(available))
  IN IF ~ IsConstrained(CountFor(platform)) THEN {available}
     ELSE {S \in SUBSET available :
             /\ Cardinality(S) \in sizes
             /\ request.required \cap available \subseteq S}

\* The product of both platforms.  A team of nobody is passed over when there
\* is something to do.
Teams ==
  {D \cup V : D \in PlatformTeams(Drones), V \in PlatformTeams(Vehicles)}
    \ (IF tasks = {} THEN {} ELSE {{}})

-----------------------------------------------------------------------------
(* Reachability, when the graph is validated.                              *)

\* Mutant of Starts: the first vehicle speaks for the others.
FirstStart == {Home[CHOOSE a \in Vehicles : \A b \in Vehicles : Rank[a] <= Rank[b]]}

Starts == {Home[a] : a \in Vehicles}

Targets == {Site[t] : t \in tasks \cap Grounded}
ReachPairs == Starts \X Targets

\* Legs a vehicle may bid on in a wave: from where it may stand to a task.
LegPairs == ({Home[a] : a \in Vehicles} \cup Targets) \X Targets

Known(pairs) == pairs \subseteq DOMAIN routes

\* The map asks for the way between any two nodes.
AskForMap(src, dst) ==
  /\ request = NoRequest /\ routes = NoSearch
  /\ Ask(src, dst)
  /\ UNCHANGED <<tasks, request, phase, untried, plan, feasible>>

\* The validator and the scoring ask for what they need.  An answer does not
\* depend on what was asked before, so the order is left to CHOOSE.
AskForLeg ==
  /\ request # NoRequest /\ trip = NoTrip
  /\ LET wanted == IF phase = "checking" THEN ReachPairs
                   ELSE IF phase = "rehearsing" THEN LegPairs ELSE {}
         open == wanted \ DOMAIN routes
     IN /\ open # {}
        /\ LET p == CHOOSE p \in open : TRUE IN Ask(p[1], p[2])
  /\ UNCHANGED <<tasks, request, phase, untried, plan, feasible>>

SearchStep ==
  /\ Search
  /\ UNCHANGED <<tasks, request, phase, untried, plan, feasible>>

AllReachable == \A p \in ReachPairs : routes[p] # Unreachable

\* validate_structure accepts the graph, or the mission is rejected.
CheckReachability ==
  /\ phase = "checking" /\ request # NoRequest
  /\ trip = NoTrip /\ Known(ReachPairs)
  /\ phase' = IF AllReachable THEN "choosing" ELSE "rejected"
  /\ UNCHANGED <<routeVars, tasks, request, untried, plan, feasible>>

-----------------------------------------------------------------------------
(* The rehearsal of one team.                                              *)

FreshPlan(team) ==
  [team |-> team,
   owner |-> [t \in tasks |-> NoAgent],
   start |-> [t \in tasks |-> 0], done |-> [t \in tasks |-> 0],
   free |-> [a \in team |-> 0], place |-> [a \in team |-> Home[a]],
   since |-> 0, epochs |-> 0, travelled |-> 0]
NoPlan == [team |-> {}]

Assigned(p) == {t \in tasks : p.owner[t] # NoAgent}
Frontier(p) == {t \in tasks \ Assigned(p) : Preds[t] \subseteq Assigned(p)}
Doable(p) == {t \in Frontier(p) : Eligible[t] \cap p.team # {}}

\* leg_distance.
Leg(a, from, t) ==
  IF a \in Drones THEN Flight[from][Site[t]] ELSE routes[<<from, Site[t]>>].length

\* It raises UnreachableError when no lanes lead to a task that is bid on.
WaveRaises(p) ==
  \E a \in p.team \ Drones, t \in Doable(p) :
    /\ a \in Eligible[t]
    /\ \E from \in {p.place[a]} \cup {Site[s] : s \in {s \in Doable(p) : a \in Eligible[s]}} :
         routes[<<from, Site[t]>>] = Unreachable

\* What the auction may answer: who does which task, and in which order.  The
\* path of an agent are its tasks in that order.
Orders(S) ==
  {s \in [1..Cardinality(S) -> S] : \A t \in S : \E i \in DOMAIN s : s[i] = t}
Auctions(p) ==
  {x \in [owner : [Doable(p) -> p.team], order : Orders(Doable(p))] :
     \A t \in Doable(p) : x.owner[t] \in Eligible[t]}

\* _walk: when and where an agent is after the first i tasks of the order.
Walk(a, award, from, depart) ==
  LET at[i \in 0..Cardinality(DOMAIN award.owner)] ==
        IF i = 0 THEN [start |-> depart, done |-> depart, place |-> from, far |-> 0]
        ELSE LET t == award.order[i]
                 arrival == at[i-1].done + Leg(a, at[i-1].place, t)
             IN IF award.owner[t] # a THEN at[i-1]
                ELSE [start |-> arrival, done |-> arrival + Duration[t], place |-> Site[t],
                      far |-> at[i-1].far + Leg(a, at[i-1].place, t)]
  IN at

\* Mutant of Departure: nobody waits for the wave before.
DepartWhenFree(p, a) == p.free[a]

\* The barrier between waves.
Departure(p, a) == IF p.free[a] > p.since THEN p.free[a] ELSE p.since

TotalFar(ends) == MapThenSumSet(LAMBDA a : ends[a].far, DOMAIN ends)

Waved(p, award) ==
  LET won == DOMAIN award.owner
      busy == {award.owner[t] : t \in won}
      walk == [a \in p.team |-> Walk(a, award, p.place[a], Departure(p, a))]
      end == [a \in p.team |-> walk[a][Cardinality(won)]]
      of(t) == walk[award.owner[t]][CHOOSE i \in 1..Cardinality(won) : award.order[i] = t]
  IN [team |-> p.team,
      owner |-> [t \in tasks |-> IF t \in won THEN award.owner[t] ELSE p.owner[t]],
      start |-> [t \in tasks |-> IF t \in won THEN of(t).start ELSE p.start[t]],
      done |-> [t \in tasks |-> IF t \in won THEN of(t).done ELSE p.done[t]],
      free |-> [a \in p.team |-> IF a \in busy THEN end[a].done ELSE p.free[a]],
      place |-> [a \in p.team |-> IF a \in busy THEN end[a].place ELSE p.place[a]],
      since |-> Max({end[a].done : a \in busy}),
      epochs |-> p.epochs + 1,
      travelled |-> p.travelled + TotalFar(end)]

\* Mutant of Stops: a wave that leaves a task over is the last one.
StopsOnLeftover(p) ==
  p.epochs = MaxEpochs \/ Frontier(p) = {} \/ Doable(p) # Frontier(p)

\* No frontier, a frontier nobody can do anything of, or the last epoch.
Stops(p) == p.epochs = MaxEpochs \/ Frontier(p) = {} \/ Doable(p) = {}

Rehearsing == phase = "rehearsing" /\ trip = NoTrip /\ Known(LegPairs)

\* A wave that raises would be the end of the call; PlannerNeverRaises shows
\* that there is none, so that no action is needed for it.
Wave ==
  /\ Rehearsing /\ ~ Stops(plan) /\ ~ WaveRaises(plan)
  /\ \E award \in Auctions(plan) : plan' = Waved(plan, award)
  /\ UNCHANGED <<routeVars, tasks, request, phase, untried, feasible>>

-----------------------------------------------------------------------------
(* The search over teams.                                                  *)

Complete(p) == Assigned(p) = tasks
Makespan(p) == Max({p.done[t] : t \in Assigned(p)} \cup {0})

\* _precedence_violations.
OutOfOrder(p) ==
  \E t \in Assigned(p) : \E q \in Preds[t] \cap Assigned(p) : p.done[q] > p.start[t]

Satisfies(p) ==
  /\ Complete(p) /\ ~ OutOfOrder(p)
  /\ \A t \in Assigned(p) : p.owner[t] \in Eligible[t]
  /\ request.required \subseteq {p.owner[t] : t \in tasks}

\* The key of a plan: makespan, distance, size and ids, in this order.
Precedes(S, T) ==
  LET differ == (S \ T) \cup (T \ S) IN
  \E a \in S : a \in differ /\ \A b \in differ : Rank[a] <= Rank[b]
Better(p, q) ==
  \/ Makespan(p) < Makespan(q)
  \/ /\ Makespan(p) = Makespan(q)
     /\ \/ p.travelled < q.travelled
        \/ /\ p.travelled = q.travelled
           /\ \/ Cardinality(p.team) < Cardinality(q.team)
              \/ /\ Cardinality(p.team) = Cardinality(q.team)
                 /\ Precedes(p.team, q.team)

\* resolve_initial_team, before the first rehearsal.
Choose ==
  /\ phase = "choosing"
  /\ IF ExceedsFleet
     THEN phase' = "refused" /\ UNCHANGED <<untried, plan>>
     ELSE IF RequestConstrained /\ Teams = {}
     THEN phase' = "infeasible" /\ UNCHANGED <<untried, plan>>
     ELSE LET teams == IF RequestConstrained THEN Teams ELSE {Agents}
              first == CHOOSE T \in teams : TRUE
          IN /\ phase' = "rehearsing"
             /\ plan' = FreshPlan(first)
             /\ untried' = teams \ {first}
  /\ UNCHANGED <<routeVars, tasks, request, feasible>>

\* The rehearsal of a team ends; another one is tried, or the search is over.
\* The order in which teams are tried has no influence on the least key.
Judge ==
  /\ Rehearsing /\ Stops(plan)
  /\ feasible' = IF ~ RequestConstrained \/ Satisfies(plan)
                 THEN feasible \cup {plan} ELSE feasible
  /\ IF untried # {}
     THEN LET next == CHOOSE T \in untried : TRUE IN
          /\ untried' = untried \ {next}
          /\ plan' = FreshPlan(next)
          /\ UNCHANGED phase
     ELSE /\ IF feasible' = {}
             THEN phase' = "infeasible" /\ plan' = NoPlan
             ELSE /\ phase' = "planned"
                  /\ \E p \in feasible' :
                       (\A q \in feasible' \ {p} : Better(p, q)) /\ plan' = p
          /\ UNCHANGED untried
  /\ UNCHANGED <<routeVars, tasks, request>>

PlannerInit ==
  /\ \E s \in Scenarios :
       lanes = s.lanes /\ tasks = s.tasks /\ request = s.request
  /\ RoutesInit
  /\ phase = "checking" /\ untried = {} /\ plan = NoPlan /\ feasible = {}

PlannerNext ==
  \/ \E src, dst \in Nodes : AskForMap(src, dst)
  \/ AskForLeg \/ SearchStep
  \/ CheckReachability
  \/ Choose
  \/ Wave
  \/ Judge

PlannerSpec == PlannerInit /\ [][PlannerNext]_plannerVars /\ WF_plannerVars(PlannerNext)

-----------------------------------------------------------------------------
(* Properties.                                                             *)

\* The plan that is published can be carried out and is what was asked for:
\* every task belongs to a member that can do it, starts after its
\* predecessors are done, and after its owner had the time to get there from
\* what it did before; who was required works, who was excluded does not, and
\* the numbers are permitted (resources.py, team.py, allocate.py together).
ChosenTeamServes ==
  phase = "planned" =>
    /\ \A t \in tasks : plan.owner[t] \in plan.team \cap Eligible[t]
    /\ \A t \in tasks : \A q \in Preds[t] : plan.done[q] <= plan.start[t]
    /\ \A t, s \in tasks :
         t # s /\ plan.owner[t] = plan.owner[s] /\ plan.done[s] <= plan.done[t] =>
           plan.start[t] >= plan.done[s] + Leg(plan.owner[t], Site[s], t)
    /\ request.required \subseteq {plan.owner[t] : t \in tasks}
    /\ plan.team \cap request.excluded = {}
    /\ \A platform \in {Drones, Vehicles} :
         Cardinality(plan.team \cap platform)
           \in Permitted(CountFor(platform), Cardinality(platform))

\* A team is found unfit only when some task is out of its reach for good: a
\* task that none of its members can do, or one behind it.  No order in which
\* the waves place their tasks loses one that somebody could still do.
UnfitJustified ==
  Rehearsing /\ Stops(plan) /\ ~ Complete(plan) =>
    \A t \in tasks \ Assigned(plan) :
      \/ Eligible[t] \cap plan.team = {}
      \/ Preds[t] \ Assigned(plan) # {}

\* What validation accepted can be planned: no team, no wave and no order of
\* tasks brings a vehicle to a place from which no lanes lead to a task it
\* bids on (E_UNREACHABLE of whole_graph.py:81, UnreachableError of travel.py).
PlannerNeverRaises == Rehearsing /\ ~ Stops(plan) => ~ WaveRaises(plan)

\* Every call comes to an end: the search for a route, the waves and the
\* search over teams each run out of what they go through.
SearchEnds ==
  /\ trip # NoTrip ~> trip = NoTrip
  /\ request # NoRequest ~> phase \in Ended

\* "No active fleet subset can satisfy both the request and the mission"
\* (team.py:17): a request is infeasible only if every team it permits fails.
\* A team is certain to succeed when it can do every task and each required
\* agent is the only member for one of them.
Certain(team) ==
  /\ request.required \subseteq team /\ team \cap request.excluded = {}
  /\ \A platform \in {Drones, Vehicles} :
       Cardinality(team \cap platform)
         \in Permitted(CountFor(platform), Cardinality(platform \ request.excluded))
  /\ \A t \in tasks : Eligible[t] \cap team # {}
  /\ \A a \in request.required : \E t \in tasks : Eligible[t] \cap team = {a}
RefusalJustified == phase = "infeasible" => ~ \E team \in SUBSET Agents : Certain(team)

=============================================================================
