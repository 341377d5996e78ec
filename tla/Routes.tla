------------------------------- MODULE Routes -------------------------------
(***************************************************************************)
(* The lanes a ground vehicle drives on and the shortest-path query over   *)
(* them (core/route_graph.py).  The validator asks it whether a task can   *)
(* be reached, the auction for the distance it bids on, the map for the    *)
(* way it draws.                                                           *)
(*                                                                         *)
(* One pass of the while loop is one action.  The heap is a set: an entry  *)
(* is pushed only with a distance below the one its node has, so no entry  *)
(* is there twice.  A query reads nothing but the lanes, so an answer is   *)
(* kept in routes for whoever asks for the same two nodes again.           *)
(***************************************************************************)
EXTENDS Naturals, Sequences, FiniteSets

CONSTANTS
  Nodes,      \* node ids, numbered in the order of their names
  NoTrip, Unreachable

ASSUME RoutesAssumption ==
  /\ Nodes \subseteq Nat /\ IsFiniteSet(Nodes)
  /\ NoTrip \notin Nodes \X Nodes
  /\ Unreachable \notin [length : Nat, way : Seq(Nodes)]

Pairs == {{a, b} : a, b \in Nodes}
Links == {p \in Pairs : Cardinality(p) = 2}

VARIABLES
  lanes,      \* weight of every link, 0 when there is no lane
  trip,       \* the <<src, dst>> being searched
  dist, previous, queue,
  routes      \* answers by <<src, dst>>

searchVars == <<trip, dist, previous, queue>>
routeVars == <<lanes, trip, dist, previous, queue, routes>>

Lane(a, b) == IF a = b THEN 0 ELSE lanes[{a, b}]

NoSearch == [n \in {} |-> 0]
RoutesInit ==
  /\ trip = NoTrip
  /\ dist = NoSearch /\ previous = NoSearch /\ queue = {}
  /\ routes = NoSearch

Answer(r) ==
  /\ routes' = [p \in DOMAIN routes \cup {trip} |-> IF p = trip THEN r ELSE routes[p]]
  /\ trip' = NoTrip
  /\ dist' = NoSearch /\ previous' = NoSearch /\ queue' = {}

Ask(src, dst) ==
  /\ trip = NoTrip /\ <<src, dst>> \notin DOMAIN routes
  /\ trip' = <<src, dst>>
  /\ dist' = [n \in {src} |-> 0]
  /\ previous' = NoSearch
  /\ queue' = {<<0, src>>}
  /\ UNCHANGED <<lanes, routes>>

\* The entry heappop takes: the least distance, then the least name.
Top ==
  CHOOSE e \in queue : \A f \in queue : e[1] < f[1] \/ (e[1] = f[1] /\ e[2] <= f[2])

\* The way back along previous, and turned round.
BackFrom(n) ==
  LET back[i \in 1..Cardinality(Nodes)] ==
        IF i = 1 THEN n
        ELSE IF back[i-1] \in DOMAIN previous THEN previous[back[i-1]] ELSE trip[1]
  IN back
WayTo(n) ==
  LET back == BackFrom(n)
      steps == CHOOSE i \in DOMAIN back :
                 back[i] = trip[1] /\ \A j \in 1..(i-1) : back[j] # trip[1]
  IN [i \in 1..steps |-> back[steps + 1 - i]]

Found ==
  /\ queue # {} /\ Top[2] = trip[2]
  /\ Answer([length |-> Top[1], way |-> WayTo(trip[2])])
  /\ UNCHANGED lanes

\* Mutant of SkipStale: the entry is looked at and stays on top.
SkipStalePeeking ==
  /\ queue # {} /\ Top[2] # trip[2]
  /\ Top[1] > dist[Top[2]]
  /\ UNCHANGED routeVars

\* An entry that was overtaken by a shorter one for the same node.
SkipStale ==
  /\ queue # {} /\ Top[2] # trip[2]
  /\ Top[1] > dist[Top[2]]
  /\ queue' = queue \ {Top}
  /\ UNCHANGED <<lanes, trip, dist, previous, routes>>

\* Mutant of Shortened: a node keeps the first distance it got.
FirstReached(n, d) ==
  {m \in Nodes : Lane(n, m) > 0 /\ m \notin DOMAIN dist}

\* The neighbours of n that are nearer over n than they were before.
Shortened(n, d) ==
  {m \in Nodes :
     /\ Lane(n, m) > 0
     /\ m \in DOMAIN dist => d + Lane(n, m) < dist[m]}

Relax ==
  LET n == Top[2]  d == Top[1]  nearer == Shortened(n, d) IN
  /\ queue # {} /\ n # trip[2]
  /\ d <= dist[n]
  /\ dist' = [m \in DOMAIN dist \cup nearer |->
                IF m \in nearer THEN d + Lane(n, m) ELSE dist[m]]
  /\ previous' = [m \in DOMAIN previous \cup nearer |->
                    IF m \in nearer THEN n ELSE previous[m]]
  /\ queue' = (queue \ {Top}) \cup {<<d + Lane(n, m), m>> : m \in nearer}
  /\ UNCHANGED <<lanes, trip, routes>>

Exhausted ==
  /\ trip # NoTrip /\ queue = {}
  /\ Answer(Unreachable)
  /\ UNCHANGED lanes

Search == Found \/ SkipStale \/ Relax \/ Exhausted

-----------------------------------------------------------------------------

\* The reference: every way between two nodes that meets no node twice.
Ways ==
  {w \in UNION {[1..k -> Nodes] : k \in 1..Cardinality(Nodes)} :
     \A i, j \in DOMAIN w : w[i] = w[j] => i = j}
Between == [p \in Nodes \X Nodes |-> {w \in Ways : w[1] = p[1] /\ w[Len(w)] = p[2]}]

OverLanes(w) == \A i \in 1..(Len(w) - 1) : Lane(w[i], w[i+1]) > 0

Milestones(w) ==
  LET sum[i \in 1..Len(w)] == IF i = 1 THEN 0 ELSE sum[i-1] + Lane(w[i-1], w[i])
  IN sum
LengthOf(w) == Milestones(w)[Len(w)]

\* A query answers with a way along lanes whose length is the distance it
\* gives, no way is shorter, and with none only when no way exists, though
\* entries of the heap are overtaken and never removed (route_graph.py:71-103).
RoutesShortest ==
  \A p \in DOMAIN routes :
    LET all == {w \in Between[p] : OverLanes(w)} IN
    IF routes[p] = Unreachable THEN all = {}
    ELSE /\ routes[p].way \in all
         /\ LengthOf(routes[p].way) = routes[p].length
         /\ \A w \in all : LengthOf(w) >= routes[p].length

=============================================================================
