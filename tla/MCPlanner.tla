----------------------------- MODULE MCPlanner -----------------------------
(***************************************************************************)
(* Two kinds of scenarios.  On the maps of four nodes with lanes of length *)
(* one or three, the display asks for any one route.  On three fixed maps, *)
(* one of them with h's base cut off, a mission of a reconnaissance r, two *)
(* inspections i and j and a suppression s (after i, g only) is planned    *)
(* under every request for one or two of the resources.                    *)
(***************************************************************************)
EXTENDS TeamPlanner

CONSTANTS u, v, g, h, r, i, j, s

MCNodes == 1..4
MCAgents == {u, v, g, h}
MCRank == [a \in MCAgents |-> CASE a = g -> 1 [] a = h -> 2 [] a = u -> 3 [] a = v -> 4]
MCTasks == {r, i, j, s}
MCPreds == [t \in MCTasks |-> IF t = s THEN {i} ELSE {}]
MCEligible == [t \in MCTasks |-> CASE t = r -> {u, v} [] t = s -> {g} [] OTHER -> {g, h}]
MCHome == [a \in MCAgents |-> CASE a \in {u, g} -> 1 [] OTHER -> 2]
MCSite == [t \in MCTasks |-> CASE t = r -> 2 [] t \in {i, s} -> 3 [] t = j -> 4]
MCFlight == [a \in MCNodes |-> [b \in MCNodes |-> IF a = b THEN 0 ELSE 2]]
MCDuration == [t \in MCTasks |-> IF t = r THEN 4 ELSE 1]

LanesOf(f) == [l \in Links |-> IF l \in DOMAIN f THEN f[l] ELSE 0]
Chain == LanesOf([l \in {{1, 2}, {2, 3}, {3, 4}} |-> 1])
Square == LanesOf([l \in {{1, 3}, {2, 4}, {3, 4}, {1, 2}} |->
                    IF l \in {{1, 3}, {2, 4}} THEN 1 ELSE 3])
CutOff == LanesOf([l \in {{1, 3}, {3, 4}} |-> 1])

Free == [exact |-> NoCount, minimum |-> NoCount, maximum |-> NoCount]
Counts ==
  {Free} \cup {[Free EXCEPT !.exact = k] : k \in {1, 3}}
         \cup {[Free EXCEPT !.minimum = 1], [Free EXCEPT !.maximum = 1]}

Requests ==
  {q \in [uav : {Free, [Free EXCEPT !.maximum = 1]}, ugv : Counts,
          required : {{}, {h}, {u}, {g, h}}, excluded : {{}, {h}}] :
     q.required \cap q.excluded = {}}

Displays == [lanes : [Links -> {0, 1, 3}], tasks : {{}}, request : {NoRequest}]
Missions == [lanes : {Chain, Square, CutOff}, tasks : {{r, i, j}, {i, j, s}},
             request : Requests]
MCScenarios == Displays \cup Missions

=============================================================================
