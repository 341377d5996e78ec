---------------------------- MODULE PlannerProofs ----------------------------
(***************************************************************************)
(* What routes and plans keep, for any map, fleet, mission and request:    *)
(* routes are shortest, no wave of a plan asks for a leg that does not     *)
(* exist, a rehearsal leaves no task over that somebody could do, and the  *)
(* plan that is published can be carried out and is what was asked for.    *)
(*                                                                         *)
(* Induction is over sets of numbers: the least number that is not in a    *)
(* set (IntervalInduction).  How far two nodes are apart is stated without *)
(* ways, by the gauges of a map: heights of the nodes of which no lane     *)
(* climbs more than its length.  A distance is the greatest difference in  *)
(* height any gauge has.  So what is known of distances (they are sums     *)
(* along ways, they obey the triangle inequality) needs no ways to be      *)
(* joined.  Likewise a node is out of reach if a set that lanes do not     *)
(* leave lies between.                                                     *)
(***************************************************************************)
EXTENDS TeamPlanner, FiniteSetTheorems, FunctionTheorems, WellFoundedInduction, TLAPS

-----------------------------------------------------------------------------
(* Numbers.                                                                *)

Smaller == {p \in Nat \X Nat : p[1] < p[2]}

\* A set of numbers has a least one.
LEMMA Least ==
  ASSUME NEW S \in SUBSET Nat, S # {}
  PROVE  \E n \in S : \A m \in S : n <= m
<1>1. IsWellFoundedOn(Smaller, Nat)
  BY NatLessThanWellFounded DEF OpToRel, Smaller
<1>2. PICK n \in S : \A m \in S : <<m, n>> \notin Smaller
  BY <1>1, WFMin
<1>3. ASSUME NEW m \in S
      PROVE  n <= m
  <2>1. <<m, n>> \notin Smaller /\ <<m, n>> \in Nat \X Nat
    BY <1>2
  <2> QED  BY <2>1 DEF Smaller
<1> QED  BY <1>3

\* A set that holds the first number of an interval, and with a number of it
\* the next one, holds the interval.
LEMMA IntervalInduction ==
  ASSUME NEW a \in Nat, NEW b \in Nat, NEW S, a \in S,
         \A n \in a..b : n < b /\ n \in S => n + 1 \in S
  PROVE  a..b \subseteq S
<1> SUFFICES ASSUME NEW k \in a..b, k \notin S
             PROVE  FALSE
  OBVIOUS
<1> DEFINE Missing == {n \in a..b : n \notin S}
<1>1. Missing \in SUBSET Nat /\ k \in Missing
  OBVIOUS
<1>2. PICK n \in Missing : \A m \in Missing : n <= m
  <2> HIDE DEF Missing
  <2> QED  BY <1>1, Least
<1>3. n # a /\ n - 1 \in a..b /\ n - 1 \notin Missing
  BY <1>2
<1> QED  BY <1>3

\* A finite set of numbers has a greatest one.
LEMMA MaxOfFinite ==
  ASSUME NEW S \in SUBSET Nat, IsFiniteSet(S), S # {}
  PROVE  Max(S) \in S /\ \A n \in S : n <= Max(S)
<1> DEFINE N == Cardinality(S)
<1>1. PICK f \in [1..N -> S] : \A x \in S : \E i \in 1..N : f[i] = x
  BY FS_CardinalityType DEF ExistsBijection, Bijection, Surjection
<1>2. N \in Nat
  BY FS_CardinalityType
<1>3. \A i \in 1..N : f[i] \in Nat
  BY <1>1
<1> HIDE DEF N
<1> DEFINE Bounds == {n \in Nat : \A x \in S : x <= n}
           Up(n, b) == \A i \in 1..N : i <= n => f[i] <= b
           Bounded == {n \in 0..N : \E b \in Nat : Up(n, b)}
<1>4. 0 \in Bounded
  <2>1. Up(0, 0)  BY <1>2
  <2> QED  BY <2>1, <1>2
<1>5. ASSUME NEW n \in 0..N, n < N, n \in Bounded
      PROVE  n + 1 \in Bounded
  <2>1. PICK b \in Nat : Up(n, b)
    BY <1>5
  <2>2. n + 1 \in 1..N /\ f[n + 1] \in Nat
    BY <1>2, <1>3, <1>5
  <2> DEFINE c == IF f[n + 1] <= b THEN b ELSE f[n + 1]
  <2>3. c \in Nat /\ f[n + 1] <= c /\ b <= c
    BY <2>2
  <2>4. Up(n + 1, c)
    <3> SUFFICES ASSUME NEW i \in 1..N, i <= n + 1
                 PROVE  f[i] <= c
      OBVIOUS
    <3> HIDE DEF c
    <3>1. CASE i = n + 1  BY <3>1, <2>3
    <3>2. CASE i <= n     BY <3>2, <2>1, <2>3, <1>3
    <3> QED  BY <3>1, <3>2, <1>5, <1>2
  <2> HIDE DEF c, Up
  <2> QED  BY <2>3, <2>4, <2>2, <1>2
<1>6. N \in Bounded
  <2> HIDE DEF Bounded
  <2>1. 0..N \subseteq Bounded
    BY <1>2, <1>4, <1>5, IntervalInduction
  <2> QED  BY <2>1, <1>2
<1>7. PICK b \in Nat : Up(N, b)
  BY <1>6
<1>8. Bounds \in SUBSET Nat /\ b \in Bounds
  BY <1>7, <1>1
<1>9. PICK m \in Bounds : \A n \in Bounds : m <= n
  <2> HIDE DEF Bounds
  <2> QED  BY <1>8, Least
<1>10. m \in S
  <2> SUFFICES ASSUME m \notin S
               PROVE  FALSE
    OBVIOUS
  <2>1. \A x \in S : x \in Nat /\ x < m
    BY <1>9
  <2>2. m \in Nat /\ m # 0
    <3>1. PICK x \in S : TRUE  OBVIOUS
    <3>2. x < m /\ x \in Nat   BY <2>1, <3>1
    <3>3. m \in Nat           BY <1>9
    <3> QED  BY <3>2, <3>3
  <2>3. m - 1 \in Bounds
    BY <2>1, <2>2
  <2> QED  BY <2>2, <2>3, <1>9
<1>11. \A x \in S : x \in Nat /\ x <= m
  BY <1>9
<1>12. m \in Nat
  BY <1>10
<1> QED  BY <1>10, <1>11, <1>12 DEF Max

-----------------------------------------------------------------------------
(* Maps.                                                                   *)

LanesOK == lanes \in [Links -> Nat]

Gauges ==
  {f \in [Nodes -> Nat] :
     \A n, m \in Nodes : Lane(n, m) > 0 => f[m] <= f[n] + Lane(n, m)}
Enclosures ==
  {S \in SUBSET Nodes : \A n \in S, m \in Nodes : Lane(n, m) > 0 => m \in S}

\* A lane has a length, the same in both directions.
LEMMA LaneType ==
  ASSUME LanesOK, NEW a \in Nodes, NEW b \in Nodes
  PROVE  Lane(a, b) \in Nat /\ Lane(a, b) = Lane(b, a) /\ Lane(a, a) = 0
<1>1. CASE a = b
  BY <1>1 DEF Lane
<1>2. CASE a # b
  <2>1. IsFiniteSet({a}) /\ Cardinality({a}) = 1
    BY FS_Singleton
  <2>2. Cardinality({a} \cup {b}) = 2
    BY <1>2, <2>1, FS_AddElement
  <2>3. {a, b} \in Links /\ {a, b} = {b, a}
    <3>1. {a} \cup {b} = {a, b}  OBVIOUS
    <3> QED  BY <2>2, <3>1 DEF Links, Pairs
  <2> QED  BY <1>2, <2>3 DEF Lane, LanesOK
<1> QED  BY <1>1, <1>2

-----------------------------------------------------------------------------
(* A search under way.                                                     *)

\* The node was taken from the heap with its distance.
Settled(n) == <<dist[n], n>> \notin queue

HeapOK ==
  /\ dist \in [DOMAIN dist -> Nat] /\ DOMAIN dist \subseteq Nodes
  /\ trip[1] \in DOMAIN dist /\ dist[trip[1]] = 0
  /\ queue \subseteq Nat \X Nodes
  /\ \A e \in queue : e[2] \in DOMAIN dist /\ dist[e[2]] <= e[1]
  /\ trip[2] \in DOMAIN dist => ~ Settled(trip[2])
  /\ \A n \in DOMAIN dist : Settled(n) =>
       /\ \A e \in queue : dist[n] <= e[1]
       /\ \A m \in Nodes : Lane(n, m) > 0 =>
            m \in DOMAIN dist /\ dist[m] <= dist[n] + Lane(n, m)

TreeOK ==
  /\ DOMAIN previous = DOMAIN dist \ {trip[1]}
  /\ \A n \in DOMAIN previous :
       /\ previous[n] \in DOMAIN dist /\ Settled(previous[n])
       /\ Lane(previous[n], n) > 0
       /\ dist[n] = dist[previous[n]] + Lane(previous[n], n)

\* What was reached is within the distance it has.
ReachOK ==
  /\ \A f \in Gauges : \A n \in DOMAIN dist : f[n] <= f[trip[1]] + dist[n]
  /\ \A S \in Enclosures : trip[1] \in S => DOMAIN dist \subseteq S

SearchOK ==
  /\ trip = NoTrip => queue = {}
  /\ trip # NoTrip => trip \in Nodes \X Nodes /\ HeapOK /\ TreeOK /\ ReachOK

-----------------------------------------------------------------------------
(* Answers.                                                                *)

\* d is the distance of two nodes.
IsDistance(a, b, d) ==
  /\ \E f \in Gauges : f[b] = f[a] + d
  /\ \A f \in Gauges : f[b] <= f[a] + d

Separated(a, b) == \E S \in Enclosures : a \in S /\ b \notin S

\* w is a way along lanes that is d long.
IsWay(w, a, b, d) ==
  /\ w \in Ways /\ w[1] = a /\ w[Len(w)] = b /\ OverLanes(w)
  /\ \E g \in [1..Len(w) -> Nat] :
       /\ g[1] = 0 /\ g[Len(w)] = d
       /\ \A i \in 1..(Len(w) - 1) : g[i + 1] = g[i] + Lane(w[i], w[i + 1])

RouteOK(a, b, r) ==
  IF r = Unreachable THEN Separated(a, b)
  ELSE /\ r \in [length : Nat, way : Seq(Nodes)]
       /\ IsDistance(a, b, r.length) /\ ~ Separated(a, b)
       /\ IsWay(r.way, a, b, r.length)

RoutesOK ==
  /\ DOMAIN routes \subseteq Nodes \X Nodes
  /\ \A p \in DOMAIN routes : RouteOK(p[1], p[2], routes[p])

RoutesInv == LanesOK /\ SearchOK /\ RoutesOK

\* The entry that is taken from the heap is one of the least.
LEMMA TopIsLeast ==
  ASSUME queue \subseteq Nat \X Nodes, queue # {}
  PROVE  Top \in queue /\ \A e \in queue : Top[1] <= e[1]
<1>9. \A e \in queue : e = <<e[1], e[2]>> /\ e[1] \in Nat /\ e[2] \in Nat
  <2> TAKE e \in queue
  <2>1. e \in Nat \X Nodes /\ Nodes \subseteq Nat
    BY RoutesAssumption
  <2>2. e[1] \in Nat /\ e[2] \in Nodes /\ e = <<e[1], e[2]>>
    BY <2>1
  <2> QED  BY <2>1, <2>2
<1> DEFINE Keys == {n \in Nat : \E e \in queue : e[1] = n}
<1>1. Keys \in SUBSET Nat /\ Keys # {}
  BY <1>9
<1>2. PICK k \in Keys : \A n \in Keys : k <= n
  <2> HIDE DEF Keys
  <2> QED  BY <1>1, Least
<1> DEFINE Names == {n \in Nat : <<k, n>> \in queue}
<1>3. Names \in SUBSET Nat /\ Names # {}
  BY <1>9, <1>2
<1>4. PICK n \in Names : \A m \in Names : n <= m
  <2> HIDE DEF Names
  <2> QED  BY <1>3, Least
<1>5. <<k, n>> \in queue /\ k \in Nat /\ n \in Nat
  BY <1>4
<1>6. ASSUME NEW e \in queue
      PROVE  k < e[1] \/ (k = e[1] /\ n <= e[2])
  <2>1. e = <<e[1], e[2]>> /\ e[1] \in Nat /\ e[2] \in Nat
    BY <1>9
  <2>2. k <= e[1]
    BY <1>2, <2>1
  <2>3. CASE k = e[1]
    <3>1. e[2] \in Names
      BY <2>1, <2>3
    <3> QED  BY <3>1, <2>3, <1>4
  <2> QED  BY <2>1, <2>2, <2>3, <1>5
<1> DEFINE IsTop(e) == \A f \in queue : e[1] < f[1] \/ (e[1] = f[1] /\ e[2] <= f[2])
<1>7. IsTop(<<k, n>>)
  BY <1>6
<1>8. Top \in queue /\ IsTop(Top)
  <2>1. Top = CHOOSE e \in queue : IsTop(e)
    BY DEF Top
  <2> HIDE DEF IsTop
  <2> QED  BY <1>5, <1>7, <2>1
<1> QED
  <2>1. ASSUME NEW e \in queue
        PROVE  Top[1] <= e[1]
    <3>1. Top[1] \in Nat /\ e[1] \in Nat
      BY <1>8
    <3> QED  BY <1>8, <3>1
  <2> QED  BY <1>8, <2>1

\* Nothing that is said of the map changes while the lanes are as they were.
LEMMA SameMap ==
  ASSUME UNCHANGED lanes
  PROVE  /\ LanesOK' <=> LanesOK
         /\ \A a, b : Lane(a, b)' = Lane(a, b)
         /\ Gauges' = Gauges /\ Enclosures' = Enclosures
         /\ \A a, b, r : RouteOK(a, b, r)' <=> RouteOK(a, b, r)
<1>1. \A a, b : Lane(a, b)' = Lane(a, b)
  BY DEF Lane
<1>2. Gauges' = Gauges /\ Enclosures' = Enclosures
  BY <1>1 DEF Gauges, Enclosures
<1>3. ASSUME NEW a, NEW b, NEW d
      PROVE  /\ IsDistance(a, b, d)' <=> IsDistance(a, b, d)
             /\ Separated(a, b)' <=> Separated(a, b)
  BY <1>2 DEF IsDistance, Separated
<1>4. ASSUME NEW w, NEW a, NEW b, NEW d
      PROVE  IsWay(w, a, b, d)' <=> IsWay(w, a, b, d)
  BY <1>1 DEF IsWay, OverLanes
<1>5. ASSUME NEW a, NEW b, NEW r
      PROVE  RouteOK(a, b, r)' <=> RouteOK(a, b, r)
  BY <1>3, <1>4 DEF RouteOK
<1> QED  BY <1>1, <1>2, <1>5 DEF LanesOK

\* A search begins at its source.
LEMMA AskStep ==
  ASSUME LanesOK, NEW src \in Nodes, NEW dst \in Nodes, Ask(src, dst)
  PROVE  SearchOK'
<1>1. /\ trip' = <<src, dst>> /\ trip'[1] = src /\ trip'[2] = dst
      /\ dist' = [n \in {src} |-> 0] /\ DOMAIN dist' = {src} /\ dist'[src] = 0
      /\ DOMAIN previous' = {} /\ queue' = {<<0, src>>} /\ UNCHANGED lanes
  BY DEF Ask, NoSearch
<1>2. trip' # NoTrip /\ trip' \in Nodes \X Nodes
  BY <1>1, RoutesAssumption
<1>3. HeapOK'
  BY <1>1 DEF HeapOK, Settled
<1>4. TreeOK'
  BY <1>1 DEF TreeOK
<1>5. ReachOK'
  <2>1. \A f \in Gauges' : f[src] \in Nat
    BY DEF Gauges
  <2>2. \A f \in Gauges' : \A n \in DOMAIN dist' : f[n] <= f[trip'[1]] + dist'[n]
    BY <1>1, <2>1
  <2> QED  BY <1>1, <2>2 DEF ReachOK
<1> QED  BY <1>2, <1>3, <1>4, <1>5 DEF SearchOK

\* What a search knows when there is an entry to take.
LEMMA Searching ==
  ASSUME SearchOK, LanesOK, queue # {}
  PROVE  /\ trip # NoTrip /\ trip \in Nodes \X Nodes /\ HeapOK /\ TreeOK /\ ReachOK
         /\ Top \in queue /\ Top = <<Top[1], Top[2]>> /\ Top[1] \in Nat /\ Top[2] \in Nodes
         /\ Top[2] \in DOMAIN dist /\ dist[Top[2]] <= Top[1]
         /\ \A e \in queue : Top[1] <= e[1]
         /\ \A n \in DOMAIN dist : dist[n] \in Nat /\ n \in Nodes
<1>1. trip # NoTrip /\ trip \in Nodes \X Nodes /\ HeapOK /\ TreeOK /\ ReachOK
  BY DEF SearchOK
<1>2. Top \in queue /\ \A e \in queue : Top[1] <= e[1]
  BY <1>1, TopIsLeast DEF HeapOK
<1>3. Top \in Nat \X Nodes
  BY <1>1, <1>2 DEF HeapOK
<1> QED  BY <1>1, <1>2, <1>3 DEF HeapOK

\* An entry that is dropped is no node's distance.
LEMMA SkipStaleStep ==
  ASSUME SearchOK, LanesOK, SkipStale
  PROVE  SearchOK'
<1>1. /\ queue # {} /\ Top[1] > dist[Top[2]] /\ queue' = queue \ {Top}
      /\ UNCHANGED <<lanes, trip, dist, previous>>
  BY DEF SkipStale
<1>2. /\ trip # NoTrip /\ HeapOK /\ TreeOK /\ ReachOK /\ trip \in Nodes \X Nodes
      /\ Top[1] \in Nat /\ \A n \in DOMAIN dist : dist[n] \in Nat
      /\ Top[2] \in DOMAIN dist
  BY <1>1, Searching
<1>3. \A n \in DOMAIN dist : Settled(n)' <=> Settled(n)
  <2> TAKE n \in DOMAIN dist
  <2>1. <<dist[n], n>> # Top
    BY <1>1, <1>2
  <2> QED  BY <1>1, <2>1 DEF Settled
<1>4. HeapOK'
  <2>1. \A n \in DOMAIN dist : Settled(n)' =>
          /\ \A e \in queue' : dist[n] <= e[1]
          /\ \A m \in Nodes : Lane(n, m) > 0 =>
               m \in DOMAIN dist /\ dist[m] <= dist[n] + Lane(n, m)
    BY <1>1, <1>2, <1>3 DEF HeapOK
  <2>2. trip[2] \in DOMAIN dist => ~ Settled(trip[2])'
    BY <1>1, <1>2, <1>3 DEF HeapOK
  <2>3. queue' \subseteq queue
    BY <1>1
  <2> QED  BY <1>1, <1>2, <2>1, <2>2, <2>3, SameMap DEF HeapOK, Settled
<1>5. TreeOK'
  BY <1>1, <1>2, <1>3, SameMap DEF TreeOK, Settled
<1>6. ReachOK'
  BY <1>1, <1>2, SameMap DEF ReachOK
<1> QED  BY <1>1, <1>2, <1>4, <1>5, <1>6 DEF SearchOK

\* The neighbours of the node that is taken get the distance over it.
LEMMA RelaxStep ==
  ASSUME SearchOK, LanesOK, Relax
  PROVE  SearchOK'
<1>0. PICK n \in Nodes : n = Top[2] /\ n \in DOMAIN dist
  BY Searching DEF Relax
<1> DEFINE nearer == Shortened(n, Top[1])
           over(m) == dist[n] + Lane(n, m)
<1>1. /\ trip # NoTrip /\ HeapOK /\ TreeOK /\ ReachOK /\ trip \in Nodes \X Nodes
      /\ Top \in queue /\ Top = <<Top[1], n>> /\ n \in DOMAIN dist /\ n # trip[2]
      /\ \A e \in queue : Top[1] <= e[1]
      /\ \A m \in DOMAIN dist : dist[m] \in Nat /\ m \in Nodes
  BY <1>0, Searching DEF Relax
<1>2. Top[1] = dist[n] /\ n \in Nodes /\ dist[n] \in Nat
  <2>1. queue # {} /\ Top[1] <= dist[n]
    BY <1>0 DEF Relax
  <2>2. Top[1] \in Nat /\ dist[n] \in Nat /\ dist[n] <= Top[1] /\ n \in Nodes
    BY <1>0, <2>1, Searching
  <2> QED  BY <2>1, <2>2
<1>3. \A m \in Nodes : Lane(n, m) \in Nat /\ over(m) \in Nat
  BY <1>2, LaneType
<1>4. /\ nearer \subseteq Nodes
      /\ \A m \in Nodes : m \in nearer <=>
           Lane(n, m) > 0 /\ (m \in DOMAIN dist => over(m) < dist[m])
  BY <1>2 DEF Shortened
<1>5. /\ dist' = [m \in DOMAIN dist \cup nearer |-> IF m \in nearer THEN over(m) ELSE dist[m]]
      /\ previous' = [m \in DOMAIN previous \cup nearer |->
                        IF m \in nearer THEN n ELSE previous[m]]
      /\ queue' = (queue \ {Top}) \cup {<<over(m), m>> : m \in nearer}
      /\ UNCHANGED <<lanes, trip>>
  BY <1>0, <1>2 DEF Relax
<1> HIDE DEF nearer, over
<1>6. n \notin nearer /\ trip[1] \notin nearer
  <2>1. Lane(n, n) = 0
    BY <1>2, LaneType
  <2>2. trip[1] \in DOMAIN dist /\ dist[trip[1]] = 0 /\ trip[1] \in Nodes
    BY <1>1 DEF HeapOK
  <2> QED  BY <1>3, <1>4, <2>1, <2>2
<1>7. \A m \in DOMAIN dist : m \in DOMAIN dist' /\ dist'[m] \in Nat /\ dist'[m] <= dist[m]
  BY <1>1, <1>3, <1>4, <1>5
<1>8. dist' \in [DOMAIN dist' -> Nat] /\ DOMAIN dist' \subseteq Nodes
  BY <1>1, <1>3, <1>4, <1>5
<1>9. ASSUME NEW m \in DOMAIN dist
      PROVE  Settled(m) => m \notin nearer /\ dist'[m] = dist[m] /\ Settled(m)'
  <2> SUFFICES ASSUME Settled(m)
               PROVE  m \notin nearer /\ dist'[m] = dist[m] /\ Settled(m)'
    OBVIOUS
  <2>1. dist[m] <= dist[n]
    BY <1>1, <1>2 DEF HeapOK
  <2>2. m \notin nearer
    BY <1>1, <1>2, <1>3, <1>4, <2>1 DEF over
  <2>3. dist'[m] = dist[m]
    BY <1>5, <2>2
  <2>4. <<dist[m], m>> \notin queue'
    BY <1>5, <2>2 DEF Settled
  <2> QED  BY <2>2, <2>3, <2>4 DEF Settled
<1>10. ASSUME NEW m \in DOMAIN dist', Settled(m)', m # n
       PROVE  m \in DOMAIN dist /\ Settled(m)
  <2>1. m \notin nearer
    BY <1>5, <1>10 DEF Settled
  <2>2. m \in DOMAIN dist /\ dist'[m] = dist[m]
    BY <1>5, <2>1
  <2>3. <<dist[m], m>> \notin queue \ {Top} /\ <<dist[m], m>> # Top
    BY <1>1, <1>5, <1>10, <2>2 DEF Settled
  <2> QED  BY <2>2, <2>3 DEF Settled
<1>11. Settled(n)' /\ dist'[n] = dist[n]
  <2>1. dist'[n] = dist[n]
    BY <1>1, <1>5, <1>6
  <2>2. <<dist[n], n>> = Top
    BY <1>1, <1>2
  <2>3. <<dist[n], n>> \notin queue'
    BY <1>5, <1>6, <2>2
  <2> QED  BY <2>1, <2>3 DEF Settled
<1>12. HeapOK'
  <2>1. trip[1] \in DOMAIN dist' /\ dist'[trip[1]] = 0
    BY <1>1, <1>5, <1>6 DEF HeapOK
  <2>2. queue' \subseteq Nat \X Nodes
    BY <1>1, <1>3, <1>4, <1>5 DEF HeapOK
  <2>3. ASSUME NEW e \in queue'
        PROVE  e[2] \in DOMAIN dist' /\ dist'[e[2]] <= e[1] /\ dist[n] <= e[1]
    <3>1. CASE e \in queue
      <4>1. e[2] \in DOMAIN dist /\ dist[e[2]] <= e[1] /\ e[1] \in Nat
        BY <1>1, <3>1 DEF HeapOK
      <4> QED  BY <1>1, <1>2, <1>7, <3>1, <4>1
    <3>2. CASE e \notin queue
      <4>1. PICK m \in nearer : e = <<over(m), m>>
        BY <1>5, <3>2
      <4>2. e[1] = over(m) /\ e[2] = m /\ m \in DOMAIN dist' /\ dist'[m] = over(m)
        BY <1>5, <4>1
      <4>3. dist[n] <= over(m) /\ over(m) \in Nat
        BY <1>2, <1>3, <1>4, <4>1 DEF over
      <4> QED  BY <4>2, <4>3
    <3> QED  BY <3>1, <3>2
  <2>4. ASSUME NEW d, d = trip[2], d \in DOMAIN dist'
        PROVE  ~ Settled(d)'
    BY <1>1, <1>5, <1>10, <2>4 DEF HeapOK
  <2>5. ASSUME NEW m \in DOMAIN dist', Settled(m)'
        PROVE  /\ \A e \in queue' : dist'[m] <= e[1]
               /\ \A k \in Nodes : Lane(m, k) > 0 =>
                    k \in DOMAIN dist' /\ dist'[k] <= dist'[m] + Lane(m, k)
    <3>1. CASE m = n
      <4>1. ASSUME NEW k \in Nodes, Lane(n, k) > 0
            PROVE  k \in DOMAIN dist' /\ dist'[k] <= over(k)
        BY <1>1, <1>3, <1>4, <1>5, <4>1
      <4> QED  BY <1>11, <2>3, <3>1, <4>1 DEF over
    <3>2. CASE m # n
      <4>1. m \in DOMAIN dist /\ Settled(m) /\ dist'[m] = dist[m]
        BY <1>9, <1>10, <2>5, <3>2
      <4>2. dist[m] <= dist[n] /\ dist[m] \in Nat
        BY <1>1, <1>2, <4>1 DEF HeapOK
      <4>3. \A e \in queue' : dist'[m] <= e[1]
        <5> TAKE e \in queue'
        <5>1. dist[n] <= e[1] /\ e[1] \in Nat
          BY <2>2, <2>3
        <5> QED  BY <1>2, <4>1, <4>2, <5>1
      <4>4. ASSUME NEW k \in Nodes, Lane(m, k) > 0
            PROVE  k \in DOMAIN dist' /\ dist'[k] <= dist'[m] + Lane(m, k)
        <5>1. k \in DOMAIN dist /\ dist[k] <= dist[m] + Lane(m, k)
          BY <1>1, <4>1, <4>4 DEF HeapOK
        <5>2. Lane(m, k) \in Nat
          BY <1>1, <4>1, LaneType
        <5> QED  BY <1>1, <1>7, <4>1, <4>2, <5>1, <5>2
      <4> QED  BY <4>3, <4>4
    <3> QED  BY <3>1, <3>2
  <2>6. \A a, b : Lane(a, b)' = Lane(a, b)
    BY <1>5, SameMap
  <2> QED  BY <1>5, <1>8, <2>1, <2>2, <2>3, <2>4, <2>5, <2>6 DEF HeapOK
<1>13. TreeOK'
  <2>1. DOMAIN previous' = DOMAIN dist' \ {trip[1]}
    BY <1>1, <1>5, <1>6 DEF TreeOK
  <2>2. ASSUME NEW m \in DOMAIN previous'
        PROVE  /\ previous'[m] \in DOMAIN dist' /\ Settled(previous[m])'
               /\ Lane(previous'[m], m) > 0
               /\ dist'[m] = dist'[previous'[m]] + Lane(previous'[m], m)
    <3>1. CASE m \in nearer
      <4>1. previous'[m] = n /\ dist'[m] = over(m)
        BY <1>5, <3>1
      <4>2. n \in DOMAIN dist'
        BY <1>1, <1>5
      <4> QED  BY <1>4, <1>11, <3>1, <4>1, <4>2 DEF over, Settled
    <3>2. CASE m \notin nearer
      <4>1. m \in DOMAIN previous /\ previous'[m] = previous[m] /\ dist'[m] = dist[m]
        BY <1>1, <1>5, <3>2 DEF TreeOK
      <4>2. previous[m] \in DOMAIN dist /\ Settled(previous[m])
        BY <1>1, <4>1 DEF TreeOK
      <4>3. PICK q \in DOMAIN dist : q = previous[m] /\ Settled(q)
        BY <4>2
      <4>4. dist'[q] = dist[q] /\ Settled(q)' /\ q \in DOMAIN dist'
        BY <1>7, <1>9, <4>3
      <4> QED  BY <1>1, <4>1, <4>3, <4>4 DEF TreeOK, Settled
    <3> QED  BY <3>1, <3>2
  <2>3. \A a, b : Lane(a, b)' = Lane(a, b)
    BY <1>5, SameMap
  <2> QED  BY <1>5, <2>1, <2>2, <2>3 DEF TreeOK
<1>14. ReachOK'
  <2>1. ASSUME NEW f \in Gauges, NEW m \in DOMAIN dist'
        PROVE  f[m] <= f[trip[1]] + dist'[m]
    <3>1. f[m] \in Nat /\ f[n] \in Nat /\ f[trip[1]] \in Nat
      BY <1>1, <1>2, <1>8 DEF Gauges
    <3>2. CASE m \in nearer
      <4>1. f[m] <= f[n] + Lane(n, m) /\ m \in Nodes
        BY <1>2, <1>4, <3>2 DEF Gauges
      <4>2. f[n] <= f[trip[1]] + dist[n]
        BY <1>1 DEF ReachOK
      <4>3. dist'[m] = dist[n] + Lane(n, m)
        BY <1>5, <3>2 DEF over
      <4> QED  BY <1>2, <1>3, <3>1, <4>1, <4>2, <4>3
    <3>3. CASE m \notin nearer
      BY <1>1, <1>5, <3>3 DEF ReachOK
    <3> QED  BY <3>2, <3>3
  <2>2. ASSUME NEW S \in Enclosures, trip[1] \in S
        PROVE  DOMAIN dist' \subseteq S
    <3>1. DOMAIN dist \subseteq S
      BY <1>1, <2>2 DEF ReachOK
    <3>2. nearer \subseteq S
      BY <1>1, <1>4, <3>1 DEF Enclosures
    <3> QED  BY <1>5, <3>1, <3>2
  <2> QED  BY <1>5, <2>1, <2>2, SameMap DEF ReachOK
<1> QED  BY <1>1, <1>5, <1>12, <1>13, <1>14 DEF SearchOK

-----------------------------------------------------------------------------
(* The way that is found.                                                  *)

\* BackFrom is what its definition says.
LEMMA BackUnrolled ==
  ASSUME NEW n
  PROVE  /\ DOMAIN BackFrom(n) = 1..Cardinality(Nodes)
         /\ \A i \in 1..Cardinality(Nodes) :
              BackFrom(n)[i] =
                IF i = 1 THEN n
                ELSE IF BackFrom(n)[i-1] \in DOMAIN previous
                     THEN previous[BackFrom(n)[i-1]] ELSE trip[1]
<1> DEFINE N == Cardinality(Nodes)
           Next(b) == IF b \in DOMAIN previous THEN previous[b] ELSE trip[1]
           IsBack(k, f) == f = [i \in 1..k |-> IF i = 1 THEN n ELSE Next(f[i-1])]
           Made == {k \in 0..N : \E f : IsBack(k, f)}
<1>1. N \in Nat
  BY RoutesAssumption, FS_CardinalityType
<1> HIDE DEF N, Next
<1>2. 0 \in Made
  <2>1. IsBack(0, <<>>)  OBVIOUS
  <2> HIDE DEF IsBack
  <2> QED  BY <1>1, <2>1
<1>3. ASSUME NEW k \in 0..N, k < N, k \in Made
      PROVE  k + 1 \in Made
  <2>1. PICK f : IsBack(k, f)
    BY <1>3
  <2> DEFINE g == [i \in 1..(k + 1) |->
                     IF i <= k THEN f[i] ELSE IF i = 1 THEN n ELSE Next(f[k])]
  <2>2. IsBack(k + 1, g)
    BY <2>1, <1>1
  <2> HIDE DEF IsBack
  <2> QED  BY <2>2, <1>1, <1>3
<1>4. N \in Made
  <2> HIDE DEF Made
  <2>1. 0..N \subseteq Made
    BY <1>1, <1>2, <1>3, IntervalInduction
  <2> QED  BY <1>1, <2>1
<1>5. PICK f : IsBack(N, f)
  BY <1>4
<1>6. BackFrom(n) = CHOOSE g : IsBack(N, g)
  BY DEF BackFrom, N, Next
<1>7. IsBack(N, BackFrom(n))
  <2> HIDE DEF IsBack
  <2> QED  BY <1>5, <1>6
<1> QED
  <2> DEFINE b == BackFrom(n)
  <2>1. b = [i \in 1..N |-> IF i = 1 THEN n ELSE Next(b[i-1])]
    BY <1>7
  <2> HIDE DEF b
  <2>2. DOMAIN b = 1..N /\ \A i \in 1..N : b[i] = IF i = 1 THEN n ELSE Next(b[i-1])
    BY <2>1
  <2> QED  BY <2>2 DEF b, N, Next

\* Up to the source, each node back is nearer by the lane between.
LEMMA BackIsChain ==
  ASSUME SearchOK, LanesOK, trip # NoTrip, NEW n \in DOMAIN dist,
         NEW k \in 1..Cardinality(Nodes),
         \A i \in 1..(k - 1) : BackFrom(n)[i] # trip[1]
  PROVE  LET b == BackFrom(n) IN
         /\ b[1] = n
         /\ \A i \in 1..k : b[i] \in DOMAIN dist /\ b[i] \in Nodes /\ dist[b[i]] \in Nat
         /\ \A i \in 1..(k - 1) :
              Lane(b[i + 1], b[i]) > 0 /\ dist[b[i]] = dist[b[i + 1]] + Lane(b[i + 1], b[i])
         /\ \A i, j \in 1..k : i < j => dist[b[j]] < dist[b[i]]
<1> DEFINE b == BackFrom(n)
<1>1. Cardinality(Nodes) \in Nat
  BY RoutesAssumption, FS_CardinalityType
<1>2. b[1] = n /\ \A i \in 1..(k - 1) :
        b[i + 1] = IF b[i] \in DOMAIN previous THEN previous[b[i]] ELSE trip[1]
  <2> USE BackUnrolled, <1>1
  <2>1. b[1] = n
    OBVIOUS
  <2>2. ASSUME NEW i \in 1..(k - 1)
        PROVE  b[i + 1] = IF b[i] \in DOMAIN previous THEN previous[b[i]] ELSE trip[1]
    <3>1. i + 1 \in 1..Cardinality(Nodes) /\ i + 1 # 1 /\ (i + 1) - 1 = i
      BY <1>1
    <3> QED  BY <3>1
  <2> QED  BY <2>1, <2>2
<1>3. HeapOK /\ TreeOK
  BY DEF SearchOK
<1>4. \A i \in 1..(k - 1) : b[i] # trip[1]
  OBVIOUS
<1> HIDE DEF b
<1>5. \A m \in DOMAIN dist : dist[m] \in Nat /\ m \in Nodes
  BY <1>3 DEF HeapOK
<1>6. ASSUME NEW i \in 1..(k - 1), b[i] \in DOMAIN dist
      PROVE  /\ b[i + 1] \in DOMAIN dist /\ Lane(b[i + 1], b[i]) > 0
             /\ dist[b[i]] = dist[b[i + 1]] + Lane(b[i + 1], b[i])
             /\ dist[b[i + 1]] < dist[b[i]]
  <2>1. b[i] \in DOMAIN previous /\ b[i + 1] = previous[b[i]]
    BY <1>2, <1>3, <1>4, <1>6 DEF TreeOK
  <2>2. /\ b[i + 1] \in DOMAIN dist /\ Lane(b[i + 1], b[i]) > 0
        /\ dist[b[i]] = dist[b[i + 1]] + Lane(b[i + 1], b[i])
    BY <1>3, <2>1 DEF TreeOK
  <2>3. Lane(b[i + 1], b[i]) \in Nat /\ dist[b[i + 1]] \in Nat
    BY <1>5, <1>6, <2>2, LaneType
  <2> QED  BY <2>2, <2>3
<1>7. \A i \in 1..k : b[i] \in DOMAIN dist
  <2> DEFINE S == {i \in 1..k : b[i] \in DOMAIN dist}
  <2>1. 1 \in S
    BY <1>2
  <2>2. \A i \in 1..k : i < k /\ i \in S => i + 1 \in S
    BY <1>6
  <2> HIDE DEF S
  <2>3. 1..k \subseteq S
    BY <2>1, <2>2, <1>1, IntervalInduction
  <2> QED  BY <2>3 DEF S
<1>8. ASSUME NEW i \in 1..k
      PROVE  \A j \in 1..k : i < j => dist[b[j]] < dist[b[i]]
  <2> DEFINE S == {j \in 1..k : i < j => dist[b[j]] < dist[b[i]]}
  <2>1. i \in S
    OBVIOUS
  <2>2. ASSUME NEW j \in i..k, j < k, j \in S
        PROVE  j + 1 \in S
    <3>1. /\ dist[b[j + 1]] < dist[b[j]] /\ j + 1 \in 1..k
          /\ dist[b[j + 1]] \in Nat /\ dist[b[j]] \in Nat /\ dist[b[i]] \in Nat
      BY <1>5, <1>6, <1>7, <2>2
    <3> QED  BY <2>2, <3>1
  <2> HIDE DEF S
  <2>3. i \in Nat /\ k \in Nat
    BY <1>1
  <2>4. \A j \in i..k : j < k /\ j \in S => j + 1 \in S
    BY <2>2
  <2>5. i..k \subseteq S
    BY <2>1, <2>3, <2>4, IntervalInduction
  <2> QED  BY <2>5 DEF S
<1> QED  BY <1>2, <1>5, <1>6, <1>7, <1>8 DEF b

\* The way back from a node that was reached comes to the source, and turned
\* round it is a way to the node that is as long as its distance.
LEMMA WayToIsWay ==
  ASSUME SearchOK, LanesOK, trip # NoTrip, NEW n \in DOMAIN dist
  PROVE  IsWay(WayTo(n), trip[1], n, dist[n]) /\ WayTo(n) \in Seq(Nodes)
<1> DEFINE N == Cardinality(Nodes)
           b == BackFrom(n)
           Home1(k) == b[k] = trip[1] /\ \A j \in 1..(k - 1) : b[j] # trip[1]
<1>1. N \in Nat /\ IsFiniteSet(Nodes)
  BY RoutesAssumption, FS_CardinalityType
<1>2. DOMAIN b = 1..N
  BY BackUnrolled
<1>3. trip[1] \in Nodes /\ dist[trip[1]] = 0
  BY DEF SearchOK, HeapOK
<1>4. N \in 1..N
  <2>1. N # 0
    BY <1>1, <1>3, FS_EmptySet
  <2> QED  BY <1>1, <2>1
<1>5. \E k \in 1..N : b[k] = trip[1]
  <2> SUFFICES ASSUME \A k \in 1..N : b[k] # trip[1]
               PROVE  FALSE
    OBVIOUS
  <2>1. /\ \A i \in 1..N : b[i] \in Nodes /\ dist[b[i]] \in Nat
        /\ \A i, j \in 1..N : i < j => dist[b[j]] < dist[b[i]]
    <3>1. \A i \in 1..(N - 1) : b[i] # trip[1]
      BY <1>1
    <3> QED  BY <1>4, <3>1, BackIsChain
  <2> DEFINE Others == Nodes \ {trip[1]}
  <2>2. IsFiniteSet(Others) /\ Cardinality(Others) = N - 1
    BY <1>1, <1>3, FS_RemoveElement
  <2>3. IsFiniteSet(1..N) /\ Cardinality(1..N) = N
    BY <1>1, FS_Interval
  <2> DEFINE f == [i \in 1..N |-> b[i]]
  <2>4. f \in [1..N -> Others]
    BY <2>1
  <2>5. PICK i, j \in 1..N : i # j /\ f[i] = f[j]
    <3>1. Cardinality(Others) < Cardinality(1..N)
      BY <1>1, <2>2, <2>3
    <3> HIDE DEF f, Others, N
    <3> QED  BY <2>2, <2>3, <2>4, <3>1, FS_PigeonHole
  <2>6. i < j \/ j < i
    BY <2>5
  <2>7. b[i] = b[j]
    BY <2>5
  <2> QED  BY <2>1, <2>6, <2>7
<1>6. PICK k \in 1..N : Home1(k)
  <2> DEFINE Homes == {k \in 1..N : b[k] = trip[1]}
  <2>1. Homes \in SUBSET Nat /\ Homes # {}
    BY <1>5
  <2>2. PICK k \in Homes : \A m \in Homes : k <= m
    <3> HIDE DEF Homes
    <3> QED  BY <2>1, Least
  <2>3. \A j \in 1..(k - 1) : b[j] # trip[1]
    <3> TAKE j \in 1..(k - 1)
    <3>1. j \in 1..N /\ ~ (k <= j)
      BY <1>1, <2>2
    <3> QED  BY <2>2, <3>1
  <2> QED  BY <2>2, <2>3
<1> DEFINE steps == CHOOSE i \in DOMAIN b : Home1(i)
<1>7. steps \in 1..N /\ Home1(steps)
  <2> HIDE DEF Home1, b
  <2> QED  BY <1>2, <1>6
<1> DEFINE w == [i \in 1..steps |-> b[steps + 1 - i]]
<1>8. WayTo(n) = w
  BY DEF WayTo
<1>9. /\ b[1] = n
      /\ \A i \in 1..steps : b[i] \in Nodes /\ dist[b[i]] \in Nat
      /\ \A i \in 1..(steps - 1) :
           Lane(b[i + 1], b[i]) > 0 /\ dist[b[i]] = dist[b[i + 1]] + Lane(b[i + 1], b[i])
      /\ \A i, j \in 1..steps : i < j => dist[b[j]] < dist[b[i]]
      /\ b[steps] = trip[1]
  <2> HIDE DEF steps
  <2>1. \A i \in 1..(steps - 1) : b[i] # trip[1]
    BY <1>7
  <2> QED  BY <1>7, <2>1, BackIsChain
<1> HIDE DEF b, steps, N
<1>10. /\ w \in [1..steps -> Nodes] /\ w \in Seq(Nodes) /\ Len(w) = steps
       /\ steps \in Nat /\ steps >= 1
  <2>1. steps \in Nat /\ steps >= 1
    BY <1>1, <1>7
  <2>2. \A i \in 1..steps : steps + 1 - i \in 1..steps
    BY <2>1
  <2>3. w \in [1..steps -> Nodes]
    BY <1>9, <2>2
  <2> QED  BY <2>1, <2>3
<1>11. w \in Ways
  <2>1. \A i, j \in DOMAIN w : w[i] = w[j] => i = j
    <3> SUFFICES ASSUME NEW i \in 1..steps, NEW j \in 1..steps, w[i] = w[j], i < j
                 PROVE  FALSE
      BY <1>10
    <3>1. /\ steps + 1 - j \in 1..steps /\ steps + 1 - i \in 1..steps
          /\ steps + 1 - j < steps + 1 - i
      BY <1>10
    <3>2. dist[b[steps + 1 - i]] < dist[b[steps + 1 - j]]
      BY <1>9, <3>1
    <3> QED  BY <1>9, <3>1, <3>2
  <2>2. w \in UNION {[1..k1 -> Nodes] : k1 \in 1..N}
    BY <1>7, <1>10
  <2> QED  BY <2>1, <2>2 DEF Ways, N
<1>12. w[1] = trip[1] /\ w[Len(w)] = n
  BY <1>9, <1>10
<1>13. \A i \in 1..(Len(w) - 1) :
         Lane(w[i], w[i + 1]) > 0 /\ dist[w[i + 1]] = dist[w[i]] + Lane(w[i], w[i + 1])
  <2> TAKE i \in 1..(Len(w) - 1)
  <2>1. /\ steps - i \in 1..(steps - 1) /\ (steps - i) + 1 = steps + 1 - i
        /\ steps + 1 - (i + 1) = steps - i /\ i \in 1..steps /\ i + 1 \in 1..steps
    BY <1>10
  <2>2. w[i] = b[(steps - i) + 1] /\ w[i + 1] = b[steps - i]
    BY <2>1
  <2> QED  BY <1>9, <2>1, <2>2
<1> DEFINE g == [i \in 1..Len(w) |-> dist[w[i]]]
<1>14. g \in [1..Len(w) -> Nat]
  <2>1. \A i \in 1..steps : dist[w[i]] \in Nat
    <3> TAKE i \in 1..steps
    <3>1. steps + 1 - i \in 1..steps
      BY <1>10
    <3> QED  BY <1>9, <3>1
  <2> QED  BY <1>10, <2>1
<1>15. /\ g[1] = 0 /\ g[Len(w)] = dist[n]
       /\ \A i \in 1..(Len(w) - 1) : g[i + 1] = g[i] + Lane(w[i], w[i + 1])
  <2>1. 1 \in 1..Len(w) /\ Len(w) \in 1..Len(w)
    BY <1>10
  <2>2. \A i \in 1..(Len(w) - 1) : i \in 1..Len(w) /\ i + 1 \in 1..Len(w)
    BY <1>10
  <2> HIDE DEF w
  <2> QED  BY <1>3, <1>12, <1>13, <2>1, <2>2
<1> HIDE DEF w, g
<1> QED  BY <1>8, <1>10, <1>11, <1>12, <1>13, <1>14, <1>15 DEF IsWay, OverLanes

-----------------------------------------------------------------------------
(* Answers are right.                                                      *)

\* The entry of the destination is its distance, and the distance of the
\* destination: cut off at it, the distances are a gauge.
LEMMA FoundIsRight ==
  ASSUME SearchOK, LanesOK, Found
  PROVE  RouteOK(trip[1], trip[2], [length |-> Top[1], way |-> WayTo(trip[2])])
<1>1. PICK a \in Nodes, b \in Nodes : a = trip[1] /\ b = trip[2]
  BY Searching DEF Found
<1>2. PICK d \in Nat : d = Top[1]
  BY Searching DEF Found
<1>3. /\ trip # NoTrip /\ HeapOK /\ ReachOK /\ b \in DOMAIN dist /\ d = dist[b]
      /\ \A e \in queue : d <= e[1]
      /\ \A n \in DOMAIN dist : dist[n] \in Nat /\ n \in Nodes
  <2>1. /\ trip # NoTrip /\ HeapOK /\ ReachOK /\ b \in DOMAIN dist /\ dist[b] <= d
        /\ \A e \in queue : d <= e[1]
        /\ \A n \in DOMAIN dist : dist[n] \in Nat /\ n \in Nodes
    BY <1>1, <1>2, Searching DEF Found
  <2>2. <<dist[b], b>> \in queue
    BY <1>1, <2>1 DEF HeapOK, Settled
  <2>3. d <= dist[b]
    BY <2>1, <2>2
  <2> QED  BY <2>1, <2>3
<1>4. \A f \in Gauges : f[b] <= f[a] + d
  BY <1>1, <1>3 DEF ReachOK
<1>5. ~ Separated(a, b)
  BY <1>1, <1>3 DEF ReachOK, Separated
<1> DEFINE f == [n \in Nodes |-> IF n \in DOMAIN dist /\ dist[n] < d THEN dist[n] ELSE d]
<1>6. f \in [Nodes -> Nat] /\ \A n \in Nodes : f[n] <= d
  BY <1>3
<1>7. ASSUME NEW n \in Nodes, NEW m \in Nodes, Lane(n, m) > 0
      PROVE  f[m] <= f[n] + Lane(n, m)
  <2>1. Lane(n, m) \in Nat
    BY LaneType
  <2>2. CASE n \in DOMAIN dist /\ dist[n] < d
    <3>1. Settled(n)
      BY <1>3, <2>2 DEF Settled
    <3>2. m \in DOMAIN dist /\ dist[m] <= dist[n] + Lane(n, m)
      BY <1>3, <1>7, <2>2, <3>1 DEF HeapOK
    <3>3. f[n] = dist[n] /\ f[m] <= dist[m]
      BY <1>3, <2>2, <3>2
    <3> QED  BY <1>3, <1>6, <2>1, <2>2, <3>2, <3>3
  <2>3. CASE ~ (n \in DOMAIN dist /\ dist[n] < d)
    <3>1. f[n] = d /\ f[m] \in Nat /\ f[m] <= d
      BY <1>6, <2>3
    <3> QED  BY <2>1, <3>1
  <2> QED  BY <2>2, <2>3
<1>8. f \in Gauges
  <2> HIDE DEF f
  <2> QED  BY <1>6, <1>7 DEF Gauges
<1>9. f[b] = f[a] + d
  <2>1. a \in DOMAIN dist /\ dist[a] = 0
    BY <1>1, <1>3 DEF HeapOK
  <2> QED  BY <1>3, <2>1
<1>10. IsDistance(a, b, d)
  <2> HIDE DEF f
  <2> QED  BY <1>4, <1>8, <1>9 DEF IsDistance
<1>11. IsWay(WayTo(b), a, b, d) /\ WayTo(b) \in Seq(Nodes)
  BY <1>1, <1>3, WayToIsWay
<1> DEFINE r == [length |-> d, way |-> WayTo(b)]
<1>12. r \in [length : Nat, way : Seq(Nodes)] /\ r # Unreachable
  BY <1>11, RoutesAssumption
<1>13. r.length = d /\ r.way = WayTo(b)
  OBVIOUS
<1>14. RouteOK(a, b, r)
  <2> HIDE DEF r
  <2> QED  BY <1>5, <1>10, <1>11, <1>12, <1>13 DEF RouteOK
<1> QED  BY <1>1, <1>2, <1>14

\* If the heap is empty, what was reached is a set that lanes do not leave.
LEMMA ExhaustedIsRight ==
  ASSUME SearchOK, LanesOK, Exhausted
  PROVE  RouteOK(trip[1], trip[2], Unreachable)
<1>1. trip # NoTrip /\ queue = {} /\ HeapOK /\ TreeOK /\ ReachOK
  BY DEF Exhausted, SearchOK
<1>2. \A n \in DOMAIN dist : Settled(n)
  BY <1>1 DEF Settled
<1>3. DOMAIN dist \in Enclosures
  BY <1>1, <1>2 DEF HeapOK, Enclosures
<1>4. trip[1] \in DOMAIN dist /\ trip[2] \notin DOMAIN dist
  BY <1>1, <1>2 DEF HeapOK
<1> QED  BY <1>3, <1>4 DEF RouteOK, Separated

\* A right answer is kept with the others.
LEMMA AnswerStep ==
  ASSUME RoutesInv, trip # NoTrip, UNCHANGED lanes, NEW r, Answer(r),
         RouteOK(trip[1], trip[2], r)
  PROVE  RoutesInv'
<1>1. /\ routes' = [p \in DOMAIN routes \cup {trip} |-> IF p = trip THEN r ELSE routes[p]]
      /\ trip' = NoTrip /\ queue' = {}
  BY DEF Answer
<1>2. trip \in Nodes \X Nodes
  BY DEF RoutesInv, SearchOK
<1>3. SearchOK'
  BY <1>1 DEF SearchOK
<1>4. DOMAIN routes' \subseteq Nodes \X Nodes
  BY <1>1, <1>2 DEF RoutesInv, RoutesOK
<1>5. ASSUME NEW p \in DOMAIN routes'
      PROVE  RouteOK(p[1], p[2], routes'[p])
  BY <1>1 DEF RoutesInv, RoutesOK
<1>6. \A a, b, x : RouteOK(a, b, x)' <=> RouteOK(a, b, x)
  BY SameMap
<1>7. RoutesOK'
  BY <1>4, <1>5, <1>6 DEF RoutesOK
<1> QED  BY <1>3, <1>7, SameMap DEF RoutesInv

\* A step of a search keeps the invariant.
LEMMA SearchKeeps ==
  ASSUME RoutesInv, Search
  PROVE  RoutesInv'
<1>1. LanesOK /\ SearchOK /\ RoutesOK
  BY DEF RoutesInv
<1>2. UNCHANGED lanes
  BY DEF Search, Found, SkipStale, Relax, Exhausted
<1>3. CASE Found
  <2>1. trip # NoTrip /\ Answer([length |-> Top[1], way |-> WayTo(trip[2])])
    BY <1>1, <1>3 DEF Found, SearchOK
  <2> QED  BY <1>1, <1>2, <1>3, <2>1, FoundIsRight, AnswerStep
<1>4. CASE Exhausted
  <2>1. trip # NoTrip /\ Answer(Unreachable)
    BY <1>4 DEF Exhausted
  <2> QED  BY <1>1, <1>2, <1>4, <2>1, ExhaustedIsRight, AnswerStep
<1>5. CASE SkipStale \/ Relax
  <2>1. SearchOK'
    BY <1>1, <1>5, SkipStaleStep, RelaxStep
  <2>2. UNCHANGED routes
    BY <1>5 DEF SkipStale, Relax
  <2>3. RoutesOK'
    BY <1>1, <1>2, <2>2, SameMap DEF RoutesOK
  <2> QED  BY <1>1, <1>2, <2>1, <2>3, SameMap DEF RoutesInv
<1> QED  BY <1>3, <1>4, <1>5 DEF Search

\* So does the start of a search.
LEMMA AskKeeps ==
  ASSUME RoutesInv, NEW src \in Nodes, NEW dst \in Nodes, Ask(src, dst)
  PROVE  RoutesInv'
<1>1. UNCHANGED lanes /\ UNCHANGED routes
  BY DEF Ask
<1>2. SearchOK'
  BY AskStep DEF RoutesInv
<1>3. RoutesOK'
  BY <1>1, SameMap DEF RoutesInv, RoutesOK
<1> QED  BY <1>1, <1>2, <1>3, SameMap DEF RoutesInv

\* So does a step that leaves routes alone.
LEMMA UnchangedKeepsRoutes ==
  ASSUME RoutesInv, UNCHANGED routeVars
  PROVE  RoutesInv'
<1>1. UNCHANGED <<lanes, trip, dist, previous, queue, routes>>
  BY DEF routeVars
<1>2. RoutesOK'
  BY <1>1, SameMap DEF RoutesInv, RoutesOK
<1>3. SearchOK'
  <2>1. \A n : Settled(n)' <=> Settled(n)
    BY <1>1 DEF Settled
  <2>2. HeapOK' <=> HeapOK
    BY <1>1, <2>1, SameMap DEF HeapOK, Settled
  <2>3. TreeOK' <=> TreeOK
    BY <1>1, <2>1, SameMap DEF TreeOK, Settled
  <2>4. ReachOK' <=> ReachOK
    BY <1>1, SameMap DEF ReachOK
  <2> QED  BY <1>1, <2>2, <2>3, <2>4 DEF RoutesInv, SearchOK
<1> QED  BY <1>1, <1>2, <1>3, SameMap DEF RoutesInv

-----------------------------------------------------------------------------
(* Ways.                                                                   *)

\* A way is a sequence of nodes that is not empty.
LEMMA WayType ==
  ASSUME NEW w \in Ways
  PROVE  Len(w) \in Nat /\ Len(w) >= 1 /\ w \in [1..Len(w) -> Nodes]
<1>1. PICK k \in 1..Cardinality(Nodes) : w \in [1..k -> Nodes]
  BY DEF Ways
<1>2. Cardinality(Nodes) \in Nat
  BY RoutesAssumption, FS_CardinalityType
<1>3. k \in Nat /\ k >= 1
  BY <1>2
<1>4. w \in Seq(Nodes) /\ Len(w) = k
  BY <1>1, <1>3
<1> QED  BY <1>1, <1>3, <1>4

\* Milestones is what its definition says.
LEMMA MilestonesUnrolled ==
  ASSUME NEW w \in Ways
  PROVE  \A i \in 1..Len(w) :
           Milestones(w)[i] = IF i = 1 THEN 0 ELSE Milestones(w)[i-1] + Lane(w[i-1], w[i])
<1> DEFINE N == Len(w)
           By(i) == Lane(w[i-1], w[i])
           IsSum(k, f) == f = [i \in 1..k |-> IF i = 1 THEN 0 ELSE f[i-1] + By(i)]
           Made == {k \in 0..N : \E f : IsSum(k, f)}
<1>1. N \in Nat
  BY WayType
<1> HIDE DEF N, By
<1>2. 0 \in Made
  <2>1. IsSum(0, <<>>)  OBVIOUS
  <2> HIDE DEF IsSum
  <2> QED  BY <1>1, <2>1
<1>3. ASSUME NEW k \in 0..N, k < N, k \in Made
      PROVE  k + 1 \in Made
  <2>1. PICK f : IsSum(k, f)
    BY <1>3
  <2> DEFINE g == [i \in 1..(k + 1) |->
                     IF i <= k THEN f[i] ELSE IF i = 1 THEN 0 ELSE f[k] + By(k + 1)]
  <2>2. IsSum(k + 1, g)
    BY <2>1, <1>1
  <2> HIDE DEF IsSum
  <2> QED  BY <2>2, <1>1, <1>3
<1>4. N \in Made
  <2> HIDE DEF Made
  <2>1. 0..N \subseteq Made
    BY <1>1, <1>2, <1>3, IntervalInduction
  <2> QED  BY <1>1, <2>1
<1>5. PICK f : IsSum(N, f)
  BY <1>4
<1>6. Milestones(w) = CHOOSE g : IsSum(N, g)
  BY DEF Milestones, N, By
<1>7. IsSum(N, Milestones(w))
  <2> HIDE DEF IsSum
  <2> QED  BY <1>5, <1>6
<1> DEFINE b == Milestones(w)
<1>8. b = [i \in 1..N |-> IF i = 1 THEN 0 ELSE b[i-1] + By(i)]
  BY <1>7
<1> HIDE DEF b
<1>9. \A i \in 1..N : b[i] = IF i = 1 THEN 0 ELSE b[i-1] + By(i)
  BY <1>8
<1> QED  BY <1>9 DEF b, N, By

\* A way is as long as the distances along it say.
LEMMA LengthIsDistance ==
  ASSUME LanesOK, NEW w, NEW a, NEW b, NEW d, IsWay(w, a, b, d)
  PROVE  LengthOf(w) = d
<1>1. /\ w \in Ways /\ Len(w) \in Nat /\ Len(w) >= 1
  BY WayType DEF IsWay
<1>2. PICK g \in [1..Len(w) -> Nat] :
        /\ g[1] = 0 /\ g[Len(w)] = d
        /\ \A i \in 1..(Len(w) - 1) : g[i + 1] = g[i] + Lane(w[i], w[i + 1])
  BY DEF IsWay
<1> DEFINE S == {i \in 1..Len(w) : Milestones(w)[i] = g[i]}
<1>3. 1 \in S
  BY <1>1, <1>2, MilestonesUnrolled
<1>4. ASSUME NEW i \in 1..Len(w), i < Len(w), i \in S
      PROVE  i + 1 \in S
  <2>1. i + 1 \in 1..Len(w) /\ i + 1 # 1 /\ (i + 1) - 1 = i /\ i \in 1..(Len(w) - 1)
    BY <1>1, <1>4
  <2>2. Milestones(w)[i + 1] = Milestones(w)[i] + Lane(w[i], w[i + 1])
    BY <1>1, <2>1, MilestonesUnrolled
  <2> QED  BY <1>2, <1>4, <2>1, <2>2
<1>5. Len(w) \in S
  <2> HIDE DEF S
  <2>1. 1..Len(w) \subseteq S
    BY <1>1, <1>3, <1>4, IntervalInduction
  <2> QED  BY <1>1, <2>1
<1> QED  BY <1>2, <1>5 DEF LengthOf

\* No gauge rises more along a way than the way is long.
LEMMA GaugeAlongWay ==
  ASSUME LanesOK, NEW w \in Ways, OverLanes(w), NEW f \in Gauges
  PROVE  LengthOf(w) \in Nat /\ f[w[Len(w)]] <= f[w[1]] + LengthOf(w)
<1>1. Len(w) \in Nat /\ Len(w) >= 1 /\ \A i \in 1..Len(w) : w[i] \in Nodes
  BY WayType
<1>2. \A n \in Nodes : f[n] \in Nat
  BY DEF Gauges
<1> DEFINE M == Milestones(w)
           S == {i \in 1..Len(w) : M[i] \in Nat /\ f[w[i]] <= f[w[1]] + M[i]}
<1>3. 1 \in S
  <2>1. M[1] = 0 /\ 1 \in 1..Len(w)
    BY <1>1, MilestonesUnrolled
  <2> HIDE DEF M
  <2> QED  BY <1>1, <1>2, <2>1
<1>4. ASSUME NEW i \in 1..Len(w), i < Len(w), i \in S
      PROVE  i + 1 \in S
  <2>1. i + 1 \in 1..Len(w) /\ i + 1 # 1 /\ (i + 1) - 1 = i /\ i \in 1..(Len(w) - 1)
    BY <1>1, <1>4
  <2>2. M[i + 1] = M[i] + Lane(w[i], w[i + 1])
    BY <1>1, <2>1, MilestonesUnrolled
  <2> HIDE DEF M
  <2>3. /\ w[i] \in Nodes /\ w[i + 1] \in Nodes /\ 1 \in 1..Len(w) /\ w[1] \in Nodes
        /\ Lane(w[i], w[i + 1]) > 0 /\ Lane(w[i], w[i + 1]) \in Nat
    BY <1>1, <2>1, LaneType DEF OverLanes
  <2>4. f[w[i + 1]] <= f[w[i]] + Lane(w[i], w[i + 1])
    BY <2>3 DEF Gauges
  <2>5. M[i] \in Nat /\ f[w[i]] <= f[w[1]] + M[i]
    BY <1>4
  <2>6. /\ f[w[i + 1]] \in Nat /\ f[w[i]] \in Nat /\ f[w[1]] \in Nat
    BY <1>2, <2>3
  <2>7. M[i + 1] \in Nat /\ f[w[i + 1]] <= f[w[1]] + M[i + 1]
    BY <2>2, <2>3, <2>4, <2>5, <2>6
  <2> QED  BY <2>1, <2>7
<1>5. Len(w) \in S
  <2> HIDE DEF S
  <2>1. 1..Len(w) \subseteq S
    BY <1>1, <1>3, <1>4, IntervalInduction
  <2> QED  BY <1>1, <2>1
<1> QED  BY <1>5 DEF LengthOf

\* No way leaves a set that lanes do not leave.
LEMMA WaysStayInside ==
  ASSUME NEW w \in Ways, OverLanes(w), NEW S \in Enclosures, w[1] \in S
  PROVE  w[Len(w)] \in S
<1>1. Len(w) \in Nat /\ Len(w) >= 1 /\ \A i \in 1..Len(w) : w[i] \in Nodes
  BY WayType
<1> DEFINE I == {i \in 1..Len(w) : w[i] \in S}
<1>2. 1 \in I
  BY <1>1
<1>3. ASSUME NEW i \in 1..Len(w), i < Len(w), i \in I
      PROVE  i + 1 \in I
  <2>1. i + 1 \in 1..Len(w) /\ i \in 1..(Len(w) - 1)
    BY <1>1, <1>3
  <2>2. Lane(w[i], w[i + 1]) > 0 /\ w[i + 1] \in Nodes
    BY <1>1, <2>1 DEF OverLanes
  <2> QED  BY <1>3, <2>1, <2>2 DEF Enclosures
<1>4. Len(w) \in I
  <2> HIDE DEF I
  <2>1. 1..Len(w) \subseteq I
    BY <1>1, <1>2, <1>3, IntervalInduction
  <2> QED  BY <1>1, <2>1
<1> QED  BY <1>4

\* Answers that are right by gauges and enclosures are so by ways.
LEMMA RightRoutesAreShortest ==
  ASSUME LanesOK, RoutesOK
  PROVE  RoutesShortest
<1> SUFFICES ASSUME NEW p \in DOMAIN routes
             PROVE  LET all == {w \in Between[p] : OverLanes(w)} IN
                    IF routes[p] = Unreachable THEN all = {}
                    ELSE /\ routes[p].way \in all
                         /\ LengthOf(routes[p].way) = routes[p].length
                         /\ \A w \in all : LengthOf(w) >= routes[p].length
  BY DEF RoutesShortest
<1>1. p \in Nodes \X Nodes /\ RouteOK(p[1], p[2], routes[p])
  BY DEF RoutesOK
<1>2. Between[p] = {w \in Ways : w[1] = p[1] /\ w[Len(w)] = p[2]}
  BY <1>1 DEF Between
<1>3. CASE routes[p] = Unreachable
  <2>1. PICK S \in Enclosures : p[1] \in S /\ p[2] \notin S
    BY <1>1, <1>3 DEF RouteOK, Separated
  <2> QED  BY <1>2, <1>3, <2>1, WaysStayInside
<1>4. CASE routes[p] # Unreachable
  <2> DEFINE d == routes[p].length
  <2>1. d \in Nat /\ IsDistance(p[1], p[2], d) /\ IsWay(routes[p].way, p[1], p[2], d)
    BY <1>1, <1>4 DEF RouteOK
  <2>2. LengthOf(routes[p].way) = d
    BY <2>1, LengthIsDistance
  <2>3. routes[p].way \in Between[p] /\ OverLanes(routes[p].way)
    BY <1>2, <2>1 DEF IsWay
  <2>4. PICK f \in Gauges : f[p[2]] = f[p[1]] + d
    BY <2>1 DEF IsDistance
  <2>5. ASSUME NEW w \in Between[p], OverLanes(w)
        PROVE  LengthOf(w) >= d
    <3>1. w \in Ways /\ w[1] = p[1] /\ w[Len(w)] = p[2]
      BY <1>2
    <3>2. LengthOf(w) \in Nat /\ f[p[2]] <= f[p[1]] + LengthOf(w)
      BY <2>5, <3>1, GaugeAlongWay
    <3>3. f[p[1]] \in Nat
      BY <1>1 DEF Gauges
    <3> QED  BY <2>1, <2>4, <3>2, <3>3
  <2> QED  BY <1>4, <2>2, <2>3, <2>5
<1> QED  BY <1>3, <1>4

-----------------------------------------------------------------------------
(* Plans.                                                                  *)

\* Where an agent may stand, and where it may be sent.
TargetsOf(a) == IF a \in Drones THEN Nodes ELSE Targets
PointsOf(a) == IF a \in Drones THEN Nodes ELSE Starts \cup Targets

Way(a, x, y) == IF a \in Drones THEN Flight[x][y] ELSE routes[<<x, y>>].length

TeamOK(team) ==
  /\ team \subseteq Agents /\ team \cap request.excluded = {}
  /\ \A platform \in {Drones, Vehicles} :
       Cardinality(team \cap platform)
         \in Permitted(CountFor(platform), Cardinality(platform))
  /\ ~ RequestConstrained => team = Agents

PlanTypeOK(p) ==
  /\ TeamOK(p.team)
  /\ p.owner \in [tasks -> p.team \cup {NoAgent}]
  /\ p.start \in [tasks -> Nat] /\ p.done \in [tasks -> Nat]
  /\ p.free \in [p.team -> Nat] /\ p.since \in Nat
  /\ \A a \in p.team : p.place[a] \in PointsOf(a)
  /\ p.epochs \in Nat /\ p.epochs <= Cardinality(Assigned(p))
  /\ Assigned(p) # {} => Known(LegPairs)

\* An assigned task comes after its predecessors and before the barrier.
TimesOK(p) ==
  \A t \in Assigned(p) :
    /\ p.owner[t] \in Eligible[t]
    /\ Preds[t] \subseteq Assigned(p) /\ \A q \in Preds[t] : p.done[q] <= p.start[t]
    /\ p.done[t] = p.start[t] + Duration[t] /\ p.done[t] <= p.since

\* Between two tasks an agent has the time to get from one to the other, and
\* where it is free it has had the time to get to from any of them.
TravelOK(p) ==
  /\ \A t \in Assigned(p) :
       /\ p.place[p.owner[t]] \in TargetsOf(p.owner[t])
       /\ p.done[t] + Way(p.owner[t], Site[t], p.place[p.owner[t]]) <= p.free[p.owner[t]]
  /\ \A s, t \in Assigned(p) :
       s # t /\ p.owner[s] = p.owner[t] =>
         \/ p.done[s] + Way(p.owner[t], Site[s], Site[t]) <= p.start[t]
         \/ p.done[t] + Way(p.owner[t], Site[t], Site[s]) <= p.start[s]

PlanOK(p) == PlanTypeOK(p) /\ TimesOK(p) /\ TravelOK(p)

\* A plan that is kept does everything, with whom it must.
Served(p) == Complete(p) /\ request.required \subseteq {p.owner[t] : t \in tasks}

MissionOK ==
  /\ tasks \subseteq Tasks /\ \A t \in tasks : Preds[t] \subseteq tasks
  /\ \A S \in SUBSET tasks : S # {} => \E t \in S : Preds[t] \cap S = {}

MapOK ==
  phase \in {"choosing", "rehearsing", "planned", "infeasible", "refused"} =>
    Known(ReachPairs) /\ AllReachable

SearchedOK ==
  /\ phase = "rehearsing" => PlanOK(plan)
  /\ \A team \in untried : TeamOK(team)
  /\ \A p \in feasible : PlanOK(p) /\ Served(p)
  /\ phase = "planned" => plan \in feasible

\* Nothing is searched for twice.
Unanswered == trip \notin DOMAIN routes

PlannerInv == RoutesInv /\ Unanswered /\ MissionOK /\ MapOK /\ SearchedOK

-----------------------------------------------------------------------------
(* Legs.                                                                   *)

\* What lies outside of a set that lanes do not leave is one, too.
LEMMA Complement ==
  ASSUME LanesOK, NEW S \in Enclosures
  PROVE  Nodes \ S \in Enclosures
<1>1. \A n, m \in Nodes : Lane(n, m) = Lane(m, n)
  BY LaneType
<1> QED  BY <1>1 DEF Enclosures

\* The points of an agent are nodes, and its tasks are among them.
LEMMA PointTypes ==
  ASSUME MissionOK
  PROVE  /\ \A t \in tasks : t \in Tasks /\ Site[t] \in Nodes /\ Duration[t] \in Nat \ {0}
         /\ Starts \subseteq Nodes /\ Targets \subseteq Nodes
         /\ \A a \in Agents : Home[a] \in PointsOf(a) /\ TargetsOf(a) \subseteq PointsOf(a)
                              /\ PointsOf(a) \subseteq Nodes
         /\ \A t \in tasks : \A a \in Eligible[t] : a \in Agents /\ Site[t] \in TargetsOf(a)
         /\ \A a \in Agents \ Drones : PointsOf(a) \X TargetsOf(a) = LegPairs
         /\ ReachPairs \subseteq LegPairs
<1>1. \A t \in tasks : t \in Tasks /\ Site[t] \in Nodes /\ Duration[t] \in Nat \ {0}
  BY PlannerAssumption DEF MissionOK
<1>2. Starts \subseteq Nodes /\ Targets \subseteq Nodes
  BY <1>1, PlannerAssumption DEF Starts, Targets, Vehicles
<1>3. \A t \in tasks : \A a \in Eligible[t] : a \in Agents /\ Site[t] \in TargetsOf(a)
  BY <1>1, PlannerAssumption DEF TargetsOf, Targets
<1>4. LegPairs = (Starts \cup Targets) \X Targets
  BY DEF LegPairs, Starts
<1>5. \A a \in Agents : Home[a] \in PointsOf(a) /\ TargetsOf(a) \subseteq PointsOf(a)
                        /\ PointsOf(a) \subseteq Nodes
  BY <1>2, PlannerAssumption DEF PointsOf, TargetsOf, Starts, Vehicles
<1> QED  BY <1>1, <1>2, <1>3, <1>4, <1>5 DEF PointsOf, TargetsOf, ReachPairs

\* If the validator found every task within reach of every vehicle, there is a
\* way for a vehicle between any two points it can be at.
LEMMA LegsExist ==
  ASSUME MissionOK, RoutesInv, Known(ReachPairs), AllReachable, Known(LegPairs),
         NEW a \in Agents \ Drones, NEW x \in PointsOf(a), NEW y \in TargetsOf(a)
  PROVE  /\ <<x, y>> \in DOMAIN routes /\ routes[<<x, y>>] # Unreachable
         /\ routes[<<x, y>>].length \in Nat /\ IsDistance(x, y, routes[<<x, y>>].length)
<1>1. x \in Nodes /\ y \in Nodes /\ y \in Targets /\ x \in Starts \cup Targets
      /\ <<x, y>> \in LegPairs /\ Home[a] \in Starts
  BY PointTypes DEF PointsOf, TargetsOf, Starts, Vehicles
<1>2. <<x, y>> \in DOMAIN routes
  BY <1>1 DEF Known
<1>3. ASSUME NEW s \in Starts, NEW q \in Targets
      PROVE  ~ Separated(s, q)
  <2>1. <<s, q>> \in ReachPairs
    BY DEF ReachPairs
  <2>2. <<s, q>> \in DOMAIN routes /\ routes[<<s, q>>] # Unreachable
    BY <2>1 DEF Known, AllReachable
  <2> QED  BY <2>2 DEF RoutesInv, RoutesOK, RouteOK
<1>4. RouteOK(x, y, routes[<<x, y>>])
  BY <1>2 DEF RoutesInv, RoutesOK
<1>5. ~ Separated(x, y)
  <2>1. CASE x \in Starts
    BY <1>1, <1>3, <2>1
  <2>2. CASE x \in Targets
    <3> SUFFICES ASSUME NEW S \in Enclosures, x \in S, y \notin S
                 PROVE  FALSE
      BY DEF Separated
    <3>1. CASE Home[a] \in S
      BY <1>1, <1>3, <3>1 DEF Separated
    <3>2. CASE Home[a] \notin S
      <4>1. Nodes \ S \in Enclosures
        BY Complement DEF RoutesInv
      <4>2. Home[a] \in Nodes
        BY PlannerAssumption
      <4> QED  BY <1>1, <1>3, <2>2, <3>2, <4>1, <4>2 DEF Separated
    <3> QED  BY <3>1, <3>2
  <2> QED  BY <1>1, <2>1, <2>2
<1>6. routes[<<x, y>>] # Unreachable
  BY <1>4, <1>5 DEF RouteOK
<1> QED  BY <1>2, <1>4, <1>6 DEF RouteOK

\* No distance is longer than a detour.
LEMMA Detours ==
  ASSUME NEW x \in Nodes, NEW y \in Nodes, NEW z \in Nodes,
         NEW d \in Nat, NEW e \in Nat, NEW f \in Nat,
         IsDistance(x, y, d), IsDistance(y, z, e), IsDistance(x, z, f)
  PROVE  f <= d + e
<1>1. PICK h \in Gauges : h[z] = h[x] + f
  BY DEF IsDistance
<1>2. h[y] <= h[x] + d /\ h[z] <= h[y] + e
  BY DEF IsDistance
<1>3. h[x] \in Nat /\ h[y] \in Nat /\ h[z] \in Nat
  BY DEF Gauges
<1> QED  BY <1>1, <1>2, <1>3

\* What the plans rest on: a vehicle's legs are known, and exist.
RoadsOK == MissionOK /\ RoutesInv /\ Known(ReachPairs) /\ AllReachable /\ Known(LegPairs)

\* The time an agent takes obeys the triangle inequality.
LEMMA Travel ==
  ASSUME RoadsOK, NEW a \in Agents, NEW x \in PointsOf(a), NEW z \in TargetsOf(a)
  PROVE  /\ Way(a, x, z) \in Nat
         /\ x = z => Way(a, x, z) = 0
         /\ \A y \in TargetsOf(a) : Way(a, x, z) <= Way(a, x, y) + Way(a, y, z)
<1>1. x \in Nodes /\ z \in Nodes /\ TargetsOf(a) \subseteq PointsOf(a) /\ TargetsOf(a) \subseteq Nodes
  BY PointTypes DEF RoadsOK
<1>2. CASE a \in Drones
  BY <1>1, <1>2, FlightAssumption DEF Way
<1>3. CASE a \notin Drones
  <2> DEFINE d(u, v) == routes[<<u, v>>].length
  <2>1. \A u \in PointsOf(a), v \in TargetsOf(a) : d(u, v) \in Nat /\ IsDistance(u, v, d(u, v))
    BY <1>3, LegsExist DEF RoadsOK
  <2>2. \A u, v : Way(a, u, v) = d(u, v)
    BY <1>3 DEF Way
  <2> HIDE DEF d
  <2>3. d(x, z) \in Nat /\ IsDistance(x, z, d(x, z))
    BY <2>1
  <2>4. ASSUME x = z
        PROVE  d(x, z) = 0
    <3>1. PICK h \in Gauges : h[x] = h[x] + d(x, z)
      BY <2>3, <2>4 DEF IsDistance
    <3>2. h[x] \in Nat
      BY <1>1 DEF Gauges
    <3> QED  BY <2>3, <3>1, <3>2
  <2>5. ASSUME NEW y \in TargetsOf(a)
        PROVE  d(x, z) <= d(x, y) + d(y, z)
    <3>1. d(x, y) \in Nat /\ IsDistance(x, y, d(x, y)) /\ d(y, z) \in Nat /\ IsDistance(y, z, d(y, z))
      BY <1>1, <2>1
    <3>2. y \in Nodes
      BY <1>1
    <3> QED  BY <1>1, <2>3, <3>1, <3>2, Detours
  <2> QED  BY <2>2, <2>3, <2>4, <2>5
<1> QED  BY <1>2, <1>3

-----------------------------------------------------------------------------
(* Waves.                                                                  *)

\* Walk is what its definition says.
LEMMA WalkUnrolled ==
  ASSUME NEW a, NEW award, NEW from, NEW depart, NEW n \in Nat,
         n = Cardinality(DOMAIN award.owner)
  PROVE  LET w == Walk(a, award, from, depart) IN
         /\ w[0] = [start |-> depart, done |-> depart, place |-> from, far |-> 0]
         /\ \A i \in 1..n :
              w[i] = LET t == award.order[i]
                         arrival == w[i-1].done + Leg(a, w[i-1].place, t)
                     IN IF award.owner[t] # a THEN w[i-1]
                        ELSE [start |-> arrival, done |-> arrival + Duration[t], place |-> Site[t],
                              far |-> w[i-1].far + Leg(a, w[i-1].place, t)]
<1> DEFINE First == [start |-> depart, done |-> depart, place |-> from, far |-> 0]
           Next(s, i) == LET t == award.order[i]
                             arrival == s.done + Leg(a, s.place, t)
                         IN IF award.owner[t] # a THEN s
                            ELSE [start |-> arrival, done |-> arrival + Duration[t],
                                  place |-> Site[t], far |-> s.far + Leg(a, s.place, t)]
           IsWalk(k, f) == f = [i \in 0..k |-> IF i = 0 THEN First ELSE Next(f[i-1], i)]
           Made == {k \in 0..n : \E f : IsWalk(k, f)}
           w == Walk(a, award, from, depart)
<1>1. w = CHOOSE f : IsWalk(n, f)
  BY DEF Walk
<1> HIDE DEF First, Next, w
<1>2. 0 \in Made
  <2>1. IsWalk(0, [i \in 0..0 |-> First])  OBVIOUS
  <2> HIDE DEF IsWalk
  <2> QED  BY <2>1
<1>3. ASSUME NEW k \in 0..n, k < n, k \in Made
      PROVE  k + 1 \in Made
  <2>1. PICK f : IsWalk(k, f)
    BY <1>3
  <2> DEFINE g == [i \in 0..(k + 1) |-> IF i <= k THEN f[i] ELSE Next(f[k], i)]
  <2>2. IsWalk(k + 1, g)
    BY <2>1
  <2> HIDE DEF IsWalk
  <2> QED  BY <2>2, <1>3
<1>4. n \in Made
  <2> HIDE DEF Made
  <2>1. 0..n \subseteq Made
    BY <1>2, <1>3, IntervalInduction
  <2> QED  BY <2>1
<1>5. PICK f : IsWalk(n, f)
  BY <1>4
<1>6. IsWalk(n, w)
  <2> HIDE DEF IsWalk
  <2> QED  BY <1>1, <1>5
<1>7. w[0] = First /\ \A i \in 1..n : w[i] = Next(w[i-1], i)
  BY <1>6
<1> QED  BY <1>7 DEF First, Next, w

\* What an auction answers: every task has a place in the order, and an owner
\* that can do it.
AwardOK(award, won) ==
  /\ won \subseteq tasks /\ DOMAIN award.owner = won /\ award.order \in Orders(won)
  /\ \A t \in won : award.owner[t] \in Eligible[t]

\* An agent on its walk does not get earlier than it left, stands at points it
\* can be at, and after a task of its own stands where that task is.
LEMMA WalkSteps ==
  ASSUME RoadsOK, NEW won, NEW award, AwardOK(award, won), NEW n \in Nat, n = Cardinality(won),
         NEW a \in Agents, NEW from \in PointsOf(a), NEW depart \in Nat, NEW w,
         w = Walk(a, award, from, depart)
  PROVE  /\ w[0].done = depart /\ w[0].place = from
         /\ \A i \in 0..n : w[i].done \in Nat /\ depart <= w[i].done /\ w[i].place \in PointsOf(a)
         /\ \A i \in 1..n :
              LET t == award.order[i] IN
              /\ t \in won
              /\ award.owner[t] # a => w[i] = w[i-1]
              /\ award.owner[t] = a =>
                   /\ w[i].start = w[i-1].done + Way(a, w[i-1].place, Site[t])
                   /\ w[i].done = w[i].start + Duration[t]
                   /\ w[i].place = Site[t] /\ Site[t] \in TargetsOf(a)
                   /\ Duration[t] \in Nat \ {0}
<1>1. \A i \in 1..n : award.order[i] \in won /\ award.order[i] \in tasks
  BY DEF AwardOK, Orders
<1>2. /\ w[0] = [start |-> depart, done |-> depart, place |-> from, far |-> 0]
      /\ \A i \in 1..n :
           w[i] = LET t == award.order[i]
                      arrival == w[i-1].done + Leg(a, w[i-1].place, t)
                  IN IF award.owner[t] # a THEN w[i-1]
                     ELSE [start |-> arrival, done |-> arrival + Duration[t], place |-> Site[t],
                           far |-> w[i-1].far + Leg(a, w[i-1].place, t)]
  BY WalkUnrolled DEF AwardOK
<1>3. \A x, t : Leg(a, x, t) = Way(a, x, Site[t])
  BY DEF Leg, Way
<1>4. ASSUME NEW i \in 1..n
      PROVE  LET t == award.order[i] IN
             /\ t \in won
             /\ award.owner[t] # a => w[i] = w[i-1]
             /\ award.owner[t] = a =>
                  /\ w[i].start = w[i-1].done + Way(a, w[i-1].place, Site[t])
                  /\ w[i].done = w[i].start + Duration[t]
                  /\ w[i].place = Site[t] /\ Site[t] \in TargetsOf(a)
                  /\ Duration[t] \in Nat \ {0}
  <2> DEFINE t == award.order[i]
  <2>1. t \in won /\ t \in tasks /\ Duration[t] \in Nat \ {0}
        /\ \A b \in Eligible[t] : Site[t] \in TargetsOf(b)
    BY <1>1, PointTypes DEF RoadsOK
  <2>2. award.owner[t] \in Eligible[t]
    BY <2>1 DEF AwardOK
  <2>3. w[i] = IF award.owner[t] # a THEN w[i-1]
               ELSE [start |-> w[i-1].done + Leg(a, w[i-1].place, t),
                     done |-> w[i-1].done + Leg(a, w[i-1].place, t) + Duration[t],
                     place |-> Site[t], far |-> w[i-1].far + Leg(a, w[i-1].place, t)]
    BY <1>2
  <2> HIDE DEF t
  <2>4. /\ award.owner[t] # a => w[i] = w[i-1]
        /\ award.owner[t] = a =>
             /\ w[i].start = w[i-1].done + Way(a, w[i-1].place, Site[t])
             /\ w[i].done = w[i].start + Duration[t]
             /\ w[i].place = Site[t]
    BY <2>3, <1>3
  <2> QED  BY <2>1, <2>2, <2>4 DEF t
<1> DEFINE S == {i \in 0..n : w[i].done \in Nat /\ depart <= w[i].done /\ w[i].place \in PointsOf(a)}
<1>5. 0 \in S
  BY <1>2
<1>6. ASSUME NEW i \in 0..n, i < n, i \in S
      PROVE  i + 1 \in S
  <2> DEFINE t == award.order[i + 1]
  <2>1. i + 1 \in 1..n /\ (i + 1) - 1 = i
    BY <1>6
  <2>2. /\ award.owner[t] # a => w[i + 1] = w[i]
        /\ award.owner[t] = a =>
             /\ w[i + 1].start = w[i].done + Way(a, w[i].place, Site[t])
             /\ w[i + 1].done = w[i + 1].start + Duration[t]
             /\ w[i + 1].place = Site[t] /\ Site[t] \in TargetsOf(a)
             /\ Duration[t] \in Nat \ {0}
    BY <1>4, <2>1
  <2> HIDE DEF t
  <2>3. CASE award.owner[t] # a
    BY <1>6, <2>1, <2>2, <2>3
  <2>4. CASE award.owner[t] = a
    <3>1. Way(a, w[i].place, Site[t]) \in Nat /\ Site[t] \in PointsOf(a)
      BY <1>6, <2>2, <2>4, Travel, PointTypes DEF RoadsOK
    <3> QED  BY <1>6, <2>1, <2>2, <2>4, <3>1
  <2> QED  BY <2>3, <2>4
<1>7. 0..n \subseteq S
  <2> HIDE DEF S
  <2> QED  BY <1>5, <1>6, IntervalInduction
<1> QED  BY <1>2, <1>4, <1>7

\* If an agent has had the time to get to where it stands from a place x it
\* left at a time T, so it has at every later task, and at the end.
LEMMA WalkLater ==
  ASSUME RoadsOK, NEW won, NEW award, AwardOK(award, won), NEW n \in Nat, n = Cardinality(won),
         NEW a \in Agents, NEW from \in PointsOf(a), NEW depart \in Nat, NEW w,
         w = Walk(a, award, from, depart),
         NEW j \in 0..n, NEW x \in TargetsOf(a), NEW T \in Nat,
         w[j].place \in TargetsOf(a), T + Way(a, x, w[j].place) <= w[j].done
  PROVE  /\ \A i \in j..n :
              w[i].place \in TargetsOf(a) /\ T + Way(a, x, w[i].place) <= w[i].done
         /\ \A i \in (j + 1)..n :
              award.owner[award.order[i]] = a =>
                T + Way(a, x, Site[award.order[i]]) <= w[i].start
<1> DEFINE On(i) == w[i].place \in TargetsOf(a) /\ T + Way(a, x, w[i].place) <= w[i].done
           S == {i \in j..n : On(i)}
<1>1. j \in Nat /\ \A i \in j..n : i \in 0..n /\ i \in Nat
  OBVIOUS
<1>2. x \in PointsOf(a)
  BY PointTypes DEF RoadsOK
<1>3. ASSUME NEW i \in j..n, i < n, On(i)
      PROVE  /\ On(i + 1)
             /\ award.owner[award.order[i + 1]] = a =>
                  T + Way(a, x, Site[award.order[i + 1]]) <= w[i + 1].start
  <2> DEFINE t == award.order[i + 1]
  <2>1. i + 1 \in 1..n /\ (i + 1) - 1 = i /\ i \in 0..n
    BY <1>3
  <2>2. w[i].done \in Nat /\ w[i].place \in PointsOf(a)
    BY <2>1, WalkSteps
  <2>3. /\ award.owner[t] # a => w[i + 1] = w[i]
        /\ award.owner[t] = a =>
             /\ w[i + 1].start = w[i].done + Way(a, w[i].place, Site[t])
             /\ w[i + 1].done = w[i + 1].start + Duration[t]
             /\ w[i + 1].place = Site[t] /\ Site[t] \in TargetsOf(a)
             /\ Duration[t] \in Nat \ {0}
    <3>1. \A k \in 1..n :
            LET u == award.order[k] IN
            /\ award.owner[u] # a => w[k] = w[k-1]
            /\ award.owner[u] = a =>
                 /\ w[k].start = w[k-1].done + Way(a, w[k-1].place, Site[u])
                 /\ w[k].done = w[k].start + Duration[u]
                 /\ w[k].place = Site[u] /\ Site[u] \in TargetsOf(a)
                 /\ Duration[u] \in Nat \ {0}
      BY WalkSteps
    <3> QED  BY <2>1, <3>1
  <2> HIDE DEF t
  <2>4. CASE award.owner[t] # a
    BY <1>3, <2>3, <2>4 DEF t
  <2>5. CASE award.owner[t] = a
    <3>1. /\ Way(a, w[i].place, Site[t]) \in Nat /\ Way(a, x, Site[t]) \in Nat
          /\ Way(a, x, w[i].place) \in Nat
          /\ Way(a, x, Site[t]) <= Way(a, x, w[i].place) + Way(a, w[i].place, Site[t])
      BY <1>2, <1>3, <2>2, <2>3, <2>5, Travel
    <3>2. T + Way(a, x, Site[t]) <= w[i + 1].start /\ w[i + 1].start \in Nat
      BY <1>3, <2>2, <2>3, <2>5, <3>1
    <3> QED  BY <2>3, <2>5, <3>1, <3>2 DEF t
  <2> QED  BY <2>4, <2>5
<1>4. j \in S
  OBVIOUS
<1>5. j..n \subseteq S
  <2>1. ASSUME NEW i \in j..n, i < n, i \in S
        PROVE  i + 1 \in S
    BY <1>3, <2>1
  <2> HIDE DEF S
  <2> QED  BY <1>1, <1>4, <2>1, IntervalInduction
<1>6. ASSUME NEW i \in (j + 1)..n, award.owner[award.order[i]] = a
      PROVE  T + Way(a, x, Site[award.order[i]]) <= w[i].start
  <2>1. i - 1 \in j..n /\ i - 1 < n /\ (i - 1) + 1 = i
    BY <1>6
  <2>2. On(i - 1)
    BY <1>5, <2>1
  <2> HIDE DEF On
  <2> QED  BY <1>3, <1>6, <2>1, <2>2
<1> QED  BY <1>5, <1>6

\* The walk of an agent in a wave, where it ends, and a task on it.
WalkOf(p, award, a) == Walk(a, award, p.place[a], Departure(p, a))
EndOf(p, award, a) == WalkOf(p, award, a)[Cardinality(Doable(p))]
IndexOf(p, award, t) == CHOOSE i \in 1..Cardinality(Doable(p)) : award.order[i] = t
StopAt(p, award, t) == WalkOf(p, award, award.owner[t])[IndexOf(p, award, t)]

\* Who walks in a wave, and what it did in the waves before.
LEMMA WaveTypes ==
  ASSUME RoadsOK, NEW p, PlanOK(p), NEW award \in Auctions(p)
  PROVE  /\ AwardOK(award, Doable(p)) /\ IsFiniteSet(Doable(p)) /\ Cardinality(Doable(p)) \in Nat
         /\ \A t \in Doable(p) :
              /\ award.owner[t] \in p.team /\ t \notin Assigned(p)
              /\ Preds[t] \subseteq Assigned(p)
              /\ IndexOf(p, award, t) \in 1..Cardinality(Doable(p))
              /\ award.order[IndexOf(p, award, t)] = t
         /\ \A a \in p.team :
              /\ a \in Agents /\ p.place[a] \in PointsOf(a)
              /\ Departure(p, a) \in Nat /\ p.since \in Nat
              /\ p.free[a] <= Departure(p, a) /\ p.since <= Departure(p, a)
         /\ \A s \in Assigned(p) :
              /\ p.owner[s] \in p.team /\ Site[s] \in TargetsOf(p.owner[s]) /\ p.done[s] \in Nat
              /\ p.place[p.owner[s]] \in TargetsOf(p.owner[s])
              /\ p.done[s] + Way(p.owner[s], Site[s], p.place[p.owner[s]]) <= p.free[p.owner[s]]
<1>1. tasks \subseteq Tasks /\ IsFiniteSet(Tasks)
  BY PlannerAssumption DEF RoadsOK, MissionOK
<1>2. Doable(p) \subseteq tasks
  BY DEF Doable, Frontier
<1>3. IsFiniteSet(Doable(p)) /\ Cardinality(Doable(p)) \in Nat
  BY <1>1, <1>2, FS_Subset, FS_CardinalityType
<1>4. /\ award.owner \in [Doable(p) -> p.team] /\ award.order \in Orders(Doable(p))
      /\ \A t \in Doable(p) : award.owner[t] \in Eligible[t]
  BY DEF Auctions
<1>5. AwardOK(award, Doable(p))
  BY <1>2, <1>4 DEF AwardOK
<1>6. ASSUME NEW t \in Doable(p)
      PROVE  /\ award.owner[t] \in p.team /\ t \notin Assigned(p)
             /\ Preds[t] \subseteq Assigned(p)
             /\ IndexOf(p, award, t) \in 1..Cardinality(Doable(p))
             /\ award.order[IndexOf(p, award, t)] = t
  <2>1. \E i \in 1..Cardinality(Doable(p)) : award.order[i] = t
    BY <1>4 DEF Orders
  <2>2. IndexOf(p, award, t) \in 1..Cardinality(Doable(p)) /\ award.order[IndexOf(p, award, t)] = t
    BY <2>1 DEF IndexOf
  <2> QED  BY <1>4, <2>2 DEF Doable, Frontier
<1>7. ASSUME NEW a \in p.team
      PROVE  /\ a \in Agents /\ p.place[a] \in PointsOf(a)
             /\ Departure(p, a) \in Nat /\ p.since \in Nat
             /\ p.free[a] <= Departure(p, a) /\ p.since <= Departure(p, a)
  <2>1. p.free[a] \in Nat /\ p.since \in Nat /\ a \in Agents /\ p.place[a] \in PointsOf(a)
    BY DEF PlanOK, PlanTypeOK, TeamOK
  <2> QED  BY <2>1 DEF Departure
<1>8. ASSUME NEW s \in Assigned(p)
      PROVE  /\ p.owner[s] \in p.team /\ Site[s] \in TargetsOf(p.owner[s]) /\ p.done[s] \in Nat
             /\ p.place[p.owner[s]] \in TargetsOf(p.owner[s])
             /\ p.done[s] + Way(p.owner[s], Site[s], p.place[p.owner[s]]) <= p.free[p.owner[s]]
  <2>1. s \in tasks /\ p.owner[s] # NoAgent
    BY DEF Assigned
  <2>2. p.owner[s] \in Eligible[s] /\ p.owner[s] \in p.team /\ p.done[s] \in Nat
    BY <1>8, <2>1 DEF PlanOK, PlanTypeOK, TimesOK
  <2>3. Site[s] \in TargetsOf(p.owner[s])
    BY <2>1, <2>2, PointTypes DEF RoadsOK
  <2> QED  BY <1>8, <2>2, <2>3 DEF PlanOK, TravelOK
<1> QED  BY <1>3, <1>5, <1>6, <1>7, <1>8

\* A walk ends at a point of the agent, after its departure.
LEMMA WaveEnds ==
  ASSUME RoadsOK, NEW p, PlanOK(p), NEW award \in Auctions(p), NEW a \in p.team
  PROVE  /\ EndOf(p, award, a).done \in Nat /\ Departure(p, a) <= EndOf(p, award, a).done
         /\ EndOf(p, award, a).place \in PointsOf(a)
<1> DEFINE w == WalkOf(p, award, a)
           n == Cardinality(Doable(p))
<1>1. w = Walk(a, award, p.place[a], Departure(p, a))
  BY DEF WalkOf
<1>2. EndOf(p, award, a) = w[n]
  BY DEF EndOf
<1>3. /\ AwardOK(award, Doable(p)) /\ n \in Nat /\ a \in Agents
      /\ p.place[a] \in PointsOf(a) /\ Departure(p, a) \in Nat
  BY WaveTypes
<1>4. n \in 0..n
  BY <1>3
<1> HIDE DEF w
<1>5. \A i \in 0..n : w[i].done \in Nat /\ Departure(p, a) <= w[i].done /\ w[i].place \in PointsOf(a)
  BY <1>1, <1>3, WalkSteps
<1> QED  BY <1>2, <1>4, <1>5

\* A task of a wave starts after the barrier, takes its time, and leaves time
\* to get to where the walk ends and to the tasks that come later on it.
LEMMA WaveStops ==
  ASSUME RoadsOK, NEW p, PlanOK(p), NEW award \in Auctions(p), NEW t \in Doable(p)
  PROVE  LET a == award.owner[t]  v == StopAt(p, award, t)  e == EndOf(p, award, a) IN
         /\ v.start \in Nat /\ v.done \in Nat /\ v.done = v.start + Duration[t]
         /\ p.since <= v.start
         /\ Site[t] \in TargetsOf(a) /\ e.place \in TargetsOf(a)
         /\ v.done + Way(a, Site[t], e.place) <= e.done
         /\ \A s \in Doable(p) :
              award.owner[s] = a /\ IndexOf(p, award, t) < IndexOf(p, award, s) =>
                v.done + Way(a, Site[t], Site[s]) <= StopAt(p, award, s).start
<1> DEFINE a == award.owner[t]
           w == WalkOf(p, award, a)
           n == Cardinality(Doable(p))
           j == IndexOf(p, award, t)
           from == p.place[a]
           depart == Departure(p, a)
<1>1. /\ AwardOK(award, Doable(p)) /\ n \in Nat /\ a \in Agents /\ from \in PointsOf(a)
      /\ depart \in Nat /\ p.since \in Nat /\ p.since <= depart
      /\ j \in 1..n /\ award.order[j] = t
  BY WaveTypes
<1>2. w = Walk(a, award, from, depart)
  BY DEF WalkOf
<1>3. EndOf(p, award, a) = w[n]
  BY DEF EndOf
<1>4. StopAt(p, award, t) = w[j]
  BY DEF StopAt
<1>5. ASSUME NEW s \in Doable(p), award.owner[s] = a
      PROVE  StopAt(p, award, s) = w[IndexOf(p, award, s)]
  BY <1>5 DEF StopAt
<1>6. ASSUME NEW s \in Doable(p)
      PROVE  IndexOf(p, award, s) \in 1..n /\ award.order[IndexOf(p, award, s)] = s
  BY WaveTypes
<1> HIDE DEF a, w, n, j, from, depart
<1>7. \A i \in 0..n : w[i].done \in Nat /\ depart <= w[i].done /\ w[i].place \in PointsOf(a)
  BY <1>1, <1>2, WalkSteps DEF n
<1>8. /\ w[j].start = w[j-1].done + Way(a, w[j-1].place, Site[t])
      /\ w[j].done = w[j].start + Duration[t]
      /\ w[j].place = Site[t] /\ Site[t] \in TargetsOf(a)
      /\ Duration[t] \in Nat \ {0}
  <2>1. \A i \in 1..n :
          LET u == award.order[i] IN
          award.owner[u] = a =>
            /\ w[i].start = w[i-1].done + Way(a, w[i-1].place, Site[u])
            /\ w[i].done = w[i].start + Duration[u]
            /\ w[i].place = Site[u] /\ Site[u] \in TargetsOf(a)
            /\ Duration[u] \in Nat \ {0}
    BY <1>1, <1>2, WalkSteps DEF n
  <2> QED  BY <1>1, <2>1 DEF a
<1>9. j - 1 \in 0..n /\ j \in 0..n /\ n \in j..n
  BY <1>1
<1>10. Way(a, w[j-1].place, Site[t]) \in Nat
  BY <1>1, <1>7, <1>8, <1>9, Travel
<1>11. w[j].start \in Nat /\ w[j].done \in Nat /\ p.since <= w[j].start
  BY <1>1, <1>7, <1>8, <1>9, <1>10
<1>12. w[j].done + Way(a, Site[t], w[j].place) <= w[j].done
  <2>1. Way(a, Site[t], Site[t]) = 0
    BY <1>1, <1>8, Travel, PointTypes DEF RoadsOK
  <2> QED  BY <1>8, <1>11, <2>1
<1> DEFINE T == w[j].done
<1>13. /\ \A i \in j..n :
            w[i].place \in TargetsOf(a) /\ T + Way(a, Site[t], w[i].place) <= w[i].done
       /\ \A i \in (j + 1)..n :
            award.owner[award.order[i]] = a =>
              T + Way(a, Site[t], Site[award.order[i]]) <= w[i].start
  <2>1. T \in Nat /\ Site[t] \in TargetsOf(a) /\ w[j].place \in TargetsOf(a)
        /\ T + Way(a, Site[t], w[j].place) <= w[j].done
    BY <1>8, <1>11, <1>12
  <2> HIDE DEF T
  <2> QED  BY <1>1, <1>2, <1>9, <2>1, WalkLater DEF n
<1>14. ASSUME NEW s \in Doable(p), award.owner[s] = a, j < IndexOf(p, award, s)
       PROVE  T + Way(a, Site[t], Site[s]) <= StopAt(p, award, s).start
  <2>1. IndexOf(p, award, s) \in (j + 1)..n /\ award.order[IndexOf(p, award, s)] = s
    BY <1>1, <1>6, <1>14
  <2> QED  BY <1>5, <1>13, <1>14, <2>1
<1>15. \A s \in Doable(p) :
         award.owner[s] = a /\ IndexOf(p, award, t) < IndexOf(p, award, s) =>
           w[j].done + Way(a, Site[t], Site[s]) <= StopAt(p, award, s).start
  BY <1>14 DEF j
<1>16. w[n].place \in TargetsOf(a) /\ w[j].done + Way(a, Site[t], w[n].place) <= w[n].done
  BY <1>9, <1>13
<1> HIDE DEF T
<1>17. /\ StopAt(p, award, t).start \in Nat /\ StopAt(p, award, t).done \in Nat
       /\ StopAt(p, award, t).done = StopAt(p, award, t).start + Duration[t]
       /\ p.since <= StopAt(p, award, t).start /\ Site[t] \in TargetsOf(a)
  BY <1>4, <1>8, <1>11
<1> QED  BY <1>3, <1>4, <1>15, <1>16, <1>17 DEF a

\* A task of a wave before leaves its owner the time to get to each task of
\* this one, and to where the walk ends.
LEMMA WaveAfter ==
  ASSUME RoadsOK, NEW p, PlanOK(p), NEW award \in Auctions(p), NEW s \in Assigned(p)
  PROVE  LET a == p.owner[s] IN
         /\ EndOf(p, award, a).place \in TargetsOf(a)
         /\ p.done[s] + Way(a, Site[s], EndOf(p, award, a).place) <= EndOf(p, award, a).done
         /\ \A t \in Doable(p) :
              award.owner[t] = a =>
                p.done[s] + Way(a, Site[s], Site[t]) <= StopAt(p, award, t).start
<1> DEFINE a == p.owner[s]
           w == WalkOf(p, award, a)
           n == Cardinality(Doable(p))
           from == p.place[a]
           depart == Departure(p, a)
           T == p.done[s]
<1>1. a \in p.team
  BY WaveTypes
<1>2. /\ AwardOK(award, Doable(p)) /\ n \in Nat /\ a \in Agents /\ from \in PointsOf(a)
      /\ depart \in Nat /\ p.free[a] <= depart
      /\ Site[s] \in TargetsOf(a) /\ T \in Nat /\ from \in TargetsOf(a)
      /\ T + Way(a, Site[s], from) <= p.free[a]
  BY <1>1, WaveTypes
<1>3. p.free[a] \in Nat /\ Way(a, Site[s], from) \in Nat
  BY <1>1, <1>2, Travel, PointTypes DEF RoadsOK, PlanOK, PlanTypeOK
<1>4. w = Walk(a, award, from, depart)
  BY DEF WalkOf
<1>5. EndOf(p, award, a) = w[n]
  BY DEF EndOf
<1>6. ASSUME NEW t \in Doable(p), award.owner[t] = a
      PROVE  /\ StopAt(p, award, t) = w[IndexOf(p, award, t)]
             /\ IndexOf(p, award, t) \in 1..n /\ award.order[IndexOf(p, award, t)] = t
  BY <1>6, WaveTypes DEF StopAt
<1> HIDE DEF a, w, n, from, depart, T
<1>7. w[0].place = from /\ w[0].done = depart
  BY <1>2, <1>4, WalkSteps DEF n
<1>8. w[0].place \in TargetsOf(a) /\ T + Way(a, Site[s], w[0].place) <= w[0].done
  BY <1>2, <1>3, <1>7
<1>9. /\ \A i \in 0..n :
           w[i].place \in TargetsOf(a) /\ T + Way(a, Site[s], w[i].place) <= w[i].done
      /\ \A i \in (0 + 1)..n :
           award.owner[award.order[i]] = a =>
             T + Way(a, Site[s], Site[award.order[i]]) <= w[i].start
  <2>1. 0 \in 0..n
    BY <1>2
  <2> QED  BY <1>2, <1>4, <1>8, <2>1, WalkLater DEF n
<1>10. \A t \in Doable(p) :
         award.owner[t] = a => T + Way(a, Site[s], Site[t]) <= StopAt(p, award, t).start
  BY <1>6, <1>9
<1>11. n \in 0..n
  BY <1>2
<1> QED  BY <1>5, <1>9, <1>10, <1>11 DEF a, T

Busy(p, award) == {award.owner[t] : t \in Doable(p)}

\* What a wave makes of a plan p.
WavedIs(q, p, award) ==
  /\ q.team = p.team
  /\ q.owner = [t \in tasks |-> IF t \in Doable(p) THEN award.owner[t] ELSE p.owner[t]]
  /\ q.start = [t \in tasks |-> IF t \in Doable(p) THEN StopAt(p, award, t).start ELSE p.start[t]]
  /\ q.done = [t \in tasks |-> IF t \in Doable(p) THEN StopAt(p, award, t).done ELSE p.done[t]]
  /\ q.free = [a \in p.team |->
                IF a \in Busy(p, award) THEN EndOf(p, award, a).done ELSE p.free[a]]
  /\ q.place = [a \in p.team |->
                 IF a \in Busy(p, award) THEN EndOf(p, award, a).place ELSE p.place[a]]
  /\ q.since = Max({EndOf(p, award, a).done : a \in Busy(p, award)})
  /\ q.epochs = p.epochs + 1

\* Waved is that.
LEMMA WavedFields ==
  ASSUME NEW p, NEW award \in Auctions(p)
  PROVE  WavedIs(Waved(p, award), p, award)
<1>1. award.owner \in [Doable(p) -> p.team]
  BY DEF Auctions
<1> DEFINE won == DOMAIN award.owner
           busy == {award.owner[t] : t \in won}
           walk == [a \in p.team |-> WalkOf(p, award, a)]
           end == [a \in p.team |-> walk[a][Cardinality(won)]]
           of(t) == walk[award.owner[t]][CHOOSE i \in 1..Cardinality(won) : award.order[i] = t]
           far == p.travelled + TotalFar(end)
<1>2. Waved(p, award) =
        [team |-> p.team,
         owner |-> [t \in tasks |-> IF t \in won THEN award.owner[t] ELSE p.owner[t]],
         start |-> [t \in tasks |-> IF t \in won THEN of(t).start ELSE p.start[t]],
         done |-> [t \in tasks |-> IF t \in won THEN of(t).done ELSE p.done[t]],
         free |-> [a \in p.team |-> IF a \in busy THEN end[a].done ELSE p.free[a]],
         place |-> [a \in p.team |-> IF a \in busy THEN end[a].place ELSE p.place[a]],
         since |-> Max({end[a].done : a \in busy}),
         epochs |-> p.epochs + 1, travelled |-> far]
  BY DEF Waved, WalkOf
<1> HIDE DEF far
<1>3. won = Doable(p)
  BY <1>1
<1>4. \A a \in p.team : end[a] = EndOf(p, award, a)
  BY <1>3 DEF EndOf
<1>5. \A t \in won : of(t) = StopAt(p, award, t)
  BY <1>1, <1>3 DEF StopAt, IndexOf
<1>6. busy \subseteq p.team
  BY <1>1
<1>7. {end[a].done : a \in busy} = {EndOf(p, award, a).done : a \in busy}
  BY <1>4, <1>6
<1> DEFINE q == Waved(p, award)
<1> HIDE DEF end, of, won, walk
<1>8. /\ q.team = p.team
      /\ q.owner = [t \in tasks |-> IF t \in won THEN award.owner[t] ELSE p.owner[t]]
      /\ q.start = [t \in tasks |-> IF t \in won THEN of(t).start ELSE p.start[t]]
      /\ q.done = [t \in tasks |-> IF t \in won THEN of(t).done ELSE p.done[t]]
      /\ q.free = [a \in p.team |-> IF a \in busy THEN end[a].done ELSE p.free[a]]
      /\ q.place = [a \in p.team |-> IF a \in busy THEN end[a].place ELSE p.place[a]]
      /\ q.since = Max({end[a].done : a \in busy})
      /\ q.epochs = p.epochs + 1
  BY <1>2 DEF q
<1> HIDE DEF q
<1>9. /\ q.start = [t \in tasks |-> IF t \in won THEN StopAt(p, award, t).start ELSE p.start[t]]
      /\ q.done = [t \in tasks |-> IF t \in won THEN StopAt(p, award, t).done ELSE p.done[t]]
  BY <1>5, <1>8
<1>10. /\ q.free = [a \in p.team |-> IF a \in busy THEN EndOf(p, award, a).done ELSE p.free[a]]
       /\ q.place = [a \in p.team |-> IF a \in busy THEN EndOf(p, award, a).place ELSE p.place[a]]
  BY <1>4, <1>8
<1> QED  BY <1>3, <1>7, <1>8, <1>9, <1>10 DEF q, WavedIs, Busy

\* The barrier after a wave is no earlier than the one before and than the end
\* of any walk of the wave.
LEMMA WaveBarrier ==
  ASSUME RoadsOK, NEW p, PlanOK(p), NEW award \in Auctions(p), Doable(p) # {},
         NEW q, q = Waved(p, award)
  PROVE  /\ q.since \in Nat /\ p.since <= q.since
         /\ \A t \in Doable(p) : EndOf(p, award, award.owner[t]).done <= q.since
<1> DEFINE busy == {award.owner[t] : t \in Doable(p)}
           ends == {EndOf(p, award, a).done : a \in busy}
<1>1. \A a \in busy : EndOf(p, award, a).done \in Nat /\ p.since \in Nat
                      /\ p.since <= EndOf(p, award, a).done
  <2> SUFFICES ASSUME NEW a \in busy
               PROVE  EndOf(p, award, a).done \in Nat /\ p.since \in Nat
                      /\ p.since <= EndOf(p, award, a).done
    OBVIOUS
  <2>1. a \in p.team
    BY WaveTypes
  <2>2. EndOf(p, award, a).done \in Nat /\ Departure(p, a) <= EndOf(p, award, a).done
    BY <2>1, WaveEnds
  <2>3. Departure(p, a) \in Nat /\ p.since \in Nat /\ p.since <= Departure(p, a)
    BY <2>1, WaveTypes
  <2> QED  BY <2>2, <2>3
<1>2. q.since = Max(ends)
  BY WavedFields DEF WavedIs, Busy
<1>3. IsFiniteSet(Doable(p))
  BY WaveTypes
<1>4. IsFiniteSet(busy)
  <2>1. [t \in Doable(p) |-> award.owner[t]] \in Surjection(Doable(p), busy)
    BY DEF Surjection
  <2> HIDE DEF busy
  <2> QED  BY <1>3, <2>1, FS_Surjection
<1>5. IsFiniteSet(ends)
  <2>1. [a \in busy |-> EndOf(p, award, a).done] \in Surjection(busy, ends)
    BY DEF Surjection
  <2> HIDE DEF busy, ends
  <2> QED  BY <1>4, <2>1, FS_Surjection
<1>6. ends \in SUBSET Nat /\ ends # {}
  BY <1>1
<1>7. Max(ends) \in ends /\ \A e \in ends : e <= Max(ends)
  <2> HIDE DEF ends
  <2> QED  BY <1>5, <1>6, MaxOfFinite
<1> QED  BY <1>1, <1>2, <1>6, <1>7

\* A wave keeps a plan one that can be carried out.
LEMMA WaveKeepsPlan ==
  ASSUME RoadsOK, NEW p, PlanOK(p), NEW award \in Auctions(p), Doable(p) # {},
         NEW q, q = Waved(p, award)
  PROVE  PlanOK(q)
<1> DEFINE won == Doable(p)
           busy == Busy(p, award)
<1>1. /\ q.team = p.team
      /\ q.owner = [t \in tasks |-> IF t \in won THEN award.owner[t] ELSE p.owner[t]]
      /\ q.start = [t \in tasks |-> IF t \in won THEN StopAt(p, award, t).start ELSE p.start[t]]
      /\ q.done = [t \in tasks |-> IF t \in won THEN StopAt(p, award, t).done ELSE p.done[t]]
      /\ q.free = [a \in p.team |-> IF a \in busy THEN EndOf(p, award, a).done ELSE p.free[a]]
      /\ q.place = [a \in p.team |-> IF a \in busy THEN EndOf(p, award, a).place ELSE p.place[a]]
      /\ q.epochs = p.epochs + 1
  <2>1. WavedIs(q, p, award)
    BY WavedFields
  <2> QED  BY <2>1 DEF WavedIs
<1>2. won \subseteq tasks /\ won # {} /\ \A t \in won : t \notin Assigned(p)
  BY DEF Doable, Frontier
<1>3. /\ PlanTypeOK(p) /\ TimesOK(p) /\ TravelOK(p) /\ p.team \subseteq Agents
  BY DEF PlanOK, PlanTypeOK, TeamOK
<1>4. \A t \in won : award.owner[t] \in p.team /\ award.owner[t] \in Eligible[t]
                     /\ award.owner[t] # NoAgent
  BY <1>3, WaveTypes, PlannerAssumption DEF AwardOK
<1>5. Assigned(q) = Assigned(p) \cup won
  BY <1>1, <1>2, <1>4 DEF Assigned
<1>6. /\ q.since \in Nat /\ p.since \in Nat /\ p.since <= q.since
      /\ \A t \in won : EndOf(p, award, award.owner[t]).done <= q.since
  BY <1>3, WaveBarrier DEF PlanTypeOK
<1>7. ASSUME NEW t \in won
      PROVE  LET a == award.owner[t] IN
             /\ q.owner[t] = a /\ a \in p.team /\ a \in Agents
             /\ q.start[t] = StopAt(p, award, t).start /\ q.done[t] = StopAt(p, award, t).done
             /\ q.start[t] \in Nat /\ q.done[t] \in Nat /\ q.done[t] = q.start[t] + Duration[t]
             /\ p.since <= q.start[t]
             /\ q.place[a] = EndOf(p, award, a).place /\ q.free[a] = EndOf(p, award, a).done
             /\ q.place[a] \in TargetsOf(a) /\ Site[t] \in TargetsOf(a)
             /\ q.done[t] + Way(a, Site[t], q.place[a]) <= q.free[a]
  <2> DEFINE a == award.owner[t]
  <2>1. /\ StopAt(p, award, t).start \in Nat /\ StopAt(p, award, t).done \in Nat
        /\ StopAt(p, award, t).done = StopAt(p, award, t).start + Duration[t]
        /\ p.since <= StopAt(p, award, t).start
        /\ Site[t] \in TargetsOf(a) /\ EndOf(p, award, a).place \in TargetsOf(a)
        /\ StopAt(p, award, t).done + Way(a, Site[t], EndOf(p, award, a).place)
             <= EndOf(p, award, a).done
    BY WaveStops
  <2>2. a \in busy /\ a \in p.team /\ t \in tasks /\ a \in Agents
    BY <1>2, <1>3, <1>4 DEF Busy
  <2>3. /\ q.owner[t] = a
        /\ q.start[t] = StopAt(p, award, t).start /\ q.done[t] = StopAt(p, award, t).done
        /\ q.place[a] = EndOf(p, award, a).place /\ q.free[a] = EndOf(p, award, a).done
    BY <1>1, <2>2
  <2> HIDE DEF a
  <2> QED  BY <2>1, <2>2, <2>3 DEF a
<1>8. ASSUME NEW s \in Assigned(p)
      PROVE  LET a == p.owner[s] IN
             /\ s \in tasks /\ s \notin won
             /\ q.owner[s] = a /\ q.start[s] = p.start[s] /\ q.done[s] = p.done[s]
             /\ a \in p.team /\ q.done[s] \in Nat
             /\ q.place[a] \in TargetsOf(a) /\ q.done[s] + Way(a, Site[s], q.place[a]) <= q.free[a]
             /\ \A t \in won : award.owner[t] = a =>
                                 q.done[s] + Way(a, Site[s], Site[t]) <= q.start[t]
  <2> DEFINE a == p.owner[s]
  <2>1. s \in tasks /\ s \notin won
    BY <1>2 DEF Assigned
  <2>2. /\ a \in p.team /\ p.done[s] \in Nat /\ p.place[a] \in TargetsOf(a)
        /\ p.done[s] + Way(a, Site[s], p.place[a]) <= p.free[a]
    BY WaveTypes
  <2>3. /\ EndOf(p, award, a).place \in TargetsOf(a)
        /\ p.done[s] + Way(a, Site[s], EndOf(p, award, a).place) <= EndOf(p, award, a).done
        /\ \A t \in Doable(p) :
             award.owner[t] = a => p.done[s] + Way(a, Site[s], Site[t]) <= StopAt(p, award, t).start
    BY WaveAfter
  <2>4. q.owner[s] = a /\ q.start[s] = p.start[s] /\ q.done[s] = p.done[s]
    BY <1>1, <2>1
  <2> HIDE DEF a, busy
  <2>5. \/ q.place[a] = EndOf(p, award, a).place /\ q.free[a] = EndOf(p, award, a).done
        \/ q.place[a] = p.place[a] /\ q.free[a] = p.free[a]
    BY <1>1, <2>2
  <2>6. \A t \in won : q.start[t] = StopAt(p, award, t).start
    BY <1>7
  <2> QED  BY <2>1, <2>2, <2>3, <2>4, <2>5, <2>6 DEF a
<1>9. PlanTypeOK(q)
  <2>1. TeamOK(q.team)
    BY <1>1, <1>3 DEF PlanTypeOK
  <2>2. q.owner \in [tasks -> q.team \cup {NoAgent}]
    BY <1>1, <1>3, <1>4 DEF PlanTypeOK
  <2>3. q.start \in [tasks -> Nat] /\ q.done \in [tasks -> Nat]
    <3>1. \A t \in tasks : q.start[t] \in Nat /\ q.done[t] \in Nat
      <4> SUFFICES ASSUME NEW t \in tasks
                   PROVE  q.start[t] \in Nat /\ q.done[t] \in Nat
        OBVIOUS
      <4>1. CASE t \in won
        BY <1>7, <4>1
      <4>2. CASE t \notin won
        BY <1>1, <1>3, <4>2 DEF PlanTypeOK
      <4> QED  BY <4>1, <4>2
    <3>2. DOMAIN q.start = tasks /\ DOMAIN q.done = tasks
          /\ q.start = [t \in tasks |-> q.start[t]] /\ q.done = [t \in tasks |-> q.done[t]]
      BY <1>1
    <3> QED  BY <3>1, <3>2
  <2>4. \A a \in p.team : EndOf(p, award, a).done \in Nat /\ EndOf(p, award, a).place \in PointsOf(a)
    BY WaveEnds
  <2>5. q.free \in [q.team -> Nat]
    BY <1>1, <1>3, <2>4 DEF PlanTypeOK
  <2>6. \A a \in q.team : q.place[a] \in PointsOf(a)
    BY <1>1, <1>3, <2>4 DEF PlanTypeOK
  <2>7. q.epochs \in Nat /\ q.epochs <= Cardinality(Assigned(q))
    <3>1. IsFiniteSet(Assigned(q)) /\ IsFiniteSet(Assigned(p))
      <4>1. Assigned(q) \subseteq Tasks /\ Assigned(p) \subseteq Tasks
        BY DEF Assigned, RoadsOK, MissionOK
      <4> QED  BY <4>1, PlannerAssumption, FS_Subset
    <3>2. Assigned(p) \subseteq Assigned(q) /\ Assigned(p) # Assigned(q)
      BY <1>2, <1>5
    <3>3. Cardinality(Assigned(p)) \in Nat /\ Cardinality(Assigned(q)) \in Nat
      BY <3>1, FS_CardinalityType
    <3>4. Cardinality(Assigned(p)) < Cardinality(Assigned(q))
      <4> DEFINE A == Assigned(p)  B == Assigned(q)
      <4> HIDE DEF A, B
      <4>1. Cardinality(A) <= Cardinality(B) /\ Cardinality(A) # Cardinality(B)
        BY <3>1, <3>2, FS_Subset DEF A, B
      <4>2. Cardinality(A) \in Nat /\ Cardinality(B) \in Nat
        BY <3>3 DEF A, B
      <4> QED  BY <4>1, <4>2 DEF A, B
    <3> QED  BY <1>1, <1>3, <3>3, <3>4 DEF PlanTypeOK
  <2>8. Known(LegPairs)
    BY DEF RoadsOK
  <2> QED  BY <1>6, <2>1, <2>2, <2>3, <2>5, <2>6, <2>7, <2>8 DEF PlanTypeOK
<1>10. TimesOK(q)
  <2> SUFFICES ASSUME NEW t \in Assigned(q)
               PROVE  /\ q.owner[t] \in Eligible[t]
                      /\ Preds[t] \subseteq Assigned(q)
                      /\ \A r \in Preds[t] : q.done[r] <= q.start[t]
                      /\ q.done[t] = q.start[t] + Duration[t] /\ q.done[t] <= q.since
    BY DEF TimesOK
  <2>1. CASE t \in Assigned(p)
    <3>1. /\ p.owner[t] \in Eligible[t]
          /\ Preds[t] \subseteq Assigned(p) /\ \A r \in Preds[t] : p.done[r] <= p.start[t]
          /\ p.done[t] = p.start[t] + Duration[t] /\ p.done[t] <= p.since
      BY <1>3, <2>1 DEF TimesOK
    <3>2. q.owner[t] = p.owner[t] /\ q.start[t] = p.start[t] /\ q.done[t] = p.done[t]
          /\ q.done[t] \in Nat
      BY <1>8, <2>1
    <3>3. \A r \in Preds[t] : q.done[r] = p.done[r]
      BY <1>8, <3>1
    <3> QED  BY <1>5, <1>6, <3>1, <3>2, <3>3
  <2>2. CASE t \in won
    <3> DEFINE a == award.owner[t]
    <3>1. /\ q.owner[t] = a /\ a \in p.team /\ a \in Agents
          /\ q.start[t] \in Nat /\ q.done[t] \in Nat /\ q.done[t] = q.start[t] + Duration[t]
          /\ p.since <= q.start[t] /\ Site[t] \in TargetsOf(a) /\ q.place[a] \in TargetsOf(a)
          /\ q.done[t] + Way(a, Site[t], q.place[a]) <= q.free[a]
          /\ q.free[a] = EndOf(p, award, a).done
      BY <1>7, <2>2
    <3>2. a \in Eligible[t] /\ Preds[t] \subseteq Assigned(p)
      BY <1>4, <2>2 DEF Doable, Frontier
    <3>3. \A r \in Preds[t] : q.done[r] = p.done[r] /\ q.done[r] \in Nat /\ p.done[r] <= p.since
      BY <1>3, <1>8, <3>2 DEF TimesOK
    <3>4. q.free[a] <= q.since /\ q.free[a] \in Nat
      BY <1>6, <2>2, <3>1, WaveEnds
    <3>5. Way(a, Site[t], q.place[a]) \in Nat
      <4>1. Site[t] \in PointsOf(a)
        BY <3>1, PointTypes DEF RoadsOK
      <4> QED  BY <3>1, <4>1, Travel
    <3> HIDE DEF a
    <3>6. q.done[t] <= q.since
      BY <1>6, <3>1, <3>4, <3>5
    <3>7. \A r \in Preds[t] : q.done[r] <= q.start[t]
      BY <1>6, <3>1, <3>3
    <3> QED  BY <1>5, <3>1, <3>2, <3>6, <3>7
  <2> QED  BY <1>5, <2>1, <2>2
<1>11. TravelOK(q)
  <2>1. ASSUME NEW t \in Assigned(q)
        PROVE  /\ q.place[q.owner[t]] \in TargetsOf(q.owner[t])
               /\ q.done[t] + Way(q.owner[t], Site[t], q.place[q.owner[t]]) <= q.free[q.owner[t]]
    BY <1>5, <1>7, <1>8
  <2>2. ASSUME NEW s \in Assigned(q), NEW t \in Assigned(q), s # t, q.owner[s] = q.owner[t]
        PROVE  \/ q.done[s] + Way(q.owner[t], Site[s], Site[t]) <= q.start[t]
               \/ q.done[t] + Way(q.owner[t], Site[t], Site[s]) <= q.start[s]
    <3>1. CASE s \in Assigned(p) /\ t \in Assigned(p)
      <4>1. /\ q.owner[s] = p.owner[s] /\ q.start[s] = p.start[s] /\ q.done[s] = p.done[s]
            /\ q.owner[t] = p.owner[t] /\ q.start[t] = p.start[t] /\ q.done[t] = p.done[t]
        BY <1>8, <3>1
      <4>2. \/ p.done[s] + Way(p.owner[t], Site[s], Site[t]) <= p.start[t]
            \/ p.done[t] + Way(p.owner[t], Site[t], Site[s]) <= p.start[s]
        BY <1>3, <2>2, <3>1, <4>1 DEF TravelOK
      <4> QED  BY <4>1, <4>2
    <3>2. CASE s \in Assigned(p) /\ t \in won
      <4>1. q.owner[s] = p.owner[s] /\ q.owner[t] = award.owner[t]
        BY <1>7, <1>8, <3>2
      <4> QED  BY <1>8, <2>2, <3>2, <4>1
    <3>3. CASE s \in won /\ t \in Assigned(p)
      <4>1. q.owner[t] = p.owner[t] /\ q.owner[s] = award.owner[s]
        BY <1>7, <1>8, <3>3
      <4> QED  BY <1>8, <2>2, <3>3, <4>1
    <3>4. CASE s \in won /\ t \in won
      <4>1. /\ q.owner[s] = award.owner[s] /\ q.owner[t] = award.owner[t]
            /\ q.start[s] = StopAt(p, award, s).start /\ q.done[s] = StopAt(p, award, s).done
            /\ q.start[t] = StopAt(p, award, t).start /\ q.done[t] = StopAt(p, award, t).done
        BY <1>7, <3>4
      <4>2. /\ IndexOf(p, award, s) \in 1..Cardinality(Doable(p))
            /\ IndexOf(p, award, t) \in 1..Cardinality(Doable(p))
            /\ award.order[IndexOf(p, award, s)] = s /\ award.order[IndexOf(p, award, t)] = t
            /\ Cardinality(Doable(p)) \in Nat
        BY <3>4, WaveTypes
      <4>3. \/ IndexOf(p, award, s) < IndexOf(p, award, t)
            \/ IndexOf(p, award, t) < IndexOf(p, award, s)
        BY <2>2, <4>2
      <4>4. \A u, v \in Doable(p) :
              award.owner[v] = award.owner[u] /\ IndexOf(p, award, u) < IndexOf(p, award, v) =>
                StopAt(p, award, u).done + Way(award.owner[u], Site[u], Site[v])
                  <= StopAt(p, award, v).start
        BY WaveStops
      <4> QED  BY <2>2, <3>4, <4>1, <4>3, <4>4
    <3> QED  BY <1>5, <3>1, <3>2, <3>3, <3>4
  <2> QED  BY <2>1, <2>2 DEF TravelOK
<1> QED  BY <1>9, <1>10, <1>11 DEF PlanOK

-----------------------------------------------------------------------------
(* Teams and how a rehearsal ends.                                         *)

\* A team the request permits is of the fleet, has nobody who is excluded, and
\* a permitted number of members.
LEMMA PermittedTeams ==
  ASSUME NEW team \in IF RequestConstrained THEN Teams ELSE {Agents}
  PROVE  TeamOK(team)
<1>1. IsFiniteSet(Agents) /\ Drones \subseteq Agents
  BY PlannerAssumption
<1>2. \A platform \in {Drones, Vehicles} : platform \subseteq Agents
  BY <1>1 DEF Vehicles
<1>3. ASSUME NEW platform \in {Drones, Vehicles}, NEW S \in SUBSET platform
      PROVE  /\ Cardinality(S) \in Nat /\ Cardinality(platform) \in Nat
             /\ Cardinality(S) <= Cardinality(platform)
  <2>1. IsFiniteSet(platform)
    BY <1>1, <1>2, FS_Subset
  <2>2. IsFiniteSet(S) /\ Cardinality(S) <= Cardinality(platform)
    BY <2>1, FS_Subset
  <2> QED  BY <2>1, <2>2, FS_CardinalityType
<1>4. ASSUME NEW c, NEW k \in Nat, NEW n \in Nat, k <= n
      PROVE  /\ Permitted(c, k) \subseteq Permitted(c, n)
             /\ ~ IsConstrained(c) => k \in Permitted(c, n)
  BY <1>4 DEF Permitted, IsConstrained, Unlimited
<1>5. CASE RequestConstrained
  <2>1. PICK D \in PlatformTeams(Drones), V \in PlatformTeams(Vehicles) : team = D \cup V
    BY <1>5 DEF Teams
  <2>2. ASSUME NEW platform \in {Drones, Vehicles}, NEW S \in PlatformTeams(platform)
        PROVE  /\ S \subseteq platform \ request.excluded
               /\ Cardinality(S) \in Permitted(CountFor(platform), Cardinality(platform))
    <3> DEFINE available == platform \ request.excluded
               c == CountFor(platform)
    <3>1. \/ ~ IsConstrained(c) /\ S = available
          \/ S \in SUBSET available /\ Cardinality(S) \in Permitted(c, Cardinality(available))
      BY DEF PlatformTeams
    <3>2. S \subseteq available
      BY <3>1
    <3>3. /\ Cardinality(S) \in Nat /\ Cardinality(platform) \in Nat
          /\ Cardinality(S) <= Cardinality(platform)
          /\ Cardinality(available) \in Nat /\ Cardinality(available) <= Cardinality(platform)
      BY <1>3, <3>2
    <3> HIDE DEF c, available
    <3>4. Cardinality(S) \in Permitted(c, Cardinality(platform))
      BY <1>4, <3>1, <3>3
    <3> QED  BY <3>2, <3>4 DEF c, available
  <2>3. /\ D \subseteq Drones \ request.excluded /\ V \subseteq Vehicles \ request.excluded
        /\ Cardinality(D) \in Permitted(CountFor(Drones), Cardinality(Drones))
        /\ Cardinality(V) \in Permitted(CountFor(Vehicles), Cardinality(Vehicles))
    BY <2>1, <2>2
  <2>4. team \cap Drones = D /\ team \cap Vehicles = V
    BY <2>1, <2>3 DEF Vehicles
  <2>5. team \subseteq Agents /\ team \cap request.excluded = {}
    BY <1>2, <2>1, <2>3
  <2> QED  BY <1>5, <2>3, <2>4, <2>5 DEF TeamOK
<1>6. CASE ~ RequestConstrained
  <2>1. team = Agents /\ request.excluded = {}
        /\ \A platform \in {Drones, Vehicles} : ~ IsConstrained(CountFor(platform))
    BY <1>6 DEF RequestConstrained, CountFor
  <2>2. ASSUME NEW platform \in {Drones, Vehicles}
        PROVE  Cardinality(team \cap platform)
                 \in Permitted(CountFor(platform), Cardinality(platform))
    <3>1. team \cap platform = platform
      BY <1>2, <2>1
    <3>2. Cardinality(platform) \in Nat
      BY <1>3
    <3> DEFINE n == Cardinality(platform)
               c == CountFor(platform)
    <3>3. n \in Permitted(c, n)
      <4>1. n \in Nat /\ n <= n /\ ~ IsConstrained(c)
        BY <2>1, <3>2
      <4> HIDE DEF n, c
      <4> QED  BY <1>4, <4>1
    <3> QED  BY <3>1, <3>3
  <2> QED  BY <2>1, <2>2 DEF TeamOK
<1> QED  BY <1>5, <1>6

\* Before the first wave nothing is assigned.
LEMMA FreshPlanOK ==
  ASSUME MissionOK, NEW team, TeamOK(team)
  PROVE  PlanOK(FreshPlan(team))
<1> DEFINE p == FreshPlan(team)
<1>1. /\ p.team = team /\ p.owner = [t \in tasks |-> NoAgent]
      /\ p.start = [t \in tasks |-> 0] /\ p.done = [t \in tasks |-> 0]
      /\ p.free = [a \in team |-> 0] /\ p.place = [a \in team |-> Home[a]]
      /\ p.since = 0 /\ p.epochs = 0
  BY DEF FreshPlan
<1> HIDE DEF p
<1>2. Assigned(p) = {}
  BY <1>1 DEF Assigned
<1>3. \A a \in team : Home[a] \in PointsOf(a)
  BY PointTypes DEF TeamOK
<1>4. p.epochs <= Cardinality(Assigned(p))
  BY <1>1, <1>2, FS_EmptySet
<1>5. PlanTypeOK(p)
  BY <1>1, <1>2, <1>3, <1>4 DEF PlanTypeOK
<1>6. TimesOK(p) /\ TravelOK(p)
  BY <1>2 DEF TimesOK, TravelOK
<1> QED  BY <1>5, <1>6 DEF PlanOK, p

\* There are as many epochs as a rehearsal can need: one that stops before it
\* is complete has no task left that could be assigned.
LEMMA StopsWhenStuck ==
  ASSUME MissionOK, NEW p, PlanOK(p), Stops(p), ~ Complete(p)
  PROVE  Doable(p) = {}
<1>1. IsFiniteSet(Tasks) /\ tasks \subseteq Tasks /\ MaxEpochs \in Nat
      /\ MaxEpochs >= Cardinality(Tasks)
  BY PlannerAssumption DEF MissionOK
<1>2. IsFiniteSet(tasks) /\ Cardinality(tasks) <= Cardinality(Tasks)
  BY <1>1, FS_Subset
<1>3. Assigned(p) \subseteq tasks /\ Assigned(p) # tasks
  BY DEF Assigned, Complete
<1> DEFINE A == Assigned(p)
<1>4. IsFiniteSet(A) /\ Cardinality(A) <= Cardinality(tasks) /\ Cardinality(A) # Cardinality(tasks)
  BY <1>2, <1>3, FS_Subset
<1>5. Cardinality(A) \in Nat /\ Cardinality(tasks) \in Nat /\ Cardinality(Tasks) \in Nat
  BY <1>1, <1>2, <1>4, FS_CardinalityType
<1>6. p.epochs \in Nat /\ p.epochs <= Cardinality(A)
  BY DEF PlanOK, PlanTypeOK
<1> HIDE DEF A
<1>7. p.epochs # MaxEpochs
  BY <1>1, <1>2, <1>4, <1>5, <1>6
<1> QED  BY <1>7 DEF Stops, Doable

\* A rehearsal with the whole fleet does every task.
LEMMA FleetCompletes ==
  ASSUME MissionOK, NEW p, PlanOK(p), Stops(p), p.team = Agents
  PROVE  Complete(p)
<1> SUFFICES ASSUME ~ Complete(p)
             PROVE  FALSE
  OBVIOUS
<1>1. Doable(p) = {}
  BY StopsWhenStuck
<1> DEFINE left == tasks \ Assigned(p)
<1>2. left # {}
  BY DEF Complete, Assigned
<1>3. PICK t \in left : Preds[t] \cap left = {}
  BY <1>2 DEF MissionOK
<1>4. t \in tasks /\ t \in Tasks /\ Preds[t] \subseteq tasks
  BY <1>3 DEF MissionOK
<1>5. Eligible[t] # {} /\ Eligible[t] \subseteq Agents
  BY <1>4, PlannerAssumption
<1>6. t \in Doable(p)
  BY <1>3, <1>4, <1>5 DEF Doable, Frontier
<1> QED  BY <1>1, <1>6

-----------------------------------------------------------------------------
(* Steps.                                                                  *)

\* An answer is given once, and kept.
AnswersKept ==
  \A e \in DOMAIN routes : e \in DOMAIN routes' /\ routes'[e] = routes[e]

\* However routes are used, the invariant is kept and so is each answer.
LEMMA RouteStep ==
  ASSUME RoutesInv, Unanswered,
         \/ Search
         \/ \E src, dst \in Nodes : Ask(src, dst)
         \/ UNCHANGED routeVars
  PROVE  RoutesInv' /\ Unanswered' /\ AnswersKept
<1>1. CASE Search
  <2>1. RoutesInv'
    BY <1>1, SearchKeeps
  <2>2. ASSUME NEW r, Answer(r)
        PROVE  Unanswered' /\ AnswersKept
    <3>1. /\ routes' = [p \in DOMAIN routes \cup {trip} |-> IF p = trip THEN r ELSE routes[p]]
          /\ trip' = NoTrip
      BY <2>2 DEF Answer
    <3>2. AnswersKept
      BY <3>1 DEF AnswersKept, Unanswered
    <3>3. DOMAIN routes' \subseteq Nodes \X Nodes
      BY <2>1 DEF RoutesInv, RoutesOK
    <3>4. NoTrip \notin DOMAIN routes'
      BY <3>3, RoutesAssumption
    <3> QED  BY <3>1, <3>2, <3>4 DEF Unanswered
  <2>3. CASE SkipStale \/ Relax
    <3>1. UNCHANGED <<trip, routes>>
      BY <2>3 DEF SkipStale, Relax
    <3> QED  BY <2>1, <3>1 DEF Unanswered, AnswersKept
  <2>4. CASE Found \/ Exhausted
    <3>1. \E r : Answer(r)
      BY <2>4 DEF Found, Exhausted
    <3> QED  BY <2>1, <2>2, <3>1
  <2> QED  BY <1>1, <2>3, <2>4 DEF Search
<1>2. ASSUME NEW src \in Nodes, NEW dst \in Nodes, Ask(src, dst)
      PROVE  RoutesInv' /\ Unanswered' /\ AnswersKept
  <2>1. RoutesInv'
    BY <1>2, AskKeeps
  <2>2. UNCHANGED routes /\ trip' = <<src, dst>> /\ <<src, dst>> \notin DOMAIN routes
    BY <1>2 DEF Ask
  <2> QED  BY <2>1, <2>2 DEF Unanswered, AnswersKept
<1>3. CASE UNCHANGED routeVars
  <2>1. RoutesInv'
    BY <1>3, UnchangedKeepsRoutes
  <2>2. UNCHANGED <<trip, routes>>
    BY <1>3 DEF routeVars
  <2> QED  BY <2>1, <2>2 DEF Unanswered, AnswersKept
<1> QED  BY <1>1, <1>2, <1>3

\* While answers are kept, so is all that rests on them.
LEMMA MissionKept ==
  ASSUME MissionOK, AnswersKept, UNCHANGED <<tasks, request>>
  PROVE  /\ MissionOK'
         /\ Known(ReachPairs) /\ AllReachable => (Known(ReachPairs) /\ AllReachable)'
         /\ \A team : TeamOK(team) => TeamOK(team)'
         /\ \A p : PlanOK(p) => PlanOK(p)'
         /\ \A p : Served(p) => Served(p)'
<1>1. MissionOK'
  BY DEF MissionOK
<1>2. Targets' = Targets /\ Starts' = Starts
  BY DEF Targets, Starts
<1>3. ReachPairs' = ReachPairs /\ LegPairs' = LegPairs
  BY <1>2 DEF ReachPairs, LegPairs
<1>4. \A S : Known(S) => Known(S)'
  BY DEF AnswersKept, Known
<1>5. ASSUME Known(ReachPairs), AllReachable
      PROVE  (Known(ReachPairs) /\ AllReachable)'
  BY <1>3, <1>5 DEF AnswersKept, Known, AllReachable
<1>6. RequestConstrained' = RequestConstrained
  BY DEF RequestConstrained
<1>7. \A S : CountFor(S)' = CountFor(S)
  BY DEF CountFor
<1>8. ASSUME NEW team, TeamOK(team)
      PROVE  TeamOK(team)'
  BY <1>6, <1>7, <1>8 DEF TeamOK
<1>9. ASSUME NEW p
      PROVE  Assigned(p)' = Assigned(p)
  BY DEF Assigned
<1>10. ASSUME NEW p, Served(p)
       PROVE  Served(p)'
  BY <1>9, <1>10 DEF Served, Complete
<1>11. \A a : TargetsOf(a)' = TargetsOf(a) /\ PointsOf(a)' = PointsOf(a)
  BY <1>2 DEF TargetsOf, PointsOf
<1>12. ASSUME Known(LegPairs), NEW a \in Agents, NEW x \in PointsOf(a), NEW y \in TargetsOf(a)
       PROVE  Way(a, x, y)' = Way(a, x, y)
  <2>1. CASE a \in Drones
    BY <2>1 DEF Way
  <2>2. CASE a \notin Drones
    <3>1. <<x, y>> \in LegPairs
      BY <1>12, <2>2, PointTypes
    <3>2. <<x, y>> \in DOMAIN routes
      BY <1>12, <3>1 DEF Known
    <3>3. routes'[<<x, y>>] = routes[<<x, y>>]
      BY <3>2 DEF AnswersKept
    <3> QED  BY <2>2, <3>3 DEF Way
  <2> QED  BY <2>1, <2>2
<1>13. ASSUME NEW p, PlanOK(p)
       PROVE  PlanOK(p)'
  <2>1. PlanTypeOK(p)'
    BY <1>3, <1>4, <1>8, <1>9, <1>11, <1>13 DEF PlanOK, PlanTypeOK, Known, AnswersKept
  <2>2. TimesOK(p)'
    BY <1>9, <1>13 DEF PlanOK, TimesOK
  <2>3. ASSUME NEW s \in Assigned(p)
        PROVE  /\ p.owner[s] \in Agents /\ Known(LegPairs)
               /\ p.place[p.owner[s]] \in TargetsOf(p.owner[s])
               /\ Site[s] \in TargetsOf(p.owner[s]) /\ Site[s] \in PointsOf(p.owner[s])
    <3>1. s \in tasks /\ p.owner[s] \in Eligible[s]
      BY <1>13 DEF PlanOK, TimesOK, Assigned
    <3>2. p.owner[s] \in Agents /\ Site[s] \in TargetsOf(p.owner[s])
      BY <3>1, PointTypes
    <3>3. Site[s] \in PointsOf(p.owner[s])
      BY <3>2, PointTypes
    <3>4. p.place[p.owner[s]] \in TargetsOf(p.owner[s])
      BY <1>13 DEF PlanOK, TravelOK
    <3> QED  BY <1>13, <3>2, <3>3, <3>4 DEF PlanOK, PlanTypeOK
  <2>4. ASSUME NEW s \in Assigned(p), NEW y \in TargetsOf(p.owner[s])
        PROVE  Way(p.owner[s], Site[s], y)' = Way(p.owner[s], Site[s], y)
    BY <1>12, <2>3
  <2>5. TravelOK(p)'
    BY <1>9, <1>11, <1>13, <2>3, <2>4 DEF PlanOK, TravelOK
  <2> QED  BY <2>1, <2>2, <2>5 DEF PlanOK
<1> QED  BY <1>1, <1>5, <1>8, <1>10, <1>13

\* The invariant holds at the start,
LEMMA InitLemma ==
  PlannerInit => PlannerInv
<1> SUFFICES ASSUME PlannerInit
             PROVE  PlannerInv
  OBVIOUS
<1>1. PICK s \in Scenarios : lanes = s.lanes /\ tasks = s.tasks /\ request = s.request
  BY DEF PlannerInit
<1>2. /\ trip = NoTrip /\ queue = {} /\ DOMAIN routes = {}
      /\ phase = "checking" /\ untried = {} /\ feasible = {}
  BY DEF PlannerInit, RoutesInit, NoSearch
<1>3. LanesOK /\ MissionOK
  BY <1>1, ScenarioAssumption DEF LanesOK, MissionOK
<1>4. SearchOK /\ RoutesOK /\ Unanswered
  BY <1>2 DEF SearchOK, RoutesOK, Unanswered
<1>5. MapOK /\ SearchedOK
  BY <1>2 DEF MapOK, SearchedOK
<1> QED  BY <1>3, <1>4, <1>5 DEF PlannerInv, RoutesInv

\* A step of the search over teams leaves the map and the mission alone.
LEMMA StepKeepsMap ==
  ASSUME PlannerInv, [PlannerNext]_plannerVars
  PROVE  /\ UNCHANGED <<tasks, request>> /\ RoutesInv' /\ Unanswered' /\ AnswersKept
<1>1. CASE UNCHANGED plannerVars
  <2>1. UNCHANGED routeVars /\ UNCHANGED <<tasks, request>>
    BY <1>1 DEF plannerVars
  <2> QED  BY <2>1, RouteStep DEF PlannerInv
<1>2. ASSUME NEW src \in Nodes, NEW dst \in Nodes, AskForMap(src, dst)
      PROVE  UNCHANGED <<tasks, request>> /\ Ask(src, dst)
  BY <1>2 DEF AskForMap
<1>3. CASE AskForLeg
  <2> DEFINE wanted == IF phase = "checking" THEN ReachPairs
                       ELSE IF phase = "rehearsing" THEN LegPairs ELSE {}
  <2>1. PICK e \in wanted : Ask(e[1], e[2])
    BY <1>3 DEF AskForLeg
  <2>2. e \in (Starts \cup Targets) \X Targets
    BY <2>1 DEF ReachPairs, LegPairs, Starts
  <2>3. Starts \subseteq Nodes /\ Targets \subseteq Nodes
    BY PointTypes DEF PlannerInv
  <2>4. e[1] \in Nodes /\ e[2] \in Nodes
    BY <2>2, <2>3
  <2>5. UNCHANGED <<tasks, request>>
    BY <1>3 DEF AskForLeg
  <2> QED  BY <2>1, <2>4, <2>5, RouteStep DEF PlannerInv
<1>4. CASE SearchStep
  BY <1>4, RouteStep DEF PlannerInv, SearchStep
<1>5. CASE CheckReachability \/ Choose \/ Wave \/ Judge
  <2>1. UNCHANGED routeVars /\ UNCHANGED <<tasks, request>>
    BY <1>5 DEF CheckReachability, Choose, Wave, Judge
  <2> QED  BY <2>1, RouteStep DEF PlannerInv
<1>6. CASE \E src, dst \in Nodes : AskForMap(src, dst)
  <2>1. UNCHANGED <<tasks, request>> /\ \E src, dst \in Nodes : Ask(src, dst)
    BY <1>2, <1>6
  <2> QED  BY <2>1, RouteStep DEF PlannerInv
<1> QED  BY <1>1, <1>3, <1>4, <1>5, <1>6 DEF PlannerNext

\* A plan that passes as a success serves.
LEMMA JudgedPlan ==
  ASSUME PlannerInv, phase = "rehearsing", Stops(plan), ~ RequestConstrained \/ Satisfies(plan)
  PROVE  PlanOK(plan) /\ Served(plan)
<1>1. PlanOK(plan) /\ MissionOK
  BY DEF PlannerInv, SearchedOK
<1>2. CASE Satisfies(plan)
  BY <1>1, <1>2 DEF Satisfies, Served
<1>3. CASE ~ RequestConstrained
  <2>1. plan.team = Agents /\ request.required = {}
    BY <1>1, <1>3 DEF PlanOK, PlanTypeOK, TeamOK, RequestConstrained
  <2>2. PICK p : p = plan
    OBVIOUS
  <2>3. Complete(p)
    BY <1>1, <2>1, <2>2, FleetCompletes
  <2> QED  BY <1>1, <2>1, <2>2, <2>3 DEF Served
<1> QED  BY <1>2, <1>3

\* A step keeps every plan, and every team, that is kept one that is right.
LEMMA StepKeepsSearch ==
  ASSUME PlannerInv, [PlannerNext]_plannerVars
  PROVE  SearchedOK'
<1>1. /\ SearchedOK /\ MissionOK /\ MapOK /\ RoutesInv
  BY DEF PlannerInv
<1>2. UNCHANGED <<tasks, request>> /\ AnswersKept
  BY StepKeepsMap
<1>3. /\ \A team : TeamOK(team) => TeamOK(team)'
      /\ \A p : PlanOK(p) => PlanOK(p)'
      /\ \A p : Served(p) => Served(p)'
  BY <1>1, <1>2, MissionKept
<1>4. PICK P : P = plan'  OBVIOUS
<1>5. PICK U : U = untried'  OBVIOUS
<1>6. PICK F : F = feasible'  OBVIOUS
<1>7. SUFFICES /\ phase' = "rehearsing" => PlanOK(P)
               /\ \A team \in U : TeamOK(team)
               /\ \A p \in F : PlanOK(p) /\ Served(p)
               /\ phase' = "planned" => P \in F
  <2>1. /\ phase' = "rehearsing" => PlanOK(P)'
        /\ \A team \in U : TeamOK(team)'
        /\ \A p \in F : PlanOK(p)' /\ Served(p)'
        /\ phase' = "planned" => P \in F
    BY <1>3, <1>7
  <2> QED  BY <1>4, <1>5, <1>6, <2>1 DEF SearchedOK
<1>8. CASE UNCHANGED <<phase, untried, plan, feasible>>
  BY <1>1, <1>4, <1>5, <1>6, <1>8 DEF SearchedOK
<1>9. CASE CheckReachability
  BY <1>1, <1>4, <1>5, <1>6, <1>9 DEF CheckReachability, SearchedOK
<1>10. CASE Choose
  <2>1. feasible' = feasible /\ phase = "choosing"
    BY <1>10 DEF Choose
  <2>2. CASE UNCHANGED <<untried, plan>> /\ phase' \in {"refused", "infeasible"}
    BY <1>1, <1>4, <1>5, <1>6, <2>1, <2>2 DEF SearchedOK
  <2>3. CASE ~ (UNCHANGED <<untried, plan>> /\ phase' \in {"refused", "infeasible"})
    <3> DEFINE teams == IF RequestConstrained THEN Teams ELSE {Agents}
               first == CHOOSE T \in teams : TRUE
    <3>1. /\ ~ (RequestConstrained /\ Teams = {})
          /\ phase' = "rehearsing" /\ plan' = FreshPlan(first) /\ untried' = teams \ {first}
      BY <1>10, <2>3 DEF Choose
    <3>2. teams # {}
      BY <3>1
    <3>3. \A T \in teams : TeamOK(T)
      BY PermittedTeams
    <3> HIDE DEF teams
    <3>4. first \in teams
      BY <3>2
    <3> HIDE DEF first
    <3>5. PICK f : f = first  OBVIOUS
    <3>6. PlanOK(FreshPlan(f))
      BY <1>1, <3>3, <3>4, <3>5, FreshPlanOK
    <3> QED  BY <1>1, <1>4, <1>5, <1>6, <2>1, <3>1, <3>3, <3>5, <3>6 DEF SearchedOK
  <2> QED  BY <2>2, <2>3
<1>11. CASE Wave
  <2>1. /\ phase = "rehearsing" /\ Known(LegPairs) /\ ~ Stops(plan)
        /\ UNCHANGED <<phase, untried, feasible>>
    BY <1>11 DEF Wave, Rehearsing
  <2>2. PICK p : p = plan  OBVIOUS
  <2>3. PICK award \in Auctions(p) : P = Waved(p, award)
    BY <1>4, <1>11, <2>2 DEF Wave
  <2>4. PlanOK(p) /\ RoadsOK
    BY <1>1, <2>1, <2>2 DEF SearchedOK, RoadsOK, MapOK
  <2>5. Doable(p) # {}
    BY <2>1, <2>2 DEF Stops
  <2>6. PlanOK(P)
    BY <2>3, <2>4, <2>5, WaveKeepsPlan
  <2> QED  BY <1>1, <1>5, <1>6, <2>1, <2>6 DEF SearchedOK
<1>12. CASE Judge
  <2>1. /\ phase = "rehearsing" /\ Stops(plan)
        /\ F = IF ~ RequestConstrained \/ Satisfies(plan) THEN feasible \cup {plan} ELSE feasible
    BY <1>6, <1>12 DEF Judge, Rehearsing
  <2>2. \A p \in F : PlanOK(p) /\ Served(p)
    <3>1. \A p \in feasible : PlanOK(p) /\ Served(p)
      BY <1>1 DEF SearchedOK
    <3>2. ~ RequestConstrained \/ Satisfies(plan) => PlanOK(plan) /\ Served(plan)
      BY <2>1, JudgedPlan
    <3> QED  BY <2>1, <3>1, <3>2
  <2>3. CASE untried # {}
    <3> DEFINE next == CHOOSE T \in untried : TRUE
    <3>1. /\ next \in untried
          /\ phase' = "rehearsing" /\ U = untried \ {next} /\ P = FreshPlan(next)
      BY <1>4, <1>5, <1>12, <2>1, <2>3 DEF Judge
    <3> HIDE DEF next
    <3>2. PICK n : n = next  OBVIOUS
    <3>3. \A T \in untried : TeamOK(T)
      BY <1>1 DEF SearchedOK
    <3>4. PlanOK(FreshPlan(n))
      BY <1>1, <3>1, <3>2, <3>3, FreshPlanOK
    <3> QED  BY <2>2, <3>1, <3>2, <3>3, <3>4
  <2>4. CASE untried = {}
    <3>1. U = {} /\ (phase' = "infeasible" \/ (phase' = "planned" /\ P \in F))
      BY <1>4, <1>5, <1>6, <1>12, <2>4 DEF Judge
    <3> QED  BY <2>2, <3>1
  <2> QED  BY <2>3, <2>4
<1>13. CASE (\E src, dst \in Nodes : AskForMap(src, dst)) \/ AskForLeg \/ SearchStep
  BY <1>8, <1>13 DEF AskForMap, AskForLeg, SearchStep
<1>14. CASE UNCHANGED plannerVars
  BY <1>8, <1>14 DEF plannerVars
<1> QED  BY <1>9, <1>10, <1>11, <1>12, <1>13, <1>14 DEF PlannerNext

\* and every step keeps it.
LEMMA StepLemma ==
  PlannerInv /\ [PlannerNext]_plannerVars => PlannerInv'
<1> SUFFICES ASSUME PlannerInv, [PlannerNext]_plannerVars
             PROVE  PlannerInv'
  OBVIOUS
<1>1. UNCHANGED <<tasks, request>> /\ RoutesInv' /\ Unanswered' /\ AnswersKept
  BY StepKeepsMap
<1>2. MissionOK' /\ (Known(ReachPairs) /\ AllReachable => (Known(ReachPairs) /\ AllReachable)')
  BY <1>1, MissionKept DEF PlannerInv
<1>3. MapOK'
  <2> DEFINE Past == {"choosing", "rehearsing", "planned", "infeasible", "refused"}
  <2>1. \/ phase' = phase \/ phase \in Past
        \/ CheckReachability
    BY DEF PlannerNext, AskForMap, AskForLeg, SearchStep, Choose, Wave, Judge, Rehearsing,
           plannerVars
  <2>2. CASE CheckReachability
    BY <1>2, <2>2 DEF CheckReachability, MapOK
  <2>3. CASE phase' = phase \/ phase \in Past
    BY <1>2, <2>3 DEF PlannerInv, MapOK
  <2> QED  BY <2>1, <2>2, <2>3
<1>4. SearchedOK'
  BY StepKeepsSearch
<1> QED  BY <1>1, <1>2, <1>3, <1>4 DEF PlannerInv

-----------------------------------------------------------------------------
(* Theorems.                                                               *)

\* The inductive invariant of the planner.
THEOREM PlannerInvariant == PlannerSpec => []PlannerInv
  BY InitLemma, StepLemma, PTL DEF PlannerSpec

\* Whatever the lanes, a query answers with a shortest way, and with none only
\* where there is none (route_graph.py:71-103).
THEOREM RoutesAlwaysShortest == PlannerSpec => []RoutesShortest
<1>1. PlannerInv => RoutesShortest
  BY RightRoutesAreShortest DEF PlannerInv, RoutesInv
<1> QED  BY <1>1, PlannerInvariant, PTL

\* What passed the reachability check can be rehearsed with any team: no wave
\* asks for a leg that no lanes lead over (whole_graph.py:81, travel.py).
THEOREM WavesNeverRaise == PlannerSpec => []PlannerNeverRaises
<1>1. PlannerInv => PlannerNeverRaises
  <2> SUFFICES ASSUME PlannerInv, Rehearsing
               PROVE  ~ WaveRaises(plan)
    BY DEF PlannerNeverRaises
  <2>1. RoadsOK /\ PlanOK(plan)
    BY DEF PlannerInv, MapOK, SearchedOK, Rehearsing, RoadsOK
  <2>2. ASSUME NEW a \in plan.team \ Drones, NEW t \in Doable(plan), a \in Eligible[t],
               NEW from \in {plan.place[a]} \cup
                            {Site[s] : s \in {s \in Doable(plan) : a \in Eligible[s]}}
        PROVE  routes[<<from, Site[t]>>] # Unreachable
    <3>1. a \in Agents \ Drones /\ plan.place[a] \in PointsOf(a)
      BY <2>1 DEF PlanOK, PlanTypeOK, TeamOK
    <3>2. \A s \in Doable(plan) : a \in Eligible[s] =>
            Site[s] \in TargetsOf(a) /\ Site[s] \in PointsOf(a)
      BY <2>1, <3>1, PointTypes DEF RoadsOK, Doable, Frontier
    <3>3. from \in PointsOf(a) /\ Site[t] \in TargetsOf(a)
      BY <2>2, <3>1, <3>2
    <3> QED  BY <2>1, <3>1, <3>3, LegsExist DEF RoadsOK
  <2> QED  BY <2>2 DEF WaveRaises
<1> QED  BY <1>1, PlannerInvariant, PTL

\* A rehearsal that leaves a task over was made with a team that cannot do the
\* task, or one before it (allocate.py).
THEOREM UnfitAlwaysJustified == PlannerSpec => []UnfitJustified
<1>1. PlannerInv => UnfitJustified
  <2> SUFFICES ASSUME PlannerInv, Rehearsing, Stops(plan), ~ Complete(plan),
                      NEW t \in tasks \ Assigned(plan)
               PROVE  Eligible[t] \cap plan.team = {} \/ Preds[t] \ Assigned(plan) # {}
    BY DEF UnfitJustified
  <2>1. PICK p : p = plan  OBVIOUS
  <2>2. Doable(p) = {}
    BY <2>1, StopsWhenStuck DEF PlannerInv, SearchedOK, Rehearsing
  <2> QED  BY <2>1, <2>2 DEF Doable, Frontier
<1> QED  BY <1>1, PlannerInvariant, PTL

\* The plan that is published can be carried out and is what was asked for.
THEOREM ChosenTeamAlwaysServes == PlannerSpec => []ChosenTeamServes
<1>1. PlannerInv => ChosenTeamServes
  <2> SUFFICES ASSUME PlannerInv, phase = "planned"
               PROVE  /\ \A t \in tasks : plan.owner[t] \in plan.team \cap Eligible[t]
                      /\ \A t \in tasks : \A q \in Preds[t] : plan.done[q] <= plan.start[t]
                      /\ \A t, s \in tasks :
                           t # s /\ plan.owner[t] = plan.owner[s] /\ plan.done[s] <= plan.done[t] =>
                             plan.start[t] >= plan.done[s] + Leg(plan.owner[t], Site[s], t)
                      /\ request.required \subseteq {plan.owner[t] : t \in tasks}
                      /\ plan.team \cap request.excluded = {}
                      /\ \A platform \in {Drones, Vehicles} :
                           Cardinality(plan.team \cap platform)
                             \in Permitted(CountFor(platform), Cardinality(platform))
    BY DEF ChosenTeamServes
  <2>1. PICK p : p = plan  OBVIOUS
  <2>2. PlanTypeOK(p) /\ TimesOK(p) /\ TravelOK(p) /\ Served(p)
    BY <2>1 DEF PlannerInv, SearchedOK, PlanOK
  <2>3. Assigned(p) = tasks
    BY <2>2 DEF Served, Complete
  <2>4. ASSUME NEW t \in tasks
        PROVE  p.owner[t] \in p.team \cap Eligible[t]
    BY <2>2, <2>3 DEF PlanTypeOK, TimesOK, Assigned
  <2>5. ASSUME NEW t \in tasks, NEW s \in tasks, t # s, p.owner[t] = p.owner[s],
               p.done[s] <= p.done[t]
        PROVE  p.start[t] >= p.done[s] + Leg(p.owner[t], Site[s], t)
    <3> DEFINE a == p.owner[t]
    <3>1. RoadsOK
      BY <2>2, <2>3 DEF PlannerInv, MapOK, RoadsOK, PlanTypeOK
    <3>2. a \in Agents /\ a \in Eligible[t] /\ a \in Eligible[s]
      BY <2>2, <2>4, <2>5 DEF PlanTypeOK, TeamOK
    <3>3. /\ Site[t] \in TargetsOf(a) /\ Site[s] \in TargetsOf(a)
          /\ Site[t] \in PointsOf(a) /\ Site[s] \in PointsOf(a) /\ Duration[s] \in Nat \ {0}
      BY <3>1, <3>2, PointTypes DEF RoadsOK
    <3>4. Way(a, Site[t], Site[s]) \in Nat /\ Way(a, Site[s], Site[t]) \in Nat
      BY <3>1, <3>2, <3>3, Travel
    <3>5. /\ p.start[t] \in Nat /\ p.start[s] \in Nat /\ p.done[s] \in Nat /\ p.done[t] \in Nat
          /\ p.done[s] = p.start[s] + Duration[s]
      BY <2>2, <2>3 DEF PlanTypeOK, TimesOK
    <3>6. \/ p.done[s] + Way(a, Site[s], Site[t]) <= p.start[t]
          \/ p.done[t] + Way(a, Site[t], Site[s]) <= p.start[s]
      BY <2>2, <2>3, <2>5 DEF TravelOK
    <3>7. Leg(a, Site[s], t) = Way(a, Site[s], Site[t])
      BY DEF Leg, Way
    <3> HIDE DEF a
    <3>8. p.done[s] + Way(a, Site[s], Site[t]) <= p.start[t]
      BY <2>5, <3>3, <3>4, <3>5, <3>6
    <3>9. p.start[t] >= p.done[s] + Leg(a, Site[s], t)
      BY <3>4, <3>5, <3>7, <3>8
    <3> QED  BY <3>9 DEF a
  <2>6. \A t \in tasks : \A q \in Preds[t] : p.done[q] <= p.start[t]
    BY <2>2, <2>3 DEF TimesOK
  <2>7. TeamOK(p.team) /\ request.required \subseteq {p.owner[t] : t \in tasks}
    BY <2>2 DEF PlanTypeOK, Served
  <2> QED  BY <2>1, <2>4, <2>5, <2>6, <2>7 DEF TeamOK
<1> QED  BY <1>1, PlannerInvariant, PTL

=============================================================================
