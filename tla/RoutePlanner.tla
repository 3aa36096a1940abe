---------------------------- MODULE RoutePlanner ----------------------------
(* The dispatcher's map (AGVGraph) and the search for routes on it         *)
(* (PathPlanner): A* for an order and for the page; for the resolver of    *)
(* conflicts A* around a blocked node or around the edges of the present   *)
(* route, and Dijkstra's algorithm where that finds nothing.               *)
(*                                                                         *)
(* Nodes and edges are like those GraphDataGenerator makes: enabled, open  *)
(* in both directions, of priority 1, and an edge weighs no less than the  *)
(* distance of its ends.  HashSets are searched in any order: any of       *)
(* several best nodes may be the next one.                                 *)
EXTENDS Integers, Sequences, SequencesExt, FiniteSets, FiniteSetsExt

CONSTANTS
  MapNodes,     \* the nodes of the map
  Distance,     \* the Euclidean distance of each two
  Weights,      \* what an edge between them may weigh: straight, or a curve
  Unreached     \* Double.MAX_VALUE

Pairs == {p \in SUBSET MapNodes : Cardinality(p) = 2}

ASSUME MapAssumption ==
  /\ IsFiniteSet(MapNodes) /\ Unreached \in Nat \ {0}
  /\ Distance \in [Pairs -> Nat \ {0}] /\ Weights \in [Pairs -> SUBSET Nat]
  /\ \A p \in Pairs, w \in UNION {Weights[q] : q \in Pairs} : w \in Weights[p] => w >= Distance[p]
  /\ \A m, n, k \in MapNodes : Cardinality({m, n, k}) = 3 =>
       Distance[{m, k}] <= Distance[{m, n}] + Distance[{n, k}]

VARIABLES
  roads,        \* adjacencyList: what the edge between two nodes weighs, 0 for none
  stage,        \* building the map, searching, found or none
  algorithm, startId, endId,
  avoidNodes, avoidEdges,
  openSet,      \* unvisited in Dijkstra's algorithm
  gScore,       \* distances there
  cameFrom,     \* previousNodes there
  route         \* nodeSequence of the last route found

plan == <<roads, stage, algorithm, startId, endId, avoidNodes, avoidEdges, openSet,
          gScore, cameFrom, route>>
query == <<algorithm, startId, endId, avoidNodes, avoidEdges>>

NoNode == 0

PlanTypeOK ==
  /\ roads \in [Pairs -> Nat] /\ \A p \in Pairs : roads[p] \in Weights[p] \cup {0}
  /\ stage \in {"building", "searching", "found", "none"}
  /\ algorithm \in {"A*", "Dijkstra"} /\ {startId, endId} \subseteq MapNodes \cup {NoNode}
  /\ avoidNodes \subseteq MapNodes /\ avoidEdges \subseteq Pairs /\ openSet \subseteq MapNodes
  /\ gScore \in [MapNodes -> 0..Unreached] /\ cameFrom \in [MapNodes -> MapNodes \cup {NoNode}]
  /\ route \in Seq(MapNodes)

NoScores == [n \in MapNodes |-> Unreached]
NoOrigins == [n \in MapNodes |-> NoNode]

PlanInit ==
  /\ roads = [p \in Pairs |-> 0] /\ stage = "building" /\ route = <<>>
  /\ algorithm = "A*" /\ startId = NoNode /\ endId = NoNode
  /\ avoidNodes = {} /\ avoidEdges = {} /\ openSet = {} /\ gScore = NoScores /\ cameFrom = NoOrigins

-----------------------------------------------------------------------------
(* addEdge enters the edge at both ends; of several edges between the same *)
(* two nodes the last one counts.                                          *)
AddEdge(p, weight) ==
  /\ stage = "building" /\ roads' = [roads EXCEPT ![p] = weight]
  /\ UNCHANGED <<stage, query, openSet, gScore, cameFrom, route>>

StartSearch(a, start, end, nodes, edges) ==
  /\ stage' = "searching" /\ algorithm' = a /\ startId' = start /\ endId' = end
  /\ avoidNodes' = nodes /\ avoidEdges' = edges
  /\ openSet' = IF a = "A*" THEN {start} ELSE MapNodes
  /\ gScore' = [NoScores EXCEPT ![start] = 0] /\ cameFrom' = NoOrigins
  /\ UNCHANGED <<roads, route>>

FindOptimalPath(start, end) == stage = "building" /\ StartSearch("A*", start, end, {}, {})

(* The AGV is at the k-th node of its route when it meets the conflict. *)
FindBypassPath(k, blocked) ==
  /\ stage = "found" /\ k \in 1..Len(route)
  /\ StartSearch("A*", route[k], endId, {blocked}, {})

EdgesOf(r) == {{r[i], r[i + 1]} : i \in 1..(Len(r) - 1)}

FindAlternativeRoute(k) ==
  /\ stage = "found" /\ k \in 1..Len(route)
  /\ StartSearch("A*", route[k], endId, {}, EdgesOf(route))

(* findAlternativeRoute finds no other route: the shortest will do. *)
FallBack ==
  /\ stage = "none" /\ avoidEdges # {}
  /\ StartSearch("Dijkstra", startId, endId, {}, {})

-----------------------------------------------------------------------------
(* Mutant: the squares of the differences are added but no root is taken. *)
HeuristicSquared(n) == IF algorithm = "Dijkstra" \/ n = endId THEN 0 ELSE Distance[{n, endId}]^2

Heuristic(n) == IF algorithm = "Dijkstra" \/ n = endId THEN 0 ELSE Distance[{n, endId}]

(* The nodes that may be taken from the open set next. *)
Nearest ==
  LET reached == {n \in openSet : gScore[n] < Unreached}
  IN {n \in reached : \A m \in reached : gScore[n] + Heuristic(n) <= gScore[m] + Heuristic(m)}

Avoided(n, m) == m \in avoidNodes \/ {n, m} \in avoidEdges
Neighbors(n) == {m \in MapNodes \ {n} : roads[{n, m}] > 0}

(* Mutant: a node that has been reached is not looked at again. *)
BetterAtFirst(n) == {m \in Neighbors(n) : gScore[m] = Unreached /\ ~Avoided(n, m)}

(* The neighbours to which the way over n is better than the one known. *)
Better(n) ==
  {m \in Neighbors(n) : /\ gScore[n] + roads[{n, m}] < gScore[m]
                        /\ ~Avoided(n, m)
                        /\ algorithm = "Dijkstra" => m \in openSet}

Visit(n) ==
  /\ stage = "searching" /\ n \in Nearest /\ n # endId
  /\ openSet' = (openSet \ {n}) \cup (IF algorithm = "A*" THEN Better(n) ELSE {})
  /\ gScore' = [m \in MapNodes |-> IF m \in Better(n) THEN gScore[n] + roads[{n, m}] ELSE gScore[m]]
  /\ cameFrom' = [m \in MapNodes |-> IF m \in Better(n) THEN n ELSE cameFrom[m]]
  /\ UNCHANGED <<roads, stage, query, route>>

(* buildPath: from the end back to the start. *)
LeadsBack(r) ==
  /\ r # <<>> /\ r[Len(r)] = endId /\ r[1] = startId
  /\ \A i \in 2..Len(r) : r[i] # startId /\ r[i - 1] = cameFrom[r[i]]

BuildPath == CHOOSE r \in SeqOf(MapNodes, Cardinality(MapNodes)) : LeadsBack(r)

Arrive ==
  /\ stage = "searching" /\ endId \in Nearest
  /\ stage' = "found" /\ route' = BuildPath
  /\ UNCHANGED <<roads, query, openSet, gScore, cameFrom>>

NoPath ==
  /\ stage = "searching" /\ Nearest = {} /\ stage' = "none"
  /\ UNCHANGED <<roads, query, openSet, gScore, cameFrom, route>>

PlanNext ==
  \/ \E p \in Pairs : \E weight \in Weights[p] : AddEdge(p, weight)
  \/ \E start, end \in MapNodes : FindOptimalPath(start, end)
  \/ \E k \in 1..Len(route) : FindAlternativeRoute(k) \/ \E n \in MapNodes : FindBypassPath(k, n)
  \/ FallBack \/ Arrive \/ NoPath
  \/ \E n \in openSet : Visit(n)

PlanSpec == PlanInit /\ [][PlanNext]_plan

-----------------------------------------------------------------------------
(* The length of the shortest way of at most k edges from the start to     *)
(* each node over what is not to be avoided.                               *)
Within[k \in 0..Cardinality(MapNodes)] ==
  IF k = 0 THEN [NoScores EXCEPT ![startId] = 0]
  ELSE LET shorter == Within[k - 1]
           over(n, m) == IF Avoided(n, m) THEN Unreached
                         ELSE shorter[n] + roads[{n, m}]
       IN [m \in MapNodes |-> Min({shorter[m]} \cup {over(n, m) : n \in Neighbors(m)})]

Shortest == Min({Unreached, Within[Cardinality(MapNodes)][endId]})

(* A search ends with a route from where it was to begin to its end, over  *)
(* edges of the map, each segment as long as its edge, around everything   *)
(* that was to be avoided.  (Whoever falls back avoids nothing.)           *)
RouteIsWay ==
  stage = "found" =>
    /\ route[1] = startId /\ route[Len(route)] = endId
    /\ \A i \in 2..Len(route) :
         LET edge == {route[i - 1], route[i]}
         IN /\ roads[edge] > 0 /\ gScore[route[i]] - gScore[route[i - 1]] = roads[edge]
            /\ ~Avoided(route[i - 1], route[i])

(* No such route is shorter; a search ends without one only if there is    *)
(* none.                                                                   *)
RouteIsShortest ==
  /\ RouteIsWay
  /\ stage = "found" => gScore[endId] = Shortest
  /\ stage = "none" => Shortest = Unreached
=============================================================================
