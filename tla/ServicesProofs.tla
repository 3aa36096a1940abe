--------------------------- MODULE ServicesProofs ---------------------------
(* The search for routes, for any finite map on which an edge weighs no     *)
(* less than the distance of its ends; the session with the robot, for any  *)
(* number of losses; and the composition that TLC checks.                   *)
EXTENDS MCServices, SequenceTheorems, FiniteSetTheorems, WellFoundedInduction

-----------------------------------------------------------------------------
(* Numbers *)

LessThan == {ss \in Nat \X Nat : ss[1] < ss[2]}

LEMMA LessThanWellFounded == IsWellFoundedOn(LessThan, Nat)
  BY NatLessThanWellFounded, Zenon DEF OpToRel, LessThan

\* A set of numbers that is not empty has a least one.
LEMMA LeastNumber ==
  ASSUME NEW T \in SUBSET Nat, T # {}
  PROVE  \E i \in T : \A j \in T : i <= j
  <1>1. PICK i \in T : \A j \in T : ~ (<<j, i>> \in LessThan)
    BY WFMin, LessThanWellFounded
  <1>2. ASSUME NEW j \in T PROVE i <= j
    <2>1. j \in Nat /\ i \in Nat /\ ~ (<<j, i>> \in LessThan)
      BY <1>1
    <2>2. QED
      BY <2>1 DEF LessThan
  <1>3. QED
    BY <1>2

\* Counting down, and counting up.
LEMMA Downwards ==
  ASSUME NEW n \in Nat, NEW D, n \in D, \A i \in 2..n : i \in D => i - 1 \in D, NEW i \in 1..n
  PROVE  i \in D
  <1> DEFINE T == {k \in 0..(n - 1) : n - k \notin D}
  <1>1. SUFFICES ASSUME T # {} PROVE FALSE
    <2>1. n - i \in 0..(n - 1) /\ n - (n - i) = i
      OBVIOUS
    <2>2. QED
      BY <1>1, <2>1
  <1>2. T \in SUBSET Nat
    OBVIOUS
  <1>3. PICK k \in T : \A j \in T : k <= j
    <2> HIDE DEF T
    <2> QED
      BY <1>1, <1>2, LeastNumber
  <1>4. k \in 0..(n - 1) /\ n - k \notin D /\ k # 0
    BY <1>3
  <1>5. k - 1 \in 0..(n - 1) /\ k - 1 \notin T
    <2>1. k - 1 \in 0..(n - 1) /\ ~(k <= k - 1)
      BY <1>4
    <2> HIDE DEF T
    <2>2. QED
      BY <1>3, <2>1
  <1>6. n - (k - 1) \in D /\ n - (k - 1) \in 2..n /\ (n - (k - 1)) - 1 = n - k
    BY <1>4, <1>5
  <1>7. QED
    BY <1>4, <1>6

LEMMA Upwards ==
  ASSUME NEW n \in Nat, NEW D, 0 \in D, \A i \in 1..n : i - 1 \in D => i \in D, NEW i \in 0..n
  PROVE  i \in D
  <1> DEFINE T == {k \in 0..n : k \notin D}
  <1>1. SUFFICES ASSUME T # {} PROVE FALSE
    BY <1>1
  <1>2. T \in SUBSET Nat
    OBVIOUS
  <1>3. PICK k \in T : \A j \in T : k <= j
    <2> HIDE DEF T
    <2> QED
      BY <1>1, <1>2, LeastNumber
  <1>4. k \in 1..n /\ k \notin D
    BY <1>3
  <1>5. k - 1 \in 0..n /\ ~(k <= k - 1)
    BY <1>4
  <1>6. k - 1 \notin T
    <2> HIDE DEF T
    <2> QED
      BY <1>3, <1>5
  <1>7. QED
    BY <1>4, <1>5, <1>6

-----------------------------------------------------------------------------
(* The search: invariants *)

\* Everything but the route has its type.
Searching ==
  /\ roads \in [Pairs -> Nat] /\ \A p \in Pairs : roads[p] \in Weights[p] \cup {0}
  /\ stage \in {"building", "searching", "found", "none"}
  /\ algorithm \in {"A*", "Dijkstra"} /\ {startId, endId} \subseteq MapNodes \cup {NoNode}
  /\ avoidNodes \subseteq MapNodes /\ avoidEdges \subseteq Pairs /\ openSet \subseteq MapNodes
  /\ gScore \in [MapNodes -> 0..Unreached] /\ cameFrom \in [MapNodes -> MapNodes \cup {NoNode}]
  /\ stage # "building" => startId \in MapNodes /\ endId \in MapNodes /\ gScore[startId] = 0

Open(n, m) == m \in Neighbors(n) /\ ~Avoided(n, m)
Known(n) == gScore[n] < Unreached

\* A node that has been reached was reached over a road that need not be avoided, from a
\* node that is nearer to the start by that road at least.
CameFrom(n, m) ==
  m = cameFrom[n] /\ Open(m, n) /\ gScore[m] + roads[{m, n}] <= gScore[n]
WayBack == \A n \in MapNodes : Known(n) /\ n # startId => \E m \in MapNodes : CameFrom(n, m)

\* From a node that need not be visited again no neighbour can be reached on a better way.
Relaxed ==
  \A n \in MapNodes \ openSet : Known(n) =>
    \A m \in MapNodes : Open(n, m) => gScore[m] <= gScore[n] + roads[{n, m}]

\* Dijkstra's algorithm visits the nodes in the order of their distances.
InTurn == algorithm = "Dijkstra" => \A n \in MapNodes \ openSet, m \in openSet : gScore[n] <= gScore[m]

\* The end is never visited.
EndWaits == Known(endId) => endId \in openSet

\* How a search ends.
Ended ==
  /\ stage = "found" => endId \in Nearest
  /\ stage = "none" => \A n \in openSet : ~Known(n)

SearchRight == stage # "building" => WayBack /\ Relaxed /\ InTurn /\ EndWaits /\ Ended

\* The route last found is one of the map's nodes, and the one the last search ended with.
RouteRead ==
  /\ route \in Seq(MapNodes)
  /\ stage = "found" => LeadsBack(route)

PlanInv == Searching /\ SearchRight /\ RouteRead

-----------------------------------------------------------------------------
(* The map *)

LEMMA PairOf ==
  ASSUME NEW n \in MapNodes, NEW m \in MapNodes, n # m
  PROVE  {n, m} \in Pairs /\ {n, m} = {m, n}
  <1>1. IsFiniteSet({n}) /\ Cardinality({n}) = 1
    BY FS_Singleton
  <1>2. Cardinality({n} \cup {m}) = 2
    BY <1>1, FS_AddElement
  <1>3. {n} \cup {m} = {n, m}
    OBVIOUS
  <1>4. QED
    BY <1>2, <1>3 DEF Pairs

LEMMA Triple ==
  ASSUME NEW m \in MapNodes, NEW n \in MapNodes, NEW k \in MapNodes, m # n, m # k, n # k
  PROVE  Cardinality({m, n, k}) = 3
  <1>1. IsFiniteSet({m}) /\ Cardinality({m}) = 1
    BY FS_Singleton
  <1>2. IsFiniteSet({m} \cup {n}) /\ Cardinality({m} \cup {n}) = 2
    BY <1>1, FS_AddElement
  <1>3. k \notin {m} \cup {n}
    OBVIOUS
  <1>4. Cardinality(({m} \cup {n}) \cup {k}) = 2 + 1
    BY <1>2, <1>3, FS_AddElement
  <1>5. ({m} \cup {n}) \cup {k} = {m, n, k}
    OBVIOUS
  <1>6. QED
    BY <1>4, <1>5

\* A road weighs something, and no less than the distance of its ends.
LEMMA Road ==
  ASSUME Searching, NEW n \in MapNodes, NEW m \in Neighbors(n)
  PROVE  /\ m \in MapNodes /\ m # n /\ {n, m} \in Pairs
         /\ roads[{n, m}] \in Nat /\ roads[{n, m}] > 0
         /\ Distance[{n, m}] \in Nat /\ roads[{n, m}] >= Distance[{n, m}]
  <1>1. m \in MapNodes /\ m # n /\ roads[{n, m}] > 0
    BY DEF Neighbors
  <1>2. {n, m} \in Pairs
    BY <1>1, PairOf
  <1>3. PICK p \in Pairs : p = {n, m}
    BY <1>2
  <1>4. roads[p] \in Nat /\ roads[p] \in Weights[p] \cup {0} /\ roads[p] > 0
    BY <1>1, <1>3 DEF Searching
  <1>5. roads[p] \in Weights[p]
    BY <1>4
  <1>6. roads[p] >= Distance[p] /\ Distance[p] \in Nat
    BY <1>5, MapAssumption
  <1>7. QED
    BY <1>1, <1>3, <1>4, <1>6

\* The heuristic promises no more than the next road and its promise from there.
LEMMA HeuristicTyped ==
  ASSUME Searching, stage # "building", NEW n \in MapNodes
  PROVE  Heuristic(n) \in Nat /\ (n = endId => Heuristic(n) = 0)
  <1>1. CASE algorithm = "Dijkstra" \/ n = endId
    BY <1>1 DEF Heuristic
  <1>2. CASE ~(algorithm = "Dijkstra" \/ n = endId)
    <2>1. {n, endId} \in Pairs
      BY <1>2, PairOf DEF Searching
    <2>2. Distance[{n, endId}] \in Nat
      BY <2>1, MapAssumption
    <2>3. QED
      BY <1>2, <2>2 DEF Heuristic
  <1>3. QED
    BY <1>1, <1>2

LEMMA Consistent ==
  ASSUME Searching, stage # "building", NEW n \in MapNodes, NEW m \in Neighbors(n)
  PROVE  Heuristic(n) <= roads[{n, m}] + Heuristic(m)
  <1>1. /\ m \in MapNodes /\ m # n /\ {n, m} \in Pairs /\ roads[{n, m}] \in Nat
        /\ Distance[{n, m}] \in Nat /\ roads[{n, m}] >= Distance[{n, m}] /\ endId \in MapNodes
    BY Road DEF Searching
  <1>2. Heuristic(m) \in Nat
    BY <1>1, HeuristicTyped
  <1>3. CASE algorithm = "Dijkstra" \/ n = endId
    BY <1>1, <1>2, <1>3 DEF Heuristic
  <1>4. CASE algorithm # "Dijkstra" /\ n # endId /\ m = endId
    BY <1>1, <1>2, <1>4 DEF Heuristic
  <1>5. CASE algorithm # "Dijkstra" /\ n # endId /\ m # endId
    <2>1. Distance[{n, endId}] <= Distance[{n, m}] + Distance[{m, endId}]
      BY <1>1, <1>5, Triple, MapAssumption
    <2>2. Distance[{n, endId}] \in Nat /\ Distance[{m, endId}] \in Nat
      <3>1. {n, endId} \in Pairs /\ {m, endId} \in Pairs
        BY <1>1, <1>5, PairOf
      <3>2. QED
        BY <3>1, MapAssumption
    <2>3. Heuristic(n) = Distance[{n, endId}] /\ Heuristic(m) = Distance[{m, endId}]
      BY <1>5 DEF Heuristic
    <2>4. QED
      BY <1>1, <2>1, <2>2, <2>3
  <1>6. QED
    BY <1>3, <1>4, <1>5

-----------------------------------------------------------------------------
(* Reading the route back *)

\* The way on which the search came to n.
Leads(r, n) ==
  /\ r \in Seq(MapNodes) /\ r # <<>> /\ r[Len(r)] = n /\ r[1] = startId
  /\ \A i \in 2..Len(r) : r[i] # startId /\ r[i - 1] = cameFrom[r[i]]

\* One step back.
LEMMA Back ==
  ASSUME Searching, stage # "building", WayBack, NEW n \in MapNodes, Known(n), n # startId
  PROVE  /\ cameFrom[n] \in MapNodes /\ Known(cameFrom[n]) /\ gScore[cameFrom[n]] < gScore[n]
         /\ Open(cameFrom[n], n) /\ gScore[cameFrom[n]] + roads[{cameFrom[n], n}] <= gScore[n]
  <1>1. PICK m \in MapNodes : CameFrom(n, m)
    BY DEF WayBack
  <1>2. m = cameFrom[n] /\ n \in Neighbors(m) /\ Open(m, n) /\ gScore[m] + roads[{m, n}] <= gScore[n]
    BY <1>1 DEF CameFrom, Open
  <1>3. roads[{m, n}] \in Nat /\ roads[{m, n}] > 0
    BY <1>2, Road
  <1>4. gScore[m] \in Nat /\ gScore[n] \in Nat /\ Unreached \in Nat
    BY MapAssumption DEF Searching
  <1>5. gScore[m] < gScore[n] /\ gScore[m] < Unreached
    BY <1>2, <1>3, <1>4 DEF Known
  <1>6. QED
    BY <1>1, <1>2, <1>5 DEF Known

\* It never goes in circles, so that there is such a way to every node that was reached.
LEMMA WayExists ==
  ASSUME Searching, stage # "building", WayBack, NEW n \in MapNodes, Known(n)
  PROVE  \E r : Leads(r, n)
  <1> DEFINE Lost == {m \in MapNodes : Known(m) /\ ~\E r : Leads(r, m)}
             T == {gScore[m] : m \in Lost}
  <1>1. SUFFICES ASSUME Lost # {} PROVE FALSE
    OBVIOUS
  <1>2. T \subseteq Nat /\ T # {}
    BY <1>1, MapAssumption DEF Searching
  <1>3. PICK i \in T : \A j \in T : i <= j
    <2> HIDE DEF T
    <2> QED
      BY <1>2, LeastNumber
  <1>4. PICK m \in Lost : i = gScore[m]
    OBVIOUS
  <1>5. m \in MapNodes /\ Known(m) /\ (~\E r : Leads(r, m)) /\ \A k \in Lost : gScore[m] <= gScore[k]
    BY <1>3, <1>4
  <1> HIDE DEF T
  <1>6. CASE m = startId
    <2>1. Leads(<<m>>, m)
      BY <1>5, <1>6 DEF Leads
    <2>2. QED
      BY <1>5, <2>1
  <1>7. CASE m # startId
    <2>1. PICK k \in MapNodes : k = cameFrom[m] /\ Known(k) /\ gScore[k] < gScore[m]
      BY <1>5, <1>7, Back
    <2>2. gScore[k] \in Nat /\ gScore[m] \in Nat
      BY <1>5, MapAssumption DEF Searching
    <2>3. k \notin Lost
      BY <1>5, <2>1, <2>2
    <2>4. PICK r : Leads(r, k)
      BY <2>1, <2>3
    <2> DEFINE s == Append(r, m)
    <2>5. r \in Seq(MapNodes) /\ Len(r) \in Nat /\ Len(r) >= 1
      BY <2>4 DEF Leads
    <2>6. /\ s \in Seq(MapNodes) /\ Len(s) = Len(r) + 1 /\ s # <<>>
          /\ \A j \in 1..Len(r) : s[j] = r[j]
          /\ s[Len(r) + 1] = m
      BY <1>5, <2>5
    <2> HIDE DEF s
    <2>7. s[1] = startId /\ s[Len(s)] = m
      BY <2>4, <2>5, <2>6 DEF Leads
    <2>8. ASSUME NEW j \in 2..Len(s) PROVE s[j] # startId /\ s[j - 1] = cameFrom[s[j]]
      <3>1. CASE j = Len(r) + 1
        <4>1. s[j] = m /\ s[j - 1] = r[Len(r)]
          BY <2>5, <2>6, <3>1
        <4>2. QED
          BY <1>7, <2>1, <2>4, <4>1 DEF Leads
      <3>2. CASE j # Len(r) + 1
        <4>1. j \in 2..Len(r) /\ j - 1 \in 1..Len(r) /\ j \in 1..Len(r)
          BY <2>5, <2>6, <3>2
        <4>2. s[j] = r[j] /\ s[j - 1] = r[j - 1]
          BY <2>6, <4>1
        <4>3. QED
          BY <2>4, <4>1, <4>2 DEF Leads
      <3>3. QED
        BY <3>1, <3>2
    <2>9. Leads(s, m)
      BY <2>6, <2>7, <2>8 DEF Leads
    <2>10. QED
      BY <1>5, <2>9
  <1>8. QED
    BY <1>6, <1>7

\* Whatever is on the way was reached, and each node later than the one before.
LEMMA WayKnown ==
  ASSUME Searching, stage # "building", WayBack, NEW n \in MapNodes, Known(n), NEW r, Leads(r, n)
  PROVE  /\ r \in Seq(MapNodes) /\ Len(r) \in Nat /\ Len(r) >= 1
         /\ \A i \in 1..Len(r) : r[i] \in MapNodes /\ Known(r[i])
         /\ \A i \in 2..Len(r) : /\ gScore[r[i - 1]] < gScore[r[i]] /\ Open(r[i - 1], r[i])
                                 /\ gScore[r[i - 1]] + roads[{r[i - 1], r[i]}] <= gScore[r[i]]
  <1>1. r \in Seq(MapNodes) /\ Len(r) \in Nat /\ Len(r) >= 1 /\ \A i \in 1..Len(r) : r[i] \in MapNodes
    BY DEF Leads
  <1>2. ASSUME NEW i \in 2..Len(r), Known(r[i])
        PROVE  /\ Known(r[i - 1])
               /\ gScore[r[i - 1]] < gScore[r[i]] /\ Open(r[i - 1], r[i])
               /\ gScore[r[i - 1]] + roads[{r[i - 1], r[i]}] <= gScore[r[i]]
    <2>1. r[i] \in MapNodes /\ r[i] # startId /\ r[i - 1] = cameFrom[r[i]]
      <3>1. i \in 1..Len(r)
        BY <1>1
      <3>2. QED
        BY <1>1, <3>1 DEF Leads
    <2>2. QED
      BY <1>2, <2>1, Back
  <1>3. \A i \in 1..Len(r) : Known(r[i])
    <2> DEFINE D == {i \in 1..Len(r) : Known(r[i])}
    <2>1. Len(r) \in D
      BY <1>1 DEF Leads
    <2>2. ASSUME NEW i \in 2..Len(r), i \in D PROVE i - 1 \in D
      <3>1. i - 1 \in 1..Len(r)
        BY <1>1
      <3>2. QED
        BY <1>2, <2>2, <3>1
    <2>3. ASSUME NEW i \in 1..Len(r) PROVE i \in D
      <3> HIDE DEF D
      <3>1. QED
        BY <1>1, <2>1, <2>2, Downwards
    <2>4. QED
      BY <2>3
  <1>4. ASSUME NEW i \in 2..Len(r) PROVE i \in 1..Len(r)
    BY <1>1
  <1>5. QED
    BY <1>1, <1>2, <1>3, <1>4

\* So there is no more on it than there are nodes.
LEMMA WayShort ==
  ASSUME Searching, stage # "building", WayBack, NEW n \in MapNodes, Known(n), NEW r, Leads(r, n)
  PROVE  r \in SeqOf(MapNodes, Cardinality(MapNodes))
  <1>1. /\ r \in Seq(MapNodes) /\ Len(r) \in Nat /\ Len(r) >= 1
        /\ \A i \in 1..Len(r) : r[i] \in MapNodes
        /\ \A i \in 2..Len(r) : gScore[r[i - 1]] < gScore[r[i]]
    BY WayKnown
  <1>2. \A i \in 1..Len(r) : gScore[r[i]] \in Nat
    BY <1>1, MapAssumption DEF Searching
  <1>3. \A i, j \in 1..Len(r) : i < j => gScore[r[i]] < gScore[r[j]]
    <2> SUFFICES ASSUME NEW i \in 1..Len(r) PROVE \A j \in 1..Len(r) : i < j => gScore[r[i]] < gScore[r[j]]
      OBVIOUS
    <2> DEFINE T == {j \in 1..Len(r) : i < j /\ ~(gScore[r[i]] < gScore[r[j]])}
    <2>1. SUFFICES ASSUME T # {} PROVE FALSE
      OBVIOUS
    <2>2. T \subseteq Nat
      BY <1>1
    <2>3. PICK j \in T : \A k \in T : j <= k
      <3> HIDE DEF T
      <3> QED
        BY <2>1, <2>2, LeastNumber
    <2>4. j \in 2..Len(r) /\ j - 1 \in 1..Len(r) /\ j \in 1..Len(r) /\ i < j /\ ~(gScore[r[i]] < gScore[r[j]])
      BY <1>1, <2>3
    <2>5. gScore[r[j - 1]] < gScore[r[j]]
      BY <1>1, <2>4
    <2>6. j - 1 \notin T
      BY <2>2, <2>3, <2>4
    <2>7. i = j - 1 \/ gScore[r[i]] < gScore[r[j - 1]]
      BY <2>4, <2>6
    <2>8. gScore[r[i]] \in Nat /\ gScore[r[j - 1]] \in Nat /\ gScore[r[j]] \in Nat
      BY <1>2, <2>4
    <2>9. QED
      BY <2>4, <2>5, <2>7, <2>8
  <1>4. r \in [1..Len(r) -> MapNodes]
    BY <1>1
  <1>5. \A i, j \in 1..Len(r) : r[i] = r[j] => i = j
    <2>1. ASSUME NEW i \in 1..Len(r), NEW j \in 1..Len(r), r[i] = r[j] PROVE i = j
      <3>1. ~(i < j) /\ ~(j < i)
        BY <1>2, <1>3, <2>1
      <3>2. QED
        BY <1>1, <3>1
    <2>2. QED
      BY <2>1
  <1>6. r \in Injection(1..Len(r), MapNodes)
    BY <1>4, <1>5 DEF Injection, IsInjective
  <1>7. Cardinality(1..Len(r)) <= Cardinality(MapNodes)
    BY <1>6, FS_Injection, MapAssumption
  <1>8. Cardinality(1..Len(r)) = Len(r)
    BY <1>1, FS_Interval
  <1>9. Cardinality(MapNodes) \in Nat
    BY FS_CardinalityType, MapAssumption
  <1>10. Len(r) \in 0..Cardinality(MapNodes)
    BY <1>1, <1>7, <1>8, <1>9
  <1>11. QED
    BY <1>4, <1>10 DEF SeqOf

\* buildPath comes to the start.
LEMMA PathBuilt ==
  ASSUME Searching, stage # "building", WayBack, Known(endId)
  PROVE  BuildPath \in Seq(MapNodes) /\ LeadsBack(BuildPath)
  <1>1. endId \in MapNodes
    BY DEF Searching
  <1>2. PICK r : Leads(r, endId)
    BY <1>1, WayExists
  <1>3. r \in SeqOf(MapNodes, Cardinality(MapNodes)) /\ LeadsBack(r)
    BY <1>1, <1>2, WayShort DEF Leads, LeadsBack
  <1>4. BuildPath \in SeqOf(MapNodes, Cardinality(MapNodes)) /\ LeadsBack(BuildPath)
    BY <1>3, Zenon DEF BuildPath
  <1>5. PICK b : b = BuildPath
    OBVIOUS
  <1>6. PICK k \in 0..Cardinality(MapNodes) : b \in [1..k -> MapNodes]
    BY <1>4, <1>5 DEF SeqOf
  <1>7. Cardinality(MapNodes) \in Nat
    BY FS_CardinalityType, MapAssumption
  <1>8. b \in Seq(MapNodes)
    BY <1>6, <1>7, SeqDef
  <1>9. QED
    BY <1>4, <1>5, <1>8

-----------------------------------------------------------------------------
(* The steps of a search *)

Numbers == /\ Unreached \in Nat /\ Unreached # 0
           /\ \A n \in MapNodes : gScore[n] \in Nat /\ gScore[n] <= Unreached

LEMMA ScoresTyped == Searching => Numbers
  BY MapAssumption DEF Searching, Numbers

LEMMA SearchStarts ==
  ASSUME Searching, NEW a \in {"A*", "Dijkstra"}, NEW start \in MapNodes, NEW end \in MapNodes,
         NEW nodes \in SUBSET MapNodes, NEW edges \in SUBSET Pairs,
         StartSearch(a, start, end, nodes, edges)
  PROVE  Searching' /\ SearchRight'
  <1>1. /\ stage' = "searching" /\ algorithm' = a /\ startId' = start /\ endId' = end
        /\ avoidNodes' = nodes /\ avoidEdges' = edges /\ roads' = roads
        /\ cameFrom' = [n \in MapNodes |-> NoNode]
    BY DEF StartSearch, NoOrigins
  <1>2. openSet' \subseteq MapNodes /\ start \in openSet' /\ (a = "Dijkstra" => openSet' = MapNodes)
    BY DEF StartSearch
  <1>3. /\ gScore' \in [MapNodes -> 0..Unreached] /\ gScore'[start] = 0
        /\ \A n \in MapNodes : n # start => gScore'[n] = Unreached
    BY MapAssumption DEF StartSearch, NoScores
  <1>4. Unreached \in Nat /\ Unreached # 0
    BY MapAssumption
  <1>5. Searching'
    BY <1>1, <1>2, <1>3 DEF Searching
  <1>6. \A n \in MapNodes : Known(n)' => n = start
    BY <1>3, <1>4 DEF Known
  <1>7. WayBack' /\ Relaxed'
    BY <1>1, <1>2, <1>6 DEF WayBack, Relaxed
  <1>8. InTurn' /\ EndWaits' /\ Ended'
    BY <1>1, <1>2, <1>6 DEF InTurn, EndWaits, Ended
  <1>9. QED
    BY <1>5, <1>7, <1>8 DEF SearchRight

\* What a visit does to the scores.
LEMMA VisitEffect ==
  ASSUME Searching, NEW n \in MapNodes, Visit(n)
  PROVE  /\ n \in openSet /\ Known(n) /\ n # endId
         /\ \A m \in MapNodes : m \in openSet /\ Known(m) => gScore[n] + Heuristic(n) <= gScore[m] + Heuristic(m)
         /\ gScore' \in [MapNodes -> 0..Unreached]
         /\ \A m \in MapNodes : gScore'[m] <= gScore[m]
         /\ \A m \in MapNodes : m \notin Better(n) => gScore'[m] = gScore[m] /\ cameFrom'[m] = cameFrom[m]
         /\ \A m \in Better(n) : /\ m \in MapNodes /\ Open(n, m) /\ m # n
                                 /\ gScore'[m] = gScore[n] + roads[{n, m}] /\ gScore'[m] < gScore[m]
                                 /\ cameFrom'[m] = n
         /\ n \notin Better(n) /\ Better(n) \subseteq MapNodes
         /\ UNCHANGED <<roads, stage, query, route>>
  <1>1. n \in Nearest /\ n # endId /\ UNCHANGED <<roads, stage, query, route>>
    BY DEF Visit
  <1>2. n \in openSet /\ Known(n)
        /\ \A m \in openSet : Known(m) => gScore[n] + Heuristic(n) <= gScore[m] + Heuristic(m)
    BY <1>1 DEF Nearest, Known
  <1>3. Numbers
    BY ScoresTyped
  <1>4. ASSUME NEW m \in Better(n)
        PROVE  /\ m \in MapNodes /\ Open(n, m) /\ m # n /\ gScore[n] + roads[{n, m}] < gScore[m]
               /\ gScore[n] + roads[{n, m}] \in 0..Unreached
    <2>1. m \in Neighbors(n) /\ gScore[n] + roads[{n, m}] < gScore[m] /\ ~Avoided(n, m)
      BY DEF Better
    <2>2. m \in MapNodes /\ m # n /\ roads[{n, m}] \in Nat
      BY <2>1, Road
    <2>3. QED
      BY <1>3, <2>1, <2>2 DEF Open, Numbers
  <1>5. /\ gScore' = [m \in MapNodes |-> IF m \in Better(n) THEN gScore[n] + roads[{n, m}] ELSE gScore[m]]
        /\ cameFrom' = [m \in MapNodes |-> IF m \in Better(n) THEN n ELSE cameFrom[m]]
    BY DEF Visit
  <1>6. \A m \in MapNodes : gScore[m] \in 0..Unreached
    BY DEF Searching
  <1>7. gScore' \in [MapNodes -> 0..Unreached]
    BY <1>4, <1>5, <1>6
  <1>8. \A m \in MapNodes : gScore'[m] <= gScore[m]
    <2>1. ASSUME NEW m \in MapNodes, m \in Better(n) PROVE gScore'[m] <= gScore[m]
      BY <1>3, <1>4, <1>5, <2>1 DEF Numbers
    <2>2. ASSUME NEW m \in MapNodes, m \notin Better(n) PROVE gScore'[m] <= gScore[m]
      BY <1>3, <1>5, <2>2 DEF Numbers
    <2>3. QED
      BY <2>1, <2>2
  <1>9. n \notin Better(n) /\ Better(n) \subseteq MapNodes
    BY <1>4
  <1>10. \A m \in Better(n) : gScore'[m] = gScore[n] + roads[{n, m}] /\ cameFrom'[m] = n
    BY <1>5, <1>9
  <1>11. \A m \in MapNodes : m \notin Better(n) => gScore'[m] = gScore[m] /\ cameFrom'[m] = cameFrom[m]
    BY <1>5
  <1>12. QED
    BY <1>1, <1>2, <1>4, <1>7, <1>8, <1>9, <1>10, <1>11

\* What a visit does to the open set.
LEMMA VisitOpens ==
  ASSUME Searching, NEW n \in MapNodes, Visit(n)
  PROVE  /\ Better(n) \subseteq openSet'
         /\ openSet' \subseteq openSet \cup Better(n) /\ openSet \ {n} \subseteq openSet'
         /\ algorithm = "Dijkstra" => openSet' = openSet \ {n} /\ Better(n) \subseteq openSet
  <1>1. openSet' = (openSet \ {n}) \cup (IF algorithm = "A*" THEN Better(n) ELSE {})
    BY DEF Visit
  <1>2. algorithm \in {"A*", "Dijkstra"} /\ n \notin Better(n)
    BY VisitEffect DEF Searching
  <1>3. algorithm = "Dijkstra" => Better(n) \subseteq openSet
    BY DEF Better
  <1>4. QED
    BY <1>1, <1>2, <1>3

\* What may be reached does not depend on scores.
LEMMA OpenKeeps ==
  ASSUME UNCHANGED <<roads, query>>, NEW n, NEW m
  PROVE  Open(n, m)' <=> Open(n, m)
  BY DEF Open, Neighbors, Avoided, query

LEMMA VisitTyped ==
  ASSUME Searching, stage # "building", NEW n \in MapNodes, Visit(n)
  PROVE  Searching'
  <1>1. /\ gScore' \in [MapNodes -> 0..Unreached] /\ \A m \in MapNodes : gScore'[m] <= gScore[m]
        /\ Better(n) \subseteq MapNodes /\ UNCHANGED <<roads, stage, query>>
    BY VisitEffect
  <1>2. cameFrom' \in [MapNodes -> MapNodes \cup {NoNode}]
    BY DEF Visit, Searching
  <1>3. openSet' \subseteq MapNodes
    BY <1>1, VisitOpens DEF Searching
  <1>4. gScore'[startId] = 0
    <2>1. startId \in MapNodes /\ gScore[startId] = 0
      BY DEF Searching
    <2>2. gScore'[startId] \in 0..Unreached /\ gScore'[startId] <= 0
      BY <1>1, <2>1
    <2>3. QED
      BY <2>2, MapAssumption
  <1>5. QED
    BY <1>1, <1>2, <1>3, <1>4 DEF Searching, query

LEMMA VisitBack ==
  ASSUME Searching, stage # "building", WayBack, NEW n \in MapNodes, Visit(n)
  PROVE  WayBack'
  <1>1. /\ Known(n) /\ \A m \in MapNodes : gScore'[m] <= gScore[m]
        /\ \A m \in MapNodes : m \notin Better(n) => gScore'[m] = gScore[m] /\ cameFrom'[m] = cameFrom[m]
        /\ \A m \in Better(n) : /\ Open(n, m) /\ m # n /\ cameFrom'[m] = n
                                /\ gScore'[m] = gScore[n] + roads[{n, m}]
        /\ n \notin Better(n) /\ UNCHANGED <<roads, stage, query>>
    BY VisitEffect
  <1>2. Searching' /\ Numbers /\ Numbers'
    BY VisitTyped, ScoresTyped, MapAssumption DEF Searching, Numbers
  <1>3. ASSUME NEW m \in MapNodes, Known(m)', m # startId'
        PROVE  \E k \in MapNodes : CameFrom(m, k)'
    <2>1. CASE m \in Better(n)
      <3>1. cameFrom'[m] = n /\ Open(n, m) /\ gScore'[m] = gScore[n] + roads[{n, m}] /\ gScore'[n] = gScore[n]
        BY <1>1, <2>1
      <3>2. Open(n, m)' /\ roads' = roads
        BY <1>1, <3>1, OpenKeeps
      <3>3. gScore'[m] \in Nat
        BY <1>2 DEF Numbers
      <3>4. gScore[n] + roads[{n, m}] <= gScore'[m]
        BY <3>1, <3>3
      <3>5. CameFrom(m, n)'
        BY <3>1, <3>2, <3>4 DEF CameFrom
      <3>6. QED
        BY <3>5
    <2>2. CASE m \notin Better(n)
      <3>1. gScore'[m] = gScore[m] /\ cameFrom'[m] = cameFrom[m] /\ roads' = roads
        BY <1>1, <2>2
      <3>2. Known(m) /\ m # startId
        BY <1>1, <1>3, <3>1 DEF Known, query
      <3>3. PICK k \in MapNodes : k = cameFrom[m] /\ Open(k, m) /\ gScore[k] + roads[{k, m}] <= gScore[m]
        BY <3>2 DEF WayBack, CameFrom
      <3>4. roads[{k, m}] \in Nat
        BY <3>3, Road DEF Open
      <3>5. gScore'[k] \in Nat /\ gScore[k] \in Nat /\ gScore[m] \in Nat /\ gScore'[k] <= gScore[k]
        BY <1>1, <1>2 DEF Numbers
      <3>6. gScore'[k] + roads[{k, m}] <= gScore'[m]
        BY <3>1, <3>3, <3>4, <3>5
      <3>7. Open(k, m)'
        BY <1>1, <3>3, OpenKeeps
      <3>8. CameFrom(m, k)'
        BY <3>1, <3>3, <3>6, <3>7 DEF CameFrom
      <3>9. QED
        BY <3>8
    <2>3. QED
      BY <2>1, <2>2
  <1>4. QED
    BY <1>3 DEF WayBack

LEMMA VisitRelaxes ==
  ASSUME Searching, stage # "building", Relaxed, InTurn, NEW n \in MapNodes, Visit(n)
  PROVE  Relaxed'
  <1>1. /\ Known(n) /\ n \in openSet /\ \A m \in MapNodes : gScore'[m] <= gScore[m]
        /\ \A m \in MapNodes : m \notin Better(n) => gScore'[m] = gScore[m]
        /\ \A m \in Better(n) : gScore'[m] = gScore[n] + roads[{n, m}]
        /\ n \notin Better(n) /\ UNCHANGED <<roads, stage, query>>
    BY VisitEffect
  <1>2. Searching' /\ Numbers /\ Numbers'
    BY VisitTyped, ScoresTyped, MapAssumption DEF Searching, Numbers
  <1>3. ASSUME NEW k \in MapNodes \ openSet', Known(k)', NEW m \in MapNodes, Open(k, m)'
        PROVE  gScore'[m] <= gScore'[k] + roads'[{k, m}]
    <2>1. k \notin Better(n) /\ gScore'[k] = gScore[k] /\ Known(k)
      <3>1. k \notin Better(n)
        BY <1>3, VisitOpens
      <3>2. QED
        BY <1>1, <1>3, <3>1 DEF Known
    <2>2. Open(k, m) /\ roads' = roads
      BY <1>1, <1>3, OpenKeeps
    <2>3. roads[{k, m}] \in Nat /\ m \in Neighbors(k)
      BY <2>2, Road DEF Open
    <2>4. /\ gScore'[m] \in Nat /\ gScore[m] \in Nat /\ gScore[k] \in Nat /\ gScore[n] \in Nat
          /\ gScore'[m] <= gScore[m]
      BY <1>1, <1>2 DEF Numbers
    <2>5. CASE k # n
      <3>1. k \notin openSet
        BY <1>3, <2>5, VisitOpens
      <3>2. gScore[m] <= gScore[k] + roads[{k, m}]
        BY <2>1, <2>2, <3>1 DEF Relaxed
      <3>3. QED
        BY <2>1, <2>2, <2>3, <2>4, <3>2
    <2>6. CASE k = n /\ m \in Better(n)
      <3>1. gScore'[m] = gScore[k] + roads[{k, m}]
        BY <1>1, <2>6
      <3>2. QED
        BY <2>1, <2>2, <2>3, <2>4, <3>1
    <2>7. CASE k = n /\ m \notin Better(n) /\ (algorithm = "Dijkstra" => m \in openSet)
      <3>1. ~(gScore[n] + roads[{n, m}] < gScore[m])
        BY <2>2, <2>3, <2>7 DEF Better, Open
      <3>2. QED
        BY <2>1, <2>2, <2>3, <2>4, <2>7, <3>1
    <2>8. CASE k = n /\ algorithm = "Dijkstra" /\ m \notin openSet
      <3>1. gScore[m] <= gScore[n]
        BY <1>1, <2>8 DEF InTurn
      <3>2. QED
        BY <2>1, <2>2, <2>3, <2>4, <2>8, <3>1
    <2>9. QED
      BY <2>5, <2>6, <2>7, <2>8
  <1>4. QED
    BY <1>3 DEF Relaxed

LEMMA VisitInTurn ==
  ASSUME Searching, stage # "building", InTurn, NEW n \in MapNodes, Visit(n)
  PROVE  InTurn'
  <1>1. /\ Known(n) /\ n \in openSet /\ \A m \in MapNodes : gScore'[m] <= gScore[m]
        /\ \A m \in MapNodes : m \in openSet /\ Known(m) =>
             gScore[n] + Heuristic(n) <= gScore[m] + Heuristic(m)
        /\ \A m \in MapNodes : m \notin Better(n) => gScore'[m] = gScore[m]
        /\ \A m \in Better(n) : gScore'[m] = gScore[n] + roads[{n, m}] /\ Open(n, m)
        /\ n \notin Better(n) /\ UNCHANGED <<roads, stage, query>>
    BY VisitEffect
  <1>2. Numbers /\ Numbers'
    BY VisitTyped, ScoresTyped, MapAssumption DEF Searching, Numbers
  <1>3. SUFFICES ASSUME algorithm = "Dijkstra", NEW k \in MapNodes \ openSet', NEW m \in openSet'
                 PROVE  gScore'[k] <= gScore'[m]
    BY <1>1 DEF InTurn, query
  <1>4. /\ openSet' = openSet \ {n} /\ Better(n) \subseteq openSet /\ m \in MapNodes
        /\ \A j \in MapNodes : Heuristic(j) = 0
    BY <1>3, VisitOpens DEF Heuristic, Searching
  <1>5. m \in openSet /\ m # n /\ (k = n \/ k \notin openSet) /\ k \notin Better(n)
    BY <1>1, <1>3, <1>4
  <1>6. gScore'[k] = gScore[k]
    BY <1>1, <1>5
  <1>7. /\ gScore[k] \in Nat /\ gScore[m] \in Nat /\ gScore[n] \in Nat /\ Unreached \in Nat
        /\ gScore[n] <= Unreached /\ gScore[m] <= Unreached
    BY <1>2, <1>4 DEF Numbers
  <1>8. gScore[n] <= gScore[m]
    <2>1. CASE Known(m)
      BY <1>1, <1>4, <1>5, <1>7, <2>1
    <2>2. CASE ~Known(m)
      BY <1>1, <1>7, <2>2 DEF Known
    <2>3. QED
      BY <2>1, <2>2
  <1>9. gScore[k] <= gScore[n]
    <2>1. CASE k = n
      BY <1>7, <2>1
    <2>2. CASE k \notin openSet
      BY <1>1, <1>3, <2>2 DEF InTurn
    <2>3. QED
      BY <1>5, <2>1, <2>2
  <1>10. CASE m \in Better(n)
    <2>1. gScore'[m] = gScore[n] + roads[{n, m}] /\ roads[{n, m}] \in Nat
      BY <1>1, <1>10, Road DEF Open
    <2>2. QED
      BY <1>6, <1>7, <1>9, <2>1
  <1>11. CASE m \notin Better(n)
    BY <1>1, <1>4, <1>6, <1>7, <1>8, <1>9, <1>11
  <1>12. QED
    BY <1>10, <1>11

LEMMA VisitRight ==
  ASSUME Searching, SearchRight, stage # "building", NEW n \in MapNodes, Visit(n)
  PROVE  SearchRight'
  <1>1. WayBack /\ Relaxed /\ InTurn /\ EndWaits
    BY DEF SearchRight
  <1>2. WayBack' /\ Relaxed' /\ InTurn'
    BY <1>1, VisitBack, VisitRelaxes, VisitInTurn
  <1>3. stage = "searching" /\ stage' = "searching" /\ n # endId /\ endId' = endId /\ endId \in MapNodes
    BY VisitEffect DEF Visit, Searching, query
  <1>4. EndWaits'
    <2>1. CASE endId \in Better(n)
      BY <1>3, <2>1, VisitOpens DEF EndWaits
    <2>2. CASE endId \notin Better(n)
      <3>1. gScore'[endId] = gScore[endId]
        BY <1>3, <2>2, VisitEffect
      <3>2. Known(endId)' => Known(endId)
        BY <1>3, <3>1 DEF Known
      <3>3. openSet \ {n} \subseteq openSet'
        BY VisitOpens
      <3>4. QED
        BY <1>1, <1>3, <3>2, <3>3 DEF EndWaits
    <2>3. QED
      BY <2>1, <2>2
  <1>5. Ended'
    BY <1>3 DEF Ended
  <1>6. QED
    BY <1>2, <1>4, <1>5 DEF SearchRight

\* Of the nodes that were reached and are open, one may be next.
LEMMA OneIsNearest ==
  ASSUME Searching, stage # "building", Nearest = {}, NEW n \in openSet
  PROVE  ~Known(n)
  <1> DEFINE Reached == {m \in openSet : gScore[m] < Unreached}
             f(m) == gScore[m] + Heuristic(m)
             T == {f(m) : m \in Reached}
  <1>1. SUFFICES ASSUME Reached # {} PROVE FALSE
    BY DEF Known
  <1>2. \A m \in Reached : f(m) \in Nat
    <2>1. ASSUME NEW m \in Reached PROVE f(m) \in Nat
      <3>1. m \in MapNodes
        BY DEF Searching
      <3>2. gScore[m] \in Nat /\ Heuristic(m) \in Nat
        BY <3>1, ScoresTyped, HeuristicTyped DEF Numbers
      <3>3. QED
        BY <3>2
    <2>2. QED
      BY <2>1
  <1>3. T \subseteq Nat /\ T # {}
    <2> HIDE DEF f, Reached
    <2> QED
      BY <1>1, <1>2
  <1>4. PICK i \in T : \A j \in T : i <= j
    <2> HIDE DEF T
    <2> QED
      BY <1>3, LeastNumber
  <1>5. PICK m \in Reached : i = f(m)
    OBVIOUS
  <1>6. \A k \in Reached : f(m) <= f(k)
    <2> HIDE DEF f, Reached
    <2> QED
      BY <1>4, <1>5
  <1>7. m \in Nearest
    BY <1>6 DEF Nearest
  <1>8. QED
    BY <1>7

-----------------------------------------------------------------------------
(* Every step of the planner *)

LEMMA PlanStarts == PlanInit => PlanInv
  <1> SUFFICES ASSUME PlanInit PROVE PlanInv
    OBVIOUS
  <1>1. Searching
    BY MapAssumption DEF PlanInit, Searching, NoScores, NoOrigins
  <1>2. SearchRight /\ RouteRead
    BY DEF PlanInit, SearchRight, RouteRead
  <1>3. QED
    BY <1>1, <1>2 DEF PlanInv

LEMMA RouteWay ==
  ASSUME PlanInv, stage = "found"
  PROVE  /\ Leads(route, endId) /\ Known(endId) /\ endId \in MapNodes /\ WayBack /\ Relaxed
         /\ route \in Seq(MapNodes) /\ Len(route) \in Nat /\ Len(route) >= 1
         /\ \A i \in 1..Len(route) : route[i] \in MapNodes /\ Known(route[i])
         /\ \A i \in 2..Len(route) :
              /\ gScore[route[i - 1]] < gScore[route[i]] /\ Open(route[i - 1], route[i])
              /\ gScore[route[i - 1]] + roads[{route[i - 1], route[i]}] <= gScore[route[i]]
  <1>1. Searching /\ WayBack /\ Relaxed /\ endId \in Nearest /\ endId \in MapNodes
    BY DEF PlanInv, SearchRight, Ended, Searching
  <1>2. Known(endId)
    BY <1>1 DEF Nearest, Known
  <1>3. Leads(route, endId)
    BY DEF PlanInv, RouteRead, LeadsBack, Leads
  <1>4. QED
    BY <1>1, <1>2, <1>3, WayKnown

LEMMA RouteEdges ==
  ASSUME PlanInv, stage = "found"
  PROVE  EdgesOf(route) \subseteq Pairs
  <1>1. Len(route) \in Nat
    BY RouteWay
  <1>2. ASSUME NEW i \in 1..(Len(route) - 1) PROVE {route[i], route[i + 1]} \in Pairs
    <2>1. i + 1 \in 2..Len(route) /\ (i + 1) - 1 = i /\ i \in 1..Len(route)
      BY <1>1
    <2>2. PICK j \in 2..Len(route) : j = i + 1 /\ j - 1 = i
      BY <2>1
    <2>3. Open(route[j - 1], route[j]) /\ route[j - 1] \in MapNodes
      BY RouteWay, <2>1, <2>2
    <2>4. Searching
      BY DEF PlanInv
    <2>5. {route[j - 1], route[j]} \in Pairs
      BY <2>3, <2>4, Road DEF Open
    <2>6. QED
      BY <2>2, <2>5
  <1>3. QED
    BY <1>2 DEF EdgesOf

LEMMA SearchBegun ==
  ASSUME PlanInv, NEW a \in {"A*", "Dijkstra"}, NEW start \in MapNodes, NEW end \in MapNodes,
         NEW nodes \in SUBSET MapNodes, NEW edges \in SUBSET Pairs,
         StartSearch(a, start, end, nodes, edges)
  PROVE  PlanInv'
  <1>1. Searching' /\ SearchRight'
    BY SearchStarts DEF PlanInv
  <1>2. route' = route /\ stage' = "searching"
    BY DEF StartSearch
  <1>3. QED
    BY <1>1, <1>2 DEF PlanInv, RouteRead

\* Nothing but how the search stands changes.
LEMMA StageOnly ==
  ASSUME Searching, SearchRight, stage # "building", stage' \in {"found", "none"}, Ended',
         UNCHANGED <<roads, query, openSet, gScore, cameFrom>>
  PROVE  Searching' /\ SearchRight'
  <1>1. Searching'
    BY DEF Searching, query
  <1>2. \A n, m : (Open(n, m)' <=> Open(n, m)) /\ (Known(n)' <=> Known(n)) /\ (CameFrom(n, m)' <=> CameFrom(n, m))
    BY DEF Open, Neighbors, Avoided, Known, CameFrom, query
  <1>3. WayBack' /\ Relaxed' /\ InTurn' /\ EndWaits'
    BY <1>2 DEF SearchRight, WayBack, Relaxed, InTurn, EndWaits, query
  <1>4. QED
    BY <1>1, <1>3 DEF SearchRight

LEMMA ArriveRight == ASSUME PlanInv, Arrive PROVE PlanInv'
  <1>1. /\ stage = "searching" /\ endId \in Nearest /\ stage' = "found" /\ route' = BuildPath
        /\ UNCHANGED <<roads, query, openSet, gScore, cameFrom>>
    BY DEF Arrive
  <1>2. Nearest' = Nearest /\ endId' = endId
    BY <1>1 DEF Nearest, Heuristic, query
  <1>3. Ended'
    BY <1>1, <1>2 DEF Ended
  <1>4. Searching' /\ SearchRight'
    BY <1>1, <1>3, StageOnly DEF PlanInv
  <1>5. Known(endId)
    BY <1>1 DEF Nearest, Known
  <1>6. BuildPath \in Seq(MapNodes) /\ LeadsBack(BuildPath)
    BY <1>1, <1>5, PathBuilt DEF PlanInv, SearchRight
  <1>7. PICK r : r = BuildPath
    OBVIOUS
  <1>8. r \in Seq(MapNodes) /\ LeadsBack(r) /\ route' = r
    BY <1>1, <1>6, <1>7
  <1>9. startId' = startId /\ endId' = endId /\ cameFrom' = cameFrom
    BY <1>1 DEF query
  <1>10. RouteRead'
    BY <1>8, <1>9 DEF RouteRead, LeadsBack
  <1>11. QED
    BY <1>4, <1>10 DEF PlanInv

LEMMA NoPathRight == ASSUME PlanInv, NoPath PROVE PlanInv'
  <1>1. /\ stage = "searching" /\ Nearest = {} /\ stage' = "none"
        /\ UNCHANGED <<roads, query, openSet, gScore, cameFrom, route>>
    BY DEF NoPath
  <1>2. \A n \in openSet : ~Known(n)
    BY <1>1, OneIsNearest DEF PlanInv
  <1>3. Ended'
    BY <1>1, <1>2 DEF Ended, Known
  <1>4. Searching' /\ SearchRight'
    BY <1>1, <1>3, StageOnly DEF PlanInv
  <1>5. QED
    BY <1>1, <1>4 DEF PlanInv, RouteRead

LEMMA EdgeAdded ==
  ASSUME PlanInv, NEW p \in Pairs, NEW weight \in Weights[p], AddEdge(p, weight)
  PROVE  PlanInv'
  <1>1. /\ stage = "building" /\ roads' = [roads EXCEPT ![p] = weight]
        /\ UNCHANGED <<stage, query, openSet, gScore, cameFrom, route>>
    BY DEF AddEdge
  <1>2. weight \in Nat
    BY MapAssumption
  <1>3. roads' \in [Pairs -> Nat] /\ \A q \in Pairs : roads'[q] \in Weights[q] \cup {0}
    BY <1>1, <1>2 DEF PlanInv, Searching
  <1>4. Searching'
    BY <1>1, <1>3 DEF PlanInv, Searching, query
  <1>5. QED
    BY <1>1, <1>4 DEF PlanInv, SearchRight, RouteRead

LEMMA PlanSteps == ASSUME PlanInv, [PlanNext]_plan PROVE PlanInv'
  <1>1. ASSUME NEW p \in Pairs, NEW weight \in Weights[p], AddEdge(p, weight) PROVE PlanInv'
    BY <1>1, EdgeAdded
  <1>2. ASSUME NEW start \in MapNodes, NEW end \in MapNodes, FindOptimalPath(start, end) PROVE PlanInv'
    BY <1>2, SearchBegun DEF FindOptimalPath
  <1>3. ASSUME NEW k \in 1..Len(route), FindAlternativeRoute(k) PROVE PlanInv'
    <2>1. route[k] \in MapNodes /\ endId \in MapNodes /\ EdgesOf(route) \in SUBSET Pairs
      BY <1>3, RouteWay, RouteEdges DEF FindAlternativeRoute
    <2>2. QED
      BY <1>3, <2>1, SearchBegun DEF FindAlternativeRoute
  <1>4. ASSUME NEW k \in 1..Len(route), NEW n \in MapNodes, FindBypassPath(k, n) PROVE PlanInv'
    <2>1. route[k] \in MapNodes /\ endId \in MapNodes /\ {n} \in SUBSET MapNodes
      BY <1>4, RouteWay DEF FindBypassPath
    <2>2. QED
      BY <1>4, <2>1, SearchBegun DEF FindBypassPath
  <1>5. CASE FallBack
    <2>1. startId \in MapNodes /\ endId \in MapNodes
      BY <1>5 DEF FallBack, PlanInv, Searching
    <2>2. QED
      BY <1>5, <2>1, SearchBegun DEF FallBack
  <1>6. CASE Arrive \/ NoPath
    BY <1>6, ArriveRight, NoPathRight
  <1>7. ASSUME NEW n \in openSet, Visit(n) PROVE PlanInv'
    <2>1. n \in MapNodes /\ stage = "searching"
      BY <1>7 DEF PlanInv, Searching, Visit
    <2>2. Searching' /\ SearchRight'
      BY <1>7, <2>1, VisitTyped, VisitRight DEF PlanInv
    <2>3. route' = route /\ stage' = "searching"
      BY <1>7, <2>1 DEF Visit
    <2>4. QED
      BY <2>2, <2>3 DEF PlanInv, RouteRead
  <1>8. CASE UNCHANGED plan
    <2>1. UNCHANGED <<roads, stage, query, openSet, gScore, cameFrom, route>>
      BY <1>8 DEF plan, query
    <2>2. \A n, m : (Open(n, m)' <=> Open(n, m)) /\ (Known(n)' <=> Known(n)) /\ (CameFrom(n, m)' <=> CameFrom(n, m))
      BY <2>1 DEF Open, Neighbors, Avoided, Known, CameFrom, query
    <2>3. Nearest' = Nearest
      BY <2>1 DEF Nearest, Heuristic, query
    <2>4. SearchRight'
      BY <2>1, <2>2, <2>3 DEF PlanInv, SearchRight, WayBack, Relaxed, InTurn, EndWaits, Ended, query
    <2>5. Searching' /\ RouteRead'
      BY <2>1 DEF PlanInv, Searching, RouteRead, LeadsBack, query
    <2>6. QED
      BY <2>4, <2>5 DEF PlanInv
  <1>9. QED
    BY <1>1, <1>2, <1>3, <1>4, <1>5, <1>6, <1>7, <1>8 DEF PlanNext

-----------------------------------------------------------------------------
(* The route is a way *)

LEMMA PlanTyped == PlanInv => PlanTypeOK
  BY DEF PlanInv, Searching, RouteRead, PlanTypeOK

\* From no node of the route is the promise of the heuristic more than what is left.
LEMMA Remaining ==
  ASSUME PlanInv, stage = "found", NEW i \in 1..Len(route)
  PROVE  gScore[route[i]] + Heuristic(route[i]) <= gScore[endId]
  <1> DEFINE D == {k \in 1..Len(route) : gScore[route[k]] + Heuristic(route[k]) <= gScore[endId]}
  <1>1. Searching /\ stage # "building" /\ endId \in MapNodes /\ Len(route) \in Nat /\ Len(route) >= 1
        /\ \A k \in 1..Len(route) : route[k] \in MapNodes
    BY RouteWay DEF PlanInv
  <1>2. \A n \in MapNodes : gScore[n] \in Nat /\ Heuristic(n) \in Nat
    BY <1>1, ScoresTyped, HeuristicTyped DEF Numbers
  <1>3. Len(route) \in D
    <2>1. route[Len(route)] = endId /\ Len(route) \in 1..Len(route)
      BY <1>1, RouteWay DEF Leads
    <2>2. Heuristic(endId) = 0 /\ gScore[endId] \in Nat
      BY <1>1, <1>2, HeuristicTyped
    <2>3. QED
      BY <2>1, <2>2
  <1>4. ASSUME NEW k \in 2..Len(route), k \in D PROVE k - 1 \in D
    <2>1. k \in 1..Len(route) /\ k - 1 \in 1..Len(route)
      BY <1>1
    <2>2. PICK n \in MapNodes, m \in MapNodes : n = route[k - 1] /\ m = route[k]
      BY <1>1, <2>1
    <2>3. Open(n, m) /\ gScore[n] + roads[{n, m}] <= gScore[m]
      BY <2>2, RouteWay
    <2>4. m \in Neighbors(n)
      BY <2>3 DEF Open
    <2>5. roads[{n, m}] \in Nat /\ Heuristic(n) <= roads[{n, m}] + Heuristic(m)
      BY <1>1, <2>4, Road, Consistent
    <2>6. gScore[m] + Heuristic(m) <= gScore[endId]
      BY <1>4, <2>2
    <2>7. gScore[n] + Heuristic(n) <= gScore[endId]
      <3>1. /\ gScore[n] \in Nat /\ gScore[m] \in Nat /\ gScore[endId] \in Nat
            /\ Heuristic(n) \in Nat /\ Heuristic(m) \in Nat
        BY <1>1, <1>2
      <3>2. QED
        BY <2>3, <2>5, <2>6, <3>1
    <2>8. QED
      BY <2>1, <2>2, <2>7
  <1> HIDE DEF D
  <1>5. i \in D
    BY <1>1, <1>3, <1>4, Downwards
  <1>6. QED
    BY <1>5 DEF D

\* Each of its segments is as long as its edge: a node that was visited has no neighbour that is
\* farther than that, and one that was not cannot be on a way better than the one found.
LEMMA Segment ==
  ASSUME PlanInv, stage = "found", NEW i \in 2..Len(route)
  PROVE  LET edge == {route[i - 1], route[i]}
         IN /\ roads[edge] > 0 /\ gScore[route[i]] - gScore[route[i - 1]] = roads[edge]
            /\ ~Avoided(route[i - 1], route[i])
  <1>1. Searching /\ stage # "building" /\ endId \in MapNodes /\ Relaxed /\ Len(route) \in Nat /\ endId \in Nearest
        /\ \A k \in 1..Len(route) : route[k] \in MapNodes /\ Known(route[k])
    BY RouteWay DEF PlanInv, SearchRight, Ended
  <1>2. i \in 1..Len(route) /\ i - 1 \in 1..Len(route)
    BY <1>1
  <1>3. PICK n \in MapNodes, m \in MapNodes : n = route[i - 1] /\ m = route[i]
    BY <1>1, <1>2
  <1>4. Open(n, m) /\ gScore[n] + roads[{n, m}] <= gScore[m] /\ Known(n)
    BY <1>1, <1>2, <1>3, RouteWay
  <1>5. m \in Neighbors(n) /\ ~Avoided(n, m)
    BY <1>4 DEF Open
  <1>6. roads[{n, m}] \in Nat /\ roads[{n, m}] > 0 /\ Heuristic(n) <= roads[{n, m}] + Heuristic(m)
    BY <1>1, <1>5, Road, Consistent
  <1>7. /\ gScore[n] \in Nat /\ gScore[m] \in Nat /\ gScore[endId] \in Nat
        /\ Heuristic(n) \in Nat /\ Heuristic(m) \in Nat /\ Heuristic(endId) = 0
    BY <1>1, ScoresTyped, HeuristicTyped DEF Numbers
  <1>8. gScore[m] <= gScore[n] + roads[{n, m}]
    <2>1. CASE n \in openSet
      <3>1. gScore[endId] + Heuristic(endId) <= gScore[n] + Heuristic(n)
        BY <1>1, <1>4, <2>1 DEF Nearest, Known
      <3>2. gScore[m] + Heuristic(m) <= gScore[endId]
        BY <1>2, <1>3, Remaining
      <3>3. QED
        BY <1>6, <1>7, <3>1, <3>2
    <2>2. CASE n \notin openSet
      BY <1>1, <1>4, <2>2 DEF Relaxed
    <2>3. QED
      BY <2>1, <2>2
  <1>9. gScore[m] - gScore[n] = roads[{n, m}]
    BY <1>4, <1>6, <1>7, <1>8
  <1>10. QED
    BY <1>3, <1>5, <1>6, <1>9

LEMMA RouteLeads == PlanInv => RouteIsWay
  <1> SUFFICES ASSUME PlanInv, stage = "found"
      PROVE  /\ route[1] = startId /\ route[Len(route)] = endId
             /\ \A i \in 2..Len(route) :
                  LET edge == {route[i - 1], route[i]}
                  IN /\ roads[edge] > 0 /\ gScore[route[i]] - gScore[route[i - 1]] = roads[edge]
                     /\ ~Avoided(route[i - 1], route[i])
    BY DEF RouteIsWay
  <1>1. route[1] = startId /\ route[Len(route)] = endId
    BY RouteWay DEF Leads
  <1>2. QED
    BY <1>1, Segment

-----------------------------------------------------------------------------
(* The lengths of the shortest ways *)

LEMMA LeastOf ==
  ASSUME NEW S \in SUBSET Nat, S # {}
  PROVE  Min(S) \in S /\ Min(S) \in Nat /\ \A i \in S : Min(S) <= i
  <1>1. \E i \in S : \A j \in S : i <= j
    BY LeastNumber
  <1>2. Min(S) \in S /\ \A i \in S : Min(S) <= i
    BY <1>1, Zenon DEF Min
  <1>3. QED
    BY <1>2

\* From the shortest ways of k - 1 edges, w, to those of k edges.
Over(w, n, m) == IF Avoided(n, m) THEN Unreached ELSE w[n] + roads[{n, m}]
OneMore(w) == [m \in MapNodes |-> Min({w[m]} \cup {Over(w, n, m) : n \in Neighbors(m)})]
NoEdge == [NoScores EXCEPT ![startId] = 0]

\* Within is the function its recursive definition describes: there is one for every bound.
LEMMA WithinExists ==
  \E f : f = [k \in 0..Cardinality(MapNodes) |-> IF k = 0 THEN NoEdge ELSE OneMore(f[k - 1])]
  <1> DEFINE C == Cardinality(MapNodes)
             Body(f, n) == [k \in 0..n |-> IF k = 0 THEN NoEdge ELSE OneMore(f[k - 1])]
             D == {n \in 0..C : \E f : f = Body(f, n)}
  <1>1. C \in Nat
    BY FS_CardinalityType, MapAssumption
  <1> HIDE DEF C
  <1>2. 0 \in D
    <2> DEFINE f == [k \in 0..0 |-> NoEdge]
    <2>1. \A k \in 0..0 : k = 0
      OBVIOUS
    <2>2. f = Body(f, 0)
      BY <2>1
    <2>3. 0 \in 0..C
      BY <1>1
    <2> HIDE DEF f, Body
    <2>4. QED
      BY <2>2, <2>3
  <1>3. ASSUME NEW n \in 1..C, n - 1 \in D PROVE n \in D
    <2>1. PICK f : f = Body(f, n - 1)
      BY <1>3
    <2> DEFINE g == [k \in 0..n |-> IF k = n THEN OneMore(f[n - 1]) ELSE f[k]]
    <2>2. ASSUME NEW k \in 0..n PROVE g[k] = IF k = 0 THEN NoEdge ELSE OneMore(g[k - 1])
      <3>1. CASE k = 0
        <4>1. 0 \in 0..(n - 1) /\ 0 # n
          BY <1>1
        <4>2. f[0] = NoEdge
          BY <2>1, <4>1
        <4>3. g[k] = f[0]
          BY <3>1, <4>1
        <4>4. QED
          BY <3>1, <4>2, <4>3
      <3>2. CASE k # 0 /\ k # n
        <4>1. k \in 0..(n - 1) /\ k - 1 \in 0..n /\ k - 1 # n
          BY <1>1, <3>2
        <4>2. f[k] = OneMore(f[k - 1])
          BY <2>1, <3>2, <4>1
        <4>3. g[k] = f[k] /\ g[k - 1] = f[k - 1]
          BY <3>2, <4>1
        <4>4. QED
          BY <3>2, <4>2, <4>3
      <3>3. CASE k # 0 /\ k = n
        <4>1. k - 1 \in 0..n /\ k - 1 # n /\ k - 1 = n - 1
          BY <1>1, <3>3
        <4>2. g[k] = OneMore(f[n - 1]) /\ g[k - 1] = f[n - 1]
          BY <3>3, <4>1
        <4>3. QED
          BY <3>3, <4>2
      <3>4. QED
        BY <3>1, <3>2, <3>3
    <2>3. g = Body(g, n)
      <3>1. g = [k \in 0..n |-> g[k]]
        OBVIOUS
      <3> HIDE DEF g
      <3>2. QED
        BY <2>2, <3>1, Zenon
    <2>4. n \in 0..C
      BY <1>1
    <2> HIDE DEF g, Body
    <2>5. QED
      BY <2>3, <2>4
  <1>4. C \in D
    <2>1. C \in 0..C
      BY <1>1
    <2> HIDE DEF D
    <2>2. QED
      BY <1>1, <1>2, <1>3, <2>1, Upwards
  <1>5. QED
    BY <1>4 DEF C

LEMMA WithinIs ==
  Within = [k \in 0..Cardinality(MapNodes) |-> IF k = 0 THEN NoEdge ELSE OneMore(Within[k - 1])]
  BY WithinExists, Zenon DEF Within, NoEdge, OneMore, Over

\* What it is at each bound.
LEMMA WithinSteps ==
  ASSUME Searching, stage # "building"
  PROVE  /\ \A n \in MapNodes : Within[0][n] = IF n = startId THEN 0 ELSE Unreached
         /\ \A k \in 0..Cardinality(MapNodes), n \in MapNodes : Within[k][n] \in Nat
         /\ \A k \in 1..Cardinality(MapNodes), m \in MapNodes :
              /\ Within[k][m] <= Within[k - 1][m]
              /\ \A n \in Neighbors(m) : Within[k][m] <= Over(Within[k - 1], n, m)
              /\ \/ Within[k][m] = Within[k - 1][m]
                 \/ \E n \in Neighbors(m) : Within[k][m] = Over(Within[k - 1], n, m)
  <1> DEFINE C == Cardinality(MapNodes)
             W == Within
             D == {k \in 0..C : \A n \in MapNodes : W[k][n] \in Nat}
  <1>1. C \in Nat
    BY FS_CardinalityType, MapAssumption
  <1>2. Unreached \in Nat /\ startId \in MapNodes
    BY MapAssumption DEF Searching
  <1>3. /\ \A k \in 0..C : k = 0 => W[k] = NoEdge
        /\ \A k \in 0..C : k # 0 => W[k] = OneMore(W[k - 1])
    <2> DEFINE f == [k \in 0..C |-> IF k = 0 THEN NoEdge ELSE OneMore(W[k - 1])]
    <2>1. W = f
      BY WithinIs, Zenon
    <2>2. \A k \in 0..C : f[k] = IF k = 0 THEN NoEdge ELSE OneMore(W[k - 1])
      OBVIOUS
    <2> HIDE DEF f, W
    <2>3. QED
      BY <2>1, <2>2
  <1> HIDE DEF C, W
  <1>4. \A n \in MapNodes : W[0][n] = IF n = startId THEN 0 ELSE Unreached
    <2>1. W[0] = NoEdge
      BY <1>1, <1>3
    <2>2. QED
      BY <2>1 DEF NoEdge, NoScores
  <1>5. ASSUME NEW k \in 1..C, \A n \in MapNodes : W[k - 1][n] \in Nat, NEW m \in MapNodes
        PROVE  /\ W[k][m] \in Nat /\ W[k][m] <= W[k - 1][m]
               /\ \A n \in Neighbors(m) : W[k][m] <= Over(W[k - 1], n, m)
               /\ \/ W[k][m] = W[k - 1][m]
                  \/ \E n \in Neighbors(m) : W[k][m] = Over(W[k - 1], n, m)
    <2>1. k \in 0..C /\ k # 0
      BY <1>1
    <2>2. PICK w : w = W[k - 1]
      OBVIOUS
    <2> DEFINE S == {w[m]} \cup {Over(w, n, m) : n \in Neighbors(m)}
    <2>3. W[k] = OneMore(w)
      BY <1>3, <2>1, <2>2
    <2>4. W[k][m] = Min(S)
      BY <2>3 DEF OneMore
    <2>5. ASSUME NEW n \in Neighbors(m) PROVE Over(w, n, m) \in Nat
      <3>1. n \in MapNodes /\ roads[{m, n}] \in Nat /\ {n, m} = {m, n}
        BY Road
      <3>2. w[n] \in Nat
        BY <1>5, <2>2, <3>1
      <3>3. QED
        BY <1>2, <3>1, <3>2 DEF Over
    <2>6. w[m] \in Nat
      BY <1>5, <2>2
    <2>7. S \in SUBSET Nat /\ S # {}
      BY <2>5, <2>6
    <2>8. w[m] \in S /\ \A n \in Neighbors(m) : Over(w, n, m) \in S
      OBVIOUS
    <2>9. \A i \in S : i = w[m] \/ \E n \in Neighbors(m) : i = Over(w, n, m)
      OBVIOUS
    <2> HIDE DEF S
    <2>10. Min(S) \in S /\ Min(S) \in Nat /\ \A i \in S : Min(S) <= i
      BY <2>7, LeastOf
    <2>11. QED
      BY <2>2, <2>4, <2>8, <2>9, <2>10
  <1>6. ASSUME NEW k \in 0..C PROVE k \in D
    <2>1. 0 \in D
      BY <1>1, <1>2, <1>4
    <2>2. ASSUME NEW j \in 1..C, j - 1 \in D PROVE j \in D
      <3>1. \A n \in MapNodes : W[j - 1][n] \in Nat
        BY <2>2
      <3>2. \A n \in MapNodes : W[j][n] \in Nat
        BY <1>5, <3>1
      <3>3. j \in 0..C
        BY <1>1
      <3>4. QED
        BY <3>2, <3>3
    <2> HIDE DEF D
    <2>3. QED
      BY <1>1, <2>1, <2>2, Upwards
  <1>7. \A k \in 0..C, n \in MapNodes : W[k][n] \in Nat
    BY <1>6
  <1>8. \A k \in 1..C : k - 1 \in 0..C
    BY <1>1
  <1>9. ASSUME NEW k \in 1..C, NEW m \in MapNodes
        PROVE  /\ W[k][m] <= W[k - 1][m]
               /\ \A n \in Neighbors(m) : W[k][m] <= Over(W[k - 1], n, m)
               /\ \/ W[k][m] = W[k - 1][m]
                  \/ \E n \in Neighbors(m) : W[k][m] = Over(W[k - 1], n, m)
    <2>1. \A n \in MapNodes : W[k - 1][n] \in Nat
      BY <1>7, <1>8
    <2>2. QED
      BY <1>5, <2>1
  <1>10. QED
    BY <1>4, <1>7, <1>9 DEF C, W

\* Whatever no road can lessen is less than every way.
LEMMA WithinAtLeast ==
  ASSUME Searching, stage # "building", NEW p, \A n \in MapNodes : p[n] \in Int /\ p[n] <= Unreached,
         p[startId] <= 0,
         \A n, m \in MapNodes : Open(n, m) => p[m] <= p[n] + roads[{n, m}],
         NEW k \in 0..Cardinality(MapNodes), NEW n \in MapNodes
  PROVE  p[n] <= Within[k][n]
  <1> DEFINE C == Cardinality(MapNodes)
             W == Within
             D == {j \in 0..C : \A m \in MapNodes : p[m] <= W[j][m]}
  <1>1. C \in Nat /\ Unreached \in Nat
    BY FS_CardinalityType, MapAssumption
  <1>2. /\ \A m \in MapNodes : W[0][m] = IF m = startId THEN 0 ELSE Unreached
        /\ \A j \in 0..C, m \in MapNodes : W[j][m] \in Nat
        /\ \A j \in 1..C, m \in MapNodes :
             \/ W[j][m] = W[j - 1][m]
             \/ \E i \in Neighbors(m) : W[j][m] = Over(W[j - 1], i, m)
    BY WithinSteps
  <1> HIDE DEF C, W
  <1>3. 0 \in D
    BY <1>1, <1>2
  <1>4. ASSUME NEW j \in 1..C, j - 1 \in D PROVE j \in D
    <2>1. j \in 0..C /\ j - 1 \in 0..C
      BY <1>1
    <2>2. ASSUME NEW m \in MapNodes PROVE p[m] <= W[j][m]
      <3>1. CASE W[j][m] = W[j - 1][m]
        BY <1>4, <3>1
      <3>2. ASSUME NEW i \in Neighbors(m), W[j][m] = Over(W[j - 1], i, m) PROVE p[m] <= W[j][m]
        <4>1. i \in MapNodes /\ i # m /\ roads[{m, i}] \in Nat /\ roads[{m, i}] > 0 /\ {m, i} = {i, m}
          BY Road
        <4>2. CASE Avoided(i, m)
          BY <3>2, <4>2 DEF Over
        <4>3. CASE ~Avoided(i, m)
          <5>1. W[j][m] = W[j - 1][i] + roads[{i, m}]
            BY <3>2, <4>3 DEF Over
          <5>2. Open(i, m)
            BY <4>1, <4>3 DEF Open, Neighbors
          <5>3. p[m] <= p[i] + roads[{i, m}] /\ p[i] <= W[j - 1][i]
            BY <1>4, <4>1, <5>2
          <5>4. p[m] \in Int /\ p[i] \in Int /\ W[j - 1][i] \in Nat /\ roads[{i, m}] \in Nat
            BY <1>2, <2>1, <4>1
          <5>5. QED
            BY <5>1, <5>3, <5>4
        <4>4. QED
          BY <4>2, <4>3
      <3>3. QED
        BY <1>2, <3>1, <3>2
    <2>3. QED
      BY <2>1, <2>2
  <1>5. k \in 0..C
    BY DEF C
  <1> HIDE DEF D
  <1>6. k \in D
    BY <1>1, <1>3, <1>4, <1>5, Upwards
  <1>7. QED
    BY <1>6 DEF D, W

\* The route found is a way of as many edges as it has.
LEMMA WithinAtMost ==
  ASSUME PlanInv, stage = "found"
  PROVE  Within[Cardinality(MapNodes)][endId] <= gScore[endId]
  <1> DEFINE C == Cardinality(MapNodes)
             W == Within
             D == {k \in 0..C : \A j \in 1..Len(route) : j <= k + 1 => W[k][route[j]] <= gScore[route[j]]}
  <1>1. /\ C \in Nat /\ Searching /\ stage # "building" /\ Len(route) \in Nat /\ Len(route) >= 1
        /\ route[Len(route)] = endId /\ route[1] = startId /\ startId \in MapNodes /\ gScore[startId] = 0
        /\ \A i \in 1..Len(route) : route[i] \in MapNodes
    BY RouteWay, FS_CardinalityType, MapAssumption DEF PlanInv, Leads, Searching
  <1>2. \A n \in MapNodes : gScore[n] \in Nat
    BY <1>1, ScoresTyped DEF Numbers
  <1>3. Len(route) \in 0..C
    <2>1. route \in SeqOf(MapNodes, C)
      BY <1>1, RouteWay, WayShort
    <2>2. PICK k \in 0..C : route \in [1..k -> MapNodes]
      BY <2>1 DEF SeqOf
    <2>3. k \in Nat /\ DOMAIN route = 1..k /\ DOMAIN route = 1..Len(route)
      BY <1>1, <2>2, RouteWay
    <2>4. k = Len(route)
      BY <1>1, <2>3
    <2>5. QED
      BY <2>4
  <1>4. /\ \A m \in MapNodes : W[0][m] = IF m = startId THEN 0 ELSE Unreached
        /\ \A j \in 0..C, m \in MapNodes : W[j][m] \in Nat
        /\ \A j \in 1..C, m \in MapNodes :
             W[j][m] <= W[j - 1][m] /\ \A i \in Neighbors(m) : W[j][m] <= Over(W[j - 1], i, m)
    BY <1>1, WithinSteps
  <1> HIDE DEF C, W
  <1>5. 0 \in D
    <2>1. ASSUME NEW j \in 1..Len(route), j <= 0 + 1 PROVE W[0][route[j]] <= gScore[route[j]]
      <3>1. j = 1
        BY <1>1, <2>1
      <3>2. QED
        BY <1>1, <1>4, <3>1
    <2>2. QED
      BY <1>1, <2>1
  <1>6. ASSUME NEW k \in 1..C, k - 1 \in D PROVE k \in D
    <2>1. k \in 0..C /\ k - 1 \in 0..C /\ (k - 1) + 1 = k
      BY <1>1
    <2>2. \A j \in 1..Len(route) : j <= k => W[k - 1][route[j]] <= gScore[route[j]]
      BY <1>6, <2>1
    <2>3. ASSUME NEW j \in 1..Len(route), j <= k + 1 PROVE W[k][route[j]] <= gScore[route[j]]
      <3>1. CASE j <= k
        <4>1. PICK m \in MapNodes : m = route[j]
          BY <1>1
        <4>2. W[k - 1][m] <= gScore[m] /\ W[k][m] <= W[k - 1][m]
          BY <1>4, <2>2, <3>1, <4>1
        <4>3. W[k - 1][m] \in Nat /\ W[k][m] \in Nat /\ gScore[m] \in Nat
          BY <1>2, <1>4, <2>1
        <4>4. QED
          BY <4>1, <4>2, <4>3
      <3>2. CASE j = k + 1
        <4>1. j \in 2..Len(route) /\ k \in 1..Len(route) /\ j - 1 = k
          BY <1>1, <3>2
        <4>2. PICK n \in MapNodes, m \in MapNodes : n = route[k] /\ m = route[j]
          BY <1>1, <4>1
        <4>3. Open(n, m) /\ gScore[n] + roads[{n, m}] <= gScore[m]
          BY <4>1, <4>2, RouteWay
        <4>4. m \in Neighbors(n) /\ ~Avoided(n, m)
          BY <4>3 DEF Open
        <4>5. roads[{n, m}] \in Nat /\ roads[{n, m}] > 0 /\ n # m /\ {n, m} = {m, n}
          BY <1>1, <4>4, Road
        <4>6. n \in Neighbors(m)
          BY <4>5 DEF Neighbors
        <4>7. W[k][m] <= W[k - 1][n] + roads[{n, m}]
          BY <1>4, <4>4, <4>6 DEF Over
        <4>8. W[k - 1][n] <= gScore[n]
          BY <2>2, <4>1, <4>2
        <4>9. W[k - 1][n] \in Nat /\ W[k][m] \in Nat /\ gScore[m] \in Nat /\ gScore[n] \in Nat
          BY <1>2, <1>4, <2>1
        <4>10. W[k][m] <= gScore[m]
          BY <4>3, <4>5, <4>7, <4>8, <4>9
        <4>11. QED
          BY <4>2, <4>10
      <3>3. QED
        BY <1>1, <2>3, <3>1, <3>2
    <2>4. QED
      BY <2>1, <2>3
  <1>7. C \in D
    <2>1. C \in 0..C
      BY <1>1
    <2> HIDE DEF D
    <2>2. QED
      BY <1>1, <1>5, <1>6, <2>1, Upwards
  <1>8. Len(route) \in 1..Len(route) /\ Len(route) <= C + 1
    BY <1>1, <1>3
  <1>9. W[C][endId] <= gScore[endId]
    BY <1>1, <1>7, <1>8
  <1>10. QED
    BY <1>9 DEF C, W

\* No way is shorter than the route found: less than the length of a way is the lesser of the
\* distance that the search knows and what the heuristic leaves of the route's length.
LEMMA FoundAtLeast ==
  ASSUME PlanInv, stage = "found"
  PROVE  gScore[endId] <= Within[Cardinality(MapNodes)][endId]
  <1>1. Searching /\ stage # "building" /\ endId \in MapNodes /\ startId \in MapNodes /\ gScore[startId] = 0
        /\ Relaxed /\ endId \in Nearest /\ Known(endId)
    BY RouteWay DEF PlanInv, SearchRight, Ended, Searching
  <1>2. Unreached \in Nat /\ \A n \in MapNodes :
          gScore[n] \in Nat /\ gScore[n] <= Unreached /\ Heuristic(n) \in Nat
    BY <1>1, ScoresTyped, HeuristicTyped, MapAssumption DEF Numbers
  <1> DEFINE left(n) == gScore[endId] - Heuristic(n)
             p == [n \in MapNodes |-> IF gScore[n] <= left(n) THEN gScore[n] ELSE left(n)]
  <1>3. ASSUME NEW n \in MapNodes
        PROVE  /\ left(n) \in Int /\ p[n] \in Int /\ p[n] <= gScore[n] /\ p[n] <= left(n)
               /\ p[n] = gScore[n] \/ p[n] = left(n)
    BY <1>1, <1>2
  <1> HIDE DEF p
  <1>4. \A n \in MapNodes : p[n] \in Int /\ p[n] <= Unreached
    BY <1>2, <1>3
  <1>5. p[startId] <= 0
    BY <1>1, <1>3
  <1>6. ASSUME NEW n \in MapNodes, NEW m \in MapNodes, Open(n, m)
        PROVE  p[m] <= p[n] + roads[{n, m}]
    <2>1. m \in Neighbors(n)
      BY <1>6 DEF Open
    <2>2. roads[{n, m}] \in Nat /\ Heuristic(n) <= roads[{n, m}] + Heuristic(m)
      BY <1>1, <2>1, Road, Consistent
    <2>3. /\ gScore[n] \in Nat /\ gScore[m] \in Nat /\ gScore[endId] \in Nat
          /\ Heuristic(n) \in Nat /\ Heuristic(m) \in Nat /\ Unreached \in Nat
      BY <1>1, <1>2
    <2>4. CASE p[n] = left(n)
      <3>1. p[m] <= left(m) /\ p[m] \in Int
        BY <1>3
      <3>2. QED
        BY <2>2, <2>3, <2>4, <3>1
    <2>5. CASE p[n] # left(n)
      <3>1. p[n] = gScore[n] /\ gScore[n] + Heuristic(n) < gScore[endId] /\ Known(n)
        <4>1. p[n] = gScore[n] /\ p[n] <= left(n)
          BY <1>3, <2>5
        <4>2. gScore[n] + Heuristic(n) < gScore[endId]
          BY <2>3, <2>5, <4>1
        <4>3. gScore[endId] < Unreached
          BY <1>1 DEF Known
        <4>4. gScore[n] < Unreached
          BY <2>3, <4>2, <4>3
        <4>5. QED
          BY <4>1, <4>2, <4>4 DEF Known
      <3>2. n \notin openSet
        <4>1. SUFFICES ASSUME n \in openSet PROVE FALSE
          OBVIOUS
        <4>2. gScore[endId] + Heuristic(endId) <= gScore[n] + Heuristic(n)
          BY <1>1, <3>1, <4>1 DEF Nearest, Known
        <4>3. Heuristic(endId) = 0
          BY <1>1, HeuristicTyped
        <4>4. QED
          BY <2>3, <3>1, <4>2, <4>3
      <3>3. gScore[m] <= gScore[n] + roads[{n, m}]
        BY <1>1, <1>6, <3>1, <3>2 DEF Relaxed
      <3>4. p[m] <= gScore[m] /\ p[m] \in Int
        BY <1>3
      <3>5. QED
        BY <2>2, <2>3, <3>1, <3>3, <3>4
    <2>6. QED
      BY <2>4, <2>5
  <1>7. Cardinality(MapNodes) \in 0..Cardinality(MapNodes)
    BY FS_CardinalityType, MapAssumption
  <1>8. p[endId] <= Within[Cardinality(MapNodes)][endId]
    <2>1. \A n, m \in MapNodes : Open(n, m) => p[m] <= p[n] + roads[{n, m}]
      BY <1>6
    <2>2. QED
      BY <1>1, <1>4, <1>5, <1>7, <2>1, WithinAtLeast
  <1>9. p[endId] = gScore[endId]
    <2>1. Heuristic(endId) = 0 /\ gScore[endId] \in Nat
      BY <1>1, <1>2, HeuristicTyped
    <2>2. QED
      BY <1>1, <1>3, <2>1
  <1>10. QED
    BY <1>8, <1>9

\* A search that ends without a route has visited whatever a way leads to.
LEMMA NoneAtLeast ==
  ASSUME PlanInv, stage = "none"
  PROVE  Unreached <= Within[Cardinality(MapNodes)][endId]
  <1>1. /\ Searching /\ stage # "building" /\ endId \in MapNodes /\ startId \in MapNodes
        /\ gScore[startId] = 0 /\ Relaxed /\ EndWaits /\ \A n \in openSet : ~Known(n)
    BY DEF PlanInv, SearchRight, Ended, Searching
  <1>2. Unreached \in Nat /\ \A n \in MapNodes : gScore[n] \in Nat /\ gScore[n] <= Unreached
    BY <1>1, ScoresTyped DEF Numbers
  <1>3. ASSUME NEW n \in MapNodes, NEW m \in MapNodes, Open(n, m)
        PROVE  gScore[m] <= gScore[n] + roads[{n, m}]
    <2>1. roads[{n, m}] \in Nat
      BY <1>1, <1>3, Road DEF Open
    <2>2. CASE Known(n)
      BY <1>1, <1>3, <2>2 DEF Relaxed
    <2>3. CASE ~Known(n)
      BY <1>2, <2>1, <2>3 DEF Known
    <2>4. QED
      BY <2>2, <2>3
  <1>4. Cardinality(MapNodes) \in 0..Cardinality(MapNodes)
    BY FS_CardinalityType, MapAssumption
  <1>5. gScore[endId] <= Within[Cardinality(MapNodes)][endId]
    <2>1. \A n \in MapNodes : gScore[n] \in Int /\ gScore[n] <= Unreached
      BY <1>2
    <2>2. gScore[startId] <= 0
      BY <1>1
    <2>3. \A n, m \in MapNodes : Open(n, m) => gScore[m] <= gScore[n] + roads[{n, m}]
      BY <1>3
    <2>4. QED
      BY <1>1, <1>4, <2>1, <2>2, <2>3, WithinAtLeast
  <1>6. ~Known(endId)
    BY <1>1 DEF EndWaits
  <1>7. gScore[endId] = Unreached
    BY <1>1, <1>2, <1>6 DEF Known
  <1>8. QED
    BY <1>5, <1>7

LEMMA RouteShortest == PlanInv => RouteIsShortest
  <1> SUFFICES ASSUME PlanInv PROVE RouteIsShortest
    OBVIOUS
  <1> DEFINE L == Within[Cardinality(MapNodes)][endId]
             S == {Unreached, L}
  <1>1. ASSUME stage # "building"
        PROVE  /\ L \in Nat /\ Unreached \in Nat /\ gScore[endId] \in Nat
               /\ Shortest \in {Unreached, L} /\ Shortest <= Unreached /\ Shortest <= L
    <2>1. Searching /\ endId \in MapNodes
      BY <1>1 DEF PlanInv, Searching
    <2>2. Cardinality(MapNodes) \in 0..Cardinality(MapNodes)
      BY FS_CardinalityType, MapAssumption
    <2>3. L \in Nat
      BY <1>1, <2>1, <2>2, WithinSteps
    <2>4. Unreached \in Nat /\ gScore[endId] \in Nat
      BY <2>1, ScoresTyped DEF Numbers
    <2>5. S \in SUBSET Nat /\ S # {}
      <3> HIDE DEF L
      <3> QED
        BY <2>3, <2>4
    <2>6. Min(S) \in S /\ \A i \in S : Min(S) <= i
      <3> HIDE DEF S
      <3> QED
        BY <2>5, LeastOf
    <2>7. Shortest = Min(S)
      BY DEF Shortest
    <2> HIDE DEF L
    <2>8. QED
      BY <2>3, <2>4, <2>6, <2>7
  <1>2. ASSUME stage = "found" PROVE gScore[endId] = Shortest
    <2>1. gScore[endId] <= L /\ L <= gScore[endId] /\ gScore[endId] < Unreached
      BY <1>2, FoundAtLeast, WithinAtMost, RouteWay DEF Known
    <2> HIDE DEF L
    <2>2. QED
      BY <1>1, <1>2, <2>1
  <1>3. ASSUME stage = "none" PROVE Shortest = Unreached
    <2>1. Unreached <= L
      BY <1>3, NoneAtLeast
    <2> HIDE DEF L
    <2>2. QED
      BY <1>1, <1>3, <2>1
  <1>4. QED
    BY <1>2, <1>3, RouteLeads DEF RouteIsShortest

\* findOptimalPath and the searches around a conflict: on every map on which no edge weighs less
\* than the distance of its ends, whatever is to be avoided and whichever of several nearest
\* nodes is visited first, the route found leads from the start to the end over edges of the
\* map, and there is no shorter one; and no route is found only if there is none.
THEOREM RoutesShortest == PlanSpec => []RouteIsShortest
  <1>1. PlanInit => PlanInv
    BY PlanStarts
  <1>2. PlanInv /\ [PlanNext]_plan => PlanInv'
    BY PlanSteps
  <1>3. PlanInv => RouteIsShortest
    BY RouteShortest
  <1>4. QED
    BY <1>1, <1>2, <1>3, PTL DEF PlanSpec

-----------------------------------------------------------------------------
(* The session with the robot *)

RosFlags == {robot, available, beating} \subseteq BOOLEAN
RosCounts ==
  /\ breaks \in 0..MaxBreaks /\ timeOuts \in 0..MaxTimeOuts /\ beats \in 0..MaxBeats
  /\ current \in {"none", "open", "closed"} /\ dialed \in {"none", "current", "open", "closed"}
  /\ {dial, late} \subseteq {"idle", "dialing", "established", "broken", "waiting"}
  /\ {others, scheduled, due, queue, reports} \subseteq Nat /\ callers \in [Calls -> Nat]

LEMMA RosParts == RosFlags /\ RosCounts <=> RosTypeOK
  BY DEF RosTypeOK, RosFlags, RosCounts

LEMMA RosPartsNext == RosFlags' /\ RosCounts' => RosTypeOK'
  BY DEF RosTypeOK, RosFlags, RosCounts

LEMMA RosStarts == RosInit => RosTypeOK
  <1>1. RosInit => RosFlags
    BY DEF RosInit, RosFlags
  <1>2. RosInit => RosCounts
    BY RosAssumption DEF RosInit, RosCounts
  <1>3. QED
    BY <1>1, <1>2, RosParts

LEMMA OneTyped == ASSUME NEW condition \in BOOLEAN PROVE One(condition) \in Nat
  BY DEF One

\* A thread in reconnect goes on or leaves.
LEMMA CallerLeaves ==
  ASSUME RosTypeOK, NEW c \in Calls, callers[c] > 0
  PROVE  /\ [callers EXCEPT ![c] = @ - 1] \in [Calls -> Nat]
         /\ \A d \in Calls \ {c} : [callers EXCEPT ![c] = @ - 1, ![d] = @ + 1] \in [Calls -> Nat]
  <1>1. callers \in [Calls -> Nat] /\ callers[c] - 1 \in Nat
    BY DEF RosTypeOK
  <1>2. [callers EXCEPT ![c] = @ - 1] \in [Calls -> Nat]
    BY <1>1
  <1>3. ASSUME NEW d \in Calls \ {c}
        PROVE  [callers EXCEPT ![c] = @ - 1, ![d] = @ + 1] \in [Calls -> Nat]
    BY <1>1
  <1>4. QED
    BY <1>2, <1>3

LEMMA CallTyped == \A kind \in Kinds, place \in {"entered", "checked", "closed"} : <<kind, place>> \in Calls
  BY DEF Calls

LEMMA CallingTyped ==
  ASSUME RosTypeOK, NEW kind \in Kinds, Calling(kind)
  PROVE  callers' \in [Calls -> Nat]
  <1>1. PICK c \in Calls : c = <<kind, "entered">>
    BY CallTyped
  <1>2. callers' = [callers EXCEPT ![c] = @ + 1]
    BY <1>1 DEF Calling
  <1>3. QED
    BY <1>2 DEF RosTypeOK

LEMMA LeftTyped ==
  ASSUME RosTypeOK, NEW kind \in Kinds, NEW place \in {"entered", "checked", "closed"}, NEW again \in BOOLEAN,
         callers[<<kind, place>>] > 0, Left(kind, place, again)
  PROVE  callers' \in [Calls -> Nat]
  <1>1. PICK c \in Calls, d \in Calls : c = <<kind, place>> /\ d = <<"once", "entered">>
    BY CallTyped DEF Kinds
  <1>2. PICK left : left = [callers EXCEPT ![c] = @ - 1]
    OBVIOUS
  <1>3. left \in [Calls -> Nat]
    BY <1>1, <1>2, CallerLeaves
  <1>4. callers' = IF again THEN [left EXCEPT ![d] = @ + 1] ELSE left
    BY <1>1, <1>2 DEF Left
  <1>5. QED
    BY <1>3, <1>4

LEMMA ConnectingTyped == ASSUME RosTypeOK, Connecting PROVE RosTypeOK'
  <1> USE DEF RosTypeOK, faults, heart, standing, attempt, waits, work
  <1>1. CASE DelayPasses
    BY <1>1 DEF DelayPasses
  <1>2. CASE Dials
    BY <1>2 DEF Dials
  <1>3. CASE ConnectFails
    BY <1>3 DEF ConnectFails, Retry
  <1>4. CASE Established
    BY <1>4 DEF Established
  <1>5. CASE DialedConnected
    <2>1. One(available) \in Nat /\ One(current' = "closed") \in Nat /\ One(current = "open") \in Nat
      BY DEF One
    <2>2. QED
      BY <1>5, <2>1 DEF DialedConnected, Connected
  <1>6. CASE GetReturns
    <2>1. One(current = "open") \in Nat
      BY DEF One
    <2>2. QED
      BY <1>6, <2>1 DEF GetReturns
  <1>7. QED
    BY <1>1, <1>2, <1>3, <1>4, <1>5, <1>6 DEF Connecting

LEMMA LateTyped == ASSUME RosTypeOK, TimesOut \/ LateConnected \/ LateFails PROVE RosTypeOK'
  <1> USE DEF RosTypeOK, faults, heart, standing, attempt, waits, work
  <1>1. CASE TimesOut
    BY <1>1, RosAssumption DEF TimesOut, Retry
  <1>2. CASE LateConnected
    <2>1. /\ One(available) \in Nat /\ One(current' = "closed") \in Nat
          /\ One(current = "open" /\ dialed # "current") \in Nat
      BY DEF One
    <2>2. QED
      BY <1>2, <2>1 DEF LateConnected, Connected, Leaves
  <1>3. CASE LateFails
    BY <1>3 DEF LateFails
  <1>4. QED
    BY <1>1, <1>2, <1>3

LEMMA ReconnectingTyped == ASSUME RosTypeOK, NEW kind \in Kinds, Reconnect(kind) PROVE RosTypeOK'
  <1> USE DEF RosTypeOK, faults, heart, standing, attempt, waits, work
  <1>1. CASE CheckSession(kind)
    <2>1. PICK next \in {"closed", "checked"} : next = IF current = "none" THEN "closed" ELSE "checked"
      OBVIOUS
    <2>2. PICK c \in Calls, d \in Calls : c = <<kind, "entered">> /\ d = <<kind, next>>
      BY CallTyped
    <2>3. c # d /\ callers[c] > 0 /\ callers' = [callers EXCEPT ![c] = @ - 1, ![d] = @ + 1]
      BY <1>1, <2>1, <2>2 DEF CheckSession
    <2>4. callers' \in [Calls -> Nat]
      BY <2>3, CallerLeaves
    <2>5. QED
      BY <1>1, <2>4 DEF CheckSession
  <1>2. CASE CloseSession(kind)
    <2>1. PICK c \in Calls, d \in Calls : c = <<kind, "checked">> /\ d = <<kind, "closed">>
      BY CallTyped
    <2>2. c # d /\ callers[c] > 0 /\ callers' = [callers EXCEPT ![c] = @ - 1, ![d] = @ + 1]
      BY <1>2, <2>1 DEF CloseSession
    <2>3. callers' \in [Calls -> Nat]
      BY <2>2, CallerLeaves
    <2>4. RosFlags'
      BY <1>2 DEF CloseSession, RosFlags
    <2>5. RosCounts'
      BY <1>2, <2>3 DEF CloseSession, RosCounts
    <2>6. QED
      BY <2>4, <2>5, RosPartsNext
  <1>3. CASE SessionIsNull(kind)
    <2>1. callers' \in [Calls -> Nat]
      BY <1>3, LeftTyped DEF SessionIsNull
    <2>2. QED
      BY <1>3, <2>1 DEF SessionIsNull
  <1>4. CASE ScheduleConnect(kind)
    <2>1. callers' \in [Calls -> Nat]
      BY <1>4, LeftTyped DEF ScheduleConnect
    <2>2. One(current = "open" /\ dialed # "current") \in Nat
      BY DEF One
    <2>3. QED
      BY <1>4, <2>1, <2>2 DEF ScheduleConnect, Leaves
  <1>5. QED
    BY <1>1, <1>2, <1>3, <1>4 DEF Reconnect

LEMMA CallersTyped ==
  ASSUME RosTypeOK, Report \/ Heartbeat \/ SendHeartbeat \/ SendSafely
  PROVE  RosTypeOK'
  <1> USE DEF RosTypeOK, faults, heart, standing, attempt, waits, work
  <1>1. CASE Report
    <2>1. PICK kind \in {"once", "twice"} : Calling(kind)
      BY <1>1 DEF Report
    <2>2. callers' \in [Calls -> Nat]
      BY <2>1, CallingTyped DEF Kinds
    <2>3. RosFlags'
      BY <1>1 DEF Report, RosFlags
    <2>4. RosCounts'
      BY <1>1, <2>2 DEF Report, RosCounts
    <2>5. QED
      BY <2>3, <2>4, RosPartsNext
  <1>2. CASE Heartbeat
    BY <1>2, RosAssumption DEF Heartbeat
  <1>3. CASE SendHeartbeat
    <2>1. Calling("once") => callers' \in [Calls -> Nat]
      BY CallingTyped DEF Kinds
    <2>2. RosFlags'
      BY <1>3 DEF SendHeartbeat, RosFlags
    <2>3. RosCounts'
      BY <1>3, <2>1 DEF SendHeartbeat, RosCounts
    <2>4. QED
      BY <2>2, <2>3, RosPartsNext
  <1>4. CASE SendSafely
    <2>1. Calling("sender") => callers' \in [Calls -> Nat]
      BY CallingTyped DEF Kinds
    <2>2. QED
      BY <1>4, <2>1 DEF SendSafely
  <1>5. QED
    BY <1>1, <1>2, <1>3, <1>4

LEMMA RobotTyped == ASSUME RosTypeOK, RobotBreaks \/ RobotReturns PROVE RosTypeOK'
  <1> USE DEF RosTypeOK, faults, heart, standing, attempt, waits, work
  <1>1. CASE RobotBreaks
    <2>1. One(current = "open") \in Nat /\ One(dialed = "open") \in Nat
      BY DEF One
    <2>2. RosFlags'
      BY <1>1 DEF RobotBreaks, RosFlags
    <2>3. RosCounts'
      BY <1>1, <2>1, RosAssumption DEF RobotBreaks, RosCounts
    <2>4. QED
      BY <2>2, <2>3, RosPartsNext
  <1>2. CASE RobotReturns
    BY <1>2 DEF RobotReturns
  <1>3. QED
    BY <1>1, <1>2

LEMMA RosSteps == RosTypeOK /\ [RosNext]_ros => RosTypeOK'
  <1> SUFFICES ASSUME RosTypeOK, [RosNext]_ros PROVE RosTypeOK'
    OBVIOUS
  <1>1. CASE UNCHANGED ros
    BY <1>1 DEF ros, RosTypeOK
  <1>2. CASE Reconnecting
    BY <1>2, ReconnectingTyped DEF Reconnecting
  <1>3. QED
    BY <1>1, <1>2, ConnectingTyped, LateTyped, CallersTyped, RobotTyped DEF RosNext

-----------------------------------------------------------------------------
(* All of them beside each other *)

MqttInv == IInv /\ TypeOK /\ Paced /\ Announced
ServicesInv == part \in {"mqtt", "ros2", "planner"} /\ MqttInv /\ RosTypeOK /\ PlanInv

LEMMA MqttSteps == MqttInv /\ [Next]_vars => MqttInv'
  <1> SUFFICES ASSUME MqttInv, [Next]_vars PROVE MqttInv'
    OBVIOUS
  <1>1. IInv /\ TypeOK /\ Paced /\ Announced
    BY DEF MqttInv
  <1>2. IInv' /\ TypeOK' /\ Paced' /\ Announced'
    BY <1>1, NextIInv, NextTypeOK, NextPaced, StepAnnounced
  <1>3. QED
    BY <1>2 DEF MqttInv

LEMMA ServicesStart == ServicesInit => ServicesInv
  <1> SUFFICES ASSUME ServicesInit PROVE ServicesInv
    OBVIOUS
  <1>1. part \in {"mqtt", "ros2", "planner"} /\ Init /\ RosInit /\ PlanInit
    BY DEF ServicesInit
  <1>2. MqttInv
    BY <1>1, InitIInv, InitTypeOK, InitPaced, InitAnnounced DEF MqttInv
  <1>3. RosTypeOK /\ PlanInv
    BY <1>1, RosStarts, PlanStarts
  <1>4. QED
    BY <1>1, <1>2, <1>3 DEF ServicesInv

LEMMA ServicesStep == ServicesInv /\ [ServicesNext]_services => ServicesInv'
  <1> SUFFICES ASSUME ServicesInv, [ServicesNext]_services PROVE ServicesInv'
    OBVIOUS
  <1>1. /\ part' = part
        /\ Next \/ UNCHANGED vars
        /\ RosNext \/ UNCHANGED ros
        /\ PlanNext \/ UNCHANGED plan
    BY DEF ServicesNext, services
  <1>2. MqttInv' /\ RosTypeOK' /\ PlanInv'
    BY <1>1, MqttSteps, RosSteps, PlanSteps DEF ServicesInv
  <1>3. QED
    BY <1>1, <1>2 DEF ServicesInv

\* However often the broker and the robot go away and come back, whichever threads of the
\* simulator reconnect at once, and whatever is searched for: the state of every part
\* keeps its type.
THEOREM ServicesTyped == ServicesSpec => []ServicesTypeOK
  <1>1. ServicesInv => ServicesTypeOK
    BY PlanTyped DEF ServicesInv, MqttInv, ServicesTypeOK
  <1>2. QED
    BY <1>1, ServicesStart, ServicesStep, PTL DEF ServicesSpec

\* What is proved of each part by itself holds of it in the composition that TLC checks.
THEOREM ServicesRight == ServicesSpec => [](OneAttempt /\ OnlineWhenReady /\ RouteIsShortest)
  <1>1. ServicesInv => OneAttempt /\ OnlineWhenReady /\ RouteIsShortest
    BY IInvOneAttempt, AnnouncedOnline, RouteShortest DEF ServicesInv, MqttInv
  <1>2. QED
    BY <1>1, ServicesStart, ServicesStep, PTL DEF ServicesSpec
=============================================================================
