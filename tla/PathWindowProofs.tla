-------------------------- MODULE PathWindowProofs --------------------------
(* PathWindow for any number of AGVs, tasks and resources, any routes, any   *)
(* window and any number of reports on their way.                            *)
EXTENDS PathWindow, SequenceTheorems, TLAPS

Nowhere == [node |-> None, edge |-> None]

OnRoute(t) == {Route[t][i] : i \in DOMAIN Route[t]}

\* What a handler has locked and is about to lock.
Work(a) == handler[a].locked \o handler[a].todo

\* Where a handler is determines what it has.
Whole(h) ==
    /\ h.pc = "idle" => h = NoWork
    /\ h.pc \in {"node", "edge"} => h.todo = <<>> /\ h.locked = <<>>
    /\ h.pc \in {"lock", "ask", "undo"} => h.task # NoTask
    /\ h.pc = "ask" => h.todo # <<>>

Endings == EndSteps \cup {<<>>, <<"release">>, <<"finish">>}

Typed ==
    /\ TypeOK
    /\ at \in [Agvs -> Nat]
    /\ \A a \in Agvs : Whole(handler[a]) /\ ending[a] \in Endings

-----------------------------------------------------------------------------
(* Lists *)

\* What is in a list.
InSeq(s, x) == \E i \in DOMAIN s : s[i] = x

\* Resources of a route, in its order.
Along(t, s) ==
    /\ s \in Seq(OnRoute(t))
    /\ \A i, j \in DOMAIN s : i < j => Index(t, s[i]) < Index(t, s[j])

Ahead(t, s, u) == \A i \in DOMAIN s, j \in DOMAIN u : Index(t, s[i]) < Index(t, u[j])

\* A task is one AGV's only.
Has(a, t) == current[a] = t \/ order[a] = t \/ handler[a].task = t
OneOwner ==
    \A a \in Agvs, t \in TaskIds : Has(a, t) => t \in scheduled /\ \A b \in Agvs : Has(b, t) => a = b

\* What is to be locked continues the list.
Continues(a) ==
    handler[a].pc \in {"lock", "ask", "undo"} =>
        LET t == handler[a].task
        IN /\ Along(t, Work(a)) /\ Ahead(t, lockList[t], Work(a))
           /\ Len(lockList[t]) + Len(Work(a)) <= Window

Listed ==
    /\ OneOwner
    /\ \A t \in TaskIds : Along(t, lockList[t]) /\ Len(lockList[t]) <= Window
    /\ \A a \in Agvs : Continues(a)

-----------------------------------------------------------------------------
(* Locks *)

\* An AGV without a task has nothing to do and nothing to say; while its task is ended, too.
Resting(a) == order[a] = NoTask /\ inbox[a] = <<>> /\ handler[a].pc = "idle"
CycleOf(a) ==
    /\ current[a] = NoTask \/ ending[a] # <<>> => Resting(a)
    /\ order[a] # NoTask => order[a] = current[a]
    /\ handler[a].pc # "idle" => handler[a].task = current[a]
    /\ ending[a] # <<>> => (current[a] = NoTask <=> ending[a] = <<"release">>)
Cycle == \A a \in Agvs : CycleOf(a)

\* What is locked for an AGV, and that its list says so.
HeldBy(a) ==
    /\ \A r \in Resources : InSeq(handler[a].locked, r) => user[r] = a
    /\ (current[a] = NoTask /\ ending[a] = <<>>) \/ ending[a] = <<"finish">> => \A r \in Resources : user[r] # a
    /\ current[a] # NoTask /\ ending[a] = <<>> =>
         \A r \in Resources : /\ InSeq(lockList[current[a]], r) => user[r] = a
                              /\ user[r] = a => InSeq(lockList[current[a]], r) \/ InSeq(handler[a].locked, r)
Held == \A a \in Agvs : HeldBy(a)

-----------------------------------------------------------------------------
(* Reports *)

\* The report m is followed by n: the same again, or the next on the route.
Step(t, m, n) ==
    \/ m = n
    \/ m = Nowhere /\ n = StandardReport(t, 1)
    \/ \E i \in 1..(Len(Route[t]) - 1) : m = StandardReport(t, i) /\ n = StandardReport(t, i + 1)

\* How far the AGV has come, counted from the first node.
Progress(a) == IF at[a] = 0 THEN 1 ELSE at[a]
\* What it reported last.
LastReport(a) ==
    IF order[a] # NoTask THEN StandardReport(order[a], Progress(a)) ELSE [node |-> place[a], edge |-> None]

\* The report the handler has or had last.
Seen(a) == IF handler[a].pc \in {"node", "edge"} THEN handler[a].report ELSE reported[a]

\* The handler has dealt with the node of the report that follows m, not with the edge yet.
HalfWay(a, m) ==
    LET n == handler[a].report
    IN /\ Step(current[a], m, n)
       /\ reported[a] = [node |-> n.node, edge |-> m.edge]
       /\ handler[a].changed = (m.node \notin {None, n.node})

\* The reports s lead from m to n.
Chain(t, m, s, n) ==
    IF s = <<>> THEN m = n
    ELSE /\ Step(t, m, s[1]) /\ s[Len(s)] = n
         /\ \A i \in 1..(Len(s) - 1) : Step(t, s[i], s[i + 1])

\* The reports of an AGV that is to be relied on, up to the last one.
Tracked(a) ==
    LET t == current[a]
    IN /\ Chain(t, Seen(a), inbox[a], LastReport(a))
       /\ handler[a].pc = "node" => Step(t, reported[a], handler[a].report)
       /\ handler[a].pc = "edge" => \E m \in Reports : HalfWay(a, m)

\* It has been where it reports to be.
Reached(t, i) == {StandardReport(t, j) : j \in 1..i}
BeenThere(a) ==
    order[a] # NoTask =>
        /\ Seen(a) \in Reached(order[a], Progress(a)) \cup {Nowhere}
        /\ inbox[a] \in Seq(Reached(order[a], Progress(a)))

Reliable == Standard \ Lossy
TrailOf(a) ==
    IF current[a] = NoTask THEN reported[a] \in {Nowhere, [node |-> place[a], edge |-> None]}
    ELSE Tracked(a) /\ BeenThere(a)
Trail == \A a \in Reliable : a \notin astray => TrailOf(a)

\* The window at a report.
WindowAt(t, m) == IF m = Nowhere THEN First(t) ELSE Stretch(t, Index(t, m.node), Window)

\* The list is the window at the report that was handled last, unless a lock was refused.
WindowRight(a) ==
    LET t == current[a]
    IN /\ handler[a].pc \in {"idle", "node"} => lockList[t] = WindowAt(t, reported[a])
       /\ handler[a].pc = "edge" =>
             \E m \in Reports : /\ HalfWay(a, m)
                                /\ lockList[t] = IF handler[a].changed THEN Without(WindowAt(t, m), m.node)
                                                 ELSE WindowAt(t, m)
       /\ handler[a].pc = "lock" => lockList[t] \o Work(a) = WindowAt(t, reported[a])
       /\ handler[a].pc \notin {"ask", "undo"}
Windows ==
    \A a \in Reliable : current[a] # NoTask /\ current[a] \notin refused /\ a \notin astray => WindowRight(a)

USE NobodyAssumption

-----------------------------------------------------------------------------
(* Routes and lists *)

LEMMA RouteFacts ==
    ASSUME NEW t \in TaskIds
    PROVE  /\ Route[t] \in Seq(Resources) /\ Len(Route[t]) \in Nat /\ Len(Route[t]) >= 3
           /\ DOMAIN Route[t] = 1..Len(Route[t])
           /\ \A i \in 1..Len(Route[t]) :
                Index(t, Route[t][i]) = i /\ Route[t][i] \in OnRoute(t) /\ Route[t][i] \in Resources
           /\ \A r \in OnRoute(t) :
                Index(t, r) \in 1..Len(Route[t]) /\ Route[t][Index(t, r)] = r /\ r \in Resources
  <1>1. /\ Route[t] \in Seq(Resources) /\ Len(Route[t]) >= 3
        /\ \A i, j \in DOMAIN Route[t] : Route[t][i] = Route[t][j] => i = j
    BY RouteAssumption
  <1>2. /\ Len(Route[t]) \in Nat /\ DOMAIN Route[t] = 1..Len(Route[t])
        /\ \A i \in 1..Len(Route[t]) : Route[t][i] \in Resources
    BY <1>1, LenProperties, ElementOfSeq
  <1>3. ASSUME NEW i \in DOMAIN Route[t]
        PROVE  Index(t, Route[t][i]) = i
    <2>1. \E j \in DOMAIN Route[t] : Route[t][j] = Route[t][i]
      OBVIOUS
    <2>2. Index(t, Route[t][i]) \in DOMAIN Route[t] /\ Route[t][Index(t, Route[t][i])] = Route[t][i]
      BY <2>1 DEF Index
    <2>3. QED
      BY <1>1, <2>2
  <1>4. QED
    BY <1>1, <1>2, <1>3 DEF OnRoute

LEMMA StretchFacts ==
    ASSUME NEW t \in TaskIds, NEW i \in Nat, 1 <= i, i <= Len(Route[t]) + 1, NEW n \in Nat
    PROVE  LET s == Stretch(t, i, n)
           IN  /\ Along(t, s) /\ s \in Seq(OnRoute(t)) /\ s \in Seq(Resources)
               /\ Len(s) \in Nat /\ DOMAIN s = 1..Len(s) /\ Len(s) <= n
               /\ Len(s) = IF i + n - 1 <= Len(Route[t]) THEN n ELSE Len(Route[t]) - i + 1
               /\ \A j \in DOMAIN s : s[j] = Route[t][i + j - 1] /\ Index(t, s[j]) = i + j - 1
  <1> DEFINE e == IF i + n - 1 <= Len(Route[t]) THEN i + n - 1 ELSE Len(Route[t])
             s == Stretch(t, i, n)
  <1>1. s = SubSeq(Route[t], i, e)
    BY DEF Stretch
  <1>2. /\ i \in Int /\ e \in Int /\ e <= Len(Route[t])
        /\ \A j \in i..e : Route[t][j] \in OnRoute(t) /\ Route[t][j] \in Resources
    BY RouteFacts
  <1>3. (IF i <= e THEN e - i + 1 ELSE 0) = IF i + n - 1 <= Len(Route[t]) THEN n ELSE Len(Route[t]) - i + 1
    BY RouteFacts
  <1> HIDE DEF e, s
  <1>4. /\ s \in Seq(OnRoute(t)) /\ s \in Seq(Resources)
        /\ Len(s) = IF i <= e THEN e - i + 1 ELSE 0
        /\ \A j \in 1..(e - i + 1) : s[j] = Route[t][i + j - 1]
    BY <1>1, <1>2, SubSeqProperties
  <1>5. Len(s) \in Nat /\ DOMAIN s = 1..Len(s)
    BY <1>4, LenProperties
  <1>6. Len(s) = (IF i + n - 1 <= Len(Route[t]) THEN n ELSE Len(Route[t]) - i + 1) /\ Len(s) <= n
    BY <1>3, <1>4, RouteFacts
  <1>7. ASSUME NEW j \in DOMAIN s PROVE s[j] = Route[t][i + j - 1] /\ Index(t, s[j]) = i + j - 1
    <2>1. j \in 1..(e - i + 1)
      BY <1>2, <1>4, <1>5
    <2>2. i + j - 1 \in 1..e
      BY <1>2, <2>1
    <2>3. i + j - 1 \in 1..Len(Route[t])
      <3>1. Len(Route[t]) \in Nat
        BY RouteFacts
      <3>2. QED
        BY <1>2, <2>2, <3>1
    <2>4. QED
      BY <1>4, <2>1, <2>3, RouteFacts
  <1>8. Along(t, s)
    <2>1. \A j, k \in DOMAIN s : j < k => i + j - 1 < i + k - 1
      BY <1>5
    <2>2. QED
      BY <1>4, <1>7, <2>1 DEF Along
  <1>9. QED
    BY <1>4, <1>5, <1>6, <1>7, <1>8 DEF s

Distinct(s) == \A i, j \in DOMAIN s : s[i] = s[j] => i = j

\* The list w has what s has but r, in the same order.
Thinned(S, s, r, w) ==
    /\ w \in Seq(S) /\ Len(w) <= Len(s)
    /\ \A x : InSeq(w, x) <=> x # r /\ InSeq(s, x)
    /\ \A i, j \in DOMAIN w : i < j => \E k, l \in DOMAIN s : k < l /\ w[i] = s[k] /\ w[j] = s[l]

LEMMA WithoutFacts ==
    ASSUME NEW S, NEW s \in Seq(S), NEW r, Distinct(s), NEW w, w = Without(s, r)
    PROVE  Thinned(S, s, r, w)
  <1> DEFINE n == Len(s)
  <1>1. n \in Nat /\ DOMAIN s = 1..n
    BY LenProperties
  <1>2. PICK p \in 1..(n + 1) :
          /\ \/ p \in DOMAIN s /\ s[p] = r
             \/ p = n + 1 /\ \A j \in DOMAIN s : s[j] # r
          /\ w = SubSeq(s, 1, p - 1) \o SubSeq(s, p + 1, n)
    <2>1. CASE \E j \in DOMAIN s : s[j] = r
      <3>1. PICK k \in DOMAIN s : s[k] = r /\ k = CHOOSE j \in DOMAIN s : s[j] = r
        BY <2>1
      <3>2. w = SubSeq(s, 1, k - 1) \o SubSeq(s, k + 1, n)
        BY <2>1, <3>1 DEF Without
      <3>3. k \in 1..(n + 1)
        BY <1>1
      <3>4. QED
        BY <3>1, <3>2, <3>3, Zenon
    <2>2. CASE \A j \in DOMAIN s : s[j] # r
      <3>1. w = SubSeq(s, 1, (n + 1) - 1) \o SubSeq(s, (n + 1) + 1, n)
        BY <2>2 DEF Without
      <3>2. n + 1 \in 1..(n + 1)
        BY <1>1
      <3>3. QED
        BY <2>2, <3>1, <3>2
    <2>3. QED
      BY <2>1, <2>2
  <1> DEFINE u == SubSeq(s, 1, p - 1)
             v == SubSeq(s, p + 1, n)
  <1>3. w = u \o v
    BY <1>2
  <1>4. n \in Nat /\ p \in Nat /\ 1 <= p /\ p <= n + 1
    BY <1>1
  <1>5. \A i \in 1..n : s[i] \in S
    BY ElementOfSeq
  <1> HIDE DEF n
  <1>6. u \in Seq(S) /\ Len(u) = p - 1 /\ \A i \in 1..(p - 1) : u[i] = s[i]
    <2>1. \A i \in 1..(p - 1) : s[i] \in S
      BY <1>4, <1>5
    <2>2. /\ u \in Seq(S) /\ Len(u) = (IF 1 <= p - 1 THEN (p - 1) - 1 + 1 ELSE 0)
          /\ \A i \in 1..((p - 1) - 1 + 1) : u[i] = s[1 + i - 1]
      BY <1>4, <2>1, SubSeqProperties
    <2>3. \A i \in 1..(p - 1) : u[i] = s[i]
      BY <1>4, <2>2
    <2>4. QED
      BY <1>4, <2>2, <2>3
  <1>7. v \in Seq(S) /\ Len(v) = (IF p <= n THEN n - p ELSE 0) /\ \A i \in 1..(n - p) : v[i] = s[p + i]
    <2>1. \A i \in (p + 1)..n : s[i] \in S
      BY <1>4, <1>5
    <2>2. /\ v \in Seq(S) /\ Len(v) = (IF p + 1 <= n THEN n - (p + 1) + 1 ELSE 0)
          /\ \A i \in 1..(n - (p + 1) + 1) : v[i] = s[(p + 1) + i - 1]
      BY <1>4, <2>1, SubSeqProperties
    <2>3. \A i \in 1..(n - p) : v[i] = s[p + i]
      BY <1>4, <2>2
    <2>4. QED
      BY <1>4, <2>2, <2>3
  <1> HIDE DEF u, v
  <1>8. /\ w \in Seq(S) /\ Len(w) = Len(u) + Len(v) /\ DOMAIN w = 1..Len(w)
        /\ \A i \in 1..Len(w) : w[i] = IF i <= Len(u) THEN u[i] ELSE v[i - Len(u)]
    <2>1. /\ u \o v \in Seq(S) /\ Len(u \o v) = Len(u) + Len(v)
          /\ \A i \in 1..(Len(u) + Len(v)) : (u \o v)[i] = IF i <= Len(u) THEN u[i] ELSE v[i - Len(u)]
      BY <1>6, <1>7, ConcatProperties
    <2>2. QED
      BY <1>3, <2>1, LenProperties
  <1>9. Len(w) = (IF p <= n THEN n - 1 ELSE n) /\ Len(u) = p - 1 /\ Len(v) = IF p <= n THEN n - p ELSE 0
    BY <1>4, <1>6, <1>7, <1>8
  <1>10. ASSUME NEW i \in Nat, 1 <= i, i <= Len(w)
         PROVE  /\ i < p => i <= n /\ w[i] = s[i]
                /\ ~(i < p) => p <= n /\ i + 1 <= n /\ w[i] = s[i + 1]
    <2>1. w[i] = IF i <= Len(u) THEN u[i] ELSE v[i - Len(u)]
      BY <1>4, <1>8, <1>9, <1>10
    <2>2. CASE i < p
      <3>1. i <= n /\ i <= Len(u) /\ i \in 1..(p - 1)
        BY <1>4, <1>9, <1>10, <2>2
      <3>2. w[i] = s[i]
        BY <1>6, <2>1, <3>1
      <3>3. QED
        BY <2>2, <3>1, <3>2
    <2>3. CASE ~(i < p)
      <3>1. /\ p <= n /\ i + 1 <= n /\ ~(i <= Len(u))
            /\ i - Len(u) \in 1..(n - p) /\ p + (i - Len(u)) = i + 1
        BY <1>4, <1>9, <1>10, <2>3
      <3>2. w[i] = s[i + 1]
        BY <1>7, <2>1, <3>1
      <3>3. QED
        BY <2>3, <3>1, <3>2
    <2>4. QED
      BY <2>2, <2>3
  \* Where each place of the new list comes from.
  <1>11. ASSUME NEW i \in DOMAIN w
         PROVE  \E k \in DOMAIN s : k # p /\ w[i] = s[k] /\ k = IF i < p THEN i ELSE i + 1
    <2>1. i \in Nat /\ 1 <= i /\ i <= Len(w)
      BY <1>4, <1>8, <1>9
    <2>2. CASE i < p
      BY <1>1, <1>4, <1>10, <2>1, <2>2
    <2>3. CASE ~(i < p)
      BY <1>1, <1>4, <1>10, <2>1, <2>3
    <2>4. QED
      BY <2>2, <2>3
  <1>12. ASSUME NEW k \in DOMAIN s, k # p
         PROVE  \E i \in DOMAIN w : w[i] = s[k]
    <2>1. k \in Nat /\ 1 <= k /\ k <= n
      BY <1>1
    <2>2. CASE k < p
      <3>1. k \in DOMAIN w /\ k <= Len(w)
        BY <1>4, <1>8, <1>9, <2>1, <2>2
      <3>2. QED
        BY <1>10, <2>1, <2>2, <3>1
    <2>3. CASE k > p
      <3>1. k - 1 \in Nat /\ 1 <= k - 1 /\ k - 1 <= Len(w) /\ ~(k - 1 < p) /\ (k - 1) + 1 = k
        BY <1>4, <1>9, <2>1, <2>3
      <3>2. w[k - 1] = s[k]
        BY <1>10, <3>1
      <3>3. k - 1 \in DOMAIN w
        BY <1>4, <1>8, <1>9, <3>1
      <3>4. QED
        BY <3>2, <3>3
    <2>4. QED
      BY <1>4, <1>12, <2>1, <2>2, <2>3
  <1>13. \A k \in DOMAIN s : s[k] = r <=> k = p
    <2>1. n + 1 \notin DOMAIN s
      BY <1>1
    <2>2. QED
      BY <1>2, <2>1 DEF Distinct
  <1>14. \A x : (\E i \in DOMAIN w : w[i] = x) <=> x # r /\ \E i \in DOMAIN s : s[i] = x
    BY <1>11, <1>12, <1>13
  <1>15. ASSUME NEW i \in DOMAIN w, NEW j \in DOMAIN w, i < j
         PROVE  \E k, l \in DOMAIN s : k < l /\ w[i] = s[k] /\ w[j] = s[l]
    <2>1. PICK k \in DOMAIN s : w[i] = s[k] /\ k = IF i < p THEN i ELSE i + 1
      BY <1>11
    <2>2. PICK l \in DOMAIN s : w[j] = s[l] /\ l = IF j < p THEN j ELSE j + 1
      BY <1>11
    <2>3. i \in Nat /\ j \in Nat
      BY <1>8
    <2>4. k < l
      BY <1>4, <1>15, <2>1, <2>2, <2>3
    <2>5. QED
      BY <2>1, <2>2, <2>4
  <1>16. Len(w) <= n
    BY <1>4, <1>9
  <1>17. QED
    BY <1>8, <1>14, <1>15, <1>16 DEF n, Thinned, InSeq

\* A list along the route names nothing twice.
LEMMA AlongDistinct ==
    ASSUME NEW t \in TaskIds, NEW s, Along(t, s)
    PROVE  /\ s \in Seq(OnRoute(t)) /\ s \in Seq(Resources) /\ Len(s) \in Nat /\ DOMAIN s = 1..Len(s)
           /\ \A i \in DOMAIN s : s[i] \in OnRoute(t) /\ Index(t, s[i]) \in 1..Len(Route[t])
           /\ Distinct(s)
  <1>1. s \in Seq(OnRoute(t)) /\ Len(s) \in Nat /\ DOMAIN s = 1..Len(s) /\ OnRoute(t) \subseteq Resources
    BY LenProperties, RouteFacts DEF Along
  <1>2. \A i \in DOMAIN s : s[i] \in OnRoute(t) /\ Index(t, s[i]) \in 1..Len(Route[t])
    BY <1>1, ElementOfSeq, RouteFacts
  <1>3. ASSUME NEW i \in DOMAIN s, NEW j \in DOMAIN s, s[i] = s[j] PROVE i = j
    <2>1. ~(i < j) /\ ~(j < i)
      <3>1. Index(t, s[i]) = Index(t, s[j]) /\ Index(t, s[i]) \in Nat
        BY <1>2, <1>3, RouteFacts
      <3>2. QED
        BY <3>1 DEF Along
    <2>2. QED
      BY <1>1, <2>1
  <1>4. s \in Seq(Resources)
    BY <1>1
  <1>5. QED
    BY <1>1, <1>2, <1>3, <1>4 DEF Distinct

LEMMA WithoutAlong ==
    ASSUME NEW t \in TaskIds, NEW s, Along(t, s), NEW r, NEW w, w = Without(s, r)
    PROVE  /\ Along(t, w) /\ Len(w) <= Len(s)
           /\ \A x : InSeq(w, x) <=> x # r /\ InSeq(s, x)
  <1>1. s \in Seq(OnRoute(t)) /\ Distinct(s)
    BY AlongDistinct
  <1>2. Thinned(OnRoute(t), s, r, w)
    BY <1>1, WithoutFacts, Zenon
  <1>3. Along(t, w)
    BY <1>2 DEF Along, Thinned
  <1>4. QED
    BY <1>2, <1>3 DEF Thinned

\* One list after the other.
LEMMA ConcatParts ==
    ASSUME NEW S, NEW s \in Seq(S), NEW u \in Seq(S)
    PROVE  /\ s \o u \in Seq(S) /\ Len(s \o u) = Len(s) + Len(u)
           /\ \A i \in DOMAIN (s \o u) : \/ i \in DOMAIN s /\ (s \o u)[i] = s[i]
                                         \/ i - Len(s) \in DOMAIN u /\ (s \o u)[i] = u[i - Len(s)]
           /\ \A i \in DOMAIN s : i \in DOMAIN (s \o u) /\ (s \o u)[i] = s[i]
           /\ \A i \in DOMAIN u : Len(s) + i \in DOMAIN (s \o u) /\ (s \o u)[Len(s) + i] = u[i]
  <1> DEFINE w == s \o u
  <1>1. /\ w \in Seq(S) /\ Len(w) = Len(s) + Len(u) /\ Len(s) \in Nat /\ Len(u) \in Nat
        /\ DOMAIN s = 1..Len(s) /\ DOMAIN u = 1..Len(u) /\ DOMAIN w = 1..Len(w)
        /\ \A i \in 1..(Len(s) + Len(u)) : w[i] = IF i <= Len(s) THEN s[i] ELSE u[i - Len(s)]
    BY ConcatProperties, LenProperties
  <1> HIDE DEF w
  <1>2. ASSUME NEW i \in DOMAIN w
        PROVE  \/ i \in DOMAIN s /\ w[i] = s[i]
               \/ i - Len(s) \in DOMAIN u /\ w[i] = u[i - Len(s)]
    <2>1. CASE i <= Len(s)
      BY <1>1, <2>1
    <2>2. CASE ~(i <= Len(s))
      BY <1>1, <2>2
    <2>3. QED
      BY <2>1, <2>2
  <1>3. \A i \in DOMAIN s : i \in DOMAIN w /\ w[i] = s[i]
    BY <1>1
  <1>4. ASSUME NEW i \in DOMAIN u PROVE Len(s) + i \in DOMAIN w /\ w[Len(s) + i] = u[i]
    <2>1. Len(s) + i \in DOMAIN w /\ ~(Len(s) + i <= Len(s)) /\ (Len(s) + i) - Len(s) = i
      BY <1>1
    <2>2. QED
      BY <1>1, <2>1
  <1>5. QED
    BY <1>1, <1>2, <1>3, <1>4 DEF w

LEMMA ConcatAlong ==
    ASSUME NEW t \in TaskIds, NEW s, NEW u, Along(t, s), Along(t, u), Ahead(t, s, u)
    PROVE  /\ Along(t, s \o u) /\ Len(s \o u) = Len(s) + Len(u)
           /\ \A x : InSeq(s \o u, x) <=> InSeq(s, x) \/ InSeq(u, x)
  <1> DEFINE w == s \o u
  <1>1. /\ s \in Seq(OnRoute(t)) /\ u \in Seq(OnRoute(t)) /\ Len(s) \in Nat /\ Len(u) \in Nat
        /\ DOMAIN s = 1..Len(s) /\ DOMAIN u = 1..Len(u)
    BY AlongDistinct
  <1>2. /\ w \in Seq(OnRoute(t)) /\ Len(w) = Len(s) + Len(u)
        /\ \A i \in DOMAIN w : \/ i \in DOMAIN s /\ w[i] = s[i]
                               \/ i - Len(s) \in DOMAIN u /\ w[i] = u[i - Len(s)]
        /\ \A i \in DOMAIN s : i \in DOMAIN w /\ w[i] = s[i]
        /\ \A i \in DOMAIN u : Len(s) + i \in DOMAIN w /\ w[Len(s) + i] = u[i]
    BY <1>1, ConcatParts
  <1> HIDE DEF w
  <1>3. DOMAIN w = 1..Len(w)
    BY <1>2, LenProperties
  <1>4. ASSUME NEW i \in DOMAIN w, NEW j \in DOMAIN w, i < j
        PROVE  Index(t, w[i]) < Index(t, w[j])
    <2>1. CASE i \in DOMAIN s /\ w[i] = s[i] /\ j \in DOMAIN s /\ w[j] = s[j]
      BY <1>4, <2>1 DEF Along
    <2>2. CASE i \in DOMAIN s /\ w[i] = s[i] /\ j - Len(s) \in DOMAIN u /\ w[j] = u[j - Len(s)]
      BY <2>2 DEF Ahead
    <2>3. CASE i - Len(s) \in DOMAIN u /\ w[i] = u[i - Len(s)] /\ j - Len(s) \in DOMAIN u /\ w[j] = u[j - Len(s)]
      <3>1. i - Len(s) < j - Len(s)
        BY <1>1, <1>2, <1>3, <1>4
      <3>2. QED
        BY <2>3, <3>1 DEF Along
    <2>4. ~(i - Len(s) \in DOMAIN u /\ j \in DOMAIN s)
      BY <1>1, <1>2, <1>3, <1>4
    <2>5. QED
      BY <1>2, <2>1, <2>2, <2>3, <2>4
  <1>5. Along(t, w)
    BY <1>2, <1>4 DEF Along
  <1>6. \A x : InSeq(w, x) <=> InSeq(s, x) \/ InSeq(u, x)
    BY <1>2 DEF InSeq
  <1>7. QED
    BY <1>2, <1>5, <1>6 DEF w

\* The first part of what lies ahead, and all but its first resource.
LEMMA AlongFirstPart ==
    ASSUME NEW t \in TaskIds, NEW s, NEW u \in Seq(Resources), NEW v \in Seq(Resources),
           Along(t, u \o v), Ahead(t, s, u \o v)
    PROVE  Along(t, u) /\ Ahead(t, s, u) /\ Len(u) <= Len(u \o v)
  <1> DEFINE w == u \o v
  <1>1. /\ Len(w) = Len(u) + Len(v) /\ Len(u) \in Nat /\ Len(v) \in Nat /\ DOMAIN u = 1..Len(u)
        /\ \A i \in DOMAIN u : i \in DOMAIN w /\ w[i] = u[i]
    BY ConcatParts, LenProperties
  <1>2. w \in Seq(OnRoute(t)) /\ \A i \in DOMAIN w : w[i] \in OnRoute(t)
    BY AlongDistinct
  <1> HIDE DEF w
  <1>3. u \in Seq(OnRoute(t))
    <2>1. u = [i \in 1..Len(u) |-> u[i]] /\ \A i \in 1..Len(u) : u[i] \in OnRoute(t)
      BY <1>1, <1>2, LenProperties
    <2>2. QED
      BY <1>1, <2>1, SeqDef
  <1>4. Along(t, w) /\ Ahead(t, s, w)
    BY DEF w
  <1>5. QED
    BY <1>1, <1>3, <1>4 DEF Along, Ahead, w

LEMMA AlongTail ==
    ASSUME NEW t \in TaskIds, NEW s, NEW u, u # <<>>, Along(t, u), Ahead(t, s, u)
    PROVE  Along(t, Tail(u)) /\ Ahead(t, s, Tail(u)) /\ Len(Tail(u)) < Len(u)
  <1>1. u \in Seq(OnRoute(t)) /\ Len(u) \in Nat /\ DOMAIN u = 1..Len(u)
    BY AlongDistinct
  <1>2. /\ Tail(u) \in Seq(OnRoute(t)) /\ Len(Tail(u)) = Len(u) - 1 /\ DOMAIN Tail(u) = 1..(Len(u) - 1)
        /\ \A i \in 1..(Len(u) - 1) : Tail(u)[i] = u[i + 1]
    BY <1>1, HeadTailProperties, LenProperties
  <1>3. \A i \in DOMAIN Tail(u) : i + 1 \in DOMAIN u /\ Tail(u)[i] = u[i + 1] /\ i \in Nat
    BY <1>1, <1>2
  <1>4. \A i, j \in DOMAIN Tail(u) : i < j => i + 1 < j + 1
    BY <1>3
  <1>5. QED
    BY <1>1, <1>2, <1>3, <1>4 DEF Along, Ahead

LEMMA InNothing == \A x : ~InSeq(<<>>, x)
  BY EmptySeq DEF InSeq

LEMMA AlongEmpty == \A t \in TaskIds : Along(t, <<>>) /\ \A s : Ahead(t, s, <<>>)
  BY EmptySeq DEF Along, Ahead

-----------------------------------------------------------------------------
(* What the actions do *)

HandlerStates == [pc : {"idle", "node", "edge", "lock", "ask", "undo"},
                  task : TaskIds \cup {NoTask}, report : Reports,
                  changed : BOOLEAN, todo : Seq(Resources), locked : Seq(Resources)]

\* Only a's handler moves, to a state it can be in.
Moves(a) ==
    /\ handler' \in [Agvs -> HandlerStates] /\ Whole(handler'[a])
    /\ \A b \in Agvs : b # a => handler'[b] = handler[b]

LEMMA HandlerMoves ==
    ASSUME Typed, NEW a \in Agvs, NEW h \in HandlerStates, Whole(h), handler' = [handler EXCEPT ![a] = h]
    PROVE  Moves(a) /\ handler'[a] = h
  <1>1. handler \in [Agvs -> HandlerStates]
    BY DEF Typed, TypeOK, HandlerStates
  <1>2. QED
    BY <1>1, Zenon DEF Moves

LEMMA HandlerTyped ==
    ASSUME Typed, NEW a \in Agvs
    PROVE  handler[a] \in HandlerStates /\ Whole(handler[a])
  BY DEF Typed, TypeOK, HandlerStates

LEMMA NoWorkWhole == NoWork \in HandlerStates /\ Whole(NoWork) /\ NoWork.pc = "idle" /\ NoWork.task = NoTask
                     /\ NoWork.todo = <<>> /\ NoWork.locked = <<>>
  <1>1. [node |-> None, edge |-> None] \in Reports /\ <<>> \in Seq(Resources)
    BY EmptySeq DEF Reports, Places
  <1>2. QED
    BY <1>1 DEF NoWork, HandlerStates, Whole

\* A report that is sent waits, unless it would wait twice in a row.
Sent(a, m) ==
    /\ inbox' \in [Agvs -> Seq(Reports)]
    /\ \A b \in Agvs : b # a => inbox'[b] = inbox[b]
    /\ inbox'[a] # <<>>
    /\ \/ inbox'[a] = inbox[a] /\ inbox[a] # <<>> /\ inbox[a][Len(inbox[a])] = m
       \/ inbox'[a] = Append(inbox[a], m)

LEMMA SendEffect ==
    ASSUME Typed, NEW a \in Agvs, NEW m \in Reports, Send(a, m)
    PROVE  Sent(a, m)
  <1>1. inbox \in [Agvs -> Seq(Reports)] /\ inbox[a] \in Seq(Reports)
    BY DEF Typed, TypeOK
  <1>2. PICK s : /\ inbox' = [inbox EXCEPT ![a] = s]
                 /\ \/ s = inbox[a] /\ inbox[a] # <<>> /\ inbox[a][Len(inbox[a])] = m
                    \/ s = Append(inbox[a], m)
    BY DEF Send
  <1>3. Append(inbox[a], m) \in Seq(Reports) /\ Append(inbox[a], m) # <<>>
    <2>1. ASSUME NEW q \in Seq(Reports) PROVE Append(q, m) \in Seq(Reports) /\ Append(q, m) # <<>>
      BY AppendProperties
    <2>2. QED
      BY <1>1, <2>1
  <1>4. s \in Seq(Reports) /\ s # <<>>
    BY <1>1, <1>2, <1>3
  <1>5. QED
    BY <1>1, <1>2, <1>4, Zenon DEF Sent

LEMMA ReportTypes ==
    ASSUME NEW t \in TaskIds, NEW i \in 0..Len(Route[t])
    PROVE  StandardReport(t, i) \in Reports /\ SimulatorReport(t, i) \in Reports
           /\ \A a \in Agvs : ReportOf(a, t, i) \in Reports
  <1>1. Len(Route[t]) \in Nat /\ Len(Route[t]) >= 3 /\ i \in Nat /\ i <= Len(Route[t])
        /\ \A j \in 1..Len(Route[t]) : Route[t][j] \in Resources
    BY RouteFacts
  <1>2. i # 0 => NodeBefore(i) \in 1..Len(Route[t])
    BY <1>1 DEF NodeBefore
  <1>3. i \notin {0, 1, 2} => NodeBefore(i) - 2 \in 1..Len(Route[t])
    BY <1>1 DEF NodeBefore
  <1>4. StandardReport(t, i) \in Reports
    <2>1. CASE i = 0
      BY <1>1, <2>1 DEF StandardReport, Reports, Places
    <2>2. CASE i # 0
      <3>1. Route[t][NodeBefore(i)] \in Places /\ Route[t][i] \in Places
        BY <1>1, <1>2, <2>2 DEF Places
      <3>2. None \in Places
        BY DEF Places
      <3>3. QED
        BY <2>2, <3>1, <3>2 DEF StandardReport, Reports
    <2>3. QED
      BY <2>1, <2>2
  <1>5. SimulatorReport(t, i) \in Reports
    <2> DEFINE n == CASE i = 0 -> Route[t][1] [] i \in {1, 2} -> None [] OTHER -> Route[t][NodeBefore(i) - 2]
    <2>1. n \in Places
      <3>1. CASE i = 0
        BY <1>1, <3>1 DEF Places
      <3>2. CASE i \in {1, 2}
        BY <3>2 DEF Places
      <3>3. CASE i \notin {0, 1, 2}
        <4>1. n = Route[t][NodeBefore(i) - 2]
          BY <3>3
        <4>2. QED
          BY <1>1, <1>3, <3>3, <4>1 DEF Places
      <3>4. QED
        BY <3>1, <3>2, <3>3
    <2>2. None \in Places /\ SimulatorReport(t, i) = [edge |-> None, node |-> n]
      BY DEF Places, SimulatorReport
    <2> HIDE DEF n
    <2>3. QED
      BY <2>1, <2>2 DEF Reports
  <1>6. QED
    BY <1>4, <1>5 DEF ReportOf

LEMMA NowhereReport == Nowhere \in Reports
  BY DEF Nowhere, Reports, Places

LEMMA ReadEffect ==
    ASSUME Typed, NEW a \in Agvs, Read(a)
    PROVE  /\ handler[a].pc = "idle" /\ inbox[a] # <<>> /\ Head(inbox[a]) \in Reports
           /\ Moves(a) /\ handler'[a].pc = "node" /\ handler'[a].task = current[a]
           /\ handler'[a].report = Head(inbox[a]) /\ handler'[a].todo = <<>> /\ handler'[a].locked = <<>>
           /\ inbox' \in [Agvs -> Seq(Reports)] /\ inbox'[a] = Tail(inbox[a])
           /\ \A b \in Agvs : b # a => inbox'[b] = inbox[b]
  <1> DEFINE h == [NoWork EXCEPT !.pc = "node", !.task = current[a], !.report = Head(inbox[a])]
  <1>1. handler[a].pc = "idle" /\ inbox[a] # <<>> /\ handler' = [handler EXCEPT ![a] = h]
        /\ inbox' = [inbox EXCEPT ![a] = Tail(@)]
    BY DEF Read
  <1>2. inbox \in [Agvs -> Seq(Reports)] /\ inbox[a] \in Seq(Reports) /\ current[a] \in TaskIds \cup {NoTask}
    BY DEF Typed, TypeOK
  <1>3. Head(inbox[a]) \in Reports /\ Tail(inbox[a]) \in Seq(Reports)
    BY <1>1, <1>2, HeadTailProperties
  <1>4. ASSUME NEW n \in HandlerStates, n = NoWork
        PROVE  LET m == [n EXCEPT !.pc = "node", !.task = current[a], !.report = Head(inbox[a])]
               IN  /\ m \in HandlerStates /\ m.pc = "node" /\ m.task = current[a] /\ m.report = Head(inbox[a])
                   /\ m.todo = n.todo /\ m.locked = n.locked
    BY <1>2, <1>3 DEF HandlerStates
  <1>5. /\ h \in HandlerStates /\ h.pc = "node" /\ h.task = current[a] /\ h.report = Head(inbox[a])
        /\ h.todo = <<>> /\ h.locked = <<>>
    BY <1>4, NoWorkWhole
  <1> HIDE DEF h
  <1>6. Whole(h)
    BY <1>5 DEF Whole
  <1>7. Moves(a) /\ handler'[a] = h
    BY <1>1, <1>5, <1>6, HandlerMoves
  <1>8. inbox' \in [Agvs -> Seq(Reports)] /\ inbox'[a] = Tail(inbox[a])
        /\ \A b \in Agvs : b # a => inbox'[b] = inbox[b]
    BY <1>1, <1>2, <1>3, Zenon
  <1>9. QED
    BY <1>1, <1>3, <1>5, <1>7, <1>8

\* What is left behind.
LEMMA WithoutType ==
    ASSUME NEW S, NEW s \in Seq(S), NEW r
    PROVE  Without(s, r) \in Seq(S)
  <1>1. Len(s) \in Nat /\ DOMAIN s = 1..Len(s) /\ \A i \in 1..Len(s) : s[i] \in S
    BY LenProperties, ElementOfSeq
  <1>2. PICK i \in 1..(Len(s) + 1) : Without(s, r) = SubSeq(s, 1, i - 1) \o SubSeq(s, i + 1, Len(s))
    <2>1. CASE \E j \in DOMAIN s : s[j] = r
      <3>1. PICK k \in DOMAIN s : k = CHOOSE j \in DOMAIN s : s[j] = r
        BY <2>1
      <3>2. Without(s, r) = SubSeq(s, 1, k - 1) \o SubSeq(s, k + 1, Len(s))
        BY <2>1, <3>1 DEF Without
      <3>3. k \in 1..(Len(s) + 1)
        BY <1>1
      <3>4. QED
        BY <3>2, <3>3
    <2>2. CASE ~\E j \in DOMAIN s : s[j] = r
      <3>1. Without(s, r) = SubSeq(s, 1, (Len(s) + 1) - 1) \o SubSeq(s, (Len(s) + 1) + 1, Len(s))
        BY <2>2 DEF Without
      <3>2. Len(s) + 1 \in 1..(Len(s) + 1)
        BY <1>1
      <3>3. QED
        BY <3>1, <3>2
    <2>3. QED
      BY <2>1, <2>2
  <1>3. /\ \A j \in 1..(i - 1) : s[j] \in S
        /\ \A j \in (i + 1)..Len(s) : s[j] \in S
    BY <1>1
  <1>4. 1 \in Int /\ i - 1 \in Int /\ i + 1 \in Int /\ Len(s) \in Int
    BY <1>1
  <1>5. SubSeq(s, 1, i - 1) \in Seq(S) /\ SubSeq(s, i + 1, Len(s)) \in Seq(S)
    BY <1>3, <1>4, SubSeqProperties
  <1>6. QED
    BY <1>2, <1>5, ConcatProperties

\* The task t of a leaves r behind.
Left(a, t, r) ==
    /\ user' = [x \in Resources |-> IF x = r /\ user[x] = a THEN NoAgv ELSE user[x]]
    /\ lockList' \in [TaskIds -> Seq(Resources)]
    /\ lockList'[t] = Without(lockList[t], r)
    /\ \A u \in TaskIds : u # t => lockList'[u] = lockList[u]

LEMMA LeaveEffect ==
    ASSUME Typed, NEW a \in Agvs, NEW r \in Resources, LeaveBehind(a, r)
    PROVE  \/ handler[a].task = NoTask /\ UNCHANGED <<user, lockList>>
           \/ handler[a].task \in TaskIds /\ Left(a, handler[a].task, r)
  <1>1. handler[a].task \in TaskIds \cup {NoTask}
    BY HandlerTyped DEF HandlerStates
  <1>2. CASE handler[a].task = NoTask
    BY <1>2 DEF LeaveBehind
  <1>3. CASE handler[a].task # NoTask
    <2>1. PICK t \in TaskIds : t = handler[a].task
      BY <1>1, <1>3
    <2>2. /\ Table!GiveBack({x \in {r} : user[x] = a})
          /\ lockList' = [lockList EXCEPT ![t] = Without(@, r)]
      BY <1>3, <2>1 DEF LeaveBehind
    <2>3. lockList \in [TaskIds -> Seq(Resources)] /\ lockList[t] \in Seq(Resources)
      BY DEF Typed, TypeOK
    <2>4. Without(lockList[t], r) \in Seq(Resources)
      BY <2>3, WithoutType
    <2>5. /\ lockList' \in [TaskIds -> Seq(Resources)] /\ lockList'[t] = Without(lockList[t], r)
          /\ \A u \in TaskIds : u # t => lockList'[u] = lockList[u]
      BY <2>2, <2>3, <2>4, Zenon
    <2>6. user' = [x \in Resources |-> IF x \in {y \in {r} : user[y] = a} THEN NoAgv ELSE user[x]]
      BY <2>2 DEF Table!GiveBack
    <2>7. user' = [x \in Resources |-> IF x = r /\ user[x] = a THEN NoAgv ELSE user[x]]
      BY <2>6
    <2>8. QED
      BY <2>1, <2>5, <2>7 DEF Left
  <1>4. QED
    BY <1>2, <1>3

\* One component of a record of two.
LEMMA ReportUpdate ==
    ASSUME NEW m \in Reports, NEW x \in Places
    PROVE  [m EXCEPT !.node = x] = [node |-> x, edge |-> m.edge] /\ [m EXCEPT !.node = x] \in Reports
           /\ [m EXCEPT !.edge = x] = [node |-> m.node, edge |-> x] /\ [m EXCEPT !.edge = x] \in Reports
           /\ m = [node |-> m.node, edge |-> m.edge] /\ m.node \in Places /\ m.edge \in Places
  BY DEF Reports

\* The report of a is noted: what it says of the node, or of the edge.
Noted(a, n) ==
    /\ reported' \in [Agvs -> Reports] /\ reported'[a] = n
    /\ \A b \in Agvs : b # a => reported'[b] = reported[b]

LEMMA NodeEffect ==
    ASSUME Typed, NEW a \in Agvs, ReleaseNode(a)
    PROVE  /\ handler[a].pc = "node" /\ Moves(a) /\ handler'[a].pc = "edge"
           /\ handler'[a].task = handler[a].task /\ handler'[a].report = handler[a].report
           /\ handler'[a].todo = <<>> /\ handler'[a].locked = <<>>
           /\ handler'[a].changed = NodeChanged(a)
           /\ Noted(a, [node |-> handler[a].report.node, edge |-> reported[a].edge])
           /\ \/ UNCHANGED <<user, lockList>> /\ (handler[a].task = NoTask \/ ~NodeChanged(a))
              \/ /\ NodeChanged(a) /\ reported[a].node \in Resources
                 /\ handler[a].task \in TaskIds /\ Left(a, handler[a].task, reported[a].node)
  <1>1. /\ handler[a].pc = "node"
        /\ IF NodeChanged(a) THEN LeaveBehind(a, reported[a].node) ELSE UNCHANGED <<user, lockList>>
        /\ reported' = [reported EXCEPT ![a].node = handler[a].report.node]
        /\ handler' = [handler EXCEPT ![a].pc = "edge", ![a].changed = NodeChanged(a)]
    BY DEF ReleaseNode
  <1>2. reported \in [Agvs -> Reports] /\ reported[a] \in Reports /\ handler[a].report \in Reports
        /\ handler[a].report.node \in Places /\ reported[a].node \in Places
    BY HandlerTyped DEF Typed, TypeOK, HandlerStates, Reports
  <1>3. Noted(a, [node |-> handler[a].report.node, edge |-> reported[a].edge])
    <2>1. PICK n \in Reports : n = [reported[a] EXCEPT !.node = handler[a].report.node]
                               /\ n = [node |-> handler[a].report.node, edge |-> reported[a].edge]
      <3>1. PICK m \in Reports, x \in Places : m = reported[a] /\ x = handler[a].report.node
        BY <1>2
      <3>2. [m EXCEPT !.node = x] = [node |-> x, edge |-> m.edge] /\ [m EXCEPT !.node = x] \in Reports
        BY ReportUpdate
      <3>3. QED
        BY <3>1, <3>2
    <2>2. reported' = [reported EXCEPT ![a] = n]
      BY <1>1, <2>1
    <2>3. QED
      BY <1>2, <2>1, <2>2, Zenon DEF Noted
  <1>4. PICK c \in BOOLEAN : c = NodeChanged(a)
    BY DEF NodeChanged
  <1>5. PICK n \in HandlerStates : n = handler[a] /\ Whole(n)
    BY HandlerTyped
  <1>6. [n EXCEPT !.pc = "edge", !.changed = c] \in HandlerStates
        /\ [n EXCEPT !.pc = "edge", !.changed = c].pc = "edge"
        /\ [n EXCEPT !.pc = "edge", !.changed = c].task = n.task
        /\ [n EXCEPT !.pc = "edge", !.changed = c].report = n.report
        /\ [n EXCEPT !.pc = "edge", !.changed = c].changed = c
        /\ [n EXCEPT !.pc = "edge", !.changed = c].todo = n.todo
        /\ [n EXCEPT !.pc = "edge", !.changed = c].locked = n.locked
    BY DEF HandlerStates
  <1>7. PICK h \in HandlerStates : h = [n EXCEPT !.pc = "edge", !.changed = c]
    BY <1>6
  <1>8. n.pc = "node" /\ n.todo = <<>> /\ n.locked = <<>>
    BY <1>1, <1>5 DEF Whole
  <1>9. /\ h.pc = "edge" /\ h.task = n.task /\ h.report = n.report /\ h.changed = c
        /\ h.todo = <<>> /\ h.locked = <<>>
    BY <1>6, <1>7, <1>8, Zenon
  <1>10. Whole(h)
    BY <1>9 DEF Whole
  <1>11. handler' = [handler EXCEPT ![a] = h]
    BY <1>1, <1>4, <1>5, <1>7
  <1>12. Moves(a) /\ handler'[a] = h
    BY <1>10, <1>11, HandlerMoves
  <1>13. \/ UNCHANGED <<user, lockList>> /\ (handler[a].task = NoTask \/ ~NodeChanged(a))
         \/ /\ NodeChanged(a) /\ reported[a].node \in Resources
            /\ handler[a].task \in TaskIds /\ Left(a, handler[a].task, reported[a].node)
    <2>1. CASE NodeChanged(a)
      <3>1. reported[a].node \in Resources
        BY <1>2, <2>1 DEF NodeChanged, Places
      <3>2. LeaveBehind(a, reported[a].node)
        BY <1>1, <2>1
      <3>3. QED
        BY <2>1, <3>1, <3>2, LeaveEffect
    <2>2. CASE ~NodeChanged(a)
      BY <1>1, <2>2
    <2>3. QED
      BY <2>1, <2>2
  <1>14. QED
    BY <1>1, <1>3, <1>4, <1>5, <1>9, <1>12, <1>13

\* The handler is through with the report, or has more to lock.
LEMMA EdgeEffect ==
    ASSUME Typed, NEW a \in Agvs, ReleaseEdge(a),
           \A t \in TaskIds : t = handler[a].task => NextResources(t, lockList'[t]) \in Seq(Resources)
    PROVE  LET t == handler[a].task
               more == t # NoTask /\ (handler[a].changed \/ EdgeChanged(a)) /\ Len(lockList'[t]) < Window
           IN  /\ handler[a].pc = "edge" /\ Moves(a)
               /\ ~more => handler'[a] = NoWork
               /\ more => /\ handler'[a].pc = "lock" /\ handler'[a].task = t
                          /\ handler'[a].todo = NextResources(t, lockList'[t]) /\ handler'[a].locked = <<>>
               /\ Noted(a, [node |-> reported[a].node, edge |-> handler[a].report.edge])
               /\ \/ UNCHANGED <<user, lockList>> /\ (t = NoTask \/ ~EdgeChanged(a))
                  \/ /\ EdgeChanged(a) /\ reported[a].edge \in Resources
                     /\ t \in TaskIds /\ Left(a, t, reported[a].edge)
  <1> DEFINE t == handler[a].task
             more == t # NoTask /\ (handler[a].changed \/ EdgeChanged(a)) /\ Len(lockList'[t]) < Window
             next == NextResources(t, lockList'[t])
  <1>1. /\ handler[a].pc = "edge"
        /\ IF EdgeChanged(a) THEN LeaveBehind(a, reported[a].edge) ELSE UNCHANGED <<user, lockList>>
        /\ reported' = [reported EXCEPT ![a].edge = handler[a].report.edge]
    BY DEF ReleaseEdge
  <1>2. handler' = [handler EXCEPT ![a] = IF more THEN [@ EXCEPT !.pc = "lock", !.todo = next] ELSE NoWork]
    BY DEF ReleaseEdge
  <1>3. reported \in [Agvs -> Reports] /\ reported[a] \in Reports /\ handler[a].report \in Reports
        /\ handler[a].report.edge \in Places /\ reported[a].edge \in Places
    BY HandlerTyped DEF Typed, TypeOK, HandlerStates, Reports
  <1>4. Noted(a, [node |-> reported[a].node, edge |-> handler[a].report.edge])
    <2>1. PICK n \in Reports : n = [reported[a] EXCEPT !.edge = handler[a].report.edge]
                               /\ n = [node |-> reported[a].node, edge |-> handler[a].report.edge]
      <3>1. PICK m \in Reports, x \in Places : m = reported[a] /\ x = handler[a].report.edge
        BY <1>3
      <3>2. [m EXCEPT !.edge = x] = [node |-> m.node, edge |-> x] /\ [m EXCEPT !.edge = x] \in Reports
        BY ReportUpdate
      <3>3. QED
        BY <3>1, <3>2
    <2>2. reported' = [reported EXCEPT ![a] = n]
      BY <1>1, <2>1
    <2>3. QED
      BY <1>3, <2>1, <2>2, Zenon DEF Noted
  <1>5. PICK n \in HandlerStates : n = handler[a] /\ Whole(n) /\ n.pc = "edge"
    BY <1>1, HandlerTyped
  <1>6. n.todo = <<>> /\ n.locked = <<>>
    BY <1>5 DEF Whole
  <1>7. Moves(a) /\ (~more => handler'[a] = NoWork)
        /\ (more => /\ handler'[a].pc = "lock" /\ handler'[a].task = t
                    /\ handler'[a].todo = next /\ handler'[a].locked = <<>>)
    <2>1. CASE ~more
      <3>1. handler' = [handler EXCEPT ![a] = NoWork]
        BY <1>2, <2>1
      <3>2. QED
        BY <2>1, <3>1, NoWorkWhole, HandlerMoves
    <2>2. CASE more
      <3>1. t \in TaskIds
        BY <1>5, <2>2 DEF HandlerStates
      <3>2. PICK u \in Seq(Resources) : u = next
        BY <3>1
      <3>3. [n EXCEPT !.pc = "lock", !.todo = u] \in HandlerStates
            /\ [n EXCEPT !.pc = "lock", !.todo = u].pc = "lock"
            /\ [n EXCEPT !.pc = "lock", !.todo = u].task = n.task
            /\ [n EXCEPT !.pc = "lock", !.todo = u].todo = u
            /\ [n EXCEPT !.pc = "lock", !.todo = u].locked = n.locked
        BY DEF HandlerStates
      <3>4. PICK h \in HandlerStates : h = [n EXCEPT !.pc = "lock", !.todo = u]
        BY <3>3
      <3>5. h.pc = "lock" /\ h.task = t /\ h.todo = u /\ h.locked = <<>>
        BY <1>5, <1>6, <3>3, <3>4, Zenon
      <3>6. Whole(h)
        BY <2>2, <3>5 DEF Whole
      <3>7. handler' = [handler EXCEPT ![a] = h]
        BY <1>2, <1>5, <2>2, <3>2, <3>4, Zenon
      <3>8. Moves(a) /\ handler'[a] = h
        BY <3>6, <3>7, HandlerMoves
      <3>9. QED
        BY <2>2, <3>2, <3>5, <3>8
    <2>3. QED
      BY <2>1, <2>2
  <1>8. \/ UNCHANGED <<user, lockList>> /\ (t = NoTask \/ ~EdgeChanged(a))
        \/ /\ EdgeChanged(a) /\ reported[a].edge \in Resources
           /\ t \in TaskIds /\ Left(a, t, reported[a].edge)
    <2>1. CASE EdgeChanged(a)
      <3>1. reported[a].edge \in Resources
        BY <1>3, <2>1 DEF EdgeChanged, Places
      <3>2. LeaveBehind(a, reported[a].edge)
        BY <1>1, <2>1
      <3>3. QED
        BY <2>1, <3>1, <3>2, LeaveEffect
    <2>2. CASE ~EdgeChanged(a)
      BY <1>1, <2>2
    <2>3. QED
      BY <2>1, <2>2
  <1>9. QED
    BY <1>1, <1>4, <1>7, <1>8

\* Moving a resource from the front of one list to the end of the other, and
\* taking the first one away.
LEMMA ListMoves ==
    ASSUME NEW l \in Seq(Resources), NEW d \in Seq(Resources)
    PROVE  /\ l \o <<>> = l /\ <<>> \o l = l
           /\ d # <<>> => Append(l, Head(d)) \o Tail(d) = l \o d
           /\ l # <<>> => Tail(l) \o d = Tail(l \o d) /\ Head(l \o d) = Head(l)
  <1>1. <<>> \in Seq(Resources) /\ l \o <<>> = l /\ <<>> \o l = l
    BY EmptySeq, ConcatEmptySeq
  <1>2. ASSUME NEW e \in Seq(Resources), e # <<>>
        PROVE  /\ e = <<Head(e)>> \o Tail(e) /\ Head(e) \in Resources /\ <<Head(e)>> \in Seq(Resources) /\ Tail(e) \in Seq(Resources)
    <2>1. /\ Head(e) \in Resources /\ Tail(e) \in Seq(Resources) /\ Len(Tail(e)) = Len(e) - 1 /\ Len(e) \in Nat /\ Head(e) = e[1]
          /\ \A i \in 1..Len(Tail(e)) : Tail(e)[i] = e[i + 1]
      BY <1>2, HeadTailProperties, LenProperties
    <2>2. <<Head(e)>> \in Seq(Resources) /\ Len(<<Head(e)>>) = 1 /\ <<Head(e)>>[1] = Head(e)
      BY <2>1
    <2> DEFINE c == <<Head(e)>> \o Tail(e)
    <2>3. /\ c \in Seq(Resources) /\ Len(c) = 1 + Len(Tail(e))
          /\ \A i \in 1..(1 + Len(Tail(e))) : c[i] = IF i <= 1 THEN <<Head(e)>>[i] ELSE Tail(e)[i - 1]
      BY <2>1, <2>2, ConcatProperties
    <2> HIDE DEF c
    <2>4. Len(e) >= 1
      BY <1>2, EmptySeq, LenProperties
    <2>5. Len(c) = Len(e)
      BY <2>1, <2>3
    <2>6. ASSUME NEW i \in 1..Len(e) PROVE c[i] = e[i]
      <3>1. CASE i = 1
        BY <2>1, <2>2, <2>3, <2>4, <3>1
      <3>2. CASE i # 1
        <4>1. i - 1 \in 1..Len(Tail(e)) /\ ~(i <= 1) /\ i \in 1..(1 + Len(Tail(e))) /\ (i - 1) + 1 = i
          BY <2>1, <3>2
        <4>2. QED
          BY <2>1, <2>3, <4>1
      <3>3. QED
        BY <3>1, <3>2
    <2>7. e = c
      BY <2>3, <2>5, <2>6, SeqEqual
    <2>8. QED
      BY <2>1, <2>2, <2>7 DEF c
  <1>3. ASSUME d # <<>> PROVE Append(l, Head(d)) \o Tail(d) = l \o d
    <2>1. d = <<Head(d)>> \o Tail(d) /\ Head(d) \in Resources /\ <<Head(d)>> \in Seq(Resources) /\ Tail(d) \in Seq(Resources)
      BY <1>2, <1>3
    <2>2. Append(l, Head(d)) = l \o <<Head(d)>>
      BY <2>1, AppendIsConcat
    <2>3. (l \o <<Head(d)>>) \o Tail(d) = l \o (<<Head(d)>> \o Tail(d))
      BY <2>1, ConcatAssociative
    <2>4. QED
      BY <2>1, <2>2, <2>3
  <1>4. ASSUME l # <<>> PROVE Tail(l) \o d = Tail(l \o d) /\ Head(l \o d) = Head(l)
    <2>1. l = <<Head(l)>> \o Tail(l) /\ Head(l) \in Resources /\ <<Head(l)>> \in Seq(Resources) /\ Tail(l) \in Seq(Resources)
      BY <1>2, <1>4
    <2>2. l \o d = <<Head(l)>> \o (Tail(l) \o d) /\ Tail(l) \o d \in Seq(Resources)
      BY <2>1, ConcatAssociative, ConcatProperties
    <2>3. ASSUME NEW x \in Resources, NEW e \in Seq(Resources) PROVE Head(<<x>> \o e) = x /\ Tail(<<x>> \o e) = e
      OBVIOUS
    <2>4. QED
      BY <2>1, <2>2, <2>3
  <1>5. QED
    BY <1>1, <1>3, <1>4

\* A handler that locks has a task of its own.
LEMMA HandlerParts ==
    ASSUME Typed, NEW a \in Agvs
    PROVE  /\ handler[a].task \in TaskIds \cup {NoTask} /\ handler[a].report \in Reports
           /\ handler[a].changed \in BOOLEAN
           /\ handler[a].todo \in Seq(Resources) /\ handler[a].locked \in Seq(Resources)
           /\ handler[a].pc \in {"idle", "node", "edge", "lock", "ask", "undo"}
           /\ handler[a].pc \in {"lock", "ask", "undo"} => handler[a].task \in TaskIds
           /\ handler[a].pc \in {"idle", "node", "edge"} => handler[a].todo = <<>> /\ handler[a].locked = <<>>
           /\ handler[a].pc = "idle" => handler[a] = NoWork
           /\ handler[a].pc = "ask" => handler[a].todo # <<>>
  <1>1. PICK n \in HandlerStates : n = handler[a] /\ Whole(n)
    BY HandlerTyped
  <1>2. /\ n.task \in TaskIds \cup {NoTask} /\ n.report \in Reports /\ n.changed \in BOOLEAN
        /\ n.todo \in Seq(Resources) /\ n.locked \in Seq(Resources)
        /\ n.pc \in {"idle", "node", "edge", "lock", "ask", "undo"}
    BY DEF HandlerStates
  <1>3. n.pc = "idle" => n = NoWork /\ n.todo = <<>> /\ n.locked = <<>>
    BY <1>1, NoWorkWhole DEF Whole
  <1>4. QED
    BY <1>1, <1>2, <1>3 DEF Whole

LEMMA LockEffect ==
    ASSUME Typed, NEW a \in Agvs, LockNext(a)
    PROVE  \E r \in Resources :
             /\ handler[a].pc = "lock" /\ handler[a].todo # <<>> /\ r = Head(handler[a].todo)
             /\ Moves(a) /\ handler'[a].task = handler[a].task
             /\ \/ /\ user[r] = NoAgv /\ user' = [user EXCEPT ![r] = a] /\ UNCHANGED refused
                   /\ handler'[a].pc = "lock" /\ handler'[a].todo = Tail(handler[a].todo)
                   /\ handler'[a].locked = Append(handler[a].locked, r)
                \/ /\ UNCHANGED user /\ refused' = refused \cup {handler[a].task}
                   /\ handler'[a].pc = "ask" /\ handler'[a].todo = handler[a].todo
                   /\ handler'[a].locked = handler[a].locked
  <1>1. PICK n \in HandlerStates : n = handler[a] /\ Whole(n)
    BY HandlerTyped
  <1>2. /\ n.pc = "lock" /\ n.todo # <<>> /\ n.todo \in Seq(Resources) /\ n.locked \in Seq(Resources)
        /\ n.task \in TaskIds
    BY <1>1, HandlerParts DEF LockNext
  <1>3. PICK r \in Resources : r = Head(n.todo)
    BY <1>2, HeadTailProperties
  <1>4. \/ /\ Table!Grant(a, r)
           /\ handler' = [handler EXCEPT ![a].todo = Tail(@), ![a].locked = Append(@, r)]
           /\ UNCHANGED refused
        \/ /\ handler' = [handler EXCEPT ![a].pc = "ask"]
           /\ refused' = refused \cup {handler[a].task}
           /\ UNCHANGED user
    BY <1>1, <1>3 DEF LockNext
  <1>5. CASE /\ Table!Grant(a, r)
             /\ handler' = [handler EXCEPT ![a].todo = Tail(@), ![a].locked = Append(@, r)]
             /\ UNCHANGED refused
    <2>1. PICK d \in Seq(Resources), l \in Seq(Resources) : d = Tail(n.todo) /\ l = Append(n.locked, r)
      BY <1>2, <1>3, HeadTailProperties, AppendProperties
    <2>2. /\ [n EXCEPT !.todo = d, !.locked = l] \in HandlerStates
          /\ [n EXCEPT !.todo = d, !.locked = l].pc = n.pc
          /\ [n EXCEPT !.todo = d, !.locked = l].task = n.task
          /\ [n EXCEPT !.todo = d, !.locked = l].todo = d
          /\ [n EXCEPT !.todo = d, !.locked = l].locked = l
      BY DEF HandlerStates
    <2>3. PICK h \in HandlerStates : h = [n EXCEPT !.todo = d, !.locked = l]
      BY <2>2
    <2>4. h.pc = "lock" /\ h.task = n.task /\ h.todo = d /\ h.locked = l
      BY <1>2, <2>2, <2>3, Zenon
    <2>5. Whole(h)
      BY <1>2, <2>4 DEF Whole
    <2>6. handler' = [handler EXCEPT ![a] = h]
      BY <1>1, <1>5, <2>1, <2>3, Zenon
    <2>7. Moves(a) /\ handler'[a] = h
      BY <2>5, <2>6, HandlerMoves
    <2>8. user[r] = NoAgv /\ user' = [user EXCEPT ![r] = a]
      BY <1>5 DEF Table!Grant
    <2>9. QED
      BY <1>1, <1>2, <1>3, <1>5, <2>1, <2>4, <2>7, <2>8
  <1>6. CASE /\ handler' = [handler EXCEPT ![a].pc = "ask"]
             /\ refused' = refused \cup {handler[a].task}
             /\ UNCHANGED user
    <2>1. /\ [n EXCEPT !.pc = "ask"] \in HandlerStates
          /\ [n EXCEPT !.pc = "ask"].pc = "ask"
          /\ [n EXCEPT !.pc = "ask"].task = n.task
          /\ [n EXCEPT !.pc = "ask"].todo = n.todo
          /\ [n EXCEPT !.pc = "ask"].locked = n.locked
      BY DEF HandlerStates
    <2>2. PICK h \in HandlerStates : h = [n EXCEPT !.pc = "ask"]
      BY <2>1
    <2>3. h.pc = "ask" /\ h.task = n.task /\ h.todo = n.todo /\ h.locked = n.locked
      BY <2>1, <2>2, Zenon
    <2>4. Whole(h)
      BY <1>2, <2>3 DEF Whole
    <2>5. handler' = [handler EXCEPT ![a] = h]
      BY <1>1, <1>6, <2>2, Zenon
    <2>6. Moves(a) /\ handler'[a] = h
      BY <2>4, <2>5, HandlerMoves
    <2>7. QED
      BY <1>1, <1>2, <1>3, <1>6, <2>3, <2>6
  <1>7. QED
    BY <1>4, <1>5, <1>6

LEMMA AskEffect ==
    ASSUME Typed, NEW a \in Agvs, AskHolder(a)
    PROVE  /\ handler[a].pc = "ask" /\ Moves(a) /\ handler'[a].task = handler[a].task
           /\ handler'[a].locked = handler[a].locked
           /\ \/ /\ user[Head(handler[a].todo)] \in {a, NoAgv}
                 /\ handler'[a].pc = "lock" /\ handler'[a].todo = <<>>
              \/ handler'[a].pc = "undo" /\ handler'[a].todo = handler[a].todo
  <1>1. PICK n \in HandlerStates : n = handler[a] /\ Whole(n)
    BY HandlerTyped
  <1>2. n.pc = "ask" /\ n.task \in TaskIds
    BY <1>1, HandlerParts DEF AskHolder
  <1>3. CASE user[Head(handler[a].todo)] \in {a, NoAgv}
    <2>1. <<>> \in Seq(Resources)
      BY EmptySeq
    <2>2. /\ [n EXCEPT !.pc = "lock", !.todo = <<>>] \in HandlerStates
          /\ [n EXCEPT !.pc = "lock", !.todo = <<>>].pc = "lock"
          /\ [n EXCEPT !.pc = "lock", !.todo = <<>>].task = n.task
          /\ [n EXCEPT !.pc = "lock", !.todo = <<>>].todo = <<>>
          /\ [n EXCEPT !.pc = "lock", !.todo = <<>>].locked = n.locked
      BY <2>1 DEF HandlerStates
    <2>3. PICK h \in HandlerStates : h = [n EXCEPT !.pc = "lock", !.todo = <<>>]
      BY <2>2
    <2>4. h.pc = "lock" /\ h.task = n.task /\ h.todo = <<>> /\ h.locked = n.locked
      BY <2>2, <2>3, Zenon
    <2>5. Whole(h)
      BY <1>2, <2>4 DEF Whole
    <2>6. handler' = [handler EXCEPT ![a] = h]
      BY <1>1, <1>3, <2>3 DEF AskHolder
    <2>7. Moves(a) /\ handler'[a] = h
      BY <2>5, <2>6, HandlerMoves
    <2>8. QED
      BY <1>1, <1>2, <1>3, <2>4, <2>7
  <1>4. CASE user[Head(handler[a].todo)] \notin {a, NoAgv}
    <2>1. /\ [n EXCEPT !.pc = "undo"] \in HandlerStates
          /\ [n EXCEPT !.pc = "undo"].pc = "undo"
          /\ [n EXCEPT !.pc = "undo"].task = n.task
          /\ [n EXCEPT !.pc = "undo"].todo = n.todo
          /\ [n EXCEPT !.pc = "undo"].locked = n.locked
      BY DEF HandlerStates
    <2>2. PICK h \in HandlerStates : h = [n EXCEPT !.pc = "undo"]
      BY <2>1
    <2>3. h.pc = "undo" /\ h.task = n.task /\ h.todo = n.todo /\ h.locked = n.locked
      BY <2>1, <2>2, Zenon
    <2>4. Whole(h)
      BY <1>2, <2>3 DEF Whole
    <2>5. handler' = [handler EXCEPT ![a] = h]
      BY <1>1, <1>4, <2>2 DEF AskHolder
    <2>6. Moves(a) /\ handler'[a] = h
      BY <2>4, <2>5, HandlerMoves
    <2>7. QED
      BY <1>1, <1>2, <2>3, <2>6
  <1>5. QED
    BY <1>3, <1>4

LEMMA ExtendEffect ==
    ASSUME Typed, NEW a \in Agvs, Extend(a)
    PROVE  \E t \in TaskIds :
             /\ handler[a].pc = "lock" /\ handler[a].todo = <<>> /\ handler[a].task = t
             /\ Moves(a) /\ handler'[a] = NoWork
             /\ lockList' \in [TaskIds -> Seq(Resources)]
             /\ lockList'[t] = lockList[t] \o handler[a].locked
             /\ \A u \in TaskIds : u # t => lockList'[u] = lockList[u]
  <1>1. PICK t \in TaskIds : t = handler[a].task
    BY HandlerParts DEF Extend
  <1>2. handler[a].pc = "lock" /\ handler[a].todo = <<>> /\ handler' = [handler EXCEPT ![a] = NoWork]
        /\ lockList' = [lockList EXCEPT ![t] = @ \o handler[a].locked]
    BY <1>1 DEF Extend
  <1>3. lockList \in [TaskIds -> Seq(Resources)] /\ lockList[t] \in Seq(Resources)
        /\ handler[a].locked \in Seq(Resources)
    BY HandlerParts DEF Typed, TypeOK
  <1>4. PICK s \in Seq(Resources) : s = lockList[t] \o handler[a].locked
    BY <1>3, ConcatProperties
  <1>5. lockList' = [lockList EXCEPT ![t] = s]
    BY <1>2, <1>4
  <1>6. Moves(a) /\ handler'[a] = NoWork
    BY <1>2, NoWorkWhole, HandlerMoves
  <1>7. /\ lockList' \in [TaskIds -> Seq(Resources)] /\ lockList'[t] = s
        /\ \A u \in TaskIds : u # t => lockList'[u] = lockList[u]
    BY <1>3, <1>5, Zenon
  <1>8. QED
    BY <1>1, <1>2, <1>4, <1>6, <1>7

LEMMA UndoEffect ==
    ASSUME Typed, NEW a \in Agvs, Undo(a)
    PROVE  /\ handler[a].pc = "undo" /\ Moves(a)
           /\ \/ handler[a].locked = <<>> /\ handler'[a] = NoWork /\ UNCHANGED user
              \/ /\ handler[a].locked # <<>> /\ handler'[a].pc = "undo" /\ handler'[a].task = handler[a].task
                 /\ handler'[a].todo = handler[a].todo /\ handler'[a].locked = Tail(handler[a].locked)
                 /\ user' = [x \in Resources |-> IF x = Head(handler[a].locked) /\ user[x] = a THEN NoAgv ELSE user[x]]
  <1>1. PICK n \in HandlerStates : n = handler[a] /\ Whole(n)
    BY HandlerTyped
  <1>2. n.pc = "undo" /\ n.task \in TaskIds /\ n.locked \in Seq(Resources)
    BY <1>1, HandlerParts DEF Undo
  <1>3. CASE n.locked = <<>>
    <2>1. handler' = [handler EXCEPT ![a] = NoWork] /\ UNCHANGED user
      BY <1>1, <1>3 DEF Undo
    <2>2. Moves(a) /\ handler'[a] = NoWork
      BY <2>1, NoWorkWhole, HandlerMoves
    <2>3. QED
      BY <1>1, <1>2, <1>3, <2>1, <2>2
  <1>4. CASE n.locked # <<>>
    <2>1. /\ Table!GiveBack({r \in {Head(n.locked)} : user[r] = a})
          /\ handler' = [handler EXCEPT ![a].locked = Tail(@)]
      BY <1>1, <1>4 DEF Undo
    <2>2. PICK l \in Seq(Resources) : l = Tail(n.locked)
      BY <1>2, <1>4, HeadTailProperties
    <2>3. /\ [n EXCEPT !.locked = l] \in HandlerStates
          /\ [n EXCEPT !.locked = l].pc = n.pc
          /\ [n EXCEPT !.locked = l].task = n.task
          /\ [n EXCEPT !.locked = l].todo = n.todo
          /\ [n EXCEPT !.locked = l].locked = l
      BY DEF HandlerStates
    <2>4. PICK h \in HandlerStates : h = [n EXCEPT !.locked = l]
      BY <2>3
    <2>5. h.pc = "undo" /\ h.task = n.task /\ h.todo = n.todo /\ h.locked = l
      BY <1>2, <2>3, <2>4, Zenon
    <2>6. Whole(h)
      BY <1>2, <2>5 DEF Whole
    <2>7. handler' = [handler EXCEPT ![a] = h]
      BY <1>1, <2>1, <2>2, <2>4, Zenon
    <2>8. Moves(a) /\ handler'[a] = h
      BY <2>6, <2>7, HandlerMoves
    <2>9. user' = [x \in Resources |-> IF x \in {y \in {Head(n.locked)} : user[y] = a} THEN NoAgv ELSE user[x]]
      BY <2>1 DEF Table!GiveBack
    <2>10. user' = [x \in Resources |-> IF x = Head(n.locked) /\ user[x] = a THEN NoAgv ELSE user[x]]
      BY <2>9
    <2>11. QED
      BY <1>1, <1>2, <1>4, <2>2, <2>5, <2>8, <2>10
  <1>5. QED
    BY <1>3, <1>4

\* f changes at a only.
Only(f, g, a, v) == g[a] = v /\ \A b \in Agvs : b # a => g[b] = f[b]

LEMMA OnlyAt ==
    ASSUME NEW S, NEW f \in [Agvs -> S], NEW a \in Agvs, NEW v \in S, NEW g, g = [f EXCEPT ![a] = v]
    PROVE  g \in [Agvs -> S] /\ Only(f, g, a, v)
  BY Zenon DEF Only

LEMMA ScheduleEffect ==
    ASSUME Typed, NEW a \in Agvs, NEW t \in TaskIds, Schedule(a, t)
    PROVE  /\ current[a] = NoTask /\ order[a] = NoTask /\ t \notin scheduled /\ at[a] = 0
           /\ First(t) \in Seq(Resources)
           /\ \A i \in DOMAIN First(t) : user[First(t)[i]] = NoAgv
           /\ user' = [r \in Resources |-> IF \E i \in DOMAIN First(t) : First(t)[i] = r THEN a ELSE user[r]]
           /\ lockList' \in [TaskIds -> Seq(Resources)] /\ lockList'[t] = First(t)
           /\ \A u \in TaskIds : u # t => lockList'[u] = lockList[u]
           /\ current' \in [Agvs -> TaskIds \cup {NoTask}] /\ Only(current, current', a, t)
           /\ order' \in [Agvs -> TaskIds \cup {NoTask}] /\ Only(order, order', a, t)
           /\ Sent(a, ReportOf(a, t, 0)) /\ scheduled' = scheduled \cup {t}
  <1>1. /\ current[a] = NoTask /\ order[a] = NoTask /\ t \notin scheduled
        /\ \A i \in DOMAIN First(t) : user[First(t)[i]] = NoAgv
        /\ user' = [r \in Resources |-> IF \E i \in DOMAIN First(t) : First(t)[i] = r THEN a ELSE user[r]]
        /\ lockList' = [lockList EXCEPT ![t] = First(t)]
        /\ current' = [current EXCEPT ![a] = t] /\ order' = [order EXCEPT ![a] = t]
        /\ Send(a, ReportOf(a, t, 0)) /\ scheduled' = scheduled \cup {t}
    BY DEF Schedule
  <1>2. /\ lockList \in [TaskIds -> Seq(Resources)] /\ current \in [Agvs -> TaskIds \cup {NoTask}]
        /\ order \in [Agvs -> TaskIds \cup {NoTask}]
    BY DEF Typed, TypeOK
  <1>3. First(t) \in Seq(Resources)
    <2>1. 1 \in Nat /\ 1 <= 1 /\ 1 <= Len(Route[t]) + 1 /\ Window \in Nat
      BY RouteFacts, BoundsAssumption
    <2>2. Stretch(t, 1, Window) \in Seq(Resources)
      BY <2>1, StretchFacts
    <2>3. QED
      BY <2>2 DEF First
  <1>4. /\ lockList' \in [TaskIds -> Seq(Resources)] /\ lockList'[t] = First(t)
        /\ \A u \in TaskIds : u # t => lockList'[u] = lockList[u]
    BY <1>1, <1>2, <1>3, Zenon
  <1>5. t \in TaskIds \cup {NoTask}
    OBVIOUS
  <1>6. current' \in [Agvs -> TaskIds \cup {NoTask}] /\ Only(current, current', a, t)
    BY <1>1, <1>2, <1>5, OnlyAt, Zenon
  <1>7. order' \in [Agvs -> TaskIds \cup {NoTask}] /\ Only(order, order', a, t)
    BY <1>1, <1>2, <1>5, OnlyAt, Zenon
  <1>8. Sent(a, ReportOf(a, t, 0))
    <2>1. 0 \in 0..Len(Route[t])
      BY RouteFacts
    <2>2. ReportOf(a, t, 0) \in Reports
      BY <2>1, ReportTypes
    <2>3. QED
      BY <1>1, <2>2, SendEffect
  <1>9. at[a] = 0
    BY <1>1 DEF Typed, TypeOK
  <1>10. QED
    BY <1>1, <1>3, <1>4, <1>6, <1>7, <1>8, <1>9

LEMMA MoveEffect ==
    ASSUME Typed, NEW a \in Agvs, Move(a)
    PROVE  \E t \in TaskIds, i \in Nat :
             /\ order[a] = t /\ at[a] = i /\ i < Len(Route[t])
             /\ at' \in [Agvs -> Nat] /\ Only(at, at', a, i + 1) /\ Sent(a, ReportOf(a, t, i + 1))
  <1>1. PICK t \in TaskIds : t = order[a]
    BY DEF Move, Typed, TypeOK
  <1>2. at \in [Agvs -> Nat]
    BY DEF Typed
  <1>3. PICK i \in Nat : i = at[a]
    BY <1>2
  <1>4. i < Len(Route[t]) /\ at' = [at EXCEPT ![a] = i + 1] /\ Send(a, ReportOf(a, t, i + 1))
    BY <1>1, <1>3 DEF Move
  <1>5. i + 1 \in Nat /\ i + 1 \in 0..Len(Route[t])
    BY <1>4, RouteFacts
  <1>6. at' \in [Agvs -> Nat] /\ Only(at, at', a, i + 1)
    BY <1>2, <1>4, <1>5, OnlyAt
  <1>7. ReportOf(a, t, i + 1) \in Reports
    BY <1>5, ReportTypes
  <1>8. Sent(a, ReportOf(a, t, i + 1))
    BY <1>4, <1>7, SendEffect
  <1>9. QED
    BY <1>1, <1>3, <1>4, <1>6, <1>8

\* Its order ends; on an edge it goes astray.
LEMMA StopEffect ==
    ASSUME Typed, NEW a \in Agvs, Stop(a)
    PROVE  \E t \in TaskIds, i \in Nat, p \in Resources :
             /\ order[a] = t /\ at[a] = i /\ i \in 0..Len(Route[t])
             /\ order' \in [Agvs -> TaskIds \cup {NoTask}] /\ Only(order, order', a, NoTask)
             /\ place' \in [Agvs -> Resources] /\ Only(place, place', a, p)
             /\ at' \in [Agvs -> Nat] /\ Only(at, at', a, 0)
             /\ i = 0 => p = Route[t][1]
             /\ i % 2 = 1 => p = Route[t][i]
             /\ i # 0 /\ i % 2 # 1 => a \in astray'
             /\ astray \subseteq astray' /\ astray' \subseteq astray \cup {a}
             /\ \/ UNCHANGED inbox
                \/ a \notin Standard /\ Sent(a, Nowhere)
  <1>1. /\ order \in [Agvs -> TaskIds \cup {NoTask}] /\ place \in [Agvs -> Resources] /\ at \in [Agvs -> Nat]
    BY DEF Typed, TypeOK
  <1>2. PICK t \in TaskIds : t = order[a]
    BY <1>1 DEF Stop
  <1>3. PICK i \in Nat : i = at[a]
    BY <1>1
  <1>4. /\ order' = [order EXCEPT ![a] = NoTask] /\ at' = [at EXCEPT ![a] = 0]
        /\ astray' = IF i > 0 /\ i % 2 = 0 THEN astray \cup {a} ELSE astray
    BY <1>2, <1>3 DEF Stop
  <1>5. PICK p \in NodesBeside(t, i) : place' = [place EXCEPT ![a] = p]
    BY <1>2, <1>3 DEF Stop
  <1>6. i \in 0..Len(Route[t])
    BY <1>2, <1>3 DEF Typed, TypeOK
  <1>7. PICK j \in DOMAIN Route[t] : p = Route[t][j] /\ j % 2 = 1 /\ j <= i + 1 /\ i <= j + 1
    BY <1>5 DEF NodesBeside
  <1>8. j \in Nat /\ j >= 1 /\ p \in Resources
    BY <1>7, RouteFacts
  <1>9. i = 0 => j = 1
    BY <1>7, <1>8
  <1>10. i % 2 = 1 => j = i
    BY <1>3, <1>7, <1>8
  <1>11. place' \in [Agvs -> Resources] /\ Only(place, place', a, p)
    BY <1>1, <1>5, <1>8, OnlyAt, Zenon
  <1>12. NoTask \in TaskIds \cup {NoTask} /\ 0 \in Nat
    OBVIOUS
  <1>13. order' \in [Agvs -> TaskIds \cup {NoTask}] /\ Only(order, order', a, NoTask)
    BY <1>1, <1>4, <1>12, OnlyAt, Zenon
  <1>14. at' \in [Agvs -> Nat] /\ Only(at, at', a, 0)
    BY <1>1, <1>4, <1>12, OnlyAt, Zenon
  <1>15. UNCHANGED inbox \/ (a \notin Standard /\ Sent(a, Nowhere))
    BY NowhereReport, SendEffect DEF Stop, Nowhere
  <1>16. /\ i # 0 /\ i % 2 # 1 => a \in astray'
         /\ astray \subseteq astray' /\ astray' \subseteq astray \cup {a}
    <2>1. i # 0 /\ i % 2 # 1 => i > 0 /\ i % 2 = 0
      OBVIOUS
    <2>2. QED
      BY <1>4, <2>1
  <1>17. p \in Resources /\ (i = 0 => p = Route[t][1]) /\ (i % 2 = 1 => p = Route[t][i])
    BY <1>7, <1>8, <1>9, <1>10
  <1>18. QED
    BY <1>2, <1>3, <1>6, <1>11, <1>13, <1>14, <1>15, <1>16, <1>17

LEMMA LoseEffect ==
    ASSUME Typed, NEW a \in Agvs, LoseReport(a)
    PROVE  /\ a \in Lossy /\ inbox[a] # <<>>
           /\ inbox' \in [Agvs -> Seq(Reports)] /\ Only(inbox, inbox', a, Tail(inbox[a]))
  <1>1. a \in Lossy /\ inbox[a] # <<>> /\ inbox' = [inbox EXCEPT ![a] = Tail(inbox[a])]
    BY DEF LoseReport
  <1>2. inbox \in [Agvs -> Seq(Reports)] /\ inbox[a] \in Seq(Reports)
    BY DEF Typed, TypeOK
  <1>3. Tail(inbox[a]) \in Seq(Reports)
    BY <1>1, <1>2, HeadTailProperties
  <1>4. QED
    BY <1>1, <1>2, <1>3, OnlyAt, Zenon

LEMMA EndingTails ==
    ASSUME NEW s \in Endings, s # <<>>
    PROVE  /\ Tail(s) \in Endings
           /\ Head(s) = "finish" => s \in {<<"finish", "release">>, <<"finish">>}
           /\ Head(s) = "release" => s \in {<<"release", "finish">>, <<"release">>}
           /\ s = <<"finish", "release">> => Tail(s) = <<"release">>
           /\ s = <<"release", "finish">> => Tail(s) = <<"finish">>
           /\ s \in {<<"finish">>, <<"release">>} => Tail(s) = <<>>
           /\ s \in Seq({"finish", "release"})
  <1>1. CASE s = <<"finish", "release">>
    BY <1>1 DEF Endings
  <1>2. CASE s = <<"release", "finish">>
    BY <1>2 DEF Endings
  <1>3. CASE s = <<"finish">>
    BY <1>3 DEF Endings
  <1>4. CASE s = <<"release">>
    BY <1>4 DEF Endings
  <1>5. QED
    BY <1>1, <1>2, <1>3, <1>4 DEF Endings, EndSteps

LEMMA EndEffect ==
    ASSUME Typed, NEW a \in Agvs, End(a)
    PROVE  /\ current[a] # NoTask /\ order[a] = NoTask /\ ending[a] = <<>>
           /\ Calm => inbox[a] = <<>> /\ handler[a].pc = "idle"
           /\ \E s \in EndSteps : Only(ending, ending', a, s)
           /\ \A b \in Agvs : ending'[b] \in Endings
           /\ ending' \in [Agvs -> Seq({"finish", "release"})]
  <1>1. PICK s \in EndSteps : ending' = [ending EXCEPT ![a] = s]
    BY DEF End
  <1>2. s \in Seq({"finish", "release"}) /\ s \in Endings
    <2>1. s \in Endings /\ s # <<>>
      BY DEF EndSteps, Endings
    <2>2. QED
      BY <2>1, EndingTails
  <1>3. ending \in [Agvs -> Seq({"finish", "release"})] /\ \A b \in Agvs : ending[b] \in Endings
    BY DEF Typed, TypeOK
  <1>4. ending' \in [Agvs -> Seq({"finish", "release"})] /\ Only(ending, ending', a, s)
    BY <1>1, <1>2, <1>3, OnlyAt, Zenon
  <1>5. \A b \in Agvs : ending'[b] \in Endings
    BY <1>2, <1>3, <1>4 DEF Only
  <1>6. QED
    BY <1>4, <1>5 DEF End

LEMMA EndingStep ==
    ASSUME Typed, NEW a \in Agvs, ending[a] # <<>>, ending' = [ending EXCEPT ![a] = Tail(@)]
    PROVE  /\ Only(ending, ending', a, Tail(ending[a]))
           /\ \A b \in Agvs : ending'[b] \in Endings
           /\ ending' \in [Agvs -> Seq({"finish", "release"})]
  <1>1. ending \in [Agvs -> Seq({"finish", "release"})] /\ \A b \in Agvs : ending[b] \in Endings
        /\ ending[a] \in Seq({"finish", "release"})
    BY DEF Typed, TypeOK
  <1>2. Tail(ending[a]) \in Seq({"finish", "release"}) /\ Tail(ending[a]) \in Endings
    BY <1>1, HeadTailProperties, EndingTails
  <1>3. ending' \in [Agvs -> Seq({"finish", "release"})] /\ Only(ending, ending', a, Tail(ending[a]))
    BY <1>1, <1>2, OnlyAt, Zenon
  <1>4. \A b \in Agvs : ending'[b] \in Endings
    BY <1>1, <1>2, <1>3 DEF Only
  <1>5. QED
    BY <1>3, <1>4

LEMMA FinishEffect ==
    ASSUME Typed, NEW a \in Agvs, FinishTask(a)
    PROVE  /\ ending[a] \in {<<"finish", "release">>, <<"finish">>}
           /\ current' \in [Agvs -> TaskIds \cup {NoTask}] /\ Only(current, current', a, NoTask)
           /\ Only(ending, ending', a, Tail(ending[a]))
           /\ \A b \in Agvs : ending'[b] \in Endings
           /\ ending' \in [Agvs -> Seq({"finish", "release"})]
  <1>1. /\ ending[a] # <<>> /\ Head(ending[a]) = "finish" /\ current' = [current EXCEPT ![a] = NoTask]
        /\ ending' = [ending EXCEPT ![a] = Tail(@)]
    BY DEF FinishTask
  <1>2. ending[a] \in Endings /\ current \in [Agvs -> TaskIds \cup {NoTask}] /\ NoTask \in TaskIds \cup {NoTask}
    BY DEF Typed, TypeOK
  <1>3. current' \in [Agvs -> TaskIds \cup {NoTask}] /\ Only(current, current', a, NoTask)
    BY <1>1, <1>2, OnlyAt, Zenon
  <1>4. ending[a] \in {<<"finish", "release">>, <<"finish">>}
    BY <1>1, <1>2, EndingTails
  <1>5. QED
    BY <1>1, <1>3, <1>4, EndingStep

LEMMA ReleaseAllEffect ==
    ASSUME Typed, NEW a \in Agvs, ReleaseAll(a)
    PROVE  /\ ending[a] \in {<<"release", "finish">>, <<"release">>}
           /\ user' = [r \in Resources |-> IF user[r] = a THEN NoAgv ELSE user[r]]
           /\ Only(ending, ending', a, Tail(ending[a]))
           /\ \A b \in Agvs : ending'[b] \in Endings
           /\ ending' \in [Agvs -> Seq({"finish", "release"})]
  <1>1. /\ ending[a] # <<>> /\ Head(ending[a]) = "release" /\ Table!GiveBack({r \in Resources : user[r] = a})
        /\ ending' = [ending EXCEPT ![a] = Tail(@)]
    BY DEF ReleaseAll
  <1>2. ending[a] \in Endings
    BY DEF Typed
  <1>3. ending[a] \in {<<"release", "finish">>, <<"release">>}
    BY <1>1, <1>2, EndingTails
  <1>4. user' = [r \in Resources |-> IF user[r] = a THEN NoAgv ELSE user[r]]
    BY <1>1 DEF Table!GiveBack
  <1>5. QED
    BY <1>1, <1>3, <1>4, EndingStep

-----------------------------------------------------------------------------
(* Types *)

\* What follows a list continues it, as far as the window goes.
LEMMA NextFacts ==
    ASSUME NEW t \in TaskIds, NEW s, Along(t, s), Len(s) <= Window, NEW n, n = NextResources(t, s)
    PROVE  /\ n \in Seq(Resources) /\ Along(t, n) /\ Ahead(t, s, n) /\ Len(s) + Len(n) <= Window
  <1>1. Len(s) \in Nat /\ DOMAIN s = 1..Len(s) /\ s \in Seq(OnRoute(t))
    BY AlongDistinct
  <1>2. Window \in Nat
    BY BoundsAssumption
  <1>3. CASE s = <<>>
    <2>1. n = <<>> /\ <<>> \in Seq(Resources) /\ Len(<<>>) = 0
      BY <1>3, EmptySeq DEF NextResources
    <2>2. Along(t, n) /\ Ahead(t, s, n)
      BY <2>1, AlongEmpty, Zenon
    <2>3. Len(s) + Len(n) <= Window
      BY <1>1, <1>2, <2>1
    <2>4. QED
      BY <2>1, <2>2, <2>3
  <1>4. CASE s # <<>>
    <2>1. Len(s) >= 1 /\ Len(s) \in DOMAIN s
      BY <1>1, <1>4, EmptySeq
    <2> DEFINE i == Index(t, s[Len(s)])
               k == Window - Len(s)
    <2>2. i \in 1..Len(Route[t])
      BY <2>1, AlongDistinct
    <2>3. i + 1 \in Nat /\ 1 <= i + 1 /\ i + 1 <= Len(Route[t]) + 1 /\ k \in Nat
      BY <1>1, <1>2, <2>2, RouteFacts
    <2>4. n = Stretch(t, i + 1, k)
      BY <1>4 DEF NextResources
    <2> HIDE DEF k
    <2>5. \A j \in DOMAIN s : Index(t, s[j]) <= i
      <3>1. \A j \in DOMAIN s : j < Len(s) => Index(t, s[j]) < i
        BY <2>1 DEF Along
      <3>2. \A j \in DOMAIN s : j < Len(s) \/ j = Len(s)
        BY <1>1
      <3>3. \A j \in DOMAIN s : Index(t, s[j]) \in Nat
        BY AlongDistinct, RouteFacts
      <3> HIDE DEF i
      <3>4. \A j \in DOMAIN s : j = Len(s) => Index(t, s[j]) = i
        BY DEF i
      <3>5. i \in Nat
        BY <2>2, RouteFacts
      <3>6. QED
        BY <3>1, <3>2, <3>3, <3>4, <3>5
    <2> HIDE DEF i
    <2>6. /\ Along(t, n) /\ n \in Seq(Resources) /\ Len(n) \in Nat /\ DOMAIN n = 1..Len(n) /\ Len(n) <= k
          /\ \A j \in DOMAIN n : Index(t, n[j]) = (i + 1) + j - 1
      BY <2>3, <2>4, StretchFacts
    <2>7. i \in Nat /\ k \in Nat
      BY <2>2, <2>3, RouteFacts
    <2>8. Ahead(t, s, n)
      <3>1. \A j \in DOMAIN s : Index(t, s[j]) \in Nat
        BY AlongDistinct, RouteFacts
      <3>2. \A j \in DOMAIN n : i < Index(t, n[j])
        BY <2>6, <2>7
      <3>3. \A j \in DOMAIN n : Index(t, n[j]) \in Nat
        BY <2>6, <2>7
      <3>4. QED
        BY <2>5, <2>7, <3>1, <3>2, <3>3 DEF Ahead
    <2>9. Len(s) + Len(n) <= Window
      BY <1>1, <1>2, <2>6, <2>7 DEF k
    <2>10. QED
      BY <2>6, <2>8, <2>9
  <1>5. QED
    BY <1>3, <1>4

Lists == \A t \in TaskIds : Along(t, lockList[t]) /\ Len(lockList[t]) <= Window

LEMMA LeftAlong ==
    ASSUME Lists, NEW a, NEW t \in TaskIds, NEW r, Left(a, t, r)
    PROVE  /\ Lists'
           /\ \A x : InSeq(lockList'[t], x) <=> x # r /\ InSeq(lockList[t], x)
           /\ Len(lockList'[t]) <= Len(lockList[t])
  <1>1. Along(t, lockList[t]) /\ Len(lockList[t]) <= Window
    BY DEF Lists
  <1>2. PICK s, w : s = lockList[t] /\ w = lockList'[t]
    OBVIOUS
  <1>3. Along(t, s) /\ w = Without(s, r)
    BY <1>1, <1>2 DEF Left
  <1>4. /\ Along(t, w) /\ Len(w) <= Len(s)
        /\ \A x : InSeq(w, x) <=> x # r /\ InSeq(s, x)
    BY <1>3, WithoutAlong
  <1>5. Len(w) <= Window
    <2>1. Len(w) \in Nat /\ Len(s) \in Nat /\ Window \in Nat
      BY <1>3, <1>4, AlongDistinct, BoundsAssumption
    <2>2. QED
      BY <1>1, <1>2, <1>4, <2>1
  <1>6. Lists'
    <2>1. SUFFICES ASSUME NEW u \in TaskIds PROVE Along(u, lockList'[u]) /\ Len(lockList'[u]) <= Window
      BY DEF Lists
    <2>2. CASE u = t
      BY <1>2, <1>4, <1>5, <2>2
    <2>3. CASE u # t
      BY <2>3 DEF Left, Lists
    <2>4. QED
      BY <2>2, <2>3
  <1>7. QED
    BY <1>2, <1>4, <1>6

\* The lists after the step that deals with the edge, and what it wants to lock.
LEMMA EdgeLists ==
    ASSUME Typed, Lists, NEW a \in Agvs, ReleaseEdge(a)
    PROVE  /\ Lists'
           /\ \A t \in TaskIds : NextResources(t, lockList'[t]) \in Seq(Resources)
           /\ \A t \in TaskIds : t # handler[a].task => lockList'[t] = lockList[t]
  <1>1. Lists' /\ \A t \in TaskIds : t # handler[a].task => lockList'[t] = lockList[t]
    <2>1. CASE EdgeChanged(a)
      <3>1. reported[a].edge \in Resources
        <4>1. reported[a].edge \in Places
          BY DEF Typed, TypeOK, Reports
        <4>2. QED
          BY <2>1, <4>1 DEF EdgeChanged, Places
      <3>2. LeaveBehind(a, reported[a].edge)
        BY <2>1 DEF ReleaseEdge
      <3>3. CASE UNCHANGED <<user, lockList>>
        BY <3>3 DEF Lists
      <3>4. CASE handler[a].task \in TaskIds /\ Left(a, handler[a].task, reported[a].edge)
        <4>1. PICK t \in TaskIds : t = handler[a].task
          BY <3>4
        <4>2. Left(a, t, reported[a].edge)
          BY <3>4, <4>1
        <4>3. Lists'
          BY <4>2, LeftAlong
        <4>4. QED
          BY <4>1, <4>2, <4>3 DEF Left
      <3>5. QED
        BY <3>1, <3>2, <3>3, <3>4, LeaveEffect
    <2>2. CASE ~EdgeChanged(a)
      BY <2>2 DEF ReleaseEdge, Lists
    <2>3. QED
      BY <2>1, <2>2
  <1>2. ASSUME NEW t \in TaskIds PROVE NextResources(t, lockList'[t]) \in Seq(Resources)
    <2>1. PICK s, n : s = lockList'[t] /\ n = NextResources(t, lockList'[t])
      OBVIOUS
    <2>2. Along(t, s) /\ Len(s) <= Window
      BY <1>1, <2>1 DEF Lists
    <2>3. n = NextResources(t, s)
      BY <2>1
    <2>4. n \in Seq(Resources)
      BY <2>2, <2>3, NextFacts
    <2>5. QED
      BY <2>1, <2>4
  <1>3. QED
    BY <1>1, <1>2

TablesTyped ==
    /\ user \in [Resources -> Agvs \cup {NoAgv}]
    /\ lockList \in [TaskIds -> Seq(Resources)]
    /\ current \in [Agvs -> TaskIds \cup {NoTask}]
    /\ reported \in [Agvs -> Reports] /\ inbox \in [Agvs -> Seq(Reports)]
    /\ scheduled \subseteq TaskIds /\ refused \subseteq TaskIds /\ astray \subseteq Agvs
HandlersTyped == handler \in [Agvs -> HandlerStates] /\ \A a \in Agvs : Whole(handler[a])
EndingsTyped == ending \in [Agvs -> Seq({"finish", "release"})] /\ \A a \in Agvs : ending[a] \in Endings
AgvsTyped ==
    /\ order \in [Agvs -> TaskIds \cup {NoTask}] /\ at \in [Agvs -> Nat] /\ place \in [Agvs -> Resources]
    /\ \A a \in Agvs : at[a] \in 0..(IF order[a] = NoTask THEN 0 ELSE Len(Route[order[a]]))

LEMMA TypedParts == Typed <=> TablesTyped /\ HandlersTyped /\ EndingsTyped /\ AgvsTyped
  BY DEF Typed, TypeOK, TablesTyped, HandlersTyped, EndingsTyped, AgvsTyped, HandlerStates

LEMMA HandlersNext ==
    ASSUME Typed, NEW a \in Agvs, Moves(a) PROVE HandlersTyped'
  BY TypedParts DEF HandlersTyped, Moves

LEMMA NotedType ==
    ASSUME NEW a \in Agvs, NEW n, Noted(a, n) PROVE reported' \in [Agvs -> Reports]
  BY DEF Noted

\* Locks that are given back.
LEMMA UserType ==
    ASSUME Typed, NEW P, user' = [x \in Resources |-> IF x \in P THEN NoAgv ELSE user[x]]
    PROVE  user' \in [Resources -> Agvs \cup {NoAgv}]
  BY DEF Typed, TypeOK

LEMMA LeftType ==
    ASSUME Typed, NEW a \in Agvs, NEW t \in TaskIds, NEW r, Left(a, t, r)
    PROVE  user' \in [Resources -> Agvs \cup {NoAgv}] /\ lockList' \in [TaskIds -> Seq(Resources)]
  <1>1. user \in [Resources -> Agvs \cup {NoAgv}]
    BY DEF Typed, TypeOK
  <1>2. user' = [x \in Resources |-> IF x = r /\ user[x] = a THEN NoAgv ELSE user[x]]
    BY DEF Left
  <1>3. QED
    BY <1>1, <1>2 DEF Left

LEMMA TypedInit == Init => Typed
  <1> SUFFICES ASSUME Init PROVE Typed
    OBVIOUS
  <1>1. <<>> \in Seq(Resources) /\ <<>> \in Seq(Reports) /\ <<>> \in Seq({"finish", "release"}) /\ <<>> \in Endings
    BY EmptySeq DEF Endings
  <1>2. Nowhere \in Reports
    BY NowhereReport
  <1>3. TablesTyped
    BY <1>1, <1>2 DEF Init, TablesTyped, Nowhere
  <1>4. HandlersTyped
    BY NoWorkWhole DEF Init, HandlersTyped
  <1>5. EndingsTyped
    BY <1>1 DEF Init, EndingsTyped
  <1>6. AgvsTyped
    BY HomeAssumption DEF Init, AgvsTyped
  <1>7. QED
    BY <1>3, <1>4, <1>5, <1>6, TypedParts

LEMMA TypedStep ==
    ASSUME Typed, Lists, [Next]_vars
    PROVE  Typed'
  <1>1. TablesTyped /\ HandlersTyped /\ EndingsTyped /\ AgvsTyped
    BY TypedParts
  <1> DEFINE Good == TablesTyped' /\ HandlersTyped' /\ EndingsTyped' /\ AgvsTyped'
  <1>2. ASSUME NEW a \in Agvs, NEW t \in TaskIds, Schedule(a, t) PROVE Good
    <2>1. UNCHANGED <<reported, handler, ending, at, place, refused, astray>>
      BY <1>2 DEF Schedule
    <2>2. TablesTyped'
      <3>1. user' \in [Resources -> Agvs \cup {NoAgv}]
        <4>1. user' = [r \in Resources |-> IF \E i \in DOMAIN First(t) : First(t)[i] = r THEN a ELSE user[r]]
          BY <1>2, ScheduleEffect
        <4>2. user \in [Resources -> Agvs \cup {NoAgv}]
          BY <1>1 DEF TablesTyped
        <4>3. QED
          BY <4>1, <4>2
      <3>2. QED
        BY <1>1, <1>2, <2>1, <3>1, ScheduleEffect DEF TablesTyped, Sent
    <2>3. HandlersTyped' /\ EndingsTyped'
      BY <1>1, <2>1 DEF HandlersTyped, EndingsTyped
    <2>4. AgvsTyped'
      <3>1. order' \in [Agvs -> TaskIds \cup {NoTask}] /\ Only(order, order', a, t) /\ at[a] = 0
        BY <1>2, ScheduleEffect
      <3>2. \A b \in Agvs : at'[b] \in 0..(IF order'[b] = NoTask THEN 0 ELSE Len(Route[order'[b]]))
        <4>1. SUFFICES ASSUME NEW b \in Agvs
                       PROVE  at[b] \in 0..(IF order'[b] = NoTask THEN 0 ELSE Len(Route[order'[b]]))
          BY <2>1
        <4>2. CASE b = a
          <5>1. order'[b] = t /\ t # NoTask /\ Len(Route[t]) \in Nat
            BY <3>1, <4>2, RouteFacts DEF Only
          <5>2. QED
            BY <3>1, <4>2, <5>1
        <4>3. CASE b # a
          BY <1>1, <3>1, <4>3 DEF Only, AgvsTyped
        <4>4. QED
          BY <4>2, <4>3
      <3>3. QED
        BY <1>1, <2>1, <3>1, <3>2 DEF AgvsTyped
    <2>5. QED
      BY <2>2, <2>3, <2>4
  <1>3. ASSUME NEW a \in Agvs, Move(a) PROVE Good
    <2>1. UNCHANGED <<dispatcher, handler, ending, order, place, ghosts>>
      BY <1>3 DEF Move
    <2>2. PICK t \in TaskIds, i \in Nat :
             /\ order[a] = t /\ at[a] = i /\ i < Len(Route[t])
             /\ at' \in [Agvs -> Nat] /\ Only(at, at', a, i + 1) /\ Sent(a, ReportOf(a, t, i + 1))
      BY <1>3, MoveEffect
    <2>3. TablesTyped' /\ HandlersTyped' /\ EndingsTyped'
      BY <1>1, <2>1, <2>2 DEF TablesTyped, HandlersTyped, EndingsTyped, Sent, dispatcher, ghosts
    <2>4. AgvsTyped'
      <3>1. \A b \in Agvs : at'[b] \in 0..(IF order'[b] = NoTask THEN 0 ELSE Len(Route[order'[b]]))
        <4>1. SUFFICES ASSUME NEW b \in Agvs
                       PROVE  at'[b] \in 0..(IF order[b] = NoTask THEN 0 ELSE Len(Route[order[b]]))
          BY <2>1
        <4>2. CASE b = a
          <5>1. at'[b] = i + 1 /\ order[b] = t /\ t # NoTask /\ Len(Route[t]) \in Nat
            BY <2>2, <4>2, RouteFacts DEF Only
          <5>2. QED
            BY <2>2, <5>1
        <4>3. CASE b # a
          BY <1>1, <2>2, <4>3 DEF Only, AgvsTyped
        <4>4. QED
          BY <4>2, <4>3
      <3>2. QED
        BY <1>1, <2>1, <2>2, <3>1 DEF AgvsTyped
    <2>5. QED
      BY <2>3, <2>4
  <1>4. ASSUME NEW a \in Agvs, Stop(a) PROVE Good
    <2>1. UNCHANGED <<dispatcher, handler, ending, scheduled, refused>>
      BY <1>4 DEF Stop
    <2>2. PICK t \in TaskIds, i \in Nat, p \in Resources :
             /\ order[a] = t /\ at[a] = i
             /\ order' \in [Agvs -> TaskIds \cup {NoTask}] /\ Only(order, order', a, NoTask)
             /\ place' \in [Agvs -> Resources] /\ Only(place, place', a, p)
             /\ at' \in [Agvs -> Nat] /\ Only(at, at', a, 0)
             /\ astray' \subseteq astray \cup {a}
             /\ \/ UNCHANGED inbox
                \/ a \notin Standard /\ Sent(a, Nowhere)
      BY <1>4, StopEffect
    <2>3. TablesTyped' /\ HandlersTyped' /\ EndingsTyped'
      BY <1>1, <2>1, <2>2 DEF TablesTyped, HandlersTyped, EndingsTyped, Sent, dispatcher, ghosts
    <2>4. AgvsTyped'
      <3>1. \A b \in Agvs : at'[b] \in 0..(IF order'[b] = NoTask THEN 0 ELSE Len(Route[order'[b]]))
        <4>1. SUFFICES ASSUME NEW b \in Agvs
                       PROVE  at'[b] \in 0..(IF order'[b] = NoTask THEN 0 ELSE Len(Route[order'[b]]))
          OBVIOUS
        <4>2. CASE b = a
          <5>1. at'[b] = 0 /\ order'[b] = NoTask
            BY <2>2, <4>2 DEF Only
          <5>2. QED
            BY <5>1
        <4>3. CASE b # a
          <5>1. at'[b] = at[b] /\ order'[b] = order[b]
            BY <2>2, <4>3 DEF Only
          <5>2. QED
            BY <1>1, <5>1 DEF AgvsTyped
        <4>4. QED
          BY <4>2, <4>3
      <3>2. QED
        BY <2>2, <3>1 DEF AgvsTyped
    <2>5. QED
      BY <2>3, <2>4
  <1>5. ASSUME NEW a \in Agvs, LoseReport(a) PROVE Good
    <2>1. UNCHANGED <<dispatcher, handler, ending, agv, ghosts>>
      BY <1>5 DEF LoseReport
    <2>2. QED
      BY <1>1, <1>5, <2>1, LoseEffect
        DEF TablesTyped, HandlersTyped, EndingsTyped, AgvsTyped, dispatcher, ghosts, agv
  <1>6. ASSUME NEW a \in Agvs, End(a) PROVE Good
    <2>1. UNCHANGED <<dispatcher, inbox, handler, agv, ghosts>>
      BY <1>6 DEF End
    <2>2. QED
      BY <1>1, <1>6, <2>1, EndEffect
        DEF TablesTyped, HandlersTyped, EndingsTyped, AgvsTyped, dispatcher, ghosts, agv
  <1>7. ASSUME NEW a \in Agvs, FinishTask(a) PROVE Good
    <2>1. UNCHANGED <<user, lockList, reported, inbox, handler, agv, ghosts>>
      BY <1>7 DEF FinishTask
    <2>2. QED
      BY <1>1, <1>7, <2>1, FinishEffect
        DEF TablesTyped, HandlersTyped, EndingsTyped, AgvsTyped, ghosts, agv
  <1>8. ASSUME NEW a \in Agvs, ReleaseAll(a) PROVE Good
    <2>1. UNCHANGED <<lockList, current, reported, inbox, handler, agv, ghosts>>
      BY <1>8 DEF ReleaseAll
    <2>2. user' \in [Resources -> Agvs \cup {NoAgv}]
      BY <1>1, <1>8, ReleaseAllEffect DEF TablesTyped
    <2>3. QED
      BY <1>1, <1>8, <2>1, <2>2, ReleaseAllEffect
        DEF TablesTyped, HandlersTyped, EndingsTyped, AgvsTyped, ghosts, agv
  <1>9. ASSUME NEW a \in Agvs, Read(a) PROVE Good
    <2>1. UNCHANGED <<dispatcher, ending, agv, ghosts>>
      BY <1>9 DEF Read
    <2>2. Moves(a) /\ inbox' \in [Agvs -> Seq(Reports)]
      BY <1>9, ReadEffect
    <2>3. HandlersTyped'
      BY <2>2, HandlersNext
    <2>4. QED
      BY <1>1, <2>1, <2>2, <2>3 DEF TablesTyped, EndingsTyped, AgvsTyped, dispatcher, ghosts, agv
  <1>10. ASSUME NEW a \in Agvs, ReleaseNode(a) PROVE Good
    <2>1. UNCHANGED <<current, inbox, ending, agv, ghosts>>
      BY <1>10 DEF ReleaseNode
    <2>2. Moves(a) /\ reported' \in [Agvs -> Reports]
      BY <1>10, NodeEffect, NotedType
    <2>3. user' \in [Resources -> Agvs \cup {NoAgv}] /\ lockList' \in [TaskIds -> Seq(Resources)]
      BY <1>1, <1>10, NodeEffect, LeftType DEF TablesTyped
    <2>4. HandlersTyped'
      BY <2>2, HandlersNext
    <2>5. QED
      BY <1>1, <2>1, <2>2, <2>3, <2>4 DEF TablesTyped, EndingsTyped, AgvsTyped, ghosts, agv
  <1>11. ASSUME NEW a \in Agvs, ReleaseEdge(a) PROVE Good
    <2>1. UNCHANGED <<current, inbox, ending, agv, ghosts>>
      BY <1>11 DEF ReleaseEdge
    <2>2. \A t \in TaskIds : t = handler[a].task => NextResources(t, lockList'[t]) \in Seq(Resources)
      BY <1>11, EdgeLists
    <2>3. Moves(a) /\ reported' \in [Agvs -> Reports]
      BY <1>11, <2>2, EdgeEffect, NotedType
    <2>4. user' \in [Resources -> Agvs \cup {NoAgv}] /\ lockList' \in [TaskIds -> Seq(Resources)]
      BY <1>1, <1>11, <2>2, EdgeEffect, LeftType DEF TablesTyped
    <2>5. HandlersTyped'
      BY <2>3, HandlersNext
    <2>6. QED
      BY <1>1, <2>1, <2>3, <2>4, <2>5 DEF TablesTyped, EndingsTyped, AgvsTyped, ghosts, agv
  <1>12. ASSUME NEW a \in Agvs, LockNext(a) PROVE Good
    <2>1. UNCHANGED <<lockList, current, reported, inbox, ending, agv, scheduled, astray>>
      BY <1>12 DEF LockNext
    <2>2. Moves(a)
      BY <1>12, LockEffect
    <2>3. user' \in [Resources -> Agvs \cup {NoAgv}]
      BY <1>1, <1>12, LockEffect DEF TablesTyped
    <2>4. refused' \subseteq TaskIds
      <3>1. handler[a].pc = "lock" => handler[a].task \in TaskIds
        BY HandlerParts
      <3>2. QED
        BY <1>1, <1>12, <3>1, LockEffect DEF TablesTyped
    <2>5. HandlersTyped'
      BY <2>2, HandlersNext
    <2>6. QED
      BY <1>1, <2>1, <2>3, <2>4, <2>5 DEF TablesTyped, EndingsTyped, AgvsTyped, agv
  <1>13. ASSUME NEW a \in Agvs, AskHolder(a) PROVE Good
    <2>1. UNCHANGED <<dispatcher, inbox, ending, agv, ghosts>>
      BY <1>13 DEF AskHolder
    <2>2. HandlersTyped'
      BY <1>13, AskEffect, HandlersNext
    <2>3. QED
      BY <1>1, <2>1, <2>2 DEF TablesTyped, EndingsTyped, AgvsTyped, dispatcher, ghosts, agv
  <1>14. ASSUME NEW a \in Agvs, Extend(a) PROVE Good
    <2>1. UNCHANGED <<user, current, reported, inbox, ending, agv, ghosts>>
      BY <1>14 DEF Extend
    <2>2. Moves(a) /\ lockList' \in [TaskIds -> Seq(Resources)]
      BY <1>14, ExtendEffect
    <2>3. HandlersTyped'
      BY <2>2, HandlersNext
    <2>4. QED
      BY <1>1, <2>1, <2>2, <2>3 DEF TablesTyped, EndingsTyped, AgvsTyped, ghosts, agv
  <1>15. ASSUME NEW a \in Agvs, Undo(a) PROVE Good
    <2>1. UNCHANGED <<lockList, current, reported, inbox, ending, agv, ghosts>>
      BY <1>15 DEF Undo
    <2>2. Moves(a)
      BY <1>15, UndoEffect
    <2>3. user' \in [Resources -> Agvs \cup {NoAgv}]
      BY <1>1, <1>15, UndoEffect DEF TablesTyped
    <2>4. HandlersTyped'
      BY <2>2, HandlersNext
    <2>5. QED
      BY <1>1, <2>1, <2>3, <2>4 DEF TablesTyped, EndingsTyped, AgvsTyped, ghosts, agv
  <1>16. ASSUME UNCHANGED vars PROVE Good
    <2>1. UNCHANGED <<user, lockList, current, reported, inbox, handler, ending, order, at, place, scheduled, refused, astray>>
      BY <1>16 DEF vars, dispatcher, ghosts, agv
    <2>2. TablesTyped' /\ HandlersTyped'
      BY <1>1, <2>1 DEF TablesTyped, HandlersTyped
    <2>3. EndingsTyped' /\ AgvsTyped'
      BY <1>1, <2>1 DEF EndingsTyped, AgvsTyped
    <2>4. QED
      BY <2>2, <2>3
  <1> HIDE DEF Good
  <1>17. Good
    BY <1>2, <1>3, <1>4, <1>5, <1>6, <1>7, <1>8, <1>9, <1>10, <1>11, <1>12, <1>13, <1>14, <1>15, <1>16
      DEF Next, HandlerStep
  <1>18. QED
    BY <1>17 DEF Good, Typed, TypeOK, TablesTyped, HandlersTyped, EndingsTyped, AgvsTyped, HandlerStates

-----------------------------------------------------------------------------
(* Lists *)

LEMMA ListedParts == Listed <=> OneOwner /\ Lists /\ \A a \in Agvs : Continues(a)
  BY DEF Listed, Lists

\* Nobody takes up a task that was not his.
LEMMA OwnerSame ==
    ASSUME OneOwner, \A b \in Agvs, u \in TaskIds : Has(b, u)' => Has(b, u), scheduled \subseteq scheduled'
    PROVE  OneOwner'
  BY DEF OneOwner

LEMMA HandlerOwner ==
    ASSUME OneOwner, NEW a \in Agvs, Moves(a), handler'[a].task \in {handler[a].task, current[a], NoTask},
           UNCHANGED <<current, order, scheduled>>
    PROVE  OneOwner'
  <1>1. ASSUME NEW b \in Agvs, NEW u \in TaskIds, Has(b, u)' PROVE Has(b, u)
    BY <1>1 DEF Has, Moves
  <1>2. QED
    BY <1>1, OwnerSame

LEMMA OthersContinue ==
    ASSUME Typed, Listed, NEW a \in Agvs, Moves(a),
           \A u \in TaskIds : u # handler[a].task => lockList'[u] = lockList[u]
    PROVE  \A b \in Agvs : b # a => Continues(b)'
  <1> SUFFICES ASSUME NEW b \in Agvs, b # a, (handler[b].pc \in {"lock", "ask", "undo"})'
               PROVE  Continues(b)'
    BY DEF Continues
  <1>1. handler'[b] = handler[b]
    BY DEF Moves
  <1>2. PICK t \in TaskIds : t = handler[b].task
    BY <1>1, HandlerParts
  <1>3. t # handler[a].task
    BY <1>2 DEF Listed, OneOwner, Has
  <1>4. lockList'[t] = lockList[t]
    BY <1>3
  <1>5. Continues(b)
    BY DEF Listed
  <1>6. QED
    BY <1>1, <1>2, <1>4, <1>5 DEF Continues, Work

LEMMA ListedInit == Init => Listed
  <1> SUFFICES ASSUME Init PROVE Listed
    OBVIOUS
  <1>1. OneOwner
    BY NoWorkWhole DEF Init, OneOwner, Has
  <1>2. ASSUME NEW t \in TaskIds PROVE Along(t, lockList[t]) /\ Len(lockList[t]) <= Window
    <2>1. lockList[t] = <<>> /\ Len(<<>>) = 0
      BY EmptySeq DEF Init
    <2>2. QED
      BY <2>1, AlongEmpty, BoundsAssumption
  <1>3. \A a \in Agvs : Continues(a)
    BY NoWorkWhole DEF Init, Continues
  <1>4. QED
    BY <1>1, <1>2, <1>3, ListedParts DEF Lists

LEMMA FirstAlong ==
    ASSUME NEW t \in TaskIds
    PROVE  Along(t, First(t)) /\ Len(First(t)) <= Window
  <1>1. 1 \in Nat /\ 1 <= 1 /\ 1 <= Len(Route[t]) + 1 /\ Window \in Nat
    BY RouteFacts, BoundsAssumption
  <1>2. Along(t, Stretch(t, 1, Window)) /\ Len(Stretch(t, 1, Window)) <= Window
    BY <1>1, StretchFacts
  <1>3. QED
    BY <1>2 DEF First

LEMMA ScheduleListed ==
    ASSUME Typed, Listed, NEW a \in Agvs, NEW t \in TaskIds, Schedule(a, t)
    PROVE  Listed'
  <1>1. UNCHANGED <<handler>> /\ scheduled' = scheduled \cup {t} /\ t \notin scheduled
        /\ Only(current, current', a, t) /\ Only(order, order', a, t)
    BY ScheduleEffect DEF Schedule
  <1>2. OneOwner /\ \A b \in Agvs : ~Has(b, t)
    BY <1>1 DEF Listed, OneOwner
  <1>3. ASSUME NEW b \in Agvs, NEW u \in TaskIds, u # t, Has(b, u)' PROVE Has(b, u)
    BY <1>1, <1>3 DEF Has, Only
  <1>4. ASSUME NEW b \in Agvs, Has(b, t)' PROVE b = a
    BY <1>1, <1>2, <1>4 DEF Has, Only
  <1>5. OneOwner'
    BY <1>1, <1>2, <1>3, <1>4 DEF OneOwner
  <1>6. Lists'
    <2>1. /\ lockList'[t] = First(t) /\ \A u \in TaskIds : u # t => lockList'[u] = lockList[u]
      BY ScheduleEffect
    <2>2. QED
      BY <2>1, FirstAlong, ListedParts DEF Lists
  <1>7. ASSUME NEW b \in Agvs PROVE Continues(b)'
    <2>1. handler'[b] = handler[b] /\ Continues(b)
      BY <1>1 DEF Listed
    <2>2. CASE handler[b].pc \in {"lock", "ask", "undo"}
      <3>1. PICK u \in TaskIds : u = handler[b].task
        BY <2>2, HandlerParts
      <3>2. u # t
        BY <1>2, <3>1 DEF Has
      <3>3. lockList'[u] = lockList[u]
        BY <3>2, ScheduleEffect
      <3>4. QED
        BY <2>1, <3>1, <3>3 DEF Continues, Work
    <2>3. CASE handler[b].pc \notin {"lock", "ask", "undo"}
      BY <2>1, <2>3 DEF Continues
    <2>4. QED
      BY <2>2, <2>3
  <1>8. QED
    BY <1>5, <1>6, <1>7, ListedParts DEF Listed, Lists

\* Steps that touch neither a list nor a handler.
LEMMA ElsewhereListed ==
    ASSUME Listed, UNCHANGED <<lockList, handler, scheduled>>,
           \A b \in Agvs : (current'[b] = current[b] \/ current'[b] = NoTask)
                           /\ (order'[b] = order[b] \/ order'[b] = NoTask)
    PROVE  Listed'
  <1>1. OneOwner /\ Lists /\ \A a \in Agvs : Continues(a)
    BY ListedParts
  <1>2. ASSUME NEW b \in Agvs, NEW u \in TaskIds, Has(b, u)' PROVE Has(b, u)
    BY <1>2 DEF Has
  <1>3. OneOwner'
    BY <1>1, <1>2, OwnerSame
  <1>4. Lists' /\ \A a \in Agvs : Continues(a)'
    BY <1>1 DEF Lists, Continues, Work
  <1>5. QED
    BY <1>3, <1>4 DEF Listed, Lists

\* Steps of a handler that are through with a list, or only look at it.
LEMMA HandlerListed ==
    ASSUME Typed, Listed, NEW a \in Agvs, Moves(a),
           handler'[a].task \in {handler[a].task, current[a], NoTask},
           UNCHANGED <<current, order, scheduled>>, Lists',
           \A u \in TaskIds : u # handler[a].task => lockList'[u] = lockList[u],
           Continues(a)'
    PROVE  Listed'
  <1>1. OneOwner'
    BY HandlerOwner, ListedParts
  <1>2. \A b \in Agvs : Continues(b)'
    BY OthersContinue
  <1>3. QED
    BY <1>1, <1>2 DEF Listed, Lists

LEMMA ListedStep ==
    ASSUME Typed, Listed, [Next]_vars
    PROVE  Listed'
  <1>1. OneOwner /\ Lists /\ \A a \in Agvs : Continues(a)
    BY ListedParts
  <1> DEFINE Good == Listed'
  <1>2. ASSUME NEW a \in Agvs, NEW t \in TaskIds, Schedule(a, t) PROVE Good
    BY <1>2, ScheduleListed
  <1>3. ASSUME NEW a \in Agvs, Move(a) PROVE Good
    <2>1. UNCHANGED <<dispatcher, handler, ending, order, place, ghosts>>
      BY <1>3 DEF Move
    <2>2. QED
      BY <2>1, ElsewhereListed DEF dispatcher, ghosts
  <1>4. ASSUME NEW a \in Agvs, Stop(a) PROVE Good
    <2>1. UNCHANGED <<dispatcher, handler, ending, scheduled, refused>>
      BY <1>4 DEF Stop
    <2>2. \A b \in Agvs : order'[b] = order[b] \/ order'[b] = NoTask
      BY <1>4, StopEffect DEF Only
    <2>3. QED
      BY <2>1, <2>2, ElsewhereListed DEF dispatcher, ghosts
  <1>5. ASSUME NEW a \in Agvs, LoseReport(a) PROVE Good
    <2>1. UNCHANGED <<dispatcher, handler, ending, agv, ghosts>>
      BY <1>5 DEF LoseReport
    <2>2. QED
      BY <2>1, ElsewhereListed DEF dispatcher, ghosts, agv
  <1>6. ASSUME NEW a \in Agvs, End(a) PROVE Good
    <2>1. UNCHANGED <<dispatcher, inbox, handler, agv, ghosts>>
      BY <1>6 DEF End
    <2>2. QED
      BY <2>1, ElsewhereListed DEF dispatcher, ghosts, agv
  <1>7. ASSUME NEW a \in Agvs, FinishTask(a) PROVE Good
    <2>1. UNCHANGED <<user, lockList, reported, inbox, handler, agv, ghosts>>
      BY <1>7 DEF FinishTask
    <2>2. \A b \in Agvs : current'[b] = current[b] \/ current'[b] = NoTask
      BY <1>7, FinishEffect DEF Only
    <2>3. QED
      BY <2>1, <2>2, ElsewhereListed DEF ghosts, agv
  <1>8. ASSUME NEW a \in Agvs, ReleaseAll(a) PROVE Good
    <2>1. UNCHANGED <<lockList, current, reported, inbox, handler, agv, ghosts>>
      BY <1>8 DEF ReleaseAll
    <2>2. QED
      BY <2>1, ElsewhereListed DEF ghosts, agv
  <1>9. ASSUME NEW a \in Agvs, Read(a) PROVE Good
    <2>1. UNCHANGED <<dispatcher, ending, agv, ghosts>>
      BY <1>9 DEF Read
    <2>2. Moves(a) /\ handler'[a].pc = "node" /\ handler'[a].task = current[a]
      BY <1>9, ReadEffect
    <2>3. Continues(a)'
      BY <2>2 DEF Continues
    <2>4. Lists'
      BY <1>1, <2>1 DEF Lists, dispatcher
    <2>5. QED
      BY <2>1, <2>2, <2>3, <2>4, HandlerListed DEF dispatcher, ghosts, agv
  <1>10. ASSUME NEW a \in Agvs, ReleaseNode(a) PROVE Good
    <2>1. UNCHANGED <<current, inbox, ending, agv, ghosts>>
      BY <1>10 DEF ReleaseNode
    <2>2. Moves(a) /\ handler'[a].pc = "edge" /\ handler'[a].task = handler[a].task
          /\ \/ UNCHANGED <<user, lockList>>
             \/ handler[a].task \in TaskIds /\ Left(a, handler[a].task, reported[a].node)
      BY <1>10, NodeEffect
    <2>3. Continues(a)'
      BY <2>2 DEF Continues
    <2>4. Lists' /\ \A u \in TaskIds : u # handler[a].task => lockList'[u] = lockList[u]
      <3>1. CASE UNCHANGED <<user, lockList>>
        BY <1>1, <3>1 DEF Lists
      <3>2. CASE handler[a].task \in TaskIds /\ Left(a, handler[a].task, reported[a].node)
        <4>1. PICK t \in TaskIds : t = handler[a].task
          BY <3>2
        <4>2. Left(a, t, reported[a].node)
          BY <3>2, <4>1
        <4>3. Lists'
          BY <1>1, <4>2, LeftAlong
        <4>4. QED
          BY <4>1, <4>2, <4>3 DEF Left
      <3>3. QED
        BY <2>2, <3>1, <3>2
    <2>5. QED
      BY <2>1, <2>2, <2>3, <2>4, HandlerListed DEF ghosts, agv
  <1>11. ASSUME NEW a \in Agvs, ReleaseEdge(a) PROVE Good
    <2>1. UNCHANGED <<current, inbox, ending, agv, ghosts>>
      BY <1>11 DEF ReleaseEdge
    <2>2. /\ Lists'
          /\ \A t \in TaskIds : NextResources(t, lockList'[t]) \in Seq(Resources)
          /\ \A t \in TaskIds : t # handler[a].task => lockList'[t] = lockList[t]
      BY <1>1, <1>11, EdgeLists
    <2>3. /\ handler[a].pc = "edge" /\ Moves(a)
          /\ \/ handler'[a] = NoWork
             \/ /\ handler'[a].pc = "lock" /\ handler'[a].task = handler[a].task /\ handler[a].task # NoTask
                /\ handler'[a].todo = NextResources(handler[a].task, lockList'[handler[a].task])
                /\ handler'[a].locked = <<>>
      BY <1>11, <2>2, EdgeEffect
    <2>4. CASE handler'[a] = NoWork
      <3>1. handler'[a].task = NoTask /\ Continues(a)'
        BY <2>4, NoWorkWhole DEF Continues
      <3>2. QED
        BY <2>1, <2>2, <2>3, <3>1, HandlerListed DEF ghosts, agv
    <2>5. CASE /\ handler'[a].pc = "lock" /\ handler'[a].task = handler[a].task /\ handler[a].task # NoTask
               /\ handler'[a].todo = NextResources(handler[a].task, lockList'[handler[a].task])
               /\ handler'[a].locked = <<>>
      <3>1. PICK t \in TaskIds : t = handler[a].task
        BY <2>5, HandlerParts
      <3>2. PICK s, n : s = lockList'[t] /\ n = NextResources(t, lockList'[t])
        OBVIOUS
      <3>3. Along(t, s) /\ Len(s) <= Window /\ n = NextResources(t, s)
        BY <2>2, <3>2 DEF Lists
      <3>4. /\ n \in Seq(Resources) /\ Along(t, n) /\ Ahead(t, s, n) /\ Len(s) + Len(n) <= Window
        BY <3>3, NextFacts
      <3>5. <<>> \o n = n
        BY <3>4, ConcatEmptySeq
      <3>6. Work(a)' = n /\ handler'[a].task = t
        BY <2>5, <3>1, <3>2, <3>5 DEF Work
      <3>7. Continues(a)'
        BY <3>2, <3>4, <3>6 DEF Continues
      <3>8. QED
        BY <2>1, <2>2, <2>3, <2>5, <3>7, HandlerListed DEF ghosts, agv
    <2>6. QED
      BY <2>3, <2>4, <2>5
  <1>12. ASSUME NEW a \in Agvs, LockNext(a) PROVE Good
    <2>1. UNCHANGED <<lockList, current, reported, inbox, ending, agv, scheduled>>
      BY <1>12 DEF LockNext
    <2>2. /\ handler[a].pc = "lock" /\ handler[a].todo # <<>> /\ Moves(a) /\ handler'[a].task = handler[a].task
          /\ \/ /\ handler'[a].todo = Tail(handler[a].todo)
                /\ handler'[a].locked = Append(handler[a].locked, Head(handler[a].todo))
             \/ handler'[a].todo = handler[a].todo /\ handler'[a].locked = handler[a].locked
      BY <1>12, LockEffect
    <2>3. Work(a)' = Work(a)
      <3>1. PICK l \in Seq(Resources), d \in Seq(Resources) : l = handler[a].locked /\ d = handler[a].todo
        BY HandlerParts
      <3>2. Append(l, Head(d)) \o Tail(d) = l \o d
        BY <2>2, <3>1, ListMoves
      <3>3. QED
        BY <2>2, <3>1, <3>2 DEF Work
    <2>4. Continues(a)'
      BY <1>1, <2>1, <2>2, <2>3 DEF Continues
    <2>5. Lists'
      BY <1>1, <2>1 DEF Lists
    <2>6. QED
      BY <2>1, <2>2, <2>4, <2>5, HandlerListed DEF agv
  <1>13. ASSUME NEW a \in Agvs, AskHolder(a) PROVE Good
    <2>1. UNCHANGED <<dispatcher, inbox, ending, agv, ghosts>>
      BY <1>13 DEF AskHolder
    <2>2. /\ handler[a].pc = "ask" /\ Moves(a) /\ handler'[a].task = handler[a].task
          /\ handler'[a].locked = handler[a].locked
          /\ handler'[a].todo = <<>> \/ handler'[a].todo = handler[a].todo
      BY <1>13, AskEffect
    <2>3. Continues(a)'
      <3>1. CASE handler'[a].todo = handler[a].todo
        BY <1>1, <2>1, <2>2, <3>1 DEF Continues, Work, dispatcher
      <3>2. CASE handler'[a].todo = <<>>
        <4>1. PICK t \in TaskIds, s, l \in Seq(Resources), d \in Seq(Resources) :
                 t = handler[a].task /\ s = lockList[t] /\ l = handler[a].locked /\ d = handler[a].todo
          BY <2>2, HandlerParts DEF Typed, TypeOK
        <4>2. Along(t, l \o d) /\ Ahead(t, s, l \o d) /\ Len(s) + Len(l \o d) <= Window
          BY <1>1, <2>2, <4>1 DEF Continues, Work
        <4>3. Along(t, l) /\ Ahead(t, s, l) /\ Len(l) <= Len(l \o d)
          BY <4>2, AlongFirstPart
        <4>4. Along(t, s)
          BY <1>1, <4>1 DEF Lists
        <4>5. Len(s) \in Nat /\ Len(l) \in Nat /\ Len(l \o d) \in Nat /\ Window \in Nat
          BY <4>2, <4>3, <4>4, AlongDistinct, BoundsAssumption
        <4>6. Len(s) + Len(l) <= Window
          BY <4>2, <4>3, <4>5
        <4>7. l \o <<>> = l
          BY <4>1, ListMoves
        <4>8. Work(a)' = l /\ handler'[a].task = t /\ lockList'[t] = s
          BY <2>1, <2>2, <3>2, <4>1, <4>7 DEF Work, dispatcher
        <4>9. QED
          BY <4>3, <4>6, <4>8 DEF Continues
      <3>3. QED
        BY <2>2, <3>1, <3>2
    <2>4. Lists'
      BY <1>1, <2>1 DEF Lists, dispatcher
    <2>5. QED
      BY <2>1, <2>2, <2>3, <2>4, HandlerListed DEF dispatcher, ghosts, agv
  <1>14. ASSUME NEW a \in Agvs, Extend(a) PROVE Good
    <2>1. UNCHANGED <<user, current, reported, inbox, ending, agv, ghosts>>
      BY <1>14 DEF Extend
    <2>2. PICK t \in TaskIds :
             /\ handler[a].pc = "lock" /\ handler[a].todo = <<>> /\ handler[a].task = t
             /\ Moves(a) /\ handler'[a] = NoWork
             /\ lockList'[t] = lockList[t] \o handler[a].locked
             /\ \A u \in TaskIds : u # t => lockList'[u] = lockList[u]
      BY <1>14, ExtendEffect
    <2>3. handler'[a].task = NoTask /\ Continues(a)'
      BY <2>2, NoWorkWhole DEF Continues
    <2>4. PICK s, l \in Seq(Resources) : s = lockList[t] /\ l = handler[a].locked
      BY HandlerParts DEF Typed, TypeOK
    <2>5. Work(a) = l
      BY <2>2, <2>4, ListMoves DEF Work
    <2>6. Along(t, s) /\ Along(t, l) /\ Ahead(t, s, l) /\ Len(s) + Len(l) <= Window
      BY <1>1, <2>2, <2>4, <2>5 DEF Continues, Lists
    <2>7. Along(t, s \o l) /\ Len(s \o l) <= Window
      BY <2>6, ConcatAlong
    <2>8. Lists'
      BY <1>1, <2>2, <2>4, <2>7 DEF Lists
    <2>9. QED
      BY <2>1, <2>2, <2>3, <2>8, HandlerListed DEF ghosts, agv
  <1>15. ASSUME NEW a \in Agvs, Undo(a) PROVE Good
    <2>1. UNCHANGED <<lockList, current, reported, inbox, ending, agv, ghosts>>
      BY <1>15 DEF Undo
    <2>2. /\ handler[a].pc = "undo" /\ Moves(a)
          /\ \/ handler'[a] = NoWork
             \/ /\ handler[a].locked # <<>> /\ handler'[a].pc = "undo" /\ handler'[a].task = handler[a].task
                /\ handler'[a].todo = handler[a].todo /\ handler'[a].locked = Tail(handler[a].locked)
      BY <1>15, UndoEffect
    <2>3. Continues(a)' /\ handler'[a].task \in {handler[a].task, NoTask}
      <3>1. CASE handler'[a] = NoWork
        BY <3>1, NoWorkWhole DEF Continues
      <3>2. CASE /\ handler[a].locked # <<>> /\ handler'[a].pc = "undo" /\ handler'[a].task = handler[a].task
                 /\ handler'[a].todo = handler[a].todo /\ handler'[a].locked = Tail(handler[a].locked)
        <4>1. PICK t \in TaskIds, s, l \in Seq(Resources), d \in Seq(Resources) :
                 t = handler[a].task /\ s = lockList[t] /\ l = handler[a].locked /\ d = handler[a].todo
          BY <2>2, HandlerParts DEF Typed, TypeOK
        <4>2. PICK w \in Seq(Resources) : w = l \o d
          BY <4>1, ConcatProperties
        <4>3. Along(t, w) /\ Ahead(t, s, w) /\ Len(s) + Len(w) <= Window
          BY <1>1, <2>2, <4>1, <4>2 DEF Continues, Work
        <4>4. Tail(l) \o d = Tail(w)
          BY <3>2, <4>1, <4>2, ListMoves
        <4>5. w # <<>>
          BY <3>2, <4>1, <4>2, ConcatEqualIffEmpty
        <4>6. Along(t, Tail(w)) /\ Ahead(t, s, Tail(w)) /\ Len(Tail(w)) < Len(w)
          BY <4>3, <4>5, AlongTail
        <4>7. Along(t, s)
          BY <1>1, <4>1 DEF Lists
        <4>8. Len(s) \in Nat /\ Len(w) \in Nat /\ Len(Tail(w)) \in Nat /\ Window \in Nat
          BY <4>3, <4>6, <4>7, AlongDistinct, BoundsAssumption
        <4>9. Len(s) + Len(Tail(w)) <= Window
          BY <4>3, <4>6, <4>8
        <4>10. Work(a)' = Tail(w) /\ handler'[a].task = t /\ lockList'[t] = s
          BY <2>1, <3>2, <4>1, <4>4 DEF Work
        <4>11. QED
          BY <3>2, <4>6, <4>9, <4>10 DEF Continues
      <3>3. QED
        BY <2>2, <3>1, <3>2
    <2>4. Lists'
      BY <1>1, <2>1 DEF Lists
    <2>5. QED
      BY <2>1, <2>2, <2>3, <2>4, HandlerListed DEF ghosts, agv
  <1>16. ASSUME UNCHANGED vars PROVE Good
    <2>1. UNCHANGED <<lockList, current, handler, order, scheduled>>
      BY <1>16 DEF vars, dispatcher, ghosts, agv
    <2>2. QED
      BY <2>1, ElsewhereListed
  <1> HIDE DEF Good
  <1>17. Good
    BY <1>2, <1>3, <1>4, <1>5, <1>6, <1>7, <1>8, <1>9, <1>10, <1>11, <1>12, <1>13, <1>14, <1>15, <1>16
      DEF Next, HandlerStep
  <1>18. QED
    BY <1>17 DEF Good

\* Every variable keeps its type.
THEOREM TypeCorrect == Spec => []TypeOK
  <1>1. Init => Typed /\ Listed
    BY TypedInit, ListedInit
  <1>2. Typed /\ Listed /\ [Next]_vars => (Typed /\ Listed)'
    BY TypedStep, ListedStep, ListedParts
  <1>3. Typed /\ Listed => TypeOK
    BY DEF Typed
  <1>4. QED
    BY <1>1, <1>2, <1>3, PTL DEF Spec

\* The list of locks a task is believed to hold follows the path, and is never
\* longer than the window: however late, lost or doubled the reports are, whatever
\* else the MQTT thread does meanwhile, and whatever an AGV reports.
THEOREM ListsFollow == Spec => []ListFollowsPath
  <1>1. Init => Typed /\ Listed
    BY TypedInit, ListedInit
  <1>2. Typed /\ Listed /\ [Next]_vars => (Typed /\ Listed)'
    BY TypedStep, ListedStep, ListedParts
  <1>3. Typed /\ Listed => ListFollowsPath
    BY DEF Listed, Along, ListFollowsPath
  <1>4. QED
    BY <1>1, <1>2, <1>3, PTL DEF Spec

-----------------------------------------------------------------------------
(* What a step of one AGV, or for it, leaves to the others *)

Acts(a) ==
    \/ \E t \in TaskIds : Schedule(a, t)
    \/ Move(a) \/ Stop(a) \/ LoseReport(a)
    \/ End(a) \/ FinishTask(a) \/ ReleaseAll(a)
    \/ HandlerStep(a)

SameFor(b) ==
    /\ current'[b] = current[b] /\ order'[b] = order[b] /\ handler'[b] = handler[b]
    /\ ending'[b] = ending[b] /\ inbox'[b] = inbox[b]
    /\ at'[b] = at[b] /\ place'[b] = place[b] /\ reported'[b] = reported[b]

LEMMA OthersSame ==
    ASSUME Typed, Listed, NEW a \in Agvs, Acts(a), NEW b \in Agvs, b # a
    PROVE  SameFor(b)
  <1>1. ASSUME NEW t \in TaskIds, Schedule(a, t) PROVE SameFor(b)
    <2>1. Only(current, current', a, t) /\ Only(order, order', a, t) /\ Sent(a, ReportOf(a, t, 0))
      BY <1>1, ScheduleEffect
    <2>2. UNCHANGED <<reported, handler, ending, at, place>>
      BY <1>1 DEF Schedule
    <2>3. QED
      BY <2>1, <2>2 DEF SameFor, Only, Sent
  <1>2. ASSUME Move(a) PROVE SameFor(b)
    BY <1>2, MoveEffect DEF SameFor, Only, Sent, Move, dispatcher, ghosts
  <1>3. ASSUME Stop(a) PROVE SameFor(b)
    BY <1>3, StopEffect DEF SameFor, Only, Sent, Stop, dispatcher
  <1>4. ASSUME LoseReport(a) PROVE SameFor(b)
    BY <1>4, LoseEffect DEF SameFor, Only, LoseReport, dispatcher, ghosts, agv
  <1>5. ASSUME End(a) PROVE SameFor(b)
    BY <1>5, EndEffect DEF SameFor, Only, End, dispatcher, ghosts, agv
  <1>6. ASSUME FinishTask(a) PROVE SameFor(b)
    BY <1>6, FinishEffect DEF SameFor, Only, FinishTask, ghosts, agv
  <1>7. ASSUME ReleaseAll(a) PROVE SameFor(b)
    BY <1>7, ReleaseAllEffect DEF SameFor, Only, ReleaseAll, ghosts, agv
  <1>8. ASSUME Read(a) PROVE SameFor(b)
    BY <1>8, ReadEffect DEF SameFor, Moves, Read, dispatcher, ghosts, agv
  <1>9. ASSUME ReleaseNode(a) PROVE SameFor(b)
    <2>1. Moves(a) /\ Noted(a, [node |-> handler[a].report.node, edge |-> reported[a].edge])
      BY <1>9, NodeEffect
    <2>2. QED
      BY <1>9, <2>1 DEF SameFor, Moves, Noted, ReleaseNode, ghosts, agv
  <1>10. ASSUME ReleaseEdge(a) PROVE SameFor(b)
    <2>1. \A t \in TaskIds : t = handler[a].task => NextResources(t, lockList'[t]) \in Seq(Resources)
      BY <1>10, EdgeLists, ListedParts
    <2>2. Moves(a) /\ Noted(a, [node |-> reported[a].node, edge |-> handler[a].report.edge])
      BY <1>10, <2>1, EdgeEffect
    <2>3. QED
      BY <1>10, <2>2 DEF SameFor, Moves, Noted, ReleaseEdge, ghosts, agv
  <1>11. ASSUME LockNext(a) PROVE SameFor(b)
    BY <1>11, LockEffect DEF SameFor, Moves, LockNext, agv
  <1>12. ASSUME AskHolder(a) PROVE SameFor(b)
    BY <1>12, AskEffect DEF SameFor, Moves, AskHolder, dispatcher, ghosts, agv
  <1>13. ASSUME Extend(a) PROVE SameFor(b)
    BY <1>13, ExtendEffect DEF SameFor, Moves, Extend, ghosts, agv
  <1>14. ASSUME Undo(a) PROVE SameFor(b)
    BY <1>14, UndoEffect DEF SameFor, Moves, Undo, ghosts, agv
  <1>15. QED
    BY <1>1, <1>2, <1>3, <1>4, <1>5, <1>6, <1>7, <1>8, <1>9, <1>10, <1>11, <1>12, <1>13, <1>14
      DEF Acts, HandlerStep

\* Neither the list of another AGV's task nor whether a lock was refused to it changes.
LEMMA OthersTask ==
    ASSUME Typed, Listed, NEW a \in Agvs, Acts(a), NEW b \in Agvs, b # a, NEW u \in TaskIds, Has(b, u)
    PROVE  lockList'[u] = lockList[u] /\ (u \in refused' <=> u \in refused)
  <1> DEFINE Good == lockList'[u] = lockList[u] /\ (u \in refused' <=> u \in refused)
  <1>1. u # handler[a].task /\ u \in scheduled
    BY DEF Listed, OneOwner, Has
  <1>2. ASSUME NEW t \in TaskIds, Schedule(a, t) PROVE Good
    BY <1>1, <1>2, ScheduleEffect DEF Schedule
  <1>3. ASSUME Move(a) \/ Stop(a) \/ LoseReport(a) \/ End(a) PROVE Good
    BY <1>3 DEF Move, Stop, LoseReport, End, dispatcher, ghosts
  <1>4. ASSUME FinishTask(a) \/ ReleaseAll(a) \/ Read(a) \/ AskHolder(a) PROVE Good
    BY <1>4 DEF FinishTask, ReleaseAll, Read, AskHolder, dispatcher, ghosts
  <1>5. ASSUME ReleaseNode(a) PROVE Good
    <2>1. UNCHANGED refused
      BY <1>5 DEF ReleaseNode, ghosts
    <2>2. \/ UNCHANGED <<user, lockList>>
          \/ handler[a].task \in TaskIds /\ Left(a, handler[a].task, reported[a].node)
      BY <1>5, NodeEffect
    <2>3. QED
      BY <1>1, <2>1, <2>2 DEF Left
  <1>6. ASSUME ReleaseEdge(a) PROVE Good
    <2>1. UNCHANGED refused
      BY <1>6 DEF ReleaseEdge, ghosts
    <2>2. QED
      BY <1>1, <1>6, <2>1, EdgeLists, ListedParts
  <1>7. ASSUME LockNext(a) PROVE Good
    BY <1>1, <1>7, LockEffect DEF LockNext
  <1>8. ASSUME Extend(a) PROVE Good
    BY <1>1, <1>8, ExtendEffect DEF Extend, ghosts
  <1>9. ASSUME Undo(a) PROVE Good
    BY <1>9 DEF Undo, ghosts
  <1> HIDE DEF Good
  <1>10. Good
    BY <1>2, <1>3, <1>4, <1>5, <1>6, <1>7, <1>8, <1>9 DEF Acts, HandlerStep
  <1>11. QED
    BY <1>10 DEF Good

\* No lock of another AGV is taken or given back.
LEMMA OthersLocks ==
    ASSUME Typed, Listed, NEW a \in Agvs, Acts(a), NEW b \in Agvs, b # a, NEW r \in Resources
    PROVE  user'[r] = b <=> user[r] = b
  <1> DEFINE Good == user'[r] = b <=> user[r] = b
  <1>1. user \in [Resources -> Agvs \cup {NoAgv}]
    BY DEF Typed, TypeOK
  <1>2. ASSUME NEW t \in TaskIds, Schedule(a, t) PROVE Good
    <2>1. /\ \A i \in DOMAIN First(t) : user[First(t)[i]] = NoAgv
          /\ user' = [x \in Resources |-> IF \E i \in DOMAIN First(t) : First(t)[i] = x THEN a ELSE user[x]]
      BY <1>2, ScheduleEffect
    <2>2. CASE \E i \in DOMAIN First(t) : First(t)[i] = r
      <3>1. user'[r] = a /\ user[r] = NoAgv
        BY <2>1, <2>2
      <3>2. QED
        BY <3>1
    <2>3. CASE ~\E i \in DOMAIN First(t) : First(t)[i] = r
      BY <2>1, <2>3
    <2>4. QED
      BY <2>2, <2>3
  <1>3. ASSUME Move(a) \/ Stop(a) \/ LoseReport(a) \/ End(a) \/ FinishTask(a) \/ Read(a) \/ AskHolder(a) \/ Extend(a)
        PROVE  Good
    BY <1>3 DEF Move, Stop, LoseReport, End, FinishTask, Read, AskHolder, Extend, dispatcher
  <1>4. ASSUME ReleaseAll(a) PROVE Good
    BY <1>4, ReleaseAllEffect
  <1>5. ASSUME NEW t, NEW x, Left(a, t, x) PROVE Good
    BY <1>5 DEF Left
  <1>6. ASSUME ReleaseNode(a) PROVE Good
    <2>1. UNCHANGED user \/ Left(a, handler[a].task, reported[a].node)
      BY <1>6, NodeEffect
    <2>2. QED
      BY <1>5, <2>1
  <1>7. ASSUME ReleaseEdge(a) PROVE Good
    <2>1. \A t \in TaskIds : t = handler[a].task => NextResources(t, lockList'[t]) \in Seq(Resources)
      BY <1>7, EdgeLists, ListedParts
    <2>2. UNCHANGED user \/ Left(a, handler[a].task, reported[a].edge)
      BY <1>7, <2>1, EdgeEffect
    <2>3. QED
      BY <1>5, <2>2
  <1>8. ASSUME LockNext(a) PROVE Good
    <2>1. PICK x \in Resources : UNCHANGED user \/ (user[x] = NoAgv /\ user' = [user EXCEPT ![x] = a])
      BY <1>8, LockEffect
    <2>2. QED
      BY <1>1, <2>1
  <1>9. ASSUME Undo(a) PROVE Good
    BY <1>9, UndoEffect
  <1> HIDE DEF Good
  <1>10. Good
    BY <1>2, <1>3, <1>4, <1>6, <1>7, <1>8, <1>9 DEF Acts, HandlerStep
  <1>11. QED
    BY <1>10 DEF Good

-----------------------------------------------------------------------------
(* Locks, where a task ends when the reports on their way are handled (Calm) *)

LEMMA NextActs == ASSUME Next PROVE \E a \in Agvs : Acts(a)
  BY DEF Next, Acts

\* An AGV that has something to do or to say has a task.
LEMMA Busy ==
    ASSUME NEW a \in Agvs, CycleOf(a), ~Resting(a)
    PROVE  current[a] # NoTask /\ ending[a] = <<>>
  BY DEF CycleOf

LEMMA CycleInit == Init => Cycle
  BY NoWorkWhole DEF Init, Cycle, CycleOf, Resting

LEMMA CycleStep ==
    ASSUME Calm, Typed, Listed, Cycle, [Next]_vars
    PROVE  Cycle'
  <1>1. ASSUME NEW a \in Agvs, Acts(a) PROVE CycleOf(a)'
    <2>1. CycleOf(a)
      BY DEF Cycle
    <2> DEFINE Good == CycleOf(a)'
    <2>2. ASSUME NEW t \in TaskIds, Schedule(a, t) PROVE Good
      <3>1. /\ current[a] = NoTask /\ current'[a] = t /\ order'[a] = t /\ t # NoTask
            /\ UNCHANGED <<handler, ending>> /\ ending[a] = <<>>
        BY <2>2, ScheduleEffect DEF Only, Schedule
      <3>2. QED
        BY <2>1, <3>1 DEF CycleOf, Resting
    <2>3. ASSUME Move(a) PROVE Good
      <3>1. order[a] # NoTask /\ UNCHANGED <<current, handler, ending, order>>
        BY <2>3 DEF Move, dispatcher
      <3>2. QED
        BY <2>1, <3>1 DEF CycleOf, Resting
    <2>4. ASSUME Stop(a) PROVE Good
      <3>1. order[a] # NoTask /\ order'[a] = NoTask /\ UNCHANGED <<current, handler, ending>>
        BY <2>4, StopEffect DEF Stop, dispatcher, Only
      <3>2. QED
        BY <2>1, <3>1 DEF CycleOf, Resting
    <2>5. ASSUME LoseReport(a) PROVE Good
      <3>1. inbox[a] # <<>> /\ UNCHANGED <<current, handler, ending, order>>
        BY <2>5 DEF LoseReport, dispatcher, agv
      <3>2. QED
        BY <2>1, <3>1 DEF CycleOf, Resting
    <2>6. ASSUME End(a) PROVE Good
      <3>1. /\ UNCHANGED <<current, handler, inbox, order>> /\ current[a] # NoTask /\ order[a] = NoTask
            /\ inbox[a] = <<>> /\ handler[a].pc = "idle" /\ ending'[a] \in EndSteps
        BY <2>6, EndEffect DEF End, dispatcher, agv, Only
      <3>2. ending'[a] # <<"release">>
        BY <3>1 DEF EndSteps
      <3>3. QED
        BY <2>1, <3>1, <3>2 DEF CycleOf, Resting
    <2>7. ASSUME FinishTask(a) PROVE Good
      <3>1. /\ UNCHANGED <<handler, inbox, order>> /\ ending[a] \in {<<"finish", "release">>, <<"finish">>}
            /\ current'[a] = NoTask /\ ending'[a] = Tail(ending[a])
        BY <2>7, FinishEffect DEF FinishTask, agv, Only
      <3>2. ending[a] # <<>> /\ ending'[a] \in {<<>>, <<"release">>}
        <4>1. ending[a] \in Endings /\ ending[a] # <<>>
          BY <2>7 DEF Typed, FinishTask
        <4>2. QED
          BY <3>1, <4>1, EndingTails
      <3>3. QED
        BY <2>1, <3>1, <3>2 DEF CycleOf, Resting
    <2>8. ASSUME ReleaseAll(a) PROVE Good
      <3>1. /\ UNCHANGED <<current, handler, inbox, order>> /\ ending[a] \in {<<"release", "finish">>, <<"release">>}
            /\ ending'[a] = Tail(ending[a])
        BY <2>8, ReleaseAllEffect DEF ReleaseAll, agv, Only
      <3>2. \/ ending[a] = <<"release", "finish">> /\ ending'[a] = <<"finish">>
            \/ ending[a] = <<"release">> /\ ending'[a] = <<>>
        <4>1. ending[a] \in Endings /\ ending[a] # <<>>
          BY <2>8 DEF Typed, ReleaseAll
        <4>2. QED
          BY <3>1, <4>1, EndingTails
      <3>3. ending[a] # <<>> /\ <<"release", "finish">> # <<"release">> /\ <<"finish">> # <<"release">>
        BY <3>1
      <3>4. QED
        BY <2>1, <3>1, <3>2, <3>3 DEF CycleOf, Resting
    <2>9. ASSUME Read(a) PROVE Good
      <3>1. inbox[a] # <<>> /\ handler'[a].task = current[a]
            /\ UNCHANGED <<current, order, ending>>
        BY <2>9, ReadEffect DEF Read, dispatcher, agv
      <3>2. current[a] # NoTask /\ ending[a] = <<>>
        BY <2>1, <3>1, Busy DEF Resting
      <3>3. QED
        BY <2>1, <3>1, <3>2 DEF CycleOf
    <2>10. ASSUME UNCHANGED <<current, order, ending>>, handler[a].pc # "idle",
                  handler'[a].pc = "idle" \/ handler'[a].task = handler[a].task
           PROVE  Good
      BY <2>1, <2>10, Busy DEF CycleOf, Resting
    <2>11. ASSUME ReleaseNode(a) PROVE Good
      <3>1. handler[a].pc = "node" /\ handler'[a].task = handler[a].task
        BY <2>11, NodeEffect
      <3>2. QED
        BY <2>10, <2>11, <3>1 DEF ReleaseNode, agv
    <2>12. ASSUME ReleaseEdge(a) PROVE Good
      <3>1. \A t \in TaskIds : t = handler[a].task => NextResources(t, lockList'[t]) \in Seq(Resources)
        BY <2>12, EdgeLists, ListedParts
      <3>2. handler[a].pc = "edge" /\ (handler'[a] = NoWork \/ handler'[a].task = handler[a].task)
        BY <2>12, <3>1, EdgeEffect
      <3>3. QED
        BY <2>10, <2>12, <3>2, NoWorkWhole DEF ReleaseEdge, agv
    <2>13. ASSUME LockNext(a) PROVE Good
      <3>1. handler[a].pc = "lock" /\ handler'[a].task = handler[a].task
        BY <2>13, LockEffect
      <3>2. QED
        BY <2>10, <2>13, <3>1 DEF LockNext, agv
    <2>14. ASSUME AskHolder(a) PROVE Good
      <3>1. handler[a].pc = "ask" /\ handler'[a].task = handler[a].task
        BY <2>14, AskEffect
      <3>2. QED
        BY <2>10, <2>14, <3>1 DEF AskHolder, agv, dispatcher
    <2>15. ASSUME Extend(a) PROVE Good
      <3>1. handler[a].pc = "lock" /\ handler'[a] = NoWork
        BY <2>15, ExtendEffect
      <3>2. QED
        BY <2>10, <2>15, <3>1, NoWorkWhole DEF Extend, agv
    <2>16. ASSUME Undo(a) PROVE Good
      <3>1. handler[a].pc = "undo" /\ (handler'[a] = NoWork \/ handler'[a].task = handler[a].task)
        BY <2>16, UndoEffect
      <3>2. QED
        BY <2>10, <2>16, <3>1, NoWorkWhole DEF Undo, agv
    <2> HIDE DEF Good
    <2>17. Good
      BY <1>1, <2>2, <2>3, <2>4, <2>5, <2>6, <2>7, <2>8, <2>9, <2>11, <2>12, <2>13, <2>14, <2>15, <2>16
        DEF Acts, HandlerStep
    <2>18. QED
      BY <2>17 DEF Good
  <1>2. ASSUME NEW a \in Agvs, Acts(a), NEW b \in Agvs, b # a PROVE CycleOf(b)'
    <2>1. SameFor(b) /\ CycleOf(b)
      BY <1>2, OthersSame DEF Cycle
    <2>2. QED
      BY <2>1 DEF SameFor, CycleOf, Resting
  <1>3. CASE Next
    BY <1>1, <1>2, <1>3, NextActs DEF Cycle
  <1>4. CASE UNCHANGED vars
    <2>1. UNCHANGED <<current, inbox, handler, ending, order>>
      BY <1>4 DEF vars, dispatcher, agv
    <2>2. QED
      BY <2>1 DEF Cycle, CycleOf, Resting
  <1>5. QED
    BY <1>3, <1>4

LEMMA HeldInit == Init => Held
  <1> SUFFICES ASSUME Init, NEW a \in Agvs PROVE HeldBy(a)
    BY DEF Held
  <1>1. handler[a].locked = <<>> /\ current[a] = NoTask
    BY NoWorkWhole DEF Init
  <1>2. \A r \in Resources : user[r] # a
    BY DEF Init
  <1>3. QED
    BY <1>1, <1>2, InNothing DEF HeldBy

\* While an AGV has a task that is not about to end.
LEMMA HeldUse ==
    ASSUME NEW a \in Agvs, HeldBy(a), NEW t \in TaskIds, current[a] = t, ending[a] = <<>>
    PROVE  \A x \in Resources : /\ InSeq(handler[a].locked, x) => user[x] = a
                                /\ InSeq(lockList[t], x) => user[x] = a
                                /\ user[x] = a => InSeq(lockList[t], x) \/ InSeq(handler[a].locked, x)
  <1>1. current[a] # NoTask
    OBVIOUS
  <1>2. QED
    BY <1>1 DEF HeldBy

LEMMA HeldAgain ==
    ASSUME NEW a \in Agvs, NEW t \in TaskIds, current'[a] = t, ending'[a] = <<>>,
           \A x \in Resources : /\ InSeq(handler'[a].locked, x) => user'[x] = a
                                /\ InSeq(lockList'[t], x) => user'[x] = a
                                /\ user'[x] = a => InSeq(lockList'[t], x) \/ InSeq(handler'[a].locked, x)
    PROVE  HeldBy(a)'
  <1>1. current'[a] # NoTask /\ ending'[a] # <<"finish">>
    OBVIOUS
  <1>2. QED
    BY <1>1, Zenon DEF HeldBy

\* A resource that is taken out is neither in the list any more nor held.
LEMMA LeftHeld ==
    ASSUME Typed, Listed, NEW a \in Agvs, CycleOf(a), HeldBy(a), NEW r,
           handler[a].pc \in {"node", "edge"}, handler[a].task \in TaskIds, Left(a, handler[a].task, r),
           handler'[a].locked = <<>>, current'[a] = current[a], ending'[a] = ending[a]
    PROVE  HeldBy(a)'
  <1>1. PICK t \in TaskIds : t = handler[a].task
    OBVIOUS
  <1>2. current[a] = t /\ ending[a] = <<>> /\ handler[a].locked = <<>>
    BY <1>1, Busy, HandlerParts DEF CycleOf, Resting
  <1>3. Left(a, t, r) /\ Lists
    BY <1>1, ListedParts
  <1>4. ASSUME NEW x \in Resources
        PROVE  /\ InSeq(handler'[a].locked, x) => user'[x] = a
               /\ InSeq(lockList'[t], x) => user'[x] = a
               /\ user'[x] = a => InSeq(lockList'[t], x) \/ InSeq(handler'[a].locked, x)
    <2>1. ~InSeq(handler[a].locked, x) /\ ~InSeq(handler'[a].locked, x)
      BY <1>2, InNothing
    <2>2. (InSeq(lockList[t], x) => user[x] = a) /\ (user[x] = a => InSeq(lockList[t], x))
      BY <1>2, <2>1, HeldUse
    <2>3. user'[x] = IF x = r /\ user[x] = a THEN NoAgv ELSE user[x]
      BY <1>3 DEF Left
    <2>4. user'[x] = a <=> user[x] = a /\ x # r
      BY <2>3
    <2>5. InSeq(lockList'[t], x) <=> x # r /\ InSeq(lockList[t], x)
      BY <1>3, LeftAlong
    <2>6. QED
      BY <2>1, <2>2, <2>4, <2>5
  <1>5. current'[a] = t /\ ending'[a] = <<>>
    BY <1>2
  <1>6. QED
    BY <1>4, <1>5, HeldAgain

\* Steps that leave the locks, the list and what was locked as they are.
LEMMA SameHeld ==
    ASSUME Typed, NEW a \in Agvs, HeldBy(a), UNCHANGED <<user, lockList>>, handler'[a].locked = handler[a].locked,
           current'[a] = current[a], ending'[a] = ending[a]
    PROVE  HeldBy(a)'
  BY DEF HeldBy

LEMMA HeldOwn ==
    ASSUME Calm, Typed, Listed, NEW a \in Agvs, Acts(a), CycleOf(a), HeldBy(a)
    PROVE  HeldBy(a)'
  <1> DEFINE Good == HeldBy(a)'
  <1>1. ASSUME NEW t \in TaskIds, Schedule(a, t) PROVE Good
    <2>1. /\ current[a] = NoTask /\ ending[a] = <<>> /\ UNCHANGED <<handler, ending>> /\ current'[a] = t /\ t # NoTask
          /\ user' = [r \in Resources |-> IF \E i \in DOMAIN First(t) : First(t)[i] = r THEN a ELSE user[r]]
          /\ lockList'[t] = First(t)
      BY <1>1, ScheduleEffect DEF Schedule, Only
    <2>2. handler[a].locked = <<>>
      BY <2>1, HandlerParts DEF CycleOf, Resting
    <2>3. \A r \in Resources : user[r] # a
      BY <2>1 DEF HeldBy
    <2>4. \A r \in Resources : user'[r] = a <=> InSeq(lockList'[t], r)
      BY <2>1, <2>3 DEF InSeq
    <2>5. \A x \in Resources : ~InSeq(handler'[a].locked, x)
      BY <2>1, <2>2, InNothing
    <2>6. ending'[a] = <<>> /\ <<>> # <<"finish">>
      BY <2>1
    <2>7. QED
      BY <2>1, <2>4, <2>5, <2>6 DEF HeldBy
  <1>2. ASSUME Move(a) \/ Stop(a) \/ LoseReport(a) PROVE Good
    BY <1>2, SameHeld DEF Move, Stop, LoseReport, dispatcher
  <1>3. ASSUME End(a) PROVE Good
    <2>1. /\ UNCHANGED <<user, handler, current>> /\ current[a] # NoTask /\ ending'[a] \in EndSteps
      BY <1>3, EndEffect DEF End, dispatcher, Only
    <2>2. ending'[a] # <<>> /\ ending'[a] # <<"finish">>
      BY <2>1 DEF EndSteps
    <2>3. QED
      BY <2>1, <2>2 DEF HeldBy
  <1>4. ASSUME FinishTask(a) PROVE Good
    <2>1. /\ UNCHANGED <<user, handler>> /\ ending[a] \in {<<"finish", "release">>, <<"finish">>}
          /\ current'[a] = NoTask /\ ending'[a] = Tail(ending[a]) /\ ending[a] # <<>> /\ ending[a] \in Endings
      BY <1>4, FinishEffect DEF FinishTask, agv, Only, Typed
    <2>2. \/ ending'[a] = <<"release">>
          \/ ending'[a] = <<>> /\ ending[a] = <<"finish">>
      BY <2>1, EndingTails
    <2>3. <<"release">> # <<>> /\ <<"release">> # <<"finish">>
      OBVIOUS
    <2>4. QED
      BY <2>1, <2>2, <2>3 DEF HeldBy
  <1>5. ASSUME ReleaseAll(a) PROVE Good
    <2>1. /\ UNCHANGED <<handler, current>> /\ ending[a] \in {<<"release", "finish">>, <<"release">>}
          /\ ending'[a] = Tail(ending[a]) /\ ending[a] # <<>> /\ ending[a] \in Endings
          /\ user' = [r \in Resources |-> IF user[r] = a THEN NoAgv ELSE user[r]]
      BY <1>5, ReleaseAllEffect DEF ReleaseAll, Only, Typed
    <2>2. \/ ending'[a] = <<"finish">>
          \/ ending'[a] = <<>> /\ ending[a] = <<"release">>
      BY <2>1, EndingTails
    <2>3. \A r \in Resources : user'[r] # a
      BY <2>1
    <2>4. handler[a].locked = <<>>
      BY <2>1, HandlerParts DEF CycleOf, Resting
    <2>5. \A x \in Resources : ~InSeq(handler'[a].locked, x)
      BY <2>1, <2>4, InNothing
    <2>6. ending'[a] = <<>> => current'[a] = NoTask
      <3>1. <<"finish">> # <<>>
        OBVIOUS
      <3>2. QED
        BY <2>1, <2>2, <3>1 DEF CycleOf
    <2>7. QED
      BY <2>3, <2>5, <2>6 DEF HeldBy
  <1>6. ASSUME Read(a) PROVE Good
    <2>1. handler[a].pc = "idle" /\ handler'[a].locked = <<>> /\ UNCHANGED <<user, lockList, current, ending>>
      BY <1>6, ReadEffect DEF Read, dispatcher
    <2>2. handler[a].locked = <<>>
      BY <2>1, HandlerParts
    <2>3. QED
      BY <2>1, <2>2, SameHeld
  <1>7. ASSUME ReleaseNode(a) PROVE Good
    <2>1. /\ handler[a].pc = "node" /\ handler'[a].locked = <<>> /\ UNCHANGED <<current, ending>>
          /\ \/ UNCHANGED <<user, lockList>>
             \/ handler[a].task \in TaskIds /\ Left(a, handler[a].task, reported[a].node)
      BY <1>7, NodeEffect DEF ReleaseNode
    <2>2. handler[a].locked = <<>>
      BY <2>1, HandlerParts
    <2>3. QED
      BY <2>1, <2>2, SameHeld, LeftHeld
  <1>8. ASSUME ReleaseEdge(a) PROVE Good
    <2>1. \A t \in TaskIds : t = handler[a].task => NextResources(t, lockList'[t]) \in Seq(Resources)
      BY <1>8, EdgeLists, ListedParts
    <2>2. /\ handler[a].pc = "edge" /\ (handler'[a] = NoWork \/ handler'[a].locked = <<>>)
          /\ \/ UNCHANGED <<user, lockList>>
             \/ handler[a].task \in TaskIds /\ Left(a, handler[a].task, reported[a].edge)
      BY <1>8, <2>1, EdgeEffect
    <2>3. handler[a].locked = <<>> /\ handler'[a].locked = <<>> /\ UNCHANGED <<current, ending>>
      BY <1>8, <2>2, HandlerParts, NoWorkWhole DEF ReleaseEdge
    <2>4. QED
      BY <2>2, <2>3, SameHeld, LeftHeld
  <1>9. ASSUME LockNext(a) PROVE Good
    <2>1. UNCHANGED <<lockList, current, ending>>
      BY <1>9 DEF LockNext
    <2>2. PICK r \in Resources :
             \/ /\ user[r] = NoAgv /\ user' = [user EXCEPT ![r] = a]
                /\ handler'[a].locked = Append(handler[a].locked, r)
             \/ UNCHANGED user /\ handler'[a].locked = handler[a].locked
      BY <1>9, LockEffect
    <2>3. CASE UNCHANGED user /\ handler'[a].locked = handler[a].locked
      BY <2>1, <2>3, SameHeld
    <2>4. CASE /\ user[r] = NoAgv /\ user' = [user EXCEPT ![r] = a]
               /\ handler'[a].locked = Append(handler[a].locked, r)
      <3>1. PICK l, m \in Seq(Resources) : l = handler[a].locked /\ m = Append(handler[a].locked, r)
        BY HandlerParts, AppendProperties
      <3>2. l \in Seq(Resources)
        BY <3>1, HandlerParts
      <3>3. \A x : InSeq(m, x) <=> x = r \/ InSeq(l, x)
        <4>1. /\ Len(l) \in Nat /\ DOMAIN l = 1..Len(l) /\ Len(m) = Len(l) + 1 /\ DOMAIN m = 1..Len(m)
              /\ m[Len(l) + 1] = r /\ \A i \in 1..Len(l) : m[i] = l[i]
          BY <3>1, <3>2, LenProperties, AppendProperties
        <4>2. DOMAIN m = DOMAIN l \cup {Len(l) + 1}
          BY <4>1
        <4>3. \A i \in DOMAIN l : m[i] = l[i]
          BY <4>1
        <4>4. QED
          BY <4>1, <4>2, <4>3, Zenon DEF InSeq
      <3>4. \A x \in Resources : InSeq(handler'[a].locked, x) <=> x = r \/ InSeq(handler[a].locked, x)
        BY <2>4, <3>1, <3>3
      <3>5. \A x \in Resources : user'[x] = a <=> x = r \/ user[x] = a
        <4>1. user \in [Resources -> Agvs \cup {NoAgv}]
          BY DEF Typed, TypeOK
        <4>2. QED
          BY <2>4, <4>1
      <3>6. PICK t \in TaskIds : t = current[a] /\ ending[a] = <<>>
        <4>1. handler[a].pc = "lock"
          BY <1>9 DEF LockNext
        <4>2. current[a] # NoTask /\ ending[a] = <<>>
          BY <4>1, Busy DEF Resting
        <4>3. QED
          BY <4>2 DEF Typed, TypeOK
      <3>7. ASSUME NEW x \in Resources
            PROVE  /\ InSeq(handler'[a].locked, x) => user'[x] = a
                   /\ InSeq(lockList'[t], x) => user'[x] = a
                   /\ user'[x] = a => InSeq(lockList'[t], x) \/ InSeq(handler'[a].locked, x)
        <4>1. /\ InSeq(handler[a].locked, x) => user[x] = a
              /\ InSeq(lockList[t], x) => user[x] = a
              /\ user[x] = a => InSeq(lockList[t], x) \/ InSeq(handler[a].locked, x)
          BY <3>6, HeldUse
        <4>2. lockList'[t] = lockList[t]
          BY <2>1
        <4>3. QED
          BY <3>4, <3>5, <4>1, <4>2
      <3>8. current'[a] = t /\ ending'[a] = <<>>
        BY <2>1, <3>6
      <3>9. QED
        BY <3>7, <3>8, HeldAgain
    <2>5. QED
      BY <2>2, <2>3, <2>4
  <1>10. ASSUME AskHolder(a) PROVE Good
    BY <1>10, AskEffect, SameHeld DEF AskHolder, dispatcher
  <1>11. ASSUME Extend(a) PROVE Good
    <2>1. PICK t \in TaskIds :
             /\ handler[a].pc = "lock" /\ handler[a].todo = <<>> /\ handler[a].task = t
             /\ handler'[a] = NoWork /\ lockList'[t] = lockList[t] \o handler[a].locked
      BY <1>11, ExtendEffect
    <2>2. UNCHANGED <<user, current, ending>>
      BY <1>11 DEF Extend
    <2>3. current[a] = t /\ ending[a] = <<>>
      BY <2>1, Busy DEF CycleOf, Resting
    <2>4. PICK s, l \in Seq(Resources) : s = lockList[t] /\ l = handler[a].locked
      BY HandlerParts DEF Typed, TypeOK
    <2>5. Work(a) = l
      BY <2>1, <2>4, ListMoves DEF Work
    <2>6. Along(t, s) /\ Along(t, l) /\ Ahead(t, s, l)
      BY <2>1, <2>4, <2>5 DEF Continues, Listed
    <2>7. \A x : InSeq(s \o l, x) <=> InSeq(s, x) \/ InSeq(l, x)
      BY <2>6, ConcatAlong
    <2>8. \A x \in Resources : InSeq(lockList'[t], x) <=> InSeq(lockList[t], x) \/ InSeq(handler[a].locked, x)
      BY <2>1, <2>4, <2>7
    <2>9. \A x \in Resources : ~InSeq(handler'[a].locked, x)
      BY <2>1, NoWorkWhole, InNothing
    <2>10. ASSUME NEW x \in Resources
           PROVE  /\ InSeq(handler'[a].locked, x) => user'[x] = a
                  /\ InSeq(lockList'[t], x) => user'[x] = a
                  /\ user'[x] = a => InSeq(lockList'[t], x) \/ InSeq(handler'[a].locked, x)
      <3>1. /\ InSeq(handler[a].locked, x) => user[x] = a
            /\ InSeq(lockList[t], x) => user[x] = a
            /\ user[x] = a => InSeq(lockList[t], x) \/ InSeq(handler[a].locked, x)
        BY <2>3, HeldUse
      <3>2. QED
        BY <2>2, <2>8, <2>9, <3>1
    <2>11. ending'[a] = <<>> /\ current'[a] = t
      BY <2>2, <2>3
    <2>12. QED
      BY <2>10, <2>11, HeldAgain
  <1>12. ASSUME Undo(a) PROVE Good
    <2>1. UNCHANGED <<lockList, current, ending>>
      BY <1>12 DEF Undo
    <2>2. CASE handler[a].locked = <<>> /\ handler'[a] = NoWork /\ UNCHANGED user
      BY <2>1, <2>2, SameHeld, NoWorkWhole
    <2>3. CASE /\ handler[a].locked # <<>> /\ handler'[a].locked = Tail(handler[a].locked)
               /\ user' = [x \in Resources |-> IF x = Head(handler[a].locked) /\ user[x] = a THEN NoAgv ELSE user[x]]
      <3>1. PICK t \in TaskIds, s, l \in Seq(Resources), d \in Seq(Resources) :
               /\ t = handler[a].task /\ s = lockList[t] /\ l = handler[a].locked /\ d = handler[a].todo
        BY <1>12, HandlerParts DEF Undo, Typed, TypeOK
      <3>2. handler[a].pc = "undo"
        BY <1>12 DEF Undo
      <3>3. current[a] = t /\ ending[a] = <<>>
        BY <3>1, <3>2, Busy DEF CycleOf, Resting
      <3>4. Along(t, l \o d) /\ Ahead(t, s, l \o d)
        BY <3>1, <3>2 DEF Listed, Continues, Work
      <3>5. Along(t, l) /\ Ahead(t, s, l)
        BY <3>4, AlongFirstPart
      <3>6. PICK r : r = Head(l)
        OBVIOUS
      <3>7. \A x : InSeq(l, x) <=> x = r \/ InSeq(Tail(l), x)
        <4>1. /\ Len(l) \in Nat /\ DOMAIN l = 1..Len(l) /\ Len(l) >= 1 /\ r = l[1]
              /\ Len(Tail(l)) = Len(l) - 1 /\ DOMAIN Tail(l) = 1..Len(Tail(l))
              /\ \A i \in 1..Len(Tail(l)) : Tail(l)[i] = l[i + 1]
          <5>1. l \in Seq(Resources) /\ l # <<>>
            BY <2>3, <3>1, HandlerParts
          <5>2. Tail(l) \in Seq(Resources) /\ Len(Tail(l)) = Len(l) - 1
                /\ \A i \in 1..Len(Tail(l)) : Tail(l)[i] = l[i + 1]
            BY <5>1, HeadTailProperties
          <5>3. Len(l) \in Nat /\ DOMAIN l = 1..Len(l) /\ DOMAIN Tail(l) = 1..Len(Tail(l)) /\ Len(Tail(l)) \in Nat
            BY <5>1, <5>2, LenProperties
          <5>4. r = l[1]
            BY <3>6, <5>1
          <5>5. QED
            BY <5>1, <5>2, <5>3, <5>4
        <4>2. ASSUME NEW i \in DOMAIN l PROVE l[i] = r \/ \E j \in DOMAIN Tail(l) : Tail(l)[j] = l[i]
          <5>1. CASE i = 1
            BY <4>1, <5>1
          <5>2. CASE i # 1
            <6>1. i - 1 \in 1..Len(Tail(l)) /\ (i - 1) + 1 = i
              BY <4>1, <5>2
            <6>2. Tail(l)[i - 1] = l[i] /\ i - 1 \in DOMAIN Tail(l)
              BY <4>1, <6>1
            <6>3. QED
              BY <6>2
          <5>3. QED
            BY <5>1, <5>2
        <4>3. ASSUME NEW j \in DOMAIN Tail(l) PROVE \E i \in DOMAIN l : l[i] = Tail(l)[j]
          <5>1. j + 1 \in DOMAIN l /\ l[j + 1] = Tail(l)[j]
            BY <4>1
          <5>2. QED
            BY <5>1
        <4>4. \E i \in DOMAIN l : l[i] = r
          BY <4>1
        <4>5. QED
          BY <4>2, <4>3, <4>4, Zenon DEF InSeq
      <3>8. ~InSeq(Tail(l), r)
        <4>1. l \in Seq(Resources) /\ l # <<>>
          BY <2>3, <3>1, HandlerParts
        <4>2. Len(Tail(l)) = Len(l) - 1 /\ \A i \in 1..Len(Tail(l)) : Tail(l)[i] = l[i + 1]
              /\ Tail(l) \in Seq(Resources)
          BY <4>1, HeadTailProperties
        <4>3. Len(l) \in Nat /\ DOMAIN l = 1..Len(l) /\ DOMAIN Tail(l) = 1..Len(Tail(l))
          BY <4>1, <4>2, LenProperties
        <4>4. r = l[1] /\ Distinct(l)
          BY <3>5, <3>6, <4>1, AlongDistinct
        <4>5. ASSUME NEW j \in DOMAIN Tail(l), Tail(l)[j] = r PROVE FALSE
          <5>1. j + 1 \in DOMAIN l /\ 1 \in DOMAIN l /\ l[j + 1] = l[1] /\ j + 1 # 1
            BY <4>2, <4>3, <4>4, <4>5
          <5>2. QED
            BY <4>4, <5>1 DEF Distinct
        <4>6. QED
          BY <4>5 DEF InSeq
      <3>9. ~InSeq(lockList[t], r)
        <4>1. ASSUME NEW i \in DOMAIN s, s[i] = r PROVE FALSE
          <5>1. \E j \in DOMAIN l : l[j] = r
            BY <3>7 DEF InSeq
          <5>2. PICK j \in DOMAIN l : l[j] = r
            BY <5>1
          <5>3. Index(t, s[i]) < Index(t, l[j]) /\ Index(t, l[j]) \in 1..Len(Route[t])
            BY <3>5, AlongDistinct DEF Ahead
          <5>4. Index(t, r) < Index(t, r) /\ Index(t, r) \in Nat
            BY <4>1, <5>2, <5>3, RouteFacts
          <5>5. QED
            BY <5>4
        <4>2. QED
          BY <3>1, <4>1 DEF InSeq
      <3>10. \A x \in Resources : InSeq(handler'[a].locked, x) <=> InSeq(handler[a].locked, x) /\ x # r
        BY <2>3, <3>1, <3>7, <3>8
      <3>11. \A x \in Resources : user'[x] = a <=> user[x] = a /\ x # r
        <4>1. \A x \in Resources : user'[x] = IF x = r /\ user[x] = a THEN NoAgv ELSE user[x]
          BY <2>3, <3>1, <3>6
        <4>2. QED
          BY <4>1
      <3>12. \A x \in Resources : InSeq(lockList'[t], x) <=> InSeq(lockList[t], x)
        BY <2>1
      <3>13. ASSUME NEW x \in Resources
             PROVE  /\ InSeq(handler'[a].locked, x) => user'[x] = a
                    /\ InSeq(lockList'[t], x) => user'[x] = a
                    /\ user'[x] = a => InSeq(lockList'[t], x) \/ InSeq(handler'[a].locked, x)
        <4>1. /\ InSeq(handler[a].locked, x) => user[x] = a
              /\ InSeq(lockList[t], x) => user[x] = a
              /\ user[x] = a => InSeq(lockList[t], x) \/ InSeq(handler[a].locked, x)
          BY <3>3, HeldUse
        <4>2. QED
          BY <3>9, <3>10, <3>11, <3>12, <4>1
      <3>14. current'[a] = t /\ ending'[a] = <<>>
        BY <2>1, <3>3
      <3>15. QED
        BY <3>13, <3>14, HeldAgain
    <2>4. QED
      BY <1>12, <2>2, <2>3, UndoEffect
  <1> HIDE DEF Good
  <1>13. Good
    BY <1>1, <1>2, <1>3, <1>4, <1>5, <1>6, <1>7, <1>8, <1>9, <1>10, <1>11, <1>12 DEF Acts, HandlerStep
  <1>14. QED
    BY <1>13 DEF Good

LEMMA HeldStep ==
    ASSUME Calm, Typed, Listed, Cycle, Held, [Next]_vars
    PROVE  Held'
  <1>1. ASSUME NEW a \in Agvs, Acts(a) PROVE HeldBy(a)'
    BY <1>1, HeldOwn DEF Cycle, Held
  <1>2. ASSUME NEW a \in Agvs, Acts(a), NEW b \in Agvs, b # a PROVE HeldBy(b)'
    <2>1. SameFor(b) /\ HeldBy(b)
      BY <1>2, OthersSame DEF Held
    <2>2. \A r \in Resources : user'[r] = b <=> user[r] = b
      BY <1>2, OthersLocks
    <2>3. \A r \in Resources : InSeq(handler'[b].locked, r) <=> InSeq(handler[b].locked, r)
      BY <2>1 DEF SameFor
    <2>4. ASSUME current[b] # NoTask
          PROVE  \A r \in Resources : InSeq(lockList'[current'[b]], r) <=> InSeq(lockList[current[b]], r)
      <3>1. PICK t \in TaskIds : t = current[b]
        BY <2>4 DEF Typed, TypeOK
      <3>2. lockList'[t] = lockList[t]
        BY <1>2, <3>1, OthersTask DEF Has
      <3>3. current'[b] = t
        BY <2>1, <3>1 DEF SameFor
      <3>4. QED
        BY <3>1, <3>2, <3>3
    <2>5. QED
      BY <2>1, <2>2, <2>3, <2>4 DEF SameFor, HeldBy
  <1>3. CASE Next
    BY <1>1, <1>2, <1>3, NextActs DEF Held
  <1>4. CASE UNCHANGED vars
    <2>1. UNCHANGED <<user, lockList, current, handler, ending>>
      BY <1>4 DEF vars, dispatcher
    <2>2. QED
      BY <2>1 DEF Held, HeldBy
  <1>5. QED
    BY <1>3, <1>4

\* Where a task ends when the reports on their way are handled, the list of an AGV's
\* task is what the AGV holds, in both directions, whatever the others do: no other
\* AGV is let onto it, and a refused attempt leaves nothing behind.
THEOREM ListsExact ==
    ASSUME Calm
    PROVE  Spec => []ListIsExact
  <1>1. Init => Typed /\ Listed /\ Cycle /\ Held
    BY TypedInit, ListedInit, CycleInit, HeldInit
  <1>2. Typed /\ Listed /\ Cycle /\ Held /\ [Next]_vars => (Typed /\ Listed /\ Cycle /\ Held)'
    BY TypedStep, ListedStep, ListedParts, CycleStep, HeldStep
  <1>3. Held => ListIsExact
    <2> SUFFICES ASSUME Held, NEW a \in Agvs, NEW r \in Resources, current[a] # NoTask, ending[a] = <<>>
                 PROVE  /\ InList(current[a], r) => user[r] = a
                        /\ user[r] = a => InList(current[a], r) \/ \E i \in DOMAIN handler[a].locked : handler[a].locked[i] = r
      BY DEF ListIsExact
    <2>1. /\ InSeq(lockList[current[a]], r) => user[r] = a
          /\ user[r] = a => InSeq(lockList[current[a]], r) \/ InSeq(handler[a].locked, r)
      BY DEF Held, HeldBy
    <2>2. QED
      BY <2>1 DEF InSeq, InList
  <1>4. QED
    BY <1>1, <1>2, <1>3, PTL DEF Spec

-----------------------------------------------------------------------------
(* Reports of the node reached last and the edge, and the window at them *)

LEMMA StandardFacts ==
    ASSUME NEW t \in TaskIds, NEW i \in 1..Len(Route[t])
    PROVE  /\ NodeBefore(i) \in 1..Len(Route[t]) /\ NodeBefore(i) <= i
           /\ i % 2 = 1 => NodeBefore(i) = i /\ StandardReport(t, i) = [node |-> Route[t][i], edge |-> None]
           /\ i % 2 # 1 => /\ i - 1 \in 1..Len(Route[t]) /\ NodeBefore(i) = i - 1
                           /\ StandardReport(t, i) = [node |-> Route[t][i - 1], edge |-> Route[t][i]]
           /\ StandardReport(t, i) \in Reports
           /\ StandardReport(t, i).node = Route[t][NodeBefore(i)]
           /\ StandardReport(t, i).node \in Resources /\ StandardReport(t, i) # Nowhere
           /\ Index(t, StandardReport(t, i).node) = NodeBefore(i)
  <1>1. Len(Route[t]) \in Nat /\ i \in Nat /\ 1 <= i /\ i <= Len(Route[t]) /\ i \in 0..Len(Route[t])
    BY RouteFacts
  <1>2. i % 2 \in {0, 1} /\ (i % 2 # 1 => i % 2 = 0 /\ i # 1)
    BY <1>1
  <1>3. /\ i % 2 = 1 => NodeBefore(i) = i
        /\ i % 2 # 1 => NodeBefore(i) = i - 1 /\ i - 1 \in 1..Len(Route[t])
    BY <1>1, <1>2 DEF NodeBefore
  <1>4. NodeBefore(i) \in 1..Len(Route[t]) /\ NodeBefore(i) <= i
    BY <1>1, <1>3
  <1>5. /\ Route[t][NodeBefore(i)] \in Resources /\ Index(t, Route[t][NodeBefore(i)]) = NodeBefore(i)
    BY <1>4, RouteFacts
  <1>6. StandardReport(t, i) = [node |-> Route[t][NodeBefore(i)], edge |-> IF i % 2 = 0 THEN Route[t][i] ELSE None]
    BY <1>1 DEF StandardReport
  <1>7. /\ i % 2 = 1 => StandardReport(t, i) = [node |-> Route[t][i], edge |-> None]
        /\ i % 2 # 1 => StandardReport(t, i) = [node |-> Route[t][i - 1], edge |-> Route[t][i]]
    BY <1>2, <1>3, <1>6
  <1>8. StandardReport(t, i).node = Route[t][NodeBefore(i)]
    BY <1>6
  <1>9. StandardReport(t, i) # Nowhere
    BY <1>5, <1>8 DEF Nowhere
  <1>10. StandardReport(t, i) \in Reports
    BY <1>1, ReportTypes
  <1>11. QED
    BY <1>3, <1>4, <1>5, <1>7, <1>8, <1>9, <1>10

\* Every place on the route has its own report.
LEMMA StandardInjective ==
    ASSUME NEW t \in TaskIds, NEW i \in 1..Len(Route[t]), NEW j \in 1..Len(Route[t]),
           StandardReport(t, i) = StandardReport(t, j)
    PROVE  i = j
  <1>1. NodeBefore(i) = NodeBefore(j)
    BY StandardFacts
  <1>2. /\ i % 2 = 1 => StandardReport(t, i).edge = None
        /\ i % 2 # 1 => StandardReport(t, i).edge \in Resources
    BY StandardFacts, RouteFacts
  <1>3. /\ j % 2 = 1 => StandardReport(t, j).edge = None
        /\ j % 2 # 1 => StandardReport(t, j).edge \in Resources
    BY StandardFacts, RouteFacts
  <1>4. i % 2 = 1 <=> j % 2 = 1
    BY <1>2, <1>3
  <1>5. i \in Nat /\ j \in Nat
    BY RouteFacts
  <1>6. CASE i % 2 = 1
    <2>1. NodeBefore(i) = i /\ NodeBefore(j) = j
      BY <1>4, <1>6, StandardFacts
    <2>2. QED
      BY <1>1, <2>1
  <1>7. CASE i % 2 # 1
    <2>1. NodeBefore(i) = i - 1
      BY <1>7, StandardFacts
    <2>2. j % 2 # 1
      BY <1>4, <1>7
    <2>3. NodeBefore(j) = j - 1
      BY <2>2, StandardFacts
    <2>4. i - 1 = j - 1
      BY <1>1, <2>1, <2>3
    <2>5. QED
      BY <1>5, <2>4
  <1>8. QED
    BY <1>6, <1>7

\* A new report leaves the window where it is, or the AGV has come from an edge to
\* the next node.
Onward(t, i, m, n) ==
    /\ i \in Nat /\ i - 1 \in 1..Len(Route[t]) /\ i \in 1..Len(Route[t]) /\ i + 1 \in 1..Len(Route[t])
    /\ m = [node |-> Route[t][i - 1], edge |-> Route[t][i]] /\ m = StandardReport(t, i)
    /\ n = [node |-> Route[t][i + 1], edge |-> None] /\ n = StandardReport(t, i + 1)

LEMMA StepCases ==
    ASSUME NEW t \in TaskIds, NEW m \in Reports, NEW n \in Reports, Step(t, m, n)
    PROVE  \/ m.node \in {None, n.node} /\ m.edge \in {None, n.edge} /\ WindowAt(t, m) = WindowAt(t, n)
           \/ \E i \in Nat : Onward(t, i, m, n)
  <1>0. Len(Route[t]) \in Nat /\ Len(Route[t]) >= 3
    BY RouteFacts
  <1>1. CASE m = n
    BY <1>1
  <1>2. CASE m = Nowhere /\ n = StandardReport(t, 1)
    <2>1. 1 \in 1..Len(Route[t]) /\ 1 % 2 = 1
      BY <1>0
    <2>2. n.node = Route[t][1] /\ Index(t, n.node) = 1 /\ n # Nowhere
      BY <1>2, <2>1, StandardFacts
    <2>3. WindowAt(t, n) = Stretch(t, 1, Window)
      BY <2>2 DEF WindowAt
    <2>4. WindowAt(t, m) = Stretch(t, 1, Window)
      BY <1>2 DEF WindowAt, First
    <2>5. m.node = None /\ m.edge = None
      BY <1>2 DEF Nowhere
    <2>6. QED
      BY <2>3, <2>4, <2>5
  <1>3. CASE \E i \in 1..(Len(Route[t]) - 1) : m = StandardReport(t, i) /\ n = StandardReport(t, i + 1)
    <2>1. PICK i \in 1..(Len(Route[t]) - 1) : m = StandardReport(t, i) /\ n = StandardReport(t, i + 1)
      BY <1>3
    <2>2. i \in Nat /\ i \in 1..Len(Route[t]) /\ i + 1 \in 1..Len(Route[t])
      BY <1>0
    <2>3. i % 2 = 1 => (i + 1) % 2 # 1
      BY <2>2
    <2>4. i % 2 # 1 => (i + 1) % 2 = 1
      BY <2>2
    <2>5. CASE i % 2 = 1
      <3>1. m = [node |-> Route[t][i], edge |-> None] /\ NodeBefore(i) = i
        BY <2>1, <2>2, <2>5, StandardFacts
      <3>2. NodeBefore(i + 1) = (i + 1) - 1 /\ n.node = Route[t][NodeBefore(i + 1)]
            /\ Index(t, n.node) = NodeBefore(i + 1) /\ n # Nowhere
        BY <2>1, <2>2, <2>3, <2>5, StandardFacts
      <3>3. (i + 1) - 1 = i
        BY <2>2
      <3>4. n.node = Route[t][i] /\ Index(t, n.node) = i
        BY <3>2, <3>3
      <3>5. Index(t, m.node) = i /\ m # Nowhere /\ m.node = Route[t][i] /\ m.edge = None
        BY <2>1, <2>2, <3>1, StandardFacts
      <3>6. WindowAt(t, m) = WindowAt(t, n)
        BY <3>2, <3>4, <3>5 DEF WindowAt
      <3>7. QED
        BY <3>4, <3>5, <3>6
    <2>6. CASE i % 2 # 1
      <3>1. /\ i - 1 \in 1..Len(Route[t]) /\ m = [node |-> Route[t][i - 1], edge |-> Route[t][i]]
        BY <2>1, <2>2, <2>6, StandardFacts
      <3>2. n = [node |-> Route[t][i + 1], edge |-> None]
        BY <2>1, <2>2, <2>4, <2>6, StandardFacts
      <3>3. Onward(t, i, m, n)
        BY <2>1, <2>2, <3>1, <3>2 DEF Onward
      <3>4. QED
        BY <2>2, <3>3
    <2>7. QED
      BY <2>5, <2>6
  <1>4. QED
    BY <1>1, <1>2, <1>3 DEF Step

\* The first resource of a stretch, taken out of it.
LEMMA StretchTail ==
    ASSUME NEW t \in TaskIds, NEW i \in 1..Len(Route[t]), NEW n \in Nat, n >= 1
    PROVE  Without(Stretch(t, i, n), Route[t][i]) = Stretch(t, i + 1, n - 1)
  <1> DEFINE e == IF i + n - 1 <= Len(Route[t]) THEN i + n - 1 ELSE Len(Route[t])
             s == Stretch(t, i, n)
  <1>1. Len(Route[t]) \in Nat /\ Route[t] \in Seq(Resources) /\ i \in Nat /\ 1 <= i /\ i <= Len(Route[t])
    BY RouteFacts
  <1>2. s = SubSeq(Route[t], i, e) /\ e \in i..Len(Route[t])
    BY <1>1 DEF Stretch
  <1>3. Stretch(t, i + 1, n - 1) = SubSeq(Route[t], i + 1, e)
    <2>1. (i + 1) + (n - 1) - 1 = i + n - 1
      BY <1>1
    <2>2. QED
      BY <2>1 DEF Stretch
  <1>4. /\ Along(t, s) /\ s \in Seq(Resources) /\ Len(s) \in Nat /\ DOMAIN s = 1..Len(s)
        /\ Len(s) = IF i + n - 1 <= Len(Route[t]) THEN n ELSE Len(Route[t]) - i + 1
        /\ \A j \in DOMAIN s : s[j] = Route[t][i + j - 1]
    <2>1. s = Stretch(t, i, n) /\ i <= Len(Route[t]) + 1
      BY <1>1
    <2> HIDE DEF s
    <2>2. Along(t, s) /\ s \in Seq(Resources) /\ Len(s) \in Nat /\ DOMAIN s = 1..Len(s)
      BY <1>1, <2>1, StretchFacts
    <2>3. Len(s) = IF i + n - 1 <= Len(Route[t]) THEN n ELSE Len(Route[t]) - i + 1
      BY <1>1, <2>1, StretchFacts
    <2>4. \A j \in DOMAIN s : s[j] = Route[t][i + j - 1]
      BY <1>1, <2>1, StretchFacts
    <2>5. QED
      BY <2>2, <2>3, <2>4
  <1> HIDE DEF s, e
  <1>5. Len(s) >= 1 /\ 1 \in DOMAIN s
    BY <1>1, <1>4
  <1>6. s[1] = Route[t][i]
    <2>1. s[1] = Route[t][i + 1 - 1] /\ i + 1 - 1 = i
      BY <1>1, <1>4, <1>5
    <2>2. QED
      BY <2>1
  <1>7. Distinct(s)
    BY <1>4, AlongDistinct
  <1>8. \E j \in DOMAIN s : s[j] = Route[t][i]
    BY <1>5, <1>6
  <1>9. PICK k \in DOMAIN s : s[k] = Route[t][i] /\ k = CHOOSE j \in DOMAIN s : s[j] = Route[t][i]
    BY <1>8
  <1>10. k = 1
    BY <1>5, <1>6, <1>7, <1>9 DEF Distinct
  <1>11. Without(s, Route[t][i]) = SubSeq(s, 1, k - 1) \o SubSeq(s, k + 1, Len(s))
    BY <1>8, <1>9 DEF Without
  <1>12. SubSeq(s, 1, 1 - 1) = <<>>
    BY SubSeqEmpty
  <1>13. Tail(s) = SubSeq(s, 2, Len(s)) /\ Tail(s) \in Seq(Resources)
    <2>1. s # <<>>
      BY <1>5, EmptySeq
    <2>2. QED
      BY <1>4, <2>1, TailIsSubSeq, HeadTailProperties
  <1>14. <<>> \o Tail(s) = Tail(s)
    BY <1>13, ConcatEmptySeq
  <1>15. 1 + 1 = 2
    OBVIOUS
  <1>16. Without(s, Route[t][i]) = Tail(s)
    BY <1>10, <1>11, <1>12, <1>13, <1>14, <1>15
  <1>17. Tail(SubSeq(Route[t], i, e)) = SubSeq(Route[t], i + 1, e)
    BY <1>1, <1>2, HeadTailOfSubSeq
  <1>18. QED
    BY <1>2, <1>3, <1>16, <1>17 DEF s

\* A stretch that begins where the window is to begin is filled up to the window.
LEMMA StretchFilled ==
    ASSUME NEW t \in TaskIds, NEW i \in 1..Len(Route[t]), NEW n \in Nat, n >= 1, n <= Window,
           NEW s, s = Stretch(t, i, n)
    PROVE  s \o NextResources(t, s) = Stretch(t, i, Window)
  <1> DEFINE L == Len(Route[t])
             e == IF i + n - 1 <= L THEN i + n - 1 ELSE L
             f == IF i + Window - 1 <= L THEN i + Window - 1 ELSE L
  <1>1. L \in Nat /\ Route[t] \in Seq(Resources) /\ i \in Nat /\ 1 <= i /\ i <= L /\ Window \in Nat
    BY RouteFacts, BoundsAssumption
  <1>2. s = SubSeq(Route[t], i, e) /\ Stretch(t, i, Window) = SubSeq(Route[t], i, f)
    BY DEF Stretch
  <1>3. /\ Len(s) \in Nat /\ DOMAIN s = 1..Len(s) /\ s \in Seq(Resources)
        /\ Len(s) = IF i + n - 1 <= L THEN n ELSE L - i + 1
        /\ \A j \in DOMAIN s : s[j] = Route[t][i + j - 1] /\ Index(t, s[j]) = i + j - 1
    <2>1. i <= Len(Route[t]) + 1
      BY <1>1
    <2>2. Len(s) \in Nat /\ DOMAIN s = 1..Len(s) /\ s \in Seq(Resources)
      BY <1>1, <2>1, StretchFacts
    <2>3. Len(s) = IF i + n - 1 <= L THEN n ELSE L - i + 1
      BY <1>1, <2>1, StretchFacts
    <2>4. \A j \in DOMAIN s : s[j] = Route[t][i + j - 1] /\ Index(t, s[j]) = i + j - 1
      BY <1>1, <2>1, StretchFacts
    <2>5. QED
      BY <2>2, <2>3, <2>4
  <1> HIDE DEF L
  <1>4. Len(s) >= 1 /\ Len(s) \in DOMAIN s /\ i + Len(s) - 1 = e
    BY <1>1, <1>3
  <1>5. Index(t, s[Len(s)]) = e
    BY <1>3, <1>4
  <1>6. s # <<>>
    BY <1>4, EmptySeq
  <1>7. e \in i..L /\ f \in e..L
    BY <1>1
  <1>8. NextResources(t, s) = Stretch(t, e + 1, Window - Len(s))
    BY <1>5, <1>6 DEF NextResources
  <1>9. NextResources(t, s) = SubSeq(Route[t], e + 1, f)
    <2>1. NextResources(t, s) = SubSeq(Route[t], e + 1, IF (e + 1) + (Window - Len(s)) - 1 <= L
                                                        THEN (e + 1) + (Window - Len(s)) - 1 ELSE L)
      BY <1>8 DEF Stretch, L
    <2>2. (e + 1) + (Window - Len(s)) - 1 = i + Window - 1
      <3>1. e \in Nat
        BY <1>1, <1>7
      <3> HIDE DEF e
      <3>2. QED
        BY <1>1, <1>3, <1>4, <3>1
    <2>3. QED
      BY <2>1, <2>2
  <1> HIDE DEF e, f
  <1>10. i \in 1..(L + 1) /\ e \in (i - 1)..L
    BY <1>1, <1>7
  <1>11. SubSeq(Route[t], i, e) \o SubSeq(Route[t], e + 1, f) = SubSeq(Route[t], i, f)
    BY <1>1, <1>7, <1>10, ConcatAdjacentSubSeq DEF L
  <1>12. QED
    BY <1>2, <1>9, <1>11

-----------------------------------------------------------------------------
(* The trail of reports *)

LEMMA ChainTail ==
    ASSUME NEW S, NEW t, NEW m, NEW n, NEW s \in Seq(S), s # <<>>, Chain(t, m, s, n)
    PROVE  Step(t, m, Head(s)) /\ Chain(t, Head(s), Tail(s), n)
  <1> DEFINE r == Tail(s)
  <1>1. /\ r \in Seq(S) /\ Len(r) = Len(s) - 1 /\ Head(s) = s[1] /\ Len(s) \in Nat
        /\ \A i \in 1..Len(r) : r[i] = s[i + 1]
    BY HeadTailProperties, LenProperties
  <1>2. Len(s) >= 1
    BY EmptySeq, LenProperties
  <1>3. Step(t, m, s[1]) /\ s[Len(s)] = n /\ \A i \in 1..(Len(s) - 1) : Step(t, s[i], s[i + 1])
    BY DEF Chain
  <1> HIDE DEF r
  <1>4. CASE r = <<>>
    <2>1. Len(r) = 0
      BY <1>1, <1>4, EmptySeq
    <2>2. Len(s) = 1
      BY <1>1, <2>1
    <2>3. QED
      BY <1>1, <1>3, <1>4, <2>2 DEF Chain, r
  <1>5. CASE r # <<>>
    <2>1. Len(r) >= 1 /\ Len(r) \in Nat
      BY <1>1, <1>5, EmptySeq, LenProperties
    <2>2. 1 \in 1..Len(r) /\ Len(r) \in 1..Len(r) /\ 1 \in 1..(Len(s) - 1)
      BY <1>1, <2>1
    <2>3. r[1] = s[1 + 1] /\ r[Len(r)] = s[Len(r) + 1] /\ Len(r) + 1 = Len(s)
      BY <1>1, <2>1, <2>2
    <2>4. Step(t, s[1], r[1]) /\ r[Len(r)] = n
      BY <1>3, <2>2, <2>3
    <2>5. ASSUME NEW i \in 1..(Len(r) - 1) PROVE Step(t, r[i], r[i + 1])
      <3>1. i \in 1..Len(r) /\ i + 1 \in 1..Len(r) /\ i + 1 \in 1..(Len(s) - 1)
        BY <1>1, <2>1
      <3>2. r[i] = s[i + 1] /\ r[i + 1] = s[(i + 1) + 1]
        BY <1>1, <3>1
      <3>3. QED
        BY <1>3, <3>1, <3>2
    <2>6. QED
      BY <1>1, <1>3, <1>5, <2>4, <2>5 DEF Chain, r
  <1>6. QED
    BY <1>4, <1>5

LEMMA ChainAppend ==
    ASSUME NEW S, NEW t, NEW m, NEW n, NEW s \in Seq(S), NEW k \in S, Chain(t, m, s, n), Step(t, n, k)
    PROVE  Chain(t, m, Append(s, k), k)
  <1> DEFINE r == Append(s, k)
  <1>1. /\ r \in Seq(S) /\ r # <<>> /\ Len(r) = Len(s) + 1 /\ Len(s) \in Nat
        /\ \A i \in 1..Len(s) : r[i] = s[i]
        /\ r[Len(s) + 1] = k
    BY AppendProperties, LenProperties
  <1> HIDE DEF r
  <1>2. CASE s = <<>>
    <2>1. Len(s) = 0 /\ m = n
      BY <1>2, EmptySeq DEF Chain
    <2>2. Len(r) = 1 /\ r[1] = k
      BY <1>1, <2>1
    <2>3. \A i \in 1..(Len(r) - 1) : FALSE
      BY <2>2
    <2>4. QED
      BY <1>1, <2>1, <2>2, <2>3 DEF Chain, r
  <1>3. CASE s # <<>>
    <2>1. Len(s) >= 1
      BY <1>1, <1>3, EmptySeq, LenProperties
    <2>2. Step(t, m, s[1]) /\ s[Len(s)] = n /\ \A i \in 1..(Len(s) - 1) : Step(t, s[i], s[i + 1])
      BY <1>3 DEF Chain
    <2>3. r[1] = s[1] /\ r[Len(s)] = n
      BY <1>1, <2>1, <2>2
    <2>4. ASSUME NEW i \in 1..(Len(r) - 1) PROVE Step(t, r[i], r[i + 1])
      <3>1. CASE i = Len(s)
        BY <1>1, <2>3, <3>1
      <3>2. CASE i # Len(s)
        <4>1. i \in 1..Len(s) /\ i + 1 \in 1..Len(s) /\ i \in 1..(Len(s) - 1)
          BY <1>1, <3>2
        <4>2. r[i] = s[i] /\ r[i + 1] = s[i + 1]
          BY <1>1, <4>1
        <4>3. QED
          BY <2>2, <4>1, <4>2
      <3>3. QED
        BY <3>1, <3>2
    <2>5. r[Len(r)] = k
      BY <1>1
    <2>6. QED
      BY <1>1, <2>2, <2>3, <2>4, <2>5 DEF Chain, r
  <1>4. QED
    BY <1>2, <1>3

\* A report that is sent lengthens the chain, or was the last one.
LEMMA ChainSent ==
    ASSUME Typed, NEW a \in Agvs, NEW t, NEW m, NEW n, NEW k \in Reports,
           Chain(t, m, inbox[a], n), Step(t, n, k), Sent(a, k)
    PROVE  Chain(t, m, inbox'[a], k)
  <1>1. inbox[a] \in Seq(Reports)
    BY DEF Typed, TypeOK
  <1>2. CASE inbox'[a] = inbox[a] /\ inbox[a] # <<>> /\ inbox[a][Len(inbox[a])] = k
    <2>1. n = k
      BY <1>2 DEF Chain
    <2>2. QED
      BY <1>2, <2>1
  <1>3. CASE inbox'[a] = Append(inbox[a], k)
    <2>1. PICK s \in Seq(Reports) : s = inbox[a]
      BY <1>1
    <2>2. Chain(t, m, Append(s, k), k)
      BY <2>1, ChainAppend
    <2>3. QED
      BY <1>3, <2>1, <2>2
  <1>4. QED
    BY <1>2, <1>3 DEF Sent

LEMMA SeqSent ==
    ASSUME NEW a \in Agvs, NEW S, inbox[a] \in Seq(S), NEW k \in S, Sent(a, k)
    PROVE  inbox'[a] \in Seq(S)
  <1>1. ASSUME NEW s \in Seq(S) PROVE Append(s, k) \in Seq(S)
    BY AppendProperties
  <1>2. QED
    BY <1>1 DEF Sent

LEMMA SeqMono ==
    ASSUME NEW S, NEW T, S \subseteq T, NEW s \in Seq(S)
    PROVE  s \in Seq(T)
  OBVIOUS

\* What an AGV that is to be relied on reports first, and last.
LEMMA FirstReport ==
    ASSUME NEW t \in TaskIds
    PROVE  /\ 1 \in 1..Len(Route[t]) /\ StandardReport(t, 0) = StandardReport(t, 1)
           /\ StandardReport(t, 1) = [node |-> Route[t][1], edge |-> None]
  <1>1. Len(Route[t]) \in Nat /\ Len(Route[t]) >= 3
    BY RouteFacts
  <1>2. 1 \in 1..Len(Route[t]) /\ 1 % 2 = 1
    BY <1>1
  <1>3. StandardReport(t, 1) = [node |-> Route[t][1], edge |-> None]
    BY <1>2, StandardFacts
  <1>4. QED
    BY <1>2, <1>3 DEF StandardReport

LEMMA ProgressFacts ==
    ASSUME Typed, NEW a \in Agvs, NEW t \in TaskIds, order[a] = t
    PROVE  /\ Progress(a) \in 1..Len(Route[t]) /\ at[a] \in Nat
           /\ LastReport(a) = StandardReport(t, Progress(a))
  <1>1. Len(Route[t]) \in Nat /\ Len(Route[t]) >= 3
    BY RouteFacts
  <1>2. at[a] \in 0..Len(Route[t])
    BY DEF Typed, TypeOK
  <1>3. order[a] # NoTask
    OBVIOUS
  <1>4. QED
    BY <1>1, <1>2, <1>3 DEF Progress, LastReport

LEMMA TrailUse ==
    ASSUME NEW a \in Agvs, NEW t \in TaskIds, current[a] = t, TrailOf(a)
    PROVE  /\ Chain(t, Seen(a), inbox[a], LastReport(a))
           /\ handler[a].pc = "node" => Step(t, reported[a], handler[a].report)
           /\ handler[a].pc = "edge" => \E m \in Reports : HalfWay(a, m)
           /\ BeenThere(a)
  <1>1. current[a] # NoTask
    OBVIOUS
  <1>2. QED
    BY <1>1, Zenon DEF TrailOf, Tracked

LEMMA TrailAgain ==
    ASSUME NEW a \in Agvs, NEW t \in TaskIds, current'[a] = t,
           Chain(t, Seen(a)', inbox'[a], LastReport(a)'),
           handler'[a].pc = "node" => Step(t, reported'[a], handler'[a].report),
           handler'[a].pc = "edge" => \E m \in Reports : HalfWay(a, m)',
           BeenThere(a)'
    PROVE  TrailOf(a)'
  <1>1. current'[a] # NoTask
    OBVIOUS
  <1>2. QED
    BY <1>1, Zenon DEF TrailOf, Tracked

\* Nothing has been read and nothing has been reported.
LEMMA TrailKept ==
    ASSUME NEW a \in Agvs, TrailOf(a),
           current'[a] = current[a], order'[a] = order[a], at'[a] = at[a], place'[a] = place[a],
           reported'[a] = reported[a], inbox'[a] = inbox[a],
           \/ handler'[a] = handler[a]
           \/ handler[a].pc \notin {"node", "edge"} /\ handler'[a].pc \notin {"node", "edge"}
    PROVE  TrailOf(a)'
  <1>1. Seen(a)' = Seen(a)
    BY DEF Seen
  <1>2. LastReport(a)' = LastReport(a) /\ Progress(a)' = Progress(a)
    BY DEF LastReport, Progress
  <1>3. ASSUME NEW m PROVE HalfWay(a, m) /\ handler'[a] = handler[a] => HalfWay(a, m)'
    BY DEF HalfWay
  <1>4. CASE current[a] = NoTask
    BY <1>4 DEF TrailOf
  <1>5. CASE current[a] # NoTask
    <2>1. Tracked(a)'
      <3>1. /\ Chain(current[a], Seen(a), inbox[a], LastReport(a))
            /\ handler[a].pc = "node" => Step(current[a], reported[a], handler[a].report)
            /\ handler[a].pc = "edge" => \E m \in Reports : HalfWay(a, m)
        BY <1>5 DEF TrailOf, Tracked
      <3>2. Chain(current'[a], Seen(a)', inbox'[a], LastReport(a)')
        BY <1>1, <1>2, <3>1
      <3>3. handler'[a].pc = "node" => Step(current'[a], reported'[a], handler'[a].report)
        BY <3>1
      <3>4. handler'[a].pc = "edge" => \E m \in Reports : HalfWay(a, m)'
        BY <1>3, <3>1
      <3>5. QED
        BY <3>2, <3>3, <3>4 DEF Tracked
    <2>2. BeenThere(a)'
      BY <1>1, <1>2, <1>5 DEF TrailOf, BeenThere
    <2>3. QED
      BY <1>5, <2>1, <2>2 DEF TrailOf
  <1>6. QED
    BY <1>4, <1>5

LEMMA TrailInit == Init => Trail
  <1>1. ASSUME Init, NEW a \in Reliable PROVE TrailOf(a)
    <2>1. a \in Agvs
      BY SwitchesAssumption DEF Reliable
    <2>2. QED
      BY <1>1, <2>1 DEF Init, TrailOf, Nowhere
  <1>2. QED
    BY <1>1 DEF Trail

\* A first report, from the node it stands on.
LEMMA ScheduleTrail ==
    ASSUME Calm, Typed, NEW a \in Agvs, a \in Standard, CycleOf(a), TrailOf(a), NEW t \in TaskIds, Schedule(a, t)
    PROVE  TrailOf(a)'
  <1>1. /\ current[a] = NoTask /\ at[a] = 0
        /\ Only(current, current', a, t) /\ Only(order, order', a, t) /\ Sent(a, ReportOf(a, t, 0))
    BY ScheduleEffect
  <1>2. UNCHANGED <<reported, handler, at, place>> /\ Route[t][1] = place[a]
    BY DEF Schedule
  <1>3. inbox[a] = <<>> /\ handler[a].pc = "idle"
    BY <1>1 DEF CycleOf, Resting
  <1>4. PICK k \in Reports : k = StandardReport(t, 1)
    <2>1. 1 \in 0..Len(Route[t])
      BY FirstReport
    <2>2. QED
      BY <2>1, ReportTypes
  <1>5. ReportOf(a, t, 0) = k /\ k = [node |-> place[a], edge |-> None]
    BY <1>2, <1>4, FirstReport DEF ReportOf
  <1>6. Seen(a) = reported[a] /\ Seen(a)' = reported[a] /\ reported[a] \in {Nowhere, k}
    BY <1>1, <1>2, <1>3, <1>5 DEF Seen, TrailOf
  <1>7. Step(t, reported[a], k)
    BY <1>4, <1>6 DEF Step
  <1>8. Chain(t, reported[a], inbox'[a], k)
    <2>1. Chain(t, reported[a], inbox[a], reported[a])
      BY <1>3 DEF Chain
    <2>2. QED
      BY <1>1, <1>5, <1>7, <2>1, ChainSent
  <1>9. order'[a] = t /\ t # NoTask /\ current'[a] = t /\ at'[a] = 0
    BY <1>1, <1>2 DEF Only
  <1>10. Progress(a)' = 1 /\ LastReport(a)' = k
    BY <1>4, <1>9 DEF Progress, LastReport
  <1>11. BeenThere(a)'
    <2>1. k \in Reached(t, 1)
      BY <1>4 DEF Reached
    <2>2. <<>> \in Seq(Reached(t, 1))
      BY EmptySeq
    <2>3. inbox'[a] \in Seq(Reached(t, 1))
      BY <1>1, <1>3, <1>5, <2>1, <2>2, SeqSent
    <2>4. QED
      BY <1>6, <1>9, <1>10, <2>1, <2>3 DEF BeenThere
  <1>12. QED
    BY <1>2, <1>3, <1>6, <1>8, <1>9, <1>10, <1>11, TrailAgain

\* It goes on, and says so.
LEMMA MoveTrail ==
    ASSUME Typed, NEW a \in Agvs, a \in Standard, CycleOf(a), TrailOf(a), Move(a)
    PROVE  TrailOf(a)'
  <1>1. PICK t \in TaskIds, i \in Nat :
          /\ order[a] = t /\ at[a] = i /\ i < Len(Route[t])
          /\ Only(at, at', a, i + 1) /\ Sent(a, ReportOf(a, t, i + 1))
    BY MoveEffect
  <1>2. UNCHANGED <<current, reported, handler, order, place>>
    BY DEF Move, dispatcher
  <1>3. current[a] = t
    BY <1>1 DEF CycleOf
  <1>4. Len(Route[t]) \in Nat /\ i + 1 \in 1..Len(Route[t]) /\ i + 1 # 0 /\ i + 1 \in 0..Len(Route[t])
    BY <1>1, RouteFacts
  <1>5. PICK k \in Reports : k = StandardReport(t, i + 1) /\ ReportOf(a, t, i + 1) = k
    BY <1>4, ReportTypes DEF ReportOf
  <1>6. Progress(a) = (IF i = 0 THEN 1 ELSE i) /\ Progress(a)' = i + 1
    BY <1>1, <1>4 DEF Progress, Only
  <1>7. LastReport(a) = StandardReport(t, Progress(a)) /\ LastReport(a)' = k
    BY <1>1, <1>2, <1>5, <1>6 DEF LastReport
  <1>8. Step(t, LastReport(a), k)
    <2>1. CASE i = 0
      BY <1>5, <1>6, <1>7, <2>1 DEF Step
    <2>2. CASE i # 0
      <3>1. i \in 1..(Len(Route[t]) - 1)
        BY <1>4, <2>2
      <3>2. QED
        BY <1>5, <1>6, <1>7, <2>2, <3>1 DEF Step
    <2>3. QED
      BY <2>1, <2>2
  <1>9. Chain(t, Seen(a), inbox'[a], k)
    <2>1. Chain(t, Seen(a), inbox[a], LastReport(a))
      BY <1>3, TrailUse
    <2>2. QED
      BY <1>1, <1>5, <1>8, <2>1, ChainSent
  <1>10. Seen(a)' = Seen(a)
    BY <1>2 DEF Seen
  <1>11. BeenThere(a)'
    <2>1. /\ Seen(a) \in Reached(t, Progress(a)) \cup {Nowhere}
          /\ inbox[a] \in Seq(Reached(t, Progress(a)))
      BY <1>1, <1>3, TrailUse DEF BeenThere
    <2>2. Reached(t, Progress(a)) \subseteq Reached(t, i + 1) /\ k \in Reached(t, i + 1)
      <3>1. 1..Progress(a) \subseteq 1..(i + 1) /\ i + 1 \in 1..(i + 1)
        BY <1>6
      <3>2. QED
        BY <1>5, <3>1 DEF Reached
    <2>3. inbox'[a] \in Seq(Reached(t, i + 1))
      <3>1. inbox[a] \in Seq(Reached(t, i + 1))
        BY <2>1, <2>2, SeqMono
      <3>2. QED
        BY <1>1, <1>5, <2>2, <3>1, SeqSent
    <2>4. QED
      BY <1>1, <1>2, <1>6, <1>10, <2>1, <2>2, <2>3 DEF BeenThere
  <1>12. /\ handler[a].pc = "node" => Step(t, reported[a], handler[a].report)
         /\ handler[a].pc = "edge" => \E m \in Reports : HalfWay(a, m)
    BY <1>3, TrailUse
  <1>13. \A m : HalfWay(a, m) => HalfWay(a, m)'
    BY <1>2 DEF HalfWay
  <1>14. QED
    BY <1>2, <1>3, <1>7, <1>9, <1>10, <1>11, <1>12, <1>13, TrailAgain

\* Its order ends at a node, or before it has left the first one.
LEMMA StopTrail ==
    ASSUME Typed, NEW a \in Agvs, a \in Standard, CycleOf(a), TrailOf(a), Stop(a), a \notin astray'
    PROVE  TrailOf(a)'
  <1>1. PICK t \in TaskIds, i \in Nat, p \in Resources :
          /\ order[a] = t /\ at[a] = i /\ i \in 0..Len(Route[t])
          /\ Only(order, order', a, NoTask) /\ Only(place, place', a, p) /\ UNCHANGED inbox
          /\ i = 0 => p = Route[t][1]
          /\ i % 2 = 1 => p = Route[t][i]
          /\ i = 0 \/ i % 2 = 1
    BY StopEffect
  <1>2. UNCHANGED <<current, reported, handler>>
    BY DEF Stop, dispatcher
  <1>3. current[a] = t
    BY <1>1 DEF CycleOf
  <1>4. order'[a] = NoTask /\ place'[a] = p
    BY <1>1 DEF Only
  <1>5. PICK k \in Nat : k = (IF i = 0 THEN 1 ELSE i)
    BY <1>1
  <1>6. k % 2 = 1 /\ k \in 1..Len(Route[t]) /\ p = Route[t][k]
    BY <1>1, <1>5, RouteFacts
  <1>7. LastReport(a) = StandardReport(t, k)
    BY <1>1, <1>5 DEF LastReport, Progress
  <1>8. LastReport(a)' = LastReport(a)
    BY <1>4, <1>6, <1>7, StandardFacts DEF LastReport
  <1>9. Seen(a)' = Seen(a)
    BY <1>2 DEF Seen
  <1>10. /\ Chain(t, Seen(a), inbox[a], LastReport(a))
         /\ handler[a].pc = "node" => Step(t, reported[a], handler[a].report)
         /\ handler[a].pc = "edge" => \E m \in Reports : HalfWay(a, m)
    BY <1>3, TrailUse
  <1>11. \A m : HalfWay(a, m) => HalfWay(a, m)'
    BY <1>2 DEF HalfWay
  <1>12. BeenThere(a)'
    BY <1>4 DEF BeenThere
  <1>13. QED
    BY <1>1, <1>2, <1>3, <1>8, <1>9, <1>10, <1>11, <1>12, TrailAgain

\* Its task ends when the last report is handled.
LEMMA FinishTrail ==
    ASSUME Typed, NEW a \in Agvs, CycleOf(a), TrailOf(a), FinishTask(a)
    PROVE  TrailOf(a)'
  <1>1. /\ ending[a] # <<>> /\ Only(current, current', a, NoTask)
        /\ UNCHANGED <<reported, place>>
    BY FinishEffect DEF FinishTask, agv
  <1>2. order[a] = NoTask /\ inbox[a] = <<>> /\ handler[a].pc = "idle"
    BY <1>1 DEF CycleOf, Resting
  <1>3. reported[a] \in {Nowhere, [node |-> place[a], edge |-> None]}
    <2>1. CASE current[a] = NoTask
      BY <2>1 DEF TrailOf
    <2>2. CASE current[a] # NoTask
      <3>1. Chain(current[a], Seen(a), inbox[a], LastReport(a))
        BY <2>2 DEF TrailOf, Tracked
      <3>2. Seen(a) = LastReport(a)
        BY <1>2, <3>1 DEF Chain
      <3>3. QED
        BY <1>2, <3>2 DEF Seen, LastReport
    <2>3. QED
      BY <2>1, <2>2
  <1>4. current'[a] = NoTask
    BY <1>1 DEF Only
  <1>5. QED
    BY <1>1, <1>3, <1>4 DEF TrailOf

\* The report that waited longest is taken up.
LEMMA ReadTrail ==
    ASSUME Typed, NEW a \in Agvs, CycleOf(a), TrailOf(a), Read(a)
    PROVE  TrailOf(a)'
  <1>1. /\ handler[a].pc = "idle" /\ inbox[a] # <<>> /\ handler'[a].pc = "node"
        /\ handler'[a].report = Head(inbox[a]) /\ inbox'[a] = Tail(inbox[a])
        /\ UNCHANGED <<current, reported, order, at, place>>
    BY ReadEffect DEF Read, dispatcher, agv
  <1>2. PICK t \in TaskIds : t = current[a]
    BY <1>1, Busy DEF Resting, Typed, TypeOK
  <1>3. PICK s \in Seq(Reports) : s = inbox[a]
    BY DEF Typed, TypeOK
  <1>4. Seen(a) = reported[a] /\ Seen(a)' = Head(s)
    BY <1>1, <1>3 DEF Seen
  <1>5. LastReport(a)' = LastReport(a) /\ Progress(a)' = Progress(a)
    BY <1>1 DEF LastReport, Progress
  <1>6. Step(t, reported[a], Head(s)) /\ Chain(t, Head(s), Tail(s), LastReport(a))
    <2>1. Chain(t, reported[a], s, LastReport(a))
      BY <1>2, <1>3, <1>4, TrailUse
    <2>2. QED
      BY <1>1, <1>3, <2>1, ChainTail
  <1>7. BeenThere(a)'
    <2>1. ASSUME order[a] # NoTask
          PROVE  Head(s) \in Reached(order[a], Progress(a)) /\ Tail(s) \in Seq(Reached(order[a], Progress(a)))
      <3>1. s \in Seq(Reached(order[a], Progress(a))) /\ s # <<>>
        BY <1>1, <1>2, <1>3, <2>1, TrailUse DEF BeenThere
      <3>2. QED
        BY <3>1, HeadTailProperties
    <2>2. QED
      BY <1>1, <1>3, <1>4, <1>5, <2>1 DEF BeenThere
  <1>8. QED
    BY <1>1, <1>2, <1>3, <1>4, <1>5, <1>6, <1>7, TrailAgain

\* Its node is dealt with, then its edge.
LEMMA NodeTrail ==
    ASSUME Typed, NEW a \in Agvs, CycleOf(a), TrailOf(a), ReleaseNode(a)
    PROVE  TrailOf(a)'
  <1>1. /\ handler[a].pc = "node" /\ handler'[a].pc = "edge" /\ handler'[a].report = handler[a].report
        /\ handler'[a].changed = NodeChanged(a)
        /\ Noted(a, [node |-> handler[a].report.node, edge |-> reported[a].edge])
        /\ UNCHANGED <<current, inbox, order, at, place>>
    BY NodeEffect DEF ReleaseNode, agv
  <1>2. PICK t \in TaskIds : t = current[a]
    BY <1>1, Busy DEF Resting, Typed, TypeOK
  <1>3. Seen(a)' = Seen(a)
    BY <1>1 DEF Seen
  <1>4. LastReport(a)' = LastReport(a) /\ Progress(a)' = Progress(a)
    BY <1>1 DEF LastReport, Progress
  <1>5. Step(t, reported[a], handler[a].report) /\ BeenThere(a) /\ Chain(t, Seen(a), inbox[a], LastReport(a))
    BY <1>1, <1>2, TrailUse
  <1>6. PICK m \in Reports : m = reported[a]
    BY DEF Typed, TypeOK
  <1>7. HalfWay(a, m)'
    <2>1. Step(current'[a], m, handler'[a].report)
      BY <1>1, <1>2, <1>5, <1>6
    <2>2. reported'[a] = [node |-> handler'[a].report.node, edge |-> m.edge]
      BY <1>1, <1>6 DEF Noted
    <2>3. handler'[a].changed = (m.node \notin {None, handler'[a].report.node})
      BY <1>1, <1>6 DEF NodeChanged
    <2>4. QED
      BY <2>1, <2>2, <2>3 DEF HalfWay
  <1>8. BeenThere(a)'
    BY <1>1, <1>3, <1>4, <1>5 DEF BeenThere
  <1>9. Chain(t, Seen(a)', inbox'[a], LastReport(a)')
    BY <1>1, <1>3, <1>4, <1>5
  <1>10. current'[a] = t /\ handler'[a].pc # "node"
    BY <1>1, <1>2
  <1>11. QED
    BY <1>7, <1>8, <1>9, <1>10, TrailAgain

LEMMA EdgeTrail ==
    ASSUME Typed, Listed, NEW a \in Agvs, CycleOf(a), TrailOf(a), ReleaseEdge(a)
    PROVE  TrailOf(a)' /\ reported'[a] = handler[a].report
  <1>1. \A t \in TaskIds : t = handler[a].task => NextResources(t, lockList'[t]) \in Seq(Resources)
    BY EdgeLists, ListedParts
  <1>2. /\ handler[a].pc = "edge" /\ (handler'[a] = NoWork \/ handler'[a].pc = "lock")
        /\ Noted(a, [node |-> reported[a].node, edge |-> handler[a].report.edge])
        /\ UNCHANGED <<current, inbox, order, at, place>>
    BY <1>1, EdgeEffect DEF ReleaseEdge, agv
  <1>3. handler'[a].pc \notin {"node", "edge"}
    BY <1>2, NoWorkWhole
  <1>4. PICK t \in TaskIds : t = current[a]
    BY <1>2, Busy DEF Resting, Typed, TypeOK
  <1>5. PICK n \in Reports : n = handler[a].report
    BY HandlerParts
  <1>6. reported[a].node = n.node
    <2>1. PICK m \in Reports : HalfWay(a, m)
      BY <1>2, <1>4, TrailUse
    <2>2. reported[a] = [node |-> n.node, edge |-> m.edge]
      BY <1>5, <2>1 DEF HalfWay
    <2>3. QED
      BY <2>2
  <1>7. reported'[a] = n
    <2>1. n = [node |-> n.node, edge |-> n.edge]
      BY DEF Reports
    <2>2. QED
      BY <1>2, <1>5, <1>6, <2>1 DEF Noted
  <1>8. Seen(a) = n /\ Seen(a)' = n
    BY <1>2, <1>3, <1>5, <1>7 DEF Seen
  <1>9. LastReport(a)' = LastReport(a) /\ Progress(a)' = Progress(a)
    BY <1>2 DEF LastReport, Progress
  <1>10. BeenThere(a) /\ Chain(t, Seen(a), inbox[a], LastReport(a))
    BY <1>4, TrailUse
  <1>11. BeenThere(a)'
    BY <1>2, <1>8, <1>9, <1>10 DEF BeenThere
  <1>12. Chain(t, Seen(a)', inbox'[a], LastReport(a)')
    BY <1>2, <1>8, <1>9, <1>10
  <1>13. current'[a] = t
    BY <1>2, <1>4
  <1>14. TrailOf(a)'
    BY <1>3, <1>11, <1>12, <1>13, TrailAgain
  <1>15. QED
    BY <1>5, <1>7, <1>14

LEMMA TrailOwn ==
    ASSUME Calm, Typed, Listed, NEW a \in Agvs, a \in Reliable, CycleOf(a), TrailOf(a), Acts(a), a \notin astray'
    PROVE  TrailOf(a)'
  <1> DEFINE Good == TrailOf(a)'
  <1>1. a \in Standard /\ a \notin Lossy
    BY DEF Reliable
  <1>2. ASSUME NEW t \in TaskIds, Schedule(a, t) PROVE Good
    BY <1>1, <1>2, ScheduleTrail
  <1>3. ASSUME Move(a) PROVE Good
    BY <1>1, <1>3, MoveTrail
  <1>4. ASSUME Stop(a) PROVE Good
    BY <1>1, <1>4, StopTrail
  <1>5. ASSUME LoseReport(a) PROVE Good
    BY <1>1, <1>5 DEF LoseReport
  <1>6. ASSUME End(a) \/ ReleaseAll(a) PROVE Good
    <2>1. UNCHANGED <<current, order, at, place, reported, inbox, handler>>
      BY <1>6 DEF End, ReleaseAll, dispatcher, agv
    <2>2. QED
      BY <2>1, TrailKept
  <1>7. ASSUME FinishTask(a) PROVE Good
    BY <1>7, FinishTrail
  <1>8. ASSUME Read(a) PROVE Good
    BY <1>8, ReadTrail
  <1>9. ASSUME ReleaseNode(a) PROVE Good
    BY <1>9, NodeTrail
  <1>10. ASSUME ReleaseEdge(a) PROVE Good
    BY <1>10, EdgeTrail
  <1>11. ASSUME LockNext(a) \/ AskHolder(a) \/ Extend(a) \/ Undo(a) PROVE Good
    <2>1. UNCHANGED <<current, order, at, place, reported, inbox>>
      BY <1>11 DEF LockNext, AskHolder, Extend, Undo, dispatcher, agv
    <2>2. handler[a].pc \notin {"node", "edge"}
      BY <1>11 DEF LockNext, AskHolder, Extend, Undo
    <2>3. handler'[a].pc \notin {"node", "edge"}
      BY <1>11, LockEffect, AskEffect, ExtendEffect, UndoEffect, NoWorkWhole
    <2>4. QED
      BY <2>1, <2>2, <2>3, TrailKept
  <1> HIDE DEF Good
  <1>12. Good
    BY <1>2, <1>3, <1>4, <1>5, <1>6, <1>7, <1>8, <1>9, <1>10, <1>11 DEF Acts, HandlerStep
  <1>13. QED
    BY <1>12 DEF Good

\* An AGV that went astray remains so.
LEMMA AstrayGrows ==
    ASSUME Typed, [Next]_vars
    PROVE  astray \subseteq astray'
  <1>1. ASSUME NEW a \in Agvs, Acts(a) PROVE astray \subseteq astray'
    <2>1. ASSUME Stop(a) PROVE astray \subseteq astray'
      BY <2>1, StopEffect
    <2>2. ASSUME NEW t \in TaskIds, Schedule(a, t) PROVE astray \subseteq astray'
      BY <2>2 DEF Schedule
    <2>3. ~Stop(a) /\ ~(\E t \in TaskIds : Schedule(a, t)) => astray' = astray
      BY <1>1 DEF Acts, HandlerStep, Move, LoseReport, End, FinishTask, ReleaseAll, Read, ReleaseNode, ReleaseEdge,
                  LockNext, AskHolder, Extend, Undo, dispatcher, ghosts
    <2>4. QED
      BY <2>1, <2>2, <2>3
  <1>2. UNCHANGED vars => astray' = astray
    BY DEF vars, ghosts
  <1>3. QED
    BY <1>1, <1>2, NextActs

LEMMA TrailStep ==
    ASSUME Calm, Typed, Listed, Cycle, Trail, [Next]_vars
    PROVE  Trail'
  <1>1. \A a \in Reliable : a \in Agvs /\ (a \notin astray' => a \notin astray)
    BY AstrayGrows, SwitchesAssumption DEF Reliable
  <1>2. ASSUME NEW a \in Agvs, Acts(a), a \in Reliable, a \notin astray' PROVE TrailOf(a)'
    BY <1>1, <1>2, TrailOwn DEF Cycle, Trail
  <1>3. ASSUME NEW a \in Agvs, Acts(a), NEW b \in Agvs, b \in Reliable, b # a, b \notin astray' PROVE TrailOf(b)'
    <2>1. SameFor(b) /\ TrailOf(b)
      BY <1>1, <1>3, OthersSame DEF Trail
    <2>2. QED
      BY <2>1, TrailKept DEF SameFor
  <1>4. CASE Next
    BY <1>1, <1>2, <1>3, <1>4, NextActs DEF Trail
  <1>5. CASE UNCHANGED vars
    <2>1. UNCHANGED <<current, order, at, place, reported, inbox, handler>>
      BY <1>5 DEF vars, dispatcher, agv
    <2>2. ASSUME NEW a \in Reliable, a \notin astray' PROVE TrailOf(a)'
      BY <1>1, <2>1, <2>2, TrailKept DEF Trail
    <2>3. QED
      BY <2>2 DEF Trail
  <1>6. QED
    BY <1>4, <1>5

-----------------------------------------------------------------------------
(* A report takes nothing from the list that the AGV has not left *)

\* A report of a place on the route, but the first, is of one it has reached.
LEMMA Passed ==
    ASSUME Typed, NEW a \in Agvs, TrailOf(a), NEW t \in TaskIds, current[a] = t, order[a] = t,
           handler[a].pc \in {"node", "edge"}, NEW i \in Nat, NEW m, Onward(t, i, m, handler[a].report)
    PROVE  /\ Index(t, m.node) = i - 1 /\ m.node = Route[t][i - 1] /\ i - 1 < at[a]
           /\ Index(t, m.edge) = i /\ m.edge = Route[t][i] /\ i < at[a]
  <1>1. /\ i - 1 \in 1..Len(Route[t]) /\ i \in 1..Len(Route[t]) /\ i + 1 \in 1..Len(Route[t])
        /\ m.node = Route[t][i - 1] /\ m.edge = Route[t][i]
        /\ handler[a].report = StandardReport(t, i + 1)
    BY DEF Onward
  <1>2. Index(t, Route[t][i - 1]) = i - 1 /\ Index(t, Route[t][i]) = i
    BY <1>1, RouteFacts
  <1>3. StandardReport(t, i + 1) # Nowhere
    BY <1>1, StandardFacts
  <1>4. StandardReport(t, i + 1) \in Reached(t, Progress(a))
    <2>1. Seen(a) \in Reached(t, Progress(a)) \cup {Nowhere}
      BY TrailUse DEF BeenThere
    <2>2. QED
      BY <1>1, <1>3, <2>1 DEF Seen
  <1>5. Progress(a) \in 1..Len(Route[t]) /\ at[a] \in Nat
    BY ProgressFacts
  <1>6. PICK j \in 1..Progress(a) : StandardReport(t, i + 1) = StandardReport(t, j)
    BY <1>4 DEF Reached
  <1>7. j \in 1..Len(Route[t])
    <2>1. Len(Route[t]) \in Nat
      BY RouteFacts
    <2>2. QED
      BY <1>5, <1>6, <2>1
  <1>8. i + 1 = j
    BY <1>1, <1>6, <1>7, StandardInjective
  <1>9. i + 1 <= at[a] /\ i - 1 < at[a] /\ i < at[a]
    <2>1. Progress(a) \in Nat /\ i + 1 <= Progress(a) /\ i >= 2
      BY <1>1, <1>5, <1>6, <1>8
    <2>2. Progress(a) = at[a]
      <3>1. at[a] # 0
        BY <2>1 DEF Progress
      <3>2. QED
        BY <3>1 DEF Progress
    <2>3. QED
      BY <1>5, <2>1, <2>2
  <1>10. QED
    BY <1>1, <1>2, <1>9

\* What a handler is at is not in the list of its task.
LEMMA WorkNotListed ==
    ASSUME Typed, Listed, NEW a \in Agvs, NEW t \in TaskIds, handler[a].task = t, handler[a].pc \in {"lock", "ask", "undo"},
           NEW r, InSeq(handler[a].locked, r)
    PROVE  ~InSeq(lockList[t], r)
  <1>1. PICK s, l \in Seq(Resources), d \in Seq(Resources) :
           s = lockList[t] /\ l = handler[a].locked /\ d = handler[a].todo
    BY HandlerParts DEF Typed, TypeOK
  <1>2. Along(t, l \o d) /\ Ahead(t, s, l \o d)
    BY <1>1 DEF Listed, Continues, Work
  <1>3. Along(t, l) /\ Ahead(t, s, l)
    BY <1>2, AlongFirstPart
  <1>4. PICK j \in DOMAIN l : l[j] = r
    BY <1>1 DEF InSeq
  <1>5. ASSUME NEW i \in DOMAIN s, s[i] = r PROVE FALSE
    <2>1. Index(t, s[i]) < Index(t, l[j]) /\ Index(t, l[j]) \in 1..Len(Route[t])
      BY <1>3, AlongDistinct DEF Ahead
    <2>2. Index(t, r) < Index(t, r) /\ Index(t, r) \in Nat
      BY <1>4, <1>5, <2>1, RouteFacts
    <2>3. QED
      BY <2>2
  <1>6. QED
    BY <1>1, <1>5 DEF InSeq

\* The handler of an AGV that is under way takes a lock only from behind it, as
\* long as the locks of the list are concerned.
LEMMA BehindOwn ==
    ASSUME Typed, Listed, NEW a \in Agvs, CycleOf(a), TrailOf(a), Acts(a),
           NEW t \in TaskIds, current[a] = t, order[a] = t, ending[a] = <<>>,
           NEW r \in Resources, InList(t, r), user[r] = a, user'[r] # a
    PROVE  Index(t, r) < at[a]
  <1> DEFINE Good == Index(t, r) < at[a]
  <1>1. a # NoAgv /\ t # NoTask
    OBVIOUS
  <1>2. ASSUME NEW u \in TaskIds, Schedule(a, u) PROVE Good
    BY <1>1, <1>2 DEF Schedule
  <1>3. ASSUME Move(a) \/ Stop(a) \/ LoseReport(a) \/ End(a) \/ FinishTask(a) \/ Read(a) \/ AskHolder(a) \/ Extend(a)
        PROVE  Good
    BY <1>3 DEF Move, Stop, LoseReport, End, FinishTask, Read, AskHolder, Extend, dispatcher
  <1>4. ASSUME ReleaseAll(a) PROVE Good
    BY <1>4 DEF ReleaseAll
  <1>5. ASSUME NEW x, Left(a, t, x) PROVE r = x
    BY <1>1, <1>5 DEF Left
  <1>6. PICK n \in Reports : n = handler[a].report
    BY HandlerParts
  <1>7. ASSUME ReleaseNode(a) PROVE Good
    <2>1. handler[a].pc = "node" /\ handler[a].task = t
      BY <1>7 DEF ReleaseNode, CycleOf
    <2>2. PICK m \in Reports : m = reported[a] /\ Step(t, m, n)
      BY <1>6, <2>1, TrailUse DEF Typed, TypeOK
    <2>3. NodeChanged(a) /\ r = m.node
      BY <1>5, <1>7, <2>1, <2>2, NodeEffect
    <2>4. m.node \notin {None, n.node}
      BY <1>6, <2>2, <2>3 DEF NodeChanged
    <2>5. PICK i \in Nat : Onward(t, i, m, n)
      BY <2>2, <2>4, StepCases
    <2>6. Index(t, m.node) = i - 1 /\ i - 1 < at[a]
      BY <1>6, <2>1, <2>5, Passed
    <2>7. QED
      BY <2>3, <2>6
  <1>8. ASSUME ReleaseEdge(a) PROVE Good
    <2>1. handler[a].pc = "edge" /\ handler[a].task = t
      BY <1>8 DEF ReleaseEdge, CycleOf
    <2>2. PICK m \in Reports : HalfWay(a, m)
      BY <2>1, TrailUse
    <2>3. Step(t, m, n) /\ reported[a] = [node |-> n.node, edge |-> m.edge]
      BY <1>6, <2>2 DEF HalfWay
    <2>4. \A u \in TaskIds : u = handler[a].task => NextResources(u, lockList'[u]) \in Seq(Resources)
      BY <1>8, EdgeLists, ListedParts
    <2>5. EdgeChanged(a) /\ r = m.edge
      <3>1. \/ UNCHANGED <<user, lockList>>
            \/ EdgeChanged(a) /\ Left(a, t, reported[a].edge)
        BY <1>8, <2>1, <2>4, EdgeEffect
      <3>2. QED
        BY <1>5, <2>3, <3>1
    <2>6. m.edge \notin {None, n.edge}
      BY <1>6, <2>3, <2>5 DEF EdgeChanged
    <2>7. PICK i \in Nat : Onward(t, i, m, n)
      BY <2>3, <2>6, StepCases
    <2>8. Index(t, m.edge) = i /\ i < at[a]
      <3>1. Onward(t, i, m, handler[a].report) /\ handler[a].pc \in {"node", "edge"}
        BY <1>6, <2>1, <2>7
      <3>2. Index(t, m.edge) = i
        BY <3>1, Passed
      <3>3. i < at[a]
        BY <3>1, Passed
      <3>4. QED
        BY <3>2, <3>3
    <2>9. QED
      BY <2>5, <2>8
  <1>9. ASSUME LockNext(a) PROVE Good
    <2>1. PICK x \in Resources : UNCHANGED user \/ (user[x] = NoAgv /\ user' = [user EXCEPT ![x] = a])
      BY <1>9, LockEffect
    <2>2. user \in [Resources -> Agvs \cup {NoAgv}]
      BY DEF Typed, TypeOK
    <2>3. user'[r] = a
      BY <1>1, <2>1, <2>2
    <2>4. QED
      BY <2>3
  <1>10. ASSUME Undo(a) PROVE Good
    <2>1. handler[a].pc = "undo" /\ handler[a].task = t
      BY <1>10 DEF Undo, CycleOf
    <2>2. /\ handler[a].locked # <<>>
          /\ user' = [x \in Resources |-> IF x = Head(handler[a].locked) /\ user[x] = a THEN NoAgv ELSE user[x]]
      BY <1>10, UndoEffect
    <2>3. r = Head(handler[a].locked)
      BY <2>2
    <2>4. InSeq(handler[a].locked, r)
      <3>1. ASSUME NEW l \in Seq(Resources), l # <<>> PROVE InSeq(l, Head(l))
        <4>1. Len(l) >= 1 /\ DOMAIN l = 1..Len(l) /\ Head(l) = l[1]
          BY <3>1, EmptySeq, LenProperties
        <4>2. 1 \in DOMAIN l
          BY <4>1, LenProperties
        <4>3. QED
          BY <4>1, <4>2 DEF InSeq
      <3>2. QED
        BY <2>2, <2>3, <3>1, HandlerParts
    <2>5. ~InSeq(lockList[t], r)
      BY <2>1, <2>4, WorkNotListed
    <2>6. QED
      BY <2>5 DEF InList, InSeq
  <1> HIDE DEF Good
  <1>11. Good
    BY <1>2, <1>3, <1>4, <1>7, <1>8, <1>9, <1>10 DEF Acts, HandlerStep
  <1>12. QED
    BY <1>11 DEF Good

\* StandardReleasesBehind, for any AGVs, routes and windows: as long as no order of an AGV
\* has ended on an edge and none of its reports is lost, and tasks end after their reports
\* were handled (Calm), an AGV that reports the node it reached last and its edge never
\* has a lock taken from it on which it stands or which it has still to pass, however
\* late its reports are handled.
THEOREM ReleasesOnlyBehind ==
    ASSUME Calm, Standard \cap Lossy = {}
    PROVE  Spec => StandardReleasesBehind
  <1> DEFINE Inv == Typed /\ Listed /\ Cycle /\ Trail
  <1>1. Init => Inv
    BY TypedInit, ListedInit, CycleInit, TrailInit
  <1>2. Inv /\ [Next]_vars => Inv'
    BY TypedStep, ListedStep, ListedParts, CycleStep, TrailStep
  <1>3. Inv /\ [Next]_vars => [\A a \in Standard \ astray : LeavesOnlyBehind(a)]_vars
    <2> SUFFICES ASSUME Inv, Next, NEW a \in Standard \ astray, current[a] # NoTask, order[a] = current[a], ending[a] = <<>>,
                        NEW r \in Resources, InList(current[a], r), user[r] = a, user'[r] # a
                 PROVE  Index(current[a], r) < at[a]
      BY DEF LeavesOnlyBehind
    <2>1. a \in Agvs /\ a \in Reliable
      BY SwitchesAssumption DEF Reliable
    <2>2. CycleOf(a) /\ TrailOf(a)
      BY <2>1, Zenon DEF Cycle, Trail
    <2>3. PICK t \in TaskIds : t = current[a]
      BY <2>1 DEF Typed, TypeOK
    <2>4. PICK b \in Agvs : Acts(b)
      BY NextActs
    <2>5. b = a
      BY <2>1, <2>4, OthersLocks
    <2>6. QED
      BY <2>1, <2>2, <2>3, <2>4, <2>5, BehindOwn
  <1>4. QED
    BY <1>1, <1>2, <1>3, PTL DEF Spec, StandardReleasesBehind

-----------------------------------------------------------------------------
(* The window follows the AGV *)

LEMMA WindowUse ==
    ASSUME NEW a \in Agvs, NEW t \in TaskIds, current[a] = t, WindowRight(a)
    PROVE  /\ handler[a].pc \in {"idle", "node"} => lockList[t] = WindowAt(t, reported[a])
           /\ handler[a].pc = "edge" =>
                \E m \in Reports : /\ HalfWay(a, m)
                                   /\ lockList[t] = IF handler[a].changed THEN Without(WindowAt(t, m), m.node)
                                                    ELSE WindowAt(t, m)
           /\ handler[a].pc = "lock" => lockList[t] \o Work(a) = WindowAt(t, reported[a])
           /\ handler[a].pc \notin {"ask", "undo"}
  BY DEF WindowRight

LEMMA WindowAgain ==
    ASSUME NEW a \in Agvs, NEW t \in TaskIds, current'[a] = t,
           \/ handler'[a].pc \in {"idle", "node"} /\ lockList'[t] = WindowAt(t, reported'[a])
           \/ handler'[a].pc = "lock" /\ lockList'[t] \o Work(a)' = WindowAt(t, reported'[a])
    PROVE  WindowRight(a)'
  BY DEF WindowRight

\* Nothing that the window depends on has changed.
LEMMA WindowKept ==
    ASSUME NEW a \in Agvs, NEW t \in TaskIds, current[a] = t, WindowRight(a),
           current'[a] = t, handler'[a] = handler[a], reported'[a] = reported[a], lockList'[t] = lockList[t]
    PROVE  WindowRight(a)'
  <1>1. Work(a)' = Work(a)
    BY DEF Work
  <1>2. \A m : HalfWay(a, m) => HalfWay(a, m)'
    BY DEF HalfWay
  <1>3. PICK l, h, r : l = lockList[t] /\ h = handler[a] /\ r = reported[a]
    OBVIOUS
  <1>4. h.pc = "edge" =>
            \E m \in Reports : /\ HalfWay(a, m)'
                               /\ l = IF h.changed THEN Without(WindowAt(t, m), m.node) ELSE WindowAt(t, m)
    BY <1>2, <1>3, WindowUse
  <1>5. /\ h.pc \in {"idle", "node"} => l = WindowAt(t, r)
        /\ h.pc = "lock" => l \o Work(a)' = WindowAt(t, r)
        /\ h.pc \notin {"ask", "undo"}
    BY <1>1, <1>3, WindowUse
  <1>6. lockList'[t] = l /\ handler'[a] = h /\ reported'[a] = r
    BY <1>3
  <1>7. QED
    BY <1>4, <1>5, <1>6 DEF WindowRight

\* A new task: the window begins where it stands.
LEMMA ScheduleWindow ==
    ASSUME Typed, NEW a \in Agvs, CycleOf(a), TrailOf(a), NEW t \in TaskIds, Schedule(a, t)
    PROVE  WindowRight(a)'
  <1>1. /\ current[a] = NoTask /\ lockList'[t] = First(t) /\ Only(current, current', a, t)
        /\ UNCHANGED <<reported, handler>> /\ Route[t][1] = place[a]
    BY ScheduleEffect DEF Schedule
  <1>2. handler[a].pc = "idle"
    BY <1>1 DEF CycleOf, Resting
  <1>3. reported[a] \in {Nowhere, StandardReport(t, 1)}
    BY <1>1, FirstReport DEF TrailOf
  <1>4. WindowAt(t, reported[a]) = First(t)
    <2>1. 1 \in 1..Len(Route[t]) /\ StandardReport(t, 1).node = Route[t][1]
      BY FirstReport
    <2>2. Index(t, StandardReport(t, 1).node) = 1
      BY <2>1, RouteFacts
    <2>3. QED
      BY <1>3, <2>2 DEF WindowAt, First
  <1>5. current'[a] = t /\ handler'[a] = handler[a] /\ reported'[a] = reported[a]
    BY <1>1 DEF Only
  <1>6. QED
    BY <1>1, <1>2, <1>4, <1>5, WindowAgain

\* What has been dealt with is the node.
LEMMA NodeWindow ==
    ASSUME Typed, NEW a \in Agvs, CycleOf(a), TrailOf(a), NEW t \in TaskIds, current[a] = t,
           WindowRight(a), ReleaseNode(a)
    PROVE  WindowRight(a)'
  <1>1. handler[a].pc = "node" /\ handler[a].task = t
    BY DEF ReleaseNode, CycleOf
  <1>2. /\ handler'[a].pc = "edge" /\ handler'[a].report = handler[a].report
        /\ handler'[a].changed = NodeChanged(a)
        /\ Noted(a, [node |-> handler[a].report.node, edge |-> reported[a].edge])
        /\ \/ lockList' = lockList /\ ~NodeChanged(a)
           \/ NodeChanged(a) /\ Left(a, t, reported[a].node)
    BY <1>1, NodeEffect
  <1>3. PICK m \in Reports : m = reported[a]
    BY DEF Typed, TypeOK
  <1>4. Step(t, m, handler[a].report) /\ lockList[t] = WindowAt(t, m)
    BY <1>1, <1>3, TrailUse, WindowUse
  <1>5. current'[a] = t
    BY DEF ReleaseNode
  <1>6. HalfWay(a, m)'
    <2>1. Step(current'[a], m, handler'[a].report)
      BY <1>2, <1>4, <1>5
    <2>2. reported'[a] = [node |-> handler'[a].report.node, edge |-> m.edge]
      BY <1>2, <1>3 DEF Noted
    <2>3. handler'[a].changed = (m.node \notin {None, handler'[a].report.node})
      BY <1>2, <1>3 DEF NodeChanged
    <2>4. QED
      BY <2>1, <2>2, <2>3 DEF HalfWay
  <1>7. lockList'[t] = IF handler'[a].changed THEN Without(WindowAt(t, m), m.node) ELSE WindowAt(t, m)
    BY <1>2, <1>3, <1>4 DEF Left
  <1>8. QED
    BY <1>2, <1>5, <1>6, <1>7 DEF WindowRight

\* The node and the edge it has left are out of the list, and what follows is
\* to be locked.
LEMMA EdgeWindow ==
    ASSUME 3 <= Window, Typed, Listed, NEW a \in Agvs, CycleOf(a), TrailOf(a), NEW t \in TaskIds, current[a] = t,
           WindowRight(a), ReleaseEdge(a)
    PROVE  WindowRight(a)'
  <1>1. handler[a].pc = "edge" /\ handler[a].task = t /\ current'[a] = t
    BY DEF ReleaseEdge, CycleOf
  <1>2. PICK n \in Reports : n = handler[a].report
    BY HandlerParts
  <1>3. PICK m \in Reports : /\ HalfWay(a, m)
                             /\ lockList[t] = IF handler[a].changed THEN Without(WindowAt(t, m), m.node)
                                              ELSE WindowAt(t, m)
    BY <1>1, WindowUse
  <1>4. /\ Step(t, m, n) /\ reported[a] = [node |-> n.node, edge |-> m.edge]
        /\ handler[a].changed = (m.node \notin {None, n.node})
    BY <1>2, <1>3 DEF HalfWay
  <1>5. EdgeChanged(a) <=> m.edge \notin {None, n.edge}
    BY <1>2, <1>4 DEF EdgeChanged
  <1>6. \A u \in TaskIds : u = handler[a].task => NextResources(u, lockList'[u]) \in Seq(Resources)
    BY EdgeLists, ListedParts
  <1>7. PICK more \in BOOLEAN :
          /\ more = ((handler[a].changed \/ EdgeChanged(a)) /\ Len(lockList'[t]) < Window)
          /\ ~more => handler'[a] = NoWork
          /\ more => /\ handler'[a].pc = "lock" /\ handler'[a].todo = NextResources(t, lockList'[t])
                     /\ handler'[a].locked = <<>>
          /\ \/ lockList' = lockList /\ ~EdgeChanged(a)
             \/ EdgeChanged(a) /\ Left(a, t, reported[a].edge)
    <2>1. t # NoTask
      OBVIOUS
    <2>2. QED
      BY <1>1, <1>6, <2>1, EdgeEffect
  <1>8. reported'[a] = n
    BY <1>2, EdgeTrail
  <1>9. CASE m.node \in {None, n.node} /\ m.edge \in {None, n.edge} /\ WindowAt(t, m) = WindowAt(t, n)
    <2>1. ~handler[a].changed /\ ~EdgeChanged(a)
      BY <1>4, <1>5, <1>9
    <2>2. ~more
      BY <1>7, <2>1
    <2>3. handler'[a].pc = "idle"
      BY <1>7, <2>2, NoWorkWhole
    <2>4. lockList'[t] = WindowAt(t, n)
      BY <1>3, <1>7, <1>9, <2>1
    <2>5. QED
      BY <1>1, <1>8, <2>3, <2>4, WindowAgain
  <1>10. CASE \E i \in Nat : Onward(t, i, m, n)
    <2>1. PICK i \in Nat : Onward(t, i, m, n)
      BY <1>10
    <2>2. /\ i - 1 \in 1..Len(Route[t]) /\ i \in 1..Len(Route[t]) /\ i + 1 \in 1..Len(Route[t])
          /\ m.node = Route[t][i - 1] /\ m.edge = Route[t][i] /\ n.node = Route[t][i + 1] /\ n.edge = None
          /\ m = StandardReport(t, i) /\ n = StandardReport(t, i + 1)
      BY <2>1 DEF Onward
    <2>3. /\ Index(t, Route[t][i - 1]) = i - 1 /\ Index(t, Route[t][i]) = i /\ Index(t, Route[t][i + 1]) = i + 1
          /\ Route[t][i - 1] \in Resources /\ Route[t][i] \in Resources
      BY <2>2, RouteFacts
    <2>4. handler[a].changed /\ EdgeChanged(a)
      <3>1. i - 1 # i + 1
        OBVIOUS
      <3>2. m.node # n.node
        BY <2>2, <2>3, <3>1
      <3>3. QED
        BY <1>4, <1>5, <2>2, <2>3, <3>2
    <2>5. m # Nowhere /\ n # Nowhere
      BY <2>2, StandardFacts
    <2>6. /\ WindowAt(t, m) = Stretch(t, i - 1, Window)
          /\ WindowAt(t, n) = Stretch(t, i + 1, Window)
      BY <2>2, <2>3, <2>5 DEF WindowAt
    <2>7. Window \in Nat /\ Window >= 3
      BY BoundsAssumption
    <2>8. lockList[t] = Stretch(t, i, Window - 1)
      <3>1. Without(Stretch(t, i - 1, Window), Route[t][i - 1]) = Stretch(t, (i - 1) + 1, Window - 1)
        <4>1. PICK j \in 1..Len(Route[t]) : j = i - 1
          BY <2>2
        <4>2. Window \in Nat /\ Window >= 1
          BY <2>7
        <4>3. Without(Stretch(t, j, Window), Route[t][j]) = Stretch(t, j + 1, Window - 1)
          BY <4>2, StretchTail, Zenon
        <4>4. QED
          BY <4>1, <4>3
      <3>2. (i - 1) + 1 = i
        OBVIOUS
      <3>3. QED
        BY <1>3, <2>2, <2>4, <2>6, <3>1, <3>2
    <2>9. lockList'[t] = Stretch(t, i + 1, Window - 2)
      <3>1. Without(Stretch(t, i, Window - 1), Route[t][i]) = Stretch(t, i + 1, (Window - 1) - 1)
        <4>1. i \in 1..Len(Route[t]) /\ Window - 1 \in Nat /\ Window - 1 >= 1
          BY <2>2, <2>7
        <4>2. QED
          BY <4>1, StretchTail, Zenon
      <3>2. (Window - 1) - 1 = Window - 2
        BY <2>7
      <3>3. reported[a].edge = Route[t][i]
        BY <1>4, <2>2
      <3>4. QED
        BY <1>7, <2>4, <2>8, <3>1, <3>2, <3>3 DEF Left
    <2>10. PICK s \in Seq(Resources) : s = lockList'[t] /\ Len(s) < Window
      <3>1. i + 1 \in Nat /\ 1 <= i + 1 /\ i + 1 <= Len(Route[t]) + 1 /\ Window - 2 \in Nat
        BY <2>2, <2>7, RouteFacts
      <3>2. PICK s : s = Stretch(t, i + 1, Window - 2)
        OBVIOUS
      <3>3. s \in Seq(Resources) /\ Len(s) \in Nat /\ Len(s) <= Window - 2
        BY <3>1, <3>2, StretchFacts
      <3>4. QED
        BY <2>7, <2>9, <3>2, <3>3
    <2>11. more
      BY <1>7, <2>4, <2>10
    <2>12. PICK d \in Seq(Resources) : d = NextResources(t, s) /\ handler'[a].todo = d
      BY <1>1, <1>6, <1>7, <2>10, <2>11
    <2>13. Work(a)' = d
      <3>1. <<>> \o d = d
        BY ListMoves
      <3>2. handler'[a].locked = <<>>
        BY <1>7, <2>11
      <3>3. QED
        BY <2>12, <3>1, <3>2 DEF Work
    <2>14. s \o d = Stretch(t, i + 1, Window)
      <3>1. Window - 2 \in Nat /\ Window - 2 >= 1 /\ Window - 2 <= Window
        BY <2>7
      <3>2. PICK k \in 1..Len(Route[t]), w \in Nat : k = i + 1 /\ w = Window - 2
        BY <2>2, <3>1
      <3>3. w >= 1 /\ w <= Window /\ s = Stretch(t, k, w)
        BY <2>9, <2>10, <3>1, <3>2
      <3>4. s \o NextResources(t, s) = Stretch(t, k, Window)
        BY <3>3, StretchFilled
      <3>5. QED
        BY <2>12, <3>2, <3>4
    <2>15. lockList'[t] \o Work(a)' = WindowAt(t, reported'[a])
      BY <1>8, <2>6, <2>10, <2>13, <2>14
    <2>16. QED
      BY <1>1, <1>7, <2>11, <2>15, WindowAgain
  <1>11. QED
    BY <1>4, <1>9, <1>10, StepCases

\* What is locked comes to the list.
LEMMA LockWindow ==
    ASSUME Typed, NEW a \in Agvs, CycleOf(a), NEW t \in TaskIds, current[a] = t, t \notin refused',
           WindowRight(a), LockNext(a)
    PROVE  WindowRight(a)'
  <1>1. handler[a].pc = "lock" /\ handler[a].task = t /\ UNCHANGED <<lockList, current, reported>>
    BY DEF LockNext, CycleOf
  <1>2. PICK r \in Resources :
          /\ handler[a].todo # <<>> /\ r = Head(handler[a].todo)
          /\ \/ /\ handler'[a].pc = "lock" /\ handler'[a].todo = Tail(handler[a].todo)
                /\ handler'[a].locked = Append(handler[a].locked, r)
             \/ refused' = refused \cup {handler[a].task}
    BY LockEffect
  <1>3. /\ handler'[a].pc = "lock" /\ handler'[a].todo = Tail(handler[a].todo)
        /\ handler'[a].locked = Append(handler[a].locked, r)
    BY <1>1, <1>2
  <1>4. PICK l, d \in Seq(Resources) : l = handler[a].locked /\ d = handler[a].todo
    BY HandlerParts
  <1>5. Append(l, Head(d)) \o Tail(d) = l \o d
    BY <1>2, <1>4, ListMoves, HandlerParts
  <1>6. Work(a)' = Work(a)
    BY <1>2, <1>3, <1>4, <1>5 DEF Work
  <1>7. lockList'[t] \o Work(a)' = WindowAt(t, reported'[a])
    BY <1>1, <1>6, WindowUse
  <1>8. current'[a] = t
    BY <1>1
  <1>9. QED
    BY <1>3, <1>7, <1>8, WindowAgain

LEMMA ExtendWindow ==
    ASSUME Typed, NEW a \in Agvs, CycleOf(a), NEW t \in TaskIds, current[a] = t, WindowRight(a), Extend(a)
    PROVE  WindowRight(a)'
  <1>1. PICK u \in TaskIds :
          /\ handler[a].pc = "lock" /\ handler[a].todo = <<>> /\ handler[a].task = u
          /\ handler'[a] = NoWork /\ lockList'[u] = lockList[u] \o handler[a].locked
    BY ExtendEffect
  <1>2. u = t
    BY <1>1 DEF CycleOf
  <1>3. UNCHANGED <<current, reported>>
    BY DEF Extend
  <1>4. Work(a) = handler[a].locked
    <2>1. PICK l \in Seq(Resources) : l = handler[a].locked
      BY HandlerParts
    <2>2. l \o <<>> = l
      BY ListMoves
    <2>3. QED
      BY <1>1, <2>1, <2>2 DEF Work
  <1>5. lockList'[t] = WindowAt(t, reported'[a])
    BY <1>1, <1>2, <1>3, <1>4, WindowUse
  <1>6. handler'[a].pc = "idle" /\ current'[a] = t
    BY <1>1, <1>3, NoWorkWhole
  <1>7. QED
    BY <1>5, <1>6, WindowAgain

LEMMA WindowOwn ==
    ASSUME 3 <= Window, Typed, Listed, NEW a \in Agvs, CycleOf(a), TrailOf(a), Acts(a),
           current[a] # NoTask /\ current[a] \notin refused => WindowRight(a),
           NEW t \in TaskIds, current'[a] = t, t \notin refused'
    PROVE  WindowRight(a)'
  <1> DEFINE Good == WindowRight(a)'
  <1>1. ASSUME NEW u \in TaskIds, Schedule(a, u) PROVE Good
    BY <1>1, ScheduleWindow
  <1>2. t \notin refused
    <2>1. \A u \in TaskIds : Schedule(a, u) => refused' = refused
      BY DEF Schedule
    <2>2. LockNext(a) => refused \subseteq refused'
      BY LockEffect
    <2>3. ~LockNext(a) /\ ~(\E u \in TaskIds : Schedule(a, u)) => refused' = refused
      BY DEF Acts, HandlerStep, Move, Stop, LoseReport, End, FinishTask, ReleaseAll, Read, ReleaseNode, ReleaseEdge,
             AskHolder, Extend, Undo, dispatcher, ghosts
    <2>4. QED
      BY <2>1, <2>2, <2>3
  <1>3. ASSUME current[a] = t PROVE WindowRight(a)
    BY <1>2, <1>3
  <1>4. ASSUME Move(a) \/ Stop(a) \/ LoseReport(a) \/ End(a) \/ ReleaseAll(a) PROVE Good
    <2>1. UNCHANGED <<current, handler, reported, lockList>>
      BY <1>4 DEF Move, Stop, LoseReport, End, ReleaseAll, dispatcher
    <2>2. QED
      BY <1>3, <2>1, WindowKept
  <1>5. ASSUME FinishTask(a) PROVE Good
    BY <1>5, FinishEffect DEF Only
  <1>6. ASSUME Read(a) PROVE Good
    <2>1. handler[a].pc = "idle" /\ handler'[a].pc = "node" /\ UNCHANGED <<current, reported, lockList>>
      BY <1>6, ReadEffect DEF Read, dispatcher
    <2>2. current[a] = t /\ WindowRight(a)
      BY <1>3, <2>1
    <2>3. lockList'[t] = WindowAt(t, reported'[a])
      BY <2>1, <2>2, WindowUse
    <2>4. QED
      BY <2>1, <2>3, WindowAgain
  <1>7. ASSUME ReleaseNode(a) PROVE Good
    <2>1. current[a] = t
      BY <1>7 DEF ReleaseNode
    <2>2. QED
      BY <1>3, <1>7, <2>1, NodeWindow
  <1>8. ASSUME ReleaseEdge(a) PROVE Good
    <2>1. current[a] = t
      BY <1>8 DEF ReleaseEdge
    <2>2. QED
      BY <1>3, <1>8, <2>1, EdgeWindow
  <1>9. ASSUME LockNext(a) PROVE Good
    <2>1. current[a] = t
      BY <1>9 DEF LockNext
    <2>2. QED
      BY <1>3, <1>9, <2>1, LockWindow
  <1>10. ASSUME AskHolder(a) \/ Undo(a) PROVE Good
    <2>1. current[a] = t /\ handler[a].pc \in {"ask", "undo"}
      BY <1>10 DEF AskHolder, Undo, dispatcher
    <2>2. QED
      BY <1>3, <2>1, WindowUse
  <1>11. ASSUME Extend(a) PROVE Good
    <2>1. current[a] = t
      BY <1>11 DEF Extend
    <2>2. QED
      BY <1>3, <1>11, <2>1, ExtendWindow
  <1> HIDE DEF Good
  <1>12. Good
    BY <1>1, <1>4, <1>5, <1>6, <1>7, <1>8, <1>9, <1>10, <1>11 DEF Acts, HandlerStep
  <1>13. QED
    BY <1>12 DEF Good

LEMMA WindowsInit == Init => Windows
  BY SwitchesAssumption DEF Init, Windows, Reliable

LEMMA WindowsStep ==
    ASSUME 3 <= Window, Typed, Typed', Listed, Cycle, Trail, Windows, [Next]_vars
    PROVE  Windows'
  <1>1. \A a \in Reliable : a \in Agvs
    BY SwitchesAssumption DEF Reliable
  <1> SUFFICES ASSUME NEW b \in Agvs, b \in Reliable, current'[b] # NoTask, current'[b] \notin refused', b \notin astray'
               PROVE  WindowRight(b)'
    BY <1>1 DEF Windows
  <1>a. b \notin astray
    BY AstrayGrows
  <1>2. PICK t \in TaskIds : t = current'[b]
    BY DEF Typed, TypeOK
  <1>3. CycleOf(b) /\ TrailOf(b) /\ (current[b] # NoTask /\ current[b] \notin refused => WindowRight(b))
    BY <1>a DEF Cycle, Trail, Windows
  <1>4. ASSUME Acts(b) PROVE WindowRight(b)'
    BY <1>2, <1>3, <1>4, WindowOwn
  <1>5. ASSUME NEW a \in Agvs, Acts(a), b # a PROVE WindowRight(b)'
    <2>1. SameFor(b)
      BY <1>5, OthersSame
    <2>2. current[b] = t /\ current'[b] = t
      BY <1>2, <2>1 DEF SameFor
    <2>3. lockList'[t] = lockList[t] /\ t \notin refused
      BY <1>2, <1>5, <2>2, OthersTask DEF Has
    <2>4. QED
      BY <1>3, <2>1, <2>2, <2>3, WindowKept DEF SameFor
  <1>6. CASE Next
    BY <1>4, <1>5, <1>6, NextActs
  <1>7. CASE UNCHANGED vars
    <2>1. UNCHANGED <<current, reported, handler, lockList, refused>>
      BY <1>7 DEF vars, dispatcher, ghosts
    <2>2. QED
      BY <1>2, <1>3, <2>1, WindowKept
  <1>8. QED
    BY <1>6, <1>7

\* When all reports of an AGV that reports the node it reached last, and the edge, are
\* handled, none was lost and none of its orders has ended on an edge, its window begins
\* at the node it reached last, unless a lock was refused to it: the window is neither
\* ahead of the AGV nor behind it, for any route and any speed.  (A window of one or two
\* resources is used up when the AGV comes to its next node, and nothing follows an empty
\* list.)
THEOREM WindowsFollow ==
    ASSUME Calm, 3 <= Window
    PROVE  Spec => []WindowFollows
  <1> DEFINE Inv == Typed /\ Listed /\ Cycle /\ Trail /\ Windows
  <1>1. Init => Inv
    BY TypedInit, ListedInit, CycleInit, TrailInit, WindowsInit
  <1>2. Inv /\ [Next]_vars => Inv'
    BY TypedStep, ListedStep, ListedParts, CycleStep, TrailStep, WindowsStep
  <1>3. Inv => WindowFollows
    <2> SUFFICES ASSUME Inv, NEW a \in Agvs, a \in Reliable, a \notin astray, order[a] # NoTask, order[a] = current[a],
                        order[a] \notin refused, at[a] > 0, inbox[a] = <<>>, handler[a].pc = "idle"
                 PROVE  lockList[order[a]] = Stretch(order[a], NodeBefore(at[a]), Window)
      BY SwitchesAssumption DEF WindowFollows, Reliable
    <2>1. PICK t \in TaskIds : t = order[a] /\ t = current[a]
      BY DEF Typed, TypeOK
    <2>2. TrailOf(a) /\ WindowRight(a)
      BY <2>1 DEF Trail, Windows
    <2>3. Chain(t, Seen(a), inbox[a], LastReport(a)) /\ lockList[t] = WindowAt(t, reported[a])
      BY <2>1, <2>2, TrailUse, WindowUse
    <2>4. reported[a] = LastReport(a)
      BY <2>3 DEF Chain, Seen
    <2>5. PICK i \in 1..Len(Route[t]) : i = Progress(a)
      BY <2>1, ProgressFacts
    <2>6. i = at[a]
      <3>1. at[a] # 0
        BY <2>1, ProgressFacts
      <3>2. QED
        BY <2>5, <3>1 DEF Progress
    <2>7. reported[a] = StandardReport(t, i)
      BY <2>1, <2>4, <2>5, ProgressFacts
    <2>8. WindowAt(t, reported[a]) = Stretch(t, NodeBefore(i), Window)
      <3>1. StandardReport(t, i) # Nowhere /\ Index(t, StandardReport(t, i).node) = NodeBefore(i)
        BY StandardFacts
      <3>2. QED
        BY <2>7, <3>1 DEF WindowAt
    <2>9. QED
      BY <2>1, <2>3, <2>6, <2>8
  <1>4. QED
    BY <1>1, <1>2, <1>3, PTL DEF Spec
=============================================================================
