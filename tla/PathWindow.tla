----------------------------- MODULE PathWindow -----------------------------
(***************************************************************************)
(* The window of locked nodes and edges ahead of each AGV: MqttGateway's   *)
(* doHandlePositionUpdate, which runs on one thread per AGV and in the     *)
(* order of the AGV's reports, with buildNextResources and                 *)
(* tryLockPathWithDetail of RedisResourceLockService.  The MQTT callback   *)
(* thread, which ends tasks, runs beside it.  Scheduling is one step here  *)
(* (TaskDispatch has its steps), and so are a lock and a release           *)
(* (ResourceLock).                                                         *)
(*                                                                         *)
(* A route is a node, an edge, a node, ..., a node.  An AGV is given the   *)
(* whole route and drives it whatever is locked.                           *)
(***************************************************************************)
EXTENDS Naturals, Sequences

CONSTANTS
    Agvs, Resources, TaskIds,
    NoAgv, NoTask,
    None,        \* no node or no edge in a report
    Route,       \* the route of each task
    Home,        \* the node each AGV stands on at first
    Window,      \* MAX_LOCK: how many resources are locked ahead
    Standard,    \* AGVs that report the node they reached last and the edge they
                 \* are on; the others report as AgvSimulator does
    Lossy,       \* AGVs whose reports may get lost
    Calm,        \* TRUE: a task ends when the reports on their way are handled,
                 \* and the next one is scheduled when all of that is over
    MaxReports   \* bound on the reports of an AGV that wait

ASSUME NobodyAssumption == NoAgv \notin Agvs /\ NoTask \notin TaskIds /\ None \notin Resources
ASSUME RouteAssumption ==
    \A t \in TaskIds : /\ Route[t] \in Seq(Resources)
                       /\ Len(Route[t]) >= 3 /\ Len(Route[t]) % 2 = 1
                       /\ \A i, j \in DOMAIN Route[t] : Route[t][i] = Route[t][j] => i = j
ASSUME HomeAssumption == Home \in [Agvs -> Resources]
ASSUME BoundsAssumption == Window \in Nat \ {0} /\ MaxReports \in Nat \ {0}
ASSUME SwitchesAssumption == Standard \subseteq Agvs /\ Lossy \subseteq Agvs /\ Calm \in BOOLEAN

VARIABLES
    user,        \* who holds each node and edge
    lockList,    \* resourceLockList of each task, <<>> before it is scheduled
    current,     \* agvCurrentTask
    reported,    \* lastReportNodeId and lastReportEdgeId of each AGV
    inbox,       \* reports that wait for the AGV's thread
    handler,     \* what that thread is doing
    ending,      \* what the MQTT thread has still to do to end the AGV's task
    order,       \* the task each AGV executes, as it knows itself
    at,          \* where it is on the route, 0 before it has started
    place,       \* the node where it stands when it has no order
    scheduled,   \* the tasks that were scheduled
    refused,     \* the tasks for which a lock was refused
    astray       \* the AGVs an order of which has ended on an edge

dispatcher == <<user, lockList, current, reported>>
agv == <<order, at, place>>
ghosts == <<scheduled, refused, astray>>
vars == <<dispatcher, inbox, handler, ending, agv, ghosts>>

Table == INSTANCE LeaseTable

-----------------------------------------------------------------------------
(* Routes *)

Index(t, r) == CHOOSE i \in DOMAIN Route[t] : Route[t][i] = r

\* The index of the node an AGV at index i is on, or of the one it comes from.
NodeBefore(i) == IF i % 2 = 1 THEN i ELSE i - 1

\* The node at index i, or the two at the ends of the edge at index i; the
\* first node before the AGV has started.
NodesBeside(t, i) ==
    {Route[t][j] : j \in {k \in DOMAIN Route[t] : k % 2 = 1 /\ k <= i + 1 /\ i <= k + 1}}

\* At most n resources of the route, from the one at index i.
Stretch(t, i, n) ==
    SubSeq(Route[t], i, IF i + n - 1 <= Len(Route[t]) THEN i + n - 1 ELSE Len(Route[t]))

\* What an AGV at index i of a route reports: AgvSimulator names the node
\* before the one it stands on, and no edges.
StandardReport(t, i) ==
    IF i = 0 THEN [node |-> Route[t][1], edge |-> None]
    ELSE [node |-> Route[t][NodeBefore(i)], edge |-> IF i % 2 = 0 THEN Route[t][i] ELSE None]

SimulatorReport(t, i) ==
    [edge |-> None,
     node |-> CASE i = 0 -> Route[t][1] [] i \in {1, 2} -> None [] OTHER -> Route[t][NodeBefore(i) - 2]]

ReportOf(a, t, i) == IF a \in Standard THEN StandardReport(t, i) ELSE SimulatorReport(t, i)

Places == Resources \cup {None}
Reports == [node : Places, edge : Places]
NoWork == [pc |-> "idle", task |-> NoTask, report |-> [node |-> None, edge |-> None],
           changed |-> FALSE, todo |-> <<>>, locked |-> <<>>]

TypeOK ==
    /\ user \in [Resources -> Agvs \cup {NoAgv}]
    /\ lockList \in [TaskIds -> Seq(Resources)]
    /\ current \in [Agvs -> TaskIds \cup {NoTask}]
    /\ reported \in [Agvs -> Reports]
    /\ inbox \in [Agvs -> Seq(Reports)]
    /\ handler \in [Agvs -> [pc : {"idle", "node", "edge", "lock", "ask", "undo"},
                             task : TaskIds \cup {NoTask}, report : Reports,
                             changed : BOOLEAN, todo : Seq(Resources), locked : Seq(Resources)]]
    /\ ending \in [Agvs -> Seq({"finish", "release"})]
    /\ order \in [Agvs -> TaskIds \cup {NoTask}]
    /\ \A a \in Agvs : at[a] \in 0..(IF order[a] = NoTask THEN 0 ELSE Len(Route[order[a]]))
    /\ place \in [Agvs -> Resources]
    /\ scheduled \subseteq TaskIds /\ refused \subseteq TaskIds /\ astray \subseteq Agvs

Init ==
    /\ user = [r \in Resources |-> NoAgv]
    /\ lockList = [t \in TaskIds |-> <<>>]
    /\ current = [a \in Agvs |-> NoTask]
    /\ reported = [a \in Agvs |-> [node |-> None, edge |-> None]]
    /\ inbox = [a \in Agvs |-> <<>>]
    /\ handler = [a \in Agvs |-> NoWork]
    /\ ending = [a \in Agvs |-> <<>>]
    /\ order = [a \in Agvs |-> NoTask]
    /\ at = [a \in Agvs |-> 0]
    /\ place = Home
    /\ scheduled = {} /\ refused = {} /\ astray = {}

-----------------------------------------------------------------------------
(* Scheduling, and the AGV *)

First(t) == Stretch(t, 1, Window)

Send(a, m) ==
    /\ Len(inbox[a]) < MaxReports
    /\ inbox' = [inbox EXCEPT ![a] = IF inbox[a] # <<>> /\ inbox[a][Len(inbox[a])] = m THEN @ ELSE Append(@, m)]

\* scheduleTaskWithTimeWindow: the first resources of the path are locked, the
\* AGV gets the order and takes it at once.
Schedule(a, t) ==
    /\ current[a] = NoTask /\ order[a] = NoTask
    /\ t \notin scheduled /\ Route[t][1] = place[a]
    /\ Calm => ending[a] = <<>>
    /\ \A i \in DOMAIN First(t) : user[First(t)[i]] = NoAgv
    /\ user' = [r \in Resources |-> IF \E i \in DOMAIN First(t) : First(t)[i] = r THEN a ELSE user[r]]
    /\ lockList' = [lockList EXCEPT ![t] = First(t)]
    /\ current' = [current EXCEPT ![a] = t]
    /\ order' = [order EXCEPT ![a] = t]
    /\ Send(a, ReportOf(a, t, 0))
    /\ scheduled' = scheduled \cup {t}
    /\ UNCHANGED <<reported, handler, ending, at, place, refused, astray>>

\* The AGV goes on to the next edge or node of its route.
Move(a) ==
    /\ order[a] # NoTask /\ at[a] < Len(Route[order[a]])
    /\ at' = [at EXCEPT ![a] = @ + 1]
    /\ Send(a, ReportOf(a, order[a], at[a] + 1))
    /\ UNCHANGED <<dispatcher, handler, ending, order, place, ghosts>>

\* Mutant: keeps the place on the route.
StopKeepsIndex(a) ==
    /\ order[a] # NoTask
    /\ order' = [order EXCEPT ![a] = NoTask]
    /\ \E p \in NodesBeside(order[a], at[a]) : place' = [place EXCEPT ![a] = p]
    /\ astray' = IF at[a] > 0 /\ at[a] % 2 = 0 THEN astray \cup {a} ELSE astray
    /\ UNCHANGED <<dispatcher, inbox, handler, ending, at, scheduled, refused>>

\* Its order ends: at the last node, at any other, before it has started, or on
\* an edge, when a movement fails or times out or the order is cancelled.  From
\* an edge the next route begins at either end of it.  AgvSimulator forgets the
\* last node when a resumed movement fails.
Stop(a) ==
    /\ order[a] # NoTask
    /\ order' = [order EXCEPT ![a] = NoTask]
    /\ \E p \in NodesBeside(order[a], at[a]) : place' = [place EXCEPT ![a] = p]
    /\ at' = [at EXCEPT ![a] = 0]
    /\ astray' = IF at[a] > 0 /\ at[a] % 2 = 0 THEN astray \cup {a} ELSE astray
    /\ \/ UNCHANGED inbox
       \/ a \notin Standard /\ Send(a, [node |-> None, edge |-> None])
    /\ UNCHANGED <<dispatcher, handler, ending, scheduled, refused>>

LoseReport(a) ==
    /\ a \in Lossy /\ inbox[a] # <<>>
    /\ inbox' = [inbox EXCEPT ![a] = Tail(@)]
    /\ UNCHANGED <<dispatcher, handler, ending, agv, ghosts>>

-----------------------------------------------------------------------------
(* The MQTT callback thread ends the task: an order state first frees the    *)
(* AGV, a task completion first gives the locks back.                        *)

EndSteps == {<<"finish", "release">>, <<"release", "finish">>}

End(a) ==
    /\ current[a] # NoTask /\ order[a] = NoTask /\ ending[a] = <<>>
    /\ Calm => inbox[a] = <<>> /\ handler[a].pc = "idle"
    /\ \E s \in EndSteps : ending' = [ending EXCEPT ![a] = s]
    /\ UNCHANGED <<dispatcher, inbox, handler, agv, ghosts>>

FinishTask(a) ==
    /\ ending[a] # <<>> /\ Head(ending[a]) = "finish"
    /\ current' = [current EXCEPT ![a] = NoTask]
    /\ ending' = [ending EXCEPT ![a] = Tail(@)]
    /\ UNCHANGED <<user, lockList, reported, inbox, handler, agv, ghosts>>

\* Mutant: only the list of the task is released.
ReleaseListed(a) ==
    /\ ending[a] # <<>> /\ Head(ending[a]) = "release"
    /\ Table!GiveBack(IF current[a] = NoTask THEN {}
                      ELSE {r \in Resources : \E i \in DOMAIN lockList[current[a]] : lockList[current[a]][i] = r})
    /\ ending' = [ending EXCEPT ![a] = Tail(@)]
    /\ UNCHANGED <<lockList, current, reported, inbox, handler, agv, ghosts>>

\* releaseAllByAgv
ReleaseAll(a) ==
    /\ ending[a] # <<>> /\ Head(ending[a]) = "release"
    /\ Table!GiveBack({r \in Resources : user[r] = a})
    /\ ending' = [ending EXCEPT ![a] = Tail(@)]
    /\ UNCHANGED <<lockList, current, reported, inbox, handler, agv, ghosts>>

-----------------------------------------------------------------------------
(* doHandlePositionUpdate *)

\* The current task is read once and used to the end.
Read(a) ==
    /\ handler[a].pc = "idle" /\ inbox[a] # <<>>
    /\ handler' = [handler EXCEPT ![a] = [NoWork EXCEPT !.pc = "node", !.task = current[a],
                                                        !.report = Head(inbox[a])]]
    /\ inbox' = [inbox EXCEPT ![a] = Tail(@)]
    /\ UNCHANGED <<dispatcher, ending, agv, ghosts>>

\* A list names a resource once.
Without(s, r) ==
    LET i == IF \E j \in DOMAIN s : s[j] = r THEN CHOOSE j \in DOMAIN s : s[j] = r ELSE Len(s) + 1
    IN SubSeq(s, 1, i - 1) \o SubSeq(s, i + 1, Len(s))

\* What was reported last is released if the AGV holds it, and leaves the list.
LeaveBehind(a, r) ==
    LET t == handler[a].task
    IN IF t = NoTask THEN UNCHANGED <<user, lockList>>
       ELSE /\ Table!GiveBack({x \in {r} : user[x] = a})
            /\ lockList' = [lockList EXCEPT ![t] = Without(@, r)]

NodeChanged(a) == reported[a].node \notin {None, handler[a].report.node}

\* Mutant: an AGV that leaves the edge for a node is still on it.
EdgeChangedToEdge(a) ==
    None \notin {reported[a].edge, handler[a].report.edge} /\ reported[a].edge # handler[a].report.edge

EdgeChanged(a) == reported[a].edge \notin {None, handler[a].report.edge}

\* Mutant: the node that is reported is released.
ReleaseNewNode(a) ==
    /\ handler[a].pc = "node"
    /\ IF NodeChanged(a) /\ handler[a].report.node # None
       THEN LeaveBehind(a, handler[a].report.node) ELSE UNCHANGED <<user, lockList>>
    /\ reported' = [reported EXCEPT ![a].node = handler[a].report.node]
    /\ handler' = [handler EXCEPT ![a].pc = "edge", ![a].changed = NodeChanged(a)]
    /\ UNCHANGED <<current, inbox, ending, agv, ghosts>>

\* The node it was on before, when the report names another one.
ReleaseNode(a) ==
    /\ handler[a].pc = "node"
    /\ IF NodeChanged(a) THEN LeaveBehind(a, reported[a].node) ELSE UNCHANGED <<user, lockList>>
    /\ reported' = [reported EXCEPT ![a].node = handler[a].report.node]
    /\ handler' = [handler EXCEPT ![a].pc = "edge", ![a].changed = NodeChanged(a)]
    /\ UNCHANGED <<current, inbox, ending, agv, ghosts>>

\* Mutant: as many as the window has.
NextWindow(t, list) ==
    IF list = <<>> THEN <<>> ELSE Stretch(t, Index(t, list[Len(list)]) + 1, Window)

\* buildNextResources: what follows the last resource of the list on the path,
\* as many as the window lacks.  Nothing follows an empty list.
NextResources(t, list) ==
    IF list = <<>> THEN <<>> ELSE Stretch(t, Index(t, list[Len(list)]) + 1, Window - Len(list))

\* Only a report of a new position moves the window.
ReleaseEdge(a) ==
    /\ handler[a].pc = "edge"
    /\ IF EdgeChanged(a) THEN LeaveBehind(a, reported[a].edge) ELSE UNCHANGED <<user, lockList>>
    /\ reported' = [reported EXCEPT ![a].edge = handler[a].report.edge]
    /\ LET t == handler[a].task
       IN handler' = [handler EXCEPT ![a] =
             IF /\ t # NoTask
                /\ handler[a].changed \/ EdgeChanged(a)
                /\ Len(lockList'[t]) < Window
             THEN [@ EXCEPT !.pc = "lock", !.todo = NextResources(t, lockList'[t])]
             ELSE NoWork]
    /\ UNCHANGED <<current, inbox, ending, agv, ghosts>>

-----------------------------------------------------------------------------
(* tryLockPathWithDetail *)

LockNext(a) ==
    /\ handler[a].pc = "lock" /\ handler[a].todo # <<>>
    /\ LET r == Head(handler[a].todo)
       IN \/ /\ Table!Grant(a, r)
             /\ handler' = [handler EXCEPT ![a].todo = Tail(@), ![a].locked = Append(@, r)]
             /\ UNCHANGED refused
          \/ /\ user[r] # NoAgv
             /\ handler' = [handler EXCEPT ![a].pc = "ask"]
             /\ refused' = refused \cup {handler[a].task}
             /\ UNCHANGED user
    /\ UNCHANGED <<lockList, current, reported, inbox, ending, agv, scheduled, astray>>

\* A resource that is locked by nobody any more, or by the AGV itself, is no
\* conflict: the call succeeds with what it has locked so far.
AskHolder(a) ==
    /\ handler[a].pc = "ask"
    /\ LET holder == user[Head(handler[a].todo)]
       IN handler' = [handler EXCEPT ![a] = IF holder \in {a, NoAgv}
                                           THEN [@ EXCEPT !.pc = "lock", !.todo = <<>>]
                                           ELSE [@ EXCEPT !.pc = "undo"]]
    /\ UNCHANGED <<dispatcher, inbox, ending, agv, ghosts>>

\* What was locked joins the list.
Extend(a) ==
    /\ handler[a].pc = "lock" /\ handler[a].todo = <<>>
    /\ lockList' = [lockList EXCEPT ![handler[a].task] = @ \o handler[a].locked]
    /\ handler' = [handler EXCEPT ![a] = NoWork]
    /\ UNCHANGED <<user, current, reported, inbox, ending, agv, ghosts>>

\* Mutant: a conflict ends the call at once.
UndoNothing(a) ==
    /\ handler[a].pc = "undo"
    /\ handler' = [handler EXCEPT ![a] = NoWork]
    /\ UNCHANGED <<dispatcher, inbox, ending, agv, ghosts>>

\* A conflict: what was locked is given back, one by one.  The resolution is
\* published to the AGV, which does not listen to it; the next new position is
\* the next attempt.
Undo(a) ==
    /\ handler[a].pc = "undo"
    /\ LET locked == handler[a].locked
       IN IF locked = <<>> THEN handler' = [handler EXCEPT ![a] = NoWork] /\ UNCHANGED user
          ELSE /\ Table!GiveBack({r \in {Head(locked)} : user[r] = a})
               /\ handler' = [handler EXCEPT ![a].locked = Tail(@)]
    /\ UNCHANGED <<lockList, current, reported, inbox, ending, agv, ghosts>>

-----------------------------------------------------------------------------
HandlerStep(a) ==
    \/ Read(a) \/ ReleaseNode(a) \/ ReleaseEdge(a)
    \/ LockNext(a) \/ AskHolder(a) \/ Extend(a) \/ Undo(a)

Next ==
    \E a \in Agvs :
        \/ \E t \in TaskIds : Schedule(a, t)
        \/ Move(a) \/ Stop(a) \/ LoseReport(a)
        \/ End(a) \/ FinishTask(a) \/ ReleaseAll(a)
        \/ HandlerStep(a)

Spec == Init /\ [][Next]_vars

-----------------------------------------------------------------------------
(* Properties *)

InList(t, r) == \E i \in DOMAIN lockList[t] : lockList[t][i] = r

\* The list of an AGV's task is what the AGV holds.  What it names is locked
\* for the AGV, whatever other AGVs ask for and give back meanwhile: no other
\* AGV is let onto it.  What is locked for the AGV is in the list or about to
\* join it or to be given back: a refused attempt leaves nothing behind.
ListIsExact ==
    \A a \in Agvs, r \in Resources :
        current[a] # NoTask /\ ending[a] = <<>>
            => /\ InList(current[a], r) => user[r] = a
               /\ user[r] = a => \/ InList(current[a], r)
                                \/ \E i \in DOMAIN handler[a].locked : handler[a].locked[i] = r

\* The list follows the path and is never longer than the window, however late
\* or incomplete the reports are.
ListFollowsPath ==
    \A t \in TaskIds :
        /\ Len(lockList[t]) <= Window
        /\ \A i, j \in DOMAIN lockList[t] :
               i < j => Index(t, lockList[t][i]) < Index(t, lockList[t][j])

\* Comment of releaseAllByAgv ("called when a task ends"): an AGV without a
\* task blocks no node and no edge.
IdleHoldsNothing ==
    \A a \in Agvs :
        current[a] = NoTask /\ ending[a] = <<>> /\ handler[a].pc = "idle"
            => \A r \in Resources : user[r] # a

\* A report takes nothing from the list that the AGV has not left.
LeavesOnlyBehind(a) ==
    LET t == current[a]
    IN (t # NoTask /\ order[a] = t /\ ending[a] = <<>>)
       => \A r \in Resources : InList(t, r) /\ user[r] = a /\ user'[r] # a => Index(t, r) < at[a]

\* doHandlePositionUpdate, for AGVs that report the node they reached last and
\* the edge they are on: late reports, refused locks and the ends of tasks never
\* take a lock from an AGV that stands on it or has still to pass.  This is so
\* until an order of the AGV ends on an edge: lastReportEdgeId then outlives the
\* task, and the first report of the next one drops that edge from its list.
StandardReleasesBehind == [][\A a \in Standard \ astray : LeavesOnlyBehind(a)]_vars

\* Comment of doHandlePositionUpdate ("the node has really changed, release the
\* previous node"): no AGV's node is released while it stands there.
ReleasesBehind == [][\A a \in Agvs : LeavesOnlyBehind(a)]_vars

\* When all reports of such an AGV are handled, and none was lost, its window
\* begins at the node it reached last, unless a lock was refused to it.  Like
\* StandardReleasesBehind, this is so until an order of the AGV ends on an edge.
WindowFollows ==
    \A a \in Standard \ (Lossy \cup astray) :
        LET t == order[a]
        IN (/\ t # NoTask /\ t = current[a] /\ t \notin refused /\ at[a] > 0
            /\ ending[a] = <<>> /\ inbox[a] = <<>> /\ handler[a].pc = "idle")
           => lockList[t] = Stretch(t, NodeBefore(at[a]), Window)
=============================================================================
