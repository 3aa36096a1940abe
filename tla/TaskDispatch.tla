---------------------------- MODULE TaskDispatch ----------------------------
(***************************************************************************)
(* How the dispatcher gives tasks to AGVs and learns how they ended.  HTTP *)
(* threads run scheduleTaskWithTimeWindow of PathPlanningController; the   *)
(* MQTT callback thread runs the handlers of MqttGateway; both work on the *)
(* maps of AgvTaskDispatcher and on the resource locks.  The locks are     *)
(* those of LeaseTable, which RedisResourceLockService implements          *)
(* (ResourceLock).                                                         *)
(*                                                                         *)
(* One step is one access to shared state.  The AGV is the simulator as    *)
(* the dispatcher sees it: it takes orders one by one and reports each.    *)
(***************************************************************************)
EXTENDS Naturals, Sequences

CONSTANTS
    Agvs, Resources, Threads, TaskIds,
    NoAgv, NoTask,
    Paths,        \* the lists "toLock" of planned paths: three resources at most
    Reports,      \* how an AGV reports each way a task may end
    Quiet,        \* TRUE: no request for an AGV while another one is served or
                  \* a report of the AGV is on its way
    Immediate,    \* TRUE: an AGV may answer before the request has assigned the task
                  \* (FALSE: the two puts of assignTask are faster than its answer)
    Loss,         \* TRUE: orders and reports may get lost (no connection, QoS 0)
    SendFails     \* TRUE: building the order may throw

Ends == {"FINISHED", "FAILED", "CANCELLED"}
TaskStatuses == {"WAITING", "ACCEPTED", "RUNNING", "PAUSED"} \cup Ends

Kinds == {"orderState", "taskComplete", "orderFinish"}
Messages == [kind : Kinds, task : TaskIds, state : TaskStatuses]

ASSUME NobodyAssumption == NoAgv \notin Agvs /\ NoTask \notin TaskIds
ASSUME PathsAssumption == Paths \subseteq Seq(Resources) \ {<<>>}
ASSUME ReportsAssumption ==
    \A e \in DOMAIN Reports :
        e \in Ends /\ Reports[e] \subseteq Seq([kind : Kinds, state : TaskStatuses])
ASSUME SwitchesAssumption ==
    /\ Quiet \in BOOLEAN
    /\ Immediate \in BOOLEAN
    /\ Loss \in BOOLEAN
    /\ SendFails \in BOOLEAN

VARIABLES
    user,            \* who holds each node or edge
    status,          \* tasks: the status of each task, "none" when it is not stored
    lockList,        \* resourceLockList of each task
    agvCurrentTask,  \* the current task of each AGV
    agvStatus,       \* agvStatusMap: connected and state of each AGV, if known
    req,             \* what each HTTP thread is doing
    mqtt,            \* what the MQTT callback thread is doing
    orders,          \* orders on their way to each AGV
    inbox,           \* reports on their way from each AGV
    work,            \* the order each AGV executes
    ended            \* how the AGV has ended each task, as it knows itself

dispatcher == <<user, status, lockList, agvCurrentTask, agvStatus>>
agv == <<work, ended>>
vars == <<dispatcher, req, mqtt, orders, inbox, agv>>

Table == INSTANCE LeaseTable

-----------------------------------------------------------------------------
States == {"IDLE", "EXECUTING", "PAUSED", "ERROR"}

RequestStates ==
    [pc : {"idle", "lock", "undo", "send", "assign", "current"}, agv : Agvs \cup {NoAgv},
     todo : Seq(Resources), locked : Seq(Resources), task : TaskIds \cup {NoTask}]

TypeOK ==
    /\ user \in [Resources -> Agvs \cup {NoAgv}]
    /\ status \in [TaskIds -> TaskStatuses \cup {"none"}]
    /\ lockList \in [TaskIds -> SUBSET Resources]
    /\ agvCurrentTask \in [Agvs -> TaskIds \cup {NoTask}]
    /\ agvStatus \in [Agvs -> [known : BOOLEAN, connected : BOOLEAN, state : States]]
    /\ req \in [Threads -> RequestStates]
    /\ mqtt \in [agv : Agvs \cup {NoAgv}, task : TaskIds \cup {NoTask},
                 todo : Seq({"finish", "fail", "cancel", "release"})]
    /\ orders \in [Agvs -> Seq(TaskIds)]
    /\ inbox \in [Agvs -> Seq(Messages)]
    /\ work \in [Agvs -> TaskIds \cup {NoTask}]
    /\ ended \in [TaskIds -> Ends \cup {"no"}]

NoRequest == [pc |-> "idle", agv |-> NoAgv, todo |-> <<>>, locked |-> <<>>, task |-> NoTask]
NoMessage == [agv |-> NoAgv, task |-> NoTask, todo |-> <<>>]

Init ==
    /\ user = [r \in Resources |-> NoAgv]
    /\ status = [t \in TaskIds |-> "none"]
    /\ lockList = [t \in TaskIds |-> {}]
    /\ agvCurrentTask = [a \in Agvs |-> NoTask]
    /\ agvStatus = [a \in Agvs |-> [known |-> FALSE, connected |-> FALSE, state |-> "IDLE"]]
    /\ req = [h \in Threads |-> NoRequest]
    /\ mqtt = NoMessage
    /\ orders = [a \in Agvs |-> <<>>]
    /\ inbox = [a \in Agvs |-> <<>>]
    /\ work = [a \in Agvs |-> NoTask]
    /\ ended = [t \in TaskIds |-> "no"]

-----------------------------------------------------------------------------
(* scheduleTaskWithTimeWindow *)

Serving(a) == \E h \in Threads : req[h].agv = a

MayRequest(a) ==
    Quiet => ~Serving(a) /\ inbox[a] = <<>> /\ mqtt.agv # a

\* Mutant: the request does not ask whether the AGV has a task.
RequestUnchecked(h, a, path) ==
    /\ req[h].pc = "idle"
    /\ MayRequest(a)
    /\ agvStatus[a].known
    /\ req' = [req EXCEPT ![h] = [NoRequest EXCEPT !.pc = "lock", !.agv = a, !.todo = path]]
    /\ UNCHANGED <<dispatcher, mqtt, orders, inbox, agv>>

\* The AGV is known and has no current task; a path is planned.
Request(h, a, path) ==
    /\ req[h].pc = "idle"
    /\ MayRequest(a)
    /\ agvStatus[a].known
    /\ agvCurrentTask[a] = NoTask
    /\ req' = [req EXCEPT ![h] = [NoRequest EXCEPT !.pc = "lock", !.agv = a, !.todo = path]]
    /\ UNCHANGED <<dispatcher, mqtt, orders, inbox, agv>>

\* A task nobody has heard of.
NewTask(t) ==
    /\ status[t] = "none" /\ lockList[t] = {}
    /\ \A h \in Threads : req[h].task # t

\* tryLockPath, one resource.  With the last one the task is created.
LockNext(h) ==
    /\ req[h].pc = "lock"
    /\ Table!Grant(req[h].agv, Head(req[h].todo))
    /\ LET next == [req[h] EXCEPT !.todo = Tail(@), !.locked = Append(@, Head(req[h].todo))]
       IN IF next.todo # <<>>
          THEN req' = [req EXCEPT ![h] = next] /\ UNCHANGED lockList
          ELSE \E t \in TaskIds :
                 /\ NewTask(t)
                 /\ req' = [req EXCEPT ![h] = [next EXCEPT !.pc = "send", !.task = t]]
                 /\ lockList' = [lockList EXCEPT ![t] = {next.locked[i] : i \in DOMAIN next.locked}]
    /\ UNCHANGED <<status, agvCurrentTask, agvStatus, mqtt, orders, inbox, agv>>

\* Mutant: tryLockPath keeps what it has.
NoRollback(q) == NoRequest

\* tryLockPath gives back what it has and the request fails.
AfterRefusal(q) == IF q.locked = <<>> THEN NoRequest ELSE [q EXCEPT !.pc = "undo"]

LockRefused(h) ==
    /\ req[h].pc = "lock"
    /\ user[Head(req[h].todo)] # NoAgv
    /\ req' = [req EXCEPT ![h] = AfterRefusal(@)]
    /\ UNCHANGED <<dispatcher, mqtt, orders, inbox, agv>>

\* releaseResource does nothing to a resource another AGV has got meanwhile.
LockUndo(h) ==
    /\ req[h].pc = "undo"
    /\ Table!GiveBack({r \in {Head(req[h].locked)} : user[r] = req[h].agv})
    /\ req' = [req EXCEPT ![h] = AfterRefusal([req[h] EXCEPT !.locked = Tail(@)])]
    /\ UNCHANGED <<status, lockList, agvCurrentTask, agvStatus, mqtt, orders, inbox, agv>>

\* sendVda5050Order does not tell whether the order went out.
Send(h) ==
    /\ req[h].pc = "send"
    /\ \/ orders' = [orders EXCEPT ![req[h].agv] = Append(@, req[h].task)]
       \/ Loss /\ UNCHANGED orders
    /\ req' = [req EXCEPT ![h].pc = "assign"]
    /\ UNCHANGED <<dispatcher, mqtt, inbox, agv>>

\* convertPathToOrder throws: the request fails and keeps the locks.
SendThrows(h) ==
    /\ SendFails
    /\ req[h].pc = "send"
    /\ req' = [req EXCEPT ![h] = NoRequest]
    /\ UNCHANGED <<dispatcher, mqtt, orders, inbox, agv>>

\* assignTask stores the task, and then makes it the AGV's current one without
\* asking again whether the AGV has a task.
StoreTask(h) ==
    /\ req[h].pc = "assign"
    /\ status' = [status EXCEPT ![req[h].task] = "WAITING"]
    /\ req' = [req EXCEPT ![h].pc = "current"]
    /\ UNCHANGED <<user, lockList, agvCurrentTask, agvStatus, mqtt, orders, inbox, agv>>

\* Mutant: only the task is stored.
AssignForgotten(h) ==
    /\ req[h].pc = "current"
    /\ req' = [req EXCEPT ![h] = NoRequest]
    /\ UNCHANGED <<dispatcher, mqtt, orders, inbox, agv>>

Assign(h) ==
    /\ req[h].pc = "current"
    /\ agvCurrentTask' = [agvCurrentTask EXCEPT ![req[h].agv] = req[h].task]
    /\ req' = [req EXCEPT ![h] = NoRequest]
    /\ UNCHANGED <<user, status, lockList, agvStatus, mqtt, orders, inbox, agv>>

-----------------------------------------------------------------------------
(* The handlers of the MQTT callback thread *)

\* Mutant: a failed task is finished before it is failed.
StepsSwapped(m) ==
    CASE m.kind = "orderState" /\ m.state = "FINISHED" -> <<"finish", "release">>
      [] m.kind = "orderState" /\ m.state = "FAILED" -> <<"fail", "release">>
      [] m.kind = "orderState" /\ m.state \notin {"FINISHED", "FAILED"} -> <<>>
      [] m.kind = "taskComplete" /\ m.state = "FAILED" -> <<"release", "finish", "release", "fail">>
      [] OTHER -> <<"release", "finish">>

\* Mutant: a failed order gives the locks back, the task stays.
StepsNoFail(m) ==
    CASE m.kind = "orderState" /\ m.state = "FAILED" -> <<"release">>
      [] m.kind = "orderState" /\ m.state # "FAILED" /\ m.state # "FINISHED" -> <<>>
      [] OTHER -> <<"finish", "release">>

\* What a handler does to the dispatcher's maps and to the locks, in order.
\* The order state of a cancelled order is spelt "CANCELED" in the code.
Steps(m) ==
    CASE m.kind = "orderState" /\ m.state = "FINISHED" -> <<"finish", "release">>
      [] m.kind = "orderState" /\ m.state = "FAILED" -> <<"fail", "release">>
      [] m.kind = "orderState" /\ m.state \notin {"FINISHED", "FAILED"} -> <<>>
      [] m.kind = "taskComplete" /\ m.state = "FAILED" -> <<"release", "fail", "release", "finish">>
      [] m.kind = "taskComplete" /\ m.state = "CANCELLED" -> <<"release", "cancel", "release", "finish">>
      [] OTHER -> <<"release", "finish">>

\* Mutant: the reported state is stored as it is.
StateAsReported(m, s) == m.state

\* mapOrderStateToTaskState, and setAgvTaskStatus of the completion handlers.
StateAfter(m, s) ==
    CASE m.kind = "orderFinish" -> s
      [] m.state = "FINISHED" -> "IDLE"
      [] m.state = "FAILED" -> "ERROR"
      [] m.kind = "taskComplete" -> IF m.state = "CANCELLED" THEN "IDLE" ELSE "ERROR"
      [] m.state = "PAUSED" -> "PAUSED"
      [] m.state \in {"ACCEPTED", "RUNNING"} -> "EXECUTING"
      [] OTHER -> s

\* A message arrives: the AGV's state and, for an order state, the status of
\* the task it names are updated.
Receive(a) ==
    /\ mqtt = NoMessage
    /\ inbox[a] # <<>>
    /\ LET m == Head(inbox[a])
       IN /\ agvStatus' = [agvStatus EXCEPT ![a].state = IF agvStatus[a].known
                                                         THEN StateAfter(m, @) ELSE @]
          /\ status' = IF m.kind = "orderState" /\ status[m.task] # "none"
                       THEN [status EXCEPT ![m.task] = m.state] ELSE status
          /\ mqtt' = IF Steps(m) = <<>> THEN NoMessage
                     ELSE [agv |-> a, task |-> NoTask, todo |-> Steps(m)]
    /\ inbox' = [inbox EXCEPT ![a] = Tail(@)]
    /\ UNCHANGED <<user, lockList, agvCurrentTask, req, orders, agv>>

NextStep ==
    IF Tail(mqtt.todo) = <<>> THEN NoMessage ELSE [mqtt EXCEPT !.todo = Tail(@), !.task = NoTask]

EndStatus(op) ==
    CASE op = "finish" -> "FINISHED" [] op = "fail" -> "FAILED" [] op = "cancel" -> "CANCELLED"

\* Mutant: a task is ended but stays its AGV's current one.
FreeKeeps ==
    /\ mqtt.todo # <<>> /\ Head(mqtt.todo) # "release" /\ mqtt.task = NoTask
    /\ mqtt' = LET t == agvCurrentTask[mqtt.agv]
               IN IF t = NoTask THEN NextStep ELSE [mqtt EXCEPT !.task = t]
    /\ UNCHANGED <<dispatcher, req, orders, inbox, agv>>

\* finishTask, failTask and cancelTask take the AGV's current task away, whichever
\* task the message is about ...
FreeAgv ==
    /\ mqtt.todo # <<>> /\ Head(mqtt.todo) # "release" /\ mqtt.task = NoTask
    /\ agvCurrentTask' = [agvCurrentTask EXCEPT ![mqtt.agv] = NoTask]
    /\ mqtt' = LET t == agvCurrentTask[mqtt.agv]
               IN IF t = NoTask THEN NextStep ELSE [mqtt EXCEPT !.task = t]
    /\ UNCHANGED <<user, status, lockList, agvStatus, req, orders, inbox, agv>>

\* Mutant: the AGV is freed, its task is not ended.
EndTaskForgotten ==
    /\ mqtt.task # NoTask
    /\ mqtt' = NextStep
    /\ UNCHANGED <<dispatcher, req, orders, inbox, agv>>

\* ... and then end it, if it is stored.
EndTask ==
    /\ mqtt.task # NoTask
    /\ status' = IF status[mqtt.task] = "none" THEN status
                 ELSE [status EXCEPT ![mqtt.task] = EndStatus(Head(mqtt.todo))]
    /\ mqtt' = NextStep
    /\ UNCHANGED <<user, lockList, agvCurrentTask, agvStatus, req, orders, inbox, agv>>

\* releaseAllByAgv
ReleaseAll ==
    /\ mqtt.todo # <<>> /\ Head(mqtt.todo) = "release"
    /\ Table!GiveBack({r \in Resources : user[r] = mqtt.agv})
    /\ mqtt' = NextStep
    /\ UNCHANGED <<status, lockList, agvCurrentTask, agvStatus, req, orders, inbox, agv>>

\* handleConnectionMessage: setAgvOnline or setAgvOffline.
Connection(a, online) ==
    /\ mqtt = NoMessage
    /\ online \/ agvStatus[a].known
    /\ agvStatus' = [agvStatus EXCEPT ![a].connected = online, ![a].known = TRUE]
    /\ UNCHANGED <<user, status, lockList, agvCurrentTask, req, mqtt, orders, inbox, agv>>

-----------------------------------------------------------------------------
(* The AGV and the network *)

\* The AGV accepts the next order.
TakeOrder(a) ==
    /\ work[a] = NoTask
    /\ orders[a] # <<>>
    /\ Immediate \/ \A h \in Threads : req[h].task # Head(orders[a])
    /\ work' = [work EXCEPT ![a] = Head(orders[a])]
    /\ orders' = [orders EXCEPT ![a] = Tail(@)]
    /\ inbox' = [inbox EXCEPT ![a] = Append(@, [kind |-> "orderState", task |-> Head(orders[a]),
                                                state |-> "ACCEPTED"])]
    /\ UNCHANGED <<dispatcher, req, mqtt, ended>>

\* It reports that it runs or pauses (one such report on its way is enough).
Progress(a, s) ==
    /\ work[a] # NoTask
    /\ inbox[a] = <<>>
    /\ inbox' = [inbox EXCEPT ![a] = <<[kind |-> "orderState", task |-> work[a], state |-> s]>>]
    /\ UNCHANGED <<dispatcher, req, mqtt, orders, agv>>

\* It is done with the order and reports how, in one of several ways.
EndOrder(a, e) ==
    /\ work[a] # NoTask
    /\ \E rep \in Reports[e] :
         inbox' = [inbox EXCEPT ![a] = @ \o [i \in DOMAIN rep |->
                     [kind |-> rep[i].kind, task |-> work[a], state |-> rep[i].state]]]
    /\ ended' = [ended EXCEPT ![work[a]] = e]
    /\ work' = [work EXCEPT ![a] = NoTask]
    /\ UNCHANGED <<dispatcher, req, mqtt, orders>>

LoseReport(a) ==
    /\ Loss
    /\ inbox[a] # <<>>
    /\ inbox' = [inbox EXCEPT ![a] = Tail(@)]
    /\ UNCHANGED <<dispatcher, req, mqtt, orders, agv>>

-----------------------------------------------------------------------------
RequestStep(h) ==
    LockNext(h) \/ LockRefused(h) \/ LockUndo(h) \/ Send(h) \/ SendThrows(h)
    \/ StoreTask(h) \/ Assign(h)

HandlerStep == (\E a \in Agvs : Receive(a)) \/ FreeAgv \/ EndTask \/ ReleaseAll

AgvStep(a) ==
    \/ TakeOrder(a)
    \/ \E s \in {"RUNNING", "PAUSED"} : Progress(a, s)
    \/ \E e \in DOMAIN Reports : EndOrder(a, e)
    \/ LoseReport(a)

Next ==
    \/ \E h \in Threads, a \in Agvs, path \in Paths : Request(h, a, path)
    \/ \E h \in Threads : RequestStep(h)
    \/ HandlerStep
    \/ \E a \in Agvs, online \in BOOLEAN : Connection(a, online)
    \/ \E a \in Agvs : AgvStep(a)

Spec == Init /\ [][Next]_vars

\* Requests and handlers run on, every AGV's reports are read, and an AGV
\* ends what it has accepted.
Fairness ==
    /\ \A h \in Threads : WF_vars(RequestStep(h))
    /\ WF_vars(FreeAgv \/ EndTask \/ ReleaseAll)
    /\ \A a \in Agvs : /\ SF_vars(Receive(a))
                       /\ WF_vars(TakeOrder(a))
                       /\ WF_vars(\E e \in DOMAIN Reports : EndOrder(a, e))

FairSpec == Spec /\ Fairness

-----------------------------------------------------------------------------
(* Properties *)

\* An AGV executes an order only while it holds every node and edge that was
\* locked for it, whatever other AGVs, requests and late reports do.
DrivesOnOwnLocks ==
    \A a \in Agvs : work[a] # NoTask => \A r \in lockList[work[a]] : user[r] = a

\* An AGV without a task, for which nothing is under way, blocks no resource:
\* neither a refused request nor an ended task leaves a lock behind.
IdleHoldsNothing ==
    \A a \in Agvs :
        (agvCurrentTask[a] = NoTask /\ ~Serving(a) /\ mqtt.agv # a)
            => \A r \in Resources : user[r] # a

\* A task is stored as ended the way its own AGV has ended it (the handlers
\* end the current task of the AGV, whichever task the report names).
OutcomeIsReported ==
    \A t \in TaskIds : status[t] \in Ends => status[t] = ended[t]

\* A request stores the task and will make it its AGV's current one; a handler
\* has taken the task from its AGV and will end it.
BeingAssigned(t) == \E h \in Threads : req[h].pc = "current" /\ req[h].task = t
BeingEnded(t) == mqtt.task = t

\* The check that the AGV has no task yet: no open task is forgotten because
\* the AGV was given another one.
NoOrphanTask ==
    \A t \in TaskIds :
        status[t] \notin Ends \cup {"none"} =>
            \/ \E a \in Agvs : agvCurrentTask[a] = t
            \/ BeingAssigned(t) \/ BeingEnded(t)

\* Comment of handleOrderStateMessage: the AGV's current task is cleared by a
\* terminal state.  That is so of FINISHED and FAILED; CANCELLED is stored like
\* every state but clears nothing, for the code looks for "CANCELED".
CurrentTaskOpen ==
    mqtt = NoMessage =>
        \A a \in Agvs : agvCurrentTask[a] # NoTask =>
            status[agvCurrentTask[a]] \notin {"FINISHED", "FAILED"}

\* Tasks are given out, ended and followed by the next as in TaskBoard.  A task
\* is given out when it becomes its AGV's, and ends when a report says so or it
\* is taken from its AGV to be ended.
Phase(t) ==
    IF status[t] = "none" \/ BeingAssigned(t) THEN "new"
    ELSE IF status[t] \in Ends THEN status[t]
    ELSE IF BeingEnded(t) THEN EndStatus(Head(mqtt.todo)) ELSE "open"

Board == INSTANCE TaskBoard WITH phase <- [t \in TaskIds |-> Phase(t)], busy <- agvCurrentTask
ImplementsTaskBoard == Board!Spec

\* An AGV that was given a task is free again some day, unless the order was
\* cancelled at the AGV and the report of that has freed nobody.
TaskEnds ==
    \A a \in Agvs, t \in TaskIds :
        agvCurrentTask[a] = t ~> agvCurrentTask[a] # t \/ ended[t] = "CANCELLED"
=============================================================================
