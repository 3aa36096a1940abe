--------------------------- MODULE OrderExecution ---------------------------
(***************************************************************************)
(* How the AGV of AgvSimulator executes its orders: executor threads of    *)
(* OrderExecutor, the current movement of MovementManager, the current     *)
(* action of ActionManager, and the control commands of AgvStatusManager.  *)
(*                                                                         *)
(* These threads meet here: executor threads (one for each order and one   *)
(* for each resumed order), the MQTT callback thread (orders and commands, *)
(* one by one), WebSocket and HTTP threads (results of movements), the     *)
(* action thread and the timers of checkTimeout and of the battery.        *)
(* MovementManager's methods are synchronized; everything else is a        *)
(* volatile or plain field.                                                *)
(* Steps of an order are numbered from 1: its nodes, then its actions.     *)
(***************************************************************************)
EXTENDS Naturals, Sequences

CONSTANTS
    Orders, Threads,
    NoOrder, NoThread,
    Resumer,        \* the callback of a resumed movement, instead of a thread
    ChargeOrder,    \* the order checkBatteryAndAutoCharge makes up
    Route,          \* the nodes of each order
    ActionCount,    \* how many actions each order has
    Commands,       \* the control commands that are given
    MaxCommands,    \* and how many of them, RESUME not counted
    Fails,          \* orders whose movements and actions may fail or take too long
    LinkFails,      \* TRUE: a message to ROS2 may be refused (no connection)
    LowBattery      \* TRUE: the battery may be low and a charging station known

\* The orders an AGV can have, its own included.
Known == Orders \cup {ChargeOrder}

ASSUME NobodyAssumption ==
    /\ NoOrder \notin Known /\ ChargeOrder \notin Orders
    /\ {NoThread, Resumer} \cap Threads = {}
\* Routes are sequences of some nodes.
NodesOf(o) == {Route[o][i] : i \in DOMAIN Route[o]}
ASSUME RouteAssumption ==
    /\ \A o \in Known : Route[o] \in Seq(NodesOf(o)) /\ Len(Route[o]) >= 2
    /\ \A o \in Orders : ActionCount[o] \in Nat
ASSUME CommandsAssumption ==
    /\ Commands \subseteq {"PAUSE", "RESUME", "CANCEL", "EMERGENCY_STOP", "RESET_EMERGENCY"}
    /\ MaxCommands \in Nat
    /\ Fails \subseteq Orders
    /\ LinkFails \in BOOLEAN /\ LowBattery \in BOOLEAN

VARIABLES
    agv,        \* AgvStatus: state, current order id, order message, node sequence, index
    threads,    \* the executor threads
    move,       \* currentContext of MovementManager
    moves,      \* how many move commands were made (commandId)
    act,        \* currentContext of ActionManager while it is unfinished
    snapshot,   \* ExecutionSnapshot of the last pause
    mqtt,       \* where the order or command on the MQTT thread is
    timer,      \* where checkBatteryAndAutoCharge is
    issued,     \* how many commands were given
    robot,      \* the move command ROS2 executes
    results,    \* results of move commands on their way, over WebSocket or HTTP
    unstored,   \* how many of their threads have yet to store that a movement failed
    emergency,  \* AgvStatus.emergencyStop
    taken,      \* orders accepted so far
    reported,   \* the terminal states reported for each order
    done        \* the steps of each order the robot has really done

movement == <<move, moves, robot>>
ghosts == <<taken, reported, done>>
vars == <<agv, threads, movement, act, snapshot, mqtt, timer, issued, results, unstored, emergency, ghosts>>

-----------------------------------------------------------------------------
Steps(o) == Len(Route[o]) + ActionCount[o]
AgvStates == {"IDLE", "MOVING", "EXECUTING", "PAUSED", "ERROR", "CHARGING"}
\* COMPLETED stands for the task completion that follows the state FINISHED.
Outcomes == {"FINISHED", "COMPLETED", "FAILED", "CANCELLED"}
MqttStates == {"idle", "accepted", "pauseMove", "pauseStop", "pauseState", "resumed",
               "cancelMove", "cancelled", "stopMove", "stopped"}

NoWork == [pc |-> "off", order |-> NoOrder, step |-> 0]
NoMove == [id |-> 0, order |-> NoOrder, step |-> 0, waiter |-> NoThread, index |-> 0, done |-> FALSE]
NoDrive == [id |-> 0, order |-> NoOrder, step |-> 0]
NoAction == [thread |-> NoThread, stage |-> "queued", paused |-> FALSE]
NoSnapshot == [index |-> 0, order |-> NoOrder, step |-> 0, known |-> FALSE]

AnyOrder == Orders \cup {NoOrder}
AnyKnown == Known \cup {NoOrder}

TypeOK ==
    /\ agv \in [state : AgvStates, id : AnyKnown, msg : AnyOrder, plan : AnyKnown, index : Nat]
    /\ threads \in [Threads -> [pc : {"off", "check", "set", "move", "wait", "arrive",
                                      "act", "acting", "told", "error", "cancel"},
                                order : AnyOrder, step : Nat]]
    /\ move \in [id : Nat, order : AnyOrder, step : Nat, index : Nat, done : BOOLEAN,
                 waiter : Threads \cup {NoThread, Resumer}]
    /\ moves \in Nat /\ issued \in Nat
    /\ act \in [thread : Threads \cup {NoThread}, stage : {"queued", "stages", "last"}, paused : BOOLEAN]
    /\ snapshot \in [index : Nat, order : AnyOrder, step : Nat, known : BOOLEAN]
    /\ mqtt \in MqttStates /\ timer \in {"idle", "charging"}
    /\ robot \in [id : Nat, order : AnyOrder, step : Nat]
    /\ results \subseteq [id : 1..moves, ok : BOOLEAN]
    /\ unstored \in Nat /\ emergency \in BOOLEAN
    /\ taken \subseteq Orders
    /\ reported \in [Known -> Seq(Outcomes)]
    /\ \A o \in Orders : done[o] \subseteq 1..Steps(o)

Init ==
    /\ agv = [state |-> "IDLE", id |-> NoOrder, msg |-> NoOrder, plan |-> NoOrder, index |-> 0]
    /\ threads = [h \in Threads |-> NoWork]
    /\ move = NoMove /\ moves = 0
    /\ act = NoAction
    /\ snapshot = NoSnapshot
    /\ mqtt = "idle" /\ timer = "idle" /\ issued = 0
    /\ robot = NoDrive /\ results = {}
    /\ unstored = 0 /\ emergency = FALSE
    /\ taken = {}
    /\ reported = [o \in Known |-> <<>>]
    /\ done = [o \in Orders |-> {}]

Report(o, outcome) ==
    IF o = NoOrder THEN reported ELSE [reported EXCEPT ![o] = Append(@, outcome)]

At(h, pc) == threads[h].pc = pc
Goto(h, pc) == threads' = [threads EXCEPT ![h].pc = pc]
NextStep(h) == threads' = [threads EXCEPT ![h].pc = "check", ![h].step = @ + 1]
Stop(h) == threads' = [threads EXCEPT ![h] = NoWork]

\* runAsync: a thread of its own executes the order from a step on.
Spawn(o, i) ==
    \E h \in Threads : /\ At(h, "off")
                       /\ threads' = [threads EXCEPT ![h] = [pc |-> "check", order |-> o, step |-> i]]

-----------------------------------------------------------------------------
(* Orders: the dispatcher sends one when the last one was reported as ended. *)

\* processVda5050Order, up to the acknowledgement.
AcceptOrder(o) ==
    /\ mqtt = "idle"
    /\ o \notin taken
    /\ \A p \in taken : reported[p] # <<>>
    /\ taken' = taken \cup {o}
    /\ agv' = [agv EXCEPT !.id = o, !.msg = o, !.plan = o, !.index = 1]
    /\ mqtt' = "accepted"
    /\ UNCHANGED <<threads, movement, act, snapshot, timer, issued, results, unstored, emergency, reported, done>>

\* buildExecutionPlan reads the order's edges from the AGV's status, where
\* another thread may have nulled or replaced them.
PlanFails ==
    \/ agv.msg = NoOrder \/ agv.plan = NoOrder
    \/ Len(Route[agv.plan]) < Len(Route[agv.msg])

\* executeOrder; if it throws, the order is dropped and nobody is told.
Execute ==
    /\ mqtt = "accepted"
    /\ IF PlanFails THEN UNCHANGED threads ELSE Spawn(agv.msg, 1)
    /\ mqtt' = "idle"
    /\ UNCHANGED <<agv, movement, act, snapshot, timer, issued, results, unstored, emergency, ghosts>>

\* checkBatteryAndAutoCharge looks at the AGV's state, plans a path to a charging
\* station and then gives the AGV an order of its own.
LowFound ==
    /\ LowBattery /\ timer = "idle" /\ agv.state = "IDLE"
    /\ timer' = "charging"
    /\ UNCHANGED <<agv, threads, movement, act, snapshot, mqtt, issued, results, unstored, emergency, ghosts>>

AutoCharge ==
    /\ timer = "charging"
    /\ agv' = [agv EXCEPT !.state = "CHARGING", !.id = ChargeOrder, !.plan = ChargeOrder, !.index = 1]
    /\ timer' = "idle"
    /\ UNCHANGED <<threads, movement, act, snapshot, mqtt, issued, results, unstored, emergency, ghosts>>

-----------------------------------------------------------------------------
(* executePlan: a step begins only if the AGV is neither paused nor in error. *)

\* completeOrder: the order is reported as finished, then as completed.
TellFinished(h) ==
    /\ agv' = [agv EXCEPT !.state = "IDLE"]
    /\ reported' = Report(threads[h].order, "FINISHED")
    /\ Goto(h, "told")
    /\ UNCHANGED <<movement, act, snapshot, mqtt, timer, issued, results, unstored, emergency, taken, done>>

\* Mutant: a plan is done one step too early.
CompleteEarly(h) ==
    At(h, "check") /\ threads[h].step >= Steps(threads[h].order) /\ TellFinished(h)

Complete(h) ==
    At(h, "check") /\ threads[h].step > Steps(threads[h].order) /\ TellFinished(h)

TellCompleted(h) ==
    /\ At(h, "told")
    /\ reported' = Report(threads[h].order, "COMPLETED")
    /\ Stop(h)
    /\ UNCHANGED <<agv, movement, act, snapshot, mqtt, timer, issued, results, unstored, emergency, taken, done>>

\* Mutant: one step too many.
CheckPastEnd(h) ==
    /\ At(h, "check") /\ threads[h].step <= Steps(threads[h].order) + 1
    /\ CASE agv.state = "PAUSED" -> Stop(h)
         [] agv.state = "ERROR" -> Goto(h, "error")
         [] OTHER -> Goto(h, "set")
    /\ UNCHANGED <<agv, movement, act, snapshot, mqtt, timer, issued, results, unstored, emergency, ghosts>>

Check(h) ==
    /\ At(h, "check") /\ threads[h].step <= Steps(threads[h].order)
    /\ CASE agv.state = "PAUSED" -> Stop(h)
         [] agv.state = "ERROR" -> Goto(h, "error")
         [] OTHER -> Goto(h, "set")
    /\ UNCHANGED <<agv, movement, act, snapshot, mqtt, timer, issued, results, unstored, emergency, ghosts>>

SetState(h) ==
    /\ At(h, "set")
    /\ LET moving == threads[h].step <= Len(Route[threads[h].order])
       IN /\ agv' = [agv EXCEPT !.state = IF moving THEN "MOVING" ELSE "EXECUTING"]
          /\ Goto(h, IF moving THEN "move" ELSE "act")
    /\ UNCHANGED <<movement, act, snapshot, mqtt, timer, issued, results, unstored, emergency, ghosts>>

-----------------------------------------------------------------------------
(* executeMoveStep and MovementManager *)

\* The AGV stands on the first node already.
AtStartNode(h) ==
    /\ At(h, "move") /\ threads[h].step = 1
    /\ Goto(h, "arrive")
    /\ done' = [done EXCEPT ![threads[h].order] = @ \cup {1}]
    /\ UNCHANGED <<agv, movement, act, snapshot, mqtt, timer, issued, results, unstored, emergency, taken, reported>>

\* A new movement replaces the current one, whose waiting thread is not told.
Send(o, i, waiter, index) ==
    /\ moves' = moves + 1
    /\ move' = [id |-> moves + 1, order |-> o, step |-> i, waiter |-> waiter, index |-> index, done |-> FALSE]
    /\ robot' = [id |-> moves + 1, order |-> o, step |-> i]

\* executeMovementSync, up to the wait.
StartMove(h) ==
    /\ At(h, "move")
    /\ Send(threads[h].order, threads[h].step, h, 0)
    /\ Goto(h, "wait")
    /\ UNCHANGED <<agv, act, snapshot, mqtt, timer, issued, results, unstored, emergency, ghosts>>

StartMoveFails(h) ==
    /\ LinkFails
    /\ At(h, "move")
    /\ move' = NoMove /\ moves' = moves + 1
    /\ Goto(h, "error")
    /\ UNCHANGED <<agv, robot, act, snapshot, mqtt, timer, issued, results, unstored, emergency, ghosts>>

\* Mutant: a thread whose movement was cancelled waits on.
MoveTimeoutOwn(h) ==
    /\ At(h, "wait") /\ threads[h].order \in Fails /\ move.waiter = h
    /\ move' = NoMove
    /\ Goto(h, "error")
    /\ UNCHANGED <<agv, moves, robot, act, snapshot, mqtt, timer, issued, results, unstored, emergency, ghosts>>

\* Five minutes have passed: whatever movement is current is cancelled.  The
\* robot is not told.
MoveTimeout(h) ==
    /\ At(h, "wait") /\ (threads[h].order \in Fails \/ move.waiter # h)
    /\ move' = NoMove
    /\ Goto(h, "error")
    /\ UNCHANGED <<agv, moves, robot, act, snapshot, mqtt, timer, issued, results, unstored, emergency, ghosts>>

\* handleArrivedNode: where the node is in the current node sequence, 0 if nowhere.
IndexIn(o, node) ==
    IF \E i \in DOMAIN Route[o] : Route[o][i] = node
    THEN CHOOSE i \in DOMAIN Route[o] :
           Route[o][i] = node /\ \A j \in 1..(i - 1) : Route[o][j] # node
    ELSE 0

\* handleArrivedNode throws without a node sequence, and after it has stored
\* the index of a node that is not in it.
ArrivalThrows(o, i) == agv.plan = NoOrder \/ IndexIn(agv.plan, Route[o][i]) = 0
StatusAfterArrival(o, i) ==
    IF agv.plan = NoOrder THEN agv ELSE [agv EXCEPT !.index = IndexIn(agv.plan, Route[o][i])]

Arrive(h) ==
    /\ At(h, "arrive")
    /\ agv' = StatusAfterArrival(threads[h].order, threads[h].step)
    /\ IF ArrivalThrows(threads[h].order, threads[h].step) THEN Goto(h, "error") ELSE NextStep(h)
    /\ UNCHANGED <<movement, act, snapshot, mqtt, timer, issued, results, unstored, emergency, ghosts>>

\* checkTimeout: no result within the life of the Redis key.
KeyExpires ==
    /\ move # NoMove /\ ~move.done
    /\ move.order \in Fails
    /\ move' = NoMove
    /\ UNCHANGED <<agv, threads, moves, robot, act, snapshot, mqtt, timer, issued, results, unstored, emergency, ghosts>>

-----------------------------------------------------------------------------
(* executeActionStep and ActionManager *)

\* An action that is still running is cancelled: its thread gets an exception.
StartAction(h) ==
    /\ At(h, "act")
    /\ act' = [NoAction EXCEPT !.thread = h]
    /\ threads' = [k \in Threads |->
                    IF k = h THEN [threads[k] EXCEPT !.pc = "acting"]
                    ELSE IF k = act.thread THEN [threads[k] EXCEPT !.pc = "error"]
                    ELSE threads[k]]
    /\ UNCHANGED <<agv, movement, snapshot, mqtt, timer, issued, results, unstored, emergency, ghosts>>

\* executeActionInternal starts by storing RUNNING over a PAUSED, and looks at
\* the status for the last time before its last stage.
ActionRuns ==
    /\ act # NoAction
    /\ \/ act.stage = "queued" /\ act' = [act EXCEPT !.stage = "stages", !.paused = FALSE]
       \/ act.stage = "stages" /\ ~act.paused /\ act' = [act EXCEPT !.stage = "last"]
    /\ UNCHANGED <<agv, threads, movement, snapshot, mqtt, timer, issued, results, unstored, emergency, ghosts>>

ActionDone ==
    /\ act # NoAction /\ act.stage = "last"
    /\ done' = [done EXCEPT ![threads[act.thread].order] = @ \cup {threads[act.thread].step}]
    /\ NextStep(act.thread)
    /\ act' = NoAction
    /\ UNCHANGED <<agv, movement, snapshot, mqtt, timer, issued, results, unstored, emergency, taken, reported>>

\* executeActionSync gives up after a minute.
ActionTimeout(h) ==
    /\ At(h, "acting") /\ (threads[h].order \in Fails \/ act.paused)
    /\ Goto(h, "error")
    /\ act' = NoAction
    /\ UNCHANGED <<agv, movement, snapshot, mqtt, timer, issued, results, unstored, emergency, ghosts>>

-----------------------------------------------------------------------------
(* handleExecutionError reports the order the AGV has now. *)

Error(h) ==
    /\ At(h, "error")
    /\ agv' = [agv EXCEPT !.state = "ERROR"]
    /\ reported' = Report(agv.id, "FAILED")
    /\ Goto(h, "cancel")
    /\ UNCHANGED <<movement, act, snapshot, mqtt, timer, issued, results, unstored, emergency, taken, done>>

\* Mutant: the order is reported as cancelled, too.
CancelOrderReports(h) ==
    /\ At(h, "cancel")
    /\ agv' = [agv EXCEPT !.state = "IDLE", !.plan = NoOrder]
    /\ reported' = Report(agv.id, "CANCELLED")
    /\ Stop(h)
    /\ UNCHANGED <<movement, act, snapshot, mqtt, timer, issued, results, unstored, emergency, taken, done>>

CancelOrder(h) ==
    /\ At(h, "cancel")
    /\ agv' = [agv EXCEPT !.state = "IDLE", !.plan = NoOrder]
    /\ Stop(h)
    /\ UNCHANGED <<movement, act, snapshot, mqtt, timer, issued, results, unstored, emergency, ghosts>>

-----------------------------------------------------------------------------
(* The robot, and the WebSocket thread that handles its results *)

RobotDone(ok) ==
    /\ robot # NoDrive
    /\ ok \/ robot.order \in Fails
    /\ results' = results \cup {[id |-> robot.id, ok |-> ok]}
    /\ done' = IF ok THEN [done EXCEPT ![robot.order] = @ \cup {robot.step}] ELSE done
    /\ robot' = NoDrive
    /\ UNCHANGED <<agv, threads, move, moves, act, snapshot, mqtt, timer, issued, unstored, emergency, taken, reported>>

Current(r) == move # NoMove /\ r.id = move.id

\* A result of a movement that is not the current one changes no movement.
IgnoreResult(r) == ~Current(r) /\ UNCHANGED <<agv, threads, move, reported>>

TellThread(r) ==
    /\ Current(r) /\ move.waiter # Resumer
    /\ threads' = IF At(move.waiter, "wait")
                  THEN [threads EXCEPT ![move.waiter].pc = IF r.ok THEN "arrive" ELSE "error"] ELSE threads
    /\ move' = NoMove
    /\ UNCHANGED <<agv, reported>>

\* Mutant: the rest of the order starts one step too late.
ResumeRestLate(r) ==
    /\ Current(r) /\ move.waiter = Resumer /\ r.ok
    /\ agv' = StatusAfterArrival(move.order, move.step)
    /\ IF ArrivalThrows(move.order, move.step) \/ PlanFails
       THEN move' = [move EXCEPT !.done = TRUE] /\ UNCHANGED threads
       ELSE Spawn(agv.msg, move.index + 2) /\ move' = NoMove
    /\ UNCHANGED reported

\* onMovementSuccess of a resumed movement: the rest of the order starts behind
\* the node that was current when the AGV was paused.  If anything throws, the
\* finished context stays.
ResumeRest(r) ==
    /\ Current(r) /\ move.waiter = Resumer /\ r.ok
    /\ agv' = StatusAfterArrival(move.order, move.step)
    /\ IF ArrivalThrows(move.order, move.step) \/ PlanFails
       THEN move' = [move EXCEPT !.done = TRUE] /\ UNCHANGED threads
       ELSE Spawn(agv.msg, move.index + 1) /\ move' = NoMove
    /\ UNCHANGED reported

\* handleMoveFailed and agvToIdle
MoveFailed == [agv EXCEPT !.state = "IDLE", !.id = NoOrder]

ResumeFailed(r) ==
    /\ Current(r) /\ move.waiter = Resumer /\ ~r.ok
    /\ agv' = MoveFailed
    /\ reported' = Report(agv.id, "FAILED")
    /\ move' = NoMove
    /\ UNCHANGED threads

\* handleMovementResult, in any order; that a movement failed is stored in a
\* second step.
HandleResult ==
    /\ \E r \in results :
        /\ IgnoreResult(r) \/ TellThread(r) \/ ResumeRest(r) \/ ResumeFailed(r)
        /\ unstored' = IF r.ok THEN unstored ELSE unstored + 1
        /\ results' = results \ {r}
    /\ UNCHANGED <<moves, robot, act, snapshot, mqtt, timer, issued, emergency, taken, done>>

StoreFailure ==
    /\ unstored > 0
    /\ agv' = [agv EXCEPT !.state = "ERROR"]
    /\ unstored' = unstored - 1
    /\ UNCHANGED <<threads, movement, act, snapshot, mqtt, timer, issued, results, emergency, ghosts>>

-----------------------------------------------------------------------------
(* Control commands on the MQTT thread *)

Given(c) == mqtt = "idle" /\ c \in Commands /\ issued < MaxCommands /\ issued' = issued + 1

\* createPauseSnapshot needs an order message.
Pause ==
    /\ Given("PAUSE") /\ agv.state # "PAUSED"
    /\ snapshot' = IF agv.msg = NoOrder THEN snapshot
                   ELSE [NoSnapshot EXCEPT !.index = agv.index, !.known = TRUE]
    /\ mqtt' = "pauseMove"
    /\ UNCHANGED <<agv, threads, movement, act, timer, results, unstored, emergency, ghosts>>

\* pauseMovement drops the movement.
PauseMove ==
    /\ mqtt = "pauseMove"
    /\ IF move = NoMove \/ move.done
       THEN mqtt' = "pauseState" /\ UNCHANGED <<snapshot, move>>
       ELSE /\ snapshot' = [snapshot EXCEPT !.order = move.order, !.step = move.step]
            /\ move' = NoMove
            /\ mqtt' = "pauseStop"
    /\ UNCHANGED <<agv, threads, moves, robot, act, timer, issued, results, unstored, emergency, ghosts>>

\* Then the robot is stopped; if that message is refused the command ends here.
PauseStop ==
    /\ mqtt = "pauseStop"
    /\ \/ robot' = NoDrive /\ mqtt' = "pauseState"
       \/ LinkFails /\ mqtt' = "idle" /\ UNCHANGED robot
    /\ UNCHANGED <<agv, threads, move, moves, act, snapshot, timer, issued, results, unstored, emergency, ghosts>>

PauseState ==
    /\ mqtt = "pauseState"
    /\ act' = IF act = NoAction THEN act ELSE [act EXCEPT !.paused = TRUE]
    /\ agv' = [agv EXCEPT !.state = "PAUSED"]
    /\ mqtt' = "idle"
    /\ UNCHANGED <<threads, movement, snapshot, timer, issued, results, unstored, emergency, ghosts>>

\* A movement that was paused starts anew.  Without one only a report is sent.
Resume ==
    /\ mqtt = "idle" /\ "RESUME" \in Commands
    /\ agv.state = "PAUSED" /\ snapshot.known /\ snapshot.step # 0
    /\ \/ /\ Send(snapshot.order, snapshot.step, Resumer, snapshot.index)
          /\ UNCHANGED <<agv, reported>>
       \/ /\ LinkFails
          /\ move' = NoMove /\ moves' = moves + 1 /\ UNCHANGED robot
          /\ agv' = MoveFailed /\ reported' = Report(agv.id, "FAILED")
    /\ mqtt' = "resumed"
    /\ UNCHANGED <<threads, act, snapshot, timer, issued, results, unstored, emergency, taken, done>>

ResumeState ==
    /\ mqtt = "resumed"
    /\ agv' = [agv EXCEPT !.state = "MOVING"]
    /\ mqtt' = "idle"
    /\ UNCHANGED <<threads, movement, act, snapshot, timer, issued, results, unstored, emergency, ghosts>>

\* CANCEL and EMERGENCY_STOP: the robot is told; if that message is refused the
\* command ends here.
StopMoving(c, next) ==
    /\ Given(c)
    /\ \/ robot' = NoDrive /\ mqtt' = next
       \/ LinkFails /\ UNCHANGED <<robot, mqtt>>
    /\ UNCHANGED <<agv, threads, move, moves, act, snapshot, timer, results, unstored, emergency, ghosts>>

\* Then the movement is dropped that is current by now.
DropMove(now, next) ==
    /\ mqtt = now /\ mqtt' = next
    /\ move' = NoMove
    /\ UNCHANGED <<agv, threads, moves, robot, act, snapshot, timer, issued, results, unstored, emergency, ghosts>>

CancelState ==
    /\ mqtt = "cancelled"
    /\ agv' = [agv EXCEPT !.state = "IDLE", !.plan = NoOrder]
    /\ reported' = Report(agv.id, "CANCELLED")
    /\ mqtt' = "idle"
    /\ UNCHANGED <<threads, movement, act, snapshot, timer, issued, results, unstored, emergency, taken, done>>

EmergencyState ==
    /\ mqtt = "stopped"
    /\ emergency' = TRUE
    /\ agv' = [agv EXCEPT !.state = "ERROR"]
    /\ mqtt' = "idle"
    /\ UNCHANGED <<threads, movement, act, snapshot, timer, issued, results, unstored, ghosts>>

\* The error code is compared with "RESET_EMERGENCY", which it never is.
ResetEmergency ==
    /\ Given("RESET_EMERGENCY")
    /\ emergency' = FALSE
    /\ UNCHANGED <<agv, threads, movement, act, snapshot, mqtt, timer, results, unstored, ghosts>>

-----------------------------------------------------------------------------
ThreadStep(h) ==
    \/ Complete(h) \/ TellCompleted(h) \/ Check(h) \/ SetState(h)
    \/ AtStartNode(h) \/ StartMove(h) \/ StartMoveFails(h) \/ MoveTimeout(h) \/ Arrive(h)
    \/ StartAction(h) \/ ActionTimeout(h) \/ Error(h) \/ CancelOrder(h)

MqttStep ==
    \/ Execute
    \/ PauseMove \/ PauseStop \/ PauseState \/ ResumeState
    \/ DropMove("cancelMove", "cancelled") \/ CancelState
    \/ DropMove("stopMove", "stopped") \/ EmergencyState

Command ==
    \/ Pause \/ Resume \/ StopMoving("CANCEL", "cancelMove") \/ StopMoving("EMERGENCY_STOP", "stopMove")
    \/ ResetEmergency

Next ==
    \/ \E o \in Orders : AcceptOrder(o)
    \/ LowFound \/ AutoCharge
    \/ \E h \in Threads : ThreadStep(h)
    \/ KeyExpires \/ ActionRuns \/ ActionDone
    \/ \E ok \in BOOLEAN : RobotDone(ok)
    \/ HandleResult \/ StoreFailure
    \/ Command \/ MqttStep

Spec == Init /\ [][Next]_vars

\* Threads run on and their waits end, actions proceed, results are handled, and
\* a paused AGV is resumed.  The robot need not answer, the battery need not be low.
Fairness ==
    /\ \A h \in Threads : WF_vars(ThreadStep(h))
    /\ WF_vars(ActionRuns \/ ActionDone)
    /\ WF_vars(HandleResult \/ StoreFailure)
    /\ WF_vars(MqttStep) /\ SF_vars(Resume)

FairSpec == Spec /\ Fairness

-----------------------------------------------------------------------------
(* Properties *)

\* Whatever was paused, resumed, failed or came late: the robot never does a
\* step of an order before all the steps ahead of it, and the order is reported
\* FINISHED only when all are done.
DoneInOrder ==
    \A o \in Orders :
        /\ \A i \in done[o] : 1..i \subseteq done[o]
        /\ \A i \in DOMAIN reported[o] : reported[o][i] = "FINISHED" => done[o] = 1..Steps(o)

\* Without commands the dispatcher is told one thing of an order, whatever it
\* sees of the executor, the timers and late results: that it failed, once, or
\* that it finished, in the two messages of completeOrder, once each and in turn.
OutcomesAgree ==
    \A o \in Orders : reported[o] \in {<<>>, <<"FAILED">>, <<"FINISHED">>, <<"FINISHED", "COMPLETED">>}

Executed(o) == \E h \in Threads : ~At(h, "off") /\ threads[h].order = o

\* Every order a thread has begun ends with a report, of this order or, if the
\* AGV was sent to charge meanwhile, of that one.
OrderEnds == \A o \in Orders : Executed(o) ~> reported[o] # <<>> \/ reported[ChargeOrder] # <<>>

\* Comment of executePlan ("check whether paused or cancelled"): nothing is
\* reported for an order after its cancellation.
CancelledStays ==
    \A o \in Orders : \A i \in DOMAIN reported[o] :
        reported[o][i] = "CANCELLED" => i = Len(reported[o])
=============================================================================
