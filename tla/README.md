# Verification of the AGV dispatcher, the AGV simulator and their libraries

The repository holds two Spring Boot services and three libraries:

* **AgvDispatcher** (`src/JzModules/AgvDispatcher`) plans paths, gives tasks to AGVs over MQTT,
  follows their positions and keeps AGVs apart by locking nodes and edges of the map in Redis.
* **AgvSimulator** (`src/JzModules/AgvSimulator`) is one AGV: it takes orders and control commands
  from MQTT, drives a robot (ROS2 over a WebSocket) node by node, executes actions and reports.
* **jz-lib-vda5050** (messages), **jz-lib-modbus** (a Modbus TCP/RTU client) and
  **jz-base-common** (HTTP results, JSON configuration) under `src/JzCommon`.

Both services bring a web page in JavaScript (`src/main/resources/static/js`) that shows the map and
the AGVs. Paths of Java files below are short for `src/JzModules/<service>/src/main/java/com/sdt/<package>/...`.

## 1. The system's parts

| Part | State it keeps | Operations | Talks to |
|---|---|---|---|
| Resource lock service (`service/RedisResourceLockService`) | Redis keys `resource_lock:<type>:<id>` with a time to live; registry `agvResources` | lock one resource or a path, release one or all of an AGV's, renew every 3 s, ask the holder | Redis; called by every dispatcher thread |
| Scheduling and dispatch (`controller/PathPlanningController`, `scheduler/AgvTaskDispatcher`, `mqtt/MqttGateway` handlers, `service/AgvManagerService`) | `tasks`, `agvCurrentTask`, `agvStatusMap` | schedule a task; end it on order state, task completion or order finish; connection messages | HTTP clients, MQTT, locks |
| Path window (`MqttGateway.doHandlePositionUpdate`, `buildNextResources`) | a task's `resourceLockList`, the last reported node and edge | on every position update: release what is behind, lock what is ahead, resolve a conflict | one thread per AGV; locks |
| Conflict detection and resolution (`conflict/*`) | none that lives (a wait graph per call) | classify a conflict, choose a strategy, build an instant action | path window |
| MQTT connection (both services' gateways) | client, `connected`, `reconnecting`, the scheduled attempt | connect, subscribe, lose the connection, back off and retry, disconnect | broker |
| Message deduplication (both) | message ids with their time | ask and record, clean up every 300 s | handlers |
| Path planning (`scheduler/PathPlanner`, `MultiAgentPathPlanner`, `graph/AGVGraph`) | graph of the map | add nodes and edges; shortest path (A*), bypass of a node, alternative to a route | dispatch, conflict resolver, page |
| Order execution (`task/OrderExecutor`, `move/MovementManager`, `task/ActionManager`, `agv/VirtualAgv`, control commands of `service/AgvStatusManager`) | AGV state, current order, the current movement and its future, the current action, the pause snapshot | accept an order, run its steps, pause, resume, cancel, emergency stop, time out, send itself to charge | MQTT, ROS2, Redis (movement time-out keys) |
| ROS2 link (`component/Ros2WebSocketClient`, `Ros2WebSocketHandler`) | session, `isServiceAvailable`, message queue, scheduled attempts | connect and retry, reconnect, heartbeat, queue and send messages, deliver results | robot |
| Position of the simulated AGV (`service/AgvStatusManager.processPositionUpdate`, `controller/AgvController.getAgvInfo`) | one position object | take the robot's post unless it is old; answer the page's poll | robot, page |
| Simulator web page (`useAgvPathPlanning.js`, `utils/map_drawer.js`, `dialog/common_toast.js`) | map data, zoom, last position, interpolation, context menu, toasts | load, poll, draw each frame, zoom, resize, send commands from the menu | HTTP |
| Dispatcher web page (its own `useAgvPathPlanning.js`) | map, zoom, list of AGVs, the route asked for | load, poll, ask for a route, draw two canvases | HTTP |
| Maps and topology, converters, message builders | configuration data | load, convert | files, HTTP |
| Modbus client (`jz-lib-modbus`) | channel, pending requests by transaction id, parser buffers | connect, send and wait, dispatch responses | PLCs |

**How they interact.** An HTTP request checks that the AGV has no task, plans a path, locks its
first three resources, sends the order and then stores the task. The AGV's reports come back on
MQTT; the Paho callback thread runs all handlers but hands position updates to one thread per AGV.
All these threads and the renewal task share the dispatcher's maps and the Redis keys without a
lock around more than one access.

**What is hard.** Interleavings between those threads; reports that come late, twice or not at
all; leases that run out while somebody relies on them; a paused or cancelled movement whose
waiting thread still exists; a connection lost while it is being re-established, by one thread or by
several; answers that overtake each other on their way to the page, timers and animation frames that
find a page other than the one they were made for. There is one trivial test in the repository, so
none of this is tested.

**What makes each part correct.** Locks: one AGV per resource, a lease lives as long as its AGV
needs it, nothing stays behind. Dispatch: an AGV has one task, each task ends once and as its own
AGV said, an ended task leaves no lock, an AGV becomes free again. Path window: an AGV stands on
what it has locked, locks follow the path, two AGVs are never on one resource. Order execution:
an order is finished when all its steps were executed once in order; an old order's thread does
not touch a new one. Connections: while the broker (the robot) is reachable the service is
connected to it in the end. Planning: the route found is the shortest. Pages: what is shown agrees
with what the page knows and catches up with the server; positions keep their order as far as their
stamps tell it.

## 2. Plan

The order follows what the system is for: AGVs do not meet, tasks end, orders are carried out.

| Step | Modules | State |
|---|---|---|
| 1 | `ResourceLock` implements `LeaseTable`; proofs in `ResourceLockProofs` | done |
| 2 | `TaskDispatch` on top of `LeaseTable`, implements `TaskBoard`; proofs in `TaskDispatchProofs` and `TaskOutcomeProofs` | done |
| 3 | `OrderExecution`: the simulator; proofs in `OrderExecutionProofs` | done; path updates and simulated faults left out |
| 4 | `PathWindow` on top of `LeaseTable`; proofs in `PathWindowProofs` | done |
| 5 | `MqttLink`, proofs in `MqttLinkProofs` | done; shutting down left out |
| 6 | `PositionFeed`, `AgvAnimation`: how a position reaches the page and moves the drawn AGV | done |
| 7 | `Toasts`, `StationMenu`, `MapZoom`, `MapPage`, `DispatchPage`: the pages; proofs of steps 6 and 7 in `PagesProofs` | done |
| 8 | `Ros2Link`: session, reconnection, send queue, heartbeat; types proved in `ServicesProofs` | done; requests waiting for an answer left out |
| 9 | `RoutePlanner`: `PathPlanner` and `AGVGraph` against the definition of a shortest path; proofs in `ServicesProofs` | done |
| 10 | Message deduplication, Modbus client, conflict resolution | left out (section 9) |

Runs are few on purpose: small independent modules share an MC module and a run (`MCServices`,
`MCPages`). There each behaviour is one of a single part, while the others wait in initial states.

The safety invariants and action properties of the passing runs are theorems too, but for `NoOrphanTask`
(which the proofs have as the part `Reported` of an invariant) and `IdleHoldsNothing` of `PathWindow`: what
both say beyond the other theorems depends on `Quiet` or `Calm` alone. Theorems still worth having are
those that need less of the assumptions in section 6. No module has a `RECURSIVE` operator, so that all
of them can be proved about.

## 3. The modules and the code

How the modules fit together: `ResourceLock` shows that the lock service keeps `LeaseTable`'s
promise, step by step on Redis. `TaskDispatch` and `PathWindow` use `LeaseTable` in its place
(`Table == INSTANCE LeaseTable`), so that a lock or a release is one step there. Both have the
AGV in them as the dispatcher sees it; what the AGV really does with an order is `OrderExecution`.
`TaskBoard` says what the dispatcher promises its clients. `MqttLink` is the connection that
everything travels on; `TaskDispatch` and `PathWindow` have its failures as lost messages, as
`OrderExecution` has those of `Ros2Link` as refused messages and results that never come.
`RoutePlanner` finds the paths that `TaskDispatch` and `PathWindow` take as given. `PositionFeed` hands
`AgvAnimation` what to draw.

Each action stands for the code between two accesses to shared state, with everything it changes.
Definitions whose comment begins with "Mutant:" are plausible slips in the code, one for each
property, and are used by no specification.

**ResourceLock** (`RedisResourceLockService`). `holder` and `ttl` are the Redis keys with their
expiry, `agvResources` the registry, `thr` the calls under way, `renew` the renewal task. One step
is one Redis command or one access to the registry.

| Code | Actions |
|---|---|
| `tryLockPath`, `tryLockPathWithDetail`, `tryLockResource` | `StartLock`, `SetIfAbsent`, `SetRefused`, `Register`, `AskHolder`, and the roll-back, which runs through the release |
| `releaseResource` | `StartRelease`, `ReleaseGet`, `ReleaseDelete`, `Unregister` |
| `releaseAllByAgv` | `StartReleaseAll`, `BatchGet`, `BatchDelete` |
| `renewLocks` | `RenewStart`, `RenewGet`, `RenewSkip`, `RenewExpire`, `RenewDrop`, `RenewEnd` |
| Redis itself, the process | `Tick`, `CallFails`, `RenewFails`, `Crash` |

`renewLocks` iterates over a concurrent map and set: in which order, and whether it meets what is
added meanwhile, is left open (`RenewSkip`). `MayCall` is about the callers, not about a line of the
service: whether two calls for one AGV may overlap (`Serialized`).

An AGV is entitled to a resource (`Entitled`) while the registry has its entry and no call gives it back.
`LeaseEnds` says how that may end. One way is a slip of the code: `renewLocks` asks for the key of an
entry that is just being given back, finds none, and removes the entry only after the AGV has locked the
resource again and registered it. The property names this removal as the one exception, and shows that there
is no other; `LeaseTable` takes every end of an entitlement alike, so that the refinement says nothing of
how it came about.

**TaskDispatch** (`PathPlanningController.scheduleTaskWithTimeWindow`, `AgvTaskDispatcher`, the
handlers of `MqttGateway`, `AgvManagerService`). `status`, `lockList`, `agvCurrentTask` and
`agvStatus` are the dispatcher's maps, `req` the HTTP threads, `mqtt` the callback thread. `MayRequest` is
about the clients: when they ask for an AGV (`Quiet`).

| Code | Actions |
|---|---|
| the request: check, lock, roll back, send | `Request`, `LockNext`, `LockRefused`, `LockUndo`, `Send`, `SendThrows` |
| `assignTask`: the task is stored, then it becomes the AGV's | `StoreTask`, `Assign` |
| `handleOrderStateMessage`, `handleTaskCompleteMessage`, `handleOrderFinishMessage` | `Receive`, then ends of the task and `ReleaseAll` in the order the handler has them (`Steps`) |
| `finishTask`, `failTask`, `cancelTask`: the AGV is freed, then the task is ended | `FreeAgv`, `EndTask` |
| connection messages | `Connection` |
| the AGV | `TakeOrder`, `Progress`, `EndOrder`, `LoseReport` |

A path is any short list of resources: which one is planned does not matter here. Between `StoreTask` and
`Assign`, and between `FreeAgv` and `EndTask`, requests and reports of all AGVs go on; `BeingAssigned` and
`BeingEnded` name the tasks in between. An order state `CANCELLED`, which the simulator sends, is stored and
ends nothing: the handler waits for `CANCELED`.

**OrderExecution** (`OrderExecutor`, `MovementManager`, `ActionManager`, `VirtualAgv`, and the
orders, commands and charging of `AgvStatusManager`). `agv` is the part of `AgvStatus` that steps depend on,
`threads` the executor threads, `move` and `act` the current contexts of the two managers, `snapshot` what
the last pause remembered, `mqtt` the MQTT thread in the middle of an order or command, `timer` the scheduled
charging. The nodes and then the actions of an order are numbered steps.

| Code | Actions |
|---|---|
| `processVda5050Order`, then `executeOrder` | `AcceptOrder`; `Execute`, which drops the order without a word when `buildExecutionPlan` throws (`PlanFails`) |
| `checkBatteryAndAutoCharge` | `LowFound`, `AutoCharge` |
| `executePlan` | `Check`, `SetState`, `Error`, `CancelOrder` |
| `completeOrder`: the order state, then the task completion | `Complete` (`TellFinished`), `TellCompleted` |
| `executeMovementSync`, waiting in it, `handleArrivedNode` | `AtStartNode`, `StartMove`, `StartMoveFails`, `Arrive`, `MoveTimeout`, `KeyExpires` |
| `executeAction` and its thread | `StartAction`, `ActionRuns`, `ActionDone`, `ActionTimeout` |
| `handleMovementResult`, over WebSocket or HTTP | `RobotDone`, then `HandleResult` (`IgnoreResult`, `TellThread`, `ResumeRest` or `ResumeFailed`) and `StoreFailure` |
| `processControlCommand` | `Pause` `PauseMove` `PauseStop` `PauseState`, `Resume` `ResumeState`, `StopMoving` `DropMove` and `CancelState` or `EmergencyState`, `ResetEmergency` |

`MovementManager`'s methods are `synchronized` and one step each; the fields of `AgvStatus` are
read and written without a lock, so the check, the write of the state and the movement are three
steps. Results on their way are a set: they come over the WebSocket and over HTTP, on threads of their
own, in any order. A command tells the robot to stop in one step and drops the movement in the next,
whichever is current by then.

**PathWindow** (`MqttGateway.doHandlePositionUpdate`, `buildNextResources`, `tryLockPathWithDetail`). `lockList`
is a task's `resourceLockList`, `reported` the last reported node and edge, `handler` the AGV's thread, `ending`
what the callback thread has still to do. `Read` takes a report; `ReleaseNode` or `LeaveBehind`, `ReleaseEdge`,
`LockNext`, `AskHolder`, `Extend` and `Undo` are the handler in its order; `Stretch` is the `while` loop of
`buildNextResources`; `Schedule`, `End`, `FinishTask` and `ReleaseAll` are the ends of a task; `Move`, `Stop`
and `LoseReport` the AGV. An AGV in `Standard` reports the node it reached last and the edge it is on, the
others report what `VirtualAgv` of the simulator sends: no edge, and no node while it stands on its first one.
An order may end anywhere on its route (`Stop`): at a node, before it has started or in the middle of an edge,
when a movement fails or times out; the next route then begins at either end of that edge. `astray` are the AGVs
to which the last has happened (see `Standard` in section 6).

**MqttLink** (`scheduleReconnect`, `doReconnect`, `calculateNextDelay`, `connectionLost` in
`MqttGateway` and `AgvMqttGateway`, `onMqttConnect` and `onMqttDisConnect` of `AgvStatusManager`).
`owner` is the monitor that makes the first two `synchronized`. `ScheduleReconnect`,
`AlreadyReconnecting` and `Fire` are the executor's queue; `Renew`, `Connect`, `Refused`, `Verified`,
`Announce`, `Subscribe` the attempt; `Succeeded`, `BackOff`, `TryAgain` what the task does after it;
`Started`, `StartFailed` the start of the service; `ConnectionLost`, `LossSkipped`, `LossTaken`,
`ReconnectAfterLoss` the callback. Delays are counted in units of 5 s.

**Ros2Link** (`Ros2WebSocketClient`, `Ros2WebSocketHandler`). Sessions are told apart by their roles:
`current` (the field `session`), `dialed` (the one `connectWithRetry` waits for) and `others`, which
are open and forgotten. `Dials`, `ConnectFails`, `TimesOut`, `GetReturns` are `connectWithRetry` on its
one thread, `Established`, `DialedConnected`, `LateConnected` and `LateFails` the WebSocket's threads,
also after the time-out; `CheckSession`, `CloseSession`, `SessionIsNull` and `ScheduleConnect` are
`reconnect` between its accesses to `session`, run by any number of `callers`; `Report`, `Heartbeat`,
`SendHeartbeat` and `SendSafely` are those who call it.

**RoutePlanner** (`PathPlanner`, `AGVGraph`). `AddEdge` builds the map; `FindOptimalPath`,
`FindBypassPath`, `FindAlternativeRoute` and `FallBack` start a search, `Visit` is one round of its
loop, `Arrive` and `NoPath` its ends. The three searches differ in what they avoid and in whether
there is a heuristic. A `HashSet` has no order: any node that is as good as the best may be next.
`BuildPath` is the sequence that the predecessors lead back along (`LeadsBack`); `Unreached` is the
distance that `Double.MAX_VALUE` stands for.

**The pages.** JavaScript runs one handler at a time, so each is one step; what overlaps are the
answers, timers and frames between them.

| Module | Code | Actions |
|---|---|---|
| `PositionFeed` | the robot's posts; `processPositionUpdate`; `getAgvInfo`; `loadAgvPositions` | `Measure`; `TakePost`, `FillFirst`, `FillCoordinates`, `FillStamp` (no lock, field by field); `ReadCoordinates`, `ReadStamp`; `Poll`, `Receive`, `RequestFails`; `Restart` of the service, which fails the requests it had |
| `AgvAnimation` | `drawAgvPosition`, `quaternionToCanvasRotation`, the factor of `drawDynamicMap` | `DataArrives`, `Frame`, `Tick` |
| `Toasts` | `ToastManager`, `CommonToast` | `ShowToast`, `SlideIn`, `HideAndRemove`, `RemoveToast` |
| `StationMenu` | the click handlers, `handleMoveToNode`, `handleSetAsStart` | `StatusComes`, `ContextMenuAt`, `ContextMenuAtEdge`, `CanvasClick`, `SendCommand`, `CloseMenu`, `Answered` |
| `MapPage` (with `MapZoom`) | `initialize` to `debouncedResize` of the simulator's page | `ImageArrives`, `InfoArrives`, `WindowResizes`, `ResizeCanvas`, `StatusArrives`, `Wheel`, `BrokenFrame`, `Slider` |
| `DispatchPage` (with `MapZoom`) | the dispatcher's page | `MapImageArrives`, `MapArrives`, `LoadMapInfo`, `ResizeCanvases`, `VisualizeRoute`, `RouteArrives`, `RouteFails`, `ClearRoute`, `DispatchWheel`, `LoadAgvPositions`, `ReadAgvs`, `AgvsArrive`, `PollFails` |

What a picture looks like is not modelled, only what it was drawn from.

## 4. The runs

Runs that pass:

| Run | Asks | Instance | Distinct states |
|---|---|---|---|
| `lease_paths` | Are leases covered and backed by their keys, is a failed path rolled back, does an entitlement end by a release of its own AGV, is `LeaseTable` implemented? | 2 AGVs, 2 resources asked for in both orders, 2 threads, expiry 2, interval 1 | 687 000 |
| `lease_recovery` | Do keys nobody renews, and entries without a key, go away although Redis fails, threads are slow and the dispatcher restarts? | 2 AGVs, 1 resource, 2 threads | 155 000 |
| `dispatch_safe` | Does an AGV drive on its own locks only, does nothing stay behind, does a task end as its AGV ended it, is `TaskBoard` implemented? | 2 AGVs, 2 resources, 2 HTTP threads, 2 tasks, lost messages, all kinds of reports | 260 000 |
| `dispatch_live` | Does an AGV become free again unless its order was cancelled, and is no finished or failed task an AGV's current one? | 2 AGVs, 1 resource, all that the simulator reports, `CANCELLED` too; building the order may throw | 43 700 |
| `orders_alone` | Does every order that a thread has begun end, is it reported as failed or as finished but not both, and FINISHED only when all was done, while movements and actions fail or never answer and the AGV sends itself to charge? | 2 orders of 2 nodes and an action, 3 threads, low battery | 160 000 |
| `orders_commanded` | Are steps left out or done out of order under any commands? | 1 order of 3 nodes and an action, 2 commands and any number of RESUMEs, 4 threads, no charging | 868 000 |
| `window_moves` | Do list, locks and path agree, does the window follow an AGV that reports well, is nothing taken from under it? | 2 AGVs, two routes that cross in a node and the second half of the first once more, orders that end anywhere, window 3, 3 reports waiting | 259 000 |
| `services_alone` | One attempt at a time, growing delays, online in the end? Can messages be sent to the robot again after every loss? Is the route the shortest? | both services, 3 losses; the robot lost once or absent at first, one slow connection, one heartbeat; all maps of 4 nodes in a rectangle, edges straight or curved | 284 000 |
| `pages_show` | Does what is shown agree with what the page knows, and catch up? How far are positions kept in order? Do menus, messages and animations end? | 3 positions and 2 requests in flight with 1 restart and 1 failure; 3 moves; 4 toasts; 3 commands; 3 resizes, 3 zooms; 2 routes asked for 3 times, 2 polls of which 1 may fail | 437 000 |

Each of the three other runs checks one property that a comment of the code states, and TLC shows
how the code breaks it: `late_completion`, `cancelled_goes_on`, `releases_under_agv` (section 8).

**Why the bounds are enough.** A lock changes hands between two AGVs; a third waits like the second. Two
resources in opposite orders give a refusal in the middle of a path and the roll-back. Two threads are needed
for two AGVs' calls to overlap, and a second call of the same AGV is excluded by `Serialized`. Expiry 2 and
interval 1 are the smallest times with `interval + 2 * PassBound < expiry`, where one missed renewal loses the
lease. The code has an expiry of 5 s and an interval of 3 s, so that a pass has to take less than one second (a
tick may be any fraction of one); the theorems hold for all such times. Two tasks are the one that ends and the
one that follows it. In an order, three nodes have a first one (where the AGV stands), a middle one and a last
one; two commands are a pause and something that comes while it lasts, and RESUME is not counted. Window 3 is
the code's (the 3 in `doHandlePositionUpdate`). An AGV whose first order has ended half way, at a node or on an
edge, begins the second half of the same route (`again`): that is what makes what was reported last matter to
the next task. Three losses allow one during the attempt that follows another, and once more after the
connection is back. `attempts` is cut at 8, after which the delay no longer changes. Losing the robot once, with
a connection that is slow and others that follow it, already makes four sessions at a time and brings every
thread into `reconnect`; two losses (1 270 000 states) show nothing new. Four nodes are the fewest on which A*
can reach a node over a detour first: a rectangle with diagonals, where an edge may weigh twice its length. Two
answers in flight can overtake each other, a third measurement lies between; the angles go to both sides and
over the jump from pi to -pi.

Deadlock is checked where the system cannot stop (`lease_*`, `dispatch_*`, `late_completion`); in the
others an AGV that has done all its orders or waits with an order that was dropped, a service that is
connected to a broker that no longer goes away, or a page whose user is gone, has nothing left to do.

**Symmetry** is used for AGVs, resources, threads and tasks where the specification does not tell
them apart, and never with a liveness property.

## 5. Fairness

* `ResourceLock`: time passes (strong, because a renewal pass may hold it up again and again);
  Spring's scheduler starts and ends passes; a key of a pass is dealt with in the end although Redis
  may fail now and then (strong fairness of the GET). The calling threads need no fairness: what is
  shown holds even when they stop half way.
* `TaskDispatch`: HTTP threads and handlers run on; an AGV takes its order and ends what it took;
  an AGV's reports are read (strong, since one callback thread serves all AGVs and each may be kept
  waiting by the others, but none for ever).
* `OrderExecution`: threads run on, and a wait with a time-out ends by it; the action thread and the
  threads that handle results run on. The robot need not answer at all, the battery need not become low.
* `MqttLink`: each of the three threads runs on, a monitor is handed on and a delay passes. The
  broker need not return: that it stays in the end is the premise of the property.
* `Ros2Link`: scheduled calls are made, connecting ends, in time or by its time-out of 10 s, and every
  thread goes on. The robot need not return.
* The pages: timers and animation frames come, requests are answered or fail (HTTP has time-outs),
  threads of the server run on.

No fairness is put on what comes from outside: requests, commands, failures, restarts.

## 6. Assumptions, by name

* `Serialized`: one lock or release call at a time for an AGV. The code does not enforce it between
  an HTTP request, the callback thread and the AGV's position thread; where they overlap, a release
  can undo a lock made meanwhile.
* `Prompt`: a thread needs less than a tick between Redis' answer and the step that uses it. A thread
  that stops for the whole expiry time would delete or register what is no longer its own.
  `lease_recovery` is without it.
* `PassBound`: how long a renewal pass takes. `Disciplined` in `ResourceLockProofs` collects these:
  `Serialized /\ Prompt /\ ~Faults /\ RenewalInterval + 2 * PassBound < LockExpire`. It says nothing of
  restarts, which are allowed.
* `Quiet`, `Calm`: the next task of an AGV is requested when the end of the one before has been dealt
  with. These are assumptions on the clients, which nothing in the code ensures. Without them the code does
  not keep `OutcomeIsReported`, `NoOrphanTask`, `IdleHoldsNothing` and `ListIsExact`; `late_completion` shows
  one such case, the hazards name the lines.
* `Immediate = FALSE`: the AGV's first answer comes after the request has assigned the task, which it
  does after sending it. `Orderly` in `TaskDispatchProofs` is `Quiet /\ ~Immediate`.
* `ReportsTell` in `TaskOutcomeProofs`: a report that says an order has ended says how it did, an order
  finish message only that it is finished. The simulator does not always keep to that: after a CANCEL its
  executor may report the same order as FAILED or FINISHED too (`cancelled_goes_on`), and `dispatch_live`
  has those reports (`SimulatorReports`), the theorems of `TaskOutcomeProofs` have not.
* `SendFails = FALSE`, for `IdleHoldsNothing`: building the order does not throw (section 8 says what
  happens when it does). `dispatch_live` is without it.
* `ReportsEnd` in `TaskDispatchProofs`: what an AGV says when it has ended an order is one of the three
  ways to end (it follows from `ReportsTell`).
* `Standard`: see `PathWindow`. What is shown of windows that follow their AGV (`WindowFollows`) and of
  releases behind it (`StandardReleasesBehind`) is shown for these, as long as none of their reports is lost
  (`Lossy`; `ReleasesOnlyBehind` has `Standard \cap Lossy = {}`), and until an order of theirs ends in the
  middle of an edge (`astray`): `lastReportEdgeId` then outlives the task, and the first report of the next
  one takes that edge from its list although it may lie ahead. TLC finds both violated without that
  condition.
* `3 <= Window` in `WindowsFollow`: a window of one or two is used up at the next node, and nothing
  follows an empty list. The code has 3.
* The guard of `AcceptOrder`: an order comes when every earlier one was reported under its own id. It is an
  assumption on the dispatcher, which frees the AGV at a failure report of the charging order as well; after
  an order that was dropped, or one whose end was reported under the charging's id, no other follows in the
  model.
* `Uncancelled` in `OrderExecutionProofs`, for `OutcomesAgree`: neither RESUME nor CANCEL. A cancelled order
  is reported twice, and a resumed movement may end an order that its waiting thread has given up.
* `Focused` in `OrderExecutionProofs`, for `DoneInOrder`: no RESUME, or one order of an AGV that does not
  send itself to charge (section 8 says what happens otherwise). Pauses, cancellations, emergency stops and
  time-outs may come at any moment. `LowBattery` is TRUE in `orders_alone` and FALSE in the other two runs of
  orders, which have commands.
* `RollsBack` in `ResourceLockProofs` needs `Serialized` and no restart of the dispatcher; Redis may fail
  and threads may be slow.
* `TaskEnds` leaves out orders that were cancelled at the AGV, and `CurrentTaskOpen` tasks that are stored as
  `CANCELLED`: the order state `CANCELLED`, which `dispatch_live` has among its reports, ends nothing
  (section 8).
* `LeasesEnd` needs that the dispatcher is not restarted, and nothing else.
* `ThreadsAtRest` in `Ros2Link`: what the other threads have under way is done in less than the delay of
  2 s, and before the next attempt begins. Without it sessions can replace each other for ever.
* `MapAssumption` in `RoutePlanner`: an edge weighs no less than the distance of its ends, which the
  default, the curves and the priority 1 of the map in the code give (one edge excepted, section 8). The
  distances are those of points in a plane: going over a third node is never shorter. The map is finite.
* `NoOverlap`, `RouteAsWanted` and `SelectedIsTarget` of the pages name what they exclude: toasts of one
  millisecond, requests that overtake each other, the right button on a path node while the menu is open.
* `KeepsOrder` says how far positions are kept in order, and no further. `StampsShownGrow` is about the
  stamps of what the page shows; the coordinates follow them if neither the old nor the new answer is torn, and
  may go back if one is. `ServerGoesForward` and `ShowsThePosition` end with the first two handlers of
  positions that overlap; after that the server's position may go back. `NoStepBack` is about the frames
  between two answers: one that repeats the position sends the drawn AGV back (section 8).
* `BacksOff` says nothing of an attempt whose counter `connectionLost` has reset meanwhile: its delay is 0.
* `LinksRecover` leaves out losses that `connectionLost` skips (section 8).
* `MqttLink`: a delay of 5 s and more ends when the other threads have come to rest; Paho reports one
  loss at a time.

## 7. What is proved

`tlapm` proves these for all values of the constants (all AGVs, resources, threads, paths and times):

| Module | Theorem | Under | Says |
|---|---|---|---|
| `ResourceLockProofs` | `TypeCorrect` | | `[]TypeOK` |
| | `LeasesCovered`, `LeasesExclusive` | `Disciplined` | `[]LeaseCovered`, `[]LeaseExclusive` |
| | `LeasesEnd` | no restart | `LeaseEnds` |
| | `LeasesImplementTable` | `Disciplined` | refinement of `LeaseTable` |
| | `RollsBack` | `Serialized`, no restart | `RollbackComplete` |
| `TaskDispatchProofs` | `TypeCorrect` | | `[]TypeOK` |
| | `DrivesLocked` | `Orderly` | `[]DrivesOnOwnLocks` |
| | `NothingStaysLocked` | `Orderly`, `~SendFails` | `[]IdleHoldsNothing` |
| `TaskOutcomeProofs` | `EndsAsReported` | `Orderly`, `ReportsTell` | `[]OutcomeIsReported` |
| | `CurrentOpen` | `Orderly`, `ReportsTell` | `[]CurrentTaskOpen` |
| | `TasksImplementBoard` | `Orderly`, `ReportsTell` | refinement of `TaskBoard` |
| `OrderExecutionProofs` | `TypeCorrect` | | `[]TypeOK` |
| | `ToldOneThing` | `Uncancelled` | `[]OutcomesAgree` |
| | `StepsInOrder` | `Focused` | `[]DoneInOrder` |
| `PathWindowProofs` | `TypeCorrect`, `ListsFollow` | | `[]TypeOK`, `[]ListFollowsPath` |
| | `ListsExact` | `Calm` | `[]ListIsExact` |
| | `ReleasesOnlyBehind` | `Calm`, `Standard \cap Lossy = {}` | `StandardReleasesBehind` |
| | `WindowsFollow` | `Calm`, `3 <= Window` | `[]WindowFollows` |
| `MqttLinkProofs` | `TypeCorrect`, `AttemptsAlone` | | `[]TypeOK`, `[]OneAttempt` |
| | `DelaysGrow` | | `BacksOff` |
| | `OnlineWhenConnected` | | `[]OnlineWhenReady` |
| `PagesProofs` | `CommandsGoToTarget`, `TurnsHalfAtMost`, `DrawnGoesOn` | | `[]SelectedIsTarget`, `[]TurnsShort`, `NoStepBack` |
| | `MapStaysCurrent` | | `[](PictureCurrent /\ AnimationGoesOn)` |
| | `DispatchStaysCurrent` | | `[](StaticCurrent /\ DynamicCurrent /\ RouteAsWanted)` |
| | `FeedKeepsOrder`, `ToastsKeepApart` | | `StampsShownGrow`, `ServerGoesForward`, `[]NoOverlap` |
| | `PagesTyped`, `PagesRight`, `PagesKeepOrder` | | the same of all parts side by side, as TLC checks them |
| `ServicesProofs` | `RoutesShortest` | | `[]RouteIsShortest` |
| | `ServicesTyped`, `ServicesRight` | | types, attempts, announcements and routes of all services side by side |

Besides, each module has `ASSUME`s that say of which kind its constants are: names that stand for nobody
are nobody's, bounds are numbers, routes are sequences of nodes.

**The leases.** That an entry is backed by its key is not inductive: a key may be about to run out.
`LeaseCovered` says more. Each lease an AGV relies on has at least `Need` ticks to live, where `Need`
counts from where the renewal task is: the rest of its wait plus one pass, or, in a pass, the rest
of the pass, and one more round for a lease that this pass has already visited or will not visit.
A `Tick` takes one from both sides; locking and renewing set the time to live to `LockExpire`, which
`Disciplined` makes large enough. The inductive invariant `IInv` adds what the steps rely on: the
shape of a call (`Busy`), that no two threads work for one AGV (`OneCallPerAgv`), that between an
answer of Redis and its use nothing has changed for that AGV (`FreshAnswers`), and that a pass ends
on time (`PassOnTime`). `StepIsLocal` is the heart of the safety part: a step of a thread changes
only keys that were free or its own AGV's. Exclusiveness follows because a key has one value, and
the refinement because a step that gives a resource a new user starts from a free key. `LeasesEnd` needs none
of this: it looks at the steps by which an entry may leave the registry or a release may reach it.

**The dispatch.** The invariant is a stack of four, each proved with the help of those below it.
`Typed` adds to the types what the place of a handler or a request determines about its fields. `Cycle`
is the round of an AGV: while a request is served for it (`ServedRests`) it has no task, no report
and no order but the one that has just gone out; a task belongs to one request or, once it is stored,
to one AGV (`Apart`, `TasksStored`); an order that waits is the current task's (`OrderWaits`); an AGV
works on its current task, or is said to be done with it by what waits for the callback thread
(`WorksOnCurrent`). `Holding` ties the locks to that round: a request holds what it has locked so far
(`RequestHolds`), a task under way all of its path (`TaskHolds`); `DrivesOnOwnLocks` follows. `Known` is
its converse, and gives `IdleHoldsNothing`: whatever an AGV has locked is on the list of its request or
of its current task, or a release is still to come (`LocksKnown`), and a handler frees the AGV as its
last step only when everything has been released (`ReleasedFirst`). `Reported` says that among an AGV's
waiting reports those about an order under way come before the one that ends it; a task that is not
ended is then the current one of its AGV, or about to become so (`BeingAssigned`), or taken from its AGV and
about to be ended (`BeingEnded`).

**The outcome of a task.** `Truthful` follows a report from the AGV to the handler: what it says about
the end is how the AGV ended that task, the AGV's current task is this one or none, and nobody else has
it. `EndsLast` orders the reports, `EndsRight` says that the remaining steps of the handler end the task
as the AGV did, `NotReopened` that no report still to come makes an ended task open again. With `Closing`
(a finished or failed task that is still current is about to be taken from its AGV) follows
`CurrentTaskOpen`. The
refinement maps a task's status to its phase; that an ended phase never changes needs all of these.

**Orders.** `Typed` says which fields go together: a thread in a movement is at a node of its order, a
movement belongs to an order that exists. `Alone` is for `OutcomesAgree`: at most one thread is live, that
is, neither at rest nor between the two messages of `completeOrder` nor ending a failed order; nothing has been
reported of its order (`LiveUnreported`), which is the AGV's unless the AGV was sent to charge; a thread that
has yet to report COMPLETED has reported FINISHED (`TellingFinished`); an order that was accepted waits for its
thread alone (`AcceptedAlone`). `InOrder` is for
`DoneInOrder`: each place a step is begun, driven, paused or resumed from says that everything before it
is done (`Behind`, `MovesInOrder`), the current movement is the one its thread waits for (`MoveWaited`),
and the index by which RESUME finds the rest of an order is that of a node that was reached
(`IndexReached`). Routes may pass a node more than once; `StartMove`'s search for its index then needs the
least of a set of numbers, which the well-foundedness of `<` gives.

**The window.** Two invariants hold whatever arrives: `Typed`, and `Listed`, in which a task is one AGV's only,
and what a handler has locked and is about to lock continues the list along the path within the window. `Cycle`
is the AGV's round as in the dispatch, `Held` ties locks to lists: what is on a current task's list is the
AGV's, what is the AGV's is on the list or just being locked, and an AGV between tasks has nothing (which TLC
checks too, as `IdleHoldsNothing`). `Trail` is for reports of the standard kind: from what the handler has seen
last, over what waits, to where the AGV is, each report is the one before again or the next on the route
(`Chain`), and the AGV has been wherever it reports to be, and between tasks what was reported last is the node
it stands on and no edge; of an AGV that is `astray` nothing is said. Since only nodes of reports that were
handled are released, `StandardReleasesBehind` follows. `Windows` says that the list is the stretch of the route
that begins at the report handled last, less what the handler has released already, unless a lock was refused.

**Rolling back.** `RolledBack`: while a call gives back, each resource it had locked is gone, from Redis
and from the registry, or still to be released. `Serialized` keeps others from locking for that AGV
meanwhile; a restart would end the call half way.

**The attempts.** `OneAttempt` alone does not survive a step of the callback, which would add an
attempt to a running one. `Flagged` says that whatever is scheduled or runs on the executor is
announced by `reconnecting`; `Heedful` that everybody but the executor and the dispatcher's very
first call looks at the flag; `FirstAlone` that the first connection, which sets no flag, is made
while nothing else exists that could schedule. `Paced` adds, for `BacksOff`, which delay the executor is
about to schedule with, and that the callback resets the counter of attempts only between two of them;
`Announced`, for `OnlineWhenReady`, that a loss which is not reported yet is one, and that whoever connects
tells the AGV so before he returns.

**The pages.** The menu's invariant is its property. `AnimationInv` says that the accumulated angle is that of
the pose taken last up to full turns, and bounds it by half a turn for each pose; `WayGrows` that the last frame
drew no more of the way than the next would. `PageInv` adds to `PictureCurrent` that no position reaches the
page before the map's data and that the canvases have their size when these are there. `StaticInv`, `DynamicInv`
and `RouteInv` say of each canvas of the dispatcher's page that nothing is drawn on it before there is something
to draw. `FeedInv` says that handlers which do not overlap work with a newer reading, and that an answer holds a
stamp or no position at all: the page accepts an answer without a stamp whenever its request is a later one,
whatever it shows. `Apart` gives the place of each toast by its rank in the list; removing one in the middle
(`RemoveAt`) moves those above it. `PagesInv` puts the parts side by side.

**The search.** `PlanInv` holds for A* and Dijkstra's algorithm alike. `WayBack`: every node reached was
reached over an open edge from one that is nearer by that edge at least, so that the predecessors lead
back to the start without circles (`WayExists`, `WayShort`) and `BuildPath` is a route. `Relaxed`: from a
node that is not open no neighbour can be reached better; Dijkstra's algorithm, which never opens a node
again, keeps this because it visits the nodes in turn (`InTurn`). `EndWaits`: the end stays open once it is
reached. By the triangle inequality the heuristic is consistent (`Consistent`). Whatever no edge can lessen
is a lower bound of all ways (`WithinAtLeast`); when the end is nearest, the lesser of a node's distance
and of what the heuristic leaves of the route's length is such a bound, and at the end it is the route's
length; when nothing that is open was reached, the distances themselves are one. The other way round
the route is a way of as many edges as it has (`WithinAtMost`), and no segment is longer than
its edge, since a node that is still open cannot lie on a way better than the one found (`Segment`).
`Within`, the reference, is defined by recursion; that there is such a function is `WithinExists`. The
prover has no induction, so these arguments take the least counterexample (`LeastNumber`, `Upwards`,
`Downwards`).

TLC checks the safety properties that are proved as well, on the instances of section 4. The inductive
invariants were checked by TLC too before they were proved, except `AnimationInv`, which quantifies over
the integers.

**Only model-checked**, being out of the prover's reach: what must eventually happen (`OrphanExpires`,
`StaleEntryDropped`, `TaskEnds`, `OrderEnds`, `LinksRecover`, `ShowsThePosition`, `ComesToRest`,
`PagesSettle`), since it depends on fairness and `ENABLED`.

## 8. What the models showed about the code

Three disagreements between a comment and the code have a run of their own:

1. `late_completion`: the second report of an order's end ends the AGV's next task
   (`MqttGateway.java:616` of the dispatcher).
2. `cancelled_goes_on`: a CANCEL between two movements is not noticed by the executor
   (`OrderExecutor.java:167`).
3. `releases_under_agv`: reports without a node make the dispatcher release the node the AGV stands
   on (`MqttGateway.java:810` of the dispatcher).

Other behaviour that was met while modelling and that a reader should know of.

Locks and dispatch:

* A renewal pass may remove an entry of the registry that was made after it looked: it finds no key while
  the AGV gives the resource back, the AGV locks it again, and the new entry goes
  (`RedisResourceLockService.java:237`). The key is then held and no longer renewed, runs out and passes on
  although its AGV has not begun to give it back. `LeaseEnds` has this case as its exception.
* `handleOrderStateMessage` waits for `CANCELED` (`MqttGateway.java:723`), the simulator sends `CANCELLED`
  (`AgvStatusManager.java:255`): the task is stored as cancelled and stays its AGV's current one, so that the
  AGV gets no other, against the comment at line 713 that a terminal state clears it.
* A path whose order could not be built stays locked, and going offline releases nothing.
* With the simulator's reports the window stands still after two edges.
* When an order ends in the middle of an edge, the first report of the next one releases that edge, also if
  the next route leads over it (`MqttGateway.java:833`).
* The ids by which messages are deduplicated are milliseconds; the comment of the service says that it
  answers true for a new message (l. 19), the code answers false.

Orders:

* A paused movement's thread stays blocked until its time-out and then acts on whatever movement is
  current; a pause while nothing moves is never continued.
* When the wait of a paused movement ends before PAUSED is stored, the order is reported FAILED and the AGV
  then stays PAUSED, in which it accepts a new order. RESUME drives the old order's movement, and on
  arrival the rest of the new order is begun after the old one's index, so that its first steps are left
  out. This was met when `DoneInOrder` turned out not to be provable for several orders and RESUME; hence
  `Focused`, and the one order of `orders_commanded`.
* The end of an order is reported twice, as order state FINISHED and as a task completion
  (`OrderExecutor.java:292`); the second is what `late_completion` is about.
* An order may be dropped without a word: the thread of the order before takes the node sequence away in
  `cancelOrder`, or `checkBatteryAndAutoCharge` replaces it, while `processVda5050Order` fills it in; the
  exception is only logged (`AgvStatusManager.java:175`). The scheduled charging also gives a running order the
  charging's id, under which its end is then reported.

Connections:

* A connection lost between `connect` and `reconnecting.set(false)` is skipped by `connectionLost`, and
  nobody connects again. The definition `Recovers` of `MqttLink` says what one would want; put it in
  the place of `RecoversIfHeard` in `LinksRecover` (`MCServices`) to see the trace of `services_alone`.
* `calculateNextDelay` with attempt 0 gives 0, so that a failed attempt is repeated at once.
* Every connection of the simulator starts one more heartbeat task.
* Sessions to ROS2 multiply: `reconnect` on an open session schedules two attempts, one of its own and
  one when the session is closed, `connectWithRetry` never asks whether it is connected, and `session`
  may become null between the check and the close.

Planning:

* In the map of the code the node P019 is made twice, so that edge E055 weighs less (82) than the
  distance (120); no route changes. Of parallel edges (E030 and E042, E047 and E053) the last counts.
* A deadlock of two AGVs is never found, because each conflict gets a new wait graph
  (`EnhancedConflictDetector.java:161`).

Pages:

* Toasts made in the same millisecond share an id and overlap; a failing request makes two.
* The right button on a path node changes the target of the open menu's commands; the menu stays open
  until the answer, so that a command can be sent twice; a late answer closes a menu opened since.
* Every input of the zoom slider adds an animation loop that never ends. When the map's data could not
  be loaded, the first position ends the animation.
* A late answer to a request for a route is shown after the route was cleared.
* Answers that repeat a position send the drawn AGV back to where the movement began, against the
  intention of the comment at `map_drawer.js:443`.
* Two handlers of positions that overlap may put the server's position back, and an answer read while one
  writes may show older coordinates under a newer stamp.

## 9. What is not modelled

* **Conflict detection and resolution.** It keeps nothing from call to call, and what it decides goes
  out as an instant action that the simulator does not know, or not at all. As the code stands, the
  outcome changes no state of either service.
* **Message deduplication.** A message it drops is a lost report of `TaskDispatch` and `PathWindow`. What
  remains is a set of ids with their age.
* **Modbus client.** No service calls the library, so nothing in the repository says by how many threads
  and in which order it is used.
* **Telemetry, faults on request, path updates** of the simulator. Nobody sends a path update, the others
  are counters and copies of what a message says. Of charging only the scheduled check is modelled, which
  runs every 60 s (`checkBatteryAndAutoCharge`) and overwrites the current order; the battery is a choice
  (`LowBattery`), and `handleChargingOrder` has no caller.
* **Maps, topology, message builders, data classes, common library, controllers without state of their
  own, unused code.** They read, convert and copy; which fields a report carries is in `PathWindow` and
  `TaskDispatch`.
* **Drawing.** Of the pages' drawing code only what is drawn, from what and when is modelled, not lines
  and colours; and not the laser scan, the decoding of map files and the styling of messages.
* **Vue.** Each page has a copy of Vue 3.3.7 beside it, a library of others with 15 445 lines. These two
  files are by far the largest part of the JavaScript in the repository; the system's own logic is in
  the Java services, and that is what most modules are about.

Within the modelled parts: HTTP commands to the simulator at the same time as MQTT commands,
`resumeAction` (no caller), speed and battery commands, shutting down the gateways, a subscription the
broker refuses, requests to ROS2 that wait for an answer, and the estimates of time and energy of the
planner.

## 10. Running

```
tlc -workers 2 -config lease_paths.cfg MCResourceLock.tla
tlapm ResourceLockProofs.tla
tlapm TaskDispatchProofs.tla
tlapm TaskOutcomeProofs.tla
tlapm OrderExecutionProofs.tla
tlapm PathWindowProofs.tla
tlapm MqttLinkProofs.tla
tlapm PagesProofs.tla
tlapm ServicesProofs.tla
```

The other configurations go with `MCResourceLock` (`lease_*`), `MCTaskDispatch` (`dispatch_*`,
`late_*`), `MCOrderExecution` (`orders_*`, `cancelled_*`), `MCPathWindow` (`window_*`, `releases_*`),
`MCServices` (`services_alone`) and `MCPages` (`pages_show`).
