------------------------------ MODULE MqttLink ------------------------------
(***************************************************************************)
(* The MQTT connection of both services: scheduleReconnect, doReconnect,   *)
(* calculateNextDelay and connectionLost of MqttGateway (dispatcher) and   *)
(* AgvMqttGateway (simulator).  The two classes are the same but for how   *)
(* the first connection is made and for the simulator's connect listener.  *)
(*                                                                         *)
(* Three threads take part: the one that starts the service, the reconnect *)
(* executor's only thread, and the thread on which Paho reports a loss.    *)
(* doReconnect and scheduleReconnect are synchronized; connectionLost and  *)
(* the end of the executor's task are not.  Shutting down is left out.     *)
(***************************************************************************)
EXTENDS Naturals

CONSTANTS
    Gateways,    \* the services to model
    MaxLosses    \* bound on how often the broker goes away

ASSUME GatewaysAssumption == Gateways \subseteq {"dispatcher", "simulator"}
ASSUME BoundAssumption == MaxLosses \in Nat

Initial == 1         \* INITIAL_RECONNECT_DELAY_MS, the unit of delays: 5 s
Longest == 60        \* MAX_RECONNECT_DELAY_MS: 300 s
MaxAttempts == 8     \* bound on reconnectAttempt; the delay does not change after 7

NoThread == "none"
Threads == {"main", "executor", "callback"}

\* Where a thread can be: nowhere, in doReconnect, after it, about to schedule, and in
\* connectionLost.
Places ==
    {"idle", "enter", "connect", "verify", "announce", "subscribe",
     "succeeded", "clear", "failed", "again", "schedule",
     "lost", "check", "skipped", "reset"}

VARIABLES
    gateway,       \* which service this is
    broker,        \* the broker can be reached
    losses,        \* how often it went away
    client,        \* mqttClient: "none", "new" (not connected), "up" or "lost"
    subscribed,    \* this client's topics are subscribed
    connected, reconnecting, attempts,
    pending,       \* tasks in the executor's queue
    delay,         \* the delay of the last one
    online,        \* AgvStatus.connected (simulator)
    heartbeats,    \* heartbeat tasks of the simulator, counted up to 2
    owner,         \* the thread in a synchronized method
    pc,            \* where each thread is
    wanted         \* the delay each thread is about to schedule with

session == <<client, subscribed, connected>>
backoff == <<reconnecting, attempts, pending, delay>>
agv == <<online, heartbeats>>
world == <<gateway, broker, losses>>
vars == <<world, session, backoff, agv, owner, pc, wanted>>

-----------------------------------------------------------------------------
Least(a, b) == IF a < b THEN a ELSE b

\* Mutant: calculateNextDelay without its last line.
NextDelayUnbounded(n) == IF n = 0 THEN 0 ELSE Initial * 2^Least(n - 1, 6)

\* Mutant: one is taken from the power, not from the exponent.
NextDelayMisread(n) == IF n = 0 THEN 0 ELSE Least(Initial * (2^Least(n, 6) - 1), Longest)

\* calculateNextDelay.  1L << -1 is the sign bit, which times 5000 is 0 in 64 bits.
NextDelay(n) == IF n = 0 THEN 0 ELSE Least(Initial * 2^Least(n - 1, 6), Longest)

Goto(t, place) == pc' = [pc EXCEPT ![t] = place]
Free(t) == owner \in {NoThread, t}

Init ==
    /\ gateway \in Gateways
    /\ broker \in BOOLEAN
    /\ losses = 0
    /\ client = "none"
    /\ subscribed = FALSE
    /\ connected = FALSE
    /\ reconnecting = FALSE
    /\ attempts = 0
    /\ pending = 0
    /\ delay = 0
    /\ online = FALSE
    /\ heartbeats = 0
    /\ owner = NoThread
    /\ pc = [t \in Threads |-> IF t # "main" THEN "idle"
                               ELSE IF gateway = "simulator" THEN "enter" ELSE "schedule"]
    /\ wanted = [t \in Threads |-> 0]

-----------------------------------------------------------------------------
(* scheduleReconnect.  Nothing inside it can be seen half done: reconnecting *)
(* is the only thing that others read without the monitor.                  *)

AlreadyReconnecting(t) ==
    /\ pc[t] = "schedule" /\ Free(t)
    /\ reconnecting /\ wanted[t] > 0
    /\ Goto(t, "idle")
    /\ UNCHANGED <<world, session, backoff, agv, owner, wanted>>

\* Mutant: scheduleReconnect without its early return and without the cancel.
ScheduleReconnectAlways(t) ==
    /\ pc[t] = "schedule" /\ Free(t)
    /\ pending' = pending + 1
    /\ delay' = wanted[t]
    /\ reconnecting' = TRUE
    /\ attempts' = Least(attempts + 1, MaxAttempts)
    /\ Goto(t, "idle")
    /\ UNCHANGED <<world, session, agv, owner, wanted>>

\* The pending task, if there is one, is cancelled.
ScheduleReconnect(t) ==
    /\ pc[t] = "schedule" /\ Free(t)
    /\ ~(reconnecting /\ wanted[t] > 0)
    /\ pending' = 1
    /\ delay' = wanted[t]
    /\ reconnecting' = TRUE
    /\ attempts' = Least(attempts + 1, MaxAttempts)
    /\ Goto(t, "idle")
    /\ UNCHANGED <<world, session, agv, owner, wanted>>

\* The delay has passed.  The other threads do what they have to in less than that, and
\* in less than it takes to connect where the delay is 0.
Fire ==
    /\ pending > 0 /\ pc["executor"] = "idle"
    /\ pc["callback"] = "idle" /\ pc["main"] = "idle"
    /\ pending' = pending - 1
    /\ Goto("executor", "enter")
    /\ UNCHANGED <<world, session, reconnecting, attempts, delay, agv, owner, wanted>>

-----------------------------------------------------------------------------
(* doReconnect *)

\* closeExistingClient and the new client.  The check at the head of doReconnect, whether
\* the client is connected after all, never finds it so: whoever connects it has gone
\* through here, and an attempt is scheduled only when it has failed or been lost.
Renew(t) ==
    /\ pc[t] = "enter" /\ Free(t)
    /\ client # "up"
    /\ client' = "new"
    /\ subscribed' = FALSE
    /\ owner' = t
    /\ Goto(t, "connect")
    /\ UNCHANGED <<world, connected, backoff, agv, wanted>>

Connect(t) ==
    /\ pc[t] = "connect"
    /\ broker
    /\ client' = "up"
    /\ Goto(t, "verify")
    /\ UNCHANGED <<world, subscribed, connected, backoff, agv, owner, wanted>>

\* connect throws, or the client is not connected any more when it is asked.
Refused(t) ==
    /\ \/ pc[t] = "connect" /\ ~broker
       \/ pc[t] = "verify" /\ client # "up"
    /\ connected' = FALSE
    /\ owner' = NoThread
    /\ Goto(t, "failed")
    /\ UNCHANGED <<world, client, subscribed, backoff, agv, wanted>>

\* connected.set(true).
Verified(t) ==
    /\ pc[t] = "verify"
    /\ client = "up"
    /\ connected' = TRUE
    /\ Goto(t, "announce")
    /\ UNCHANGED <<world, client, subscribed, backoff, agv, owner, wanted>>

\* Mutant: the second connection does not start the AGV again, to have one heartbeat task.
AnnounceFirst(t) ==
    /\ pc[t] = "announce"
    /\ IF gateway = "simulator" /\ heartbeats = 0
          THEN online' = TRUE /\ heartbeats' = 1
          ELSE UNCHANGED agv
    /\ Goto(t, "subscribe")
    /\ UNCHANGED <<world, session, backoff, owner, wanted>>

\* onMqttConnect, which the dispatcher does not have.
Announce(t) ==
    /\ pc[t] = "announce"
    /\ IF gateway = "simulator"
          THEN online' = TRUE /\ heartbeats' = Least(heartbeats + 1, 2)
          ELSE UNCHANGED agv
    /\ Goto(t, "subscribe")
    /\ UNCHANGED <<world, session, backoff, owner, wanted>>

\* subscribeTopics swallows its exceptions.
Subscribe(t) ==
    /\ pc[t] = "subscribe"
    /\ subscribed' = (client = "up")
    /\ owner' = NoThread
    /\ Goto(t, "succeeded")
    /\ UNCHANGED <<world, client, connected, backoff, agv, wanted>>

-----------------------------------------------------------------------------
(* The end of the executor's task, and of onApplicationEvent *)

ResetAttempts ==
    /\ pc["executor"] = "succeeded"
    /\ attempts' = 0
    /\ Goto("executor", "clear")
    /\ UNCHANGED <<world, session, reconnecting, pending, delay, agv, owner, wanted>>

Started ==
    /\ pc["main"] = "succeeded"
    /\ Goto("main", "idle")
    /\ UNCHANGED <<world, session, backoff, agv, owner, wanted>>

Succeeded ==
    /\ pc["executor"] = "clear"
    /\ reconnecting' = FALSE
    /\ Goto("executor", "idle")
    /\ UNCHANGED <<world, session, attempts, pending, delay, agv, owner, wanted>>

BackOff ==
    /\ pc["executor"] = "failed"
    /\ wanted' = [wanted EXCEPT !["executor"] = NextDelay(attempts)]
    /\ Goto("executor", "again")
    /\ UNCHANGED <<world, session, backoff, agv, owner>>

\* Mutant: the flag is left to scheduleReconnect, which sets it anyway.
TryAgainStill ==
    /\ pc["executor"] = "again"
    /\ Goto("executor", "schedule")
    /\ UNCHANGED <<world, session, backoff, agv, owner, wanted>>

TryAgain ==
    /\ pc["executor"] = "again"
    /\ reconnecting' = FALSE
    /\ Goto("executor", "schedule")
    /\ UNCHANGED <<world, session, attempts, pending, delay, agv, owner, wanted>>

StartFailed ==
    /\ pc["main"] = "failed"
    /\ wanted' = [wanted EXCEPT !["main"] = Initial]
    /\ Goto("main", "schedule")
    /\ UNCHANGED <<world, session, backoff, agv, owner>>

-----------------------------------------------------------------------------
(* The broker, and connectionLost.  The next client connects only when the  *)
(* loss of the last one has been reported, so one callback at a time is enough. *)

BrokerFails ==
    /\ broker /\ losses < MaxLosses
    /\ client = "up" => pc["callback"] = "idle"
    /\ broker' = FALSE
    /\ losses' = losses + 1
    /\ IF client = "up"
          THEN client' = "lost" /\ Goto("callback", "lost")
          ELSE UNCHANGED <<client, pc>>
    /\ UNCHANGED <<gateway, subscribed, connected, backoff, agv, owner, wanted>>

BrokerReturns ==
    /\ ~broker
    /\ broker' = TRUE
    /\ UNCHANGED <<gateway, losses, session, backoff, agv, owner, pc, wanted>>

\* With onMqttDisConnect, which the dispatcher does not have.
ConnectionLost ==
    /\ pc["callback"] = "lost"
    /\ connected' = FALSE
    /\ online' = FALSE
    /\ Goto("callback", "check")
    /\ UNCHANGED <<world, client, subscribed, backoff, heartbeats, owner, wanted>>

LossSkipped ==
    /\ pc["callback"] = "check"
    /\ reconnecting
    /\ Goto("callback", "skipped")
    /\ UNCHANGED <<world, session, backoff, agv, owner, wanted>>

SkipEnds ==
    /\ pc["callback"] = "skipped"
    /\ Goto("callback", "idle")
    /\ UNCHANGED <<world, session, backoff, agv, owner, wanted>>

LossTaken ==
    /\ pc["callback"] = "check"
    /\ ~reconnecting
    /\ Goto("callback", "reset")
    /\ UNCHANGED <<world, session, backoff, agv, owner, wanted>>

ReconnectAfterLoss ==
    /\ pc["callback"] = "reset"
    /\ attempts' = 0
    /\ wanted' = [wanted EXCEPT !["callback"] = Initial]
    /\ Goto("callback", "schedule")
    /\ UNCHANGED <<world, session, reconnecting, pending, delay, agv, owner>>

-----------------------------------------------------------------------------
ThreadStep(t) ==
    \/ AlreadyReconnecting(t) \/ ScheduleReconnect(t)
    \/ Renew(t) \/ Connect(t) \/ Refused(t) \/ Verified(t)
    \/ Announce(t) \/ Subscribe(t)

MainStep == ThreadStep("main") \/ Started \/ StartFailed
ExecutorStep == ThreadStep("executor") \/ Fire \/ ResetAttempts \/ Succeeded \/ BackOff \/ TryAgain
CallbackStep ==
    \/ ThreadStep("callback") \/ ConnectionLost \/ LossSkipped \/ SkipEnds
    \/ LossTaken \/ ReconnectAfterLoss

Next == MainStep \/ ExecutorStep \/ CallbackStep \/ BrokerFails \/ BrokerReturns

Spec == Init /\ [][Next]_vars

\* The threads go on, a monitor is handed on, a delay passes; the broker need not return.
FairSpec == Spec /\ WF_vars(MainStep) /\ WF_vars(ExecutorStep) /\ WF_vars(CallbackStep)

-----------------------------------------------------------------------------
(* Properties *)

Idle(t) == pc[t] = "idle"
AtRest == pending = 0 /\ \A t \in Threads : Idle(t)
Ready == client = "up" /\ connected /\ subscribed

\* The state keeps its types.
TypeOK ==
    /\ gateway \in Gateways
    /\ broker \in BOOLEAN /\ losses \in 0..MaxLosses
    /\ client \in {"none", "new", "up", "lost"}
    /\ subscribed \in BOOLEAN /\ connected \in BOOLEAN /\ reconnecting \in BOOLEAN
    /\ attempts \in 0..MaxAttempts /\ pending \in Nat /\ delay \in 0..Longest
    /\ online \in BOOLEAN /\ heartbeats \in 0..2
    /\ owner \in Threads \union {NoThread}
    /\ pc \in [Threads -> Places]
    /\ wanted \in [Threads -> 0..Longest]

\* "Make sure that only one reconnect task runs": an attempt under way and those that
\* wait in the queue are never more than one together (comment of scheduleReconnect).
OneAttempt ==
    LET underway == \E t \in Threads : pc[t] \in {"enter", "connect", "verify", "announce", "subscribe"}
    IN  pending + (IF underway THEN 1 ELSE 0) <= 1

\* The first connection may be tried at once; a failed attempt is repeated after 5 s at
\* the earliest, after 300 s at the latest, and after at most twice the last delay
\* (scheduleReconnect, calculateNextDelay).  Where a callback has reset the counter
\* in the meantime the delay is 0, and nothing is said.
Repeated == pc["executor"] = "schedule" /\ pc'["executor"] = "idle" /\ pending' > pending
BacksOff ==
    [][Repeated /\ attempts > 0 =>
                   /\ delay' \in Initial..Longest
                   /\ delay' <= 2 * (IF delay = 0 THEN Initial ELSE delay)]_vars

\* When nothing is under way and the simulator can send and hear, it knows itself online
\* and sends heartbeats: the report of the loss does not come after that of the new
\* connection (onMqttConnect, onMqttDisConnect).
OnlineWhenReady ==
    gateway = "simulator" /\ AtRest /\ Ready => online /\ heartbeats > 0

\* If the broker stays, the service is connected and subscribed in the end, unless
\* connectionLost found reconnecting still TRUE and did nothing.
RecoversIfHeard ==
    <>[]broker /\ [](pc["callback"] # "skipped") => <>[]Ready

\* What one would want: if the broker stays, the service is connected in the end.
Recovers == <>[]broker => <>[]Ready

=============================================================================
