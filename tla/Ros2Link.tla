------------------------------ MODULE Ros2Link ------------------------------
(* The simulator's WebSocket to the robot: Ros2WebSocketClient and its     *)
(* Ros2WebSocketHandler.  connectWithRetry runs on a single thread and     *)
(* never asks whether there is a session already; reconnect, which sets    *)
(* the session to null and schedules connectWithRetry, is called by the    *)
(* WebSocket's threads, by the sender of the queue and by the heartbeat,   *)
(* and none of them excludes another.                                      *)
(*                                                                         *)
(* Sessions are told apart by their roles: the current one (the field      *)
(* session), the one whose future connectWithRetry is waiting for, and     *)
(* the others that are still open, which are only counted.                 *)
EXTENDS Naturals

CONSTANTS
  MaxBreaks,     \* bound: how often the robot goes away
  MaxTimeOuts,   \* bound: how often connecting takes more than 10 s
  MaxBeats       \* bound: how often the heartbeat finds the robot connected

ASSUME RosAssumption == {MaxBreaks, MaxTimeOuts, MaxBeats} \subseteq Nat

VARIABLES
  robot, breaks, timeOuts, beats,
  beating,       \* the heartbeat has found the session ready and not sent yet
  available,     \* isServiceAvailable
  current,       \* session: none, open or closed (or broken, noticed or not)
  dial,          \* connectWithRetry: where it is
  dialed,        \* its session: none, current (the same), open or closed
  late,          \* a connection that opens after its time-out: where it is
  others,        \* how many other sessions are open
  scheduled,     \* how many calls of connectWithRetry wait for their 2 or 10 s to pass
  due,           \* how many are due
  queue,         \* how many messages wait in messageQueue
  reports,       \* how many sessions have broken and not been reported
  callers        \* threads in reconnect: how many of each kind (the sender of the
                 \* queue, and those that call it once or twice) are where

ros == <<robot, breaks, timeOuts, beats, available, current, dial, dialed, late, others, beating,
         scheduled, due, queue, reports, callers>>
faults == <<robot, breaks, timeOuts>>
heart == <<beats, beating>>
standing == <<available, current, dialed, others>>
attempt == <<dial, late>>
waits == <<scheduled, due>>
work == <<queue, reports>>

Kinds == {"sender", "once", "twice"}
Calls == Kinds \X {"entered", "checked", "closed"}

RosTypeOK ==
  /\ {robot, available, beating} \subseteq BOOLEAN
  /\ breaks \in 0..MaxBreaks /\ timeOuts \in 0..MaxTimeOuts /\ beats \in 0..MaxBeats
  /\ current \in {"none", "open", "closed"} /\ dialed \in {"none", "current", "open", "closed"}
  /\ {dial, late} \subseteq {"idle", "dialing", "established", "broken", "waiting"}
  /\ {others, scheduled, due, queue, reports} \subseteq Nat /\ callers \in [Calls -> Nat]

(* init schedules the first call. *)
RosInit ==
  /\ robot \in BOOLEAN /\ breaks = 0 /\ timeOuts = 0 /\ beats = 0 /\ beating = FALSE
  /\ available = FALSE /\ current = "none" /\ dialed = "none" /\ others = 0
  /\ dial = "idle" /\ late = "idle"
  /\ scheduled = 1 /\ due = 0 /\ queue = 0 /\ reports = 0 /\ callers = [c \in Calls |-> 0]

RosReady == available /\ current = "open"

One(condition) == IF condition THEN 1 ELSE 0

-----------------------------------------------------------------------------
(* connectWithRetry.  With a single thread isConnecting is always free. *)

(* What the other threads have under way they do in less than the two      *)
(* seconds, and before the next attempt is made.                           *)
ThreadsAtRest == ~beating /\ reports = 0 /\ queue = 0 /\ \A c \in Calls : callers[c] = 0

DelayPasses ==
  /\ scheduled > 0 /\ scheduled' = 0 /\ due' = due + scheduled /\ ThreadsAtRest
  /\ UNCHANGED <<faults, heart, standing, attempt, work, callers>>

Dials ==
  /\ dial = "idle" /\ due > 0 /\ due' = due - 1 /\ dial' = "dialing" /\ ThreadsAtRest
  /\ UNCHANGED <<faults, heart, standing, late, scheduled, work, callers>>

(* Mutant: only a refused connection is tried again, not a slow one. *)
RetryUnlessSlow(slow) == IF slow THEN scheduled ELSE scheduled + 1

Retry(slow) == scheduled + 1

ConnectFails ==
  /\ dial = "dialing" /\ ~robot /\ dial' = "idle" /\ scheduled' = Retry(FALSE)
  /\ UNCHANGED <<faults, heart, standing, late, due, work, callers>>

(* The time is up; the connection may still come about. *)
TimesOut ==
  /\ dial = "dialing" /\ timeOuts < MaxTimeOuts /\ timeOuts' = timeOuts + 1
  /\ dial' = "idle" /\ scheduled' = Retry(TRUE)
  /\ late' \in IF late = "idle" THEN {"idle", "dialing"} ELSE {late}
  /\ UNCHANGED <<robot, breaks, heart, standing, due, work, callers>>

(* afterConnectionEstablished: the service is available ...                *)
Established ==
  /\ robot /\ available' = TRUE
  /\ \/ dial = "dialing" /\ dial' = "established" /\ UNCHANGED late
     \/ late = "dialing" /\ late' = "established" /\ UNCHANGED dial
  /\ UNCHANGED <<faults, heart, current, dialed, others, waits, work, callers>>

(* The current session is to be replaced: if it is open it stays so.       *)
Leaves ==
  /\ others' = others + One(current = "open" /\ dialed # "current")
  /\ dialed' = IF dialed = "current" THEN current ELSE dialed

(* ... and handleConnected makes the session the current one and queues    *)
(* the registration.  If that is refused, because another session's end    *)
(* has made the service unavailable, the exception closes the session.  A  *)
(* break is noticed, and reported, only after that.                        *)
Connected(place) ==
  /\ place \in {"established", "broken"}
  /\ current' = IF place = "established" /\ available THEN "open" ELSE "closed"
  /\ queue' = queue + One(available) /\ reports' = reports + One(current' = "closed")
  /\ UNCHANGED <<faults, heart, available, waits, callers>>

DialedConnected ==
  /\ Connected(dial) /\ dial' = "waiting" /\ dialed' = "current"
  /\ others' = others + One(current = "open")
  /\ UNCHANGED late

LateConnected == Connected(late) /\ late' = "idle" /\ Leaves /\ UNCHANGED dial

LateFails ==
  /\ late = "dialing" /\ ~robot /\ late' = "idle"
  /\ UNCHANGED <<faults, heart, standing, dial, waits, work, callers>>

(* get returns, and what it returns is made the current session again.     *)
GetReturns ==
  /\ dial = "waiting" /\ dial' = "idle" /\ dialed' = "none"
  /\ IF dialed = "current" THEN UNCHANGED <<current, others>>
     ELSE current' = dialed /\ others' = others + One(current = "open")
  /\ UNCHANGED <<faults, heart, available, late, waits, work, callers>>

-----------------------------------------------------------------------------
(* reconnect *)

(* session may be set to null between the two lines that use it. *)
CheckSession(kind) ==
  /\ callers[<<kind, "entered">>] > 0
  /\ LET next == IF current = "none" THEN "closed" ELSE "checked"
     IN callers' = [callers EXCEPT ![<<kind, "entered">>] = @ - 1, ![<<kind, next>>] = @ + 1]
  /\ UNCHANGED <<faults, heart, standing, attempt, waits, work>>

(* Closing an open session calls afterConnectionClosed, and that reconnect *)
(* once more, before close returns.                                        *)
CloseSession(kind) ==
  /\ callers[<<kind, "checked">>] > 0 /\ current # "none"
  /\ callers' = [callers EXCEPT ![<<kind, "checked">>] = @ - 1, ![<<kind, "closed">>] = @ + 1]
  /\ IF current = "open"
       THEN /\ available' = FALSE /\ current' = "none" /\ scheduled' = scheduled + 1
            /\ dialed' = IF dialed = "current" THEN "closed" ELSE dialed
       ELSE UNCHANGED <<available, current, dialed, scheduled>>
  /\ UNCHANGED <<faults, heart, others, attempt, due, work>>

(* How reconnect goes on after a thread has left it: the sender tries once *)
(* more after an exception, and a transport error calls it twice.          *)
Left(kind, place, again) ==
  LET left == [callers EXCEPT ![<<kind, place>>] = @ - 1]
  IN callers' = IF again THEN [left EXCEPT ![<<"once", "entered">>] = @ + 1] ELSE left

SessionIsNull(kind) ==
  /\ callers[<<kind, "checked">>] > 0 /\ current = "none"
  /\ Left(kind, "checked", kind # "once")
  /\ UNCHANGED <<faults, heart, standing, attempt, waits, work>>

(* A session that has become the current one meanwhile is lost sight of.   *)
ScheduleConnect(kind) ==
  /\ callers[<<kind, "closed">>] > 0
  /\ Left(kind, "closed", kind = "twice")
  /\ current' = "none" /\ Leaves /\ scheduled' = scheduled + 1
  /\ UNCHANGED <<faults, heart, available, attempt, due, work>>

Reconnect(kind) ==
  \/ CheckSession(kind) \/ CloseSession(kind) \/ SessionIsNull(kind)
  \/ ScheduleConnect(kind)

-----------------------------------------------------------------------------
(* The threads that call it *)

Calling(kind) == callers' = [callers EXCEPT ![<<kind, "entered">>] = @ + 1]

(* afterConnectionClosed, or handleTransportError, which closes the        *)
(* session, so that reconnect is called twice one after the other.         *)
Report ==
  /\ reports > 0 /\ reports' = reports - 1 /\ available' = FALSE
  /\ \E kind \in {"once", "twice"} : Calling(kind)
  /\ UNCHANGED <<faults, heart, current, dialed, others, attempt, waits, queue>>

Heartbeat ==
  /\ RosReady /\ ~beating /\ beats < MaxBeats /\ beats' = beats + 1 /\ beating' = TRUE
  /\ UNCHANGED <<faults, standing, attempt, waits, work, callers>>

(* sendMessage; the queue takes 512, more than there are.  A command goes  *)
(* the same way, but that it is the caller's to try again.                 *)
SendHeartbeat ==
  /\ beating /\ beating' = FALSE
  /\ IF RosReady THEN queue' = queue + 1 /\ UNCHANGED callers
                 ELSE Calling("once") /\ UNCHANGED queue
  /\ UNCHANGED <<faults, beats, standing, attempt, waits, reports>>

(* sendMessageSafely: without an open session the message is dropped.      *)
SendSafely ==
  /\ queue > 0 /\ queue' = queue - 1
  /\ callers[<<"sender", "entered">>] + callers[<<"sender", "checked">>] + callers[<<"sender", "closed">>] = 0
  /\ IF current = "open" THEN UNCHANGED callers ELSE Calling("sender")
  /\ UNCHANGED <<faults, heart, standing, attempt, waits, reports>>

-----------------------------------------------------------------------------
RobotBreaks ==
  /\ robot /\ breaks < MaxBreaks /\ robot' = FALSE /\ breaks' = breaks + 1
  /\ reports' = reports + others + One(current = "open") + One(dialed = "open")
  /\ others' = 0
  /\ current' = IF current = "open" THEN "closed" ELSE current
  /\ dialed' = IF dialed = "open" THEN "closed" ELSE dialed
  /\ dial' = IF dial = "established" THEN "broken" ELSE dial
  /\ late' = IF late = "established" THEN "broken" ELSE late
  /\ UNCHANGED <<timeOuts, heart, available, waits, queue, callers>>

RobotReturns ==
  /\ ~robot /\ robot' = TRUE
  /\ UNCHANGED <<breaks, timeOuts, heart, standing, attempt, waits, work, callers>>

Connecting == DelayPasses \/ Dials \/ ConnectFails \/ Established \/ DialedConnected \/ GetReturns
Reconnecting == \E kind \in Kinds : Reconnect(kind)

RosNext ==
  \/ Connecting \/ TimesOut \/ LateConnected \/ LateFails
  \/ Reconnecting \/ Report \/ Heartbeat \/ SendHeartbeat \/ SendSafely
  \/ RobotBreaks \/ RobotReturns

(* Scheduled calls are made, connecting ends, and so does every thread's   *)
(* way through reconnect; the robot need not come back.                    *)
RosFairness ==
  /\ WF_ros(Connecting) /\ WF_ros(LateConnected) /\ WF_ros(Reconnecting) /\ WF_ros(Report)
  /\ WF_ros(SendSafely) /\ WF_ros(SendHeartbeat)

RosSpec == RosInit /\ [][RosNext]_ros /\ RosFairness

-----------------------------------------------------------------------------
(* Whatever way the session is lost, set to null or replaced by whichever  *)
(* threads at once: if the robot stays, messages can be sent in the end.   *)
RosRecovers == <>[]robot => <>[]RosReady
=============================================================================
