--------------------------- MODULE MqttLinkProofs ---------------------------
(* MqttLink: one attempt to connect at a time, with growing delays, and an   *)
(* AGV that knows itself online when it is, for any number of losses.        *)
EXTENDS MqttLink, TLAPS

InAttempt == {"enter", "connect", "verify", "announce", "subscribe"}
OfCallback == {"idle", "lost", "check", "skipped", "reset", "schedule"}

\* From the start of an attempt until the executor's task clears reconnecting.
OfTask == InAttempt \union {"succeeded", "clear", "failed", "again"}

\* The functions are functions on the threads.
Shape ==
    /\ pc \in [Threads -> Places]
    /\ wanted = [t \in Threads |-> wanted[t]]
    /\ pending \in {0, 1} /\ attempts \in Nat
    /\ pc["callback"] \in OfCallback

\* What is scheduled or runs on the executor is announced by the flag.
Flagged ==
    /\ pending = 1 => reconnecting
    /\ pc["executor"] \in OfTask => reconnecting /\ pending = 0

\* Nothing is scheduled while the first connection is made: the monitor is held, or
\* there has been no connection yet that could be lost.
FirstAlone ==
    /\ pc["main"] \in InAttempt =>
           /\ pending = 0 /\ pc["executor"] = "idle"
           /\ IF pc["main"] = "enter" THEN client = "none" /\ pc["callback"] = "idle"
                                      ELSE owner = "main"

\* All but the first call of the dispatcher and the executor's own heed the flag.
Heedful ==
    /\ pc["callback"] = "schedule" => wanted["callback"] = 1
    /\ pc["main"] = "schedule" => \/ wanted["main"] = 1
                                  \/ pending = 0 /\ pc["executor"] = "idle"
                                     /\ client = "none" /\ pc["callback"] = "idle"

IInv == Shape /\ Flagged /\ FirstAlone /\ Heedful

-----------------------------------------------------------------------------
LEMMA InitIInv == Init => IInv
  BY DEF Init, IInv, Shape, Flagged, FirstAlone, Heedful, InAttempt, OfTask, OfCallback, Threads, Places

LEMMA IInvOneAttempt == IInv => OneAttempt
  BY DEF IInv, Shape, Flagged, FirstAlone, OneAttempt, InAttempt, OfTask, OfCallback, Threads, Places

\* scheduleReconnect
LEMMA ScheduleIInv ==
    ASSUME IInv, NEW t \in Threads, AlreadyReconnecting(t) \/ ScheduleReconnect(t)
    PROVE  IInv'
  <1> USE DEF IInv, Shape, Flagged, FirstAlone, Heedful, InAttempt, OfTask, OfCallback, Threads, Places,
              Goto, Free, world, session, agv
  <1>1. CASE AlreadyReconnecting(t)
    BY <1>1 DEF AlreadyReconnecting, backoff
  <1>2. CASE ScheduleReconnect(t)
    <2>1. attempts' \in Nat
      BY <1>2 DEF ScheduleReconnect, Least, MaxAttempts
    <2>2. CASE t = "callback"
      <3>1. ~reconnecting
        BY <1>2, <2>2 DEF ScheduleReconnect
      <3>2. pc["executor"] \notin OfTask
        BY <3>1
      <3>3. pc["main"] \notin InAttempt
        BY <1>2, <2>2 DEF ScheduleReconnect, NoThread
      <3>4. QED
        BY <1>2, <2>1, <2>2, <3>2, <3>3 DEF ScheduleReconnect
    <2>3. CASE t = "main"
      BY <1>2, <2>1, <2>3 DEF ScheduleReconnect
    <2>4. CASE t = "executor"
      BY <1>2, <2>1, <2>4 DEF ScheduleReconnect
    <2>5. QED
      BY <2>2, <2>3, <2>4
  <1>3. QED
    BY <1>1, <1>2

\* doReconnect
LEMMA AttemptIInv ==
    ASSUME IInv, NEW t \in Threads,
           \/ Renew(t) \/ Connect(t) \/ Refused(t) \/ Verified(t) \/ Announce(t) \/ Subscribe(t)
    PROVE  IInv'
  <1> USE DEF IInv, Shape, Flagged, FirstAlone, Heedful, InAttempt, OfTask, OfCallback, Threads, Places,
              Goto, Free, world, session, backoff, agv
  <1>1. t # "callback"
    BY DEF Renew, Connect, Refused, Verified, Announce, Subscribe
  <1>2. CASE Renew(t)
    BY <1>1, <1>2 DEF Renew
  <1>3. CASE Connect(t)
    BY <1>1, <1>3 DEF Connect
  <1>4. CASE Refused(t)
    BY <1>1, <1>4 DEF Refused, NoThread
  <1>5. CASE Verified(t)
    BY <1>1, <1>5 DEF Verified
  <1>6. CASE Announce(t)
    BY <1>1, <1>6 DEF Announce
  <1>7. CASE Subscribe(t)
    BY <1>1, <1>7 DEF Subscribe, NoThread
  <1>8. QED
    BY <1>2, <1>3, <1>4, <1>5, <1>6, <1>7

\* What the executor and the main thread do before and after an attempt.
LEMMA TaskIInv ==
    ASSUME IInv,
           \/ Fire \/ ResetAttempts \/ Succeeded \/ BackOff \/ TryAgain \/ Started \/ StartFailed
    PROVE  IInv'
  <1> USE DEF IInv, Shape, Flagged, FirstAlone, Heedful, InAttempt, OfTask, OfCallback, Threads, Places,
              Goto, world, session, agv
  <1>1. CASE Fire
    BY <1>1 DEF Fire
  <1>2. CASE ResetAttempts
    BY <1>2 DEF ResetAttempts
  <1>3. CASE Succeeded
    BY <1>3 DEF Succeeded
  <1>4. CASE BackOff
    BY <1>4 DEF BackOff, backoff
  <1>5. CASE TryAgain
    BY <1>5 DEF TryAgain
  <1>6. CASE Started
    BY <1>6 DEF Started, backoff
  <1>7. CASE StartFailed
    BY <1>7 DEF StartFailed, backoff, Initial
  <1>8. QED
    BY <1>1, <1>2, <1>3, <1>4, <1>5, <1>6, <1>7

\* The broker and connectionLost.
LEMMA LossIInv ==
    ASSUME IInv,
           \/ BrokerFails \/ BrokerReturns \/ ConnectionLost \/ LossSkipped \/ SkipEnds
           \/ LossTaken \/ ReconnectAfterLoss
    PROVE  IInv'
  <1> USE DEF IInv, Shape, Flagged, FirstAlone, Heedful, InAttempt, OfTask, OfCallback, Threads, Places,
              Goto, world, session, agv
  <1>1. CASE BrokerFails
    BY <1>1 DEF BrokerFails, backoff
  <1>2. CASE BrokerReturns
    BY <1>2 DEF BrokerReturns, backoff
  <1>3. CASE ConnectionLost
    BY <1>3 DEF ConnectionLost, backoff
  <1>4. CASE LossSkipped
    BY <1>4 DEF LossSkipped, backoff
  <1>5. CASE SkipEnds
    BY <1>5 DEF SkipEnds, backoff
  <1>6. CASE LossTaken
    BY <1>6 DEF LossTaken, backoff
  <1>7. CASE ReconnectAfterLoss
    BY <1>7 DEF ReconnectAfterLoss, Initial
  <1>8. QED
    BY <1>1, <1>2, <1>3, <1>4, <1>5, <1>6, <1>7

\* Every step keeps the invariant.
LEMMA NextIInv == IInv /\ [Next]_vars => IInv'
  <1> SUFFICES ASSUME IInv, [Next]_vars PROVE IInv'
    OBVIOUS
  <1>1. ASSUME NEW t \in Threads, ThreadStep(t) PROVE IInv'
    BY <1>1, ScheduleIInv, AttemptIInv DEF ThreadStep
  <1>2. CASE UNCHANGED vars
    BY <1>2 DEF vars, world, session, backoff, agv, IInv, Shape, Flagged, FirstAlone, Heedful
  <1>3. QED
    BY <1>1, <1>2, TaskIInv, LossIInv DEF Next, MainStep, ExecutorStep, CallbackStep, Threads

\* However often the broker goes away, and at whatever moment: an attempt under way and
\* the scheduled ones are never more than one (scheduleReconnect's guard and cancel,
\* with doReconnect's monitor).
THEOREM AttemptsAlone == Spec => []OneAttempt
  BY InitIInv, NextIInv, IInvOneAttempt, PTL DEF Spec

-----------------------------------------------------------------------------
(* Types *)

\* The powers of two that calculateNextDelay can shift by.
LEMMA Powers == \A n \in 0..6 : 2^n \in Nat
  <1>1. 2^0 \in Nat /\ 2^1 \in Nat /\ 2^2 \in Nat /\ 2^3 \in Nat /\ 2^4 \in Nat /\ 2^5 \in Nat /\ 2^6 \in Nat
    OBVIOUS
  <1>2. \A n \in 0..6 : n \in {0, 1, 2, 3, 4, 5, 6}
    OBVIOUS
  <1>3. \A n \in {0, 1, 2, 3, 4, 5, 6} : 2^n \in Nat
    BY <1>1, Zenon
  <1>4. QED
    BY <1>2, <1>3, Zenon

\* calculateNextDelay, attempt by attempt: 0, 5, 10, 20, 40, 80, 160 and 300 s.
LEMMA Delays ==
    /\ NextDelay(0) = 0 /\ NextDelay(1) = 1 /\ NextDelay(2) = 2 /\ NextDelay(3) = 4 /\ NextDelay(4) = 8
    /\ NextDelay(5) = 16 /\ NextDelay(6) = 32 /\ NextDelay(7) = 60 /\ NextDelay(8) = 60
  <1>1. /\ 2^0 = 1 /\ 2^1 = 2 /\ 2^2 = 4 /\ 2^3 = 8
        /\ 2^4 = 16 /\ 2^5 = 32 /\ 2^6 = 64
    OBVIOUS
  <1>2. NextDelay(0) = 0
    BY DEF NextDelay
  <1>3. ASSUME NEW n \in 1..8 PROVE NextDelay(n) = LET p == IF n < 7 THEN n - 1 ELSE 6
                                                   IN  IF 2^p < 60 THEN 2^p ELSE 60
    <2>1. Least(n - 1, 6) = IF n < 7 THEN n - 1 ELSE 6
      BY DEF Least
    <2>2. DEFINE p == IF n < 7 THEN n - 1 ELSE 6
    <2>3. p \in 0..6 /\ n # 0
      OBVIOUS
    <2>4. 2^p \in Nat
      <3> HIDE DEF p
      <3>1. QED
        BY <2>3, Powers, Zenon
    <2>5. NextDelay(n) = Least(Initial * 2^p, Longest)
      BY <2>1, <2>3 DEF NextDelay
    <2> HIDE DEF p
    <2>6. \A q \in Nat : Initial * q = q
      BY DEF Initial
    <2>7. NextDelay(n) = IF 2^p < 60 THEN 2^p ELSE 60
      BY <2>4, <2>5, <2>6 DEF Least, Longest
    <2>8. QED
      BY <2>7 DEF p
  <1>4. QED
    BY <1>1, <1>2, <1>3

\* The delay is within the bounds of the code, and an attempt more doubles it at most.
LEMMA NextDelayBounds ==
    \A n \in 0..MaxAttempts :
        /\ NextDelay(n) \in 0..Longest
        /\ n > 0 => NextDelay(n) \in Initial..Longest
        /\ NextDelay(Least(n + 1, MaxAttempts)) <= 2 * (IF NextDelay(n) = 0 THEN Initial ELSE NextDelay(n))
  <1>1. \A n \in 0..MaxAttempts : n \in {0, 1, 2, 3, 4, 5, 6, 7, 8}
    BY DEF MaxAttempts
  <1>2. \A n \in 0..MaxAttempts : Least(n + 1, MaxAttempts) = IF n = 8 THEN 8 ELSE n + 1
    BY DEF Least, MaxAttempts
  <1>3. QED
    BY <1>1, <1>2, Delays DEF Initial, Longest

LEMMA InitTypeOK == Init => TypeOK
  <1> SUFFICES ASSUME Init PROVE TypeOK
    OBVIOUS
  <1>1. losses \in 0..MaxLosses /\ attempts \in 0..MaxAttempts /\ delay \in 0..Longest /\ heartbeats \in 0..2
        /\ pending \in Nat
    BY BoundAssumption DEF Init, MaxAttempts, Longest
  <1>2. wanted \in [Threads -> 0..Longest]
    BY DEF Init, Longest
  <1>3. pc \in [Threads -> Places]
    BY DEF Init, Threads, Places
  <1>4. QED
    BY <1>1, <1>2, <1>3 DEF Init, TypeOK

LEMMA ThreadTypeOK == ASSUME TypeOK, NEW t \in Threads, ThreadStep(t) PROVE TypeOK'
  <1> USE DEF TypeOK, Threads, Places, Goto, Free, world, session, backoff, agv, NoThread
  <1>1. CASE AlreadyReconnecting(t)
    BY <1>1 DEF AlreadyReconnecting
  <1>2. CASE ScheduleReconnect(t)
    <2>1. attempts' \in 0..MaxAttempts
      BY <1>2 DEF ScheduleReconnect, Least, MaxAttempts
    <2>2. QED
      BY <1>2, <2>1 DEF ScheduleReconnect
  <1>3. CASE Renew(t)
    BY <1>3 DEF Renew
  <1>4. CASE Connect(t)
    BY <1>4 DEF Connect
  <1>5. CASE Refused(t)
    BY <1>5 DEF Refused
  <1>6. CASE Verified(t)
    BY <1>6 DEF Verified
  <1>7. CASE Announce(t)
    <2>1. heartbeats' \in 0..2
      BY <1>7 DEF Announce, Least
    <2>2. QED
      BY <1>7, <2>1 DEF Announce
  <1>8. CASE Subscribe(t)
    BY <1>8 DEF Subscribe
  <1>9. QED
    BY <1>1, <1>2, <1>3, <1>4, <1>5, <1>6, <1>7, <1>8 DEF ThreadStep

\* What the three threads do outside of doReconnect and scheduleReconnect, and the broker.
LEMMA OtherTypeOK ==
    ASSUME TypeOK,
           \/ Fire \/ ResetAttempts \/ Succeeded \/ BackOff \/ TryAgain \/ Started \/ StartFailed
           \/ BrokerFails \/ BrokerReturns \/ ConnectionLost \/ LossSkipped \/ SkipEnds
           \/ LossTaken \/ ReconnectAfterLoss
    PROVE  TypeOK'
  <1> USE DEF TypeOK, Threads, Places, Goto, world, session, backoff, agv
  <1>1. CASE Fire
    BY <1>1 DEF Fire
  <1>2. CASE ResetAttempts
    BY <1>2 DEF ResetAttempts, MaxAttempts
  <1>3. CASE Succeeded
    BY <1>3 DEF Succeeded
  <1>4. CASE BackOff
    <2>1. NextDelay(attempts) \in 0..Longest
      BY NextDelayBounds
    <2>2. QED
      BY <1>4, <2>1 DEF BackOff
  <1>5. CASE TryAgain
    BY <1>5 DEF TryAgain
  <1>6. CASE Started
    BY <1>6 DEF Started
  <1>7. CASE StartFailed
    BY <1>7 DEF StartFailed, Initial, Longest
  <1>8. CASE BrokerFails
    <2>1. losses' \in 0..MaxLosses
      BY <1>8, BoundAssumption DEF BrokerFails
    <2>2. client' \in {"none", "new", "up", "lost"} /\ pc' \in [Threads -> Places]
      BY <1>8 DEF BrokerFails
    <2>3. QED
      BY <1>8, <2>1, <2>2 DEF BrokerFails
  <1>9. CASE BrokerReturns
    BY <1>9 DEF BrokerReturns
  <1>10. CASE ConnectionLost
    BY <1>10 DEF ConnectionLost
  <1>11. CASE LossSkipped
    BY <1>11 DEF LossSkipped
  <1>12. CASE SkipEnds
    BY <1>12 DEF SkipEnds
  <1>13. CASE LossTaken
    BY <1>13 DEF LossTaken
  <1>14. CASE ReconnectAfterLoss
    BY <1>14 DEF ReconnectAfterLoss, Initial, Longest, MaxAttempts
  <1>15. QED
    BY <1>1, <1>2, <1>3, <1>4, <1>5, <1>6, <1>7, <1>8, <1>9, <1>10, <1>11, <1>12, <1>13, <1>14

LEMMA NextTypeOK == TypeOK /\ [Next]_vars => TypeOK'
  <1> SUFFICES ASSUME TypeOK, [Next]_vars PROVE TypeOK'
    OBVIOUS
  <1>1. ASSUME NEW t \in Threads, ThreadStep(t) PROVE TypeOK'
    BY <1>1, ThreadTypeOK
  <1>2. CASE UNCHANGED vars
    BY <1>2 DEF vars, world, session, backoff, agv, TypeOK
  <1>3. QED
    BY <1>1, <1>2, OtherTypeOK DEF Next, MainStep, ExecutorStep, CallbackStep, Threads

\* The state keeps its types: the delay is never longer than 300 s, however many attempts
\* there have been (calculateNextDelay).
THEOREM TypeCorrect == Spec => []TypeOK
  BY InitTypeOK, NextTypeOK, PTL DEF Spec


-----------------------------------------------------------------------------
(* Delays *)

\* The next delay is at most twice the last one, and what the executor is about to schedule
\* with is that next delay, unless connectionLost has reset the counter meanwhile: it does
\* so only between two attempts.
Paced ==
    /\ NextDelay(attempts) <= 2 * (IF delay = 0 THEN Initial ELSE delay)
    /\ pc["main"] # "idle" => pc["executor"] = "idle" /\ (attempts = 0 \/ (attempts = 1 /\ reconnecting))
    /\ pc["executor"] \in OfTask \union {"idle", "schedule"}
    /\ pc["callback"] \in {"reset", "schedule"} => pc["executor"] \in {"idle", "schedule"}
    /\ pc["callback"] = "schedule" => attempts = 0 \/ reconnecting
    /\ pc["executor"] = "again" => wanted["executor"] = NextDelay(attempts)
    /\ pc["executor"] = "schedule" => \/ pending = 0 /\ wanted["executor"] = NextDelay(attempts)
                                      \/ attempts = 0
                                      \/ pending = 1 /\ attempts = 1

LEMMA InitPaced == Init => Paced
  <1>1. ASSUME Init PROVE pc["executor"] = "idle" /\ pc["callback"] = "idle" /\ attempts = 0 /\ delay = 0
    BY <1>1 DEF Init, Threads
  <1>2. QED
    BY <1>1, Delays DEF Paced, Initial

\* scheduleReconnect: who gets through it, with which delay.
LEMMA SchedulePaced ==
    ASSUME IInv, TypeOK, Paced, NEW t \in Threads, ScheduleReconnect(t)
    PROVE  Paced'
  <1> DEFINE Once(n) == IF n = 0 THEN Initial ELSE n
  <1>1. attempts' = Least(attempts + 1, MaxAttempts) /\ delay' = wanted[t] /\ reconnecting' /\ pending' = 1
    BY DEF ScheduleReconnect
  <1>2. attempts \in 0..MaxAttempts /\ wanted[t] \in 0..Longest
    BY DEF TypeOK
  <1>3. attempts <= 1 \/ wanted[t] = NextDelay(attempts)
    <2>1. CASE t = "executor"
      BY <2>1, <1>2 DEF ScheduleReconnect, Paced
    <2>2. CASE t = "callback"
      BY <2>2, <1>2 DEF ScheduleReconnect, Paced, IInv, Heedful
    <2>3. CASE t = "main"
      BY <2>3 DEF ScheduleReconnect, Paced
    <2>4. QED
      BY <2>1, <2>2, <2>3 DEF Threads
  <1>4. NextDelay(attempts') <= 2 * (IF delay' = 0 THEN Initial ELSE delay')
    <2>1. CASE wanted[t] = NextDelay(attempts)
      BY <1>1, <1>2, <2>1, NextDelayBounds
    <2>2. CASE attempts = 0 \/ attempts = 1
      <3>1. NextDelay(attempts') = 1 \/ NextDelay(attempts') = 2
        BY <1>1, <2>2, Delays DEF Least, MaxAttempts
      <3>2. QED
        BY <1>1, <1>2, <3>1 DEF Initial, Longest
    <2>3. QED
      BY <1>2, <1>3, <2>1, <2>2
  <1>5. pc' = [pc EXCEPT ![t] = "idle"] /\ UNCHANGED wanted
    BY DEF ScheduleReconnect, Goto
  <1>6. pc \in [Threads -> Places]
    BY DEF IInv, Shape
  <1>7. ASSUME pc'["main"] # "idle"
        PROVE  pc'["executor"] = "idle" /\ (attempts' = 0 \/ (attempts' = 1 /\ reconnecting'))
    <2>1. pc["main"] # "idle" /\ t # "main" /\ pc["executor"] = "idle"
      BY <1>5, <1>6, <1>7 DEF Threads, Paced
    <2>2. t = "callback"
      BY <2>1 DEF ScheduleReconnect, Threads
    <2>3. attempts = 0
      BY <2>2 DEF ScheduleReconnect, Paced, IInv, Heedful
    <2>4. QED
      BY <1>1, <1>5, <1>6, <2>1, <2>3 DEF Threads, Least, MaxAttempts
  <1>8. ASSUME pc'["executor"] = "schedule"
        PROVE  attempts' = 0 \/ (pending' = 1 /\ attempts' = 1)
    <2>1. pc["executor"] = "schedule" /\ t # "executor"
      BY <1>5, <1>6, <1>8 DEF Threads
    <2>2. t = "callback"
      BY <2>1 DEF ScheduleReconnect, Threads, Paced
    <2>3. attempts = 0
      BY <2>2 DEF ScheduleReconnect, Paced, IInv, Heedful
    <2>4. QED
      BY <1>1, <2>3 DEF Least, MaxAttempts
  <1>9. /\ pc'["callback"] \in {"reset", "schedule"} => pc'["executor"] \in {"idle", "schedule"}
        /\ pc'["executor"] # "again"
        /\ pc'["executor"] \in OfTask \union {"idle", "schedule"}
    BY <1>5, <1>6 DEF Threads, Paced, ScheduleReconnect
  <1>10. QED
    BY <1>1, <1>4, <1>5, <1>7, <1>8, <1>9 DEF Paced

\* Every other step.
LEMMA OtherPaced ==
    ASSUME IInv, TypeOK, Paced,
           \/ \E t \in Threads : \/ AlreadyReconnecting(t) \/ Renew(t) \/ Connect(t) \/ Refused(t)
                                 \/ Verified(t) \/ Announce(t) \/ Subscribe(t)
           \/ Fire \/ ResetAttempts \/ Succeeded \/ BackOff \/ TryAgain \/ Started \/ StartFailed
           \/ BrokerFails \/ BrokerReturns \/ ConnectionLost \/ LossSkipped \/ SkipEnds
           \/ LossTaken \/ ReconnectAfterLoss
    PROVE  Paced'
  <1> USE DEF Paced, Threads, Goto, backoff, OfTask, InAttempt
  <1>1. pc \in [Threads -> Places] /\ wanted \in [Threads -> 0..Longest]
        /\ pending \in {0, 1} /\ attempts \in 0..MaxAttempts /\ delay \in 0..Longest
    BY DEF TypeOK, IInv, Shape
  <1>2. pc["executor"] \in OfTask => reconnecting /\ pending = 0
    BY DEF IInv, Flagged
  <1>3. ASSUME NEW t \in Threads, AlreadyReconnecting(t) PROVE Paced'
    BY <1>1, <1>3 DEF AlreadyReconnecting
  <1>4. ASSUME NEW t \in Threads, Renew(t) PROVE Paced'
    BY <1>1, <1>4 DEF Renew
  <1>5. ASSUME NEW t \in Threads, Connect(t) PROVE Paced'
    BY <1>1, <1>5 DEF Connect
  <1>6. ASSUME NEW t \in Threads, Refused(t) PROVE Paced'
    BY <1>1, <1>6 DEF Refused
  <1>7. ASSUME NEW t \in Threads, Verified(t) PROVE Paced'
    BY <1>1, <1>7 DEF Verified
  <1>8. ASSUME NEW t \in Threads, Announce(t) PROVE Paced'
    BY <1>1, <1>8 DEF Announce
  <1>9. ASSUME NEW t \in Threads, Subscribe(t) PROVE Paced'
    BY <1>1, <1>9 DEF Subscribe
  <1>10. CASE Fire
    BY <1>1, <1>10 DEF Fire
  <1>11. CASE ResetAttempts
    BY <1>1, <1>2, <1>11, Delays DEF ResetAttempts, Initial, Longest
  <1>12. CASE Succeeded
    BY <1>1, <1>12 DEF Succeeded
  <1>13. CASE BackOff
    BY <1>1, <1>13 DEF BackOff
  <1>14. CASE TryAgain
    BY <1>1, <1>2, <1>14 DEF TryAgain
  <1>15. CASE Started
    BY <1>1, <1>15 DEF Started
  <1>16. CASE StartFailed
    BY <1>1, <1>16 DEF StartFailed
  <1>17. CASE BrokerFails
    BY <1>1, <1>17 DEF BrokerFails
  <1>18. CASE BrokerReturns
    BY <1>1, <1>18 DEF BrokerReturns
  <1>19. CASE ConnectionLost
    BY <1>1, <1>19 DEF ConnectionLost
  <1>20. CASE LossSkipped
    BY <1>1, <1>20 DEF LossSkipped
  <1>21. CASE SkipEnds
    BY <1>1, <1>21 DEF SkipEnds
  <1>22. CASE LossTaken
    BY <1>1, <1>2, <1>22 DEF LossTaken
  <1>23. CASE ReconnectAfterLoss
    BY <1>1, <1>23, Delays DEF ReconnectAfterLoss, Initial, Longest
  <1>24. QED
    BY <1>3, <1>4, <1>5, <1>6, <1>7, <1>8, <1>9, <1>10, <1>11, <1>12, <1>13, <1>14, <1>15, <1>16,
       <1>17, <1>18, <1>19, <1>20, <1>21, <1>22, <1>23

LEMMA NextPaced == IInv /\ TypeOK /\ Paced /\ [Next]_vars => Paced'
  <1> SUFFICES ASSUME IInv, TypeOK, Paced, [Next]_vars PROVE Paced'
    OBVIOUS
  <1>1. ASSUME NEW t \in Threads, ThreadStep(t) PROVE Paced'
    BY <1>1, SchedulePaced, OtherPaced DEF ThreadStep
  <1>2. CASE UNCHANGED vars
    BY <1>2 DEF vars, backoff, Paced
  <1>3. QED
    BY <1>1, <1>2, OtherPaced DEF Next, MainStep, ExecutorStep, CallbackStep, Threads

\* Only the executor's scheduleReconnect takes it from "schedule" to "idle" with a task more.
LEMMA RepeatedSchedules ==
    ASSUME IInv, TypeOK, Paced, Next, Repeated, attempts > 0
    PROVE  ScheduleReconnect("executor") /\ wanted["executor"] = NextDelay(attempts)
  <1>1. pc \in [Threads -> Places] /\ pending \in {0, 1} /\ attempts \in 0..MaxAttempts
    BY DEF TypeOK, IInv, Shape
  <1>2. pc["executor"] = "schedule" /\ pc'["executor"] = "idle" /\ pending' > pending
    BY DEF Repeated
  <1>3. ASSUME NEW t \in Threads, ThreadStep(t), ~ScheduleReconnect(t) PROVE UNCHANGED pending
    BY <1>3 DEF ThreadStep, AlreadyReconnecting, Renew, Connect, Refused, Verified, Announce, Subscribe,
                backoff
  <1>4. \E t \in Threads : ScheduleReconnect(t)
    <2>1. ~Fire
      BY <1>1, <1>2 DEF Fire
    <2>2. ~(\/ ResetAttempts \/ Succeeded \/ BackOff \/ TryAgain \/ Started \/ StartFailed
            \/ BrokerFails \/ BrokerReturns \/ ConnectionLost \/ LossSkipped \/ SkipEnds
            \/ LossTaken \/ ReconnectAfterLoss)
      BY <1>1, <1>2 DEF ResetAttempts, Succeeded, BackOff, TryAgain, Started, StartFailed, BrokerFails,
           BrokerReturns, ConnectionLost, LossSkipped, SkipEnds, LossTaken, ReconnectAfterLoss, backoff
    <2>3. \E t \in Threads : ThreadStep(t)
      BY <2>1, <2>2 DEF Next, MainStep, ExecutorStep, CallbackStep, Threads
    <2>4. QED
      BY <1>1, <1>2, <1>3, <2>3
  <1>5. ScheduleReconnect("executor")
    BY <1>1, <1>2, <1>4 DEF ScheduleReconnect, Goto, Threads
  <1>6. pending = 0 /\ pending' = 1
    BY <1>1, <1>2, <1>5 DEF ScheduleReconnect
  <1>7. QED
    BY <1>1, <1>2, <1>5, <1>6 DEF Paced

\* A failed attempt whose counter of attempts is not 0 (calculateNextDelay) is repeated
\* after 5 s at the earliest, after 300 s at the latest, and after at most twice the last
\* delay, for any number of failures.  Where the counter was reset while the executor was
\* between doReconnect and scheduleReconnect the delay is 0, and nothing is said.
THEOREM DelaysGrow == Spec => BacksOff
  <1>1. IInv /\ TypeOK /\ Paced /\ [Next]_vars
            => [Repeated /\ attempts > 0 =>
                    /\ delay' \in Initial..Longest
                    /\ delay' <= 2 * (IF delay = 0 THEN Initial ELSE delay)]_vars
    <2> SUFFICES ASSUME IInv, TypeOK, Paced, Next, Repeated, attempts > 0
                 PROVE  /\ delay' \in Initial..Longest
                        /\ delay' <= 2 * (IF delay = 0 THEN Initial ELSE delay)
      OBVIOUS
    <2>1. delay' = NextDelay(attempts)
      BY RepeatedSchedules DEF ScheduleReconnect
    <2>2. attempts \in 0..MaxAttempts
      BY DEF TypeOK
    <2>3. NextDelay(attempts) \in Initial..Longest
      BY <2>2, NextDelayBounds
    <2>4. QED
      BY <2>1, <2>3 DEF Paced
  <1>2. IInv /\ TypeOK /\ Paced /\ [Next]_vars => IInv' /\ Paced'
    BY NextIInv, NextPaced
  <1>3. Init => IInv /\ Paced
    BY InitIInv, InitPaced
  <1>4. QED
    BY <1>1, <1>2, <1>3, TypeCorrect, PTL DEF Spec, BacksOff

-----------------------------------------------------------------------------
(* The connect listener *)

\* A loss that is not reported yet is a loss: the next client connects only when the report
\* is over, since nothing is scheduled and no attempt begins while there is a connection.
\* Whoever connects tells the AGV so before he returns.
Announced ==
    /\ pc["callback"] # "idle" => client = "lost"
    /\ \A t \in Threads : pc[t] \in {"enter", "connect"} => client # "up" /\ pc["callback"] = "idle"
    /\ \A t \in Threads : pc[t] \in {"failed", "again", "schedule"} => client # "up"
    /\ pending = 1 => client # "up"
    /\ gateway = "simulator" /\ client = "up" =>
          (online /\ heartbeats > 0) \/ \E t \in Threads : pc[t] \in {"verify", "announce"}

LEMMA InitAnnounced == Init => Announced
  <1>1. ASSUME Init PROVE pc["callback"] = "idle" /\ client = "none"
    BY <1>1 DEF Init, Threads
  <1>2. QED
    BY <1>1 DEF Announced

LEMMA NextAnnounced ==
    ASSUME IInv, TypeOK, Paced, Announced,
           \/ \E t \in Threads : \/ AlreadyReconnecting(t) \/ ScheduleReconnect(t) \/ Renew(t) \/ Connect(t) \/ Refused(t)
                                 \/ Verified(t) \/ Announce(t) \/ Subscribe(t)
           \/ Fire \/ ResetAttempts \/ Succeeded \/ BackOff \/ TryAgain \/ Started \/ StartFailed
           \/ BrokerFails \/ BrokerReturns \/ ConnectionLost \/ LossSkipped \/ SkipEnds
           \/ LossTaken \/ ReconnectAfterLoss
    PROVE  Announced'
  <1> USE DEF Announced, Paced, world, session, agv, Threads, Goto, backoff, OfTask, InAttempt
  <1>1. pc \in [Threads -> Places] /\ wanted \in [Threads -> 0..Longest]
        /\ pending \in {0, 1} /\ attempts \in 0..MaxAttempts /\ delay \in 0..Longest
    BY DEF TypeOK, IInv, Shape
  <1>2. pc["executor"] \in OfTask => reconnecting /\ pending = 0
    BY DEF IInv, Flagged
  <1>3. ASSUME NEW t \in Threads, AlreadyReconnecting(t) PROVE Announced'
    BY <1>1, <1>3 DEF AlreadyReconnecting
  <1>4. ASSUME NEW t \in Threads, Renew(t) PROVE Announced'
    BY <1>1, <1>4 DEF Renew
  <1>5. ASSUME NEW t \in Threads, Connect(t) PROVE Announced'
    <2>1. pc["callback"] = "idle" /\ t # "callback"
      BY <1>5 DEF Connect
    <2>2. pending = 0
      BY <1>1, <1>2, <1>5, <2>1 DEF Connect, IInv, FirstAlone
    <2>3. \A s \in Threads : s # t => pc[s] = "idle"
      BY <1>5, <2>1 DEF Connect
    <2>4. \A s \in Threads : pc'[s] \in {"idle", "verify"}
      BY <1>1, <1>5, <2>3 DEF Connect
    <2>5. pc'["callback"] = "idle" /\ pc'[t] = "verify" /\ pending' = 0
      BY <1>1, <1>5, <2>1, <2>2 DEF Connect
    <2>6. QED
      BY <2>4, <2>5
  <1>6. ASSUME NEW t \in Threads, Refused(t) PROVE Announced'
    BY <1>1, <1>6 DEF Refused
  <1>7. ASSUME NEW t \in Threads, Verified(t) PROVE Announced'
    BY <1>1, <1>7 DEF Verified
  <1>8. ASSUME NEW t \in Threads, Announce(t) PROVE Announced'
    <2>1. CASE gateway = "simulator"
      <3>1. online' /\ heartbeats' > 0
        BY <1>8, <2>1 DEF Announce, TypeOK, Least
      <3>2. QED
        BY <1>1, <1>8, <3>1 DEF Announce
    <2>2. CASE gateway # "simulator"
      BY <1>1, <1>8, <2>2 DEF Announce
    <2>3. QED
      BY <2>1, <2>2
  <1>9. ASSUME NEW t \in Threads, Subscribe(t) PROVE Announced'
    BY <1>1, <1>9 DEF Subscribe
  <1>10. CASE Fire
    BY <1>1, <1>10 DEF Fire
  <1>11. CASE ResetAttempts
    BY <1>1, <1>2, <1>11, Delays DEF ResetAttempts, Initial, Longest
  <1>12. CASE Succeeded
    BY <1>1, <1>12 DEF Succeeded
  <1>13. CASE BackOff
    BY <1>1, <1>13 DEF BackOff
  <1>14. CASE TryAgain
    BY <1>1, <1>2, <1>14 DEF TryAgain
  <1>15. CASE Started
    BY <1>1, <1>15 DEF Started
  <1>16. CASE StartFailed
    BY <1>1, <1>16 DEF StartFailed
  <1>17. CASE BrokerFails
    BY <1>1, <1>17 DEF BrokerFails
  <1>18. CASE BrokerReturns
    BY <1>1, <1>18 DEF BrokerReturns
  <1>19. CASE ConnectionLost
    BY <1>1, <1>19 DEF ConnectionLost
  <1>20. CASE LossSkipped
    BY <1>1, <1>20 DEF LossSkipped
  <1>21. CASE SkipEnds
    BY <1>1, <1>21 DEF SkipEnds
  <1>22. CASE LossTaken
    BY <1>1, <1>2, <1>22 DEF LossTaken
  <1>23. CASE ReconnectAfterLoss
    BY <1>1, <1>23, Delays DEF ReconnectAfterLoss, Initial, Longest
  <1>24. ASSUME NEW t \in Threads, ScheduleReconnect(t) PROVE Announced'
    BY <1>1, <1>24 DEF ScheduleReconnect
  <1>25. QED
    BY <1>24, <1>3, <1>4, <1>5, <1>6, <1>7, <1>8, <1>9, <1>10, <1>11, <1>12, <1>13, <1>14, <1>15, <1>16,
       <1>17, <1>18, <1>19, <1>20, <1>21, <1>22, <1>23

LEMMA StepAnnounced == IInv /\ TypeOK /\ Paced /\ Announced /\ [Next]_vars => Announced'
  <1> SUFFICES ASSUME IInv, TypeOK, Paced, Announced, [Next]_vars PROVE Announced'
    OBVIOUS
  <1>1. ASSUME NEW t \in Threads, ThreadStep(t) PROVE Announced'
    BY <1>1, NextAnnounced DEF ThreadStep
  <1>2. CASE UNCHANGED vars
    BY <1>2 DEF vars, world, session, backoff, agv, Announced
  <1>3. QED
    BY <1>1, <1>2, NextAnnounced DEF Next, MainStep, ExecutorStep, CallbackStep, Threads

LEMMA AnnouncedOnline == Announced => OnlineWhenReady
  BY DEF Announced, OnlineWhenReady, AtRest, Idle, Ready

\* When nothing is under way and the simulator can send and hear, it knows itself online and
\* sends heartbeats: for any number of losses, the report of one never comes after the next
\* connection's announcement (onMqttConnect, onMqttDisConnect).
THEOREM OnlineWhenConnected == Spec => []OnlineWhenReady
  <1>1. IInv /\ TypeOK /\ Paced /\ [Next]_vars => IInv' /\ Paced'
    BY NextIInv, NextPaced
  <1>2. Init => IInv /\ Paced /\ Announced
    BY InitIInv, InitPaced, InitAnnounced
  <1>3. QED
    BY <1>1, <1>2, StepAnnounced, AnnouncedOnline, TypeCorrect, PTL DEF Spec
=============================================================================
