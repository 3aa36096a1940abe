-------------------------- MODULE TaskOutcomeProofs --------------------------
(* TaskDispatch for any number of AGVs, resources, threads and tasks: every *)
(* task is stored as ended the way its own AGV ended it, and the dispatcher *)
(* implements TaskBoard.                                                    *)
EXTENDS TaskDispatchProofs

\* An AGV reports how an order has ended as it has ended; an order finish message says
\* that it is finished.
ReportsTell ==
    \A e \in DOMAIN Reports : \A rep \in Reports[e] : \A i \in DOMAIN rep :
        rep[i].state = e /\ (rep[i].kind = "orderFinish" => e = "FINISHED")

\* How a handler's remaining steps will end the AGV's task.
EndsAs(todo) ==
    CASE todo \in {<<"finish", "release">>, <<"release", "finish">>, <<"finish">>} -> "FINISHED"
      [] todo \in {<<"fail", "release">>, <<"release", "fail", "release", "finish">>,
                   <<"fail", "release", "finish">>} -> "FAILED"
      [] todo \in {<<"release", "cancel", "release", "finish">>,
                   <<"cancel", "release", "finish">>} -> "CANCELLED"
      [] todo = <<"release">> -> "nothing"

\* A report that is on its way from an AGV is about the AGV's task, or its AGV has none
\* any more; nobody else will ever have that task.  If it says that the task has ended,
\* the task has ended that way.
Trusted(m, a) ==
    /\ m.state \in Ends => ended[m.task] = m.state
    /\ m.kind = "orderFinish" => m.state = "FINISHED"
    /\ status[m.task] # "none" /\ ~BeingAssigned(m.task)
    /\ agvCurrentTask[a] \in {m.task, NoTask}
    /\ \A b \in Agvs : b # a => agvCurrentTask[b] # m.task
Truthful == \A a \in Agvs : \A i \in DOMAIN inbox[a] : Trusted(inbox[a][i], a)

\* What an AGV says about the end of an order it says last.
EndsLast(s) == \A i, j \in DOMAIN s : i < j /\ s[i].state \in Ends => s[j].state \in Ends

\* An order that nobody has got, or that waits or is executed, has not ended.
NotEnded ==
    /\ \A t \in TaskIds : status[t] = "none" \/ BeingAssigned(t) => ended[t] = "no"
    /\ \A a \in Agvs : agvCurrentTask[a] # NoTask /\ (orders[a] # <<>> \/ work[a] # NoTask)
                           => ended[agvCurrentTask[a]] = "no"

\* The handler under way ends the AGV's task as the AGV has ended it.
EndsRight ==
    /\ \A a \in Agvs : mqtt.agv = a /\ agvCurrentTask[a] # NoTask
                           => EndsAs(mqtt.todo) = ended[agvCurrentTask[a]]
    /\ mqtt.task # NoTask => /\ EndsAs(mqtt.todo) = ended[mqtt.task]
                             /\ agvCurrentTask[mqtt.agv] = NoTask

\* Nothing on its way can reopen a task that is stored as ended.
NotReopened ==
    \A a \in Agvs : agvCurrentTask[a] # NoTask /\ status[agvCurrentTask[a]] \in Ends => Ending(inbox[a])

Told == Truthful /\ \A a \in Agvs : EndsLast(inbox[a])
Outcome == Told /\ NotEnded /\ EndsRight /\ OutcomeIsReported /\ NotReopened

USE NobodyAssumption

-----------------------------------------------------------------------------
(* The operators *)

LEMMA TellEnds == ReportsTell => ReportsEnd
  BY ReportsAssumption DEF ReportsTell, ReportsEnd

\* What handling a report does to the task is what the report says of it.
LEMMA StepsEndAs ==
    ASSUME NEW m \in Messages, m.state \in Ends, m.kind = "orderFinish" => m.state = "FINISHED",
           Steps(m) # <<>>
    PROVE  EndsAs(Steps(m)) = m.state
  <1>1. /\ EndsAs(<<"finish", "release">>) = "FINISHED" /\ EndsAs(<<"release", "finish">>) = "FINISHED"
        /\ EndsAs(<<"fail", "release">>) = "FAILED"
        /\ EndsAs(<<"release", "fail", "release", "finish">>) = "FAILED"
        /\ EndsAs(<<"release", "cancel", "release", "finish">>) = "CANCELLED"
    BY DEF EndsAs
  <1>2. m.kind \in {"orderState", "taskComplete", "orderFinish"}
    BY DEF Messages, Kinds
  <1>3. CASE m.kind = "orderState"
    BY <1>1, <1>3 DEF Steps
  <1>4. CASE m.kind = "taskComplete"
    BY <1>1, <1>4 DEF Steps, Ends
  <1>5. CASE m.kind = "orderFinish"
    BY <1>1, <1>5 DEF Steps
  <1>6. QED
    BY <1>2, <1>3, <1>4, <1>5

\* The steps one by one: a release leaves what follows, an end is the one that was meant.
LEMMA TodosEndAs ==
    ASSUME NEW todo \in Todos
    PROVE  /\ Head(todo) # "release" => EndStatus(Head(todo)) = EndsAs(todo)
           /\ Head(todo) = "release" /\ Tail(todo) # <<>> => EndsAs(Tail(todo)) = EndsAs(todo)
           /\ Head(todo) = "release" /\ Tail(todo) = <<>> => EndsAs(todo) = "nothing"
           /\ Head(todo) \in {"finish", "fail", "cancel", "release"}
  <1> USE DEF EndsAs, EndStatus
  <1>1. CASE todo = <<"finish", "release">>
    BY <1>1
  <1>2. CASE todo = <<"fail", "release">>
    BY <1>2
  <1>3. CASE todo = <<"release">>
    BY <1>3
  <1>4. CASE todo = <<"release", "finish">>
    BY <1>4
  <1>5. CASE todo = <<"finish">>
    BY <1>5
  <1>6. CASE todo = <<"release", "fail", "release", "finish">>
    BY <1>6
  <1>7. CASE todo = <<"fail", "release", "finish">>
    BY <1>7
  <1>8. CASE todo = <<"release", "cancel", "release", "finish">>
    BY <1>8
  <1>9. CASE todo = <<"cancel", "release", "finish">>
    BY <1>9
  <1>10. QED
    BY <1>1, <1>2, <1>3, <1>4, <1>5, <1>6, <1>7, <1>8, <1>9 DEF Todos

LEMMA EndsLastTail ==
    ASSUME NEW s \in Seq(Messages), s # <<>>, EndsLast(s)
    PROVE  /\ EndsLast(Tail(s))
           /\ Head(s).state \in Ends => Ending(Tail(s))
           /\ \A i \in DOMAIN Tail(s) : i + 1 \in DOMAIN s /\ Tail(s)[i] = s[i + 1]
           /\ 1 \in DOMAIN s /\ Head(s) = s[1]
  <1>1. /\ 1 \in DOMAIN s /\ Head(s) = s[1] /\ Len(s) \in Nat /\ DOMAIN s = 1..Len(s)
        /\ DOMAIN Tail(s) = 1..(Len(s) - 1)
        /\ \A i \in DOMAIN Tail(s) : Tail(s)[i] = s[i + 1]
    OBVIOUS
  <1>2. \A i \in DOMAIN Tail(s) : i + 1 \in DOMAIN s /\ 1 < i + 1 /\ i \in Nat
    BY <1>1
  <1>3. EndsLast(Tail(s))
    BY <1>1, <1>2 DEF EndsLast
  <1>4. Head(s).state \in Ends => Ending(Tail(s))
    BY <1>1, <1>2 DEF EndsLast, Ending
  <1>5. QED
    BY <1>1, <1>2, <1>3, <1>4

\* What is in two lists of reports, one after the other.
LEMMA ConcatParts ==
    ASSUME NEW s \in Seq(Messages), NEW said \in Seq(Messages), NEW i \in DOMAIN (s \o said)
    PROVE  \/ i \in DOMAIN s /\ (s \o said)[i] = s[i]
           \/ \E j \in DOMAIN said : (s \o said)[i] = said[j]
  <1>1. /\ Len(s) \in Nat /\ Len(said) \in Nat /\ DOMAIN s = 1..Len(s) /\ DOMAIN said = 1..Len(said)
        /\ DOMAIN (s \o said) = 1..(Len(s) + Len(said))
        /\ (s \o said)[i] = IF i <= Len(s) THEN s[i] ELSE said[i - Len(s)]
    BY ConcatProperties, LenProperties
  <1>2. CASE i <= Len(s)
    BY <1>1, <1>2
  <1>3. CASE ~(i <= Len(s))
    <2>1. i - Len(s) \in DOMAIN said
      BY <1>1, <1>3
    <2>2. QED
      BY <1>1, <1>3, <2>1
  <1>4. QED
    BY <1>2, <1>3

LEMMA EndsLastConcat ==
    ASSUME NEW s \in Seq(Messages), NEW said \in Seq(Messages), EndsLast(s), Ending(said)
    PROVE  EndsLast(s \o said)
  <1> DEFINE u == s \o said
  <1>1. /\ Len(s) \in Nat /\ Len(said) \in Nat /\ DOMAIN s = 1..Len(s) /\ DOMAIN said = 1..Len(said)
        /\ DOMAIN u = 1..(Len(s) + Len(said))
        /\ \A i \in 1..(Len(s) + Len(said)) : u[i] = IF i <= Len(s) THEN s[i] ELSE said[i - Len(s)]
    BY ConcatProperties, LenProperties
  <1> HIDE DEF u
  <1>2. ASSUME NEW i \in DOMAIN u
        PROVE  IF i <= Len(s) THEN i \in DOMAIN s /\ u[i] = s[i]
                              ELSE i - Len(s) \in DOMAIN said /\ u[i] = said[i - Len(s)]
    BY <1>1
  <1>3. ASSUME NEW i \in DOMAIN u, NEW j \in DOMAIN u, i < j, u[i].state \in Ends
        PROVE  u[j].state \in Ends
    <2>1. i \in Nat /\ j \in Nat
      BY <1>1
    <2>2. CASE j <= Len(s)
      BY <1>1, <1>2, <1>3, <2>1, <2>2 DEF EndsLast
    <2>3. CASE ~(j <= Len(s))
      BY <1>2, <2>3 DEF Ending
    <2>4. QED
      BY <2>2, <2>3
  <1>4. EndsLast(u)
    BY <1>3 DEF EndsLast
  <1>5. QED
    BY <1>4 DEF u

-----------------------------------------------------------------------------
(* Steps *)

LEMMA MessageTyped == Typed => \A a \in Agvs : \A i \in DOMAIN inbox[a] : inbox[a][i] \in Messages
  <1> SUFFICES ASSUME Typed, NEW a \in Agvs, NEW i \in DOMAIN inbox[a] PROVE inbox[a][i] \in Messages
    OBVIOUS
  <1>1. inbox[a] \in Seq(Messages)
    BY DEF Typed, TypeOK
  <1>2. QED
    BY <1>1

LEMMA InitOutcome == Init => Outcome
  BY DEF Init, Outcome, Told, Truthful, EndsLast, NotEnded, EndsRight, OutcomeIsReported, NotReopened,
         NoMessage, NoRequest, BeingAssigned, Ends

\* No order becomes an AGV's that was not.
Orders(a) == orders[a] # <<>> \/ work[a] # NoTask
NoNewOrder == \A a \in Agvs : agvCurrentTask[a] # NoTask /\ Orders(a)' => Orders(a)

\* Neither a task nor a report changes.
LEMMA StillOutcome ==
    ASSUME Outcome, UNCHANGED <<status, agvCurrentTask, mqtt, inbox, ended>>, NoNewOrder,
           \A t : BeingAssigned(t)' => BeingAssigned(t)
    PROVE  Outcome'
  <1>1. Told'
    BY DEF Outcome, Told, Truthful, Trusted
  <1>2. NotEnded'
    BY DEF Outcome, NotEnded, NoNewOrder, Orders
  <1>3. EndsRight' /\ OutcomeIsReported' /\ NotReopened'
    BY DEF Outcome, EndsRight, OutcomeIsReported, NotReopened
  <1>4. QED
    BY <1>1, <1>2, <1>3 DEF Outcome

\* The reports of one AGV change.
LEMMA InboxOutcome ==
    ASSUME Typed, Outcome, NEW a \in Agvs, NEW s, inbox' = [inbox EXCEPT ![a] = s],
           UNCHANGED <<status, agvCurrentTask, req, mqtt, ended>>, NoNewOrder,
           EndsLast(s), \A i \in DOMAIN s : Trusted(s[i], a),
           agvCurrentTask[a] # NoTask /\ status[agvCurrentTask[a]] \in Ends => Ending(s)
    PROVE  Outcome'
  <1>1. inbox'[a] = s /\ \A b \in Agvs : b # a => inbox'[b] = inbox[b]
    BY DEF Typed, TypeOK
  <1>2. Told'
    BY <1>1 DEF Outcome, Told, Truthful, Trusted, BeingAssigned
  <1>3. NotEnded'
    BY DEF Outcome, NotEnded, NoNewOrder, Orders, BeingAssigned
  <1>4. EndsRight' /\ OutcomeIsReported'
    BY DEF Outcome, EndsRight, OutcomeIsReported
  <1>5. NotReopened'
    BY <1>1 DEF Outcome, NotReopened
  <1>6. QED
    BY <1>2, <1>3, <1>4, <1>5 DEF Outcome

\* A request is about to assign its task only when it has stored it.
LEMMA AssignedBefore ==
    ASSUME Typed, NEW h \in Threads, Others(h), req'[h].pc # "current", NEW t
    PROVE  BeingAssigned(t)' => BeingAssigned(t)
  BY DEF BeingAssigned, Others

\* A request before it stores its task.
LEMMA RequestOutcome ==
    ASSUME Typed, Cycle, Outcome,
           \/ \E h \in Threads, a \in Agvs, path \in Paths : Request(h, a, path)
           \/ \E h \in Threads : \/ LockNext(h) \/ LockRefused(h) \/ LockUndo(h)
                                 \/ Send(h) \/ SendThrows(h)
           \/ \E a \in Agvs, online \in BOOLEAN : Connection(a, online)
    PROVE  Outcome'
  <1>1. UNCHANGED <<status, agvCurrentTask, mqtt, inbox, ended, work>>
    BY DEF Request, LockNext, LockRefused, LockUndo, Send, SendThrows, Connection, dispatcher, agv
  <1>2. ASSUME NEW h \in Threads, Send(h)
        PROVE  \A a \in Agvs : agvCurrentTask[a] # NoTask => orders'[a] = orders[a]
    <2>1. agvCurrentTask[req[h].agv] = NoTask
      BY <1>2 DEF Send, Cycle, ServedRests
    <2>2. QED
      BY <1>2, <2>1 DEF Send, Typed, TypeOK
  <1>3. \A a \in Agvs : agvCurrentTask[a] # NoTask => orders'[a] = orders[a]
    BY <1>2 DEF Request, LockNext, LockRefused, LockUndo, SendThrows, Connection, dispatcher, agv
  <1>4. NoNewOrder
    BY <1>1, <1>3 DEF NoNewOrder, Orders
  <1>5. \A t : BeingAssigned(t)' => BeingAssigned(t)
    <2>1. ASSUME NEW h \in Threads, \/ \E a \in Agvs, path \in Paths : Request(h, a, path)
                                    \/ LockNext(h) \/ LockRefused(h) \/ LockUndo(h)
                                    \/ Send(h) \/ SendThrows(h)
          PROVE  Others(h) /\ req'[h].pc # "current"
      BY <2>1, RequestEffect, LockNextEffect, LockRefusedEffect, LockUndoEffect, SendEffect, SendThrowsEffect
    <2>2. CASE \E a \in Agvs, online \in BOOLEAN : Connection(a, online)
      BY <2>2 DEF Connection, BeingAssigned
    <2>3. QED
      BY <2>1, <2>2, AssignedBefore
  <1>6. QED
    BY <1>1, <1>4, <1>5, StillOutcome

\* The task that is stored is one that nobody has spoken of.
LEMMA StoreTaskOutcome ==
    ASSUME Typed, Cycle, Outcome, NEW h \in Threads, StoreTask(h)
    PROVE  Outcome'
  <1> DEFINE t == req[h].task
  <1>1. /\ t \in TaskIds /\ Others(h) /\ req[h].pc = "assign"
        /\ req'[h].pc = "current" /\ req'[h].task = t
        /\ status' = [status EXCEPT ![t] = "WAITING"]
    BY StoreTaskEffect
  <1>2. status[t] = "none" /\ \A a \in Agvs : agvCurrentTask[a] # t
    BY <1>1 DEF Cycle, TasksStored
  <1>3. UNCHANGED <<agvCurrentTask, inbox, mqtt, ended, orders, work>>
    BY DEF StoreTask, agv
  <1> HIDE DEF t
  <1>4. status'[t] = "WAITING" /\ \A u \in TaskIds : u # t => status'[u] = status[u]
    BY <1>1 DEF Typed, TypeOK
  <1>5. \A u : BeingAssigned(u)' => BeingAssigned(u) \/ u = t
    BY <1>1 DEF BeingAssigned, Others
  <1>6. Told'
    <2>1. ASSUME NEW b \in Agvs, NEW n, n.task \in TaskIds, Trusted(n, b) PROVE Trusted(n, b)'
      <3>1. n.task # t
        BY <1>2, <2>1 DEF Trusted
      <3>2. status'[n.task] # "none" /\ ~BeingAssigned(n.task)'
        BY <1>4, <1>5, <2>1, <3>1 DEF Trusted
      <3>3. QED
        BY <1>3, <2>1, <3>2 DEF Trusted
    <2>2. ASSUME NEW b \in Agvs, NEW i \in DOMAIN inbox[b]
          PROVE  Trusted(inbox[b][i], b) /\ inbox[b][i].task \in TaskIds
      BY MessageTyped DEF Outcome, Told, Truthful, Messages
    <2>3. QED
      BY <1>3, <2>1, <2>2 DEF Outcome, Told, Truthful
  <1>7. NotEnded'
    <2>1. ASSUME NEW u \in TaskIds, status'[u] = "none" \/ BeingAssigned(u)' PROVE ended[u] = "no"
      BY <1>1, <1>2, <1>4, <1>5, <2>1 DEF Outcome, NotEnded
    <2>2. QED
      BY <1>3, <2>1 DEF Outcome, NotEnded
  <1>8. EndsRight'
    BY <1>3 DEF Outcome, EndsRight
  <1>9. OutcomeIsReported'
    BY <1>3, <1>4 DEF Outcome, OutcomeIsReported, Ends
  <1>10. NotReopened'
    <2>1. \A a \in Agvs : agvCurrentTask[a] # NoTask => status'[agvCurrentTask[a]] = status[agvCurrentTask[a]]
      BY <1>2, <1>4 DEF Typed, TypeOK
    <2>2. QED
      BY <1>3, <2>1 DEF Outcome, NotReopened
  <1>11. QED
    BY <1>6, <1>7, <1>8, <1>9, <1>10 DEF Outcome

LEMMA AssignOutcome ==
    ASSUME Typed, Cycle, Outcome, NEW h \in Threads, Assign(h)
    PROVE  Outcome'
  <1> DEFINE a == req[h].agv
             t == req[h].task
  <1>1. a \in Agvs /\ t \in TaskIds
    BY AssignEffect
  <1>2. inbox[a] = <<>> /\ agvCurrentTask[a] = NoTask /\ mqtt.agv # a /\ work[a] = NoTask
    BY DEF Assign, Cycle, ServedRests
  <1>3. BeingAssigned(t) /\ t # NoTask
    BY <1>1 DEF Assign, BeingAssigned
  <1>4. ended[t] = "no" /\ status[t] # "none" /\ mqtt.task # t
    BY <1>1, <1>3 DEF Assign, Outcome, NotEnded, Cycle, TasksStored
  <1>5. agvCurrentTask' = [agvCurrentTask EXCEPT ![a] = t]
    BY DEF Assign
  <1>6. UNCHANGED <<status, inbox, mqtt, ended, orders, work>>
    BY DEF Assign, agv
  <1>7. \A u : BeingAssigned(u)' => BeingAssigned(u)
    BY AssignEffect, AssignedBefore
  <1> HIDE DEF a, t
  <1>8. agvCurrentTask'[a] = t /\ \A b \in Agvs : b # a => agvCurrentTask'[b] = agvCurrentTask[b]
    BY <1>1, <1>5 DEF Typed, TypeOK
  <1>9. Told'
    <2>1. ASSUME NEW b \in Agvs, b # a, NEW n, Trusted(n, b) PROVE Trusted(n, b)'
      <3>1. n.task # t
        BY <1>3, <2>1 DEF Trusted
      <3>2. QED
        BY <1>6, <1>7, <1>8, <2>1, <3>1 DEF Trusted
    <2>2. ASSUME NEW b \in Agvs, NEW i \in DOMAIN inbox[b]
          PROVE  b # a /\ Trusted(inbox[b][i], b)
      BY <1>2 DEF Outcome, Told, Truthful
    <2>3. QED
      BY <1>6, <2>1, <2>2 DEF Outcome, Told, Truthful
  <1>10. NotEnded'
    BY <1>4, <1>6, <1>7, <1>8 DEF Outcome, NotEnded
  <1>11. EndsRight'
    BY <1>1, <1>2, <1>6, <1>8 DEF Outcome, EndsRight, Typed, Handling, NoMessage
  <1>12. OutcomeIsReported'
    BY <1>6 DEF Outcome, OutcomeIsReported
  <1>13. NotReopened'
    BY <1>2, <1>6, <1>8 DEF Outcome, NotReopened, Ending
  <1>14. QED
    BY <1>9, <1>10, <1>11, <1>12, <1>13 DEF Outcome

\* A handler begins: for an order state, the report's word becomes the task's status.
LEMMA ReceiveOutcome ==
    ASSUME Typed, Cycle, Reported, Outcome, NEW a \in Agvs, Receive(a)
    PROVE  Outcome'
  <1> DEFINE m == Head(inbox[a])
             s == Tail(inbox[a])
  <1>1. /\ inbox[a] \in Seq(Messages) /\ inbox[a] # <<>> /\ m \in Messages /\ mqtt = NoMessage
        /\ inbox' = [inbox EXCEPT ![a] = s]
        /\ UNCHANGED <<agvCurrentTask, req, orders, work, ended>>
        /\ IF Steps(m) = <<>> THEN mqtt' = NoMessage ELSE mqtt'.agv = a /\ mqtt'.todo = Steps(m)
        /\ mqtt'.task = NoTask
    BY ReceiveEffect DEF Receive, Typed, TypeOK, agv
  <1>2. /\ EndsLast(s) /\ (m.state \in Ends => Ending(s))
        /\ Trusted(m, a) /\ \A i \in DOMAIN s : Trusted(s[i], a)
    BY <1>1, EndsLastTail DEF Outcome, Told, Truthful
  <1>3. /\ m.state \notin Ends => agvCurrentTask[a] = m.task /\ Steps(m) = <<>>
        /\ Ending(inbox[a]) => Ending(s) /\ m.state \in Ends
    <2>1. Ordered(inbox[a], agvCurrentTask[a]) /\ 1 \in DOMAIN inbox[a] /\ m = inbox[a][1]
      BY <1>1, EndsLastTail DEF Reported, ReportsInOrder, Outcome, Told
    <2>2. m.state \notin Ends => agvCurrentTask[a] = m.task /\ Steps(m) = <<>>
      BY <2>1 DEF Ordered, UpTo
    <2>3. Ending(inbox[a]) => Ending(s)
      BY <1>1, <2>1, OrderedTail
    <2>4. QED
      BY <2>1, <2>2, <2>3 DEF Ending
  <1>4. m.task \in TaskIds /\ m.state # "none" /\ m.state \in TaskStatuses
    BY <1>1 DEF Messages, TaskStatuses, Ends
  <1>5. \/ status' = status
        \/ status' = [status EXCEPT ![m.task] = m.state]
    BY DEF Receive
  <1> HIDE DEF m, s
  <1>6. /\ \A t \in TaskIds : t # m.task => status'[t] = status[t]
        /\ status'[m.task] = status[m.task] \/ status'[m.task] = m.state
    BY <1>4, <1>5 DEF Typed, TypeOK
  <1>7. \A t \in TaskIds : status'[t] = "none" => status[t] = "none"
    BY <1>4, <1>6
  <1>8. inbox'[a] = s /\ \A b \in Agvs : b # a => inbox'[b] = inbox[b]
    BY <1>1 DEF Typed, TypeOK
  <1>9. Told'
    <2>1. ASSUME NEW b \in Agvs, NEW n, n.task \in TaskIds, Trusted(n, b) PROVE Trusted(n, b)'
      BY <1>1, <1>7, <2>1 DEF Trusted, BeingAssigned
    <2>2. \A b \in Agvs : EndsLast(inbox'[b])
      BY <1>2, <1>8 DEF Outcome, Told
    <2>3. ASSUME NEW b \in Agvs, NEW i \in DOMAIN inbox'[b]
          PROVE  Trusted(inbox'[b][i], b) /\ inbox'[b][i] \in Messages
      <3>1. CASE b = a
        <4>1. i \in DOMAIN s /\ inbox'[b][i] = s[i]
          BY <1>8, <2>3, <3>1
        <4>2. i + 1 \in DOMAIN inbox[a] /\ s[i] = inbox[a][i + 1]
          BY <1>1, <4>1, EndsLastTail DEF s, Outcome, Told
        <4>3. QED
          BY <1>2, <3>1, <4>1, <4>2, MessageTyped
      <3>2. CASE b # a
        BY <1>8, <2>3, <3>2, MessageTyped DEF Outcome, Told, Truthful
      <3>3. QED
        BY <3>1, <3>2
    <2>4. \A n \in Messages : n.task \in TaskIds
      BY DEF Messages
    <2>5. Truthful'
      BY <2>1, <2>3, <2>4 DEF Truthful
    <2>6. QED
      BY <2>2, <2>5 DEF Told
  <1>10. NotEnded'
    BY <1>1, <1>7 DEF Outcome, NotEnded, BeingAssigned
  <1>11. EndsRight'
    <2>1. ASSUME NEW b \in Agvs, mqtt'.agv = b, agvCurrentTask[b] # NoTask
          PROVE  EndsAs(mqtt'.todo) = ended[agvCurrentTask[b]]
      <3>1. Steps(m) # <<>> /\ b = a /\ mqtt'.todo = Steps(m)
        BY <1>1, <2>1 DEF NoMessage
      <3>2. m.state \in Ends /\ agvCurrentTask[a] = m.task
        BY <1>2, <1>3, <2>1, <3>1 DEF Trusted
      <3>3. ended[m.task] = m.state /\ (m.kind = "orderFinish" => m.state = "FINISHED")
        BY <1>2, <3>2 DEF Trusted
      <3>4. QED
        BY <1>1, <3>1, <3>2, <3>3, StepsEndAs
    <2>2. QED
      BY <1>1, <2>1 DEF EndsRight
  <1>12. OutcomeIsReported'
    BY <1>1, <1>2, <1>6 DEF Outcome, OutcomeIsReported, Trusted
  <1>13. NotReopened'
    <2>1. ASSUME NEW b \in Agvs, agvCurrentTask[b] # NoTask, status'[agvCurrentTask[b]] \in Ends
          PROVE  Ending(inbox'[b])
      <3>1. agvCurrentTask[b] \in TaskIds
        BY <2>1 DEF Typed, TypeOK
      <3>2. CASE b # a
        <4>1. agvCurrentTask[b] # m.task
          BY <1>2, <3>2 DEF Trusted
        <4>2. QED
          BY <1>6, <1>8, <2>1, <3>1, <3>2, <4>1 DEF Outcome, NotReopened
      <3>3. CASE b = a
        <4>1. agvCurrentTask[a] = m.task
          BY <1>2, <2>1, <3>3 DEF Trusted
        <4>2. CASE m.state \in Ends
          BY <1>2, <1>8, <3>3, <4>2
        <4>3. CASE m.state \notin Ends
          <5>1. status[m.task] \in Ends
            BY <1>6, <2>1, <3>3, <4>1, <4>3
          <5>2. Ending(inbox[a])
            BY <2>1, <3>3, <4>1, <5>1 DEF Outcome, NotReopened
          <5>3. QED
            BY <1>3, <4>3, <5>2
        <4>4. QED
          BY <4>2, <4>3
      <3>4. QED
        BY <3>2, <3>3
    <2>2. QED
      BY <1>1, <2>1 DEF NotReopened
  <1>14. QED
    BY <1>9, <1>10, <1>11, <1>12, <1>13 DEF Outcome

\* The task a handler takes from its AGV is about to end the right way.
LEMMA FreeAgvOutcome ==
    ASSUME Typed, Cycle, Outcome, FreeAgv
    PROVE  /\ Outcome'
           /\ LET a == mqtt.agv
                  t == agvCurrentTask[a]
              IN  t # NoTask => /\ status[t] # "none" /\ EndStatus(Head(mqtt.todo)) = ended[t]
                                /\ ended[t] \in Ends /\ t \in TaskIds
  <1> DEFINE a == mqtt.agv
             t == agvCurrentTask[a]
             u == mqtt'.task
  <1>1. /\ a \in Agvs /\ mqtt.todo \in Todos /\ Head(mqtt.todo) # "release" /\ mqtt.task = NoTask
        /\ mqtt'.agv \in {a, NoAgv} /\ u = t
        /\ t # NoTask => mqtt'.agv = a /\ mqtt'.todo = mqtt.todo
    BY FreeAgvEffect DEF NoMessage
  <1>2. EndStatus(Head(mqtt.todo)) = EndsAs(mqtt.todo) /\ EndStatus(Head(mqtt.todo)) \in Ends
    <2>1. Head(mqtt.todo) \in {"finish", "fail", "cancel"}
      BY <1>1, TodosEndAs
    <2>2. QED
      BY <1>1, <2>1, TodosEndAs DEF EndStatus, Ends
  <1>3. UNCHANGED <<status, req, inbox, ended, orders, work>>
    BY DEF FreeAgv, agv
  <1>4. agvCurrentTask' = [agvCurrentTask EXCEPT ![a] = NoTask]
    BY DEF FreeAgv
  <1>5. t # NoTask => status[t] # "none" /\ EndsAs(mqtt.todo) = ended[t] /\ t \in TaskIds
    BY <1>1 DEF Cycle, TasksStored, Outcome, EndsRight, Typed, TypeOK
  <1> HIDE DEF a, t, u
  <1>6. agvCurrentTask'[a] = NoTask /\ \A b \in Agvs : b # a => agvCurrentTask'[b] = agvCurrentTask[b]
    BY <1>1, <1>4 DEF Typed, TypeOK
  <1>7. Told'
    <2>1. ASSUME NEW b \in Agvs, NEW n, n.task \in TaskIds, Trusted(n, b) PROVE Trusted(n, b)'
      BY <1>3, <1>6, <2>1 DEF Trusted, BeingAssigned
    <2>2. ASSUME NEW b \in Agvs, NEW i \in DOMAIN inbox[b]
          PROVE  Trusted(inbox[b][i], b) /\ inbox[b][i].task \in TaskIds
      BY MessageTyped DEF Outcome, Told, Truthful, Messages
    <2>3. QED
      BY <1>3, <2>1, <2>2 DEF Outcome, Told, Truthful
  <1>8. NotEnded'
    BY <1>3, <1>6 DEF Outcome, NotEnded, BeingAssigned
  <1>9. EndsRight'
    <2>1. \A b \in Agvs : mqtt'.agv = b => agvCurrentTask'[b] = NoTask
      BY <1>1, <1>6
    <2>2. u # NoTask => EndsAs(mqtt'.todo) = ended'[u] /\ agvCurrentTask'[mqtt'.agv] = NoTask
      BY <1>1, <1>3, <1>5, <1>6
    <2>3. QED
      BY <2>1, <2>2 DEF EndsRight, u
  <1>10. OutcomeIsReported'
    BY <1>3 DEF Outcome, OutcomeIsReported
  <1>11. NotReopened'
    BY <1>3, <1>6 DEF Outcome, NotReopened
  <1>12. Outcome'
    BY <1>7, <1>8, <1>9, <1>10, <1>11 DEF Outcome
  <1>13. QED
    BY <1>2, <1>5, <1>12 DEF a, t

\* The task that was taken ends as its AGV has ended it.
LEMMA EndTaskOutcome ==
    ASSUME Typed, Cycle, Outcome, EndTask
    PROVE  /\ Outcome'
           /\ LET t == mqtt.task
              IN  /\ t \in TaskIds /\ status[t] # "none" /\ ended[t] \in Ends
                  /\ EndStatus(Head(mqtt.todo)) = ended[t]
                  /\ status' = [status EXCEPT ![t] = ended[t]]
                  /\ agvCurrentTask[mqtt.agv] = NoTask /\ mqtt'.task = NoTask
  <1> DEFINE t == mqtt.task
  <1>1. /\ t \in TaskIds /\ mqtt.agv \in Agvs /\ mqtt.todo \in Todos /\ Head(mqtt.todo) # "release"
        /\ EndStatus(Head(mqtt.todo)) \in Ends
        /\ mqtt'.agv \in {mqtt.agv, NoAgv} /\ mqtt'.task = NoTask
    BY EndTaskEffect DEF NoMessage
  <1>2. t # NoTask
    BY DEF EndTask
  <1>3. /\ status[t] # "none" /\ \A b \in Agvs : agvCurrentTask[b] # t
        /\ EndsAs(mqtt.todo) = ended[t] /\ agvCurrentTask[mqtt.agv] = NoTask
    BY <1>2 DEF Cycle, TasksStored, Outcome, EndsRight
  <1>4. EndStatus(Head(mqtt.todo)) = ended[t]
    BY <1>1, <1>3, TodosEndAs
  <1>5. status' = [status EXCEPT ![t] = ended[t]]
    BY <1>3, <1>4 DEF EndTask
  <1>6. UNCHANGED <<agvCurrentTask, req, inbox, ended, orders, work>>
    BY DEF EndTask, agv
  <1> HIDE DEF t
  <1>7. status'[t] = ended[t] /\ \A v \in TaskIds : v # t => status'[v] = status[v]
    BY <1>1, <1>5 DEF Typed, TypeOK
  <1>8. \A v \in TaskIds : status'[v] = "none" => status[v] = "none"
    BY <1>1, <1>4, <1>7 DEF Ends
  <1>9. Told'
    <2>1. ASSUME NEW b \in Agvs, NEW n, n.task \in TaskIds, Trusted(n, b) PROVE Trusted(n, b)'
      BY <1>6, <1>8, <2>1 DEF Trusted, BeingAssigned
    <2>2. ASSUME NEW b \in Agvs, NEW i \in DOMAIN inbox[b]
          PROVE  Trusted(inbox[b][i], b) /\ inbox[b][i].task \in TaskIds
      BY MessageTyped DEF Outcome, Told, Truthful, Messages
    <2>3. QED
      BY <1>6, <2>1, <2>2 DEF Outcome, Told, Truthful
  <1>10. NotEnded'
    BY <1>6, <1>8 DEF Outcome, NotEnded, BeingAssigned
  <1>11. EndsRight'
    BY <1>1, <1>3, <1>6 DEF EndsRight
  <1>12. OutcomeIsReported'
    BY <1>6, <1>7 DEF Outcome, OutcomeIsReported
  <1>13. NotReopened'
    <2>1. \A b \in Agvs : agvCurrentTask[b] # NoTask => status'[agvCurrentTask[b]] = status[agvCurrentTask[b]]
      BY <1>3, <1>7 DEF Typed, TypeOK
    <2>2. QED
      BY <1>6, <2>1 DEF Outcome, NotReopened
  <1>14. Outcome'
    BY <1>9, <1>10, <1>11, <1>12, <1>13 DEF Outcome
  <1>15. QED
    BY <1>1, <1>3, <1>4, <1>5, <1>14 DEF t

LEMMA ReleaseAllOutcome ==
    ASSUME Typed, Outcome, ReleaseAll
    PROVE  Outcome'
  <1>1. UNCHANGED <<status, agvCurrentTask, req, inbox, ended, orders, work>>
    BY DEF ReleaseAll, agv
  <1>2. mqtt.todo \in Todos /\ Head(mqtt.todo) = "release"
    BY DEF ReleaseAll, Typed, Handling, NoMessage
  <1>3. IF Tail(mqtt.todo) = <<>> THEN mqtt' = NoMessage
        ELSE mqtt'.agv = mqtt.agv /\ mqtt'.todo = Tail(mqtt.todo) /\ mqtt'.task = NoTask
    BY NextStepHandles DEF Typed, ReleaseAll
  <1>4. EndsRight'
    <2>1. CASE Tail(mqtt.todo) = <<>>
      BY <1>3, <2>1 DEF EndsRight, NoMessage
    <2>2. CASE Tail(mqtt.todo) # <<>>
      <3>1. EndsAs(mqtt'.todo) = EndsAs(mqtt.todo)
        BY <1>2, <1>3, <2>2, TodosEndAs
      <3>2. QED
        BY <1>1, <1>3, <2>2, <3>1 DEF Outcome, EndsRight
    <2>3. QED
      BY <2>1, <2>2
  <1>5. Told'
    BY <1>1 DEF Outcome, Told, Truthful, Trusted, BeingAssigned
  <1>6. NotEnded' /\ OutcomeIsReported' /\ NotReopened'
    BY <1>1 DEF Outcome, NotEnded, OutcomeIsReported, NotReopened, BeingAssigned
  <1>7. QED
    BY <1>4, <1>5, <1>6 DEF Outcome

\* While an AGV executes an order it has not ended, for itself or for the dispatcher.
LEMMA WorkerOpen ==
    ASSUME Typed, Cycle, Outcome, NEW a \in Agvs, work[a] # NoTask
    PROVE  /\ work[a] \in TaskIds /\ agvCurrentTask[a] = work[a] /\ ended[work[a]] = "no"
           /\ status[work[a]] \notin Ends \cup {"none"}
           /\ \A b \in Agvs : b # a => agvCurrentTask[b] # work[a]
  <1>1. work[a] \in TaskIds /\ agvCurrentTask[a] = work[a]
    BY WorkerRests DEF Typed, TypeOK
  <1>2. ended[work[a]] = "no"
    BY <1>1 DEF Outcome, NotEnded
  <1>3. status[work[a]] \notin Ends
    BY <1>1, <1>2 DEF Outcome, OutcomeIsReported, Ends
  <1>4. status[work[a]] # "none" /\ \A b \in Agvs : b # a => agvCurrentTask[b] # work[a]
    BY <1>1 DEF Cycle, TasksStored
  <1>5. QED
    BY <1>1, <1>2, <1>3, <1>4

\* What an AGV says while it takes or executes an order.
LEMMA SaysOutcome ==
    ASSUME Typed, Cycle, Outcome, NEW a \in Agvs, NEW n, inbox' = [inbox EXCEPT ![a] = <<n>>],
           UNCHANGED <<status, agvCurrentTask, req, mqtt, ended>>, NoNewOrder,
           agvCurrentTask[a] \in TaskIds, n.task = agvCurrentTask[a], n.kind = "orderState",
           n.state \notin Ends, ended[n.task] = "no"
    PROVE  Outcome'
  <1>1. /\ status[n.task] # "none" /\ ~BeingAssigned(n.task)
        /\ \A b \in Agvs : b # a => agvCurrentTask[b] # n.task
    BY DEF Cycle, TasksStored, BeingAssigned
  <1>2. Trusted(n, a)
    BY <1>1 DEF Trusted
  <1>3. status[n.task] \notin Ends
    BY DEF Outcome, OutcomeIsReported, Ends
  <1> DEFINE s == <<n>>
  <1>4. EndsLast(s) /\ \A i \in DOMAIN s : Trusted(s[i], a)
    BY <1>2 DEF EndsLast
  <1>5. inbox' = [inbox EXCEPT ![a] = s]
    OBVIOUS
  <1> HIDE DEF s
  <1>6. QED
    BY <1>3, <1>4, <1>5, InboxOutcome

LEMMA TakeOrderOutcome ==
    ASSUME Orderly, Typed, Cycle, Outcome, NEW a \in Agvs, TakeOrder(a)
    PROVE  Outcome'
  <1>1. /\ agvCurrentTask[a] # NoTask /\ orders[a] = <<agvCurrentTask[a]>>
        /\ \A b \in Agvs : b # a => work'[b] = work[b] /\ orders'[b] = orders[b]
        /\ inbox[a] = <<>>
    BY TakeOrderCycle
  <1>2. UNCHANGED <<status, agvCurrentTask, req, mqtt, ended>>
    BY DEF TakeOrder, dispatcher
  <1>3. NoNewOrder
    BY <1>1 DEF NoNewOrder, Orders
  <1> DEFINE n == [kind |-> "orderState", task |-> Head(orders[a]), state |-> "ACCEPTED"]
  <1>4. inbox' = [inbox EXCEPT ![a] = Append(@, n)]
    BY DEF TakeOrder
  <1>5. n.task = agvCurrentTask[a] /\ n.kind = "orderState" /\ n.state \notin Ends
    BY <1>1 DEF Ends
  <1>6. agvCurrentTask[a] \in TaskIds
    BY <1>1 DEF Typed, TypeOK
  <1>7. ended[agvCurrentTask[a]] = "no"
    BY <1>1 DEF Outcome, NotEnded
  <1> HIDE DEF n
  <1>8. Append(inbox[a], n) = <<n>>
    BY <1>1
  <1>9. QED
    BY <1>2, <1>3, <1>4, <1>5, <1>6, <1>7, <1>8, SaysOutcome

LEMMA ProgressOutcome ==
    ASSUME Typed, Cycle, Outcome, NEW a \in Agvs, NEW s \in {"RUNNING", "PAUSED"}, Progress(a, s)
    PROVE  Outcome'
  <1>1. UNCHANGED <<status, agvCurrentTask, req, mqtt, ended>> /\ NoNewOrder /\ work[a] # NoTask
    BY DEF Progress, dispatcher, agv, NoNewOrder, Orders
  <1> DEFINE n == [kind |-> "orderState", task |-> work[a], state |-> s]
  <1>2. inbox' = [inbox EXCEPT ![a] = <<n>>]
    BY DEF Progress
  <1>3. n.task = work[a] /\ n.kind = "orderState" /\ n.state \notin Ends
    BY DEF Ends
  <1> HIDE DEF n
  <1>4. QED
    BY <1>1, <1>2, <1>3, WorkerOpen, SaysOutcome

LEMMA LoseReportOutcome ==
    ASSUME Typed, Cycle, Outcome, NEW a \in Agvs, LoseReport(a)
    PROVE  Outcome'
  <1>1. UNCHANGED <<status, agvCurrentTask, req, mqtt, ended>> /\ NoNewOrder
    BY DEF LoseReport, dispatcher, agv, NoNewOrder, Orders
  <1> DEFINE s == Tail(inbox[a])
  <1>2. inbox' = [inbox EXCEPT ![a] = s] /\ inbox[a] # <<>> /\ inbox[a] \in Seq(Messages)
    BY DEF LoseReport, Typed, TypeOK
  <1>3. /\ EndsLast(s) /\ \A i \in DOMAIN s : i + 1 \in DOMAIN inbox[a] /\ s[i] = inbox[a][i + 1]
    BY <1>2, EndsLastTail DEF Outcome, Told
  <1> HIDE DEF s
  <1>4. \A i \in DOMAIN s : Trusted(s[i], a)
    BY <1>3 DEF Outcome, Told, Truthful
  <1>5. Ending(inbox[a]) => Ending(s)
    BY <1>3 DEF Ending
  <1>6. agvCurrentTask[a] # NoTask /\ status[agvCurrentTask[a]] \in Ends => Ending(s)
    BY <1>5 DEF Outcome, NotReopened
  <1>7. QED
    BY <1>1, <1>2, <1>3, <1>4, <1>6, InboxOutcome

\* The order ends, and what the AGV says of it is how.
LEMMA EndOrderOutcome ==
    ASSUME ReportsTell, Typed, Cycle, Outcome, NEW a \in Agvs, NEW e \in DOMAIN Reports, EndOrder(a, e)
    PROVE  Outcome'
  <1> DEFINE t == work[a]
  <1>1. /\ t \in TaskIds /\ t # NoTask /\ agvCurrentTask[a] = t /\ ended[t] = "no"
        /\ status[t] \notin Ends \cup {"none"}
        /\ \A b \in Agvs : b # a => agvCurrentTask[b] # t
        /\ orders[a] = <<>> /\ mqtt.agv # a /\ ~BeingAssigned(t) /\ mqtt.task # t
    BY WorkerOpen, WorkerRests DEF EndOrder, Cycle, TasksStored, BeingAssigned
  <1>2. /\ UNCHANGED <<status, agvCurrentTask, req, mqtt, orders>>
        /\ ended' = [ended EXCEPT ![t] = e] /\ work' = [work EXCEPT ![a] = NoTask]
        /\ e \in Ends
    BY ReportsAssumption DEF EndOrder, dispatcher
  <1>3. PICK rep \in Reports[e], said \in Seq(Messages) :
          /\ inbox' = [inbox EXCEPT ![a] = @ \o said]
          /\ DOMAIN said = DOMAIN rep
          /\ \A i \in DOMAIN said : said[i].task = t /\ said[i].kind = rep[i].kind
                                    /\ said[i].state = rep[i].state
    BY EndOrderEffect
  <1>4. \A i \in DOMAIN said : /\ said[i].task = t /\ said[i].state = e
                               /\ said[i].kind = "orderFinish" => e = "FINISHED"
    BY <1>3 DEF ReportsTell
  <1> HIDE DEF t
  <1>5. /\ ended'[t] = e /\ \A u \in TaskIds : u # t => ended'[u] = ended[u]
        /\ work'[a] = NoTask /\ \A b \in Agvs : b # a => work'[b] = work[b]
        /\ inbox'[a] = inbox[a] \o said /\ \A b \in Agvs : b # a => inbox'[b] = inbox[b]
    BY <1>1, <1>2, <1>3 DEF Typed, TypeOK
  <1>6. inbox[a] \in Seq(Messages) /\ EndsLast(inbox[a]) /\ Ending(said)
    BY <1>2, <1>4 DEF Typed, TypeOK, Outcome, Told, Ending
  <1>7. /\ EndsLast(inbox'[a])
        /\ \A i \in DOMAIN inbox'[a] : \/ i \in DOMAIN inbox[a] /\ inbox'[a][i] = inbox[a][i]
                                       \/ \E j \in DOMAIN said : inbox'[a][i] = said[j]
    BY <1>5, <1>6, EndsLastConcat, ConcatParts
  <1>8. Told'
    <2>1. ASSUME NEW b \in Agvs, NEW n, n.task \in TaskIds, Trusted(n, b) PROVE Trusted(n, b)'
      <3>1. n.state \in Ends => n.task # t
        BY <1>1, <2>1 DEF Trusted, Ends
      <3>2. QED
        BY <1>2, <1>5, <2>1, <3>1 DEF Trusted, BeingAssigned
    <2>2. ASSUME NEW n, n.task = t, n.state = e, n.kind = "orderFinish" => e = "FINISHED"
          PROVE  Trusted(n, a)'
      BY <1>1, <1>2, <1>5, <2>2 DEF Trusted, BeingAssigned
    <2>3. ASSUME NEW b \in Agvs, NEW i \in DOMAIN inbox[b]
          PROVE  Trusted(inbox[b][i], b) /\ inbox[b][i].task \in TaskIds
      BY MessageTyped DEF Outcome, Told, Truthful, Messages
    <2>4. ASSUME NEW b \in Agvs, NEW i \in DOMAIN inbox'[b]
          PROVE  \E n : n = inbox'[b][i] /\ Trusted(n, b)'
      <3>1. CASE b # a
        BY <1>5, <2>1, <2>3, <2>4, <3>1
      <3>2. CASE b = a
        BY <1>4, <1>7, <2>1, <2>2, <2>3, <2>4, <3>2
      <3>3. QED
        BY <3>1, <3>2
    <2>5. \A b \in Agvs : EndsLast(inbox'[b])
      BY <1>5, <1>7 DEF Outcome, Told
    <2>6. Truthful'
      BY <2>4 DEF Truthful
    <2>7. QED
      BY <2>5, <2>6 DEF Told
  <1>9. NotEnded'
    BY <1>1, <1>2, <1>5 DEF Outcome, NotEnded, Typed, TypeOK, BeingAssigned
  <1>10. EndsRight'
    BY <1>1, <1>2, <1>5 DEF Outcome, EndsRight, Typed, TypeOK
  <1>11. OutcomeIsReported'
    BY <1>1, <1>2, <1>5 DEF Outcome, OutcomeIsReported
  <1>12. NotReopened'
    BY <1>1, <1>2, <1>5 DEF Outcome, NotReopened
  <1>13. QED
    BY <1>8, <1>9, <1>10, <1>11, <1>12 DEF Outcome

LEMMA StepOutcome ==
    Orderly /\ ReportsTell /\ Typed /\ Cycle /\ Reported /\ Outcome /\ [Next]_vars => Outcome'
  <1> SUFFICES ASSUME Orderly, ReportsTell, Typed, Cycle, Reported, Outcome, [Next]_vars
               PROVE  Outcome'
    OBVIOUS
  <1>1. CASE UNCHANGED vars
    BY <1>1, StillOutcome DEF vars, dispatcher, agv, NoNewOrder, Orders, BeingAssigned
  <1>2. ASSUME NEW h \in Threads, RequestStep(h) PROVE Outcome'
    BY <1>2, RequestOutcome, StoreTaskOutcome, AssignOutcome DEF RequestStep
  <1>3. CASE HandlerStep
    BY <1>3, ReceiveOutcome, FreeAgvOutcome, EndTaskOutcome, ReleaseAllOutcome DEF HandlerStep
  <1>4. ASSUME NEW a \in Agvs, AgvStep(a) PROVE Outcome'
    BY <1>4, TakeOrderOutcome, ProgressOutcome, EndOrderOutcome, LoseReportOutcome DEF AgvStep
  <1>5. QED
    BY <1>1, <1>2, <1>3, <1>4, RequestOutcome DEF Next

LEMMA OutcomeHolds ==
    ASSUME Orderly, ReportsTell PROVE Spec => [](Typed /\ Cycle /\ Reported /\ Outcome)
  <1>1. Typed /\ Cycle /\ Reported /\ Outcome /\ [Next]_vars => (Typed /\ Cycle /\ Reported /\ Outcome)'
    BY StepTyped, StepCycle, StepReported, StepOutcome, TellEnds
  <1>2. QED
    BY <1>1, InitTyped, InitCycle, InitReported, InitOutcome, PTL DEF Spec

\* A task is stored as ended only the way its own AGV has ended it, although the handlers
\* end the current task of the AGV whichever task the report names.
THEOREM EndsAsReported == ASSUME Orderly, ReportsTell PROVE Spec => []OutcomeIsReported
  <1>1. Outcome => OutcomeIsReported
    BY DEF Outcome
  <1>2. QED
    BY <1>1, OutcomeHolds, PTL

-----------------------------------------------------------------------------
(* The current task is open *)

\* A task that is stored as finished or failed while it is current is about to be taken
\* from its AGV.
Closing ==
    \A a \in Agvs : agvCurrentTask[a] # NoTask /\ status[agvCurrentTask[a]] \in {"FINISHED", "FAILED"}
                        => mqtt.agv = a

LEMMA ReceiveClosing ==
    ASSUME Typed, Reported, Outcome, Closing, NEW a \in Agvs, Receive(a)
    PROVE  Closing'
  <1> DEFINE m == Head(inbox[a])
  <1>1. /\ inbox[a] \in Seq(Messages) /\ inbox[a] # <<>> /\ mqtt = NoMessage
        /\ UNCHANGED agvCurrentTask
        /\ Steps(m) # <<>> => mqtt'.agv = a
    BY ReceiveEffect DEF Receive, Typed, TypeOK
  <1>2. m \in Messages /\ Trusted(m, a)
    BY <1>1, EndsLastTail, MessageTyped DEF Outcome, Told, Truthful
  <1>3. \/ status' = status
        \/ m.kind = "orderState" /\ status' = [status EXCEPT ![m.task] = m.state]
    BY DEF Receive
  <1>4. m.task \in TaskIds
    BY <1>2 DEF Messages
  <1> HIDE DEF m
  <1>5. ASSUME NEW b \in Agvs, agvCurrentTask[b] # NoTask,
               status'[agvCurrentTask[b]] \in {"FINISHED", "FAILED"}
        PROVE  mqtt'.agv = b
    <2>1. status[agvCurrentTask[b]] \notin {"FINISHED", "FAILED"}
      BY <1>1, <1>5 DEF Closing, NoMessage
    <2>2. /\ m.kind = "orderState" /\ status' = [status EXCEPT ![m.task] = m.state]
          /\ agvCurrentTask[b] = m.task
      BY <1>3, <1>5, <2>1 DEF Typed, TypeOK
    <2>3. b = a /\ m.state \in {"FINISHED", "FAILED"}
      BY <1>2, <1>4, <1>5, <2>2 DEF Trusted, Typed, TypeOK
    <2>4. Steps(m) # <<>>
      BY <2>2, <2>3 DEF Steps
    <2>5. QED
      BY <1>1, <2>3, <2>4 DEF m
  <1>6. QED
    BY <1>1, <1>5 DEF Closing

\* Once a handler has taken the AGV's task, what follows is done for an AGV without a task.
LEMMA HandlerClosing ==
    ASSUME Typed, Cycle, Outcome, Closing, FreeAgv \/ EndTask \/ ReleaseAll
    PROVE  Closing'
  <1>1. CASE FreeAgv
    <2> DEFINE a == mqtt.agv
    <2>1. a \in Agvs /\ agvCurrentTask' = [agvCurrentTask EXCEPT ![a] = NoTask] /\ UNCHANGED status
      BY <1>1, FreeAgvEffect DEF FreeAgv
    <2> HIDE DEF a
    <2>2. agvCurrentTask'[a] = NoTask /\ \A b \in Agvs : b # a => agvCurrentTask'[b] = agvCurrentTask[b]
      BY <2>1 DEF Typed, TypeOK
    <2>3. QED
      BY <2>1, <2>2 DEF Closing, a
  <1>2. CASE EndTask
    <2>1. /\ mqtt.task \in TaskIds /\ status' = [status EXCEPT ![mqtt.task] = ended[mqtt.task]]
          /\ agvCurrentTask[mqtt.agv] = NoTask
      BY <1>2, EndTaskOutcome
    <2>2. \A b \in Agvs : agvCurrentTask[b] # mqtt.task
      BY <1>2 DEF EndTask, Cycle, TasksStored
    <2>3. \A b \in Agvs : agvCurrentTask[b] # NoTask => status'[agvCurrentTask[b]] = status[agvCurrentTask[b]]
      BY <2>1, <2>2 DEF Typed, TypeOK
    <2>4. UNCHANGED agvCurrentTask
      BY <1>2 DEF EndTask
    <2>5. QED
      BY <2>1, <2>3, <2>4 DEF Closing
  <1>3. CASE ReleaseAll
    <2>1. UNCHANGED <<status, agvCurrentTask>>
      BY <1>3 DEF ReleaseAll
    <2>2. mqtt.todo \in Todos /\ mqtt.agv \in Agvs /\ Head(mqtt.todo) = "release"
      BY <1>3 DEF ReleaseAll, Typed, Handling, NoMessage
    <2>3. IF Tail(mqtt.todo) = <<>> THEN mqtt' = NoMessage ELSE mqtt'.agv = mqtt.agv
      BY <1>3, NextStepHandles DEF Typed, ReleaseAll
    <2>4. CASE Tail(mqtt.todo) = <<>>
      <3>1. EndsAs(mqtt.todo) = "nothing"
        BY <2>2, <2>4, TodosEndAs
      <3>2. agvCurrentTask[mqtt.agv] # NoTask => ended[agvCurrentTask[mqtt.agv]] = "nothing"
        BY <2>2, <3>1 DEF Outcome, EndsRight
      <3>3. agvCurrentTask[mqtt.agv] = NoTask
        BY <2>2, <3>2 DEF Typed, TypeOK, Ends
      <3>4. QED
        BY <2>1, <3>3 DEF Closing
    <2>5. CASE Tail(mqtt.todo) # <<>>
      BY <2>1, <2>3, <2>5 DEF Closing
    <2>6. QED
      BY <2>4, <2>5
  <1>4. QED
    BY <1>1, <1>2, <1>3

LEMMA StoreTaskClosing ==
    ASSUME Typed, Cycle, Closing, NEW h \in Threads, StoreTask(h)
    PROVE  Closing'
  <1>1. /\ req[h].task \in TaskIds /\ status' = [status EXCEPT ![req[h].task] = "WAITING"]
        /\ \A a \in Agvs : agvCurrentTask[a] # req[h].task
    BY StoreTaskEffect DEF Cycle, TasksStored
  <1>2. \A a \in Agvs : agvCurrentTask[a] # NoTask => status'[agvCurrentTask[a]] = status[agvCurrentTask[a]]
    BY <1>1 DEF Typed, TypeOK
  <1>3. UNCHANGED <<agvCurrentTask, mqtt>>
    BY DEF StoreTask
  <1>4. QED
    BY <1>2, <1>3 DEF Closing

LEMMA AssignClosing ==
    ASSUME Typed, Cycle, Outcome, Closing, NEW h \in Threads, Assign(h)
    PROVE  Closing'
  <1> DEFINE a == req[h].agv
             t == req[h].task
  <1>1. a \in Agvs /\ t \in TaskIds
    BY AssignEffect
  <1>2. status[t] \notin Ends
    BY <1>1 DEF Assign, BeingAssigned, Outcome, NotEnded, OutcomeIsReported, Ends
  <1>3. agvCurrentTask' = [agvCurrentTask EXCEPT ![a] = t] /\ UNCHANGED <<status, mqtt>>
    BY DEF Assign
  <1> HIDE DEF a, t
  <1>4. agvCurrentTask'[a] = t /\ \A b \in Agvs : b # a => agvCurrentTask'[b] = agvCurrentTask[b]
    BY <1>1, <1>3 DEF Typed, TypeOK
  <1>5. QED
    BY <1>2, <1>3, <1>4 DEF Closing, Ends

\* Between two messages no AGV's current task is stored as finished or failed.  (One that
\* is stored as cancelled may be: the dispatcher does not know the word for it.)
THEOREM CurrentOpen ==
    ASSUME Orderly, ReportsTell PROVE Spec => []CurrentTaskOpen
  <1>1. Typed /\ Closing => CurrentTaskOpen
    BY DEF Typed, TypeOK, Closing, CurrentTaskOpen, NoMessage
  <1>2. Init => Closing
    BY DEF Init, Closing
  <1>3. Typed /\ Cycle /\ Reported /\ Outcome /\ Closing /\ [Next]_vars => Closing'
    <2> SUFFICES ASSUME Typed, Cycle, Reported, Outcome, Closing, [Next]_vars
                 PROVE  Closing'
      OBVIOUS
    <2>1. CASE \/ UNCHANGED vars
               \/ \E h \in Threads, a \in Agvs, path \in Paths : Request(h, a, path)
               \/ \E h \in Threads : \/ LockNext(h) \/ LockRefused(h) \/ LockUndo(h)
                                     \/ Send(h) \/ SendThrows(h)
               \/ \E a \in Agvs, online \in BOOLEAN : Connection(a, online)
               \/ \E a \in Agvs : AgvStep(a)
      <3>1. UNCHANGED <<status, agvCurrentTask, mqtt>>
        BY <2>1 DEF vars, dispatcher, agv, Request, LockNext, LockRefused, LockUndo, Send, SendThrows,
             Connection, AgvStep, TakeOrder, Progress, EndOrder, LoseReport
      <3>2. QED
        BY <3>1 DEF Closing
    <2>2. QED
      BY <2>1, StoreTaskClosing, AssignClosing, ReceiveClosing, HandlerClosing
         DEF Next, RequestStep, HandlerStep
  <1>4. QED
    BY <1>1, <1>2, <1>3, OutcomeHolds, PTL DEF Spec

-----------------------------------------------------------------------------
(* The dispatcher implements TaskBoard *)

Phases == [t \in TaskIds |-> Phase(t)]

LEMMA PhaseFacts ==
    ASSUME NEW t
    PROVE  /\ status[t] = "none" \/ BeingAssigned(t) => Phase(t) = "new"
           /\ status[t] # "none" /\ ~BeingAssigned(t) =>
                 /\ status[t] \in Ends => Phase(t) = status[t]
                 /\ status[t] \notin Ends => Phase(t) = IF BeingEnded(t) THEN EndStatus(Head(mqtt.todo))
                                                        ELSE "open"
  BY DEF Phase, Ends

LEMMA PhaseFactsNext ==
    ASSUME NEW t
    PROVE  /\ status'[t] = "none" \/ BeingAssigned(t)' => Phase(t)' = "new"
           /\ status'[t] # "none" /\ ~BeingAssigned(t)' =>
                 /\ status'[t] \in Ends => Phase(t)' = status'[t]
                 /\ status'[t] \notin Ends => Phase(t)' = IF BeingEnded(t)' THEN EndStatus(Head(mqtt'.todo))
                                                          ELSE "open"
  BY DEF Phase, Ends

\* The phase of a task for which nothing changes.
LEMMA PhaseStill ==
    ASSUME NEW t, status'[t] = status[t], BeingAssigned(t)' <=> BeingAssigned(t),
           ~BeingEnded(t), ~BeingEnded(t)'
    PROVE  Phase(t)' = Phase(t)
  BY PhaseFacts, PhaseFactsNext

\* All phases but one stay.
LEMMA PhaseChanges ==
    ASSUME NEW t \in TaskIds, \A u \in TaskIds : u # t => Phase(u)' = Phase(u)
    PROVE  Phases' = [Phases EXCEPT ![t] = Phase(t)']
  <1>1. Phases' = [u \in TaskIds |-> Phase(u)']
    BY DEF Phases
  <1>2. Phases = [u \in TaskIds |-> Phase(u)]
    BY DEF Phases
  <1>3. QED
    BY <1>1, <1>2

LEMMA PhasesStay ==
    ASSUME \A u \in TaskIds : Phase(u)' = Phase(u)
    PROVE  Phases' = Phases
  BY DEF Phases

LEMMA BoardAssigns ==
    ASSUME NEW a \in Agvs, NEW t \in TaskIds, Phase(t) = "new", Phase(t)' = "open",
           agvCurrentTask[a] = NoTask, agvCurrentTask' = [agvCurrentTask EXCEPT ![a] = t],
           \A u \in TaskIds : u # t => Phase(u)' = Phase(u)
    PROVE  Board!Next
  <1>1. Phases' = [Phases EXCEPT ![t] = "open"] /\ Phases[t] = "new"
    BY PhaseChanges DEF Phases
  <1>2. Board!Assign(a, t)
    BY <1>1 DEF Board!Assign, Phases
  <1>3. QED
    BY <1>2 DEF Board!Next

LEMMA BoardEnds ==
    ASSUME NEW a \in Agvs, NEW t \in TaskIds, NEW e \in Ends, agvCurrentTask[a] = t,
           Phase(t) = "open", Phase(t)' = e,
           agvCurrentTask' \in {agvCurrentTask, [agvCurrentTask EXCEPT ![a] = NoTask]},
           \A u \in TaskIds : u # t => Phase(u)' = Phase(u)
    PROVE  Board!Next
  <1>1. Phases' = [Phases EXCEPT ![t] = e] /\ Phases[t] = "open"
    BY PhaseChanges DEF Phases
  <1>2. Board!End(a, e)
    BY <1>1 DEF Board!End, Phases
  <1>3. QED
    BY <1>2 DEF Board!Next

LEMMA BoardFrees ==
    ASSUME NEW a \in Agvs, NEW t \in TaskIds, agvCurrentTask[a] = t, Phase(t) \in Ends,
           agvCurrentTask' = [agvCurrentTask EXCEPT ![a] = NoTask],
           \A u \in TaskIds : Phase(u)' = Phase(u)
    PROVE  Board!Next
  <1>1. Phases' = Phases /\ Phases[t] \in Ends
    BY PhasesStay DEF Phases
  <1>2. Board!Free(a)
    BY <1>1 DEF Board!Free, Phases
  <1>3. QED
    BY <1>2 DEF Board!Next

\* What a request does before it assigns the task is not seen on the board.
LEMMA RequestBoard ==
    ASSUME Typed, Cycle,
           \/ \E h \in Threads, a \in Agvs, path \in Paths : Request(h, a, path)
           \/ \E h \in Threads : \/ LockNext(h) \/ LockRefused(h) \/ LockUndo(h)
                                 \/ Send(h) \/ SendThrows(h)
    PROVE  UNCHANGED <<Phases, agvCurrentTask>>
  <1>1. UNCHANGED <<status, agvCurrentTask, mqtt>>
    BY DEF Request, LockNext, LockRefused, LockUndo, Send, SendThrows, dispatcher
  <1>2. PICK h \in Threads : Others(h) /\ req[h].pc # "current" /\ req'[h].pc # "current"
    <2>1. ASSUME NEW h \in Threads, \/ \E a \in Agvs, path \in Paths : Request(h, a, path)
                                    \/ LockNext(h) \/ LockRefused(h) \/ LockUndo(h)
                                    \/ Send(h) \/ SendThrows(h)
          PROVE  Others(h) /\ req[h].pc # "current" /\ req'[h].pc # "current"
      <3>1. Others(h) /\ req'[h].pc # "current"
        BY <2>1, RequestEffect, LockNextEffect, LockRefusedEffect, LockUndoEffect, SendEffect,
           SendThrowsEffect
      <3>2. req[h].pc # "current"
        BY <2>1 DEF Request, LockNext, LockRefused, LockUndo, Send, SendThrows
      <3>3. QED
        BY <3>1, <3>2
    <2>2. QED
      BY <2>1
  <1>3. \A t : BeingAssigned(t)' <=> BeingAssigned(t)
    BY <1>2 DEF BeingAssigned, Others
  <1>4. \A t : BeingEnded(t)' <=> BeingEnded(t)
    BY <1>1 DEF BeingEnded
  <1>5. ASSUME NEW t \in TaskIds PROVE Phase(t)' = Phase(t)
    BY <1>1, <1>3, <1>4, PhaseFacts, PhaseFactsNext
  <1>6. QED
    BY <1>1, <1>5, PhasesStay

LEMMA StoreTaskBoard ==
    ASSUME Typed, Cycle, NEW h \in Threads, StoreTask(h)
    PROVE  UNCHANGED <<Phases, agvCurrentTask>>
  <1>1. PICK t \in TaskIds :
        /\ t = req[h].task /\ Others(h) /\ req[h].pc = "assign" /\ t # NoTask
        /\ req'[h].pc = "current" /\ req'[h].task = t
        /\ status' = [status EXCEPT ![t] = "WAITING"]
    BY StoreTaskEffect
  <1>2. status[t] = "none"
    BY <1>1 DEF Cycle, TasksStored
  <1>3. UNCHANGED <<agvCurrentTask, mqtt>>
    BY DEF StoreTask
  <1>4. BeingAssigned(t)'
    BY <1>1 DEF BeingAssigned
  <1>5. \A u \in TaskIds : u # t => (BeingAssigned(u)' <=> BeingAssigned(u))
    BY <1>1 DEF BeingAssigned, Others
  <1>6. \A u \in TaskIds : u # t => status'[u] = status[u]
    BY <1>1 DEF Typed, TypeOK
  <1>7. \A u : BeingEnded(u)' <=> BeingEnded(u)
    BY <1>3 DEF BeingEnded
  <1>8. Phase(t) = "new" /\ Phase(t)' = "new"
    BY <1>2, <1>4, PhaseFacts, PhaseFactsNext
  <1>9. ASSUME NEW u \in TaskIds, u # t PROVE Phase(u)' = Phase(u)
    BY <1>3, <1>5, <1>6, <1>7, <1>9, PhaseFacts, PhaseFactsNext
  <1>10. QED
    BY <1>3, <1>8, <1>9, PhasesStay

LEMMA AssignBoard ==
    ASSUME Typed, Cycle, Outcome, NEW h \in Threads, Assign(h)
    PROVE  Board!Next
  <1>1. PICK a \in Agvs, t \in TaskIds : a = req[h].agv /\ t = req[h].task
    BY AssignEffect
  <1>2. /\ agvCurrentTask[a] = NoTask /\ agvCurrentTask' = [agvCurrentTask EXCEPT ![a] = t]
        /\ UNCHANGED <<status, mqtt>> /\ BeingAssigned(t) /\ req[h].pc = "current"
    BY <1>1 DEF Assign, Cycle, ServedRests, BeingAssigned
  <1>3. ~BeingAssigned(t)' /\ \A u \in TaskIds : u # t => (BeingAssigned(u)' <=> BeingAssigned(u))
    <2>1. /\ Others(h) /\ req'[h].pc = "idle" /\ t # NoTask
          /\ \A k \in Threads : k # h => req[k].task # t
      BY <1>1, <1>2, AssignEffect DEF Cycle, Apart
    <2>2. QED
      BY <1>1, <2>1 DEF BeingAssigned, Others
  <1>4. status[t] # "none" /\ status[t] \notin Ends /\ mqtt.task # t
    BY <1>1, <1>2 DEF Outcome, NotEnded, OutcomeIsReported, Ends, Cycle, TasksStored
  <1>5. \A u : BeingEnded(u)' <=> BeingEnded(u)
    BY <1>2 DEF BeingEnded
  <1>6. Phase(t) = "new"
    BY <1>2, PhaseFacts
  <1>7. Phase(t)' = "open"
    BY <1>2, <1>3, <1>4, <1>5, PhaseFactsNext DEF BeingEnded
  <1>8. ASSUME NEW u \in TaskIds, u # t PROVE Phase(u)' = Phase(u)
    BY <1>2, <1>3, <1>5, <1>8, PhaseFacts, PhaseFactsNext
  <1>9. QED
    BY <1>2, <1>6, <1>7, <1>8, BoardAssigns

\* An order state says how the task of its AGV has ended, or what it does meanwhile; one
\* that comes when the task is stored as ended says the same.
LEMMA ReceiveBoard ==
    ASSUME Typed, Cycle, Reported, Outcome, NEW a \in Agvs, Receive(a)
    PROVE  Board!Next \/ UNCHANGED <<Phases, agvCurrentTask>>
  <1>1. /\ inbox[a] \in Seq(Messages) /\ inbox[a] # <<>> /\ UNCHANGED <<agvCurrentTask, req>>
        /\ 1 \in DOMAIN inbox[a] /\ Head(inbox[a]) = inbox[a][1]
        /\ mqtt.task = NoTask /\ mqtt'.task = NoTask
    BY EndsLastTail, ReceiveEffect DEF Receive, Typed, TypeOK, Outcome, Told, NoMessage
  <1>2. PICK m \in Messages : m = inbox[a][1] /\ Trusted(m, a)
    BY <1>1, MessageTyped DEF Outcome, Told, Truthful
  <1>3. PICK t \in TaskIds, e \in TaskStatuses : t = m.task /\ e = m.state
    BY <1>2 DEF Messages
  <1>4. status' = status \/ (status' = [status EXCEPT ![t] = e] /\ status[t] # "none")
    BY <1>1, <1>2, <1>3 DEF Receive
  <1>5. e \notin Ends => status[t] \notin Ends
    <2>1. SUFFICES ASSUME e \notin Ends PROVE status[t] \notin Ends
      OBVIOUS
    <2>2. agvCurrentTask[a] = t
      BY <1>1, <1>2, <1>3, <2>1 DEF Reported, ReportsInOrder, Ordered
    <2>3. ~Ending(inbox[a])
      BY <1>1, <1>2, <1>3, <2>1 DEF Ending
    <2>4. QED
      BY <1>3, <2>2, <2>3 DEF Outcome, NotReopened
  <1>6. /\ e \in Ends => ended[t] = e
        /\ \A b \in Agvs : b # a => agvCurrentTask[b] # t
        /\ ~BeingAssigned(t)
    BY <1>2, <1>3 DEF Trusted
  <1>7. \A u : BeingAssigned(u)' <=> BeingAssigned(u)
    BY <1>1 DEF BeingAssigned
  <1>8. \A u \in TaskIds : ~BeingEnded(u) /\ ~BeingEnded(u)'
    BY <1>1 DEF BeingEnded
  <1>9. status'[t] \in {status[t], e} /\ \A u \in TaskIds : u # t => status'[u] = status[u]
    BY <1>4 DEF Typed, TypeOK
  <1>10. \A u \in TaskIds : u # t => Phase(u)' = Phase(u)
    BY <1>7, <1>8, <1>9, PhaseStill
  <1>11. CASE status'[t] = status[t]
    <2>1. Phase(t)' = Phase(t)
      BY <1>7, <1>8, <1>11, PhaseStill
    <2>2. QED
      BY <1>1, <1>10, <2>1, PhasesStay
  <1>12. CASE status'[t] = e /\ status[t] # "none"
    <2>1. CASE e \notin Ends
      <3>1. e # "none"
        BY DEF TaskStatuses, Ends
      <3>2. Phase(t) = "open" /\ Phase(t)' = "open"
        BY <1>5, <1>6, <1>7, <1>8, <1>12, <2>1, <3>1, PhaseFacts, PhaseFactsNext
      <3>3. QED
        BY <1>1, <1>10, <3>2, PhasesStay
    <2>2. CASE e \in Ends /\ status[t] \in Ends
      BY <1>6, <1>11, <1>12, <2>2 DEF Outcome, OutcomeIsReported
    <2>3. CASE e \in Ends /\ status[t] \notin Ends
      <3>1. agvCurrentTask[a] = t
        BY <1>6, <1>8, <1>12, <2>3 DEF Reported, NoOrphanTask
      <3>2. Phase(t) = "open"
        BY <1>6, <1>8, <1>12, <2>3, PhaseFacts
      <3>3. Phase(t)' = e
        BY <1>6, <1>7, <1>12, <2>3, PhaseFactsNext DEF Ends
      <3>4. QED
        BY <1>1, <1>10, <2>3, <3>1, <3>2, <3>3, BoardEnds
    <2>4. QED
      BY <2>1, <2>2, <2>3
  <1>13. QED
    BY <1>4, <1>9, <1>11, <1>12

\* The handlers take the AGV's task to end it, or find it ended by the order state and
\* free the AGV.
LEMMA FreeAgvBoard ==
    ASSUME Typed, Cycle, Outcome, FreeAgv
    PROVE  Board!Next \/ UNCHANGED <<Phases, agvCurrentTask>>
  <1>1. PICK a \in Agvs : a = mqtt.agv
    BY FreeAgvEffect
  <1>2. /\ agvCurrentTask' = [agvCurrentTask EXCEPT ![a] = NoTask] /\ UNCHANGED <<status, req>>
        /\ mqtt.task = NoTask /\ mqtt'.task = agvCurrentTask[a]
        /\ agvCurrentTask[a] # NoTask => mqtt'.todo = mqtt.todo
    BY <1>1, FreeAgvEffect DEF FreeAgv
  <1>3. \A u : BeingAssigned(u)' <=> BeingAssigned(u)
    BY <1>2 DEF BeingAssigned
  <1>4. \A u \in TaskIds : ~BeingEnded(u) /\ (u # agvCurrentTask[a] => ~BeingEnded(u)')
    BY <1>2 DEF BeingEnded
  <1>5. \A u \in TaskIds : u # agvCurrentTask[a] => Phase(u)' = Phase(u)
    BY <1>2, <1>3, <1>4, PhaseStill
  <1>6. CASE agvCurrentTask[a] = NoTask
    <2>1. agvCurrentTask' = agvCurrentTask
      BY <1>2, <1>6 DEF Typed, TypeOK
    <2>2. \A u \in TaskIds : Phase(u)' = Phase(u)
      BY <1>5, <1>6
    <2>3. QED
      BY <2>1, <2>2, PhasesStay
  <1>7. CASE agvCurrentTask[a] # NoTask
    <2>1. PICK t \in TaskIds, e \in Ends :
            /\ t = agvCurrentTask[a] /\ status[t] # "none"
            /\ e = ended[t] /\ EndStatus(Head(mqtt.todo)) = e
      BY <1>1, <1>7, FreeAgvOutcome
    <2>2. ~BeingAssigned(t) /\ BeingEnded(t)'
      BY <1>2, <1>7, <2>1 DEF BeingAssigned, BeingEnded, Cycle, TasksStored
    <2>3. CASE status[t] \in Ends
      <3>1. Phase(t) = status[t] /\ Phase(t)' = status[t]
        BY <1>2, <1>3, <2>1, <2>2, <2>3, PhaseFacts, PhaseFactsNext
      <3>2. \A u \in TaskIds : Phase(u)' = Phase(u)
        BY <1>5, <2>1, <3>1
      <3>3. QED
        BY <1>2, <2>1, <2>3, <3>1, <3>2, BoardFrees
    <2>4. CASE status[t] \notin Ends
      <3>1. Phase(t) = "open"
        BY <1>4, <2>1, <2>2, <2>4, PhaseFacts
      <3>2. Phase(t)' = e
        BY <1>2, <1>3, <1>7, <2>1, <2>2, <2>4, PhaseFactsNext
      <3>3. QED
        BY <1>2, <1>5, <2>1, <3>1, <3>2, BoardEnds
    <2>5. QED
      BY <2>3, <2>4
  <1>8. QED
    BY <1>6, <1>7

\* The board has already seen the end of the task.
LEMMA EndTaskBoard ==
    ASSUME Typed, Cycle, Outcome, EndTask
    PROVE  UNCHANGED <<Phases, agvCurrentTask>>
  <1>1. PICK t \in TaskIds, e \in Ends :
          /\ t = mqtt.task /\ e = ended[t] /\ status[t] # "none" /\ EndStatus(Head(mqtt.todo)) = e
          /\ status' = [status EXCEPT ![t] = e] /\ mqtt'.task = NoTask
    BY EndTaskOutcome
  <1>2. UNCHANGED <<agvCurrentTask, req>>
    BY DEF EndTask
  <1>3. \A u : BeingAssigned(u)' <=> BeingAssigned(u)
    BY <1>2 DEF BeingAssigned
  <1>4. \A u \in TaskIds : ~BeingEnded(u)' /\ (u # t => ~BeingEnded(u))
    BY <1>1 DEF BeingEnded
  <1>5. status'[t] = e /\ \A u \in TaskIds : u # t => status'[u] = status[u]
    BY <1>1 DEF Typed, TypeOK
  <1>6. \A u \in TaskIds : u # t => Phase(u)' = Phase(u)
    BY <1>3, <1>4, <1>5, PhaseStill
  <1>7. ~BeingAssigned(t) /\ BeingEnded(t)
    <2>1. t # NoTask
      BY <1>1 DEF EndTask
    <2>2. \A h \in Threads : req[h].task # t
      BY <1>1, <2>1 DEF Cycle, TasksStored
    <2>3. QED
      BY <1>1, <2>2 DEF BeingAssigned, BeingEnded
  <1>8. Phase(t) = e
    BY <1>1, <1>7, PhaseFacts DEF Outcome, OutcomeIsReported
  <1>9. Phase(t)' = e
    <2>1. status'[t] # "none" /\ status'[t] \in Ends /\ ~BeingAssigned(t)'
      BY <1>3, <1>5, <1>7 DEF Ends
    <2>2. QED
      BY <1>5, <2>1, PhaseFactsNext
  <1>10. QED
    BY <1>2, <1>6, <1>8, <1>9, PhasesStay

\* Tasks are given out, ended and followed by the next as TaskBoard promises: no AGV gets a
\* second task before the first has ended, and what has ended stays ended that way.
THEOREM TasksImplementBoard ==
    ASSUME Orderly, ReportsTell PROVE Spec => ImplementsTaskBoard
  <1>1. Init => Board!Init
    <2>1. Init => \A t \in TaskIds : status[t] = "none"
      BY DEF Init
    <2>2. ASSUME Init, NEW t \in TaskIds PROVE Phase(t) = "new"
      BY <2>1, <2>2, PhaseFacts
    <2>3. Init => Phases = [t \in TaskIds |-> "new"]
      BY <2>2 DEF Phases
    <2>4. QED
      BY <2>3 DEF Init, Board!Init, Phases
  <1>2. Typed /\ Cycle /\ Reported /\ Outcome /\ [Next]_vars
           => Board!Next \/ UNCHANGED <<Phases, agvCurrentTask>>
    <2> SUFFICES ASSUME Typed, Cycle, Reported, Outcome, [Next]_vars
                 PROVE  Board!Next \/ UNCHANGED <<Phases, agvCurrentTask>>
      OBVIOUS
    <2>1. CASE \/ UNCHANGED vars
               \/ \E a \in Agvs, online \in BOOLEAN : Connection(a, online)
               \/ \E a \in Agvs : AgvStep(a)
      <3>1. UNCHANGED <<status, agvCurrentTask, req, mqtt>>
        BY <2>1 DEF vars, dispatcher, agv, Connection, AgvStep, TakeOrder, Progress, EndOrder, LoseReport
      <3>2. \A t \in TaskIds : Phase(t)' = Phase(t)
        BY <3>1 DEF Phase, BeingAssigned, BeingEnded
      <3>3. QED
        BY <3>1, <3>2, PhasesStay
    <2>2. CASE ReleaseAll
      <3>1. UNCHANGED <<status, agvCurrentTask, req>>
        BY <2>2 DEF ReleaseAll
      <3>2. mqtt.task = NoTask /\ mqtt'.task = NoTask
        BY <2>2, NextStepHandles DEF ReleaseAll, Typed, Handling, NoMessage
      <3>3. \A t \in TaskIds : ~BeingEnded(t) /\ ~BeingEnded(t)'
        BY <3>2 DEF BeingEnded
      <3>4. \A t \in TaskIds : BeingAssigned(t)' <=> BeingAssigned(t)
        BY <3>1 DEF BeingAssigned
      <3>5. \A t \in TaskIds : Phase(t)' = Phase(t)
        BY <3>1, <3>3, <3>4, PhaseStill
      <3>6. QED
        BY <3>1, <3>5, PhasesStay
    <2>3. QED
      BY <2>1, <2>2, RequestBoard, StoreTaskBoard, AssignBoard, ReceiveBoard, FreeAgvBoard, EndTaskBoard
         DEF Next, RequestStep, HandlerStep
  <1>3. Typed /\ Cycle /\ Reported /\ Outcome /\ [Next]_vars
           => [Board!Next]_<<[t \in TaskIds |-> Phase(t)], agvCurrentTask>>
    BY <1>2 DEF Phases
  <1>4. QED
    BY <1>1, <1>3, OutcomeHolds, PTL DEF Spec, Board!Spec, ImplementsTaskBoard
=============================================================================
