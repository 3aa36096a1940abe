------------------------- MODULE TaskDispatchProofs -------------------------
(* TaskDispatch for any number of AGVs, resources, HTTP threads and tasks, *)
(* where the next request for an AGV waits until the end of its last task  *)
(* has been dealt with (Quiet), and the AGV answers when the request has   *)
(* stored the task (not Immediate).                                        *)
EXTENDS TaskDispatch, SequenceTheorems, TLAPS

Orderly == Quiet /\ ~Immediate

\* What an AGV says when it has ended an order is how.
ReportsEnd ==
    \A e \in DOMAIN Reports : \A rep \in Reports[e] : \A i \in DOMAIN rep : rep[i].state \in Ends

Locked(q) == {q.locked[i] : i \in DOMAIN q.locked}

\* What is left to do of the lists Steps gives.
Todos == {<<"finish", "release">>, <<"fail", "release">>, <<"release">>,
          <<"release", "finish">>, <<"finish">>,
          <<"release", "fail", "release", "finish">>, <<"fail", "release", "finish">>,
          <<"release", "cancel", "release", "finish">>, <<"cancel", "release", "finish">>}

Handling ==
    \/ mqtt = NoMessage
    \/ /\ mqtt.agv \in Agvs /\ mqtt.todo \in Todos
       /\ mqtt.task # NoTask => Head(mqtt.todo) # "release"

\* Where a request is determines what it has.
Whole(q) ==
    /\ q.pc = "idle" => q = NoRequest
    /\ q.pc # "idle" => q.agv \in Agvs
    /\ q.pc = "lock" => q.todo # <<>>
    /\ q.pc = "undo" => q.locked # <<>>
    /\ q.pc \in {"send", "assign", "current"} <=> q.task # NoTask

Requests == \A h \in Threads : Whole(req[h])

\* An AGV has one request at a time, a task belongs to one request.
Apart ==
    \A h, k \in Threads : h # k /\ req[h].pc # "idle" =>
        req[h].agv # req[k].agv /\ (req[h].task # NoTask => req[h].task # req[k].task)

\* While a request is served its AGV has no task and nothing to say or to hear but
\* the order that has just gone out.
ServedRests ==
    \A h \in Threads : req[h].pc # "idle" =>
        LET a == req[h].agv
        IN /\ agvCurrentTask[a] = NoTask /\ work[a] = NoTask /\ inbox[a] = <<>> /\ mqtt.agv # a
           /\ orders[a] # <<>> => req[h].pc \in {"assign", "current"} /\ orders[a] = <<req[h].task>>

\* A task is stored before it becomes an AGV's, and is only that AGV's; one that a
\* handler is about to end is nobody's.
TasksStored ==
    /\ \A h \in Threads : req[h].task # NoTask =>
          /\ status[req[h].task] = "none" <=> req[h].pc # "current"
          /\ \A a \in Agvs : agvCurrentTask[a] # req[h].task
          /\ mqtt.task # req[h].task
    /\ mqtt.task # NoTask => /\ status[mqtt.task] # "none"
                             /\ \A a \in Agvs : agvCurrentTask[a] # mqtt.task
    /\ \A a \in Agvs : agvCurrentTask[a] # NoTask => status[agvCurrentTask[a]] # "none"
    /\ \A a, b \in Agvs : agvCurrentTask[a] # NoTask /\ agvCurrentTask[a] = agvCurrentTask[b] => a = b

\* An order that waits is that of the current task, or not to be taken yet.
OrderWaits ==
    \A a \in Agvs : orders[a] # <<>> =>
        \/ \E h \in Threads : /\ req[h].pc \in {"assign", "current"} /\ req[h].agv = a
                              /\ orders[a] = <<req[h].task>>
        \/ /\ agvCurrentTask[a] # NoTask /\ orders[a] = <<agvCurrentTask[a]>>
           /\ work[a] = NoTask /\ inbox[a] = <<>> /\ mqtt.agv # a

\* Reports on which the dispatcher only notes the AGV's state.
Harmless(s) == \A i \in DOMAIN s : Steps(s[i]) = <<>>

\* While an AGV executes an order, that is its current task, and it has said nothing
\* that could end it.
WorksOnCurrent ==
    \A a \in Agvs : work[a] # NoTask =>
        /\ agvCurrentTask[a] = work[a] /\ orders[a] = <<>> /\ mqtt.agv # a
        /\ Harmless(inbox[a])

\* The locks of a request are its AGV's, and no lock is counted twice.
RequestHolds ==
    \A h \in Threads :
        /\ \A i \in DOMAIN req[h].locked : user[req[h].locked[i]] = req[h].agv
        /\ \A i, j \in DOMAIN req[h].locked : req[h].locked[i] = req[h].locked[j] => i = j
        /\ req[h].task # NoTask => lockList[req[h].task] = Locked(req[h])

\* The locks of a task are its AGV's as long as the order waits or is executed.
TaskHolds ==
    \A a \in Agvs :
        agvCurrentTask[a] # NoTask /\ (orders[a] # <<>> \/ work[a] # NoTask)
            => \A r \in lockList[agvCurrentTask[a]] : user[r] = a

\* Somebody will give back what is locked.
LocksKnown ==
    \A r \in Resources : user[r] # NoAgv =>
        \/ agvCurrentTask[user[r]] # NoTask
        \/ \E h \in Threads : req[h].pc # "idle" /\ req[h].agv = user[r] /\ r \in Locked(req[h])
        \/ mqtt.agv = user[r]

\* The last step of a handler that has released everything.
ReleasedFirst ==
    mqtt.todo = <<"finish">> => \A r \in Resources : user[r] # mqtt.agv

\* What an AGV says of an order under way is about its current task, and comes
\* before what ends it.
UpTo(s, i) == \A j \in 1..i : Steps(s[j]) = <<>>
Ordered(s, t) == \A i \in DOMAIN s : s[i].state \notin Ends => t = s[i].task /\ UpTo(s, i)
Ending(s) == \A i \in DOMAIN s : s[i].state \in Ends

ReportsInOrder ==
    \A a \in Agvs : /\ Ordered(inbox[a], agvCurrentTask[a])
                    /\ mqtt.agv = a => Ending(inbox[a])

Typed == TypeOK /\ Handling /\ Requests
Cycle == Apart /\ ServedRests /\ TasksStored /\ OrderWaits /\ WorksOnCurrent
Holding == RequestHolds /\ TaskHolds
Known == LocksKnown /\ ReleasedFirst

USE NobodyAssumption

-----------------------------------------------------------------------------
(* Types *)

LEMMA TailType ==
    ASSUME NEW S, NEW s \in Seq(S), s # <<>>
    PROVE  Tail(s) \in Seq(S) /\ Head(s) \in S
  BY HeadTailProperties

LEMMA StepsTodos ==
    ASSUME NEW m \in Messages
    PROVE  Steps(m) = <<>> \/ Steps(m) \in Todos
  BY DEF Steps, Todos

\* The states a request goes through.
LEMMA NoRequestWhole == NoRequest \in RequestStates /\ Whole(NoRequest)
  BY DEF NoRequest, RequestStates, Whole

LEMMA RequestWhole ==
    ASSUME NEW a \in Agvs, NEW path \in Paths
    PROVE  LET q == [NoRequest EXCEPT !.pc = "lock", !.agv = a, !.todo = path]
           IN  /\ q \in RequestStates /\ Whole(q)
               /\ q.pc = "lock" /\ q.agv = a /\ q.task = NoTask /\ q.locked = <<>>
  <1> DEFINE q == [NoRequest EXCEPT !.pc = "lock", !.agv = a, !.todo = path]
  <1>1. path \in Seq(Resources) /\ path # <<>>
    BY PathsAssumption
  <1>2. ASSUME NEW n \in RequestStates
        PROVE  /\ [n EXCEPT !.pc = "lock", !.agv = a, !.todo = path] \in RequestStates
               /\ [n EXCEPT !.pc = "lock", !.agv = a, !.todo = path].pc = "lock"
               /\ [n EXCEPT !.pc = "lock", !.agv = a, !.todo = path].agv = a
               /\ [n EXCEPT !.pc = "lock", !.agv = a, !.todo = path].todo = path
               /\ [n EXCEPT !.pc = "lock", !.agv = a, !.todo = path].locked = n.locked
               /\ [n EXCEPT !.pc = "lock", !.agv = a, !.todo = path].task = n.task
    BY <1>1 DEF RequestStates
  <1>3. /\ q \in RequestStates
        /\ q.pc = "lock"
        /\ q.agv = a
        /\ q.todo = path
        /\ q.task = NoRequest.task
        /\ q.locked = NoRequest.locked
    BY <1>2, NoRequestWhole, Zenon
  <1>4. NoRequest.task = NoTask /\ NoRequest.locked = <<>>
    BY DEF NoRequest
  <1>5. Whole(q)
    <2> HIDE DEF q
    <2>1. QED
      BY <1>1, <1>3, <1>4 DEF Whole
  <1>6. QED
    BY <1>3, <1>4, <1>5, Zenon

LEMMA LockedWhole ==
    ASSUME NEW q \in RequestStates, Whole(q), q.pc = "lock"
    PROVE  LET next == [q EXCEPT !.todo = Tail(@), !.locked = Append(@, Head(q.todo))]
           IN  /\ next \in RequestStates
               /\ next.todo # <<>> => Whole(next)
               /\ next.pc = "lock" /\ next.agv = q.agv /\ next.task = q.task
               /\ next.locked = Append(q.locked, Head(q.todo)) /\ next.locked \in Seq(Resources)
               /\ \A t \in TaskIds : LET s == [next EXCEPT !.pc = "send", !.task = t]
                                      IN  /\ s \in RequestStates /\ Whole(s)
                                          /\ s.pc = "send" /\ s.agv = q.agv /\ s.task = t
                                          /\ s.locked = next.locked
               /\ {next.locked[i] : i \in DOMAIN next.locked} \in SUBSET Resources
  <1> DEFINE next == [q EXCEPT !.todo = Tail(@), !.locked = Append(@, Head(q.todo))]
  <1>1. q.todo \in Seq(Resources) /\ q.locked \in Seq(Resources) /\ q.todo # <<>>
    BY DEF RequestStates, Whole
  <1>2. Tail(q.todo) \in Seq(Resources) /\ Head(q.todo) \in Resources
    BY <1>1, TailType
  <1>3. Append(q.locked, Head(q.todo)) \in Seq(Resources)
    BY <1>1, <1>2
  <1>4. ASSUME NEW s \in Seq(Resources), NEW l \in Seq(Resources)
        PROVE  /\ [q EXCEPT !.todo = s, !.locked = l] \in RequestStates
               /\ [q EXCEPT !.todo = s, !.locked = l].todo = s
               /\ [q EXCEPT !.todo = s, !.locked = l].locked = l
               /\ [q EXCEPT !.todo = s, !.locked = l].pc = "lock"
               /\ [q EXCEPT !.todo = s, !.locked = l].agv = q.agv
               /\ [q EXCEPT !.todo = s, !.locked = l].task = q.task
    BY DEF RequestStates
  <1>5. /\ next \in RequestStates
        /\ next.todo = Tail(q.todo)
        /\ next.locked = Append(q.locked, Head(q.todo))
        /\ next.pc = "lock"
        /\ next.agv = q.agv
        /\ next.task = q.task
    BY <1>2, <1>3, <1>4, Zenon
  <1> HIDE DEF next
  <1>6. next.todo # <<>> => Whole(next)
    BY <1>5 DEF Whole
  <1>7. ASSUME NEW t \in TaskIds
        PROVE  LET s == [next EXCEPT !.pc = "send", !.task = t]
               IN  /\ s \in RequestStates /\ Whole(s)
                   /\ s.pc = "send" /\ s.agv = q.agv /\ s.task = t
                   /\ s.locked = next.locked
    BY <1>5 DEF RequestStates, Whole
  <1>8. {next.locked[i] : i \in DOMAIN next.locked} \in SUBSET Resources
    BY <1>3, <1>5, ElementOfSeq, LenProperties
  <1>9. QED
    BY <1>3, <1>5, <1>6, <1>7, <1>8 DEF next

LEMMA RefusedWhole ==
    ASSUME NEW q \in RequestStates, q.agv \in Agvs, q.task = NoTask
    PROVE  /\ AfterRefusal(q) \in RequestStates /\ Whole(AfterRefusal(q))
           /\ AfterRefusal(q).task = NoTask
           /\ IF q.locked = <<>> THEN AfterRefusal(q).pc = "idle"
              ELSE /\ AfterRefusal(q).pc = "undo" /\ AfterRefusal(q).agv = q.agv
                   /\ AfterRefusal(q).locked = q.locked
  <1>1. CASE q.locked = <<>>
    BY <1>1, NoRequestWhole DEF AfterRefusal, NoRequest
  <1>2. CASE q.locked # <<>>
    <2>1. AfterRefusal(q) = [q EXCEPT !.pc = "undo"]
      BY <1>2 DEF AfterRefusal
    <2>2. QED
      BY <1>2, <2>1 DEF RequestStates, Whole
  <1>3. QED
    BY <1>1, <1>2

LEMMA UndoneWhole ==
    ASSUME NEW q \in RequestStates, Whole(q), q.pc = "undo"
    PROVE  LET n == AfterRefusal([q EXCEPT !.locked = Tail(@)])
           IN  /\ n \in RequestStates /\ Whole(n) /\ n.task = NoTask
               /\ IF Tail(q.locked) = <<>> THEN n.pc = "idle"
                  ELSE n.pc = "undo" /\ n.agv = q.agv /\ n.locked = Tail(q.locked)
  <1>1. Tail(q.locked) \in Seq(Resources)
    BY TailType DEF RequestStates, Whole
  <1>2. ASSUME NEW l \in Seq(Resources)
        PROVE  /\ [q EXCEPT !.locked = l] \in RequestStates
               /\ [q EXCEPT !.locked = l].locked = l
               /\ [q EXCEPT !.locked = l].agv = q.agv
               /\ [q EXCEPT !.locked = l].task = q.task
    BY DEF RequestStates
  <1> DEFINE p == [q EXCEPT !.locked = Tail(@)]
  <1>3. p \in RequestStates /\ p.locked = Tail(q.locked) /\ p.agv = q.agv /\ p.task = q.task
    BY <1>1, <1>2, Zenon
  <1>4. q.agv \in Agvs /\ q.task = NoTask
    BY DEF Whole
  <1> HIDE DEF p
  <1>5. /\ AfterRefusal(p) \in RequestStates /\ Whole(AfterRefusal(p))
        /\ AfterRefusal(p).task = NoTask
        /\ IF p.locked = <<>> THEN AfterRefusal(p).pc = "idle"
           ELSE /\ AfterRefusal(p).pc = "undo" /\ AfterRefusal(p).agv = p.agv
                /\ AfterRefusal(p).locked = p.locked
    BY <1>3, <1>4, RefusedWhole
  <1>6. QED
    BY <1>3, <1>5 DEF p

LEMMA SentWhole ==
    ASSUME NEW q \in RequestStates, Whole(q), q.pc = "send"
    PROVE  LET n == [q EXCEPT !.pc = "assign"]
           IN  /\ n \in RequestStates /\ Whole(n)
               /\ n.pc = "assign" /\ n.agv = q.agv /\ n.task = q.task /\ n.locked = q.locked
  BY DEF RequestStates, Whole

\* A request becomes q.
LEMMA RequestBecomes ==
    ASSUME Typed, NEW h \in Threads, NEW q \in RequestStates, Whole(q), req' = [req EXCEPT ![h] = q]
    PROVE  /\ req' \in [Threads -> RequestStates] /\ Requests'
           /\ req'[h] = q /\ \A k \in Threads : k # h => req'[k] = req[k]
  <1>1. /\ req' \in [Threads -> RequestStates]
        /\ req'[h] = q /\ \A k \in Threads : k # h => req'[k] = req[k]
    BY DEF Typed, TypeOK
  <1>2. \A k \in Threads : Whole(req'[k])
    BY <1>1 DEF Typed, Requests
  <1>3. QED
    BY <1>1, <1>2 DEF Requests

Others(h) == \A k \in Threads : k # h => req'[k] = req[k]

LEMMA RequestEffect ==
    ASSUME Typed, NEW h \in Threads, NEW a \in Agvs, NEW path \in Paths, Request(h, a, path)
    PROVE  /\ Typed' /\ Others(h)
           /\ req'[h].pc = "lock" /\ req'[h].agv = a /\ req'[h].task = NoTask /\ req'[h].locked = <<>>
  <1> DEFINE q == [NoRequest EXCEPT !.pc = "lock", !.agv = a, !.todo = path]
  <1>1. /\ q \in RequestStates /\ Whole(q)
        /\ q.pc = "lock" /\ q.agv = a /\ q.task = NoTask /\ q.locked = <<>>
    BY RequestWhole
  <1>2. req' = [req EXCEPT ![h] = q]
    BY DEF Request
  <1> HIDE DEF q
  <1>3. req' \in [Threads -> RequestStates] /\ Requests' /\ req'[h] = q /\ Others(h)
    BY <1>1, <1>2, RequestBecomes DEF Others
  <1>4. Typed'
    BY <1>3 DEF Request, dispatcher, agv, Typed, TypeOK, Handling, NoMessage
  <1>5. QED
    BY <1>1, <1>3, <1>4

LEMMA LockNextEffect ==
    ASSUME Typed, NEW h \in Threads, LockNext(h)
    PROVE  /\ Typed' /\ Others(h)
           /\ req[h].task = NoTask
           /\ Head(req[h].todo) \in Resources /\ req[h].agv \in Agvs
           /\ req'[h].agv = req[h].agv
           /\ req'[h].locked = Append(req[h].locked, Head(req[h].todo))
           /\ req[h].locked \in Seq(Resources)
           /\ \/ req'[h].pc = "lock" /\ req'[h].task = NoTask /\ lockList' = lockList
              \/ \E t \in TaskIds : /\ NewTask(t) /\ req'[h].pc = "send" /\ req'[h].task = t
                                    /\ lockList' = [lockList EXCEPT ![t] = Locked(req[h])']
  <1> DEFINE q == req[h]
             next == [q EXCEPT !.todo = Tail(@), !.locked = Append(@, Head(q.todo))]
             sent(t) == [next EXCEPT !.pc = "send", !.task = t]
  <1>1. q \in RequestStates /\ Whole(q) /\ q.pc = "lock"
    BY DEF Typed, TypeOK, Requests, LockNext
  <1>2. /\ next \in RequestStates
        /\ next.todo # <<>> => Whole(next)
        /\ next.pc = "lock" /\ next.agv = q.agv /\ next.task = q.task
        /\ next.locked = Append(q.locked, Head(q.todo)) /\ next.locked \in Seq(Resources)
        /\ \A t \in TaskIds : /\ sent(t) \in RequestStates /\ Whole(sent(t))
                              /\ sent(t).pc = "send" /\ sent(t).agv = q.agv /\ sent(t).task = t
                              /\ sent(t).locked = next.locked
        /\ {next.locked[i] : i \in DOMAIN next.locked} \in SUBSET Resources
    BY <1>1, LockedWhole
  <1>3. /\ Head(q.todo) \in Resources /\ q.agv \in Agvs /\ q.task = NoTask
        /\ q.locked \in Seq(Resources)
    BY <1>1, TailType DEF Whole, RequestStates
  <1>4. \/ /\ next.todo # <<>>
           /\ req' = [req EXCEPT ![h] = next] /\ lockList' = lockList
        \/ \E t \in TaskIds :
              /\ NewTask(t)
              /\ req' = [req EXCEPT ![h] = sent(t)]
              /\ lockList' = [lockList EXCEPT ![t] = {next.locked[i] : i \in DOMAIN next.locked}]
    BY DEF LockNext
  <1>5. user' \in [Resources -> Agvs \cup {NoAgv}]
    BY <1>3 DEF LockNext, Table!Grant, Typed, TypeOK
  <1> HIDE DEF next, sent
  <1>6. CASE req' = [req EXCEPT ![h] = next] /\ lockList' = lockList /\ next.todo # <<>>
    <2>1. req' \in [Threads -> RequestStates] /\ Requests' /\ req'[h] = next /\ Others(h)
      BY <1>2, <1>6, RequestBecomes DEF Others
    <2>2. Typed'
      BY <1>5, <1>6, <2>1 DEF LockNext, agv, Typed, TypeOK, Handling, NoMessage
    <2>3. QED
      BY <1>2, <1>3, <1>6, <2>1, <2>2
  <1>7. ASSUME NEW t \in TaskIds, NewTask(t), req' = [req EXCEPT ![h] = sent(t)],
               lockList' = [lockList EXCEPT ![t] = {next.locked[i] : i \in DOMAIN next.locked}]
        PROVE  /\ Typed' /\ Others(h)
               /\ req'[h].agv = req[h].agv
               /\ req'[h].locked = Append(req[h].locked, Head(req[h].todo))
               /\ NewTask(t) /\ req'[h].pc = "send" /\ req'[h].task = t
               /\ lockList' = [lockList EXCEPT ![t] = Locked(req[h])']
    <2>1. req' \in [Threads -> RequestStates] /\ Requests' /\ req'[h] = sent(t) /\ Others(h)
      BY <1>2, <1>7, RequestBecomes DEF Others
    <2>2. lockList' \in [TaskIds -> SUBSET Resources]
      BY <1>2, <1>7 DEF Typed, TypeOK
    <2>3. Typed'
      BY <1>5, <2>1, <2>2 DEF LockNext, agv, Typed, TypeOK, Handling, NoMessage
    <2>4. req'[h].locked = next.locked
      BY <1>2, <2>1
    <2>5. Locked(req[h])' = {next.locked[i] : i \in DOMAIN next.locked}
      BY <2>4 DEF Locked
    <2>6. QED
      BY <1>2, <1>7, <2>1, <2>3, <2>4, <2>5
  <1>8. QED
    BY <1>3, <1>4, <1>6, <1>7

LEMMA LockRefusedEffect ==
    ASSUME Typed, NEW h \in Threads, LockRefused(h)
    PROVE  /\ Typed' /\ Others(h) /\ req[h].pc = "lock" /\ req'[h].task = NoTask
           /\ IF req[h].locked = <<>> THEN req'[h].pc = "idle"
              ELSE req'[h].pc = "undo" /\ req'[h].agv = req[h].agv /\ req'[h].locked = req[h].locked
  <1> DEFINE q == AfterRefusal(req[h])
  <1>1. req[h] \in RequestStates /\ Whole(req[h]) /\ req[h].pc = "lock"
    BY DEF Typed, TypeOK, Requests, LockRefused
  <1>2. req[h].agv \in Agvs /\ req[h].task = NoTask
    BY <1>1 DEF Whole
  <1>3. /\ q \in RequestStates /\ Whole(q) /\ q.task = NoTask
        /\ IF req[h].locked = <<>> THEN q.pc = "idle"
           ELSE q.pc = "undo" /\ q.agv = req[h].agv /\ q.locked = req[h].locked
    BY <1>1, <1>2, RefusedWhole
  <1>4. req' = [req EXCEPT ![h] = q]
    BY DEF LockRefused
  <1> HIDE DEF q
  <1>5. req' \in [Threads -> RequestStates] /\ Requests' /\ req'[h] = q /\ Others(h)
    BY <1>3, <1>4, RequestBecomes DEF Others
  <1>6. Typed'
    BY <1>5 DEF LockRefused, dispatcher, agv, Typed, TypeOK, Handling, NoMessage
  <1>7. QED
    BY <1>1, <1>3, <1>5, <1>6

LEMMA LockUndoEffect ==
    ASSUME Typed, NEW h \in Threads, LockUndo(h)
    PROVE  /\ Typed' /\ Others(h) /\ req[h].pc = "undo" /\ req'[h].task = NoTask
           /\ req[h].agv \in Agvs /\ req[h].locked \in Seq(Resources) /\ req[h].locked # <<>>
           /\ IF Tail(req[h].locked) = <<>> THEN req'[h].pc = "idle"
              ELSE req'[h].pc = "undo" /\ req'[h].agv = req[h].agv
                   /\ req'[h].locked = Tail(req[h].locked)
  <1> DEFINE q == AfterRefusal([req[h] EXCEPT !.locked = Tail(@)])
  <1>1. req[h] \in RequestStates /\ Whole(req[h]) /\ req[h].pc = "undo"
    BY DEF Typed, TypeOK, Requests, LockUndo
  <1>2. req[h].agv \in Agvs /\ req[h].locked \in Seq(Resources) /\ req[h].locked # <<>>
    BY <1>1 DEF Whole, RequestStates
  <1>3. /\ q \in RequestStates /\ Whole(q) /\ q.task = NoTask
        /\ IF Tail(req[h].locked) = <<>> THEN q.pc = "idle"
           ELSE q.pc = "undo" /\ q.agv = req[h].agv /\ q.locked = Tail(req[h].locked)
    BY <1>1, UndoneWhole
  <1>4. req' = [req EXCEPT ![h] = q]
    BY DEF LockUndo
  <1>5. user' \in [Resources -> Agvs \cup {NoAgv}]
    BY DEF LockUndo, Table!GiveBack, Typed, TypeOK
  <1> HIDE DEF q
  <1>6. req' \in [Threads -> RequestStates] /\ Requests' /\ req'[h] = q /\ Others(h)
    BY <1>3, <1>4, RequestBecomes DEF Others
  <1>7. Typed'
    BY <1>5, <1>6 DEF LockUndo, agv, Typed, TypeOK, Handling, NoMessage
  <1>8. QED
    BY <1>1, <1>2, <1>3, <1>6, <1>7

LEMMA SendEffect ==
    ASSUME Typed, NEW h \in Threads, Send(h)
    PROVE  /\ Typed' /\ Others(h)
           /\ req[h].pc = "send" /\ req[h].agv \in Agvs /\ req[h].task \in TaskIds
           /\ req'[h].pc = "assign" /\ req'[h].agv = req[h].agv
           /\ req'[h].task = req[h].task /\ req'[h].locked = req[h].locked
  <1> DEFINE q == [req[h] EXCEPT !.pc = "assign"]
  <1>1. req[h] \in RequestStates /\ Whole(req[h]) /\ req[h].pc = "send"
    BY DEF Typed, TypeOK, Requests, Send
  <1>2. req[h].agv \in Agvs /\ req[h].task \in TaskIds
    BY <1>1 DEF Whole, RequestStates
  <1>3. /\ q \in RequestStates /\ Whole(q)
        /\ q.pc = "assign" /\ q.agv = req[h].agv /\ q.task = req[h].task /\ q.locked = req[h].locked
    BY <1>1, SentWhole
  <1>4. req' = [req EXCEPT ![h] = q]
    BY DEF Send
  <1>5. orders' \in [Agvs -> Seq(TaskIds)]
    <2>1. orders[req[h].agv] \in Seq(TaskIds)
      BY <1>2 DEF Typed, TypeOK
    <2>2. Append(orders[req[h].agv], req[h].task) \in Seq(TaskIds)
      BY <1>2, <2>1
    <2>3. QED
      BY <1>2, <2>2 DEF Send, Typed, TypeOK
  <1> HIDE DEF q
  <1>6. req' \in [Threads -> RequestStates] /\ Requests' /\ req'[h] = q /\ Others(h)
    BY <1>3, <1>4, RequestBecomes DEF Others
  <1>7. Typed'
    BY <1>5, <1>6 DEF Send, dispatcher, agv, Typed, TypeOK, Handling, NoMessage
  <1>8. QED
    BY <1>1, <1>2, <1>3, <1>6, <1>7

\* The end of a request.
LEMMA RequestDone ==
    ASSUME Typed, NEW h \in Threads, req' = [req EXCEPT ![h] = NoRequest]
    PROVE  /\ req' \in [Threads -> RequestStates] /\ Requests'
           /\ req'[h] = NoRequest /\ Others(h)
           /\ req'[h].pc = "idle" /\ req'[h].agv = NoAgv /\ req'[h].task = NoTask /\ req'[h].locked = <<>>
  <1>1. req' \in [Threads -> RequestStates] /\ Requests' /\ req'[h] = NoRequest /\ Others(h)
    BY NoRequestWhole, RequestBecomes DEF Others
  <1>2. QED
    BY <1>1 DEF NoRequest

LEMMA SendThrowsEffect ==
    ASSUME Typed, NEW h \in Threads, SendThrows(h)
    PROVE  /\ Typed' /\ Others(h)
           /\ req'[h].pc = "idle" /\ req'[h].agv = NoAgv /\ req'[h].task = NoTask /\ req'[h].locked = <<>>
  <1>1. req' = [req EXCEPT ![h] = NoRequest]
    BY DEF SendThrows
  <1>2. Typed'
    BY <1>1, RequestDone DEF SendThrows, dispatcher, agv, Typed, TypeOK, Handling, NoMessage
  <1>3. QED
    BY <1>1, <1>2, RequestDone

LEMMA StoreTaskEffect ==
    ASSUME Typed, NEW h \in Threads, StoreTask(h)
    PROVE  /\ Typed' /\ Others(h)
           /\ req[h].pc = "assign" /\ req[h].agv \in Agvs /\ req[h].task \in TaskIds
           /\ req'[h].pc = "current" /\ req'[h].agv = req[h].agv
           /\ req'[h].task = req[h].task /\ req'[h].locked = req[h].locked
           /\ status' = [status EXCEPT ![req[h].task] = "WAITING"]
  <1> DEFINE q == [req[h] EXCEPT !.pc = "current"]
  <1>1. req[h] \in RequestStates /\ Whole(req[h]) /\ req[h].pc = "assign"
    BY DEF Typed, TypeOK, Requests, StoreTask
  <1>2. req[h].agv \in Agvs /\ req[h].task \in TaskIds
    BY <1>1 DEF Whole, RequestStates
  <1>3. /\ q \in RequestStates /\ Whole(q)
        /\ q.pc = "current" /\ q.agv = req[h].agv /\ q.task = req[h].task /\ q.locked = req[h].locked
    BY <1>1 DEF RequestStates, Whole
  <1>4. req' = [req EXCEPT ![h] = q]
    BY DEF StoreTask
  <1>5. status' \in [TaskIds -> TaskStatuses \cup {"none"}]
    BY DEF StoreTask, Typed, TypeOK, TaskStatuses
  <1> HIDE DEF q
  <1>6. req' \in [Threads -> RequestStates] /\ Requests' /\ req'[h] = q /\ Others(h)
    BY <1>3, <1>4, RequestBecomes DEF Others
  <1>7. Typed'
    BY <1>5, <1>6 DEF StoreTask, agv, Typed, TypeOK, Handling, NoMessage
  <1>8. QED
    BY <1>1, <1>2, <1>3, <1>6, <1>7 DEF StoreTask

LEMMA AssignEffect ==
    ASSUME Typed, NEW h \in Threads, Assign(h)
    PROVE  /\ Typed' /\ Others(h)
           /\ req[h].agv \in Agvs /\ req[h].task \in TaskIds
           /\ req'[h].pc = "idle" /\ req'[h].agv = NoAgv /\ req'[h].task = NoTask /\ req'[h].locked = <<>>
  <1>1. req' = [req EXCEPT ![h] = NoRequest]
    BY DEF Assign
  <1>2. req[h].agv \in Agvs /\ req[h].task \in TaskIds
    BY DEF Assign, Typed, TypeOK, Requests, Whole, RequestStates
  <1>3. agvCurrentTask' \in [Agvs -> TaskIds \cup {NoTask}]
    BY <1>2 DEF Assign, Typed, TypeOK
  <1>4. Typed'
    BY <1>1, <1>3, RequestDone DEF Assign, agv, Typed, TypeOK, Handling, NoMessage
  <1>5. QED
    BY <1>1, <1>2, <1>4, RequestDone

LEMMA TodosTail ==
    ASSUME NEW s \in Todos
    PROVE  /\ s \in Seq({"finish", "fail", "cancel", "release"})
           /\ Tail(s) = <<>> \/ Tail(s) \in Todos
  <1>1. CASE s = <<"finish", "release">>
    BY <1>1 DEF Todos
  <1>2. CASE s = <<"fail", "release">>
    BY <1>2 DEF Todos
  <1>3. CASE s = <<"release">>
    BY <1>3
  <1>4. CASE s = <<"release", "finish">>
    BY <1>4 DEF Todos
  <1>5. CASE s = <<"finish">>
    BY <1>5
  <1>6. CASE s = <<"release", "fail", "release", "finish">>
    BY <1>6 DEF Todos
  <1>7. CASE s = <<"fail", "release", "finish">>
    BY <1>7 DEF Todos
  <1>8. CASE s = <<"release", "cancel", "release", "finish">>
    BY <1>8 DEF Todos
  <1>9. CASE s = <<"cancel", "release", "finish">>
    BY <1>9 DEF Todos
  <1>10. QED
    BY <1>1, <1>2, <1>3, <1>4, <1>5, <1>6, <1>7, <1>8, <1>9 DEF Todos

\* What the handlers do leaves the requests alone.
LEMMA NextStepHandles ==
    ASSUME Handling, mqtt.todo # <<>>, mqtt' = NextStep, TypeOK
    PROVE  /\ mqtt.agv \in Agvs /\ Handling'
           /\ mqtt' \in [agv : Agvs \cup {NoAgv}, task : TaskIds \cup {NoTask},
                         todo : Seq({"finish", "fail", "cancel", "release"})]
           /\ mqtt'.task = NoTask
           /\ IF Tail(mqtt.todo) = <<>> THEN mqtt' = NoMessage
              ELSE mqtt'.agv = mqtt.agv /\ mqtt'.todo = Tail(mqtt.todo)
  <1>1. mqtt.agv \in Agvs /\ mqtt.todo \in Todos
    BY DEF Handling, NoMessage
  <1>2. Tail(mqtt.todo) = <<>> \/ Tail(mqtt.todo) \in Todos
    BY <1>1, TodosTail
  <1>3. Tail(mqtt.todo) \in Seq({"finish", "fail", "cancel", "release"})
    BY TailType DEF TypeOK
  <1>4. CASE Tail(mqtt.todo) = <<>>
    BY <1>1, <1>4 DEF NextStep, Handling, NoMessage
  <1>5. CASE Tail(mqtt.todo) # <<>>
    <2>1. mqtt' = [mqtt EXCEPT !.todo = Tail(@), !.task = NoTask]
      BY <1>5 DEF NextStep
    <2>2. /\ mqtt' \in [agv : Agvs \cup {NoAgv}, task : TaskIds \cup {NoTask},
                         todo : Seq({"finish", "fail", "cancel", "release"})]
          /\ mqtt'.agv = mqtt.agv /\ mqtt'.todo = Tail(mqtt.todo) /\ mqtt'.task = NoTask
      BY <1>3, <2>1 DEF TypeOK
    <2>3. QED
      BY <1>1, <1>2, <1>5, <2>2 DEF Handling
  <1>6. QED
    BY <1>4, <1>5

\* An AGV that has no task is left alone, the task of another one is taken.
LEMMA FreeAgvEffect ==
    ASSUME Typed, FreeAgv
    PROVE  /\ Typed' /\ mqtt.agv \in Agvs /\ mqtt.todo \in Todos /\ mqtt.task = NoTask
           /\ Head(mqtt.todo) # "release"
           /\ agvCurrentTask' = [agvCurrentTask EXCEPT ![mqtt.agv] = NoTask]
           /\ IF agvCurrentTask[mqtt.agv] = NoTask
              THEN /\ mqtt'.task = NoTask
                   /\ IF Tail(mqtt.todo) = <<>> THEN mqtt' = NoMessage
                      ELSE mqtt'.agv = mqtt.agv /\ mqtt'.todo = Tail(mqtt.todo)
              ELSE /\ mqtt'.task = agvCurrentTask[mqtt.agv]
                   /\ mqtt'.agv = mqtt.agv /\ mqtt'.todo = mqtt.todo
  <1> DEFINE t == agvCurrentTask[mqtt.agv]
  <1>1. /\ mqtt.agv \in Agvs /\ mqtt.todo \in Todos /\ mqtt.todo # <<>> /\ mqtt.task = NoTask
        /\ Head(mqtt.todo) # "release"
        /\ agvCurrentTask' = [agvCurrentTask EXCEPT ![mqtt.agv] = NoTask]
        /\ IF t = NoTask THEN mqtt' = NextStep ELSE mqtt' = [mqtt EXCEPT !.task = t]
    BY DEF FreeAgv, Typed, Handling, NoMessage
  <1>2. agvCurrentTask' \in [Agvs -> TaskIds \cup {NoTask}] /\ t \in TaskIds \cup {NoTask}
    BY <1>1 DEF Typed, TypeOK
  <1> DEFINE M == [agv : Agvs \cup {NoAgv}, task : TaskIds \cup {NoTask},
                   todo : Seq({"finish", "fail", "cancel", "release"})]
  <1> HIDE DEF t
  <1>3. CASE t = NoTask
    <2>1. /\ Handling' /\ mqtt' \in M /\ mqtt'.task = NoTask
          /\ IF Tail(mqtt.todo) = <<>> THEN mqtt' = NoMessage
             ELSE mqtt'.agv = mqtt.agv /\ mqtt'.todo = Tail(mqtt.todo)
      BY <1>1, <1>3, NextStepHandles DEF Typed
    <2>2. Typed'
      BY <1>2, <2>1 DEF FreeAgv, agv, Typed, TypeOK, Requests
    <2>3. QED
      BY <1>1, <1>3, <2>1, <2>2 DEF t
  <1>4. CASE t # NoTask
    <2>1. mqtt \in M
      BY DEF Typed, TypeOK
    <2>2. /\ mqtt' \in M /\ mqtt'.task = t /\ mqtt'.agv = mqtt.agv /\ mqtt'.todo = mqtt.todo
      BY <1>1, <1>2, <1>4, <2>1
    <2>3. Handling'
      BY <1>1, <2>2 DEF Handling
    <2>4. Typed'
      BY <1>2, <2>2, <2>3 DEF FreeAgv, agv, Typed, TypeOK, Requests
    <2>5. QED
      BY <1>1, <1>4, <2>2, <2>4 DEF t
  <1>5. QED
    BY <1>3, <1>4

\* The task that was taken is ended.
LEMMA EndTaskEffect ==
    ASSUME Typed, EndTask
    PROVE  /\ Typed' /\ mqtt.agv \in Agvs /\ mqtt.todo \in Todos /\ mqtt.task \in TaskIds
           /\ Head(mqtt.todo) # "release"
           /\ status' = IF status[mqtt.task] = "none" THEN status
                        ELSE [status EXCEPT ![mqtt.task] = EndStatus(Head(mqtt.todo))]
           /\ EndStatus(Head(mqtt.todo)) \in Ends
           /\ mqtt'.task = NoTask
           /\ IF Tail(mqtt.todo) = <<>> THEN mqtt' = NoMessage
              ELSE mqtt'.agv = mqtt.agv /\ mqtt'.todo = Tail(mqtt.todo)
  <1>1. /\ mqtt.agv \in Agvs /\ mqtt.todo \in Todos /\ mqtt.task \in TaskIds
        /\ Head(mqtt.todo) # "release" /\ mqtt.todo # <<>>
        /\ mqtt.todo \in Seq({"finish", "fail", "cancel", "release"})
    <2>1. mqtt.task # NoTask /\ mqtt # NoMessage
      BY DEF EndTask, NoMessage
    <2>2. <<>> \notin Todos
      BY DEF Todos
    <2>3. QED
      BY <2>1, <2>2 DEF Typed, TypeOK, Handling
  <1>2. /\ Handling' /\ mqtt'.task = NoTask
        /\ mqtt' \in [agv : Agvs \cup {NoAgv}, task : TaskIds \cup {NoTask},
                      todo : Seq({"finish", "fail", "cancel", "release"})]
        /\ IF Tail(mqtt.todo) = <<>> THEN mqtt' = NoMessage
           ELSE mqtt'.agv = mqtt.agv /\ mqtt'.todo = Tail(mqtt.todo)
    BY <1>1, NextStepHandles DEF Typed, EndTask
  <1>3. Head(mqtt.todo) \in {"finish", "fail", "cancel"}
    BY <1>1, TailType
  <1>4. EndStatus(Head(mqtt.todo)) \in Ends
    BY <1>3 DEF EndStatus, Ends
  <1>5. status' \in [TaskIds -> TaskStatuses \cup {"none"}]
    BY <1>4 DEF EndTask, Typed, TypeOK, TaskStatuses
  <1>6. Typed'
    BY <1>2, <1>5 DEF EndTask, agv, Typed, TypeOK, Requests
  <1>7. QED
    BY <1>1, <1>2, <1>4, <1>6 DEF EndTask

LEMMA ReleaseAllTyped == Typed /\ ReleaseAll => Typed'
  <1> SUFFICES ASSUME Typed, ReleaseAll PROVE Typed'
    OBVIOUS
  <1>1. /\ mqtt.agv \in Agvs /\ Handling'
        /\ mqtt' \in [agv : Agvs \cup {NoAgv}, task : TaskIds \cup {NoTask},
                      todo : Seq({"finish", "fail", "cancel", "release"})]
    BY NextStepHandles DEF Typed, ReleaseAll
  <1>2. user' \in [Resources -> Agvs \cup {NoAgv}]
    BY DEF ReleaseAll, Table!GiveBack, Typed, TypeOK
  <1>3. QED
    BY <1>1, <1>2 DEF ReleaseAll, agv, Typed, TypeOK, Requests

\* A received message.
LEMMA ReceiveEffect ==
    ASSUME Typed, NEW a \in Agvs, Receive(a)
    PROVE  /\ Typed' /\ Head(inbox[a]) \in Messages
           /\ inbox' = [inbox EXCEPT ![a] = Tail(@)]
           /\ IF Steps(Head(inbox[a])) = <<>> THEN mqtt' = NoMessage
              ELSE mqtt'.agv = a /\ mqtt'.todo = Steps(Head(inbox[a]))
           /\ mqtt'.task = NoTask
  <1> DEFINE m == Head(inbox[a])
  <1>1. inbox[a] \in Seq(Messages) /\ inbox[a] # <<>>
    BY DEF Receive, Typed, TypeOK
  <1>2. m \in Messages /\ Tail(inbox[a]) \in Seq(Messages)
    BY <1>1, TailType
  <1>3. m.state \in TaskStatuses /\ m.task \in TaskIds
    BY <1>2 DEF Messages
  <1>4. status' \in [TaskIds -> TaskStatuses \cup {"none"}]
    <2>1. \/ status' = [status EXCEPT ![m.task] = m.state]
          \/ status' = status
      BY DEF Receive
    <2> HIDE DEF m
    <2>2. QED
      BY <1>3, <2>1 DEF Typed, TypeOK
  <1>5. agvStatus' \in [Agvs -> [known : BOOLEAN, connected : BOOLEAN, state : States]]
    <2>1. ASSUME NEW o \in States PROVE StateAfter(m, o) \in States
      BY DEF StateAfter, States
    <2>2. agvStatus[a] \in [known : BOOLEAN, connected : BOOLEAN, state : States]
      BY DEF Typed, TypeOK
    <2>3. agvStatus[a].state \in States
      BY <2>2
    <2> DEFINE s == IF agvStatus[a].known THEN StateAfter(m, agvStatus[a].state) ELSE agvStatus[a].state
    <2>4. s \in States
      BY <2>1, <2>3
    <2>5. agvStatus' = [agvStatus EXCEPT ![a].state = s]
      BY DEF Receive
    <2> HIDE DEF s, m
    <2>6. QED
      BY <2>2, <2>4, <2>5 DEF Typed, TypeOK
  <1>6. inbox' \in [Agvs -> Seq(Messages)]
    BY <1>2 DEF Receive, Typed, TypeOK
  <1>7. Steps(m) = <<>> \/ Steps(m) \in Todos
    BY <1>2, StepsTodos
  <1>8. Steps(m) \in Seq({"finish", "fail", "cancel", "release"})
    <2>1. <<>> \in Seq({"finish", "fail", "cancel", "release"})
      OBVIOUS
    <2>2. QED
      BY <1>7, <2>1, TodosTail, Zenon
  <1>9. mqtt' = IF Steps(m) = <<>> THEN NoMessage ELSE [agv |-> a, task |-> NoTask, todo |-> Steps(m)]
    BY DEF Receive
  <1> HIDE DEF m
  <1>10. /\ Handling' /\ mqtt'.task = NoTask
         /\ mqtt' \in [agv : Agvs \cup {NoAgv}, task : TaskIds \cup {NoTask},
                       todo : Seq({"finish", "fail", "cancel", "release"})]
         /\ IF Steps(m) = <<>> THEN mqtt' = NoMessage ELSE mqtt'.agv = a /\ mqtt'.todo = Steps(m)
    <2>1. CASE Steps(m) = <<>>
      BY <1>9, <2>1 DEF Handling, NoMessage
    <2>2. CASE Steps(m) # <<>>
      BY <1>3, <1>7, <1>8, <1>9, <2>2 DEF Handling
    <2>3. QED
      BY <2>1, <2>2
  <1>11. Typed'
    BY <1>4, <1>5, <1>6, <1>10 DEF Receive, agv, Typed, TypeOK, Requests
  <1>12. QED
    BY <1>2, <1>10, <1>11 DEF m, Receive

LEMMA ConnectionTyped ==
    ASSUME Typed, NEW a \in Agvs, NEW online \in BOOLEAN, Connection(a, online)
    PROVE  Typed'
  <1>1. ASSUME NEW s \in [known : BOOLEAN, connected : BOOLEAN, state : States]
        PROVE  [s EXCEPT !.connected = online, !.known = TRUE]
                 \in [known : BOOLEAN, connected : BOOLEAN, state : States]
    OBVIOUS
  <1>2. agvStatus' = [agvStatus EXCEPT ![a] = [@ EXCEPT !.connected = online, !.known = TRUE]]
    BY DEF Connection, Typed, TypeOK
  <1>3. agvStatus' \in [Agvs -> [known : BOOLEAN, connected : BOOLEAN, state : States]]
    BY <1>1, <1>2 DEF Typed, TypeOK
  <1>4. QED
    BY <1>3 DEF Connection, agv, Typed, TypeOK, Requests, Handling, NoMessage

LEMMA TakeOrderTyped ==
    ASSUME Typed, NEW a \in Agvs, TakeOrder(a)
    PROVE  Typed' /\ Head(orders[a]) \in TaskIds
  <1> DEFINE m == [kind |-> "orderState", task |-> Head(orders[a]), state |-> "ACCEPTED"]
  <1>1. Head(orders[a]) \in TaskIds /\ Tail(orders[a]) \in Seq(TaskIds)
    BY TailType DEF TakeOrder, Typed, TypeOK
  <1>2. m \in Messages
    BY <1>1 DEF Messages, Kinds, TaskStatuses
  <1>3. inbox' = [inbox EXCEPT ![a] = Append(@, m)]
    BY DEF TakeOrder
  <1> HIDE DEF m
  <1>4. Append(inbox[a], m) \in Seq(Messages)
    BY <1>2 DEF Typed, TypeOK
  <1>5. QED
    BY <1>1, <1>3, <1>4 DEF TakeOrder, dispatcher, Typed, TypeOK, Requests, Handling, NoMessage

LEMMA ProgressTyped ==
    ASSUME Typed, NEW a \in Agvs, NEW s \in {"RUNNING", "PAUSED"}, Progress(a, s)
    PROVE  Typed'
  <1> DEFINE m == [kind |-> "orderState", task |-> work[a], state |-> s]
  <1>1. m \in Messages
    BY DEF Progress, Typed, TypeOK, Messages, Kinds, TaskStatuses
  <1>2. inbox' = [inbox EXCEPT ![a] = <<m>>]
    BY DEF Progress
  <1> HIDE DEF m
  <1>3. <<m>> \in Seq(Messages)
    BY <1>1
  <1>4. QED
    BY <1>2, <1>3 DEF Progress, dispatcher, agv, Typed, TypeOK, Requests, Handling, NoMessage

\* What an AGV says at the end of an order.
LEMMA EndOrderEffect ==
    ASSUME Typed, NEW a \in Agvs, NEW e \in DOMAIN Reports, EndOrder(a, e)
    PROVE  /\ Typed' /\ work[a] \in TaskIds
           /\ \E rep \in Reports[e], said \in Seq(Messages) :
                /\ inbox' = [inbox EXCEPT ![a] = @ \o said]
                /\ DOMAIN said = DOMAIN rep
                /\ \A i \in DOMAIN said : /\ said[i].task = work[a]
                                          /\ said[i].kind = rep[i].kind /\ said[i].state = rep[i].state
                /\ ReportsEnd => \A i \in DOMAIN said : said[i].state \in Ends
  <1>1. PICK rep \in Reports[e] :
          inbox' = [inbox EXCEPT ![a] = @ \o [i \in DOMAIN rep |->
                      [kind |-> rep[i].kind, task |-> work[a], state |-> rep[i].state]]]
    BY DEF EndOrder
  <1>2. e \in Ends /\ rep \in Seq([kind : Kinds, state : TaskStatuses])
    BY ReportsAssumption
  <1>3. work[a] \in TaskIds
    BY DEF EndOrder, Typed, TypeOK
  <1> DEFINE said == [i \in DOMAIN rep |->
                        [kind |-> rep[i].kind, task |-> work[a], state |-> rep[i].state]]
  <1>4. DOMAIN rep = 1..Len(rep) /\ Len(rep) \in Nat
    BY <1>2
  <1>5. \A i \in DOMAIN rep : rep[i] \in [kind : Kinds, state : TaskStatuses]
    BY <1>2, <1>4, ElementOfSeq, Zenon
  <1>6. \A i \in DOMAIN rep : /\ said[i] \in Messages /\ said[i].task = work[a]
                              /\ said[i].kind = rep[i].kind /\ said[i].state = rep[i].state
    BY <1>3, <1>5 DEF Messages
  <1>7. said \in [1..Len(rep) -> Messages]
    BY <1>4, <1>6
  <1>8. DOMAIN said = DOMAIN rep
    OBVIOUS
  <1>9. inbox' = [inbox EXCEPT ![a] = @ \o said]
    BY <1>1
  <1> HIDE DEF said
  <1>10. said \in Seq(Messages)
    BY <1>4, <1>7
  <1>11. inbox[a] \o said \in Seq(Messages)
    BY <1>10, ConcatProperties DEF Typed, TypeOK
  <1>12. Typed'
    BY <1>2, <1>3, <1>9, <1>11 DEF EndOrder, dispatcher, Typed, TypeOK, Requests, Handling, NoMessage
  <1>13. ReportsEnd => \A i \in DOMAIN said : said[i].state \in Ends
    BY <1>6, <1>8 DEF ReportsEnd
  <1>14. QED
    BY <1>3, <1>6, <1>8, <1>9, <1>10, <1>12, <1>13

LEMMA LoseReportTyped ==
    ASSUME Typed, NEW a \in Agvs, LoseReport(a)
    PROVE  Typed' /\ inbox' = [inbox EXCEPT ![a] = Tail(@)]
  <1>1. Tail(inbox[a]) \in Seq(Messages)
    BY TailType DEF LoseReport, Typed, TypeOK
  <1>2. QED
    BY <1>1 DEF LoseReport, dispatcher, agv, Typed, TypeOK, Requests, Handling, NoMessage

LEMMA InitTyped == Init => Typed
  <1> SUFFICES ASSUME Init PROVE Typed
    OBVIOUS
  <1>1. Requests /\ req \in [Threads -> RequestStates]
    BY NoRequestWhole DEF Init, Requests
  <1>2. QED
    BY <1>1 DEF Init, Typed, TypeOK, Handling, NoMessage, States

LEMMA StepTyped == Typed /\ [Next]_vars => Typed'
  <1> SUFFICES ASSUME Typed, [Next]_vars PROVE Typed'
    OBVIOUS
  <1>1. CASE UNCHANGED vars
    BY <1>1 DEF vars, dispatcher, agv, Typed, TypeOK, Requests, Handling, NoMessage
  <1>2. ASSUME NEW h \in Threads, NEW a \in Agvs, NEW path \in Paths, Request(h, a, path)
        PROVE  Typed'
    BY <1>2, RequestEffect
  <1>3. ASSUME NEW h \in Threads, RequestStep(h) PROVE Typed'
    BY <1>3, LockNextEffect, LockRefusedEffect, LockUndoEffect, SendEffect, SendThrowsEffect,
          StoreTaskEffect, AssignEffect
       DEF RequestStep
  <1>4. CASE HandlerStep
    BY <1>4, ReceiveEffect, FreeAgvEffect, EndTaskEffect, ReleaseAllTyped DEF HandlerStep
  <1>5. ASSUME NEW a \in Agvs, NEW online \in BOOLEAN, Connection(a, online) PROVE Typed'
    BY <1>5, ConnectionTyped
  <1>6. ASSUME NEW a \in Agvs, AgvStep(a) PROVE Typed'
    BY <1>6, TakeOrderTyped, ProgressTyped, EndOrderEffect, LoseReportTyped DEF AgvStep
  <1>7. QED
    BY <1>1, <1>2, <1>3, <1>4, <1>5, <1>6 DEF Next

\* Every variable of the dispatcher and of its AGVs keeps its type.
THEOREM TypeCorrect == Spec => []TypeOK
  <1>1. Typed => TypeOK
    BY DEF Typed
  <1>2. QED
    BY <1>1, InitTyped, StepTyped, PTL DEF Spec

-----------------------------------------------------------------------------
(* The cycle of a task: requested, assigned, executed, ended *)

\* Everything but the requests, the locks and the lists of locks.
Rest == <<status, agvCurrentTask, mqtt, orders, inbox, work>>

LEMMA InitCycle == Init => Cycle
  BY DEF Init, Cycle, Apart, ServedRests, TasksStored, OrderWaits, WorksOnCurrent, NoRequest, NoMessage

\* A request goes on or ends.
LEMMA ServedStill ==
    ASSUME ServedRests, NEW h \in Threads, Others(h),
           UNCHANGED <<agvCurrentTask, mqtt, orders, inbox, work>>,
           req'[h].pc # "idle" =>
               /\ req[h].pc # "idle" /\ req'[h].agv = req[h].agv
               /\ req[h].pc \in {"assign", "current"} =>
                     req'[h].pc \in {"assign", "current"} /\ req'[h].task = req[h].task
    PROVE  ServedRests'
  <1> DEFINE Rests(k, b) ==
               /\ agvCurrentTask[b] = NoTask /\ work[b] = NoTask /\ inbox[b] = <<>> /\ mqtt.agv # b
               /\ orders[b] # <<>> => req[k].pc \in {"assign", "current"} /\ orders[b] = <<req[k].task>>
  <1>1. ASSUME NEW k \in Threads, k # h, req'[k].pc # "idle" PROVE Rests(k, req[k].agv)'
    <2>1. req'[k] = req[k]
      BY <1>1 DEF Others
    <2>2. Rests(k, req[k].agv)
      BY <1>1, <2>1 DEF ServedRests
    <2>3. QED
      BY <2>1, <2>2
  <1>2. ASSUME req'[h].pc # "idle" PROVE Rests(h, req[h].agv)'
    <2>1. Rests(h, req[h].agv)
      BY <1>2 DEF ServedRests
    <2>2. QED
      BY <1>2, <2>1
  <1>3. QED
    BY <1>1, <1>2 DEF ServedRests

LEMMA RequestCycle ==
    ASSUME Orderly, Typed, Cycle, NEW h \in Threads, NEW a \in Agvs, NEW path \in Paths,
           Request(h, a, path)
    PROVE  Cycle'
  <1>1. /\ Typed' /\ Others(h)
        /\ req'[h].pc = "lock" /\ req'[h].agv = a /\ req'[h].task = NoTask
    BY RequestEffect
  <1>2. /\ \A k \in Threads : req[k].agv # a
        /\ inbox[a] = <<>> /\ mqtt.agv # a /\ agvCurrentTask[a] = NoTask
    BY DEF Orderly, Request, MayRequest, Serving
  <1>3. UNCHANGED Rest
    BY DEF Rest, Request, dispatcher, agv
  <1>4. work[a] = NoTask /\ orders[a] = <<>>
    BY <1>2 DEF Cycle, WorksOnCurrent, OrderWaits
  <1>5. Apart'
    BY <1>1, <1>2 DEF Others, Cycle, Apart
  <1>6. ServedRests'
    BY <1>1, <1>2, <1>3, <1>4 DEF Others, Rest, Cycle, ServedRests
  <1>7. TasksStored'
    BY <1>1, <1>3 DEF Others, Rest, Cycle, TasksStored
  <1>8. OrderWaits'
    <2>1. req[h].pc = "idle"
      BY DEF Request
    <2>2. QED
      BY <1>1, <1>3, <2>1 DEF Others, Rest, Cycle, OrderWaits
  <1>9. WorksOnCurrent'
    BY <1>3 DEF Rest, Cycle, WorksOnCurrent
  <1>10. QED
    BY <1>5, <1>6, <1>7, <1>8, <1>9 DEF Cycle

LEMMA LockNextCycle ==
    ASSUME Typed, Cycle, NEW h \in Threads, LockNext(h)
    PROVE  Cycle'
  <1>1. /\ Others(h) /\ req[h].pc = "lock" /\ req'[h].agv = req[h].agv
        /\ \/ req'[h].pc = "lock" /\ req'[h].task = NoTask
           \/ \E t \in TaskIds : NewTask(t) /\ req'[h].pc = "send" /\ req'[h].task = t
    BY LockNextEffect DEF LockNext
  <1>2. UNCHANGED Rest
    BY DEF Rest, LockNext, agv
  <1>3. Apart'
    BY <1>1 DEF Others, NewTask, Cycle, Apart
  <1>4. ServedRests'
    BY <1>1, <1>2 DEF Others, Rest, Cycle, ServedRests
  <1>5. TasksStored'
    BY <1>1, <1>2 DEF Others, NewTask, Rest, Cycle, TasksStored
  <1>6. OrderWaits'
    BY <1>1, <1>2 DEF Others, Rest, Cycle, OrderWaits
  <1>7. WorksOnCurrent'
    BY <1>2 DEF Rest, Cycle, WorksOnCurrent
  <1>8. QED
    BY <1>3, <1>4, <1>5, <1>6, <1>7 DEF Cycle

\* A refused request goes back or ends.
LEMMA RefusalCycle ==
    ASSUME Typed, Cycle, NEW h \in Threads, LockRefused(h) \/ LockUndo(h) \/ SendThrows(h)
    PROVE  Cycle'
  <1>1. /\ Others(h) /\ req[h].pc \in {"lock", "undo", "send"} /\ req'[h].task = NoTask
        /\ \/ req'[h].pc = "idle"
           \/ req'[h].pc = "undo" /\ req'[h].agv = req[h].agv
    <2>1. CASE LockRefused(h)
      BY <2>1, LockRefusedEffect
    <2>2. CASE LockUndo(h)
      BY <2>2, LockUndoEffect
    <2>3. CASE SendThrows(h)
      BY <2>3, SendThrowsEffect DEF SendThrows
    <2>4. QED
      BY <2>1, <2>2, <2>3
  <1>2. UNCHANGED Rest
    BY DEF Rest, LockRefused, LockUndo, SendThrows, dispatcher, agv
  <1>3. Apart'
    <2>1. Typed'
      BY LockRefusedEffect, LockUndoEffect, SendThrowsEffect
    <2>2. /\ req[h].agv \in Agvs
          /\ \A k \in Threads : req'[k].pc = "idle" => req'[k].agv = NoAgv /\ req'[k].task = NoTask
          /\ \A k \in Threads : req'[k].pc # "idle" => req'[k].agv \in Agvs
      BY <1>1, <2>1 DEF Typed, Requests, Whole, NoRequest
    <2>3. QED
      BY <1>1, <2>2 DEF Others, Cycle, Apart
  <1>4. ServedRests'
    BY <1>1, <1>2, ServedStill DEF Rest, Cycle
  <1>5. TasksStored'
    BY <1>1, <1>2 DEF Others, Rest, Cycle, TasksStored
  <1>6. OrderWaits'
    BY <1>1, <1>2 DEF Others, Rest, Cycle, OrderWaits
  <1>7. WorksOnCurrent'
    BY <1>2 DEF Rest, Cycle, WorksOnCurrent
  <1>8. QED
    BY <1>3, <1>4, <1>5, <1>6, <1>7 DEF Cycle

LEMMA SendCycle ==
    ASSUME Typed, Cycle, NEW h \in Threads, Send(h)
    PROVE  Cycle'
  <1> DEFINE a == req[h].agv
             t == req[h].task
  <1>1. /\ Others(h) /\ req[h].pc = "send" /\ a \in Agvs /\ t \in TaskIds
        /\ req'[h].pc = "assign" /\ req'[h].agv = a /\ req'[h].task = t
    BY SendEffect
  <1>2. UNCHANGED <<status, agvCurrentTask, mqtt, inbox, work>>
    BY DEF Send, dispatcher, agv
  <1>3. orders[a] = <<>>
    BY <1>1 DEF Cycle, ServedRests
  <1>4. /\ orders'[a] \in {<<>>, <<t>>}
        /\ \A b \in Agvs : b # a => orders'[b] = orders[b]
    <2>1. orders' = [orders EXCEPT ![a] = Append(@, t)] \/ orders' = orders
      BY DEF Send
    <2>2. Append(<<>>, t) = <<t>>
      OBVIOUS
    <2>3. orders \in [Agvs -> Seq(TaskIds)]
      BY DEF Typed, TypeOK
    <2> HIDE DEF a, t
    <2>4. QED
      BY <1>1, <1>3, <2>1, <2>2, <2>3
  <1> HIDE DEF a, t
  <1>5. Apart'
    BY <1>1 DEF Others, Cycle, Apart, a, t
  <1>6. ServedRests'
    <2>1. ASSUME NEW k \in Threads, k # h, req[k].pc # "idle"
          PROVE  req[k].agv # a /\ req[k].agv \in Agvs
      BY <1>1, <2>1 DEF Cycle, Apart, Typed, Requests, Whole, a
    <2>2. ASSUME NEW k \in Threads, k # h, req[k].pc # "idle"
          PROVE  req'[k] = req[k] /\ orders'[req[k].agv] = orders[req[k].agv]
      BY <1>1, <1>4, <2>1, <2>2 DEF Others
    <2>3. agvCurrentTask[a] = NoTask /\ work[a] = NoTask /\ inbox[a] = <<>> /\ mqtt.agv # a
      BY <1>1 DEF Cycle, ServedRests, a
    <2>4. orders'[a] # <<>> => orders'[a] = <<t>>
      BY <1>4
    <2> DEFINE Rests(k, b) ==
                 /\ agvCurrentTask[b] = NoTask /\ work[b] = NoTask /\ inbox[b] = <<>> /\ mqtt.agv # b
                 /\ orders[b] # <<>> => req[k].pc \in {"assign", "current"} /\ orders[b] = <<req[k].task>>
    <2>5. Rests(h, req[h].agv)'
      BY <1>1, <1>2, <2>3, <2>4
    <2>6. ASSUME NEW k \in Threads, k # h, req'[k].pc # "idle" PROVE Rests(k, req[k].agv)'
      <3>1. req[k].pc # "idle"
        BY <1>1, <2>6 DEF Others
      <3>2. Rests(k, req[k].agv)
        BY <3>1 DEF Cycle, ServedRests
      <3>3. QED
        BY <1>2, <2>2, <2>6, <3>1, <3>2
    <2>7. QED
      BY <2>5, <2>6 DEF ServedRests
  <1>7. TasksStored'
    BY <1>1, <1>2 DEF Others, Cycle, TasksStored, t
  <1>8. OrderWaits'
    BY <1>1, <1>2, <1>4 DEF Others, Cycle, OrderWaits
  <1>9. WorksOnCurrent'
    <2>1. work[a] = NoTask
      BY <1>1 DEF Cycle, ServedRests, a
    <2>2. QED
      BY <1>1, <1>2, <1>4, <2>1 DEF Cycle, WorksOnCurrent
  <1>10. QED
    BY <1>5, <1>6, <1>7, <1>8, <1>9 DEF Cycle

LEMMA StoreTaskCycle ==
    ASSUME Typed, Cycle, NEW h \in Threads, StoreTask(h)
    PROVE  Cycle'
  <1> DEFINE a == req[h].agv
             t == req[h].task
  <1>1. /\ Others(h) /\ req[h].pc = "assign" /\ a \in Agvs /\ t \in TaskIds /\ t # NoTask
        /\ req'[h].pc = "current" /\ req'[h].agv = a /\ req'[h].task = t
        /\ status' = [status EXCEPT ![t] = "WAITING"]
    BY StoreTaskEffect
  <1>2. UNCHANGED <<agvCurrentTask, mqtt, orders, inbox, work>>
    BY DEF StoreTask, agv
  <1>3. \A b \in Agvs : agvCurrentTask[b] # t
    BY <1>1 DEF Cycle, TasksStored
  <1> HIDE DEF a, t
  <1>4. status'[t] = "WAITING" /\ \A u \in TaskIds : u # t => status'[u] = status[u]
    BY <1>1 DEF Typed, TypeOK
  <1>5. \A k \in Threads : k # h /\ req[k].pc # "idle" => req[k].agv # a /\ (req[k].task # NoTask => req[k].task # t)
    BY <1>1 DEF Cycle, Apart, a, t
  <1>6. /\ \A k \in Threads : /\ req[k].task \in TaskIds \cup {NoTask}
                              /\ req[k].task # NoTask => req[k].pc # "idle"
        /\ \A b \in Agvs : agvCurrentTask[b] \in TaskIds \cup {NoTask}
        /\ mqtt.task \in TaskIds \cup {NoTask}
    BY DEF Typed, TypeOK, RequestStates, Requests, Whole
  <1>7. Apart'
    BY <1>1 DEF Others, Cycle, Apart, a, t
  <1>8. ServedRests'
    BY <1>1, <1>2, ServedStill DEF Cycle, a, t
  <1>9. TasksStored'
    <2>1. ASSUME NEW k \in Threads, req'[k].task # NoTask
          PROVE  /\ status'[req'[k].task] = "none" <=> req'[k].pc # "current"
                 /\ \A b \in Agvs : agvCurrentTask'[b] # req'[k].task
                 /\ mqtt'.task # req'[k].task
      <3>1. CASE k = h
        BY <1>1, <1>2, <1>3, <1>4, <3>1 DEF Cycle, TasksStored, t
      <3>2. CASE k # h
        <4>1. req'[k] = req[k] /\ req[k].task # t /\ req[k].task \in TaskIds
          BY <1>1, <1>5, <1>6, <2>1, <3>2 DEF Others
        <4>2. status'[req[k].task] = status[req[k].task]
          BY <1>4, <4>1
        <4>3. QED
          BY <1>2, <2>1, <4>1, <4>2 DEF Cycle, TasksStored
      <3>3. QED
        BY <3>1, <3>2
    <2>2. \A u \in TaskIds : status[u] # "none" => status'[u] # "none"
      BY <1>4
    <2>3. QED
      BY <1>2, <1>6, <2>1, <2>2 DEF Cycle, TasksStored
  <1>10. OrderWaits'
    BY <1>1, <1>2 DEF Others, Cycle, OrderWaits, a, t
  <1>11. WorksOnCurrent'
    BY <1>2 DEF Cycle, WorksOnCurrent
  <1>12. QED
    BY <1>7, <1>8, <1>9, <1>10, <1>11 DEF Cycle

LEMMA AssignCycle ==
    ASSUME Typed, Cycle, NEW h \in Threads, Assign(h)
    PROVE  Cycle'
  <1> DEFINE a == req[h].agv
             t == req[h].task
  <1>1. /\ Others(h) /\ req[h].pc = "current" /\ a \in Agvs /\ t \in TaskIds /\ t # NoTask
        /\ req'[h].pc = "idle" /\ req'[h].agv = NoAgv /\ req'[h].task = NoTask
    BY AssignEffect DEF Assign
  <1>2. UNCHANGED <<status, mqtt, orders, inbox, work>>
    BY DEF Assign, agv
  <1>4. agvCurrentTask'[a] = t /\ \A b \in Agvs : b # a => agvCurrentTask'[b] = agvCurrentTask[b]
    BY <1>1 DEF Assign, Typed, TypeOK
  <1>5. /\ agvCurrentTask[a] = NoTask /\ work[a] = NoTask /\ inbox[a] = <<>> /\ mqtt.agv # a
        /\ orders[a] # <<>> => orders[a] = <<t>>
    BY <1>1 DEF Cycle, ServedRests
  <1>6. status[t] # "none" /\ mqtt.task # t /\ \A b \in Agvs : agvCurrentTask[b] # t
    BY <1>1 DEF Cycle, TasksStored
  <1> HIDE DEF a, t
  <1>7. \A k \in Threads : k # h /\ req[k].pc # "idle" =>
          req[k].agv # a /\ req[k].agv \in Agvs /\ req[k].task # t
    BY <1>1 DEF Cycle, Apart, Typed, Requests, Whole, a, t
  <1>8. \A b \in Agvs : agvCurrentTask[b] \in TaskIds \cup {NoTask}
    BY DEF Typed, TypeOK
  <1>9. \A k \in Threads : /\ req[k].task \in TaskIds \cup {NoTask}
                           /\ req[k].task # NoTask => req[k].pc # "idle"
    BY DEF Typed, TypeOK, RequestStates, Requests, Whole
  <1>10. Apart'
    BY <1>1, <1>7 DEF Others, Cycle, Apart
  <1>11. ServedRests'
    BY <1>1, <1>2, <1>4, <1>7 DEF Others, Cycle, ServedRests
  <1>12. TasksStored'
    BY <1>1, <1>2, <1>4, <1>6, <1>7, <1>8, <1>9 DEF Others, Cycle, TasksStored
  <1>13. OrderWaits'
    BY <1>1, <1>2, <1>4, <1>5 DEF Others, Cycle, OrderWaits, a
  <1>14. WorksOnCurrent'
    BY <1>1, <1>2, <1>4, <1>5 DEF Cycle, WorksOnCurrent
  <1>15. QED
    BY <1>10, <1>11, <1>12, <1>13, <1>14 DEF Cycle

\* The reports behind the first one.
LEMMA TailReports ==
    ASSUME NEW s \in Seq(Messages), s # <<>>
    PROVE  /\ 1 \in DOMAIN s /\ Head(s) = s[1]
           /\ Harmless(s) => Steps(Head(s)) = <<>> /\ Harmless(Tail(s))
  <1>1. 1 \in DOMAIN s /\ Head(s) = s[1]
    OBVIOUS
  <1>2. \A i \in DOMAIN Tail(s) : i + 1 \in DOMAIN s /\ Tail(s)[i] = s[i + 1]
    OBVIOUS
  <1>3. QED
    BY <1>1, <1>2 DEF Harmless

LEMMA ReceiveCycle ==
    ASSUME Typed, Cycle, NEW a \in Agvs, Receive(a)
    PROVE  Cycle'
  <1> DEFINE m == Head(inbox[a])
  <1>1. /\ inbox[a] \in Seq(Messages) /\ inbox[a] # <<>> /\ mqtt = NoMessage /\ mqtt.agv = NoAgv
        /\ UNCHANGED <<agvCurrentTask, req, orders, work>>
    BY DEF Receive, Typed, TypeOK, agv, NoMessage
  <1>2. /\ m \in Messages
        /\ inbox' = [inbox EXCEPT ![a] = Tail(@)]
        /\ Steps(m) = <<>> => mqtt' = NoMessage
        /\ Steps(m) # <<>> => mqtt'.agv = a
        /\ mqtt'.task = NoTask
    BY ReceiveEffect
  <1>3. \A t \in TaskIds : status[t] = "none" <=> status'[t] = "none"
    <2>1. \/ status[m.task] # "none" /\ status' = [status EXCEPT ![m.task] = m.state]
          \/ status' = status
      BY DEF Receive
    <2>2. m.state # "none"
      BY <1>2 DEF Messages, TaskStatuses, Ends
    <2> HIDE DEF m
    <2>3. QED
      BY <2>1, <2>2 DEF Typed, TypeOK
  <1> HIDE DEF m
  <1>4. /\ inbox'[a] = Tail(inbox[a]) /\ \A b \in Agvs : b # a => inbox'[b] = inbox[b]
        /\ mqtt'.agv \in {a, NoAgv}
    BY <1>2 DEF Typed, TypeOK, NoMessage
  <1>5. orders[a] = <<>> /\ \A k \in Threads : req[k].pc # "idle" => req[k].agv # a /\ req[k].agv \in Agvs
    BY <1>1 DEF Cycle, OrderWaits, ServedRests, Typed, Requests, Whole
  <1>6. Apart'
    BY <1>1 DEF Cycle, Apart
  <1>7. ServedRests'
    BY <1>1, <1>4, <1>5 DEF Cycle, ServedRests
  <1>8. TasksStored'
    <2>1. /\ \A h \in Threads : req[h].task \in TaskIds \cup {NoTask}
          /\ \A b \in Agvs : agvCurrentTask[b] \in TaskIds \cup {NoTask}
      BY DEF Typed, TypeOK, RequestStates
    <2>2. QED
      BY <1>1, <1>2, <1>3, <2>1 DEF Cycle, TasksStored
  <1>9. OrderWaits'
    BY <1>1, <1>4, <1>5 DEF Cycle, OrderWaits
  <1>10. WorksOnCurrent'
    <2>1. CASE work[a] = NoTask
      BY <1>1, <1>4, <2>1 DEF Cycle, WorksOnCurrent
    <2>2. CASE work[a] # NoTask
      <3>1. Harmless(inbox[a])
        BY <2>2 DEF Cycle, WorksOnCurrent
      <3>2. Steps(m) = <<>> /\ Harmless(inbox'[a])
        BY <1>1, <1>4, <3>1, TailReports DEF m
      <3>3. mqtt'.agv = NoAgv
        BY <1>2, <3>2 DEF NoMessage
      <3>4. QED
        BY <1>1, <1>4, <3>2, <3>3 DEF Cycle, WorksOnCurrent
    <2>3. QED
      BY <2>1, <2>2
  <1>11. QED
    BY <1>6, <1>7, <1>8, <1>9, <1>10 DEF Cycle

\* The AGV whose message is handled neither waits for an order nor executes one.
LEMMA HandledRests ==
    ASSUME Typed, Cycle, mqtt.agv \in Agvs
    PROVE  /\ orders[mqtt.agv] = <<>> /\ work[mqtt.agv] = NoTask
           /\ \A k \in Threads : req[k].pc # "idle" => req[k].agv # mqtt.agv /\ req[k].agv \in Agvs
  BY DEF Cycle, OrderWaits, WorksOnCurrent, ServedRests, Typed, Requests, Whole

LEMMA FreeAgvCycle ==
    ASSUME Typed, Cycle, FreeAgv
    PROVE  Cycle'
  <1> DEFINE a == mqtt.agv
             t == agvCurrentTask[a]
  <1>1. /\ a \in Agvs /\ mqtt'.agv \in {a, NoAgv} /\ mqtt.task = NoTask
        /\ mqtt'.task = t
    BY FreeAgvEffect DEF NoMessage
  <1>2. UNCHANGED <<status, req, orders, inbox, work>>
    BY DEF FreeAgv, agv
  <1>3. agvCurrentTask'[a] = NoTask /\ \A b \in Agvs : b # a => agvCurrentTask'[b] = agvCurrentTask[b]
    BY FreeAgvEffect DEF Typed, TypeOK
  <1>4. /\ orders[a] = <<>> /\ work[a] = NoTask
        /\ \A k \in Threads : req[k].pc # "idle" => req[k].agv # a /\ req[k].agv \in Agvs
    BY <1>1, HandledRests
  <1>5. t # NoTask => /\ status[t] # "none"
                      /\ \A h \in Threads : req[h].task # t
                      /\ \A b \in Agvs : b # a => agvCurrentTask[b] # t
    BY <1>1 DEF Cycle, TasksStored, Typed, TypeOK, RequestStates
  <1> HIDE DEF a, t
  <1>6. Apart'
    BY <1>2 DEF Cycle, Apart
  <1>7. ServedRests'
    BY <1>1, <1>2, <1>3, <1>4 DEF Cycle, ServedRests
  <1>8. TasksStored'
    BY <1>1, <1>2, <1>3, <1>5 DEF Cycle, TasksStored
  <1>9. OrderWaits'
    BY <1>1, <1>2, <1>3, <1>4 DEF Cycle, OrderWaits, a
  <1>10. WorksOnCurrent'
    BY <1>1, <1>2, <1>3, <1>4 DEF Cycle, WorksOnCurrent, a
  <1>11. QED
    BY <1>6, <1>7, <1>8, <1>9, <1>10 DEF Cycle

LEMMA EndTaskCycle ==
    ASSUME Typed, Cycle, EndTask
    PROVE  Cycle'
  <1>1. mqtt.agv \in Agvs /\ mqtt'.agv \in {mqtt.agv, NoAgv} /\ mqtt'.task = NoTask
    BY EndTaskEffect DEF NoMessage
  <1>2. UNCHANGED <<agvCurrentTask, req, orders, inbox, work>>
    BY DEF EndTask, agv
  <1>3. \A b \in Agvs : mqtt.agv # b => mqtt'.agv # b
    BY <1>1
  <1>4. \A t \in TaskIds : status[t] = "none" <=> status'[t] = "none"
    <2>1. PICK e \in Ends : status' = IF status[mqtt.task] = "none" THEN status
                                     ELSE [status EXCEPT ![mqtt.task] = e]
      BY EndTaskEffect
    <2>2. QED
      BY <2>1 DEF Typed, TypeOK, Ends
  <1>5. Apart'
    BY <1>2 DEF Cycle, Apart
  <1>6. TasksStored'
    <2>1. /\ \A h \in Threads : req[h].task \in TaskIds \cup {NoTask}
          /\ \A b \in Agvs : agvCurrentTask[b] \in TaskIds \cup {NoTask}
      BY DEF Typed, TypeOK, RequestStates
    <2>2. QED
      BY <1>1, <1>2, <1>4, <2>1 DEF Cycle, TasksStored
  <1>7. ServedRests'
    <2>1. \A k \in Threads : req[k].pc # "idle" => req[k].agv \in Agvs
      BY DEF Typed, Requests, Whole
    <2>2. QED
      BY <1>2, <1>3, <2>1 DEF Cycle, ServedRests
  <1>8. OrderWaits'
    BY <1>2, <1>3 DEF Cycle, OrderWaits
  <1>9. WorksOnCurrent'
    BY <1>2, <1>3 DEF Cycle, WorksOnCurrent
  <1>10. QED
    BY <1>5, <1>6, <1>7, <1>8, <1>9 DEF Cycle

LEMMA ReleaseAllCycle ==
    ASSUME Typed, Cycle, ReleaseAll
    PROVE  Cycle'
  <1>1. mqtt.agv \in Agvs /\ mqtt'.agv \in {mqtt.agv, NoAgv}
    BY NextStepHandles DEF Typed, ReleaseAll, NoMessage
  <1>2. UNCHANGED <<status, agvCurrentTask, req, orders, inbox, work>>
    BY DEF ReleaseAll, agv
  <1>3. \A b \in Agvs : mqtt.agv # b => mqtt'.agv # b
    BY <1>1
  <1>4. Apart' /\ TasksStored'
    <2>1. mqtt'.task = NoTask
      BY NextStepHandles DEF Typed, ReleaseAll
    <2>2. \A k \in Threads : req'[k].task # NoTask => mqtt'.task # req'[k].task
      BY <2>1
    <2>3. QED
      BY <1>2, <2>1, <2>2 DEF Cycle, Apart, TasksStored
  <1>5. ServedRests'
    <2>1. \A k \in Threads : req[k].pc # "idle" => req[k].agv \in Agvs
      BY DEF Typed, Requests, Whole
    <2>2. QED
      BY <1>2, <1>3, <2>1 DEF Cycle, ServedRests
  <1>6. OrderWaits'
    BY <1>2, <1>3 DEF Cycle, OrderWaits
  <1>7. WorksOnCurrent'
    BY <1>2, <1>3 DEF Cycle, WorksOnCurrent
  <1>8. QED
    BY <1>4, <1>5, <1>6, <1>7 DEF Cycle

LEMMA TakeOrderCycle ==
    ASSUME Orderly, Typed, Cycle, NEW a \in Agvs, TakeOrder(a)
    PROVE  /\ Cycle' /\ agvCurrentTask[a] # NoTask /\ orders[a] = <<agvCurrentTask[a]>>
           /\ work'[a] = agvCurrentTask[a] /\ \A b \in Agvs : b # a => work'[b] = work[b]
           /\ inbox[a] = <<>> /\ mqtt.agv # a /\ orders'[a] = <<>>
           /\ \A b \in Agvs : b # a => orders'[b] = orders[b]
  <1> DEFINE t == Head(orders[a])
             m == [kind |-> "orderState", task |-> t, state |-> "ACCEPTED"]
  <1>1. /\ orders[a] # <<>> /\ t \in TaskIds
        /\ \A h \in Threads : req[h].task # t
        /\ UNCHANGED <<status, agvCurrentTask, req, mqtt>>
    BY TakeOrderTyped DEF TakeOrder, Orderly, dispatcher
  <1>2. ASSUME NEW h \in Threads, orders[a] = <<req[h].task>> PROVE FALSE
    <2>1. t = req[h].task
      BY <1>2
    <2>2. QED
      BY <1>1, <2>1
  <1>3. /\ agvCurrentTask[a] # NoTask /\ orders[a] = <<agvCurrentTask[a]>>
        /\ work[a] = NoTask /\ inbox[a] = <<>> /\ mqtt.agv # a
    BY <1>1, <1>2 DEF Cycle, OrderWaits
  <1>4. t = agvCurrentTask[a] /\ Tail(orders[a]) = <<>>
    BY <1>3
  <1>5. /\ work'[a] = t /\ \A b \in Agvs : b # a => work'[b] = work[b]
        /\ orders'[a] = <<>> /\ \A b \in Agvs : b # a => orders'[b] = orders[b]
    BY <1>4 DEF TakeOrder, Typed, TypeOK
  <1>6. inbox'[a] = <<m>> /\ \A b \in Agvs : b # a => inbox'[b] = inbox[b]
    <2>1. inbox' = [inbox EXCEPT ![a] = Append(@, m)]
      BY DEF TakeOrder
    <2>2. Append(<<>>, m) = <<m>>
      OBVIOUS
    <2> HIDE DEF m
    <2>3. QED
      BY <1>3, <2>1, <2>2 DEF Typed, TypeOK
  <1>7. Steps(m) = <<>>
    BY DEF Steps
  <1> HIDE DEF m, t
  <1>8. \A k \in Threads : req[k].pc # "idle" => req[k].agv # a /\ req[k].agv \in Agvs
    BY <1>3 DEF Cycle, ServedRests, Typed, Requests, Whole
  <1>9. Apart' /\ TasksStored'
    BY <1>1 DEF Cycle, Apart, TasksStored
  <1>10. ServedRests'
    <2>1. UNCHANGED <<agvCurrentTask, req, mqtt>>
      BY <1>1
    <2>2. ASSUME NEW k \in Threads, req[k].pc # "idle", NEW b, b = req[k].agv
          PROVE  work'[b] = work[b] /\ inbox'[b] = inbox[b] /\ orders'[b] = orders[b]
      BY <1>5, <1>6, <1>8, <2>2
    <2>3. QED
      BY <2>1, <2>2 DEF Cycle, ServedRests
  <1>11. OrderWaits'
    BY <1>1, <1>5, <1>6 DEF Cycle, OrderWaits
  <1>12. WorksOnCurrent'
    <2>1. Harmless(inbox'[a])
      BY <1>6, <1>7 DEF Harmless
    <2>2. QED
      BY <1>1, <1>3, <1>4, <1>5, <1>6, <2>1 DEF Cycle, WorksOnCurrent
  <1>13. QED
    BY <1>3, <1>4, <1>5, <1>9, <1>10, <1>11, <1>12 DEF Cycle

\* An AGV that executes an order is not served, and no order waits for it.
LEMMA WorkerRests ==
    ASSUME Typed, Cycle, NEW a \in Agvs, work[a] # NoTask
    PROVE  /\ orders[a] = <<>> /\ agvCurrentTask[a] = work[a] /\ mqtt.agv # a
           /\ \A k \in Threads : req[k].pc # "idle" => req[k].agv # a /\ req[k].agv \in Agvs
  BY DEF Cycle, WorksOnCurrent, ServedRests, Typed, Requests, Whole

LEMMA ProgressCycle ==
    ASSUME Typed, Cycle, NEW a \in Agvs, NEW s \in {"RUNNING", "PAUSED"}, Progress(a, s)
    PROVE  Cycle'
  <1> DEFINE m == [kind |-> "orderState", task |-> work[a], state |-> s]
  <1>1. work[a] # NoTask /\ UNCHANGED <<status, agvCurrentTask, req, mqtt, orders, work>>
    BY DEF Progress, dispatcher, agv
  <1>2. inbox'[a] = <<m>> /\ \A b \in Agvs : b # a => inbox'[b] = inbox[b]
    BY DEF Progress, Typed, TypeOK
  <1>3. Steps(m) = <<>>
    BY DEF Steps
  <1> HIDE DEF m
  <1>4. /\ orders[a] = <<>>
        /\ \A k \in Threads : req[k].pc # "idle" => req[k].agv # a /\ req[k].agv \in Agvs
    BY <1>1, WorkerRests
  <1>5. Apart' /\ TasksStored'
    BY <1>1 DEF Cycle, Apart, TasksStored
  <1>6. ServedRests'
    BY <1>1, <1>2, <1>4 DEF Cycle, ServedRests
  <1>7. OrderWaits'
    BY <1>1, <1>2, <1>4 DEF Cycle, OrderWaits
  <1>8. WorksOnCurrent'
    <2>1. Harmless(inbox'[a])
      BY <1>2, <1>3 DEF Harmless
    <2>2. QED
      BY <1>1, <1>2, <2>1 DEF Cycle, WorksOnCurrent
  <1>9. QED
    BY <1>5, <1>6, <1>7, <1>8 DEF Cycle

LEMMA EndOrderCycle ==
    ASSUME Typed, Cycle, NEW a \in Agvs, NEW e \in DOMAIN Reports, EndOrder(a, e)
    PROVE  Cycle'
  <1>1. work[a] # NoTask /\ UNCHANGED <<status, agvCurrentTask, req, mqtt, orders>>
    BY DEF EndOrder, dispatcher
  <1>2. work'[a] = NoTask /\ \A b \in Agvs : b # a => work'[b] = work[b] /\ inbox'[b] = inbox[b]
    BY EndOrderEffect DEF EndOrder, Typed, TypeOK
  <1>3. /\ orders[a] = <<>>
        /\ \A k \in Threads : req[k].pc # "idle" => req[k].agv # a /\ req[k].agv \in Agvs
    BY <1>1, WorkerRests
  <1>4. Apart' /\ TasksStored'
    BY <1>1 DEF Cycle, Apart, TasksStored
  <1>5. ServedRests'
    BY <1>1, <1>2, <1>3 DEF Cycle, ServedRests
  <1>6. OrderWaits'
    BY <1>1, <1>2, <1>3 DEF Cycle, OrderWaits
  <1>7. WorksOnCurrent'
    BY <1>1, <1>2 DEF Cycle, WorksOnCurrent
  <1>8. QED
    BY <1>4, <1>5, <1>6, <1>7 DEF Cycle

LEMMA LoseReportCycle ==
    ASSUME Typed, Cycle, NEW a \in Agvs, LoseReport(a)
    PROVE  Cycle'
  <1>1. /\ inbox[a] # <<>> /\ inbox[a] \in Seq(Messages)
        /\ UNCHANGED <<status, agvCurrentTask, req, mqtt, orders, work>>
    BY DEF LoseReport, dispatcher, agv, Typed, TypeOK
  <1>2. inbox'[a] = Tail(inbox[a]) /\ \A b \in Agvs : b # a => inbox'[b] = inbox[b]
    BY DEF LoseReport, Typed, TypeOK
  <1>3. /\ orders[a] = <<>>
        /\ \A k \in Threads : req[k].pc # "idle" => req[k].agv # a /\ req[k].agv \in Agvs
    BY <1>1 DEF Cycle, OrderWaits, ServedRests, Typed, Requests, Whole
  <1>4. Apart' /\ TasksStored'
    BY <1>1 DEF Cycle, Apart, TasksStored
  <1>5. ServedRests'
    BY <1>1, <1>2, <1>3 DEF Cycle, ServedRests
  <1>6. OrderWaits'
    BY <1>1, <1>2, <1>3 DEF Cycle, OrderWaits
  <1>7. WorksOnCurrent'
    <2>1. work[a] # NoTask => Harmless(inbox'[a])
      BY <1>1, <1>2, TailReports DEF Cycle, WorksOnCurrent
    <2>2. QED
      BY <1>1, <1>2, <2>1 DEF Cycle, WorksOnCurrent
  <1>8. QED
    BY <1>4, <1>5, <1>6, <1>7 DEF Cycle

LEMMA StepCycle == Orderly /\ Typed /\ Cycle /\ [Next]_vars => Cycle'
  <1> SUFFICES ASSUME Orderly, Typed, Cycle, [Next]_vars PROVE Cycle'
    OBVIOUS
  <1>1. CASE UNCHANGED vars \/ \E a \in Agvs, online \in BOOLEAN : Connection(a, online)
    <2>1. UNCHANGED <<status, agvCurrentTask, req, mqtt, orders, inbox, work>>
      BY <1>1 DEF vars, dispatcher, agv, Connection
    <2>2. QED
      BY <2>1 DEF Cycle, Apart, ServedRests, TasksStored, OrderWaits, WorksOnCurrent
  <1>2. ASSUME NEW h \in Threads, NEW a \in Agvs, NEW path \in Paths, Request(h, a, path)
        PROVE  Cycle'
    BY <1>2, RequestCycle
  <1>3. ASSUME NEW h \in Threads, RequestStep(h) PROVE Cycle'
    BY <1>3, LockNextCycle, RefusalCycle, SendCycle, StoreTaskCycle, AssignCycle DEF RequestStep
  <1>4. CASE HandlerStep
    BY <1>4, ReceiveCycle, FreeAgvCycle, EndTaskCycle, ReleaseAllCycle DEF HandlerStep
  <1>5. ASSUME NEW a \in Agvs, AgvStep(a) PROVE Cycle'
    BY <1>5, TakeOrderCycle, ProgressCycle, EndOrderCycle, LoseReportCycle DEF AgvStep
  <1>6. QED
    BY <1>1, <1>2, <1>3, <1>4, <1>5 DEF Next

-----------------------------------------------------------------------------
(* The locks *)

\* What the requests of an AGV hold is its own; an idle thread holds nothing.
LEMMA RequestFacts ==
    ASSUME Typed, NEW h \in Threads
    PROVE  /\ req[h].locked \in Seq(Resources)
           /\ \A i \in DOMAIN req[h].locked : req[h].locked[i] \in Resources
           /\ req[h].pc = "idle" => req[h].agv = NoAgv /\ req[h].locked = <<>> /\ req[h].task = NoTask
           /\ req[h].pc # "idle" => req[h].agv \in Agvs
           /\ req[h].task \in TaskIds \cup {NoTask}
  <1>1. req[h] \in RequestStates /\ Whole(req[h])
    BY DEF Typed, TypeOK, Requests
  <1>2. req[h].locked \in Seq(Resources) /\ req[h].task \in TaskIds \cup {NoTask}
    BY <1>1 DEF RequestStates
  <1>3. \A i \in DOMAIN req[h].locked : req[h].locked[i] \in Resources
    BY <1>2, ElementOfSeq, LenProperties
  <1>4. QED
    BY <1>1, <1>2, <1>3 DEF Whole, NoRequest

LEMMA InitHolding == Init => Holding
  BY DEF Init, Holding, RequestHolds, TaskHolds, NoRequest

\* Steps that touch no lock, request, order or work.
LEMMA LocksAlone ==
    ASSUME Holding, UNCHANGED <<user, lockList, req, agvCurrentTask, orders, work>>
    PROVE  Holding'
  BY DEF Holding, RequestHolds, TaskHolds, Locked

LEMMA RequestHolding ==
    ASSUME Typed, Holding, NEW h \in Threads, NEW a \in Agvs, NEW path \in Paths, Request(h, a, path)
    PROVE  Holding'
  <1>1. Others(h) /\ req'[h].task = NoTask /\ req'[h].locked = <<>>
    BY RequestEffect
  <1>2. UNCHANGED <<user, lockList, agvCurrentTask, orders, work>>
    BY DEF Request, dispatcher, agv
  <1>3. RequestHolds'
    BY <1>1, <1>2 DEF Others, Holding, RequestHolds, Locked
  <1>4. TaskHolds'
    BY <1>2 DEF Holding, TaskHolds
  <1>5. QED
    BY <1>3, <1>4 DEF Holding

LEMMA AppendEach ==
    ASSUME NEW s \in Seq(Resources), NEW r \in Resources
    PROVE  /\ DOMAIN Append(s, r) = DOMAIN s \cup {Len(s) + 1}
           /\ Append(s, r)[Len(s) + 1] = r
           /\ \A i \in DOMAIN s : Append(s, r)[i] = s[i]
  OBVIOUS

LEMMA LockNextHolding ==
    ASSUME Typed, Cycle, Holding, NEW h \in Threads, LockNext(h)
    PROVE  Holding'
  <1> DEFINE r == Head(req[h].todo)
             a == req[h].agv
             s == req[h].locked
  <1>1. /\ Others(h) /\ req[h].pc = "lock" /\ r \in Resources /\ a \in Agvs /\ s \in Seq(Resources)
        /\ req'[h].agv = a /\ req'[h].locked = Append(s, r)
        /\ \/ req'[h].task = NoTask /\ lockList' = lockList
           \/ \E t \in TaskIds : /\ NewTask(t) /\ req'[h].task = t
                                 /\ lockList' = [lockList EXCEPT ![t] = Locked(req[h])']
    BY LockNextEffect DEF LockNext
  <1>2. UNCHANGED <<agvCurrentTask, orders, work>>
    BY DEF LockNext, agv
  <1>3. user[r] = NoAgv /\ user'[r] = a /\ \A x \in Resources : x # r => user'[x] = user[x]
    BY <1>1 DEF LockNext, Table!Grant, Typed, TypeOK
  <1> HIDE DEF r, a, s
  <1>4. \A k \in Threads : \A i \in DOMAIN req[k].locked :
          /\ req[k].locked[i] \in Resources /\ req[k].locked[i] # r
          /\ user[req[k].locked[i]] = req[k].agv
    BY <1>3, RequestFacts DEF Holding, RequestHolds
  <1>5. ASSUME NEW k \in Threads, k # h
        PROVE  /\ \A i \in DOMAIN req'[k].locked : user'[req'[k].locked[i]] = req'[k].agv
               /\ \A i, j \in DOMAIN req'[k].locked :
                    req'[k].locked[i] = req'[k].locked[j] => i = j
               /\ req'[k].task # NoTask => lockList'[req'[k].task] = Locked(req'[k])
    <2>1. req'[k] = req[k]
      BY <1>1, <1>5 DEF Others
    <2>2. req[k].task # NoTask => lockList[req[k].task] = Locked(req[k])
      BY DEF Holding, RequestHolds
    <2>3. req[k].task # NoTask => lockList'[req[k].task] = lockList[req[k].task]
      BY <1>1, RequestFacts DEF NewTask, Typed, TypeOK
    <2>4. \A i \in DOMAIN req[k].locked : user'[req[k].locked[i]] = req[k].agv
      BY <1>3, <1>4
    <2>5. \A i, j \in DOMAIN req[k].locked : req[k].locked[i] = req[k].locked[j] => i = j
      BY DEF Holding, RequestHolds
    <2>6. QED
      BY <2>1, <2>2, <2>3, <2>4, <2>5
  <1>6. /\ \A i \in DOMAIN req'[h].locked : user'[req'[h].locked[i]] = req'[h].agv
        /\ \A i, j \in DOMAIN req'[h].locked :
             req'[h].locked[i] = req'[h].locked[j] => i = j
        /\ req'[h].task # NoTask => lockList'[req'[h].task] = Locked(req'[h])
    <2>1. /\ DOMAIN Append(s, r) = DOMAIN s \cup {Len(s) + 1}
          /\ Append(s, r)[Len(s) + 1] = r /\ \A i \in DOMAIN s : Append(s, r)[i] = s[i]
      BY <1>1, AppendEach
    <2>2. \A i \in DOMAIN s : s[i] \in Resources /\ s[i] # r /\ user[s[i]] = a
      BY <1>4 DEF s, a
    <2>3. \A i, j \in DOMAIN s : s[i] = s[j] => i = j
      BY DEF Holding, RequestHolds, s
    <2>4. \A i \in DOMAIN Append(s, r) : user'[Append(s, r)[i]] = a
      BY <1>3, <2>1, <2>2
    <2>5. \A i, j \in DOMAIN Append(s, r) : Append(s, r)[i] = Append(s, r)[j] => i = j
      BY <2>1, <2>2, <2>3
    <2>6. req'[h].task # NoTask => lockList'[req'[h].task] = Locked(req'[h])
      BY <1>1 DEF Locked, Typed, TypeOK
    <2>7. QED
      BY <1>1, <2>4, <2>5, <2>6
  <1>7. RequestHolds'
    BY <1>5, <1>6 DEF RequestHolds
  <1>8. TaskHolds'
    <2>1. ASSUME NEW b \in Agvs, agvCurrentTask[b] # NoTask, orders[b] # <<>> \/ work[b] # NoTask,
                 NEW x \in lockList'[agvCurrentTask[b]]
          PROVE  user'[x] = b
      <3>1. agvCurrentTask[b] \in TaskIds /\ status[agvCurrentTask[b]] # "none"
        BY <2>1 DEF Cycle, TasksStored, Typed, TypeOK
      <3>2. lockList'[agvCurrentTask[b]] = lockList[agvCurrentTask[b]]
        BY <1>1, <3>1 DEF NewTask, Typed, TypeOK
      <3>3. user[x] = b /\ x \in Resources
        BY <2>1, <3>1, <3>2 DEF Holding, TaskHolds, Typed, TypeOK
      <3>4. QED
        BY <1>3, <3>3
    <2>2. QED
      BY <1>2, <2>1 DEF TaskHolds
  <1>9. QED
    BY <1>7, <1>8 DEF Holding

\* A request keeps its locks or has none any more.
LEMMA GoesBack ==
    ASSUME RequestHolds, NEW h \in Threads, Others(h), UNCHANGED <<user, lockList>>,
           \/ req'[h].locked = <<>>
           \/ req'[h].agv = req[h].agv /\ req'[h].locked = req[h].locked,
           \/ req'[h].task = NoTask
           \/ req'[h].task = req[h].task /\ req'[h].locked = req[h].locked
    PROVE  RequestHolds'
  <1>1. \A k \in Threads :
          \/ req'[k].locked = <<>>
          \/ req'[k].agv = req[k].agv /\ req'[k].locked = req[k].locked
    BY DEF Others
  <1>2. \A k \in Threads :
          /\ \A i \in DOMAIN req'[k].locked : user'[req'[k].locked[i]] = req'[k].agv
          /\ \A i, j \in DOMAIN req'[k].locked : req'[k].locked[i] = req'[k].locked[j] => i = j
    BY <1>1 DEF RequestHolds
  <1>3. \A k \in Threads : req'[k].task # NoTask => lockList'[req'[k].task] = Locked(req'[k])
    BY DEF Others, RequestHolds, Locked
  <1>4. QED
    BY <1>2, <1>3 DEF RequestHolds

LEMMA LockRefusedHolding ==
    ASSUME Typed, Holding, NEW h \in Threads, LockRefused(h)
    PROVE  Holding'
  <1>1. /\ Typed' /\ Others(h) /\ req'[h].task = NoTask
        /\ \/ req'[h].pc = "idle"
           \/ req'[h].agv = req[h].agv /\ req'[h].locked = req[h].locked
    BY LockRefusedEffect
  <1>2. UNCHANGED <<user, lockList, agvCurrentTask, orders, work>>
    BY DEF LockRefused, dispatcher, agv
  <1>3. req'[h].pc = "idle" => req'[h].locked = <<>>
    BY <1>1 DEF Typed, Requests, Whole, NoRequest
  <1>4. RequestHolds'
    BY <1>1, <1>2, <1>3, GoesBack DEF Holding
  <1>5. TaskHolds'
    BY <1>2 DEF Holding, TaskHolds
  <1>6. QED
    BY <1>4, <1>5 DEF Holding

LEMMA TailEach ==
    ASSUME NEW s \in Seq(Resources), s # <<>>
    PROVE  /\ 1 \in DOMAIN s /\ Head(s) = s[1]
           /\ \A i \in DOMAIN Tail(s) : i + 1 \in DOMAIN s /\ i \in Nat /\ i >= 1 /\ Tail(s)[i] = s[i + 1]
           /\ \A i \in DOMAIN s : i = 1 \/ (i - 1 \in DOMAIN Tail(s) /\ Tail(s)[i - 1] = s[i])
  OBVIOUS

LEMMA LockUndoHolding ==
    ASSUME Typed, Cycle, Holding, NEW h \in Threads, LockUndo(h)
    PROVE  Holding'
  <1> DEFINE a == req[h].agv
             s == req[h].locked
  <1>1. /\ Typed' /\ Others(h) /\ req[h].pc = "undo" /\ req'[h].task = NoTask
        /\ a \in Agvs /\ s \in Seq(Resources) /\ s # <<>>
        /\ \/ req'[h].pc = "idle"
           \/ req'[h].agv = a /\ req'[h].locked = Tail(s)
    BY LockUndoEffect
  <1>2. UNCHANGED <<lockList, agvCurrentTask, orders, work>>
    BY DEF LockUndo, agv
  <1>3. \A x \in Resources : x # Head(s) \/ user[x] # a => user'[x] = user[x]
    BY DEF LockUndo, Table!GiveBack
  <1>4. req'[h].pc = "idle" => req'[h].locked = <<>>
    BY <1>1 DEF Typed, Requests, Whole, NoRequest
  <1> HIDE DEF a, s
  <1>5. ASSUME NEW k \in Threads, k # h
        PROVE  /\ \A i \in DOMAIN req'[k].locked : user'[req'[k].locked[i]] = req'[k].agv
               /\ \A i, j \in DOMAIN req'[k].locked :
                    req'[k].locked[i] = req'[k].locked[j] => i = j
               /\ req'[k].task # NoTask => lockList'[req'[k].task] = Locked(req'[k])
    <2>1. req'[k] = req[k]
      BY <1>1, <1>5 DEF Others
    <2>2. /\ \A i \in DOMAIN req[k].locked : user[req[k].locked[i]] = req[k].agv
          /\ \A i, j \in DOMAIN req[k].locked : req[k].locked[i] = req[k].locked[j] => i = j
          /\ req[k].task # NoTask => lockList[req[k].task] = Locked(req[k])
      BY DEF Holding, RequestHolds
    <2>3. req[k].agv # a
      BY <1>1, <1>5, RequestFacts DEF Cycle, Apart, a
    <2>4. \A i \in DOMAIN req[k].locked : user'[req[k].locked[i]] = req[k].agv
      BY <1>3, <2>2, <2>3, RequestFacts
    <2>5. QED
      BY <1>2, <2>1, <2>2, <2>4
  <1>6. /\ \A i \in DOMAIN s : s[i] \in Resources /\ user[s[i]] = a
        /\ \A i, j \in DOMAIN s : s[i] = s[j] => i = j
    BY RequestFacts DEF Holding, RequestHolds, s, a
  <1>7. /\ 1 \in DOMAIN s /\ Head(s) = s[1]
        /\ \A i \in DOMAIN Tail(s) : i + 1 \in DOMAIN s /\ i \in Nat /\ i >= 1 /\ Tail(s)[i] = s[i + 1]
    BY <1>1, TailEach
  <1>8. \A i \in DOMAIN Tail(s) : user'[Tail(s)[i]] = a
    BY <1>3, <1>6, <1>7
  <1>9. \A i, j \in DOMAIN Tail(s) : Tail(s)[i] = Tail(s)[j] => i = j
    BY <1>6, <1>7
  <1>10. /\ \A i \in DOMAIN req'[h].locked : user'[req'[h].locked[i]] = req'[h].agv
         /\ \A i, j \in DOMAIN req'[h].locked : req'[h].locked[i] = req'[h].locked[j] => i = j
    <2>1. CASE req'[h].locked = <<>>
      BY <2>1
    <2>2. CASE req'[h].agv = a /\ req'[h].locked = Tail(s)
      BY <1>8, <1>9, <2>2
    <2>3. QED
      BY <1>1, <1>4, <2>1, <2>2
  <1>11. RequestHolds'
    BY <1>1, <1>5, <1>10 DEF RequestHolds
  <1>12. TaskHolds'
    <2>1. agvCurrentTask[a] = NoTask
      BY <1>1 DEF Cycle, ServedRests, a
    <2>2. ASSUME NEW b \in Agvs, agvCurrentTask[b] # NoTask, orders[b] # <<>> \/ work[b] # NoTask,
                 NEW x \in lockList[agvCurrentTask[b]]
          PROVE  user'[x] = b
      BY <1>3, <2>1, <2>2 DEF Holding, TaskHolds, Typed, TypeOK
    <2>3. QED
      BY <1>2, <2>2 DEF TaskHolds
  <1>13. QED
    BY <1>11, <1>12 DEF Holding

\* Steps of a request that leave the locks as they are.
LEMMA SendHolding ==
    ASSUME Typed, Cycle, Holding, NEW h \in Threads, Send(h) \/ SendThrows(h)
    PROVE  Holding'
  <1>1. /\ Others(h) /\ req[h].pc = "send"
        /\ \/ req'[h].locked = <<>> /\ req'[h].task = NoTask
           \/ req'[h].agv = req[h].agv /\ req'[h].task = req[h].task /\ req'[h].locked = req[h].locked
    BY SendEffect, SendThrowsEffect DEF Send, SendThrows
  <1>2. UNCHANGED <<user, lockList, agvCurrentTask, work>>
    BY DEF Send, SendThrows, dispatcher, agv
  <1>3. RequestHolds'
    BY <1>1, <1>2, GoesBack DEF Holding
  <1>4. TaskHolds'
    <2>1. agvCurrentTask[req[h].agv] = NoTask
      BY <1>1 DEF Cycle, ServedRests
    <2>2. \A b \in Agvs : b # req[h].agv => orders'[b] = orders[b]
      BY DEF Send, SendThrows, Typed, TypeOK
    <2>3. QED
      BY <1>2, <2>1, <2>2 DEF Holding, TaskHolds
  <1>5. QED
    BY <1>3, <1>4 DEF Holding

LEMMA AssignHolding ==
    ASSUME Typed, Cycle, Holding, NEW h \in Threads, Assign(h)
    PROVE  Holding'
  <1> DEFINE a == req[h].agv
             t == req[h].task
  <1>1. /\ Others(h) /\ a \in Agvs /\ t \in TaskIds /\ t # NoTask
        /\ req'[h].locked = <<>> /\ req'[h].task = NoTask
    BY AssignEffect
  <1>2. UNCHANGED <<user, lockList, orders, work>>
    BY DEF Assign, agv
  <1>3. agvCurrentTask'[a] = t /\ \A b \in Agvs : b # a => agvCurrentTask'[b] = agvCurrentTask[b]
    BY <1>1 DEF Assign, Typed, TypeOK
  <1>4. \A x \in lockList[t] : user[x] = a
    BY <1>1 DEF Holding, RequestHolds, Locked
  <1> HIDE DEF a, t
  <1>5. RequestHolds'
    BY <1>1, <1>2, GoesBack DEF Holding
  <1>6. TaskHolds'
    BY <1>1, <1>2, <1>3, <1>4 DEF Holding, TaskHolds
  <1>7. QED
    BY <1>5, <1>6 DEF Holding

LEMMA StoreTaskHolding ==
    ASSUME Typed, Holding, NEW h \in Threads, StoreTask(h)
    PROVE  Holding'
  <1>1. /\ Others(h)
        /\ req'[h].agv = req[h].agv /\ req'[h].task = req[h].task /\ req'[h].locked = req[h].locked
    BY StoreTaskEffect
  <1>2. UNCHANGED <<user, lockList, agvCurrentTask, orders, work>>
    BY DEF StoreTask, agv
  <1>3. RequestHolds'
    BY <1>1, <1>2, GoesBack DEF Holding
  <1>4. TaskHolds'
    BY <1>2 DEF Holding, TaskHolds
  <1>5. QED
    BY <1>3, <1>4 DEF Holding

LEMMA EndTaskHolding ==
    ASSUME Typed, Holding, FreeAgv \/ EndTask
    PROVE  Holding'
  <1>1. UNCHANGED <<user, lockList, req, orders, work>>
    BY DEF FreeAgv, EndTask, agv
  <1>2. \A b \in Agvs : agvCurrentTask'[b] \in {agvCurrentTask[b], NoTask}
    BY DEF FreeAgv, EndTask, Typed, TypeOK
  <1>3. RequestHolds'
    BY <1>1 DEF Holding, RequestHolds, Locked
  <1>4. TaskHolds'
    BY <1>1, <1>2 DEF Holding, TaskHolds
  <1>5. QED
    BY <1>3, <1>4 DEF Holding

LEMMA ReleaseAllHolding ==
    ASSUME Typed, Cycle, Holding, ReleaseAll
    PROVE  Holding'
  <1> DEFINE a == mqtt.agv
  <1>1. a \in Agvs
    BY NextStepHandles DEF Typed, ReleaseAll
  <1>2. UNCHANGED <<lockList, req, agvCurrentTask, orders, work>>
    BY DEF ReleaseAll, agv
  <1>3. \A x \in Resources : user[x] # a => user'[x] = user[x]
    BY DEF ReleaseAll, Table!GiveBack
  <1>4. /\ orders[a] = <<>> /\ work[a] = NoTask
        /\ \A k \in Threads : req[k].pc # "idle" => req[k].agv # a
    BY <1>1, HandledRests
  <1> HIDE DEF a
  <1>5. \A k \in Threads : \A i \in DOMAIN req[k].locked : user'[req[k].locked[i]] = req[k].agv
    BY <1>1, <1>3, <1>4, RequestFacts DEF Holding, RequestHolds
  <1>6. RequestHolds'
    BY <1>2, <1>5 DEF Holding, RequestHolds, Locked
  <1>7. TaskHolds'
    BY <1>2, <1>3, <1>4 DEF Holding, TaskHolds, Typed, TypeOK
  <1>8. QED
    BY <1>6, <1>7 DEF Holding

LEMMA AgvHolding ==
    ASSUME Orderly, Typed, Cycle, Holding, NEW a \in Agvs, AgvStep(a)
    PROVE  Holding'
  <1>1. CASE \/ LoseReport(a)
             \/ \E s \in {"RUNNING", "PAUSED"} : Progress(a, s)
    <2>1. UNCHANGED <<user, lockList, req, agvCurrentTask, orders, work>>
      BY <1>1 DEF LoseReport, Progress, dispatcher, agv
    <2>2. QED
      BY <2>1, LocksAlone
  <1>2. CASE TakeOrder(a)
    <2>1. UNCHANGED <<user, lockList, req, agvCurrentTask>>
      BY <1>2 DEF TakeOrder, dispatcher
    <2>2. /\ orders[a] # <<>>
          /\ \A b \in Agvs : b # a => work'[b] = work[b] /\ orders'[b] = orders[b]
      BY <1>2, TakeOrderCycle DEF TakeOrder
    <2>3. QED
      BY <2>1, <2>2 DEF Holding, RequestHolds, TaskHolds, Locked
  <1>3. CASE \E e \in DOMAIN Reports : EndOrder(a, e)
    <2>1. UNCHANGED <<user, lockList, req, agvCurrentTask, orders>>
      BY <1>3 DEF EndOrder, dispatcher
    <2>2. \A b \in Agvs : work'[b] \in {work[b], NoTask}
      BY <1>3 DEF EndOrder, Typed, TypeOK
    <2>3. QED
      BY <2>1, <2>2 DEF Holding, RequestHolds, TaskHolds, Locked
  <1>4. QED
    BY <1>1, <1>2, <1>3 DEF AgvStep

LEMMA StepHolding == Orderly /\ Typed /\ Cycle /\ Holding /\ [Next]_vars => Holding'
  <1> SUFFICES ASSUME Orderly, Typed, Cycle, Holding, [Next]_vars PROVE Holding'
    OBVIOUS
  <1>1. CASE \/ UNCHANGED vars
             \/ \E a \in Agvs, online \in BOOLEAN : Connection(a, online)
             \/ \E a \in Agvs : Receive(a)
    <2>1. UNCHANGED <<user, lockList, req, agvCurrentTask, orders, work>>
      BY <1>1 DEF vars, dispatcher, agv, Connection, Receive
    <2>2. QED
      BY <2>1, LocksAlone
  <1>2. ASSUME NEW h \in Threads, NEW a \in Agvs, NEW path \in Paths, Request(h, a, path)
        PROVE  Holding'
    BY <1>2, RequestHolding
  <1>3. ASSUME NEW h \in Threads, RequestStep(h) PROVE Holding'
    BY <1>3, LockNextHolding, LockRefusedHolding, LockUndoHolding, SendHolding,
          StoreTaskHolding, AssignHolding
       DEF RequestStep
  <1>4. CASE FreeAgv \/ EndTask \/ ReleaseAll
    BY <1>4, EndTaskHolding, ReleaseAllHolding
  <1>5. ASSUME NEW a \in Agvs, AgvStep(a) PROVE Holding'
    BY <1>5, AgvHolding
  <1>6. QED
    BY <1>1, <1>2, <1>3, <1>4, <1>5 DEF Next, HandlerStep

LEMMA InvariantHolds == ASSUME Orderly PROVE Spec => [](Typed /\ Cycle /\ Holding)
  <1>1. Init => Typed /\ Cycle /\ Holding
    BY InitTyped, InitCycle, InitHolding
  <1>2. Typed /\ Cycle /\ Holding /\ [Next]_vars => (Typed /\ Cycle /\ Holding)'
    BY StepTyped, StepCycle, StepHolding
  <1>3. QED
    BY <1>1, <1>2, PTL DEF Spec

\* An AGV executes an order only while it holds every node and edge locked for
\* it: neither other requests nor the handlers of late reports take one away.
THEOREM DrivesLocked == ASSUME Orderly PROVE Spec => []DrivesOnOwnLocks
  <1>1. Cycle /\ Holding => DrivesOnOwnLocks
    BY DEF Cycle, WorksOnCurrent, Holding, TaskHolds, DrivesOnOwnLocks
  <1>2. QED
    BY <1>1, InvariantHolds, PTL

-----------------------------------------------------------------------------
(* Nothing stays locked *)

\* Handlers end a task, and release; one that has only to end it has released.
LEMMA TodosEnd ==
    ASSUME NEW s \in Todos, Head(s) # "release"
    PROVE  /\ Tail(s) = <<>> => s = <<"finish">>
           /\ Tail(s) # <<"finish">>
  <1>1. CASE s = <<"finish", "release">>
    BY <1>1
  <1>2. CASE s = <<"fail", "release">>
    BY <1>2
  <1>3. CASE s = <<"finish">>
    BY <1>3
  <1>4. CASE s = <<"fail", "release", "finish">>
    BY <1>4
  <1>5. CASE s = <<"cancel", "release", "finish">>
    BY <1>5
  <1>6. CASE s \in {<<"release">>, <<"release", "finish">>, <<"release", "fail", "release", "finish">>,
                    <<"release", "cancel", "release", "finish">>}
    BY <1>6
  <1>7. QED
    BY <1>1, <1>2, <1>3, <1>4, <1>5, <1>6 DEF Todos

LEMMA StepsRelease == ASSUME NEW m \in Messages PROVE Steps(m) # <<"finish">>
  BY DEF Steps

LEMMA InitKnown == Init => Known
  BY DEF Init, Known, LocksKnown, ReleasedFirst, NoMessage

\* The same locks are known of, and no handler comes to its last step.
LEMMA StillKnown ==
    ASSUME Known, UNCHANGED <<user, mqtt>>,
           \A a \in Agvs : agvCurrentTask[a] # NoTask => agvCurrentTask'[a] # NoTask,
           \A h \in Threads :
             \/ req[h].pc = "idle"
             \/ Locked(req[h]) = {}
             \/ req'[h].pc # "idle" /\ req'[h].agv = req[h].agv /\ Locked(req'[h]) = Locked(req[h])
             \/ req[h].agv \in Agvs /\ agvCurrentTask'[req[h].agv] # NoTask,
           user \in [Resources -> Agvs \cup {NoAgv}]
    PROVE  Known'
  <1>1. ReleasedFirst'
    BY DEF Known, ReleasedFirst
  <1>2. ASSUME NEW r \in Resources, user[r] # NoAgv
        PROVE  \/ agvCurrentTask'[user[r]] # NoTask
               \/ \E h \in Threads : req'[h].pc # "idle" /\ req'[h].agv = user[r] /\ r \in Locked(req'[h])
               \/ mqtt.agv = user[r]
    <2>1. user[r] \in Agvs
      BY <1>2
    <2>2. CASE \E h \in Threads : req[h].pc # "idle" /\ req[h].agv = user[r] /\ r \in Locked(req[h])
      BY <2>2
    <2>3. CASE agvCurrentTask[user[r]] # NoTask \/ mqtt.agv = user[r]
      BY <2>1, <2>3
    <2>4. QED
      BY <1>2, <2>2, <2>3 DEF Known, LocksKnown
  <1>3. LocksKnown'
    BY <1>2 DEF LocksKnown, Locked
  <1>4. QED
    BY <1>1, <1>3 DEF Known

LEMMA AssignTakes ==
    ASSUME Typed, NEW h \in Threads, Assign(h)
    PROVE  /\ req[h].agv \in Agvs /\ agvCurrentTask'[req[h].agv] # NoTask
           /\ \A a \in Agvs : agvCurrentTask[a] # NoTask => agvCurrentTask'[a] # NoTask
  <1> DEFINE b == req[h].agv
             t == req[h].task
  <1>1. b \in Agvs /\ t # NoTask
    BY AssignEffect
  <1>2. agvCurrentTask' = [agvCurrentTask EXCEPT ![b] = t]
    BY DEF Assign
  <1> HIDE DEF b, t
  <1>3. agvCurrentTask'[b] = t /\ \A a \in Agvs : a # b => agvCurrentTask'[a] = agvCurrentTask[a]
    BY <1>1, <1>2 DEF Typed, TypeOK
  <1>4. QED
    BY <1>1, <1>3 DEF b

LEMMA RequestKnown ==
    ASSUME Typed, Known, NEW h \in Threads,
           \/ \E a \in Agvs, path \in Paths : Request(h, a, path)
           \/ LockRefused(h) \/ Send(h) \/ StoreTask(h) \/ Assign(h)
    PROVE  Known'
  <1>1. Others(h)
    BY RequestEffect, LockRefusedEffect, SendEffect, StoreTaskEffect, AssignEffect
  <1>2. UNCHANGED <<user, mqtt>>
    BY DEF Request, LockRefused, Send, StoreTask, Assign, dispatcher
  <1>3. \A a \in Agvs : agvCurrentTask[a] # NoTask => agvCurrentTask'[a] # NoTask
    BY AssignTakes DEF Request, LockRefused, Send, StoreTask, dispatcher
  <1>4. \/ req[h].pc = "idle"
        \/ Locked(req[h]) = {}
        \/ req'[h].pc # "idle" /\ req'[h].agv = req[h].agv /\ Locked(req'[h]) = Locked(req[h])
        \/ req[h].agv \in Agvs /\ agvCurrentTask'[req[h].agv] # NoTask
    <2>1. CASE \E a \in Agvs, path \in Paths : Request(h, a, path)
      BY <2>1 DEF Request
    <2>2. CASE LockRefused(h)
      <3>1. CASE req[h].locked = <<>>
        BY <3>1 DEF Locked
      <3>2. CASE req[h].locked # <<>>
        BY <2>2, <3>2, LockRefusedEffect DEF Locked
      <3>3. QED
        BY <3>1, <3>2
    <2>3. CASE Send(h)
      BY <2>3, SendEffect DEF Locked
    <2>4. CASE StoreTask(h)
      BY <2>4, StoreTaskEffect DEF Locked
    <2>5. CASE Assign(h)
      BY <2>5, AssignTakes
    <2>6. QED
      BY <2>1, <2>2, <2>3, <2>4, <2>5
  <1>5. \A k \in Threads : k # h /\ req[k].pc # "idle" =>
          req'[k].pc # "idle" /\ req'[k].agv = req[k].agv /\ Locked(req'[k]) = Locked(req[k])
    BY <1>1 DEF Others
  <1>6. user \in [Resources -> Agvs \cup {NoAgv}]
    BY DEF Typed, TypeOK
  <1>7. QED
    BY <1>2, <1>3, <1>4, <1>5, <1>6, StillKnown

LEMMA LockNextKnown ==
    ASSUME Typed, Cycle, Known, NEW h \in Threads, LockNext(h)
    PROVE  Known'
  <1> DEFINE r == Head(req[h].todo)
             a == req[h].agv
             s == req[h].locked
  <1>1. /\ Others(h) /\ req[h].pc = "lock" /\ r \in Resources /\ a \in Agvs /\ s \in Seq(Resources)
        /\ req'[h].agv = a /\ req'[h].locked = Append(s, r) /\ req'[h].pc \in {"lock", "send"}
    BY LockNextEffect DEF LockNext
  <1>2. UNCHANGED <<agvCurrentTask, mqtt>>
    BY DEF LockNext
  <1>3. user[r] = NoAgv /\ user'[r] = a /\ \A x \in Resources : x # r => user'[x] = user[x]
    BY <1>1 DEF LockNext, Table!Grant, Typed, TypeOK
  <1> HIDE DEF r, a
  <1>4. mqtt.agv # a
    BY <1>1 DEF Cycle, ServedRests, a
  <1>5. ReleasedFirst'
    BY <1>2, <1>3, <1>4 DEF Known, ReleasedFirst
  <1>6. Locked(req'[h]) = Locked(req[h]) \cup {r}
    <2>1. /\ DOMAIN Append(s, r) = DOMAIN s \cup {Len(s) + 1}
          /\ Append(s, r)[Len(s) + 1] = r /\ \A i \in DOMAIN s : Append(s, r)[i] = s[i]
      BY <1>1, AppendEach
    <2> DEFINE u == Append(s, r)
    <2>2. req'[h].locked = u /\ req[h].locked = s
      BY <1>1
    <2> HIDE DEF s, u
    <2>3. {u[i] : i \in DOMAIN u} = {s[i] : i \in DOMAIN s} \cup {r}
      BY <2>1 DEF u
    <2>4. QED
      BY <2>2, <2>3 DEF Locked
  <1>7. ASSUME NEW x \in Resources, user'[x] # NoAgv
        PROVE  \/ agvCurrentTask'[user'[x]] # NoTask
               \/ \E k \in Threads : req'[k].pc # "idle" /\ req'[k].agv = user'[x] /\ x \in Locked(req'[k])
               \/ mqtt'.agv = user'[x]
    <2>1. CASE x = r
      BY <1>1, <1>3, <1>6, <2>1 DEF a
    <2>2. CASE x # r
      <3>1. user'[x] = user[x]
        BY <1>3, <2>2
      <3>2. \A k \in Threads : req[k].pc # "idle" =>
              req'[k].pc # "idle" /\ req'[k].agv = req[k].agv /\ Locked(req[k]) \subseteq Locked(req'[k])
        BY <1>1, <1>6 DEF Others, a
      <3>3. QED
        BY <1>2, <1>7, <3>1, <3>2 DEF Known, LocksKnown
    <2>3. QED
      BY <2>1, <2>2
  <1>8. LocksKnown'
    BY <1>7 DEF LocksKnown, Locked
  <1>9. QED
    BY <1>5, <1>8 DEF Known

LEMMA LockUndoKnown ==
    ASSUME Typed, Cycle, Known, NEW h \in Threads, LockUndo(h)
    PROVE  Known'
  <1> DEFINE a == req[h].agv
             s == req[h].locked
  <1>1. /\ Others(h) /\ req[h].pc = "undo" /\ a \in Agvs /\ s \in Seq(Resources) /\ s # <<>>
        /\ Tail(s) # <<>> => req'[h].pc = "undo" /\ req'[h].agv = a /\ req'[h].locked = Tail(s)
    BY LockUndoEffect
  <1>2. UNCHANGED <<agvCurrentTask, mqtt>>
    BY DEF LockUndo
  <1>3. \A x \in Resources : user'[x] = IF x = Head(s) /\ user[x] = a THEN NoAgv ELSE user[x]
    BY DEF LockUndo, Table!GiveBack
  <1> HIDE DEF a
  <1>4. ReleasedFirst'
    <2>1. a # NoAgv
      BY <1>1
    <2>2. mqtt.todo = <<"finish">> => mqtt.agv # NoAgv
      BY DEF Typed, Handling, NoMessage
    <2>3. QED
      BY <1>2, <1>3, <2>2 DEF Known, ReleasedFirst
  <1>5. ASSUME NEW x \in Locked(req[h]), x # Head(s)
        PROVE  /\ req'[h].pc # "idle" /\ req'[h].agv = a /\ x \in Locked(req'[h])
    <2>1. PICK i \in DOMAIN s : x = s[i]
      BY DEF Locked
    <2>2. /\ Head(s) = s[1]
          /\ i = 1 \/ (i - 1 \in DOMAIN Tail(s) /\ Tail(s)[i - 1] = s[i])
      BY <1>1, TailEach
    <2>3. i - 1 \in DOMAIN Tail(s) /\ Tail(s)[i - 1] = x
      BY <1>5, <2>1, <2>2
    <2>4. Tail(s) # <<>>
      BY <2>3
    <2>5. QED
      BY <1>1, <2>3, <2>4 DEF Locked
  <1>6. ASSUME NEW x \in Resources, user'[x] # NoAgv
        PROVE  \/ agvCurrentTask'[user'[x]] # NoTask
               \/ \E k \in Threads : req'[k].pc # "idle" /\ req'[k].agv = user'[x] /\ x \in Locked(req'[k])
               \/ mqtt'.agv = user'[x]
    <2>1. user'[x] = user[x] /\ (x = Head(s) => user[x] # a)
      BY <1>3, <1>6
    <2>2. CASE agvCurrentTask[user[x]] # NoTask \/ mqtt.agv = user[x]
      BY <1>2, <2>1, <2>2
    <2>3. ASSUME NEW k \in Threads, req[k].pc # "idle", req[k].agv = user[x], x \in Locked(req[k])
          PROVE  req'[k].pc # "idle" /\ req'[k].agv = user[x] /\ x \in Locked(req'[k])
      <3>1. CASE k = h
        BY <1>5, <2>1, <2>3, <3>1 DEF a
      <3>2. CASE k # h
        BY <1>1, <2>3, <3>2 DEF Others
      <3>3. QED
        BY <3>1, <3>2
    <2>4. QED
      BY <1>6, <2>1, <2>2, <2>3 DEF Known, LocksKnown
  <1>7. LocksKnown'
    BY <1>6 DEF LocksKnown, Locked
  <1>8. QED
    BY <1>4, <1>7 DEF Known

LEMMA EndTaskKnown ==
    ASSUME Typed, Known, FreeAgv \/ EndTask
    PROVE  Known'
  <1> DEFINE a == mqtt.agv
  <1>1. /\ a \in Agvs /\ mqtt.todo \in Todos /\ Head(mqtt.todo) # "release"
        /\ \/ mqtt'.agv = a /\ mqtt'.todo = mqtt.todo
           \/ Tail(mqtt.todo) # <<>> /\ mqtt'.agv = a /\ mqtt'.todo = Tail(mqtt.todo)
           \/ Tail(mqtt.todo) = <<>> /\ mqtt'.todo = <<>>
    BY FreeAgvEffect, EndTaskEffect DEF NoMessage
  <1>2. UNCHANGED <<user, req>>
    BY DEF FreeAgv, EndTask
  <1>3. \A b \in Agvs : b # a => agvCurrentTask'[b] = agvCurrentTask[b]
    BY DEF FreeAgv, EndTask, Typed, TypeOK
  <1>4. /\ Tail(mqtt.todo) = <<>> => mqtt.todo = <<"finish">>
        /\ Tail(mqtt.todo) # <<"finish">>
    BY <1>1, TodosEnd
  <1>5. Tail(mqtt.todo) = <<>> => \A x \in Resources : user[x] # a
    BY <1>4 DEF Known, ReleasedFirst
  <1>6. ReleasedFirst'
    BY <1>1, <1>2, <1>4 DEF Known, ReleasedFirst
  <1>7. LocksKnown'
    <2>1. ASSUME NEW x \in Resources, user[x] # NoAgv
          PROVE  \/ agvCurrentTask'[user[x]] # NoTask
                 \/ \E k \in Threads : req[k].pc # "idle" /\ req[k].agv = user[x] /\ x \in Locked(req[k])
                 \/ mqtt'.agv = user[x]
      <3>1. user[x] \in Agvs
        BY <2>1 DEF Typed, TypeOK
      <3>2. CASE user[x] = a
        BY <1>1, <1>5, <3>2
      <3>3. CASE user[x] # a
        BY <1>3, <2>1, <3>1, <3>3 DEF Known, LocksKnown
      <3>4. QED
        BY <3>2, <3>3
    <2>2. QED
      BY <1>2, <2>1 DEF LocksKnown, Locked
  <1>8. QED
    BY <1>6, <1>7 DEF Known

LEMMA ReleaseAllKnown ==
    ASSUME Typed, Known, ReleaseAll
    PROVE  Known'
  <1> DEFINE a == mqtt.agv
  <1>1. /\ a \in Agvs
        /\ Tail(mqtt.todo) # <<>> => mqtt'.agv = a
        /\ Tail(mqtt.todo) = <<>> => mqtt'.todo = <<>>
    BY NextStepHandles DEF Typed, ReleaseAll, NoMessage
  <1>2. UNCHANGED <<agvCurrentTask, req>>
    BY DEF ReleaseAll
  <1>3. \A x \in Resources : user'[x] = IF user[x] = a THEN NoAgv ELSE user[x]
    BY DEF ReleaseAll, Table!GiveBack
  <1> HIDE DEF a
  <1>4. ReleasedFirst'
    BY <1>1, <1>3 DEF ReleasedFirst
  <1>5. LocksKnown'
    <2>1. ASSUME NEW x \in Resources, user'[x] # NoAgv
          PROVE  \/ agvCurrentTask[user'[x]] # NoTask
                 \/ \E k \in Threads : req[k].pc # "idle" /\ req[k].agv = user'[x] /\ x \in Locked(req[k])
      BY <1>3, <2>1 DEF Known, LocksKnown, a
    <2>2. QED
      BY <1>2, <2>1 DEF LocksKnown, Locked
  <1>6. QED
    BY <1>4, <1>5 DEF Known

LEMMA ReceiveKnown ==
    ASSUME Typed, Known, NEW a \in Agvs, Receive(a)
    PROVE  Known'
  <1>1. mqtt.agv = NoAgv /\ UNCHANGED <<user, req, agvCurrentTask>>
    BY DEF Receive, NoMessage
  <1>2. mqtt'.todo # <<"finish">>
    <2> DEFINE m == Head(inbox[a])
    <2>1. m \in Messages /\ IF Steps(m) = <<>> THEN mqtt' = NoMessage ELSE mqtt'.todo = Steps(m)
      BY ReceiveEffect
    <2>2. Steps(m) # <<"finish">>
      BY <2>1, StepsRelease
    <2>3. NoMessage.todo # <<"finish">>
      BY DEF NoMessage
    <2> HIDE DEF m
    <2>4. QED
      BY <2>1, <2>2, <2>3
  <1>3. LocksKnown'
    BY <1>1 DEF Known, LocksKnown, Locked
  <1>4. QED
    BY <1>2, <1>3 DEF Known, ReleasedFirst

LEMMA StepKnown == ~SendFails /\ Typed /\ Cycle /\ Known /\ [Next]_vars => Known'
  <1> SUFFICES ASSUME ~SendFails, Typed, Cycle, Known, [Next]_vars PROVE Known'
    OBVIOUS
  <1>1. CASE \/ UNCHANGED vars
             \/ \E a \in Agvs, online \in BOOLEAN : Connection(a, online)
             \/ \E a \in Agvs : AgvStep(a)
    <2>1. UNCHANGED <<user, mqtt, req, agvCurrentTask>>
      BY <1>1 DEF vars, dispatcher, agv, Connection, AgvStep, TakeOrder, Progress, EndOrder, LoseReport
    <2>2. QED
      BY <2>1 DEF Known, LocksKnown, ReleasedFirst, Locked
  <1>2. ASSUME NEW h \in Threads, NEW a \in Agvs, NEW path \in Paths, Request(h, a, path)
        PROVE  Known'
    BY <1>2, RequestKnown
  <1>3. ASSUME NEW h \in Threads, RequestStep(h) PROVE Known'
    BY <1>3, LockNextKnown, LockUndoKnown, RequestKnown DEF RequestStep, SendThrows
  <1>4. CASE HandlerStep
    BY <1>4, ReceiveKnown, EndTaskKnown, ReleaseAllKnown DEF HandlerStep
  <1>5. QED
    BY <1>1, <1>2, <1>3, <1>4 DEF Next

\* When building an order does not fail, no lock is left behind: an AGV without a
\* task, a request or a message being handled blocks no node and no edge.
THEOREM NothingStaysLocked ==
    ASSUME Orderly, ~SendFails PROVE Spec => []IdleHoldsNothing
  <1>1. Typed /\ Known => IdleHoldsNothing
    BY DEF Typed, TypeOK, Known, LocksKnown, IdleHoldsNothing, Serving
  <1>2. Typed /\ Cycle /\ Known /\ [Next]_vars => (Typed /\ Cycle /\ Known)'
    BY StepTyped, StepCycle, StepKnown
  <1>3. QED
    BY <1>1, <1>2, InitTyped, InitCycle, InitKnown, PTL DEF Spec

-----------------------------------------------------------------------------
(* The reports of an AGV, and the tasks they are about *)

\* The report read first leaves the others in order, and has no effect on tasks or
\* locks if one of them is about an order under way.
LEMMA OrderedTail ==
    ASSUME NEW s \in Seq(Messages), s # <<>>, NEW t, Ordered(s, t)
    PROVE  /\ Ordered(Tail(s), t)
           /\ Head(s).state \notin Ends => t = Head(s).task
           /\ Steps(Head(s)) # <<>> \/ Ending(s) => Ending(Tail(s))
  <1>1. /\ 1 \in DOMAIN s /\ Head(s) = s[1] /\ Len(s) \in Nat /\ DOMAIN s = 1..Len(s)
        /\ DOMAIN Tail(s) = 1..(Len(s) - 1)
        /\ \A i \in DOMAIN Tail(s) : Tail(s)[i] = s[i + 1]
    OBVIOUS
  <1>2. ASSUME NEW i \in DOMAIN Tail(s), Tail(s)[i].state \notin Ends
        PROVE  t = Tail(s)[i].task /\ UpTo(Tail(s), i) /\ Steps(Head(s)) = <<>>
    <2>1. i + 1 \in DOMAIN s /\ Tail(s)[i] = s[i + 1] /\ i \in 1..(Len(s) - 1)
      BY <1>1
    <2>2. t = s[i + 1].task /\ UpTo(s, i + 1)
      BY <1>2, <2>1 DEF Ordered
    <2>3. \A j \in 1..i : Tail(s)[j] = s[j + 1] /\ Steps(s[j + 1]) = <<>>
      BY <1>1, <2>1, <2>2 DEF UpTo
    <2>4. UpTo(Tail(s), i)
      BY <2>3 DEF UpTo
    <2>5. Steps(s[1]) = <<>>
      BY <2>1, <2>2 DEF UpTo
    <2>6. QED
      BY <1>1, <2>1, <2>2, <2>4, <2>5
  <1>3. Ordered(Tail(s), t)
    BY <1>2 DEF Ordered
  <1>4. Head(s).state \notin Ends => t = Head(s).task
    BY <1>1 DEF Ordered
  <1>5. Steps(Head(s)) # <<>> => Ending(Tail(s))
    BY <1>2 DEF Ending
  <1>6. Ending(s) => Ending(Tail(s))
    BY <1>1 DEF Ending
  <1>7. QED
    BY <1>3, <1>4, <1>5, <1>6

\* What is said at the end may follow.
LEMMA OrderedConcat ==
    ASSUME NEW s \in Seq(Messages), NEW said \in Seq(Messages), NEW t, Ordered(s, t), Ending(said)
    PROVE  Ordered(s \o said, t)
  <1>1. /\ Len(s) \in Nat /\ Len(said) \in Nat /\ DOMAIN s = 1..Len(s) /\ DOMAIN said = 1..Len(said)
        /\ DOMAIN (s \o said) = 1..(Len(s) + Len(said))
        /\ \A i \in 1..(Len(s) + Len(said)) :
             (s \o said)[i] = IF i <= Len(s) THEN s[i] ELSE said[i - Len(s)]
    BY ConcatProperties, LenProperties
  <1> DEFINE u == s \o said
  <1>2. ASSUME NEW i \in DOMAIN u, u[i].state \notin Ends
        PROVE  t = u[i].task /\ UpTo(u, i)
    <2>1. i <= Len(s)
      <3>1. CASE i > Len(s)
        <4>1. u[i] = said[i - Len(s)] /\ i - Len(s) \in DOMAIN said
          BY <1>1, <3>1
        <4>2. QED
          BY <1>2, <4>1 DEF Ending
      <3>2. QED
        BY <1>1, <3>1
    <2>2. i \in DOMAIN s /\ i \in Nat /\ u[i] = s[i] /\ \A j \in 1..i : u[j] = s[j]
      BY <1>1, <2>1
    <2>3. t = s[i].task /\ UpTo(s, i)
      BY <1>2, <2>2 DEF Ordered
    <2>4. UpTo(u, i)
      BY <2>2, <2>3 DEF UpTo
    <2>5. QED
      BY <2>2, <2>3, <2>4
  <1>3. QED
    BY <1>2 DEF Ordered

LEMMA OrderedEmpty == Ending(<<>>) /\ \A t : Ordered(<<>>, t)
  BY DEF Ordered, Ending

LEMMA OrderedOne ==
    ASSUME NEW m, Steps(m) = <<>>
    PROVE  Ordered(<<m>>, m.task)
  BY DEF Ordered, UpTo

LEMMA EndingOrdered == ASSUME NEW s, Ending(s) PROVE \A t : Ordered(s, t)
  BY DEF Ordered, Ending

Reported == ReportsInOrder /\ NoOrphanTask

LEMMA InitReported == Init => Reported
  BY OrderedEmpty DEF Init, BeingAssigned, BeingEnded, Reported, ReportsInOrder, NoOrphanTask, NoMessage

\* The reports of one AGV change, nothing else.
LEMMA InboxReported ==
    ASSUME Typed, Reported, NEW a \in Agvs, UNCHANGED <<status, agvCurrentTask, mqtt, req>>,
           NEW s, inbox' = [inbox EXCEPT ![a] = s],
           Ordered(s, agvCurrentTask[a]), mqtt.agv = a => Ending(s)
    PROVE  Reported'
  <1>1. inbox'[a] = s /\ \A b \in Agvs : b # a => inbox'[b] = inbox[b]
    BY DEF Typed, TypeOK
  <1>2. ReportsInOrder'
    BY <1>1 DEF Reported, ReportsInOrder
  <1>3. NoOrphanTask'
    BY DEF Reported, NoOrphanTask, BeingAssigned, BeingEnded
  <1>4. QED
    BY <1>2, <1>3 DEF Reported

LEMMA AgvReported ==
    ASSUME Orderly, ReportsEnd, Typed, Cycle, Reported, NEW a \in Agvs, AgvStep(a)
    PROVE  Reported'
  <1>1. UNCHANGED <<status, agvCurrentTask, mqtt, req>>
    BY DEF AgvStep, TakeOrder, Progress, EndOrder, LoseReport, dispatcher
  <1>2. inbox[a] \in Seq(Messages) /\ Ordered(inbox[a], agvCurrentTask[a])
    BY DEF Typed, TypeOK, Reported, ReportsInOrder
  <1>3. CASE TakeOrder(a)
    <2> DEFINE m == [kind |-> "orderState", task |-> Head(orders[a]), state |-> "ACCEPTED"]
    <2>1. /\ orders[a] = <<agvCurrentTask[a]>> /\ inbox[a] = <<>> /\ mqtt.agv # a
      BY <1>3, TakeOrderCycle
    <2>2. m.task = agvCurrentTask[a] /\ Steps(m) = <<>>
      BY <2>1 DEF Steps
    <2>3. inbox' = [inbox EXCEPT ![a] = Append(@, m)]
      BY <1>3 DEF TakeOrder
    <2> HIDE DEF m
    <2>4. Append(inbox[a], m) = <<m>>
      BY <2>1
    <2>5. QED
      BY <1>1, <2>1, <2>2, <2>3, <2>4, OrderedOne, InboxReported
  <1>4. ASSUME NEW s \in {"RUNNING", "PAUSED"}, Progress(a, s) PROVE Reported'
    <2> DEFINE m == [kind |-> "orderState", task |-> work[a], state |-> s]
    <2>1. agvCurrentTask[a] = work[a] /\ mqtt.agv # a
      BY <1>4, WorkerRests DEF Progress
    <2>2. m.task = agvCurrentTask[a] /\ Steps(m) = <<>>
      BY <2>1 DEF Steps
    <2>3. inbox' = [inbox EXCEPT ![a] = <<m>>]
      BY <1>4 DEF Progress
    <2> HIDE DEF m
    <2>4. QED
      BY <1>1, <2>1, <2>2, <2>3, OrderedOne, InboxReported
  <1>5. ASSUME NEW e \in DOMAIN Reports, EndOrder(a, e) PROVE Reported'
    <2>1. PICK rep \in Reports[e], said \in Seq(Messages) :
            /\ inbox' = [inbox EXCEPT ![a] = @ \o said]
            /\ \A i \in DOMAIN said : said[i].state \in Ends
      BY <1>5, EndOrderEffect
    <2>2. mqtt.agv # a
      BY <1>5, WorkerRests DEF EndOrder
    <2>3. Ordered(inbox[a] \o said, agvCurrentTask[a])
      BY <1>2, <2>1, OrderedConcat DEF Ending
    <2>4. QED
      BY <1>1, <2>1, <2>2, <2>3, InboxReported
  <1>6. CASE LoseReport(a)
    <2>1. inbox' = [inbox EXCEPT ![a] = Tail(@)] /\ inbox[a] # <<>>
      BY <1>6, LoseReportTyped DEF LoseReport
    <2>2. mqtt.agv = a => Ending(inbox[a])
      BY DEF Reported, ReportsInOrder
    <2>3. Ordered(Tail(inbox[a]), agvCurrentTask[a]) /\ (mqtt.agv = a => Ending(Tail(inbox[a])))
      BY <1>2, <2>1, <2>2, OrderedTail
    <2>4. QED
      BY <1>1, <2>1, <2>3, InboxReported
  <1>7. QED
    BY <1>3, <1>4, <1>5, <1>6 DEF AgvStep

\* A task that is being assigned still is, unless its own thread goes on.
LEMMA AssignedStill ==
    ASSUME NEW h \in Threads, Others(h), req[h].pc # "current", NEW t
    PROVE  BeingAssigned(t) => BeingAssigned(t)'
  BY DEF Others, BeingAssigned

LEMMA StoreTaskReported ==
    ASSUME Typed, Reported, NEW h \in Threads, StoreTask(h)
    PROVE  Reported'
  <1>1. PICK t \in TaskIds :
          /\ Others(h) /\ req[h].pc = "assign" /\ req'[h].pc = "current" /\ req'[h].task = t
          /\ status' = [status EXCEPT ![t] = "WAITING"]
    BY StoreTaskEffect
  <1>2. UNCHANGED <<agvCurrentTask, inbox, mqtt>>
    BY DEF StoreTask
  <1>3. \A u \in TaskIds : u # t => status'[u] = status[u]
    BY <1>1 DEF Typed, TypeOK
  <1>4. BeingAssigned(t)' /\ \A u : BeingAssigned(u) => BeingAssigned(u)'
    BY <1>1, AssignedStill DEF BeingAssigned
  <1>5. ReportsInOrder'
    BY <1>2 DEF Reported, ReportsInOrder
  <1>6. NoOrphanTask'
    BY <1>2, <1>3, <1>4 DEF Reported, NoOrphanTask, BeingEnded
  <1>7. QED
    BY <1>5, <1>6 DEF Reported

LEMMA AssignReported ==
    ASSUME Typed, Cycle, Reported, NEW h \in Threads, Assign(h)
    PROVE  Reported'
  <1> DEFINE a == req[h].agv
             t == req[h].task
  <1>1. a \in Agvs /\ t \in TaskIds /\ Others(h)
    BY AssignEffect
  <1>2. inbox[a] = <<>> /\ agvCurrentTask[a] = NoTask
    BY DEF Assign, Cycle, ServedRests
  <1>3. agvCurrentTask' = [agvCurrentTask EXCEPT ![a] = t]
    BY DEF Assign
  <1>4. UNCHANGED <<status, inbox, mqtt>>
    BY DEF Assign
  <1>5. \A u : BeingAssigned(u) => u = t \/ BeingAssigned(u)'
    BY <1>1 DEF Others, BeingAssigned
  <1> HIDE DEF a, t
  <1>6. agvCurrentTask'[a] = t /\ \A b \in Agvs : b # a => agvCurrentTask'[b] = agvCurrentTask[b]
    BY <1>1, <1>3 DEF Typed, TypeOK
  <1>7. ReportsInOrder'
    <2>1. ASSUME NEW b \in Agvs
          PROVE Ordered(inbox[b], agvCurrentTask'[b]) /\ (mqtt.agv = b => Ending(inbox[b]))
      <3>1. Ordered(inbox[b], agvCurrentTask[b]) /\ (mqtt.agv = b => Ending(inbox[b]))
        BY DEF Reported, ReportsInOrder
      <3>2. CASE b = a
        BY <1>2, <3>1, <3>2, OrderedEmpty
      <3>3. CASE b # a
        BY <1>6, <3>1, <3>3
      <3>4. QED
        BY <3>2, <3>3
    <2>2. QED
      BY <1>4, <2>1 DEF ReportsInOrder
  <1>8. NoOrphanTask'
    <2>1. ASSUME NEW u \in TaskIds, u # t, status[u] \notin Ends \cup {"none"}
          PROVE  (\E b \in Agvs : agvCurrentTask'[b] = u) \/ BeingAssigned(u)' \/ BeingEnded(u)'
      <3>1. CASE \E b \in Agvs : agvCurrentTask[b] = u
        <4>1. PICK b \in Agvs : agvCurrentTask[b] = u
          BY <3>1
        <4>2. b # a
          BY <1>2, <2>1, <4>1
        <4>3. QED
          BY <1>6, <4>1, <4>2
      <3>2. CASE BeingAssigned(u) \/ BeingEnded(u)
        BY <1>4, <1>5, <2>1, <3>2 DEF BeingEnded
      <3>3. QED
        BY <2>1, <3>1, <3>2 DEF Reported, NoOrphanTask
    <2>2. QED
      BY <1>1, <1>4, <1>6, <2>1 DEF NoOrphanTask
  <1>9. QED
    BY <1>7, <1>8 DEF Reported

LEMMA ReceiveReported ==
    ASSUME Typed, Reported, NEW a \in Agvs, Receive(a)
    PROVE  Reported'
  <1> DEFINE m == Head(inbox[a])
  <1>1. /\ inbox[a] \in Seq(Messages) /\ inbox[a] # <<>> /\ UNCHANGED agvCurrentTask
        /\ Ordered(inbox[a], agvCurrentTask[a])
    BY DEF Receive, Typed, TypeOK, Reported, ReportsInOrder
  <1> req' = req /\ mqtt = NoMessage
    BY DEF Receive
  <1>2. /\ inbox' = [inbox EXCEPT ![a] = Tail(@)]
        /\ Steps(m) = <<>> => mqtt' = NoMessage
        /\ Steps(m) # <<>> => mqtt'.agv = a
    BY ReceiveEffect
  <1>3. /\ Ordered(Tail(inbox[a]), agvCurrentTask[a])
        /\ m.state \notin Ends => agvCurrentTask[a] = m.task
        /\ Steps(m) # <<>> => Ending(Tail(inbox[a]))
    BY <1>1, OrderedTail
  <1>4. status' \in {status, [status EXCEPT ![m.task] = m.state]}
    BY DEF Receive
  <1> HIDE DEF m
  <1>5. inbox'[a] = Tail(inbox[a]) /\ \A b \in Agvs : b # a => inbox'[b] = inbox[b]
    BY <1>2 DEF Typed, TypeOK
  <1>6. ReportsInOrder'
    <2>1. ASSUME NEW b \in Agvs
          PROVE  Ordered(inbox'[b], agvCurrentTask[b]) /\ (mqtt'.agv = b => Ending(inbox'[b]))
      <3>1. Ordered(inbox[b], agvCurrentTask[b])
        BY DEF Reported, ReportsInOrder
      <3>2. mqtt'.agv = b => Steps(m) # <<>> /\ b = a
        BY <1>2 DEF NoMessage
      <3>3. QED
        BY <1>3, <1>5, <3>1, <3>2
    <2>2. QED
      BY <1>1, <2>1 DEF ReportsInOrder
  <1>7. NoOrphanTask'
    <2>1. \A t \in TaskIds : status'[t] \notin Ends \cup {"none"} =>
            status[t] \notin Ends \cup {"none"} \/ \E b \in Agvs : agvCurrentTask[b] = t
      BY <1>3, <1>4 DEF Typed, TypeOK
    <2>2. ASSUME NEW u \in TaskIds PROVE ~BeingEnded(u) /\ (BeingAssigned(u) => BeingAssigned(u)')
      BY DEF BeingEnded, BeingAssigned, NoMessage
    <2>3. QED
      BY <1>1, <2>1, <2>2 DEF Reported, NoOrphanTask
  <1>8. QED
    BY <1>6, <1>7 DEF Reported

LEMMA FreeAgvReported ==
    ASSUME Typed, Reported, FreeAgv
    PROVE  Reported'
  <1> DEFINE a == mqtt.agv
             t == agvCurrentTask[a]
  <1>1. /\ a \in Agvs /\ mqtt'.agv \in {a, NoAgv} /\ UNCHANGED <<status, inbox, req>>
        /\ mqtt.task = NoTask /\ mqtt'.task = t
        /\ agvCurrentTask' = [agvCurrentTask EXCEPT ![a] = NoTask]
    BY FreeAgvEffect DEF FreeAgv, NoMessage
  <1> HIDE DEF a
  <1>2. agvCurrentTask'[a] = NoTask /\ \A b \in Agvs : b # a => agvCurrentTask'[b] = agvCurrentTask[b]
    BY <1>1 DEF Typed, TypeOK
  <1>3. ReportsInOrder'
    <2>1. ASSUME NEW b \in Agvs
          PROVE Ordered(inbox[b], agvCurrentTask'[b]) /\ (mqtt'.agv = b => Ending(inbox[b]))
      <3>1. Ordered(inbox[b], agvCurrentTask[b]) /\ (a = b => Ending(inbox[b]))
        BY DEF Reported, ReportsInOrder, a
      <3>2. QED
        BY <1>1, <1>2, <3>1, EndingOrdered
    <2>2. QED
      BY <1>1, <2>1 DEF ReportsInOrder
  <1>4. NoOrphanTask'
    <2>1. ASSUME NEW u \in TaskIds, status[u] \notin Ends \cup {"none"}
          PROVE  (\E b \in Agvs : agvCurrentTask'[b] = u) \/ BeingAssigned(u)' \/ BeingEnded(u)'
      <3>1. CASE \E b \in Agvs : agvCurrentTask[b] = u
        <4>1. PICK b \in Agvs : agvCurrentTask[b] = u
          BY <3>1
        <4>2. CASE b = a
          BY <1>1, <4>1, <4>2 DEF BeingEnded
        <4>3. CASE b # a
          BY <1>2, <4>1, <4>3
        <4>4. QED
          BY <4>2, <4>3
      <3>2. CASE BeingAssigned(u)
        BY <1>1, <3>2 DEF BeingAssigned
      <3>3. ~BeingEnded(u)
        BY <1>1 DEF BeingEnded
      <3>4. QED
        BY <2>1, <3>1, <3>2, <3>3 DEF Reported, NoOrphanTask
    <2>2. QED
      BY <1>1, <2>1 DEF NoOrphanTask
  <1>5. QED
    BY <1>3, <1>4 DEF Reported

LEMMA EndTaskReported ==
    ASSUME Typed, Reported, EndTask
    PROVE  Reported'
  <1>1. /\ mqtt'.agv \in {mqtt.agv, NoAgv} /\ UNCHANGED <<agvCurrentTask, inbox, req>>
        /\ mqtt.task \in TaskIds
    BY EndTaskEffect DEF EndTask, NoMessage
  <1>2. PICK e \in Ends : status' = IF status[mqtt.task] = "none" THEN status
                                   ELSE [status EXCEPT ![mqtt.task] = e]
    BY EndTaskEffect
  <1>3. /\ \A u \in TaskIds : u # mqtt.task => status'[u] = status[u]
        /\ status'[mqtt.task] \in Ends \cup {"none"}
    BY <1>1, <1>2 DEF Typed, TypeOK
  <1>4. ReportsInOrder'
    <2>1. \A b \in Agvs : mqtt'.agv = b => mqtt.agv = b
      BY <1>1
    <2>2. QED
      BY <1>1, <2>1 DEF Reported, ReportsInOrder
  <1>5. NoOrphanTask'
    <2>1. ASSUME NEW u \in TaskIds, status'[u] \notin Ends \cup {"none"}
          PROVE  (\E b \in Agvs : agvCurrentTask'[b] = u) \/ BeingAssigned(u)'
      <3>1. u # mqtt.task /\ status[u] \notin Ends \cup {"none"}
        BY <1>3, <2>1
      <3>2. (\E b \in Agvs : agvCurrentTask[b] = u) \/ BeingAssigned(u)
        BY <3>1 DEF Reported, NoOrphanTask, BeingEnded
      <3>3. QED
        BY <1>1, <3>2 DEF BeingAssigned
    <2>2. QED
      BY <2>1 DEF NoOrphanTask
  <1>6. QED
    BY <1>4, <1>5 DEF Reported

LEMMA StepReported ==
    Orderly /\ ReportsEnd /\ Typed /\ Cycle /\ Reported /\ [Next]_vars => Reported'
  <1> SUFFICES ASSUME Orderly, ReportsEnd, Typed, Cycle, Reported, [Next]_vars PROVE Reported'
    OBVIOUS
  <1>1. CASE \/ UNCHANGED vars
             \/ \E a \in Agvs, online \in BOOLEAN : Connection(a, online)
             \/ \E h \in Threads, a \in Agvs, path \in Paths : Request(h, a, path)
             \/ \E h \in Threads : \/ LockNext(h) \/ LockRefused(h) \/ LockUndo(h)
                                   \/ Send(h) \/ SendThrows(h)
    <2>1. UNCHANGED <<status, agvCurrentTask, mqtt, inbox>>
      BY <1>1 DEF vars, dispatcher, agv, Connection, Request, LockNext, LockRefused, LockUndo, Send, SendThrows
    <2>2. ASSUME NEW t PROVE BeingAssigned(t) => BeingAssigned(t)'
      <3>1. CASE req' = req
        BY <3>1 DEF BeingAssigned
      <3>2. ASSUME NEW h \in Threads, NEW a \in Agvs, NEW path \in Paths, Request(h, a, path)
            PROVE  BeingAssigned(t) => BeingAssigned(t)'
        <4>1. Others(h) /\ req[h].pc # "current"
          BY <3>2, RequestEffect DEF Request
        <4>2. QED
          BY <4>1, AssignedStill
      <3>3. ASSUME NEW h \in Threads,
                   LockNext(h) \/ LockRefused(h) \/ LockUndo(h) \/ Send(h) \/ SendThrows(h)
            PROVE  BeingAssigned(t) => BeingAssigned(t)'
        <4>1. Others(h)
          BY <3>3, LockNextEffect, LockRefusedEffect, LockUndoEffect, SendEffect, SendThrowsEffect
        <4>2. req[h].pc # "current"
          BY <3>3 DEF LockNext, LockRefused, LockUndo, Send, SendThrows
        <4>3. QED
          BY <4>1, <4>2, AssignedStill
      <3>4. QED
        BY <1>1, <3>1, <3>2, <3>3 DEF vars, Connection
    <2>3. QED
      BY <2>1, <2>2 DEF Reported, ReportsInOrder, NoOrphanTask, BeingEnded
  <1>2. CASE ReleaseAll
    <2>1. mqtt'.agv \in {mqtt.agv, NoAgv}
      BY <1>2, NextStepHandles DEF Typed, ReleaseAll, NoMessage
    <2>2. UNCHANGED <<status, agvCurrentTask, inbox, req>> /\ mqtt.task = NoTask
      BY <1>2 DEF ReleaseAll, Typed, Handling, NoMessage
    <2>3. ReportsInOrder'
      BY <2>1, <2>2 DEF Reported, ReportsInOrder
    <2>4. NoOrphanTask'
      BY <2>2 DEF Reported, NoOrphanTask, BeingAssigned, BeingEnded
    <2>5. QED
      BY <2>3, <2>4 DEF Reported
  <1>3. ASSUME NEW h \in Threads, StoreTask(h) \/ Assign(h) PROVE Reported'
    BY <1>3, StoreTaskReported, AssignReported
  <1>4. CASE HandlerStep
    BY <1>2, <1>4, ReceiveReported, FreeAgvReported, EndTaskReported DEF HandlerStep
  <1>5. ASSUME NEW a \in Agvs, AgvStep(a) PROVE Reported'
    BY <1>5, AgvReported
  <1>6. QED
    BY <1>1, <1>2, <1>3, <1>4, <1>5 DEF Next, RequestStep
=============================================================================
