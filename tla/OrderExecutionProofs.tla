------------------------ MODULE OrderExecutionProofs ------------------------
(* OrderExecution for any number of orders, threads and commands, and for    *)
(* routes of any length that may pass a node more than once.                 *)
EXTENDS OrderExecution, SequenceTheorems, WellFoundedInduction, TLAPS

-----------------------------------------------------------------------------
(* Types, with what belongs together in a record *)

IsMove(o, i) == o \in Orders /\ i \in 1..Len(Route[o])

Statuses == [state : AgvStates, id : AnyKnown, msg : AnyOrder, plan : AnyKnown, index : Nat]

\* A thread that executes a step has one; the step it begins may lie behind the end.
Executing == {"set", "move", "wait", "arrive", "act", "acting"}
Between == {"off", "check", "told", "error", "cancel"}
Works ==
    {w \in [pc : Between \cup Executing, order : AnyOrder, step : Nat] :
        /\ w.pc # "off" => w.order \in Orders /\ w.step # 0
        /\ w.pc \in Executing => w.step <= Steps(w.order)
        /\ w.pc \in {"move", "wait", "arrive"} => w.step <= Len(Route[w.order])}

Movements(n) ==
    {m \in [id : Nat, order : AnyOrder, step : Nat, index : Nat, done : BOOLEAN,
            waiter : Threads \cup {NoThread, Resumer}] :
        m # NoMove => m.id \in 1..n /\ IsMove(m.order, m.step) /\ m.waiter \in Threads \cup {Resumer}}

Drives(n) ==
    {d \in [id : Nat, order : AnyOrder, step : Nat] :
        d # NoDrive => d.id \in 1..n /\ IsMove(d.order, d.step)}

Snapshots ==
    {s \in [index : Nat, order : AnyOrder, step : Nat, known : BOOLEAN] :
        s.step # 0 => IsMove(s.order, s.step)}

Results(n) == SUBSET [id : 1..n, ok : BOOLEAN]

ActionTyped ==
    /\ act \in [thread : Threads \cup {NoThread}, stage : {"queued", "stages", "last"}, paused : BOOLEAN]
    /\ act # NoAction => act.thread \in Threads /\ threads[act.thread].pc = "acting"

Typed ==
    /\ moves \in Nat /\ issued \in Nat
    /\ mqtt \in MqttStates /\ timer \in {"idle", "charging"}
    /\ unstored \in Nat /\ emergency \in BOOLEAN
    /\ taken \subseteq Orders
    /\ agv \in Statuses
    /\ threads \in [Threads -> Works]
    /\ move \in Movements(moves)
    /\ robot \in Drives(moves)
    /\ snapshot \in Snapshots
    /\ results \in Results(moves)
    /\ ActionTyped
    /\ reported \in [Known -> Seq(Outcomes)]
    /\ done \in [Orders -> SUBSET Nat] /\ \A o \in Orders : done[o] \subseteq 1..Steps(o)

-----------------------------------------------------------------------------
(* One outcome *)

\* Nothing can be resumed and nothing is cancelled by a command.
Uncancelled == Commands \cap {"RESUME", "CANCEL"} = {}

Live(h) == threads[h].pc \notin {"off", "told", "cancel"}
Telling(h) == threads[h].pc = "told"

\* Of the order a live thread executes nothing has been reported.  It is the
\* AGV's order, unless the AGV was sent to charge.
LiveUnreported ==
    \A h \in Threads : Live(h) =>
        /\ threads[h].order \in taken /\ reported[threads[h].order] = <<>>
        /\ agv.id \in {threads[h].order, ChargeOrder}

\* A thread that has yet to report an order as completed has it reported as finished.
TellingFinished ==
    \A h \in Threads : Telling(h) =>
        threads[h].order \in taken /\ reported[threads[h].order] = <<"FINISHED">>

OneLive == \A h, k \in Threads : Live(h) /\ Live(k) => h = k
OneTelling ==
    \A h, k \in Threads : Telling(h) /\ Telling(k) /\ threads[h].order = threads[k].order => h = k

\* An order that was accepted waits for its thread alone.
AcceptedAlone == mqtt = "accepted" =>
    /\ \A h \in Threads : ~Live(h)
    /\ agv.msg \in taken /\ reported[agv.msg] = <<>>
    /\ agv.id \in {agv.msg, ChargeOrder}

Alone ==
    /\ LiveUnreported /\ TellingFinished
    /\ OneLive /\ OneTelling /\ AcceptedAlone
    /\ OutcomesAgree
    /\ \A o \in Orders \ taken : reported[o] = <<>>
    /\ move # NoMove => move.waiter # Resumer
    /\ mqtt \notin {"resumed", "cancelMove", "cancelled"}

-----------------------------------------------------------------------------
(* Steps in order *)

\* Nothing can be resumed, or there is one order only and no charging.
Focused == "RESUME" \notin Commands \/ (~LowBattery /\ \A o, p \in Orders : o = p)

\* Unless the battery is low the AGV has no order of its own.
Uncharged == ~LowBattery => agv.plan # ChargeOrder /\ timer = "idle"

Upto(o, i) == 1..i \subseteq done[o]

\* What a thread has behind it.
Behind(h) ==
    /\ threads[h].pc \in {"check", "set", "move", "wait", "act", "acting"} =>
           Upto(threads[h].order, threads[h].step - 1)
    /\ threads[h].pc = "arrive" => Upto(threads[h].order, threads[h].step)

\* The current movement belongs to the step for which its thread waits; the
\* robot may have ended it.
MoveWaited ==
    move # NoMove /\ move.waiter # Resumer =>
        /\ threads[move.waiter].pc = "wait"
        /\ threads[move.waiter].order = move.order
        /\ threads[move.waiter].step = move.step
MoveDriven == move # NoMove /\ robot # NoDrive /\ robot.id = move.id =>
    robot.order = move.order /\ robot.step = move.step
MoveDone == \A r \in results :
    move # NoMove /\ r.ok /\ r.id = move.id => move.step \in done[move.order]

\* What is driven, to be driven again or done comes behind what is done.
MovesInOrder ==
    /\ move # NoMove => Upto(move.order, move.step - 1)
    /\ robot # NoDrive => Upto(robot.order, robot.step - 1)
    /\ snapshot.step # 0 => Upto(snapshot.order, snapshot.step - 1)
    /\ MoveDriven /\ MoveDone

\* An index is the first node's or that of one that was reached.
Reached(i) == \A o \in Orders : i <= 1 \/ Upto(o, i)

IndexReached ==
    /\ "RESUME" \notin Commands => ~(move # NoMove /\ move.waiter = Resumer)
    /\ "RESUME" \in Commands => Reached(agv.index) /\ Reached(snapshot.index) /\ Reached(move.index)

InOrder ==
    /\ DoneInOrder
    /\ \A h \in Threads : Behind(h)
    /\ MoveWaited
    /\ MovesInOrder
    /\ IndexReached

-----------------------------------------------------------------------------
(* Routes *)

LEMMA RouteNumbers ==
    ASSUME NEW o \in Known
    PROVE  Len(Route[o]) \in Nat /\ DOMAIN Route[o] = 1..Len(Route[o])
<1>1. Route[o] \in Seq(NodesOf(o))  BY RouteAssumption
<1> QED  BY <1>1

LEMMA StepNumbers ==
    ASSUME NEW o \in Orders
    PROVE  /\ Len(Route[o]) \in Nat /\ ActionCount[o] \in Nat
           /\ DOMAIN Route[o] = 1..Len(Route[o])
           /\ Steps(o) \in Nat /\ Len(Route[o]) <= Steps(o)
<1>1. ActionCount[o] \in Nat  BY RouteAssumption
<1>2. Len(Route[o]) \in Nat /\ DOMAIN Route[o] = 1..Len(Route[o])  BY RouteNumbers DEF Known
<1> QED  BY <1>1, <1>2 DEF Steps

LessThan == {ss \in Nat \X Nat : ss[1] < ss[2]}

LEMMA LessThanWellFounded == IsWellFoundedOn(LessThan, Nat)
BY NatLessThanWellFounded, Zenon DEF OpToRel, LessThan

\* A set of numbers that is not empty has a least one.
LEMMA LeastNumber ==
    ASSUME NEW T \in SUBSET Nat, T # {}
    PROVE  \E i \in T : \A j \in T : i <= j
<1>1. \E i \in T : \A j \in T : ~ (<<j, i>> \in LessThan)
  BY WFMin, LessThanWellFounded
<1>2. PICK i \in T : \A j \in T : ~ (<<j, i>> \in LessThan)  BY <1>1
<1>3. ASSUME NEW j \in T  PROVE i <= j
  <2>1. ~ (<<j, i>> \in LessThan)  BY <1>2
  <2>2. j \in Nat /\ i \in Nat  OBVIOUS
  <2>3. ~ (j < i)  BY <2>1, <2>2 DEF LessThan
  <2> QED  BY <2>2, <2>3
<1> QED  BY <1>3

\* Where a node of an order is found: nowhere, or not behind any place it has.
LEMMA IndexFound ==
    ASSUME NEW o \in Known, NEW node
    PROVE  /\ IndexIn(o, node) \in Nat
           /\ \A i \in DOMAIN Route[o] : Route[o][i] = node => IndexIn(o, node) <= i
<1> DEFINE Places == {i \in DOMAIN Route[o] : Route[o][i] = node}
<1>0. DOMAIN Route[o] = 1..Len(Route[o]) /\ Len(Route[o]) \in Nat  BY RouteNumbers
<1>1. CASE Places = {}
  <2>1. IndexIn(o, node) = 0  BY <1>1 DEF IndexIn
  <2> QED  BY <2>1, <1>1
<1>2. CASE Places # {}
  <2>1. Places \in SUBSET Nat  BY <1>0
  <2>2. PICK i \in Places : \A j \in Places : i <= j  BY <1>2, <2>1, LeastNumber
  <2>3. \A j \in 1..(i - 1) : Route[o][j] # node  BY <2>2, <1>0
  <2> DEFINE First(k) == k \in DOMAIN Route[o] /\ Route[o][k] = node
                         /\ \A j \in 1..(k - 1) : Route[o][j] # node
  <2>4. First(i)  BY <2>3, <2>2
  <2>5. \E k \in DOMAIN Route[o] : Route[o][k] = node  BY <2>2
  <2>6. IndexIn(o, node) = CHOOSE k \in DOMAIN Route[o] :
           Route[o][k] = node /\ \A j \in 1..(k - 1) : Route[o][j] # node
    BY <2>5 DEF IndexIn
  <2>7. First(IndexIn(o, node))  BY <2>4, <2>6
  <2>8. IndexIn(o, node) \in Nat  BY <2>7, <1>0
  <2>9. ASSUME NEW j \in DOMAIN Route[o], Route[o][j] = node  PROVE IndexIn(o, node) <= j
    <3>1. ~ (j \in 1..(IndexIn(o, node) - 1))  BY <2>7, <2>9
    <3>2. j \in Nat /\ j >= 1  BY <1>0
    <3> QED  BY <3>1, <3>2, <2>8
  <2> QED  BY <2>8, <2>9
<1> QED  BY <1>1, <1>2

-----------------------------------------------------------------------------
(* Type correctness *)

LEMMA NobodyIsNone ==
    /\ NoOrder \notin Known /\ NoOrder \notin Orders /\ ChargeOrder \notin Orders
    /\ NoThread \notin Threads /\ Resumer \notin Threads
BY NobodyAssumption DEF Known

LEMMA TypedIsTypeOK ==
    ASSUME Typed
    PROVE  TypeOK
<1>1. agv \in [state : AgvStates, id : AnyKnown, msg : AnyOrder, plan : AnyKnown, index : Nat]
  BY DEF Typed, Statuses
<1>2. threads \in [Threads -> [pc : {"off", "check", "set", "move", "wait", "arrive",
                                      "act", "acting", "told", "error", "cancel"},
                                order : AnyOrder, step : Nat]]
  <2>1. \A w \in Works : w \in [pc : {"off", "check", "set", "move", "wait", "arrive",
                                      "act", "acting", "told", "error", "cancel"},
                                order : AnyOrder, step : Nat]
    BY DEF Works, Executing, Between
  <2> QED  BY <2>1 DEF Typed
<1>3. move \in [id : Nat, order : AnyOrder, step : Nat, index : Nat, done : BOOLEAN,
                 waiter : Threads \cup {NoThread, Resumer}]
  BY DEF Typed, Movements
<1>4. snapshot \in [index : Nat, order : AnyOrder, step : Nat, known : BOOLEAN]
  BY DEF Typed, Snapshots
<1>5. robot \in [id : Nat, order : AnyOrder, step : Nat]  BY DEF Typed, Drives
<1>6. results \subseteq [id : 1..moves, ok : BOOLEAN]  BY DEF Typed, Results
<1>7. act \in [thread : Threads \cup {NoThread}, stage : {"queued", "stages", "last"}, paused : BOOLEAN]
  BY DEF Typed, ActionTyped
<1> QED  BY <1>1, <1>2, <1>3, <1>4, <1>5, <1>6, <1>7 DEF Typed, TypeOK

LEMMA InitTyped ==
    ASSUME Init
    PROVE  Typed
<1>1. agv \in Statuses  BY DEF Init, Statuses, AgvStates, AnyOrder, AnyKnown
<1>2. NoWork \in Works  BY DEF NoWork, Works, Executing, Between, AnyOrder
<1>3. threads \in [Threads -> Works]  BY <1>2 DEF Init
<1>4. move \in Movements(moves)  BY DEF Init, Movements, NoMove, AnyOrder
<1>5. robot \in Drives(moves)  BY DEF Init, Drives, NoDrive, AnyOrder
<1>6. snapshot \in Snapshots  BY DEF Init, Snapshots, NoSnapshot, AnyOrder
<1>7. results \in Results(moves)  BY DEF Init, Results
<1>8. ActionTyped  BY DEF Init, ActionTyped, NoAction
<1>9. reported \in [Known -> Seq(Outcomes)]
  <2>1. <<>> \in Seq(Outcomes)  OBVIOUS
  <2> QED  BY <2>1 DEF Init
<1>10. done \in [Orders -> SUBSET Nat] /\ \A o \in Orders : done[o] \subseteq 1..Steps(o)
  BY DEF Init
<1> QED  BY <1>1, <1>3, <1>4, <1>5, <1>6, <1>7, <1>8, <1>9, <1>10 DEF Init, Typed, MqttStates

\* What a thread may become.
LEMMA WorkGoes ==
    ASSUME NEW w \in Works, w.pc # "off",
           NEW pc \in Between \cup Executing,
           pc \in Executing => w.step <= Steps(w.order),
           pc \in {"move", "wait", "arrive"} => w.step <= Len(Route[w.order])
    PROVE  [w EXCEPT !.pc = pc] \in Works
BY DEF Works, Executing, Between

LEMMA WorkBegins ==
    ASSUME NEW o \in Orders, NEW i \in Nat, i # 0
    PROVE  [pc |-> "check", order |-> o, step |-> i] \in Works
BY DEF Works, Executing, Between, AnyOrder

LEMMA WorkGoesOn ==
    ASSUME NEW w \in Works, w.pc # "off"
    PROVE  [w EXCEPT !.pc = "check", !.step = @ + 1] \in Works
<1> DEFINE Kinds == Between \cup Executing
<1> DEFINE r == [w EXCEPT !.pc = "check", !.step = @ + 1]
<1>1. w \in [pc : Kinds, order : AnyOrder, step : Nat]  BY DEF Works
<1>2. w.order \in Orders /\ w.step + 1 \in Nat /\ w.step + 1 # 0  BY <1>1 DEF Works
<1>3. "check" \in Kinds  BY DEF Between
<1> HIDE DEF Kinds
<1>4. r \in [pc : Kinds, order : AnyOrder, step : Nat]  BY <1>1, <1>2, <1>3
<1>5. r.pc = "check" /\ r.order = w.order /\ r.step = w.step + 1  BY <1>1
<1> HIDE DEF r
<1> USE DEF Kinds
<1>6. r \in Works  BY <1>2, <1>4, <1>5 DEF Works, Executing, Between
<1> QED  BY <1>6 DEF r

LEMMA WorkEnds == NoWork \in Works
BY DEF NoWork, Works, Executing, Between, AnyOrder

LEMMA WorkOf ==
    ASSUME Typed, NEW h \in Threads, threads[h].pc # "off"
    PROVE  /\ threads[h] \in Works
           /\ threads[h].order \in Orders /\ threads[h].step \in Nat \ {0}
           /\ threads[h].pc \in Executing => threads[h].step \in 1..Steps(threads[h].order)
           /\ threads[h].pc \in {"move", "wait", "arrive"} => IsMove(threads[h].order, threads[h].step)
<1>1. threads[h] \in Works  BY DEF Typed
<1>2. threads[h].order \in Orders /\ threads[h].step \in Nat /\ threads[h].step # 0  BY <1>1 DEF Works
<1>3. Steps(threads[h].order) \in Nat /\ Len(Route[threads[h].order]) \in Nat  BY <1>2, StepNumbers
<1>4. threads[h].pc \in Executing => threads[h].step \in 1..Steps(threads[h].order)
  BY <1>1, <1>2, <1>3 DEF Works
<1>5. threads[h].pc \in {"move", "wait", "arrive"} => IsMove(threads[h].order, threads[h].step)
  BY <1>1, <1>2, <1>3 DEF Works, IsMove
<1> QED  BY <1>1, <1>2, <1>4, <1>5

\* How the steps write a thread.
LEMMA ThreadGoes ==
    ASSUME Typed, NEW h \in Threads, threads[h].pc # "off",
           NEW pc \in Between \cup Executing,
           pc \in Executing => threads[h].step <= Steps(threads[h].order),
           pc \in {"move", "wait", "arrive"} => threads[h].step <= Len(Route[threads[h].order])
    PROVE  [threads EXCEPT ![h].pc = pc] \in [Threads -> Works]
<1>1. threads \in [Threads -> Works]  BY DEF Typed
<1> DEFINE w == [threads[h] EXCEPT !.pc = pc]
<1>2. w \in Works  BY <1>1, WorkGoes
<1> QED  BY <1>1, <1>2

LEMMA ThreadGoesOn ==
    ASSUME Typed, NEW h \in Threads, threads[h].pc # "off", NextStep(h)
    PROVE  threads' \in [Threads -> Works]
<1>1. threads \in [Threads -> Works]  BY DEF Typed
<1> DEFINE w == [threads[h] EXCEPT !.pc = "check", !.step = @ + 1]
<1>2. w \in Works  BY <1>1, WorkGoesOn
<1>3. threads' = [threads EXCEPT ![h] = w]  BY <1>1 DEF NextStep
<1> QED  BY <1>1, <1>2, <1>3

LEMMA ThreadStops ==
    ASSUME Typed, NEW h \in Threads, Stop(h)
    PROVE  threads' \in [Threads -> Works]
BY WorkEnds DEF Typed, Stop

LEMMA ThreadBegins ==
    ASSUME Typed, NEW o \in Orders, NEW i \in Nat \ {0}, Spawn(o, i)
    PROVE  /\ threads' \in [Threads -> Works]
           /\ \A k \in Threads : threads[k].pc = "acting" => threads'[k] = threads[k]
<1>1. threads \in [Threads -> Works]  BY DEF Typed
<1> DEFINE w == [pc |-> "check", order |-> o, step |-> i]
<1>2. w \in Works  BY WorkBegins
<1>3. PICK h \in Threads : threads[h].pc = "off" /\ threads' = [threads EXCEPT ![h] = w]
  BY DEF Spawn, At
<1> QED  BY <1>1, <1>2, <1>3

\* The thread of the action goes on as long as the action does.
LEMMA ActionKept ==
    ASSUME ActionTyped, act' = act,
           \A k \in Threads : threads[k].pc = "acting" => threads'[k].pc = "acting"
    PROVE  ActionTyped'
BY DEF ActionTyped

LEMMA ReportTyped ==
    ASSUME Typed, NEW o \in AnyKnown, NEW outcome \in Outcomes
    PROVE  Report(o, outcome) \in [Known -> Seq(Outcomes)]
<1>1. reported \in [Known -> Seq(Outcomes)]  BY DEF Typed
<1>2. CASE o = NoOrder  BY <1>1, <1>2 DEF Report
<1>3. CASE o # NoOrder
  <2>1. o \in Known  BY <1>3 DEF AnyKnown
  <2>2. Append(reported[o], outcome) \in Seq(Outcomes)  BY <1>1, <2>1
  <2>3. Report(o, outcome) = [reported EXCEPT ![o] = Append(reported[o], outcome)]
    BY <1>3 DEF Report
  <2> QED  BY <1>1, <2>1, <2>2, <2>3
<1> QED  BY <1>2, <1>3

LEMMA DoneTyped ==
    ASSUME Typed, NEW o \in Orders, NEW i \in 1..Steps(o),
           done' = [done EXCEPT ![o] = @ \cup {i}]
    PROVE  done' \in [Orders -> SUBSET Nat] /\ \A p \in Orders : done'[p] \subseteq 1..Steps(p)
<1>1. done \in [Orders -> SUBSET Nat] /\ \A p \in Orders : done[p] \subseteq 1..Steps(p)
  BY DEF Typed
<1>2. Steps(o) \in Nat  BY StepNumbers
<1>3. i \in Nat  BY <1>2
<1> QED  BY <1>1, <1>3

LEMMA ArrivalTyped ==
    ASSUME Typed, NEW o \in Orders, NEW i
    PROVE  StatusAfterArrival(o, i) \in Statuses
<1>1. agv \in Statuses  BY DEF Typed
<1>2. agv.plan # NoOrder => agv.plan \in Known  BY <1>1 DEF Statuses, AnyKnown
<1>3. CASE agv.plan = NoOrder  BY <1>1, <1>3 DEF StatusAfterArrival
<1>4. CASE agv.plan # NoOrder
  <2> DEFINE n == IndexIn(agv.plan, Route[o][i])
  <2>1. n \in Nat  BY <1>2, <1>4, IndexFound
  <2>2. StatusAfterArrival(o, i) = [agv EXCEPT !.index = n]  BY <1>4 DEF StatusAfterArrival
  <2> HIDE DEF n
  <2>3. [agv EXCEPT !.index = n] \in Statuses  BY <1>1, <2>1 DEF Statuses
  <2> QED  BY <2>2, <2>3
<1> QED  BY <1>3, <1>4

\* A plan is built for an order only.
LEMMA PlanIsBuilt ==
    ASSUME Typed, ~PlanFails
    PROVE  agv.msg \in Orders
BY DEF Typed, Statuses, PlanFails, AnyOrder

\* A thread that does not act does not hold up the action of another one.
LEMMA GotoTyped ==
    ASSUME Typed, NEW h \in Threads, threads[h].pc \notin {"off", "acting"},
           NEW pc \in Between \cup Executing,
           pc \in Executing => threads[h].step <= Steps(threads[h].order),
           pc \in {"move", "wait", "arrive"} => threads[h].step <= Len(Route[threads[h].order]),
           Goto(h, pc)
    PROVE  /\ threads' \in [Threads -> Works]
           /\ act' = act => ActionTyped'
<1>1. threads' \in [Threads -> Works]  BY ThreadGoes DEF Goto
<1>2. threads \in [Threads -> Works]  BY DEF Typed
<1>3. \A k \in Threads : threads[k].pc = "acting" => threads'[k].pc = "acting"  BY <1>2 DEF Goto
<1> QED  BY <1>1, <1>3, ActionKept DEF Typed

LEMMA StopTyped ==
    ASSUME Typed, NEW h \in Threads, threads[h].pc # "acting", Stop(h), act' = act
    PROVE  threads' \in [Threads -> Works] /\ ActionTyped'
<1>1. threads' \in [Threads -> Works]  BY ThreadStops
<1>2. threads \in [Threads -> Works]  BY DEF Typed
<1>3. \A k \in Threads : threads[k].pc = "acting" => threads'[k].pc = "acting"  BY <1>2 DEF Stop
<1> QED  BY <1>1, <1>3, ActionKept DEF Typed

LEMMA NextStepTyped ==
    ASSUME Typed, NEW h \in Threads, threads[h].pc \notin {"off", "acting"}, NextStep(h), act' = act
    PROVE  threads' \in [Threads -> Works] /\ ActionTyped'
<1>1. threads' \in [Threads -> Works]  BY ThreadGoesOn
<1>2. threads \in [Threads -> Works]  BY DEF Typed
<1>3. \A k \in Threads : threads[k].pc = "acting" => threads'[k].pc = "acting"
  BY <1>2 DEF NextStep
<1> QED  BY <1>1, <1>3, ActionKept DEF Typed

LEMMA SpawnTyped ==
    ASSUME Typed, NEW o \in Orders, NEW i \in Nat \ {0}, Spawn(o, i), act' = act
    PROVE  threads' \in [Threads -> Works] /\ ActionTyped'
<1>1. threads' \in [Threads -> Works]
      /\ \A k \in Threads : threads[k].pc = "acting" => threads'[k].pc = "acting"
  BY ThreadBegins
<1> QED  BY <1>1, ActionKept DEF Typed

LEMMA AcceptOrderTyped ==
    ASSUME Typed, NEW o \in Orders, AcceptOrder(o)
    PROVE  Typed'
<1>1. agv' \in Statuses  BY DEF Typed, AcceptOrder, Statuses, AnyOrder, AnyKnown, Known
<1>2. taken' \subseteq Orders  BY DEF Typed, AcceptOrder
<1>3. mqtt' \in MqttStates  BY DEF AcceptOrder, MqttStates
<1>4. UNCHANGED <<threads, act, move, moves, robot, snapshot, timer, issued, results, unstored, emergency, reported, done>>
  BY DEF AcceptOrder, movement
<1>5. ActionTyped'  BY <1>4 DEF Typed, ActionTyped
<1> QED  BY <1>1, <1>2, <1>3, <1>4, <1>5 DEF Typed

LEMMA ExecuteTyped ==
    ASSUME Typed, Execute
    PROVE  Typed'
<1>1. threads' \in [Threads -> Works] /\ ActionTyped'
  <2>1. act' = act  BY DEF Execute
  <2>2. CASE PlanFails
    <3>1. threads' = threads  BY <2>2 DEF Execute
    <3> QED  BY <2>1, <3>1 DEF Typed, ActionTyped
  <2>3. CASE ~PlanFails
    <3>1. Spawn(agv.msg, 1) /\ agv.msg \in Orders  BY <2>3, PlanIsBuilt DEF Execute
    <3> QED  BY <2>1, <3>1, SpawnTyped
  <2> QED  BY <2>2, <2>3
<1>2. mqtt' \in MqttStates  BY DEF Execute, MqttStates
<1>3. UNCHANGED <<agv, move, moves, robot, snapshot, timer, issued, results, unstored, emergency, taken, reported, done>>
  BY DEF Execute, movement, ghosts
<1> QED  BY <1>1, <1>2, <1>3 DEF Typed

LEMMA ChargingTyped ==
    ASSUME Typed, LowFound \/ AutoCharge
    PROVE  Typed'
<1>1. UNCHANGED <<threads, act, move, moves, robot, snapshot, mqtt, issued, results, unstored, emergency, taken, reported, done>>
  BY DEF LowFound, AutoCharge, movement, ghosts
<1>2. agv' \in Statuses
  <2>1. CASE LowFound  BY <2>1 DEF Typed, LowFound
  <2>2. CASE AutoCharge  BY <2>2 DEF Typed, AutoCharge, Statuses, AgvStates, AnyKnown, Known
  <2> QED  BY <2>1, <2>2
<1>3. timer' \in {"idle", "charging"}  BY DEF LowFound, AutoCharge
<1>4. ActionTyped'  BY <1>1 DEF Typed, ActionTyped
<1> QED  BY <1>1, <1>2, <1>3, <1>4 DEF Typed

LEMMA CompleteTyped ==
    ASSUME Typed, NEW h \in Threads, Complete(h)
    PROVE  Typed'
<1>0. threads[h].pc = "check"  BY DEF Complete, At
<1>1. threads' \in [Threads -> Works] /\ ActionTyped'
  BY <1>0, GotoTyped DEF Complete, TellFinished, Executing, Between
<1>2. agv' \in Statuses  BY DEF Typed, Complete, TellFinished, Statuses, AgvStates
<1>3. reported' \in [Known -> Seq(Outcomes)]
  <2>1. threads[h].order \in AnyKnown  BY <1>0, WorkOf DEF AnyKnown, Known
  <2> QED  BY <2>1, ReportTyped DEF Complete, TellFinished, Outcomes
<1>4. UNCHANGED <<move, moves, robot, snapshot, mqtt, timer, issued, results, unstored, emergency, taken, done>>
  BY DEF Complete, TellFinished, movement
<1> QED  BY <1>1, <1>2, <1>3, <1>4 DEF Typed

LEMMA TellCompletedTyped ==
    ASSUME Typed, NEW h \in Threads, TellCompleted(h)
    PROVE  Typed'
<1>0. threads[h].pc = "told"  BY DEF TellCompleted, At
<1>1. threads' \in [Threads -> Works] /\ ActionTyped'  BY <1>0, StopTyped DEF TellCompleted
<1>2. reported' \in [Known -> Seq(Outcomes)]
  <2>1. threads[h].order \in AnyKnown  BY <1>0, WorkOf DEF AnyKnown, Known
  <2> QED  BY <2>1, ReportTyped DEF TellCompleted, Outcomes
<1>3. UNCHANGED <<agv, move, moves, robot, snapshot, mqtt, timer, issued, results, unstored, emergency, taken, done>>
  BY DEF TellCompleted, movement
<1> QED  BY <1>1, <1>2, <1>3 DEF Typed

LEMMA CheckTyped ==
    ASSUME Typed, NEW h \in Threads, Check(h)
    PROVE  Typed'
<1>0. threads[h].pc = "check" /\ threads[h].step <= Steps(threads[h].order) /\ act' = act
  BY DEF Check, At
<1>1. threads' \in [Threads -> Works] /\ ActionTyped'
  <2>1. CASE Stop(h)  BY <1>0, <2>1, StopTyped
  <2>2. CASE Goto(h, "error")  BY <1>0, <2>2, GotoTyped DEF Executing, Between
  <2>3. CASE Goto(h, "set")  BY <1>0, <2>3, GotoTyped DEF Executing, Between
  <2>4. Stop(h) \/ Goto(h, "error") \/ Goto(h, "set")  BY DEF Check
  <2> QED  BY <2>1, <2>2, <2>3, <2>4
<1>2. UNCHANGED <<agv, move, moves, robot, snapshot, mqtt, timer, issued, results, unstored, emergency, taken, reported, done>>
  BY DEF Check, movement, ghosts
<1> QED  BY <1>1, <1>2 DEF Typed

LEMMA SetStateTyped ==
    ASSUME Typed, NEW h \in Threads, SetState(h)
    PROVE  Typed'
<1>0. threads[h].pc = "set" /\ act' = act  BY DEF SetState, At
<1>1. threads[h].step \in 1..Steps(threads[h].order)  BY <1>0, WorkOf DEF Executing
<1>2. threads' \in [Threads -> Works] /\ ActionTyped'
  <2>1. CASE threads[h].step <= Len(Route[threads[h].order])
    <3>1. Goto(h, "move")  BY <2>1 DEF SetState
    <3> QED  BY <1>0, <1>1, <2>1, <3>1, GotoTyped DEF Executing, Between
  <2>2. CASE ~(threads[h].step <= Len(Route[threads[h].order]))
    <3>1. Goto(h, "act")  BY <2>2 DEF SetState
    <3> QED  BY <1>0, <1>1, <3>1, GotoTyped DEF Executing, Between
  <2> QED  BY <2>1, <2>2
<1>3. agv' \in Statuses
  <2>1. agv' = [agv EXCEPT !.state = "MOVING"] \/ agv' = [agv EXCEPT !.state = "EXECUTING"]
    BY DEF SetState
  <2> QED  BY <2>1 DEF Typed, Statuses, AgvStates
<1>4. UNCHANGED <<move, moves, robot, snapshot, mqtt, timer, issued, results, unstored, emergency, taken, reported, done>>
  BY DEF SetState, movement, ghosts
<1> QED  BY <1>2, <1>3, <1>4 DEF Typed

LEMMA AtStartNodeTyped ==
    ASSUME Typed, NEW h \in Threads, AtStartNode(h)
    PROVE  Typed'
<1>0. threads[h].pc = "move" /\ threads[h].step = 1 /\ act' = act  BY DEF AtStartNode, At
<1>1. IsMove(threads[h].order, threads[h].step) /\ threads[h].step \in 1..Steps(threads[h].order)
  BY <1>0, WorkOf DEF Executing
<1>2. threads' \in [Threads -> Works] /\ ActionTyped'
  BY <1>0, <1>1, GotoTyped DEF AtStartNode, Executing, Between, IsMove
<1>3. done' \in [Orders -> SUBSET Nat] /\ \A p \in Orders : done'[p] \subseteq 1..Steps(p)
  <2>1. threads[h].order \in Orders /\ 1 \in 1..Steps(threads[h].order)  BY <1>0, <1>1 DEF IsMove
  <2> QED  BY <2>1, DoneTyped DEF AtStartNode
<1>4. UNCHANGED <<agv, move, moves, robot, snapshot, mqtt, timer, issued, results, unstored, emergency, taken, reported>>
  BY DEF AtStartNode, movement
<1> QED  BY <1>2, <1>3, <1>4 DEF Typed

\* A command that was made keeps its number.
LEMMA NumbersKept ==
    ASSUME NEW n \in Nat
    PROVE  /\ Drives(n) \subseteq Drives(n + 1)
           /\ Results(n) \subseteq Results(n + 1)
           /\ NoMove \in Movements(n) /\ NoDrive \in Drives(n)
<1>1. 1..n \subseteq 1..(n + 1)  OBVIOUS
<1>2. Drives(n) \subseteq Drives(n + 1)  BY <1>1 DEF Drives
<1>3. Results(n) \subseteq Results(n + 1)
  <2>1. [id : 1..n, ok : BOOLEAN] \subseteq [id : 1..(n + 1), ok : BOOLEAN]  BY <1>1
  <2> QED  BY <2>1 DEF Results
<1>4. NoMove \in Movements(n)  BY DEF Movements, NoMove, AnyOrder
<1>5. NoDrive \in Drives(n)  BY DEF Drives, NoDrive, AnyOrder
<1> QED  BY <1>2, <1>3, <1>4, <1>5

LEMMA SendTyped ==
    ASSUME Typed, NEW o, NEW i, IsMove(o, i), NEW waiter \in Threads \cup {Resumer}, NEW index \in Nat,
           Send(o, i, waiter, index)
    PROVE  moves' = moves + 1 /\ moves' \in Nat /\ move' \in Movements(moves') /\ robot' \in Drives(moves')
<1>1. moves' \in Nat /\ moves' = moves + 1 /\ moves + 1 \in 1..moves'  BY DEF Send, Typed
<1>2. o \in Orders /\ i \in Nat /\ o \in AnyOrder  BY StepNumbers DEF IsMove, AnyOrder
<1>3. move' \in Movements(moves')  BY <1>1, <1>2 DEF Send, Movements
<1>4. robot' \in Drives(moves')  BY <1>1, <1>2 DEF Send, Drives
<1> QED  BY <1>1, <1>3, <1>4

LEMMA StartMoveTyped ==
    ASSUME Typed, NEW h \in Threads, StartMove(h)
    PROVE  Typed'
<1>0. threads[h].pc = "move" /\ act' = act  BY DEF StartMove, At
<1>1. IsMove(threads[h].order, threads[h].step) /\ threads[h].step \in 1..Steps(threads[h].order)
  BY <1>0, WorkOf DEF Executing
<1>2. threads' \in [Threads -> Works] /\ ActionTyped'
  BY <1>0, <1>1, GotoTyped DEF StartMove, Executing, Between, IsMove
<1>3. moves' = moves + 1 /\ moves' \in Nat /\ move' \in Movements(moves') /\ robot' \in Drives(moves')
  BY <1>1, SendTyped DEF StartMove
<1>4. UNCHANGED <<agv, snapshot, mqtt, timer, issued, results, unstored, emergency, taken, reported, done>>
  BY DEF StartMove, ghosts
<1>5. results' \in Results(moves')  BY <1>3, <1>4, NumbersKept DEF Typed
<1> QED  BY <1>2, <1>3, <1>4, <1>5 DEF Typed

LEMMA StartMoveFailsTyped ==
    ASSUME Typed, NEW h \in Threads, StartMoveFails(h)
    PROVE  Typed'
<1>0. threads[h].pc = "move" /\ act' = act  BY DEF StartMoveFails, At
<1>1. threads' \in [Threads -> Works] /\ ActionTyped'
  BY <1>0, GotoTyped DEF StartMoveFails, Executing, Between
<1>2. moves' = moves + 1 /\ moves' \in Nat /\ move' = NoMove  BY DEF StartMoveFails, Typed
<1>3. UNCHANGED <<agv, robot, snapshot, mqtt, timer, issued, results, unstored, emergency, taken, reported, done>>
  BY DEF StartMoveFails, ghosts
<1>4. results' \in Results(moves') /\ robot' \in Drives(moves') /\ move' \in Movements(moves')
  BY <1>2, <1>3, NumbersKept DEF Typed
<1> QED  BY <1>1, <1>2, <1>3, <1>4 DEF Typed

LEMMA MoveTimeoutTyped ==
    ASSUME Typed, NEW h \in Threads, MoveTimeout(h)
    PROVE  Typed'
<1>0. threads[h].pc = "wait" /\ act' = act  BY DEF MoveTimeout, At
<1>1. threads' \in [Threads -> Works] /\ ActionTyped'
  BY <1>0, GotoTyped DEF MoveTimeout, Executing, Between
<1>2. UNCHANGED <<agv, moves, robot, snapshot, mqtt, timer, issued, results, unstored, emergency, taken, reported, done>>
  BY DEF MoveTimeout, ghosts
<1>3. move' \in Movements(moves')  BY <1>2, NumbersKept DEF MoveTimeout, Typed
<1> QED  BY <1>1, <1>2, <1>3 DEF Typed

LEMMA ArriveTyped ==
    ASSUME Typed, NEW h \in Threads, Arrive(h)
    PROVE  Typed'
<1>0. threads[h].pc = "arrive" /\ act' = act  BY DEF Arrive, At
<1>1. threads' \in [Threads -> Works] /\ ActionTyped'
  <2>1. CASE Goto(h, "error")  BY <1>0, <2>1, GotoTyped DEF Executing, Between
  <2>2. CASE NextStep(h)  BY <1>0, <2>2, NextStepTyped
  <2>3. Goto(h, "error") \/ NextStep(h)  BY DEF Arrive
  <2> QED  BY <2>1, <2>2, <2>3
<1>2. agv' \in Statuses
  <2>1. threads[h].order \in Orders  BY <1>0, WorkOf
  <2> QED  BY <2>1, ArrivalTyped DEF Arrive
<1>3. UNCHANGED <<move, moves, robot, snapshot, mqtt, timer, issued, results, unstored, emergency, taken, reported, done>>
  BY DEF Arrive, movement, ghosts
<1> QED  BY <1>1, <1>2, <1>3 DEF Typed

LEMMA KeyExpiresTyped ==
    ASSUME Typed, KeyExpires
    PROVE  Typed'
<1>1. UNCHANGED <<agv, threads, moves, robot, act, snapshot, mqtt, timer, issued, results, unstored, emergency, taken, reported, done>>
  BY DEF KeyExpires, ghosts
<1>2. move' \in Movements(moves')  BY <1>1, NumbersKept DEF KeyExpires, Typed
<1>3. ActionTyped'  BY <1>1 DEF Typed, ActionTyped
<1> QED  BY <1>1, <1>2, <1>3 DEF Typed

\* The action whose thread is put off goes on to fail; the new one is that of h.
LEMMA StartActionTyped ==
    ASSUME Typed, NEW h \in Threads, StartAction(h)
    PROVE  Typed'
<1>0. threads[h].pc = "act"  BY DEF StartAction, At
<1>1. threads \in [Threads -> Works]  BY DEF Typed
<1>2. threads[h].step <= Steps(threads[h].order)  BY <1>0, <1>1, WorkOf DEF Executing
<1>3. [threads[h] EXCEPT !.pc = "acting"] \in Works  BY <1>0, <1>1, <1>2, WorkGoes DEF Executing, Between
<1>4. ASSUME NEW k \in Threads, k # h, k = act.thread
      PROVE  [threads[k] EXCEPT !.pc = "error"] \in Works
  <2>1. act # NoAction  BY <1>4, NobodyIsNone DEF NoAction
  <2>2. threads[k].pc = "acting"  BY <1>4, <2>1 DEF Typed, ActionTyped
  <2> QED  BY <1>1, <2>2, WorkGoes DEF Executing, Between
<1>5. threads' \in [Threads -> Works]  BY <1>1, <1>3, <1>4 DEF StartAction
<1>6. act' = [thread |-> h, stage |-> "queued", paused |-> FALSE]  BY DEF StartAction, NoAction
<1>7. threads'[h].pc = "acting"  BY <1>1 DEF StartAction, Works
<1>8. ActionTyped'  BY <1>6, <1>7 DEF ActionTyped
<1>9. UNCHANGED <<agv, move, moves, robot, snapshot, mqtt, timer, issued, results, unstored, emergency, taken, reported, done>>
  BY DEF StartAction, movement, ghosts
<1> QED  BY <1>5, <1>8, <1>9 DEF Typed

LEMMA ActionRunsTyped ==
    ASSUME Typed, ActionRuns
    PROVE  Typed'
<1>1. UNCHANGED <<agv, threads, move, moves, robot, snapshot, mqtt, timer, issued, results, unstored, emergency, taken, reported, done>>
  BY DEF ActionRuns, movement, ghosts
<1>2. act \in [thread : Threads \cup {NoThread}, stage : {"queued", "stages", "last"}, paused : BOOLEAN]
      /\ act.thread \in Threads /\ threads[act.thread].pc = "acting"
  BY DEF Typed, ActionTyped, ActionRuns
<1>3. \/ act' = [act EXCEPT !.stage = "stages", !.paused = FALSE]
      \/ act' = [act EXCEPT !.stage = "last"]
  BY DEF ActionRuns
<1>4. act' \in [thread : Threads \cup {NoThread}, stage : {"queued", "stages", "last"}, paused : BOOLEAN]
      /\ act'.thread = act.thread
  BY <1>2, <1>3
<1>5. ActionTyped'  BY <1>1, <1>2, <1>4 DEF ActionTyped
<1> QED  BY <1>1, <1>5 DEF Typed

LEMMA ActionDoneTyped ==
    ASSUME Typed, ActionDone
    PROVE  Typed'
<1>1. PICK h \in Threads : h = act.thread /\ threads[h].pc = "acting"
  BY DEF Typed, ActionTyped, ActionDone
<1>2. threads' \in [Threads -> Works]  BY <1>1, ThreadGoesOn DEF ActionDone
<1>3. ActionTyped'  BY DEF ActionDone, ActionTyped, NoAction
<1>4. done' \in [Orders -> SUBSET Nat] /\ \A p \in Orders : done'[p] \subseteq 1..Steps(p)
  <2>1. threads[h].order \in Orders /\ threads[h].step \in 1..Steps(threads[h].order)
    BY <1>1, WorkOf DEF Executing
  <2> QED  BY <1>1, <2>1, DoneTyped DEF ActionDone
<1>5. UNCHANGED <<agv, move, moves, robot, snapshot, mqtt, timer, issued, results, unstored, emergency, taken, reported>>
  BY DEF ActionDone, movement
<1> QED  BY <1>2, <1>3, <1>4, <1>5 DEF Typed

LEMMA ActionTimeoutTyped ==
    ASSUME Typed, NEW h \in Threads, ActionTimeout(h)
    PROVE  Typed'
<1>1. threads' \in [Threads -> Works]
  BY ThreadGoes DEF ActionTimeout, At, Goto, Executing, Between
<1>2. ActionTyped'  BY DEF ActionTimeout, ActionTyped, NoAction
<1>3. UNCHANGED <<agv, move, moves, robot, snapshot, mqtt, timer, issued, results, unstored, emergency, taken, reported, done>>
  BY DEF ActionTimeout, movement, ghosts
<1> QED  BY <1>1, <1>2, <1>3 DEF Typed

LEMMA ErrorTyped ==
    ASSUME Typed, NEW h \in Threads, Error(h)
    PROVE  Typed'
<1>0. threads[h].pc = "error" /\ act' = act  BY DEF Error, At
<1>1. threads' \in [Threads -> Works] /\ ActionTyped'  BY <1>0, GotoTyped DEF Error, Executing, Between
<1>2. agv' \in Statuses  BY DEF Typed, Error, Statuses, AgvStates
<1>3. reported' \in [Known -> Seq(Outcomes)]
  BY ReportTyped DEF Error, Outcomes, Typed, Statuses
<1>4. UNCHANGED <<move, moves, robot, snapshot, mqtt, timer, issued, results, unstored, emergency, taken, done>>
  BY DEF Error, movement
<1> QED  BY <1>1, <1>2, <1>3, <1>4 DEF Typed

LEMMA CancelOrderTyped ==
    ASSUME Typed, NEW h \in Threads, CancelOrder(h)
    PROVE  Typed'
<1>0. threads[h].pc = "cancel" /\ act' = act  BY DEF CancelOrder, At
<1>1. threads' \in [Threads -> Works] /\ ActionTyped'  BY <1>0, StopTyped DEF CancelOrder
<1>2. agv' \in Statuses  BY DEF Typed, CancelOrder, Statuses, AgvStates, AnyKnown
<1>3. UNCHANGED <<move, moves, robot, snapshot, mqtt, timer, issued, results, unstored, emergency, taken, reported, done>>
  BY DEF CancelOrder, movement, ghosts
<1> QED  BY <1>1, <1>2, <1>3 DEF Typed

LEMMA RobotDoneTyped ==
    ASSUME Typed, NEW ok \in BOOLEAN, RobotDone(ok)
    PROVE  Typed'
<1>1. robot # NoDrive /\ robot.id \in 1..moves /\ IsMove(robot.order, robot.step)
  BY DEF RobotDone, Typed, Drives
<1>2. results' \in Results(moves)
  <2>1. [id |-> robot.id, ok |-> ok] \in [id : 1..moves, ok : BOOLEAN]  BY <1>1
  <2> QED  BY <2>1 DEF Typed, Results, RobotDone
<1>3. done' \in [Orders -> SUBSET Nat] /\ \A p \in Orders : done'[p] \subseteq 1..Steps(p)
  <2>1. robot.order \in Orders /\ robot.step \in 1..Steps(robot.order)
    BY <1>1, StepNumbers DEF IsMove
  <2>2. CASE ok
    <3>1. done' = [done EXCEPT ![robot.order] = @ \cup {robot.step}]  BY <2>2 DEF RobotDone
    <3> QED  BY <2>1, <3>1, DoneTyped
  <2>3. CASE ~ok  BY <2>3 DEF RobotDone, Typed
  <2> QED  BY <2>2, <2>3
<1>4. UNCHANGED <<agv, threads, move, moves, act, snapshot, mqtt, timer, issued, unstored, emergency, taken, reported>>
  BY DEF RobotDone
<1>5. robot' \in Drives(moves')  BY <1>4, NumbersKept DEF RobotDone, Typed
<1>6. ActionTyped'  BY <1>4 DEF Typed, ActionTyped
<1> QED  BY <1>2, <1>3, <1>4, <1>5, <1>6 DEF Typed

\* The four ways to handle a result, each a part of the step.
LEMMA IgnoreResultTyped ==
    ASSUME Typed, NEW r, IgnoreResult(r), act' = act
    PROVE  /\ agv' \in Statuses /\ threads' \in [Threads -> Works] /\ move' \in Movements(moves)
           /\ reported' \in [Known -> Seq(Outcomes)] /\ ActionTyped'
<1>1. UNCHANGED <<agv, threads, move, reported>>  BY DEF IgnoreResult
<1> QED  BY <1>1 DEF Typed, ActionTyped

LEMMA MoveWaiter ==
    ASSUME Typed, move # NoMove, move.waiter # Resumer
    PROVE  move.waiter \in Threads
BY DEF Typed, Movements

LEMMA TellThreadTyped ==
    ASSUME Typed, NEW r, TellThread(r), act' = act
    PROVE  /\ agv' \in Statuses /\ threads' \in [Threads -> Works] /\ move' \in Movements(moves)
           /\ reported' \in [Known -> Seq(Outcomes)] /\ ActionTyped'
<1>1. UNCHANGED <<agv, reported>> /\ move' = NoMove  BY DEF TellThread
<1>2. move' \in Movements(moves)  BY <1>1, NumbersKept DEF Typed
<1>3. move.waiter \in Threads  BY MoveWaiter DEF TellThread, Current
<1>4. threads' \in [Threads -> Works] /\ ActionTyped'
  <2>1. CASE threads[move.waiter].pc = "wait"
    <3>1. IsMove(threads[move.waiter].order, threads[move.waiter].step)
          /\ threads[move.waiter].step <= Steps(threads[move.waiter].order)
      BY <1>3, <2>1, WorkOf DEF Executing
    <3>2. Goto(move.waiter, "arrive") \/ Goto(move.waiter, "error")
      BY <2>1 DEF TellThread, At, Goto
    <3>3. CASE Goto(move.waiter, "arrive")
      BY <1>3, <2>1, <3>1, <3>3, GotoTyped DEF Executing, Between, IsMove
    <3>4. CASE Goto(move.waiter, "error")  BY <1>3, <2>1, <3>4, GotoTyped DEF Executing, Between
    <3> QED  BY <3>2, <3>3, <3>4
  <2>2. CASE threads[move.waiter].pc # "wait"
    <3>1. threads' = threads  BY <2>2 DEF TellThread, At
    <3> QED  BY <3>1 DEF Typed, ActionTyped
  <2> QED  BY <2>1, <2>2
<1> QED  BY <1>1, <1>2, <1>4 DEF Typed

LEMMA ResumeRestTyped ==
    ASSUME Typed, NEW r, ResumeRest(r), act' = act
    PROVE  /\ agv' \in Statuses /\ threads' \in [Threads -> Works] /\ move' \in Movements(moves)
           /\ reported' \in [Known -> Seq(Outcomes)] /\ ActionTyped'
<1>1. move # NoMove /\ IsMove(move.order, move.step) /\ move \in Movements(moves)
  BY DEF ResumeRest, Current, Typed, Movements
<1>2. move.order \in Orders  BY <1>1 DEF IsMove
<1>3. agv' \in Statuses  BY <1>2, ArrivalTyped DEF ResumeRest
<1>4. CASE ArrivalThrows(move.order, move.step) \/ PlanFails
  <2>1. move' = [move EXCEPT !.done = TRUE] /\ threads' = threads  BY <1>4 DEF ResumeRest
  <2>2. move' \in Movements(moves)  BY <1>1, <2>1 DEF Movements
  <2>3. ActionTyped'  BY <2>1 DEF Typed, ActionTyped
  <2> QED  BY <1>3, <2>1, <2>2, <2>3 DEF Typed, ResumeRest
<1>5. CASE ~(ArrivalThrows(move.order, move.step) \/ PlanFails)
  <2>1. Spawn(agv.msg, move.index + 1) /\ move' = NoMove  BY <1>5 DEF ResumeRest
  <2>2. agv.msg \in Orders  BY <1>5, PlanIsBuilt
  <2>3. move.index + 1 \in Nat \ {0}  BY <1>1 DEF Movements
  <2>4. threads' \in [Threads -> Works] /\ ActionTyped'  BY <2>1, <2>2, <2>3, SpawnTyped
  <2>5. move' \in Movements(moves)  BY <2>1, NumbersKept DEF Typed
  <2> QED  BY <1>3, <2>4, <2>5 DEF Typed, ResumeRest
<1> QED  BY <1>4, <1>5

LEMMA MoveFailedTyped ==
    ASSUME Typed
    PROVE  MoveFailed \in Statuses /\ Report(agv.id, "FAILED") \in [Known -> Seq(Outcomes)]
<1>1. MoveFailed \in Statuses  BY DEF Typed, MoveFailed, Statuses, AgvStates, AnyKnown
<1>2. agv.id \in AnyKnown  BY DEF Typed, Statuses
<1> QED  BY <1>1, <1>2, ReportTyped DEF Outcomes

LEMMA ResumeFailedTyped ==
    ASSUME Typed, NEW r, ResumeFailed(r), act' = act
    PROVE  /\ agv' \in Statuses /\ threads' \in [Threads -> Works] /\ move' \in Movements(moves)
           /\ reported' \in [Known -> Seq(Outcomes)] /\ ActionTyped'
<1>1. threads' = threads /\ move' = NoMove /\ agv' = MoveFailed /\ reported' = Report(agv.id, "FAILED")
  BY DEF ResumeFailed
<1>2. move' \in Movements(moves)  BY <1>1, NumbersKept DEF Typed
<1>3. ActionTyped'  BY <1>1 DEF Typed, ActionTyped
<1> QED  BY <1>1, <1>2, <1>3, MoveFailedTyped DEF Typed

LEMMA HandleResultTyped ==
    ASSUME Typed, HandleResult
    PROVE  Typed'
<1>1. PICK r \in results : /\ IgnoreResult(r) \/ TellThread(r) \/ ResumeRest(r) \/ ResumeFailed(r)
                           /\ unstored' = IF r.ok THEN unstored ELSE unstored + 1
                           /\ results' = results \ {r}
  BY DEF HandleResult
<1>2. act' = act  BY DEF HandleResult
<1>3. /\ agv' \in Statuses /\ threads' \in [Threads -> Works] /\ move' \in Movements(moves)
      /\ reported' \in [Known -> Seq(Outcomes)] /\ ActionTyped'
  <2>1. CASE IgnoreResult(r)  BY <1>2, <2>1, IgnoreResultTyped
  <2>2. CASE TellThread(r)  BY <1>2, <2>2, TellThreadTyped
  <2>3. CASE ResumeRest(r)  BY <1>2, <2>3, ResumeRestTyped
  <2>4. CASE ResumeFailed(r)  BY <1>2, <2>4, ResumeFailedTyped
  <2> QED  BY <1>1, <2>1, <2>2, <2>3, <2>4
<1>4. UNCHANGED <<moves, robot, snapshot, mqtt, timer, issued, emergency, taken, done>>
  BY DEF HandleResult
<1>5. results' \in Results(moves)  BY <1>1 DEF Typed, Results
<1>6. unstored' \in Nat  BY <1>1 DEF Typed
<1> QED  BY <1>3, <1>4, <1>5, <1>6 DEF Typed

LEMMA StoreFailureTyped ==
    ASSUME Typed, StoreFailure
    PROVE  Typed'
<1>1. UNCHANGED <<threads, move, moves, robot, act, snapshot, mqtt, timer, issued, results, emergency, taken, reported, done>>
  BY DEF StoreFailure, movement, ghosts
<1>2. agv' \in Statuses  BY DEF Typed, StoreFailure, Statuses, AgvStates
<1>3. unstored' \in Nat  BY DEF Typed, StoreFailure
<1>4. ActionTyped'  BY <1>1 DEF Typed, ActionTyped
<1> QED  BY <1>1, <1>2, <1>3, <1>4 DEF Typed

LEMMA PauseTyped ==
    ASSUME Typed, Pause
    PROVE  Typed'
<1>1. UNCHANGED <<agv, threads, move, moves, robot, act, timer, results, unstored, emergency, taken, reported, done>>
  BY DEF Pause, movement, ghosts
<1>2. snapshot' \in Snapshots
  <2>1. CASE agv.msg = NoOrder  BY <2>1 DEF Pause, Typed
  <2>2. CASE agv.msg # NoOrder
    <3>1. snapshot' = [index |-> agv.index, order |-> NoOrder, step |-> 0, known |-> TRUE]
      BY <2>2 DEF Pause, NoSnapshot
    <3>2. agv.index \in Nat  BY DEF Typed, Statuses
    <3> QED  BY <3>1, <3>2 DEF Snapshots, AnyOrder
  <2> QED  BY <2>1, <2>2
<1>3. issued' \in Nat /\ mqtt' \in MqttStates  BY DEF Pause, Given, Typed, MqttStates
<1>4. ActionTyped'  BY <1>1 DEF Typed, ActionTyped
<1> QED  BY <1>1, <1>2, <1>3, <1>4 DEF Typed

LEMMA PauseMoveTyped ==
    ASSUME Typed, PauseMove
    PROVE  Typed'
<1>1. UNCHANGED <<agv, threads, moves, robot, act, timer, issued, results, unstored, emergency, taken, reported, done>>
  BY DEF PauseMove, ghosts
<1>2. ActionTyped'  BY <1>1 DEF Typed, ActionTyped
<1>3. mqtt' \in MqttStates  BY DEF PauseMove, MqttStates
<1>4. CASE move = NoMove \/ move.done
  <2>1. UNCHANGED <<snapshot, move>>  BY <1>4 DEF PauseMove
  <2> QED  BY <1>1, <1>2, <1>3, <2>1 DEF Typed
<1>5. CASE ~(move = NoMove \/ move.done)
  <2>1. snapshot' = [snapshot EXCEPT !.order = move.order, !.step = move.step] /\ move' = NoMove
    BY <1>5 DEF PauseMove
  <2>2. IsMove(move.order, move.step) /\ move.order \in AnyOrder /\ move.step \in Nat
    BY <1>5 DEF Typed, Movements
  <2>3. snapshot' \in Snapshots  BY <2>1, <2>2 DEF Typed, Snapshots
  <2>4. move' \in Movements(moves')  BY <1>1, <2>1, NumbersKept DEF Typed
  <2> QED  BY <1>1, <1>2, <1>3, <2>3, <2>4 DEF Typed
<1> QED  BY <1>4, <1>5

LEMMA PauseStopTyped ==
    ASSUME Typed, PauseStop
    PROVE  Typed'
<1>1. UNCHANGED <<agv, threads, move, moves, act, snapshot, timer, issued, results, unstored, emergency, taken, reported, done>>
  BY DEF PauseStop, ghosts
<1>2. ActionTyped'  BY <1>1 DEF Typed, ActionTyped
<1>3. mqtt' \in MqttStates  BY DEF PauseStop, MqttStates
<1>4. robot' \in Drives(moves')  BY <1>1, NumbersKept DEF PauseStop, Typed
<1> QED  BY <1>1, <1>2, <1>3, <1>4 DEF Typed

LEMMA PauseStateTyped ==
    ASSUME Typed, PauseState
    PROVE  Typed'
<1>1. UNCHANGED <<threads, move, moves, robot, snapshot, timer, issued, results, unstored, emergency, taken, reported, done>>
  BY DEF PauseState, movement, ghosts
<1>2. agv' \in Statuses  BY DEF Typed, PauseState, Statuses, AgvStates
<1>3. ActionTyped'
  <2>1. CASE act = NoAction
    <3>1. act' = act  BY <2>1 DEF PauseState
    <3> QED  BY <1>1, <3>1 DEF Typed, ActionTyped
  <2>2. CASE act # NoAction
    <3>1. act \in [thread : Threads \cup {NoThread}, stage : {"queued", "stages", "last"}, paused : BOOLEAN]
          /\ act.thread \in Threads /\ threads[act.thread].pc = "acting"
      BY <2>2 DEF Typed, ActionTyped
    <3>2. act' = [act EXCEPT !.paused = TRUE]  BY <2>2 DEF PauseState
    <3>3. act' \in [thread : Threads \cup {NoThread}, stage : {"queued", "stages", "last"}, paused : BOOLEAN]
          /\ act'.thread = act.thread
      BY <3>1, <3>2
    <3> QED  BY <1>1, <3>1, <3>3 DEF ActionTyped
  <2> QED  BY <2>1, <2>2
<1>4. mqtt' \in MqttStates  BY DEF PauseState, MqttStates
<1> QED  BY <1>1, <1>2, <1>3, <1>4 DEF Typed

LEMMA ResumeTyped ==
    ASSUME Typed, Resume
    PROVE  Typed'
<1>1. UNCHANGED <<threads, act, snapshot, timer, issued, results, unstored, emergency, taken, done>>
      /\ mqtt' \in MqttStates
  BY DEF Resume, MqttStates
<1>2. ActionTyped'  BY <1>1 DEF Typed, ActionTyped
<1>3. IsMove(snapshot.order, snapshot.step) /\ snapshot.index \in Nat
  BY DEF Resume, Typed, Snapshots
<1>4. CASE Send(snapshot.order, snapshot.step, Resumer, snapshot.index) /\ UNCHANGED <<agv, reported>>
  <2>1. moves' = moves + 1 /\ moves' \in Nat /\ move' \in Movements(moves') /\ robot' \in Drives(moves')
    BY <1>3, <1>4, SendTyped
  <2>2. results' \in Results(moves')  BY <1>1, <2>1, NumbersKept DEF Typed
  <2> QED  BY <1>1, <1>2, <1>4, <2>1, <2>2 DEF Typed
<1>5. CASE /\ move' = NoMove /\ moves' = moves + 1 /\ UNCHANGED robot
           /\ agv' = MoveFailed /\ reported' = Report(agv.id, "FAILED")
  <2>1. moves' \in Nat /\ moves \in Nat  BY <1>5 DEF Typed
  <2>2. results' \in Results(moves') /\ robot' \in Drives(moves') /\ move' \in Movements(moves')
    BY <1>1, <1>5, <2>1, NumbersKept DEF Typed
  <2> QED  BY <1>1, <1>2, <1>5, <2>1, <2>2, MoveFailedTyped DEF Typed
<1> QED  BY <1>4, <1>5 DEF Resume

LEMMA ResumeStateTyped ==
    ASSUME Typed, ResumeState
    PROVE  Typed'
<1>1. UNCHANGED <<threads, move, moves, robot, act, snapshot, timer, issued, results, unstored, emergency, taken, reported, done>>
      /\ mqtt' \in MqttStates
  BY DEF ResumeState, movement, ghosts, MqttStates
<1>2. agv' \in Statuses  BY DEF Typed, ResumeState, Statuses, AgvStates
<1>3. ActionTyped'  BY <1>1 DEF Typed, ActionTyped
<1> QED  BY <1>1, <1>2, <1>3 DEF Typed

LEMMA StopMovingTyped ==
    ASSUME Typed, NEW c, NEW next \in MqttStates, StopMoving(c, next)
    PROVE  Typed'
<1>1. UNCHANGED <<agv, threads, move, moves, act, snapshot, timer, results, unstored, emergency, taken, reported, done>>
  BY DEF StopMoving, ghosts
<1>2. issued' \in Nat  BY DEF StopMoving, Given, Typed
<1>3. ActionTyped'  BY <1>1 DEF Typed, ActionTyped
<1>4. mqtt' \in MqttStates  BY DEF StopMoving, Typed
<1>5. robot' \in Drives(moves')  BY <1>1, NumbersKept DEF StopMoving, Typed
<1> QED  BY <1>1, <1>2, <1>3, <1>4, <1>5 DEF Typed

LEMMA DropMoveTyped ==
    ASSUME Typed, NEW now, NEW next \in MqttStates, DropMove(now, next)
    PROVE  Typed'
<1>1. UNCHANGED <<agv, threads, moves, robot, act, snapshot, timer, issued, results, unstored, emergency, taken, reported, done>>
  BY DEF DropMove, ghosts
<1>2. ActionTyped'  BY <1>1 DEF Typed, ActionTyped
<1>3. mqtt' \in MqttStates  BY DEF DropMove
<1>4. move' \in Movements(moves')  BY <1>1, NumbersKept DEF DropMove, Typed
<1> QED  BY <1>1, <1>2, <1>3, <1>4 DEF Typed

LEMMA CancelStateTyped ==
    ASSUME Typed, CancelState
    PROVE  Typed'
<1>1. UNCHANGED <<threads, move, moves, robot, act, snapshot, timer, issued, results, unstored, emergency, taken, done>>
      /\ mqtt' \in MqttStates
  BY DEF CancelState, movement, MqttStates
<1>2. agv' \in Statuses  BY DEF Typed, CancelState, Statuses, AgvStates, AnyKnown
<1>3. reported' \in [Known -> Seq(Outcomes)]
  BY ReportTyped DEF CancelState, Outcomes, Typed, Statuses
<1>4. ActionTyped'  BY <1>1 DEF Typed, ActionTyped
<1> QED  BY <1>1, <1>2, <1>3, <1>4 DEF Typed

LEMMA EmergencyStateTyped ==
    ASSUME Typed, EmergencyState
    PROVE  Typed'
<1>1. UNCHANGED <<threads, move, moves, robot, act, snapshot, timer, issued, results, unstored, taken, reported, done>>
      /\ mqtt' \in MqttStates /\ emergency' \in BOOLEAN
  BY DEF EmergencyState, movement, ghosts, MqttStates
<1>2. agv' \in Statuses  BY DEF Typed, EmergencyState, Statuses, AgvStates
<1>3. ActionTyped'  BY <1>1 DEF Typed, ActionTyped
<1> QED  BY <1>1, <1>2, <1>3 DEF Typed

LEMMA ResetEmergencyTyped ==
    ASSUME Typed, ResetEmergency
    PROVE  Typed'
<1>1. UNCHANGED <<agv, threads, move, moves, robot, act, snapshot, mqtt, timer, results, unstored, taken, reported, done>>
      /\ emergency' \in BOOLEAN
  BY DEF ResetEmergency, movement, ghosts
<1>2. issued' \in Nat  BY DEF ResetEmergency, Given, Typed
<1>3. ActionTyped'  BY <1>1 DEF Typed, ActionTyped
<1> QED  BY <1>1, <1>2, <1>3 DEF Typed

LEMMA ThreadStepTyped ==
    ASSUME Typed, NEW h \in Threads, ThreadStep(h)
    PROVE  Typed'
BY CompleteTyped, TellCompletedTyped, CheckTyped, SetStateTyped, AtStartNodeTyped, StartMoveTyped, StartMoveFailsTyped,
   MoveTimeoutTyped, ArriveTyped, StartActionTyped, ActionTimeoutTyped, ErrorTyped, CancelOrderTyped
   DEF ThreadStep

LEMMA CommandTyped ==
    ASSUME Typed, Command \/ MqttStep
    PROVE  Typed'
BY ExecuteTyped, PauseTyped, PauseMoveTyped, PauseStopTyped, PauseStateTyped, ResumeTyped, ResumeStateTyped,
   StopMovingTyped, DropMoveTyped, CancelStateTyped, EmergencyStateTyped, ResetEmergencyTyped
   DEF Command, MqttStep, MqttStates

LEMMA NextTyped ==
    ASSUME Typed, Next \/ UNCHANGED vars
    PROVE  Typed'
<1>1. CASE UNCHANGED vars
  <2>1. UNCHANGED <<agv, threads, move, moves, robot, act, snapshot, mqtt, timer, issued, results, unstored,
                    emergency, taken, reported, done>>
    BY <1>1 DEF vars, movement, ghosts
  <2>2. ActionTyped'  BY <2>1 DEF Typed, ActionTyped
  <2> QED  BY <2>1, <2>2 DEF Typed
<1>2. CASE Next
  <2>1. ASSUME NEW o \in Orders, AcceptOrder(o)  PROVE Typed'  BY <2>1, AcceptOrderTyped
  <2>2. ASSUME NEW h \in Threads, ThreadStep(h)  PROVE Typed'  BY <2>2, ThreadStepTyped
  <2>3. ASSUME NEW ok \in BOOLEAN, RobotDone(ok)  PROVE Typed'  BY <2>3, RobotDoneTyped
  <2>4. CASE KeyExpires \/ ActionRuns \/ ActionDone
    BY <2>4, KeyExpiresTyped, ActionRunsTyped, ActionDoneTyped
  <2>5. CASE HandleResult \/ StoreFailure  BY <2>5, HandleResultTyped, StoreFailureTyped
  <2>6. CASE Command \/ MqttStep  BY <2>6, CommandTyped
  <2>7. CASE LowFound \/ AutoCharge  BY <2>7, ChargingTyped
  <2> QED  BY <1>2, <2>1, <2>2, <2>3, <2>4, <2>5, <2>6, <2>7 DEF Next
<1> QED  BY <1>1, <1>2

\* Every variable keeps its type whatever fails, comes late or is commanded: no
\* result answers a move command that was never made, and the robot never does a
\* step an order does not have, whatever is paused, resumed and replaced.
THEOREM TypeCorrect == Spec => []TypeOK
<1>1. Init => Typed  BY InitTyped
<1>2. Typed /\ [Next]_vars => Typed'  BY NextTyped
<1>3. Typed => TypeOK  BY TypedIsTypeOK
<1> QED  BY <1>1, <1>2, <1>3, PTL DEF Spec

-----------------------------------------------------------------------------
(* One outcome *)

LEMMA InitAlone ==
    ASSUME Init
    PROVE  Alone
<1>1. \A h \in Threads : ~Live(h) /\ ~Telling(h)  BY DEF Init, NoWork, Live, Telling
<1>2. \A o \in Orders : reported[o] = <<>>  BY DEF Init, Known
<1>3. LiveUnreported /\ TellingFinished /\ OneLive /\ OneTelling
  BY <1>1 DEF LiveUnreported, TellingFinished, OneLive, OneTelling
<1> QED  BY <1>2, <1>3 DEF Init, Alone, AcceptedAlone, OutcomesAgree

\* Threads go on: none lives or tells that did not before, or for another order.
ThreadsGoOn ==
    \A k \in Threads :
        /\ Live(k)' => Live(k) /\ threads'[k].order = threads[k].order
        /\ Telling(k)' => Telling(k) /\ threads'[k].order = threads[k].order

\* A step that reports nothing and lets no thread live that did not before.
QuietStep ==
    /\ agv'.id \in {agv.id, ChargeOrder} /\ UNCHANGED <<reported, taken>>
    /\ ThreadsGoOn
    /\ move' # NoMove => move'.waiter # Resumer
    /\ mqtt' \notin {"resumed", "cancelMove", "cancelled"}
    /\ mqtt' = "accepted" => mqtt = "accepted" /\ agv'.msg = agv.msg

LEMMA QuietKeepsAlone ==
    ASSUME Alone, QuietStep
    PROVE  Alone'
<1>1. LiveUnreported'  BY DEF Alone, LiveUnreported, QuietStep, ThreadsGoOn
<1>2. TellingFinished'  BY DEF Alone, TellingFinished, QuietStep, ThreadsGoOn
<1>3. OneLive'  BY DEF Alone, OneLive, QuietStep, ThreadsGoOn
<1>4. OneTelling'  BY DEF Alone, OneTelling, QuietStep, ThreadsGoOn
<1>5. AcceptedAlone'  BY DEF Alone, AcceptedAlone, QuietStep, ThreadsGoOn
<1>6. OutcomesAgree' /\ (\A o \in Orders \ taken : reported[o] = <<>>)'
  BY DEF Alone, QuietStep, OutcomesAgree
<1>7. (move # NoMove => move.waiter # Resumer)' /\ (mqtt \notin {"resumed", "cancelMove", "cancelled"})'
  BY DEF QuietStep
<1> QED  BY <1>1, <1>2, <1>3, <1>4, <1>5, <1>6, <1>7 DEF Alone

LEMMA SameThreadsGoOn ==
    ASSUME threads' = threads
    PROVE  ThreadsGoOn
BY DEF ThreadsGoOn, Live, Telling

LEMMA GotoIsQuiet ==
    ASSUME Typed, NEW h \in Threads, Live(h), NEW pc, pc # "told", Goto(h, pc)
    PROVE  ThreadsGoOn
<1>1. threads \in [Threads -> Works]  BY DEF Typed
<1> DEFINE w == [threads[h] EXCEPT !.pc = pc]
<1>2. threads' = [threads EXCEPT ![h] = w]  BY DEF Goto
<1>3. w.order = threads[h].order /\ w.pc = pc  BY <1>1 DEF Works
<1> HIDE DEF w
<1> QED  BY <1>1, <1>2, <1>3 DEF Live, Telling, ThreadsGoOn

LEMMA StopIsQuiet ==
    ASSUME Typed, NEW h \in Threads, Stop(h)
    PROVE  ThreadsGoOn
<1>1. threads \in [Threads -> Works]  BY DEF Typed
<1>2. NoWork.pc = "off"  BY DEF NoWork
<1> QED  BY <1>1, <1>2 DEF Live, Telling, Stop, ThreadsGoOn

LEMMA NextStepIsQuiet ==
    ASSUME Typed, NEW h \in Threads, Live(h), NextStep(h)
    PROVE  ThreadsGoOn
<1>1. threads \in [Threads -> Works]  BY DEF Typed
<1> DEFINE w == [threads[h] EXCEPT !.pc = "check", !.step = @ + 1]
<1>2. threads' = [threads EXCEPT ![h] = w]  BY <1>1 DEF NextStep
<1>3. w.order = threads[h].order /\ w.pc = "check"  BY <1>1 DEF Works
<1> HIDE DEF w
<1> QED  BY <1>1, <1>2, <1>3 DEF Live, Telling, ThreadsGoOn

\* No order is accepted while a thread lives: of its order nothing is reported.
LEMMA AcceptOrderAlone ==
    ASSUME Typed, Alone, NEW o \in Orders, AcceptOrder(o)
    PROVE  Alone'
<1>1. o \notin taken /\ \A p \in taken : reported[p] # <<>>  BY DEF AcceptOrder
<1>2. \A k \in Threads : ~Live(k)  BY <1>1 DEF Alone, LiveUnreported
<1>3. UNCHANGED <<threads, move, reported>> /\ mqtt' = "accepted" /\ taken' = taken \cup {o}
  BY DEF AcceptOrder, movement
<1>4. agv'.id = o /\ agv'.msg = o  BY DEF AcceptOrder, Typed, Statuses
<1>5. \A k \in Threads : ~Live(k)' /\ (Telling(k)' <=> Telling(k))  BY <1>2, <1>3 DEF Live, Telling
<1>6. LiveUnreported' /\ OneLive'  BY <1>5 DEF LiveUnreported, OneLive
<1>7. TellingFinished' /\ OneTelling'
  BY <1>3, <1>5 DEF Alone, TellingFinished, OneTelling
<1>8. AcceptedAlone'  BY <1>1, <1>3, <1>4, <1>5 DEF AcceptedAlone, Alone
<1>9. OutcomesAgree' /\ (\A p \in Orders \ taken : reported[p] = <<>>)'
  BY <1>3 DEF Alone, OutcomesAgree
<1> QED  BY <1>3, <1>6, <1>7, <1>8, <1>9 DEF Alone

\* Its thread is then the only one that lives.
LEMMA ExecuteAlone ==
    ASSUME Typed, Alone, Execute
    PROVE  Alone'
<1>1. UNCHANGED <<agv, move, reported, taken>> /\ mqtt = "accepted" /\ mqtt' = "idle"
  BY DEF Execute, movement, ghosts
<1>2. CASE PlanFails
  <2>1. threads' = threads  BY <1>2 DEF Execute
  <2>2. QuietStep  BY <1>1, <2>1, SameThreadsGoOn DEF QuietStep, Alone
  <2> QED  BY <2>2, QuietKeepsAlone
<1>3. CASE ~PlanFails
  <2>1. \A k \in Threads : ~Live(k)  BY <1>1 DEF Alone, AcceptedAlone
  <2>2. agv.msg \in taken /\ reported[agv.msg] = <<>> /\ agv.id \in {agv.msg, ChargeOrder}
    BY <1>1 DEF Alone, AcceptedAlone
  <2> DEFINE w == [pc |-> "check", order |-> agv.msg, step |-> 1]
  <2>3. PICK h \in Threads : threads' = [threads EXCEPT ![h] = w]  BY <1>3 DEF Execute, Spawn
  <2>4. w.order = agv.msg /\ w.pc = "check"  OBVIOUS
  <2>5. threads \in [Threads -> Works]  BY DEF Typed
  <2> HIDE DEF w
  <2>6. threads'[h] = w /\ \A k \in Threads \ {h} : threads'[k] = threads[k]  BY <2>3, <2>5
  <2>7. \A k \in Threads : Live(k)' => k = h  BY <2>1, <2>6 DEF Live
  <2>8. \A k \in Threads : Telling(k)' => Telling(k) /\ threads'[k] = threads[k]
    BY <2>4, <2>6 DEF Telling
  <2>9. LiveUnreported' /\ OneLive'  BY <1>1, <2>2, <2>4, <2>6, <2>7 DEF LiveUnreported, OneLive
  <2>10. TellingFinished' /\ OneTelling'  BY <1>1, <2>8 DEF Alone, TellingFinished, OneTelling
  <2>11. AcceptedAlone'  BY <1>1 DEF AcceptedAlone
  <2>12. OutcomesAgree' /\ (\A p \in Orders \ taken : reported[p] = <<>>)'
    BY <1>1 DEF Alone, OutcomesAgree
  <2> QED  BY <1>1, <2>9, <2>10, <2>11, <2>12 DEF Alone
<1> QED  BY <1>2, <1>3

\* The live thread reports its order as finished and has that to complete.
LEMMA CompleteAlone ==
    ASSUME Typed, Alone, NEW h \in Threads, Complete(h)
    PROVE  Alone'
<1>1. threads[h].pc = "check" /\ Live(h)  BY DEF Complete, At, Live
<1>2. PICK o \in Orders : o = threads[h].order  BY <1>1, WorkOf
<1>3. o \in taken /\ reported[o] = <<>>  BY <1>1, <1>2 DEF Alone, LiveUnreported
<1>4. UNCHANGED <<taken, move, mqtt>> /\ Goto(h, "told") /\ reported' = Report(o, "FINISHED")
  BY <1>2 DEF Complete, TellFinished, movement
<1>5. o \in Known /\ reported \in [Known -> Seq(Outcomes)] /\ o # NoOrder
  BY NobodyIsNone DEF Known, Typed
<1>6. reported'[o] = <<"FINISHED">> /\ \A p \in Orders \ {o} : reported'[p] = reported[p]
  BY <1>3, <1>4, <1>5 DEF Report, Known
<1>7. threads \in [Threads -> Works]  BY DEF Typed
<1>8. threads'[h].pc = "told" /\ threads'[h].order = o /\ \A k \in Threads \ {h} : threads'[k] = threads[k]
  BY <1>2, <1>4, <1>7 DEF Goto, Works
<1>9. \A k \in Threads : ~Live(k)'
  <2> TAKE k \in Threads
  <2>1. CASE k = h  BY <1>8, <2>1 DEF Live
  <2>2. CASE k # h  BY <1>1, <1>8, <2>2 DEF Live, Alone, OneLive
  <2> QED  BY <2>1, <2>2
<1>10. ASSUME NEW k \in Threads, k # h, Telling(k)'
       PROVE  Telling(k) /\ threads'[k].order = threads[k].order /\ threads[k].order \in Orders \ {o}
  <2>1. Telling(k) /\ threads'[k] = threads[k]  BY <1>8, <1>10 DEF Telling
  <2>2. reported[threads[k].order] = <<"FINISHED">>  BY <2>1 DEF Alone, TellingFinished
  <2>3. threads[k].order # o  BY <1>3, <2>2
  <2>4. threads[k].order \in Orders  BY <2>1, WorkOf DEF Telling
  <2> QED  BY <2>1, <2>3, <2>4
<1>11. LiveUnreported' /\ OneLive' /\ AcceptedAlone'
  <2>1. mqtt # "accepted"  BY <1>1 DEF Alone, AcceptedAlone
  <2> QED  BY <1>4, <1>9, <2>1 DEF LiveUnreported, OneLive, AcceptedAlone
<1>12. TellingFinished'
  BY <1>3, <1>4, <1>6, <1>8, <1>10 DEF Alone, TellingFinished
<1>13. OneTelling'  BY <1>8, <1>10 DEF Alone, OneTelling
<1>14. OutcomesAgree' /\ (\A p \in Orders \ taken : reported[p] = <<>>)'
  BY <1>3, <1>4, <1>6 DEF Alone, OutcomesAgree
<1> QED  BY <1>4, <1>11, <1>12, <1>13, <1>14 DEF Alone

LEMMA AppendedTo == Append(<<"FINISHED">>, "COMPLETED") = <<"FINISHED", "COMPLETED">>
<1> DEFINE S == {"FINISHED", "COMPLETED"}
<1> DEFINE s == <<"FINISHED">>
<1> DEFINE t == <<"FINISHED", "COMPLETED">>
<1>1. s \in Seq(S) /\ Len(s) = 1 /\ s[1] = "FINISHED" /\ "COMPLETED" \in S  OBVIOUS
<1>2. t \in Seq(S) /\ Len(t) = 2 /\ t[1] = "FINISHED" /\ t[2] = "COMPLETED"  OBVIOUS
<1> HIDE DEF S, s, t
<1>3. \A u, v \in Seq(S) : Len(u) = 2 /\ Len(v) = 2 /\ u[1] = v[1] /\ u[2] = v[2] => u = v
  OBVIOUS
<1>4. Append(s, "COMPLETED") \in Seq(S) /\ Len(Append(s, "COMPLETED")) = 2
  BY <1>1
<1>5. Append(s, "COMPLETED")[1] = "FINISHED" /\ Append(s, "COMPLETED")[2] = "COMPLETED"
  <2>1. \A u \in Seq(S) : \A c \in S :
          (\A i \in 1..Len(u) : Append(u, c)[i] = u[i]) /\ Append(u, c)[Len(u) + 1] = c
    OBVIOUS
  <2>2. 1 \in 1..Len(s) /\ Len(s) + 1 = 2  BY <1>1
  <2>3. Append(s, "COMPLETED")[1] = s[1]  BY <1>1, <2>1, <2>2
  <2>4. Append(s, "COMPLETED")[Len(s) + 1] = "COMPLETED"  BY <1>1, <2>1
  <2> QED  BY <1>1, <2>2, <2>3, <2>4
<1>6. Append(s, "COMPLETED") = t  BY <1>2, <1>3, <1>4, <1>5
<1> QED  BY <1>6 DEF s, t

LEMMA TellCompletedAlone ==
    ASSUME Typed, Alone, NEW h \in Threads, TellCompleted(h)
    PROVE  Alone'
<1>1. Telling(h)  BY DEF TellCompleted, At, Telling
<1>2. PICK o \in Orders : o = threads[h].order  BY <1>1, WorkOf DEF Telling
<1>3. o \in taken /\ reported[o] = <<"FINISHED">>  BY <1>1, <1>2 DEF Alone, TellingFinished
<1>4. UNCHANGED <<agv, taken, move, mqtt>> /\ Stop(h) /\ reported' = Report(o, "COMPLETED")
  BY <1>2 DEF TellCompleted, movement
<1>5. o \in Known /\ reported \in [Known -> Seq(Outcomes)] /\ o # NoOrder
  BY NobodyIsNone DEF Known, Typed
<1>6. reported'[o] = <<"FINISHED", "COMPLETED">> /\ \A p \in Orders \ {o} : reported'[p] = reported[p]
  <2>1. Append(<<"FINISHED">>, "COMPLETED") = <<"FINISHED", "COMPLETED">>  BY AppendedTo
  <2>2. reported' = [reported EXCEPT ![o] = Append(reported[o], "COMPLETED")]
    BY <1>4, <1>5 DEF Report
  <2> QED  BY <1>3, <1>5, <2>1, <2>2 DEF Known
<1>7. threads \in [Threads -> Works] /\ NoWork.pc = "off"  BY DEF Typed, NoWork
<1>8. threads'[h].pc = "off" /\ \A k \in Threads \ {h} : threads'[k] = threads[k]
  BY <1>4, <1>7 DEF Stop
<1>9. ASSUME NEW k \in Threads, Live(k)'
      PROVE  Live(k) /\ threads'[k] = threads[k] /\ threads[k].order \in Orders \ {o}
  <2>1. Live(k) /\ threads'[k] = threads[k]  BY <1>8, <1>9 DEF Live
  <2>2. reported[threads[k].order] = <<>>  BY <2>1 DEF Alone, LiveUnreported
  <2>3. threads[k].order \in Orders  BY <2>1, WorkOf DEF Live
  <2>4. <<>> # <<"FINISHED">>  OBVIOUS
  <2>5. threads[k].order # o  BY <1>3, <2>2, <2>4
  <2> QED  BY <2>1, <2>3, <2>5
<1>10. ASSUME NEW k \in Threads, Telling(k)'
       PROVE  Telling(k) /\ threads'[k] = threads[k] /\ threads[k].order \in Orders \ {o}
  <2>1. Telling(k) /\ threads'[k] = threads[k] /\ k # h  BY <1>8, <1>10 DEF Telling
  <2>2. threads[k].order # o  BY <1>1, <1>2, <2>1 DEF Alone, OneTelling
  <2>3. threads[k].order \in Orders  BY <2>1, WorkOf DEF Telling
  <2> QED  BY <2>1, <2>2, <2>3
<1>11. LiveUnreported' /\ OneLive'
  BY <1>4, <1>6, <1>9 DEF Alone, LiveUnreported, OneLive
<1>12. TellingFinished' /\ OneTelling'
  BY <1>4, <1>6, <1>10 DEF Alone, TellingFinished, OneTelling
<1>13. AcceptedAlone'
  <2>1. taken \subseteq Orders  BY DEF Typed
  <2>2. mqtt = "accepted" => agv.msg \in Orders \ {o}  BY <1>3, <2>1 DEF Alone, AcceptedAlone
  <2> QED  BY <1>4, <1>6, <1>9, <2>2 DEF Alone, AcceptedAlone
<1>14. OutcomesAgree' /\ (\A p \in Orders \ taken : reported[p] = <<>>)'
  BY <1>3, <1>4, <1>6 DEF Alone, OutcomesAgree
<1> QED  BY <1>4, <1>11, <1>12, <1>13, <1>14 DEF Alone

\* The live thread fails the AGV's order, which is its own or the charging.
LEMMA ErrorAlone ==
    ASSUME Typed, Alone, NEW h \in Threads, Error(h)
    PROVE  Alone'
<1>1. threads[h].pc = "error" /\ Live(h)  BY DEF Error, At, Live
<1>2. PICK o \in Orders : o = threads[h].order  BY <1>1, WorkOf
<1>3. o \in taken /\ reported[o] = <<>> /\ agv.id \in {o, ChargeOrder}
  BY <1>1, <1>2 DEF Alone, LiveUnreported
<1>4. UNCHANGED <<taken, move, mqtt>> /\ Goto(h, "cancel") /\ reported' = Report(agv.id, "FAILED")
  BY DEF Error, movement
<1>5. reported \in [Known -> Seq(Outcomes)] /\ agv.id \in Known /\ agv.id # NoOrder
  BY <1>3, NobodyIsNone DEF Known, Typed
<1>6. reported'[o] \in {<<>>, <<"FAILED">>} /\ \A p \in Orders \ {o} : reported'[p] = reported[p]
  <2>1. Append(<<>>, "FAILED") = <<"FAILED">>  OBVIOUS
  <2>2. reported' = [reported EXCEPT ![agv.id] = Append(reported[agv.id], "FAILED")]
    BY <1>4, <1>5 DEF Report
  <2>3. CASE agv.id = o  BY <1>3, <1>5, <2>1, <2>2, <2>3 DEF Known
  <2>4. CASE agv.id = ChargeOrder
    <3>1. ChargeOrder \notin Orders  BY NobodyIsNone DEF Known
    <3>2. \A p \in Orders : reported'[p] = reported[p]  BY <1>5, <2>2, <2>4, <3>1 DEF Known
    <3> QED  BY <1>3, <3>2
  <2> QED  BY <1>3, <2>3, <2>4
<1>7. threads \in [Threads -> Works]  BY DEF Typed
<1>8. threads'[h].pc = "cancel" /\ \A k \in Threads \ {h} : threads'[k] = threads[k]
  BY <1>4, <1>7 DEF Goto, Works
<1>9. \A k \in Threads : ~Live(k)'
  <2> TAKE k \in Threads
  <2>1. CASE k = h  BY <1>8, <2>1 DEF Live
  <2>2. CASE k # h  BY <1>1, <1>8, <2>2 DEF Live, Alone, OneLive
  <2> QED  BY <2>1, <2>2
<1>10. ASSUME NEW k \in Threads, Telling(k)'
       PROVE  Telling(k) /\ threads'[k] = threads[k] /\ threads[k].order \in Orders \ {o}
  <2>1. Telling(k) /\ threads'[k] = threads[k]  BY <1>8, <1>10 DEF Telling
  <2>2. reported[threads[k].order] = <<"FINISHED">>  BY <2>1 DEF Alone, TellingFinished
  <2>3. threads[k].order \in Orders  BY <2>1, WorkOf DEF Telling
  <2>4. <<>> # <<"FINISHED">>  OBVIOUS
  <2>5. threads[k].order # o  BY <1>3, <2>2, <2>4
  <2> QED  BY <2>1, <2>3, <2>5
<1>11. LiveUnreported' /\ OneLive' /\ AcceptedAlone'
  <2>1. mqtt # "accepted"  BY <1>1 DEF Alone, AcceptedAlone
  <2> QED  BY <1>4, <1>9, <2>1 DEF LiveUnreported, OneLive, AcceptedAlone
<1>12. TellingFinished' /\ OneTelling'
  BY <1>4, <1>6, <1>10 DEF Alone, TellingFinished, OneTelling
<1>13. OutcomesAgree' /\ (\A p \in Orders \ taken : reported[p] = <<>>)'
  BY <1>3, <1>4, <1>6 DEF Alone, OutcomesAgree
<1> QED  BY <1>4, <1>11, <1>12, <1>13 DEF Alone

LEMMA StartActionQuiet ==
    ASSUME Typed, Alone, NEW h \in Threads, StartAction(h)
    PROVE  QuietStep
<1>1. threads \in [Threads -> Works] /\ threads[h].pc = "act"  BY DEF Typed, StartAction, At
<1>2. ASSUME NEW k \in Threads, k = act.thread  PROVE Live(k)
  <2>1. act # NoAction  BY <1>2, NobodyIsNone DEF NoAction
  <2> QED  BY <1>2, <2>1 DEF Typed, ActionTyped, Live
<1>3. ASSUME NEW k \in Threads, Live(k)' \/ Telling(k)'
      PROVE  (Live(k)' => Live(k)) /\ (Telling(k)' => Telling(k)) /\ threads'[k].order = threads[k].order
  <2>1. CASE k = h
    <3>1. threads'[k] = [threads[k] EXCEPT !.pc = "acting"]  BY <2>1 DEF StartAction
    <3> QED  BY <1>1, <2>1, <3>1 DEF Works, Live, Telling
  <2>2. CASE k # h /\ k = act.thread
    <3>1. threads'[k] = [threads[k] EXCEPT !.pc = "error"]  BY <2>2 DEF StartAction
    <3> QED  BY <1>1, <1>2, <2>2, <3>1 DEF Works, Telling
  <2>3. CASE k # h /\ k # act.thread
    <3>1. threads'[k] = threads[k]  BY <2>3 DEF StartAction
    <3> QED  BY <1>3, <3>1 DEF Live, Telling
  <2> QED  BY <2>1, <2>2, <2>3
<1>4. UNCHANGED <<agv, move, mqtt, reported, taken>>  BY DEF StartAction, movement, ghosts
<1>5. ThreadsGoOn  BY <1>3 DEF ThreadsGoOn
<1> QED  BY <1>4, <1>5 DEF QuietStep, Alone

LEMMA ThreadStepAlone ==
    ASSUME Typed, Alone, NEW h \in Threads, ThreadStep(h)
    PROVE  Alone'
<1>0. threads \in [Threads -> Works] /\ agv \in Statuses  BY DEF Typed
<1>1. CASE Complete(h) \/ TellCompleted(h)  BY <1>1, CompleteAlone, TellCompletedAlone
<1>2. CASE Check(h)
  <2>1. threads[h].pc = "check"  BY <1>2 DEF Check, At
  <2>2. Stop(h) \/ Goto(h, "error") \/ Goto(h, "set")  BY <1>2 DEF Check
  <2>3. ThreadsGoOn
    BY <2>1, <2>2, StopIsQuiet, GotoIsQuiet DEF Live
  <2>4. UNCHANGED <<agv, move, mqtt, reported, taken>>  BY <1>2 DEF Check, movement, ghosts
  <2>5. QuietStep  BY <2>3, <2>4, SameThreadsGoOn DEF QuietStep, Alone
  <2> QED  BY <2>5, QuietKeepsAlone
<1>3. CASE SetState(h)
  <2>1. threads[h].pc = "set"  BY <1>3 DEF SetState, At
  <2>2. Goto(h, "move") \/ Goto(h, "act")  BY <1>3 DEF SetState
  <2>3. ThreadsGoOn
    BY <2>1, <2>2, GotoIsQuiet DEF Live
  <2>4. UNCHANGED <<move, mqtt, reported, taken>>  BY <1>3 DEF SetState, movement, ghosts
  <2>5. agv'.id = agv.id /\ agv'.msg = agv.msg  BY <1>0, <1>3 DEF SetState, Statuses
  <2>6. QuietStep  BY <2>3, <2>4, <2>5, SameThreadsGoOn DEF QuietStep, Alone
  <2> QED  BY <2>6, QuietKeepsAlone
<1>4. CASE AtStartNode(h)
  <2>1. threads[h].pc = "move" /\ Goto(h, "arrive")  BY <1>4 DEF AtStartNode, At
  <2>2. ThreadsGoOn
    BY <2>1, GotoIsQuiet DEF Live
  <2>3. UNCHANGED <<agv, move, mqtt, reported, taken>>  BY <1>4 DEF AtStartNode, movement
  <2>4. QuietStep  BY <2>2, <2>3, SameThreadsGoOn DEF QuietStep, Alone
  <2> QED  BY <2>4, QuietKeepsAlone
<1>5. CASE StartMove(h)
  <2>1. threads[h].pc = "move" /\ Goto(h, "wait")  BY <1>5 DEF StartMove, At
  <2>2. ThreadsGoOn
    BY <2>1, GotoIsQuiet DEF Live
  <2>3. UNCHANGED <<agv, mqtt, reported, taken>>  BY <1>5 DEF StartMove, ghosts
  <2>4. move'.waiter = h  BY <1>5 DEF StartMove, Send
  <2>5. QuietStep  BY <2>2, <2>3, <2>4, NobodyIsNone DEF QuietStep, Alone
  <2> QED  BY <2>5, QuietKeepsAlone
<1>6. CASE StartMoveFails(h) \/ MoveTimeout(h)
  <2>1. threads[h].pc \in {"move", "wait"} /\ Goto(h, "error")  BY <1>6 DEF StartMoveFails, MoveTimeout, At
  <2>2. ThreadsGoOn
    BY <2>1, GotoIsQuiet DEF Live
  <2>3. UNCHANGED <<agv, mqtt, reported, taken>> /\ move' = NoMove
    BY <1>6 DEF StartMoveFails, MoveTimeout, ghosts
  <2>4. QuietStep  BY <2>2, <2>3, SameThreadsGoOn DEF QuietStep, Alone
  <2> QED  BY <2>4, QuietKeepsAlone
<1>7. CASE Arrive(h)
  <2>1. threads[h].pc = "arrive"  BY <1>7 DEF Arrive, At
  <2>2. Goto(h, "error") \/ NextStep(h)  BY <1>7 DEF Arrive
  <2>3. ThreadsGoOn
    BY <2>1, <2>2, GotoIsQuiet, NextStepIsQuiet DEF Live
  <2>4. UNCHANGED <<move, mqtt, reported, taken>>  BY <1>7 DEF Arrive, movement, ghosts
  <2>5. agv'.id = agv.id /\ agv'.msg = agv.msg  BY <1>0, <1>7 DEF Arrive, StatusAfterArrival, Statuses
  <2>6. QuietStep  BY <2>3, <2>4, <2>5, SameThreadsGoOn DEF QuietStep, Alone
  <2> QED  BY <2>6, QuietKeepsAlone
<1>8. CASE StartAction(h)  BY <1>8, StartActionQuiet, QuietKeepsAlone
<1>9. CASE ActionTimeout(h)
  <2>1. threads[h].pc = "acting" /\ Goto(h, "error")  BY <1>9 DEF ActionTimeout, At
  <2>2. ThreadsGoOn
    BY <2>1, GotoIsQuiet DEF Live
  <2>3. UNCHANGED <<agv, move, mqtt, reported, taken>>  BY <1>9 DEF ActionTimeout, movement, ghosts
  <2>4. QuietStep  BY <2>2, <2>3, SameThreadsGoOn DEF QuietStep, Alone
  <2> QED  BY <2>4, QuietKeepsAlone
<1>10. CASE Error(h)  BY <1>10, ErrorAlone
<1>11. CASE CancelOrder(h)
  <2>1. Stop(h)  BY <1>11 DEF CancelOrder
  <2>2. ThreadsGoOn
    BY <2>1, StopIsQuiet
  <2>3. UNCHANGED <<move, mqtt, reported, taken>>  BY <1>11 DEF CancelOrder, movement, ghosts
  <2>4. agv'.id = agv.id /\ agv'.msg = agv.msg  BY <1>0, <1>11 DEF CancelOrder, Statuses
  <2>5. QuietStep  BY <2>2, <2>3, <2>4, SameThreadsGoOn DEF QuietStep, Alone
  <2> QED  BY <2>5, QuietKeepsAlone
<1> QED
  BY <1>1, <1>2, <1>3, <1>4, <1>5, <1>6, <1>7, <1>8, <1>9, <1>10, <1>11 DEF ThreadStep

\* Everything but threads: nothing is resumed, so that results only wake threads.
LEMMA HandleResultAlone ==
    ASSUME Typed, Alone, HandleResult
    PROVE  Alone'
<1>1. PICK r \in results : IgnoreResult(r) \/ TellThread(r) \/ ResumeRest(r) \/ ResumeFailed(r)
  BY DEF HandleResult
<1>2. ~ResumeRest(r) /\ ~ResumeFailed(r)  BY DEF Alone, ResumeRest, ResumeFailed, Current
<1>3. UNCHANGED <<mqtt, taken>>  BY DEF HandleResult
<1>4. CASE IgnoreResult(r)
  <2>1. UNCHANGED <<agv, threads, move, reported>>  BY <1>4 DEF IgnoreResult
  <2>2. QuietStep  BY <1>3, <2>1, SameThreadsGoOn DEF QuietStep, Alone
  <2> QED  BY <2>2, QuietKeepsAlone
<1>5. CASE TellThread(r)
  <2>1. UNCHANGED <<agv, reported>> /\ move' = NoMove  BY <1>5 DEF TellThread
  <2>2. move.waiter \in Threads  BY <1>5, MoveWaiter DEF TellThread, Current
  <2>3. ThreadsGoOn
    <3>1. CASE threads[move.waiter].pc = "wait"
      <4>1. Goto(move.waiter, "arrive") \/ Goto(move.waiter, "error")
        BY <1>5, <3>1 DEF TellThread, At, Goto
      <4> QED  BY <2>2, <3>1, <4>1, GotoIsQuiet DEF Live
    <3>2. CASE threads[move.waiter].pc # "wait"
      <4>1. threads' = threads  BY <1>5, <3>2 DEF TellThread, At
      <4> QED  BY <4>1, SameThreadsGoOn
    <3> QED  BY <3>1, <3>2
  <2>4. QuietStep  BY <1>3, <2>1, <2>3, SameThreadsGoOn DEF QuietStep, Alone
  <2> QED  BY <2>4, QuietKeepsAlone
<1> QED  BY <1>1, <1>2, <1>4, <1>5

LEMMA OthersAlone ==
    ASSUME Typed, Alone,
           \/ KeyExpires \/ ActionRuns \/ ActionDone \/ StoreFailure \/ LowFound \/ AutoCharge
           \/ \E ok \in BOOLEAN : RobotDone(ok)
    PROVE  Alone'
<1>0. agv \in Statuses  BY DEF Typed
<1>1. CASE KeyExpires
  <2>1. UNCHANGED <<agv, threads, mqtt, reported, taken>> /\ move' = NoMove
    BY <1>1 DEF KeyExpires, ghosts
  <2>2. QuietStep  BY <2>1, SameThreadsGoOn DEF QuietStep, Alone
  <2> QED  BY <2>2, QuietKeepsAlone
<1>2. CASE ActionRuns
  <2>1. UNCHANGED <<agv, threads, move, mqtt, reported, taken>>  BY <1>2 DEF ActionRuns, movement, ghosts
  <2>2. QuietStep  BY <2>1, SameThreadsGoOn DEF QuietStep, Alone
  <2> QED  BY <2>2, QuietKeepsAlone
<1>3. CASE ActionDone
  <2>1. PICK h \in Threads : threads[h].pc = "acting" /\ NextStep(h)
    BY <1>3 DEF Typed, ActionTyped, ActionDone
  <2>2. ThreadsGoOn
    BY <2>1, NextStepIsQuiet DEF Live
  <2>3. UNCHANGED <<agv, move, mqtt, reported, taken>>  BY <1>3 DEF ActionDone, movement
  <2>4. QuietStep  BY <2>2, <2>3, SameThreadsGoOn DEF QuietStep, Alone
  <2> QED  BY <2>4, QuietKeepsAlone
<1>4. CASE StoreFailure
  <2>1. UNCHANGED <<threads, move, mqtt, reported, taken>> /\ agv'.id = agv.id /\ agv'.msg = agv.msg
    BY <1>0, <1>4 DEF StoreFailure, Statuses, movement, ghosts
  <2>2. QuietStep  BY <2>1, SameThreadsGoOn DEF QuietStep, Alone
  <2> QED  BY <2>2, QuietKeepsAlone
<1>5. CASE \E ok \in BOOLEAN : RobotDone(ok)
  <2>1. UNCHANGED <<agv, threads, move, mqtt, reported, taken>>  BY <1>5 DEF RobotDone
  <2>2. QuietStep  BY <2>1, SameThreadsGoOn DEF QuietStep, Alone
  <2> QED  BY <2>2, QuietKeepsAlone
<1>6. CASE LowFound \/ AutoCharge
  <2>1. UNCHANGED <<threads, move, mqtt, reported, taken>>
    BY <1>6 DEF LowFound, AutoCharge, movement, ghosts
  <2>2. agv'.id \in {agv.id, ChargeOrder} /\ agv'.msg = agv.msg
    BY <1>0, <1>6 DEF LowFound, AutoCharge, Statuses
  <2>3. QuietStep  BY <2>1, <2>2, SameThreadsGoOn DEF QuietStep, Alone
  <2> QED  BY <2>3, QuietKeepsAlone
<1> QED  BY <1>1, <1>2, <1>3, <1>4, <1>5, <1>6

LEMMA CommandAlone ==
    ASSUME Typed, Alone, Uncancelled, Command \/ MqttStep
    PROVE  Alone'
<1>0. agv \in Statuses /\ "RESUME" \notin Commands /\ "CANCEL" \notin Commands
  BY DEF Typed, Uncancelled
<1>1. CASE Pause
  <2>1. UNCHANGED <<agv, threads, move, reported, taken>> /\ mqtt' = "pauseMove"
    BY <1>1 DEF Pause, movement, ghosts
  <2>2. QuietStep  BY <2>1, SameThreadsGoOn DEF QuietStep, Alone
  <2> QED  BY <2>2, QuietKeepsAlone
<1>2. CASE PauseMove \/ PauseStop
  <2>1. UNCHANGED <<agv, threads, reported, taken>> /\ mqtt' \in {"pauseStop", "pauseState", "idle"}
        /\ (move' = move \/ move' = NoMove)
    BY <1>2 DEF PauseMove, PauseStop, ghosts
  <2>2. QuietStep  BY <2>1, SameThreadsGoOn DEF QuietStep, Alone
  <2> QED  BY <2>2, QuietKeepsAlone
<1>3. CASE PauseState
  <2>1. UNCHANGED <<threads, move, reported, taken>> /\ mqtt' = "idle" /\ agv'.id = agv.id /\ agv'.msg = agv.msg
    BY <1>0, <1>3 DEF PauseState, Statuses, movement, ghosts
  <2>2. QuietStep  BY <2>1, SameThreadsGoOn DEF QuietStep, Alone
  <2> QED  BY <2>2, QuietKeepsAlone
<1>4. CASE StopMoving("EMERGENCY_STOP", "stopMove") \/ DropMove("stopMove", "stopped")
  <2>1. UNCHANGED <<agv, threads, reported, taken>> /\ (mqtt' \in {"stopMove", "stopped"} \/ mqtt' = mqtt)
        /\ (move' = move \/ move' = NoMove)
    BY <1>4 DEF StopMoving, DropMove, ghosts
  <2>2. QuietStep  BY <2>1, SameThreadsGoOn DEF QuietStep, Alone
  <2> QED  BY <2>2, QuietKeepsAlone
<1>5. CASE EmergencyState
  <2>1. UNCHANGED <<threads, move, reported, taken>> /\ mqtt' = "idle" /\ agv'.id = agv.id /\ agv'.msg = agv.msg
    BY <1>0, <1>5 DEF EmergencyState, Statuses, movement, ghosts
  <2>2. QuietStep  BY <2>1, SameThreadsGoOn DEF QuietStep, Alone
  <2> QED  BY <2>2, QuietKeepsAlone
<1>6. CASE ResetEmergency
  <2>1. UNCHANGED <<agv, threads, move, mqtt, reported, taken>>  BY <1>6 DEF ResetEmergency, movement, ghosts
  <2>2. QuietStep  BY <2>1, SameThreadsGoOn DEF QuietStep, Alone
  <2> QED  BY <2>2, QuietKeepsAlone
<1>7. /\ ~Resume /\ ~StopMoving("CANCEL", "cancelMove") /\ ~ResumeState
      /\ ~DropMove("cancelMove", "cancelled") /\ ~CancelState
  BY <1>0 DEF Resume, StopMoving, DropMove, Given, ResumeState, CancelState, Alone
<1>8. CASE Execute  BY <1>8, ExecuteAlone
<1> QED  BY <1>1, <1>2, <1>3, <1>4, <1>5, <1>6, <1>7, <1>8 DEF Command, MqttStep

LEMMA NextAlone ==
    ASSUME Typed, Alone, Uncancelled, Next \/ UNCHANGED vars
    PROVE  Alone'
<1>1. CASE UNCHANGED vars
  <2>1. UNCHANGED <<agv, threads, move, mqtt, reported, taken>>  BY <1>1 DEF vars, movement, ghosts
  <2>2. QuietStep  BY <2>1, SameThreadsGoOn DEF QuietStep, Alone
  <2> QED  BY <2>2, QuietKeepsAlone
<1>2. CASE Next
  <2>1. ASSUME NEW o \in Orders, AcceptOrder(o)  PROVE Alone'  BY <2>1, AcceptOrderAlone
  <2>2. ASSUME NEW h \in Threads, ThreadStep(h)  PROVE Alone'  BY <2>2, ThreadStepAlone
  <2>3. CASE \/ KeyExpires \/ ActionRuns \/ ActionDone \/ StoreFailure \/ LowFound \/ AutoCharge
             \/ \E ok \in BOOLEAN : RobotDone(ok)
    BY <2>3, OthersAlone
  <2>4. CASE HandleResult  BY <2>4, HandleResultAlone
  <2>5. CASE Command \/ MqttStep  BY <2>5, CommandAlone
  <2> QED  BY <1>2, <2>1, <2>2, <2>3, <2>4, <2>5 DEF Next
<1> QED  BY <1>1, <1>2

\* The dispatcher is told one thing of an order: that it failed, or that it
\* finished, the latter in two messages.  That holds as long as no CANCEL or
\* RESUME is given and an order comes only when the last one was reported as
\* ended: whether movements and actions fail, answer late or never, whether the
\* AGV is paused, stopped or sent to charge at any moment, the thread of an old
\* order never reports the one that came after it.
THEOREM ToldOneThing == ASSUME Uncancelled PROVE Spec => []OutcomesAgree
<1>1. Init => Typed /\ Alone  BY InitTyped, InitAlone
<1>2. Typed /\ Alone /\ [Next]_vars => (Typed /\ Alone)'  BY NextTyped, NextAlone
<1>3. Alone => OutcomesAgree  BY DEF Alone
<1> QED  BY <1>1, <1>2, <1>3, PTL DEF Spec

-----------------------------------------------------------------------------
(* Steps in order *)

\* What is done stays done.
Grows == \A o \in Orders : done[o] \subseteq done'[o]

LEMMA InitInOrder ==
    ASSUME Init
    PROVE  InOrder
<1>1. DoneInOrder
  <2>1. \A o \in Orders : done[o] = {} /\ reported[o] = <<>>  BY DEF Init, Known
  <2>2. \A i \in DOMAIN <<>> : FALSE  OBVIOUS
  <2> QED  BY <2>1, <2>2 DEF DoneInOrder
<1>2. \A h \in Threads : Behind(h)  BY DEF Init, NoWork, Behind
<1>3. MoveWaited  BY DEF Init, MoveWaited
<1>4. MovesInOrder  BY DEF Init, MovesInOrder, MoveDriven, MoveDone, NoSnapshot
<1>5. IndexReached  BY DEF Init, IndexReached, Reached, NoMove, NoSnapshot
<1> QED  BY <1>1, <1>2, <1>3, <1>4, <1>5 DEF InOrder

\* A step is done when those ahead of it are.
LEMMA StepDone ==
    ASSUME Typed, DoneInOrder, NEW o \in Orders, NEW i \in 1..Steps(o), Upto(o, i - 1),
           done' = [done EXCEPT ![o] = @ \cup {i}], reported' = reported
    PROVE  /\ Grows /\ DoneInOrder'
           /\ 1..i \subseteq done'[o]
<1>1. done \in [Orders -> SUBSET Nat] /\ \A p \in Orders : done[p] \subseteq 1..Steps(p)
  BY DEF Typed
<1>2. Steps(o) \in Nat /\ i \in Nat  BY StepNumbers
<1>3. done'[o] = done[o] \cup {i} /\ \A p \in Orders \ {o} : done'[p] = done[p]  BY <1>1
<1>4. Grows  BY <1>3 DEF Grows
<1>5. 1..i \subseteq done'[o]
  <2>1. \A j \in 1..i : j = i \/ j \in 1..(i - 1)  BY <1>2
  <2> QED  BY <1>3, <2>1 DEF Upto
<1>6. ASSUME NEW p \in Orders, NEW j \in done'[p]  PROVE 1..j \subseteq done'[p]
  <2>1. CASE p = o /\ j = i  BY <1>5, <2>1
  <2>2. CASE j \in done[p]  BY <1>4, <2>2 DEF Grows, DoneInOrder
  <2> QED  BY <1>3, <1>6, <2>1, <2>2
<1>7. ASSUME NEW p \in Orders, NEW j \in DOMAIN reported[p], reported[p][j] = "FINISHED"
      PROVE  done'[p] = 1..Steps(p)
  <2>1. done[p] = 1..Steps(p)  BY <1>7 DEF DoneInOrder
  <2> QED  BY <1>1, <1>3, <2>1
<1>8. DoneInOrder'  BY <1>6, <1>7 DEF DoneInOrder
<1> QED  BY <1>4, <1>5, <1>8

LEMMA ReportInOrder ==
    ASSUME Typed, DoneInOrder, NEW o \in AnyKnown, NEW outcome \in Outcomes,
           outcome = "FINISHED" /\ o \in Orders => done[o] = 1..Steps(o),
           reported' = Report(o, outcome), done' = done
    PROVE  DoneInOrder'
<1>1. reported \in [Known -> Seq(Outcomes)]  BY DEF Typed
<1>2. ASSUME NEW p \in Orders, NEW j \in DOMAIN reported'[p], reported'[p][j] = "FINISHED"
      PROVE  done[p] = 1..Steps(p)
  <2>1. CASE o = p /\ o # NoOrder
    <3>1. reported'[p] = Append(reported[p], outcome)  BY <1>1, <2>1 DEF Report, Known
    <3>2. reported[p] \in Seq(Outcomes)  BY <1>1 DEF Known
    <3>3. CASE j \in DOMAIN reported[p]
      <4>1. reported[p][j] = "FINISHED"  BY <1>2, <3>1, <3>2, <3>3
      <4> QED  BY <3>3, <4>1 DEF DoneInOrder
    <3>4. CASE j \notin DOMAIN reported[p]
      <4>1. outcome = "FINISHED"  BY <1>2, <3>1, <3>2, <3>4
      <4> QED  BY <2>1, <4>1
    <3> QED  BY <3>3, <3>4
  <2>2. CASE ~(o = p /\ o # NoOrder)
    <3>1. reported'[p] = reported[p]  BY <1>1, <2>2 DEF Report, Known
    <3> QED  BY <1>2, <3>1 DEF DoneInOrder
  <2> QED  BY <2>1, <2>2
<1> QED  BY <1>2 DEF DoneInOrder

LEMMA NothingDone ==
    ASSUME DoneInOrder, UNCHANGED <<done, reported>>
    PROVE  DoneInOrder' /\ Grows
BY DEF DoneInOrder, Grows

\* What a thread has behind it stays there.
LEMMA BehindKept ==
    ASSUME Typed, Grows, NEW h \in Threads, Behind(h), threads'[h] = threads[h]
    PROVE  Behind(h)'
<1>1. threads[h].pc # "off" => threads[h].order \in Orders  BY WorkOf
<1> QED  BY <1>1 DEF Behind, Upto, Grows

Begun == {"check", "set", "move", "wait", "act", "acting"}

\* One thread changes, to what has its own steps behind it.
LEMMA OneBehind ==
    ASSUME Typed, Grows, \A k \in Threads : Behind(k),
           NEW h \in Threads, NEW w, threads' = [threads EXCEPT ![h] = w],
           w.pc \in Begun => 1..(w.step - 1) \subseteq done'[w.order],
           w.pc = "arrive" => 1..w.step \subseteq done'[w.order]
    PROVE  \A k \in Threads : Behind(k)'
<1>1. threads \in [Threads -> Works]  BY DEF Typed
<1>2. threads'[h] = w /\ \A k \in Threads \ {h} : threads'[k] = threads[k]  BY <1>1
<1>3. Behind(h)'  BY <1>2 DEF Behind, Upto, Begun
<1>4. \A k \in Threads \ {h} : Behind(k)'  BY <1>2, BehindKept
<1> QED  BY <1>3, <1>4

LEMMA GotoBehind ==
    ASSUME Typed, Grows, \A k \in Threads : Behind(k),
           NEW h \in Threads, NEW pc, Goto(h, pc),
           pc \in Begun => 1..(threads[h].step - 1) \subseteq done'[threads[h].order],
           pc = "arrive" => 1..threads[h].step \subseteq done'[threads[h].order]
    PROVE  \A k \in Threads : Behind(k)'
<1>1. threads[h] \in Works  BY DEF Typed
<1> DEFINE w == [threads[h] EXCEPT !.pc = pc]
<1>2. w.pc = pc /\ w.order = threads[h].order /\ w.step = threads[h].step  BY <1>1 DEF Works
<1>3. threads' = [threads EXCEPT ![h] = w]  BY DEF Goto
<1> HIDE DEF w
<1> QED  BY <1>2, <1>3, OneBehind

LEMMA NextStepBehind ==
    ASSUME Typed, Grows, \A k \in Threads : Behind(k),
           NEW h \in Threads, threads[h].pc # "off", NextStep(h),
           1..threads[h].step \subseteq done'[threads[h].order]
    PROVE  \A k \in Threads : Behind(k)'
<1>1. threads[h] \in Works /\ threads[h].step \in Nat  BY WorkOf
<1> DEFINE w == [threads[h] EXCEPT !.pc = "check", !.step = @ + 1]
<1>2. w.pc = "check" /\ w.order = threads[h].order /\ w.step = threads[h].step + 1  BY <1>1 DEF Works
<1>3. threads' = [threads EXCEPT ![h] = w]  BY DEF NextStep
<1> HIDE DEF w
<1>4. w.step - 1 = threads[h].step  BY <1>1, <1>2
<1> QED  BY <1>2, <1>3, <1>4, OneBehind

LEMMA StopBehind ==
    ASSUME Typed, Grows, \A k \in Threads : Behind(k), NEW h \in Threads, Stop(h)
    PROVE  \A k \in Threads : Behind(k)'
<1>1. NoWork.pc = "off"  BY DEF NoWork
<1> QED  BY <1>1, OneBehind DEF Stop, Begun

LEMMA SpawnBehind ==
    ASSUME Typed, Grows, \A k \in Threads : Behind(k),
           NEW o \in Orders, NEW i \in Nat \ {0}, Spawn(o, i), 1..(i - 1) \subseteq done'[o]
    PROVE  \A k \in Threads : Behind(k)'
<1> DEFINE w == [pc |-> "check", order |-> o, step |-> i]
<1>1. PICK h \in Threads : threads' = [threads EXCEPT ![h] = w]  BY DEF Spawn
<1>2. w.pc = "check" /\ w.order = o /\ w.step = i  OBVIOUS
<1> HIDE DEF w
<1> QED  BY <1>1, <1>2, OneBehind

LEMMA AllBehindKept ==
    ASSUME Typed, Grows, \A k \in Threads : Behind(k), threads' = threads
    PROVE  \A k \in Threads : Behind(k)'
BY BehindKept

\* A thread that waits for the current movement goes on waiting.
LEMMA WaitedKept ==
    ASSUME Typed, MoveWaited,
           move' = NoMove \/ (move' = move /\ \A k \in Threads : threads[k].pc = "wait" => threads'[k] = threads[k])
    PROVE  MoveWaited'
<1>1. CASE move' = NoMove  BY <1>1 DEF MoveWaited
<1>2. CASE move' = move /\ \A k \in Threads : threads[k].pc = "wait" => threads'[k] = threads[k]
  <2>1. CASE move # NoMove /\ move.waiter # Resumer
    <3>1. move.waiter \in Threads  BY <2>1, MoveWaiter
    <3> QED  BY <1>2, <2>1, <3>1 DEF MoveWaited
  <2>2. CASE ~(move # NoMove /\ move.waiter # Resumer)  BY <1>2, <2>2 DEF MoveWaited
  <2> QED  BY <2>1, <2>2
<1> QED  BY <1>1, <1>2

\* Movements that end or go on, while no result comes and more is done.
LEMMA MovesKept ==
    ASSUME Typed, MovesInOrder, Grows,
           move' = move \/ move' = NoMove, robot' = robot \/ robot' = NoDrive,
           snapshot' = snapshot, results' = results
    PROVE  MovesInOrder'
<1>1. move # NoMove => move.order \in Orders  BY DEF Typed, Movements, IsMove
<1>2. robot # NoDrive => robot.order \in Orders  BY DEF Typed, Drives, IsMove
<1>3. snapshot.step # 0 => snapshot.order \in Orders  BY DEF Typed, Snapshots, IsMove
<1>4. (move # NoMove => Upto(move.order, move.step - 1))'  BY <1>1 DEF MovesInOrder, Upto, Grows
<1>5. (robot # NoDrive => Upto(robot.order, robot.step - 1))'  BY <1>2 DEF MovesInOrder, Upto, Grows
<1>6. (snapshot.step # 0 => Upto(snapshot.order, snapshot.step - 1))'
  BY <1>3 DEF MovesInOrder, Upto, Grows
<1>7. MoveDriven'  BY DEF MovesInOrder, MoveDriven
<1>8. MoveDone'  BY <1>1 DEF MovesInOrder, MoveDone, Grows
<1> QED  BY <1>4, <1>5, <1>6, <1>7, <1>8 DEF MovesInOrder

LEMMA IndexKept ==
    ASSUME Typed, IndexReached, Grows,
           agv'.index = agv.index \/ agv'.index = 1, snapshot'.index = snapshot.index,
           move' = move \/ move' = NoMove
    PROVE  IndexReached'
<1>1. ("RESUME" \notin Commands => ~(move # NoMove /\ move.waiter = Resumer))'  BY DEF IndexReached
<1>2. ASSUME "RESUME" \in Commands
      PROVE  Reached(agv.index)' /\ Reached(snapshot.index)' /\ Reached(move.index)'
  <2>1. Reached(agv.index) /\ Reached(snapshot.index) /\ Reached(move.index)  BY <1>2 DEF IndexReached
  <2>2. Reached(agv.index)'
    <3>1. CASE agv'.index = agv.index  BY <2>1, <3>1 DEF Reached, Upto, Grows
    <3>2. CASE agv'.index = 1  BY <3>2 DEF Reached
    <3> QED  BY <3>1, <3>2
  <2>3. Reached(snapshot.index)'  BY <2>1 DEF Reached, Upto, Grows
  <2>4. Reached(move.index)'
    <3>1. CASE move' = move  BY <2>1, <3>1 DEF Reached, Upto, Grows
    <3>2. CASE move' = NoMove  BY <3>2 DEF Reached, NoMove
    <3> QED  BY <3>1, <3>2
  <2> QED  BY <2>2, <2>3, <2>4
<1> QED  BY <1>1, <1>2 DEF IndexReached

\* What a thread does on its own, all but moving: its own record and at most the
\* state of the AGV change.
LEMMA OwnStepInOrder ==
    ASSUME Typed, InOrder, NEW h \in Threads, NEW pc, Stop(h) \/ Goto(h, pc),
           threads[h].pc # "wait",
           pc \in Begun => 1..(threads[h].step - 1) \subseteq done[threads[h].order],
           pc # "arrive",
           DoneInOrder', agv'.index = agv.index,
           UNCHANGED <<move, moves, robot, snapshot, results, done>>
    PROVE  InOrder'
<1>1. Grows  BY DEF Grows
<1>2. \A k \in Threads : Behind(k)'  BY <1>1, StopBehind, GotoBehind DEF InOrder
<1>3. MoveWaited'
  <2>1. \A k \in Threads : threads[k].pc = "wait" => threads'[k] = threads[k]
    BY DEF Goto, Stop, Typed
  <2> QED  BY <2>1, WaitedKept DEF InOrder
<1>4. MovesInOrder'  BY <1>1, MovesKept DEF InOrder
<1>5. IndexReached'  BY <1>1, IndexKept DEF InOrder
<1> QED  BY <1>2, <1>3, <1>4, <1>5 DEF InOrder

\* Nothing is left behind when the plan has been gone through.
LEMMA CompleteInOrder ==
    ASSUME Typed, InOrder, NEW h \in Threads, Complete(h)
    PROVE  InOrder'
<1>0. threads[h].pc = "check" /\ threads[h].step > Steps(threads[h].order)  BY DEF Complete, At
<1>1. UNCHANGED <<move, moves, robot, snapshot, results, done>> /\ agv'.index = agv.index
  BY DEF Complete, TellFinished, movement, Typed, Statuses
<1>2. threads[h].order \in Orders /\ threads[h].step \in Nat  BY <1>0, WorkOf
<1>3. PICK o \in Orders : o = threads[h].order  BY <1>2
<1>4. done[o] = 1..Steps(o)
  <2>1. Steps(o) \in Nat /\ done[o] \subseteq 1..Steps(o)  BY StepNumbers DEF Typed
  <2>2. 1..(threads[h].step - 1) \subseteq done[o]  BY <1>0, <1>3 DEF InOrder, Behind, Upto
  <2>3. Steps(o) <= threads[h].step - 1  BY <1>0, <1>2, <1>3, <2>1
  <2>4. 1..Steps(o) \subseteq 1..(threads[h].step - 1)  BY <1>2, <2>1, <2>3
  <2> QED  BY <2>1, <2>2, <2>4
<1>5. DoneInOrder'
  <2>1. reported' = Report(o, "FINISHED")  BY <1>3 DEF Complete, TellFinished
  <2> QED  BY <1>1, <1>4, <2>1, ReportInOrder DEF InOrder, AnyKnown, Known, Outcomes
<1>6. Goto(h, "told")  BY DEF Complete, TellFinished
<1>7. "told" \notin Begun  BY DEF Begun
<1> QED  BY <1>0, <1>1, <1>5, <1>6, <1>7, OwnStepInOrder

LEMMA TellCompletedInOrder ==
    ASSUME Typed, InOrder, NEW h \in Threads, TellCompleted(h)
    PROVE  InOrder'
<1>0. threads[h].pc = "told" /\ Stop(h)  BY DEF TellCompleted, At
<1>1. UNCHANGED <<agv, move, moves, robot, snapshot, results, done>>  BY DEF TellCompleted, movement
<1>2. PICK o \in Orders : o = threads[h].order  BY <1>0, WorkOf
<1>3. reported' = Report(o, "COMPLETED")  BY <1>2 DEF TellCompleted
<1>4. DoneInOrder'  BY <1>1, <1>3, ReportInOrder DEF InOrder, AnyKnown, Known, Outcomes
<1> QED  BY <1>0, <1>1, <1>4, OwnStepInOrder DEF Begun

LEMMA CheckInOrder ==
    ASSUME Typed, InOrder, NEW h \in Threads, Check(h)
    PROVE  InOrder'
<1>0. threads[h].pc = "check"  BY DEF Check, At
<1>1. UNCHANGED <<agv, move, moves, robot, snapshot, results, reported, done>>
  BY DEF Check, movement, ghosts
<1>2. DoneInOrder'  BY <1>1, NothingDone DEF InOrder
<1>3. 1..(threads[h].step - 1) \subseteq done[threads[h].order]
  BY <1>0 DEF InOrder, Behind, Upto
<1>4. CASE Stop(h) \/ Goto(h, "error")  BY <1>0, <1>1, <1>2, <1>3, <1>4, OwnStepInOrder
<1>5. CASE Goto(h, "set")  BY <1>0, <1>1, <1>2, <1>3, <1>5, OwnStepInOrder
<1> QED  BY <1>4, <1>5 DEF Check

LEMMA SetStateInOrder ==
    ASSUME Typed, InOrder, NEW h \in Threads, SetState(h)
    PROVE  InOrder'
<1>0. threads[h].pc = "set"  BY DEF SetState, At
<1>1. UNCHANGED <<move, moves, robot, snapshot, results, reported, done>>
  BY DEF SetState, movement, ghosts
<1>2. agv'.index = agv.index  BY DEF SetState, Typed, Statuses
<1>3. DoneInOrder'  BY <1>1, NothingDone DEF InOrder
<1>4. 1..(threads[h].step - 1) \subseteq done[threads[h].order]
  BY <1>0 DEF InOrder, Behind, Upto
<1>5. CASE Goto(h, "move")  BY <1>0, <1>1, <1>2, <1>3, <1>4, <1>5, OwnStepInOrder
<1>6. CASE Goto(h, "act")  BY <1>0, <1>1, <1>2, <1>3, <1>4, <1>6, OwnStepInOrder
<1> QED  BY <1>5, <1>6 DEF SetState

LEMMA AtStartNodeInOrder ==
    ASSUME Typed, InOrder, NEW h \in Threads, AtStartNode(h)
    PROVE  InOrder'
<1>0. threads[h].pc = "move" /\ threads[h].step = 1 /\ Goto(h, "arrive")  BY DEF AtStartNode, At
<1>1. UNCHANGED <<agv, move, moves, robot, snapshot, results, reported>>  BY DEF AtStartNode, movement
<1>2. PICK o \in Orders : o = threads[h].order /\ 1 \in 1..Steps(o)
  BY <1>0, WorkOf DEF Executing
<1>3. Grows /\ DoneInOrder' /\ 1..1 \subseteq done'[o]
  <2>1. Upto(o, 1 - 1)  BY DEF Upto
  <2>2. done' = [done EXCEPT ![o] = @ \cup {1}]  BY <1>2 DEF AtStartNode
  <2> QED  BY <1>1, <1>2, <2>1, <2>2, StepDone DEF InOrder
<1>4. \A k \in Threads : Behind(k)'
  <2>1. 1..threads[h].step \subseteq done'[threads[h].order]  BY <1>0, <1>2, <1>3
  <2>2. "arrive" \notin Begun  BY DEF Begun
  <2> QED  BY <1>0, <1>3, <2>1, <2>2, GotoBehind DEF InOrder
<1>5. MoveWaited'
  <2>1. \A k \in Threads : threads[k].pc = "wait" => threads'[k] = threads[k]
    BY <1>0 DEF Goto, Typed
  <2> QED  BY <1>1, <2>1, WaitedKept DEF InOrder
<1>6. MovesInOrder'  BY <1>1, <1>3, MovesKept DEF InOrder
<1>7. IndexReached'  BY <1>1, <1>3, IndexKept DEF InOrder
<1> QED  BY <1>3, <1>4, <1>5, <1>6, <1>7 DEF InOrder

LEMMA ResultNumbers ==
    ASSUME Typed
    PROVE  \A r \in results : r.id \in 1..moves
BY DEF Typed, Results

\* No result that is on its way belongs to a command that is only made now.
LEMMA SendInOrder ==
    ASSUME Typed, MovesInOrder, NEW o, NEW i, Upto(o, i - 1), NEW waiter, NEW index,
           Send(o, i, waiter, index), UNCHANGED <<snapshot, results, done>>
    PROVE  MovesInOrder'
<1>1. moves \in Nat /\ results \in Results(moves)  BY DEF Typed
<1>2. move' = [id |-> moves + 1, order |-> o, step |-> i, waiter |-> waiter, index |-> index, done |-> FALSE]
      /\ robot' = [id |-> moves + 1, order |-> o, step |-> i]
  BY DEF Send
<1>3. move'.id = moves + 1 /\ move'.order = o /\ move'.step = i
      /\ robot'.order = o /\ robot'.step = i
  BY <1>2
<1>4. \A r \in results : r.id \in 1..moves  BY ResultNumbers
<1>5. MoveDone'
  <2>1. \A r \in results : r.id # moves + 1  BY <1>1, <1>4
  <2> QED  BY <1>3, <2>1 DEF MoveDone
<1>6. MoveDriven'  BY <1>3 DEF MoveDriven
<1>7. (move # NoMove => Upto(move.order, move.step - 1))'
      /\ (robot # NoDrive => Upto(robot.order, robot.step - 1))'
  BY <1>3 DEF Upto
<1>8. (snapshot.step # 0 => Upto(snapshot.order, snapshot.step - 1))'
  BY DEF MovesInOrder, Upto
<1> QED  BY <1>5, <1>6, <1>7, <1>8 DEF MovesInOrder

LEMMA StartMoveInOrder ==
    ASSUME Typed, InOrder, NEW h \in Threads, StartMove(h)
    PROVE  InOrder'
<1>0. threads[h].pc = "move" /\ Goto(h, "wait") /\ Send(threads[h].order, threads[h].step, h, 0)
  BY DEF StartMove, At
<1>1. UNCHANGED <<agv, snapshot, results, reported, done>>  BY DEF StartMove, ghosts
<1>2. Grows /\ DoneInOrder'  BY <1>1, NothingDone DEF InOrder
<1>3. Upto(threads[h].order, threads[h].step - 1)  BY <1>0 DEF InOrder, Behind
<1>4. \A k \in Threads : Behind(k)'  BY <1>0, <1>1, <1>2, <1>3, GotoBehind DEF InOrder, Upto
<1>5. move'.waiter = h /\ move'.order = threads[h].order /\ move'.step = threads[h].step
      /\ move'.index = 0
  BY <1>0 DEF Send
<1>6. MoveWaited'
  <2>1. threads[h] \in Works /\ threads \in [Threads -> Works]  BY DEF Typed
  <2>2. threads'[h].pc = "wait" /\ threads'[h].order = threads[h].order /\ threads'[h].step = threads[h].step
    BY <1>0, <2>1 DEF Goto, Works
  <2> QED  BY <1>5, <2>2 DEF MoveWaited
<1>7. MovesInOrder'
  <2>1. PICK o, i : o = threads[h].order /\ i = threads[h].step  OBVIOUS
  <2> QED  BY <1>0, <1>1, <1>3, <2>1, SendInOrder DEF InOrder
<1>8. IndexReached'  BY <1>1, <1>5, NobodyIsNone DEF InOrder, IndexReached, Reached, Upto
<1> QED  BY <1>2, <1>4, <1>6, <1>7, <1>8 DEF InOrder

\* A thread gives up its movement; whichever is current is dropped.
LEMMA GiveUpInOrder ==
    ASSUME Typed, InOrder, NEW h \in Threads, StartMoveFails(h) \/ MoveTimeout(h)
    PROVE  InOrder'
<1>1. UNCHANGED <<agv, robot, snapshot, results, reported, done>> /\ move' = NoMove /\ Goto(h, "error")
  BY DEF StartMoveFails, MoveTimeout, ghosts
<1>2. Grows /\ DoneInOrder'  BY <1>1, NothingDone DEF InOrder
<1>3. \A k \in Threads : Behind(k)'  BY <1>1, <1>2, GotoBehind DEF InOrder, Begun
<1>4. MoveWaited'  BY <1>1, WaitedKept DEF InOrder
<1>5. MovesInOrder'  BY <1>1, <1>2, MovesKept DEF InOrder
<1>6. IndexReached'  BY <1>1, <1>2, IndexKept DEF InOrder
<1> QED  BY <1>2, <1>3, <1>4, <1>5, <1>6 DEF InOrder

\* The index that is stored on arrival is that of a node that was reached.
LEMMA ArrivalReached ==
    ASSUME Typed, Focused, Uncharged, IndexReached, "RESUME" \in Commands,
           NEW o \in Orders, NEW i \in Nat, IsMove(o, i), 1..i \subseteq done[o]
    PROVE  Reached(StatusAfterArrival(o, i).index)
<1>1. agv \in Statuses /\ Reached(agv.index)  BY DEF Typed, IndexReached
<1>2. CASE agv.plan = NoOrder  BY <1>1, <1>2 DEF StatusAfterArrival
<1>3. CASE agv.plan # NoOrder
  <2>1. agv.plan \in Orders  BY <1>1, <1>3 DEF Statuses, AnyKnown, Known, Focused, Uncharged
  <2>2. agv.plan = o /\ \A p \in Orders : p = o  BY <2>1 DEF Focused
  <2> DEFINE n == IndexIn(o, Route[o][i])
  <2>3. n \in Nat /\ n <= i
    <3>1. i \in DOMAIN Route[o]  BY StepNumbers DEF IsMove
    <3> QED  BY <3>1, IndexFound DEF Known
  <2>4. StatusAfterArrival(o, i).index = n  BY <1>1, <1>3, <2>2 DEF StatusAfterArrival, Statuses
  <2> HIDE DEF n
  <2>5. 1..n \subseteq done[o]
    <3>1. 1..n \subseteq 1..i  BY <2>3
    <3> QED  BY <3>1
  <2> QED  BY <2>2, <2>4, <2>5 DEF Reached, Upto
<1> QED  BY <1>2, <1>3

LEMMA ArriveInOrder ==
    ASSUME Typed, Focused, Uncharged, InOrder, NEW h \in Threads, Arrive(h)
    PROVE  InOrder'
<1>0. threads[h].pc = "arrive" /\ agv' = StatusAfterArrival(threads[h].order, threads[h].step)
      /\ (Goto(h, "error") \/ NextStep(h))
  BY DEF Arrive, At
<1>1. UNCHANGED <<move, moves, robot, snapshot, results, reported, done>>
  BY DEF Arrive, movement, ghosts
<1>2. Grows /\ DoneInOrder'  BY <1>1, NothingDone DEF InOrder
<1>3. PICK o \in Orders, i \in Nat : o = threads[h].order /\ i = threads[h].step /\ IsMove(o, i)
  BY <1>0, WorkOf
<1>4. 1..i \subseteq done[o]  BY <1>0, <1>3 DEF InOrder, Behind, Upto
<1>5. \A k \in Threads : Behind(k)'
  <2>1. CASE Goto(h, "error")  BY <1>2, <2>1, GotoBehind DEF InOrder, Begun
  <2>2. CASE NextStep(h)  BY <1>0, <1>1, <1>2, <1>3, <1>4, <2>2, NextStepBehind DEF InOrder
  <2> QED  BY <1>0, <2>1, <2>2
<1>6. MoveWaited'
  <2>1. \A k \in Threads : threads[k].pc = "wait" => threads'[k] = threads[k]
    BY <1>0 DEF Goto, NextStep, Typed
  <2> QED  BY <1>1, <2>1, WaitedKept DEF InOrder
<1>7. MovesInOrder'  BY <1>1, <1>2, MovesKept DEF InOrder
<1>8. IndexReached'
  <2>1. CASE "RESUME" \notin Commands  BY <1>1, <2>1 DEF InOrder, IndexReached
  <2>2. CASE "RESUME" \in Commands
    <3>1. agv'.index = StatusAfterArrival(o, i).index  BY <1>0, <1>3
    <3>2. Reached(StatusAfterArrival(o, i).index)  BY <1>3, <1>4, <2>2, ArrivalReached DEF InOrder
    <3>3. Reached(agv.index)'  BY <1>1, <3>1, <3>2 DEF Reached, Upto
    <3> QED  BY <1>1, <2>2, <3>3 DEF InOrder, IndexReached, Reached, Upto
  <2> QED  BY <2>1, <2>2
<1> QED  BY <1>2, <1>5, <1>6, <1>7, <1>8 DEF InOrder

\* Steps that change no thread, end a movement or none, and do nothing.
LEMMA AsideInOrder ==
    ASSUME Typed, InOrder, threads' = threads, DoneInOrder', done' = done,
           agv'.index = agv.index \/ agv'.index = 1,
           move' = move \/ move' = NoMove, robot' = robot \/ robot' = NoDrive,
           UNCHANGED <<snapshot, results>>
    PROVE  InOrder'
<1>1. Grows  BY DEF Grows
<1>2. \A k \in Threads : Behind(k)'  BY <1>1, AllBehindKept DEF InOrder
<1>3. MoveWaited'  BY WaitedKept DEF InOrder
<1>4. MovesInOrder'  BY <1>1, MovesKept DEF InOrder
<1>5. IndexReached'  BY <1>1, IndexKept DEF InOrder
<1> QED  BY <1>2, <1>3, <1>4, <1>5 DEF InOrder

LEMMA AcceptOrderInOrder ==
    ASSUME Typed, InOrder, NEW o \in Orders, AcceptOrder(o)
    PROVE  InOrder'
<1>1. UNCHANGED <<threads, move, robot, snapshot, results, reported, done>>  BY DEF AcceptOrder, movement
<1>2. DoneInOrder'  BY <1>1, NothingDone DEF InOrder
<1>3. agv'.index = 1  BY DEF AcceptOrder, Typed, Statuses
<1> QED  BY <1>1, <1>2, <1>3, AsideInOrder

\* A new thread starts with the first step, and has nothing behind it.
LEMMA ExecuteInOrder ==
    ASSUME Typed, InOrder, Execute
    PROVE  InOrder'
<1>1. UNCHANGED <<agv, move, robot, snapshot, results, reported, done>>  BY DEF Execute, movement, ghosts
<1>2. DoneInOrder' /\ Grows  BY <1>1, NothingDone DEF InOrder
<1>3. CASE PlanFails
  <2>1. threads' = threads  BY <1>3 DEF Execute
  <2> QED  BY <1>1, <1>2, <2>1, AsideInOrder
<1>4. CASE ~PlanFails
  <2>1. PICK o \in Orders : o = agv.msg  BY <1>4, PlanIsBuilt
  <2>2. Spawn(o, 1)  BY <1>4, <2>1 DEF Execute
  <2>3. 1..(1 - 1) \subseteq done'[o]  OBVIOUS
  <2>4. \A k \in Threads : Behind(k)'  BY <1>2, <2>2, <2>3, SpawnBehind DEF InOrder
  <2>5. \A k \in Threads : threads[k].pc = "wait" => threads'[k] = threads[k]
    BY <2>2 DEF Spawn, At, Typed
  <2>6. MoveWaited'  BY <1>1, <2>5, WaitedKept DEF InOrder
  <2>7. MovesInOrder'  BY <1>1, <1>2, MovesKept DEF InOrder
  <2>8. IndexReached'  BY <1>1, <1>2, IndexKept DEF InOrder
  <2> QED  BY <1>2, <2>4, <2>6, <2>7, <2>8 DEF InOrder
<1> QED  BY <1>3, <1>4

LEMMA ChargingInOrder ==
    ASSUME Typed, InOrder, LowFound \/ AutoCharge
    PROVE  InOrder'
<1>1. UNCHANGED <<threads, move, robot, snapshot, results, reported, done>>
  BY DEF LowFound, AutoCharge, movement, ghosts
<1>2. DoneInOrder'  BY <1>1, NothingDone DEF InOrder
<1>3. agv'.index = agv.index \/ agv'.index = 1  BY DEF LowFound, AutoCharge, Typed, Statuses
<1> QED  BY <1>1, <1>2, <1>3, AsideInOrder

\* The thread whose action is put off does not go on.
LEMMA StartActionInOrder ==
    ASSUME Typed, InOrder, NEW h \in Threads, StartAction(h)
    PROVE  InOrder'
<1>0. threads[h].pc = "act" /\ threads \in [Threads -> Works]  BY DEF StartAction, At, Typed
<1>1. UNCHANGED <<agv, move, moves, robot, snapshot, results, reported, done>>
  BY DEF StartAction, movement, ghosts
<1>2. Grows /\ DoneInOrder'  BY <1>1, NothingDone DEF InOrder
<1>3. ASSUME NEW k \in Threads  PROVE Behind(k)'
  <2>1. CASE k = h
    <3>1. threads'[k] = [threads[k] EXCEPT !.pc = "acting"]  BY <2>1 DEF StartAction
    <3>2. threads'[k].pc = "acting" /\ threads'[k].order = threads[k].order /\ threads'[k].step = threads[k].step
      BY <1>0, <3>1 DEF Works
    <3> QED  BY <1>0, <1>1, <2>1, <3>2 DEF InOrder, Behind, Upto
  <2>2. CASE k # h /\ k = act.thread
    <3>1. threads'[k] = [threads[k] EXCEPT !.pc = "error"]  BY <2>2 DEF StartAction
    <3>2. threads'[k].pc = "error"  BY <1>0, <3>1 DEF Works
    <3> QED  BY <3>2 DEF Behind
  <2>3. CASE k # h /\ k # act.thread
    <3>1. threads'[k] = threads[k]  BY <2>3 DEF StartAction
    <3> QED  BY <1>2, <3>1, BehindKept DEF InOrder
  <2> QED  BY <2>1, <2>2, <2>3
<1>4. MoveWaited'
  <2>1. ASSUME NEW k \in Threads, threads[k].pc = "wait"  PROVE threads'[k] = threads[k]
    <3>1. k # h  BY <1>0, <2>1
    <3>2. k # act.thread
      <4>1. act = NoAction \/ threads[act.thread].pc = "acting"  BY DEF Typed, ActionTyped
      <4> QED  BY <2>1, <4>1, NobodyIsNone DEF NoAction
    <3> QED  BY <3>1, <3>2 DEF StartAction
  <2> QED  BY <1>1, <2>1, WaitedKept DEF InOrder
<1>5. MovesInOrder'  BY <1>1, <1>2, MovesKept DEF InOrder
<1>6. IndexReached'  BY <1>1, <1>2, IndexKept DEF InOrder
<1> QED  BY <1>2, <1>3, <1>4, <1>5, <1>6 DEF InOrder

LEMMA ActionDoneInOrder ==
    ASSUME Typed, InOrder, ActionDone
    PROVE  InOrder'
<1>0. PICK h \in Threads : h = act.thread /\ threads[h].pc = "acting" /\ NextStep(h)
  BY DEF Typed, ActionTyped, ActionDone
<1>1. UNCHANGED <<agv, move, moves, robot, snapshot, results, reported>>  BY DEF ActionDone, movement
<1>2. PICK o \in Orders, i \in Nat : o = threads[h].order /\ i = threads[h].step /\ i \in 1..Steps(o)
  BY <1>0, WorkOf DEF Executing
<1>3. Grows /\ DoneInOrder' /\ 1..i \subseteq done'[o]
  <2>1. Upto(o, i - 1)  BY <1>0, <1>2 DEF InOrder, Behind
  <2>2. done' = [done EXCEPT ![o] = @ \cup {i}]  BY <1>0, <1>2 DEF ActionDone
  <2>3. i \in 1..Steps(o) /\ reported' = reported /\ DoneInOrder  BY <1>1, <1>2 DEF InOrder
  <2> QED  BY <2>1, <2>2, <2>3, StepDone
<1>4. \A k \in Threads : Behind(k)'  BY <1>0, <1>2, <1>3, NextStepBehind DEF InOrder
<1>5. MoveWaited'
  <2>1. \A k \in Threads : threads[k].pc = "wait" => threads'[k] = threads[k]
    BY <1>0 DEF NextStep, Typed
  <2> QED  BY <1>1, <2>1, WaitedKept DEF InOrder
<1>6. MovesInOrder'  BY <1>1, <1>3, MovesKept DEF InOrder
<1>7. IndexReached'  BY <1>1, <1>3, IndexKept DEF InOrder
<1> QED  BY <1>3, <1>4, <1>5, <1>6, <1>7 DEF InOrder

LEMMA ActionTimeoutInOrder ==
    ASSUME Typed, InOrder, NEW h \in Threads, ActionTimeout(h)
    PROVE  InOrder'
<1>0. threads[h].pc = "acting" /\ Goto(h, "error")  BY DEF ActionTimeout, At
<1>1. UNCHANGED <<agv, move, moves, robot, snapshot, results, reported, done>>
  BY DEF ActionTimeout, movement, ghosts
<1>2. DoneInOrder'  BY <1>1, NothingDone DEF InOrder
<1> QED  BY <1>0, <1>1, <1>2, OwnStepInOrder DEF Begun

LEMMA ErrorInOrder ==
    ASSUME Typed, InOrder, NEW h \in Threads, Error(h)
    PROVE  InOrder'
<1>0. threads[h].pc = "error" /\ Goto(h, "cancel")  BY DEF Error, At
<1>1. UNCHANGED <<move, moves, robot, snapshot, results, done>> /\ agv'.index = agv.index
  BY DEF Error, movement, Typed, Statuses
<1>2. agv.id \in AnyKnown  BY DEF Typed, Statuses
<1>3. DoneInOrder'  BY <1>1, <1>2, ReportInOrder DEF InOrder, Error, Outcomes
<1> QED  BY <1>0, <1>1, <1>3, OwnStepInOrder DEF Begun

LEMMA CancelOrderInOrder ==
    ASSUME Typed, InOrder, NEW h \in Threads, CancelOrder(h)
    PROVE  InOrder'
<1>0. threads[h].pc = "cancel" /\ Stop(h)  BY DEF CancelOrder, At
<1>1. UNCHANGED <<move, moves, robot, snapshot, results, reported, done>> /\ agv'.index = agv.index
  BY DEF CancelOrder, movement, ghosts, Typed, Statuses
<1>2. DoneInOrder'  BY <1>1, NothingDone DEF InOrder
<1> QED  BY <1>0, <1>1, <1>2, OwnStepInOrder DEF Begun

LEMMA ThreadStepInOrder ==
    ASSUME Typed, Focused, Uncharged, InOrder, NEW h \in Threads, ThreadStep(h)
    PROVE  InOrder'
BY CompleteInOrder, TellCompletedInOrder, CheckInOrder, SetStateInOrder, AtStartNodeInOrder, StartMoveInOrder, GiveUpInOrder,
   ArriveInOrder, StartActionInOrder, ActionTimeoutInOrder, ErrorInOrder, CancelOrderInOrder
   DEF ThreadStep

\* What the robot has done is the step it was given.
LEMMA RobotDoneInOrder ==
    ASSUME Typed, InOrder, NEW ok \in BOOLEAN, RobotDone(ok)
    PROVE  InOrder'
<1>0. robot # NoDrive /\ robot.id \in 1..moves /\ IsMove(robot.order, robot.step) /\ robot.step \in Nat
  BY DEF RobotDone, Typed, Drives
<1>1. UNCHANGED <<agv, threads, move, snapshot, reported>> /\ robot' = NoDrive  BY DEF RobotDone
<1>2. PICK o \in Orders, i \in Nat : o = robot.order /\ i = robot.step /\ i \in 1..Steps(o)
  BY <1>0, StepNumbers DEF IsMove
<1>3. Grows /\ DoneInOrder' /\ (ok => i \in done'[o])
  <2>1. CASE ok
    <3>1. Upto(o, i - 1)  BY <1>0, <1>2 DEF InOrder, MovesInOrder
    <3>2. done' = [done EXCEPT ![o] = @ \cup {i}]  BY <1>2, <2>1 DEF RobotDone
    <3>3. i \in 1..Steps(o) /\ reported' = reported /\ DoneInOrder  BY <1>1, <1>2 DEF InOrder
    <3>4. Grows /\ DoneInOrder'  BY <3>1, <3>2, <3>3, StepDone
    <3>5. i \in done'[o]  BY <3>2 DEF Typed
    <3> QED  BY <3>4, <3>5
  <2>2. CASE ~ok
    <3>1. done' = done  BY <2>2 DEF RobotDone
    <3> QED  BY <1>1, <2>2, <3>1, NothingDone DEF InOrder
  <2> QED  BY <2>1, <2>2
<1>4. \A k \in Threads : Behind(k)'  BY <1>1, <1>3, AllBehindKept DEF InOrder
<1>5. MoveWaited'  BY <1>1, WaitedKept DEF InOrder
<1>6. MoveDone'
  <2> DEFINE done1 == [id |-> robot.id, ok |-> ok]
  <2>1. results' = results \cup {done1} /\ done1.id = robot.id /\ done1.ok = ok  BY DEF RobotDone
  <2> HIDE DEF done1
  <2>2. ASSUME NEW r \in results', move # NoMove, r.ok, r.id = move.id
        PROVE  move.step \in done'[move.order]
    <3>1. move.order \in Orders  BY <2>2 DEF Typed, Movements, IsMove
    <3>2. CASE r \in results
      <4>1. move.step \in done[move.order]  BY <2>2, <3>2 DEF InOrder, MovesInOrder, MoveDone
      <4> QED  BY <1>3, <3>1, <4>1 DEF Grows
    <3>3. CASE r = done1
      <4>1. ok /\ move.id = robot.id  BY <2>1, <2>2, <3>3
      <4>2. move.order = o /\ move.step = i
        BY <1>0, <1>2, <2>2, <4>1 DEF InOrder, MovesInOrder, MoveDriven
      <4> QED  BY <1>3, <4>1, <4>2
    <3> QED  BY <2>1, <3>2, <3>3
  <2> QED  BY <1>1, <2>2 DEF MoveDone
<1>7. MovesInOrder'
  <2>1. move # NoMove => move.order \in Orders  BY DEF Typed, Movements, IsMove
  <2>2. snapshot.step # 0 => snapshot.order \in Orders  BY DEF Typed, Snapshots, IsMove
  <2>3. (move # NoMove => Upto(move.order, move.step - 1))'
    BY <1>1, <1>3, <2>1 DEF InOrder, MovesInOrder, Upto, Grows
  <2>4. (snapshot.step # 0 => Upto(snapshot.order, snapshot.step - 1))'
    BY <1>1, <1>3, <2>2 DEF InOrder, MovesInOrder, Upto, Grows
  <2>5. (robot # NoDrive => Upto(robot.order, robot.step - 1))' /\ MoveDriven'
    BY <1>1 DEF MoveDriven
  <2> QED  BY <1>6, <2>3, <2>4, <2>5 DEF MovesInOrder
<1>8. IndexReached'  BY <1>1, <1>3, IndexKept DEF InOrder
<1> QED  BY <1>3, <1>4, <1>5, <1>7, <1>8 DEF InOrder

\* When the result of the current movement is good, its step is done and with it
\* all those before it.
LEMMA CurrentDone ==
    ASSUME Typed, InOrder, NEW r \in results, Current(r), r.ok
    PROVE  /\ IsMove(move.order, move.step)
           /\ 1..move.step \subseteq done[move.order]
<1>1. move # NoMove /\ IsMove(move.order, move.step)  BY DEF Current, Typed, Movements
<1>2. move.step \in done[move.order]
  BY <1>1 DEF Current, InOrder, MovesInOrder, MoveDone
<1>3. move.order \in Orders  BY <1>1 DEF IsMove
<1>4. 1..move.step \subseteq done[move.order]  BY <1>2, <1>3 DEF InOrder, DoneInOrder
<1> QED  BY <1>1, <1>4

\* A result is taken away.
LEMMA TakenInOrder ==
    ASSUME Typed, MovesInOrder, results' \subseteq results,
           UNCHANGED <<robot, snapshot, done>>,
           \/ move' = NoMove
           \/ move'.id = move.id /\ move'.order = move.order /\ move'.step = move.step /\ move # NoMove
           \/ move' = move
    PROVE  MovesInOrder'
<1>1. MoveDone'
  <2>1. ASSUME NEW r \in results', move' # NoMove, r.ok, r.id = move'.id
        PROVE  move'.step \in done[move'.order]
    <3>1. move # NoMove /\ move'.id = move.id /\ move'.order = move.order /\ move'.step = move.step
      BY <2>1
    <3> QED  BY <2>1, <3>1 DEF MovesInOrder, MoveDone
  <2> QED  BY <2>1 DEF MoveDone
<1>2. MoveDriven'  BY DEF MovesInOrder, MoveDriven
<1>3. (move # NoMove => Upto(move.order, move.step - 1))'  BY DEF MovesInOrder, Upto
<1>4. (robot # NoDrive => Upto(robot.order, robot.step - 1))'
      /\ (snapshot.step # 0 => Upto(snapshot.order, snapshot.step - 1))'
  BY DEF MovesInOrder, Upto
<1> QED  BY <1>1, <1>2, <1>3, <1>4 DEF MovesInOrder

LEMMA IgnoreResultInOrder ==
    ASSUME Typed, InOrder, NEW r \in results, IgnoreResult(r), results' = results \ {r},
           UNCHANGED <<robot, snapshot, done>>
    PROVE  InOrder'
<1>1. UNCHANGED <<agv, threads, move, reported>> /\ results' \subseteq results
  BY DEF IgnoreResult
<1>2. Grows /\ DoneInOrder'  BY <1>1, NothingDone DEF InOrder
<1>3. \A k \in Threads : Behind(k)'  BY <1>1, <1>2, AllBehindKept DEF InOrder
<1>4. MoveWaited'  BY <1>1, WaitedKept DEF InOrder
<1>5. MovesInOrder'  BY <1>1, TakenInOrder DEF InOrder
<1>6. IndexReached'  BY <1>1, <1>2, IndexKept DEF InOrder
<1> QED  BY <1>2, <1>3, <1>4, <1>5, <1>6 DEF InOrder

LEMMA TellThreadInOrder ==
    ASSUME Typed, InOrder, NEW r \in results, TellThread(r), results' = results \ {r},
           UNCHANGED <<robot, snapshot, done>>
    PROVE  InOrder'
<1>1. UNCHANGED <<agv, reported>> /\ results' \subseteq results /\ move' = NoMove
  BY DEF TellThread
<1>2. Grows /\ DoneInOrder'  BY <1>1, NothingDone DEF InOrder
<1>3. move # NoMove /\ move.waiter # Resumer /\ Current(r)  BY DEF TellThread, Current
<1>4. PICK h \in Threads : h = move.waiter  BY <1>3, MoveWaiter
<1>5. threads[h].pc = "wait" /\ threads[h].order = move.order /\ threads[h].step = move.step
  BY <1>3, <1>4 DEF InOrder, MoveWaited
<1>6. \A k \in Threads : Behind(k)'
  <2>1. CASE r.ok
    <3>1. Goto(h, "arrive")  BY <1>4, <1>5, <2>1 DEF TellThread, At, Goto
    <3>2. 1..threads[h].step \subseteq done'[threads[h].order]
      BY <1>1, <1>3, <1>5, <2>1, CurrentDone
    <3> QED  BY <1>2, <3>1, <3>2, GotoBehind DEF InOrder, Begun
  <2>2. CASE ~r.ok
    <3>1. Goto(h, "error")  BY <1>4, <1>5, <2>2 DEF TellThread, At, Goto
    <3> QED  BY <1>2, <3>1, GotoBehind DEF InOrder, Begun
  <2> QED  BY <2>1, <2>2
<1>7. MoveWaited'  BY <1>1, WaitedKept DEF InOrder
<1>8. MovesInOrder'  BY <1>1, TakenInOrder DEF InOrder
<1>9. IndexReached'  BY <1>1, <1>2, IndexKept DEF InOrder
<1> QED  BY <1>2, <1>6, <1>7, <1>8, <1>9 DEF InOrder

\* The rest of a resumed order begins behind what was reached before the pause, or
\* behind the node to which the AGV was driven again.
LEMMA ResumeRestInOrder ==
    ASSUME Typed, Focused, Uncharged, InOrder, NEW r \in results, ResumeRest(r), results' = results \ {r},
           UNCHANGED <<robot, snapshot, done>>
    PROVE  InOrder'
<1>1. reported' = reported /\ results' \subseteq results /\ agv' = StatusAfterArrival(move.order, move.step)
  BY DEF ResumeRest
<1>2. Grows /\ DoneInOrder'  BY <1>1, NothingDone DEF InOrder
<1>3. move # NoMove /\ move.waiter = Resumer /\ move \in Movements(moves)
  BY DEF ResumeRest, Current, Typed
<1>4. "RESUME" \in Commands /\ Reached(move.index) /\ Reached(agv.index) /\ Reached(snapshot.index)
  BY <1>3 DEF InOrder, IndexReached
<1>5. PICK o \in Orders, i \in Nat : o = move.order /\ i = move.step /\ IsMove(o, i) /\ 1..i \subseteq done[o]
  <2>1. IsMove(move.order, move.step) /\ 1..move.step \subseteq done[move.order]
    BY <1>1, CurrentDone DEF ResumeRest
  <2>2. move.step \in Nat  BY <1>3 DEF Movements
  <2> QED  BY <2>1, <2>2 DEF IsMove
<1>6. PICK n \in Nat : n = move.index  BY <1>3 DEF Movements
<1>7. \A k \in Threads : Behind(k)'
  <2>1. CASE ArrivalThrows(move.order, move.step) \/ PlanFails
    <3>1. threads' = threads  BY <2>1 DEF ResumeRest
    <3> QED  BY <1>2, <3>1, AllBehindKept DEF InOrder
  <2>2. CASE ~(ArrivalThrows(move.order, move.step) \/ PlanFails)
    <3>1. Spawn(agv.msg, n + 1)  BY <1>6, <2>2 DEF ResumeRest
    <3>2. PICK p \in Orders : p = agv.msg  BY <2>2, PlanIsBuilt
    <3>3. p = o  BY <1>4 DEF Focused
    <3>4. 1..n \subseteq done[p]
      <4>1. CASE n <= 1
        <5>1. i >= 1  BY <1>5, StepNumbers DEF IsMove
        <5>2. 1..n \subseteq 1..i  BY <4>1, <5>1
        <5> QED  BY <1>5, <3>3, <5>2
      <4>2. CASE ~(n <= 1)  BY <1>4, <1>6, <4>2 DEF Reached, Upto
      <4> QED  BY <4>1, <4>2
    <3>5. n + 1 \in Nat \ {0} /\ (n + 1) - 1 = n  OBVIOUS
    <3>6. 1..((n + 1) - 1) \subseteq done'[p]  BY <1>1, <3>4, <3>5
    <3>7. PICK j \in Nat \ {0} : j = n + 1  BY <3>5
    <3> QED  BY <1>2, <3>1, <3>2, <3>6, <3>7, SpawnBehind DEF InOrder
  <2> QED  BY <2>1, <2>2
<1>8. \/ move' = NoMove
      \/ move'.id = move.id /\ move'.order = move.order /\ move'.step = move.step
         /\ move'.waiter = move.waiter /\ move'.index = move.index
  BY <1>3 DEF ResumeRest, Movements
<1>9. MoveWaited'
  <2>1. move' = NoMove \/ move'.waiter = Resumer  BY <1>3, <1>8
  <2> QED  BY <2>1 DEF MoveWaited
<1>10. MovesInOrder'  BY <1>1, <1>3, <1>8, TakenInOrder DEF InOrder
<1>11. IndexReached'
  <2>1. Reached(StatusAfterArrival(o, i).index)  BY <1>4, <1>5, ArrivalReached DEF InOrder
  <2>2. Reached(agv.index)'  BY <1>1, <1>5, <2>1 DEF Reached, Upto
  <2>3. Reached(snapshot.index)'  BY <1>1, <1>4 DEF Reached, Upto
  <2>4. Reached(move.index)'
    <3>1. CASE move' = NoMove  BY <3>1 DEF NoMove, Reached
    <3>2. CASE move'.index = move.index  BY <1>1, <1>4, <3>2 DEF Reached, Upto
    <3> QED  BY <1>8, <3>1, <3>2
  <2> QED  BY <1>4, <2>2, <2>3, <2>4 DEF IndexReached
<1> QED  BY <1>2, <1>7, <1>9, <1>10, <1>11 DEF InOrder

LEMMA ResumeFailedInOrder ==
    ASSUME Typed, InOrder, NEW r \in results, ResumeFailed(r), results' = results \ {r},
           UNCHANGED <<robot, snapshot, done>>
    PROVE  InOrder'
<1>1. threads' = threads /\ results' \subseteq results
      /\ move' = NoMove /\ agv' = MoveFailed /\ reported' = Report(agv.id, "FAILED")
  BY DEF ResumeFailed
<1>2. Grows  BY <1>1 DEF Grows
<1>3. agv.id \in AnyKnown /\ agv'.index = agv.index  BY <1>1 DEF Typed, Statuses, MoveFailed
<1>4. DoneInOrder'  BY <1>1, <1>3, ReportInOrder DEF InOrder, Outcomes
<1>5. \A k \in Threads : Behind(k)'  BY <1>1, <1>2, AllBehindKept DEF InOrder
<1>6. MoveWaited'  BY <1>1, WaitedKept DEF InOrder
<1>7. MovesInOrder'  BY <1>1, TakenInOrder DEF InOrder
<1>8. IndexReached'  BY <1>1, <1>2, <1>3, IndexKept DEF InOrder
<1> QED  BY <1>4, <1>5, <1>6, <1>7, <1>8 DEF InOrder

LEMMA HandleResultInOrder ==
    ASSUME Typed, Focused, Uncharged, InOrder, HandleResult
    PROVE  InOrder'
<1>1. PICK r \in results : /\ IgnoreResult(r) \/ TellThread(r) \/ ResumeRest(r) \/ ResumeFailed(r)
                           /\ results' = results \ {r}
  BY DEF HandleResult
<1>2. UNCHANGED <<robot, snapshot, done>>  BY DEF HandleResult
<1> QED  BY <1>1, <1>2, IgnoreResultInOrder, TellThreadInOrder, ResumeRestInOrder, ResumeFailedInOrder

LEMMA AsidesInOrder ==
    ASSUME Typed, InOrder, KeyExpires \/ ActionRuns \/ StoreFailure
    PROVE  InOrder'
<1>1. UNCHANGED <<threads, robot, snapshot, results, reported, done>> /\ agv'.index = agv.index
      /\ (move' = move \/ move' = NoMove)
  BY DEF KeyExpires, ActionRuns, StoreFailure, movement, ghosts, Typed, Statuses
<1>2. DoneInOrder'  BY <1>1, NothingDone DEF InOrder
<1> QED  BY <1>1, <1>2, AsideInOrder

\* A pause remembers an index that was reached.
LEMMA PauseInOrder ==
    ASSUME Typed, InOrder, Pause
    PROVE  InOrder'
<1>1. UNCHANGED <<agv, threads, move, robot, results, reported, done>>
  BY DEF Pause, movement, ghosts
<1>2. Grows /\ DoneInOrder'  BY <1>1, NothingDone DEF InOrder
<1>3. \A k \in Threads : Behind(k)'  BY <1>1, <1>2, AllBehindKept DEF InOrder
<1>4. MoveWaited'  BY <1>1, WaitedKept DEF InOrder
<1>5. snapshot' = snapshot \/ (snapshot'.index = agv.index /\ snapshot'.step = 0)
  BY DEF Pause, NoSnapshot
<1>6. MovesInOrder'  BY <1>1, <1>5 DEF InOrder, MovesInOrder, MoveDriven, MoveDone, Upto
<1>7. IndexReached'  BY <1>1, <1>5 DEF InOrder, IndexReached, Reached, Upto
<1> QED  BY <1>2, <1>3, <1>4, <1>6, <1>7 DEF InOrder

\* It remembers the movement it drops, behind which nothing is left out.
LEMMA PauseMoveInOrder ==
    ASSUME Typed, InOrder, PauseMove
    PROVE  InOrder'
<1>1. UNCHANGED <<agv, threads, robot, results, reported, done>>  BY DEF PauseMove, ghosts
<1>2. DoneInOrder'  BY <1>1, NothingDone DEF InOrder
<1>3. CASE move = NoMove \/ move.done
  <2>1. UNCHANGED <<snapshot, move>>  BY <1>3 DEF PauseMove
  <2> QED  BY <1>1, <1>2, <2>1, AsideInOrder
<1>4. CASE ~(move = NoMove \/ move.done)
  <2>1. snapshot' = [snapshot EXCEPT !.order = move.order, !.step = move.step]
        /\ move' = NoMove
    BY <1>4 DEF PauseMove
  <2>2. snapshot'.order = move.order /\ snapshot'.step = move.step /\ snapshot'.index = snapshot.index
    BY <2>1 DEF Typed, Snapshots
  <2>3. Grows  BY <1>1 DEF Grows
  <2>4. \A k \in Threads : Behind(k)'  BY <1>1, <2>3, AllBehindKept DEF InOrder
  <2>5. MoveWaited'  BY <2>1, WaitedKept DEF InOrder
  <2>6. MovesInOrder'
    BY <1>1, <1>4, <2>1, <2>2 DEF InOrder, MovesInOrder, MoveDriven, MoveDone, Upto
  <2>7. IndexReached'
    BY <1>1, <2>1, <2>2 DEF InOrder, IndexReached, Reached, Upto, NoMove
  <2> QED  BY <1>2, <2>4, <2>5, <2>6, <2>7 DEF InOrder
<1> QED  BY <1>3, <1>4

\* The paused movement is made anew, for nobody who waits.
LEMMA ResumeInOrder ==
    ASSUME Typed, InOrder, Resume
    PROVE  InOrder'
<1>1. UNCHANGED <<threads, snapshot, results, done>> /\ "RESUME" \in Commands /\ snapshot.step # 0
  BY DEF Resume
<1>2. Grows  BY <1>1 DEF Grows
<1>3. \A k \in Threads : Behind(k)'  BY <1>1, <1>2, AllBehindKept DEF InOrder
<1>4. CASE Send(snapshot.order, snapshot.step, Resumer, snapshot.index) /\ UNCHANGED <<agv, reported>>
  <2>1. DoneInOrder'  BY <1>1, <1>4, NothingDone DEF InOrder
  <2>2. move'.waiter = Resumer /\ move'.index = snapshot.index  BY <1>4 DEF Send
  <2>3. MoveWaited'  BY <2>2 DEF MoveWaited
  <2>4. MovesInOrder'
    <3>1. PICK o, i, n : o = snapshot.order /\ i = snapshot.step /\ n = snapshot.index  OBVIOUS
    <3>2. Upto(o, i - 1)  BY <1>1, <3>1 DEF InOrder, MovesInOrder
    <3> QED  BY <1>1, <1>4, <3>1, <3>2, SendInOrder DEF InOrder
  <2>5. IndexReached'  BY <1>1, <1>4, <2>2 DEF InOrder, IndexReached, Reached, Upto
  <2> QED  BY <1>3, <2>1, <2>3, <2>4, <2>5 DEF InOrder
<1>5. CASE /\ move' = NoMove /\ moves' = moves + 1 /\ UNCHANGED robot
           /\ agv' = MoveFailed /\ reported' = Report(agv.id, "FAILED")
  <2>1. agv.id \in AnyKnown /\ agv'.index = agv.index  BY <1>5 DEF Typed, Statuses, MoveFailed
  <2>2. DoneInOrder'  BY <1>1, <1>5, <2>1, ReportInOrder DEF InOrder, Outcomes
  <2> QED  BY <1>1, <1>5, <2>1, <2>2, AsideInOrder
<1> QED  BY <1>4, <1>5 DEF Resume

LEMMA CancelStateInOrder ==
    ASSUME Typed, InOrder, CancelState
    PROVE  InOrder'
<1>1. UNCHANGED <<threads, move, robot, snapshot, results, done>> /\ agv'.index = agv.index
  BY DEF CancelState, movement, Typed, Statuses
<1>2. agv.id \in AnyKnown  BY DEF Typed, Statuses
<1>3. DoneInOrder'  BY <1>1, <1>2, ReportInOrder DEF InOrder, CancelState, Outcomes
<1> QED  BY <1>1, <1>3, AsideInOrder

LEMMA CommandInOrder ==
    ASSUME Typed, InOrder, Command \/ MqttStep
    PROVE  InOrder'
<1>1. ASSUME \/ PauseStop \/ PauseState \/ ResumeState \/ EmergencyState \/ ResetEmergency
             \/ StopMoving("CANCEL", "cancelMove") \/ StopMoving("EMERGENCY_STOP", "stopMove")
             \/ DropMove("cancelMove", "cancelled") \/ DropMove("stopMove", "stopped")
      PROVE  InOrder'
  <2>1. UNCHANGED <<threads, snapshot, results, reported, done>> /\ agv'.index = agv.index
        /\ (move' = move \/ move' = NoMove) /\ (robot' = robot \/ robot' = NoDrive)
    BY <1>1 DEF PauseStop, PauseState, ResumeState, EmergencyState, ResetEmergency, StopMoving, DropMove,
                movement, ghosts, Typed, Statuses
  <2>2. DoneInOrder'  BY <2>1, NothingDone DEF InOrder
  <2> QED  BY <2>1, <2>2, AsideInOrder
<1> QED
  BY <1>1, ExecuteInOrder, PauseInOrder, PauseMoveInOrder, ResumeInOrder, CancelStateInOrder
     DEF Command, MqttStep

LEMMA NextInOrder ==
    ASSUME Typed, Focused, Uncharged, InOrder, Next \/ UNCHANGED vars
    PROVE  InOrder'
<1>1. CASE UNCHANGED vars
  <2>1. UNCHANGED <<agv, threads, move, robot, snapshot, results, reported, done>>
    BY <1>1 DEF vars, movement, ghosts
  <2>2. DoneInOrder'  BY <2>1, NothingDone DEF InOrder
  <2> QED  BY <2>1, <2>2, AsideInOrder
<1>2. CASE Next
  <2>1. ASSUME NEW o \in Orders, AcceptOrder(o)  PROVE InOrder'  BY <2>1, AcceptOrderInOrder
  <2>2. ASSUME NEW h \in Threads, ThreadStep(h)  PROVE InOrder'  BY <2>2, ThreadStepInOrder
  <2>3. ASSUME NEW ok \in BOOLEAN, RobotDone(ok)  PROVE InOrder'  BY <2>3, RobotDoneInOrder
  <2>4. CASE KeyExpires \/ ActionRuns \/ StoreFailure  BY <2>4, AsidesInOrder
  <2>5. CASE ActionDone  BY <2>5, ActionDoneInOrder
  <2>6. CASE HandleResult  BY <2>6, HandleResultInOrder
  <2>7. CASE Command \/ MqttStep  BY <2>7, CommandInOrder
  <2>8. CASE LowFound \/ AutoCharge  BY <2>8, ChargingInOrder
  <2> QED  BY <1>2, <2>1, <2>2, <2>3, <2>4, <2>5, <2>6, <2>7, <2>8 DEF Next
<1> QED  BY <1>1, <1>2

LEMMA UnchargedKept ==
    ASSUME Typed, Uncharged, Next \/ UNCHANGED vars
    PROVE  Uncharged'
<1>1. agv \in Statuses /\ ChargeOrder # NoOrder /\ ChargeOrder \notin Orders
  BY NobodyIsNone DEF Typed, Known
<1>2. CASE LowFound \/ AutoCharge  BY <1>2 DEF LowFound, AutoCharge, Uncharged
<1>3. CASE \E o \in Orders : AcceptOrder(o)  BY <1>1, <1>3 DEF AcceptOrder, Uncharged, Statuses
<1>4. ASSUME NEW h \in Threads, ThreadStep(h)  PROVE Uncharged'
  <2>1. timer' = timer
    BY <1>4 DEF ThreadStep, Complete, TellFinished, TellCompleted, Check, SetState, AtStartNode, StartMove,
                StartMoveFails, MoveTimeout, Arrive, StartAction, ActionTimeout, Error, CancelOrder
  <2>2. agv'.plan \in {agv.plan, NoOrder}
    BY <1>1, <1>4
       DEF ThreadStep, Complete, TellFinished, TellCompleted, Check, SetState, AtStartNode, StartMove,
           StartMoveFails, MoveTimeout, Arrive, StatusAfterArrival, StartAction, ActionTimeout, Error,
           CancelOrder, Statuses
  <2> QED  BY <1>1, <2>1, <2>2 DEF Uncharged
<1>5. CASE \/ KeyExpires \/ ActionRuns \/ ActionDone \/ HandleResult \/ StoreFailure
           \/ \E ok \in BOOLEAN : RobotDone(ok)
  <2>1. timer' = timer
    BY <1>5 DEF KeyExpires, ActionRuns, ActionDone, HandleResult, StoreFailure, RobotDone
  <2>2. agv'.plan = agv.plan
    BY <1>1, <1>5
       DEF KeyExpires, ActionRuns, ActionDone, HandleResult, StoreFailure, RobotDone, IgnoreResult, TellThread,
           ResumeRest, ResumeFailed, StatusAfterArrival, MoveFailed, Statuses
  <2> QED  BY <2>1, <2>2 DEF Uncharged
<1>6. CASE Command \/ MqttStep
  <2>1. timer' = timer
    BY <1>6 DEF Command, MqttStep, Execute, PauseMove, PauseStop, PauseState, ResumeState, DropMove,
                CancelState, EmergencyState, Pause, Resume, StopMoving, ResetEmergency
  <2>2. agv'.plan \in {agv.plan, NoOrder}
    BY <1>1, <1>6
       DEF Command, MqttStep, Execute, PauseMove, PauseStop, PauseState, ResumeState, DropMove, CancelState,
           EmergencyState, Pause, Resume, MoveFailed, StopMoving, ResetEmergency, Statuses
  <2> QED  BY <1>1, <2>1, <2>2 DEF Uncharged
<1>7. CASE UNCHANGED vars  BY <1>7 DEF vars, Uncharged
<1> QED  BY <1>2, <1>3, <1>4, <1>5, <1>6, <1>7 DEF Next

\* Whatever fails, times out, comes late, is paused, stopped or cancelled, the
\* robot does the steps of an order in their order and leaves none out, and an
\* order is reported FINISHED only when all its steps are done.  With RESUME this
\* is said of one order, and of an AGV that is not sent to charge: resumed after
\* its own end, an order's movement would make the next one start in its middle.
THEOREM StepsInOrder == ASSUME Focused PROVE Spec => []DoneInOrder
<1>1. Init => Typed /\ Uncharged /\ InOrder
  <2>1. Init => Uncharged  BY NobodyIsNone DEF Init, Uncharged, Known
  <2> QED  BY <2>1, InitTyped, InitInOrder
<1>2. Typed /\ Uncharged /\ InOrder /\ [Next]_vars => (Typed /\ Uncharged /\ InOrder)'
  BY NextTyped, UnchargedKept, NextInOrder
<1>3. InOrder => DoneInOrder  BY DEF InOrder
<1> QED  BY <1>1, <1>2, <1>3, PTL DEF Spec
=============================================================================
