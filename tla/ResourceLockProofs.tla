------------------------- MODULE ResourceLockProofs -------------------------
(***************************************************************************)
(* Proofs about ResourceLock.  For any AGVs, resources, threads and path   *)
(* lists: leases stay backed by their keys, hence no two AGVs are entitled *)
(* to a resource at once, and resources change hands as in LeaseTable.     *)
(***************************************************************************)
EXTENDS ResourceLock, SequenceTheorems, TLAPS

\* What the code does not enforce and the theorems need: calls for one AGV
\* are not concurrent, threads and Redis are prompt, and a lease outlasts the
\* interval between two passes and both passes.
Disciplined ==
    /\ Serialized /\ Prompt /\ ~Faults
    /\ RenewalInterval + PassBound + PassBound < LockExpire

-----------------------------------------------------------------------------
(* The inductive invariant *)

\* A busy thread works for an AGV and on a resource.
Working(x) ==
    /\ x.pc = "idle" <=> x.agv = NoAgv
    /\ x.pc \notin {"idle", "batch"} => x.todo # <<>>

Busy == \A t \in Threads : Working(thr[t])

OneCallPerAgv ==
    \A t, u \in Threads : thr[t].agv = thr[u].agv /\ thr[t].agv # NoAgv => t = u

\* Between a Redis answer and its use nothing changes for the thread's AGV.
FreshAnswers ==
    \A t \in Threads :
        /\ thr[t].pc \in {"register", "del", "batchDel"} => holder[Target(t)] = thr[t].agv
        /\ thr[t].pc = "register" => ttl[Target(t)] = LockExpire
        /\ thr[t].pc \in {"batch", "batchDel"} => agvResources[thr[t].agv] = {}

PassOnTime ==
    /\ renew.pc = "wait" => renew.timer <= RenewalInterval /\ renew.todo = {}
    /\ renew.pc # "wait" => renew.timer <= PassBound

IInv == TypeOK /\ Busy /\ OneCallPerAgv /\ FreshAnswers /\ PassOnTime /\ LeaseCovered

-----------------------------------------------------------------------------
(* Type correctness *)

USE NoAgvAssumption, PathListsAssumption, TimesAssumption, SwitchAssumption

LEMMA TailType ==
    ASSUME NEW s \in Seq(Resources), s # <<>>
    PROVE  Tail(s) \in Seq(Resources) /\ Head(s) \in Resources
  BY HeadTailProperties

LEMMA InitType == Init => TypeOK
  BY DEF Init, TypeOK, IdleThread, Calling, ThreadStates, ThreadPcs, RenewDue, RenewStates, Pairs

\* What a thread becomes when it is done with one resource.
LEMMA ThreadTypes ==
    ASSUME TypeOK, Busy, NEW t \in Threads
    PROVE  /\ thr[t] \in ThreadStates
           /\ IdleThread \in ThreadStates
           /\ Undo(t) \in ThreadStates
           /\ \A r \in Resources : BatchNext(t, r) \in ThreadStates
           /\ thr[t].pc \notin {"idle", "batch"} =>
                /\ Target(t) \in Resources
                /\ \A pc \in ThreadPcs : Advance(t, pc) \in ThreadStates
  <1>1. thr[t] \in ThreadStates
    BY DEF TypeOK
  <1>2. /\ thr[t].todo \in Seq(Resources) /\ thr[t].locked \in Seq(Resources)
        /\ thr[t].pending \in SUBSET Resources
    BY <1>1 DEF ThreadStates
  <1>3. IdleThread \in ThreadStates
    BY DEF IdleThread, Calling, ThreadStates, ThreadPcs
  <1>4. Undo(t) \in ThreadStates
    <2>1. [thr[t] EXCEPT !.pc = "get", !.todo = thr[t].locked] \in ThreadStates
      BY <1>1, <1>2 DEF ThreadStates, ThreadPcs
    <2>2. QED
      BY <1>3, <2>1 DEF Undo
  <1>5. ASSUME NEW r \in Resources PROVE BatchNext(t, r) \in ThreadStates
    <2>1. ASSUME NEW S \in SUBSET Resources, NEW s \in Seq(Resources)
          PROVE [thr[t] EXCEPT !.pc = "batch", !.todo = s, !.pending = S] \in ThreadStates
      BY <1>1 DEF ThreadStates, ThreadPcs
    <2>2. thr[t].pending \ {r} \in SUBSET Resources /\ <<>> \in Seq(Resources)
      BY <1>2
    <2>3. QED
      BY <1>3, <2>1, <2>2, Zenon DEF BatchNext
  <1>6. ASSUME thr[t].pc \notin {"idle", "batch"}
        PROVE  /\ Target(t) \in Resources
               /\ \A pc \in ThreadPcs : Advance(t, pc) \in ThreadStates
    <2>1. Head(thr[t].todo) \in Resources /\ Tail(thr[t].todo) \in Seq(Resources)
      BY <1>2, <1>6, TailType DEF Busy, Working
    <2>2. ASSUME NEW pc \in ThreadPcs PROVE Advance(t, pc) \in ThreadStates
      <3>1. [thr[t] EXCEPT !.pc = pc, !.todo = Tail(thr[t].todo)] \in ThreadStates
        BY <1>1, <2>1 DEF ThreadStates
      <3>2. QED
        BY <1>3, <3>1 DEF Advance
    <2>3. QED
      BY <2>1, <2>2 DEF Target
  <1>7. QED
    BY <1>1, <1>3, <1>4, <1>5, <1>6

\* Every action keeps the types.
LEMMA CallType ==
    ASSUME TypeOK, Busy, NEW t \in Threads, NEW a \in Agvs, Call(t, a)
    PROVE  TypeOK'
  <1>1. ASSUME NEW pc \in ThreadPcs, NEW op \in {"path", "detail", "release", "releaseAll"},
               NEW s \in Seq(Resources), NEW S \in SUBSET Resources
        PROVE  Calling(pc, op, a, s, S) \in ThreadStates
    BY DEF Calling, ThreadStates
  <1>2. ASSUME NEW list \in PathLists, NEW op \in {"path", "detail"}, StartLock(t, a, op, list)
        PROVE  TypeOK'
    <2>1. Calling("setnx", op, a, list, {}) \in ThreadStates
      BY <1>1 DEF ThreadPcs
    <2>2. QED
      BY <1>2, <2>1 DEF StartLock, TypeOK
  <1>3. ASSUME NEW r \in Resources, StartRelease(t, a, r) PROVE TypeOK'
    <2>1. Calling("get", "release", a, <<r>>, {}) \in ThreadStates
      <3>1. <<r>> \in Seq(Resources)
        OBVIOUS
      <3>2. QED
        BY <1>1, <3>1, Zenon DEF ThreadPcs
    <2>2. QED
      BY <1>3, <2>1 DEF StartRelease, TypeOK
  <1>4. ASSUME StartReleaseAll(t, a) PROVE TypeOK'
    <2>1. Calling("batch", "releaseAll", a, <<>>, agvResources[a]) \in ThreadStates
      <3>1. <<>> \in Seq(Resources) /\ agvResources[a] \in SUBSET Resources
        BY DEF TypeOK
      <3>2. QED
        BY <1>1, <3>1, Zenon DEF ThreadPcs
    <2>2. ASSUME NEW T \in SUBSET Pairs PROVE [renew EXCEPT !.todo = T] \in RenewStates
      BY DEF TypeOK, RenewStates
    <2>3. ASSUME NEW T \in SUBSET Pairs, NEW U \in SUBSET Pairs
          PROVE [renew EXCEPT !.pc = "pass", !.todo = T, !.seen = U, !.cur = {}] \in RenewStates
      BY DEF TypeOK, RenewStates
    <2>4. /\ {p \in renew.todo : p[1] # a} \in SUBSET Pairs
          /\ renew.seen \cup renew.cur \in SUBSET Pairs
      BY DEF TypeOK, RenewStates
    <2>5. renew' \in RenewStates
      BY <1>4, <2>2, <2>3, <2>4, Zenon DEF StartReleaseAll, Detached
    <2>6. QED
      BY <1>4, <2>1, <2>5 DEF StartReleaseAll, TypeOK
  <1>5. QED
    BY <1>2, <1>3, <1>4 DEF Call

LEMMA ThreadStepType ==
    ASSUME TypeOK, Busy, NEW t \in Threads, ThreadStep(t) \/ CallFails(t)
    PROVE  TypeOK'
  <1>1. /\ thr[t] \in ThreadStates /\ IdleThread \in ThreadStates /\ Undo(t) \in ThreadStates
        /\ \A r \in Resources : BatchNext(t, r) \in ThreadStates
    BY ThreadTypes
  <1>2. ASSUME thr[t].pc \notin {"idle", "batch"}
        PROVE  /\ Target(t) \in Resources
               /\ Advance(t, "setnx") \in ThreadStates /\ Advance(t, "get") \in ThreadStates
    BY <1>2, ThreadTypes DEF ThreadPcs
  <1>3. ASSUME NEW pc \in ThreadPcs PROVE [thr[t] EXCEPT !.pc = pc] \in ThreadStates
    BY <1>1 DEF ThreadStates
  <1>4. CASE SetIfAbsent(t)
    <2>1. [thr[t] EXCEPT !.pc = "register"] \in ThreadStates
      BY <1>1 DEF ThreadStates, ThreadPcs
    <2>2. thr[t].agv \in Agvs \cup {NoAgv} /\ LockExpire \in 0..LockExpire
      BY <1>1 DEF ThreadStates
    <2>3. QED
      BY <1>4, <2>1, <2>2, <1>2 DEF SetIfAbsent, TypeOK
  <1>5. CASE SetRefused(t)
    <2>1. [thr[t] EXCEPT !.pc = "holder"] \in ThreadStates
      BY <1>1 DEF ThreadStates, ThreadPcs
    <2>2. QED
      BY <1>1, <1>5, <2>1 DEF SetRefused, TypeOK
  <1>6. CASE Register(t)
    <2> DEFINE u == Advance(t, "setnx")
    <2>1. thr[t].agv \in Agvs /\ Target(t) \in Resources /\ u \in ThreadStates
      BY <1>1, <1>2, <1>6 DEF Register, Busy, Working, ThreadStates
    <2>2. [u EXCEPT !.locked = Append(u.locked, Target(t))] \in ThreadStates
      <3>1. Append(u.locked, Target(t)) \in Seq(Resources)
        BY <2>1 DEF ThreadStates
      <3>2. QED
        BY <2>1, <3>1 DEF ThreadStates
    <2>3. thr' \in [Threads -> ThreadStates]
      BY <1>6, <2>1, <2>2 DEF Register, TypeOK
    <2>4. renew.todo \cup {<<thr[t].agv, Target(t)>>} \in SUBSET Pairs
      BY <2>1 DEF TypeOK, RenewStates, Pairs
    <2>5. [renew EXCEPT !.todo = renew.todo \cup {<<thr[t].agv, Target(t)>>}] \in RenewStates
      BY <2>4 DEF TypeOK, RenewStates
    <2>6. renew' \in RenewStates
      BY <1>6, <2>5 DEF Register, TypeOK
    <2>7. QED
      BY <1>6, <2>1, <2>3, <2>6 DEF Register, TypeOK
  <1>7. CASE AskHolder(t)
    BY <1>1, <1>7 DEF AskHolder, TypeOK
  <1>8. CASE ReleaseGet(t)
    <2>1. /\ [thr[t] EXCEPT !.pc = "del"] \in ThreadStates
          /\ [thr[t] EXCEPT !.pc = "unregister"] \in ThreadStates
      BY <1>1 DEF ThreadStates, ThreadPcs
    <2>2. QED
      BY <1>8, <2>1 DEF ReleaseGet, TypeOK
  <1>9. CASE ReleaseDelete(t)
    <2>1. [thr[t] EXCEPT !.pc = "unregister"] \in ThreadStates
      BY <1>1 DEF ThreadStates, ThreadPcs
    <2>2. holder' \in [Resources -> Agvs \cup {NoAgv}] /\ ttl' \in [Resources -> 0..LockExpire]
      BY <1>2, <1>9 DEF ReleaseDelete, Delete, TypeOK
    <2>3. QED
      BY <1>9, <2>1, <2>2 DEF ReleaseDelete, TypeOK
  <1>10. CASE Unregister(t)
    BY <1>2, <1>10 DEF Unregister, TypeOK
  <1>11. ASSUME NEW r \in Resources, BatchGet(t, r) PROVE TypeOK'
    <2>1. [thr[t] EXCEPT !.pc = "batchDel", !.todo = <<r>>] \in ThreadStates
      <3>1. <<r>> \in Seq(Resources)
        OBVIOUS
      <3>2. QED
        BY <1>1, <3>1 DEF ThreadStates, ThreadPcs
    <2>2. QED
      BY <1>1, <1>11, <2>1 DEF BatchGet, TypeOK
  <1>12. CASE BatchDelete(t)
    BY <1>1, <1>2, <1>12 DEF BatchDelete, Delete, TypeOK
  <1>13. CASE CallFails(t)
    <2>1. thr[t].agv \in Agvs \cup {NoAgv} /\ LockExpire \in 0..LockExpire
      BY <1>1 DEF ThreadStates
    <2>2. holder' \in [Resources -> Agvs \cup {NoAgv}] /\ ttl' \in [Resources -> 0..LockExpire]
      BY <1>2, <1>13, <2>1 DEF CallFails, Delete, TypeOK
    <2>3. QED
      BY <1>1, <1>13, <2>2 DEF CallFails, TypeOK
  <1>14. QED
    BY <1>4, <1>5, <1>6, <1>7, <1>8, <1>9, <1>10, <1>11, <1>12, <1>13 DEF ThreadStep

LEMMA RenewStepType ==
    ASSUME TypeOK, Busy, RenewStep \/ RenewFails
    PROVE  TypeOK'
  <1>1. ASSUME NEW pc \in {"wait", "pass", "expire", "drop"}, NEW n \in Nat, NEW T \in SUBSET Pairs,
               NEW U \in SUBSET Pairs, NEW C \in SUBSET Pairs
        PROVE  /\ [pc |-> pc, timer |-> n, cur |-> C, seen |-> U, todo |-> T] \in RenewStates
               /\ [renew EXCEPT !.pc = pc, !.timer = n, !.seen = U] \in RenewStates
               /\ [renew EXCEPT !.pc = pc, !.timer = n, !.todo = T, !.seen = U, !.cur = C] \in RenewStates
               /\ [renew EXCEPT !.pc = pc, !.todo = T, !.seen = U, !.cur = C] \in RenewStates
    BY DEF TypeOK, RenewStates
  <1>2. CASE RenewStart
    <2>1. {p \in Pairs : p[2] \in agvResources[p[1]]} \in SUBSET Pairs
      OBVIOUS
    <2>2. renew' \in RenewStates
      BY <1>1, <1>2, <2>1, Zenon DEF RenewStart
    <2>3. QED
      BY <1>2, <2>2 DEF RenewStart, TypeOK
  <1>3. ASSUME NEW p \in Pairs, RenewGet(p) \/ RenewSkip(p) \/ RenewExpire(p) \/ RenewDrop(p)
        PROVE  TypeOK'
    <2>1. p[1] \in Agvs /\ p[2] \in Resources
      BY DEF Pairs
    <2>2. RenewNext(p) \in RenewStates
      <3>1. renew.todo \ {p} \in SUBSET Pairs /\ renew.seen \cup {p} \in SUBSET Pairs
        BY DEF TypeOK, RenewStates
      <3>2. QED
        BY <1>1, <3>1, Zenon DEF RenewNext
    <2>3. CASE RenewGet(p)
      <3>1. ASSUME NEW pc \in {"expire", "drop"}, NEW C \in SUBSET Pairs
            PROVE  [renew EXCEPT !.pc = pc, !.cur = C] \in RenewStates
        BY DEF TypeOK, RenewStates
      <3>2. {p} \in SUBSET Pairs
        OBVIOUS
      <3>3. renew' \in RenewStates
        BY <2>3, <3>1, <3>2, Zenon DEF RenewGet
      <3>4. QED
        BY <2>3, <3>3 DEF RenewGet, TypeOK
    <2>4. CASE RenewSkip(p)
      BY <2>2, <2>4 DEF RenewSkip, TypeOK
    <2>5. CASE RenewExpire(p)
      BY <2>1, <2>2, <2>5 DEF RenewExpire, TypeOK
    <2>6. CASE RenewDrop(p)
      BY <2>1, <2>2, <2>6 DEF RenewDrop, TypeOK
    <2>7. QED
      BY <1>3, <2>3, <2>4, <2>5, <2>6
  <1>4. CASE RenewEnd
    <2>1. renew' \in RenewStates
      BY <1>1, <1>4, Zenon DEF RenewEnd
    <2>2. QED
      BY <1>4, <2>1 DEF RenewEnd, TypeOK
  <1>5. CASE RenewFails
    <2>1. renew' \in RenewStates
      BY <1>1, <1>5, Zenon DEF RenewFails
    <2>2. QED
      BY <1>5, <2>1 DEF RenewFails, TypeOK
  <1>6. QED
    BY <1>2, <1>3, <1>4, <1>5 DEF RenewStep

LEMMA NextType == TypeOK /\ Busy /\ [Next]_vars => TypeOK'
  <1> SUFFICES ASSUME TypeOK, Busy, [Next]_vars PROVE TypeOK'
    OBVIOUS
  <1>1. CASE Tick
    <2>1. holder' \in [Resources -> Agvs \cup {NoAgv}] /\ ttl' \in [Resources -> 0..LockExpire]
      BY <1>1 DEF Tick, TypeOK
    <2>2. renew.timer + 1 \in Nat
      BY DEF TypeOK, RenewStates
    <2>3. [renew EXCEPT !.timer = renew.timer + 1] \in RenewStates
      BY <2>2 DEF TypeOK, RenewStates
    <2>4. QED
      BY <1>1, <2>1, <2>3 DEF Tick, TypeOK
  <1>2. CASE Crash
    <2>1. IdleThread \in ThreadStates
      BY DEF IdleThread, Calling, ThreadStates, ThreadPcs
    <2>2. RenewDue \in RenewStates
      BY DEF RenewDue, RenewStates
    <2>3. QED
      BY <1>2, <2>1, <2>2 DEF Crash, TypeOK
  <1>3. CASE UNCHANGED vars
    BY <1>3 DEF vars, TypeOK
  <1>4. QED
    BY <1>1, <1>2, <1>3, CallType, ThreadStepType, RenewStepType DEF Next

\* Every action keeps busy threads busy with something.
LEMMA NextBusy == TypeOK /\ Busy /\ [Next]_vars => Busy'
  <1> SUFFICES ASSUME TypeOK, Busy, [Next]_vars PROVE Busy'
    OBVIOUS
  <1>0. Working(IdleThread)
    BY DEF Working, IdleThread, Calling
  <1>1. ASSUME NEW t \in Threads, NEW x, Working(x), thr' = [thr EXCEPT ![t] = x]
        PROVE  Busy'
    BY <1>1 DEF Busy, TypeOK
  <1>2. ASSUME NEW t \in Threads
        PROVE  /\ thr[t] \in ThreadStates /\ Working(thr[t])
               /\ thr[t].pc # "idle" => Working(Undo(t))
               /\ thr[t].pc # "idle" => \A r \in Resources : Working(BatchNext(t, r))
               /\ thr[t].pc # "idle" => \A pc \in {"get", "setnx"} : Working(Advance(t, pc))
    BY <1>0 DEF Busy, Working, Undo, BatchNext, Advance, TypeOK, ThreadStates
  <1>3. ASSUME NEW t \in Threads, NEW a \in Agvs, Call(t, a) PROVE Busy'
    <2>1. ASSUME NEW list \in PathLists, NEW op \in {"path", "detail"}, StartLock(t, a, op, list)
          PROVE  Busy'
      <3>1. Working(Calling("setnx", op, a, list, {}))
        BY <2>1 DEF Working, Calling, StartLock
      <3>2. QED
        BY <1>1, <2>1, <3>1 DEF StartLock
    <2>2. ASSUME NEW r \in Resources, StartRelease(t, a, r) PROVE Busy'
      <3>1. Working(Calling("get", "release", a, <<r>>, {}))
        BY DEF Working, Calling
      <3>2. QED
        BY <1>1, <2>2, <3>1 DEF StartRelease
    <2>3. ASSUME StartReleaseAll(t, a) PROVE Busy'
      <3>1. Working(Calling("batch", "releaseAll", a, <<>>, agvResources[a]))
        BY DEF Working, Calling
      <3>2. QED
        BY <1>1, <2>3, <3>1 DEF StartReleaseAll
    <2>4. QED
      BY <1>3, <2>1, <2>2, <2>3 DEF Call
  <1>4. ASSUME NEW t \in Threads, ThreadStep(t) \/ CallFails(t) PROVE Busy'
    <2>0. thr[t] \in ThreadStates /\ Working(thr[t])
      BY <1>2
    <2>1. CASE SetIfAbsent(t)
      <3>1. Working([thr[t] EXCEPT !.pc = "register"])
        BY <2>0, <2>1 DEF Working, SetIfAbsent, ThreadStates
      <3>2. QED
        BY <1>1, <2>1, <3>1 DEF SetIfAbsent
    <2>2. CASE SetRefused(t)
      <3>1. Working([thr[t] EXCEPT !.pc = "holder"]) /\ Working(Undo(t))
        BY <1>2, <2>0, <2>2 DEF Working, SetRefused, ThreadStates
      <3>2. QED
        BY <1>1, <2>2, <3>1 DEF SetRefused
    <2>3. CASE Register(t)
      <3> DEFINE u == Advance(t, "setnx")
      <3>1. Working(u) /\ u \in ThreadStates
        BY <1>2, <2>3, ThreadTypes DEF Register, ThreadPcs
      <3>2. Working([u EXCEPT !.locked = Append(u.locked, Target(t))])
        BY <3>1 DEF Working, ThreadStates
      <3>3. QED
        BY <1>1, <2>3, <3>1, <3>2 DEF Register
    <2>4. CASE AskHolder(t)
      BY <1>0, <1>1, <1>2, <2>4 DEF AskHolder
    <2>5. CASE ReleaseGet(t)
      <3>1. /\ Working([thr[t] EXCEPT !.pc = "del"])
            /\ Working([thr[t] EXCEPT !.pc = "unregister"])
        BY <2>0, <2>5 DEF Working, ReleaseGet, ThreadStates
      <3>2. QED
        BY <1>1, <2>5, <3>1 DEF ReleaseGet
    <2>6. CASE ReleaseDelete(t)
      <3>1. Working([thr[t] EXCEPT !.pc = "unregister"])
        BY <2>0, <2>6 DEF Working, ReleaseDelete, ThreadStates
      <3>2. QED
        BY <1>1, <2>6, <3>1 DEF ReleaseDelete
    <2>7. CASE Unregister(t)
      BY <1>1, <1>2, <2>7 DEF Unregister
    <2>8. ASSUME NEW r \in Resources, BatchGet(t, r) PROVE Busy'
      <3>1. Working([thr[t] EXCEPT !.pc = "batchDel", !.todo = <<r>>])
        BY <2>0, <2>8 DEF Working, BatchGet, ThreadStates
      <3>2. QED
        BY <1>1, <1>2, <2>8, <3>1 DEF BatchGet
    <2>9. CASE BatchDelete(t)
      <3>1. Target(t) \in Resources
        BY <2>9, ThreadTypes DEF BatchDelete
      <3>2. QED
        BY <1>1, <1>2, <2>9, <3>1 DEF BatchDelete
    <2>10. CASE CallFails(t)
      BY <1>0, <1>1, <2>10 DEF CallFails
    <2>11. QED
      BY <1>4, <2>1, <2>2, <2>3, <2>4, <2>5, <2>6, <2>7, <2>8, <2>9, <2>10 DEF ThreadStep
  <1>5. CASE Crash
    BY <1>0, <1>5 DEF Crash, Busy
  <1>6. CASE RenewStep \/ RenewFails \/ Tick \/ UNCHANGED vars
    <2>1. CASE RenewStep
      <3>1. ASSUME NEW p \in Pairs, RenewGet(p) \/ RenewSkip(p) \/ RenewExpire(p) \/ RenewDrop(p)
            PROVE  thr' = thr
        BY <3>1 DEF RenewGet, RenewSkip, RenewExpire, RenewDrop
      <3>2. thr' = thr
        BY <2>1, <3>1 DEF RenewStep, RenewStart, RenewEnd
      <3>3. QED
        BY <3>2 DEF Busy
    <2>2. CASE RenewFails \/ Tick \/ UNCHANGED vars
      BY <2>2 DEF RenewFails, Tick, vars, Busy
    <2>3. QED
      BY <1>6, <2>1, <2>2
  <1>7. QED
    BY <1>3, <1>4, <1>5, <1>6 DEF Next

\* Whatever the callers, Redis and the clock do, the state stays well formed.
THEOREM TypeCorrect == Spec => []TypeOK
  <1>1. Init => TypeOK /\ Busy
    BY InitType DEF Init, Busy, Working, IdleThread, Calling
  <1>2. TypeOK /\ Busy /\ [Next]_vars => (TypeOK /\ Busy)'
    BY NextType, NextBusy
  <1>3. QED
    BY <1>1, <1>2, PTL DEF Spec

-----------------------------------------------------------------------------
(* The leases *)

\* Steps that start no call leave a thread working for its AGV, or idle.
LEMMA AgvStays ==
    ASSUME TypeOK, Busy, NEW t \in Threads,
           ThreadStep(t) \/ CallFails(t)
    PROVE  /\ \A u \in Threads : u # t => thr'[u] = thr[u]
           /\ thr'[t].agv \in {thr[t].agv, NoAgv}
  <1>1. thr[t] \in ThreadStates
    BY DEF TypeOK
  <1>2. /\ IdleThread.agv = NoAgv
        /\ Undo(t).agv \in {thr[t].agv, NoAgv}
        /\ \A r \in Resources : BatchNext(t, r).agv \in {thr[t].agv, NoAgv}
        /\ Advance(t, "get").agv \in {thr[t].agv, NoAgv}
        /\ Advance(t, "setnx").agv \in {thr[t].agv, NoAgv}
    BY <1>1 DEF IdleThread, Calling, Undo, BatchNext, Advance, ThreadStates
  <1>3. ASSUME NEW x, x.agv \in {thr[t].agv, NoAgv}, thr' = [thr EXCEPT ![t] = x]
        PROVE  /\ \A u \in Threads : u # t => thr'[u] = thr[u]
               /\ thr'[t].agv \in {thr[t].agv, NoAgv}
    BY <1>3 DEF TypeOK
  <1>5. CASE SetIfAbsent(t)
    <2>1. [thr[t] EXCEPT !.pc = "register"].agv = thr[t].agv
      BY <1>1 DEF ThreadStates
    <2>2. QED
      BY <1>3, <1>5, <2>1 DEF SetIfAbsent
  <1>6. CASE SetRefused(t)
    <2>1. [thr[t] EXCEPT !.pc = "holder"].agv = thr[t].agv
      BY <1>1 DEF ThreadStates
    <2>2. QED
      BY <1>2, <1>3, <1>6, <2>1 DEF SetRefused
  <1>7. CASE Register(t)
    <2> DEFINE u == Advance(t, "setnx")
    <2>1. u \in ThreadStates
      BY <1>7, ThreadTypes DEF Register, ThreadPcs
    <2>2. [u EXCEPT !.locked = Append(u.locked, Target(t))].agv = u.agv
      BY <2>1 DEF ThreadStates
    <2>3. QED
      BY <1>2, <1>3, <1>7, <2>2 DEF Register
  <1>8. CASE AskHolder(t)
    BY <1>2, <1>3, <1>8 DEF AskHolder
  <1>9. CASE ReleaseGet(t)
    <2>1. /\ [thr[t] EXCEPT !.pc = "del"].agv = thr[t].agv
          /\ [thr[t] EXCEPT !.pc = "unregister"].agv = thr[t].agv
      BY <1>1 DEF ThreadStates
    <2>2. QED
      BY <1>3, <1>9, <2>1 DEF ReleaseGet
  <1>10. CASE ReleaseDelete(t)
    <2>1. [thr[t] EXCEPT !.pc = "unregister"].agv = thr[t].agv
      BY <1>1 DEF ThreadStates
    <2>2. QED
      BY <1>3, <1>10, <2>1 DEF ReleaseDelete
  <1>11. CASE Unregister(t)
    BY <1>2, <1>3, <1>11 DEF Unregister
  <1>12. ASSUME NEW r \in Resources, BatchGet(t, r)
         PROVE  /\ \A u \in Threads : u # t => thr'[u] = thr[u]
                /\ thr'[t].agv \in {thr[t].agv, NoAgv}
    <2>1. [thr[t] EXCEPT !.pc = "batchDel", !.todo = <<r>>].agv = thr[t].agv
      BY <1>1 DEF ThreadStates
    <2>2. QED
      BY <1>2, <1>3, <1>12, <2>1 DEF BatchGet
  <1>13. CASE BatchDelete(t)
    <2>1. Target(t) \in Resources
      BY <1>13, ThreadTypes DEF BatchDelete
    <2>2. QED
      BY <1>2, <1>3, <1>13, <2>1 DEF BatchDelete
  <1>14. CASE CallFails(t)
    BY <1>2, <1>3, <1>14 DEF CallFails
  <1>15. QED
    BY <1>5, <1>6, <1>7, <1>8, <1>9, <1>10, <1>11, <1>12, <1>13, <1>14 DEF ThreadStep

LEMMA RenewKeepsThreads == RenewStep => UNCHANGED thr
  <1>1. ASSUME NEW p \in Pairs, RenewGet(p) \/ RenewSkip(p) \/ RenewExpire(p) \/ RenewDrop(p)
        PROVE  thr' = thr
    BY <1>1 DEF RenewGet, RenewSkip, RenewExpire, RenewDrop
  <1>2. QED
    BY <1>1 DEF RenewStep, RenewStart, RenewEnd

\* With serialized callers no two threads ever work for the same AGV.
LEMMA NextOneCall ==
    ASSUME Serialized, TypeOK, Busy, OneCallPerAgv, [Next]_vars
    PROVE  OneCallPerAgv'
  <1>1. ASSUME NEW t \in Threads, NEW a \in Agvs, Call(t, a) PROVE OneCallPerAgv'
    <2>1. /\ \A u \in Threads : thr[u].agv # a
          /\ \A u \in Threads : u # t => thr'[u] = thr[u]
          /\ thr'[t].agv = a
      BY <1>1 DEF Call, StartLock, StartRelease, StartReleaseAll, MayCall, Calling, TypeOK
    <2>2. QED
      BY <2>1 DEF OneCallPerAgv
  <1>2. ASSUME NEW t \in Threads, ThreadStep(t) \/ CallFails(t) PROVE OneCallPerAgv'
    <2>1. /\ \A u \in Threads : u # t => thr'[u] = thr[u]
          /\ thr'[t].agv \in {thr[t].agv, NoAgv}
      BY <1>2, AgvStays
    <2>2. QED
      BY <2>1 DEF OneCallPerAgv
  <1>3. CASE Crash
    BY <1>3 DEF Crash, OneCallPerAgv, IdleThread, Calling
  <1>4. CASE RenewStep
    BY <1>4, RenewKeepsThreads DEF OneCallPerAgv
  <1>5. CASE RenewFails \/ Tick \/ UNCHANGED vars
    BY <1>5 DEF RenewFails, Tick, vars, OneCallPerAgv
  <1>6. QED
    BY <1>1, <1>2, <1>3, <1>4, <1>5 DEF Next

\* The renewal task is never later than its bounds.
LEMMA NextPassOnTime ==
    ASSUME TypeOK, Busy, PassOnTime, [Next]_vars
    PROVE  PassOnTime'
  <1> USE DEF TypeOK, RenewStates
  <1>1. CASE UNCHANGED renew
    BY <1>1 DEF PassOnTime
  <1>2. ASSUME NEW t \in Threads, NEW a \in Agvs, StartReleaseAll(t, a) PROVE PassOnTime'
    <2>1. renew' = Detached(a)
      BY <1>2 DEF StartReleaseAll
    <2>2. CASE renew.pc = "drop" /\ \E p \in renew.cur : p[1] = a
      <3>1. renew'.pc = "pass" /\ renew'.timer = renew.timer
        BY <2>1, <2>2 DEF Detached
      <3>2. QED
        BY <2>2, <3>1 DEF PassOnTime
    <2>3. CASE ~(renew.pc = "drop" /\ \E p \in renew.cur : p[1] = a)
      <3>1. /\ renew'.pc = renew.pc /\ renew'.timer = renew.timer
            /\ renew'.todo = {p \in renew.todo : p[1] # a}
        BY <2>1, <2>3 DEF Detached
      <3>2. QED
        BY <3>1 DEF PassOnTime
    <2>4. QED
      BY <2>2, <2>3
  <1>3. ASSUME NEW t \in Threads, Register(t) PROVE PassOnTime'
    BY <1>3 DEF Register, PassOnTime
  <1>4. CASE RenewStart
    BY <1>4 DEF RenewStart, PassOnTime
  <1>5. ASSUME NEW p \in Pairs, RenewGet(p) \/ RenewSkip(p) \/ RenewExpire(p) \/ RenewDrop(p)
        PROVE PassOnTime'
    <2>1. renew.pc # "wait" /\ renew'.pc # "wait" /\ renew'.timer = renew.timer
      BY <1>5 DEF RenewGet, RenewSkip, RenewExpire, RenewDrop, RenewNext
    <2>2. QED
      BY <2>1 DEF PassOnTime
  <1>6. CASE RenewEnd
    <2>1. renew'.pc = "wait" /\ renew'.timer = 0 /\ renew'.todo = {}
      BY <1>6 DEF RenewEnd
    <2>2. QED
      BY <2>1 DEF PassOnTime
  <1>7. CASE RenewFails
    <2>1. renew'.pc = "wait" /\ renew'.timer = 0 /\ renew'.todo = {}
      BY <1>7 DEF RenewFails
    <2>2. QED
      BY <2>1 DEF PassOnTime
  <1>8. CASE Tick
    <2>1. /\ renew'.pc = renew.pc /\ renew'.todo = renew.todo /\ renew'.timer = renew.timer + 1
          /\ renew.timer < (IF renew.pc = "wait" THEN RenewalInterval ELSE PassBound)
      BY <1>8 DEF Tick
    <2>2. QED
      BY <2>1 DEF PassOnTime
  <1>9. CASE Crash
    BY <1>9 DEF Crash, RenewDue, PassOnTime
  <1>10. ASSUME NEW t \in Threads, ThreadStep(t) \/ CallFails(t), ~Register(t) PROVE UNCHANGED renew
    <2>1. ASSUME NEW r \in Resources, BatchGet(t, r) PROVE UNCHANGED renew
      BY <2>1 DEF BatchGet
    <2>2. QED
      BY <1>10, <2>1 DEF ThreadStep, SetIfAbsent, SetRefused, AskHolder, ReleaseGet, ReleaseDelete,
                         Unregister, BatchDelete, CallFails
  <1>11. ASSUME NEW t \in Threads, NEW a \in Agvs, Call(t, a) PROVE PassOnTime'
    BY <1>1, <1>2, <1>11 DEF Call, StartLock, StartRelease
  <1>12. QED
    BY <1>1, <1>2, <1>3, <1>4, <1>5, <1>6, <1>7, <1>8, <1>9, <1>10, <1>11 DEF Next, RenewStep, vars

\* A thread's step touches only free keys, its own AGV's keys, and its own
\* AGV's entries.
LEMMA StepIsLocal ==
    ASSUME Disciplined, IInv, NEW t \in Threads, ThreadStep(t)
    PROVE  /\ thr[t].agv \in Agvs
           /\ \A r \in Resources : \/ holder'[r] = holder[r] /\ ttl'[r] = ttl[r]
                                   \/ holder[r] \in {NoAgv, thr[t].agv}
           /\ \A b \in Agvs : b # thr[t].agv => agvResources'[b] = agvResources[b]
  <1> USE DEF IInv
  <1>1. thr[t].pc # "idle"
    <2>1. ASSUME NEW r \in Resources, BatchGet(t, r) PROVE thr[t].pc # "idle"
      BY <2>1 DEF BatchGet
    <2>2. QED
      BY <2>1 DEF ThreadStep, SetIfAbsent, SetRefused, Register, AskHolder, ReleaseGet,
                  ReleaseDelete, Unregister, BatchDelete
  <1>2. thr[t].agv \in Agvs
    BY <1>1 DEF Busy, Working, TypeOK, ThreadStates
  <1>3. thr[t].pc \in {"del", "batchDel"} => holder[Target(t)] = thr[t].agv
    BY DEF FreshAnswers
  <1>4. CASE SetIfAbsent(t)
    BY <1>2, <1>4 DEF SetIfAbsent, TypeOK
  <1>5. CASE SetRefused(t) \/ AskHolder(t) \/ ReleaseGet(t)
    BY <1>2, <1>5 DEF SetRefused, AskHolder, ReleaseGet
  <1>6. CASE Register(t) \/ Unregister(t)
    BY <1>2, <1>6 DEF Register, Unregister, TypeOK
  <1>7. CASE ReleaseDelete(t) \/ BatchDelete(t)
    BY <1>2, <1>3, <1>7 DEF ReleaseDelete, BatchDelete, Delete, TypeOK
  <1>8. ASSUME NEW r \in Resources, BatchGet(t, r)
        PROVE  UNCHANGED <<holder, ttl, agvResources>>
    BY <1>8 DEF BatchGet
  <1>9. QED
    BY <1>2, <1>4, <1>5, <1>6, <1>7, <1>8 DEF ThreadStep

\* What Redis answered still holds when the thread acts on it.
Fresh(u) ==
    /\ thr[u].pc \in {"register", "del", "batchDel"} => holder[Target(u)] = thr[u].agv
    /\ thr[u].pc = "register" => ttl[Target(u)] = LockExpire
    /\ thr[u].pc \in {"batch", "batchDel"} => agvResources[thr[u].agv] = {}

LEMMA FreshFacts ==
    ASSUME IInv, NEW u \in Threads
    PROVE  /\ thr[u] \in ThreadStates /\ Working(thr[u]) /\ Fresh(u)
           /\ thr[u].pc \in {"register", "del", "batchDel"} => Target(u) \in Resources
           /\ thr[u].pc # "idle" => thr[u].agv \in Agvs
  BY ThreadTypes DEF IInv, TypeOK, FreshAnswers, Fresh, Busy, Working, ThreadStates

\* The thread that takes the step.
LEMMA FreshStep ==
    ASSUME Disciplined, IInv, NEW t \in Threads, ThreadStep(t)
    PROVE  Fresh(t)'
  <1>1. /\ thr[t] \in ThreadStates /\ Fresh(t)
        /\ thr[t].pc \in {"register", "del", "batchDel"} => Target(t) \in Resources
    BY FreshFacts
  <1>2. thr \in [Threads -> ThreadStates] /\ holder \in [Resources -> Agvs \cup {NoAgv}]
        /\ ttl \in [Resources -> 0..LockExpire] /\ agvResources \in [Agvs -> SUBSET Resources]
    BY DEF IInv, TypeOK
  <1>3. ASSUME thr'[t].pc \in {"idle", "setnx", "holder", "get", "unregister"} PROVE Fresh(t)'
    BY <1>3 DEF Fresh
  <1>4. Undo(t).pc \in {"idle", "get"}
    BY <1>1 DEF Undo, IdleThread, Calling, ThreadStates
  <1>5. Advance(t, "get").pc \in {"idle", "get"} /\ Advance(t, "setnx").pc \in {"idle", "setnx"}
    BY <1>1 DEF Advance, IdleThread, Calling, ThreadStates
  <1>6. CASE SetIfAbsent(t)
    <2>1. Target(t) \in Resources
      BY <1>6, ThreadTypes DEF IInv, SetIfAbsent
    <2>2. thr'[t].pc = "register" /\ thr'[t].agv = thr[t].agv /\ thr'[t].todo = thr[t].todo
      BY <1>1, <1>2, <1>6 DEF SetIfAbsent, ThreadStates
    <2>3. holder'[Target(t)] = thr[t].agv /\ ttl'[Target(t)] = LockExpire
      BY <1>2, <1>6, <2>1 DEF SetIfAbsent
    <2>4. QED
      BY <2>2, <2>3 DEF Fresh, Target
  <1>7. CASE SetRefused(t)
    <2>1. [thr[t] EXCEPT !.pc = "holder"].pc = "holder"
      BY <1>1 DEF ThreadStates
    <2>2. QED
      BY <1>2, <1>3, <1>4, <1>7, <2>1 DEF SetRefused
  <1>8. CASE Register(t)
    <2> DEFINE u == Advance(t, "setnx")
    <2>1. u \in ThreadStates
      BY <1>8, ThreadTypes DEF IInv, Register, ThreadPcs
    <2>2. [u EXCEPT !.locked = Append(u.locked, Target(t))].pc = u.pc
      BY <2>1 DEF ThreadStates
    <2>3. QED
      BY <1>2, <1>3, <1>5, <1>8, <2>2 DEF Register
  <1>9. CASE AskHolder(t)
    BY <1>2, <1>3, <1>4, <1>9 DEF AskHolder, IdleThread, Calling
  <1>10. CASE ReleaseGet(t)
    <2>1. /\ thr'[t].agv = thr[t].agv /\ thr'[t].todo = thr[t].todo
          /\ thr'[t].pc = IF Mine(t, Target(t)) THEN "del" ELSE "unregister"
          /\ holder' = holder
      BY <1>1, <1>2, <1>10 DEF ReleaseGet, ThreadStates
    <2>2. QED
      BY <2>1 DEF Fresh, Target, Mine
  <1>11. CASE ReleaseDelete(t)
    <2>1. [thr[t] EXCEPT !.pc = "unregister"].pc = "unregister"
      BY <1>1 DEF ThreadStates
    <2>2. QED
      BY <1>2, <1>3, <1>11, <2>1 DEF ReleaseDelete
  <1>12. CASE Unregister(t)
    BY <1>2, <1>3, <1>5, <1>12 DEF Unregister
  <1>13. ASSUME NEW r \in Resources
         PROVE  \/ BatchNext(t, r) = IdleThread
                \/ BatchNext(t, r).pc = "batch" /\ BatchNext(t, r).agv = thr[t].agv
    BY <1>1 DEF BatchNext, ThreadStates
  <1>14. IdleThread.pc = "idle"
    BY DEF IdleThread, Calling
  <1>15. ASSUME NEW r \in Resources, BatchGet(t, r) PROVE Fresh(t)'
    <2>1. CASE Mine(t, r)
      <3>1. /\ thr'[t].agv = thr[t].agv /\ thr'[t].todo = <<r>> /\ thr'[t].pc = "batchDel"
            /\ holder' = holder /\ agvResources' = agvResources /\ thr[t].pc = "batch"
        BY <1>1, <1>2, <1>15, <2>1 DEF BatchGet, ThreadStates
      <3>2. Head(<<r>>) = r
        OBVIOUS
      <3>3. QED
        BY <1>1, <2>1, <3>1, <3>2 DEF Fresh, Target, Mine
    <2>2. CASE ~Mine(t, r)
      <3>1. /\ thr'[t] = BatchNext(t, r) /\ agvResources' = agvResources /\ thr[t].pc = "batch"
        BY <1>2, <1>15, <2>2 DEF BatchGet
      <3>2. QED
        BY <1>1, <1>13, <1>14, <3>1 DEF Fresh
    <2>3. QED
      BY <2>1, <2>2
  <1>16. CASE BatchDelete(t)
    <2>1. /\ thr'[t] = BatchNext(t, Target(t)) /\ agvResources' = agvResources
          /\ thr[t].pc = "batchDel"
      BY <1>2, <1>16 DEF BatchDelete
    <2>2. QED
      BY <1>1, <1>13, <1>14, <2>1 DEF Fresh
  <1>17. QED
    BY <1>6, <1>7, <1>8, <1>9, <1>10, <1>11, <1>12, <1>15, <1>16 DEF ThreadStep

LEMMA NextFreshAnswers ==
    ASSUME Disciplined, IInv, [Next]_vars
    PROVE  FreshAnswers'
  <1> SUFFICES ASSUME NEW u \in Threads PROVE Fresh(u)'
    BY DEF FreshAnswers, Fresh
  <1>0. /\ thr[u] \in ThreadStates /\ Working(thr[u]) /\ Fresh(u)
        /\ thr[u].pc \in {"register", "del", "batchDel"} => Target(u) \in Resources
        /\ thr[u].pc # "idle" => thr[u].agv \in Agvs
    BY FreshFacts
  <1>1. TypeOK /\ OneCallPerAgv
    BY DEF IInv
  <1>2. ASSUME thr'[u] = thr[u], UNCHANGED <<holder, ttl>>,
               \A a \in Agvs : agvResources[a] = {} => agvResources'[a] = {}
        PROVE  Fresh(u)'
    BY <1>0, <1>2 DEF Fresh, Target
  <1>3. ASSUME NEW t \in Threads, NEW a \in Agvs, Call(t, a) PROVE Fresh(u)'
    <2>1. CASE u # t
      BY <1>1, <1>2, <1>3, <2>1 DEF Call, StartLock, StartRelease, StartReleaseAll, TypeOK
    <2>2. CASE u = t
      BY <1>1, <1>3, <2>2 DEF Call, StartLock, StartRelease, StartReleaseAll, TypeOK, Fresh, Calling
    <2>3. QED
      BY <2>1, <2>2
  <1>4. ASSUME NEW t \in Threads, ThreadStep(t) PROVE Fresh(u)'
    <2>1. CASE u = t
      BY <1>4, <2>1, FreshStep
    <2>2. CASE u # t
      <3>1. thr'[u] = thr[u]
        BY <1>1, <1>4, <2>2, AgvStays DEF IInv
      <3>2. CASE thr[u].pc = "idle"
        BY <3>1, <3>2 DEF Fresh
      <3>3. CASE thr[u].pc # "idle"
        <4>1. thr[u].agv # thr[t].agv /\ thr[u].agv \in Agvs
          BY <1>0, <1>1, <2>2, <3>3 DEF OneCallPerAgv
        <4>2. agvResources'[thr[u].agv] = agvResources[thr[u].agv]
          BY <1>4, <4>1, StepIsLocal
        <4>3. thr[u].pc \in {"register", "del", "batchDel"} =>
                 holder'[Target(u)] = holder[Target(u)] /\ ttl'[Target(u)] = ttl[Target(u)]
          BY <1>0, <1>4, <4>1, StepIsLocal DEF Fresh
        <4>4. QED
          BY <1>0, <3>1, <4>2, <4>3 DEF Fresh, Target
      <3>4. QED
        BY <3>2, <3>3
    <2>3. QED
      BY <2>1, <2>2
  <1>5. ASSUME NEW p \in Pairs, RenewExpire(p) PROVE Fresh(u)'
    <2>1. /\ thr' = thr /\ holder' = holder /\ agvResources' = agvResources
          /\ ttl' = [ttl EXCEPT ![p[2]] = IF holder[p[2]] = NoAgv THEN 0 ELSE LockExpire]
      BY <1>5 DEF RenewExpire
    <2>2. thr[u].pc = "register" => ttl'[Target(u)] = LockExpire
      BY <1>0, <1>1, <2>1 DEF Fresh, TypeOK
    <2>3. QED
      BY <1>0, <2>1, <2>2 DEF Fresh, Target
  <1>6. CASE RenewStep
    <2>1. ASSUME NEW p \in Pairs, RenewGet(p) \/ RenewSkip(p) \/ RenewDrop(p) PROVE Fresh(u)'
      BY <1>1, <1>2, <2>1 DEF RenewGet, RenewSkip, RenewDrop, TypeOK
    <2>2. CASE RenewStart \/ RenewEnd
      BY <1>2, <2>2 DEF RenewStart, RenewEnd
    <2>3. QED
      BY <1>5, <1>6, <2>1, <2>2 DEF RenewStep
  <1>7. CASE Tick
    <2>1. thr[u].pc \notin {"register", "del", "batchDel"} /\ thr' = thr /\ agvResources' = agvResources
      BY <1>7 DEF Tick, Disciplined
    <2>2. QED
      BY <1>0, <2>1 DEF Fresh
  <1>8. CASE Crash
    BY <1>8 DEF Crash, Fresh, IdleThread, Calling
  <1>9. CASE UNCHANGED vars
    BY <1>2, <1>9 DEF vars
  <1>10. ~RenewFails /\ \A t \in Threads : ~CallFails(t)
    BY DEF Disciplined, RenewFails, CallFails
  <1>11. QED
    BY <1>3, <1>4, <1>6, <1>7, <1>8, <1>9, <1>10 DEF Next

\* What a lease needs is never more than a fresh one has.
LEMMA NeedFits ==
  ASSUME Disciplined, TypeOK, PassOnTime
  PROVE  \A a \in Agvs, r \in Resources : Need(a, r) \in Nat /\ Need(a, r) <= LockExpire
  <1>1. renew.timer \in Nat
    BY DEF TypeOK, RenewStates
  <1>2. \A k \in Nat : k <= RenewalInterval =>
          LET n == (RenewalInterval - k) + PassBound + 1 IN n \in Nat /\ n <= LockExpire
    BY TimesAssumption DEF Disciplined
  <1>3. \A k \in Nat : k <= PassBound =>
          /\ (PassBound - k) + 1 + 0 \in Nat /\ (PassBound - k) + 1 + 0 <= LockExpire
          /\ (PassBound - k) + 1 + (RenewalInterval + PassBound) \in Nat
          /\ (PassBound - k) + 1 + (RenewalInterval + PassBound) <= LockExpire
    BY TimesAssumption DEF Disciplined
  <1>4. CASE renew.pc = "wait"
    <2>1. renew.timer <= RenewalInterval
      BY <1>4 DEF PassOnTime
    <2>2. QED
      BY <1>1, <1>2, <1>4, <2>1 DEF Need
  <1>5. CASE renew.pc # "wait"
    <2>1. renew.timer <= PassBound
      BY <1>5 DEF PassOnTime
    <2>2. QED
      BY <1>1, <1>3, <1>5, <2>1 DEF Need
  <1>6. QED
    BY <1>4, <1>5

LEMMA NextNeedFits ==
  ASSUME Disciplined
  PROVE  (TypeOK /\ PassOnTime
            => \A a \in Agvs, r \in Resources : Need(a, r) \in Nat /\ Need(a, r) <= LockExpire)'
  <1>1. TypeOK /\ PassOnTime
          => \A a \in Agvs, r \in Resources : Need(a, r) \in Nat /\ Need(a, r) <= LockExpire
    BY NeedFits
  <1>2. QED
    BY <1>1, PTL

Covered(a, r) == holder[r] = a /\ ttl[r] >= Need(a, r)

\* An entitlement that a step did not create was there before.
LEMMA StillEntitled ==
    ASSUME NEW a \in Agvs, NEW r \in Resources, Entitled(a, r)', r \in agvResources[a],
           \A u \in Threads : \/ thr'[u] = thr[u]
                              \/ thr[u].agv # a
                              \/ thr[u].pc \notin {"del", "unregister"}
                              \/ Target(u) # r
    PROVE  Entitled(a, r)
  BY DEF Entitled, Releasing, Target

LEMMA StillCovered ==
    ASSUME TypeOK, LeaseCovered, NEW a \in Agvs, NEW r \in Resources, Entitled(a, r),
           holder'[r] = holder[r], ttl'[r] = ttl[r], Need(a, r)' = Need(a, r)
    PROVE  Covered(a, r)'
  BY DEF LeaseCovered, Covered

\* The steps of a call.
LEMMA CallCovered ==
    ASSUME IInv, NEW t \in Threads, NEW b \in Agvs, Call(t, b),
           NEW a \in Agvs, NEW r \in Resources, Entitled(a, r)'
    PROVE  Covered(a, r)'
  <1>1. TypeOK /\ LeaseCovered /\ Working(thr[t])
    BY DEF IInv, Busy
  <1>2. /\ thr[t].pc = "idle" /\ UNCHANGED <<holder, ttl>>
        /\ \A u \in Threads : u # t => thr'[u] = thr[u]
    BY <1>1 DEF Call, StartLock, StartRelease, StartReleaseAll, MayCall, TypeOK
  <1>3. r \in agvResources[a] /\ Need(a, r)' = Need(a, r)
    <2>1. CASE StartReleaseAll(t, b)
      <3>1. a # b /\ r \in agvResources[a]
        BY <1>1, <2>1 DEF StartReleaseAll, Entitled, TypeOK
      <3>2. /\ renew'.timer = renew.timer
            /\ renew'.pc = "wait" <=> renew.pc = "wait"
            /\ renew'.todo = {p \in renew.todo : p[1] # b}
        BY <1>1, <2>1 DEF StartReleaseAll, Detached, TypeOK, RenewStates
      <3>3. <<a, r>> \in renew'.todo <=> <<a, r>> \in renew.todo
        BY <3>1, <3>2
      <3>4. QED
        BY <3>1, <3>2, <3>3 DEF Need
    <2>2. CASE UNCHANGED <<agvResources, renew>>
      BY <2>2 DEF Need, Entitled
    <2>3. QED
      BY <2>1, <2>2 DEF Call, StartLock, StartRelease
  <1>4. Entitled(a, r)
    BY <1>1, <1>2, <1>3, StillEntitled
  <1>5. QED
    BY <1>1, <1>2, <1>3, <1>4, StillCovered

LEMMA ThreadStepCovered ==
    ASSUME Disciplined, IInv, NEW t \in Threads, ThreadStep(t),
           NEW a \in Agvs, NEW r \in Resources, Entitled(a, r)'
    PROVE  Covered(a, r)'
  <1>1. /\ TypeOK /\ LeaseCovered /\ OneCallPerAgv /\ PassOnTime
        /\ thr[t] \in ThreadStates /\ Fresh(t)
    BY FreshFacts DEF IInv
  <1>2. /\ \A u \in Threads : u # t => thr'[u] = thr[u]
        /\ thr[t].agv \in Agvs
        /\ \A s \in Resources : \/ holder'[s] = holder[s] /\ ttl'[s] = ttl[s]
                                \/ holder[s] \in {NoAgv, thr[t].agv}
        /\ \A b \in Agvs : b # thr[t].agv => agvResources'[b] = agvResources[b]
    BY <1>1, AgvStays, StepIsLocal DEF IInv
  <1>3. ASSUME <<a, r>> # <<thr[t].agv, Target(t)>> \/ ~Register(t)
        PROVE  Need(a, r)' = Need(a, r)
    <2>1. CASE Register(t)
      <3>1. \/ renew' = renew
            \/ renew' = [renew EXCEPT !.todo = @ \cup {<<thr[t].agv, Target(t)>>}]
        BY <2>1 DEF Register
      <3>2. /\ renew'.timer = renew.timer /\ renew'.pc = renew.pc
            /\ <<a, r>> \in renew'.todo <=> <<a, r>> \in renew.todo
        BY <1>1, <1>3, <2>1, <3>1 DEF TypeOK, RenewStates
      <3>3. QED
        BY <3>2 DEF Need
    <2>2. CASE ~Register(t)
      <3>1. ASSUME NEW s \in Resources, BatchGet(t, s) PROVE renew' = renew
        BY <3>1 DEF BatchGet
      <3>2. renew' = renew
        BY <2>2, <3>1 DEF ThreadStep, SetIfAbsent, SetRefused, AskHolder, ReleaseGet,
                          ReleaseDelete, Unregister, BatchDelete
      <3>3. QED
        BY <3>2 DEF Need
    <2>3. QED
      BY <2>1, <2>2
  \* Another AGV's lease is out of reach of the step.
  <1>4. CASE a # thr[t].agv
    <2>1. Entitled(a, r)
      BY <1>2, <1>4, StillEntitled DEF Entitled
    <2>2. holder[r] = a
      BY <1>1, <2>1 DEF LeaseCovered
    <2>3. QED
      BY <1>1, <1>2, <1>3, <1>4, <2>1, <2>2, StillCovered
  <1>5. CASE a = thr[t].agv
    <2> USE <1>5
    <2>1. ASSUME Entitled(a, r), UNCHANGED <<holder, ttl>>, ~Register(t) PROVE Covered(a, r)'
      BY <1>1, <1>3, <2>1, StillCovered
    <2>2. ASSUME r \in agvResources[a], thr[t].pc \notin {"del", "unregister"}
          PROVE  Entitled(a, r)
      BY <1>2, <2>2, StillEntitled
    <2>3. CASE SetIfAbsent(t)
      <3>1. Entitled(a, r)
        BY <2>2, <2>3 DEF SetIfAbsent, Entitled
      <3>2. holder[r] = a /\ r # Target(t)
        BY <1>1, <2>3, <3>1 DEF LeaseCovered, SetIfAbsent
      <3>3. holder'[r] = holder[r] /\ ttl'[r] = ttl[r] /\ ~Register(t)
        BY <1>1, <2>3, <3>2 DEF SetIfAbsent, Register, TypeOK
      <3>4. QED
        BY <1>1, <1>3, <3>1, <3>3, StillCovered
    <2>4. CASE SetRefused(t) \/ AskHolder(t) \/ ReleaseGet(t)
      <3>1. /\ r \in agvResources[a] /\ thr[t].pc \notin {"del", "unregister", "register"}
            /\ UNCHANGED <<holder, ttl>>
        BY <2>4 DEF SetRefused, AskHolder, ReleaseGet, Entitled
      <3>2. QED
        BY <2>1, <2>2, <3>1 DEF Register
    <2>5. CASE Register(t)
      <3>1. thr[t].pc = "register" /\ UNCHANGED <<holder, ttl>>
        BY <2>5 DEF Register
      <3>2. CASE r = Target(t)
        <4>1. holder'[r] = a /\ ttl'[r] = LockExpire
          BY <1>1, <3>1, <3>2 DEF Fresh
        <4>2. TypeOK' /\ PassOnTime'
          <5>1. [Next]_vars
            BY DEF Next
          <5>2. QED
            BY <5>1, NextType, NextPassOnTime DEF IInv
        <4>3. Need(a, r)' \in Nat /\ Need(a, r)' <= LockExpire
          BY <4>2, NextNeedFits
        <4>4. QED
          BY <4>1, <4>3 DEF Covered
      <3>3. CASE r # Target(t)
        <4>1. r \in agvResources[a]
          BY <1>1, <2>5, <3>3 DEF Register, Entitled, TypeOK
        <4>2. Entitled(a, r)
          BY <2>2, <3>1, <4>1
        <4>3. Need(a, r)' = Need(a, r)
          BY <1>3, <3>3
        <4>4. QED
          BY <1>1, <3>1, <4>2, <4>3, StillCovered
      <3>4. QED
        BY <3>2, <3>3
    <2>6. CASE ReleaseDelete(t)
      <3>1. /\ thr[t].pc = "del" /\ thr'[t].pc = "unregister" /\ thr'[t].agv = a
            /\ Target(t)' = Target(t) /\ agvResources' = agvResources
        BY <1>1, <2>6 DEF ReleaseDelete, ThreadStates, TypeOK, Target
      <3>2. r # Target(t)
        BY <3>1 DEF Entitled, Releasing
      <3>3. Entitled(a, r)
        BY <1>2, <3>1, <3>2, StillEntitled DEF Entitled
      <3>4. holder'[r] = holder[r] /\ ttl'[r] = ttl[r] /\ ~Register(t)
        BY <1>1, <2>6, <3>1, <3>2 DEF ReleaseDelete, Delete, Register, TypeOK
      <3>5. QED
        BY <1>1, <1>3, <3>3, <3>4, StillCovered
    <2>7. CASE Unregister(t)
      <3>1. /\ r \in agvResources[a] /\ r # Target(t) /\ UNCHANGED <<holder, ttl>>
            /\ thr[t].pc = "unregister"
        BY <1>1, <2>7 DEF Unregister, Entitled, TypeOK
      <3>2. Entitled(a, r)
        BY <1>2, <3>1, StillEntitled
      <3>3. QED
        BY <2>1, <3>1, <3>2 DEF Register
    <2>8. ASSUME thr[t].pc \in {"batch", "batchDel"}, agvResources' = agvResources
          PROVE  Covered(a, r)'
      BY <1>1, <2>8 DEF Fresh, Entitled
    <2>9. ASSUME NEW s \in Resources, BatchGet(t, s) PROVE Covered(a, r)'
      BY <2>8, <2>9 DEF BatchGet
    <2>10. CASE BatchDelete(t)
      BY <2>8, <2>10 DEF BatchDelete
    <2>11. QED
      BY <2>3, <2>4, <2>5, <2>6, <2>7, <2>9, <2>10 DEF ThreadStep
  <1>6. QED
    BY <1>4, <1>5

\* The steps of a renewal pass.
LEMMA RenewStepCovered ==
    ASSUME Disciplined, IInv, RenewStep,
           NEW a \in Agvs, NEW r \in Resources, Entitled(a, r)'
    PROVE  Covered(a, r)'
  <1>1. TypeOK /\ LeaseCovered /\ PassOnTime /\ renew.timer \in Nat
    BY DEF IInv, TypeOK, RenewStates
  <1>2. thr' = thr
    BY RenewKeepsThreads
  <1>3. ASSUME r \in agvResources[a] PROVE Entitled(a, r)
    BY <1>2, <1>3, StillEntitled
  <1>4. CASE RenewStart
    <2>1. /\ r \in agvResources[a] /\ UNCHANGED <<holder, ttl>>
          /\ renew.pc = "wait" /\ renew.timer = RenewalInterval
          /\ renew'.pc = "pass" /\ renew'.timer = 0 /\ <<a, r>> \in renew'.todo
      BY <1>4 DEF RenewStart, Entitled, Pairs
    <2>2. Need(a, r) = PassBound + 1 /\ Need(a, r)' = PassBound + 1
      BY <2>1 DEF Need
    <2>3. QED
      BY <1>1, <1>3, <2>1, <2>2, StillCovered
  <1>5. ASSUME NEW p \in Pairs, RenewGet(p) PROVE Covered(a, r)'
    <2>1. /\ r \in agvResources[a] /\ UNCHANGED <<holder, ttl>>
          /\ renew.pc = "pass" /\ renew'.pc \in {"expire", "drop"}
          /\ renew'.timer = renew.timer /\ renew'.todo = renew.todo
      BY <1>1, <1>5 DEF RenewGet, Entitled, TypeOK, RenewStates
    <2>2. Need(a, r)' = Need(a, r)
      BY <2>1 DEF Need
    <2>3. QED
      BY <1>1, <1>3, <2>1, <2>2, StillCovered
  \* A visited entry needs more time from now on, the others as much as before.
  <1>6. ASSUME NEW p \in Pairs, renew.pc # "wait", renew' = RenewNext(p)
        PROVE  p # <<a, r>> => Need(a, r)' = Need(a, r)
    <2>1. /\ renew'.pc = "pass" /\ renew'.timer = renew.timer
          /\ renew'.todo = renew.todo \ {p}
      BY <1>1, <1>6 DEF RenewNext, TypeOK, RenewStates
    <2>2. QED
      BY <1>6, <2>1 DEF Need
  <1>7. ASSUME NEW p \in Pairs, RenewSkip(p) PROVE Covered(a, r)'
    <2>1. /\ r \in agvResources[a] /\ UNCHANGED <<holder, ttl>> /\ p # <<a, r>>
          /\ renew.pc # "wait" /\ renew' = RenewNext(p)
      BY <1>7 DEF RenewSkip, Entitled
    <2>2. QED
      BY <1>1, <1>3, <1>6, <2>1, StillCovered
  <1>8. ASSUME NEW p \in Pairs, RenewExpire(p) PROVE Covered(a, r)'
    <2>1. /\ r \in agvResources[a] /\ holder' = holder
          /\ ttl' = [ttl EXCEPT ![p[2]] = IF holder[p[2]] = NoAgv THEN 0 ELSE LockExpire]
          /\ renew.pc # "wait" /\ renew' = RenewNext(p)
      BY <1>8 DEF RenewExpire, Entitled
    <2>2. Entitled(a, r) /\ holder[r] = a
      BY <1>1, <1>3, <2>1 DEF LeaseCovered
    <2>3. CASE p[2] = r
      <3>1. ttl'[r] = LockExpire
        BY <1>1, <2>1, <2>2, <2>3 DEF TypeOK
      <3>2. TypeOK' /\ PassOnTime'
        <4>1. [Next]_vars
          BY DEF Next
        <4>2. QED
          BY <4>1, NextType, NextPassOnTime DEF IInv
      <3>3. Need(a, r)' \in Nat /\ Need(a, r)' <= LockExpire
        BY <3>2, NextNeedFits
      <3>4. QED
        BY <2>1, <2>2, <3>1, <3>3 DEF Covered
    <2>4. CASE p[2] # r
      <3>1. p # <<a, r>> /\ ttl'[r] = ttl[r]
        BY <1>1, <2>1, <2>4 DEF TypeOK
      <3>2. QED
        BY <1>1, <1>6, <2>1, <2>2, <3>1, StillCovered
    <2>5. QED
      BY <2>3, <2>4
  <1>9. ASSUME NEW p \in Pairs, RenewDrop(p) PROVE Covered(a, r)'
    <2>1. /\ r \in agvResources[a] /\ UNCHANGED <<holder, ttl>> /\ p # <<a, r>>
          /\ renew.pc # "wait" /\ renew' = RenewNext(p)
      BY <1>1, <1>9 DEF RenewDrop, Entitled, TypeOK, Pairs
    <2>2. QED
      BY <1>1, <1>3, <1>6, <2>1, StillCovered
  <1>10. CASE RenewEnd
    <2>1. /\ r \in agvResources[a] /\ UNCHANGED <<holder, ttl>>
          /\ renew.pc = "pass" /\ renew.todo = {} /\ renew.timer <= PassBound
          /\ renew'.pc = "wait" /\ renew'.timer = 0
      BY <1>1, <1>10 DEF RenewEnd, Entitled, PassOnTime, TypeOK, RenewStates
    <2>2. /\ Need(a, r) = (PassBound - renew.timer) + 1 + (RenewalInterval + PassBound)
          /\ Need(a, r)' = (RenewalInterval - 0) + PassBound + 1
      BY <2>1 DEF Need
    <2>3. holder[r] = a /\ ttl[r] >= Need(a, r) /\ ttl[r] \in Nat
      BY <1>1, <1>3, <2>1 DEF LeaseCovered, TypeOK
    <2>4. QED
      BY <1>1, <2>1, <2>2, <2>3 DEF Covered
  <1>11. QED
    BY <1>4, <1>5, <1>7, <1>8, <1>9, <1>10 DEF RenewStep

\* One tick of a count that has not run out.
LEMMA CountDown ==
    ASSUME NEW m \in Nat, NEW t \in Nat, NEW k \in Nat, t < m,
           NEW x, NEW y, x = (m - t) + k, y = (m - (t + 1)) + k, k >= 1
    PROVE  x \in Nat /\ x >= 2 /\ y = x - 1
  <1>1. m - t \in Nat /\ m - t >= 1 /\ m - (t + 1) = (m - t) - 1
    OBVIOUS
  <1>2. QED
    BY <1>1

\* A tick takes one from the time to live and one from the need.
LEMMA TickCovered ==
    ASSUME IInv, Tick, NEW a \in Agvs, NEW r \in Resources, Entitled(a, r)'
    PROVE  Covered(a, r)'
  <1>1. TypeOK /\ LeaseCovered /\ renew.timer \in Nat /\ ttl[r] \in Nat
    BY DEF IInv, TypeOK, RenewStates
  <1>2. /\ UNCHANGED <<agvResources, thr>>
        /\ renew.timer < (IF renew.pc = "wait" THEN RenewalInterval ELSE PassBound)
        /\ renew'.pc = renew.pc /\ renew'.todo = renew.todo /\ renew'.timer = renew.timer + 1
    BY <1>1 DEF Tick, TypeOK, RenewStates
  <1>3. /\ holder'[r] = IF ttl[r] <= 1 THEN NoAgv ELSE holder[r]
        /\ ttl'[r] = IF ttl[r] = 0 THEN 0 ELSE ttl[r] - 1
    BY DEF Tick
  <1>4. Entitled(a, r)
    BY <1>2, StillEntitled DEF Entitled
  <1>5. holder[r] = a /\ ttl[r] >= Need(a, r)
    BY <1>1, <1>4 DEF LeaseCovered
  <1>6. Need(a, r) \in Nat /\ Need(a, r) >= 2 /\ Need(a, r)' = Need(a, r) - 1
    <2>1. CASE renew.pc = "wait"
      <3>1. /\ Need(a, r) = (RenewalInterval - renew.timer) + (PassBound + 1)
            /\ Need(a, r)' = (RenewalInterval - (renew.timer + 1)) + (PassBound + 1)
        BY <1>1, <1>2, <2>1 DEF Need
      <3>2. renew.timer < RenewalInterval
        BY <1>2, <2>1
      <3>3. QED
        BY <1>1, <3>1, <3>2, CountDown
    <2>2. CASE renew.pc # "wait" /\ <<a, r>> \in renew.todo
      <3>1. /\ Need(a, r) = (PassBound - renew.timer) + 1
            /\ Need(a, r)' = (PassBound - (renew.timer + 1)) + 1
        BY <1>1, <1>2, <2>2 DEF Need
      <3>2. renew.timer < PassBound
        BY <1>2, <2>2
      <3>3. QED
        BY <1>1, <3>1, <3>2, CountDown
    <2>3. CASE renew.pc # "wait" /\ <<a, r>> \notin renew.todo
      <3> DEFINE k == 1 + (RenewalInterval + PassBound)
      <3>1. /\ Need(a, r) = (PassBound - renew.timer) + 1 + (RenewalInterval + PassBound)
            /\ Need(a, r)' = (PassBound - (renew.timer + 1)) + 1 + (RenewalInterval + PassBound)
        BY <1>2, <2>3 DEF Need
      <3>2. renew.timer < PassBound
        BY <1>2, <2>3
      <3>3. /\ \A z \in Int : z + 1 + (RenewalInterval + PassBound) = z + k
            /\ PassBound - renew.timer \in Int /\ PassBound - (renew.timer + 1) \in Int
            /\ k \in Nat /\ k >= 1
        BY <1>1
      <3>4. /\ Need(a, r) = (PassBound - renew.timer) + k
            /\ Need(a, r)' = (PassBound - (renew.timer + 1)) + k
        BY <3>1, <3>3
      <3> HIDE DEF k
      <3>5. QED
        BY <1>1, <3>2, <3>3, <3>4, CountDown
    <2>4. QED
      BY <2>1, <2>2, <2>3
  <1>7. QED
    BY <1>1, <1>3, <1>5, <1>6 DEF Covered

LEMMA NextCovered ==
    ASSUME Disciplined, IInv, [Next]_vars
    PROVE  LeaseCovered'
  <1> SUFFICES ASSUME NEW a \in Agvs, NEW r \in Resources, Entitled(a, r)'
               PROVE  Covered(a, r)'
    BY DEF LeaseCovered, Covered
  <1>1. CASE Crash
    BY <1>1 DEF Crash, Entitled
  <1>2. CASE UNCHANGED vars
    <2>1. Entitled(a, r) /\ Need(a, r)' = Need(a, r)
      BY <1>2 DEF vars, Entitled, Releasing, Target, Need
    <2>2. QED
      BY <1>2, <2>1, StillCovered DEF IInv, vars
  <1>3. ~RenewFails /\ \A t \in Threads : ~CallFails(t)
    BY DEF Disciplined, RenewFails, CallFails
  <1>4. QED
    BY <1>1, <1>2, <1>3, CallCovered, ThreadStepCovered, RenewStepCovered, TickCovered DEF Next

-----------------------------------------------------------------------------
(* The theorems *)

LEMMA InitInv == Init => IInv
  <1> SUFFICES ASSUME Init PROVE IInv
    OBVIOUS
  <1>1. TypeOK
    BY InitType
  <1>2. Busy /\ OneCallPerAgv /\ FreshAnswers /\ PassOnTime /\ LeaseCovered
    BY DEF Init, Busy, Working, OneCallPerAgv, FreshAnswers, PassOnTime, LeaseCovered,
           Entitled, IdleThread, Calling, RenewDue
  <1>3. QED
    BY <1>1, <1>2 DEF IInv

LEMMA NextInv == ASSUME Disciplined PROVE IInv /\ [Next]_vars => IInv'
  BY NextType, NextBusy, NextOneCall, NextPassOnTime, NextFreshAnswers, NextCovered
  DEF IInv, Disciplined

\* A lease of an AGV that relies on it has, at every moment, the time to live
\* it needs until renewLocks has come round to it again.
THEOREM LeasesCovered == ASSUME Disciplined PROVE Spec => []LeaseCovered
  <1>1. IInv => LeaseCovered
    BY DEF IInv
  <1>2. QED
    BY <1>1, InitInv, NextInv, PTL DEF Spec

\* An entry of the registry is backed by its Redis key.
THEOREM LeasesHeld == ASSUME Disciplined PROVE Spec => []LeaseHeld
  <1>1. LeaseCovered => LeaseHeld
    BY DEF LeaseCovered, LeaseHeld
  <1>2. QED
    BY <1>1, LeasesCovered, PTL

\* Two AGVs are never entitled to the same node or edge.
THEOREM LeasesExclusive == ASSUME Disciplined PROVE Spec => []LeaseExclusive
  <1>1. LeaseHeld => LeaseExclusive
    BY DEF LeaseHeld, LeaseExclusive
  <1>2. QED
    BY <1>1, LeasesHeld, PTL

-----------------------------------------------------------------------------
(* Resources change hands as in LeaseTable *)

\* While leases are held, the user of a resource is the AGV entitled to it.
LEMMA UserIsEntitled ==
    LeaseHeld =>
      \A r \in Resources :
         /\ User[r] \in Agvs \cup {NoAgv}
         /\ \A a \in Agvs : User[r] = a <=> Entitled(a, r)
  <1> SUFFICES ASSUME LeaseHeld, NEW r \in Resources
               PROVE  /\ User[r] \in Agvs \cup {NoAgv}
                      /\ \A a \in Agvs : User[r] = a <=> Entitled(a, r)
    OBVIOUS
  <1>1. \A a, b \in Agvs : Entitled(a, r) /\ Entitled(b, r) => a = b
    BY DEF LeaseHeld
  <1>2. CASE \E a \in Agvs : Entitled(a, r)
    <2>1. User[r] = CHOOSE a \in Agvs : Entitled(a, r)
      BY <1>2 DEF User
    <2>2. User[r] \in Agvs /\ Entitled(User[r], r)
      BY <1>2, <2>1
    <2>3. QED
      BY <1>1, <2>2
  <1>3. CASE ~\E a \in Agvs : Entitled(a, r)
    <2>1. User[r] = NoAgv
      BY <1>3 DEF User
    <2>2. QED
      BY <1>3, <2>1, NoAgvAssumption
  <1>4. QED
    BY <1>2, <1>3

\* Only Register entitles an AGV to a resource, and only its own to one.
LEMMA OnlyRegisterEntitles ==
    ASSUME Disciplined, IInv, [Next]_vars,
           NEW a \in Agvs, NEW r \in Resources, Entitled(a, r)', ~Entitled(a, r)
    PROVE  \E t \in Threads : Register(t) /\ thr[t].agv = a /\ Target(t) = r
  <1>1. /\ TypeOK /\ \A u \in Threads : Working(thr[u])
        /\ FreshAnswers
    BY DEF IInv, Busy
  <1>2. r \in agvResources'[a]
    BY DEF Entitled
  <1>3. ASSUME thr' = thr, r \in agvResources[a] PROVE FALSE
    BY <1>3, StillEntitled
  <1>4. ASSUME NEW t \in Threads, NEW b \in Agvs, Call(t, b) PROVE FALSE
    <2>1. /\ thr[t].pc = "idle"
          /\ \A u \in Threads : u # t => thr'[u] = thr[u]
          /\ r \in agvResources[a]
      BY <1>1, <1>2, <1>4 DEF Call, StartLock, StartRelease, StartReleaseAll, MayCall, TypeOK
    <2>2. QED
      BY <2>1, StillEntitled
  <1>5. ASSUME NEW t \in Threads, ThreadStep(t), ~(Register(t) /\ thr[t].agv = a /\ Target(t) = r)
        PROVE  FALSE
    <2>1. /\ \A u \in Threads : u # t => thr'[u] = thr[u]
          /\ thr[t].agv \in Agvs /\ thr[t] \in ThreadStates /\ Fresh(t)
          /\ \A b \in Agvs : b # thr[t].agv => agvResources'[b] = agvResources[b]
      BY <1>1, <1>5, AgvStays, StepIsLocal, FreshFacts DEF IInv
    <2>2. ASSUME r \in agvResources[a], thr[t].pc \notin {"del", "unregister"} \/ thr[t].agv # a
          PROVE  FALSE
      BY <2>1, <2>2, StillEntitled
    <2>3. CASE a # thr[t].agv
      BY <1>2, <2>1, <2>2, <2>3
    <2>4. CASE a = thr[t].agv /\ (SetIfAbsent(t) \/ SetRefused(t) \/ AskHolder(t) \/ ReleaseGet(t))
      BY <1>2, <2>2, <2>4 DEF SetIfAbsent, SetRefused, AskHolder, ReleaseGet
    <2>5. CASE a = thr[t].agv /\ Register(t)
      <3>1. r # Target(t) /\ thr[t].pc = "register"
        BY <1>5, <2>5 DEF Register
      <3>2. r \in agvResources[a]
        BY <1>1, <1>2, <2>1, <2>5, <3>1 DEF Register, TypeOK
      <3>3. QED
        BY <2>2, <3>1, <3>2
    <2>6. CASE a = thr[t].agv /\ ReleaseDelete(t)
      <3>1. /\ thr[t].pc = "del" /\ thr'[t].pc = "unregister" /\ thr'[t].agv = a
            /\ Target(t)' = Target(t) /\ agvResources' = agvResources
        BY <1>1, <2>1, <2>6 DEF ReleaseDelete, ThreadStates, TypeOK, Target
      <3>2. r # Target(t)
        BY <3>1 DEF Entitled, Releasing
      <3>3. QED
        BY <1>2, <2>1, <3>1, <3>2, StillEntitled
    <2>7. CASE a = thr[t].agv /\ Unregister(t)
      <3>1. r \in agvResources[a] /\ r # Target(t)
        BY <1>1, <1>2, <2>7 DEF Unregister, TypeOK
      <3>2. QED
        BY <2>1, <3>1, StillEntitled
    <2>8. ASSUME thr[t].pc \in {"batch", "batchDel"}, agvResources' = agvResources, a = thr[t].agv
          PROVE  FALSE
      BY <1>2, <2>1, <2>8 DEF Fresh
    <2>9. ASSUME NEW q \in Resources, BatchGet(t, q), a = thr[t].agv PROVE FALSE
      BY <2>8, <2>9 DEF BatchGet
    <2>10. ASSUME BatchDelete(t), a = thr[t].agv PROVE FALSE
      BY <2>8, <2>10 DEF BatchDelete
    <2>11. QED
      BY <1>5, <2>3, <2>4, <2>5, <2>6, <2>7, <2>9, <2>10 DEF ThreadStep
  <1>6. ASSUME RenewStep PROVE FALSE
    <2>1. CASE UNCHANGED agvResources
      BY <1>2, <1>3, <1>6, <2>1, RenewKeepsThreads
    <2>2. ASSUME NEW p \in Pairs, RenewDrop(p) PROVE FALSE
      <3>1. r \in agvResources[a]
        BY <1>1, <1>2, <2>2 DEF RenewDrop, TypeOK, Pairs
      <3>2. QED
        BY <1>3, <1>6, <3>1, RenewKeepsThreads
    <2>3. ASSUME NEW p \in Pairs, RenewGet(p) \/ RenewSkip(p) \/ RenewExpire(p) PROVE FALSE
      BY <2>1, <2>3 DEF RenewGet, RenewSkip, RenewExpire
    <2>4. CASE RenewStart \/ RenewEnd
      BY <2>1, <2>4 DEF RenewStart, RenewEnd
    <2>5. QED
      BY <1>6, <2>2, <2>3, <2>4 DEF RenewStep
  <1>7. ASSUME Tick PROVE FALSE
    BY <1>2, <1>3, <1>7 DEF Tick
  <1>8. ASSUME Crash PROVE FALSE
    BY <1>2, <1>8 DEF Crash
  <1>9. ASSUME UNCHANGED vars PROVE FALSE
    BY <1>2, <1>3, <1>9 DEF vars
  <1>10. ~RenewFails /\ \A t \in Threads : ~CallFails(t)
    BY DEF Disciplined, RenewFails, CallFails
  <1>11. QED
    BY <1>4, <1>5, <1>6, <1>7, <1>8, <1>9, <1>10 DEF Next

\* Register takes nobody's entitlement away.
LEMMA RegisterKeeps ==
    ASSUME IInv, NEW t \in Threads, Register(t),
           NEW a \in Agvs, NEW r \in Resources, Entitled(a, r)
    PROVE  Entitled(a, r)'
  <1>1. TypeOK /\ Working(thr[t]) /\ thr[t] \in ThreadStates
    BY DEF IInv, Busy, TypeOK
  <1>2. r \in agvResources'[a]
    BY <1>1 DEF Register, TypeOK, Entitled
  <1>3. /\ thr'[t].pc \notin {"del", "unregister"}
        /\ \A u \in Threads : u # t => thr'[u] = thr[u]
    BY <1>1 DEF Register, Advance, IdleThread, Calling, TypeOK, ThreadStates
  <1>4. QED
    BY <1>2, <1>3 DEF Entitled, Releasing, Target

LEMMA StepImplements ==
    ASSUME Disciplined, IInv, IInv', [Next]_vars
    PROVE  [Table!Next]_User
  <1>1. LeaseHeld /\ LeaseHeld'
    BY DEF IInv, LeaseCovered, LeaseHeld
  <1>2. \A r \in Resources : /\ User[r] \in Agvs \cup {NoAgv}
                            /\ \A a \in Agvs : User[r] = a <=> Entitled(a, r)
    BY <1>1, UserIsEntitled
  <1>3. \A r \in Resources : /\ User'[r] \in Agvs \cup {NoAgv}
                            /\ \A a \in Agvs : User'[r] = a <=> Entitled(a, r)'
    <2>1. LeaseHeld' => (\A r \in Resources :
                            /\ User[r] \in Agvs \cup {NoAgv}
                            /\ \A a \in Agvs : User[r] = a <=> Entitled(a, r))'
      BY UserIsEntitled, PTL
    <2>2. QED
      BY <1>1, <2>1
  <1>4. User = [r \in Resources |-> User[r]] /\ User' = [r \in Resources |-> User'[r]]
    BY DEF User
  <1>5. CASE \E t \in Threads : Register(t)
    <2>1. PICK t \in Threads : Register(t)
      BY <1>5
    <2> DEFINE b == thr[t].agv
               s == Target(t)
    <2>2. /\ b \in Agvs /\ s \in Resources /\ holder[s] = b
      <3>1. thr[t].pc = "register"
        BY <2>1 DEF Register
      <3>2. QED
        BY <3>1, FreshFacts DEF Fresh
    <2>3. \A r \in Resources, a \in Agvs : Entitled(a, r) => Entitled(a, r)'
      BY <2>1, RegisterKeeps
    <2>4. \A r \in Resources, a \in Agvs :
             Entitled(a, r)' /\ ~Entitled(a, r) => a = b /\ r = s
      <3>1. ASSUME NEW u \in Threads, Register(u) PROVE u = t
        <4>1. thr'[u].pc # "register" /\ thr[u].pc = "register"
          BY <3>1 DEF Register, Advance, IdleThread, Calling, IInv, TypeOK, ThreadStates
        <4>2. u # t => thr'[u] = thr[u]
          BY <2>1 DEF Register, IInv, TypeOK
        <4>3. QED
          BY <4>1, <4>2
      <3>2. QED
        BY <3>1, OnlyRegisterEntitles
    <2>5. User[s] \in {NoAgv, b}
      BY <1>1, <1>2, <2>2 DEF LeaseHeld
    <2>6. \A r \in Resources : r # s => User'[r] = User[r]
      BY <1>2, <1>3, <2>3, <2>4
    <2>7. QED
      BY <1>2, <1>3, <1>4, <2>2, <2>3, <2>4, <2>5, <2>6 DEF Table!Next, Table!Grant
  <1>6. CASE ~\E t \in Threads : Register(t)
    <2>1. \A r \in Resources, a \in Agvs : Entitled(a, r)' => Entitled(a, r)
      BY <1>6, OnlyRegisterEntitles
    <2>2. \A r \in Resources : User'[r] \in {User[r], NoAgv}
      BY <1>2, <1>3, <2>1
    <2> DEFINE S == {r \in Resources : User'[r] # User[r]}
    <2>3. User' = [r \in Resources |-> IF r \in S THEN NoAgv ELSE User[r]]
      BY <1>4, <2>2
    <2>4. Table!GiveBack(S) /\ S \in SUBSET Resources
      BY <2>3 DEF Table!GiveBack
    <2>5. QED
      BY <2>4 DEF Table!Next
  <1>7. QED
    BY <1>5, <1>6

\* Nodes and edges pass from AGV to AGV as LeaseTable promises: nobody is
\* entitled to one while the registry keeps another AGV's entry for it.
THEOREM LeasesImplementTable == ASSUME Disciplined PROVE Spec => ImplementsLeaseTable
  <1>1. Init => Table!Init
    BY DEF Init, Table!Init, User, Entitled
  <1>2. IInv /\ IInv' /\ [Next]_vars => [Table!Next]_User
    BY StepImplements
  <1>3. QED
    BY <1>1, <1>2, InitInv, NextInv, PTL DEF Spec, Table!Spec, ImplementsLeaseTable

-----------------------------------------------------------------------------
(* How a lease ends *)

\* What a step takes out of the registry without a release.
LEMMA EntryLeaves ==
    ASSUME ~Restarts, [Next]_vars, NEW a \in Agvs, NEW r \in Resources, TypeOK,
           Entitled(a, r), r \notin agvResources'[a]
    PROVE  BeginsToGiveBack(a, r) \/ (renew.pc = "drop" /\ <<a, r>> \in renew.cur)
  <1>1. r \in agvResources[a] /\ ~Releasing(a, r)
    BY DEF Entitled
  <1>2. agvResources' # agvResources
    BY <1>1
  <1>3. CASE \E t \in Threads, b \in Agvs : Call(t, b)
    <2>1. PICK t \in Threads, b \in Agvs : Call(t, b)
      BY <1>3
    <2>2. StartReleaseAll(t, b)
      BY <1>2, <2>1 DEF Call, StartLock, StartRelease
    <2>3. b = a
      BY <1>1, <2>2 DEF StartReleaseAll, TypeOK
    <2>4. /\ thr[t].pc = "idle"
          /\ thr'[t] = Calling("batch", "releaseAll", a, <<>>, agvResources[a])
      BY <2>2, <2>3 DEF StartReleaseAll, MayCall, TypeOK
    <2>5. QED
      BY <1>1, <2>4 DEF BeginsToGiveBack, Calling
  <1>4. CASE \E t \in Threads : ThreadStep(t)
    <2>1. PICK t \in Threads : ThreadStep(t)
      BY <1>4
    <2>2. Register(t) \/ Unregister(t)
      BY <1>2, <2>1 DEF ThreadStep, SetIfAbsent, SetRefused, AskHolder, ReleaseGet,
                       ReleaseDelete, BatchGet, BatchDelete
    <2>3. ~Register(t)
      BY <1>1 DEF Register, TypeOK
    <2>4. Unregister(t)
      BY <2>2, <2>3
    <2>5. thr[t].agv = a /\ Target(t) = r
      BY <1>1, <2>4 DEF Unregister, TypeOK
    <2>6. QED
      BY <1>1, <2>4, <2>5 DEF Unregister, Releasing
  <1>5. CASE RenewStep
    <2>1. PICK p \in Pairs : RenewDrop(p)
      BY <1>2, <1>5 DEF RenewStep, RenewStart, RenewGet, RenewSkip, RenewExpire, RenewEnd
    <2>2. p[1] = a /\ p[2] = r
      BY <1>1, <2>1 DEF RenewDrop, TypeOK
    <2>3. p = <<a, r>>
      BY <2>2 DEF Pairs
    <2>4. QED
      BY <2>1, <2>3 DEF RenewDrop
  <1>6. CASE (\E t \in Threads : CallFails(t)) \/ RenewFails \/ Tick \/ Crash \/ UNCHANGED vars
    BY <1>2, <1>6 DEF CallFails, RenewFails, Tick, Crash, vars
  <1>7. QED
    BY <1>3, <1>4, <1>5, <1>6 DEF Next

\* Unless the dispatcher is restarted, an AGV stays entitled to a resource it
\* has locked until a call of its own begins to give this resource back; only
\* the removal of an entry that was registered anew goes around that.
THEOREM LeasesEnd == ASSUME ~Restarts PROVE Spec => LeaseEnds
  <1> DEFINE Ends(a, r) ==
        Entitled(a, r) /\ ~Entitled(a, r)'
          => BeginsToGiveBack(a, r) \/ (renew.pc = "drop" /\ <<a, r>> \in renew.cur)
  <1>1. TypeOK /\ [Next]_vars => \A a \in Agvs, r \in Resources : Ends(a, r)
    <2> SUFFICES ASSUME TypeOK, [Next]_vars, NEW a \in Agvs, NEW r \in Resources,
                        Entitled(a, r), ~Entitled(a, r)'
                 PROVE  BeginsToGiveBack(a, r) \/ (renew.pc = "drop" /\ <<a, r>> \in renew.cur)
      OBVIOUS
    <2>1. CASE Releasing(a, r)'
      BY <2>1 DEF BeginsToGiveBack
    <2>2. CASE ~Releasing(a, r)'
      <3>1. r \notin agvResources'[a]
        BY <2>2 DEF Entitled
      <3>2. QED
        BY <3>1, EntryLeaves
    <2>3. QED
      BY <2>1, <2>2
  <1>2. TypeOK /\ [Next]_vars => [\A a \in Agvs, r \in Resources : Ends(a, r)]_vars
    BY <1>1
  <1>3. QED
    BY <1>2, TypeCorrect, PTL DEF Spec, LeaseEnds

-----------------------------------------------------------------------------
(* A lock call that gives up leaves nothing locked *)

Gone(a, r) == holder[r] # a /\ r \notin agvResources[a]

\* A call that gives back what it had locked.
GivingBack(x) == x.op \in {"path", "detail"} /\ x.pc \in {"get", "del", "unregister"}

\* Each resource the call had locked is gone or still to be released, and one
\* that is about to leave the registry has no key of this AGV any more.
BackOrDue(x) ==
    /\ \A i \in DOMAIN x.locked :
          \/ Gone(x.agv, x.locked[i])
          \/ \E j \in DOMAIN x.todo : x.todo[j] = x.locked[i]
    /\ x.pc = "unregister" => holder[Head(x.todo)] # x.agv

RolledBack == \A t \in Threads : GivingBack(thr[t]) => BackOrDue(thr[t])

RInv == TypeOK /\ Busy /\ OneCallPerAgv /\ RolledBack

\* While a thread releases for an AGV, nothing becomes locked for that AGV.
LEMMA NothingGained ==
    ASSUME TypeOK, Busy, OneCallPerAgv, [Next]_vars, NEW t \in Threads,
           thr[t].pc \in {"get", "del", "unregister"}, NEW r \in Resources
    PROVE  /\ thr[t].agv \in Agvs
           /\ holder[r] # thr[t].agv => holder'[r] # thr[t].agv
           /\ r \notin agvResources[thr[t].agv] => r \notin agvResources'[thr[t].agv]
  <1> DEFINE a == thr[t].agv
             Keeps == /\ holder[r] # a => holder'[r] # a
                      /\ r \notin agvResources[a] => r \notin agvResources'[a]
  <1>1. a \in Agvs /\ a # NoAgv /\ a \in Agvs \cup {NoAgv}
    BY DEF TypeOK, ThreadStates, Busy, Working
  <1> SUFFICES Keeps
    BY <1>1
  <1>2. CASE UNCHANGED <<holder, agvResources>>
    BY <1>2
  <1>3. ASSUME NEW u \in Threads, NEW b \in Agvs, Call(u, b) PROVE Keeps
    BY <1>1, <1>3 DEF Call, StartLock, StartRelease, StartReleaseAll, TypeOK
  <1>4. ASSUME NEW u \in Threads, ThreadStep(u) \/ CallFails(u) PROVE Keeps
    <2>1. thr[u].pc \in {"setnx", "register"} => thr[u].agv # a
      BY <1>1 DEF OneCallPerAgv
    <2>2. thr[u].pc \notin {"idle", "batch"} => thr[u].agv \in Agvs /\ Target(u) \in Resources
      BY ThreadTypes DEF Busy, Working, ThreadStates
    <2>3. CASE SetIfAbsent(u)
      BY <2>1, <2>2, <2>3 DEF SetIfAbsent, TypeOK
    <2>4. CASE Register(u)
      BY <1>1, <2>1, <2>2, <2>4 DEF Register, TypeOK
    <2>5. CASE ReleaseDelete(u) \/ BatchDelete(u)
      BY <1>1, <2>2, <2>5 DEF ReleaseDelete, BatchDelete, Delete, TypeOK
    <2>6. CASE Unregister(u)
      BY <1>1, <2>2, <2>6 DEF Unregister, TypeOK
    <2>7. CASE CallFails(u)
      <3>1. CASE UNCHANGED holder
        BY <2>7, <3>1 DEF CallFails
      <3>2. CASE thr[u].pc = "setnx" /\ holder' = [holder EXCEPT ![Target(u)] = thr[u].agv]
        BY <2>1, <2>2, <2>7, <3>2 DEF CallFails, TypeOK
      <3>3. CASE thr[u].pc \in {"del", "batchDel"} /\ Delete(Target(u))
        BY <1>1, <2>2, <2>7, <3>3 DEF CallFails, Delete, TypeOK
      <3>4. QED
        BY <2>7, <3>1, <3>2, <3>3 DEF CallFails
    <2>8. CASE SetRefused(u) \/ AskHolder(u) \/ ReleaseGet(u) \/ \E q \in Resources : BatchGet(u, q)
      BY <1>2, <2>8 DEF SetRefused, AskHolder, ReleaseGet, BatchGet
    <2>9. QED
      BY <1>4, <2>3, <2>4, <2>5, <2>6, <2>7, <2>8 DEF ThreadStep
  <1>5. CASE RenewStep
    <2>1. ASSUME NEW p \in Pairs, RenewDrop(p) PROVE Keeps
      BY <1>1, <2>1 DEF RenewDrop, TypeOK, Pairs
    <2>2. ASSUME NEW p \in Pairs, RenewGet(p) \/ RenewSkip(p) \/ RenewExpire(p) PROVE Keeps
      BY <1>2, <2>2 DEF RenewGet, RenewSkip, RenewExpire
    <2>3. CASE RenewStart \/ RenewEnd
      BY <1>2, <2>3 DEF RenewStart, RenewEnd
    <2>4. QED
      BY <1>5, <2>1, <2>2, <2>3 DEF RenewStep
  <1>6. CASE RenewFails \/ UNCHANGED vars
    BY <1>2, <1>6 DEF RenewFails, vars
  <1>7. CASE Tick
    BY <1>1, <1>7 DEF Tick
  <1>8. CASE Crash
    BY <1>1, <1>8 DEF Crash
  <1>9. QED
    BY <1>1, <1>3, <1>4, <1>5, <1>6, <1>7, <1>8 DEF Next

\* What is gone or due stays so while its thread does not move.
LEMMA WaitingRollback ==
    ASSUME TypeOK, Busy, OneCallPerAgv, RolledBack, [Next]_vars,
           NEW t \in Threads, thr'[t] = thr[t], GivingBack(thr[t])
    PROVE  BackOrDue(thr[t])'
  <1> DEFINE x == thr[t]
  <1>1. x \in ThreadStates /\ BackOrDue(x) /\ x.pc \in {"get", "del", "unregister"}
    BY DEF TypeOK, RolledBack, GivingBack
  <1>2. \A i \in DOMAIN x.locked : x.locked[i] \in Resources
    BY <1>1 DEF ThreadStates
  <1>3. Head(x.todo) \in Resources
    BY <1>1, ThreadTypes DEF Target
  <1>4. \A r \in Resources : /\ holder[r] # x.agv => holder'[r] # x.agv
                             /\ r \notin agvResources[x.agv] => r \notin agvResources'[x.agv]
    BY <1>1, NothingGained
  <1>5. ASSUME NEW i \in DOMAIN x.locked, Gone(x.agv, x.locked[i])
        PROVE  holder'[x.locked[i]] # x.agv /\ x.locked[i] \notin agvResources'[x.agv]
    <2>1. PICK r \in Resources : r = x.locked[i]
      BY <1>2
    <2>2. holder[r] # x.agv /\ r \notin agvResources[x.agv]
      BY <1>5, <2>1 DEF Gone
    <2>3. QED
      BY <1>4, <2>1, <2>2
  <1>6. ASSUME x.pc = "unregister" PROVE holder'[Head(x.todo)] # x.agv
    <2>1. holder[Head(x.todo)] # x.agv
      BY <1>1, <1>6 DEF BackOrDue
    <2>2. QED
      BY <1>3, <1>4, <2>1
  <1>7. QED
    BY <1>1, <1>5, <1>6 DEF BackOrDue, Gone

\* A call begins to give back with everything it had locked still to do.
LEMMA UndoDue ==
    ASSUME TypeOK, NEW t \in Threads, GivingBack(Undo(t))
    PROVE  /\ Undo(t).pc = "get" /\ Undo(t).todo = Undo(t).locked
           /\ Undo(t).agv = thr[t].agv
  BY DEF TypeOK, ThreadStates, GivingBack, Undo, IdleThread, Calling

\* The last step of a release takes the resource out of the registry too.
LEMMA UnregisterRollback ==
    ASSUME TypeOK, Busy, OneCallPerAgv, RolledBack, [Next]_vars,
           NEW t \in Threads, Unregister(t), GivingBack(thr[t])
    PROVE  \A i \in DOMAIN thr[t].locked :
              \/ /\ holder'[thr[t].locked[i]] # thr[t].agv
                 /\ thr[t].locked[i] \notin agvResources'[thr[t].agv]
              \/ \E j \in DOMAIN Tail(thr[t].todo) : Tail(thr[t].todo)[j] = thr[t].locked[i]
  <1> DEFINE x == thr[t]
  <1>1. /\ x \in ThreadStates /\ BackOrDue(x) /\ x.pc = "unregister"
        /\ x.todo \in Seq(Resources) /\ x.todo # <<>> /\ x.locked \in Seq(Resources)
    BY DEF TypeOK, RolledBack, Unregister, Busy, Working, ThreadStates
  <1>2. \A r \in Resources : /\ holder[r] # x.agv => holder'[r] # x.agv
                             /\ r \notin agvResources[x.agv] => r \notin agvResources'[x.agv]
    BY <1>1, NothingGained
  <1>3. /\ holder'[Head(x.todo)] # x.agv
        /\ Head(x.todo) \notin agvResources'[x.agv]
    <2>1. Head(x.todo) \in Resources /\ x.agv \in Agvs
      BY <1>1, ThreadTypes, NothingGained DEF Target
    <2>2. agvResources'[x.agv] = agvResources[x.agv] \ {Head(x.todo)}
      BY <2>1 DEF Unregister, TypeOK, Target
    <2>3. holder[Head(x.todo)] # x.agv
      BY <1>1 DEF BackOrDue
    <2>4. holder'[Head(x.todo)] # x.agv
      BY <1>2, <2>1, <2>3
    <2>5. QED
      BY <2>2, <2>4
  <1>4. SUFFICES ASSUME NEW i \in DOMAIN x.locked
                 PROVE  \/ /\ holder'[x.locked[i]] # x.agv
                           /\ x.locked[i] \notin agvResources'[x.agv]
                        \/ \E j \in DOMAIN Tail(x.todo) : Tail(x.todo)[j] = x.locked[i]
    OBVIOUS
  <1>5. CASE Gone(x.agv, x.locked[i])
    <2>1. x.locked[i] \in Resources
      BY <1>1
    <2>2. PICK r \in Resources : r = x.locked[i]
      BY <2>1
    <2>3. holder[r] # x.agv /\ r \notin agvResources[x.agv]
      BY <1>5, <2>2 DEF Gone
    <2>4. QED
      BY <1>2, <2>2, <2>3
  <1>6. ASSUME NEW j \in DOMAIN x.todo, x.todo[j] = x.locked[i]
        PROVE  \/ x.locked[i] = Head(x.todo)
               \/ \E k \in DOMAIN Tail(x.todo) : Tail(x.todo)[k] = x.locked[i]
    <2>1. CASE j = 1
      BY <1>1, <1>6, <2>1
    <2>2. CASE j # 1
      <3>1. j - 1 \in DOMAIN Tail(x.todo) /\ Tail(x.todo)[j - 1] = x.todo[j]
        BY <1>1, <2>2
      <3>2. QED
        BY <1>6, <3>1
    <2>3. QED
      BY <2>1, <2>2
  <1>7. QED
    BY <1>1, <1>3, <1>5, <1>6 DEF BackOrDue

\* Every step of a thread keeps its own rollback complete.
LEMMA ThreadRollback ==
    ASSUME TypeOK, Busy, OneCallPerAgv, RolledBack, [Next]_vars,
           NEW t \in Threads, ThreadStep(t) \/ CallFails(t), GivingBack(thr[t])'
    PROVE  BackOrDue(thr[t])'
  <1> DEFINE x == thr[t]
             y == thr'[t]
  <1>1. x \in ThreadStates
    BY DEF TypeOK
  <1>2. ASSUME thr' = [thr EXCEPT ![t] = Undo(t)] PROVE BackOrDue(x)'
    <2>1. y = Undo(t)
      BY <1>2 DEF TypeOK
    <2>2. y.pc = "get" /\ y.todo = y.locked
      BY <2>1, UndoDue DEF GivingBack
    <2>3. QED
      BY <2>2 DEF BackOrDue
  <1>3. CASE SetIfAbsent(t)
    <2>1. y.pc = "register"
      BY <1>1, <1>3 DEF SetIfAbsent, TypeOK, ThreadStates
    <2>2. QED
      BY <2>1 DEF GivingBack
  <1>4. CASE SetRefused(t)
    <2>1. CASE x.op = "path"
      BY <1>2, <1>4, <2>1 DEF SetRefused
    <2>2. CASE x.op # "path"
      <3>1. y.pc = "holder"
        BY <1>1, <1>4, <2>2 DEF SetRefused, TypeOK, ThreadStates
      <3>2. QED
        BY <3>1 DEF GivingBack
    <2>3. QED
      BY <2>1, <2>2
  <1>5. CASE Register(t)
    <2>1. y.pc \in {"idle", "setnx"}
      BY <1>1, <1>5 DEF Register, TypeOK, ThreadStates, Advance, IdleThread, Calling
    <2>2. QED
      BY <2>1 DEF GivingBack
  <1>6. CASE AskHolder(t)
    <2>1. CASE y = IdleThread
      BY <2>1 DEF GivingBack, IdleThread, Calling
    <2>2. CASE y # IdleThread
      BY <1>2, <1>6, <2>2 DEF AskHolder, TypeOK
    <2>3. QED
      BY <2>1, <2>2
  <1>7. CASE ReleaseGet(t)
    <2> DEFINE pc == IF Mine(t, Target(t)) THEN "del" ELSE "unregister"
    <2>1. /\ y.pc = pc /\ y.op = x.op /\ y.agv = x.agv /\ y.todo = x.todo /\ y.locked = x.locked
          /\ x.pc = "get" /\ UNCHANGED <<holder, agvResources>>
      BY <1>1, <1>7 DEF ReleaseGet, TypeOK, ThreadStates
    <2>2. BackOrDue(x)
      BY <2>1 DEF RolledBack, GivingBack
    <2>3. y.pc = "unregister" => holder[Head(x.todo)] # x.agv
      BY <2>1 DEF Mine, Target
    <2>4. QED
      BY <2>1, <2>2, <2>3 DEF BackOrDue, Gone
  <1>8. CASE ReleaseDelete(t)
    <2>1. /\ y.pc = "unregister" /\ y.op = x.op /\ y.agv = x.agv /\ y.todo = x.todo
          /\ y.locked = x.locked /\ x.pc = "del" /\ UNCHANGED agvResources
      BY <1>1, <1>8 DEF ReleaseDelete, TypeOK, ThreadStates
    <2>2. BackOrDue(x) /\ x.agv \in Agvs /\ Head(x.todo) \in Resources
      BY <1>1, <2>1, ThreadTypes DEF RolledBack, GivingBack, Busy, Working, ThreadStates, Target
    <2>3. holder' = [holder EXCEPT ![Head(x.todo)] = NoAgv]
      BY <1>8 DEF ReleaseDelete, Delete, Target
    <2>4. holder'[Head(x.todo)] # x.agv /\ \A r \in Resources : holder[r] # x.agv => holder'[r] # x.agv
      BY <2>2, <2>3 DEF TypeOK
    <2>5. \A i \in DOMAIN x.locked : x.locked[i] \in Resources
      BY <1>1 DEF ThreadStates
    <2>6. QED
      BY <2>1, <2>2, <2>4, <2>5 DEF BackOrDue, Gone
  <1>9. CASE Unregister(t)
    <2>1. CASE Tail(x.todo) = <<>>
      BY <1>9, <2>1 DEF Unregister, Advance, TypeOK, IdleThread, Calling, GivingBack
    <2>2. CASE Tail(x.todo) # <<>>
      <3>1. /\ y.pc = "get" /\ y.op = x.op /\ y.agv = x.agv /\ y.todo = Tail(x.todo)
            /\ y.locked = x.locked /\ x.pc = "unregister"
        BY <1>1, <1>9, <2>2 DEF Unregister, Advance, TypeOK, ThreadStates
      <3>2. GivingBack(x)
        BY <3>1 DEF GivingBack
      <3>3. QED
        BY <1>9, <3>1, <3>2, UnregisterRollback DEF BackOrDue, Gone
    <2>3. QED
      BY <2>1, <2>2
  <1>10. CASE BatchDelete(t) \/ \E r \in Resources : BatchGet(t, r)
    <2>1. \A r : BatchNext(t, r).pc \in {"idle", "batch"}
      BY <1>1 DEF BatchNext, IdleThread, Calling, ThreadStates
    <2>2. CASE BatchDelete(t)
      BY <2>1, <2>2 DEF BatchDelete, TypeOK, GivingBack
    <2>3. ASSUME NEW r \in Resources, BatchGet(t, r) PROVE BackOrDue(x)'
      <3>1. CASE Mine(t, r)
        BY <1>1, <2>3, <3>1 DEF BatchGet, TypeOK, ThreadStates, GivingBack
      <3>2. CASE ~Mine(t, r)
        BY <2>1, <2>3, <3>2 DEF BatchGet, TypeOK, GivingBack
      <3>3. QED
        BY <3>1, <3>2
    <2>4. QED
      BY <1>10, <2>2, <2>3
  <1>11. CASE CallFails(t)
    BY <1>11 DEF CallFails, TypeOK, IdleThread, Calling, GivingBack
  <1>12. QED
    BY <1>3, <1>4, <1>5, <1>6, <1>7, <1>8, <1>9, <1>10, <1>11 DEF ThreadStep

LEMMA NextRolledBack ==
    ASSUME TypeOK, Busy, OneCallPerAgv, RolledBack, [Next]_vars
    PROVE  RolledBack'
  <1> SUFFICES ASSUME NEW t \in Threads, GivingBack(thr[t])' PROVE BackOrDue(thr[t])'
    BY DEF RolledBack
  <1>1. CASE thr'[t] = thr[t]
    <2>1. GivingBack(thr[t])
      BY <1>1 DEF GivingBack
    <2>2. QED
      BY <1>1, <2>1, WaitingRollback
  <1>2. ASSUME NEW u \in Threads, NEW a \in Agvs, Call(u, a), thr'[t] # thr[t] PROVE FALSE
    BY <1>2 DEF Call, StartLock, StartRelease, StartReleaseAll, TypeOK, Calling, GivingBack
  <1>3. ASSUME NEW u \in Threads, ThreadStep(u) \/ CallFails(u), thr'[t] # thr[t]
        PROVE  BackOrDue(thr[t])'
    <2>1. u = t
      BY <1>3, AgvStays
    <2>2. QED
      BY <1>3, <2>1, ThreadRollback
  <1>4. CASE Crash
    BY <1>4 DEF Crash, IdleThread, Calling, GivingBack
  <1>5. CASE RenewStep \/ RenewFails \/ Tick \/ UNCHANGED vars
    BY <1>1, <1>5, RenewKeepsThreads DEF RenewFails, Tick, vars
  <1>6. QED
    BY <1>1, <1>2, <1>3, <1>4, <1>5 DEF Next

\* The step with which a lock call that gives up returns.
LEMMA RollbackEnds ==
    ASSUME ~Restarts, RInv, [Next]_vars, NEW t \in Threads,
           thr[t].op \in {"path", "detail"}, thr[t].pc = "unregister", thr'[t].pc = "idle"
    PROVE  \A i \in DOMAIN thr[t].locked : /\ holder'[thr[t].locked[i]] # thr[t].agv
                                           /\ thr[t].locked[i] \notin agvResources'[thr[t].agv]
  <1>1. TypeOK /\ Busy /\ OneCallPerAgv /\ RolledBack /\ GivingBack(thr[t]) /\ thr'[t] # thr[t]
    BY DEF RInv, GivingBack
  <1>2. ~Crash
    BY DEF Crash
  <1>3. ASSUME NEW u \in Threads, NEW a \in Agvs, Call(u, a) PROVE FALSE
    BY <1>1, <1>3 DEF Call, StartLock, StartRelease, StartReleaseAll, MayCall, TypeOK
  <1>4. ~RenewStep /\ ~RenewFails /\ ~Tick /\ ~UNCHANGED vars
    BY <1>1, RenewKeepsThreads DEF RenewFails, Tick, vars
  <1>5. PICK u \in Threads : ThreadStep(u) \/ CallFails(u)
    BY <1>2, <1>3, <1>4 DEF Next
  <1>6. u = t
    BY <1>1, <1>5, AgvStays
  <1>7. Unregister(t)
    BY <1>5, <1>6 DEF ThreadStep, CallFails, SetIfAbsent, SetRefused, Register, AskHolder,
                      ReleaseGet, ReleaseDelete, BatchGet, BatchDelete
  <1>8. Tail(thr[t].todo) = <<>>
    BY <1>1, <1>7 DEF Unregister, Advance, TypeOK, ThreadStates
  <1>9. QED
    BY <1>1, <1>7, <1>8, UnregisterRollback

\* When a lock call gives up and returns, its AGV holds none of the resources
\* the call had locked, neither as a key nor in the registry: also when Redis
\* answers late, commands fail or leases run out during the rollback.
THEOREM RollsBack == ASSUME Serialized, ~Restarts PROVE Spec => RollbackComplete
  <1>1. Init => RInv
    <2>1. Init => TypeOK
      BY InitType
    <2>2. Init => Busy /\ OneCallPerAgv /\ RolledBack
      BY DEF Init, Busy, Working, OneCallPerAgv, RolledBack, GivingBack, IdleThread, Calling
    <2>3. QED
      BY <2>1, <2>2 DEF RInv
  <1>2. RInv /\ [Next]_vars => RInv'
    BY NextType, NextBusy, NextOneCall, NextRolledBack DEF RInv
  <1>3. RInv /\ [Next]_vars =>
          [\A t \in Threads :
             (thr[t].op \in {"path", "detail"} /\ thr[t].pc = "unregister" /\ thr'[t].pc = "idle")
               => \A i \in DOMAIN thr[t].locked :
                     /\ holder'[thr[t].locked[i]] # thr[t].agv
                     /\ thr[t].locked[i] \notin agvResources'[thr[t].agv]]_vars
    BY RollbackEnds
  <1>4. QED
    BY <1>1, <1>2, <1>3, PTL DEF Spec, RollbackComplete
=============================================================================
