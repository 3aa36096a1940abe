---------------------------- MODULE ResourceLock ----------------------------
(***************************************************************************)
(* RedisResourceLockService of the dispatcher: nodes and edges of the map  *)
(* are locked by one AGV at a time as Redis keys with a time to live, and  *)
(* an in-memory registry tells a scheduled task which keys to keep alive.  *)
(*                                                                         *)
(* One step is one Redis command or one access to the registry: the HTTP   *)
(* threads, the MQTT callback thread, the per-AGV position threads and the *)
(* renewal task interleave between them.  A resource stands for the pair   *)
(* (resourceId, type), that is for one Redis key.                          *)
(***************************************************************************)
EXTENDS Naturals, Sequences

CONSTANTS
    Agvs,             \* the AGVs
    Resources,        \* the Redis keys "resource_lock:<type>:<id>"
    Threads,          \* the dispatcher's threads that call the service
    NoAgv,            \* no holder (the key does not exist)
    PathLists,        \* the lists callers ask to lock
    LockExpire,       \* LOCK_EXPIRE_SECONDS, in ticks
    RenewalInterval,  \* RENEWAL_INTERVAL_SECONDS, in ticks
    PassBound,        \* ticks within which a due renewal pass is over
    Serialized,       \* TRUE: one call at a time for an AGV
    Prompt,           \* TRUE: a thread needs less than a tick from a Redis
                      \* answer to the step that uses it
    Restarts,         \* TRUE: the dispatcher's process may die and start again
    Faults            \* TRUE: Redis commands may fail with an exception

ASSUME NoAgvAssumption == NoAgv \notin Agvs
ASSUME PathListsAssumption == PathLists \subseteq Seq(Resources)
ASSUME TimesAssumption ==
    /\ LockExpire \in Nat \ {0}
    /\ RenewalInterval \in Nat
    /\ PassBound \in Nat
ASSUME SwitchAssumption ==
    /\ Serialized \in BOOLEAN
    /\ Prompt \in BOOLEAN
    /\ Restarts \in BOOLEAN
    /\ Faults \in BOOLEAN

VARIABLES
    holder,        \* the value of each Redis key
    ttl,           \* its remaining time to live, 0 when it does not exist
    agvResources,  \* the registry: the resources of each AGV to renew
    thr,           \* what each calling thread is doing
    renew          \* what the renewal task is doing

vars == <<holder, ttl, agvResources, thr, renew>>

-----------------------------------------------------------------------------
Pairs == Agvs \X Resources

ThreadPcs == {"idle", "setnx", "register", "holder", "get", "del", "unregister",
              "batch", "batchDel"}

\* todo: resources still to lock or to release, in order; locked: those this
\* call has taken; pending: those a releaseAllByAgv has still to look at.
ThreadStates ==
    [pc : ThreadPcs, op : {"none", "path", "detail", "release", "releaseAll"},
     agv : Agvs \cup {NoAgv}, todo : Seq(Resources), locked : Seq(Resources),
     pending : SUBSET Resources]

RenewStates ==
    [pc : {"wait", "pass", "expire", "drop"}, timer : Nat,
     todo : SUBSET Pairs, seen : SUBSET Pairs, cur : SUBSET Pairs]

TypeOK ==
    /\ holder \in [Resources -> Agvs \cup {NoAgv}]
    /\ ttl \in [Resources -> 0..LockExpire]
    /\ agvResources \in [Agvs -> SUBSET Resources]
    /\ thr \in [Threads -> ThreadStates]
    /\ renew \in RenewStates

\* A thread at the start of a call.
Calling(pc, op, a, list, S) ==
    [pc |-> pc, op |-> op, agv |-> a, todo |-> list, locked |-> <<>>, pending |-> S]

IdleThread == Calling("idle", "none", NoAgv, <<>>, {})

\* A pass is due at once: @Scheduled(fixedDelay) without an initial delay.
RenewDue == [pc |-> "wait", timer |-> RenewalInterval,
             todo |-> {}, seen |-> {}, cur |-> {}]

Init ==
    /\ holder = [r \in Resources |-> NoAgv]
    /\ ttl = [r \in Resources |-> 0]
    /\ agvResources = [a \in Agvs |-> {}]
    /\ thr = [t \in Threads |-> IdleThread]
    /\ renew = RenewDue

-----------------------------------------------------------------------------
(* Redis commands and registry accesses *)

Mine(t, r) == holder[r] = thr[t].agv
Target(t) == Head(thr[t].todo)

\* DEL key
Delete(r) ==
    /\ holder' = [holder EXCEPT ![r] = NoAgv]
    /\ ttl' = [ttl EXCEPT ![r] = 0]

\* The next state of a thread that has dealt with the first of its list: it
\* goes on at pc with the rest, or returns.
Advance(t, pc) ==
    IF Tail(thr[t].todo) = <<>> THEN IdleThread
    ELSE [thr[t] EXCEPT !.pc = pc, !.todo = Tail(@)]

\* Mutant: The rollback forgets the keys and clears the registry only.
UndoRegistry(t) ==
    IF thr[t].locked = <<>> THEN IdleThread
    ELSE [thr[t] EXCEPT !.pc = "unregister", !.todo = thr[t].locked]

\* Releasing, in order, what this call has locked before it returns false.
Undo(t) ==
    IF thr[t].locked = <<>> THEN IdleThread
    ELSE [thr[t] EXCEPT !.pc = "get", !.todo = thr[t].locked]

-----------------------------------------------------------------------------
(* The calls *)

\* Serialized is an assumption about the callers: the service itself does not
\* keep the calls of an AGV apart.
MayCall(t, a) ==
    /\ thr[t].pc = "idle"
    /\ Serialized => \A u \in Threads : thr[u].agv # a

\* tryLockPath ("path") and tryLockPathWithDetail ("detail") of a list.
StartLock(t, a, op, list) ==
    /\ MayCall(t, a)
    /\ list # <<>>        \* the empty list is locked without a step
    /\ thr' = [thr EXCEPT ![t] = Calling("setnx", op, a, list, {})]
    /\ UNCHANGED <<holder, ttl, agvResources, renew>>

\* releaseResource of one resource.
StartRelease(t, a, r) ==
    /\ MayCall(t, a)
    /\ thr' = [thr EXCEPT ![t] = Calling("get", "release", a, <<r>>, {})]
    /\ UNCHANGED <<holder, ttl, agvResources, renew>>

\* What a renewal pass still does to a set that was taken out of the registry
\* is of no consequence to it: the visits of that set end here, except for the
\* EXPIRE that may be about to be sent.
Detached(a) ==
    IF renew.pc = "drop" /\ \E p \in renew.cur : p[1] = a
    THEN [renew EXCEPT !.pc = "pass", !.todo = {p \in @ : p[1] # a},
                       !.seen = @ \cup renew.cur, !.cur = {}]
    ELSE [renew EXCEPT !.todo = {p \in @ : p[1] # a}]

\* releaseAllByAgv first takes the AGV's set out of the registry.
StartReleaseAll(t, a) ==
    /\ MayCall(t, a)
    /\ agvResources[a] # {}
    /\ thr' = [thr EXCEPT ![t] = Calling("batch", "releaseAll", a, <<>>, agvResources[a])]
    /\ agvResources' = [agvResources EXCEPT ![a] = {}]
    /\ renew' = Detached(a)
    /\ UNCHANGED <<holder, ttl>>

\* Mutant: SET without NX.
SetAlways(t) ==
    /\ thr[t].pc = "setnx"
    /\ holder' = [holder EXCEPT ![Target(t)] = thr[t].agv]
    /\ ttl' = [ttl EXCEPT ![Target(t)] = LockExpire]
    /\ thr' = [thr EXCEPT ![t].pc = "register"]
    /\ UNCHANGED <<agvResources, renew>>

\* tryLockResource: SET key agv NX EX.
SetIfAbsent(t) ==
    /\ thr[t].pc = "setnx"
    /\ holder[Target(t)] = NoAgv
    /\ holder' = [holder EXCEPT ![Target(t)] = thr[t].agv]
    /\ ttl' = [ttl EXCEPT ![Target(t)] = LockExpire]
    /\ thr' = [thr EXCEPT ![t].pc = "register"]
    /\ UNCHANGED <<agvResources, renew>>

\* tryLockResource fails: tryLockPath rolls back, tryLockPathWithDetail asks
\* for the holder first.
SetRefused(t) ==
    /\ thr[t].pc = "setnx"
    /\ holder[Target(t)] # NoAgv
    /\ thr' = [thr EXCEPT ![t] = IF thr[t].op = "path" THEN Undo(t)
                                 ELSE [@ EXCEPT !.pc = "holder"]]
    /\ UNCHANGED <<holder, ttl, agvResources, renew>>

\* tryLockResource adds the locked resource to the registry.  A renewal pass
\* that is under way may or may not come across the new entry, once at most.
Register(t) ==
    /\ thr[t].pc = "register"
    /\ agvResources' = [agvResources EXCEPT ![thr[t].agv] = @ \cup {Target(t)}]
    /\ thr' = [thr EXCEPT ![t] = LET u == Advance(t, "setnx")
                                 IN IF u.pc = "idle" THEN u
                                    ELSE [u EXCEPT !.locked = Append(@, Target(t))]]
    /\ \/ renew' = renew
       \/ /\ renew.pc # "wait"
          /\ <<thr[t].agv, Target(t)>> \notin renew.seen
          /\ renew' = [renew EXCEPT !.todo = @ \cup {<<thr[t].agv, Target(t)>>}]
    /\ UNCHANGED <<holder, ttl>>

\* tryLockPathWithDetail: another AGV holds the resource, so roll back; if it
\* is this AGV's own, or gone meanwhile, the call succeeds with what it has.
AskHolder(t) ==
    /\ thr[t].pc = "holder"
    /\ thr' = [thr EXCEPT ![t] = IF holder[Target(t)] \in {NoAgv, thr[t].agv}
                                 THEN IdleThread ELSE Undo(t)]
    /\ UNCHANGED <<holder, ttl, agvResources, renew>>

\* Mutant: The key is deleted without asking whose it is.
ReleaseGetUnchecked(t) ==
    /\ thr[t].pc = "get"
    /\ thr' = [thr EXCEPT ![t].pc = "del"]
    /\ UNCHANGED <<holder, ttl, agvResources, renew>>

\* releaseResource: GET key, and whether the answer is this AGV.
ReleaseGet(t) ==
    /\ thr[t].pc = "get"
    /\ thr' = [thr EXCEPT ![t].pc = IF Mine(t, Target(t)) THEN "del" ELSE "unregister"]
    /\ UNCHANGED <<holder, ttl, agvResources, renew>>

\* releaseResource: DEL key, whoever holds it by now.
ReleaseDelete(t) ==
    /\ thr[t].pc = "del"
    /\ Delete(Target(t))
    /\ thr' = [thr EXCEPT ![t].pc = "unregister"]
    /\ UNCHANGED <<agvResources, renew>>

\* Mutant: releaseResource takes the AGV's whole set out of the registry.
UnregisterSet(t) ==
    /\ thr[t].pc = "unregister"
    /\ agvResources' = [agvResources EXCEPT ![thr[t].agv] = {}]
    /\ thr' = [thr EXCEPT ![t] = Advance(t, "get")]
    /\ UNCHANGED <<holder, ttl, renew>>

\* releaseResource: the registry forgets the resource.
Unregister(t) ==
    /\ thr[t].pc = "unregister"
    /\ agvResources' = [agvResources EXCEPT ![thr[t].agv] = @ \ {Target(t)}]
    /\ thr' = [thr EXCEPT ![t] = Advance(t, "get")]
    /\ UNCHANGED <<holder, ttl, renew>>

\* A thread that is done with r in its releaseAllByAgv.
BatchNext(t, r) ==
    IF thr[t].pending \ {r} = {} THEN IdleThread
    ELSE [thr[t] EXCEPT !.pc = "batch", !.todo = <<>>, !.pending = @ \ {r}]

\* releaseAllByAgv: GET key for one resource of the set.
BatchGet(t, r) ==
    /\ thr[t].pc = "batch"
    /\ r \in thr[t].pending
    /\ thr' = [thr EXCEPT ![t] = IF Mine(t, r)
                                 THEN [@ EXCEPT !.pc = "batchDel", !.todo = <<r>>]
                                 ELSE BatchNext(t, r)]
    /\ UNCHANGED <<holder, ttl, agvResources, renew>>

\* releaseAllByAgv: DEL key.
BatchDelete(t) ==
    /\ thr[t].pc = "batchDel"
    /\ Delete(Target(t))
    /\ thr' = [thr EXCEPT ![t] = BatchNext(t, Target(t))]
    /\ UNCHANGED <<agvResources, renew>>

\* A Redis command of the call throws: the call is over, without rollback.
\* The command itself may have had its effect, the answer got lost.
CallFails(t) ==
    /\ Faults
    /\ \/ /\ thr[t].pc \in {"setnx", "holder", "get", "batch", "del", "batchDel"}
          /\ UNCHANGED <<holder, ttl>>
       \/ /\ thr[t].pc = "setnx"
          /\ holder[Target(t)] = NoAgv
          /\ holder' = [holder EXCEPT ![Target(t)] = thr[t].agv]
          /\ ttl' = [ttl EXCEPT ![Target(t)] = LockExpire]
       \/ /\ thr[t].pc \in {"del", "batchDel"}
          /\ Delete(Target(t))
    /\ thr' = [thr EXCEPT ![t] = IdleThread]
    /\ UNCHANGED <<agvResources, renew>>

-----------------------------------------------------------------------------
(* renewLocks *)

\* Mutant: The pass renews the keys there are, not those of the registry.
RenewStartByKeys ==
    /\ renew.pc = "wait"
    /\ renew.timer = RenewalInterval
    /\ renew' = [pc |-> "pass", timer |-> 0, cur |-> {}, seen |-> {},
                 todo |-> {p \in Pairs : holder[p[2]] = p[1]}]
    /\ UNCHANGED <<holder, ttl, agvResources, thr>>

\* The pass visits every entry of the registry, in no particular order.
RenewStart ==
    /\ renew.pc = "wait"
    /\ renew.timer = RenewalInterval
    /\ renew' = [pc |-> "pass", timer |-> 0, cur |-> {}, seen |-> {},
                 todo |-> {p \in Pairs : p[2] \in agvResources[p[1]]}]
    /\ UNCHANGED <<holder, ttl, agvResources, thr>>

\* GET key: is the entry's AGV still the holder?  (The iterator has fetched
\* the entry before, so it may have left the registry since.)
RenewGet(p) ==
    /\ renew.pc = "pass"
    /\ p \in renew.todo
    /\ renew' = [renew EXCEPT !.pc = IF holder[p[2]] = p[1] THEN "expire" ELSE "drop",
                              !.cur = {p}]
    /\ UNCHANGED <<holder, ttl, agvResources, thr>>

\* The pass is done with p, until it meets it again in the next pass.
RenewNext(p) == [renew EXCEPT !.pc = "pass", !.todo = @ \ {p}, !.seen = @ \cup {p}, !.cur = {}]

\* An entry that left the registry before the iterator reached it.
RenewSkip(p) ==
    /\ renew.pc = "pass"
    /\ p \in renew.todo
    /\ p[2] \notin agvResources[p[1]]
    /\ renew' = RenewNext(p)
    /\ UNCHANGED <<holder, ttl, agvResources, thr>>

\* Mutant: Milliseconds where seconds are due.
RenewExpireMillis(p) ==
    /\ renew.pc = "expire"
    /\ p \in renew.cur
    /\ ttl' = [ttl EXCEPT ![p[2]] = IF holder[p[2]] = NoAgv THEN 0 ELSE LockExpire * 1000]
    /\ renew' = RenewNext(p)
    /\ UNCHANGED <<holder, agvResources, thr>>

\* Mutant: The holder is checked but its key is not refreshed.
RenewExpireForgotten(p) ==
    /\ renew.pc = "expire"
    /\ p \in renew.cur
    /\ renew' = RenewNext(p)
    /\ UNCHANGED <<holder, ttl, agvResources, thr>>

\* EXPIRE key: a new time to live for whoever holds it by now.
RenewExpire(p) ==
    /\ renew.pc = "expire"
    /\ p \in renew.cur
    /\ ttl' = [ttl EXCEPT ![p[2]] = IF holder[p[2]] = NoAgv THEN 0 ELSE LockExpire]
    /\ renew' = RenewNext(p)
    /\ UNCHANGED <<holder, agvResources, thr>>

\* Mutant: removeIf keeps the entries it should drop.
RenewDropForgotten(p) ==
    /\ renew.pc = "drop"
    /\ p \in renew.cur
    /\ renew' = RenewNext(p)
    /\ UNCHANGED <<holder, ttl, agvResources, thr>>

\* removeIf removes the entry, also when it was registered anew meanwhile.
RenewDrop(p) ==
    /\ renew.pc = "drop"
    /\ p \in renew.cur
    /\ agvResources' = [agvResources EXCEPT ![p[1]] = @ \ {p[2]}]
    /\ renew' = RenewNext(p)
    /\ UNCHANGED <<holder, ttl, thr>>

RenewEnd ==
    /\ renew.pc = "pass"
    /\ renew.todo = {}
    /\ renew' = [renew EXCEPT !.pc = "wait", !.timer = 0, !.seen = {}]
    /\ UNCHANGED <<holder, ttl, agvResources, thr>>

\* A Redis command of the pass throws: the rest of the pass is not done.
RenewFails ==
    /\ Faults
    /\ \/ renew.pc = "pass" /\ renew.todo # {}
       \/ renew.pc = "expire"
    /\ renew' = [renew EXCEPT !.pc = "wait", !.timer = 0, !.todo = {}, !.seen = {}, !.cur = {}]
    /\ UNCHANGED <<holder, ttl, agvResources, thr>>

-----------------------------------------------------------------------------
(* Time and restarts *)

\* One tick: keys whose time to live is over are gone.  A due pass starts and
\* ends in time.
Tick ==
    /\ renew.timer < (IF renew.pc = "wait" THEN RenewalInterval ELSE PassBound)
    /\ Prompt => \A t \in Threads : thr[t].pc \notin {"register", "del", "batchDel"}
    /\ ttl' = [r \in Resources |-> IF ttl[r] = 0 THEN 0 ELSE ttl[r] - 1]
    /\ holder' = [r \in Resources |-> IF ttl[r] <= 1 THEN NoAgv ELSE holder[r]]
    /\ renew' = [renew EXCEPT !.timer = @ + 1]
    /\ UNCHANGED <<agvResources, thr>>

\* The dispatcher's process dies and starts again: the registry and the calls
\* are lost, the keys stay in Redis.
Crash ==
    /\ Restarts
    /\ agvResources' = [a \in Agvs |-> {}]
    /\ thr' = [t \in Threads |-> IdleThread]
    /\ renew' = RenewDue
    /\ UNCHANGED <<holder, ttl>>

-----------------------------------------------------------------------------
ThreadStep(t) ==
    \/ SetIfAbsent(t)
    \/ SetRefused(t)
    \/ Register(t)
    \/ AskHolder(t)
    \/ ReleaseGet(t)
    \/ ReleaseDelete(t)
    \/ Unregister(t)
    \/ \E r \in Resources : BatchGet(t, r)
    \/ BatchDelete(t)

Call(t, a) ==
    \/ \E list \in PathLists, op \in {"path", "detail"} : StartLock(t, a, op, list)
    \/ \E r \in Resources : StartRelease(t, a, r)
    \/ StartReleaseAll(t, a)

RenewStep ==
    \/ RenewStart
    \/ \E p \in Pairs : RenewGet(p) \/ RenewSkip(p) \/ RenewExpire(p) \/ RenewDrop(p)
    \/ RenewEnd

Next ==
    \/ \E t \in Threads, a \in Agvs : Call(t, a)
    \/ \E t \in Threads : ThreadStep(t) \/ CallFails(t)
    \/ RenewStep
    \/ RenewFails
    \/ Tick
    \/ Crash

Spec == Init /\ [][Next]_vars

\* Time goes on, Spring's scheduler keeps running the renewal task, and every
\* key of a pass is dealt with eventually (Redis does not fail for ever).
Fairness ==
    /\ SF_vars(Tick)
    /\ WF_vars(RenewStart)
    /\ WF_vars(RenewEnd)
    /\ \A p \in Pairs : /\ SF_vars(RenewGet(p))
                        /\ WF_vars(RenewExpire(p))
                        /\ WF_vars(RenewDrop(p))

FairSpec == Spec /\ Fairness

-----------------------------------------------------------------------------
(* Properties *)

\* A thread has begun to give r back for a: it has seen that a holds r, or it
\* has deleted the key, or it found that a does not hold it.
Releasing(a, r) ==
    \E t \in Threads : /\ thr[t].agv = a
                       /\ thr[t].pc \in {"del", "unregister"}
                       /\ Target(t) = r

\* The AGV that may drive on r as far as the registry knows.
Entitled(a, r) == r \in agvResources[a] /\ ~Releasing(a, r)

\* An entry of the registry is backed by its Redis key.
LeaseHeld == \A a \in Agvs, r \in Resources : Entitled(a, r) => holder[r] = a

\* The ticks until the lease of a on r is sure to have been renewed, plus one:
\* the pass that visits it next may visit it last.
Need(a, r) ==
    IF renew.pc = "wait" THEN (RenewalInterval - renew.timer) + PassBound + 1
    ELSE (PassBound - renew.timer) + 1
         + (IF <<a, r>> \in renew.todo THEN 0 ELSE RenewalInterval + PassBound)

\* A lease has the time to live it needs to last until renewLocks has come
\* round to it again, whatever moment of a pass it was taken or renewed at.
LeaseCovered ==
    \A a \in Agvs, r \in Resources : Entitled(a, r) => holder[r] = a /\ ttl[r] >= Need(a, r)

\* Two AGVs are never entitled to the same node or edge at once, although
\* each reads, deletes, expires and registers in separate steps.
LeaseExclusive ==
    \A a, b \in Agvs, r \in Resources : Entitled(a, r) /\ Entitled(b, r) => a = b

\* The user of each resource as LeaseTable sees it.
User ==
    [r \in Resources |-> IF \E a \in Agvs : Entitled(a, r)
                         THEN CHOOSE a \in Agvs : Entitled(a, r)
                         ELSE NoAgv]

Table == INSTANCE LeaseTable WITH user <- User

\* Nodes and edges change hands as in LeaseTable: nobody gets one while the
\* registry keeps another AGV's entry for it that is not being given back.
\* LeaseEnds says how such an entry may go; LeaseTable takes every way alike.
ImplementsLeaseTable == Table!Spec

\* In this step a thread begins to give r back for a.
BeginsToGiveBack(a, r) ==
    \/ Releasing(a, r)'
    \/ \E t \in Threads : /\ thr[t].pc = "idle" /\ thr'[t].pc = "batch"
                          /\ thr'[t].agv = a /\ r \in thr'[t].pending

\* An AGV that has locked a resource stays entitled to it until a call of its
\* own begins to give this very resource back, whatever it or others lock and
\* release meanwhile.  The one exception is in the code: renewLocks asks for
\* the key of an entry that is just being given back, finds none, and removes
\* the entry only after the AGV has locked the resource again.
LeaseEnds ==
    [][\A a \in Agvs, r \in Resources :
         Entitled(a, r) /\ ~Entitled(a, r)'
           => BeginsToGiveBack(a, r) \/ (renew.pc = "drop" /\ <<a, r>> \in renew.cur)
      ]_vars

\* When a lock call gives up, nothing it had locked is left to its AGV.
RollbackComplete ==
    [][\A t \in Threads :
         (thr[t].op \in {"path", "detail"} /\ thr[t].pc = "unregister" /\ thr'[t].pc = "idle")
           => \A i \in DOMAIN thr[t].locked : /\ holder'[thr[t].locked[i]] # thr[t].agv
                                              /\ thr[t].locked[i] \notin agvResources'[thr[t].agv]
      ]_vars

\* A key that no registry entry keeps alive (its AGV's call failed half way,
\* or the dispatcher was restarted) does not block its resource for ever.
OrphanExpires ==
    \A a \in Agvs, r \in Resources :
        (holder[r] = a /\ r \notin agvResources[a])
            ~> (holder[r] # a \/ r \in agvResources[a])

\* An entry whose key is gone or belongs to another AGV does not stay in the
\* registry for ever.
StaleEntryDropped ==
    \A a \in Agvs, r \in Resources :
        (r \in agvResources[a] /\ holder[r] # a)
            ~> (r \notin agvResources[a] \/ holder[r] = a)
=============================================================================
