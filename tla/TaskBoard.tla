----------------------------- MODULE TaskBoard -----------------------------
(***************************************************************************)
(* What the dispatcher promises about tasks: an AGV works on one task at a *)
(* time, a task is given out once, ends once, and its AGV is free for the  *)
(* next one only when the task has ended.                                  *)
(***************************************************************************)
CONSTANTS Agvs, TaskIds, NoTask, Ends

VARIABLES
    phase,   \* "new", "open", or how the task ended
    busy     \* the task of each AGV

Init ==
    /\ phase = [t \in TaskIds |-> "new"]
    /\ busy = [a \in Agvs |-> NoTask]

Assign(a, t) ==
    /\ phase[t] = "new"
    /\ busy[a] = NoTask
    /\ phase' = [phase EXCEPT ![t] = "open"]
    /\ busy' = [busy EXCEPT ![a] = t]

\* The task of an AGV ends; the AGV may be free at once or later.
End(a, e) ==
    /\ busy[a] # NoTask
    /\ phase[busy[a]] = "open"
    /\ phase' = [phase EXCEPT ![busy[a]] = e]
    /\ busy' \in {busy, [busy EXCEPT ![a] = NoTask]}

Free(a) ==
    /\ busy[a] # NoTask
    /\ phase[busy[a]] \in Ends
    /\ busy' = [busy EXCEPT ![a] = NoTask]
    /\ UNCHANGED phase

Next ==
    \E a \in Agvs : \/ \E t \in TaskIds : Assign(a, t)
                    \/ \E e \in Ends : End(a, e)
                    \/ Free(a)

Spec == Init /\ [][Next]_<<phase, busy>>
=============================================================================
