----------------------------- MODULE LeaseTable -----------------------------
(***************************************************************************)
(* What the resource locks promise to the AGVs: a node or an edge has at   *)
(* most one user, and passes from one user to the next only by being given *)
(* back in between.                                                        *)
(***************************************************************************)
CONSTANTS Agvs, Resources, NoAgv

VARIABLE user

Init == user = [r \in Resources |-> NoAgv]

\* A free resource is granted to an AGV.
Grant(a, r) ==
    /\ user[r] = NoAgv
    /\ user' = [user EXCEPT ![r] = a]

\* Resources are given back, or their entitlement is lost, any number at once.
GiveBack(S) ==
    user' = [r \in Resources |-> IF r \in S THEN NoAgv ELSE user[r]]

Next ==
    \/ \E a \in Agvs, r \in Resources : Grant(a, r)
    \/ \E S \in SUBSET Resources : GiveBack(S)

Spec == Init /\ [][Next]_user
=============================================================================
