---------------------------- MODULE MCPathWindow ----------------------------
(* Instances of PathWindow for TLC: two routes that cross in one node, and the *)
(* rest of the first one, for an AGV that has come half the way.               *)
EXTENDS PathWindow, TLC

CONSTANTS a1, a2, there, again, across, P, Q, R, S, U, PQ, QR, SR, RU

Routes ==
    (there :> <<P, PQ, Q, QR, R>>) @@ (again :> <<Q, QR, R>>) @@ (across :> <<S, SR, R, RU, U>>)
Homes == [a \in Agvs |-> IF a = a1 THEN P ELSE S]
=============================================================================
