-------------------------- MODULE MCOrderExecution --------------------------
(* Instances of OrderExecution for TLC. *)
EXTENDS OrderExecution, TLC

CONSTANTS o1, o2, charge, a, b, c

\* The second order starts where the first one ends, and passes it again.
\* The charging station is at c.
TwoRoutes == (o1 :> <<a, b>>) @@ (o2 :> <<b, a>>) @@ (charge :> <<b, c>>)
OneRoute == (o1 :> <<a, b, c>>) @@ (charge :> <<b, c>>)

OneAction == [o \in Orders |-> 1]

Symmetry == Permutations(Threads)
=============================================================================
