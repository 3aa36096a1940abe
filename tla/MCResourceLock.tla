--------------------------- MODULE MCResourceLock ---------------------------
(* Instances of ResourceLock for TLC. *)
EXTENDS ResourceLockProofs, SequencesExt, TLC

\* Every order of every set of resources.
AllPaths == SetToAllKPermutations(Resources)

\* Every order of all resources.
CrossPaths == {list \in AllPaths : Len(list) = Cardinality(Resources)}

Symmetry == Permutations(Agvs) \cup Permutations(Resources) \cup Permutations(Threads)
=============================================================================
