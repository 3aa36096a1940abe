--------------------------- MODULE MCTaskDispatch ---------------------------
(* Instances of TaskDispatch for TLC. *)
EXTENDS TaskDispatch, SequencesExt, TLC

AllPaths == SetToAllKPermutations(Resources) \ {<<>>}

OrderState(s) == [kind |-> "orderState", state |-> s]
TaskComplete(s) == [kind |-> "taskComplete", state |-> s]
OrderFinish == [kind |-> "orderFinish", state |-> "FINISHED"]

\* The simulator as long as nobody cancels: OrderExecutor reports a finished
\* order twice, a failed one once.
EndReports ==
    ("FINISHED" :> {<<OrderState("FINISHED"), TaskComplete("FINISHED")>>})
    @@ ("FAILED" :> {<<OrderState("FAILED")>>})

\* When it is told to cancel, AgvStatusManager reports that, and the thread that
\* executes the order may still report what it makes of it.
SimulatorReports ==
    ("CANCELLED" :> {<<OrderState("CANCELLED")>>,
                     <<OrderState("CANCELLED"), OrderState("FAILED")>>,
                     <<OrderState("CANCELLED"), OrderState("FINISHED"), TaskComplete("FINISHED")>>})
    @@ EndReports

\* AGVs that report also by task completion or order finish messages only.
AllReports ==
    ("FINISHED" :> {<<OrderState("FINISHED"), TaskComplete("FINISHED")>>, <<OrderFinish>>})
    @@ ("FAILED" :> {<<OrderState("FAILED")>>, <<TaskComplete("FAILED")>>})
    @@ ("CANCELLED" :> {<<OrderState("CANCELLED")>>, <<TaskComplete("CANCELLED")>>})

Symmetry == Permutations(Agvs) \cup Permutations(Resources) \cup Permutations(Threads)
            \cup Permutations(TaskIds)
=============================================================================
