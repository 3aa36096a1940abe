SPECIFICATION Spec
CONSTANTS
    Agvs = {a1, a2}
    Resources = {r1, r2}
    Threads = {h1, h2}
    TaskIds = {t1, t2}
    NoAgv = NoAgv
    NoTask = NoTask
    Paths <- AllPaths
    Reports <- AllReports
    Quiet = TRUE
    Immediate = FALSE
    Loss = TRUE
    SendFails = FALSE
SYMMETRY Symmetry
INVARIANTS TypeOK DrivesOnOwnLocks IdleHoldsNothing OutcomeIsReported NoOrphanTask
PROPERTIES ImplementsTaskBoard
