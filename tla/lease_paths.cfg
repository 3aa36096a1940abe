SPECIFICATION Spec
CONSTANTS
    Agvs = {a1, a2}
    Resources = {r1, r2}
    Threads = {t1, t2}
    NoAgv = NoAgv
    PathLists <- CrossPaths
    LockExpire = 2
    RenewalInterval = 1
    PassBound = 0
    Serialized = TRUE
    Prompt = TRUE
    Restarts = FALSE
    Faults = FALSE
SYMMETRY Symmetry
INVARIANTS TypeOK LeaseCovered
PROPERTIES RollbackComplete LeaseEnds ImplementsLeaseTable
