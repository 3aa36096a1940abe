SPECIFICATION FairSpec
CONSTANTS
    Agvs = {a1, a2}
    Resources = {r1}
    Threads = {t1, t2}
    NoAgv = NoAgv
    PathLists <- AllPaths
    LockExpire = 2
    RenewalInterval = 1
    PassBound = 1
    Serialized = TRUE
    Prompt = FALSE
    Restarts = TRUE
    Faults = TRUE
PROPERTIES OrphanExpires StaleEntryDropped
