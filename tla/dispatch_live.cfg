SPECIFICATION FairSpec
CONSTANTS
    Agvs = {a1, a2}
    Resources = {r1}
    Threads = {h1, h2}
    TaskIds = {t1, t2}
    NoAgv = NoAgv
    NoTask = NoTask
    Paths <- AllPaths
    Reports <- SimulatorReports
    Quiet = TRUE
    Immediate = FALSE
    Loss = FALSE
    SendFails = TRUE
INVARIANTS CurrentTaskOpen
PROPERTIES TaskEnds
