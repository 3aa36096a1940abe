SPECIFICATION Spec
CONSTANTS
    Agvs = {a1}
    Resources = {r1}
    Threads = {h1}
    TaskIds = {t1, t2}
    NoAgv = NoAgv
    NoTask = NoTask
    Paths <- AllPaths
    Reports <- EndReports
    Quiet = FALSE
    Immediate = FALSE
    Loss = FALSE
    SendFails = FALSE
SYMMETRY Symmetry
INVARIANTS OutcomeIsReported
