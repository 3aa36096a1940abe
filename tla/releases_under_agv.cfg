SPECIFICATION Spec
CONSTANTS
    a1 = a1
    a2 = a2
    there = there
    again = again
    across = across
    P = P
    Q = Q
    R = R
    S = S
    U = U
    PQ = PQ
    QR = QR
    SR = SR
    RU = RU
    Agvs = {a1}
    Resources = {P, Q, R, S, U, PQ, QR, SR, RU}
    TaskIds = {there, again, across}
    NoAgv = NoAgv
    NoTask = NoTask
    None = None
    Route <- Routes
    Home <- Homes
    Window = 3
    Standard = {}
    Lossy = {}
    Calm = TRUE
    MaxReports = 3
PROPERTIES ReleasesBehind
CHECK_DEADLOCK FALSE
