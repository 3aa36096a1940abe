SPECIFICATION Spec
CONSTANTS
    a1 = a1
    a2 = a2
    there = there
    again = again
    across = across
    P = P
    Q = Q
    R = R
    S = S
    U = U
    PQ = PQ
    QR = QR
    SR = SR
    RU = RU
    Agvs = {a1, a2}
    Resources = {P, Q, R, S, U, PQ, QR, SR, RU}
    TaskIds = {there, again, across}
    NoAgv = NoAgv
    NoTask = NoTask
    None = None
    Route <- Routes
    Home <- Homes
    Window = 3
    Standard = {a1}
    Lossy = {a2}
    Calm = TRUE
    MaxReports = 3
INVARIANTS TypeOK ListIsExact ListFollowsPath IdleHoldsNothing WindowFollows
PROPERTIES StandardReleasesBehind
CHECK_DEADLOCK FALSE
