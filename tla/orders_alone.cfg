SPECIFICATION FairSpec
CONSTANTS
    Orders = {o1, o2}
    Threads = {h1, h2, h3}
    NoOrder = NoOrder
    NoThread = NoThread
    Resumer = Resumer
    o1 = o1
    o2 = o2
    charge = charge
    a = a
    b = b
    c = c
    ChargeOrder = charge
    Route <- TwoRoutes
    ActionCount <- OneAction
    Commands = {}
    MaxCommands = 0
    Fails = {o1, o2}
    LinkFails = TRUE
    LowBattery = TRUE
INVARIANTS TypeOK DoneInOrder OutcomesAgree
PROPERTIES OrderEnds
CHECK_DEADLOCK FALSE
