SPECIFICATION Spec
CONSTANTS
    Orders = {o1}
    Threads = {h1}
    NoOrder = NoOrder
    NoThread = NoThread
    Resumer = Resumer
    o1 = o1
    o2 = o2
    charge = charge
    a = a
    b = b
    c = c
    ChargeOrder = charge
    Route <- OneRoute
    ActionCount <- OneAction
    Commands = {"CANCEL"}
    MaxCommands = 1
    Fails = {}
    LinkFails = FALSE
    LowBattery = FALSE
INVARIANTS CancelledStays
CHECK_DEADLOCK FALSE
