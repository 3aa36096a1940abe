SPECIFICATION Spec
CONSTANTS
    Orders = {o1}
    Threads = {h1, h2, h3, h4}
    NoOrder = NoOrder
    NoThread = NoThread
    Resumer = Resumer
    o1 = o1
    o2 = o2
    charge = charge
    a = a
    b = b
    c = c
    ChargeOrder = charge
    Route <- OneRoute
    ActionCount <- OneAction
    Commands = {"PAUSE", "RESUME", "CANCEL", "EMERGENCY_STOP", "RESET_EMERGENCY"}
    MaxCommands = 2
    Fails = {o1}
    LinkFails = TRUE
    LowBattery = FALSE
SYMMETRY Symmetry
INVARIANTS DoneInOrder
CHECK_DEADLOCK FALSE
