SPECIFICATION ServicesSpec
CONSTANTS
    Gateways <- Both
    MaxLosses = 3
    MaxBreaks = 1
    MaxTimeOuts = 1
    MaxBeats = 1
    MapNodes = {1, 2, 3, 4}
    Distance <- MCDistance
    Weights <- MCWeights
    Unreached <- MCUnreached
INVARIANTS ServicesTypeOK OneAttempt OnlineWhenReady RouteIsShortest
PROPERTIES BacksOff LinksRecover
CHECK_DEADLOCK FALSE
