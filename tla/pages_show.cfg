CONSTANTS
    MaxReadings = 3
    MaxInFlight = 2
    MaxRestarts = 1
    MaxFailures = 1
    Places = {1}
    Headings <- MCHeadings
    Period = 7
    MinGap = 2
    StopAfter = 10
    MaxMoves = 3
    MaxToasts = 4
    Stations = {s1, s2}
    PathNodes = {n1}
    Nothing = Nothing
    MaxCommands = 3
    Sizes = {1, 2}
    Deltas <- MCDeltas
    MaxResizes = 3
    MaxZooms = 3
    Routes = {r1, r2}
    NoRoute = NoRoute
    Turns = {120}
    MaxAsked = 3
    MaxPolls = 2
    MaxChanges = 1
    MaxPollFailures = 1
    MaxNotches = 1
SPECIFICATION PagesSpec
INVARIANTS PagesTypeOK TurnsShort SelectedIsTarget ScreensRight
PROPERTIES KeepsOrder ShowsThePosition ComesToRest PagesSettle
CHECK_DEADLOCK FALSE
