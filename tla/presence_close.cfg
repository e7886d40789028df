SPECIFICATION MCSpec
CONSTANTS
    p1 = p1
    p2 = p2
    o1 = o1
    NoSsh = NoSsh
    Ssh = {p1, p2}
    Operator = {o1}
    SlowAttempt = TRUE
    Adapters = {a1, a2}
    MaxForwards = 3
    MaxBuilds = 3
    Lingers = {TRUE, FALSE}
    ExpectedMarkers = {0, 2}
    MaxMarkers = 3
    MaxSignals = 3
    MaxTurns = 2
    MaxRefreshes = 1
CHECK_DEADLOCK FALSE
PROPERTY
    CloseIsHeard
