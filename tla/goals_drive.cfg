SPECIFICATION DrivesSpec
CONSTANTS
    c1 = c1
    c2 = c2
    j1 = j1
    j2 = j2
    None = None
    Call = {c1}
    Guarded = {c1}
    Job = {j1}
    CallOf <- OneCall
    ServerOf <- OneServer
    Canceller = {k1}
    Stopper = {}
    MaxTries = 3
    MaxSlow = 2
    MaxSocket = 1
    Drive = {d1}
    Watched = {d1}
    Withdrawers = {w1}
    MaxRuns = 2
    MaxReconnects = 1
CHECK_DEADLOCK FALSE
INVARIANTS
    TypeOK
    DrivesAreInHand
    ResendOnlyIfForgotten
PROPERTY
    TrippedGuardActs
