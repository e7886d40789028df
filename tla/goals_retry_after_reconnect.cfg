SPECIFICATION DrivesSpec
CONSTANTS
    c1 = c1
    c2 = c2
    j1 = j1
    j2 = j2
    None = None
    Call = {c1}
    Guarded = {}
    Job = {j1}
    CallOf <- OneCall
    ServerOf <- OneServer
    Canceller = {}
    Stopper = {}
    MaxTries = 2
    MaxSlow = 0
    MaxSocket = 2
    Drive = {}
    Watched = {}
    Withdrawers = {}
    MaxRuns = 0
    MaxReconnects = 0
CHECK_DEADLOCK FALSE
INVARIANT NoDuplicateMotion
