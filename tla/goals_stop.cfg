SPECIFICATION DrivesSpec
CONSTANTS
    c1 = c1
    c2 = c2
    j1 = j1
    j2 = j2
    None = None
    Call = {c1, c2}
    Guarded = {}
    Job = {j1, j2}
    CallOf <- OneEach
    ServerOf <- OneServer
    Canceller = {}
    Stopper = {s1}
    MaxTries = 1
    MaxSlow = 0
    MaxSocket = 2
    Drive = {}
    Watched = {}
    Withdrawers = {}
    MaxRuns = 0
    MaxReconnects = 0
SYMMETRY Twins
CHECK_DEADLOCK FALSE
INVARIANTS
    CancelTellsWhatEnded
    StopAsksEveryActiveGoal
