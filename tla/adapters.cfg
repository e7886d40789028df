SPECIFICATION MCSpec
CONSTANTS
    c1 = c1
    c2 = c2
    None = None
    Caller = {c1, c2}
    MaxMessages = 2
    Event <- Hold
    TopicEvent <- Aside
    Bindings <- Keys
    Address = {1, 2}
    MaxPending = 1
    MaxDrain = 2
    MaxSeen = 1
    Deadman = 1
    Nobody = Nobody
    Job = {j1}
    Stopper = {s1}
    Call = {k1, k2}
CHECK_DEADLOCK FALSE
INVARIANTS
    HeartbeatCountsOnce
    LatchesTellTheTruth
PROPERTIES
    MotionIsHeld
    
    StoppedMoveWritesNoSetpoint
    MotionEnds
