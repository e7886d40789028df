SPECIFICATION FairSpec
CONSTANTS
    a1 = a1
    a2 = a2
    j1 = j1
    j2 = j2
    o1 = o1
    o2 = o2
    NoOp = NoOp
    Adapter = {a1, a2}
    Job = {j1, j2}
    JobAdapter <- OneEach
    Operator = {o1, o2}
    OpAdapter <- OneLock
CHECK_DEADLOCK FALSE
INVARIANTS
    FoundMotionIsStopped
PROPERTIES
    
    GateReopens
