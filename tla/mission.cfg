SPECIFICATION Spec
CONSTANTS
    None = None
    a = a
    b = b
    red = red
    blue = blue
    Candidates <- MCCandidates
    Sweeps <- MCSweeps
    Places <- MCPlaces
    Scenes <- MCScenes
    Messages <- MCMessages
    LateralLimit = 2
    StopLimit = 3
    MissionTimeout = 6
    Grace = 2
    Fresh = 1
    Stabilization = 1
    LineWait = 1
    LostGrace = 1
    Search = 2
    MaxTime = 7
CHECK_DEADLOCK FALSE
INVARIANTS
    
    MotionAfterResume
PROPERTIES
    MovesOnlyMeasuredClear
    KeepsContract
