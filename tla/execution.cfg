SPECIFICATION Spec
CONSTANTS
    None = None
    Fault = {"lidar_dropout"}
    Expects <- MCExpects
    Stop = {"emergency_stop", "lidar"}
    Scenario = {"success", "cancel", "emergency_stop", "lidar_dropout"}
    MaxPending = 1
    OldReason = None
    NoReason = NoReason
    Timeout = 0
    MaxClock = 1
    CanReset = TRUE
    NavNodes <- MCNodes
    MaxTries = 2
    MaxParticipants = 2
    MaxLate = 2
    MaxFault = 2
    NoFile = NoFile
    Asked <- MCAsked
    Cells = 2
    ColdRuns = 2
    Proofs = {"shutdown-smoke", "lidar-fault-proof"}
    ProofRuns <- MCProofRuns
    MaxKills = 1
    Rounds = 2
    Soaks = 1
    LabFaults <- MCLabFaults
    MaxOdd = 2
CHECK_DEADLOCK FALSE
INVARIANTS
    RecordIsTrue
    VerdictsAreEarned
PROPERTIES
    ExecutionEnds
    
