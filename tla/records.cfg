SPECIFICATION Spec
CONSTANTS
    MaxAge = 86400
    MaxRoutes = 16
    NoDevice = NoDevice
    Catalog <- MCCatalog
    Requirements <- MCRequirements
    FacilityEvents = 7
    Preconditions = {billing, identity}
    Approvals = {a1, a2}
    NoApproval = NoApproval
    MaxActions = 8
    Replays = 1
    Ttl = 4
    Skew = 1
    Steps = {0, 5}
    Direction <- MCDirection
    Unset = Unset
    Profiles <- MCProfiles
    Jobs <- MCJobs
    Updaters = {u1, u2}
    NoUpdate = NoUpdate
    MaxLines = 2
    MaxMissions = 1
    JWriters = {w1, w2}
    JReaders = {r1}
    Inodes = 2
    Pages = {1, 2}
    MaxKept = 2
    MaxMinted = 4
    NoCursor = NoCursor
    f1 = f1
    f2 = f2
    Caller = {c1, c2}
    FleetCall = {f1, f2}
    Asked <- MCAsked
    MaxTask = 2
    Kept = 1
    NoId = NoId
    NoTask = NoTask
    Manifest <- MCManifest
    Plan <- MCPlan
    Capabilities <- MCCapabilities
    ManagedNode = {"planner"}
    SnapshotAge = 1
    FutureSkew = 1
    MaxLifetime = 1
    MaxNow = 4
    MaxRuntime = 2
    MaxChange = 1
    Nothing = Nothing
CHECK_DEADLOCK FALSE
SYMMETRY MCSymmetry
INVARIANTS
    EvidenceTellsTheLeases
    HandoffBeforeApproval
    JournalIsAccountable
    FleetCallIsItsTask
    AuthorityIsCurrent
PROPERTY
    LimitsAreOnRecord
