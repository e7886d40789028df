SPECIFICATION Spec
CONSTANTS
    None = None
    NoFrame = NoFrame
    Words <- MCWords
    MaxFragment = 8
    MaxLocations = 512
    MaxAge = 86400
    MaxRoutes = 16
    Initial <- MCInitial
    Identifier <- MCIdentifier
    Lessons <- MCLessons
    Teachers = {t1, t2}
    Markers = {m1, m2}
    PlaceNames = {dock, shelf}
    Poses = {here}
    Goals <- MCGoals
    Contexts <- MCContexts
    WordScores <- MCWordScores
    Limits = {2, 8}
    Proposals <- MCProposals
    Graph <- MCGraph
    Sightings <- MCSightings
    Changes <- MCChanges
    MaxLabels = 32
    MaxRevision = 2
    MaxPlaces = 1
    MaxMarks = 2
    Open = 1000
    TopSpeed = 3
    MinSpeed = 1
    MinDistance = 1
    NoTrip = NoTrip
    Tolerance = 3
    Asks <- MCAsks
    Rooms = {12, 28, 44}
    Horizon = 40
    Declared = {"preemptive", "unknown"}
    Policy <- MCPolicy
    Configured = 4
    Measured = {TRUE}
    Period = 2
    Delay = 1
    React = 0
    Poll = 1
    SlowGap = 2
    NearlyThere = 2
    MaxFresh = 2
    OldestAge = 7
    Resumes = 1
    Nothing = Nothing
    Sweeps <- MCSweeps
    Newcomers <- MCNewcomers
    Target <- MCTarget
    Floor = 6
    Margin = 2
    Pinned = 12
    MaxBackoff = 6
    MaxLateral = 20
    Arrival = 5
    ClusterJump = 5
    MaxAttempts = 2
    Absent = Absent
CHECK_DEADLOCK FALSE
INVARIANTS
    PlaceIsNeverGuessed
    PlansCanBeCarriedOut
    SelectedRouteHasItsResources
    NothingTaughtIsLost
PROPERTY
    DriveKeepsItsWord
    EscapeIsSafe
