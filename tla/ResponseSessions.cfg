SPECIFICATION Spec
CONSTANTS
    RequireArmed = TRUE
    IdleHold = TRUE
    AllowExternal = TRUE
    Touchdown = TRUE
    Levels <- AllLevels
    Modes <- MCModes
    KillPositions = {TRUE, FALSE}
    Links = {TRUE, FALSE}
    Holdable = {TRUE, FALSE}
    Requests <- OneRequest
    r1 = r1
ACTION_CONSTRAINT OverlapsInFlight
INVARIANTS
    TypeOK
    BusyIsNotLeaked
PROPERTIES
    OnlyRunningCallbackLeavesHold
    OnlyRunningSampleStrays
    OnlyRunningTickLeavesAdmission
    ForwardedNormalIsCurrent
    ImplementsControlSession
