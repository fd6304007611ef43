SPECIFICATION Spec
CONSTANTS
    RequireArmed = TRUE
    IdleHold = TRUE
    AllowExternal = FALSE
    Touchdown = FALSE
    Levels <- SomeLevels
    Modes <- MCModes
    KillPositions = {FALSE}
    Links = {TRUE}
    Holdable = {}
    Requests <- NoRequests
    r1 = r1
INVARIANT TimerAlive
