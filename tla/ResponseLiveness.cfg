SPECIFICATION FairSpec
CONSTANTS
    RequireArmed = TRUE
    IdleHold = TRUE
    AllowExternal = FALSE
    Touchdown = FALSE
    Levels <- AllLevels
    Modes <- MCModes
    KillPositions = {FALSE}
    Links = {TRUE}
    Holdable = {}
    Requests <- NoRequests
    r1 = r1
INVARIANTS
    TerminatedStaysSilent
PROPERTIES
    ErrorTerminates
    WarnStreamsLand
    UnadmittedIsHandedBack
