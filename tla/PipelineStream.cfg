SPECIFICATION FairSpec
CONSTANTS
    Sources <- WatchStream
    MaxLevel <- StreamCaps
    Reporters = {}
    Axes <- OneAxis
    Lo <- MCLo
    Hi <- MCHi
    Margin = 1
    Positions <- TwoPlaces
    Differences = {}
    WarnAbove = 0
    ErrorAbove = 1
    RateBands = {TRUE, FALSE}
INVARIANT
    AuthorityIsCapped
CHECK_DEADLOCK FALSE
PROPERTIES
    StopReachesFault
