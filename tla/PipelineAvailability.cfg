SPECIFICATION FairSpec
CONSTANTS
    Sources <- WatchAvailability
    MaxLevel <- AvailabilityCaps
    Reporters = {"geofence", "local_position"}
    Axes <- TwoAxes
    Lo <- MCLo
    Hi <- MCHi
    Margin = 1
    Positions <- InsideAndOutside
    Differences = {}
    WarnAbove = 0
    ErrorAbove = 1
    RateBands = {TRUE}
CHECK_DEADLOCK FALSE
PROPERTIES
    VrpnAloneLands
    ExitReachesFault
    LossReachesFault
    OrderRestoresOk
