SPECIFICATION FairSpec
CONSTANTS
    Sources <- WatchAgreement
    MaxLevel <- AgreementCaps
    Reporters = {"consistency", "local_position"}
    Axes <- OneAxis
    Lo <- MCLo
    Hi <- MCHi
    Margin = 1
    Positions <- OnePlace
    Differences = {0, 1, 2}
    WarnAbove = 0
    ErrorAbove = 1
    RateBands = {TRUE}
CHECK_DEADLOCK FALSE
PROPERTIES
    MismatchReachesFault
