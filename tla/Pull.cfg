SPECIFICATION FairSpec
CONSTANTS
    Streams = {"state"}
    Param = "param"
    Startup = 2
    PullTimeout = 4
    TailTicks = 2
    Gap = 2
    Age = 1
    MinSamples = 3
    MaxFlips = 2
CHECK_DEADLOCK FALSE
PROPERTIES
    KeepsPromise
    PullStartsOnRecentSafety
    PullEnds
