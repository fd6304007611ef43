SPECIFICATION Spec
CONSTANTS
    Order <- MCOrder
    Hash = "_HASH_CHECK"
    Values = {0, 1}
    MinCount = 1
    MaxMessages = 3
    MaxChanges = 1
    MinStatus = 3
    TailSamples = 2
    MinDiag = 1
    Window = 2
    MaxExchanges = 4
    MaxFaults = 2
CHECK_DEADLOCK FALSE
INVARIANT
    PassMeansTheirTable
    GoodPullPasses
    PassMeansAccepted
    
