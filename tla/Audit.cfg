SPECIFICATION Spec
CONSTANTS
    MaxVersion = 1
    MaxPid = 1
CHECK_DEADLOCK FALSE
INVARIANT
    PassMeansOneDeployment
    PassMeansCleanPull
PROPERTY
    FailureStopsThePull
