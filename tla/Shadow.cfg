SPECIFICATION Spec
CONSTANTS
    MinSamples = 2
    MinDiag = 1
    MaxCorrections = 3
    MaxClockChecks = 2
    MaxFaults = 1
CHECK_DEADLOCK FALSE
INVARIANT
    PassMeansOneSession
    
    OneClockProcess
    
