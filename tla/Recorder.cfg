SPECIFICATION FairSpec
CONSTANTS
    MaxBags = 2
    MaxMishaps = 1
INVARIANTS
    TypeOK
    ReadyIsFinal
    NothingIsStranded
    CameraIsOff
PROPERTIES
    SidecarIsFrozen
    StoppedIsQueued
