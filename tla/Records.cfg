CONSTANTS
    Builds = {b1, b2}
    Remote = TRUE
    MaxVersion = 2
    MaxFaults = 1
    MaxCrashes = 1
    MaxPowerLosses = 1
SPECIFICATION Spec
INVARIANTS
    ServesMigrated
    ServesReadable
PROPERTIES
    KeepsContract
    MirrorIsFresh
    ServesAgain
CHECK_DEADLOCK FALSE
