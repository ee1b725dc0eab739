CONSTANTS
    MaxBuilds = 2
    Keys = {k1, k2}
    Requests = {r1}
    RegIds = {g1}
    Commands = {c1, c2}
    Handlers = {h1}
    Backend = "huggingface"
    QueueCapacity = 1
    MaxCrashes = 1
    MaxFaults = 1
    None = None
SPECIFICATION FairSpec
INVARIANTS
    VisibleIsComplete
    NothingStranded
PROPERTIES
    BuildsSettle
    IdentityIsFrozen
    RecoveryCompletesPurges
CHECK_DEADLOCK FALSE
