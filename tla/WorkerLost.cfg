CONSTANTS
    MaxBuilds = 2
    Keys = {k1, k2}
    Requests = {r1}
    RegIds = {g1}
    Commands = {c1}
    Handlers = {h1}
    Backend = "local"
    QueueCapacity = 2
    MaxCrashes = 0
    MaxFaults = 1
    None = None
SPECIFICATION Spec
INVARIANTS
    HealthReflectsCapability
CHECK_DEADLOCK FALSE
