CONSTANTS
    MaxBuilds = 3
    Keys = {k1, k2, k3}
    Requests = {r1}
    RegIds = {}
    Commands = {c1}
    Handlers = {h1}
    Backend = "local"
    QueueCapacity = 1
    MaxCrashes = 1
    MaxFaults = 2
    None = None
SYMMETRY Symmetry
SPECIFICATION Spec
INVARIANTS
    QueueIsFIFO
    QueueIsBounded
    DeletedIsGone
CHECK_DEADLOCK FALSE
