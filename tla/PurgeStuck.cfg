CONSTANTS
    MaxBuilds = 1
    Keys = {k1}
    Requests = {r1}
    RegIds = {g1}
    Commands = {c1}
    Handlers = {h1, h2}
    Backend = "huggingface"
    QueueCapacity = 1
    MaxCrashes = 0
    MaxFaults = 0
    None = None
SPECIFICATION Spec
INVARIANTS
    PurgeIsRetryable
CHECK_DEADLOCK FALSE
