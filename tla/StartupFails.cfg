CONSTANTS
    MaxBuilds = 1
    Keys = {k1}
    Requests = {r1}
    RegIds = {g1}
    Commands = {c1}
    Handlers = {h1}
    Backend = "local"
    QueueCapacity = 1
    MaxCrashes = 1
    MaxFaults = 0
    None = None
SPECIFICATION FairSpec
PROPERTIES
    StartupServes
CHECK_DEADLOCK FALSE
