CONSTANTS
    MaxBuilds = 2
    Keys = {k1, k2}
    Requests = {r1, r2}
    RegIds = {g1, g2}
    Commands = {c1}
    Handlers = {h1, h2}
    Backend = "local"
    QueueCapacity = 1
    MaxCrashes = 2
    MaxFaults = 0
    None = None
SYMMETRY Symmetry
SPECIFICATION Spec
INVARIANTS
    TypeOK
    AnswersAreDurable
    OneBuildPerKey
    OneRegistration
    WorkspaceIsOwned
    DeletedIsGone
PROPERTIES
    DurableFollowsLifecycle
    ImplementsLifecycle
CHECK_DEADLOCK FALSE
