CONSTANTS
    SampleCounts = {2, 5, 6}
    ShardCounts = {2, 3}
    BatchSizes = {1, 2}
    Seeds = {1, 2}
    Profiles = {"CNN_IMAGE_CLASSIFICATION_V1", "OTHER"}
    Remote = TRUE
    MaxCalls = 2
    MaxFaults = 2
SPECIFICATION Spec
INVARIANTS
    LayoutIsExact
    RefusalHasCause
PROPERTIES
    AnswersAreWhole
CHECK_DEADLOCK FALSE
