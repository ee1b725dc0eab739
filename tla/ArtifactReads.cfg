CONSTANTS
    Readers = {r1, r2}
    Remote = TRUE
    Caches = {"absent"}
    MaxRequests = 2
    MaxFaults = 1
    MaxDamage = 1
    MaxRestarts = 1
    Nobody = Nobody
SPECIFICATION Spec
INVARIANTS
    NothingFetchedTwice
    ServedIsPinned
    RefusalHasCause
    LeftoverHasCause
PROPERTIES
    RequestsEnd
CHECK_DEADLOCK FALSE
