CONSTANTS
    RecordBytes = 2
    MaxFiles = 3
    MaxBytes = 5
    MaxTake = 2
SPECIFICATION Spec
INVARIANTS
    ReadsExist
    IdentityIsIndex
CHECK_DEADLOCK FALSE
