SPECIFICATION RegistrationSpec
CONSTANTS
    Builds = {b1}
    RegIds = {r1, r2}
    None = None
    MaxLost = 4
INVARIANTS
    AnsweredIsRegistered
    ToldIsTrue
PROPERTIES
    RegistrationCompletes
CHECK_DEADLOCK FALSE
