\* Three calls at a time on two payment methods.
CONSTANTS
    Calls = {c1, c2, c3}
    MaxMethods = 2
    MaxCalls = 5
    MaxFailures = 1
SPECIFICATION Spec
INVARIANTS
    TypeOK
    OneDefault
    PreferencesKept
CHECK_DEADLOCK FALSE
