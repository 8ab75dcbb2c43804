\* Two calls at a time; tokens live for a second, two tries are allowed.
CONSTANTS
    Calls = {c1, c2}
    MaxDevices = 3
    MaxCalls = 4
    MaxTime = 3
    MaxCrashes = 1
    Life = 1
    MaxTries = 2
SPECIFICATION FairSpec
INVARIANTS
    TypeOK
    OneSessionPerLogin
    LoggedOutIsRefusedByHttp
PROPERTIES
    LogoutEndsDevice
    LockoutEnds
CHECK_DEADLOCK FALSE
