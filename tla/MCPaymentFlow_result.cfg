\* A charge whose result is sent.
CONSTANTS
    Events = {charge}
    Notices = {}
    Garbage = {}
    Workers = {w1}
    Null = Null
    MaxRetries = 3
    MaxFailures = 0
    MaxHooks = 1
SPECIFICATION FairSpec
PROPERTIES
    ResultReachesPayment
CHECK_DEADLOCK FALSE
