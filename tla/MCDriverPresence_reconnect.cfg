\* A driver reconnects in the middle of a ride.
CONSTANTS
    Sockets = {s1}
    Processes = {p1}
    MaxActs = 3
SPECIFICATION Spec
PROPERTIES
    RefreshIsForExpired
CHECK_DEADLOCK FALSE
