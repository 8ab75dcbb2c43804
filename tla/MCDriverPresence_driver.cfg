\* A driver with two sockets and two processes, and all that may go wrong.
CONSTANTS
    Sockets = {s1, s2}
    Processes = {p1, p2}
    MaxActs = 4
SPECIFICATION FairSpec
INVARIANTS
    TypeOK
    OfflineIsNotOffered
    SightingIsWatched
    TimerMeansGone
PROPERTIES
    GoneIsNotOffered
CHECK_DEADLOCK FALSE
