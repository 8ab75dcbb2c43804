\* Two workers, one ride, everything that can go wrong with it once.
CONSTANTS
    d1 = d1
    d2 = d2
    Rides = {r1}
    Drivers = {d1, d2}
    Workers = {w1, w2}
    Taps = {k1}
    Null = Null
    Distance <- MCDistance
    SearchLimit = 2
    OfferLimit = 2
    MaxRedeliveries = 1
    MaxTaps = 2
    MaxCancels = 1
    MaxFailures = 1
SPECIFICATION FairSpec
INVARIANTS
    TypeOK
    OneRunPerRide
    AssignmentIsAccepted
    RideFollowsTrip
    NoDriverAskedTwice
    OneOfferAtATime
    FailureIsFinal
    EveryoneIsAsked
    RequestIsCarried
PROPERTIES
    RequestIsAnswered
CHECK_DEADLOCK FALSE
