\* Two workers search before either has marked its driver.
CONSTANTS
    d1 = d1
    d2 = d2
    Rides = {r1, r2}
    Drivers = {d1, d2}
    Workers = {w1, w2}
    Taps = {k1, k2}
    Null = Null
    Distance <- MCDistance
    SearchLimit = 2
    OfferLimit = 2
    MaxRedeliveries = 0
    MaxTaps = 2
    MaxCancels = 0
    MaxFailures = 0
SPECIFICATION Spec
INVARIANTS
    OneRidePerDriver
CHECK_DEADLOCK FALSE
