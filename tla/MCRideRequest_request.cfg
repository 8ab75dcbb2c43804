\* Three requests with one key, two at a time; two drivers in the region of
\* the riders, none in the other.
CONSTANTS
    Regions = {r1, r2}
    Drivers = {d1, d2}
    RegionOf <- MCRegionOf
    Few = 2
    Many = 3
    Keys = {k1}
    Calls = {c1, c2}
    Home = r1
    Null = Null
    MaxCalls = 3
    MaxFailures = 1
SPECIFICATION FairSpec
INVARIANTS
    TypeOK
    OneRidePerKey
PROPERTIES
    RideIsRequested
    SurgeEndsWithDrivers
