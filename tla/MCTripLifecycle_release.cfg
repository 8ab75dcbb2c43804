\* The consumer of trip.completed resets the key of another id.
CONSTANTS
    Trips = {t1}
    Handlers = {h1}
    Null = Null
    MaxCalls = 5
    MaxFailures = 0
SPECIFICATION Spec
INVARIANTS CompletionReleasesDriver
CHECK_DEADLOCK FALSE
