\* One direct cancellation and the assignment.
CONSTANTS
    Trips = {t1}
    Handlers = {h1}
    Null = Null
    MaxCalls = 3
    MaxFailures = 0
SPECIFICATION Spec
INVARIANTS CancelledRideHasNoLiveTrip
CHECK_DEADLOCK FALSE
