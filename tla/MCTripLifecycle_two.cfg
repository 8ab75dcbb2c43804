\* Two overlapping calls at a time on one trip, one failure.
CONSTANTS
    Trips = {t1}
    Handlers = {h1, h2}
    Null = Null
    MaxCalls = 5
    MaxFailures = 1
SPECIFICATION FairSpec
INVARIANTS
    TypeOK
    RecordsAgree
    NoSkipping
    CompletedOnce
    ChargedOnce
    FeeNeedsArrival
PROPERTIES
    ImplementsTripStateMachine
    CompletionIsSettled
    CancelReleasesDriver
CHECK_DEADLOCK FALSE
