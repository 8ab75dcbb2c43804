\* A charge, a notice and a message that does not parse.
CONSTANTS
    Events = {charge, notice, garbage}
    Notices = {notice}
    Garbage = {garbage}
    Workers = {w1, w2}
    Null = Null
    MaxRetries = 3
    MaxFailures = 1
    MaxHooks = 2
SPECIFICATION FairSpec
INVARIANTS
    TypeOK
    AnnouncedIsSaved
PROPERTIES
    ImplementsEventHandling
    EventIsSettled
CHECK_DEADLOCK FALSE
