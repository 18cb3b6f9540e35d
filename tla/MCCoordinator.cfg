\* Both handlers, two messages, one fault (a failing call, Close or a restart).
SPECIFICATION Spec
CONSTANTS
    Handlers = {pool, poller}
    Uids = {1, 2}
    ApiCalls = {}
    Hooks = {k1}
    ChanCap = 1
    MaxFaults = 1
SYMMETRY Symmetry
INVARIANTS
    TypeOK
    QueuedAtMostOnce
    SkippedOnlyAfterFailure
PROPERTIES
    LastUIDNeverFalls
CHECK_DEADLOCK FALSE
