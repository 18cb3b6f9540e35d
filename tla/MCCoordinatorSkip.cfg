\* One handler, two messages, one failing call.
SPECIFICATION Spec
CONSTANTS
    Handlers = {pool}
    Uids = {1, 2}
    ApiCalls = {}
    Hooks = {k1}
    ChanCap = 1
    MaxFaults = 1
INVARIANTS
    FailuresAreRetried
CHECK_DEADLOCK FALSE
