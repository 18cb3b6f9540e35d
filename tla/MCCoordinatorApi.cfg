\* One handler and a request of the API that ingests on demand, with progress.
SPECIFICATION FairSpec
CONSTANTS
    Handlers = {pool}
    Uids = {1, 2}
    ApiCalls = {r1}
    Hooks = {k1}
    ChanCap = 1
    MaxFaults = 1
INVARIANTS
    UnqueuedOnlyIfMissed
PROPERTIES
    EventsLeadToStorage
CHECK_DEADLOCK FALSE
