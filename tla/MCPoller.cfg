\* One account, watched by one entry until it is removed or the poller closed;
\* two messages arrive; a channel of one event.
SPECIFICATION FairSpec
CONSTANTS
    Accounts = {a}
    Entries = {e1}
    PollCap = 1
    MaxUid = 2
    None = None
INVARIANTS
    TypeOK
PROPERTIES
    PollsAnnounceArrivals
    ArrivalsAreAnnounced
    StopsReturn
    ImplementsSource
CHECK_DEADLOCK FALSE
