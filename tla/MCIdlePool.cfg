\* Two accounts and two entries (two accounts watched at once, or one removed and
\* added again), channels of one event: the pool's promises and its stops.
SPECIFICATION FairSpec
CONSTANTS
    Accounts = {a, b}
    Entries = {e1, e2}
    PoolCap = 1
    ConnCap = 1
    MaxRetries = 1
    None = None
INVARIANTS
    TypeOK
    OneWatcher
    LeakOnlyOnClose
PROPERTIES
    StopsReturn
    ImplementsSource
CHECK_DEADLOCK FALSE
