\* One account whose connection drops while the pool runs.
SPECIFICATION FairSpec
CONSTANTS
    Accounts = {a}
    Entries = {e1}
    PoolCap = 1
    ConnCap = 1
    MaxRetries = 1
    None = None
PROPERTIES
    Reconnects
CHECK_DEADLOCK FALSE
