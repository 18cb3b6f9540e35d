\* Two mailboxes, one with IDLE; two starts, possibly with different keys; all
\* faults, and mail servers that fall silent while the process shuts down.
SPECIFICATION FairSpec
CONSTANTS
    Clients = {alice, bob}
    WithIdle = {alice}
    Keys = {k1, k2}
    Faults = {"db", "dbLost", "net", "imap", "crash"}
    MaxStarts = 2
    MaxCreates = 2
    None = None
INVARIANTS
    UnwatchedExplained
    QuietAfterClose
    SecondRowExplained
PROPERTIES
    ShutdownEnds
CHECK_DEADLOCK FALSE
