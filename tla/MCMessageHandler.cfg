\* Two requests about one message with two attachments, faults of every store.
SPECIFICATION HandlerSpec
CONSTANTS
    Callers = {r1, r2}
    inbox = inbox
    a = a
    b = b
    Folders = {inbox}
    Uids = {7}
    Names = {a, b}
    Files <- MCFiles
    Faults <- MCFaults
    SendFaults = {"smtp", "smtpLost", "s3Get"}
    None = None
SYMMETRY Symmetry
INVARIANTS
    HandlerTypeOK
    OmissionsExplained
    WholeStaysWhole
CHECK_DEADLOCK FALSE
