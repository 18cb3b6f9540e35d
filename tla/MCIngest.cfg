\* Two racing callers, every fault, two messages that share one S3 key.
SPECIFICATION Spec
CONSTANTS
    Callers = {c1, c2}
    inbox = inbox
    archive = archive
    a = a
    b = b
    Folders = {inbox, archive}
    Uids = {7}
    Names = {a, b}
    Files <- MCFiles
    Faults <- MCFaults
    None = None
SYMMETRY Symmetry
INVARIANTS
    TypeOK
    OneOkPerMessage
    OkIsComplete
    NoOrphanObjects
    IntactUnlessOverlapped
PROPERTIES
    ImplementsMailStore
