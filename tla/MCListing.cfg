\* Four emails with three dates or none, pages of at most two.
SPECIFICATION Spec
CONSTANTS
    Emails = {e1, e2, e3, e4}
    MaxDate = 3
    MaxLimit = 2
SYMMETRY Symmetry
INVARIANTS
    NothingMissed
    RepeatsExplained
CHECK_DEADLOCK FALSE
