\* One mail out of four, two requests for it.
SPECIFICATION FairSpec
CONSTANTS
    MaxAttempts = 2
    ann = ann
    bert = bert
    junk = junk
    Addresses = {ann, bert, junk}
    Malformed = {junk}
    Mails <- MCMails
INVARIANTS
    CopiesExplained
PROPERTIES
    ImplementsTransfer
    ReturnsOrStalls
CHECK_DEADLOCK FALSE
