\* Two items in one batch, three posts, two disruptions: safety and progress.
SPECIFICATION FairSpec
CONSTANTS
    Items = {1, 2}
    Hooks <- MCHooks
    HookOf <- MCHookOf
    BatchSize = 2
    MaxRetries = 3
    Slots = 2
    MaxDisruptions = 2
INVARIANTS
    TypeOK
    PostsBounded
    FailedIsJustified
PROPERTIES
    PostsOnlyDue
    ImplementsQueue
    EveryItemSettles
CHECK_DEADLOCK FALSE
