SPECIFICATION FairSpec
CONSTANTS
    NULL = NULL
    N = 3
    Backlog = 1
    MaxCrashes = 1
INVARIANTS
    TypeOK
    WatchKept
    SettledNext
PROPERTIES
    EventuallySettled
\* All servers may be dead.
CHECK_DEADLOCK FALSE
