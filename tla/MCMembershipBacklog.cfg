SPECIFICATION Spec
CONSTANTS
    NULL = NULL
    N = 2
    Backlog = 1
    MaxCrashes = 0
INVARIANT NoFault
\* All servers may be dead.
CHECK_DEADLOCK FALSE
