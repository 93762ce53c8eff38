SPECIFICATION Spec
CONSTANTS
    k1 = k1
    k2 = k2
    NULL = NULL
    MaxConns = 1
    Key = {k1, k2}
    MaxRequests = 1
    MaxMerges = 0
    MaxFailures = 0
    Second = 2
    Duration = {1}
    Word = 8
INVARIANTS
    ThreadsAwaited
CHECK_DEADLOCK FALSE
