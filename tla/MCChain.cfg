SPECIFICATION Spec
CONSTANTS
    w = w
    r = r
    k1 = k1
    k2 = k2
    v1 = v1
    v2 = v2
    NULL = NULL
    N = 3
    Client = {w, r}
    Key = {k1, k2}
    Value = {v1, v2}
    MayWrite <- MCOneWriter
    MaxRetries = 2
    MaxCalls = 3
    MaxCrashes = 0
INVARIANTS
    HeadTailAgree
    AckedAtTail
PROPERTIES
    ImplementsKVService
\* The clients stop after MaxCalls calls.
CHECK_DEADLOCK FALSE
