SPECIFICATION Spec
CONSTANTS
    w = w
    r = r
    k1 = k1
    k2 = k2
    v1 = v1
    v2 = v2
    NULL = NULL
    N = 2
    Client = {w, r}
    Key = {k1}
    Value = {v1}
    MayWrite <- MCSharedKey
    MaxRetries = 2
    MaxCalls = 2
    MaxCrashes = 0
INVARIANT HeadTailAgree
CHECK_DEADLOCK FALSE
