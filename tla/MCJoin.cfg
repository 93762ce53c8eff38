SPECIFICATION FairJoinSpec
CONSTANTS
    k1 = k1
    v1 = v1
    v2 = v2
    NULL = NULL
    N = 3
    Backlog = 1
    MaxCrashes = 0
    Key = {k1}
    Value = {v1, v2}
    Settled0 = 2
    MaxWrites = 2
    MaxRetries = 2
INVARIANTS
    JoinTypeOK
    UnexposedAgree
PROPERTIES
    
    RequestsEnd
\* The client stops after MaxWrites requests.
CHECK_DEADLOCK FALSE
