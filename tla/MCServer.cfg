SPECIFICATION FairSpec
CONSTANTS
    k1 = k1
    k2 = k2
    NULL = NULL
    MaxConns = 2
    Key = {k1, k2}
    MaxRequests = 2
    MaxMerges = 1
    MaxFailures = 1
    Second = 2
    Duration = {1}
    Word = 8
INVARIANTS
    TypeOK
    SizeIsKeys
    KeysAnswer
    ClientsCounted
    OpsCounted
    SocketsClosed
PROPERTIES
    ShutdownEnds
\* The process ends.
CHECK_DEADLOCK FALSE
