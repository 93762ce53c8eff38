SPECIFICATION Spec
CONSTANTS
    v1 = v1
    v2 = v2
    NULL = NULL
    Key <- MCKey
    Value <- MCValue
    Rows = 2
    KeySum <- MCKeySum
INVARIANTS
    TypeOK
    Sorted
    InOwnRow
    SizeIsEntries
PROPERTIES
    ImplementsKVMap
\* After the out-of-bounds index the model stops.
CHECK_DEADLOCK FALSE
