SPECIFICATION Spec
CONSTANTS
    v1 = v1
    v2 = v2
    NULL = NULL
    Key <- MCKey
    Value <- MCValue
    Rows = 2
    KeySum <- MCKeySum
INVARIANTS
    NoUndefined
CHECK_DEADLOCK FALSE
