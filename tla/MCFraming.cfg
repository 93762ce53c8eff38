SPECIFICATION FairSpec
CONSTANTS
    MaxCalls = 2
    Half = 4
    Size = {1, 3, 5, 8, 9}
INVARIANTS
    InStep
PROPERTIES
    ImplementsRpc
    CallEnds
\* The client stops after MaxCalls calls.
CHECK_DEADLOCK FALSE
