CONSTANTS
    BYTE = 4
    MaxCount = 3
SPECIFICATION Spec
CHECK_DEADLOCK FALSE
INVARIANTS
    AnyErrorDetected
