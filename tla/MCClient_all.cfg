CONSTANTS
    BufferSize = 2
    MaxBytes = 6
    Iterations = 2
    Inbound = 2
    Outbound = 2
    PutsAll = FALSE
SPECIFICATION ClientSpec
CHECK_DEADLOCK FALSE
INVARIANTS
    OwnClientIsSafe
    CopyIsExact
PROPERTIES
    ClientFinishes
