CONSTANTS
    Bytes = {0, 1}
    Capacity = 3
    Excess = 1
SPECIFICATION Spec
INVARIANTS
    CursorsOK
PROPERTIES
    ImplementsFifo
