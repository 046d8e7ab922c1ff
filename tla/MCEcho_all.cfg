CONSTANTS
    BufferSize = 3
    MaxBytes = 6
SPECIFICATION FairSpec
CHECK_DEADLOCK FALSE
INVARIANTS
    ConnectionInv
    EchoesInOrder
    BuffersUntouched
    SanityChecksHold
PROPERTIES
    
    ImplementsLife
