CONSTANTS
    Conns = {c1, c2, c3}
    MaxClients = 2
    MaxIo = 1
    InputSize = 2
    ChunkSize = 2
    CanThrow = TRUE
    Null = Null
SPECIFICATION FairSpec
CHECK_DEADLOCK FALSE
INVARIANTS
    ServiceInv
    WatchersAreWatching
    CopiesInput
    
PROPERTIES
    
    InputEndsServer
