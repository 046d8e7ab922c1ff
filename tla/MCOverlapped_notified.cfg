CONSTANTS
    Kinds = {"SocketGet", "SocketPut", "FileGet", "FilePut",
             "Accept", "Connect", "Disconnect"}
    MaxSize = 2
    MaxOps = 4
    Eager = FALSE
SPECIFICATION Spec
CHECK_DEADLOCK FALSE
INVARIANTS
    TypeOK
    ResultIsOwn
    NothingLeftBehind
    ReadyWhenNotified
