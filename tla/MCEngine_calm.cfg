CONSTANTS
    Slaves = {s1, s2}
    Works = {w1, w2}
    Waits = {e1}
    Timers = {t1}
    Cells = {c1, c2}
    Habits = {}
    MainLoops = {"process", "turn"}
    MaxPending = 8
    Master = Master
    Null = Null
SPECIFICATION FairSpec
INVARIANTS
    OneCompletionPerStart
    NotificationFindsItsRequest
    JobsHaveRequests
    BlocksOnlyWhenIdle
PROPERTIES
    CallsComplete
    ImplementsRequestLife
    CompletionsArrive
