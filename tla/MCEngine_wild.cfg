CONSTANTS
    Slaves = {s1, s2}
    Works = {w1}
    Waits = {e1}
    Timers = {}
    Cells = {c1, c2}
    Habits = {"Mixed", "Unwind", "ReadyExit"}
    MainLoops = {"process", "turn"}
    MaxPending = 3
    Master = Master
    Null = Null
SPECIFICATION Spec
SYMMETRY SymAll
CHECK_DEADLOCK FALSE
INVARIANTS
    TypeOK
    NoCompletionLost
