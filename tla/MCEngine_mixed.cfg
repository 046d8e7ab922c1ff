CONSTANTS
    Slaves = {s1}
    Works = {w1}
    Waits = {}
    Timers = {t1}
    Cells = {c1, c2}
    Habits = {"Mixed"}
    MainLoops = {"process"}
    MaxPending = 5
    Master = Master
    Null = Null
SPECIFICATION Spec
PROPERTIES
    CallsComplete
