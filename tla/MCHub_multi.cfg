SPECIFICATION Spec
CONSTANTS
    Tasks = {t1, t2}
    Slaves = {s1, s2}
    Requests = {r1, r2}
    Pooled = {r2}
    Reusable = {}
    Habits = {"Multi", "Wake"}
    MaxQueue = 3
    Master = Master
    Null = Null
SYMMETRY SymSlavesTasks
CHECK_DEADLOCK FALSE
INVARIANTS StructInv NoLostWakeup
