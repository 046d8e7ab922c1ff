SPECIFICATION Spec
CONSTANTS
    Tasks = {t1, t2}
    Slaves = {s1, s2}
    Requests = {r1, r2}
    Pooled = {}
    Reusable = {}
    Habits = {"Multi"}
    MaxQueue = 0
    Master = Master
    Null = Null
SYMMETRY SymAll
CHECK_DEADLOCK FALSE
INVARIANTS NoWildResume
