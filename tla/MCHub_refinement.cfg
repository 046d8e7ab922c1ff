SPECIFICATION Spec
CONSTANTS
    Tasks = {t1, t2, t3}
    Slaves = {s1, s2, s3}
    Requests = {r1, r2}
    Pooled = {}
    Reusable = {t1, t2, t3}
    Habits = {"Inactive", "StartNow", "Shutdown", "Dispatch", "Swallow", "PauseOther"}
    MaxQueue = 0
    Master = Master
    Null = Null
SYMMETRY SymAll
INVARIANTS CalmInvWhenCalm
PROPERTIES ImplementsTaskLife
