SPECIFICATION FairSpec
CONSTANTS
    Tasks = {t1, t2, t3}
    Slaves = {s1, s2}
    Requests = {r1, r2}
    Pooled = {}
    Reusable = {}
    Habits = {"Swallow", "PauseOther"}
    MaxQueue = 0
    Master = Master
    Null = Null
INVARIANTS NoWildResume
PROPERTIES ResumedByCompletion ShutdownPost EngineNotStarved PausedResumes ShutdownEnds
