SPECIFICATION FairSpec
CONSTANTS
    t1 = t1
    t2 = t2
    t3 = t3
    Task = {t1, t2, t3}
    NoTask = NoTask
    Prio = {0}
    TickRange = 8
    Delays = {1, 2}
    MRB_TIMESLICE_TICK_COUNT = 2
    MaxItems = 0
    SlowEntry = FALSE
    Calls = {"create", "sleep", "yield", "join", "run", "once"}
PROPERTIES
    SliceEnds
    ReadyRuns
