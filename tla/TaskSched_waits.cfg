SPECIFICATION Spec
CONSTANTS
    t1 = t1
    t2 = t2
    t3 = t3
    Task = {t1, t2, t3}
    NoTask = NoTask
    Prio = {0, 1}
    TickRange = 8
    Delays = {1}
    MRB_TIMESLICE_TICK_COUNT = 1
    MaxItems = 2
    SlowEntry = TRUE
    Calls = {"create", "join", "sleep", "queue", "run"}
SYMMETRY Symmetry
INVARIANTS
    JoinTargetAlive
    ItemsFetched
