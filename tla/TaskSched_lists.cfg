SPECIFICATION Spec
CONSTANTS
    t1 = t1
    t2 = t2
    t3 = t3
    Task = {t1, t2}
    NoTask = NoTask
    Prio = {0, 1}
    TickRange = 8
    Delays = {1, 2}
    MRB_TIMESLICE_TICK_COUNT = 1
    MaxItems = 0
    SlowEntry = TRUE
    Calls = {"hook", "create", "priority", "sleep", "yield", "suspend", "terminate", "close", "stop", "reset", "c", "run", "pass"}
SYMMETRY Symmetry
INVARIANTS
    TypeOK
    ListsMatchStatus
    ReadyInOrder
    OneRuns
    SleepersCovered
