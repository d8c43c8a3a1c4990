SPECIFICATION FiberSpec
CONSTANTS
    Root = Root
    f1 = f1
    f2 = f2
    Fiber = {f1, f2}
    NULL = NULL
    MaxDepth = 4
    MaxFrames = 7
    MaxBegin = 1
    MaxNest = 3
    BreakInResumed = FALSE
    TransferInResumed = FALSE
INVARIANTS
    FiberTypeOK
    StacksInStep
    FiberLinks
PROPERTIES
    CiPosition
    EnsureRuns
    UnwindingEnds
