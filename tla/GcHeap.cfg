SPECIFICATION FairSpec
CONSTANTS
    o1 = o1
    o2 = o2
    o3 = o3
    p1 = p1
    p2 = p2
    Obj = {o1, o2, o3}
    Page = {p1, p2}
    PageOf <- MCPageOf
    Leaf = {o3}
    Fiber = {o1}
    NoFiber = NoFiber
    MRB_GRAY_STACK_SIZE = 1
    MaxRefs = 1
    GenerationalBuild = TRUE
    ModeSwitch = TRUE
    SweepOom = FALSE
INVARIANTS
    TypeOK
    NoLiveFree
    NoLiveCondemned
    TriColor
    GrayTracked
    OldPagesHoldNoWhite
    NoBlackBetweenCycles
PROPERTIES
    FullGcExact
    CallReturns
    ImplementsManagedHeap
