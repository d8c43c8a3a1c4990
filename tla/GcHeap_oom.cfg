SPECIFICATION Spec
CONSTANTS
    o1 = o1
    o2 = o2
    o3 = o3
    p1 = p1
    p2 = p2
    Obj = {o1, o2, o3}
    Page = {p1, p2}
    PageOf <- MCPageOf
    Leaf = {}
    Fiber = {}
    NoFiber = NoFiber
    MRB_GRAY_STACK_SIZE = 1
    MaxRefs = 1
    GenerationalBuild = TRUE
    ModeSwitch = FALSE
    SweepOom = TRUE
INVARIANTS
    NoLiveFree
