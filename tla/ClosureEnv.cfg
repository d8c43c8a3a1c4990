CONSTANTS
    Root = Root
    Fib = Fib
    Top = Top
    Method = Method
    Load = Load
    NULL = NULL
    MaxCalls = 2
    MaxCycles = 1
    Block = {1, 2, 3}
    Env = {1, 2, 3}
    Svar = {1}
    Scope = {1, 2}
    MaxDepth <- Depths
    Kinds = {"fiber","task"}
    SvarUsed = TRUE
    Oom = FALSE
    Pages <- TwoPages
    MarkNext <- OneOf
    StaleReuse = FALSE
    UnmarkedEnd = FALSE
    LateWrite = FALSE
SPECIFICATION Spec
INVARIANTS EnvOwned NothingDangles SvarsShared
CHECK_DEADLOCK FALSE
