CONSTANTS
    O = O
    Y = Y
    S = S
    M = M
    N = N
    NULL = NULL
    Class = {O, Y, S}
    Module = {M, N}
    Singleton = {S}
    SuperOf <- MCSuperOf
    Guarded = Y
    Eq = "=="
    Sym = {"=="}
    Body = {"a"}
    MaxIclass = 3
    MaxDefs = 2
    Reopened = {Y, S, M}
    Programs = {}
SPECIFICATION Spec
INVARIANTS ChainsSound CacheCoherent ArmedCoherent EqSound AncestorsClosed
