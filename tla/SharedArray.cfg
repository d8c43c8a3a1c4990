CONSTANTS
    Arr = {a1, a2, a3}
    Val = {"x"}
    Nil = "nil"
    Gone = Gone
    MaxSize = 2
    EmbedMax = 1
    DefaultLen = 1
    ShrinkRatio = 2
    ShiftSharedMin = 1
    ReplaceSharedMin = 1
SPECIFICATION Spec
SYMMETRY Symmetry
INVARIANTS WindowsInside RefcntExact
PROPERTY ImplementsValues
