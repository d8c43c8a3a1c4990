SPECIFICATION HashSpec
CONSTANTS
    Key = {1, 2, 3, 4, 5, 6, 7}
    Mutable = {7}
    Val = {0, 1}
    Nil = 0
    HashOf <- MCHashOf
    Addr = {a1, a2}
    a1 = a1
    a2 = a2
    NULL = NULL
    AR_DEFAULT_CAPA = 2
    AR_MAX_SIZE = 3
    IB_INIT_BIT = 3
    EA_INCREASE = 2
    EA_MAX_INCREASE = 2
    EA_MAX_CAPA = 14
    Stored = {7}
    Deleted = {7}
    ChangedTo = {2, 7}
    MaxSize = 7
    MaxStale = 2
    MaxUsed = 8
    MaxEachSize = 4
    MaxEachCapa = 5
    MaxCalls = 2
    FillSizes = {3, 6}
    Fills <- MCFills
    Capas = {4}
    RaiseIn = {"ar"}
INVARIANTS
    TableWellFormed
    LookupAgrees
PROPERTIES
    ImplementsOrderedMap
    EachReadsLive
