SPECIFICATION Spec
CONSTANTS
    Threads = {t1, t2}
    Power = Power
    NoOne = NoOne
    Contexts = {c1, c2}
    NoContext = NoContext
    NumPages = 2
    PageSize = 4
    MaxChain = 2
    MaxItems = 4
    MaxFlushes = 1
    MaxFails = 1
    MaxStops = 1
SYMMETRY Symmetry
CHECK_DEADLOCK FALSE
INVARIANTS
    ExecutesInOrder
    PageAccounting
    PageLeft
    ContextLoaded
