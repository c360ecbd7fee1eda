SPECIFICATION FailingSpec
CONSTANTS
    Threads = {t1}
    Power = Power
    NoOne = NoOne
    Contexts = {c1, c2}
    NoContext = NoContext
    NumPages = 2
    PageSize = 3
    MaxChain = 1
    MaxItems = 4
    MaxFlushes = 0
    MaxFails = 1
    MaxStops = 0
CHECK_DEADLOCK FALSE
INVARIANTS
    ContextLoaded
