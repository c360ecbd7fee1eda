SPECIFICATION Spec
CONSTANTS
    Threads = {t1}
    Power = Power
    NoOne = NoOne
    Contexts = {c1}
    NoContext = NoContext
    NumPages = 2
    PageSize = 2
    MaxChain = 4
    MaxItems = 6
    MaxFlushes = 0
    MaxFails = 0
    MaxStops = 0
CHECK_DEADLOCK FALSE
INVARIANTS
    WaitedPageSubmitted
