SPECIFICATION LiveSpec
CONSTANTS
    Threads = {t1, t2}
    Power = Power
    NoOne = NoOne
    Contexts = {}
    NoContext = NoContext
    NumPages = 2
    PageSize = 4
    MaxChain = 1
    MaxItems = 4
    MaxFlushes = 0
    MaxFails = 0
    MaxStops = 1
CHECK_DEADLOCK FALSE
PROPERTIES
    CommitsReturn
