SPECIFICATION LiveSpec
CONSTANTS
    Threads = {t1, t2}
    NoThread = NoThread
    Records = {r1, r2}
    NumSlots = 1
    RepoCount = 3
    ErrorBits = {}
    MaxLost = 0
    Forced = FALSE
PROPERTIES
    EventuallyDelivered
    ImplementsDelivery
