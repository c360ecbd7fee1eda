SPECIFICATION FailingSpec
CONSTANTS
    Threads = {t1}
    NoThread = NoThread
    Records = {r1, r2}
    NumSlots = 2
    RepoCount = 3
    ErrorBits = {}
    MaxLost = 0
    Forced = FALSE
INVARIANTS
    SlotAccounting
