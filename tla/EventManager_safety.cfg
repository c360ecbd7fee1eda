SPECIFICATION Spec
CONSTANTS
    Threads = {t1, t2}
    NoThread = NoThread
    Records = {r1, r2, r3}
    NumSlots = 2
    RepoCount = 3
    ErrorBits = {30}
    MaxLost = 1
    Forced = TRUE
SYMMETRY Symmetry
INVARIANTS
    TypeOK
    SubmitFlushes
    SubmitSeesQueue
    NoEarlyDelivery
    NoStaleInterrupt
    RepoQueuesSuffice
    InterruptBalance
    PixelInOrder
