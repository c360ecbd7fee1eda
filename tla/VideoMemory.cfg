SPECIFICATION LiveSpec
CONSTANTS
    Procs = {p1, p2}
    Nodes = {n1}
    Handles = {h1, h2}
    Null = Null
    MaxOpens = 1
    MaxLocks = 1
    MaxPending = 1
    MaxFds = 1
INVARIANTS
    RefCount
    LockCount
    NoDangling
PROPERTIES
    HandlesReturned
    Reclaimed
