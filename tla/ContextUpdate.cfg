SPECIFICATION ContextSpec
CONSTANTS
    Clients = {c1, c2}
    NoClient = NoClient
    States = {s1}
    Values = {0, 1}
    ResetValue = 0
    Unset = Unset
    MaxCommits = 4
CHECK_DEADLOCK FALSE
INVARIANTS
    RegistersRight
    DeltaFree
PROPERTIES
    UpdateReturns
