SPECIFICATION Spec
CONSTANTS
    Clients = {c1}
    IrqThread = IrqThread
    Timer = Timer
    System = System
    Null = Null
    MaxEvents = 1
INVARIANTS
    GlobalHolds
