SPECIFICATION LiveSpec
CONSTANTS
    Clients = {c1}
    IrqThread = IrqThread
    Timer = Timer
    System = System
    Null = Null
    MaxEvents = 1
INVARIANTS
    SemaphoreAccounting
    PoweredWhileBusy
    ContextCurrent
PROPERTIES
    DelayedSparesOn
    CallsReturn
