SPECIFICATION FairSpecAll
CONSTANTS
    Threads = {t1, t2, t3}
    MaxSize = 1
    BorrowTimeout = FALSE
    None = None
    CloseSentinel = CloseSentinel
    MaxCalls = 3
    MaxVersion = 1
    MaxBuilds = 3
    MaxInterrupts = 1
INVARIANTS
    SlotsAccounted
    InstancesAccounted
    NoStaleDecision
PROPERTIES
    CallsReturn
