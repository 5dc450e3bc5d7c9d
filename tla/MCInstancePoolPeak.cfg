SPECIFICATION Spec
CONSTANTS
    Threads = {t1, t2}
    MaxSize = 1
    BorrowTimeout = FALSE
    None = None
    CloseSentinel = CloseSentinel
    MaxCalls = 2
    MaxVersion = 0
    MaxBuilds = 2
SYMMETRY Symmetry
INVARIANTS
    LiveAtMostMaxSize
