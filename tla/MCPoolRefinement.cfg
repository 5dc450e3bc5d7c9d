SPECIFICATION Spec
CONSTANTS
    Threads = {t1, t2, t3}
    MaxSize = 2
    BorrowTimeout = TRUE
    None = None
    CloseSentinel = CloseSentinel
    MaxCalls = 3
    MaxVersion = 1
    MaxBuilds = 3
SYMMETRY Symmetry
INVARIANTS
    TypeOK
    ExclusiveLoan
    SlotsConserved
    HeldIsLive
    IdleHealthy
    NoStaleDecision
    EvaluationsBounded
PROPERTIES
    VersionMonotonic
    ImplementsService
