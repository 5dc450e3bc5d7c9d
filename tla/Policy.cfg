SPECIFICATION FairSpec
CONSTANTS
    Threads = {t1, t2, t3}
    MaxSize = 2
    MayTimeout = TRUE
    MaxVersion = 1
    EvalTimeout = TRUE
    Deadline = 2
INVARIANTS
    TypeOK
    ActiveCounts
    TickerOutlivesEvals
PROPERTIES
    EveryCallEnds
    TickerReaped
