SPECIFICATION FairSpec
CONSTANTS
    Threads = {t1, t2}
    Nobody = Nobody
    Names = {a, b}
    Defaults = {a}
    MaxSize = 1
    MayTimeout = TRUE
    MaxDepth = 3
    MaxDispatches = 2
    MaxCalls = 5
INVARIANTS
    RegistrationsKept
    FreshDispatch
PROPERTIES
    CallsEnd
