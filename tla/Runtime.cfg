SPECIFICATION FairSpec
CONSTANTS
    Runtimes = {r1, r2}
    Nobody = Nobody
    Slots = {s1, s2}
    Caps = {1, 3}
    NoCap = NoCap
    MaxPages = 5
    Needs = {2, 3, 5, 6}
INVARIANTS
    TypeOK
    RegistrySound
    StoresAccounted
    RetryExact
PROPERTIES
    LockReleased
