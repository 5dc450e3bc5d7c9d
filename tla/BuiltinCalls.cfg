SPECIFICATION SpecAll
CONSTANTS
    Width = 4
    MemorySizes = {5, 9}
    DocSizes = {0, 2, 3, 4}
    ChunkBytes = 3
    ScanBytes = 7
    ResultBytes = 5
    InputBytes = 3
    DataBytes = 3
    MaxPieces = 3
    MaxOperands = 2
    Other = Other
INVARIANTS
    ScanExact
    WritesExact
    StoredLoads
    SprintfExact
