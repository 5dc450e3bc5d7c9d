SPECIFICATION Spec
CONSTANTS
    Sizes = {1, 2}
    MaxHeap = 6
    Deadline = 2
    MaxVersion = 3
INVARIANTS
    TypeOK
    DocumentSurvives
    ScratchPastInput
    NoHeapLeak
    CleanAtRest
