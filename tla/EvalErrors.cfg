SPECIFICATION FairSpecAll
CONSTANTS
    Names = {x, y}
    MaxId = 1
    Absent = Absent
    NotInt = NotInt
    Yes = Yes
    No = No
    MaxExns = 4
    MaxHandlers = 2
INVARIANTS
    ReadyIsCallable
    EntrypointDeclared
    HostErrorSurfaces
    OutcomeExact
PROPERTIES
    WalkEnds
