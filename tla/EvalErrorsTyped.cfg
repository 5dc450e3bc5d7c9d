SPECIFICATION FairSpecAll
CONSTANTS
    Names = {x}
    MaxId = 0
    Absent = Absent
    NotInt = NotInt
    Yes = Yes
    No = No
    MaxExns = 4
    MaxHandlers = 1
INVARIANTS
    RaisesOpaWasmError
