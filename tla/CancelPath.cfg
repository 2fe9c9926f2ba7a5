SPECIFICATION Spec
CONSTANTS
    MaxId = 2
    MaxHost = 1
    MaxCancel = 2
    MaxAnswer = 1
CHECK_DEADLOCK FALSE
INVARIANTS OnlyCancelledShut CellsNameLiving
PROPERTIES CancelEnds
