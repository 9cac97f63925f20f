SPECIFICATION Spec
CONSTANTS
    NPorts = 2
    NMacs = 1
    MaxRows = 1
    Pins = {0}
    NotifyFails = FALSE
INVARIANTS
    NoFalseDelete
    Covered
    NoUseAfterFree
    SyncAlive
PROPERTY TakeoverStands
CHECK_DEADLOCK FALSE
