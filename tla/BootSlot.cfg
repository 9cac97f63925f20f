SPECIFICATION BootSpec
CONSTANTS
    Bootargs <- MCBootargs
    Appended <- MCAppended
    Capacity = 4
INVARIANTS
    WritesTheBootedSlot
    ProtectedStayReadOnly
    KeptOrPanic
CHECK_DEADLOCK FALSE
