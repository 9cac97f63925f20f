SPECIFICATION FairSpec
CONSTANTS
    Hotplug1 = hotplug1
    Hotplug2 = hotplug2
    S19 = s19
    Wait = 2
    NoProc = NoProc
    Proc <- MCProc
    Limit <- MCLimit
INVARIANTS
    OneWriter
    StaleOnlyAfterKill
    OkMeansBound
PROPERTY ReadyGetsBound
CHECK_DEADLOCK FALSE
