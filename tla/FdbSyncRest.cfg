SPECIFICATION FairSpec
CONSTANTS
    NPorts = 1
    NMacs = 2
    MaxRows = 2
    Pins = {}
    NotifyFails = TRUE
PROPERTIES
    TeardownEnds
    Converges
CHECK_DEADLOCK FALSE
