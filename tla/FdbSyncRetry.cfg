SPECIFICATION FairSpec
CONSTANTS
    NPorts = 1
    NMacs = 2
    MaxRows = 2
    Pins = {}
    NotifyFails = TRUE
PROPERTY RetryRepairs
CHECK_DEADLOCK FALSE
