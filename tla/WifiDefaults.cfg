SPECIFICATION FairSpec
CONSTANTS
    None = None
    Wishes <- MCWishes
    Concurrent = FALSE
INVARIANT MarkerMeansComplete
PROPERTIES
    OperatorKept
    LateRadioIsConfigured
