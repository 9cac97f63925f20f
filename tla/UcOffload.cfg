SPECIFICATION FairSpec
CONSTANTS
    NPorts = 2
    LutSize = 2
    Bridge = {br0, br1}
    NoBridge = NoBridge
INVARIANTS
    NoStaleAddress
    OnlyMembersForward
    ConfiguredForMembers
    AgreesWithBridge
    FaultMeansClosed
    FaultNeedsFailure
PROPERTIES
    ImplementsPeerDomain
    CallbackEnds
