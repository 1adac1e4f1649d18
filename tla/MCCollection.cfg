SPECIFICATION FairSpec
CONSTANTS
    Hosts <- PhysicalNodes
    HostOf <- TwoHosts
    Clients = {laptop}
    ScanInterval = 1
    None = None
INVARIANTS
    TypeOK
    NoOverlappingWl
    FailuresAreContained
    AssociationsAreReal
PROPERTY PollEnds
