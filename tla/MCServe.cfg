CONSTANTS
    c1 = c1
    c2 = c2
    c3 = c3
    Conns <- Mixed
    MaxConnections = 2
    Cred <- Ids
    UIDs <- One
    GIDs <- One
    Self = 0
    MaxFaults = 1
SPECIFICATION FairSpec
INVARIANTS
    TypeOK
    SlotsMatchConnections
    DescriptorsBounded
    RefusedHoldNothing
    ClientsCannotStopIt
    DrainingSparesRequests
    NilMeansDrained
    NothingLeftBehind
PROPERTIES
    StopsOnDeadline
    IdleSlotsAreReclaimed
