CONSTANTS
    p1 = p1
    p2 = p2
    p3 = p3
    Nobody = Nobody
    Foreign = Foreign
    Instances <- ThreeInstances
    Inodes <- FourInodes
    LockFiles <- TwoLocks
    Meddling <- NoMeddling
    Before <- OwnTraces
    MaxStarts = 2
    MaxMeddles = 0
SYMMETRY Symmetry
SPECIFICATION Spec
INVARIANTS
    ServingIsReachable
    RestartsRecover
