CONSTANTS
    p1 = p1
    p2 = p2
    p3 = p3
    Nobody = Nobody
    Foreign = Foreign
    Instances <- TwoInstances
    Inodes <- ThreeInodes
    LockFiles <- TwoLocks
    Meddling <- AnyMeddling
    Before <- Anything
    MaxStarts = 2
    MaxMeddles = 2
SYMMETRY TwoSymmetry
SPECIFICATION Spec
INVARIANTS
    TypeOK
    OneInstance
    PublishedMode
PROPERTIES
    ForeignEntriesSpared
