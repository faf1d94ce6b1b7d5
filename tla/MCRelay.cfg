CONSTANTS
    r1 = r1
    r2 = r2
    b1 = b1
    b2 = b2
    b3 = b3
    None = None
    NoLabels = NoLabels
    containerIDLength = 2
    maxImageReferenceBytes = 4
    minAPIVersionLength = 3
    maxAPIVersionLength = 4
    Inputs <- SomeInputs
    Requests <- TwoRequests
    Asks <- SomeAsks
    Bodies <- SomeBodies
    Buffers <- ThreeBuffers
    maxBytes = 2
    maxPooledBuffer = 3
    MinRead = 1
    Labelled <- LabelledBy
    LabelPrefixes <- OnlyP
SYMMETRY Symmetry
SPECIFICATION Spec
INVARIANTS
    ClassifyMeetsTable
    VerdictOfWholeBody
    RepliesAreOwn
    MemoryBounded
