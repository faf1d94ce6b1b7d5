CONSTANTS
    d1 = d1
    d2 = d2
    Rejected = Rejected
    Numbers = {"1"}
    maxListEntries = 2
    maxLabelPrefixes = 2
    minShutdownTimeout = 2
    maxShutdownTimeout = 4
    minUpstreamTimeout = 1
    maxUpstreamTimeout = 3
    maxResponseBytesLimit = 2
    maxConcurrentLimit = 2
    maxRateLimit = 1
    DefaultMaxResponseBytes = 1
    DefaultMaxConcurrent = 1
    DefaultUpstreamTimeout = 2
    responseMemoryFactor = 3
    memoryHeadroomFactor = 2
    MaxInt64 = 24
    MinInt64 <- LowestInt64
    Scenarios <- SomeScenarios
    Arrivals <- SomeArrivals
    DockerSockets <- TwoSockets
    maxPathComponents = 5
    MaxSteps = 12
SPECIFICATION Spec
INVARIANTS
    NothingLeft
    WarningIsTruthful
PROPERTIES
    DockerSpared
    StopsForMistakes
