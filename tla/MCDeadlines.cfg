CONSTANTS
    UpstreamTimeout = 4
    ShutdownTimeout = 0
    readHeaderTimeout = 1
    writeTimeoutHeadroom = 3
    MaxClock = 12
SPECIFICATION Spec
INVARIANTS
    SlowAnswersAreWritten
    DrainOutlivesRequests
