CONSTANTS
    r1 = r1
    r2 = r2
    r3 = r3
    Requests <- ThreeRequests
    Kinds <- Longest
    Statuses <- MainStatuses
    MaxConcurrent = 2
    MaxRate = 1
    burstSeconds = 1
    Token = 2
    MaxClock = 2
SYMMETRY Symmetry
SPECIFICATION Spec
INVARIANTS
    TypeOK
    SlotsMatchHolders
    SilentOnlyIfGone
    LoudRecordsArePaced
PROPERTIES
    BurstCoversConcurrency
    LimiterIsRateLimit
    AnsweredOnce
    WarningsAreRateLimited
