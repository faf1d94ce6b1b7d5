CONSTANTS
    r1 = r1
    r2 = r2
    r3 = r3
    Requests <- TwoRequests
    Kinds <- Routes
    Statuses <- MainStatuses
    MaxConcurrent = 1
    MaxRate = 1
    burstSeconds = 1
    Token = 2
    MaxClock = 1
SPECIFICATION Spec
INVARIANTS
    StatusOnlyWhenComplete
