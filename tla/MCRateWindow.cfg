CONSTANTS
    c1 = c1
    c2 = c2
    c3 = c3
    Callers <- MCCallers
    Token = 5
    Rate = 2
    Capacity = 10
    MaxClock = 7
SYMMETRY Symmetry
SPECIFICATION WSpec
INVARIANTS
    RateBound
    WindowBound
PROPERTY
    RefusalsAreShort
