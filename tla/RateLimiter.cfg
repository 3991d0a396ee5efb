\* Three requests through two processes whose clocks differ, a limit of two in a window of four ticks.
SPECIFICATION LimiterSpec
CONSTANTS
    Requests = {r1, r2, r3}
    Processes = {p1, p2}
    Limit = 2
    Window = 4
    Second = 3
    MaxSkew = 1
    MaxDelay = 1
    MaxClock = 7
SYMMETRY RateSymmetry
INVARIANTS
    WindowBound
PROPERTIES
    RetryAfterSuffices
CHECK_DEADLOCK FALSE
