\* Three callers, three failures to open, a timeout of two ticks.
\* The breaker is passive: it rests when nobody calls it.
SPECIFICATION FairSpec
CHECK_DEADLOCK FALSE
CONSTANTS
    Callers = {c1, c2, c3}
    FailureThreshold = 3
    OpenTimeout = 2
    MaxGeneration = 8
INVARIANTS
    ProbeAccounted
    OpenIsQuiet
    BelowThreshold
PROPERTIES
    Recovery
    ProbeEnds
