\* One execution with a unique lock, created with an outbox row or without,
\* two slots in one worker, every kind of failure.
SPECIFICATION Spec
CONSTANTS
    e1 = e1
    e2 = e2
    s1 = s1
    s2 = s2
    w1 = w1
    w2 = w2
    k1 = k1
    Executions = {e1}
    IdempotencyKey <- NoKeys
    NoKey = NoKey
    MaxRetries <- OneRetry
    Unique = {e1}
    Routable = {e1}
    OutboxStores = {TRUE, FALSE}
    Workers = {w1}
    Slots = {s1, s2}
    Host <- OneHost
    BatchLimit = 1
    FaultKinds = {"api", "net", "outbox", "db", "deadline", "inner", "lease", "abort", "crash"}
    MaxFaults = 3
    NoExec = NoExec
SYMMETRY SlotSymmetry
INVARIANTS
    ClaimExclusive
    RetriesExact
    PublishedMeansEnqueued
PROPERTIES
    OutcomeFinal
    ImplementsTaskExecution
