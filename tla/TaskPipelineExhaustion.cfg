\* One failed statement on the only attempt of a task.
SPECIFICATION Spec
CONSTANTS
    e1 = e1
    e2 = e2
    s1 = s1
    s2 = s2
    w1 = w1
    w2 = w2
    k1 = k1
    Executions = {e1}
    IdempotencyKey <- NoKeys
    NoKey = NoKey
    MaxRetries <- NoRetry
    Unique = {}
    Routable = {e1}
    OutboxStores = {TRUE}
    Workers = {w1}
    Slots = {s1}
    Host <- OneHost
    BatchLimit = 1
    FaultKinds = {"db"}
    MaxFaults = 1
    NoExec = NoExec
INVARIANTS
    ExhaustionSynchronized
