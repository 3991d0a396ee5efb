\* Two executions, one dispatcher with a batch of one row; failures of the API, of publishes and of the outbox; a store with an outbox or without.
SPECIFICATION StoreSpec
CONSTANTS
    e1 = e1
    e2 = e2
    s1 = s1
    s2 = s2
    w1 = w1
    w2 = w2
    k1 = k1
    Executions = {e1, e2}
    IdempotencyKey <- NoKeys
    NoKey = NoKey
    MaxRetries <- MixedRetries
    Unique = {e1}
    Routable = {e1, e2}
    OutboxStores = {TRUE}
    Workers = {w1}
    Slots = {s1}
    Host <- OneHost
    BatchLimit = 1
    FaultKinds = {"api", "net", "outbox"}
    MaxFaults = 1
    NoExec = NoExec
PROPERTIES
    OutboxDrains
    OutboxFinishes
    FallbackFinishes
