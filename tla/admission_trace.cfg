\* A spike clears the ledger while a submit is between its stores.
SPECIFICATION Spec
CONSTANTS
    w1 = w1
    w2 = w2
    w3 = w3
    m1 = m1
    m2 = m2
    Workers = {w1, w2}
    Models = {m1}
    RateLimit <- MCRateLimitOne
    QueueCapacity <- MCQueueCapacityOne
    MaxId = 3
    MaxCount = 1
    MaxResets = 1
    MaxFaults = 0
SYMMETRY Threads
\* The run is bounded by MaxId: when the ids are used up nothing is left to do.
CHECK_DEADLOCK FALSE
INVARIANTS
    QueuedIdsTraceable
