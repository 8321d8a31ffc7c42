\* The blocked count of /resilience/rate-limit with two tiers in use.
SPECIFICATION Spec
CONSTANTS
    w1 = w1
    w2 = w2
    w3 = w3
    m1 = m1
    m2 = m2
    Workers = {w1, w2}
    Models = {m1, m2}
    RateLimit <- MCRateLimit
    QueueCapacity <- MCQueueCapacity
    MaxId = 3
    MaxCount = 0
    MaxResets = 0
    MaxFaults = 0
SYMMETRY Threads
\* The run is bounded by MaxId: when the ids are used up nothing is left to do.
CHECK_DEADLOCK FALSE
INVARIANTS
    BlockedIsANumber
