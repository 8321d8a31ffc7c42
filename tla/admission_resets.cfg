\* Spikes, admin resets, failures and restarts race with submits.
SPECIFICATION Spec
CONSTANTS
    w1 = w1
    w2 = w2
    w3 = w3
    m1 = m1
    m2 = m2
    Workers = {w1, w2}
    Models = {m1}
    RateLimit <- MCRateLimitOne
    QueueCapacity <- MCQueueCapacityOne
    MaxId = 4
    MaxCount = 3
    MaxResets = 2
    MaxFaults = 1
SYMMETRY Threads
\* The run is bounded by MaxId: when the ids are used up nothing is left to do.
CHECK_DEADLOCK FALSE
INVARIANTS
    JudgedAgainstOneState
    SpikeMatchesMatrix
    SpikeEvidenceIsFresh
PROPERTIES
    GateSpec
