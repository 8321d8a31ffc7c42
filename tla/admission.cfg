\* Racing submits and one failure, nothing reset.
SPECIFICATION ViewSpec
CONSTANTS
    w1 = w1
    w2 = w2
    w3 = w3
    m1 = m1
    m2 = m2
    Workers = {w1, w2, w3}
    Models = {m1, m2}
    RateLimit <- MCRateLimit
    QueueCapacity <- MCQueueCapacity
    MaxId = 4
    MaxCount = 0
    MaxResets = 0
    MaxFaults = 1
SYMMETRY Threads
\* The run is bounded by MaxId: when the ids are used up nothing is left to do.
CHECK_DEADLOCK FALSE
INVARIANTS
    TypeOK
    BooksBalance
    RepliesTraceable
    ViewsConsistent
