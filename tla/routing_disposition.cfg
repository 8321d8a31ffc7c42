\* The disposition races with all routing traffic; resets run alone.
SPECIFICATION Spec
CONSTANTS
    w1 = w1
    w2 = w2
    Workers = {w1, w2}
    MixedWeighted = 1
    SmartCases <- ShortCases
    BatchSizes = {1}
    SmartRequests <- TwoRequests
    Endpoints = {"route", "batch", "smart", "mixed", "disposition", "reset"}
    CleanResets = TRUE
    MaxOps = 3
    MaxFaults = 1
SYMMETRY Threads
\* The run is bounded by MaxOps.
CHECK_DEADLOCK FALSE
INVARIANTS
    ConfirmedIsOneWholeBatch
    CleanRunConfirms
    LedgerCounted
