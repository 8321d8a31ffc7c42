\* Weighted batches race with each other, a mixed batch and smart requests.
SPECIFICATION Spec
CONSTANTS
    w1 = w1
    w2 = w2
    Workers = {w1, w2}
    MixedWeighted = 2
    SmartCases <- ShortCases
    BatchSizes = {3, 7}
    SmartRequests <- TwoRequests
    Endpoints = {"batch", "reset"}
    CleanResets = FALSE
    MaxOps = 3
    MaxFaults = 1
SYMMETRY Threads
\* The run is bounded by MaxOps.
CHECK_DEADLOCK FALSE
INVARIANTS
    SequenceAccounted
    SplitNeverDrifts
    TensValidate
