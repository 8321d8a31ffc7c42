\* Drills and admin resets one after the other, with failures and restarts.
SPECIFICATION ViewSpec
CONSTANTS
    w1 = w1
    w2 = w2
    Workers = {w1, w2}
    FailureThreshold = 3
    CooldownProbes = 1
    MaxAttempts = 3
    Conditions = {"healthy", "slow", "error", "quota"}
    Script <- ShippedScript
    Serial = TRUE
    Resets = TRUE
    MaxOps = 4
    MaxFaults = 2
SYMMETRY Threads
\* The run is bounded by MaxOps.
CHECK_DEADLOCK FALSE
INVARIANTS
    LedgerIsOneRun
    ConfirmedIsOneDrill
    QuietViewsAgree
PROPERTIES
    ThreadsRunBreaker
