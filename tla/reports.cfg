\* Two threads run and read the reports; the registry is edited, the process
\* restarted with other tables.
SPECIFICATION Spec
CONSTANTS
    w1 = w1
    w2 = w2
    v1 = v1
    v2 = v2
    v3 = v3
    None = None
    Workers = {w1, w2}
    Versions = {v1, v2, v3}
    FirstRegistry <- MCRegistry
    Settings <- AllSettings
    P95s = {2400, 2500, 2600}
    MaxOps = 3
    MaxTraces = 4
    MaxEdits = 2
    MaxRestarts = 1
SYMMETRY Threads
\* The run is bounded by MaxOps.
CHECK_DEADLOCK FALSE
INVARIANTS
    EndpointsAnswer
    AlertFollowsInjection
    ReportsReconcile
    GatesHoldTheLine
PROPERTIES
    ConfirmedNamesOneRelease
