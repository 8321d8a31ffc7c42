\* One canary run over a window that its share does not divide evenly.
SPECIFICATION Spec
CONSTANTS
    w1 = w1
    w2 = w2
    v1 = v1
    v2 = v2
    v3 = v3
    None = None
    Workers = {w1, w2}
    Versions = {v1, v2, v3}
    FirstRegistry <- MCRegistry
    Settings <- OddWindow
    P95s = {2400, 2500, 2600}
    MaxOps = 1
    MaxTraces = 1
    MaxEdits = 0
    MaxRestarts = 0
SYMMETRY Threads
\* The run is bounded by MaxOps.
CHECK_DEADLOCK FALSE
INVARIANT
    ExposureNeverExceeds
