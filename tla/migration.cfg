\* Two threads complete and read receipts across two route swaps.
SPECIFICATION Spec
CONSTANTS
    w1 = w1
    w2 = w2
    a = a
    b = b
    c = c
    none = none
    Workers = {w1, w2}
    Models = {a, b, c}
    None = none
    Swaps <- ChainAndBack
    MaxSwaps = 2
    MaxCalls = 3
SYMMETRY Threads
\* The run is bounded by MaxCalls and MaxSwaps.
CHECK_DEADLOCK FALSE
INVARIANTS
    TypeOK
    MigratedIsRecordedOnce
    RowsNameSwapsInForce
    ReceiptNamesSwapsInForce
    VerdictFollowsCount
