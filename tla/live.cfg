\* The shipped timeline, scraped on time but for the faults.
SPECIFICATION Spec
CONSTANTS
    t1 = t1
    t2 = t2
    Threads = {t1, t2}
    TicksPer10s = 4
    ScrapeInterval = 2
    ScrapeOffset = 1
    HoldFor = 12
    MaxTime = 70
    MaxTotal = 2
    MaxRestarts = 1
    MaxLost = 2
INVARIANTS
    TypeOK
    AlertsFireInOrder
    EveryFireMarked
    GrafanaMatchesTerminal
    TotalCountsScrapes
PROPERTIES
    AllFourFire
