SPECIFICATION WithFairSpec
CONSTANTS
    Calls = {c1, c2, c3}
    Lease = 4
    MaxWait = 3
    Nobody = Nobody
    Stalls = FALSE
    Crashes = TRUE
    MaxMissed = 2
INVARIANTS
    InOrder
PROPERTIES
    IsMutex
    ChainIsMutex
    NobodyWaitsForEver
CHECK_DEADLOCK FALSE
