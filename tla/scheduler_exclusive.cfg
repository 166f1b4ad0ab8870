SPECIFICATION Spec
CONSTANTS
    Ids = {i1, i2}
    OnceKeys = {once}
    CronKeys = {cron}
    Crons = {1, 2}
    Workers = {w1, w2}
    Claims = {c1, c2, c3}
    Handles <- AllHandled
    Lease = 2
    Backoff = 1
    MaxAttempts = 2
    Batch = 2
    Edits <- BootOnly
    SlowHandlers = FALSE
    MaxFaults = 1
    Null = Null
    Unused = Unused
    Gone = Gone
SYMMETRY Symmetry
INVARIANTS
    TypeOK
    MutualExclusion
    RetryBudget
CHECK_DEADLOCK FALSE
