SPECIFICATION FairSpec
CONSTANTS
    Ids = {i1}
    OnceKeys = {once}
    CronKeys = {cron}
    Crons = {1}
    Workers = {"new", "old"}
    Claims = {c1, c2}
    Handles <- NotYetHandled
    Lease = 1
    Backoff = 1
    MaxAttempts = 2
    Batch = 2
    Edits <- UserEdits
    SlowHandlers = TRUE
    MaxFaults = 1
    Null = Null
    Unused = Unused
    Gone = Gone
INVARIANTS
    RecurringNeverDropped
PROPERTIES
    JobsGoOn
CHECK_DEADLOCK FALSE
