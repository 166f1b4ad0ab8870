SPECIFICATION FairSpec
CONSTANTS
    j1 = j1
    j2 = j2
    w1 = w1
    w2 = w2
    Jobs = {j1, j2}
    Projects = {p1, p2}
    Workers = {w1, w2}
    Runs = {r1, r2}
    MaxAttempts = 3
    Faults = {"crash", "statement", "readiness", "cleanup", "stall"}
    Scopes <- FaultyAndRetried
    Stalling = {"publishing"}
    Null = Null
INVARIANTS
    LocksTell
    StatusTells
PROPERTIES
    CancelledStays
    SetupsEnd
CHECK_DEADLOCK FALSE
