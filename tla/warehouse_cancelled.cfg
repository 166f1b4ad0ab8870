SPECIFICATION Spec
CONSTANTS
    j1 = j1
    j2 = j2
    w1 = w1
    w2 = w2
    Jobs = {j1, j2}
    Projects = {p1}
    Workers = {w1, w2}
    Runs = {r1, r2}
    MaxAttempts = 2
    Faults = {}
    Scopes <- TwoWorkers
    Stalling = {}
    Null = Null
INVARIANTS
    CancelledLeavesNothing
CHECK_DEADLOCK FALSE
