SPECIFICATION StoriesSpec
CONSTANTS
    Targets = {t1, t2}
    Crons = {c1, c2}
    Editors = {e1, e2}
    MaxAttempts = 2
    Occurrences = {o1, o2}
    MaxEdits = 4
    MaxFaults = 3
    Bounds <- SmallBounds
    Queries = {q1, q2, q3}
    Null = Null
INVARIANTS
    DeliveredOnce
    SettingsAgree
    RefreshedOnceFromFresh
PROPERTIES
    StoriesEnd
CHECK_DEADLOCK FALSE
