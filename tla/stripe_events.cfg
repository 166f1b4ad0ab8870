SPECIFICATION EventsFairSpec
CONSTANTS
    Once = {s1}
    Hourly = hourly
    MaxEnd = 2
    MaxChanges = 3
    MaxFaults = 1
    Workers = {w1, w2}
    Disputes = {d1}
    Credits = 3
    Paid = 2
    Disputed = 2
    Null = Null
INVARIANTS
    TypeOK
    CanceledOncePaid
    HoldsWhatWasLost
PROPERTIES
    NeverGoesBack
    RowCatchesUp
    WorkedOff
CHECK_DEADLOCK FALSE
