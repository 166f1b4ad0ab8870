SPECIFICATION FairSpec
CONSTANTS
    Bounds <- SmallBounds
    Null = Null
INVARIANTS
    RowsLinked
    HistoryReadable
PROPERTIES
    EndsOnce
    NothingStaysRunning
CHECK_DEADLOCK FALSE
