SPECIFICATION FairSpec
CONSTANTS
    Clients = {"patient", "hasty"}
    Bound <- Bounds
    Null = Null
INVARIANTS
    RegistryTells
    ThreadWhole
PROPERTIES
    CancelTakesEmptyTurn
    StopsTakeEffect
CHECK_DEADLOCK FALSE
