SPECIFICATION FairSpec
CONSTANTS
    Products = {p1, p2}
    Settings <- Walks
    MaxClock = 3
    PushesUnseen = FALSE
    MayCrash = TRUE
INVARIANTS EveryChangeDelivered 
PROPERTIES EventuallyKnown
CHECK_DEADLOCK FALSE
