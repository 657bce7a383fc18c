SPECIFICATION FairContentSpec
CONSTANTS
    Notifications = {n1, n2}
    NoNotification = none
    Requests = {r1, r2}
    Workers = {w1, w2}
    Settings <- MCSettings
    MaxDeliveries = 3
    MaxFaults = 2
    MayCrash = TRUE
INVARIANTS AnnouncedOnce ProcessedPerDelivery AcceptedWasAnnounced ContentKept
PROPERTIES RowsSettle
CHECK_DEADLOCK FALSE
