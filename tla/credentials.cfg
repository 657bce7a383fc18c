SPECIFICATION FairSpec
CONSTANTS
    Workers = {w1, w2}
    Setups <- MCSetups
    MaxTries = 2
    MaxIssued = 4
    MaxDue = 2
    MaxAuthorize = 1
    MaxFaults = 2
INVARIANTS KeyKept NotLockedOut ImportOnce
PROPERTIES Refreshed
CHECK_DEADLOCK FALSE
