SPECIFICATION Spec
CONSTANTS
    Workers = {w1}
    Keys = {k1, k2}
    Kinds <- MCSerialKinds
    Threshold = 3
    MaxCount = 4
    MayCrash = TRUE
INVARIANTS ConsecutiveFailuresDisable StatusAnnounced
CHECK_DEADLOCK FALSE
