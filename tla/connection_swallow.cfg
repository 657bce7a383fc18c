SPECIFICATION FairSpec
CONSTANTS
    Workers = {w1}
    Keys = {k1}
    Kinds <- MCSyncKinds
    Threshold = 3
    MaxCount = 4
    MayCrash = FALSE
PROPERTIES StormEnds
CHECK_DEADLOCK FALSE
