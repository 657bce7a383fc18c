SPECIFICATION Spec
CONSTANTS
    Workers = {w1, w2}
    Items = {i1}
    Contents <- OneContent
    Adapters <- AbleOnly
    MaxRemote = 2
    MaxEdits = 0
    MaxFaults = 0
    MayCrash = FALSE
INVARIANTS MutualExclusion
CHECK_DEADLOCK FALSE
