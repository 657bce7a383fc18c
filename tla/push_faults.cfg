SPECIFICATION FairSpec
CONSTANTS
    Workers = {w1}
    Items = {i1, i2}
    Contents <- TwoContents
    Adapters <- AbleOrNot
    MaxRemote = 6
    MaxEdits = 2
    MaxFaults = 2
    MayCrash = TRUE
INVARIANTS LinkOwnsRemote OneProductPerLoss LinkTellsRemote
PROPERTIES LockRecovered Converges
CHECK_DEADLOCK FALSE
