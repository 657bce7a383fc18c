SPECIFICATION FairSpec
CONSTANTS
    Workers = {w1, w2}
    Keys = {k1}
    Kinds <- MCLiveKinds
    Threshold = 2
    MaxCount = 2
    MayCrash = FALSE
INVARIANT NoSpuriousTrip
PROPERTIES OnlyManualReenable StormEnds TripAlerted
CHECK_DEADLOCK FALSE
