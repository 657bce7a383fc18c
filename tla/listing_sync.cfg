SPECIFICATION FairSpec
CONSTANTS
    Workers = {w1, w2}
    PageSize = 2
    Settings <- MCSettings
    MaxRows = 3
    MaxGone = 1
    MaxWalks = 1
    MaxFailures = 1
INVARIANTS NothingSkipped WalkComplete
PROPERTIES WalksEnd EventuallyFetched
CHECK_DEADLOCK FALSE
