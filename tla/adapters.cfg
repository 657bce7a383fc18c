SPECIFICATION MCSpec
CONSTANTS
    Callers = {c1, c2}
    Setups <- MCSetups
    MaxTries = 2
    MaxCalls = 2
    MaxLogins = 2
    MaxFaults = 1
    Catalogue <- MCCatalogue
    StatusShops <- MCShops
    Configs <- MCConfigs
SYMMETRY MCSymmetry
INVARIANTS BookedOnce  MadeOnce NothingHidden RefusalHeard StatusSettles
CHECK_DEADLOCK FALSE
