SPECIFICATION FairSpec
CONSTANTS
    Pollers = {w1, w2}
    MaxUid = 3
    Setups <- MCSetups
    Limit = 2
    MaxFaults = 1
    MaxMarks = 1
INVARIANT MailKept
PROPERTIES BacklogDrains
CHECK_DEADLOCK FALSE
