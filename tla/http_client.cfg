SPECIFICATION HttpSpec
CONSTANTS
    Threads = {t1, t2}
    Interval = 2
    Burst = 1
    Timeouts = {1}
    MaxTime = 4
    Policies <- MCPolicies
    MaxRetries = 2
    RetryAfters = {0, 3}
SYMMETRY MCSymmetry
INVARIANTS WindowBound EveryRequestPaid
PROPERTIES RetryAfterHonoured LimiterUsed CallsKept
CHECK_DEADLOCK FALSE
