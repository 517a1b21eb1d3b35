SPECIFICATION LimiterSpec
CONSTANTS
    n1 = n1  n2 = n2
    Goroutines = {n1, n2}
    Levels <- MCLevels
    Limit <- MCLimit
    Window = 1
    CleanupGrace = 0
    MaxTicks = 3
    MaxAttempts = 3
INVARIANT LimitIsExact
CHECK_DEADLOCK FALSE
