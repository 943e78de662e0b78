SPECIFICATION FairSpec
CONSTANTS
    NoJob = NoJob
    JobIds = {j1, j2}
    Workers = {w1, w2}
    Operators = {}
    MaxAttempts = 3
    MayCrash = FALSE
PROPERTIES
    NoEarlyRetry
    SettledOrDead
CHECK_DEADLOCK FALSE
