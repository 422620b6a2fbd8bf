SPECIFICATION FairSpec
CONSTANTS
    Workers = {w1, w2}
    MaxAttempts = 2
    MaxVersion = 2
    MaxState = 1
PROPERTY PendingEnds
CHECK_DEADLOCK FALSE
