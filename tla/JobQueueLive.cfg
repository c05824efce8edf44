SPECIFICATION FairSpec
CONSTANTS
    Jobs = {j1, j2}
    Targets = {j1}
    Tracked = {j1}
    Workers = {w1, w2}
    Cancels = {c1}
    Hosted = TRUE
    MaxAttempts = 2
    MaxFaults = 2
    None = None
PROPERTIES
    JobsSettleWhileALoopLives
CHECK_DEADLOCK FALSE
