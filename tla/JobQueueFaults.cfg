SPECIFICATION Spec
CONSTANTS
    Jobs = {j1, j2, j3}
    Targets = {j1, j2}
    Tracked = {j1, j2}
    Workers = {w1, w2}
    Cancels = {c1}
    Hosted = FALSE
    MaxAttempts = 2
    MaxFaults = 2
    None = None
SYMMETRY LoopSymmetry
INVARIANTS
    OneOwner
    ExactlyOnce
    FailureIsRecorded
    QueueInv
PROPERTIES
    ImplementsContract
CHECK_DEADLOCK FALSE
