SPECIFICATION Spec
CONSTANTS
    Participants = {p1, p2}
    Cancels = {c1}
    NumWorkers = 2
    MaxAttempts = 2
    MaxFaults = 0
    None = None
PROPERTIES
    CancelledStaysCancelled
CHECK_DEADLOCK FALSE
