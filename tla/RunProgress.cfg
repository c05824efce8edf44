SPECIFICATION ProgressFairSpec
CONSTANTS
    Participants = {p1, p2}
    Cancels = {c1}
    NumWorkers = 2
    MaxAttempts = 2
    MaxFaults = 1
    None = None
    Streams = {s1}
    MaxTicks = 2
INVARIANTS
    CompletedMeansAll
    AnnouncedInTime
PROPERTIES
    NeverCountsBack
    StreamsEnd
    EndsUnlessJobLost
CHECK_DEADLOCK FALSE
