SPECIFICATION Spec
CONSTANTS
    Participants = {p1, p2, p3}
    Cancels = {c1, c2}
    NumWorkers = 3
    MaxAttempts = 2
    MaxFaults = 1
    None = None
SYMMETRY ParticipantSymmetry
INVARIANTS
    RunInv
    FinalIffAllTerminal
    JobAndParticipantAgree
    AnalysisFollowsVerdict
PROPERTIES
    ImplementsRunContract
CHECK_DEADLOCK FALSE
