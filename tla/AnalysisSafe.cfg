SPECIFICATION Spec
CONSTANTS
    p1 = p1
    p2 = p2
    People = {p1, p2}
    None = None
    Start = "list"
    Model = "heuristic"
    Citable = {"completion_rate"}
    MinSample = 2
    MinRepeats = 2
    SampleHigh = 3
    SampleMedium = 2
    MaxAttempts = 2
    MaxMoves = 2
    MaxScans = 1
    HasSuccess = TRUE
    SuccessScreens = {}
    SuccessElements = {"buy", "skip"}
    Interactable = {"item", "info", "skip", "buy"}
    Noticed = {"item", "buy", "more"}
    Plain = {"BACK"}
    Expected <- MCExpected
    Marks <- MCMarks
    Kind <- MCKind
    Screens <- MCScreens
    On <- MCOn
    Leads <- MCLeads
    Critical <- MCCritical
    Traits <- MCTraits
    Benchmark <- MCBenchmark
    Siblings <- MCSiblings
    Present <- MCPresent
    Relationships <- MCRelationships
INVARIANTS
    AnalysisInv
    QuietMeansCurrent
    NobodyBeatsTheBaseline
    SegmentsAddUp
CHECK_DEADLOCK FALSE
