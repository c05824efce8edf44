SPECIFICATION FairSpec
CONSTANTS
    Screens = {"a", "b"}
    Missing = {"gone"}
    Elements <- SmallElements
    Shows <- BareShows
    Kind <- SmallKind
    Interactable <- SmallElements
    Leads <- SmallLeads
    Starts = {"a", "b"}
    Critical = {}
    Marks <- SmallNoMarks
    HasSuccess = FALSE
    SuccessScreens = {}
    SuccessElements = {}
    Heuristic = TRUE
    Patience = 0
    Doubts = {0, 6}
    MaxSteps = 10
    MaxScans = 2
    None = None
PROPERTIES
    Terminates
CHECK_DEADLOCK FALSE
