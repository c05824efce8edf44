SPECIFICATION Spec
CONSTANTS
    Screens = {"home", "form", "help", "done"}
    Missing = {}
    Elements <- SignupElements
    Shows <- SignupShows
    Kind <- SignupKind
    Interactable <- SignupPresses
    Leads <- SignupLeads
    Starts = {"home"}
    Critical = {"form"}
    Marks <- FormRole
    HasSuccess = TRUE
    SuccessScreens = {"help"}
    SuccessElements = {}
    Heuristic = TRUE
    Patience = 0
    Doubts = {0, 3, 6}
    MaxSteps = 7
    MaxScans = 3
    None = None
INVARIANTS
    WalkInv
    WithinRecursionLimit
    LogFollowsState
    CompletionIsEarned
    TrailIsWalkable
    PatienceNeedsBareScreen
CHECK_DEADLOCK FALSE
