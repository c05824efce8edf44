SPECIFICATION Spec
CONSTANTS
    Clients = {c1}
    MaxScreens = 3
    MaxJobs = 3
    MaxAttempts = 1
    None = None
    Findings <- MCFound
    Classifications <- MCFlowOnly
    Answers <- MCFlow
    Documents <- MCDocuments
INVARIANTS
    GraphIsWhole
CHECK_DEADLOCK FALSE
