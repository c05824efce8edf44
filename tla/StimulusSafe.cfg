SPECIFICATION Spec
CONSTANTS
    Clients = {c1, c2}
    MaxScreens = 3
    MaxJobs = 3
    MaxAttempts = 1
    None = None
    Findings <- MCFindings
    Classifications <- MCClassifications
    Answers <- MCAnswers
    Documents <- MCDocuments
SYMMETRY ClientSymmetry
INVARIANTS
    StimulusInv
    KeysClashOnlyByOverlap
    EveryEdgeCanFire
    OneDestination
    SomebodyInfers
CHECK_DEADLOCK FALSE
