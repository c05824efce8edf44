SPECIFICATION Spec
CONSTANTS
    Clients = {c1, c2}
    Runs = {r1, r2}
    Slots = {s1, s2}
    Tasks = {t1, t2}
    MaxPeople = 2
    MaxRequests = 5
    None = None
SYMMETRY StudySymmetry
INVARIANTS
    PublishesSerialised
    OnlyOverlapStartsTwo
    SizeNeverOvercounts
    OnlyAClashStrandsARun

    
CHECK_DEADLOCK FALSE
