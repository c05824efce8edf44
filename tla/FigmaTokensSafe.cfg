SPECIFICATION Spec
CONSTANTS
    Imports = {i1, i2}
    Links = {l1, l2}
    Lifetime = 3
    Buffer = 2
    Delay = 1
    MaxTime = 6
    MaxTries = 2
    None = None
SYMMETRY TokensSymmetry
INVARIANTS
    LinkIsKept
    OldAccountOnlyByOverlap
    TokenLasts
CHECK_DEADLOCK FALSE
