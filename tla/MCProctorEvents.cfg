SPECIFICATION Spec
CONSTANTS
    Attempts = {att}
    Attempt = att
    NoAttempt = NoAttempt
    Batches = {b1, b2}
    Others = {other}
    Calls = {b1, b2, other}
    Incidents <- MCIncidents
    Threshold = 2
    Window = 5
    MaxBuffer = 3
    MaxLosses = 1
    MaxReloads = 1
    MaxFaults = 1
    b1 = b1
    b2 = b2
    other = other
INVARIANTS
    TypeOK
    ChainIsLinear
    ThirdStrikeEnds
    VerdictBacked
    NothingVanishes
SYMMETRY Symmetry
CONSTRAINT OneMishap
