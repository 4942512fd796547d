SPECIFICATION Spec
CONSTANTS
    MaxEdits = 3
    ItemOf <- MCItemOf
    Syncs = {m1, m2}
    Saves = {m1, m2}
    MaxBatch = 2
    MaxEpoch = 2
    MaxReloads = 1
    Patient = FALSE
    Items <- MCItems
    Mode <- MCMode
    Keys <- MCKeys
    Values <- Edits
    Requests <- MCRequests
    NoRequest = NoRequest
    MaxFaults = 1
    essay = essay
    choice = choice
INVARIANTS
    TypeOK
    AckCoversDecided
    StoredOnce
    ReplayKeepsOrder
    ReplayLosesNothing
SYMMETRY Symmetry
CONSTRAINT OneMishap
