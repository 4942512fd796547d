SPECIFICATION Spec
CONSTANTS
    MaxEdits = 4
    ItemOf <- MCItemOf
    Syncs = {m1, m2}
    Saves = {m1, m2}
    MaxBatch = 4
    MaxEpoch = 1
    MaxReloads = 0
    Patient = TRUE
    Items <- MCItems
    Mode <- MCMode
    Keys <- MCKeys
    Values <- Edits
    Requests <- MCRequests
    NoRequest = NoRequest
    MaxFaults = 0
    essay = essay
    choice = choice
INVARIANT NoEditLost
