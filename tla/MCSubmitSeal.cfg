SPECIFICATION Spec
CONSTANTS
    Attempts = {a1}
    NoAttempt = NoAttempt
    TheAttempt = a1
    Calls = {m1, m2, c1}
    Saves = {m1, m2, s1}
    Submits = {m1, m2}
    Items <- MCItems
    Mode <- MCMode
    Keys <- MCKeys
    Values = {x, y}
    Requests <- MCRequests
    NoRequest = NoRequest
    Batches <- OneAnswer
    NoSeal = NoSeal
    Wants <- MCWants
    Reopens = TRUE
    MaxFaults = 1
    essay = essay
    choice = choice
    k1 = k1
    k2 = k2
    k3 = k3
    x = x
    y = y
INVARIANTS
    OneSealOneReceipt
    SealKeepsPromises
SYMMETRY Symmetry
