SPECIFICATION Spec
CONSTANTS
    Attempts = {a1}
    NoAttempt = NoAttempt
    TheAttempt = a1
    Calls = {m1, c1}
    Saves = {m1, s1}
    Submits = {m1}
    Items <- MCItems
    Mode <- MCMode
    Keys <- MCKeys
    Values = {x, y}
    Requests <- MCRequests
    NoRequest = NoRequest
    Batches <- NoBatch
    NoSeal = NoSeal
    Wants <- MCWants
    Reopens = FALSE
    MaxFaults = 1
    essay = essay
    choice = choice
    k1 = k1
    k2 = k2
    k3 = k3
    x = x
    y = y
INVARIANT ReceiptMeansSubmitted
