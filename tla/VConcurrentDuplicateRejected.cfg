SPECIFICATION ResponseSpec
CONSTANTS
    Items <- MCItems
    Mode <- MCMode
    Keys <- MCKeys
    Values = {x, y}
    Requests <- MCRequests
    NoRequest = NoRequest
    Saves = {s1, s2}
    MaxFaults = 0
    essay = essay
    choice = choice
    foreign = foreign
    k1 = k1
    k2 = k2
    k3 = k3
    k4 = k4
    k5 = k5
    k6 = k6
    k7 = k7
    k8 = k8
    k9 = k9
    x = x
    y = y
INVARIANT ConcurrentDuplicateRejected
