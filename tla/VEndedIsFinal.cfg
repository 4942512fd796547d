SPECIFICATION CastSpec
CONSTANTS
    CastCalls = {c1}
    LastQuestion = 1
    NoTimer = NoTimer
    MaxRevision = 7
    MaxCrossings = 0
    MaxPreviews = 2
PROPERTY EndedIsFinal
