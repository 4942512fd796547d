SPECIFICATION PartSpec
CONSTANTS
    Attempts = {a1}
    NoAttempt = NoAttempt
    TheAttempt = a1
    Calls = {m1, m2, c1}
    Saves = {m1, m2}
    Submits = {m1, m2}
    Items <- MCItems
    Mode <- MCMode
    Keys <- MCKeys
    Values = {x, y}
    Requests <- MCRequests
    NoRequest = NoRequest
    Batches <- TwoAnswers
    NoSeal = NoSeal
    Wants <- MCWants
    Reopens = FALSE
    MaxFaults = 0
    essay = essay
    choice = choice
    k1 = k1
    k2 = k2
    k3 = k3
    x = x
    y = y
    Mails = {e1, e2}
    Urgent = {e1}
    Resets = {e1}
    Key <- MCKey
    NoKey = NoKey
    Workers = {w1}
    NoMail = NoMail
    MaxAttempts = 3
    MaxMishaps = 1
    e1 = e1
    e2 = e2
    k = k
    CastCalls = {c1, c2}
    LastQuestion = 1
    NoTimer = NoTimer
    MaxRevision = 7
    MaxCrossings = 1
    MaxPreviews = 2
INVARIANTS
    MailOnce
    LogIsComplete
PROPERTIES
    LessonMovesForward
    SealedCloses
    QueueDrains
    QuestionCloses
CONSTRAINT OneDetour
