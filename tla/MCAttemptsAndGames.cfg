SPECIFICATION PartSpec
CONSTANTS
    Attempts = {a1, a2}
    NoAttempt = NoAttempt
    Days = {d1, d2}
    NoDay = NoDay
    Starts = {s1, s2}
    Calls = {c1, c2}
    MaxFaults = 1
    Players = {n1}
    Bots = {}
    Joins = {j1}
    Answering = {c1, c2}
    Computing = {k1, k2}
    Questions = 1
    Tokens = {t1}
    NoToken = NoToken
    NoQuestion = NoQuestion
    NoAnswer = NoAnswer
    AutoMode = TRUE
    MaxEvents = 2
    n1 = n1
    t1 = t1
    GameRequests <- MCGameRequests
INVARIANTS
    SingleWriter
    OneAttemptPerDay
    StartNamesItsDay
    TerminalReleasesLease
    ScoresAddUp
PROPERTIES
    ImplementsRegistry
    SameDayNeverDenied
    LeaseComesBack
    FirstAnswerFinal
    QuestionEnds
