SPECIFICATION PartSpec
CONSTANTS
    Items <- MCItems
    Mode <- MCMode
    Keys <- MCKeys
    Values = {x, y}
    Requests <- MCRequests
    NoRequest = NoRequest
    Saves = {s1, s2, s3}
    MaxFaults = 1
    essay = essay
    choice = choice
    foreign = foreign
    k1 = k1
    k2 = k2
    k3 = k3
    k4 = k4
    k5 = k5
    k6 = k6
    k7 = k7
    k8 = k8
    k9 = k9
    x = x
    y = y
    Owners = {o1}
    Prompts = {q1, q2}
    AnswerCmds <- MCAnswerCmds
    Deliveries = {c1, c2}
    NoCmd = NoCmd
    MaxMisses = 1
    o1 = o1
    q1 = q1
    q2 = q2
    Meetings = {g1}
    Members = {u1, u2}
    Runs = {r1}
    NoRun = NoRun
    NoMember = NoMember
    Votes = {"approve", "reject"}
    Quorum = 1
    Ratio = 6
    BoardCalls = {c1, c2}
    Grades = {a, b, nan}
    Asked <- MCAsked
    Rounded <- MCRounded
    NotANumber = nan
    a = a
    b = b
    nan = nan
    aish = aish
    RunGrade = a
    NoGrade = NoGrade
    MaxAmendments = 2
    LedgerCalls = {c1, c2}
INVARIANTS
    Types
    AckBacked
    OneFinalAnswer
    RefusedForStored
    ConfirmedIsStored
    ScoreCountsAnswers
    DecisionHeld
    MeetingShowsDecision
    LedgerIsChain
    ReleaseIsVersion
PROPERTIES
    ReconciledFinal
    ImplementsGradeBook
SYMMETRY Symmetry
CONSTRAINT OneAcknowledged
