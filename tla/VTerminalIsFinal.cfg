SPECIFICATION Spec
CONSTANTS
    Attempts = {a1, a2}
    NoAttempt = NoAttempt
    Days = {d1, d2}
    NoDay = NoDay
    Starts = {s1, s2}
    Calls = {c1, c2}
    MaxFaults = 0
PROPERTY TerminalIsFinal
