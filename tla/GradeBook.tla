----------------------------- MODULE GradeBook ------------------------------
(***************************************************************************)
(* What the exam board promises for the grade of one run, whatever its     *)
(* requests do meanwhile: one decision; a history of grades to which an    *)
(* amendment adds the one it asks for, rounded, and that is never          *)
(* rewritten; and, once the board has ratified, every version of it sent   *)
(* at most once.                                                           *)
(***************************************************************************)
EXTENDS Naturals, GradeNumbers

CONSTANTS RunGrade, MaxAmendments

VARIABLES
    decision,   \* of the board: none, or the kind of it
    top,        \* the number of amendments, the version that counts
    grades,     \* the grade of each version so far
    sent        \* what the student information system is sent

Init ==
    /\ decision = "none"
    /\ top = 0
    /\ grades = [v \in 0..0 |-> RunGrade]
    /\ sent = {}

Decide ==
    /\ decision = "none"
    /\ decision' \in {"ratified", "rejected"}
    /\ UNCHANGED <<top, grades, sent>>

\* Another number than the grade that counts is asked for, and its rounding
\* counts from now on: the same grade as before, if they differ only in digits
\* that no grade has.
Amend(asked) ==
    /\ top < MaxAmendments
    /\ ~SameNumber(grades[top], asked)
    /\ top' = top + 1
    /\ grades' = [v \in 0..top + 1 |-> IF v = top + 1 THEN Rounded[asked] ELSE grades[v]]
    /\ UNCHANGED <<decision, sent>>

\* Any version may still be sent, the newest or one that was overtaken.
Send(v) ==
    /\ decision = "ratified"
    /\ \A release \in sent : release.version # v
    /\ sent' = sent \cup {[version |-> v, grade |-> Payload(grades[v])]}
    /\ UNCHANGED <<decision, top, grades>>

Next ==
    \/ Decide
    \/ \E asked \in Asked : Amend(asked)
    \/ \E v \in 0..top : Send(v)

Spec == Init /\ [][Next]_<<decision, top, grades, sent>>
=============================================================================
