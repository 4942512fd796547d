---------------------------- MODULE GradeNumbers ----------------------------
(***************************************************************************)
(* What a grade becomes on its way through the board: the number that a    *)
(* request asks for, the value that a column of type decimal(8,2) makes    *)
(* of it (migrations/029_board_ratification.js), and the JSON that is sent *)
(* to the student information system.                                      *)
(***************************************************************************)

CONSTANTS
    Grades,         \* what a column can hold
    Asked,          \* what an amendment may ask for: Number(newFinal)
    Rounded,        \* the grade that the column makes of each of them
    NotANumber,     \* NaN: a request may ask for it, and a column holds it
    NoGrade         \* none, and null in JSON

ASSUME NumbersAssumption ==
    /\ NoGrade \notin Grades /\ NoGrade \notin Asked
    /\ Rounded \in [Asked -> Grades]
    /\ \A g \in Grades \cap Asked : Rounded[g] = g

\* Number(oldFinal) === Number(newFinal): the grade that counts has been
\* rounded, the one that is asked for has not; NaN equals nothing.
SameNumber(grade, asked) == grade = asked /\ asked # NotANumber

\* JSON has no NaN.
Payload(grade) == IF grade = NotANumber THEN NoGrade ELSE grade
=============================================================================
