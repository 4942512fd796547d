-------------------------- MODULE AttemptRegistry ---------------------------
(***************************************************************************)
(* What the attempt service promises for one student and one assignment,   *)
(* whatever its requests do meanwhile: a day has at most one attempt, for  *)
(* good, and one attempt at a time is the single writer.                   *)
(***************************************************************************)
CONSTANTS Attempts, NoAttempt, Days

VARIABLES
    book,   \* the attempt of each day
    writer  \* the attempt that holds the lease

Init ==
    /\ book = [d \in Days |-> NoAttempt]
    /\ writer = NoAttempt

\* A new attempt is booked for a day that has none, and becomes the writer.
Start(d, a) ==
    /\ book[d] = NoAttempt
    /\ writer = NoAttempt
    /\ \A e \in Days : book[e] # a
    /\ book' = [book EXCEPT ![d] = a]
    /\ writer' = a

\* The writer gives up the lease.
Release ==
    /\ writer # NoAttempt
    /\ writer' = NoAttempt
    /\ UNCHANGED book

Next ==
    \/ \E d \in Days, a \in Attempts : Start(d, a)
    \/ Release

Spec == Init /\ [][Next]_<<book, writer>>
=============================================================================
