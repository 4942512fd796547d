--------------------------- MODULE MCProctorEvents --------------------------
(* ProctorEvents with a student who leaves the page: two events of one     *)
(* episode, a blur, and two further episodes.                              *)
EXTENDS ProctorEvents, TLC

CONSTANTS b1, b2, other

Seen(focus, at, dur) == [focus |-> focus, at |-> at, dur |-> dur]

\* In seconds: the threshold is 2, the window 5.
MCIncidents ==
    <<Seen(TRUE, 3, 3), Seen(TRUE, 6, 2), Seen(FALSE, 10, 0), Seen(TRUE, 14, 2),
      Seen(TRUE, 21, 4)>>

\* A bound: beside the lost posts, a reload or a failed call in a behaviour.
OneMishap == reloads + faults <= 1

Symmetry == Permutations(Batches)
=============================================================================
