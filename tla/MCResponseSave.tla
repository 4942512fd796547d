---------------------------- MODULE MCResponseSave --------------------------
(* ResponseSave on a small attempt: an essay, a single-choice item and an  *)
(* item the content package does not have.                                 *)
EXTENDS ResponseSave, TLC

CONSTANTS essay, choice, foreign, k1, k2, k3, k4, k5, k6, k7, k8, k9, x, y

MCItems == {essay, choice, foreign}
MCMode == (essay :> "editable") @@ (choice :> "first") @@ (foreign :> "none")
MCKeys == {k1, k2, k3, k4, k5, k6, k7, k8, k9}

Request(i, n, k, v) == [item |-> i, seq |-> n, key |-> k, val |-> v]

\* The essay saved by two tabs that both start at 1, its next edits, a page
\* that uses a key twice; the choice made twice, and once with a gap.
MCRequests ==
    {Request(essay, 1, k1, x), Request(essay, 1, k2, y), Request(essay, 2, k3, y),
     Request(essay, 3, k4, x), Request(essay, 2, k1, x), Request(essay, 0, k9, x),
     Request(choice, 1, k5, x), Request(choice, 1, k6, y), Request(choice, 2, k7, x),
     Request(foreign, 1, k8, x)}

\* A client derives its keys.
ASSUME KeysAssumption == KeysNameItems

=============================================================================
