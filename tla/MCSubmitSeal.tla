---------------------------- MODULE MCSubmitSeal ----------------------------
(* SubmitSeal on one attempt with an essay and a single-choice item.       *)
EXTENDS SubmitSeal, TLC

CONSTANTS essay, choice, k1, k2, k3, x, y

MCItems == {essay, choice}
MCMode == (essay :> "editable") @@ (choice :> "first")
MCKeys == {k1, k2, k3}

\* Two edits of the essay and the choice.
First == [item |-> essay, seq |-> 1, key |-> k1, val |-> x]
Second == [item |-> essay, seq |-> 2, key |-> k2, val |-> y]
Chosen == [item |-> choice, seq |-> 1, key |-> k3, val |-> x]

MCRequests == {First, Second, Chosen}

\* Nothing or the last edit is pending; the last edit and the choice are.
OneAnswer == {<<>>, <<Second>>}
TwoAnswers == {<<Second, Chosen>>}

MCWants == {"terminated", "submitted"}

NoBatch == {<<>>}

\* The submits are alike.
Symmetry == Permutations(Submits)
=============================================================================
