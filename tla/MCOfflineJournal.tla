-------------------------- MODULE MCOfflineJournal --------------------------
(* OfflineJournal on a device with an essay and a single-choice item.      *)
EXTENDS OfflineJournal, TLC

CONSTANTS essay, choice

MCItems == {essay, choice}
MCMode == (essay :> "editable") @@ (choice :> "first")

\* The student edits the essay, makes a choice and edits the essay again.
MCItemOf == [e \in Edits |-> IF e = 2 THEN choice ELSE essay]

\* Whatever number and key an edit may be sent under.
MaxSeq == 2 * MaxEdits
MCKeys == 1..MaxSeq
MCRequests == {r \in [item : Items, seq : 1..MaxSeq, key : 1..MaxSeq, val : Edits] :
                  r.item = MCItemOf[r.val]}

\* A bound: a failure, a reload or a reopening, one of them in a behaviour.
OneMishap == faults + reloads + (epoch - 1) <= 1

Symmetry == Permutations(Syncs)
=============================================================================
