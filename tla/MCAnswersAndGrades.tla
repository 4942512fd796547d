------------------------- MODULE MCAnswersAndGrades -------------------------
(* Four small instances in one run: the saves of an attempt, the answers   *)
(* of a cast, a board's meeting and the ledger of a run.  Init chooses a   *)
(* part of the system; the steps are that part's, and the others stay as   *)
(* they start: the states of the parts add up.                             *)
EXTENDS MCResponseSave, CastAnswers, BoardMeeting, GradeLedger

VARIABLE part   \* the part whose steps are taken

CONSTANTS o1, q1, q2, a, b, nan, aish

\* Another grade than the run's, which is a; NaN; and a number that differs from
\* a in the third decimal.
MCAsked == {b, nan, aish}
MCRounded == [n \in MCAsked |-> IF n = aish THEN a ELSE n]

\* Two devices of one team answer a question, one of them the next.
Answer(id, prompt, right) == [id |-> id, owner |-> o1, prompt |-> prompt, right |-> right]
MCAnswerCmds == {Answer(1, q1, 1), Answer(2, q1, 0), Answer(3, q2, 1)}
-----------------------------------------------------------------------------
Parts == {"saves", "answers", "board", "ledger"}

savesVars == <<responseVars, faults>>

partVars == <<part, savesVars, answerVars, boardVars, ledgerVars>>

PartInit == part \in Parts /\ ResponseInit /\ faults = 0 /\ CastAnswersInit /\ BoardInit /\ LedgerInit

PartNext ==
    /\ part' = part
    /\ \/ part = "saves" /\ ResponseNext /\ UNCHANGED <<answerVars, boardVars, ledgerVars>>
       \/ part = "answers" /\ CastAnswersNext /\ UNCHANGED <<savesVars, boardVars, ledgerVars>>
       \/ part = "board" /\ BoardNext /\ UNCHANGED <<savesVars, answerVars, ledgerVars>>
       \/ part = "ledger" /\ LedgerNext /\ UNCHANGED <<savesVars, answerVars, boardVars>>

PartSpec == PartInit /\ [][PartNext]_partVars

\* A bound: two releases, of which one is acknowledged, maybe more than once.
OneAcknowledged ==
    /\ Cardinality(outbox) <= 2
    /\ Cardinality({row \in outbox : row.status # "pending"}) <= 1

\* The requests to the ledger are alike.
Symmetry == Permutations(LedgerCalls)

\* The types of all parts.
Types == ResponseType /\ FaultsType /\ CastAnswersType /\ BoardType /\ LedgerType
=============================================================================
