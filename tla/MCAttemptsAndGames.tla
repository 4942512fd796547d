------------------------- MODULE MCAttemptsAndGames -------------------------
(* Two small instances in one run, an attempt and a live game.  Init       *)
(* chooses a part of the system; the steps are that part's, and the other  *)
(* stays as it starts: the states of the parts add up.                     *)
EXTENDS MCAttemptLifecycle, GameSession

VARIABLE part   \* the part whose steps are taken

CONSTANTS n1, t1

\* A player with an idempotency key, who changes the answer.
MCGameRequests ==
    {[name |-> n1, answer |-> [right |-> TRUE, token |-> t1]],
     [name |-> n1, answer |-> [right |-> FALSE, token |-> t1]]}
-----------------------------------------------------------------------------
partVars == <<part, vars, gameVars>>

PartInit == part \in {"attempt", "game"} /\ Init /\ GameInit

PartNext ==
    /\ part' = part
    /\ \/ part = "attempt" /\ Next /\ UNCHANGED gameVars
       \/ part = "game" /\ GameNext /\ UNCHANGED vars

\* What Fairness and GameFairness ask of every process, asked of the part.
GameGoes == (\E k \in Computing : ScoreStep(k)) \/ FlowStep \/ TimerStep

PartFairness ==
    /\ WF_vars(part = "attempt" /\ (\E c \in Calls : CallStep(c)) /\ UNCHANGED <<key, start>>)
    /\ WF_gameVars(part = "game" /\ GameGoes)

PartSpec == PartInit /\ [][PartNext]_partVars /\ PartFairness
=============================================================================
