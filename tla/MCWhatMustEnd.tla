---------------------------- MODULE MCWhatMustEnd ----------------------------
(* Three small instances in one run: a submit, a mail queue, a live        *)
(* lesson.  Init chooses a part of the system; the steps are that part's,  *)
(* and the others stay as they start: the states of the parts add up.      *)
EXTENDS MCSubmitSeal, EmailQueue, CastSession

VARIABLE part   \* the part whose steps are taken

CONSTANTS e1, e2, k

\* Two mails of one key.
MCKey == (e1 :> k) @@ (e2 :> k)
-----------------------------------------------------------------------------
Parts == {"submit", "mail", "cast"}

partVars == <<part, vars, emailVars, castVars>>

PartInit == part \in Parts /\ Init /\ EmailInit /\ CastInit

PartNext ==
    /\ part' = part
    /\ \/ part = "submit" /\ Next /\ UNCHANGED <<emailVars, castVars>>
       \/ part = "mail" /\ EmailNext /\ UNCHANGED <<vars, castVars>>
       \/ part = "cast" /\ CastNext /\ UNCHANGED <<vars, emailVars>>

\* What Fairness, EmailFairness and CastFairness ask of every process, asked
\* of the part.
SubmitGoes ==
    \/ \E m \in Submits : SubmitStep(m)
    \/ \E s \in Saves : SaveStep(s) /\ UNCHANGED <<status, epoch, lease, call, submitVars>>
    \/ \E c \in Calls : CallStep(c) /\ UNCHANGED <<responseVars, submitVars>>

MailGoes ==
    \/ \E e \in Mails : EnqueueStep(e) \/ TimeStep(e)
    \/ \E w \in Workers : TickStep(w)

CastGoes == \E c \in CastCalls : Goes(c) \/ TimerFires(c)

PartFairness ==
    /\ WF_vars(part = "submit" /\ SubmitGoes)
    /\ WF_emailVars(part = "mail" /\ MailGoes)
    /\ WF_castVars(part = "cast" /\ CastGoes)

\* A bound: a crossing or failed call, or questions previewed again, not both.
OneDetour == crossed = 0 \/ \A q \in Positions : previews[q] <= 1

PartSpec == PartInit /\ [][PartNext]_partVars /\ PartFairness
=============================================================================
