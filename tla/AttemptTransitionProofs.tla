------------------------ MODULE AttemptTransitionProofs ----------------------
(***************************************************************************)
(* What every step of AttemptTransition keeps, whichever component it is   *)
(* taken in: the shape of the rows and of the calls, and the failures      *)
(* counted so far.                                                         *)
(***************************************************************************)
EXTENDS AttemptTransition, TLAPS

\* No failure is forgotten.
LEMMA FaultsStay ==
    ASSUME FaultsType, Healthy \/ Faulty
    PROVE  FaultsType' /\ (faults' = 0 => faults = 0)
BY MaxFaultsNat DEF FaultsType, Healthy, Faulty

\* A step that leaves the attempts alone keeps their types.
LEMMA AttemptsUnmoved ==
    ASSUME AttemptType, UNCHANGED <<status, epoch, lease, call>>, Healthy \/ Faulty
    PROVE  AttemptType'
BY FaultsStay DEF AttemptType

\* The calls on the attempt.
LEMMA CallsKeepTypes ==
    ASSUME AttemptType, NEW c \in Calls, NEW a \in Attempts, NEW to \in Statuses,
           \/ TransitionRead(c, a, to)
           \/ ReopenRead(c, a)
           \/ CallStep(c)
           \/ CallFault(c)
    PROVE  AttemptType' /\ (Healthy \/ Faulty)
<1> DEFINE CallRecords ==
             [pc : CallPcs, att : Attempts \cup {NoAttempt}, to : Statuses \cup {"none"},
              epoch : Nat, res : CallResults]
<1>1. PICK it \in CallRecords : it = call[c]
  BY DEF AttemptType
<1>2. Healthy \/ Faulty
  BY DEF TransitionRead, ReopenRead, CallStep, CallFault, TransitionWrite, TransitionRelease,
         TransitionFault, ReopenWrite, ReopenFault
<1>3. FaultsType'
  BY <1>2, FaultsStay DEF AttemptType
<1>4. CASE TransitionRead(c, a, to)
  BY <1>3, <1>4 DEF TransitionRead, AttemptType, CallPcs, CallResults
<1>5. CASE ReopenRead(c, a)
  BY <1>3, <1>5 DEF ReopenRead, AttemptType, CallPcs, CallResults, Statuses
<1>6. ASSUME NEW pc \in CallPcs, NEW res \in CallResults,
             call' = [call EXCEPT ![c].pc = pc, ![c].res = res]
      PROVE  call' \in [Calls -> CallRecords]
  <2> DEFINE me == [it EXCEPT !.pc = pc, !.res = res]
  <2>1. me \in CallRecords
    OBVIOUS
  <2>2. call' = [call EXCEPT ![c] = me]
    BY <1>1, <1>6 DEF AttemptType
  <2> QED
    BY <2>1, <2>2 DEF AttemptType
<1>7. ASSUME TransitionWrite(c) \/ TransitionRelease(c) \/ TransitionFault(c)
      PROVE  AttemptType'
  <2>1. /\ status' \in {status, [status EXCEPT ![it.att] = it.to]}
        /\ epoch' = epoch
        /\ lease' \in {lease, Released(it.att)}
        /\ \E pc \in CallPcs, res \in CallResults :
                call' = [call EXCEPT ![c].pc = pc, ![c].res = res]
    BY <1>1, <1>7 DEF TransitionWrite, TransitionRelease, TransitionFault, FinishCall, CallPcs, CallResults
  <2>2. call' \in [Calls -> CallRecords]
    BY <2>1, <1>6
  <2>3. status' \in [Attempts -> Statuses \cup {"none"}]
    BY <2>1 DEF AttemptType
  <2>4. lease' \in [Attempts -> {"none", "active", "released"}]
    BY <2>1 DEF AttemptType, Released
  <2> QED
    BY <1>3, <2>1, <2>2, <2>3, <2>4 DEF AttemptType
<1>8. ASSUME ReopenWrite(c) \/ ReopenFault(c)
      PROVE  AttemptType'
  <2>1. /\ status' \in {status, [status EXCEPT ![it.att] = "in_progress"]}
        /\ epoch' \in {epoch, [epoch EXCEPT ![it.att] = it.epoch]}
        /\ lease' = lease
        /\ FinishCall(c, "error")
    BY <1>1, <1>8 DEF ReopenWrite, ReopenFault
  <2>2. call' \in [Calls -> CallRecords]
    BY <2>1, <1>6 DEF FinishCall, CallPcs, CallResults
  <2>3. status' \in [Attempts -> Statuses \cup {"none"}] /\ epoch' \in [Attempts -> Nat]
    BY <2>1 DEF AttemptType, Statuses
  <2> QED
    BY <1>3, <2>1, <2>2, <2>3 DEF AttemptType
<1> QED
  BY <1>2, <1>4, <1>5, <1>7, <1>8 DEF CallStep, CallFault
=============================================================================
