------------------------- MODULE AttemptTransition --------------------------
(***************************************************************************)
(* The two operations that move an existing attempt through its lifecycle: *)
(* transitionAttempt (src/modules/attempt/attempt.service.js), called by   *)
(* the student's /transition route, by the proctor's third strike and at   *)
(* the end of a submit, and reopenAttempt (src/modules/proctor), called by *)
(* a teacher.  Every await of theirs is a step, so that two of them on one *)
(* attempt interleave between a read of the row and the write that follows.*)
(*                                                                         *)
(* The attempts belong to one student and one assignment.  status and      *)
(* epoch are columns of the attempts rows ("none": no such row), lease is  *)
(* the status of the attempt_leases row that was inserted with the attempt.*)
(***************************************************************************)
EXTENDS DbFaults

CONSTANTS
    Attempts,   \* ids of attempts rows
    NoAttempt,
    Calls       \* invocations of transitionAttempt and of reopenAttempt

ASSUME NoAttemptAssumption == NoAttempt \notin Attempts

VARIABLES
    status,     \* attempts.status
    epoch,      \* attempts.epoch
    lease,      \* attempt_leases.status
    call        \* local state of the invocations

attemptVars == <<status, epoch, lease, call, faults>>

Statuses == {"ready", "in_progress", "submitted", "terminated"}
Terminal == {"submitted", "terminated"}

\* ATTEMPT_STATUS_TRANSITIONS
Successors ==
    [none        |-> {},
     ready       |-> {"in_progress", "terminated"},
     in_progress |-> {"submitted", "terminated"},
     submitted   |-> {},
     terminated  |-> {}]

CallPcs == {"idle", "write", "release", "reopen", "done"}

CallResults == {"none", "ok", "not_found", "invalid_transition", "error"}

AttemptType ==
    /\ FaultsType
    /\ status \in [Attempts -> Statuses \cup {"none"}]
    /\ epoch \in [Attempts -> Nat]
    /\ lease \in [Attempts -> {"none", "active", "released"}]
    /\ call \in [Calls -> [pc  : CallPcs,
                           att : Attempts \cup {NoAttempt},
                           to  : Statuses \cup {"none"},
                           epoch : Nat,
                           res : CallResults]]

IdleCall ==
    [pc |-> "idle", att |-> NoAttempt, to |-> "none", epoch |-> 0, res |-> "none"]

FinishCall(c, res) ==
    call' = [call EXCEPT ![c].pc = "done", ![c].res = res]

-----------------------------------------------------------------------------
(* transitionAttempt(attemptId, to, userId), called by the attempt's owner *)

\* The row is read and the transition checked against the status it had then.
TransitionRead(c, a, to) ==
    /\ call[c].pc = "idle"
    /\ call' = [call EXCEPT ![c] =
            [pc    |-> IF to \in Successors[status[a]] THEN "write" ELSE "done",
             att   |-> a,
             to    |-> to,
             epoch |-> 0,
             res   |-> IF status[a] = "none" THEN "not_found"
                       ELSE IF to \in Successors[status[a]] THEN "none"
                       ELSE "invalid_transition"]]
    /\ Healthy
    /\ UNCHANGED <<status, epoch, lease>>

\* The release left out for terminated attempts.
TransitionWriteKeepsLease(c) ==
    /\ call[c].pc = "write"
    /\ status' = [status EXCEPT ![call[c].att] = call[c].to]
    /\ call' = [call EXCEPT
            ![c].pc  = IF call[c].to = "submitted" THEN "release" ELSE "done",
            ![c].res = "ok"]
    /\ Healthy
    /\ UNCHANGED <<epoch, lease>>

\* UPDATE attempts SET status WHERE id: the status it replaces is not a condition.
TransitionWrite(c) ==
    /\ call[c].pc = "write"
    /\ status' = [status EXCEPT ![call[c].att] = call[c].to]
    /\ call' = [call EXCEPT
            ![c].pc  = IF call[c].to \in Terminal THEN "release" ELSE "done",
            ![c].res = "ok"]
    /\ Healthy
    /\ UNCHANGED <<epoch, lease>>

\* An UPDATE whose WHERE matches no row.
ReleasedNothing(a) == lease

Released(a) ==
    IF lease[a] = "active" THEN [lease EXCEPT ![a] = "released"] ELSE lease

\* A terminal transition releases the attempt's active lease.
TransitionRelease(c) ==
    /\ call[c].pc = "release"
    /\ lease' = Released(call[c].att)
    /\ FinishCall(c, "ok")
    /\ Healthy
    /\ UNCHANGED <<status, epoch>>

\* A failed UPDATE of attempts (done or not) ends the request with an exception;
\* a failed release (done or not) is swallowed, and the caller is told that the
\* transition succeeded.
TransitionFault(c) ==
    /\ \/ /\ call[c].pc = "write"
          /\ status' \in {status, [status EXCEPT ![call[c].att] = call[c].to]}
          /\ FinishCall(c, "error")
          /\ UNCHANGED lease
       \/ /\ call[c].pc = "release"
          /\ lease' \in {lease, Released(call[c].att)}
          /\ FinishCall(c, "ok")
          /\ UNCHANGED status
    /\ Faulty
    /\ UNCHANGED epoch

-----------------------------------------------------------------------------
(* reopenAttempt({ attemptId, actor }), called by a teacher                *)

\* The row is read; its status is not looked at.
ReopenRead(c, a) ==
    /\ call[c].pc = "idle"
    /\ call' = [call EXCEPT ![c] =
            [pc    |-> IF status[a] = "none" THEN "done" ELSE "reopen",
             att   |-> a,
             to    |-> "in_progress",
             epoch |-> epoch[a] + 1,
             res   |-> IF status[a] = "none" THEN "not_found" ELSE "none"]]
    /\ Healthy
    /\ UNCHANGED <<status, epoch, lease>>

\* The row gets the next epoch and is in progress again.  The statement that
\* should insert a new active lease never inserts one: it calls a method that
\* the query builder does not have (an exception, which ends the request) and
\* names a column that attempt_leases does not have.
ReopenWrite(c) ==
    /\ call[c].pc = "reopen"
    /\ status' = [status EXCEPT ![call[c].att] = "in_progress"]
    /\ epoch' = [epoch EXCEPT ![call[c].att] = call[c].epoch]
    /\ FinishCall(c, "error")
    /\ Healthy
    /\ UNCHANGED lease

\* A failed UPDATE is swallowed; the request ends as above.
ReopenFault(c) ==
    /\ call[c].pc = "reopen"
    /\ \/ UNCHANGED <<status, epoch>>
       \/ /\ status' = [status EXCEPT ![call[c].att] = "in_progress"]
          /\ epoch' = [epoch EXCEPT ![call[c].att] = call[c].epoch]
    /\ FinishCall(c, "error")
    /\ Faulty
    /\ UNCHANGED lease

\* The steps of an invocation that has read its row.
CallStep(c) ==
    \/ TransitionWrite(c)
    \/ TransitionRelease(c)
    \/ ReopenWrite(c)

CallFault(c) ==
    \/ TransitionFault(c)
    \/ ReopenFault(c)
=============================================================================
