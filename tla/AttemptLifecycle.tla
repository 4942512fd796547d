-------------------------- MODULE AttemptLifecycle --------------------------
(***************************************************************************)
(* Starting, moving and reopening the attempts of one student at one       *)
(* assignment: startAttempt with its gates, its idempotency lookup, its    *)
(* transaction and the two ways a unique index can refuse it, interleaved  *)
(* with the transitions and reopenings of AttemptTransition.               *)
(***************************************************************************)
EXTENDS AttemptTransition

CONSTANTS
    Days,       \* UTC days: external_key is assignment + user + day
    NoDay,
    Starts      \* invocations of startAttempt

ASSUME NoDayAssumption == NoDay \notin Days

VARIABLES
    key,        \* attempts.external_key
    start       \* local state of the invocations of startAttempt

vars == <<attemptVars, key, start>>

StartPcs == {"idle", "lookup", "insert", "recheck", "done"}

StartResults ==
    {"none", "not_assigned", "blocked", "parallel_denied", "duplicate",
     "created", "error"}

TypeOK ==
    /\ AttemptType
    /\ key \in [Attempts -> Days \cup {NoDay}]
    /\ start \in [Starts -> [pc       : StartPcs,
                             day      : Days \cup {NoDay},
                             eligible : BOOLEAN,
                             parallel : BOOLEAN,
                             res      : StartResults,
                             att      : Attempts \cup {NoAttempt}]]

IdleStart ==
    [pc |-> "idle", day |-> NoDay, eligible |-> FALSE, parallel |-> FALSE,
     res |-> "none", att |-> NoAttempt]

Init ==
    /\ faults = 0
    /\ status = [a \in Attempts |-> "none"]
    /\ epoch = [a \in Attempts |-> 0]
    /\ lease = [a \in Attempts |-> "none"]
    /\ call = [c \in Calls |-> IdleCall]
    /\ key = [a \in Attempts |-> NoDay]
    /\ start = [s \in Starts |-> IdleStart]

RowOfDay(d) == {a \in Attempts : status[a] # "none" /\ key[a] = d}

ActiveLeases == {a \in Attempts : lease[a] = "active"}

FinishStart(s, res, a) ==
    start' = [start EXCEPT ![s].pc = "done", ![s].res = res, ![s].att = a]

-----------------------------------------------------------------------------
(* startAttempt: a student on the published roster, or not; eligible stands *)
(* for the preflight and identity gates, which the attempts do not change.  *)

\* Not in the roster snapshot: the request ends before it reads anything else.
StartNotAssigned(s, d) ==
    /\ start[s].pc = "idle"
    /\ start' = [start EXCEPT ![s] = [IdleStart EXCEPT
            !.pc = "done", !.day = d, !.res = "not_assigned"]]
    /\ Healthy
    /\ UNCHANGED <<status, epoch, lease, call, key>>

\* The active leases are read (a failed read counts as none).
StartReadLeases(s, d, eligible) ==
    /\ start[s].pc = "idle"
    /\ \/ Healthy /\ start' = [start EXCEPT ![s] = [IdleStart EXCEPT
            !.pc = "lookup", !.day = d, !.eligible = eligible,
            !.parallel = ActiveLeases = {}]]
       \/ Faulty /\ start' = [start EXCEPT ![s] = [IdleStart EXCEPT
            !.pc = "lookup", !.day = d, !.eligible = eligible,
            !.parallel = TRUE]]
    /\ UNCHANGED <<status, epoch, lease, call, key>>

\* computeAttemptStartEligibility: the blockers, "parallel_denied" when the
\* parallel session is among them.
StartGate(s) ==
    IF start[s].eligible /\ start[s].parallel
    THEN start' = [start EXCEPT ![s].pc = "insert"]
    ELSE FinishStart(s, IF start[s].parallel THEN "blocked" ELSE "parallel_denied",
                     NoAttempt)

\* The idempotency lookup left out.
StartLookupDropped(s) ==
    /\ start[s].pc = "lookup"
    /\ StartGate(s)
    /\ Healthy
    /\ UNCHANGED <<status, epoch, lease, call, key>>

\* The day's attempt is looked up (a failed lookup counts as not found); the
\* blockers count only when the day has none yet.
StartLookup(s) ==
    /\ start[s].pc = "lookup"
    /\ \/ /\ Healthy
          /\ \E a \in RowOfDay(start[s].day) : FinishStart(s, "duplicate", a)
       \/ /\ Healthy
          /\ RowOfDay(start[s].day) = {}
          /\ StartGate(s)
       \/ /\ Faulty
          /\ StartGate(s)
    /\ UNCHANGED <<status, epoch, lease, call, key>>

\* A schema without uq_attempt_active_lease.
StartConflictNoLeaseIndex(s) == RowOfDay(start[s].day) # {}

\* A schema without uq_attempt_external_key.
StartConflictNoKeyIndex(s) == ActiveLeases # {}

\* What the unique indexes uq_attempt_external_key and uq_attempt_active_lease refuse.
StartConflict(s) ==
    \/ RowOfDay(start[s].day) # {}
    \/ ActiveLeases # {}

\* The transaction: the attempts row and its active lease, both or neither; the
\* answer of the commit may be lost on the way back.
StartInsert(s) ==
    /\ start[s].pc = "insert"
    /\ ~StartConflict(s)
    /\ \E a \in Attempts :
        /\ status[a] = "none"
        /\ status' = [status EXCEPT ![a] = "ready"]
        /\ epoch' = [epoch EXCEPT ![a] = 1]
        /\ lease' = [lease EXCEPT ![a] = "active"]
        /\ key' = [key EXCEPT ![a] = start[s].day]
        /\ \/ Healthy /\ FinishStart(s, "created", a)
           \/ Faulty /\ FinishStart(s, "error", NoAttempt)
    /\ UNCHANGED call

StartRefused(s) ==
    /\ start[s].pc = "insert"
    /\ StartConflict(s)
    /\ start' = [start EXCEPT ![s].pc = "recheck"]
    /\ Healthy
    /\ UNCHANGED <<status, epoch, lease, call, key>>

\* Any other failure of the transaction ends the request with an exception.
StartError(s) ==
    /\ start[s].pc = "insert"
    /\ FinishStart(s, "error", NoAttempt)
    /\ Faulty
    /\ UNCHANGED <<status, epoch, lease, call, key>>

\* The winner looked up by its lease instead of by the day's key.
StartRecheckByLease(s) ==
    /\ start[s].pc = "recheck"
    /\ \/ \E a \in ActiveLeases : FinishStart(s, "duplicate", a)
       \/ ActiveLeases = {} /\ FinishStart(s, "parallel_denied", NoAttempt)
    /\ Healthy
    /\ UNCHANGED <<status, epoch, lease, call, key>>

\* After a refusal the day's attempt is the winner of the race; without one
\* (or if this lookup fails) the lease of another attempt was in the way.
StartRecheck(s) ==
    /\ start[s].pc = "recheck"
    /\ \/ /\ Healthy
          /\ \E a \in RowOfDay(start[s].day) : FinishStart(s, "duplicate", a)
       \/ /\ Healthy
          /\ RowOfDay(start[s].day) = {}
          /\ FinishStart(s, "parallel_denied", NoAttempt)
       \/ /\ Faulty
          /\ FinishStart(s, "parallel_denied", NoAttempt)
    /\ UNCHANGED <<status, epoch, lease, call, key>>

-----------------------------------------------------------------------------
StartStep(s) ==
    \/ StartLookup(s)
    \/ StartInsert(s)
    \/ StartRefused(s)
    \/ StartError(s)
    \/ StartRecheck(s)

StartNext ==
    \E s \in Starts :
        \/ \E d \in Days : StartNotAssigned(s, d)
        \/ \E d \in Days, eligible \in BOOLEAN : StartReadLeases(s, d, eligible)
        \/ StartStep(s)

CallNext ==
    /\ \E c \in Calls :
        \/ \E a \in Attempts, to \in Statuses : TransitionRead(c, a, to)
        \/ \E a \in Attempts : ReopenRead(c, a)
        \/ CallStep(c)
        \/ CallFault(c)
    /\ UNCHANGED <<key, start>>

\* Every invocation has returned.
Quiet ==
    /\ \A s \in Starts : start[s].pc = "done"
    /\ \A c \in Calls : call[c].pc = "done"
    /\ UNCHANGED vars

Next == StartNext \/ CallNext \/ Quiet

\* A request that was read continues: Node runs every continuation, and the
\* database answers or fails.
Fairness == \A c \in Calls : WF_vars(CallStep(c) /\ UNCHANGED <<key, start>>)

Spec == Init /\ [][Next]_vars /\ Fairness

-----------------------------------------------------------------------------
(* Properties.                                                             *)

\* At most one ACTIVE lease per assignment and student, however many starts,
\* transitions and reopenings race (attempt.service.js, gate 5).
SingleWriter ==
    \A a, b \in Attempts : lease[a] = "active" /\ lease[b] = "active" => a = b

\* Two starts of one day never leave two attempts behind: the external_key
\* lookup and its unique index together make the start idempotent.
OneAttemptPerDay ==
    \A a, b \in Attempts :
        status[a] # "none" /\ status[b] # "none" /\ key[a] = key[b] => a = b

\* A start answered "duplicate" or "created" names an attempt of the day it
\* was asked for, never one of another day that was in its way.
StartNamesItsDay ==
    \A s \in Starts :
        start[s].res \in {"duplicate", "created"} =>
            /\ start[s].att \in Attempts
            /\ status[start[s].att] # "none"
            /\ key[start[s].att] = start[s].day

\* A finished attempt keeps its lease only while the transition that finished
\* it has yet to release it, or if the database failed.
TerminalReleasesLease ==
    \A a \in Attempts :
        status[a] \in Terminal /\ lease[a] = "active" =>
            \/ faults > 0
            \/ \E c \in Calls : call[c].pc = "release" /\ call[c].att = a

\* A student who restarts on the same day gets the stored attempt and is never
\* told that a parallel session is in the way (comment in startAttempt on the
\* order of the lookup and the gate), as long as the database answers.
SameDayNeverDenied ==
    [][\A s \in Starts :
        start[s].res = "none" /\ start'[s].res = "parallel_denied" =>
            RowOfDay(start[s].day) = {} \/ faults' > 0]_vars

\* While the database answers, the lease of a finished attempt is released, so
\* that the student can start again on another day.
LeaseComesBack ==
    \A a \in Attempts :
        status[a] \in Terminal ~> lease[a] # "active" \/ faults > 0

\* The service implements its promise: the day's attempt is the row with its
\* external_key, the writer is the attempt with the active lease.
AnyOf(S) == IF S = {} THEN NoAttempt ELSE CHOOSE a \in S : TRUE

Book == [d \in Days |-> AnyOf(RowOfDay(d))]

Writer == AnyOf(ActiveLeases)

Registry == INSTANCE AttemptRegistry WITH book <- Book, writer <- Writer

\* Every behaviour of the service is one of the registry: a day keeps its
\* attempt for good, and a lease is taken only when nobody holds one.
ImplementsRegistry == Registry!Spec

-----------------------------------------------------------------------------
(* A statement of the source that the code does not keep.                  *)

\* ATTEMPT_STATUS_TRANSITIONS gives a finished attempt no successor: only a
\* reopening (which moves the epoch) takes one back.
TerminalIsFinal ==
    [][\A a \in Attempts :
        status[a] \in Terminal /\ epoch'[a] = epoch[a] => status'[a] = status[a]]_vars
=============================================================================
