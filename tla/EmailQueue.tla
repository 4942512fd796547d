----------------------------- MODULE EmailQueue -----------------------------
(***************************************************************************)
(* The queue of outgoing mail (src/modules/email/queue.js) and the worker  *)
(* that drains it (worker.js).  A job is a node of the realtime database;  *)
(* enqueueEmail guards it with an idempotency node, and a worker's tick    *)
(* reads all the jobs once, returns those whose lease is old to the queue, *)
(* and then leases, sends and settles the due ones one after the other,    *)
(* each write an await of its own.                                         *)
(*                                                                         *)
(* Time is what its comparisons make of it: a lease may have become old, a *)
(* backoff may have ended, a reset link may have expired.  A tick judges   *)
(* all three by the time at which it started.  The provider is external: a *)
(* call of sendEmail succeeds, answers that the mail was not sent, or      *)
(* throws.                                                                 *)
(***************************************************************************)
EXTENDS Naturals, FiniteSets

CONSTANTS
    Mails,          \* invocations of enqueueEmail, each with a job of its own
    Urgent,         \* those of priority "urgent"
    Resets,         \* those whose link expires
    Key,            \* the idempotency key of each, or NoKey
    NoKey,
    Workers,        \* processes that run startEmailQueueWorker
    NoMail,
    MaxAttempts,    \* EMAIL_MAX_ATTEMPTS
    MaxMishaps      \* bound: workers that die and calls of the database that fail

ASSUME EmailAssumption ==
    /\ Urgent \subseteq Mails /\ Resets \subseteq Mails
    /\ NoMail \notin Mails
    /\ DOMAIN Key = Mails
    /\ MaxAttempts \in Nat \ {0} /\ MaxMishaps \in Nat

VARIABLES
    job,        \* email_queue: status, attempts and what the times amount to
    keys,       \* email_idempotency
    expired,    \* the reset links that have expired
    enqueuing,  \* local state of the invocations of enqueueEmail
    worker,     \* local state of the workers' ticks
    mishaps,    \* what the bound counts
    sends,      \* how often a mail was handed to the provider
    thrown,     \* how often that call threw
    together,   \* whether two ticks, or two enqueues of a key, have overlapped
    cut         \* the jobs of whose lease maybe only the first write was made

jobVars == <<job, keys, expired>>
emailHistory == <<sends, thrown, together, cut>>

emailVars == <<jobVars, enqueuing, worker, mishaps, emailHistory>>

JobStatuses == {"none", "queued", "processing", "sent", "deadletter"}

\* lease: no leasedAt, one of the last minute, or an older one.
\* due: nextRetryAt is past.
Jobs == [status : JobStatuses, attempts : 0..MaxAttempts,
         lease : {"none", "fresh", "old"}, due : BOOLEAN]

EmailType ==
    /\ job \in [Mails -> Jobs]
    /\ keys \subseteq {Key[e] : e \in Mails}
    /\ expired \subseteq Resets
    /\ enqueuing \in [Mails -> {"idle", "key", "mark", "store", "stored", "duplicate", "failed"}]
    /\ worker \in [Workers ->
            [pc : {"idle", "recover", "recovered", "next", "lease", "leased", "resolve", "send",
                   "sent", "dead", "requeue", "count", "backoff"},
             todo : SUBSET Mails, recover : SUBSET Mails, expired : SUBSET Mails,
             attempts : [Mails -> 0..MaxAttempts], at : Mails \cup {NoMail}]]
    /\ mishaps \in 0..MaxMishaps
    /\ sends \in [Mails -> Nat] /\ thrown \in [Mails -> Nat]
    /\ together \in BOOLEAN /\ cut \subseteq Mails

NoJob == [status |-> "none", attempts |-> 0, lease |-> "none", due |-> TRUE]

IdleTick ==
    [pc |-> "idle", todo |-> {}, recover |-> {}, expired |-> {},
     attempts |-> [e \in Mails |-> 0], at |-> NoMail]

EmailInit ==
    /\ job = [e \in Mails |-> NoJob]
    /\ keys = {} /\ expired = {}
    /\ enqueuing = [e \in Mails |-> "idle"]
    /\ worker = [w \in Workers |-> IdleTick]
    /\ mishaps = 0
    /\ sends = [e \in Mails |-> 0] /\ thrown = [e \in Mails |-> 0]
    /\ together = FALSE /\ cut = {}

Mishap == mishaps < MaxMishaps /\ mishaps' = mishaps + 1
Smooth == mishaps' = mishaps
-----------------------------------------------------------------------------
\* enqueueEmail

SameKey(e) == {other \in Mails \ {e} : Key[other] = Key[e] /\ Key[e] # NoKey}

EnqueueBegin(e) ==
    /\ enqueuing[e] = "idle"
    /\ enqueuing' = [enqueuing EXCEPT ![e] = IF Key[e] = NoKey THEN "store" ELSE "key"]
    /\ together' = (together \/ \E other \in SameKey(e) :
                                    enqueuing[other] \in {"key", "mark", "store"})
    /\ UNCHANGED <<jobVars, worker, mishaps, sends, thrown, cut>>

\* The key is looked up; a failed look-up lets the mail through.
EnqueueLook(e) ==
    /\ enqueuing[e] = "key"
    /\ \/ /\ Smooth
          /\ enqueuing' = [enqueuing EXCEPT ![e] = IF Key[e] \in keys THEN "duplicate" ELSE "mark"]
       \/ /\ Mishap
          /\ enqueuing' = [enqueuing EXCEPT ![e] = "store"]
    /\ UNCHANGED <<jobVars, worker, emailHistory>>

\* Mutant of EnqueueMark: the key is not stored.
EnqueueNoMark(e) ==
    /\ enqueuing[e] = "mark"
    /\ enqueuing' = [enqueuing EXCEPT ![e] = "store"]
    /\ Smooth
    /\ UNCHANGED <<jobVars, worker, emailHistory>>

\* The key is stored; a failure lets the mail through, stored or not.
EnqueueMark(e) ==
    /\ enqueuing[e] = "mark"
    /\ enqueuing' = [enqueuing EXCEPT ![e] = "store"]
    /\ \/ Smooth /\ keys' = keys \cup {Key[e]}
       \/ Mishap /\ keys' \in {keys, keys \cup {Key[e]}}
    /\ UNCHANGED <<job, expired, worker, emailHistory>>

\* The job is stored; a failure is the caller's, who only logs it.
EnqueueStore(e) ==
    /\ enqueuing[e] = "store"
    /\ \/ /\ Smooth
          /\ job' = [job EXCEPT ![e].status = "queued"]
          /\ enqueuing' = [enqueuing EXCEPT ![e] = "stored"]
       \/ /\ Mishap
          /\ job' \in {job, [job EXCEPT ![e].status = "queued"]}
          /\ enqueuing' = [enqueuing EXCEPT ![e] = "failed"]
    /\ UNCHANGED <<keys, expired, worker, emailHistory>>
-----------------------------------------------------------------------------
\* Time.

LeaseAges(e) ==
    /\ job[e].lease = "fresh"
    /\ job' = [job EXCEPT ![e].lease = "old"]
    /\ UNCHANGED <<keys, expired, enqueuing, worker, mishaps, emailHistory>>

BackoffEnds(e) ==
    /\ ~job[e].due
    /\ job' = [job EXCEPT ![e].due = TRUE]
    /\ UNCHANGED <<keys, expired, enqueuing, worker, mishaps, emailHistory>>

LinkExpires(e) ==
    /\ e \in Resets \ expired /\ job[e].status # "none"
    /\ expired' = expired \cup {e}
    /\ UNCHANGED <<job, keys, enqueuing, worker, mishaps, emailHistory>>
-----------------------------------------------------------------------------
\* processEmailQueue

Stale == {e \in Mails : job[e].status = "processing" /\ job[e].lease = "old"}
Due == {e \in Mails : job[e].status = "queued" /\ job[e].due}

Busy(w) == worker[w].pc # "idle"

\* The one read of a tick, and the time it goes by.
TickRead(w) ==
    /\ ~Busy(w)
    /\ Stale \cup Due # {}
    /\ worker' = [worker EXCEPT ![w] =
            [pc |-> "recover", recover |-> Stale, todo |-> Stale \cup Due, expired |-> expired,
             attempts |-> [e \in Mails |-> job[e].attempts], at |-> NoMail]]
    /\ together' = (together \/ \E other \in Workers \ {w} : Busy(other))
    /\ UNCHANGED <<jobVars, enqueuing, mishaps, sends, thrown, cut>>

\* A write to the job at hand: a failure is swallowed, and may have been made.
Write(e, new) ==
    \/ Smooth /\ job' = [job EXCEPT ![e] = new]
    \/ Mishap /\ job' \in {job, [job EXCEPT ![e] = new]}

\* A job whose lease is old goes back to the queue: its status first.
TickRecover(w) ==
    /\ worker[w].pc = "recover"
    /\ \/ \E e \in worker[w].recover :
            /\ Write(e, [job[e] EXCEPT !.status = "queued"])
            /\ worker' = [worker EXCEPT ![w].pc = "recovered", ![w].recover = @ \ {e}, ![w].at = e]
       \/ /\ worker[w].recover = {}
          /\ worker' = [worker EXCEPT ![w].pc = "next"]
          /\ UNCHANGED <<job, mishaps>>
    /\ UNCHANGED <<keys, expired, enqueuing, emailHistory>>

\* Then the time of its retry, which is now.
TickRecovered(w) ==
    /\ worker[w].pc = "recovered"
    /\ LET e == worker[w].at IN Write(e, [job[e] EXCEPT !.due = TRUE])
    /\ worker' = [worker EXCEPT ![w].pc = "recover", ![w].at = NoMail]
    /\ UNCHANGED <<keys, expired, enqueuing, emailHistory>>

\* The next job: the urgent ones first.
NextMail(some) == CHOOSE e \in some : e \in Urgent \/ some \cap Urgent = {}

TickNext(w) ==
    /\ worker[w].pc = "next"
    /\ LET me == worker[w]
           e == NextMail(me.todo)
       IN  worker' = [worker EXCEPT ![w] =
                IF me.todo = {} THEN IdleTick
                ELSE [me EXCEPT !.todo = me.todo \ {e}, !.at = e,
                                !.pc = IF e \in me.expired THEN "dead" ELSE "lease"]]
    /\ UNCHANGED <<jobVars, enqueuing, mishaps, emailHistory>>

Goto(w, pc) == worker' = [worker EXCEPT ![w].pc = pc]

\* The lease is two writes: the status, then the time.
TickLease(w) ==
    /\ worker[w].pc = "lease"
    /\ LET e == worker[w].at IN Write(e, [job[e] EXCEPT !.status = "processing"])
    /\ Goto(w, "leased")
    /\ UNCHANGED <<keys, expired, enqueuing, emailHistory>>

\* Mutant of TickLeaseTime: the lease has no time.
TickNoLeaseTime(w) ==
    /\ worker[w].pc = "leased"
    /\ Goto(w, "resolve")
    /\ UNCHANGED <<jobVars, enqueuing, mishaps, emailHistory>>

\* The time written is that of the tick's start, which may be long ago.
TickLeaseTime(w) ==
    /\ worker[w].pc = "leased"
    /\ LET e == worker[w].at
       IN  /\ \E age \in {"fresh", "old"} : Write(e, [job[e] EXCEPT !.lease = age])
           /\ cut' = IF mishaps' = mishaps THEN cut ELSE cut \cup {e}
    /\ Goto(w, "resolve")
    /\ UNCHANGED <<keys, expired, enqueuing, sends, thrown, together>>

\* No recipient, or no answer to the question who it is.
TickResolve(w) ==
    /\ worker[w].pc = "resolve"
    /\ \/ Smooth /\ Goto(w, "send")
       \/ Smooth /\ Goto(w, "dead")
       \/ Mishap /\ Goto(w, "dead")
    /\ UNCHANGED <<jobVars, enqueuing, emailHistory>>

LastTry(attempts) == attempts + 1 >= MaxAttempts

TickSend(w) ==
    /\ worker[w].pc = "send"
    /\ LET e == worker[w].at
       IN  /\ sends' = [sends EXCEPT ![e] = @ + 1]
           /\ \/ Goto(w, "sent") /\ UNCHANGED thrown
              \/ Goto(w, "dead") /\ UNCHANGED thrown
              \/ /\ thrown' = [thrown EXCEPT ![e] = @ + 1]
                 /\ Goto(w, IF LastTry(worker[w].attempts[e]) THEN "dead" ELSE "requeue")
    /\ UNCHANGED <<jobVars, enqueuing, mishaps, together, cut>>

Settle(w, status) ==
    /\ LET e == worker[w].at IN Write(e, [job[e] EXCEPT !.status = status])
    /\ worker' = [worker EXCEPT ![w].pc = "next", ![w].at = NoMail]
    /\ UNCHANGED <<keys, expired, enqueuing, emailHistory>>

TickSent(w) == worker[w].pc = "sent" /\ Settle(w, "sent")

TickDead(w) == worker[w].pc = "dead" /\ Settle(w, "deadletter")

\* A retry: the status first, then the count, then the time of the retry.
TickRequeue(w) ==
    /\ worker[w].pc = "requeue"
    /\ LET e == worker[w].at IN Write(e, [job[e] EXCEPT !.status = "queued"])
    /\ Goto(w, "count")
    /\ UNCHANGED <<keys, expired, enqueuing, emailHistory>>

TickCount(w) ==
    /\ worker[w].pc = "count"
    /\ LET e == worker[w].at IN Write(e, [job[e] EXCEPT !.attempts = worker[w].attempts[e] + 1])
    /\ Goto(w, "backoff")
    /\ UNCHANGED <<keys, expired, enqueuing, emailHistory>>

TickBackoff(w) ==
    /\ worker[w].pc = "backoff"
    /\ LET e == worker[w].at IN Write(e, [job[e] EXCEPT !.due = FALSE])
    /\ worker' = [worker EXCEPT ![w].pc = "next", ![w].at = NoMail]
    /\ UNCHANGED <<keys, expired, enqueuing, emailHistory>>

\* The process dies; the next one starts with an empty memory.
WorkerDies(w) ==
    /\ Mishap
    /\ Busy(w)
    /\ cut' = IF worker[w].pc = "leased" THEN cut \cup {worker[w].at} ELSE cut
    /\ worker' = [worker EXCEPT ![w] = IdleTick]
    /\ UNCHANGED <<jobVars, enqueuing, sends, thrown, together>>
-----------------------------------------------------------------------------
EnqueueStep(e) == EnqueueLook(e) \/ EnqueueMark(e) \/ EnqueueStore(e)

TickStep(w) ==
    \/ TickRead(w) \/ TickRecover(w) \/ TickRecovered(w) \/ TickNext(w)
    \/ TickLease(w) \/ TickLeaseTime(w) \/ TickResolve(w) \/ TickSend(w) \/ TickSent(w)
    \/ TickDead(w) \/ TickRequeue(w) \/ TickCount(w) \/ TickBackoff(w)

TimeStep(e) == LeaseAges(e) \/ BackoffEnds(e)

EmailQuiet ==
    /\ Stale \cup Due = {} /\ (\A w \in Workers : ~Busy(w))
    /\ UNCHANGED emailVars

EmailNext ==
    \/ \E e \in Mails : EnqueueBegin(e) \/ EnqueueStep(e) \/ TimeStep(e) \/ LinkExpires(e)
    \/ \E w \in Workers : TickStep(w) \/ WorkerDies(w)
    \/ EmailQuiet

\* A worker ticks every five seconds and a started enqueue goes on; time passes.
EmailFairness ==
    /\ \A e \in Mails : WF_emailVars(EnqueueStep(e)) /\ WF_emailVars(TimeStep(e))
    /\ \A w \in Workers : WF_emailVars(TickStep(w))

EmailSpec == EmailInit /\ [][EmailNext]_emailVars /\ EmailFairness
-----------------------------------------------------------------------------
\* As long as no worker dies and no call of the database fails, an enqueue is
\* told "duplicate" only when a job of its key is stored or is about to be; and
\* where no two ticks and no two enqueues of a key overlap either, a key lets one
\* mail through, and a mail is handed to the provider once, and once more for
\* every call that threw, up to EMAIL_MAX_ATTEMPTS.
MailOnce ==
    mishaps = 0 =>
        /\ \A e \in Mails : enqueuing[e] = "duplicate" =>
                \E other \in SameKey(e) : job[other].status # "none" \/ enqueuing[other] = "store"
        /\ ~together => \A e \in Mails :
                /\ sends[e] <= 1 + thrown[e] /\ sends[e] <= MaxAttempts
                /\ job[e].status # "none" =>
                        \A other \in SameKey(e) : job[other].status = "none"

\* "Worker down: jobs stay in the DB": the queue drains again and again: every
\* stored mail is sent or put to the dead letters, whatever the provider does and
\* though a worker dies, unless the second write of its lease was cut off:
\* without a leasedAt no tick takes the job back.
QueueDrains ==
    []<>(\A e \in Mails : job[e].status \in {"none", "sent", "deadletter"} \/ e \in cut)
=============================================================================
