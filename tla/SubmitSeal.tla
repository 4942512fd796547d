----------------------------- MODULE SubmitSeal -----------------------------
(***************************************************************************)
(* Submitting one attempt (src/modules/submit/submit.service.js) while its *)
(* answers are still being saved, a transition ends it, a teacher reopens  *)
(* it and another submit is on its way.  submitAttempt composes the other  *)
(* two components: it flushes a batch through saveResponse, lists the      *)
(* answers, seals the list in a transaction with its scoring job and then  *)
(* calls transitionAttempt.                                                *)
(***************************************************************************)
EXTENDS AttemptTransition, ResponseSave, Sequences

CONSTANTS
    TheAttempt,
    Submits,    \* invocations of submitAttempt
    Batches,    \* the pending answers a submit may carry along
    NoSeal,
    Wants,      \* the transitions asked for beside the submits
    Reopens     \* whether a teacher reopens the attempt

\* A submit's own calls of transitionAttempt and saveResponse carry its name.
ASSUME SubmitAssumption ==
    /\ TheAttempt \in Attempts
    /\ Submits \subseteq Calls /\ Submits \subseteq Saves
    /\ Batches \subseteq Seq(Requests)
    /\ Wants \subseteq Statuses
    /\ Reopens \in BOOLEAN
    /\ KeysNameItems

VARIABLES
    seals,      \* attempt_seals of the attempt
    jobs,       \* scoring_outbox of the attempt: the submit that enqueued each
    submit      \* local state of the invocations of submitAttempt

submitVars == <<seals, jobs, submit>>

vars == <<attemptVars, responseVars, submitVars>>

\* An answer as a seal and a promise name it.
Answers == [item : Items, seq : Nat \ {0}, val : Values]
Marks == [item : Items, seq : Nat]

\* A seal: its snapshot, and the submit whose hash and receipt it carries.
Seals == [by : Submits, snap : SUBSET Answers]

SubmitPcs ==
    {"idle", "seal", "flush", "flushing", "check", "insert", "winner", "submitting",
     "closing", "done"}

SubmitResults ==
    {"none", "not_found", "attempt_closed", "preview", "sealed", "duplicate",
     "seal_conflict", "error"}

\* promise is not in the code: the acknowledgements a student had got when the
\* submit read the attempt, and those of the batch it flushed.
TypeOK ==
    /\ AttemptType
    /\ ResponseType
    /\ seals \subseteq Seals
    /\ jobs \subseteq Submits
    /\ submit \in [Submits -> [pc        : SubmitPcs,
                               stat      : Statuses \cup {"none"},
                               confirmed : BOOLEAN,
                               batch     : Seq(Requests),
                               snap      : SUBSET Answers,
                               receipt   : Seals \cup {NoSeal},
                               res       : SubmitResults,
                               promise   : SUBSET Marks]]

IdleSubmit ==
    [pc |-> "idle", stat |-> "none", confirmed |-> FALSE, batch |-> <<>>, snap |-> {},
     receipt |-> NoSeal, res |-> "none", promise |-> {}]

\* The attempt was started (module AttemptLifecycle) and is being answered.
Init ==
    /\ faults = 0
    /\ status = [a \in Attempts |-> IF a = TheAttempt THEN "in_progress" ELSE "none"]
    /\ epoch = [a \in Attempts |-> IF a = TheAttempt THEN 1 ELSE 0]
    /\ lease = [a \in Attempts |-> IF a = TheAttempt THEN "active" ELSE "none"]
    /\ call = [c \in Calls |-> IdleCall]
    /\ ResponseInit
    /\ seals = {}
    /\ jobs = {}
    /\ submit = [m \in Submits |-> IdleSubmit]

Acked == {[item |-> save[s].req.item, seq |-> save[s].highest] :
              s \in {t \in Saves : save[t].res = "accepted"}}

FinishSubmit(m, res) == submit' = [submit EXCEPT ![m].pc = "done", ![m].res = res]

ReturnSeal(m, seal, res) ==
    submit' = [submit EXCEPT ![m].pc = "done", ![m].res = res, ![m].receipt = seal]

-----------------------------------------------------------------------------
(* submitAttempt.                                                          *)

\* The attempt is read (a failed read: not found).
SubmitRead(m, batch, confirmed) ==
    /\ submit[m].pc = "idle"
    /\ \/ /\ Healthy
          /\ submit' = [submit EXCEPT ![m] = [IdleSubmit EXCEPT
                !.pc = "seal", !.stat = status[TheAttempt], !.confirmed = confirmed,
                !.batch = batch, !.promise = Acked]]
       \/ /\ Faulty
          /\ FinishSubmit(m, "not_found")
    /\ UNCHANGED <<status, epoch, lease, call, responseVars, seals, jobs>>

\* evaluateSubmitGate, on the status read before.
SubmitGate(m) ==
    IF submit[m].stat \in Terminal
    THEN FinishSubmit(m, "attempt_closed")
    ELSE submit' = [submit EXCEPT ![m].pc = "flush"]

\* An existing seal is returned (a failed lookup counts as none).
SubmitLookup(m) ==
    /\ submit[m].pc = "seal"
    /\ \/ Healthy /\ \E seal \in seals : ReturnSeal(m, seal, "duplicate")
       \/ Healthy /\ seals = {} /\ SubmitGate(m)
       \/ Faulty /\ SubmitGate(m)
    /\ UNCHANGED <<status, epoch, lease, call, responseVars, seals, jobs>>

\* flushPendingBatch: the next pending answer is saved ...
SubmitFlush(m) ==
    /\ submit[m].pc = "flush"
    /\ submit[m].batch # <<>>
    /\ SaveBegin(m, Head(submit[m].batch))
    /\ submit' = [submit EXCEPT ![m].pc = "flushing", ![m].batch = Tail(@)]
    /\ UNCHANGED <<status, epoch, lease, call, seals, jobs>>

\* ... and its outcome counted, whatever it is.
SubmitFlushed(m) ==
    /\ submit[m].pc = "flushing"
    /\ save[m].pc = "done"
    /\ submit' = [submit EXCEPT
            ![m].pc = "flush",
            ![m].promise = IF save[m].res # "accepted" THEN @
                ELSE @ \cup {[item |-> save[m].req.item, seq |-> save[m].highest]}]
    /\ save' = [save EXCEPT ![m] = IdleSave]
    /\ Healthy
    /\ UNCHANGED <<status, epoch, lease, call, rows, open, seals, jobs>>

\* buildFinalSnapshot: the answer with the highest client_seq of each item.
FinalSnapshot ==
    {[item |-> row.item, seq |-> row.seq, val |-> row.val] :
        row \in UNION {LatestOf(i) : i \in Items}}

\* The snapshot taken before the batch is flushed.
SubmitListEarly(m) ==
    /\ submit[m].pc = "flush"
    /\ submit' = [submit EXCEPT
            ![m].pc = IF submit[m].batch # <<>> THEN "flush"
                      ELSE IF submit[m].confirmed THEN "check" ELSE "done",
            ![m].snap = IF submit[m].snap = {} THEN FinalSnapshot ELSE @]
    /\ Healthy
    /\ UNCHANGED <<status, epoch, lease, call, responseVars, seals, jobs>>

\* Without the student's confirmation the list is all there is to it.
Listed(m, snap) ==
    submit' = [submit EXCEPT
        ![m].pc = IF submit[m].confirmed THEN "check" ELSE "done",
        ![m].res = IF submit[m].confirmed THEN "none" ELSE "preview",
        ![m].snap = snap]

\* The answers are listed, a failed list being an empty one.
SubmitList(m) ==
    /\ submit[m].pc = "flush"
    /\ submit[m].batch = <<>>
    /\ \/ Healthy /\ Listed(m, FinalSnapshot)
       \/ Faulty /\ Listed(m, {})
    /\ UNCHANGED <<status, epoch, lease, call, responseVars, seals, jobs>>

\* In the transaction the status is read again, without a lock (a failed read
\* counts as a closed attempt).
SubmitCheck(m) ==
    /\ submit[m].pc = "check"
    /\ \/ /\ Healthy
          /\ status[TheAttempt] = "in_progress"
          /\ submit' = [submit EXCEPT ![m].pc = "insert"]
       \/ /\ Healthy
          /\ status[TheAttempt] # "in_progress"
          /\ FinishSubmit(m, "attempt_closed")
       \/ /\ Faulty
          /\ FinishSubmit(m, "attempt_closed")
    /\ UNCHANGED <<status, epoch, lease, call, responseVars, seals, jobs>>

\* What uq_attempt_seal refuses.
SealTaken == seals # {}

SealOf(m) == [by |-> m, snap |-> submit[m].snap]

\* The seal without its scoring job, which a later step would enqueue.
SubmitInsertSealOnly(m) ==
    /\ submit[m].pc = "insert"
    /\ ~SealTaken
    /\ seals' = seals \cup {SealOf(m)}
    /\ \/ /\ Healthy
          /\ submit' = [submit EXCEPT ![m].pc = "submitting", ![m].receipt = SealOf(m)]
          /\ jobs' = jobs \cup {m}
       \/ /\ Faulty
          /\ FinishSubmit(m, "error")
          /\ jobs' = jobs
    /\ UNCHANGED <<status, epoch, lease, call, responseVars>>

\* The seal and its scoring job are inserted together; the answer of the
\* commit may be lost on the way back.
SubmitInsert(m) ==
    /\ submit[m].pc = "insert"
    /\ ~SealTaken
    /\ seals' = seals \cup {SealOf(m)}
    /\ jobs' = jobs \cup {m}
    /\ \/ /\ Healthy
          /\ submit' = [submit EXCEPT ![m].pc = "submitting", ![m].receipt = SealOf(m)]
       \/ /\ Faulty
          /\ FinishSubmit(m, "error")
    /\ UNCHANGED <<status, epoch, lease, call, responseVars>>

\* The unique index refuses the second seal (23505).
SubmitRefused(m) ==
    /\ submit[m].pc = "insert"
    /\ SealTaken
    /\ submit' = [submit EXCEPT ![m].pc = "winner"]
    /\ Healthy
    /\ UNCHANGED <<status, epoch, lease, call, responseVars, seals, jobs>>

\* The transaction fails: an exception ends the request.
SubmitError(m) ==
    /\ submit[m].pc = "insert"
    /\ FinishSubmit(m, "error")
    /\ Faulty
    /\ UNCHANGED <<status, epoch, lease, call, responseVars, seals, jobs>>

\* The refused submit returns the winner's seal.
SubmitWinner(m) ==
    /\ submit[m].pc = "winner"
    /\ \/ Healthy /\ \E seal \in seals : ReturnSeal(m, seal, "duplicate")
       \/ Faulty /\ FinishSubmit(m, "seal_conflict")
    /\ UNCHANGED <<status, epoch, lease, call, responseVars, seals, jobs>>

\* The transition forgotten.
SubmitNoTransition(m) ==
    /\ submit[m].pc = "submitting"
    /\ FinishSubmit(m, "sealed")
    /\ Healthy
    /\ UNCHANGED <<status, epoch, lease, call, responseVars, seals, jobs>>

\* transitionAttempt(attemptId, "submitted") begins; if its read of the attempt
\* fails the exception is swallowed, and if the process dies nothing follows.
SubmitTransition(m) ==
    /\ submit[m].pc = "submitting"
    /\ \/ /\ TransitionRead(m, TheAttempt, "submitted")
          /\ submit' = [submit EXCEPT ![m].pc = "closing"]
       \/ /\ Faulty
          /\ FinishSubmit(m, "sealed")
          /\ UNCHANGED <<status, epoch, lease, call>>
    /\ UNCHANGED <<responseVars, seals, jobs>>

\* The receipt is returned, whatever became of the transition.
SubmitReturn(m) ==
    /\ submit[m].pc = "closing"
    /\ call[m].pc = "done"
    /\ FinishSubmit(m, "sealed")
    /\ Healthy
    /\ UNCHANGED <<status, epoch, lease, call, responseVars, seals, jobs>>

SubmitStep(m) ==
    \/ SubmitLookup(m)
    \/ SubmitFlush(m)
    \/ SubmitFlushed(m)
    \/ SubmitList(m)
    \/ SubmitCheck(m)
    \/ SubmitInsert(m)
    \/ SubmitRefused(m)
    \/ SubmitError(m)
    \/ SubmitWinner(m)
    \/ SubmitTransition(m)
    \/ SubmitReturn(m)

-----------------------------------------------------------------------------
SubmitNext ==
    \E m \in Submits :
        \/ \E batch \in Batches, confirmed \in BOOLEAN : SubmitRead(m, batch, confirmed)
        \/ SubmitStep(m)

\* The student's page saves, the saves of the flushes go on.
SaveNext ==
    /\ \/ \E s \in Saves \ Submits, r \in Requests : SaveBegin(s, r)
       \/ \E s \in Saves : SaveStep(s)
       \/ WindowCloses
    /\ UNCHANGED <<status, epoch, lease, call, submitVars>>

\* The transitions and reopenings beside the submits; the submits' own go on.
CallNext ==
    /\ \E c \in Calls :
        \/ c \notin Submits /\ \E to \in Wants : TransitionRead(c, TheAttempt, to)
        \/ c \notin Submits /\ Reopens /\ ReopenRead(c, TheAttempt)
        \/ CallStep(c)
        \/ CallFault(c)
    /\ UNCHANGED <<responseVars, submitVars>>

Quiet ==
    /\ \A m \in Submits : submit[m].pc = "done"
    /\ \A s \in Saves \ Submits : save[s].pc = "done"
    /\ \A c \in Calls \ Submits : call[c].pc = "done"
    /\ UNCHANGED vars

Next == SubmitNext \/ SaveNext \/ CallNext \/ Quiet

\* A request that has been read continues: Node runs every continuation, and
\* the database answers or fails.
Fairness ==
    /\ \A m \in Submits : WF_vars(SubmitStep(m))
    /\ \A s \in Saves :
        WF_vars(SaveStep(s) /\ UNCHANGED <<status, epoch, lease, call, submitVars>>)
    /\ \A c \in Calls : WF_vars(CallStep(c) /\ UNCHANGED <<responseVars, submitVars>>)

Spec == Init /\ [][Next]_vars /\ Fairness

-----------------------------------------------------------------------------
(* Properties.                                                             *)

\* However many submits race, retry or lose their answer, the attempt has one
\* seal, the seal has exactly one scoring job, and every receipt a student was
\* given is the one of that seal; and the seal holds at most one answer of each
\* item, each of them one that the student saved.
OneSealOneReceipt ==
    /\ \A x, y \in seals : x = y
    /\ jobs = {x.by : x \in seals}
    /\ \A m \in Submits : submit[m].receipt \in seals \cup {NoSeal}
    /\ \A x \in seals :
        /\ \A e, f \in x.snap : e.item = f.item => e = f
        /\ \A e \in x.snap : \E row \in RowsOf(e.item) : row.seq = e.seq /\ row.val = e.val

\* While the database answers, an answer that had been acknowledged when the
\* submit was received, or that the submit's own flush got acknowledged, is in
\* the seal, or a later one of its item is.
SealKeepsPromises ==
    faults = 0 => \A x \in seals : \A p \in submit[x.by].promise :
        \E e \in x.snap : e.item = p.item /\ e.seq >= p.seq

\* While the database answers, a sealed attempt is closed and its lease is
\* given back, whatever else ends the attempt meanwhile.
SealedCloses ==
    seals # {} ~> status[TheAttempt] \in Terminal /\ lease[TheAttempt] # "active"

-----------------------------------------------------------------------------
(* Statements of the source that the code does not keep.                   *)

\* Migration 017: once the seal is created, later mutations are rejected.
NoSaveAfterSeal == [][seals # {} => rows' = rows]_vars

\* submitAttempt: a submit that returned its receipt has made the transition to
\* submitted and released the lease.
ReceiptMeansSubmitted ==
    \A m \in Submits :
        submit[m].res = "sealed" =>
            status[TheAttempt] \in Terminal /\ lease[TheAttempt] # "active"
=============================================================================
