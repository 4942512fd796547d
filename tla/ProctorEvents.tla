---------------------------- MODULE ProctorEvents ---------------------------
(***************************************************************************)
(* The evidence of one attempt: the browser's collector, which numbers raw *)
(* events, buffers them and posts them in batches without waiting for the  *)
(* batch before (public/js/proctor-collector.js), and the server's         *)
(* recordProctorEvents (src/modules/proctor/proctor.service.js), which     *)
(* classifies a batch, appends it to a hash chain, counts strikes and ends *)
(* the attempt at the third.  Every await of either is a step: batches of  *)
(* one page, resent batches and the batches of a page that was reloaded    *)
(* overlap, and the attempt is submitted or reopened meanwhile.            *)
(*                                                                         *)
(* A hash is named by what makes it unique: the invocation that computed   *)
(* it (its receive time is hashed) and the event.                          *)
(***************************************************************************)
EXTENDS AttemptTransition, FiniteSetsExt, SequencesExt

CONSTANTS
    Attempt,    \* the attempt
    Batches,    \* posts of the collector and their invocations of recordProctorEvents
    Others,     \* other calls on the attempt: a submission, a reopening
    Incidents,  \* what the page observes, in this order
    Threshold,  \* STRIKE_THRESHOLD_MS
    Window,     \* DEDUPE_WINDOW_MS
    MaxBuffer,  \* MAX_BUFFER
    MaxLosses,  \* how many posts end in a network error
    MaxReloads  \* how often the page is reloaded

ASSUME ProctorAssumption ==
    /\ Attempts = {Attempt}
    /\ Calls = Batches \cup Others
    /\ Batches \cap Others = {}
    /\ Incidents \in Seq([focus : BOOLEAN, at : Nat, dur : Nat])
    /\ Threshold \in Nat \ {0} /\ Window \in Nat
    /\ MaxBuffer \in Nat \ {0}
    /\ MaxLosses \in Nat /\ MaxReloads \in Nat

VARIABLES
    next,       \* the incident the page observes next
    seq,        \* this.seq
    buffer,     \* this.buffer
    pageEpoch,  \* this.epoch
    reloads,
    losses,
    batch,      \* posts of the page and their invocations
    log         \* proctor_events, in the order of their ids

pageVars == <<next, seq, buffer, pageEpoch, reloads, losses>>
vars == <<attemptVars, pageVars, batch, log>>

Event == [seq : Nat \ {0}, focus : BOOLEAN, at : Nat, dur : Nat, epoch : Nat]

NoHash == <<>>
Hashes == {NoHash} \cup (Batches \X Nat)

Levels == {"none", "warning_1", "warning_2", "terminated"}

BatchPcs == {"idle", "attempt", "stored", "strikes", "tail", "events", "done"}

TypeOK ==
    /\ AttemptType
    /\ next \in 1..(Len(Incidents) + 1)
    /\ seq \in 0..Len(Incidents)
    /\ buffer \in Seq(Event)
    /\ pageEpoch \in Nat
    /\ reloads \in 0..MaxReloads /\ losses \in 0..MaxLosses
    /\ batch \in [Batches -> [pc : BatchPcs,
                              evs : Seq(Event),     \* the body of the post
                              waits : BOOLEAN,      \* the page awaits the answer
                              ok : BOOLEAN,         \* res.ok
                              epoch : Nat,          \* currentEpoch
                              stored : 0..Len(log), \* storedKeys: of the first rows
                              strikes : 0..Len(log),\* confirmedBefore: of the first rows
                              prev : Hashes,        \* prevHash
                              left : Seq(Event),    \* events still to handle
                              kept : SUBSET Event,  \* events it has tried to insert
                              terminated : BOOLEAN]]
    /\ log \in Seq([ev : Event, by : Batches, prev : Hashes, hash : Hashes,
                    level : Levels])

IdleBatch ==
    [pc |-> "idle", evs |-> <<>>, waits |-> FALSE, ok |-> FALSE, epoch |-> 0,
     stored |-> 0, strikes |-> 0, prev |-> NoHash, left |-> <<>>, kept |-> {},
     terminated |-> FALSE]

\* The attempt is in progress and the page has been opened.
Init ==
    /\ faults = 0
    /\ status = [a \in Attempts |-> "in_progress"]
    /\ epoch = [a \in Attempts |-> 1]
    /\ lease = [a \in Attempts |-> "active"]
    /\ call = [c \in Calls |-> IdleCall]
    /\ next = 1 /\ seq = 0 /\ buffer = <<>> /\ pageEpoch = 1
    /\ reloads = 0 /\ losses = 0
    /\ batch = [b \in Batches |-> IdleBatch]
    /\ log = <<>>

-----------------------------------------------------------------------------
(* Classification (proctor.schema.js).                                     *)

\* A technical event or one below the threshold never counts.
Strike(e) == e.focus /\ e.dur >= Threshold

\* Only what begins after an incident and within its window.
SameIncidentFollowing(e, c) == c.at < e.at /\ e.at <= c.at + Window

\* The intervals overlap or begin within the window of each other.
SameIncident(e, c) ==
    \/ /\ e.dur > 0 /\ c.dur > 0
       /\ e.at < c.at + c.dur /\ c.at < e.at + e.dur
    \/ e.at <= c.at + Window /\ c.at <= e.at + Window

Level(n) ==
    CASE n >= 3 -> "terminated"
      [] n = 2  -> "warning_2"
      [] n = 1  -> "warning_1"
      [] OTHER  -> "none"

-----------------------------------------------------------------------------
(* The collector.                                                          *)

FirstN(s, n) == SubSeq(s, 1, IF Len(s) < n THEN Len(s) ELSE n)

\* _flush takes a batch off the buffer and posts it, whatever else is posted.
Flush(b, buf) ==
    /\ batch[b].pc = "idle"
    /\ batch' = [batch EXCEPT ![b].pc = "attempt", ![b].waits = TRUE,
                              ![b].evs = FirstN(buf, MaxBuffer)]
    /\ buffer' = SubSeq(buf, MaxBuffer + 1, Len(buf))

\* _record: the next number, at the end of the buffer; offline it waits there.
Record ==
    /\ next <= Len(Incidents)
    /\ LET i == Incidents[next]
           e == [seq |-> seq + 1, focus |-> i.focus, at |-> i.at, dur |-> i.dur,
                 epoch |-> pageEpoch]
       IN \/ buffer' = Append(buffer, e) /\ UNCHANGED batch
          \/ \E b \in Batches : Flush(b, Append(buffer, e))
    /\ next' = next + 1
    /\ seq' = seq + 1
    /\ Healthy
    /\ UNCHANGED <<status, epoch, lease, call, pageEpoch, reloads, losses, log>>

\* The network is back, or the collector is stopped.
Online ==
    /\ buffer # <<>>
    /\ \E b \in Batches : Flush(b, buffer)
    /\ Healthy
    /\ UNCHANGED <<status, epoch, lease, call, next, seq, pageEpoch, reloads,
                   losses, log>>

\* Nothing goes back into the buffer.
RestoreNothing(evs) == buffer

\* The batch goes back to the front.
Restore(evs) == evs \o buffer

\* A network error: the request never arrives, or only its answer is lost.
Lost(b) ==
    /\ batch[b].waits
    /\ losses < MaxLosses
    /\ losses' = losses + 1
    /\ buffer' = Restore(batch[b].evs)
    /\ \/ batch' = [batch EXCEPT ![b].waits = FALSE]
       \/ /\ batch[b].pc = "attempt"
          /\ batch' = [batch EXCEPT ![b].waits = FALSE, ![b].pc = "done"]
    /\ Healthy
    /\ UNCHANGED <<status, epoch, lease, call, next, seq, pageEpoch, reloads, log>>

\* The answer: a refused batch is kept, as far as the buffer's bound allows.
Answered(b) ==
    /\ batch[b].pc = "done" /\ batch[b].waits
    /\ batch' = [batch EXCEPT ![b].waits = FALSE]
    /\ buffer' = IF batch[b].ok THEN buffer
                 ELSE FirstN(Restore(batch[b].evs), 3 * MaxBuffer)
    /\ Healthy
    /\ UNCHANGED <<status, epoch, lease, call, next, seq, pageEpoch, reloads,
                   losses, log>>

\* A new page, a new collector: numbers start again, what was buffered is gone.
Reload ==
    /\ reloads < MaxReloads
    /\ reloads' = reloads + 1
    /\ seq' = 0
    /\ buffer' = <<>>
    /\ pageEpoch' = epoch[Attempt]
    /\ batch' = [b \in Batches |-> [batch[b] EXCEPT !.waits = FALSE]]
    /\ Healthy
    /\ UNCHANGED <<status, epoch, lease, call, next, losses, log>>

-----------------------------------------------------------------------------
(* recordProctorEvents.                                                    *)

\* What a failed read of proctor_events is taken for: nothing stored yet.
RowsRead(n) ==
    \/ Healthy /\ n = Len(log)
    \/ Faulty  /\ n = 0

\* getAttempt; a failed read is a missing attempt.
ReadAttempt(b) ==
    /\ batch[b].pc = "attempt"
    /\ \/ /\ Healthy
          /\ batch' = [batch EXCEPT ![b].pc = "stored", ![b].epoch = epoch[Attempt]]
       \/ /\ Faulty
          /\ batch' = [batch EXCEPT ![b].pc = "done", ![b].ok = FALSE]

\* The numbers stored so far.
ReadStored(b) ==
    /\ batch[b].pc = "stored"
    /\ \E n \in {0, Len(log)} :
        /\ RowsRead(n)
        /\ batch' = [batch EXCEPT ![b].pc = "strikes", ![b].stored = n]

\* loadConfirmedStrikes
ReadStrikes(b) ==
    /\ batch[b].pc = "strikes"
    /\ \E n \in {0, Len(log)} :
        /\ RowsRead(n)
        /\ batch' = [batch EXCEPT ![b].pc = "tail", ![b].strikes = n]

\* loadChainTail
ReadTail(b) ==
    /\ batch[b].pc = "tail"
    /\ \E n \in {0, Len(log)} :
        /\ RowsRead(n)
        /\ batch' = [batch EXCEPT
                ![b].pc = "events", ![b].left = batch[b].evs,
                ![b].prev = IF n = 0 THEN NoHash ELSE log[n].hash]

\* The third strike's transition, if any, has returned.
AtEvents(b) ==
    /\ batch[b].pc = "events"
    /\ batch[b].terminated => call[b].pc = "done"

\* storedKeys
StoredKeys(b) ==
    {log[n].ev.seq : n \in 1..batch[b].stored} \cup {e.seq : e \in batch[b].kept}

ConfirmedBefore(b) == {n \in 1..batch[b].strikes : Strike(log[n].ev)}

\* confirmedSoFar
ConfirmedSoFar(b) ==
    {log[n].ev : n \in ConfirmedBefore(b)} \cup {e \in batch[b].kept : Strike(e)}

\* The strikes of the rows read are forgotten.
CountOfBatch(b) == Cardinality({e \in batch[b].kept : Strike(e)})

\* confirmedCount
ConfirmedCount(b) ==
    Cardinality(ConfirmedBefore(b)) + Cardinality({e \in batch[b].kept : Strike(e)})

\* An event that is stored, of another epoch, or of an incident that counted.
Dropped(b, e) ==
    \/ e.seq \in StoredKeys(b)
    \/ e.epoch # batch[b].epoch
    \/ Strike(e) /\ \E c \in ConfirmedSoFar(b) : SameIncident(e, c)

DropEvent(b) ==
    /\ AtEvents(b) /\ batch[b].left # <<>>
    /\ Dropped(b, Head(batch[b].left))
    /\ batch' = [batch EXCEPT ![b].left = Tail(batch[b].left)]
    /\ Healthy
    /\ UNCHANGED log

EventLevel(b, e) == IF Strike(e) THEN Level(ConfirmedCount(b) + 1) ELSE "none"

\* The hash of every event of a batch is taken over the tail that was read.
NextPrevUnmoved(b, e) == batch[b].prev

\* The client's number in the hash's place.
NextPrevNumber(b, e) == <<e.seq>>

\* prevHash = eventHash, stored or not.
NextPrev(b, e) == <<b, e.seq>>

\* Any other event is inserted.  uq_proctor_attempt_device_seq refuses a number
\* that is stored; that and any failure (done or not) are swallowed, and the
\* event counts, and is the previous one of the next, all the same.
KeepEvent(b) ==
    LET e   == Head(batch[b].left)
        row == [ev |-> e, by |-> b, prev |-> batch[b].prev,
                hash |-> <<b, e.seq>>, level |-> EventLevel(b, e)]
        inserted == IF \A n \in 1..Len(log) : log[n].ev.seq # e.seq
                    THEN Append(log, row) ELSE log
    IN
    /\ AtEvents(b) /\ batch[b].left # <<>>
    /\ ~Dropped(b, e)
    /\ \/ Healthy /\ log' = inserted
       \/ Faulty /\ log' \in {log, inserted}
    /\ batch' = [batch EXCEPT
            ![b].left = Tail(batch[b].left),
            ![b].kept = batch[b].kept \cup {e},
            ![b].prev = NextPrev(b, e),
            ![b].terminated = batch[b].terminated \/ row.level = "terminated"]

\* transitionAttempt, once per batch; whatever comes of it is swallowed.
Terminate(b) ==
    /\ batch[b].pc = "events" /\ batch[b].terminated
    /\ \/ TransitionRead(b, Attempt, "terminated")
       \/ /\ call[b].pc = "idle"
          /\ FinishCall(b, "error")
          /\ Faulty
          /\ UNCHANGED <<status, epoch, lease>>

RecordDone(b) ==
    /\ AtEvents(b) /\ batch[b].left = <<>>
    /\ batch' = [batch EXCEPT ![b].pc = "done", ![b].ok = TRUE]
    /\ Healthy
    /\ UNCHANGED log

\* The process dies between two calls: the request goes no further and the page,
\* if it still waits, sees a network error.
RecordDies(b) ==
    /\ batch[b].pc \notin {"idle", "attempt", "done"}
    /\ batch' = [batch EXCEPT ![b].pc = "done", ![b].waits = FALSE]
    /\ buffer' = IF batch[b].waits THEN Restore(batch[b].evs) ELSE buffer
    /\ call' = IF call[b].pc = "idle" THEN call
               ELSE [call EXCEPT ![b].pc = "done"]
    /\ Faulty
    /\ UNCHANGED <<status, epoch, lease, next, seq, pageEpoch, reloads, losses, log>>

-----------------------------------------------------------------------------
PageNext ==
    \/ Record
    \/ Online
    \/ \E b \in Batches : Lost(b) \/ Answered(b)
    \/ Reload

RecordNext ==
    \E b \in Batches :
        \/ /\ \/ ReadAttempt(b) \/ ReadStored(b) \/ ReadStrikes(b) \/ ReadTail(b)
           /\ UNCHANGED <<status, epoch, lease, call, pageVars, log>>
        \/ /\ DropEvent(b) \/ KeepEvent(b) \/ RecordDone(b)
           /\ UNCHANGED <<status, epoch, lease, call, pageVars>>
        \/ Terminate(b) /\ UNCHANGED <<pageVars, batch, log>>
        \/ RecordDies(b)

AttemptNext ==
    /\ \/ \E c \in Others :
            \/ TransitionRead(c, Attempt, "submitted")
            \/ ReopenRead(c, Attempt)
       \/ \E c \in Calls : CallStep(c) \/ CallFault(c)
    /\ UNCHANGED <<pageVars, batch, log>>

\* Nothing is left to observe or to send, every request has returned.
Quiet ==
    /\ next > Len(Incidents)
    /\ \A b \in Batches : batch[b].pc \in {"idle", "done"} /\ ~batch[b].waits
    /\ \A c \in Calls : call[c].pc \in {"idle", "done"}
    /\ UNCHANGED vars

Next == PageNext \/ RecordNext \/ AttemptNext \/ Quiet

Spec == Init /\ [][Next]_vars

-----------------------------------------------------------------------------
(* Properties.                                                             *)

\* What was inserted after a batch had read the log is its own.
Alone(b) ==
    \A n \in 1..Len(log) : log[n].by = b =>
        /\ batch[b].stored = batch[b].strikes
        /\ \A k \in (batch[b].stored + 1)..n : log[k].by = b

\* No two batches overlapped where it matters and no call failed.
Undisturbed == faults = 0 /\ \A b \in Batches : Alone(b)

\* hash_i = H(hash_{i-1} || event_i) (migration 018, hashChainEvent): each row is
\* chained to the row before it, across batches, resends and reloads.
ChainIsLinear ==
    Undisturbed =>
        \A n \in 1..Len(log) :
            log[n].prev = IF n = 1 THEN NoHash ELSE log[n - 1].hash

Confirmed == {n \in 1..Len(log) : Strike(log[n].ev)}

\* One episode is one strike, in whichever batches its events arrive and however
\* often they are sent (proctor.schema.js, dedupeEvent); two warnings, then the
\* end: the levels of the stored strikes follow their
\* order, and with the third one the attempt is ended and its lease released, or
\* this is under way, unless something else moved the attempt.
ThirdStrikeEnds ==
    Undisturbed =>
        /\ \A m, n \in Confirmed : m # n => ~SameIncident(log[m].ev, log[n].ev)
        /\ \A n \in Confirmed :
               log[n].level = Level(Cardinality({m \in Confirmed : m <= n}))
        /\ Cardinality(Confirmed) >= 3 /\ (\A c \in Others : call[c].pc = "idle") =>
               \/ status[Attempt] = "terminated" /\ lease[Attempt] = "released"
               \/ \E b \in Batches : batch[b].terminated /\ call[b].pc # "done"

\* Whatever races and whatever fails, an attempt is ended only when three
\* different focus losses above the threshold were reported: a resent event
\* never counts as a second one.
VerdictBacked ==
    (\E b \in Batches : batch[b].terminated) =>
        Cardinality({e \in UNION {ToSet(batch[b].evs) : b \in Batches} : Strike(e)}) >= 3

\* As long as the page stays and the database answers, what the page observed is
\* in its buffer or on its way, or stored, or of an incident that is stored, or
\* of an epoch that ended: no lost answer, resend or overlap makes it vanish.
NothingVanishes ==
    faults = 0 /\ reloads = 0 /\ epoch[Attempt] = 1 =>
        \A i \in 1..(next - 1) :
            \/ \E e \in ToSet(buffer) : e.seq = i
            \/ \E b \in Batches : batch[b].waits /\ \E e \in ToSet(batch[b].evs) : e.seq = i
            \/ \E n \in 1..Len(log) : log[n].ev.seq = i
            \/ Strike(Incidents[i]) /\ \E n \in Confirmed : SameIncident(Incidents[i], log[n].ev)
=============================================================================
