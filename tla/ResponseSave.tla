---------------------------- MODULE ResponseSave ----------------------------
(***************************************************************************)
(* saveResponse (src/modules/response/response.service.js): the autosave   *)
(* of one answer, invoked by the student's page, by the flush of a submit  *)
(* and by the replay of an offline journal.  It reads three times before   *)
(* it writes, so that several saves of one attempt interleave between the  *)
(* reads and the insert; four unique indexes have the last word.           *)
(*                                                                         *)
(* The answers belong to one attempt.  A save stores a whole row, or       *)
(* nothing: an essay's revision row goes into the same transaction and     *)
(* holds the row's revision number, so it is not kept apart.  The client's *)
(* clock (EPOCH_MISMATCH) is an input that no other state depends on.      *)
(***************************************************************************)
EXTENDS DbFaults

CONSTANTS
    Items,      \* items the clients name
    Mode,       \* resolveResponseMode of an item; "none": not in the package
    Keys,       \* idempotency keys
    Values,     \* answers
    Requests,   \* what the clients send; a retry is the same request again
    NoRequest,
    Saves       \* invocations of saveResponse

ASSUME ModeAssumption == Mode \in [Items -> {"first", "editable", "none"}]

ASSUME RequestsAssumption ==
    /\ Requests \subseteq [item : Items, seq : Nat, key : Keys, val : Values]
    /\ NoRequest \notin Requests

VARIABLES
    rows,       \* attempt_responses of the attempt
    open,       \* the clock has not passed attempts.ends_at
    save        \* local state of the invocations

responseVars == <<rows, open, save>>

\* REJECTION_REASONS that the rows and the clock decide.
Refusals == {"late", "invalid_item", "item_locked", "stale_seq", "duplicate"}

SavePcs == {"idle", "key", "latest", "insert", "conflict", "done"}

SaveResults == Refusals \cup {"none", "accepted", "not_found", "error"}

ResponseType ==
    /\ rows \subseteq [item : Items, seq : Nat \ {0}, key : Keys, val : Values,
                       rev : Nat \ {0}]
    /\ open \in BOOLEAN
    /\ save \in [Saves -> [pc      : SavePcs,
                           req     : Requests \cup {NoRequest},
                           rev     : Nat,
                           res     : SaveResults,
                           highest : Nat]]

IdleSave ==
    [pc |-> "idle", req |-> NoRequest, rev |-> 0, res |-> "none", highest |-> 0]

ResponseInit ==
    /\ rows = {}
    /\ open = TRUE
    /\ save = [s \in Saves |-> IdleSave]

FinishSave(s, res) == save' = [save EXCEPT ![s].pc = "done", ![s].res = res]

\* buildServerAck({ accepted: true, highestAcceptedSeq: seq })
Acknowledge(s, seq) ==
    save' = [save EXCEPT ![s].pc = "done", ![s].res = "accepted", ![s].highest = seq]

RowsOf(i) == {row \in rows : row.item = i}

\* The row of an item with the highest client_seq.
LatestOf(i) == {row \in RowsOf(i) : \A other \in RowsOf(i) : other.seq <= row.seq}

-----------------------------------------------------------------------------
\* The attempt is read (a failed read: not found); its window and its content
\* package decide whether the save goes on.
SaveBegin(s, r) ==
    /\ save[s].pc = "idle"
    /\ LET refusal == IF ~open THEN "late"
                      ELSE IF Mode[r.item] = "none" THEN "invalid_item"
                      ELSE "none"
           begun == [IdleSave EXCEPT !.req = r]
       IN \/ /\ Healthy
             /\ save' = [save EXCEPT ![s] = [begun EXCEPT
                    !.pc = IF refusal = "none" THEN "key" ELSE "done",
                    !.res = refusal]]
          \/ /\ Faulty
             /\ save' = [save EXCEPT ![s] = [begun EXCEPT
                    !.pc = "done", !.res = "not_found"]]
    /\ UNCHANGED <<rows, open>>

\* A stored row with the request's idempotency key is acknowledged again (a
\* failed lookup counts as not found).
SaveByKey(s) ==
    /\ save[s].pc = "key"
    /\ LET stored == {row \in rows : row.key = save[s].req.key}
           next == save' = [save EXCEPT ![s].pc = "latest"]
       IN \/ Healthy /\ \E row \in stored : Acknowledge(s, row.seq)
          \/ Healthy /\ stored = {} /\ next
          \/ Faulty /\ next
    /\ UNCHANGED <<rows, open>>

\* Off by one: the next sequence number is taken for a stale one.
SeqRefusedOffByOne(r, last) ==
    \/ r.seq <= last + 1 /\ last > 0
    \/ r.seq = 0
    \/ r.seq > last + 1 /\ Mode[r.item] # "editable"

\* Off by one the other way: sequence number 0, or the last one again.
SeqRefusedBelow(r, last) ==
    \/ r.seq < last
    \/ r.seq > last + 1 /\ Mode[r.item] # "editable"

\* validateClientSeq: seq <= last is stale, a gap is for editable items only.
SeqRefused(r, last) ==
    \/ r.seq <= last
    \/ r.seq > last + 1 /\ Mode[r.item] # "editable"

\* evaluateItemLockGate, then validateClientSeq, on the row read last.
SaveGate(s, last, rev) ==
    LET r == save[s].req IN
    IF Mode[r.item] = "first" /\ last > 0 THEN FinishSave(s, "item_locked")
    ELSE IF SeqRefused(r, last) THEN FinishSave(s, "stale_seq")
    ELSE save' = [save EXCEPT ![s].pc = "insert", ![s].rev = rev + 1]

\* The item's latest row is read (a failed read counts as none).
SaveReadLatest(s) ==
    /\ save[s].pc = "latest"
    /\ LET latest == LatestOf(save[s].req.item)
       IN \/ Healthy /\ \E row \in latest : SaveGate(s, row.seq, row.rev)
          \/ Healthy /\ latest = {} /\ SaveGate(s, 0, 0)
          \/ Faulty /\ SaveGate(s, 0, 0)
    /\ UNCHANGED <<rows, open>>

\* A schema with the index on the idempotency key alone.
ClashKeyOnly(r) == \E row \in rows : row.key = r.key

\* What the unique indexes of migration 015 refuse.
Clash(r) ==
    \E row \in rows :
        \/ row.key = r.key
        \/ row.item = r.item /\ (row.seq = r.seq \/ Mode[r.item] = "first")

NewRow(s) ==
    LET r == save[s].req
    IN [item |-> r.item, seq |-> r.seq, key |-> r.key, val |-> r.val,
        rev |-> save[s].rev]

\* The transaction commits; its answer may be lost on the way back.
SaveInsert(s) ==
    /\ save[s].pc = "insert"
    /\ ~Clash(save[s].req)
    /\ rows' = rows \cup {NewRow(s)}
    /\ \/ Healthy /\ Acknowledge(s, save[s].req.seq)
       \/ Faulty /\ FinishSave(s, "error")
    /\ UNCHANGED open

\* A unique index refuses the row (23505).
SaveRefused(s) ==
    /\ save[s].pc = "insert"
    /\ Clash(save[s].req)
    /\ save' = [save EXCEPT ![s].pc = "conflict"]
    /\ Healthy
    /\ UNCHANGED <<rows, open>>

\* The transaction fails for another reason: an exception ends the request.
SaveError(s) ==
    /\ save[s].pc = "insert"
    /\ FinishSave(s, "error")
    /\ Faulty
    /\ UNCHANGED <<rows, open>>

\* The refused save acknowledged with its own number, whatever won.
SaveConflictOwnSeq(s) ==
    /\ save[s].pc = "conflict"
    /\ Acknowledge(s, save[s].req.seq)
    /\ Healthy
    /\ UNCHANGED <<rows, open>>

\* After a refusal the item's latest row is acknowledged in place of this one
\* unless it is older (a failed read counts as none).
SaveConflict(s) ==
    /\ save[s].pc = "conflict"
    /\ LET newer == {row \in LatestOf(save[s].req.item) : row.seq >= save[s].req.seq}
       IN \/ Healthy /\ \E row \in newer : Acknowledge(s, row.seq)
          \/ Healthy /\ newer = {} /\ FinishSave(s, "duplicate")
          \/ Faulty /\ FinishSave(s, "duplicate")
    /\ UNCHANGED <<rows, open>>

SaveStep(s) ==
    \/ SaveByKey(s)
    \/ SaveReadLatest(s)
    \/ SaveInsert(s)
    \/ SaveRefused(s)
    \/ SaveError(s)
    \/ SaveConflict(s)

\* The clock passes ends_at (reopening an attempt does not move it).
WindowCloses ==
    /\ open
    /\ open' = FALSE
    /\ Healthy
    /\ UNCHANGED <<rows, save>>

-----------------------------------------------------------------------------
(* The answers of one attempt while the student's page saves them: retries *)
(* of a request, two tabs that number their saves alike, saves that arrive *)
(* out of order, and the end of the attempt's window.                      *)

\* Every invocation has returned.
SavesQuiet ==
    /\ \A s \in Saves : save[s].pc = "done"
    /\ UNCHANGED <<responseVars, faults>>

ResponseNext ==
    \/ \E s \in Saves :
        \/ \E r \in Requests : SaveBegin(s, r)
        \/ SaveStep(s)
    \/ WindowCloses
    \/ SavesQuiet

ResponseSpec == ResponseInit /\ faults = 0 /\ [][ResponseNext]_<<responseVars, faults>>

\* A key names an item (deriveResponseKey hashes the item), not always one save.
KeysNameItems == \A r, q \in Requests : r.key = q.key => r.item = q.item

-----------------------------------------------------------------------------
(* Properties.                                                             *)

Accepted == {s \in Saves : save[s].res = "accepted"}

\* An accepted ACK is backed by a row of the item it names: the row that has
\* the acknowledged number, and that is either as new as the save or was
\* stored under its idempotency key (buildServerAck, "durable").
AckBacked ==
    \A s \in Accepted :
        \E row \in RowsOf(save[s].req.item) :
            /\ row.seq = save[s].highest
            /\ row.seq >= save[s].req.seq \/ row.key = save[s].req.key

\* The first answer of a first-answer item is final: one row, and every
\* accepted ACK of the item names it, whichever saves raced for it.
OneFinalAnswer ==
    \A i \in Items : Mode[i] = "first" =>
        /\ \A row, other \in RowsOf(i) : row = other
        /\ \A s \in Accepted : save[s].req.item = i =>
               \A row \in RowsOf(i) : save[s].highest = row.seq

\* A save is refused as stale, locked or duplicate only because of an answer
\* that is stored, or because its number cannot be the item's next one: no
\* interleaving of saves refuses the newest answer of an editable item.
RefusedForStored ==
    \A s \in Saves : save[s].res \in {"stale_seq", "item_locked", "duplicate"} =>
        LET r == save[s].req IN
        \/ r.seq = 0
        \/ Mode[r.item] = "first" /\ (r.seq > 1 \/ RowsOf(r.item) # {})
        \/ \E row \in rows : row.key = r.key \/ (row.item = r.item /\ row.seq >= r.seq)

-----------------------------------------------------------------------------
(* A statement of the source that the code does not keep.                  *)

\* saveResponse, on a unique index that refuses a row: a concurrent duplicate
\* save is rejected deterministically.
ConcurrentDuplicateRejected ==
    \A s, t \in Accepted :
        /\ save[s].req.item = save[t].req.item
        /\ save[s].req.seq = save[t].req.seq
        => save[s].req.val = save[t].req.val
=============================================================================
