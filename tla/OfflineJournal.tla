--------------------------- MODULE OfflineJournal ---------------------------
(***************************************************************************)
(* The offline journal of one attempt on one device: the browser's adapter *)
(* (public/js/offline-journal.js), which numbers the student's edits, keeps *)
(* them in IndexedDB and sends them when the network is back, and the      *)
(* server's reconnectSync (src/modules/offline/offline.service.js), which  *)
(* replays a batch through saveResponse and acknowledges a number up to    *)
(* which the browser may forget.  Every await of either side is a step;    *)
(* appends, syncs and their retries overlap, the page may be reloaded and  *)
(* a teacher may reopen the attempt.                                       *)
(*                                                                         *)
(* Encryption is left out: an entry that was written under the device's    *)
(* key is read back under it.                                              *)
(***************************************************************************)
EXTENDS ResponseSave, FiniteSetsExt

CONSTANTS
    MaxEdits,   \* the edits the student makes, in this order
    ItemOf,     \* the item of each edit
    Syncs,      \* invocations of sync() and their requests
    MaxBatch,   \* MAX_BATCH
    MaxEpoch,   \* how often a teacher reopens the attempt
    MaxReloads, \* how often the page is reloaded
    Patient     \* the page awaits every call before it makes the next

Edits == 1..MaxEdits

\* A sync's call of saveResponse carries the sync's name; its idempotency key
\* is the journal number (deriveJournalSyncKey), its answer the edit.
ASSUME OfflineAssumption ==
    /\ MaxEdits \in Nat /\ MaxBatch \in Nat \ {0}
    /\ MaxEpoch \in Nat \ {0} /\ MaxReloads \in Nat
    /\ ItemOf \in [Edits -> Items]
    /\ Syncs \subseteq Saves
    /\ Patient \in BOOLEAN

VARIABLES
    journal,    \* the object store of the browser, keyed by seq
    ackedSeq,   \* this.ackedSeq, and the meta entry it is reloaded from
    pageEpoch,  \* the attempt's epoch when the page was loaded
    reloads,
    append,     \* the invocations of append(), one for each edit
    sync,       \* the invocations of sync(), the browser's side
    serve,      \* the invocations of reconnectSync, the server's side
    epoch,      \* attempts.epoch
    refused,    \* not in the code: the entries refused for good
    order       \* not in the code: see Observe

clientVars == <<journal, ackedSeq, pageEpoch, reloads, append, sync>>
serverVars == <<serve, epoch, refused>>
vars == <<responseVars, faults, clientVars, serverVars, order>>

Entries == [seq : Nat \ {0}, edit : Edits, epoch : 1..MaxEpoch]

\* A result that is durable: the entry's number, its item's, and the item.
Durable == [seq : Nat \ {0}, item : Items, num : Nat \ {0}]

TypeOK ==
    /\ FaultsType
    /\ ResponseType
    /\ journal \subseteq Entries
    /\ \A e, f \in journal : e.seq = f.seq => e = f
    /\ ackedSeq \in Nat
    /\ pageEpoch \in 1..MaxEpoch /\ epoch \in 1..MaxEpoch
    /\ reloads \in 0..MaxReloads
    /\ append \in [Edits -> [pc   : {"idle", "count", "put", "done", "gone"},
                             base : Nat,
                             seq  : Nat]]
    /\ sync \in [Syncs -> [pc     : {"idle", "read", "waiting", "dropping", "dropped",
                                     "done"},
                           read   : SUBSET Entries,
                           answer : Nat]]
    /\ serve \in [Syncs -> [pc      : {"idle", "read", "map", "entries", "saving",
                                      "answered", "done"},
                            batch   : SUBSET Entries,
                            epoch   : 0..MaxEpoch,
                            last    : [Items -> Nat],
                            durable : SUBSET Durable,
                            answer  : Nat]]
    /\ refused \subseteq Entries
    /\ order \in [kept : BOOLEAN, seq : Nat, edit : 0..MaxEdits]

IdleServe ==
    [pc |-> "idle", batch |-> {}, epoch |-> 0, last |-> [i \in Items |-> 0],
     durable |-> {}, answer |-> 0]

\* What is left of an invocation that has returned.
Returned == [pc |-> "done", base |-> 0, seq |-> 0]
SyncOver == [pc |-> "done", read |-> {}, answer |-> 0]
ServeOver == [IdleServe EXCEPT !.pc = "done"]

Init ==
    /\ ResponseInit
    /\ faults = 0
    /\ journal = {}
    /\ ackedSeq = 0
    /\ pageEpoch = 1
    /\ reloads = 0
    /\ append = [e \in Edits |-> [pc |-> "idle", base |-> 0, seq |-> 0]]
    /\ sync = [m \in Syncs |-> [pc |-> "idle", read |-> {}, answer |-> 0]]
    /\ serve = [m \in Syncs |-> IdleServe]
    /\ epoch = 1
    /\ refused = {}
    /\ order = [kept |-> TRUE, seq |-> 0, edit |-> 0]

Appending == {e \in Edits : append[e].pc \in {"count", "put"}}
Syncing == {m \in Syncs : sync[m].pc \notin {"idle", "done"}}

\* A call may begin: any time, unless the page waits for the one before.
MayCall == Patient => Appending = {} /\ Syncing = {}

-----------------------------------------------------------------------------
(* append({ itemId, patch })                                               *)

\* The first operand of the next number is read ...
AppendBegin(e) ==
    /\ append[e].pc = "idle"
    /\ \A f \in Edits : f < e => append[f].pc # "idle"
    /\ MayCall
    /\ append' = [append EXCEPT ![e].pc = "count", ![e].base = ackedSeq]
    /\ UNCHANGED <<journal, ackedSeq, pageEpoch, reloads, sync>>

\* ... then the entries of the store are counted, in the order of the calls ...
AppendCount(e) ==
    /\ append[e].pc = "count"
    /\ \A f \in Edits : f < e => append[f].pc # "count"
    /\ append' = [append EXCEPT ![e].pc = "put",
                                ![e].seq = append[e].base + Cardinality(journal) + 1]
    /\ UNCHANGED <<journal, ackedSeq, pageEpoch, reloads, sync>>

\* ... and, encrypted, the entry is put under its number, in place of any other.
AppendPut(e) ==
    /\ append[e].pc = "put"
    /\ journal' = {f \in journal : f.seq # append[e].seq} \cup
                  {[seq |-> append[e].seq, edit |-> e, epoch |-> pageEpoch]}
    /\ append' = [append EXCEPT ![e] = Returned]
    /\ UNCHANGED <<ackedSeq, pageEpoch, reloads, sync>>

-----------------------------------------------------------------------------
(* sync(), the browser's side                                              *)

\* The n entries with the lowest numbers.
FirstOf(S, n) == {e \in S : Cardinality({f \in S : f.seq < e.seq}) < n}

\* The entries are read and decrypted ...
SyncRead(m) ==
    /\ sync[m].pc = "idle"
    /\ MayCall
    /\ journal # {}
    /\ sync' = [sync EXCEPT ![m].pc = "read", ![m].read = journal]
    /\ UNCHANGED <<journal, ackedSeq, pageEpoch, reloads, append>>

\* ... and those above the browser's mark sent, if there are any.
SyncSend(m) ==
    /\ sync[m].pc = "read"
    /\ LET pending == {e \in sync[m].read : e.seq > ackedSeq}
       IN IF pending = {}
          THEN /\ sync' = [sync EXCEPT ![m] = SyncOver]
               /\ UNCHANGED serve
          ELSE /\ sync' = [sync EXCEPT ![m].pc = "waiting"]
               /\ serve' = [serve EXCEPT ![m].pc = "read",
                        ![m].batch = FirstOf(pending, MaxBatch)]
    /\ Healthy
    /\ UNCHANGED <<journal, ackedSeq, pageEpoch, reloads, append, responseVars,
                   epoch, refused>>

\* The request or its answer is lost, or the answer is an error: the call
\* throws, the journal stays as it is (the server's side goes on).
SyncLost(m) ==
    /\ sync[m].pc = "waiting"
    /\ sync' = [sync EXCEPT ![m] = SyncOver]
    /\ \/ serve[m].pc = "done" /\ UNCHANGED serve /\ Healthy
       \/ serve[m].pc # "done" /\ UNCHANGED serve /\ Faulty
       \/ serve[m].pc = "read" /\ serve' = [serve EXCEPT ![m] = ServeOver] /\ Faulty
    /\ UNCHANGED <<journal, ackedSeq, pageEpoch, reloads, append, responseVars,
                   epoch, refused>>

SyncReceive(m) ==
    /\ sync[m].pc = "waiting"
    /\ serve[m].pc = "answered"
    /\ sync' = [sync EXCEPT ![m].pc = "dropping", ![m].answer = serve[m].answer]
    /\ UNCHANGED <<journal, ackedSeq, pageEpoch, reloads, append>>

\* Mutant of SyncDrop: every entry that was read counts as acknowledged.
SyncDropAll(m) ==
    /\ sync[m].pc = "dropping"
    /\ journal' = {e \in journal : ~\E f \in sync[m].read : f.seq = e.seq}
    /\ sync' = [sync EXCEPT ![m].pc = "dropped"]
    /\ UNCHANGED <<ackedSeq, pageEpoch, reloads, append>>

\* The entries that were read are deleted by their numbers, in one transaction,
\* as far as they are acknowledged ...
SyncDrop(m) ==
    /\ sync[m].pc = "dropping"
    /\ journal' = {e \in journal :
            ~\E f \in sync[m].read : f.seq = e.seq /\ f.seq <= sync[m].answer}
    /\ sync' = [sync EXCEPT ![m].pc = "dropped"]
    /\ UNCHANGED <<ackedSeq, pageEpoch, reloads, append>>

\* ... and the answer becomes the browser's mark, whatever it was before.
SyncAcked(m) ==
    /\ sync[m].pc = "dropped"
    /\ ackedSeq' = sync[m].answer
    /\ sync' = [sync EXCEPT ![m] = SyncOver]
    /\ UNCHANGED <<journal, pageEpoch, reloads, append>>

\* A reload ends the calls of the page; the store and its mark stay.
Reload ==
    /\ reloads < MaxReloads
    /\ reloads' = reloads + 1
    /\ pageEpoch' = epoch
    /\ append' = [e \in Edits |->
            IF e \in Appending THEN [Returned EXCEPT !.pc = "gone"] ELSE append[e]]
    /\ sync' = [m \in Syncs |->
            IF m \in Syncing THEN SyncOver ELSE sync[m]]
    /\ UNCHANGED <<journal, ackedSeq>>

-----------------------------------------------------------------------------
(* reconnectSync                                                           *)

\* The attempt is read (a failed read: not found).
ServeRead(m) ==
    /\ serve[m].pc = "read"
    /\ \/ Healthy /\ serve' = [serve EXCEPT ![m].pc = "map", ![m].epoch = epoch]
       \/ Faulty /\ serve' = [serve EXCEPT ![m] = ServeOver]
    /\ UNCHANGED <<responseVars, epoch, refused>>

\* offline_journal_acks never gets a row: the upsert computes its new value with
\* Math.max on a column reference, which is NaN, no integer; the error it
\* meets is swallowed.  Every sync begins at 0 and no device is a parallel one.
ServerAcked == 0

\* The highest stored number of each item is read (a failed read: none).
ServeMap(m) ==
    /\ serve[m].pc = "map"
    /\ \/ /\ Healthy
          /\ serve' = [serve EXCEPT ![m].pc = "entries",
                ![m].last = [i \in Items |-> Max({row.seq : row \in RowsOf(i)} \cup {0})]]
       \/ /\ Faulty
          /\ serve' = [serve EXCEPT ![m].pc = "entries"]
    /\ UNCHANGED <<responseVars, epoch, refused>>

\* The item's last number instead of the next one.
NumberedAsLast(m, entry) ==
    [item |-> ItemOf[entry.edit], seq |-> serve[m].last[ItemOf[entry.edit]],
     key |-> entry.seq, val |-> entry.edit]

\* The key made from the item's number, which a retry does not get again.
NumberedKey(m, entry) ==
    LET n == serve[m].last[ItemOf[entry.edit]] + 1
    IN [item |-> ItemOf[entry.edit], seq |-> n, key |-> n, val |-> entry.edit]

\* mapJournalToPerItemSeq: an entry gets its item's next number, whatever
\* becomes of the entries before it.
Numbered(m, entry) ==
    [item |-> ItemOf[entry.edit], seq |-> serve[m].last[ItemOf[entry.edit]] + 1,
     key |-> entry.seq, val |-> entry.edit]

NextEntry(m, entry, durable) ==
    LET r == Numbered(m, entry)
        decided == [seq |-> entry.seq, item |-> r.item, num |-> r.seq]
    IN serve' = [serve EXCEPT ![m] = [serve[m] EXCEPT
            !.pc = "entries", !.batch = serve[m].batch \ {entry},
            !.last = [serve[m].last EXCEPT ![r.item] = r.seq],
            !.durable = IF durable THEN serve[m].durable \cup {decided} ELSE serve[m].durable]]

\* The sort the wrong way round.
LastIn(S) == {e \in S : \A f \in S : e.seq >= f.seq}

\* The next entry of a batch: the one with the lowest number.
NextIn(S) == {e \in S : \A f \in S : e.seq <= f.seq}

\* evaluateEpoch against the epoch read before: an entry of another epoch is
\* refused for good, any other is saved.
ServeEntry(m) ==
    /\ serve[m].pc = "entries"
    /\ \E entry \in NextIn(serve[m].batch) :
          \/ /\ entry.epoch # serve[m].epoch
             /\ NextEntry(m, entry, TRUE)
             /\ refused' = refused \cup {entry}
             /\ Healthy
             /\ UNCHANGED responseVars
          \/ /\ entry.epoch = serve[m].epoch
             /\ SaveBegin(m, Numbered(m, entry))
             /\ serve' = [serve EXCEPT ![m].pc = "saving"]
             /\ UNCHANGED refused
    /\ UNCHANGED epoch

\* What FINAL_REASONS does not list: an exception, an attempt not found.
Transient == {"error", "not_found"}

\* A failed save counted among the durable outcomes.
ServeSavedAlwaysDurable(m) ==
    /\ serve[m].pc = "saving"
    /\ save[m].pc = "done"
    /\ \E entry \in NextIn(serve[m].batch) : NextEntry(m, entry, TRUE)
    /\ save' = [save EXCEPT ![m] = IdleSave]
    /\ Healthy
    /\ UNCHANGED <<rows, open, epoch, refused>>

\* The outcome of a save is durable if it was accepted or refused for good.
ServeSaved(m) ==
    /\ serve[m].pc = "saving"
    /\ save[m].pc = "done"
    /\ \E entry \in NextIn(serve[m].batch) :
          /\ NextEntry(m, entry, save[m].res \notin Transient)
          /\ refused' = IF save[m].res \in Refusals THEN refused \cup {entry}
                        ELSE refused
    /\ save' = [save EXCEPT ![m] = IdleSave]
    /\ Healthy
    /\ UNCHANGED <<rows, open, epoch>>

\* computeWatermarkAfterSync: the end of the run of durable outcomes that starts
\* after the server's mark.
Watermark(mark, durable) ==
    /\ \A n \in (ServerAcked + 1)..mark : n \in durable
    /\ mark + 1 \notin durable

ServeAnswer(m) ==
    /\ serve[m].pc = "entries"
    /\ serve[m].batch = {}
    /\ LET durable == {d.seq : d \in serve[m].durable}
       IN \E mark \in {ServerAcked} \cup durable :
            /\ Watermark(mark, durable)
            /\ serve' = [serve EXCEPT ![m] = [IdleServe EXCEPT
                    !.pc = "answered", !.durable = serve[m].durable, !.answer = mark]]
    /\ Healthy
    /\ UNCHANGED <<responseVars, epoch, refused>>

\* The process dies between two steps of a batch.
ServeDies(m) ==
    /\ serve[m].pc \in {"entries", "saving"}
    /\ serve' = [serve EXCEPT ![m] = ServeOver]
    /\ save' = [save EXCEPT ![m] = IdleSave]
    /\ Faulty
    /\ UNCHANGED <<rows, open, epoch, refused>>

ServeStep(m) ==
    \/ ServeRead(m)
    \/ ServeMap(m)
    \/ ServeEntry(m)
    \/ ServeSaved(m)
    \/ ServeAnswer(m)
    \/ ServeDies(m)

\* reopenAttempt moves the epoch.
Reopen ==
    /\ epoch < MaxEpoch
    /\ epoch' = epoch + 1
    /\ Healthy
    /\ UNCHANGED <<responseVars, serve, refused>>

-----------------------------------------------------------------------------
(* What ReplayKeepsOrder is about: the journal's numbers rise with the     *)
(* edits, the newest of which is kept with its number, and no sync passes  *)
(* over an edit that it could have stored.                                 *)

Stored(entry) == \E row \in rows : row.val = entry.edit /\ row.key = entry.seq

\* The answer can never be stored any more: its item takes none or has one, or
\* the window is closed.
Hopeless(entry) == Mode[ItemOf[entry.edit]] # "editable" \/ ~open

PassedOver ==
    \E m \in Syncs :
        /\ serve[m].pc \in {"entries", "saving"}
        /\ \E entry \in serve[m].batch \ serve'[m].batch :
               ~Stored(entry) /\ ~Hopeless(entry)

PutNow == {e \in Edits : append[e].pc = "put" /\ append'[e].pc = "done"}

\* The edit put is newer than the newest one, and so is its number.
Rises(e) == e > order.edit /\ append[e].seq > order.seq

Observe ==
    IF order.kept /\ ~PassedOver /\ \A e \in PutNow : Rises(e)
    THEN order' \in IF PutNow = {} THEN {order}
                   ELSE {[kept |-> TRUE, seq |-> append[e].seq, edit |-> e] : e \in PutNow}
    ELSE order' = [kept |-> FALSE, seq |-> 0, edit |-> 0]

-----------------------------------------------------------------------------
ClientNext ==
    /\ \/ \E e \in Edits : AppendBegin(e) \/ AppendCount(e) \/ AppendPut(e)
       \/ \E m \in Syncs : SyncRead(m) \/ SyncReceive(m) \/ SyncDrop(m) \/ SyncAcked(m)
       \/ Reload
    /\ Healthy
    /\ UNCHANGED <<responseVars, serverVars>>

ServerNext ==
    /\ \/ \E m \in Syncs : ServeStep(m)
       \/ \E m \in Syncs : SaveStep(m) /\ UNCHANGED serverVars
       \/ WindowCloses /\ UNCHANGED serverVars
       \/ Reopen
    /\ UNCHANGED clientVars

Quiet ==
    /\ Appending = {} /\ Syncing = {}
    /\ \A m \in Syncs : serve[m].pc \in {"idle", "answered", "done"}
    /\ UNCHANGED vars

Next ==
    \/ /\ \/ ClientNext
          \/ \E m \in Syncs : SyncSend(m) \/ SyncLost(m)
          \/ ServerNext
       /\ Observe
    \/ Quiet

Spec == Init /\ [][Next]_vars

-----------------------------------------------------------------------------
(* Properties.                                                             *)

\* A number the server acknowledges is decided: an answer is stored under its
\* key, an entry of that number was refused for good, or a save that raced it
\* stored a later answer of the item (computeWatermarkAfterSync: one that merely
\* failed stops the acknowledgement).
AckCoversDecided ==
    \A m \in Syncs : \A n \in 1..serve[m].answer :
        \/ \E row \in rows : row.key = n
        \/ \E f \in refused : f.seq = n
        \/ \E d \in serve[m].durable :
               d.seq = n /\ \E row \in RowsOf(d.item) : row.seq >= d.num

\* However often an edit is sent again, it is stored once (deriveJournalSyncKey).
StoredOnce == \A row, other \in rows : row.val = other.val => row = other

\* As long as the numbers of the journal rise with the edits and no sync passes
\* over an edit that it could have stored (neither is certain: see NoEditLost and
\* Observe), and while the database answers, syncs that overlap store the answers
\* of an item in the order in which the student gave them.
ReplayKeepsOrder ==
    faults = 0 /\ order.kept => \A row, other \in rows :
        row.item = other.item /\ row.seq < other.seq => row.val < other.val

\* Under the same conditions no edit is lost, whatever the syncs that overlap
\* acknowledge and drop (highest contiguous seq, offline-journal.js:261): until
\* the window closes, an edit that its item takes is in the journal or stored.
ReplayLosesNothing ==
    faults = 0 /\ order.kept /\ open => \A e \in Edits :
        append[e].pc = "done" /\ Mode[ItemOf[e]] = "editable" =>
            \/ \E f \in journal : f.edit = e
            \/ \E row \in rows : row.val = e

-----------------------------------------------------------------------------
(* A statement of the source that the code does not keep.                  *)

\* "Lossless": an edit that was appended is in the journal, stored on the
\* server, or was refused by it for good, at least until the window closes.
NoEditLost ==
    open => \A e \in Edits : append[e].pc = "done" =>
        \/ \E f \in journal : f.edit = e
        \/ \E row \in rows : row.val = e
        \/ \E f \in refused : f.edit = e
=============================================================================
