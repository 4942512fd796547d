------------------------ MODULE OfflineJournalProofs ------------------------
(***************************************************************************)
(* Proofs about OfflineJournal, for any edits, items, batches, syncs,      *)
(* reloads, reopenings and failures.  The keys of a replay do not name the *)
(* items (two edits may get one number), so the answers keep less here     *)
(* than RInv of module ResponseSaveProofs: only its RowsApart and          *)
(* NewestExists.  OInv holds of every behaviour.  OrderInv adds, as long   *)
(* as the numbers rise and nothing failed, that whoever replays entries    *)
(* has them from the oldest that is still to be stored.                    *)
(***************************************************************************)
EXTENDS OfflineJournal, ResponseSaveProofs, FiniteSetTheorems

-----------------------------------------------------------------------------
(* The inductive invariant.                                                *)

\* What a replay may ask of saveResponse, under any numbers.
Sendable ==
    {r \in [item : Items, seq : Nat \ {0}, key : Nat \ {0}, val : Edits] : r.item = ItemOf[r.val]}

AppendRecords == [pc : {"idle", "count", "put", "done", "gone"}, base : Nat, seq : Nat]

SyncRecords ==
    [pc : {"idle", "read", "waiting", "dropping", "dropped", "done"},
     read : SUBSET Entries, answer : Nat]

ServeRecords ==
    [pc : {"idle", "read", "map", "entries", "saving", "answered", "done"},
     batch : SUBSET Entries, epoch : 0..MaxEpoch, last : [Items -> Nat],
     durable : SUBSET Durable, answer : Nat]

ReplayRecords ==
    [pc : SavePcs, req : Sendable \cup {NoRequest}, rev : Nat, res : SaveResults, highest : Nat]

BrowserType ==
    /\ journal \subseteq Entries /\ IsFiniteSet(journal)
    /\ ackedSeq \in Nat
    /\ pageEpoch \in 1..MaxEpoch /\ reloads \in 0..MaxReloads
    /\ append \in [Edits -> AppendRecords]
    /\ \A e \in Edits : append[e].pc = "put" => append[e].seq # 0
    /\ sync \in [Syncs -> SyncRecords]

ServerType ==
    /\ FaultsType
    /\ epoch \in 1..MaxEpoch /\ refused \subseteq Entries
    /\ serve \in [Syncs -> ServeRecords]

AnswersType ==
    /\ \A row \in rows :
        /\ row \in [item : Items, seq : Nat \ {0}, key : Nat \ {0}, val : Edits, rev : Nat \ {0}]
        /\ row.item = ItemOf[row.val]
    /\ open \in BOOLEAN
    /\ save \in [Saves -> ReplayRecords]

\* A set of entries as the store keeps them.
Apart(S) == \A e, f \in S : e.seq = f.seq => e = f

EntriesApart ==
    /\ Apart(journal)
    /\ \A m \in Syncs : Apart(sync[m].read) /\ Apart(serve[m].batch)

\* A call of sync() makes one request.
Fresh == \A m \in Syncs : sync[m].pc \in {"idle", "read"} => serve[m].pc = "idle"

\* An edit is somewhere under this number: in the store, on its way, or stored.
Marked(e, n) ==
    \/ \E f \in journal : f.edit = e /\ f.seq = n
    \/ \E m \in Syncs : \E f \in sync[m].read \cup serve[m].batch : f.edit = e /\ f.seq = n
    \/ \E row \in rows : row.val = e /\ row.key = n

\* An edit is put once, under one number.
NumberedOnce ==
    \A e \in Edits, n \in Nat : Marked(e, n) =>
        /\ append[e].pc = "done"
        /\ \A k \in Nat : Marked(e, k) => k = n

\* What is durable was decided.
Decided(d) ==
    \/ \E row \in rows : row.key = d.seq
    \/ \E f \in refused : f.seq = d.seq
    \/ \E row \in RowsOf(d.item) : row.seq >= d.num

ServeSound(me) ==
    /\ \A d \in me.durable : Decided(d)
    /\ \A n \in 1..me.answer : \E d \in me.durable : d.seq = n

\* There is an answer that a save was acknowledged for.
Backs(r) ==
    \/ \E row \in rows : row.key = r.key
    \/ \E row \in RowsOf(r.item) : row.seq >= r.seq

\* What the outcome of a save says of the answers.
SaveMeant(me) ==
    /\ me.pc = "insert" => me.rev > 0
    /\ me.pc = "done" => me.res \in Refusals \cup Transient \cup {"accepted"}
    /\ me.res = "accepted" => me.pc = "done" /\ Backs(me.req)

\* A save is under way for the entry its sync has come to.
Replaying(m) ==
    /\ serve[m].pc = "saving" =>
            \E e \in NextIn(serve[m].batch) : save[m].req = Numbered(m, e)
    /\ save[m].pc # "idle" => serve[m].pc = "saving"

ServerSound ==
    /\ \A m \in Syncs : ServeSound(serve[m]) /\ Replaying(m)
    /\ \A s \in Saves : SaveMeant(save[s])

OInv ==
    /\ BrowserType /\ ServerType /\ AnswersType
    /\ EntriesApart /\ Fresh /\ NumberedOnce
    /\ RowsApart /\ NewestExists /\ ServerSound
-----------------------------------------------------------------------------
(* The order of the answers.                                               *)

StoredAs(e, n) == \E row \in rows : row.val = e /\ row.key = n

Settled(e, n) == StoredAs(e, n) \/ Mode[ItemOf[e]] # "editable" \/ ~open

\* Numbers rise with the edits, up to the newest.
MarksRise ==
    /\ \A e, f \in Edits, n, k \in Nat : Marked(e, n) /\ Marked(f, k) => (n < k <=> e < f)
    /\ \A e \in Edits, n \in Nat : Marked(e, n) => e <= order.edit /\ n <= order.seq

\* What has a number up to k is stored, or never will be.
SettledTo(k) ==
    /\ k <= order.seq
    /\ \A e \in Edits, n \in Nat : Marked(e, n) /\ n <= k => Settled(e, n)

\* Whoever has an entry has every older one that is not settled.
FromOldest(S) ==
    \A f \in S : \A e \in Edits, n \in Nat :
        Marked(e, n) /\ n < f.seq => Settled(e, n) \/ \E g \in S : g.edit = e /\ g.seq = n

SyncInOrder(me) == IsFiniteSet(me.read) /\ FromOldest(me.read) /\ SettledTo(me.answer)

BrowserOrder ==
    /\ \A e \in Edits, n \in Nat : Marked(e, n) =>
            Settled(e, n) \/ \E f \in journal : f.edit = e /\ f.seq = n
    /\ SettledTo(ackedSeq)
    /\ \A m \in Syncs : SyncInOrder(sync[m])

ServeInOrder(me) ==
    /\ FromOldest(me.batch) /\ SettledTo(me.answer)
    /\ \A d \in me.durable :
          d.seq <= order.seq /\ \A e \in Edits : Marked(e, d.seq) => Settled(e, d.seq)

ServerOrder == \A m \in Syncs : ServeInOrder(serve[m])

\* The older edits of the item are stored.
OlderStored(i, k) ==
    Mode[i] = "editable" => \A e \in Edits, n \in Nat :
        Marked(e, n) /\ ItemOf[e] = i /\ n < k => StoredAs(e, n)

\* A save begins when the older edits are stored, and inserts above them.
SaveInOrder(me) ==
    /\ me.pc \in UnderWay => Mode[me.req.item] # "none" /\ OlderStored(me.req.item, me.req.key)
    /\ me.pc = "insert" /\ Mode[me.req.item] = "editable" =>
            \A row \in RowsOf(me.req.item) : row.key < me.req.key => row.seq < me.req.seq

AnswersOrder ==
    /\ \A row \in rows : Mode[row.item] # "none" /\ OlderStored(row.item, row.key)
    /\ \A row, other \in rows :
          row.item = other.item /\ row.seq < other.seq => row.key < other.key
    /\ \A m \in Syncs : SaveInOrder(save[m])

Ordered == MarksRise /\ BrowserOrder /\ ServerOrder /\ AnswersOrder

OrderType == order \in [kept : BOOLEAN, seq : Nat, edit : 0..MaxEdits]

\* Neither a failure nor a disorder ever goes away.
OrderInv == OrderType /\ (faults = 0 /\ order.kept => Ordered)

Placed == OInv /\ OrderType /\ Ordered
-----------------------------------------------------------------------------
(* What steps may do without harm.                                         *)

\* Answers and refusals are added, never taken away.
LEMMA DecisionsStay ==
    ASSUME rows \subseteq rows', refused \subseteq refused', NEW me, NEW it
    PROVE  /\ ServeSound(me) => ServeSound(me)'
           /\ SaveMeant(it) => SaveMeant(it)'
<1>1. \A d : Decided(d) => Decided(d)'
  BY DEF Decided, RowsOf
<1>2. Backs(it.req) => Backs(it.req)'
  BY DEF Backs, RowsOf
<1> QED
  BY <1>1, <1>2 DEF ServeSound, SaveMeant

\* No edit gets a number that it has not.
LEMMA MarksStay ==
    ASSUME NumberedOnce,
           \A e \in Edits, n \in Nat : Marked(e, n)' => Marked(e, n),
           \A e \in Edits : append[e].pc = "done" => append'[e].pc = "done"
    PROVE  NumberedOnce'
BY DEF NumberedOnce

\* A step of the browser alone.
LEMMA BrowserLeavesServer ==
    ASSUME OInv, UNCHANGED <<responseVars, serverVars>>, Healthy
    PROVE  ServerType' /\ AnswersType' /\ RowsApart' /\ NewestExists' /\ ServerSound'
<1>1. UNCHANGED <<rows, open, save, serve, epoch, refused, faults>>
  BY DEF responseVars, serverVars, Healthy
<1>2. ServerType' /\ AnswersType' /\ RowsApart'
  BY <1>1 DEF OInv, ServerType, FaultsType, AnswersType, RowsApart
<1>3. NewestExists'
  BY <1>1, NewestUnmoved DEF OInv
<1>4. ServerSound'
  <2>1. ASSUME NEW m \in Syncs PROVE ServeSound(serve[m])' /\ Replaying(m)'
    <3>1. ServeSound(serve[m]) /\ Replaying(m)
      BY DEF OInv, ServerSound
    <3>2. Replaying(m)'
      BY <1>1, <3>1 DEF Replaying, Numbered
    <3>3. ServeSound(serve[m])'
      BY <1>1, <3>1 DEF ServeSound, Decided, RowsOf
    <3> QED
      BY <3>2, <3>3
  <2>2. ASSUME NEW s \in Saves PROVE SaveMeant(save[s])'
    <3>1. SaveMeant(save[s])
      BY DEF OInv, ServerSound
    <3> QED
      BY <1>1, <3>1 DEF SaveMeant, Backs, RowsOf
  <2> QED
    BY <2>1, <2>2 DEF ServerSound
<1> QED
  BY <1>2, <1>3, <1>4
-----------------------------------------------------------------------------
(* The browser's steps.                                                    *)

LEMMA AppendKeepsInv ==
    ASSUME OInv, NEW e \in Edits, AppendBegin(e) \/ AppendCount(e),
           UNCHANGED <<responseVars, serverVars>>, Healthy
    PROVE  OInv'
<1>1. ServerType' /\ AnswersType' /\ RowsApart' /\ NewestExists' /\ ServerSound'
  BY BrowserLeavesServer
<1>2. UNCHANGED <<rows, serve, journal, ackedSeq, pageEpoch, reloads, sync>>
  BY DEF AppendBegin, AppendCount, responseVars, serverVars
<1>3. PICK new \in AppendRecords :
        /\ append' = [append EXCEPT ![e] = new]
        /\ new.pc \in {"count", "put"} /\ append[e].pc # "done"
        /\ new.pc = "put" => new.seq # 0
  <2>1. PICK old \in AppendRecords : old = append[e]
    BY DEF OInv, BrowserType
  <2>2. CASE AppendBegin(e)
    <3> DEFINE new == [old EXCEPT !.pc = "count", !.base = ackedSeq]
    <3>1. new \in AppendRecords /\ new.pc = "count"
      BY DEF AppendRecords, OInv, BrowserType
    <3>2. append' = [append EXCEPT ![e] = new]
      BY <2>1, <2>2 DEF AppendBegin, OInv, BrowserType
    <3>3. append[e].pc # "done"
      BY <2>2 DEF AppendBegin
    <3> HIDE DEF new
    <3> QED
      BY <3>1, <3>2, <3>3
  <2>3. CASE AppendCount(e)
    <3>1. Cardinality(journal) \in Nat
      BY FS_CardinalityType DEF OInv, BrowserType
    <3>2. PICK n \in Nat : n = old.base + Cardinality(journal) + 1 /\ n # 0
      BY <3>1 DEF AppendRecords
    <3> DEFINE new == [old EXCEPT !.pc = "put", !.seq = n]
    <3>3. new \in AppendRecords /\ new.pc = "put" /\ new.seq # 0
      BY <3>2 DEF AppendRecords
    <3>4. append' = [append EXCEPT ![e] = new]
      BY <2>1, <2>3, <3>2 DEF AppendCount, OInv, BrowserType
    <3>5. append[e].pc # "done"
      BY <2>3 DEF AppendCount
    <3> HIDE DEF new
    <3> QED
      BY <3>3, <3>4, <3>5
  <2> QED
    BY <2>2, <2>3
<1>4. BrowserType'
  BY <1>2, <1>3 DEF OInv, BrowserType
<1>5. EntriesApart' /\ Fresh'
  BY <1>2 DEF OInv, EntriesApart, Apart, Fresh
<1>6. NumberedOnce'
  <2>1. \A f \in Edits : append[f].pc = "done" => append'[f].pc = "done"
    BY <1>3 DEF OInv, BrowserType
  <2>2. \A f \in Edits, n \in Nat : Marked(f, n)' => Marked(f, n)
    BY <1>2 DEF Marked
  <2> QED
    BY <2>1, <2>2, MarksStay DEF OInv
<1> QED
  BY <1>1, <1>4, <1>5, <1>6 DEF OInv

\* The put: until then the edit had no number.
LEMMA PutKeepsInv ==
    ASSUME OInv, NEW e \in Edits, AppendPut(e), UNCHANGED <<responseVars, serverVars>>, Healthy
    PROVE  OInv'
<1>1. ServerType' /\ AnswersType' /\ RowsApart' /\ NewestExists' /\ ServerSound'
  BY BrowserLeavesServer
<1>2. UNCHANGED <<rows, serve, ackedSeq, pageEpoch, reloads, sync>>
  BY DEF AppendPut, responseVars, serverVars
<1>3. PICK n \in Nat \ {0} : n = append[e].seq /\ append[e].pc = "put"
  BY DEF AppendPut, OInv, BrowserType, AppendRecords
<1> DEFINE new == [seq |-> n, edit |-> e, epoch |-> pageEpoch]
           others == {f \in journal : f.seq # n}
<1>4. new \in Entries /\ new.seq = n /\ new.edit = e
  BY DEF Entries, OInv, BrowserType
<1>5. journal' = others \cup {new}
  BY <1>3 DEF AppendPut
<1>6. IsFiniteSet(journal')
  <2>1. IsFiniteSet(others)
    BY FS_Subset DEF OInv, BrowserType
  <2> QED
    BY <1>5, <2>1, FS_AddElement
<1>7. others \subseteq journal /\ \A f \in others : f.seq # n
  OBVIOUS
<1> HIDE DEF new, others
<1>8. append' = [append EXCEPT ![e] = Returned] /\ Returned \in AppendRecords /\ Returned.pc = "done"
  BY DEF AppendPut, Returned, AppendRecords
<1>9. BrowserType'
  BY <1>2, <1>4, <1>5, <1>6, <1>7, <1>8 DEF OInv, BrowserType
<1>10. EntriesApart' /\ Fresh'
  <2>1. Apart(journal)'
    BY <1>4, <1>5, <1>7 DEF OInv, EntriesApart, Apart
  <2>2. \A m \in Syncs : Apart(sync[m].read)' /\ Apart(serve[m].batch)'
    BY <1>2 DEF OInv, EntriesApart, Apart
  <2> QED
    BY <1>2, <2>1, <2>2 DEF OInv, EntriesApart, Fresh
<1>11. NumberedOnce'
  <2>1. \A k \in Nat : ~Marked(e, k)
    BY <1>3 DEF OInv, NumberedOnce
  <2>2. \A f \in Edits, k \in Nat : Marked(f, k)' => Marked(f, k) \/ (f = e /\ k = n)
    BY <1>2, <1>4, <1>5, <1>7 DEF Marked
  <2>3. \A f \in Edits : append[f].pc = "done" \/ f = e => append'[f].pc = "done"
    BY <1>8 DEF OInv, BrowserType
  <2>4. \A f \in Edits, k \in Nat : Marked(f, k) => append[f].pc = "done" /\ \A j \in Nat : Marked(f, j) => j = k
    BY DEF OInv, NumberedOnce
  <2> SUFFICES ASSUME NEW f \in Edits, NEW k \in Nat, Marked(f, k)'
               PROVE  append'[f].pc = "done" /\ \A j \in Nat : Marked(f, j)' => j = k
    BY DEF NumberedOnce
  <2>5. CASE f = e
    BY <2>1, <2>2, <2>3, <2>5
  <2>6. CASE f # e
    BY <2>2, <2>3, <2>4, <2>6
  <2> QED
    BY <2>5, <2>6
<1> QED
  BY <1>1, <1>9, <1>10, <1>11 DEF OInv

\* What a step of a sync in the browser has to leave.
LEMMA SyncMoves ==
    ASSUME OInv, NEW m \in Syncs, NEW new \in SyncRecords, sync' = [sync EXCEPT ![m] = new],
           UNCHANGED <<responseVars, serverVars, append, pageEpoch, reloads>>, Healthy,
           journal' \subseteq journal, ackedSeq' \in Nat,
           Apart(new.read), new.read \subseteq sync[m].read \cup journal,
           new.pc \in {"idle", "read"} => sync[m].pc \in {"idle", "read"}
    PROVE  OInv'
<1>1. ServerType' /\ AnswersType' /\ RowsApart' /\ NewestExists' /\ ServerSound'
  BY BrowserLeavesServer
<1>2. rows' = rows /\ serve' = serve
  BY DEF responseVars, serverVars
<1>3. \A d \in Syncs : sync'[d] = IF d = m THEN new ELSE sync[d]
  BY DEF OInv, BrowserType
<1>4. BrowserType'
  <2>1. IsFiniteSet(journal')
    BY FS_Subset DEF OInv, BrowserType
  <2> QED
    BY <2>1 DEF OInv, BrowserType
<1>5. EntriesApart'
  <2>1. Apart(journal)'
    BY DEF OInv, EntriesApart, Apart
  <2>2. ASSUME NEW d \in Syncs PROVE Apart(sync[d].read)' /\ Apart(serve[d].batch)'
    <3>1. Apart(sync[d].read) /\ Apart(serve[d].batch)
      BY DEF OInv, EntriesApart
    <3> QED
      BY <1>2, <1>3, <3>1 DEF Apart
  <2> QED
    BY <2>1, <2>2 DEF EntriesApart
<1>6. Fresh'
  BY <1>2, <1>3 DEF OInv, Fresh
<1>7. NumberedOnce'
  <2>1. ASSUME NEW e \in Edits, NEW n \in Nat, Marked(e, n)' PROVE Marked(e, n)
    <3>1. CASE \E f \in journal' : f.edit = e /\ f.seq = n
      BY <3>1 DEF Marked
    <3>2. CASE \E d \in Syncs : \E f \in sync'[d].read \cup serve'[d].batch : f.edit = e /\ f.seq = n
      <4>0. PICK d \in Syncs : \E f \in sync'[d].read \cup serve'[d].batch : f.edit = e /\ f.seq = n
        BY <3>2
      <4>1. PICK f \in sync'[d].read \cup serve'[d].batch : f.edit = e /\ f.seq = n
        BY <4>0
      <4>2. f \in journal \/ f \in sync[d].read \cup serve[d].batch
        BY <1>2, <1>3, <4>1
      <4> QED
        BY <4>1, <4>2 DEF Marked
    <3>3. CASE \E row \in rows' : row.val = e /\ row.key = n
      BY <1>2, <3>3 DEF Marked
    <3> QED
      BY <2>1, <3>1, <3>2, <3>3 DEF Marked
  <2> QED
    BY <2>1, MarksStay DEF OInv
<1> QED
  BY <1>1, <1>4, <1>5, <1>6, <1>7 DEF OInv

LEMMA SyncOverTyped == SyncOver \in SyncRecords /\ SyncOver.read = {} /\ SyncOver.pc = "done"
BY DEF SyncOver, SyncRecords

LEMMA SyncKeepsInv ==
    ASSUME OInv, NEW m \in Syncs, SyncRead(m) \/ SyncReceive(m) \/ SyncDrop(m) \/ SyncAcked(m),
           UNCHANGED <<responseVars, serverVars>>, Healthy
    PROVE  OInv'
<1>1. PICK old \in SyncRecords : old = sync[m] /\ Apart(old.read)
  BY DEF OInv, BrowserType, EntriesApart
<1>2. CASE SyncRead(m)
  <2> DEFINE new == [old EXCEPT !.pc = "read", !.read = journal]
  <2>1. new \in SyncRecords /\ new.pc = "read" /\ new.read = journal
    BY DEF SyncRecords, OInv, BrowserType
  <2>2. sync' = [sync EXCEPT ![m] = new]
    BY <1>1, <1>2 DEF SyncRead, OInv, BrowserType
  <2>3. Apart(journal)
    BY DEF OInv, EntriesApart
  <2> HIDE DEF new
  <2> QED
    BY <1>2, <2>1, <2>2, <2>3, SyncMoves DEF SyncRead, OInv, BrowserType
<1>3. CASE SyncReceive(m)
  <2>1. PICK n \in Nat : n = serve[m].answer
    BY DEF OInv, ServerType, ServeRecords
  <2> DEFINE new == [old EXCEPT !.pc = "dropping", !.answer = n]
  <2>2. new \in SyncRecords /\ new.pc = "dropping" /\ new.read = old.read
    BY DEF SyncRecords
  <2>3. sync' = [sync EXCEPT ![m] = new]
    BY <1>1, <1>3, <2>1 DEF SyncReceive, OInv, BrowserType
  <2> HIDE DEF new
  <2> QED
    BY <1>1, <1>3, <2>2, <2>3, SyncMoves DEF SyncReceive, OInv, BrowserType
<1>4. CASE SyncDrop(m)
  <2> DEFINE new == [old EXCEPT !.pc = "dropped"]
  <2>1. new \in SyncRecords /\ new.pc = "dropped" /\ new.read = old.read
    BY DEF SyncRecords
  <2>2. sync' = [sync EXCEPT ![m] = new] /\ journal' \subseteq journal
    BY <1>1, <1>4 DEF SyncDrop, OInv, BrowserType
  <2> HIDE DEF new
  <2> QED
    BY <1>1, <1>4, <2>1, <2>2, SyncMoves DEF SyncDrop, OInv, BrowserType
<1>5. CASE SyncAcked(m)
  <2>1. ackedSeq' \in Nat
    BY <1>1, <1>5 DEF SyncAcked, SyncRecords
  <2>2. Apart(SyncOver.read)
    BY SyncOverTyped DEF Apart
  <2> QED
    BY <1>5, <2>1, <2>2, SyncOverTyped, SyncMoves DEF SyncAcked
<1> QED
  BY <1>2, <1>3, <1>4, <1>5

\* A reload ends the calls; an append that had not put its entry never does.
LEMMA ReloadKeepsInv ==
    ASSUME OInv, Reload, UNCHANGED <<responseVars, serverVars>>, Healthy
    PROVE  OInv'
<1>1. ServerType' /\ AnswersType' /\ RowsApart' /\ NewestExists' /\ ServerSound'
  BY BrowserLeavesServer
<1>2. UNCHANGED <<rows, serve, journal, ackedSeq>>
  BY DEF Reload, responseVars, serverVars
<1>3. \A d \in Syncs : sync'[d] = IF d \in Syncing THEN SyncOver ELSE sync[d]
  BY DEF Reload
<1>4. PICK gone \in AppendRecords : gone.pc = "gone" /\ gone = [Returned EXCEPT !.pc = "gone"]
  BY DEF Returned, AppendRecords
<1>5. \A e \in Edits : append'[e] = IF e \in Appending THEN gone ELSE append[e]
  BY <1>4 DEF Reload
<1>6. append' \in [Edits -> AppendRecords] /\ sync' \in [Syncs -> SyncRecords]
  BY <1>3, <1>4, <1>5, SyncOverTyped DEF Reload, OInv, BrowserType
<1>7. pageEpoch' \in 1..MaxEpoch /\ reloads' \in 0..MaxReloads
  <2>1. reloads \in 0..MaxReloads /\ reloads < MaxReloads /\ reloads' = reloads + 1 /\ MaxReloads \in Nat
    BY OfflineAssumption DEF Reload, OInv, BrowserType
  <2> QED
    BY <2>1 DEF Reload, OInv, ServerType
<1>8. BrowserType'
  BY <1>2, <1>4, <1>5, <1>6, <1>7 DEF OInv, BrowserType
<1>9. EntriesApart' /\ Fresh'
  <2>1. Apart(journal)'
    BY <1>2 DEF OInv, EntriesApart, Apart
  <2>2. ASSUME NEW d \in Syncs
        PROVE  /\ Apart(sync[d].read)' /\ Apart(serve[d].batch)'
               /\ sync'[d].pc \in {"idle", "read"} => serve'[d].pc = "idle"
    <3>1. Apart(sync[d].read) /\ Apart(serve[d].batch) /\ (sync[d].pc \in {"idle", "read"} => serve[d].pc = "idle")
      BY DEF OInv, EntriesApart, Fresh
    <3> QED
      BY <1>2, <1>3, <3>1, SyncOverTyped DEF Apart
  <2> QED
    BY <2>1, <2>2 DEF EntriesApart, Fresh
<1>10. NumberedOnce'
  <2>1. \A e \in Edits : append[e].pc = "done" => append'[e].pc = "done"
    BY <1>5 DEF Appending
  <2>2. \A d \in Syncs : sync'[d].read \subseteq sync[d].read
    BY <1>3, SyncOverTyped
  <2>3. \A e \in Edits, n \in Nat : Marked(e, n)' => Marked(e, n)
    BY <1>2, <2>2 DEF Marked
  <2> QED
    BY <2>1, <2>3, MarksStay DEF OInv
<1> QED
  BY <1>1, <1>8, <1>9, <1>10 DEF OInv
-----------------------------------------------------------------------------
(* The server's steps.                                                     *)

\* The save that an entry is replayed by, numbered from these last numbers.
Asked(last, e) ==
    [item |-> ItemOf[e.edit], seq |-> last[ItemOf[e.edit]] + 1, key |-> e.seq, val |-> e.edit]

LEMMA FaultsTyped == ASSUME FaultsType, Healthy \/ Faulty PROVE FaultsType'
BY MaxFaultsNat DEF FaultsType, Healthy, Faulty

\* What a step of reconnectSync, and of its request, has to leave.
LEMMA ServeMoves ==
    ASSUME OInv, NEW m \in Syncs,
           NEW new \in ServeRecords, serve' = [serve EXCEPT ![m] = new],
           NEW it \in ReplayRecords, save' = [save EXCEPT ![m] = it],
           NEW from \in SyncRecords, sync' = [sync EXCEPT ![m] = from],
           UNCHANGED <<rows, open, journal, ackedSeq, pageEpoch, reloads, append, epoch>>,
           refused \subseteq refused', refused' \subseteq Entries, Healthy \/ Faulty,
           from.read \subseteq sync[m].read, from.pc \in {"idle", "read"} => new.pc = "idle",
           new.batch \subseteq serve[m].batch \cup sync[m].read, Apart(new.batch),
           ServeSound(new)', SaveMeant(it)',
           new.pc = "saving" => \E e \in NextIn(new.batch) : it.req = Asked(new.last, e),
           it.pc # "idle" => new.pc = "saving"
    PROVE  OInv'
<1>1. /\ \A d \in Syncs : serve'[d] = IF d = m THEN new ELSE serve[d]
      /\ \A d \in Syncs : sync'[d] = IF d = m THEN from ELSE sync[d]
      /\ \A s \in Saves : save'[s] = IF s = m THEN it ELSE save[s]
  BY DEF OInv, BrowserType, ServerType, AnswersType
<1>2. BrowserType' /\ AnswersType'
  BY DEF OInv, BrowserType, AnswersType
<1>3. ServerType'
  BY FaultsTyped DEF OInv, ServerType
<1>4. EntriesApart' /\ Fresh'
  <2>1. ASSUME NEW d \in Syncs
        PROVE  /\ Apart(sync[d].read)' /\ Apart(serve[d].batch)'
               /\ sync'[d].pc \in {"idle", "read"} => serve'[d].pc = "idle"
    <3>1. Apart(sync[d].read) /\ Apart(serve[d].batch) /\ (sync[d].pc \in {"idle", "read"} => serve[d].pc = "idle")
      BY DEF OInv, EntriesApart, Fresh
    <3>2. CASE d = m
      BY <1>1, <3>1, <3>2 DEF Apart
    <3>3. CASE d # m
      BY <1>1, <3>1, <3>3 DEF Apart
    <3> QED
      BY <3>2, <3>3
  <2>2. Apart(journal)'
    BY DEF OInv, EntriesApart, Apart
  <2> QED
    BY <2>1, <2>2 DEF EntriesApart, Fresh
<1>5. NumberedOnce'
  <2>1. ASSUME NEW d \in Syncs
        PROVE  sync'[d].read \cup serve'[d].batch \subseteq sync[d].read \cup serve[d].batch
    BY <1>1
  <2>2. \A e \in Edits, n \in Nat : Marked(e, n)' => Marked(e, n)
    BY <2>1 DEF Marked
  <2> QED
    BY <2>2, MarksStay DEF OInv
<1>6. RowsApart' /\ NewestExists'
  BY NewestUnmoved DEF OInv, RowsApart
<1>7. ServerSound'
  <2>1. ASSUME NEW d \in Syncs PROVE ServeSound(serve[d])' /\ Replaying(d)'
    <3>1. CASE d = m
      BY <1>1, <3>1, OfflineAssumption DEF Replaying, Numbered, Asked, ServeSound
    <3>2. CASE d # m
      <4>1. PICK me : me = serve[d] /\ me = serve'[d]
        BY <1>1, <3>2
      <4>2. ServeSound(me)'
        BY <4>1, DecisionsStay DEF OInv, ServerSound
      <4>3. Replaying(d)'
        BY <1>1, <3>2, OfflineAssumption DEF OInv, ServerSound, Replaying, Numbered
      <4> QED
        BY <4>1, <4>2, <4>3
    <3> QED
      BY <3>1, <3>2
  <2>2. ASSUME NEW s \in Saves PROVE SaveMeant(save[s])'
    <3>1. CASE s = m
      BY <1>1, <3>1 DEF SaveMeant
    <3>2. CASE s # m
      <4>1. PICK me : me = save[s] /\ me = save'[s]
        BY <1>1, <3>2
      <4>2. SaveMeant(me)'
        BY <4>1, DecisionsStay DEF OInv, ServerSound
      <4> QED
        BY <4>1, <4>2
    <3> QED
      BY <3>1, <3>2
  <2> QED
    BY <2>1, <2>2 DEF ServerSound
<1> QED
  BY <1>2, <1>3, <1>4, <1>5, <1>6, <1>7 DEF OInv

\* The same where neither the browser nor a save has a part in it.
LEMMA ServeGoes ==
    ASSUME OInv, NEW m \in Syncs, serve[m].pc \notin {"idle", "saving"},
           NEW new \in ServeRecords, serve' = [serve EXCEPT ![m] = new],
           UNCHANGED <<responseVars, clientVars, epoch>>,
           refused \subseteq refused', refused' \subseteq Entries, Healthy \/ Faulty,
           new.batch \subseteq serve[m].batch, ServeSound(new)', new.pc # "saving"
    PROVE  OInv'
<1>1. PICK it \in ReplayRecords : it = save[m]
  BY OfflineAssumption DEF OInv, AnswersType
<1>2. PICK from \in SyncRecords : from = sync[m]
  BY DEF OInv, BrowserType
<1>3. save' = [save EXCEPT ![m] = it] /\ sync' = [sync EXCEPT ![m] = from]
  BY <1>1, <1>2, OfflineAssumption DEF OInv, AnswersType, BrowserType, responseVars, clientVars
<1>4. from.pc \notin {"idle", "read"} /\ it.pc = "idle"
  BY <1>1, <1>2 DEF OInv, Fresh, ServerSound, Replaying
<1>5. SaveMeant(it)'
  BY <1>1, OfflineAssumption, DecisionsStay DEF OInv, ServerSound, responseVars
<1>6. Apart(new.batch)
  BY DEF OInv, EntriesApart, Apart
<1> QED
  BY <1>2, <1>3, <1>4, <1>5, <1>6, ServeMoves DEF responseVars, clientVars

\* The highest number of an item is one of its rows', or none.
LEMMA HighestTyped ==
    ASSUME OInv, NEW i \in Items
    PROVE  Max({row.seq : row \in RowsOf(i)} \cup {0}) \in Nat
<1> DEFINE S == {row.seq : row \in RowsOf(i)} \cup {0}
<1>1. S \subseteq Nat
  BY DEF OInv, AnswersType, RowsOf
<1>2. \E x \in S : \A y \in S : x >= y
  <2>1. CASE RowsOf(i) = {}
    BY <2>1
  <2>2. CASE RowsOf(i) # {}
    <3>1. PICK row \in RowsOf(i) : \A other \in RowsOf(i) : other.seq <= row.seq
      BY <2>2 DEF OInv, NewestExists, LatestOf
    <3>2. row.seq \in S /\ \A y \in S : row.seq >= y
      BY <1>1, <3>1 DEF OInv, AnswersType, RowsOf
    <3> QED
      BY <3>2
  <2> QED
    BY <2>1, <2>2
<1> HIDE DEF S
<1>3. Max(S) \in S
  BY <1>2 DEF Max
<1> QED
  BY <1>1, <1>3 DEF S

LEMMA ServeOverSound ==
    /\ ServeOver \in ServeRecords /\ ServeOver.pc = "done" /\ ServeOver.batch = {}
    /\ ServeOver.durable = {} /\ ServeOver.answer = 0
    /\ ServeSound(ServeOver)'
<1>1. /\ ServeOver \in ServeRecords /\ ServeOver.pc = "done" /\ ServeOver.batch = {}
      /\ ServeOver.durable = {} /\ ServeOver.answer = 0
  BY OfflineAssumption DEF ServeOver, IdleServe, ServeRecords
<1> QED
  BY <1>1 DEF ServeSound

LEMMA SendKeepsInv ==
    ASSUME OInv, NEW m \in Syncs, SyncSend(m) \/ SyncLost(m)
    PROVE  OInv'
<1>1. PICK it \in ReplayRecords : it = save[m] /\ SaveMeant(it)
  BY OfflineAssumption DEF OInv, AnswersType, ServerSound
<1>2. PICK old \in SyncRecords : old = sync[m] /\ Apart(old.read)
  BY DEF OInv, BrowserType, EntriesApart
<1>3. PICK me \in ServeRecords : me = serve[m] /\ ServeSound(me) /\ Apart(me.batch)
  BY DEF OInv, ServerType, ServerSound, EntriesApart
<1>4. /\ UNCHANGED <<rows, open, save, journal, ackedSeq, pageEpoch, reloads, append, epoch, refused>>
      /\ Healthy \/ Faulty
  BY DEF SyncSend, SyncLost, responseVars
<1>5. save' = [save EXCEPT ![m] = it] /\ SaveMeant(it)'
  BY <1>1, <1>4, DecisionsStay, OfflineAssumption DEF OInv, AnswersType
<1>6. refused \subseteq refused' /\ refused' \subseteq Entries
  BY <1>4 DEF OInv, ServerType
<1>7. /\ me.pc = "saving" => \E e \in NextIn(me.batch) : it.req = Asked(me.last, e)
      /\ it.pc # "idle" => me.pc = "saving"
      /\ ServeSound(me)'
  BY <1>1, <1>3, <1>4, DecisionsStay DEF OInv, ServerSound, Replaying, Numbered, Asked
<1>8. CASE sync' = [sync EXCEPT ![m] = SyncOver] /\ serve' = serve
  <2>1. serve' = [serve EXCEPT ![m] = me]
    BY <1>3, <1>8 DEF OInv, ServerType
  <2> QED
    BY <1>3, <1>4, <1>5, <1>6, <1>7, <1>8, <2>1, SyncOverTyped, ServeMoves
<1>9. CASE SyncLost(m) /\ serve[m].pc = "read" /\ serve' = [serve EXCEPT ![m] = ServeOver]
  <2>1. sync' = [sync EXCEPT ![m] = SyncOver]
    BY <1>9 DEF SyncLost
  <2>2. it.pc = "idle" /\ Apart(ServeOver.batch)
    BY <1>3, <1>7, <1>9, ServeOverSound DEF Apart
  <2> QED
    BY <1>4, <1>5, <1>6, <1>9, <2>1, <2>2, SyncOverTyped, ServeOverSound, ServeMoves
<1>10. CASE /\ SyncSend(m)
            /\ sync' = [sync EXCEPT ![m].pc = "waiting"]
            /\ serve' = [serve EXCEPT ![m].pc = "read",
                    ![m].batch = FirstOf({e \in sync[m].read : e.seq > ackedSeq}, MaxBatch)]
  <2>1. PICK batch \in SUBSET old.read : batch = FirstOf({e \in old.read : e.seq > ackedSeq}, MaxBatch)
    BY DEF FirstOf
  <2> DEFINE new == [me EXCEPT !.pc = "read", !.batch = batch]
             from == [old EXCEPT !.pc = "waiting"]
  <2>2. /\ new \in ServeRecords /\ new.pc = "read" /\ new.batch = batch
        /\ new.durable = me.durable /\ new.answer = me.answer
    BY <2>1 DEF ServeRecords, SyncRecords
  <2>3. from \in SyncRecords /\ from.pc = "waiting" /\ from.read = old.read
    BY DEF SyncRecords
  <2>4. sync' = [sync EXCEPT ![m] = from]
    BY <1>2, <1>10 DEF OInv, BrowserType
  <2>5. serve' = [serve EXCEPT ![m] = new]
    BY <1>2, <1>3, <1>10, <2>1 DEF OInv, ServerType
  <2> HIDE DEF new, from
  <2>6. ServeSound(new)'
    BY <1>7, <2>2 DEF ServeSound
  <2>7. it.pc = "idle"
    BY <1>1, <1>3, <1>7, <1>10 DEF SyncSend, OInv, Fresh
  <2>8. Apart(batch)
    BY <1>2, <2>1 DEF Apart
  <2> QED
    BY <1>2, <1>4, <1>5, <1>6, <2>1, <2>2, <2>3, <2>4, <2>5, <2>6, <2>7, <2>8, ServeMoves
<1> QED
  BY <1>8, <1>9, <1>10 DEF SyncSend, SyncLost

LEMMA ServeReadKeepsInv ==
    ASSUME OInv, NEW m \in Syncs, ServeRead(m) \/ ServeMap(m), UNCHANGED clientVars
    PROVE  OInv'
<1>1. PICK me \in ServeRecords : me = serve[m] /\ ServeSound(me)
  BY DEF OInv, ServerType, ServerSound
<1>2. /\ UNCHANGED <<responseVars, epoch, refused>>
      /\ Healthy \/ Faulty
      /\ serve[m].pc \in {"read", "map"}
  BY DEF ServeRead, ServeMap
<1>3. refused \subseteq refused' /\ refused' \subseteq Entries
  BY <1>2 DEF OInv, ServerType
<1>4. ServeSound(me)'
  BY <1>1, <1>2, DecisionsStay DEF responseVars
<1>5. PICK new \in ServeRecords :
        /\ serve' = [serve EXCEPT ![m] = new] /\ new.pc # "saving"
        /\ \/ new.batch = me.batch /\ new.durable = me.durable /\ new.answer = me.answer
           \/ new = ServeOver
  <2>1. CASE serve' = [serve EXCEPT ![m] = ServeOver]
    BY <2>1, ServeOverSound
  <2>2. CASE serve' = [serve EXCEPT ![m].pc = "map", ![m].epoch = epoch]
    <3> DEFINE new == [me EXCEPT !.pc = "map", !.epoch = epoch]
    <3>1. epoch \in 0..MaxEpoch
      BY OfflineAssumption DEF OInv, ServerType
    <3>2. new \in ServeRecords /\ new.pc = "map" /\ new.batch = me.batch /\ new.durable = me.durable /\ new.answer = me.answer
      BY <3>1 DEF ServeRecords
    <3>3. serve' = [serve EXCEPT ![m] = new]
      BY <1>1, <2>2 DEF OInv, ServerType
    <3> QED
      BY <3>2, <3>3
  <2>3. CASE serve' = [serve EXCEPT ![m].pc = "entries"]
    <3> DEFINE new == [me EXCEPT !.pc = "entries"]
    <3>1. new \in ServeRecords /\ new.pc = "entries" /\ new.batch = me.batch /\ new.durable = me.durable /\ new.answer = me.answer
      BY DEF ServeRecords
    <3>2. serve' = [serve EXCEPT ![m] = new]
      BY <1>1, <2>3 DEF OInv, ServerType
    <3> QED
      BY <3>1, <3>2
  <2>4. CASE serve' = [serve EXCEPT ![m].pc = "entries",
                ![m].last = [i \in Items |-> Max({row.seq : row \in RowsOf(i)} \cup {0})]]
    <3> DEFINE last == [i \in Items |-> Max({row.seq : row \in RowsOf(i)} \cup {0})]
               new == [me EXCEPT !.pc = "entries", !.last = last]
    <3>1. last \in [Items -> Nat]
      BY HighestTyped
    <3> HIDE DEF last
    <3>2. new \in ServeRecords /\ new.pc = "entries" /\ new.batch = me.batch /\ new.durable = me.durable /\ new.answer = me.answer
      BY <3>1 DEF ServeRecords
    <3>3. serve' = [serve EXCEPT ![m] = new]
      BY <1>1, <2>4 DEF OInv, ServerType, last
    <3> QED
      BY <3>2, <3>3
  <2> QED
    BY <2>1, <2>2, <2>3, <2>4 DEF ServeRead, ServeMap
<1>6. ServeSound(new)' /\ new.batch \subseteq serve[m].batch
  BY <1>1, <1>4, <1>5, ServeOverSound DEF ServeSound
<1> QED
  BY <1>2, <1>3, <1>5, <1>6, ServeGoes

\* An entry is done with: what it was decided by is there when it is durable.
LEMMA NextEntryLeaves ==
    ASSUME OInv, NEW m \in Syncs, NEW me \in ServeRecords, me = serve[m], ServeSound(me)',
           NEW e \in NextIn(me.batch), NEW durable \in BOOLEAN, NextEntry(m, e, durable),
           durable => Decided([seq |-> e.seq, item |-> ItemOf[e.edit],
                               num |-> me.last[ItemOf[e.edit]] + 1])'
    PROVE  \E new \in ServeRecords :
              /\ serve' = [serve EXCEPT ![m] = new]
              /\ new.pc = "entries" /\ new.batch = me.batch \ {e} /\ ServeSound(new)'
<1>1. PICK r : r = Asked(me.last, e) /\ r = Numbered(m, e)
  BY DEF Asked, Numbered
<1>2. e \in me.batch /\ e \in Entries
  BY DEF NextIn, ServeRecords
<1>3. r.item \in Items /\ r.seq \in Nat \ {0} /\ r.item = ItemOf[e.edit] /\ r.seq = me.last[r.item] + 1
  BY <1>1, <1>2, OfflineAssumption DEF Asked, Entries, ServeRecords
<1> DEFINE d == [seq |-> e.seq, item |-> r.item, num |-> r.seq]
           kept == IF durable THEN me.durable \cup {d} ELSE me.durable
           last == [me.last EXCEPT ![r.item] = r.seq]
           new == [me EXCEPT !.pc = "entries", !.batch = me.batch \ {e}, !.last = last,
                             !.durable = kept]
<1>4. d \in Durable
  BY <1>2, <1>3 DEF Durable, Entries
<1>5. kept \in SUBSET Durable
  BY <1>4 DEF ServeRecords
<1>6. last \in [Items -> Nat]
  BY <1>3 DEF ServeRecords
<1>7. \A x \in kept : x \in me.durable \/ (durable /\ x = d)
  OBVIOUS
<1>8. me.durable \subseteq kept
  OBVIOUS
<1>9. serve' = [serve EXCEPT ![m] = new]
  BY <1>1 DEF NextEntry
<1>10. durable => Decided(d)'
  BY <1>3
<1> HIDE DEF d, kept, last
<1>11. /\ new \in ServeRecords /\ new.pc = "entries" /\ new.batch = me.batch \ {e}
       /\ new.durable = kept /\ new.answer = me.answer
  BY <1>5, <1>6 DEF ServeRecords
<1> HIDE DEF new
<1>12. ServeSound(new)'
  BY <1>7, <1>8, <1>10, <1>11 DEF ServeSound
<1> QED
  BY <1>9, <1>11, <1>12

LEMMA EntryKeepsInv ==
    ASSUME OInv, NEW m \in Syncs, ServeEntry(m), UNCHANGED clientVars
    PROVE  OInv'
<1>1. PICK me \in ServeRecords : me = serve[m] /\ ServeSound(me) /\ Apart(me.batch) /\ me.pc = "entries"
  BY DEF OInv, ServerType, ServerSound, EntriesApart, ServeEntry
<1>2. PICK from \in SyncRecords : from = sync[m] /\ from.pc \notin {"idle", "read"}
  BY <1>1 DEF OInv, BrowserType, Fresh
<1>3. sync' = [sync EXCEPT ![m] = from]
  BY <1>2 DEF OInv, BrowserType, clientVars
<1>4. PICK e \in NextIn(me.batch) :
        \/ /\ NextEntry(m, e, TRUE) /\ refused' = refused \cup {e}
           /\ Healthy /\ UNCHANGED responseVars
        \/ /\ SaveBegin(m, Numbered(m, e))
           /\ serve' = [serve EXCEPT ![m].pc = "saving"] /\ UNCHANGED refused
  BY <1>1 DEF ServeEntry
<1>5. e \in me.batch /\ e \in Entries /\ epoch' = epoch
  BY DEF NextIn, ServeRecords, ServeEntry
<1>6. CASE NextEntry(m, e, TRUE) /\ refused' = refused \cup {e} /\ Healthy /\ UNCHANGED responseVars
  <2>1. ServeSound(me)'
    BY <1>1, <1>6, DecisionsStay DEF responseVars
  <2>2. Decided([seq |-> e.seq, item |-> ItemOf[e.edit], num |-> me.last[ItemOf[e.edit]] + 1])'
    BY <1>6 DEF Decided
  <2>3. PICK new \in ServeRecords :
            /\ serve' = [serve EXCEPT ![m] = new]
            /\ new.pc = "entries" /\ new.batch = me.batch \ {e} /\ ServeSound(new)'
    <3>1. PICK durable \in BOOLEAN : durable = TRUE
      OBVIOUS
    <3>2. NextEntry(m, e, durable)
      BY <1>6, <3>1
    <3> QED
      BY <1>1, <2>1, <2>2, <3>2, NextEntryLeaves
  <2>4. refused \subseteq refused' /\ refused' \subseteq Entries
    BY <1>5, <1>6 DEF OInv, ServerType
  <2> QED
    BY <1>1, <1>5, <1>6, <2>3, <2>4, ServeGoes
<1>7. CASE SaveBegin(m, Numbered(m, e)) /\ serve' = [serve EXCEPT ![m].pc = "saving"] /\ UNCHANGED refused
  <2>1. PICK r \in Sendable : r = Asked(me.last, e) /\ r = Numbered(m, e)
    <3>1. PICK r : r = Asked(me.last, e) /\ r = Numbered(m, e)
      BY <1>1 DEF Asked, Numbered
    <3>2. e.seq \in Nat \ {0} /\ e.edit \in Edits /\ ItemOf[e.edit] \in Items
      BY <1>5, OfflineAssumption DEF Entries
    <3>3. me.last[ItemOf[e.edit]] + 1 \in Nat \ {0}
      BY <3>2 DEF ServeRecords
    <3>4. r \in Sendable
      BY <3>1, <3>2, <3>3 DEF Asked, Sendable
    <3> QED
      BY <3>1, <3>4
  <2>2. PICK it \in ReplayRecords : save' = [save EXCEPT ![m] = it] /\ it.req = r /\ SaveMeant(it)'
    <3>1. PICK pc \in {"key", "done"}, res \in {"none", "late", "invalid_item", "not_found"} :
            /\ save' = [save EXCEPT ![m] = [[IdleSave EXCEPT !.req = r] EXCEPT !.pc = pc, !.res = res]]
            /\ pc = "done" => res # "none"
      BY <1>7, <2>1 DEF SaveBegin
    <3> DEFINE begun == [IdleSave EXCEPT !.req = r]
               it == [begun EXCEPT !.pc = pc, !.res = res]
    <3>2. begun \in ReplayRecords /\ begun.req = r
      BY DEF IdleSave, ReplayRecords, SavePcs, SaveResults
    <3>3. save' = [save EXCEPT ![m] = it]
      BY <3>1
    <3> HIDE DEF begun
    <3>4. it \in ReplayRecords /\ it.pc = pc /\ it.res = res /\ it.req = r
      BY <3>2 DEF ReplayRecords, SavePcs, SaveResults, Refusals
    <3> HIDE DEF it
    <3>5. SaveMeant(it)'
      BY <3>1, <3>4 DEF SaveMeant, Refusals, Transient
    <3> QED
      BY <3>3, <3>4, <3>5
  <2> DEFINE new == [me EXCEPT !.pc = "saving"]
  <2>3. /\ new \in ServeRecords /\ new.pc = "saving" /\ new.batch = me.batch /\ new.last = me.last
        /\ new.durable = me.durable /\ new.answer = me.answer
    BY DEF ServeRecords
  <2>4. serve' = [serve EXCEPT ![m] = new]
    BY <1>1, <1>7 DEF OInv, ServerType
  <2> HIDE DEF new
  <2>5. UNCHANGED <<rows, open>> /\ (Healthy \/ Faulty)
    BY <1>7 DEF SaveBegin
  <2>6. ServeSound(new)'
    <3>1. ServeSound(me)'
      BY <1>1, <1>7, <2>5, DecisionsStay
    <3> QED
      BY <2>3, <3>1 DEF ServeSound
  <2>7. refused \subseteq refused' /\ refused' \subseteq Entries
    BY <1>7 DEF OInv, ServerType
  <2>8. \E x \in NextIn(new.batch) : it.req = Asked(new.last, x)
    BY <2>1, <2>2, <2>3
  <2> QED
    BY <1>1, <1>2, <1>3, <1>5, <2>2, <2>3, <2>4, <2>5, <2>6, <2>7, <2>8, ServeMoves DEF clientVars
<1> QED
  BY <1>4, <1>6, <1>7

LEMMA IdleSaveTyped ==
    IdleSave \in ReplayRecords /\ IdleSave.pc = "idle" /\ IdleSave.res = "none"
BY DEF IdleSave, ReplayRecords, SavePcs, SaveResults

\* The outcome of the save is what decided the entry.
LEMMA SavedKeepsInv ==
    ASSUME OInv, NEW m \in Syncs, ServeSaved(m), UNCHANGED clientVars
    PROVE  OInv'
<1>1. PICK me \in ServeRecords : me = serve[m] /\ ServeSound(me) /\ Apart(me.batch) /\ me.pc = "saving"
  BY DEF OInv, ServerType, ServerSound, EntriesApart, ServeSaved
<1>2. PICK from \in SyncRecords : from = sync[m] /\ from.pc \notin {"idle", "read"}
  BY <1>1 DEF OInv, BrowserType, Fresh
<1>3. sync' = [sync EXCEPT ![m] = from]
  BY <1>2 DEF OInv, BrowserType, clientVars
<1>4. PICK e \in NextIn(me.batch) :
        /\ NextEntry(m, e, save[m].res \notin Transient)
        /\ refused' = IF save[m].res \in Refusals THEN refused \cup {e} ELSE refused
  BY <1>1 DEF ServeSaved
<1>5. /\ e \in me.batch /\ e \in Entries
      /\ UNCHANGED <<rows, open, epoch>> /\ Healthy /\ save' = [save EXCEPT ![m] = IdleSave]
  BY DEF NextIn, ServeRecords, ServeSaved
<1>6. PICK it \in ReplayRecords :
        it = save[m] /\ SaveMeant(it) /\ it.pc = "done" /\ it.req = Asked(me.last, e)
  <2>1. PICK f \in NextIn(me.batch) : save[m].req = Asked(me.last, f)
    BY <1>1 DEF OInv, ServerSound, Replaying, Numbered, Asked
  <2>2. f = e
    <3>1. e.seq \in Nat /\ f.seq \in Nat /\ e.seq <= f.seq /\ f.seq <= e.seq /\ f \in me.batch
      BY <1>5 DEF NextIn, ServeRecords, Entries
    <3> QED
      BY <1>1, <1>5, <3>1 DEF Apart
  <2> QED
    BY <2>1, <2>2, OfflineAssumption DEF ServeSaved, OInv, AnswersType, ServerSound
<1>7. refused \subseteq refused' /\ refused' \subseteq Entries
  BY <1>4, <1>5 DEF OInv, ServerType
<1>8. it.res \notin Transient =>
        Decided([seq |-> e.seq, item |-> ItemOf[e.edit], num |-> me.last[ItemOf[e.edit]] + 1])'
  <2>1. CASE it.res \in Refusals
    BY <1>4, <1>6, <2>1 DEF Decided
  <2>2. CASE it.res = "accepted"
    BY <1>5, <1>6, <2>2 DEF Decided, SaveMeant, Backs, Asked, RowsOf
  <2> QED
    BY <1>6, <2>1, <2>2 DEF SaveMeant
<1>9. ServeSound(me)'
  BY <1>1, <1>5, <1>7, DecisionsStay
<1>10. PICK durable \in BOOLEAN : durable <=> it.res \notin Transient
  BY Zenon
<1>11. PICK new \in ServeRecords :
            /\ serve' = [serve EXCEPT ![m] = new]
            /\ new.pc = "entries" /\ new.batch = me.batch \ {e} /\ ServeSound(new)'
  <2>1. NextEntry(m, e, durable)
    BY <1>4, <1>6, <1>10 DEF NextEntry
  <2> QED
    BY <1>1, <1>8, <1>9, <1>10, <2>1, NextEntryLeaves
<1>12. SaveMeant(IdleSave)' /\ Apart(new.batch)
  BY <1>1, <1>11, IdleSaveTyped DEF SaveMeant, Apart
<1> QED
  BY <1>1, <1>2, <1>3, <1>5, <1>7, <1>11, <1>12, IdleSaveTyped, ServeMoves DEF clientVars

LEMMA AnswerKeepsInv ==
    ASSUME OInv, NEW m \in Syncs, ServeAnswer(m), UNCHANGED clientVars
    PROVE  OInv'
<1>1. PICK me \in ServeRecords : me = serve[m] /\ ServeSound(me) /\ me.pc = "entries"
  BY DEF OInv, ServerType, ServerSound, ServeAnswer
<1> DEFINE seqs == {d.seq : d \in me.durable}
<1>2. PICK mark \in {ServerAcked} \cup seqs :
        /\ Watermark(mark, seqs)
        /\ serve' = [serve EXCEPT ![m] = [IdleServe EXCEPT
                !.pc = "answered", !.durable = me.durable, !.answer = mark]]
  BY <1>1 DEF ServeAnswer
<1>3. mark \in Nat
  BY DEF ServeRecords, Durable, ServerAcked
<1>4. \A n \in 1..mark : \E d \in me.durable : d.seq = n
  BY <1>2, <1>3 DEF Watermark, ServerAcked
<1> DEFINE new == [IdleServe EXCEPT !.pc = "answered", !.durable = me.durable, !.answer = mark]
<1>5. /\ new \in ServeRecords /\ new.pc = "answered" /\ new.batch = {}
      /\ new.durable = me.durable /\ new.answer = mark
  <2>1. IdleServe \in ServeRecords /\ IdleServe.batch = {}
    BY OfflineAssumption DEF IdleServe, ServeRecords
  <2> QED
    BY <1>3, <2>1 DEF ServeRecords
<1>6. serve' = [serve EXCEPT ![m] = new]
  BY <1>2
<1> HIDE DEF new
<1>7. UNCHANGED <<responseVars, epoch, refused>> /\ Healthy
  BY DEF ServeAnswer
<1>8. ServeSound(new)'
  <2>1. ServeSound(me)'
    BY <1>1, <1>7, DecisionsStay DEF responseVars
  <2> QED
    BY <1>4, <1>5, <2>1 DEF ServeSound
<1>9. refused \subseteq refused' /\ refused' \subseteq Entries
  BY <1>7 DEF OInv, ServerType
<1> QED
  BY <1>1, <1>5, <1>6, <1>7, <1>8, <1>9, ServeGoes

LEMMA DiesKeepsInv ==
    ASSUME OInv, NEW m \in Syncs, ServeDies(m), UNCHANGED clientVars
    PROVE  OInv'
<1>1. PICK from \in SyncRecords : from = sync[m] /\ from.pc \notin {"idle", "read"}
  BY DEF OInv, BrowserType, Fresh, ServeDies
<1>2. sync' = [sync EXCEPT ![m] = from]
  BY <1>1 DEF OInv, BrowserType, clientVars
<1>3. /\ UNCHANGED <<rows, open, epoch, refused>> /\ Faulty
      /\ serve' = [serve EXCEPT ![m] = ServeOver] /\ save' = [save EXCEPT ![m] = IdleSave]
  BY DEF ServeDies
<1>4. refused \subseteq refused' /\ refused' \subseteq Entries
  BY <1>3 DEF OInv, ServerType
<1>5. SaveMeant(IdleSave)' /\ Apart(ServeOver.batch)
  BY IdleSaveTyped, ServeOverSound DEF SaveMeant, Apart
<1> QED
  BY <1>1, <1>2, <1>3, <1>4, <1>5, IdleSaveTyped, ServeOverSound, ServeMoves DEF clientVars
-----------------------------------------------------------------------------
(* The saves of a replay.                                                  *)

\* What a step of saveResponse has to leave; a row it adds is the one that its
\* request names.
LEMMA SaveMoves ==
    ASSUME OInv, NEW m \in Syncs, save[m].pc # "idle",
           NEW it \in ReplayRecords, save' = [save EXCEPT ![m] = it], it.req = save[m].req,
           UNCHANGED <<open, serverVars, clientVars>>, Healthy \/ Faulty,
           rows \subseteq rows', SaveMeant(it)', RowsApart', NewestExists',
           \A row \in rows' \ rows :
              /\ row \in [item : Items, seq : Nat \ {0}, key : Nat \ {0}, val : Edits, rev : Nat \ {0}]
              /\ row.item = ItemOf[row.val]
              /\ row.key = save[m].req.key /\ row.val = save[m].req.val
    PROVE  OInv'
<1>1. \A s \in Saves : save'[s] = IF s = m THEN it ELSE save[s]
  BY DEF OInv, AnswersType
<1>2. UNCHANGED <<serve, epoch, refused, journal, ackedSeq, pageEpoch, reloads, append, sync>>
  BY DEF serverVars, clientVars
<1>3. BrowserType' /\ EntriesApart' /\ Fresh'
  BY <1>2 DEF OInv, BrowserType, EntriesApart, Apart, Fresh
<1>4. ServerType'
  BY <1>2, FaultsTyped DEF OInv, ServerType
<1>5. AnswersType'
  BY DEF OInv, AnswersType
<1>6. NumberedOnce'
  <2>1. PICK e \in NextIn(serve[m].batch) : save[m].req = Numbered(m, e)
    BY DEF OInv, ServerSound, Replaying
  <2>2. e \in serve[m].batch /\ save[m].req.key = e.seq /\ save[m].req.val = e.edit
    BY <2>1 DEF NextIn, Numbered
  <2>3. \A f \in Edits, n \in Nat : Marked(f, n)' => Marked(f, n)
    <3> SUFFICES ASSUME NEW f \in Edits, NEW n \in Nat, NEW row \in rows', row \notin rows,
                        row.val = f, row.key = n
                 PROVE  Marked(f, n)
      BY <1>2 DEF Marked
    <3> QED
      BY <2>2 DEF Marked
  <2> QED
    BY <1>2, <2>3, MarksStay DEF OInv
<1>7. ServerSound'
  <2>1. ASSUME NEW d \in Syncs PROVE ServeSound(serve[d])' /\ Replaying(d)'
    <3>1. PICK me : me = serve[d] /\ me = serve'[d]
      BY <1>2
    <3>2. ServeSound(me)'
      BY <1>2, <3>1, DecisionsStay DEF OInv, ServerSound
    <3>3. save'[d].req = save[d].req /\ (save'[d].pc # "idle" => save[d].pc # "idle")
      BY <1>1, OfflineAssumption
    <3>4. Replaying(d)'
      BY <1>2, <3>3 DEF OInv, ServerSound, Replaying, Numbered
    <3> QED
      BY <3>1, <3>2, <3>4
  <2>2. ASSUME NEW s \in Saves PROVE SaveMeant(save[s])'
    <3>1. CASE s = m
      BY <1>1, <3>1 DEF SaveMeant
    <3>2. CASE s # m
      <4>1. PICK me : me = save[s] /\ me = save'[s]
        BY <1>1, <3>2
      <4>2. SaveMeant(me)'
        BY <1>2, <4>1, DecisionsStay DEF OInv, ServerSound
      <4> QED
        BY <4>1, <4>2
    <3> QED
      BY <3>1, <3>2
  <2> QED
    BY <2>1, <2>2 DEF ServerSound
<1> QED
  BY <1>3, <1>4, <1>5, <1>6, <1>7 DEF OInv

\* A step that leaves the rows alone.
LEMMA SaveReadsOn ==
    ASSUME OInv, NEW m \in Syncs, save[m].pc # "idle",
           NEW it \in ReplayRecords, save' = [save EXCEPT ![m] = it], it.req = save[m].req,
           UNCHANGED <<rows, open, serverVars, clientVars>>, Healthy \/ Faulty, SaveMeant(it)
    PROVE  OInv'
<1>1. SaveMeant(it)'
  BY DecisionsStay DEF serverVars
<1>2. RowsApart' /\ NewestExists'
  BY NewestUnmoved DEF OInv, RowsApart
<1> QED
  BY <1>1, <1>2, SaveMoves

\* The save returns, or goes on to its next call.
LEMMA ReturnKeepsInv ==
    ASSUME OInv, NEW m \in Syncs, save[m].pc # "idle",
           UNCHANGED <<rows, open, serverVars, clientVars>>, Healthy \/ Faulty,
           \/ \E row \in rows :
                /\ row.key = save[m].req.key
                      \/ (row.item = save[m].req.item /\ row.seq >= save[m].req.seq)
                /\ Acknowledge(m, row.seq)
           \/ \E res \in Refusals \cup {"error"} : FinishSave(m, res)
           \/ \E pc \in {"latest", "conflict"} :
                save' = [save EXCEPT ![m].pc = pc] /\ save[m].res # "accepted"
           \/ \E rev \in Nat \ {0} :
                save' = [save EXCEPT ![m].pc = "insert", ![m].rev = rev] /\ save[m].res # "accepted"
    PROVE  OInv'
<1>1. PICK old \in ReplayRecords : old = save[m] /\ SaveMeant(old)
  BY OfflineAssumption DEF OInv, AnswersType, ServerSound
<1>2. save \in [Saves -> ReplayRecords] /\ m \in Saves
  BY OfflineAssumption DEF OInv, AnswersType
<1>3. ASSUME NEW row \in rows, Acknowledge(m, row.seq),
             row.key = old.req.key \/ (row.item = old.req.item /\ row.seq >= old.req.seq)
      PROVE  OInv'
  <2> DEFINE it == [old EXCEPT !.pc = "done", !.res = "accepted", !.highest = row.seq]
  <2>1. row.seq \in Nat
    BY DEF OInv, AnswersType
  <2>2. it \in ReplayRecords /\ it.pc = "done" /\ it.res = "accepted" /\ it.req = old.req
    BY <2>1 DEF ReplayRecords, SavePcs, SaveResults
  <2>3. save' = [save EXCEPT ![m] = it]
    BY <1>1, <1>2, <1>3 DEF Acknowledge
  <2> HIDE DEF it
  <2>4. SaveMeant(it)
    BY <1>3, <2>2 DEF SaveMeant, Backs, RowsOf
  <2> QED
    BY <1>1, <2>2, <2>3, <2>4, SaveReadsOn
<1>4. ASSUME NEW res \in Refusals \cup {"error"}, FinishSave(m, res) PROVE OInv'
  <2> DEFINE it == [old EXCEPT !.pc = "done", !.res = res]
  <2>1. it \in ReplayRecords /\ it.pc = "done" /\ it.res = res /\ it.req = old.req
    BY DEF ReplayRecords, SavePcs, SaveResults
  <2>2. save' = [save EXCEPT ![m] = it]
    BY <1>1, <1>2, <1>4 DEF FinishSave
  <2> HIDE DEF it
  <2>3. SaveMeant(it)
    BY <2>1 DEF SaveMeant, Refusals, Transient
  <2> QED
    BY <1>1, <2>1, <2>2, <2>3, SaveReadsOn
<1>5. ASSUME NEW pc \in {"latest", "conflict"}, save' = [save EXCEPT ![m].pc = pc],
             save[m].res # "accepted"
      PROVE  OInv'
  <2> DEFINE it == [old EXCEPT !.pc = pc]
  <2>1. it \in ReplayRecords /\ it.pc = pc /\ it.res = old.res /\ it.req = old.req
    BY DEF ReplayRecords, SavePcs
  <2>2. save' = [save EXCEPT ![m] = it]
    BY <1>1, <1>2, <1>5
  <2> HIDE DEF it
  <2>3. SaveMeant(it)
    BY <1>1, <1>5, <2>1 DEF SaveMeant
  <2> QED
    BY <1>1, <2>1, <2>2, <2>3, SaveReadsOn
<1>6. ASSUME NEW rev \in Nat \ {0}, save' = [save EXCEPT ![m].pc = "insert", ![m].rev = rev],
             save[m].res # "accepted"
      PROVE  OInv'
  <2> DEFINE it == [old EXCEPT !.pc = "insert", !.rev = rev]
  <2>1. it \in ReplayRecords /\ it.pc = "insert" /\ it.rev = rev /\ it.res = old.res /\ it.req = old.req
    BY DEF ReplayRecords, SavePcs
  <2>2. save' = [save EXCEPT ![m] = it]
    BY <1>1, <1>2, <1>6
  <2> HIDE DEF it
  <2>3. SaveMeant(it)
    BY <1>1, <1>6, <2>1 DEF SaveMeant
  <2> QED
    BY <1>1, <2>1, <2>2, <2>3, SaveReadsOn
<1> QED
  BY <1>1, <1>3, <1>4, <1>5, <1>6

\* What a save under way was asked for.
LEMMA ReplayTyped ==
    ASSUME OInv, NEW m \in Syncs, save[m].pc # "idle"
    PROVE  save[m].req \in Sendable
<1>1. PICK e \in NextIn(serve[m].batch) : save[m].req = Numbered(m, e)
  BY DEF OInv, ServerSound, Replaying
<1>2. PICK me \in ServeRecords : me = serve[m]
  BY DEF OInv, ServerType
<1>3. e.seq \in Nat \ {0} /\ e.edit \in Edits /\ ItemOf[e.edit] \in Items
  BY <1>2, OfflineAssumption DEF NextIn, ServeRecords, Entries
<1>4. me.last[ItemOf[e.edit]] + 1 \in Nat \ {0}
  BY <1>3 DEF ServeRecords
<1> QED
  BY <1>1, <1>2, <1>3, <1>4 DEF Numbered, Sendable

\* The row goes in where no index refuses it.
LEMMA StoreKeepsInv ==
    ASSUME OInv, NEW m \in Syncs, SaveInsert(m), UNCHANGED <<serverVars, clientVars>>
    PROVE  OInv'
<1>1. PICK old \in ReplayRecords : old = save[m] /\ SaveMeant(old) /\ old.pc = "insert"
  BY OfflineAssumption DEF OInv, AnswersType, ServerSound, SaveInsert
<1>2. PICK r \in Sendable : r = old.req
  BY <1>1, ReplayTyped
<1>3. old.rev \in Nat \ {0}
  BY <1>1 DEF ReplayRecords, SaveMeant
<1> DEFINE row == [item |-> r.item, seq |-> r.seq, key |-> r.key, val |-> r.val, rev |-> old.rev]
<1>4. rows' = rows \cup {row} /\ ~Clash(r)
  BY <1>1, <1>2 DEF SaveInsert, NewRow
<1>5. /\ row \in [item : Items, seq : Nat \ {0}, key : Nat \ {0}, val : Edits, rev : Nat \ {0}]
      /\ row.item = ItemOf[row.val] /\ row.key = r.key /\ row.val = r.val
      /\ row.item = r.item /\ row.seq = r.seq
  BY <1>3 DEF Sendable
<1> HIDE DEF row
<1>6. RowsApart'
  <2>1. \A other \in rows : /\ other.key # row.key
                            /\ ~(other.item = row.item /\ (other.seq = row.seq \/ Mode[row.item] = "first"))
    BY <1>4, <1>5 DEF Clash
  <2> QED
    BY <1>4, <2>1 DEF OInv, RowsApart
<1>7. NewestExists'
  <2>1. \A other \in rows' : other.seq \in Nat
    BY <1>4, <1>5 DEF OInv, AnswersType
  <2> QED
    BY <1>4, <2>1, NewestStays DEF OInv
<1>8. PICK it \in ReplayRecords :
        /\ save' = [save EXCEPT ![m] = it] /\ it.req = r /\ it.pc = "done"
        /\ it.res \in {"accepted", "error"}
  <2>1. CASE Acknowledge(m, save[m].req.seq)
    <3> DEFINE it == [old EXCEPT !.pc = "done", !.res = "accepted", !.highest = r.seq]
    <3>1. it \in ReplayRecords /\ it.req = r /\ it.pc = "done" /\ it.res = "accepted"
      BY <1>2 DEF ReplayRecords, SavePcs, SaveResults, Sendable
    <3>2. save' = [save EXCEPT ![m] = it]
      BY <1>1, <1>2, <2>1, OfflineAssumption DEF Acknowledge, OInv, AnswersType
    <3> QED
      BY <3>1, <3>2
  <2>2. CASE FinishSave(m, "error")
    <3> DEFINE it == [old EXCEPT !.pc = "done", !.res = "error"]
    <3>1. it \in ReplayRecords /\ it.req = r /\ it.pc = "done" /\ it.res = "error"
      BY <1>2 DEF ReplayRecords, SavePcs, SaveResults
    <3>2. save' = [save EXCEPT ![m] = it]
      BY <1>1, <2>2, OfflineAssumption DEF FinishSave, OInv, AnswersType
    <3> QED
      BY <3>1, <3>2
  <2> QED
    BY <2>1, <2>2 DEF SaveInsert
<1>9. SaveMeant(it)'
  <2>1. Backs(r)'
    BY <1>4, <1>5 DEF Backs
  <2> QED
    BY <1>8, <2>1 DEF SaveMeant, Transient
<1>10. open' = open /\ (Healthy \/ Faulty)
  BY DEF SaveInsert
<1> QED
  BY <1>1, <1>2, <1>4, <1>5, <1>6, <1>7, <1>8, <1>9, <1>10, SaveMoves DEF SaveInsert

LEMMA ReplayStepKeepsInv ==
    ASSUME OInv, NEW m \in Syncs, SaveStep(m), UNCHANGED <<serverVars, clientVars>>
    PROVE  OInv'
<1>1. PICK old \in ReplayRecords :
        old = save[m] /\ SaveMeant(old) /\ old.pc # "idle" /\ (old.pc = "done" => FALSE)
  BY OfflineAssumption
     DEF OInv, AnswersType, ServerSound, SaveStep, SaveByKey, SaveReadLatest, SaveInsert, SaveRefused,
         SaveError, SaveConflict
<1>2. save[m].res # "accepted"
  BY <1>1 DEF SaveMeant
<1>3. PICK r \in Sendable : r = save[m].req
  BY <1>1, ReplayTyped
<1>4. CASE SaveByKey(m)
  BY <1>1, <1>2, <1>4, ReturnKeepsInv DEF SaveByKey
<1>5. CASE SaveReadLatest(m)
  <2>1. ASSUME NEW last \in Nat, NEW rev \in Nat, SaveGate(m, last, rev) PROVE OInv'
    <3>1. rev + 1 \in Nat \ {0}
      OBVIOUS
    <3>2. CASE \E res \in {"item_locked", "stale_seq"} : FinishSave(m, res)
      BY <1>1, <1>5, <3>2, ReturnKeepsInv DEF SaveReadLatest, Refusals
    <3>3. CASE save' = [save EXCEPT ![m].pc = "insert", ![m].rev = rev + 1]
      BY <1>1, <1>2, <1>5, <3>1, <3>3, ReturnKeepsInv DEF SaveReadLatest
    <3> QED
      BY <2>1, <3>2, <3>3 DEF SaveGate
  <2>2. \A row \in LatestOf(r.item) : row.seq \in Nat /\ row.rev \in Nat
    BY DEF LatestOf, RowsOf, OInv, AnswersType
  <2> QED
    BY <1>3, <1>5, <2>1, <2>2 DEF SaveReadLatest
<1>6. CASE SaveInsert(m)
  BY <1>6, StoreKeepsInv
<1>7. CASE SaveRefused(m)
  BY <1>1, <1>2, <1>7, ReturnKeepsInv DEF SaveRefused
<1>8. CASE SaveError(m)
  BY <1>1, <1>8, ReturnKeepsInv DEF SaveError
<1>9. CASE SaveConflict(m)
  BY <1>1, <1>9, ReturnKeepsInv DEF SaveConflict, LatestOf, RowsOf, Refusals
<1> QED
  BY <1>4, <1>5, <1>6, <1>7, <1>8, <1>9 DEF SaveStep

\* What leaves the entries, the answers and the saves alone.
LEMMA AsideKeepsInv ==
    ASSUME OInv, UNCHANGED <<rows, save, serve, refused, clientVars>>,
           open' \in BOOLEAN, epoch' \in 1..MaxEpoch, FaultsType'
    PROVE  OInv'
<1>1. UNCHANGED <<journal, ackedSeq, pageEpoch, reloads, append, sync>>
  BY DEF clientVars
<1>2. BrowserType' /\ EntriesApart' /\ Fresh' /\ AnswersType' /\ ServerType'
  BY <1>1 DEF OInv, BrowserType, EntriesApart, Apart, Fresh, AnswersType, ServerType
<1>3. NumberedOnce'
  BY <1>1 DEF OInv, NumberedOnce, Marked
<1>4. RowsApart' /\ NewestExists'
  BY NewestUnmoved DEF OInv, RowsApart
<1>5. ServerSound'
  <2>1. ASSUME NEW d \in Syncs PROVE ServeSound(serve[d])' /\ Replaying(d)'
    <3>1. ServeSound(serve[d])'
      <4>1. PICK me : me = serve[d] /\ me = serve'[d]
        OBVIOUS
      <4> QED
        BY <4>1, DecisionsStay DEF OInv, ServerSound
    <3> QED
      BY <3>1 DEF OInv, ServerSound, Replaying, Numbered
  <2>2. ASSUME NEW s \in Saves PROVE SaveMeant(save[s])'
    <3>1. PICK me : me = save[s] /\ me = save'[s]
      OBVIOUS
    <3> QED
      BY <3>1, DecisionsStay DEF OInv, ServerSound
  <2> QED
    BY <2>1, <2>2 DEF ServerSound
<1> QED
  BY <1>2, <1>3, <1>4, <1>5 DEF OInv
-----------------------------------------------------------------------------
LEMMA JournalStarts == Init => OInv
<1> SUFFICES ASSUME Init PROVE OInv
  OBVIOUS
<1>1. BrowserType
  BY OfflineAssumption, FS_EmptySet DEF Init, BrowserType, AppendRecords, SyncRecords
<1>2. IdleServe \in ServeRecords /\ IdleServe.pc = "idle" /\ IdleServe.batch = {} /\ IdleServe.durable = {} /\ IdleServe.answer = 0
  BY OfflineAssumption DEF IdleServe, ServeRecords
<1>3. ServerType
  BY <1>2, OfflineAssumption, MaxFaultsNat DEF Init, ServerType, FaultsType
<1>4. AnswersType
  BY IdleSaveTyped DEF Init, ResponseInit, AnswersType
<1>5. EntriesApart /\ Fresh /\ NumberedOnce
  BY <1>2 DEF Init, ResponseInit, EntriesApart, Apart, Fresh, NumberedOnce, Marked
<1>6. RowsApart /\ NewestExists
  BY DEF Init, ResponseInit, RowsApart, NewestExists, RowsOf
<1>7. ServerSound
  BY <1>2, IdleSaveTyped, OfflineAssumption
     DEF Init, ResponseInit, ServerSound, ServeSound, Replaying, SaveMeant
<1> QED
  BY <1>1, <1>3, <1>4, <1>5, <1>6, <1>7 DEF OInv

LEMMA JournalSteps == OInv /\ [Next]_vars => OInv'
<1> SUFFICES ASSUME OInv, [Next]_vars PROVE OInv'
  OBVIOUS
<1>1. CASE ClientNext
  BY <1>1, AppendKeepsInv, PutKeepsInv, SyncKeepsInv, ReloadKeepsInv DEF ClientNext
<1>2. CASE \E m \in Syncs : SyncSend(m) \/ SyncLost(m)
  BY <1>2, SendKeepsInv
<1>3. CASE ServerNext
  <2>1. UNCHANGED clientVars
    BY <1>3 DEF ServerNext
  <2>2. ASSUME NEW m \in Syncs, ServeStep(m) PROVE OInv'
    BY <2>1, <2>2, ServeReadKeepsInv, EntryKeepsInv, SavedKeepsInv, AnswerKeepsInv, DiesKeepsInv
       DEF ServeStep
  <2>3. ASSUME NEW m \in Syncs, SaveStep(m), UNCHANGED serverVars PROVE OInv'
    BY <2>1, <2>3, ReplayStepKeepsInv
  <2>4. CASE WindowCloses /\ UNCHANGED serverVars
    <3>1. UNCHANGED <<rows, save, serve, refused, epoch, faults>> /\ open' \in BOOLEAN
      BY <2>4 DEF WindowCloses, Healthy, serverVars
    <3> QED
      BY <2>1, <3>1, AsideKeepsInv DEF OInv, ServerType, FaultsType
  <2>5. CASE Reopen
    <3>1. UNCHANGED <<rows, save, open, serve, refused, faults>> /\ epoch' \in 1..MaxEpoch
      BY <2>5, OfflineAssumption DEF Reopen, Healthy, responseVars, OInv, ServerType
    <3> QED
      BY <2>1, <3>1, AsideKeepsInv DEF OInv, ServerType, FaultsType, AnswersType
  <2> QED
    BY <1>3, <2>2, <2>3, <2>4, <2>5 DEF ServerNext
<1>4. CASE UNCHANGED vars
  <2>1. UNCHANGED <<rows, save, open, serve, refused, epoch, faults, clientVars>>
    BY <1>4 DEF vars, responseVars, serverVars
  <2> QED
    BY <2>1, AsideKeepsInv DEF OInv, ServerType, FaultsType, AnswersType
<1> QED
  BY <1>1, <1>2, <1>3, <1>4 DEF Next, Quiet

LEMMA JournalInvariance == Spec => []OInv
BY JournalStarts, JournalSteps, PTL DEF Spec
-----------------------------------------------------------------------------
(* Steps and the order of the answers.                                     *)

\* What every step does: what is settled stays so, and a new number is above all.
Onward ==
    /\ rows \subseteq rows' /\ (open' => open) /\ order.seq <= order'.seq
    /\ \A e \in Edits, n \in Nat : Marked(e, n)' => Marked(e, n) \/ n > order.seq

LEMMA SettledStays ==
    ASSUME Onward, NEW e \in Edits, NEW n \in Nat, Settled(e, n)
    PROVE  Settled(e, n)'
BY DEF Onward, Settled, StoredAs

LEMMA SettledToStays ==
    ASSUME Onward, OrderType, OrderType', NEW k \in Nat, SettledTo(k)
    PROVE  SettledTo(k)'
<1>1. k <= order.seq /\ order.seq \in Nat /\ order'.seq \in Nat /\ order.seq <= order'.seq
  BY DEF SettledTo, OrderType, Onward
<1>2. k <= order'.seq
  BY <1>1
<1>3. ASSUME NEW e \in Edits, NEW n \in Nat, Marked(e, n)', n <= k PROVE Settled(e, n)'
  <2>1. Marked(e, n)
    BY <1>1, <1>3 DEF Onward
  <2> QED
    BY <1>3, <2>1, SettledStays DEF SettledTo
<1> QED
  BY <1>2, <1>3 DEF SettledTo

LEMMA FromOldestStays ==
    ASSUME Onward, OrderType, NEW S, FromOldest(S), \A f \in S : f.seq \in Nat /\ f.seq <= order.seq
    PROVE  FromOldest(S)'
<1> SUFFICES ASSUME NEW f \in S, NEW e \in Edits, NEW n \in Nat, Marked(e, n)', n < f.seq
             PROVE  Settled(e, n)' \/ \E g \in S : g.edit = e /\ g.seq = n
  BY DEF FromOldest
<1>1. Marked(e, n)
  BY DEF Onward, OrderType
<1>2. Settled(e, n) \/ \E g \in S : g.edit = e /\ g.seq = n
  BY <1>1 DEF FromOldest
<1> QED
  BY <1>2, SettledStays

LEMMA OlderStoredStays ==
    ASSUME Onward, OrderType, NEW i, NEW k \in Nat, k <= order.seq, OlderStored(i, k)
    PROVE  OlderStored(i, k)'
<1> SUFFICES ASSUME Mode[i] = "editable", NEW e \in Edits, NEW n \in Nat, Marked(e, n)',
                    ItemOf[e] = i, n < k
             PROVE  StoredAs(e, n)'
  BY DEF OlderStored
<1>1. Marked(e, n)
  BY DEF Onward, OrderType
<1>2. StoredAs(e, n)
  BY <1>1 DEF OlderStored
<1> QED
  BY <1>2 DEF StoredAs, Onward

\* Whatever is kept somewhere has a number, and none is above the newest.
LEMMA NumbersKnown ==
    ASSUME Placed
    PROVE  /\ order.seq \in Nat
           /\ \A f \in journal : f \in Entries /\ Marked(f.edit, f.seq) /\ f.seq <= order.seq
           /\ \A m \in Syncs : \A f \in sync[m].read \cup serve[m].batch :
                 f \in Entries /\ Marked(f.edit, f.seq) /\ f.seq <= order.seq
           /\ \A row \in rows : Marked(row.val, row.key) /\ row.key <= order.seq
           /\ \A e \in Edits, n \in Nat : Marked(e, n) => n # 0
<1>1. \A f \in journal : f \in Entries
  BY DEF Placed, OInv, BrowserType
<1>2. \A m \in Syncs : sync[m].read \subseteq Entries /\ serve[m].batch \subseteq Entries
  BY DEF Placed, OInv, BrowserType, ServerType, SyncRecords, ServeRecords
<1>3. \A f \in Entries : f.seq \in Nat /\ f.seq # 0 /\ f.edit \in Edits
  BY DEF Entries
<1>4. \A row \in rows : row.val \in Edits /\ row.key \in Nat /\ row.key # 0
  BY DEF Placed, OInv, AnswersType
<1>5. \A f \in journal : Marked(f.edit, f.seq)
  BY DEF Marked
<1>6. \A m \in Syncs : \A f \in sync[m].read \cup serve[m].batch : Marked(f.edit, f.seq)
  BY DEF Marked
<1>7. \A row \in rows : Marked(row.val, row.key)
  BY DEF Marked
<1>8. \A e \in Edits, n \in Nat : Marked(e, n) => n <= order.seq
  BY DEF Placed, Ordered, MarksRise
<1>9. \A e \in Edits, n \in Nat : Marked(e, n) => n # 0
  BY <1>1, <1>2, <1>3, <1>4 DEF Marked
<1> QED
  BY <1>1, <1>2, <1>3, <1>4, <1>5, <1>6, <1>7, <1>8, <1>9 DEF Placed, OrderType

\* A save under way is one of an entry that has its number.
LEMMA SavesKnown ==
    ASSUME Placed, NEW m \in Syncs, save[m].pc # "idle"
    PROVE  \E e \in NextIn(serve[m].batch) :
              /\ e \in serve[m].batch /\ e \in Entries
              /\ save[m].req = Numbered(m, e)
              /\ save[m].req.key = e.seq /\ save[m].req.val = e.edit
              /\ save[m].req.item = ItemOf[e.edit]
              /\ Marked(e.edit, e.seq) /\ e.seq \in Nat /\ e.seq <= order.seq
<1>1. PICK e \in NextIn(serve[m].batch) : save[m].req = Numbered(m, e)
  BY DEF Placed, OInv, ServerSound, Replaying
<1>2. e \in serve[m].batch
  BY DEF NextIn
<1> QED
  BY <1>1, <1>2, NumbersKnown DEF Numbered, Entries

LEMMA MarksRiseStay ==
    ASSUME MarksRise, order' = order, \A e \in Edits, n \in Nat : Marked(e, n)' => Marked(e, n)
    PROVE  MarksRise'
BY DEF MarksRise

LEMMA SyncInOrderStays ==
    ASSUME Placed, Onward, OrderType', NEW m \in Syncs, SyncInOrder(sync[m]), NEW me, me = sync[m]
    PROVE  SyncInOrder(me)'
<1>1. \A f \in me.read : f.seq \in Nat /\ f.seq <= order.seq
  BY NumbersKnown DEF Entries
<1>2. me.answer \in Nat
  BY DEF Placed, OInv, BrowserType, SyncRecords
<1>3. FromOldest(me.read)'
  BY <1>1, FromOldestStays DEF SyncInOrder, Placed
<1>4. SettledTo(me.answer)'
  BY <1>2, SettledToStays DEF SyncInOrder, Placed
<1> QED
  BY <1>3, <1>4 DEF SyncInOrder

LEMMA DurableStays ==
    ASSUME Placed, Onward, OrderType', NEW d, d.seq \in Nat, d.seq <= order.seq,
           \A e \in Edits : Marked(e, d.seq) => Settled(e, d.seq)
    PROVE  d.seq <= order'.seq /\ \A e \in Edits : Marked(e, d.seq)' => Settled(e, d.seq)'
<1>1. order.seq \in Nat /\ order'.seq \in Nat /\ order.seq <= order'.seq
  BY DEF Placed, OrderType, Onward
<1>2. ASSUME NEW e \in Edits, Marked(e, d.seq)' PROVE Settled(e, d.seq)'
  <2>1. Marked(e, d.seq)
    BY <1>1, <1>2 DEF Onward
  <2> QED
    BY <2>1, SettledStays
<1> QED
  BY <1>1, <1>2

\* What a sync of the server has, but for entries it is done with, stays in order.
LEMMA ServeInOrderStays ==
    ASSUME Placed, Onward, OrderType', NEW m \in Syncs, NEW me, me = serve[m]
    PROVE  /\ ServeInOrder(me)'
           /\ \A d \in me.durable :
                 d.seq <= order'.seq /\ \A e \in Edits : Marked(e, d.seq)' => Settled(e, d.seq)'
<1>1. \A f \in me.batch : f.seq \in Nat /\ f.seq <= order.seq
  BY NumbersKnown DEF Entries
<1>2. me.answer \in Nat /\ \A d \in me.durable : d.seq \in Nat
  BY DEF Placed, OInv, ServerType, ServeRecords, Durable
<1>3. ServeInOrder(me)
  BY DEF Placed, Ordered, ServerOrder
<1>4. FromOldest(me.batch)'
  BY <1>1, <1>3, FromOldestStays DEF ServeInOrder, Placed
<1>5. SettledTo(me.answer)'
  BY <1>2, <1>3, SettledToStays DEF ServeInOrder, Placed
<1>6. \A d \in me.durable :
         d.seq <= order'.seq /\ \A e \in Edits : Marked(e, d.seq)' => Settled(e, d.seq)'
  BY <1>2, <1>3, DurableStays DEF ServeInOrder
<1> QED
  BY <1>4, <1>5, <1>6 DEF ServeInOrder

LEMMA SaveInOrderStays ==
    ASSUME Placed, Onward, OrderType', rows' = rows, NEW m \in Syncs, NEW me, me = save[m],
           NEW it, it.req = me.req, it.pc \in UnderWay => me.pc \in UnderWay,
           it.pc = "insert" => me.pc = "insert"
    PROVE  SaveInOrder(it)'
<1>1. SaveInOrder(me)
  BY DEF Placed, Ordered, AnswersOrder
<1>2. ASSUME me.pc \in UnderWay PROVE OlderStored(me.req.item, me.req.key)'
  <2>1. me.req.key \in Nat /\ me.req.key <= order.seq
    BY <1>2, SavesKnown DEF UnderWay
  <2> QED
    BY <1>1, <1>2, <2>1, OlderStoredStays DEF SaveInOrder, Placed
<1> QED
  BY <1>1, <1>2 DEF SaveInOrder, RowsOf

\* A step that stores nothing, nor moves a save.
LEMMA AnswersOrderStays ==
    ASSUME Placed, Onward, OrderType', rows' = rows, save' = save
    PROVE  AnswersOrder'
<1>1. ASSUME NEW row \in rows PROVE OlderStored(row.item, row.key)'
  <2>1. row.key \in Nat /\ row.key <= order.seq
    BY NumbersKnown DEF Placed, OInv, AnswersType
  <2> QED
    BY <2>1, OlderStoredStays DEF Placed, Ordered, AnswersOrder
<1>2. ASSUME NEW m \in Syncs PROVE SaveInOrder(save[m])'
  <2>1. PICK me : me = save[m] /\ me = save'[m]
    OBVIOUS
  <2> QED
    BY <2>1, SaveInOrderStays
<1> QED
  BY <1>1, <1>2 DEF Placed, Ordered, AnswersOrder

\* A step of the browser that neither reads, drops nor acknowledges.
LEMMA BrowserOrderStays ==
    ASSUME Placed, Onward, OrderType', UNCHANGED <<journal, ackedSeq, sync>>,
           \A e \in Edits, n \in Nat : Marked(e, n)' => Marked(e, n)
    PROVE  BrowserOrder'
<1>1. SettledTo(ackedSeq)'
  BY SettledToStays DEF Placed, OInv, BrowserType, Ordered, BrowserOrder
<1>2. ASSUME NEW m \in Syncs PROVE SyncInOrder(sync[m])'
  <2>1. PICK me : me = sync[m] /\ me = sync'[m]
    OBVIOUS
  <2> QED
    BY <2>1, SyncInOrderStays DEF Placed, Ordered, BrowserOrder
<1>3. ASSUME NEW e \in Edits, NEW n \in Nat, Marked(e, n)'
      PROVE  Settled(e, n)' \/ \E f \in journal' : f.edit = e /\ f.seq = n
  <2>1. Marked(e, n)
    BY <1>3
  <2> QED
    BY <2>1, SettledStays DEF Placed, Ordered, BrowserOrder
<1> QED
  BY <1>1, <1>2, <1>3 DEF BrowserOrder
-----------------------------------------------------------------------------
(* The browser's steps and the order.                                      *)

\* A step of the browser that gives no number.
LEMMA BrowserMoves ==
    ASSUME Placed, OrderType', order' = order, UNCHANGED <<responseVars, serverVars>>,
           \A e \in Edits, n \in Nat : Marked(e, n)' => Marked(e, n),
           Onward => BrowserOrder'
    PROVE  Ordered'
<1>1. UNCHANGED <<rows, open, save, serve>>
  BY DEF responseVars, serverVars
<1>2. Onward
  BY <1>1 DEF Onward, Placed, OrderType
<1>3. ASSUME NEW m \in Syncs PROVE ServeInOrder(serve[m])'
  <2>1. PICK me : me = serve[m] /\ me = serve'[m]
    BY <1>1
  <2> QED
    BY <1>2, <2>1, ServeInOrderStays
<1> QED
  BY <1>1, <1>2, <1>3, AnswersOrderStays, MarksRiseStay DEF Placed, Ordered, ServerOrder

\* The put of the newest edit under the highest number.
LEMMA PutKeepsOrder ==
    ASSUME Placed, OrderType', NEW e \in Edits, AppendPut(e), Rises(e),
           order' = [kept |-> TRUE, seq |-> append[e].seq, edit |-> e],
           UNCHANGED <<responseVars, serverVars>>
    PROVE  Ordered'
<1>1. UNCHANGED <<rows, open, save, serve, ackedSeq, sync>>
  BY DEF AppendPut, responseVars, serverVars
<1>2. PICK n \in Nat : n = append[e].seq /\ n > order.seq /\ e > order.edit
  BY DEF Rises, Placed, OInv, BrowserType, AppendRecords
<1>3. order'.seq = n /\ order'.edit = e /\ order.seq \in Nat /\ order.edit \in Nat /\ e \in Nat
  BY <1>2, OfflineAssumption DEF Placed, OrderType, Edits
<1> DEFINE new == [seq |-> n, edit |-> e, epoch |-> pageEpoch]
<1>4. journal' = {f \in journal : f.seq # n} \cup {new} /\ new.seq = n /\ new.edit = e
  BY <1>2 DEF AppendPut
<1> HIDE DEF new
<1>5. \A f \in Edits, k \in Nat : Marked(f, k)' => Marked(f, k) \/ (f = e /\ k = n)
  BY <1>1, <1>4 DEF Marked
<1>6. Onward
  BY <1>1, <1>2, <1>3, <1>5 DEF Onward
<1>7. \A f \in Edits, k \in Nat : Marked(f, k) => k < n /\ f < e /\ f \in Nat
  <2>1. \A f \in Edits : f \in Nat
    BY OfflineAssumption DEF Edits
  <2> QED
    BY <1>2, <1>3, <2>1 DEF Placed, Ordered, MarksRise
<1>8. MarksRise'
  <2>1. ASSUME NEW f \in Edits, NEW g \in Edits, NEW k \in Nat, NEW j \in Nat,
               Marked(f, k)', Marked(g, j)'
        PROVE  k < j <=> f < g
    <3>1. Marked(f, k) \/ (f = e /\ k = n)
      BY <1>5, <2>1
    <3>2. Marked(g, j) \/ (g = e /\ j = n)
      BY <1>5, <2>1
    <3>3. Marked(f, k) /\ Marked(g, j) => (k < j <=> f < g)
      BY DEF Placed, Ordered, MarksRise
    <3> QED
      BY <1>3, <1>7, <3>1, <3>2, <3>3
  <2>2. ASSUME NEW f \in Edits, NEW k \in Nat, Marked(f, k)' PROVE f <= e /\ k <= n
    BY <1>3, <1>5, <1>7, <2>2
  <2> QED
    BY <1>3, <2>1, <2>2 DEF MarksRise
<1>9. BrowserOrder'
  <2>1. SettledTo(ackedSeq)'
    BY <1>1, <1>6, SettledToStays DEF Placed, OInv, BrowserType, Ordered, BrowserOrder
  <2>2. ASSUME NEW m \in Syncs PROVE SyncInOrder(sync[m])'
    <3>1. PICK me : me = sync[m] /\ me = sync'[m]
      BY <1>1
    <3> QED
      BY <1>6, <3>1, SyncInOrderStays DEF Placed, Ordered, BrowserOrder
  <2>3. ASSUME NEW f \in Edits, NEW k \in Nat, Marked(f, k)'
        PROVE  Settled(f, k)' \/ \E g \in journal' : g.edit = f /\ g.seq = k
    <3>1. CASE f = e /\ k = n
      BY <1>4, <3>1
    <3>2. CASE Marked(f, k)
      <4>1. k # n
        BY <1>7, <3>2
      <4> QED
        BY <1>4, <1>6, <3>2, <4>1, SettledStays DEF Placed, Ordered, BrowserOrder
    <3> QED
      BY <1>5, <2>3, <3>1, <3>2
  <2> QED
    BY <2>1, <2>2, <2>3 DEF BrowserOrder
<1>10. ASSUME NEW m \in Syncs PROVE ServeInOrder(serve[m])'
  <2>1. PICK me : me = serve[m] /\ me = serve'[m]
    BY <1>1
  <2> QED
    BY <1>6, <2>1, ServeInOrderStays
<1> QED
  BY <1>1, <1>6, <1>8, <1>9, <1>10, AnswersOrderStays DEF Ordered, ServerOrder

LEMMA SyncOverInOrder ==
    ASSUME Placed, OrderType', \A e \in Edits, n \in Nat : Marked(e, n)' => Marked(e, n)
    PROVE  SyncInOrder(SyncOver)'
<1>1. \A e \in Edits, n \in Nat : Marked(e, n)' => n # 0
  BY NumbersKnown
<1>2. SettledTo(0)'
  BY <1>1 DEF SettledTo, OrderType
<1>3. FromOldest({})'
  BY DEF FromOldest
<1> QED
  BY <1>2, <1>3, FS_EmptySet DEF SyncOver, SyncInOrder

\* A sync goes on in the browser: where its answer or its entries are new, they
\* are in order.
LEMMA SyncMovesInOrder ==
    ASSUME Placed, OrderType', order' = order, UNCHANGED <<responseVars, serverVars>>,
           NEW m \in Syncs, NEW new, sync' = [sync EXCEPT ![m] = new],
           new.read \subseteq sync[m].read \cup journal, journal' \subseteq journal,
           Onward => /\ SyncInOrder(new)' /\ SettledTo(ackedSeq)'
                     /\ \A f \in journal : f \in journal' \/ Settled(f.edit, f.seq)'
    PROVE  Ordered'
<1>1. UNCHANGED <<rows, open, save, serve>>
  BY DEF responseVars, serverVars
<1>2. \A d \in Syncs : sync'[d] = IF d = m THEN new ELSE sync[d]
  BY DEF Placed, OInv, BrowserType
<1>3. ASSUME NEW e \in Edits, NEW n \in Nat, Marked(e, n)' PROVE Marked(e, n)
  <2>1. CASE \E d \in Syncs : \E f \in sync'[d].read \cup serve'[d].batch : f.edit = e /\ f.seq = n
    <3>1. PICK d \in Syncs : \E f \in sync'[d].read \cup serve'[d].batch : f.edit = e /\ f.seq = n
      BY <2>1
    <3>2. PICK f \in sync'[d].read \cup serve'[d].batch : f.edit = e /\ f.seq = n
      BY <3>1
    <3>3. f \in journal \/ f \in sync[d].read \cup serve[d].batch
      BY <1>1, <1>2, <3>2
    <3> QED
      BY <3>2, <3>3 DEF Marked
  <2> QED
    BY <1>1, <1>3, <2>1 DEF Marked
<1>4. Onward
  BY <1>1, <1>3 DEF Onward, Placed, OrderType
<1>5. BrowserOrder'
  <2>1. ASSUME NEW d \in Syncs PROVE SyncInOrder(sync[d])'
    <3>1. CASE d = m
      BY <1>2, <1>4, <3>1
    <3>2. CASE d # m
      <4>1. PICK me : me = sync[d] /\ me = sync'[d]
        BY <1>2, <3>2
      <4> QED
        BY <1>4, <4>1, SyncInOrderStays DEF Placed, Ordered, BrowserOrder
    <3> QED
      BY <3>1, <3>2
  <2>2. ASSUME NEW e \in Edits, NEW n \in Nat, Marked(e, n)'
        PROVE  Settled(e, n)' \/ \E g \in journal' : g.edit = e /\ g.seq = n
    <3>1. Settled(e, n) \/ \E g \in journal : g.edit = e /\ g.seq = n
      BY <1>3, <2>2 DEF Placed, Ordered, BrowserOrder
    <3> QED
      BY <1>4, <3>1, SettledStays
  <2> QED
    BY <1>4, <2>1, <2>2 DEF BrowserOrder
<1> QED
  BY <1>3, <1>5, BrowserMoves

LEMMA SyncKeepsOrder ==
    ASSUME Placed, OrderType', order' = order, UNCHANGED <<responseVars, serverVars>>,
           NEW m \in Syncs, SyncRead(m) \/ SyncReceive(m) \/ SyncDrop(m) \/ SyncAcked(m)
    PROVE  Ordered'
<1>1. PICK old \in SyncRecords : old = sync[m] /\ SyncInOrder(old)
  BY DEF Placed, OInv, BrowserType, Ordered, BrowserOrder
<1>2. ASSUME Onward PROVE SyncInOrder(old)' /\ \A k \in Nat : SettledTo(k) => SettledTo(k)'
  BY <1>1, <1>2, SyncInOrderStays, SettledToStays DEF Placed
<1>3. ackedSeq \in Nat /\ SettledTo(ackedSeq) /\ sync \in [Syncs -> SyncRecords]
  BY DEF Placed, OInv, BrowserType, Ordered, BrowserOrder
<1>4. CASE SyncRead(m)
  <2>1. PICK S : S = journal
    OBVIOUS
  <2>2. PICK new \in SyncRecords : new = [old EXCEPT !.pc = "read", !.read = S]
    BY <2>1 DEF SyncRecords, Placed, OInv, BrowserType
  <2>3. new.read = S /\ new.answer = old.answer
    BY <2>2 DEF SyncRecords
  <2>4. sync' = [sync EXCEPT ![m] = new]
    BY <1>1, <1>3, <1>4, <2>1, <2>2 DEF SyncRead
  <2>5. IsFiniteSet(S) /\ journal' = journal /\ ackedSeq' = ackedSeq
    BY <1>4, <2>1 DEF SyncRead, Placed, OInv, BrowserType
  <2>6. FromOldest(S)
    BY <2>1, NumbersKnown DEF FromOldest, Placed, Ordered, BrowserOrder
  <2>7. \A f \in S : f.seq \in Nat /\ f.seq <= order.seq
    BY <2>1, NumbersKnown DEF Entries
  <2>8. ASSUME Onward
        PROVE  /\ SyncInOrder(new)' /\ SettledTo(ackedSeq)'
               /\ \A f \in journal : f \in journal' \/ Settled(f.edit, f.seq)'
    <3>1. FromOldest(S)'
      BY <2>6, <2>7, <2>8, FromOldestStays DEF Placed
    <3>2. SyncInOrder(new)'
      BY <1>2, <2>3, <2>5, <2>8, <3>1 DEF SyncInOrder
    <3>3. SettledTo(ackedSeq)'
      BY <1>2, <1>3, <2>5, <2>8
    <3> QED
      BY <2>5, <3>2, <3>3
  <2>9. new.read \subseteq sync[m].read \cup journal /\ journal' \subseteq journal
    BY <2>1, <2>3, <2>5
  <2> QED
    BY <2>4, <2>8, <2>9, SyncMovesInOrder
<1>5. CASE SyncReceive(m)
  <2>1. PICK me \in ServeRecords : me = serve[m] /\ ServeInOrder(me)
    BY DEF Placed, OInv, ServerType, Ordered, ServerOrder
  <2>2. PICK new \in SyncRecords : new = [old EXCEPT !.pc = "dropping", !.answer = me.answer]
    BY DEF SyncRecords, ServeRecords
  <2>3. new.read = old.read /\ new.answer = me.answer /\ me.answer \in Nat
    BY <2>2 DEF SyncRecords, ServeRecords
  <2>4. sync' = [sync EXCEPT ![m] = new]
    BY <1>1, <1>3, <1>5, <2>1, <2>2 DEF SyncReceive
  <2>5. journal' = journal /\ ackedSeq' = ackedSeq
    BY <1>5 DEF SyncReceive
  <2>6. ASSUME Onward
        PROVE  /\ SyncInOrder(new)' /\ SettledTo(ackedSeq)'
               /\ \A f \in journal : f \in journal' \/ Settled(f.edit, f.seq)'
    <3>1. SettledTo(me.answer)'
      BY <1>2, <2>1, <2>3, <2>6 DEF ServeInOrder
    <3>2. SyncInOrder(new)'
      BY <1>2, <2>3, <2>6, <3>1 DEF SyncInOrder
    <3>3. SettledTo(ackedSeq)'
      BY <1>2, <1>3, <2>5, <2>6
    <3> QED
      BY <2>5, <3>2, <3>3
  <2>7. new.read \subseteq sync[m].read \cup journal /\ journal' \subseteq journal
    BY <1>1, <2>3, <2>5
  <2> QED
    BY <2>4, <2>6, <2>7, SyncMovesInOrder
<1>6. CASE SyncDrop(m)
  <2>1. PICK new \in SyncRecords : new = [old EXCEPT !.pc = "dropped"]
    BY DEF SyncRecords
  <2>2. new.read = old.read /\ new.answer = old.answer
    BY <2>1 DEF SyncRecords
  <2>3. sync' = [sync EXCEPT ![m] = new]
    BY <1>1, <1>3, <1>6, <2>1 DEF SyncDrop
  <2>4. journal' \subseteq journal /\ ackedSeq' = ackedSeq
    BY <1>6 DEF SyncDrop
  <2>5. ASSUME Onward
        PROVE  /\ SyncInOrder(new)' /\ SettledTo(ackedSeq)'
               /\ \A f \in journal : f \in journal' \/ Settled(f.edit, f.seq)'
    <3>1. SyncInOrder(new)'
      BY <1>2, <2>2, <2>5 DEF SyncInOrder
    <3>2. SettledTo(ackedSeq)'
      BY <1>2, <1>3, <2>4, <2>5
    <3>3. ASSUME NEW f \in journal, f \notin journal' PROVE Settled(f.edit, f.seq)'
      <4>1. f.seq <= old.answer
        BY <1>1, <1>6, <3>3 DEF SyncDrop
      <4>2. f.seq \in Nat /\ f.edit \in Edits /\ Marked(f.edit, f.seq)
        BY NumbersKnown DEF Entries
      <4>3. Settled(f.edit, f.seq)
        BY <1>1, <4>1, <4>2 DEF SyncInOrder, SettledTo
      <4> QED
        BY <2>5, <4>2, <4>3, SettledStays
    <3> QED
      BY <3>1, <3>2, <3>3
  <2>6. new.read \subseteq sync[m].read \cup journal
    BY <1>1, <2>2
  <2> QED
    BY <2>3, <2>4, <2>5, <2>6, SyncMovesInOrder
<1>7. CASE SyncAcked(m)
  <2>1. sync' = [sync EXCEPT ![m] = SyncOver] /\ ackedSeq' = old.answer /\ journal' = journal
    BY <1>1, <1>7 DEF SyncAcked
  <2>2. PICK new : new = SyncOver /\ new.read = {}
    BY SyncOverTyped
  <2>3. sync' = [sync EXCEPT ![m] = new]
    BY <2>1, <2>2
  <2>4. \A e \in Edits, n \in Nat : Marked(e, n)' => Marked(e, n)
    <3>1. \A d \in Syncs : sync'[d].read \subseteq sync[d].read
      BY <1>3, <2>2, <2>3
    <3>2. serve' = serve /\ rows' = rows
      BY DEF serverVars, responseVars
    <3> QED
      BY <2>1, <3>1, <3>2 DEF Marked
  <2>5. ASSUME Onward
        PROVE  /\ SyncInOrder(new)' /\ SettledTo(ackedSeq)'
               /\ \A f \in journal : f \in journal' \/ Settled(f.edit, f.seq)'
    <3>1. SyncInOrder(new)'
      BY <2>2, <2>4, SyncOverInOrder
    <3>2. SettledTo(old.answer)'
      BY <1>2, <2>5 DEF SyncInOrder
    <3> QED
      BY <2>1, <3>1, <3>2
  <2>6. new.read \subseteq sync[m].read \cup journal /\ journal' \subseteq journal
    BY <2>1, <2>2
  <2> QED
    BY <2>3, <2>5, <2>6, SyncMovesInOrder
<1> QED
  BY <1>4, <1>5, <1>6, <1>7

LEMMA ReloadKeepsOrder ==
    ASSUME Placed, OrderType', order' = order, UNCHANGED <<responseVars, serverVars>>, Reload
    PROVE  Ordered'
<1>1. UNCHANGED <<rows, serve, journal, ackedSeq>>
  BY DEF Reload, responseVars, serverVars
<1>2. \A d \in Syncs : sync'[d] = IF d \in Syncing THEN SyncOver ELSE sync[d]
  BY DEF Reload
<1>3. \A e \in Edits, n \in Nat : Marked(e, n)' => Marked(e, n)
  <2>1. \A d \in Syncs : sync'[d].read \subseteq sync[d].read
    BY <1>2, SyncOverTyped
  <2> QED
    BY <1>1, <2>1 DEF Marked
<1>4. Onward => BrowserOrder'
  <2> SUFFICES ASSUME Onward PROVE BrowserOrder'
    OBVIOUS
  <2>1. ASSUME NEW d \in Syncs PROVE SyncInOrder(sync[d])'
    <3>1. CASE d \in Syncing
      BY <1>2, <1>3, <3>1, SyncOverInOrder
    <3>2. CASE d \notin Syncing
      <4>1. PICK me : me = sync[d] /\ me = sync'[d]
        BY <1>2, <3>2
      <4> QED
        BY <4>1, SyncInOrderStays DEF Placed, Ordered, BrowserOrder
    <3> QED
      BY <3>1, <3>2
  <2>2. SettledTo(ackedSeq)'
    BY <1>1, SettledToStays DEF Placed, OInv, BrowserType, Ordered, BrowserOrder
  <2>3. \A e \in Edits, n \in Nat : Marked(e, n)' =>
            Settled(e, n)' \/ \E g \in journal' : g.edit = e /\ g.seq = n
    BY <1>1, <1>3, SettledStays DEF Placed, Ordered, BrowserOrder
  <2> QED
    BY <2>1, <2>2, <2>3 DEF BrowserOrder
<1> QED
  BY <1>3, <1>4, BrowserMoves

LEMMA AppendKeepsOrder ==
    ASSUME Placed, OrderType', order' = order, UNCHANGED <<responseVars, serverVars>>,
           NEW e \in Edits, AppendBegin(e) \/ AppendCount(e)
    PROVE  Ordered'
<1>1. UNCHANGED <<rows, serve, journal, ackedSeq, sync>>
  BY DEF AppendBegin, AppendCount, responseVars, serverVars
<1>2. \A f \in Edits, n \in Nat : Marked(f, n)' => Marked(f, n)
  BY <1>1 DEF Marked
<1>3. Onward => BrowserOrder'
  BY <1>1, <1>2, BrowserOrderStays
<1> QED
  BY <1>2, <1>3, BrowserMoves
-----------------------------------------------------------------------------
(* The server's steps and the order.                                       *)

\* A step of a sync that stores nothing.
LEMMA ServeMovesInOrder ==
    ASSUME Placed, OrderType', order' = order, UNCHANGED <<rows, open, journal, ackedSeq>>,
           NEW m \in Syncs, NEW new, serve' = [serve EXCEPT ![m] = new],
           new.batch \subseteq serve[m].batch \cup sync[m].read,
           NEW it, save' = [save EXCEPT ![m] = it],
           NEW from, sync' = [sync EXCEPT ![m] = from], from.read \subseteq sync[m].read,
           Onward /\ (\A e \in Edits, n \in Nat : Marked(e, n)' => Marked(e, n)) =>
              ServeInOrder(new)' /\ SaveInOrder(it)' /\ SyncInOrder(from)'
    PROVE  Ordered'
<1>1. /\ \A d \in Syncs : serve'[d] = IF d = m THEN new ELSE serve[d]
      /\ \A d \in Syncs : save'[d] = IF d = m THEN it ELSE save[d]
      /\ \A d \in Syncs : sync'[d] = IF d = m THEN from ELSE sync[d]
  BY OfflineAssumption DEF Placed, OInv, BrowserType, ServerType, AnswersType
<1>2. ASSUME NEW e \in Edits, NEW n \in Nat, Marked(e, n)' PROVE Marked(e, n)
  <2>1. CASE \E d \in Syncs : \E f \in sync'[d].read \cup serve'[d].batch : f.edit = e /\ f.seq = n
    <3>1. PICK d \in Syncs : \E f \in sync'[d].read \cup serve'[d].batch : f.edit = e /\ f.seq = n
      BY <2>1
    <3>2. PICK f \in sync'[d].read \cup serve'[d].batch : f.edit = e /\ f.seq = n
      BY <3>1
    <3>3. f \in sync[d].read \cup serve[d].batch
      BY <1>1, <3>2
    <3> QED
      BY <3>2, <3>3 DEF Marked
  <2> QED
    BY <1>2, <2>1 DEF Marked
<1>3. Onward
  BY <1>2 DEF Onward, Placed, OrderType
<1>4. MarksRise'
  BY <1>2, MarksRiseStay DEF Placed, Ordered
<1>5. ServeInOrder(new)' /\ SaveInOrder(it)' /\ SyncInOrder(from)'
  BY <1>2, <1>3
<1>6. BrowserOrder'
  <2>1. ASSUME NEW d \in Syncs PROVE SyncInOrder(sync[d])'
    <3>1. CASE d = m
      BY <1>1, <1>5, <3>1
    <3>2. CASE d # m
      <4>1. PICK me : me = sync[d] /\ me = sync'[d]
        BY <1>1, <3>2
      <4> QED
        BY <1>3, <4>1, SyncInOrderStays DEF Placed, Ordered, BrowserOrder
    <3> QED
      BY <3>1, <3>2
  <2>2. SettledTo(ackedSeq)'
    BY <1>3, SettledToStays DEF Placed, OInv, BrowserType, Ordered, BrowserOrder
  <2>3. \A e \in Edits, n \in Nat : Marked(e, n)' =>
            Settled(e, n)' \/ \E g \in journal' : g.edit = e /\ g.seq = n
    BY <1>2, <1>3, SettledStays DEF Placed, Ordered, BrowserOrder
  <2> QED
    BY <2>1, <2>2, <2>3 DEF BrowserOrder
<1>7. ServerOrder'
  <2> SUFFICES ASSUME NEW d \in Syncs PROVE ServeInOrder(serve[d])'
    BY DEF ServerOrder
  <2>1. CASE d = m
    BY <1>1, <1>5, <2>1
  <2>2. CASE d # m
    <3>1. PICK me : me = serve[d] /\ me = serve'[d]
      BY <1>1, <2>2
    <3> QED
      BY <1>3, <3>1, ServeInOrderStays
  <2> QED
    BY <2>1, <2>2
<1>8. AnswersOrder'
  <2>1. ASSUME NEW row \in rows PROVE OlderStored(row.item, row.key)'
    <3>1. row.key \in Nat /\ row.key <= order.seq
      BY NumbersKnown DEF Placed, OInv, AnswersType
    <3> QED
      BY <1>3, <3>1, OlderStoredStays DEF Placed, Ordered, AnswersOrder
  <2>2. ASSUME NEW d \in Syncs PROVE SaveInOrder(save[d])'
    <3>1. CASE d = m
      BY <1>1, <1>5, <3>1
    <3>2. CASE d # m
      <4>1. PICK me : me = save[d] /\ me = save'[d]
        BY <1>1, <3>2
      <4> QED
        BY <1>3, <4>1, SaveInOrderStays
    <3> QED
      BY <3>1, <3>2
  <2> QED
    BY <2>1, <2>2 DEF Placed, Ordered, AnswersOrder
<1> QED
  BY <1>4, <1>6, <1>7, <1>8 DEF Ordered

\* The request and the replay of a sync as it was.
LEMMA SaveAsItWas ==
    ASSUME Placed, OrderType', NEW m \in Syncs, rows' = rows
    PROVE  \E it : it = save[m] /\ save \in [Saves -> ReplayRecords] /\ m \in Saves
                   /\ (Onward => SaveInOrder(it)')
<1>1. PICK it : it = save[m]
  OBVIOUS
<1>2. Onward => SaveInOrder(it)'
  BY <1>1, SaveInOrderStays
<1> QED
  BY <1>1, <1>2, OfflineAssumption DEF Placed, OInv, AnswersType

LEMMA SyncAsItWas ==
    ASSUME Placed, OrderType', NEW m \in Syncs
    PROVE  \E from : from = sync[m] /\ sync \in [Syncs -> SyncRecords]
                     /\ (Onward => SyncInOrder(from)')
<1>1. PICK from : from = sync[m]
  OBVIOUS
<1>2. Onward => SyncInOrder(from)'
  BY <1>1, SyncInOrderStays DEF Placed, Ordered, BrowserOrder
<1> QED
  BY <1>1, <1>2 DEF Placed, OInv, BrowserType

LEMMA ServeOverInOrder ==
    ASSUME Placed, OrderType', \A e \in Edits, n \in Nat : Marked(e, n)' => Marked(e, n)
    PROVE  ServeInOrder(ServeOver)'
<1>1. \A e \in Edits, n \in Nat : Marked(e, n)' => n # 0
  BY NumbersKnown
<1>2. SettledTo(0)'
  BY <1>1 DEF SettledTo, OrderType
<1>3. FromOldest({})'
  BY DEF FromOldest
<1> QED
  BY <1>2, <1>3, ServeOverSound DEF ServeInOrder, ServeOver, IdleServe

\* A batch is the oldest of what is sent, and what is not sent is settled.
LEMMA BatchFromOldest ==
    ASSUME Placed, NEW S, FromOldest(S), IsFiniteSet(S), S \subseteq Entries
    PROVE  FromOldest(FirstOf({e \in S : e.seq > ackedSeq}, MaxBatch))
<1> DEFINE P == {e \in S : e.seq > ackedSeq}
           lower(f) == {x \in P : x.seq < f.seq}
<1> SUFFICES ASSUME NEW f \in FirstOf(P, MaxBatch), NEW e \in Edits, NEW n \in Nat,
                    Marked(e, n), n < f.seq, ~Settled(e, n)
             PROVE  \E g \in FirstOf(P, MaxBatch) : g.edit = e /\ g.seq = n
  BY DEF FromOldest
<1>1. f \in P /\ f \in S /\ Cardinality(lower(f)) < MaxBatch
  BY DEF FirstOf
<1>2. PICK g \in S : g.edit = e /\ g.seq = n
  BY <1>1 DEF FromOldest
<1>3. ackedSeq \in Nat /\ ~(n <= ackedSeq)
  BY DEF Placed, OInv, BrowserType, Ordered, BrowserOrder, SettledTo
<1>4. g \in P
  BY <1>2, <1>3
<1>5. \A x \in P : x.seq \in Nat
  BY DEF Entries
<1>6. lower(g) \subseteq lower(f)
  BY <1>1, <1>2, <1>4, <1>5
<1>7. IsFiniteSet(lower(f))
  BY FS_Subset
<1>8. Cardinality(lower(g)) <= Cardinality(lower(f)) /\ Cardinality(lower(g)) \in Nat /\ Cardinality(lower(f)) \in Nat
  BY <1>6, <1>7, FS_Subset, FS_CardinalityType
<1>9. Cardinality(lower(g)) < MaxBatch
  BY <1>1, <1>8, OfflineAssumption
<1> QED
  BY <1>2, <1>4, <1>9 DEF FirstOf

LEMMA SendKeepsOrder ==
    ASSUME Placed, OrderType', order' = order, NEW m \in Syncs, SyncSend(m) \/ SyncLost(m)
    PROVE  Ordered'
<1>1. UNCHANGED <<rows, open, save, journal, ackedSeq>>
  BY DEF SyncSend, SyncLost, responseVars
<1>2. PICK it : it = save[m] /\ save \in [Saves -> ReplayRecords] /\ m \in Saves /\ (Onward => SaveInOrder(it)')
  BY <1>1, SaveAsItWas
<1>3. save' = [save EXCEPT ![m] = it]
  BY <1>1, <1>2
<1>4. PICK old \in SyncRecords : old = sync[m] /\ (Onward => SyncInOrder(old)') /\ SyncInOrder(old)
  BY SyncAsItWas DEF Placed, OInv, BrowserType, Ordered, BrowserOrder
<1>5. PICK me \in ServeRecords : me = serve[m] /\ (Onward => ServeInOrder(me)')
                                 /\ (Onward => \A d \in me.durable :
                 d.seq <= order'.seq /\ \A e \in Edits : Marked(e, d.seq)' => Settled(e, d.seq)')
  BY ServeInOrderStays DEF Placed, OInv, ServerType
<1>6. sync \in [Syncs -> SyncRecords] /\ serve \in [Syncs -> ServeRecords]
  BY DEF Placed, OInv, BrowserType, ServerType
<1>7. PICK over : over = SyncOver /\ over.read = {}
  BY SyncOverTyped
<1>8. ASSUME sync' = [sync EXCEPT ![m] = SyncOver], NEW new,
             new = me \/ new = ServeOver, serve' = [serve EXCEPT ![m] = new]
      PROVE  Ordered'
  <2>1. sync' = [sync EXCEPT ![m] = over] /\ over.read \subseteq sync[m].read
    BY <1>7, <1>8
  <2>2. new.batch \subseteq serve[m].batch \cup sync[m].read
    BY <1>5, <1>8, ServeOverSound
  <2>3. ASSUME Onward, \A e \in Edits, n \in Nat : Marked(e, n)' => Marked(e, n)
        PROVE  ServeInOrder(new)' /\ SaveInOrder(it)' /\ SyncInOrder(over)'
    <3>1. SyncInOrder(over)'
      BY <1>7, <2>3, SyncOverInOrder
    <3>2. ServeInOrder(new)'
      BY <1>5, <1>8, <2>3, ServeOverInOrder
    <3> QED
      BY <1>2, <2>3, <3>1, <3>2
  <2> QED
    BY <1>1, <1>3, <1>8, <2>1, <2>2, <2>3, ServeMovesInOrder
<1>9. CASE SyncSend(m) /\ sync' = [sync EXCEPT ![m].pc = "waiting"]
           /\ serve' = [serve EXCEPT ![m].pc = "read",
                    ![m].batch = FirstOf({e \in sync[m].read : e.seq > ackedSeq}, MaxBatch)]
  <2>1. PICK batch \in SUBSET old.read : batch = FirstOf({e \in old.read : e.seq > ackedSeq}, MaxBatch)
    BY DEF FirstOf
  <2>2. PICK new \in ServeRecords : new = [me EXCEPT !.pc = "read", !.batch = batch]
    BY <2>1 DEF ServeRecords, SyncRecords
  <2>3. new.batch = batch /\ new.durable = me.durable /\ new.answer = me.answer
    BY <2>2 DEF ServeRecords
  <2>4. serve' = [serve EXCEPT ![m] = new]
    BY <1>4, <1>5, <1>6, <1>9, <2>1, <2>2
  <2>5. PICK from \in SyncRecords : from = [old EXCEPT !.pc = "waiting"]
    BY DEF SyncRecords
  <2>6. from.read = old.read /\ from.answer = old.answer
    BY <2>5 DEF SyncRecords
  <2>7. sync' = [sync EXCEPT ![m] = from]
    BY <1>4, <1>6, <1>9, <2>5
  <2>8. old.read \subseteq Entries
    BY DEF SyncRecords
  <2>9. FromOldest(batch)
    BY <1>4, <2>1, <2>8, BatchFromOldest DEF SyncInOrder
  <2>10. \A f \in batch : f.seq \in Nat /\ f.seq <= order.seq
    BY <1>4, <2>1, NumbersKnown DEF Entries
  <2>11. ASSUME Onward, \A e \in Edits, n \in Nat : Marked(e, n)' => Marked(e, n)
         PROVE  ServeInOrder(new)' /\ SaveInOrder(it)' /\ SyncInOrder(from)'
    <3>1. FromOldest(batch)'
      BY <2>9, <2>10, <2>11, FromOldestStays DEF Placed
    <3>2. ServeInOrder(new)'
      BY <1>5, <2>3, <2>11, <3>1 DEF ServeInOrder
    <3>3. SyncInOrder(from)'
      BY <1>4, <2>6, <2>11 DEF SyncInOrder
    <3> QED
      BY <1>2, <2>11, <3>2, <3>3
  <2>12. new.batch \subseteq serve[m].batch \cup sync[m].read /\ from.read \subseteq sync[m].read
    BY <1>4, <2>1, <2>3, <2>6
  <2> QED
    BY <1>1, <1>3, <2>4, <2>7, <2>11, <2>12, ServeMovesInOrder
<1>10. serve' = serve => serve' = [serve EXCEPT ![m] = me]
  BY <1>5, <1>6
<1> QED
  BY <1>8, <1>9, <1>10 DEF SyncSend, SyncLost

\* A step of reconnectSync, its save and its request being as they were.
LEMMA ServeGoesInOrder ==
    ASSUME Placed, OrderType', order' = order, UNCHANGED <<rows, open, save, clientVars>>,
           NEW m \in Syncs, NEW new, serve' = [serve EXCEPT ![m] = new],
           new.batch \subseteq serve[m].batch,
           Onward /\ (\A e \in Edits, n \in Nat : Marked(e, n)' => Marked(e, n)) => ServeInOrder(new)'
    PROVE  Ordered'
<1>1. PICK it : it = save[m] /\ save \in [Saves -> ReplayRecords] /\ m \in Saves /\ (Onward => SaveInOrder(it)')
  BY SaveAsItWas
<1>2. PICK from : from = sync[m] /\ sync \in [Syncs -> SyncRecords] /\ (Onward => SyncInOrder(from)')
  BY SyncAsItWas
<1>3. UNCHANGED <<journal, ackedSeq>> /\ save' = [save EXCEPT ![m] = it] /\ sync' = [sync EXCEPT ![m] = from]
  BY <1>1, <1>2 DEF clientVars
<1>4. new.batch \subseteq serve[m].batch \cup sync[m].read /\ from.read \subseteq sync[m].read
  BY <1>2
<1> QED
  BY <1>1, <1>2, <1>3, <1>4, ServeMovesInOrder

LEMMA ReadsKeepOrder ==
    ASSUME Placed, OrderType', order' = order, NEW m \in Syncs, ServeRead(m) \/ ServeMap(m),
           UNCHANGED clientVars
    PROVE  Ordered'
<1>1. UNCHANGED <<rows, open, save>>
  BY DEF ServeRead, ServeMap, responseVars
<1>2. PICK me \in ServeRecords : me = serve[m] /\ (Onward => ServeInOrder(me)')
  BY ServeInOrderStays DEF Placed, OInv, ServerType
<1>3. serve \in [Syncs -> ServeRecords]
  BY DEF Placed, OInv, ServerType
<1>4. PICK new : /\ serve' = [serve EXCEPT ![m] = new]
                 /\ \/ new.batch = me.batch /\ new.durable = me.durable /\ new.answer = me.answer
                    \/ new = ServeOver
  <2>1. CASE serve' = [serve EXCEPT ![m] = ServeOver]
    BY <2>1
  <2>2. CASE serve' = [serve EXCEPT ![m].pc = "map", ![m].epoch = epoch]
    <3>1. PICK n : n = epoch
      OBVIOUS
    <3>2. PICK new : new = [me EXCEPT !.pc = "map", !.epoch = n]
      OBVIOUS
    <3>3. new.batch = me.batch /\ new.durable = me.durable /\ new.answer = me.answer
      BY <3>2 DEF ServeRecords
    <3>4. serve' = [serve EXCEPT ![m] = new]
      BY <1>2, <1>3, <2>2, <3>1, <3>2
    <3> QED
      BY <3>3, <3>4
  <2>3. CASE serve' = [serve EXCEPT ![m].pc = "entries"]
    <3>1. PICK new : new = [me EXCEPT !.pc = "entries"]
      OBVIOUS
    <3>2. new.batch = me.batch /\ new.durable = me.durable /\ new.answer = me.answer
      BY <3>1 DEF ServeRecords
    <3>3. serve' = [serve EXCEPT ![m] = new]
      BY <1>2, <1>3, <2>3, <3>1
    <3> QED
      BY <3>2, <3>3
  <2>4. CASE \E last : serve' = [serve EXCEPT ![m].pc = "entries", ![m].last = last]
    <3>1. PICK last : serve' = [serve EXCEPT ![m].pc = "entries", ![m].last = last]
      BY <2>4
    <3>2. PICK new : new = [me EXCEPT !.pc = "entries", !.last = last]
      OBVIOUS
    <3>3. new.batch = me.batch /\ new.durable = me.durable /\ new.answer = me.answer
      BY <3>2 DEF ServeRecords
    <3>4. serve' = [serve EXCEPT ![m] = new]
      BY <1>2, <1>3, <3>1, <3>2
    <3> QED
      BY <3>3, <3>4
  <2> QED
    BY <2>1, <2>2, <2>3, <2>4 DEF ServeRead, ServeMap
<1>5. ASSUME Onward, \A e \in Edits, n \in Nat : Marked(e, n)' => Marked(e, n)
      PROVE  ServeInOrder(new)'
  BY <1>2, <1>4, <1>5, ServeOverInOrder DEF ServeInOrder
<1>6. new.batch \subseteq serve[m].batch
  BY <1>2, <1>4, ServeOverSound
<1> QED
  BY <1>1, <1>4, <1>5, <1>6, ServeGoesInOrder

\* An entry that is done with, and not passed over, is settled.
LEMMA NextInOrder ==
    ASSUME Placed, OrderType', NEW m \in Syncs, NEW me \in ServeRecords, me = serve[m],
           serve[m].pc \in {"entries", "saving"}, ~PassedOver,
           NEW e \in NextIn(me.batch), NEW durable \in BOOLEAN, NextEntry(m, e, durable)
    PROVE  \E new : /\ serve' = [serve EXCEPT ![m] = new]
                    /\ new.batch \subseteq me.batch
                    /\ Onward => ServeInOrder(new)'
<1>1. PICK r : r = Asked(me.last, e) /\ r = Numbered(m, e)
  BY DEF Asked, Numbered
<1>2. PICK d : d = [seq |-> e.seq, item |-> r.item, num |-> r.seq]
  OBVIOUS
<1> DEFINE ends == [me EXCEPT !.pc = "entries", !.batch = me.batch \ {e},
                              !.last = [me.last EXCEPT ![r.item] = r.seq],
                              !.durable = IF durable THEN me.durable \cup {d} ELSE me.durable]
<1>3. serve' = [serve EXCEPT ![m] = ends]
  BY <1>1, <1>2 DEF NextEntry
<1>4. PICK kept : kept = IF durable THEN me.durable \cup {d} ELSE me.durable
  OBVIOUS
<1>5. ends.batch = me.batch \ {e} /\ ends.durable = kept /\ ends.answer = me.answer
  BY <1>4 DEF ServeRecords
<1> HIDE DEF ends
<1>6. PICK new : new = ends /\ serve' = [serve EXCEPT ![m] = new]
  BY <1>3
<1>7. new.batch = me.batch \ {e} /\ new.durable = kept /\ new.answer = me.answer
  BY <1>5, <1>6
<1>8. e \in me.batch /\ e.seq \in Nat /\ e.edit \in Edits /\ Marked(e.edit, e.seq) /\ e.seq <= order.seq
  BY NumbersKnown DEF NextIn, Entries
<1>9. Settled(e.edit, e.seq)
  <2>1. e \in serve[m].batch \ serve'[m].batch
    BY <1>6, <1>7, <1>8 DEF Placed, OInv, ServerType
  <2>2. Stored(e) \/ Hopeless(e)
    BY <2>1 DEF PassedOver
  <2> QED
    BY <2>2 DEF Stored, Hopeless, Settled, StoredAs
<1>10. ASSUME Onward PROVE ServeInOrder(new)'
  <2>1. ServeInOrder(me) /\ ServeInOrder(me)' /\ \A x \in me.durable :
           x.seq <= order'.seq /\ \A f \in Edits : Marked(f, x.seq)' => Settled(f, x.seq)'
    BY <1>10, ServeInOrderStays DEF Placed, Ordered, ServerOrder
  <2>2. PICK rest : rest = me.batch \ {e}
    OBVIOUS
  <2>3. FromOldest(rest)'
    <3>1. FromOldest(rest)
      BY <1>9, <2>1, <2>2 DEF FromOldest, ServeInOrder
    <3>2. \A f \in rest : f.seq \in Nat /\ f.seq <= order.seq
      BY <2>2, NumbersKnown DEF Entries
    <3> QED
      BY <1>10, <3>1, <3>2, FromOldestStays DEF Placed
  <2>4. d.seq <= order'.seq /\ \A f \in Edits : Marked(f, d.seq)' => Settled(f, d.seq)'
    <3>1. d.seq = e.seq
      BY <1>2
    <3>2. \A f \in Edits : Marked(f, e.seq) => f = e.edit
      <4>1. \A f \in Edits : f \in Nat
        BY OfflineAssumption DEF Edits
      <4> QED
        BY <1>8, <4>1 DEF Placed, Ordered, MarksRise
    <3>3. \A f \in Edits : Marked(f, d.seq) => Settled(f, d.seq)
      BY <1>9, <3>1, <3>2
    <3> QED
      BY <1>8, <1>10, <3>1, <3>3, DurableStays
  <2> QED
    BY <1>4, <1>7, <2>1, <2>2, <2>3, <2>4 DEF ServeInOrder
<1> QED
  BY <1>6, <1>7, <1>10

\* A save begins in the window, for the oldest entry of a batch.
LEMMA EntryKeepsOrder ==
    ASSUME Placed, OrderType', order' = order, NEW m \in Syncs, ServeEntry(m), ~PassedOver,
           UNCHANGED clientVars
    PROVE  Ordered'
<1>1. PICK me \in ServeRecords : me = serve[m] /\ me.pc = "entries"
  BY DEF Placed, OInv, ServerType, ServeEntry
<1>2. PICK e \in NextIn(me.batch) :
        \/ NextEntry(m, e, TRUE) /\ UNCHANGED responseVars
        \/ /\ SaveBegin(m, Numbered(m, e))
           /\ serve' = [serve EXCEPT ![m].pc = "saving"]
  BY <1>1 DEF ServeEntry
<1>3. CASE NextEntry(m, e, TRUE) /\ UNCHANGED responseVars
  <2>1. PICK durable \in BOOLEAN : durable = TRUE
    OBVIOUS
  <2>2. PICK new : /\ serve' = [serve EXCEPT ![m] = new] /\ new.batch \subseteq me.batch
                   /\ Onward => ServeInOrder(new)'
    BY <1>1, <1>3, <2>1, NextInOrder
  <2> QED
    BY <1>1, <1>3, <2>2, ServeGoesInOrder DEF responseVars
<1>4. CASE SaveBegin(m, Numbered(m, e)) /\ serve' = [serve EXCEPT ![m].pc = "saving"]
  <2>1. PICK r : r = Numbered(m, e) /\ r.key = e.seq /\ r.val = e.edit /\ r.item = ItemOf[e.edit]
    <3>1. PICK r : r = Numbered(m, e)
      OBVIOUS
    <3>2. r.key = e.seq /\ r.val = e.edit /\ r.item = ItemOf[e.edit]
      BY <3>1 DEF Numbered
    <3> QED
      BY <3>1, <3>2
  <2>2. e \in me.batch /\ e.seq \in Nat /\ e.edit \in Edits /\ e.seq <= order.seq
    BY <1>1, NumbersKnown DEF NextIn, Entries
  <2>3. save \in [Saves -> ReplayRecords] /\ m \in Saves
    BY OfflineAssumption DEF Placed, OInv, AnswersType
  <2>4. PICK it : /\ save' = [save EXCEPT ![m] = it] /\ it.req = r /\ it.pc \in {"key", "done"}
                  /\ it.pc = "key" => open /\ Mode[r.item] # "none"
    <3>1. PICK pc \in {"key", "done"}, res \in {"none", "late", "invalid_item", "not_found"} :
            /\ save' = [save EXCEPT ![m] = [[IdleSave EXCEPT !.req = r] EXCEPT !.pc = pc, !.res = res]]
            /\ pc = "key" => open /\ Mode[r.item] # "none"
      BY <1>4, <2>1 DEF SaveBegin
    <3>2. PICK it : it = [[IdleSave EXCEPT !.req = r] EXCEPT !.pc = pc, !.res = res]
      OBVIOUS
    <3>3. it.req = r /\ it.pc = pc
      BY <3>2 DEF IdleSave
    <3>4. save' = [save EXCEPT ![m] = it]
      BY <3>1, <3>2
    <3> QED
      BY <3>1, <3>3, <3>4
  <2>5. PICK new : new = [me EXCEPT !.pc = "saving"]
    OBVIOUS
  <2>6. new.batch = me.batch /\ new.durable = me.durable /\ new.answer = me.answer
    BY <2>5 DEF ServeRecords
  <2>7. serve' = [serve EXCEPT ![m] = new]
    BY <1>1, <1>4, <2>5 DEF Placed, OInv, ServerType
  <2>8. ASSUME it.pc = "key" PROVE OlderStored(r.item, r.key)
    <3> SUFFICES ASSUME Mode[r.item] = "editable", NEW f \in Edits, NEW n \in Nat, Marked(f, n),
                        ItemOf[f] = r.item, n < r.key
                 PROVE  StoredAs(f, n)
      BY DEF OlderStored
    <3>1. Settled(f, n) \/ \E g \in me.batch : g.edit = f /\ g.seq = n
      BY <1>1, <2>1, <2>2 DEF Placed, Ordered, ServerOrder, ServeInOrder, FromOldest
    <3>2. ~\E g \in me.batch : g.seq = n
      BY <2>1, <2>2 DEF NextIn
    <3> QED
      BY <2>4, <2>8, <3>1, <3>2 DEF Settled
  <2>9. PICK from : from = sync[m] /\ sync \in [Syncs -> SyncRecords] /\ (Onward => SyncInOrder(from)')
    BY SyncAsItWas
  <2>10. ASSUME Onward PROVE ServeInOrder(new)' /\ SaveInOrder(it)' /\ SyncInOrder(from)'
    <3>1. ServeInOrder(new)'
      BY <1>1, <2>6, <2>10, ServeInOrderStays DEF ServeInOrder
    <3>2. it.pc = "key" => OlderStored(r.item, r.key)'
      BY <2>1, <2>2, <2>8, <2>10, OlderStoredStays DEF Placed
    <3>3. SaveInOrder(it)'
      BY <2>4, <3>2 DEF SaveInOrder, UnderWay
    <3> QED
      BY <2>9, <2>10, <3>1, <3>3
  <2>11. UNCHANGED <<rows, open, journal, ackedSeq>> /\ sync' = [sync EXCEPT ![m] = from]
    BY <1>4, <2>9 DEF SaveBegin, clientVars
  <2>12. new.batch \subseteq serve[m].batch \cup sync[m].read /\ from.read \subseteq sync[m].read
    BY <1>1, <2>6, <2>9
  <2> QED
    BY <2>4, <2>7, <2>10, <2>11, <2>12, ServeMovesInOrder
<1> QED
  BY <1>2, <1>3, <1>4

LEMMA SavedKeepsOrder ==
    ASSUME Placed, OrderType', order' = order, NEW m \in Syncs, ServeSaved(m), ~PassedOver,
           UNCHANGED clientVars
    PROVE  Ordered'
<1>1. PICK me \in ServeRecords : me = serve[m] /\ me.pc = "saving"
  BY DEF Placed, OInv, ServerType, ServeSaved
<1>2. PICK e \in NextIn(me.batch) : NextEntry(m, e, save[m].res \notin Transient)
  BY <1>1 DEF ServeSaved
<1>3. PICK durable \in BOOLEAN : durable <=> save[m].res \notin Transient
  BY Zenon
<1>4. NextEntry(m, e, durable)
  BY <1>2, <1>3 DEF NextEntry
<1>5. PICK new : /\ serve' = [serve EXCEPT ![m] = new] /\ new.batch \subseteq me.batch
                 /\ Onward => ServeInOrder(new)'
  BY <1>1, <1>4, NextInOrder
<1>6. PICK it : it = IdleSave /\ it.pc = "idle"
  BY IdleSaveTyped
<1>7. PICK from : from = sync[m] /\ sync \in [Syncs -> SyncRecords] /\ (Onward => SyncInOrder(from)')
  BY SyncAsItWas
<1>8. SaveInOrder(it)'
  BY <1>6 DEF SaveInOrder, UnderWay
<1>9. /\ UNCHANGED <<rows, open, journal, ackedSeq>>
      /\ save' = [save EXCEPT ![m] = it] /\ sync' = [sync EXCEPT ![m] = from]
  BY <1>6, <1>7 DEF ServeSaved, clientVars
<1>10. new.batch \subseteq serve[m].batch \cup sync[m].read /\ from.read \subseteq sync[m].read
  BY <1>1, <1>5, <1>7
<1> QED
  BY <1>5, <1>7, <1>8, <1>9, <1>10, ServeMovesInOrder

\* What is acknowledged was decided, and what was decided is settled.
LEMMA AnswerKeepsOrder ==
    ASSUME Placed, OrderType', order' = order, NEW m \in Syncs, ServeAnswer(m), UNCHANGED clientVars
    PROVE  Ordered'
<1>1. PICK me \in ServeRecords : me = serve[m] /\ me.pc = "entries"
  BY DEF Placed, OInv, ServerType, ServeAnswer
<1> DEFINE seqs == {d.seq : d \in me.durable}
<1>2. PICK mark \in {ServerAcked} \cup seqs :
        /\ Watermark(mark, seqs)
        /\ serve' = [serve EXCEPT ![m] = [IdleServe EXCEPT
                !.pc = "answered", !.durable = me.durable, !.answer = mark]]
  BY <1>1 DEF ServeAnswer
<1>3. mark \in Nat
  BY DEF ServeRecords, Durable, ServerAcked
<1>4. \A n \in 1..mark : \E d \in me.durable : d.seq = n
  BY <1>2, <1>3 DEF Watermark, ServerAcked
<1>5. PICK new : new = [IdleServe EXCEPT !.pc = "answered", !.durable = me.durable, !.answer = mark]
  OBVIOUS
<1>6. new.batch = {} /\ new.durable = me.durable /\ new.answer = mark
  BY <1>5 DEF IdleServe
<1>7. serve' = [serve EXCEPT ![m] = new] /\ UNCHANGED <<rows, open, save>>
  BY <1>2, <1>5 DEF ServeAnswer, responseVars
<1>8. SettledTo(mark)
  <2>1. ServeInOrder(me)
    BY <1>1 DEF Placed, Ordered, ServerOrder
  <2>2. mark <= order.seq
    BY <1>2, <2>1, NumbersKnown DEF ServeInOrder, ServerAcked
  <2>3. ASSUME NEW e \in Edits, NEW n \in Nat, Marked(e, n), n <= mark PROVE Settled(e, n)
    <3>1. n \in 1..mark
      BY <1>3, <2>3, NumbersKnown
    <3>2. PICK d \in me.durable : d.seq = n
      BY <1>4, <3>1
    <3> QED
      BY <2>1, <2>3, <3>2 DEF ServeInOrder
  <2> QED
    BY <2>2, <2>3 DEF SettledTo
<1>9. ASSUME Onward PROVE ServeInOrder(new)'
  <2>1. SettledTo(mark)'
    BY <1>3, <1>8, <1>9, SettledToStays DEF Placed
  <2>2. \A d \in me.durable :
           d.seq <= order'.seq /\ \A e \in Edits : Marked(e, d.seq)' => Settled(e, d.seq)'
    BY <1>1, <1>9, ServeInOrderStays
  <2> QED
    BY <1>6, <2>1, <2>2 DEF ServeInOrder, FromOldest
<1>10. new.batch \subseteq serve[m].batch
  BY <1>6
<1> QED
  BY <1>7, <1>9, <1>10, ServeGoesInOrder

\* What leaves the entries, the answers and the saves alone.
LEMMA AsideKeepsOrder ==
    ASSUME Placed, OrderType', order' = order, UNCHANGED <<rows, save, serve, clientVars>>, open' => open
    PROVE  Ordered'
<1>1. UNCHANGED <<journal, ackedSeq, sync>>
  BY DEF clientVars
<1>2. \A e \in Edits, n \in Nat : Marked(e, n)' => Marked(e, n)
  BY <1>1 DEF Marked
<1>3. Onward
  BY <1>2 DEF Onward, Placed, OrderType
<1>4. ASSUME NEW m \in Syncs PROVE ServeInOrder(serve[m])'
  <2>1. PICK me : me = serve[m] /\ me = serve'[m]
    OBVIOUS
  <2> QED
    BY <1>3, <2>1, ServeInOrderStays
<1> QED
  BY <1>1, <1>2, <1>3, <1>4, AnswersOrderStays, BrowserOrderStays, MarksRiseStay
     DEF Placed, Ordered, ServerOrder
-----------------------------------------------------------------------------
(* The saves and the order.                                                *)

LEMMA SaveGoesInOrder ==
    ASSUME Placed, OrderType', order' = order, NEW m \in Syncs, UNCHANGED <<rows, open, serve, clientVars>>,
           NEW it, save' = [save EXCEPT ![m] = it], Onward => SaveInOrder(it)'
    PROVE  Ordered'
<1>1. PICK new : new = serve[m] /\ serve' = [serve EXCEPT ![m] = new]
  BY DEF Placed, OInv, ServerType
<1>2. PICK from : from = sync[m] /\ sync \in [Syncs -> SyncRecords] /\ (Onward => SyncInOrder(from)')
  BY SyncAsItWas
<1>3. Onward => ServeInOrder(new)'
  BY <1>1, ServeInOrderStays
<1>4. UNCHANGED <<journal, ackedSeq>> /\ sync' = [sync EXCEPT ![m] = from]
  BY <1>2 DEF clientVars
<1>5. new.batch \subseteq serve[m].batch \cup sync[m].read /\ from.read \subseteq sync[m].read
  BY <1>1, <1>2
<1> QED
  BY <1>1, <1>2, <1>3, <1>4, <1>5, ServeMovesInOrder

\* The save returns, or goes on to its next call.
LEMMA ReturnsInOrder ==
    ASSUME Placed, OrderType', order' = order, NEW m \in Syncs, UNCHANGED <<rows, open, serve, clientVars>>,
           \/ \E n : Acknowledge(m, n)
           \/ \E res : FinishSave(m, res)
           \/ \E pc \in {"latest", "conflict"} :
                 save' = [save EXCEPT ![m].pc = pc] /\ save[m].pc \in UnderWay
           \/ \E rev :
                 /\ save' = [save EXCEPT ![m].pc = "insert", ![m].rev = rev]
                 /\ save[m].pc \in UnderWay
                 /\ \A row \in RowsOf(save[m].req.item) : row.seq < save[m].req.seq
    PROVE  Ordered'
<1>1. PICK old \in ReplayRecords : old = save[m] /\ SaveInOrder(old)
  BY OfflineAssumption DEF Placed, OInv, AnswersType, Ordered, AnswersOrder
<1>2. save \in [Saves -> ReplayRecords] /\ m \in Saves
  BY OfflineAssumption DEF Placed, OInv, AnswersType
<1>3. ASSUME NEW it, save' = [save EXCEPT ![m] = it], it.pc = "done" PROVE Ordered'
  <2>1. SaveInOrder(it)'
    BY <1>3 DEF SaveInOrder, UnderWay
  <2> QED
    BY <1>3, <2>1, SaveGoesInOrder
<1>4. ASSUME NEW n, Acknowledge(m, n) PROVE Ordered'
  <2>1. PICK it : it = [old EXCEPT !.pc = "done", !.res = "accepted", !.highest = n]
    OBVIOUS
  <2>2. it.pc = "done"
    BY <2>1 DEF ReplayRecords
  <2>3. save' = [save EXCEPT ![m] = it]
    BY <1>1, <1>2, <1>4, <2>1 DEF Acknowledge
  <2> QED
    BY <1>3, <2>2, <2>3
<1>5. ASSUME NEW res, FinishSave(m, res) PROVE Ordered'
  <2>1. PICK it : it = [old EXCEPT !.pc = "done", !.res = res]
    OBVIOUS
  <2>2. it.pc = "done"
    BY <2>1 DEF ReplayRecords
  <2>3. save' = [save EXCEPT ![m] = it]
    BY <1>1, <1>2, <1>5, <2>1 DEF FinishSave
  <2> QED
    BY <1>3, <2>2, <2>3
<1>6. ASSUME NEW pc \in {"latest", "conflict"}, save' = [save EXCEPT ![m].pc = pc], old.pc \in UnderWay
      PROVE  Ordered'
  <2>1. PICK it : it = [old EXCEPT !.pc = pc]
    OBVIOUS
  <2>2. it.pc = pc /\ it.req = old.req
    BY <2>1 DEF ReplayRecords
  <2>3. save' = [save EXCEPT ![m] = it]
    BY <1>1, <1>2, <1>6, <2>1
  <2>4. Onward => SaveInOrder(it)'
    BY <1>1, <1>6, <2>2, SaveInOrderStays
  <2> QED
    BY <2>3, <2>4, SaveGoesInOrder
<1>7. ASSUME NEW rev, save' = [save EXCEPT ![m].pc = "insert", ![m].rev = rev], old.pc \in UnderWay,
             \A row \in RowsOf(old.req.item) : row.seq < old.req.seq
      PROVE  Ordered'
  <2>1. PICK it : it = [old EXCEPT !.pc = "insert", !.rev = rev]
    OBVIOUS
  <2>2. it.pc = "insert" /\ it.req = old.req
    BY <2>1 DEF ReplayRecords
  <2>3. save' = [save EXCEPT ![m] = it]
    BY <1>1, <1>2, <1>7, <2>1
  <2>4. ASSUME Onward PROVE SaveInOrder(it)'
    <3>1. PICK mid : mid.req = old.req /\ mid.pc = "key"
      <4> DEFINE mid == [req |-> old.req, pc |-> "key"]
      <4>1. mid.req = old.req /\ mid.pc = "key"
        OBVIOUS
      <4> QED
        BY <4>1
    <3>2. SaveInOrder(mid)'
      BY <1>1, <1>7, <2>4, <3>1, SaveInOrderStays DEF UnderWay
    <3> QED
      BY <1>7, <2>2, <3>1, <3>2 DEF SaveInOrder, UnderWay, RowsOf
  <2> QED
    BY <2>3, <2>4, SaveGoesInOrder
<1> QED
  BY <1>1, <1>4, <1>5, <1>6, <1>7

\* A newer answer of the item in the table would have been stored after this one.
LEMMA StoreInOrder ==
    ASSUME Placed, OrderType', order' = order, NEW m \in Syncs, SaveInsert(m), UNCHANGED <<serverVars, clientVars>>
    PROVE  Ordered'
<1>1. PICK old \in ReplayRecords : old = save[m] /\ SaveInOrder(old) /\ old.pc = "insert"
  BY OfflineAssumption DEF Placed, OInv, AnswersType, Ordered, AnswersOrder, SaveInsert
<1>2. PICK r \in Sendable : r = old.req
  BY <1>1, ReplayTyped DEF Placed
<1>3. Marked(r.val, r.key) /\ r.key \in Nat /\ r.key <= order.seq /\ r.item = ItemOf[r.val] /\ r.val \in Edits
  BY <1>1, <1>2, SavesKnown DEF Entries
<1>4. PICK row : row = [item |-> r.item, seq |-> r.seq, key |-> r.key, val |-> r.val, rev |-> old.rev]
  OBVIOUS
<1>5. row.item = r.item /\ row.seq = r.seq /\ row.key = r.key /\ row.val = r.val
  BY <1>4
<1>6. rows' = rows \cup {row} /\ ~Clash(r) /\ open' = open
  BY <1>1, <1>2, <1>4 DEF SaveInsert, NewRow
<1>7. PICK it : save' = [save EXCEPT ![m] = it] /\ it.pc = "done"
  <2>1. CASE Acknowledge(m, save[m].req.seq)
    <3>1. PICK it : it = [old EXCEPT !.pc = "done", !.res = "accepted", !.highest = r.seq]
      OBVIOUS
    <3>2. it.pc = "done"
      BY <3>1 DEF ReplayRecords
    <3>3. save' = [save EXCEPT ![m] = it]
      BY <1>1, <1>2, <2>1, <3>1, OfflineAssumption DEF Acknowledge, Placed, OInv, AnswersType
    <3> QED
      BY <3>2, <3>3
  <2>2. CASE FinishSave(m, "error")
    <3>1. PICK it : it = [old EXCEPT !.pc = "done", !.res = "error"]
      OBVIOUS
    <3>2. it.pc = "done"
      BY <3>1 DEF ReplayRecords
    <3>3. save' = [save EXCEPT ![m] = it]
      BY <1>1, <2>2, <3>1, OfflineAssumption DEF FinishSave, Placed, OInv, AnswersType
    <3> QED
      BY <3>2, <3>3
  <2> QED
    BY <2>1, <2>2 DEF SaveInsert
<1>8. \A d \in Syncs : save'[d] = IF d = m THEN it ELSE save[d]
  BY <1>7, OfflineAssumption DEF Placed, OInv, AnswersType
<1>9. UNCHANGED <<serve, journal, ackedSeq, sync>>
  BY DEF serverVars, clientVars
<1>10. ASSUME NEW e \in Edits, NEW n \in Nat, Marked(e, n)' PROVE Marked(e, n)
  BY <1>3, <1>5, <1>6, <1>9, <1>10 DEF Marked
<1>11. Onward
  BY <1>6, <1>10 DEF Onward, Placed, OrderType
<1>12. MarksRise' /\ BrowserOrder'
  BY <1>9, <1>10, <1>11, MarksRiseStay, BrowserOrderStays DEF Placed, Ordered
<1>13. ServerOrder'
  <2> SUFFICES ASSUME NEW d \in Syncs PROVE ServeInOrder(serve[d])'
    BY DEF ServerOrder
  <2>1. PICK me : me = serve[d] /\ me = serve'[d]
    BY <1>9
  <2> QED
    BY <1>11, <2>1, ServeInOrderStays
<1>14. Mode[r.item] # "none" /\ OlderStored(r.item, r.key)
  BY <1>1, <1>2 DEF SaveInOrder, UnderWay
<1>15. Mode[r.item] \in {"first", "editable"} /\ r.item \in Items
  BY <1>14, ModeAssumption DEF Sendable
\* Where older edits are known to be stored, this is none of them.
<1>16. ASSUME NEW k \in Nat, OlderStored(r.item, k), Mode[r.item] = "editable" PROVE k <= r.key
  <2>1. ~StoredAs(r.val, r.key)
    BY <1>6 DEF StoredAs, Clash
  <2>2. ~(r.key < k)
    BY <1>3, <1>16, <2>1 DEF OlderStored
  <2> QED
    BY <1>3, <2>2
<1>17. \A other \in rows : other.seq \in Nat /\ other.key \in Nat /\ OlderStored(other.item, other.key)
                           /\ Mode[other.item] # "none"
  BY DEF Placed, OInv, AnswersType, Ordered, AnswersOrder
<1>18. ASSUME NEW other \in rows, other.item = r.item PROVE other.key < r.key /\ other.seq < r.seq
  <2>1. Mode[r.item] = "editable" /\ other.key # r.key
    BY <1>6, <1>15, <1>18 DEF Clash
  <2>2. other.key <= r.key
    BY <1>16, <1>17, <1>18, <2>1
  <2>3. other.key < r.key
    BY <1>3, <1>17, <2>1, <2>2
  <2> QED
    BY <1>1, <1>2, <1>18, <2>1, <2>3 DEF SaveInOrder, RowsOf
<1>19. ASSUME NEW one \in rows' PROVE Mode[one.item] # "none" /\ OlderStored(one.item, one.key)'
  <2>1. CASE one \in rows
    <3>1. one.key \in Nat /\ one.key <= order.seq
      BY <2>1, NumbersKnown DEF Placed, OInv, AnswersType
    <3> QED
      BY <1>11, <1>17, <2>1, <3>1, OlderStoredStays DEF Placed
  <2>2. CASE one = row
    <3>1. OlderStored(r.item, r.key)'
      BY <1>3, <1>11, <1>14, OlderStoredStays DEF Placed
    <3> QED
      BY <1>5, <1>14, <2>2, <3>1
  <2> QED
    BY <1>6, <2>1, <2>2
<1>20. ASSUME NEW one \in rows', NEW other \in rows', one.item = other.item, one.seq < other.seq
       PROVE  one.key < other.key
  <2>1. r.seq \in Nat
    BY DEF Sendable
  <2>2. CASE one \in rows /\ other \in rows
    BY <1>20, <2>2 DEF Placed, Ordered, AnswersOrder
  <2>3. CASE one \in rows /\ other = row
    BY <1>5, <1>18, <1>20, <2>3
  <2>4. CASE one = row /\ other \in rows
    <3>1. other.seq < r.seq /\ other.seq \in Nat /\ one.seq = r.seq
      BY <1>5, <1>17, <1>18, <1>20, <2>4
    <3> QED
      BY <1>20, <2>1, <3>1
  <2>5. CASE one = row /\ other = row
    BY <1>5, <1>20, <2>1, <2>5
  <2> QED
    BY <1>6, <2>2, <2>3, <2>4, <2>5
<1>21. ASSUME NEW d \in Syncs PROVE SaveInOrder(save[d])'
  <2>1. CASE d = m
    BY <1>7, <1>8, <2>1 DEF SaveInOrder, UnderWay
  <2>2. CASE d # m
    <3>1. PICK me : me = save[d] /\ me = save'[d] /\ SaveInOrder(me)
      BY <1>8, <2>2 DEF Placed, Ordered, AnswersOrder
    <3>2. ASSUME me.pc \in UnderWay
          PROVE  OlderStored(me.req.item, me.req.key)' /\ me.req.key \in Nat /\ me.req.key <= order.seq
      <4>1. me.req.key \in Nat /\ me.req.key <= order.seq
        BY <3>1, <3>2, SavesKnown DEF UnderWay
      <4> QED
        BY <1>11, <3>1, <3>2, <4>1, OlderStoredStays DEF SaveInOrder, Placed
    <3>3. ASSUME me.pc = "insert", Mode[me.req.item] = "editable", row.item = me.req.item
          PROVE  ~(row.key < me.req.key)
      <4>1. OlderStored(r.item, me.req.key) /\ me.req.key \in Nat
        BY <1>5, <3>1, <3>2, <3>3 DEF SaveInOrder, UnderWay
      <4>2. me.req.key <= r.key
        BY <1>5, <1>16, <3>3, <4>1
      <4> QED
        BY <1>3, <1>5, <4>1, <4>2
    <3> QED
      BY <1>6, <3>1, <3>2, <3>3 DEF SaveInOrder, UnderWay, RowsOf
  <2> QED
    BY <2>1, <2>2
<1> QED
  BY <1>12, <1>13, <1>19, <1>20, <1>21 DEF Ordered, AnswersOrder

LEMMA ReplayKeepsOrdered ==
    ASSUME Placed, OrderType', order' = order, NEW m \in Syncs, SaveStep(m), Healthy,
           faults \in Nat, UNCHANGED <<serverVars, clientVars>>
    PROVE  Ordered'
<1>1. PICK old \in ReplayRecords : old = save[m] /\ old.pc \in UnderWay
  BY OfflineAssumption
     DEF Placed, OInv, AnswersType, SaveStep, SaveByKey, SaveReadLatest, SaveInsert, SaveRefused,
         SaveError, SaveConflict, UnderWay
<1>2. PICK r \in Sendable : r = save[m].req
  BY <1>1, ReplayTyped DEF Placed, UnderWay
<1>3. serve' = serve /\ ~Faulty
  BY DEF serverVars, Healthy, Faulty
<1>4. CASE SaveByKey(m)
  BY <1>1, <1>3, <1>4, ReturnsInOrder DEF SaveByKey
<1>5. CASE SaveReadLatest(m)
  <2>1. ASSUME NEW last \in Nat, NEW rev, SaveGate(m, last, rev),
               \A row \in RowsOf(r.item) : row.seq \in Nat /\ row.seq <= last
        PROVE  Ordered'
    <3>1. CASE \E res : FinishSave(m, res)
      BY <1>3, <1>5, <3>1, ReturnsInOrder DEF SaveReadLatest
    <3>2. CASE /\ save' = [save EXCEPT ![m].pc = "insert", ![m].rev = rev + 1]
               /\ ~SeqRefused(r, last)
      <4>1. r.seq \in Nat /\ ~(r.seq <= last)
        BY <3>2 DEF SeqRefused, Sendable
      <4>2. \A row \in RowsOf(r.item) : row.seq < r.seq
        BY <2>1, <4>1
      <4> QED
        BY <1>1, <1>2, <1>3, <1>5, <3>2, <4>2, ReturnsInOrder DEF SaveReadLatest
    <3> QED
      BY <1>2, <2>1, <3>1, <3>2 DEF SaveGate
  <2>2. \A row \in RowsOf(r.item) : row.seq \in Nat
    BY DEF RowsOf, Placed, OInv, AnswersType
  <2>3. ASSUME NEW row \in LatestOf(r.item), SaveGate(m, row.seq, row.rev) PROVE Ordered'
    <3>1. row.seq \in Nat /\ \A other \in RowsOf(r.item) : other.seq <= row.seq
      BY <2>2, <2>3 DEF LatestOf
    <3> QED
      BY <2>1, <2>2, <2>3, <3>1
  <2>4. ASSUME LatestOf(r.item) = {}, SaveGate(m, 0, 0) PROVE Ordered'
    <3>1. RowsOf(r.item) = {}
      BY <2>4 DEF Placed, OInv, NewestExists, Sendable
    <3> QED
      BY <2>1, <2>4, <3>1
  <2> QED
    BY <1>2, <1>3, <1>5, <2>3, <2>4 DEF SaveReadLatest
<1>6. CASE SaveInsert(m)
  BY <1>6, StoreInOrder
<1>7. CASE SaveRefused(m)
  BY <1>1, <1>3, <1>7, ReturnsInOrder DEF SaveRefused
<1>8. CASE SaveConflict(m)
  BY <1>3, <1>8, ReturnsInOrder DEF SaveConflict
<1> QED
  BY <1>3, <1>4, <1>5, <1>6, <1>7, <1>8 DEF SaveStep, SaveError
-----------------------------------------------------------------------------
(* What is observed.                                                       *)

LEMMA ObservedTyped == ASSUME OInv, OrderType, Observe PROVE OrderType'
<1>1. \A e \in PutNow : append[e].seq \in Nat /\ e \in 0..MaxEdits
  BY OfflineAssumption DEF PutNow, OInv, BrowserType, AppendRecords, Edits
<1>2. 0 \in 0..MaxEdits
  BY OfflineAssumption
<1>3. CASE order' = order
  BY <1>3 DEF OrderType
<1>4. CASE order' = [kept |-> FALSE, seq |-> 0, edit |-> 0]
  BY <1>2, <1>4 DEF OrderType
<1>5. CASE \E e \in PutNow : order' = [kept |-> TRUE, seq |-> append[e].seq, edit |-> e]
  BY <1>1, <1>5 DEF OrderType
<1> QED
  BY <1>3, <1>4, <1>5 DEF Observe

\* As long as the order is kept it was, and only a put moves what is observed.
LEMMA ObservedKept ==
    ASSUME OrderType, Observe, order'.kept
    PROVE  /\ order.kept /\ ~PassedOver
           /\ \/ PutNow = {} /\ order' = order
              \/ \E e \in PutNow :
                    Rises(e) /\ order' = [kept |-> TRUE, seq |-> append[e].seq, edit |-> e]
BY DEF Observe

LEMMA PutsSeen ==
    ASSUME OInv
    PROVE  /\ append' = append => PutNow = {}
           /\ \A e \in Edits : AppendBegin(e) \/ AppendCount(e) => PutNow = {}
           /\ \A e \in Edits : AppendPut(e) => PutNow = {e}
           /\ Reload => PutNow = {}
<1>1. append' = append => PutNow = {}
  BY DEF PutNow
<1>2. append \in [Edits -> AppendRecords] /\ Returned.pc = "done" /\ Returned \in AppendRecords
  BY DEF OInv, BrowserType, Returned, AppendRecords
<1>3. ASSUME NEW e \in Edits, AppendBegin(e) PROVE PutNow = {}
  BY <1>2, <1>3 DEF AppendBegin, PutNow, AppendRecords
<1>4. ASSUME NEW e \in Edits, AppendCount(e) PROVE PutNow = {}
  BY <1>2, <1>4 DEF AppendCount, PutNow, AppendRecords
<1>5. ASSUME NEW e \in Edits, AppendPut(e) PROVE PutNow = {e}
  BY <1>2, <1>5 DEF AppendPut, PutNow
<1>6. ASSUME Reload PROVE PutNow = {}
  <2>1. PICK gone \in AppendRecords : gone.pc = "gone" /\ gone = [Returned EXCEPT !.pc = "gone"]
    BY DEF Returned, AppendRecords
  <2>2. append' = [e \in Edits |-> IF e \in Appending THEN gone ELSE append[e]]
    BY <1>6, <2>1 DEF Reload
  <2>3. \A e \in Edits : append[e].pc = "put" => append'[e].pc = "gone"
    BY <2>1, <2>2 DEF Appending
  <2> QED
    BY <2>3 DEF PutNow
<1> QED
  BY <1>1, <1>3, <1>4, <1>5, <1>6

LEMMA OrderStarts == Init => OrderInv
<1> SUFFICES ASSUME Init PROVE OrderInv
  OBVIOUS
<1>1. order = [kept |-> TRUE, seq |-> 0, edit |-> 0] /\ journal = {} /\ rows = {} /\ ackedSeq = 0
  BY DEF Init, ResponseInit
<1>2. /\ \A m \in Syncs : sync[m].read = {} /\ sync[m].answer = 0
      /\ \A m \in Syncs : serve[m].batch = {} /\ serve[m].durable = {} /\ serve[m].answer = 0
      /\ \A s \in Saves : save[s].pc = "idle"
  BY DEF Init, ResponseInit, IdleServe, IdleSave
<1>3. \A e \in Edits, n \in Nat : ~Marked(e, n)
  BY <1>1, <1>2 DEF Marked
<1>4. OrderType /\ MarksRise
  BY <1>1, <1>3, OfflineAssumption DEF OrderType, MarksRise
<1>5. SettledTo(0)
  BY <1>1, <1>3 DEF SettledTo
<1>6. BrowserOrder /\ ServerOrder
  BY <1>1, <1>2, <1>3, <1>5, FS_EmptySet
     DEF BrowserOrder, SyncInOrder, ServerOrder, ServeInOrder, FromOldest
<1>7. AnswersOrder
  BY <1>1, <1>2, OfflineAssumption DEF AnswersOrder, SaveInOrder, UnderWay
<1> QED
  BY <1>4, <1>6, <1>7 DEF OrderInv, Ordered

\* The steps, while the database answers and the order is kept.
LEMMA StepKeepsOrder ==
    ASSUME Placed, OrderType', faults \in Nat, faults' = faults, ~PassedOver,
           ClientNext \/ (\E m \in Syncs : SyncSend(m) \/ SyncLost(m)) \/ ServerNext,
           \/ PutNow = {} /\ order' = order
           \/ \E e \in PutNow : Rises(e) /\ order' = [kept |-> TRUE, seq |-> append[e].seq, edit |-> e]
    PROVE  Ordered'
<1>1. Healthy /\ ~Faulty
  BY DEF Healthy, Faulty
<1>2. OInv
  BY DEF Placed
<1>3. append' = append => order' = order
  BY <1>2, PutsSeen
<1>4. CASE ClientNext
  <2>1. UNCHANGED <<responseVars, serverVars>>
    BY <1>4 DEF ClientNext
  <2>2. ASSUME NEW e \in Edits, AppendPut(e) PROVE Ordered'
    <3>1. PutNow = {e}
      BY <1>2, <2>2, PutsSeen
    <3> QED
      BY <2>1, <2>2, <3>1, PutKeepsOrder
  <2>3. ASSUME NEW e \in Edits, AppendBegin(e) \/ AppendCount(e) PROVE Ordered'
    <3>1. PutNow = {}
      BY <1>2, <2>3, PutsSeen
    <3> QED
      BY <2>1, <2>3, <3>1, AppendKeepsOrder
  <2>4. ASSUME NEW m \in Syncs, SyncRead(m) \/ SyncReceive(m) \/ SyncDrop(m) \/ SyncAcked(m)
        PROVE  Ordered'
    <3>1. append' = append
      BY <2>4 DEF SyncRead, SyncReceive, SyncDrop, SyncAcked
    <3> QED
      BY <1>3, <2>1, <2>4, <3>1, SyncKeepsOrder
  <2>5. CASE Reload
    <3>1. PutNow = {}
      BY <1>2, <2>5, PutsSeen
    <3> QED
      BY <2>1, <2>5, <3>1, ReloadKeepsOrder
  <2> QED
    BY <1>4, <2>2, <2>3, <2>4, <2>5 DEF ClientNext
<1>5. ASSUME NEW m \in Syncs, SyncSend(m) \/ SyncLost(m) PROVE Ordered'
  <2>1. append' = append
    BY <1>5 DEF SyncSend, SyncLost
  <2> QED
    BY <1>3, <1>5, <2>1, SendKeepsOrder
<1>6. CASE ServerNext
  <2>1. UNCHANGED clientVars /\ order' = order
    BY <1>3, <1>6 DEF ServerNext, clientVars
  <2>2. ASSUME NEW m \in Syncs, ServeStep(m) PROVE Ordered'
    BY <1>1, <2>1, <2>2, ReadsKeepOrder, EntryKeepsOrder, SavedKeepsOrder, AnswerKeepsOrder
       DEF ServeStep, ServeDies
  <2>3. ASSUME NEW m \in Syncs, SaveStep(m), UNCHANGED serverVars PROVE Ordered'
    BY <1>1, <2>1, <2>3, ReplayKeepsOrdered
  <2>4. CASE WindowCloses /\ UNCHANGED serverVars
    BY <2>1, <2>4, AsideKeepsOrder DEF WindowCloses, serverVars
  <2>5. CASE Reopen
    BY <2>1, <2>5, AsideKeepsOrder DEF Reopen, responseVars
  <2> QED
    BY <1>6, <2>2, <2>3, <2>4, <2>5 DEF ServerNext
<1> QED
  BY <1>4, <1>5, <1>6

\* A failure is never forgotten.
LEMMA FaultsRemain ==
    ASSUME FaultsType, ClientNext \/ (\E m \in Syncs : SyncSend(m) \/ SyncLost(m)) \/ ServerNext
    PROVE  faults' = 0 => faults = 0
<1>1. faults \in Nat
  BY MaxFaultsNat DEF FaultsType
<1>2. Healthy \/ Faulty
  BY DEF ClientNext, SyncSend, SyncLost, ServerNext, ServeStep, ServeRead, ServeMap, ServeEntry,
         SaveBegin, ServeSaved, ServeAnswer, ServeDies, SaveStep, SaveByKey, SaveReadLatest,
         SaveInsert, SaveRefused, SaveError, SaveConflict, WindowCloses, Reopen
<1> QED
  BY <1>1, <1>2 DEF Healthy, Faulty

LEMMA OrderSteps == OInv /\ OrderInv /\ [Next]_vars => OrderInv'
<1> SUFFICES ASSUME OInv, OrderInv, [Next]_vars PROVE OrderInv'
  OBVIOUS
<1>1. CASE (ClientNext \/ (\E m \in Syncs : SyncSend(m) \/ SyncLost(m)) \/ ServerNext) /\ Observe
  <2>1. OrderType'
    BY <1>1, ObservedTyped DEF OrderInv
  <2>2. ASSUME faults' = 0, order'.kept PROVE Ordered'
    <3>1. faults \in Nat
      BY MaxFaultsNat DEF OInv, ServerType, FaultsType
    <3>2. faults = 0 /\ faults' = faults
      BY <1>1, <2>2, FaultsRemain DEF OInv, ServerType
    <3>3. /\ order.kept /\ ~PassedOver
          /\ \/ PutNow = {} /\ order' = order
             \/ \E e \in PutNow : Rises(e) /\ order' = [kept |-> TRUE, seq |-> append[e].seq, edit |-> e]
      BY <1>1, <2>2, ObservedKept DEF OrderInv
    <3>4. Placed
      BY <3>2, <3>3 DEF OrderInv, Placed
    <3> QED
      BY <1>1, <2>1, <3>1, <3>2, <3>3, <3>4, StepKeepsOrder
  <2> QED
    BY <2>1, <2>2 DEF OrderInv
<1>2. CASE UNCHANGED vars
  <2>1. UNCHANGED <<rows, open, save, serve, clientVars, order, faults>>
    BY <1>2 DEF vars, responseVars, serverVars
  <2>2. OrderType'
    BY <2>1 DEF OrderInv, OrderType
  <2>3. Placed => Ordered'
    BY <2>1, <2>2, AsideKeepsOrder
  <2> QED
    BY <2>1, <2>2, <2>3 DEF OrderInv, Placed
<1> QED
  BY <1>1, <1>2 DEF Next, Quiet

LEMMA OrderInvariance == Spec => [](OInv /\ OrderInv)
<1>1. OInv /\ OrderInv /\ [Next]_vars => OInv' /\ OrderInv'
  BY JournalSteps, OrderSteps
<1>2. Init => OInv /\ OrderInv
  BY JournalStarts, OrderStarts
<1> QED
  BY <1>1, <1>2, PTL DEF Spec
-----------------------------------------------------------------------------
(* No edit is lost.                                                        *)

\* An edit is in the journal or stored, or its item takes it no more.
Kept(e) ==
    \/ Mode[ItemOf[e]] # "editable" \/ ~open
    \/ \E f \in journal : f.edit = e
    \/ \E row \in rows : row.val = e

EditsKept == \A e \in Edits : append[e].pc = "done" => Kept(e)

\* Answers are added, and the window opens once.
LEMMA AnswersGrow ==
    ASSUME ClientNext \/ (\E m \in Syncs : SyncSend(m) \/ SyncLost(m)) \/ ServerNext
    PROVE  rows \subseteq rows' /\ (open' => open)
<1>1. CASE ClientNext
  BY <1>1 DEF ClientNext, responseVars
<1>2. ASSUME NEW m \in Syncs, SyncSend(m) \/ SyncLost(m)
      PROVE  rows \subseteq rows' /\ (open' => open)
  BY <1>2 DEF SyncSend, SyncLost, responseVars
<1>3. ASSUME NEW m \in Syncs, ServeStep(m)
      PROVE  rows \subseteq rows' /\ (open' => open)
  <2>1. CASE ServeRead(m) \/ ServeMap(m) \/ ServeAnswer(m)
    <3>1. UNCHANGED responseVars
      BY <2>1, Zenon DEF ServeRead, ServeMap, ServeAnswer
    <3> QED
      BY <3>1 DEF responseVars
  <2>2. CASE ServeEntry(m)
    <3>1. UNCHANGED responseVars \/ UNCHANGED <<rows, open>>
      BY <2>2, Zenon DEF ServeEntry, SaveBegin
    <3> QED
      BY <3>1 DEF responseVars
  <2>3. CASE ServeSaved(m) \/ ServeDies(m)
    BY <2>3 DEF ServeSaved, ServeDies
  <2> QED
    BY <1>3, <2>1, <2>2, <2>3 DEF ServeStep
<1>4. ASSUME NEW m \in Syncs, SaveStep(m)
      PROVE  rows \subseteq rows' /\ (open' => open)
  <2>1. CASE SaveInsert(m)
    BY <2>1 DEF SaveInsert
  <2>2. CASE SaveByKey(m) \/ SaveReadLatest(m)
    BY <2>2 DEF SaveByKey, SaveReadLatest
  <2>3. CASE SaveRefused(m) \/ SaveError(m) \/ SaveConflict(m)
    BY <2>3 DEF SaveRefused, SaveError, SaveConflict
  <2> QED
    BY <1>4, <2>1, <2>2, <2>3 DEF SaveStep
<1>5. CASE WindowCloses \/ Reopen
  BY <1>5 DEF WindowCloses, Reopen, responseVars
<1> QED
  BY <1>1, <1>2, <1>3, <1>4, <1>5 DEF ServerNext

\* A step that drops nothing from the journal and puts nothing into it.
LEMMA NothingDropped ==
    ASSUME EditsKept, rows \subseteq rows', open' => open, journal \subseteq journal',
           \A e \in Edits : append'[e].pc = "done" => append[e].pc = "done"
    PROVE  EditsKept'
BY DEF EditsKept, Kept

\* A put takes the place of no other entry: its number is new.
LEMMA PutLosesNothing ==
    ASSUME Placed, EditsKept, NEW e \in Edits, AppendPut(e), Rises(e),
           UNCHANGED responseVars
    PROVE  EditsKept'
<1>1. PICK n \in Nat : n = append[e].seq /\ n > order.seq
  BY DEF Rises, Placed, OInv, BrowserType, AppendRecords
<1>2. order.seq \in Nat
  BY DEF Placed, OrderType
<1>3. ASSUME NEW f \in journal PROVE f \in journal'
  <2>1. f.edit \in Edits /\ f.seq \in Nat
    BY DEF Placed, OInv, BrowserType, Entries
  <2>2. Marked(f.edit, f.seq)
    BY DEF Marked
  <2>3. f.seq <= order.seq
    BY <2>1, <2>2 DEF Placed, Ordered, MarksRise
  <2>4. f.seq # n
    BY <1>1, <1>2, <2>1, <2>3
  <2> QED
    BY <1>1, <2>4 DEF AppendPut
<1>4. \E f \in journal' : f.edit = e
  <2>1. PICK new : new = [seq |-> append[e].seq, edit |-> e, epoch |-> pageEpoch]
    OBVIOUS
  <2>2. new \in journal'
    BY <2>1 DEF AppendPut
  <2> QED
    BY <2>1, <2>2
<1>5. ASSUME NEW f \in Edits, append'[f].pc = "done" PROVE Kept(f)'
  <2>1. CASE f = e
    BY <1>4, <2>1 DEF Kept
  <2>2. CASE f # e
    <3>1. append[f].pc = "done"
      BY <1>5, <2>2 DEF AppendPut, Placed, OInv, BrowserType
    <3>2. Kept(f)
      BY <3>1 DEF EditsKept
    <3> QED
      BY <1>3, <3>2 DEF Kept, responseVars
  <2> QED
    BY <2>1, <2>2
<1> QED
  BY <1>5 DEF EditsKept

\* A drop takes only entries up to an answer below which everything is settled.
LEMMA DropLosesNothing ==
    ASSUME Placed, EditsKept, NEW m \in Syncs, SyncDrop(m), UNCHANGED responseVars
    PROVE  EditsKept'
<1>1. PICK k \in Nat : k = sync[m].answer /\ SettledTo(k)
  BY DEF Placed, OInv, BrowserType, SyncRecords, Ordered, BrowserOrder, SyncInOrder
<1>2. append' = append /\ rows' = rows /\ open' = open
  BY DEF SyncDrop, responseVars
<1>3. ASSUME NEW f \in journal, f \notin journal' PROVE Settled(f.edit, f.seq)
  <2>1. f.seq <= k
    BY <1>1, <1>3 DEF SyncDrop
  <2>2. f.edit \in Edits /\ f.seq \in Nat
    BY DEF Placed, OInv, BrowserType, Entries
  <2>3. Marked(f.edit, f.seq)
    BY DEF Marked
  <2> QED
    BY <1>1, <2>1, <2>2, <2>3 DEF SettledTo
<1>4. ASSUME NEW e \in Edits, Kept(e) PROVE Kept(e)'
  <2>1. CASE \E f \in journal : f.edit = e /\ f \notin journal'
    <3>1. PICK f \in journal : f.edit = e /\ f \notin journal'
      BY <2>1
    <3>2. Settled(e, f.seq)
      BY <1>3, <3>1
    <3> QED
      BY <1>2, <3>2 DEF Settled, StoredAs, Kept
  <2>2. CASE \A f \in journal : f.edit = e => f \in journal'
    BY <1>2, <1>4, <2>2 DEF Kept
  <2> QED
    BY <2>1, <2>2
<1> QED
  BY <1>2, <1>4 DEF EditsKept

LEMMA StepLosesNothing ==
    ASSUME Placed, EditsKept,
           ClientNext \/ (\E m \in Syncs : SyncSend(m) \/ SyncLost(m)) \/ ServerNext,
           \/ PutNow = {} /\ order' = order
           \/ \E e \in PutNow : Rises(e) /\ order' = [kept |-> TRUE, seq |-> append[e].seq, edit |-> e]
    PROVE  EditsKept'
<1>1. rows \subseteq rows' /\ (open' => open)
  BY AnswersGrow
<1>2. append \in [Edits -> AppendRecords]
  BY DEF Placed, OInv, BrowserType
<1>3. CASE ClientNext
  <2>1. UNCHANGED responseVars
    BY <1>3 DEF ClientNext
  <2>2. ASSUME NEW e \in Edits, AppendPut(e) PROVE EditsKept'
    <3>1. PutNow = {e}
      BY <2>2, PutsSeen DEF Placed
    <3> QED
      BY <2>1, <2>2, <3>1, PutLosesNothing
  <2>3. ASSUME NEW e \in Edits, AppendBegin(e) \/ AppendCount(e) PROVE EditsKept'
    <3>1. ASSUME AppendBegin(e) PROVE append'[e].pc # "done"
      BY <1>2, <3>1 DEF AppendBegin, AppendRecords
    <3>2. ASSUME AppendCount(e) PROVE append'[e].pc # "done"
      BY <1>2, <3>2 DEF AppendCount, AppendRecords
    <3>3. \A f \in Edits : append'[f].pc = "done" => append[f].pc = "done"
      BY <1>2, <2>3, <3>1, <3>2 DEF AppendBegin, AppendCount
    <3>4. journal' = journal
      BY <2>3 DEF AppendBegin, AppendCount
    <3> QED
      BY <1>1, <3>3, <3>4, NothingDropped
  <2>4. ASSUME NEW m \in Syncs, SyncRead(m) \/ SyncReceive(m) \/ SyncAcked(m) PROVE EditsKept'
    <3>1. append' = append /\ journal' = journal
      BY <2>4 DEF SyncRead, SyncReceive, SyncAcked
    <3> QED
      BY <1>1, <3>1, NothingDropped
  <2>5. ASSUME NEW m \in Syncs, SyncDrop(m) PROVE EditsKept'
    BY <2>1, <2>5, DropLosesNothing
  <2>6. CASE Reload
    <3>1. PICK gone \in AppendRecords : gone.pc = "gone" /\ gone = [Returned EXCEPT !.pc = "gone"]
      BY DEF Returned, AppendRecords
    <3>2. append' = [e \in Edits |-> IF e \in Appending THEN gone ELSE append[e]] /\ journal' = journal
      BY <2>6, <3>1 DEF Reload
    <3>3. \A f \in Edits : append'[f].pc = "done" => append[f].pc = "done"
      BY <3>1, <3>2
    <3> QED
      BY <1>1, <3>2, <3>3, NothingDropped
  <2> QED
    BY <1>3, <2>2, <2>3, <2>4, <2>5, <2>6 DEF ClientNext
<1>4. CASE (\E m \in Syncs : SyncSend(m) \/ SyncLost(m)) \/ ServerNext
  <2>1. append' = append /\ journal' = journal
    BY <1>4 DEF SyncSend, SyncLost, ServerNext, clientVars
  <2> QED
    BY <1>1, <2>1, NothingDropped
<1> QED
  BY <1>3, <1>4

LEMMA LossSteps == OInv /\ OrderInv /\ ReplayLosesNothing /\ [Next]_vars => ReplayLosesNothing'
<1> SUFFICES ASSUME OInv, OrderInv, ReplayLosesNothing, [Next]_vars PROVE ReplayLosesNothing'
  OBVIOUS
<1>1. CASE (ClientNext \/ (\E m \in Syncs : SyncSend(m) \/ SyncLost(m)) \/ ServerNext) /\ Observe
  <2>1. ASSUME faults' = 0, order'.kept PROVE EditsKept'
    <3>1. faults = 0
      BY <1>1, <2>1, FaultsRemain DEF OInv, ServerType
    <3>2. /\ order.kept
          /\ \/ PutNow = {} /\ order' = order
             \/ \E e \in PutNow : Rises(e) /\ order' = [kept |-> TRUE, seq |-> append[e].seq, edit |-> e]
      BY <1>1, <2>1, ObservedKept DEF OrderInv
    <3>3. Placed
      BY <3>1, <3>2 DEF OrderInv, Placed
    <3>4. EditsKept
      BY <3>1, <3>2 DEF ReplayLosesNothing, EditsKept, Kept
    <3> QED
      BY <1>1, <3>2, <3>3, <3>4, StepLosesNothing
  <2> QED
    BY <2>1 DEF ReplayLosesNothing, EditsKept, Kept
<1>2. CASE UNCHANGED vars
  BY <1>2 DEF vars, responseVars, clientVars, ReplayLosesNothing
<1> QED
  BY <1>1, <1>2 DEF Next, Quiet
-----------------------------------------------------------------------------
(* Theorems.                                                               *)

\* A number the server acknowledges was decided for every edit, however syncs,
\* reloads, reopenings and failures fall.
THEOREM AcksAreDecided == Spec => []AckCoversDecided
<1>1. OInv => AckCoversDecided
  BY DEF OInv, ServerSound, ServeSound, Decided, AckCoversDecided
<1> QED
  BY <1>1, JournalInvariance, PTL

\* However often an edit is sent again, under whatever item numbers, it is stored
\* once: it has one journal number, and a number is a key.
THEOREM EditsAreStoredOnce == Spec => []StoredOnce
<1>1. OInv => StoredOnce
  <2> SUFFICES ASSUME OInv, NEW row \in rows, NEW other \in rows, row.val = other.val
               PROVE  row = other
    BY DEF StoredOnce
  <2>1. row.val \in Edits /\ row.key \in Nat /\ other.key \in Nat
    BY DEF OInv, AnswersType
  <2>2. row.key = other.key
    BY <2>1 DEF OInv, NumberedOnce, Marked
  <2> QED
    BY <2>2 DEF OInv, RowsApart
<1> QED
  BY <1>1, JournalInvariance, PTL

\* While the journal's numbers rise with the edits, no sync passes an edit over and
\* the database answers, syncs that overlap, whatever they read before, store the
\* answers of an item in the order in which the student gave them.
THEOREM EditsInOrder == Spec => []ReplayKeepsOrder
<1>1. OInv /\ OrderInv => ReplayKeepsOrder
  <2> SUFFICES ASSUME OInv, Ordered, NEW row \in rows, NEW other \in rows,
                      row.item = other.item, row.seq < other.seq
               PROVE  row.val < other.val
    BY DEF OrderInv, ReplayKeepsOrder
  <2>1. row.key < other.key
    BY DEF Ordered, AnswersOrder
  <2>2. Marked(row.val, row.key) /\ Marked(other.val, other.key)
    BY DEF Marked
  <2>3. row.val \in Edits /\ row.key \in Nat /\ other.val \in Edits /\ other.key \in Nat
    BY DEF OInv, AnswersType
  <2> QED
    BY <2>1, <2>2, <2>3 DEF Ordered, MarksRise
<1> QED
  BY <1>1, OrderInvariance, PTL

\* Under the same conditions, whatever syncs that overlap have read, sent and been
\* told, an edit that its item takes stays in the journal until it is stored: a put
\* covers no other entry, and what a sync drops is settled.
THEOREM EditsAreKept == Spec => []ReplayLosesNothing
<1>1. Init => ReplayLosesNothing
  BY DEF Init, ReplayLosesNothing
<1> QED
  BY <1>1, LossSteps, OrderInvariance, PTL DEF Spec

\* Types, where the saves may be asked what the browser can number.
THEOREM JournalTyped == ASSUME Sendable \subseteq Requests PROVE Spec => []TypeOK
<1>1. OInv /\ OrderInv => TypeOK
  <2> SUFFICES ASSUME OInv, OrderInv PROVE TypeOK
    OBVIOUS
  <2>1. \A row \in rows : row.key \in Keys /\ row.val \in Values
    <3> SUFFICES ASSUME NEW row \in rows PROVE row.key \in Keys /\ row.val \in Values
      OBVIOUS
    <3>1. PICK r \in Sendable : r.key = row.key /\ r.val = row.val
      <4> DEFINE r == [item |-> row.item, seq |-> row.seq, key |-> row.key, val |-> row.val]
      <4>1. r \in Sendable
        BY DEF Sendable, OInv, AnswersType
      <4> QED
        BY <4>1
    <3> QED
      BY <3>1, RequestsAssumption
  <2>2. ResponseType
    BY <2>1 DEF OInv, AnswersType, ResponseType, ReplayRecords
  <2> QED
    BY <2>2 DEF OInv, BrowserType, ServerType, AppendRecords, SyncRecords, ServeRecords, EntriesApart,
                Apart, OrderInv, OrderType, TypeOK
<1> QED
  BY <1>1, OrderInvariance, PTL
=============================================================================
