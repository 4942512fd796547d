-------------------------- MODULE ResponseSaveProofs -------------------------
(***************************************************************************)
(* Proofs about ResponseSave, for any items, keys, requests, saves and any  *)
(* number of failures.                                                     *)
(***************************************************************************)
EXTENDS ResponseSave, TLAPS

-----------------------------------------------------------------------------
(* The inductive invariant.                                                *)

\* The unique indexes of the table.
RowsApart ==
    \A row, other \in rows :
        \/ row.key = other.key
        \/ row.item = other.item /\ (row.seq = other.seq \/ Mode[row.item] = "first")
        => row = other

\* A row was asked for under its key and its item.
RowsRequested ==
    \A row \in rows : \E q \in Requests : q.item = row.item /\ q.key = row.key

UnderWay == {"key", "latest", "insert", "conflict"}
RefusedAs == {"stale_seq", "item_locked", "duplicate"}

\* What AckBacked and RefusedForStored say of one save.
Backed(me) ==
    \E row \in RowsOf(me.req.item) :
        /\ row.seq = me.highest
        /\ row.seq >= me.req.seq \/ row.key = me.req.key

Justified(r) ==
    \/ r.seq = 0
    \/ Mode[r.item] = "first" /\ (r.seq > 1 \/ RowsOf(r.item) # {})
    \/ \E row \in rows : row.key = r.key \/ (row.item = r.item /\ row.seq >= r.seq)

\* What a save has passed, or met, still holds: rows are never taken away.
SaveSound(me) ==
    /\ me.pc \in UnderWay =>
            me.req \in Requests /\ Mode[me.req.item] # "none" /\ me.res = "none"
    /\ me.pc = "insert" => me.req.seq > 0 /\ me.rev > 0
    /\ me.pc = "conflict" => Clash(me.req)
    /\ me.res = "accepted" => me.req \in Requests /\ Backed(me)
    /\ me.res \in RefusedAs => me.req \in Requests /\ Justified(me.req)

SavesSound == \A s \in Saves : SaveSound(save[s])

RInv == ResponseType /\ FaultsType /\ RowsApart /\ RowsRequested /\ SavesSound
\* An item that has answers has a newest one, for FinalSnapshot and for a replay.
\* (rows is finite, but that is not what the proof needs of it.)
NewestExists == \A i \in Items : RowsOf(i) # {} => LatestOf(i) # {}
-----------------------------------------------------------------------------
SaveRecords ==
    [pc : SavePcs, req : Requests \cup {NoRequest}, rev : Nat, res : SaveResults, highest : Nat]

LEMMA RequestTyped ==
    ASSUME NEW r \in Requests
    PROVE  /\ r.item \in Items /\ r.seq \in Nat /\ r.key \in Keys /\ r.val \in Values
           /\ Mode[r.item] \in {"first", "editable", "none"} /\ r # NoRequest
BY RequestsAssumption, ModeAssumption

LEMMA SoundnessStays ==
    ASSUME NEW me, SaveSound(me), rows \subseteq rows'
    PROVE  SaveSound(me)'
<1>1. Clash(me.req) => Clash(me.req)'
  BY DEF Clash
<1>2. Backed(me) => Backed(me)'
  BY DEF Backed, RowsOf
<1>3. Justified(me.req) => Justified(me.req)'
  BY DEF Justified, RowsOf
<1> QED
  BY <1>1, <1>2, <1>3 DEF SaveSound

\* What every step of a save has to leave.
LEMMA SaveKeepsInv ==
    ASSUME RInv, NEW s \in Saves, NEW me \in SaveRecords, save' = [save EXCEPT ![s] = me],
           rows \subseteq rows', open' \in BOOLEAN, FaultsType',
           rows' \subseteq [item : Items, seq : Nat \ {0}, key : Keys, val : Values, rev : Nat \ {0}],
           RowsApart', RowsRequested', SaveSound(me)'
    PROVE  RInv'
<1>1. \A t \in Saves : save'[t] = IF t = s THEN me ELSE save[t]
  BY DEF RInv, ResponseType
<1>2. ResponseType'
  BY DEF RInv, ResponseType, SaveRecords
<1>3. SavesSound'
  <2>1. ASSUME NEW t \in Saves, t # s
        PROVE  SaveSound(save[t])'
    <3>1. PICK it : it = save[t] /\ it = save'[t]
      BY <1>1, <2>1
    <3>2. SaveSound(it)'
      BY <3>1, SoundnessStays DEF RInv, SavesSound
    <3> QED
      BY <3>1, <3>2
  <2>2. SaveSound(save[s])'
    BY <1>1
  <2> QED
    BY <2>1, <2>2 DEF SavesSound
<1> QED
  BY <1>2, <1>3 DEF RInv

\* A step that leaves the rows alone.
LEMMA SaveReads ==
    ASSUME RInv, NEW s \in Saves, NEW me \in SaveRecords, save' = [save EXCEPT ![s] = me],
           UNCHANGED <<rows, open>>, Healthy \/ Faulty, SaveSound(me)
    PROVE  RInv'
<1>1. SaveSound(me)'
  BY SoundnessStays
<1>2. FaultsType'
  BY MaxFaultsNat DEF Healthy, Faulty, FaultsType, RInv
<1>3. RowsApart' /\ RowsRequested'
  BY DEF RInv, RowsApart, RowsRequested
<1> QED
  BY <1>1, <1>2, <1>3, SaveKeepsInv DEF RInv, ResponseType

LEMMA BeginKeepsInv ==
    ASSUME RInv, NEW s \in Saves, NEW r \in Requests, SaveBegin(s, r)
    PROVE  RInv'
<1>1. PICK pc \in {"key", "done"}, res \in {"none", "late", "invalid_item", "not_found"} :
        /\ save' = [save EXCEPT ![s] =
                [[IdleSave EXCEPT !.req = r] EXCEPT !.pc = pc, !.res = res]]
        /\ pc = "key" => res = "none" /\ Mode[r.item] # "none"
  BY DEF SaveBegin
<1> DEFINE begun == [IdleSave EXCEPT !.req = r]
           me == [begun EXCEPT !.pc = pc, !.res = res]
<1>2. begun \in SaveRecords /\ begun.req = r
  BY DEF IdleSave, SaveRecords, SavePcs, SaveResults
<1>3. save' = [save EXCEPT ![s] = me]
  BY <1>1
<1> HIDE DEF begun
<1>4. me \in SaveRecords /\ me.pc = pc /\ me.res = res /\ me.req = r
  BY <1>2 DEF SaveRecords, SavePcs, SaveResults, Refusals
<1> HIDE DEF me
<1>5. SaveSound(me)
  BY <1>1, <1>4 DEF SaveSound, UnderWay, RefusedAs
<1> QED
  BY <1>3, <1>4, <1>5, SaveReads DEF SaveBegin

\* The two ways in which a save returns.
LEMMA AcknowledgeKeepsInv ==
    ASSUME RInv, NEW s \in Saves, save[s].pc \in UnderWay,
           NEW row \in RowsOf(save[s].req.item),
           row.seq >= save[s].req.seq \/ row.key = save[s].req.key,
           Acknowledge(s, row.seq), UNCHANGED <<rows, open>>, Healthy \/ Faulty
    PROVE  RInv'
<1>1. PICK it \in SaveRecords : it = save[s] /\ SaveSound(it)
  BY DEF RInv, ResponseType, SaveRecords, SavesSound
<1> DEFINE me == [it EXCEPT !.pc = "done", !.res = "accepted", !.highest = row.seq]
<1>2. row.seq \in Nat
  BY DEF RInv, ResponseType, RowsOf
<1>3. /\ me \in SaveRecords /\ me.pc = "done" /\ me.res = "accepted" /\ me.highest = row.seq
      /\ me.req = it.req
  BY <1>1, <1>2 DEF SaveRecords, SavePcs, SaveResults
<1>4. save' = [save EXCEPT ![s] = me]
  BY <1>1 DEF Acknowledge, RInv, ResponseType
<1> HIDE DEF me
<1>5. Backed(me)
  BY <1>1, <1>3 DEF Backed
<1>6. SaveSound(me)
  BY <1>1, <1>3, <1>5 DEF SaveSound, UnderWay, RefusedAs
<1> QED
  BY <1>3, <1>4, <1>6, SaveReads

LEMMA FinishKeepsInv ==
    ASSUME RInv, NEW s \in Saves, save[s].pc \in UnderWay,
           NEW res \in RefusedAs \cup {"error"},
           res \in RefusedAs => Justified(save[s].req),
           FinishSave(s, res), UNCHANGED <<rows, open>>, Healthy \/ Faulty
    PROVE  RInv'
<1>1. PICK it \in SaveRecords : it = save[s] /\ SaveSound(it)
  BY DEF RInv, ResponseType, SaveRecords, SavesSound
<1> DEFINE me == [it EXCEPT !.pc = "done", !.res = res]
<1>3. me \in SaveRecords /\ me.pc = "done" /\ me.res = res /\ me.req = it.req
  BY <1>1 DEF SaveRecords, SavePcs, SaveResults, RefusedAs, Refusals
<1>4. save' = [save EXCEPT ![s] = me]
  BY <1>1 DEF FinishSave, RInv, ResponseType
<1> HIDE DEF me
<1>5. SaveSound(me)
  BY <1>1, <1>3 DEF SaveSound, UnderWay, RefusedAs
<1> QED
  BY <1>3, <1>4, <1>5, SaveReads

\* The save goes on to its next call.
LEMMA GoesOnKeepsInv ==
    ASSUME RInv, NEW s \in Saves, save[s].pc \in UnderWay,
           NEW pc \in UnderWay, NEW rev \in Nat,
           save' = [save EXCEPT ![s].pc = pc, ![s].rev = rev],
           pc = "insert" => save[s].req.seq > 0 /\ rev > 0,
           pc = "conflict" => Clash(save[s].req),
           UNCHANGED <<rows, open>>, Healthy \/ Faulty
    PROVE  RInv'
<1>1. PICK it \in SaveRecords : it = save[s] /\ SaveSound(it)
  BY DEF RInv, ResponseType, SaveRecords, SavesSound
<1> DEFINE me == [it EXCEPT !.pc = pc, !.rev = rev]
<1>2. /\ me \in SaveRecords /\ me.pc = pc /\ me.rev = rev
      /\ me.req = it.req /\ me.res = it.res
  BY <1>1 DEF SaveRecords, SavePcs, UnderWay
<1>3. save' = [save EXCEPT ![s] = me]
  BY <1>1 DEF RInv, ResponseType
<1> HIDE DEF me
<1>4. SaveSound(me)
  BY <1>1, <1>2 DEF SaveSound, RefusedAs
<1> QED
  BY <1>2, <1>3, <1>4, SaveReads

\* Where a key names an item, the row with the request's key is the item's.
LEMMA KeyKeepsInv ==
    ASSUME RInv, NEW s \in Saves, SaveByKey(s),
           \A row \in rows : row.key = save[s].req.key => row.item = save[s].req.item
    PROVE  RInv'
<1>1. PICK it \in SaveRecords : it = save[s] /\ SaveSound(it)
  BY DEF RInv, ResponseType, SaveRecords, SavesSound
<1>2. it.pc = "key" /\ it.req \in Requests
  BY <1>1 DEF SaveByKey, SaveSound, UnderWay
<1>3. CASE Healthy /\ \E row \in rows : row.key = it.req.key /\ Acknowledge(s, row.seq)
  <2>1. PICK row \in rows : row.key = it.req.key /\ Acknowledge(s, row.seq)
    BY <1>3
  <2>2. row.item = it.req.item
    BY <1>1, <2>1
  <2> QED
    BY <1>1, <1>2, <1>3, <2>1, <2>2, AcknowledgeKeepsInv DEF SaveByKey, RowsOf, UnderWay
<1>4. CASE (Healthy \/ Faulty) /\ save' = [save EXCEPT ![s].pc = "latest"]
  <2>1. save' = [save EXCEPT ![s].pc = "latest", ![s].rev = it.rev]
    BY <1>1, <1>4 DEF SaveRecords, RInv, ResponseType
  <2>2. it.rev \in Nat
    BY DEF SaveRecords
  <2> QED
    BY <1>1, <1>2, <1>4, <2>1, <2>2, GoesOnKeepsInv DEF SaveByKey, UnderWay
<1> QED
  BY <1>1, <1>3, <1>4 DEF SaveByKey

\* The gates refuse for a row that is there, or a number that cannot be next.
LEMMA GateKeepsInv ==
    ASSUME RInv, NEW s \in Saves, save[s].pc = "latest", NEW last \in Nat, NEW rev \in Nat,
           SaveGate(s, last, rev), UNCHANGED <<rows, open>>, Healthy \/ Faulty,
           last > 0 => \E row \in rows : row.item = save[s].req.item /\ row.seq = last
    PROVE  RInv'
<1>1. PICK it \in SaveRecords : it = save[s] /\ SaveSound(it)
  BY DEF RInv, ResponseType, SaveRecords, SavesSound
<1>2. PICK r \in Requests : r = it.req /\ Mode[r.item] \in {"first", "editable"} /\ r.seq \in Nat
  BY <1>1, RequestTyped DEF SaveSound, UnderWay
<1>3. CASE Mode[r.item] = "first" /\ last > 0 /\ FinishSave(s, "item_locked")
  <2>1. Justified(r)
    BY <1>1, <1>2, <1>3 DEF Justified, RowsOf
  <2> QED
    BY <1>1, <1>2, <1>3, <2>1, FinishKeepsInv DEF UnderWay, RefusedAs
<1>4. CASE SeqRefused(r, last) /\ FinishSave(s, "stale_seq")
  <2>1. CASE r.seq <= last
    <3>1. r.seq = 0 \/ \E row \in rows : row.item = r.item /\ row.seq >= r.seq
      BY <1>1, <1>2, <2>1
    <3> QED
      BY <1>1, <1>2, <1>4, <3>1, FinishKeepsInv DEF UnderWay, RefusedAs, Justified
  <2>2. CASE r.seq > last + 1 /\ Mode[r.item] # "editable"
    <3>1. r.seq > 1 /\ Mode[r.item] = "first"
      BY <1>2, <2>2
    <3> QED
      BY <1>1, <1>2, <1>4, <3>1, FinishKeepsInv DEF UnderWay, RefusedAs, Justified
  <2> QED
    BY <1>4, <2>1, <2>2 DEF SeqRefused
<1>5. CASE ~SeqRefused(r, last) /\ save' = [save EXCEPT ![s].pc = "insert", ![s].rev = rev + 1]
  <2>1. r.seq > 0
    BY <1>2, <1>5 DEF SeqRefused
  <2>2. PICK next \in Nat : next = rev + 1 /\ next > 0
    OBVIOUS
  <2>3. save' = [save EXCEPT ![s].pc = "insert", ![s].rev = next]
    BY <1>5, <2>2
  <2>4. save[s].req.seq > 0
    BY <1>1, <1>2, <2>1
  <2> QED
    BY <1>1, <2>2, <2>3, <2>4, GoesOnKeepsInv DEF UnderWay
<1> QED
  BY <1>1, <1>2, <1>3, <1>4, <1>5 DEF SaveGate

LEMMA ReadLatestKeepsInv ==
    ASSUME RInv, NEW s \in Saves, SaveReadLatest(s)
    PROVE  RInv'
<1>1. CASE Healthy /\ \E row \in LatestOf(save[s].req.item) : SaveGate(s, row.seq, row.rev)
  <2>1. PICK row \in LatestOf(save[s].req.item) : SaveGate(s, row.seq, row.rev)
    BY <1>1
  <2>2. row \in rows /\ row.item = save[s].req.item /\ row.seq \in Nat /\ row.rev \in Nat
    BY DEF LatestOf, RowsOf, RInv, ResponseType
  <2> QED
    BY <1>1, <2>1, <2>2, GateKeepsInv DEF SaveReadLatest
<1>2. CASE (Healthy \/ Faulty) /\ SaveGate(s, 0, 0)
  BY <1>2, GateKeepsInv DEF SaveReadLatest
<1> QED
  BY <1>1, <1>2 DEF SaveReadLatest

\* The row goes in where no index refuses it.
LEMMA InsertKeepsInv ==
    ASSUME RInv, NEW s \in Saves, SaveInsert(s)
    PROVE  RInv'
<1>1. PICK it \in SaveRecords : it = save[s] /\ SaveSound(it)
  BY DEF RInv, ResponseType, SaveRecords, SavesSound
<1>2. PICK r \in Requests : r = it.req /\ r.seq > 0 /\ it.rev > 0 /\ it.pc = "insert"
  BY <1>1 DEF SaveInsert, SaveSound, UnderWay
<1> DEFINE row == [item |-> r.item, seq |-> r.seq, key |-> r.key, val |-> r.val, rev |-> it.rev]
<1>3. rows' = rows \cup {row} /\ ~Clash(r)
  BY <1>1, <1>2 DEF SaveInsert, NewRow
<1>4. row \in [item : Items, seq : Nat \ {0}, key : Keys, val : Values, rev : Nat \ {0}]
  BY <1>2, RequestTyped DEF SaveRecords
<1>5. RowsApart'
  <2>1. \A other \in rows : /\ other.key # row.key
                            /\ ~(other.item = row.item /\ (other.seq = row.seq \/ Mode[row.item] = "first"))
    BY <1>3 DEF Clash
  <2> QED
    BY <1>3, <2>1 DEF RInv, RowsApart
<1>6. RowsRequested'
  BY <1>3 DEF RInv, RowsRequested
<1>7. FaultsType'
  BY MaxFaultsNat DEF SaveInsert, Healthy, Faulty, FaultsType, RInv
<1>8. PICK me \in SaveRecords :
        /\ save' = [save EXCEPT ![s] = me] /\ me.req = r /\ me.pc = "done"
        /\ me.res = "error" \/ (me.res = "accepted" /\ me.highest = r.seq)
  <2>1. CASE Acknowledge(s, save[s].req.seq)
    <3> DEFINE me == [it EXCEPT !.pc = "done", !.res = "accepted", !.highest = r.seq]
    <3>1. /\ me \in SaveRecords /\ me.pc = "done" /\ me.res = "accepted" /\ me.highest = r.seq
          /\ me.req = r
      BY <1>2, RequestTyped DEF SaveRecords, SavePcs, SaveResults
    <3>2. save' = [save EXCEPT ![s] = me]
      BY <1>1, <1>2, <2>1 DEF Acknowledge, RInv, ResponseType
    <3> QED
      BY <3>1, <3>2
  <2>2. CASE FinishSave(s, "error")
    <3> DEFINE me == [it EXCEPT !.pc = "done", !.res = "error"]
    <3>1. me \in SaveRecords /\ me.pc = "done" /\ me.res = "error" /\ me.req = r
      BY <1>2 DEF SaveRecords, SavePcs, SaveResults
    <3>2. save' = [save EXCEPT ![s] = me]
      BY <1>1, <2>2 DEF FinishSave, RInv, ResponseType
    <3> QED
      BY <3>1, <3>2
  <2> QED
    BY <2>1, <2>2 DEF SaveInsert
<1>9. SaveSound(me)'
  <2>1. me.res = "accepted" => Backed(me)'
    <3>1. row \in rows' /\ row.item = r.item /\ row.seq = r.seq /\ r.seq \in Nat
      BY <1>3, RequestTyped
    <3> QED
      BY <1>8, <3>1 DEF Backed, RowsOf
  <2> QED
    BY <1>8, <2>1 DEF SaveSound, UnderWay, RefusedAs
<1>10. rows' \subseteq [item : Items, seq : Nat \ {0}, key : Keys, val : Values, rev : Nat \ {0}]
  BY <1>3, <1>4 DEF RInv, ResponseType
<1>11. open' \in BOOLEAN /\ rows \subseteq rows'
  BY <1>3 DEF SaveInsert, RInv, ResponseType
<1> HIDE DEF row
<1> QED
  BY <1>5, <1>6, <1>7, <1>8, <1>9, <1>10, <1>11, SaveKeepsInv

\* A refused row: the index names a row, which stays.
LEMMA RefusalKeepsInv ==
    ASSUME RInv, NEW s \in Saves, SaveRefused(s) \/ SaveError(s) \/ SaveConflict(s)
    PROVE  RInv'
<1>1. PICK it \in SaveRecords : it = save[s] /\ SaveSound(it)
  BY DEF RInv, ResponseType, SaveRecords, SavesSound
<1>2. CASE SaveRefused(s)
  <2>1. save' = [save EXCEPT ![s].pc = "conflict", ![s].rev = it.rev] /\ it.rev \in Nat
    BY <1>1, <1>2 DEF SaveRefused, SaveRecords, RInv, ResponseType
  <2> QED
    BY <1>2, <2>1, GoesOnKeepsInv DEF SaveRefused, UnderWay
<1>3. CASE SaveError(s)
  BY <1>3, FinishKeepsInv DEF SaveError, UnderWay, RefusedAs
<1>4. CASE SaveConflict(s)
  <2>1. PICK r \in Requests : r = it.req /\ Clash(r) /\ it.pc = "conflict"
    BY <1>1, <1>4 DEF SaveConflict, SaveSound, UnderWay
  <2>2. CASE \E row \in LatestOf(r.item) : row.seq >= r.seq /\ Acknowledge(s, row.seq) /\ Healthy
    BY <1>1, <1>4, <2>1, <2>2, AcknowledgeKeepsInv DEF SaveConflict, LatestOf, UnderWay
  <2>3. CASE FinishSave(s, "duplicate") /\ (Healthy \/ Faulty)
    <3>1. r.seq \in Nat
      BY RequestTyped
    <3>2. PICK row \in rows : \/ row.key = r.key
                              \/ row.item = r.item /\ (row.seq = r.seq \/ Mode[r.item] = "first")
      BY <2>1 DEF Clash
    <3>3. Justified(r)
      BY <3>1, <3>2 DEF Justified, RowsOf
    <3> QED
      BY <1>1, <1>4, <2>1, <2>3, <3>3, FinishKeepsInv DEF SaveConflict, UnderWay, RefusedAs
  <2> QED
    BY <1>1, <1>4, <2>1, <2>2, <2>3 DEF SaveConflict
<1> QED
  BY <1>2, <1>3, <1>4

\* What leaves the rows and the saves alone.
LEMMA UnmovedKeepsInv ==
    ASSUME RInv, UNCHANGED <<rows, save>>, open' \in BOOLEAN, FaultsType'
    PROVE  RInv'
<1>1. ResponseType' /\ RowsApart' /\ RowsRequested'
  BY DEF RInv, ResponseType, RowsApart, RowsRequested
<1>2. SavesSound'
  BY DEF RInv, SavesSound, SaveSound, Backed, Justified, Clash, RowsOf
<1> QED
  BY <1>1, <1>2 DEF RInv

LEMMA WindowKeepsInv ==
    ASSUME RInv, WindowCloses \/ UNCHANGED <<responseVars, faults>>
    PROVE  RInv'
<1>1. UNCHANGED <<rows, save>> /\ open' \in BOOLEAN /\ FaultsType'
  BY DEF WindowCloses, Healthy, responseVars, RInv, ResponseType, FaultsType
<1> QED
  BY <1>1, UnmovedKeepsInv

LEMMA StepKeepsInv ==
    ASSUME KeysNameItems, RInv, NEW s \in Saves, SaveStep(s)
    PROVE  RInv'
<1>1. CASE SaveByKey(s)
  <2>1. save[s].req \in Requests
    BY <1>1 DEF SaveByKey, RInv, SavesSound, SaveSound, UnderWay
  <2>2. \A row \in rows : row.key = save[s].req.key => row.item = save[s].req.item
    BY <2>1 DEF KeysNameItems, RInv, RowsRequested
  <2> QED
    BY <1>1, <2>2, KeyKeepsInv
<1> QED
  BY <1>1, ReadLatestKeepsInv, InsertKeepsInv, RefusalKeepsInv DEF SaveStep

LEMMA ResponseStarts == ResponseInit /\ faults = 0 => RInv
BY MaxFaultsNat DEF ResponseInit, RInv, ResponseType, FaultsType, RowsApart, RowsRequested,
   SavesSound, SaveSound, IdleSave, SavePcs, SaveResults, UnderWay, RefusedAs

LEMMA ResponseSteps ==
    KeysNameItems => (RInv /\ [ResponseNext]_<<responseVars, faults>> => RInv')
<1> SUFFICES ASSUME KeysNameItems, RInv, [ResponseNext]_<<responseVars, faults>> PROVE RInv'
  OBVIOUS
<1>1. ASSUME NEW s \in Saves, NEW r \in Requests, SaveBegin(s, r) PROVE RInv'
  BY <1>1, BeginKeepsInv
<1>2. ASSUME NEW s \in Saves, SaveStep(s) PROVE RInv'
  BY <1>2, StepKeepsInv
<1>3. CASE WindowCloses \/ UNCHANGED <<responseVars, faults>>
  BY <1>3, WindowKeepsInv
<1> QED
  BY <1>1, <1>2, <1>3 DEF ResponseNext, SavesQuiet
-----------------------------------------------------------------------------
\* A row that is stored is the newest of its item, or leaves the newest.
LEMMA NewestStays ==
    ASSUME NewestExists, NEW new, rows' = rows \cup {new}, \A row \in rows' : row.seq \in Nat
    PROVE  NewestExists'
<1> SUFFICES ASSUME NEW i \in Items, (RowsOf(i) # {})' PROVE (LatestOf(i) # {})'
  BY DEF NewestExists
<1>1. new.seq \in Nat /\ \A row \in rows : row.seq \in Nat
  OBVIOUS
<1>2. CASE new.item # i
  <2>1. RowsOf(i)' = RowsOf(i)
    BY <1>2 DEF RowsOf
  <2> QED
    BY <2>1 DEF NewestExists, LatestOf
<1>3. CASE new.item = i /\ RowsOf(i) = {}
  <2>1. RowsOf(i)' = {new}
    BY <1>3 DEF RowsOf
  <2>2. new \in LatestOf(i)'
    BY <2>1, <1>1 DEF LatestOf
  <2> QED
    BY <2>2
<1>4. CASE new.item = i /\ RowsOf(i) # {}
  <2>1. PICK row \in RowsOf(i) : \A other \in RowsOf(i) : other.seq <= row.seq
    BY <1>4 DEF NewestExists, LatestOf
  <2>2. RowsOf(i)' = RowsOf(i) \cup {new}
    BY <1>4 DEF RowsOf
  <2>3. \A other \in RowsOf(i) : other.seq \in Nat
    BY <1>1 DEF RowsOf
  <2>4. CASE new.seq <= row.seq
    <3>1. row \in LatestOf(i)'
      BY <2>1, <2>2, <2>4 DEF LatestOf
    <3> QED
      BY <3>1
  <2>5. CASE ~(new.seq <= row.seq)
    <3>1. \A other \in RowsOf(i)' : other.seq <= new.seq
      BY <2>1, <2>2, <2>3, <2>5, <1>1
    <3>2. new \in LatestOf(i)'
      BY <2>2, <3>1 DEF LatestOf
    <3> QED
      BY <3>2
  <2> QED
    BY <2>4, <2>5
<1> QED
  BY <1>2, <1>3, <1>4

LEMMA NewestUnmoved == ASSUME NewestExists, rows' = rows PROVE NewestExists'
BY DEF NewestExists, RowsOf, LatestOf
-----------------------------------------------------------------------------
(* Theorems.                                                               *)

LEMMA ResponseInvariance == ASSUME KeysNameItems PROVE ResponseSpec => []RInv
<1>1. RInv /\ [ResponseNext]_<<responseVars, faults>> => RInv'
  BY ResponseSteps
<1> QED
  BY <1>1, ResponseStarts, PTL DEF ResponseSpec

\* The answers and the saves under way keep their shape.
THEOREM SavesTyped == ASSUME KeysNameItems PROVE ResponseSpec => [](ResponseType /\ FaultsType)
<1>1. RInv => ResponseType /\ FaultsType
  BY DEF RInv
<1> QED
  BY <1>1, ResponseInvariance, PTL

\* Whichever saves race, are retried or fail, an acknowledgement is backed by a
\* row of its item.
THEOREM AcksAreBacked == ASSUME KeysNameItems PROVE ResponseSpec => []AckBacked
<1>1. RInv => AckBacked
  BY DEF RInv, SavesSound, SaveSound, Backed, AckBacked, Accepted
<1> QED
  BY <1>1, ResponseInvariance, PTL

\* A first-answer item has one answer, and everybody is told that one.
THEOREM FirstAnswerIsFinal == ASSUME KeysNameItems PROVE ResponseSpec => []OneFinalAnswer
<1>1. RInv => OneFinalAnswer
  <2> SUFFICES ASSUME RInv, NEW i \in Items, Mode[i] = "first"
               PROVE  /\ \A row, other \in RowsOf(i) : row = other
                      /\ \A s \in Accepted : save[s].req.item = i =>
                             \A row \in RowsOf(i) : save[s].highest = row.seq
    BY DEF OneFinalAnswer
  <2>1. \A row, other \in RowsOf(i) : row = other
    BY DEF RInv, RowsApart, RowsOf
  <2>2. ASSUME NEW s \in Accepted, save[s].req.item = i
        PROVE  \E row \in RowsOf(i) : row.seq = save[s].highest
    BY <2>2 DEF RInv, SavesSound, SaveSound, Backed, Accepted
  <2> QED
    BY <2>1, <2>2
<1> QED
  BY <1>1, ResponseInvariance, PTL

\* Nothing is refused but for an answer that is stored or a number that cannot
\* be the next.
THEOREM RefusalsAreJustified == ASSUME KeysNameItems PROVE ResponseSpec => []RefusedForStored
<1>1. RInv => RefusedForStored
  BY DEF RInv, SavesSound, SaveSound, Justified, RefusedForStored, RefusedAs
<1> QED
  BY <1>1, ResponseInvariance, PTL
=============================================================================
