--------------------------- MODULE SubmitSealProofs --------------------------
(***************************************************************************)
(* Proofs about SubmitSeal, for any items, requests, batches, submits,     *)
(* saves and calls and any number of failures.  The saves of the page and  *)
(* of the flushes keep RInv (module ResponseSaveProofs); what is added     *)
(* here relates a submit to the answers and to the seal.                   *)
(***************************************************************************)
EXTENDS SubmitSeal, AttemptTransitionProofs, ResponseSaveProofs, SequenceTheorems

-----------------------------------------------------------------------------
(* The inductive invariant.                                                *)

SubmitRecords ==
    [pc : SubmitPcs, stat : Statuses \cup {"none"}, confirmed : BOOLEAN,
     batch : Seq(Requests), snap : SUBSET Answers, receipt : Seals \cup {NoSeal},
     res : SubmitResults, promise : SUBSET Marks]

SubmitType ==
    seals \subseteq Seals /\ jobs \subseteq Submits /\ submit \in [Submits -> SubmitRecords]

\* A list of answers: one of each item, each of them stored.
SnapSound(snap) ==
    /\ \A e, f \in snap : e.item = f.item => e = f
    /\ \A e \in snap : \E row \in RowsOf(e.item) : row.seq = e.seq /\ row.val = e.val

\* Whatever a student was told is stored.
PromiseKept(promise) == \A p \in promise : \E row \in RowsOf(p.item) : row.seq = p.seq

Covers(snap, promise) ==
    \A p \in promise : \E e \in snap : e.item = p.item /\ e.seq >= p.seq

\* What holds of one submit: its list and its promise are about stored answers,
\* and once it has listed the answers while the database answered, the list
\* covers the promise.
SubmitSound(me) ==
    /\ SnapSound(me.snap)
    /\ PromiseKept(me.promise)
    /\ faults = 0 /\ me.pc \in {"check", "insert"} => Covers(me.snap, me.promise)

SubmitsSound == \A m \in Submits : SubmitSound(submit[m])

\* A submit that has sealed touches its promise no more.
Sealing == {"submitting", "closing", "done"}

SealsSound ==
    /\ \A x, y \in seals : x = y
    /\ jobs = {x.by : x \in seals}
    /\ \A m \in Submits : submit[m].receipt \in seals \cup {NoSeal}
    /\ \A x \in seals :
        /\ SnapSound(x.snap)
        /\ submit[x.by].pc \in Sealing
        /\ faults = 0 => Covers(x.snap, submit[x.by].promise)

SInv == AttemptType /\ RInv /\ SubmitType /\ NewestExists /\ SubmitsSound /\ SealsSound
-----------------------------------------------------------------------------
(* The steps beside the submits.                                           *)

\* Rows are added, never taken away.
LEMMA ListsStay ==
    ASSUME rows \subseteq rows', NEW snap, NEW promise
    PROVE  /\ SnapSound(snap) => SnapSound(snap)'
           /\ PromiseKept(promise) => PromiseKept(promise)'
BY DEF SnapSound, PromiseKept, RowsOf

LEMMA SubmitSoundStays ==
    ASSUME rows \subseteq rows', faults' = 0 => faults = 0, NEW me, SubmitSound(me)
    PROVE  SubmitSound(me)'
<1>1. SnapSound(me.snap)' /\ PromiseKept(me.promise)'
  BY ListsStay DEF SubmitSound
<1>2. Covers(me.snap, me.promise) => Covers(me.snap, me.promise)'
  BY DEF Covers
<1> QED
  BY <1>1, <1>2 DEF SubmitSound

\* What is not a step of a submit leaves what is known of them.
LEMMA OthersKeepSubmits ==
    ASSUME SInv, UNCHANGED submitVars, rows \subseteq rows', faults' = 0 => faults = 0
    PROVE  SubmitType' /\ SubmitsSound' /\ SealsSound'
<1>1. seals' = seals /\ jobs' = jobs /\ submit' = submit
  BY DEF submitVars
<1>2. SubmitsSound'
  <2> SUFFICES ASSUME NEW m \in Submits PROVE SubmitSound(submit[m])'
    BY DEF SubmitsSound
  <2>1. PICK me : me = submit[m] /\ me = submit'[m]
    BY <1>1
  <2> QED
    BY <2>1, SubmitSoundStays DEF SInv, SubmitsSound
<1>3. ASSUME NEW x \in seals PROVE SnapSound(x.snap)'
  BY ListsStay DEF SInv, SealsSound
<1>4. SealsSound'
  BY <1>1, <1>3 DEF SInv, SealsSound, Covers
<1> QED
  BY <1>1, <1>2, <1>4 DEF SInv, SubmitType

LEMMA CallNextKeepsInv == ASSUME SInv, CallNext PROVE SInv'
<1>1. AttemptType' /\ (Healthy \/ Faulty)
  <2>1. PICK c \in Calls :
            \/ \E to \in Wants : TransitionRead(c, TheAttempt, to)
            \/ ReopenRead(c, TheAttempt)
            \/ CallStep(c)
            \/ CallFault(c)
    BY DEF CallNext
  <2>2. Wants \subseteq Statuses /\ TheAttempt \in Attempts /\ "ready" \in Statuses
    BY SubmitAssumption DEF Statuses
  <2> QED
    BY <2>1, <2>2, CallsKeepTypes DEF SInv
<1>2. FaultsType' /\ (faults' = 0 => faults = 0)
  BY <1>1, FaultsStay DEF SInv, AttemptType
<1>3. UNCHANGED <<responseVars, submitVars>>
  BY DEF CallNext
<1>4. RInv'
  BY <1>2, <1>3, UnmovedKeepsInv DEF SInv, responseVars, RInv, ResponseType
<1>5. SubmitType' /\ SubmitsSound' /\ SealsSound'
  BY <1>2, <1>3, OthersKeepSubmits DEF responseVars
<1>6. NewestExists'
  BY <1>3, NewestUnmoved DEF SInv, responseVars
<1> QED
  BY <1>1, <1>4, <1>5, <1>6 DEF SInv

LEMMA SaveNextKeepsInv == ASSUME SInv, SaveNext PROVE SInv'
<1>1. RInv'
  <2>1. KeysNameItems
    BY SubmitAssumption
  <2> QED
    BY <2>1, BeginKeepsInv, StepKeepsInv, WindowKeepsInv DEF SaveNext, SInv
<1>2. Healthy \/ Faulty
  BY DEF SaveNext, SaveBegin, WindowCloses, SaveStep, SaveByKey, SaveReadLatest, SaveInsert,
         SaveRefused, SaveError, SaveConflict
<1>3. faults' = 0 => faults = 0
  BY <1>2, FaultsStay DEF SInv, AttemptType
<1>4. rows' = rows \/ \E new : rows' = rows \cup {new}
  BY DEF SaveNext, SaveBegin, WindowCloses, SaveStep, SaveByKey, SaveReadLatest, SaveInsert,
         SaveRefused, SaveError, SaveConflict
<1>5. NewestExists'
  BY <1>1, <1>4, NewestStays, NewestUnmoved DEF SInv, RInv, ResponseType
<1>6. UNCHANGED <<status, epoch, lease, call, submitVars>>
  BY DEF SaveNext
<1>7. AttemptType'
  BY <1>2, <1>6, AttemptsUnmoved DEF SInv
<1>8. SubmitType' /\ SubmitsSound' /\ SealsSound'
  BY <1>3, <1>4, <1>6, OthersKeepSubmits
<1> QED
  BY <1>1, <1>5, <1>7, <1>8 DEF SInv
-----------------------------------------------------------------------------
(* The steps of a submit.                                                  *)

\* What every step has to leave that seals nothing.
LEMMA SubmitKeepsInv ==
    ASSUME SInv, NEW m \in Submits, NEW me \in SubmitRecords,
           submit' = [submit EXCEPT ![m] = me],
           UNCHANGED <<rows, seals, jobs>>, Healthy \/ Faulty, AttemptType', RInv',
           SubmitSound(me)', me.receipt \in seals \cup {NoSeal},
           submit[m].pc \in Sealing => me.pc \in Sealing /\ me.promise = submit[m].promise
    PROVE  SInv'
<1>1. faults' = 0 => faults = 0
  BY FaultsStay DEF SInv, AttemptType
<1>2. \A n \in Submits : submit'[n] = IF n = m THEN me ELSE submit[n]
  BY DEF SInv, SubmitType
<1>3. SubmitType'
  BY DEF SInv, SubmitType
<1>4. SubmitsSound'
  <2>1. ASSUME NEW n \in Submits, n # m
        PROVE  SubmitSound(submit[n])'
    <3>1. PICK it : it = submit[n] /\ it = submit'[n]
      BY <1>2, <2>1
    <3>2. SubmitSound(it)'
      BY <1>1, <3>1, SubmitSoundStays DEF SInv, SubmitsSound
    <3> QED
      BY <3>1, <3>2
  <2>2. SubmitSound(submit[m])'
    BY <1>2
  <2> QED
    BY <2>1, <2>2 DEF SubmitsSound
<1>5. SealsSound'
  <2>1. \A n \in Submits : submit'[n].receipt \in seals \cup {NoSeal}
    BY <1>2 DEF SInv, SealsSound
  <2>2. ASSUME NEW x \in seals
        PROVE  /\ SnapSound(x.snap)'
               /\ submit'[x.by].pc \in Sealing
               /\ faults' = 0 => Covers(x.snap, submit'[x.by].promise)
    <3>1. x.by \in Submits
      BY DEF SInv, SubmitType, Seals
    <3>2. /\ submit[x.by].pc \in Sealing => submit'[x.by].pc \in Sealing
          /\ submit[x.by].pc \in Sealing => submit'[x.by].promise = submit[x.by].promise
      BY <1>2, <3>1
    <3>3. SnapSound(x.snap)'
      BY ListsStay DEF SInv, SealsSound
    <3> QED
      BY <1>1, <3>2, <3>3 DEF SInv, SealsSound
  <2> QED
    BY <2>1, <2>2 DEF SInv, SealsSound, Covers
<1>6. NewestExists'
  BY NewestUnmoved DEF SInv
<1> QED
  BY <1>3, <1>4, <1>5, <1>6 DEF SInv

\* A step that only moves on, or returns.
LEMMA MovesOn ==
    ASSUME SInv, NEW m \in Submits, NEW pc \in SubmitPcs, NEW res \in SubmitResults,
           NEW receipt \in seals \cup {NoSeal},
           submit' = [submit EXCEPT ![m].pc = pc, ![m].res = res, ![m].receipt = receipt],
           UNCHANGED <<rows, seals, jobs>>, Healthy \/ Faulty, AttemptType', RInv',
           submit[m].pc \in Sealing => pc \in Sealing,
           pc \in {"check", "insert"} => submit[m].pc \in {"check", "insert"}
    PROVE  SInv'
<1>1. PICK it \in SubmitRecords : it = submit[m] /\ SubmitSound(it)
  BY DEF SInv, SubmitType, SubmitsSound
<1> DEFINE me == [it EXCEPT !.pc = pc, !.res = res, !.receipt = receipt]
<1>2. /\ me \in SubmitRecords /\ me.pc = pc /\ me.receipt = receipt
      /\ me.snap = it.snap /\ me.promise = it.promise
  BY DEF SubmitRecords, SInv, SubmitType
<1>3. submit' = [submit EXCEPT ![m] = me]
  BY <1>1 DEF SInv, SubmitType
<1> HIDE DEF me
<1>4. SubmitSound(me)
  BY <1>1, <1>2 DEF SubmitSound
<1>5. SubmitSound(me)'
  BY <1>4, SubmitSoundStays, FaultsStay DEF SInv, AttemptType
<1> QED
  BY <1>1, <1>2, <1>3, <1>5, SubmitKeepsInv

\* A step that leaves the saves and the calls alone.
LEMMA SavesUnmoved ==
    ASSUME SInv, UNCHANGED <<status, epoch, lease, call, responseVars>>, Healthy \/ Faulty
    PROVE  AttemptType' /\ RInv' /\ rows' = rows
<1>1. AttemptType'
  BY AttemptsUnmoved DEF SInv
<1>2. RInv'
  BY <1>1, UnmovedKeepsInv DEF SInv, responseVars, RInv, ResponseType, AttemptType
<1> QED
  BY <1>1, <1>2 DEF responseVars

\* What has been acknowledged is stored.
LEMMA AckedKept ==
    ASSUME SInv
    PROVE  Acked \subseteq Marks /\ PromiseKept(Acked)
<1>1. ASSUME NEW s \in Saves, save[s].res = "accepted"
      PROVE  /\ save[s].req.item \in Items
             /\ save[s].highest \in Nat
             /\ \E row \in RowsOf(save[s].req.item) : row.seq = save[s].highest
  <2>1. save[s].req \in Requests /\ Backed(save[s])
    BY <1>1 DEF SInv, RInv, SavesSound, SaveSound
  <2>2. save[s].highest \in Nat
    BY DEF SInv, RInv, ResponseType
  <2> QED
    BY <2>1, <2>2, RequestTyped DEF Backed
<1> QED
  BY <1>1 DEF Acked, Marks, PromiseKept

LEMMA ReadKeepsInv ==
    ASSUME SInv, NEW m \in Submits, NEW batch \in Batches, NEW confirmed \in BOOLEAN,
           SubmitRead(m, batch, confirmed)
    PROVE  SInv'
<1>1. AttemptType' /\ RInv' /\ rows' = rows /\ UNCHANGED <<seals, jobs>>
  BY SavesUnmoved DEF SubmitRead
<1>2. CASE Faulty /\ FinishSubmit(m, "not_found")
  <2>1. submit[m] \in SubmitRecords /\ submit[m].receipt \in seals \cup {NoSeal}
    BY DEF SInv, SubmitType, SealsSound
  <2>2. submit' = [submit EXCEPT ![m].pc = "done", ![m].res = "not_found", ![m].receipt = submit[m].receipt]
    BY <1>2, <2>1 DEF FinishSubmit, SubmitRecords, SInv, SubmitType
  <2> QED
    BY <1>1, <1>2, <2>1, <2>2, MovesOn DEF SubmitPcs, SubmitResults, Sealing
<1>3. CASE Healthy /\ submit' = [submit EXCEPT ![m] = [IdleSubmit EXCEPT
                !.pc = "seal", !.stat = status[TheAttempt], !.confirmed = confirmed,
                !.batch = batch, !.promise = Acked]]
  <2>1. batch \in Seq(Requests) /\ status[TheAttempt] \in Statuses \cup {"none"}
    BY SubmitAssumption DEF SInv, AttemptType
  <2>2. PICK me \in SubmitRecords :
            /\ me.pc = "seal" /\ me.receipt = NoSeal /\ me.snap = {} /\ me.promise = Acked
            /\ submit' = [submit EXCEPT ![m] = me]
    <3> DEFINE read == [IdleSubmit EXCEPT !.pc = "seal", !.stat = status[TheAttempt],
                             !.confirmed = confirmed, !.batch = batch, !.promise = Acked]
    <3>1. /\ read \in SubmitRecords /\ read.pc = "seal" /\ read.receipt = NoSeal
          /\ read.snap = {} /\ read.promise = Acked
      BY <2>1, AckedKept DEF IdleSubmit, SubmitRecords, SubmitPcs, SubmitResults
    <3> QED
      BY <1>3, <3>1
  <2>3. PromiseKept(me.promise)
    BY <2>2, AckedKept
  <2>4. PromiseKept(me.promise)'
    BY <1>1, <2>3, ListsStay
  <2>5. SubmitSound(me)'
    BY <2>2, <2>4 DEF SubmitSound, SnapSound
  <2>6. submit[m].pc \notin Sealing
    BY DEF SubmitRead, Sealing
  <2> QED
    BY <1>1, <1>3, <2>2, <2>5, <2>6, SubmitKeepsInv
<1> QED
  BY <1>2, <1>3 DEF SubmitRead

\* The steps of which nothing is left but where the submit is.
LEMMA PlainStepKeepsInv ==
    ASSUME SInv, NEW m \in Submits,
           \/ SubmitLookup(m) \/ SubmitCheck(m) \/ SubmitRefused(m) \/ SubmitError(m)
           \/ SubmitWinner(m) \/ SubmitReturn(m)
    PROVE  SInv'
<1>1. /\ UNCHANGED <<status, epoch, lease, call, responseVars, seals, jobs>>
      /\ Healthy \/ Faulty
  BY DEF SubmitLookup, SubmitCheck, SubmitRefused, SubmitError, SubmitWinner, SubmitReturn
<1>2. AttemptType' /\ RInv' /\ rows' = rows
  BY <1>1, SavesUnmoved
<1>3. PICK it \in SubmitRecords : it = submit[m] /\ it.receipt \in seals \cup {NoSeal}
  BY DEF SInv, SubmitType, SealsSound
<1>4. PICK pc \in SubmitPcs, res \in SubmitResults, receipt \in seals \cup {NoSeal} :
        /\ submit' = [submit EXCEPT ![m].pc = pc, ![m].res = res, ![m].receipt = receipt]
        /\ submit[m].pc \in Sealing => pc \in Sealing
        /\ pc \in {"check", "insert"} => submit[m].pc \in {"check", "insert"}
  <2>1. ASSUME NEW pc \in SubmitPcs, submit' = [submit EXCEPT ![m].pc = pc]
        PROVE  submit' = [submit EXCEPT ![m].pc = pc, ![m].res = it.res, ![m].receipt = it.receipt]
    BY <1>3, <2>1 DEF SInv, SubmitType, SubmitRecords
  <2>2. ASSUME NEW res \in SubmitResults, FinishSubmit(m, res)
        PROVE  submit' = [submit EXCEPT ![m].pc = "done", ![m].res = res, ![m].receipt = it.receipt]
    BY <1>3, <2>2 DEF FinishSubmit, SInv, SubmitType, SubmitRecords
  <2>3. it.res \in SubmitResults
    BY DEF SubmitRecords
  <2>4. CASE SubmitLookup(m)
    <3>1. CASE \E seal \in seals : ReturnSeal(m, seal, "duplicate")
      <4>1. PICK seal \in seals : ReturnSeal(m, seal, "duplicate")
        BY <3>1
      <4> QED
        BY <4>1 DEF ReturnSeal, Sealing, SubmitPcs, SubmitResults
    <3>2. CASE SubmitGate(m)
      <4>1. submit[m].pc \notin Sealing
        BY <2>4 DEF SubmitLookup, Sealing
      <4>2. CASE FinishSubmit(m, "attempt_closed")
        BY <1>3, <2>2, <4>2 DEF Sealing, SubmitPcs, SubmitResults
      <4>3. CASE submit' = [submit EXCEPT ![m].pc = "flush"]
        BY <1>3, <2>1, <2>3, <4>1, <4>3 DEF SubmitPcs
      <4> QED
        BY <3>2, <4>2, <4>3 DEF SubmitGate
    <3> QED
      BY <2>4, <3>1, <3>2 DEF SubmitLookup
  <2>5. CASE SubmitCheck(m)
    <3>1. submit[m].pc = "check" /\ submit[m].pc \notin Sealing
      BY <2>5 DEF SubmitCheck, Sealing
    <3>2. CASE FinishSubmit(m, "attempt_closed")
      BY <1>3, <2>2, <3>2 DEF Sealing, SubmitPcs, SubmitResults
    <3>3. CASE submit' = [submit EXCEPT ![m].pc = "insert"]
      BY <1>3, <2>1, <2>3, <3>1, <3>3 DEF SubmitPcs
    <3> QED
      BY <2>5, <3>2, <3>3 DEF SubmitCheck
  <2>6. CASE SubmitRefused(m)
    <3>1. submit[m].pc \notin Sealing /\ submit' = [submit EXCEPT ![m].pc = "winner"]
      BY <2>6 DEF SubmitRefused, Sealing
    <3> QED
      BY <1>3, <2>1, <2>3, <3>1 DEF SubmitPcs
  <2>7. CASE SubmitError(m)
    <3>1. FinishSubmit(m, "error")
      BY <2>7 DEF SubmitError
    <3> QED
      BY <1>3, <2>2, <3>1 DEF Sealing, SubmitPcs, SubmitResults
  <2>8. CASE SubmitWinner(m)
    <3>1. CASE \E seal \in seals : ReturnSeal(m, seal, "duplicate")
      <4>1. PICK seal \in seals : ReturnSeal(m, seal, "duplicate")
        BY <3>1
      <4> QED
        BY <4>1 DEF ReturnSeal, Sealing, SubmitPcs, SubmitResults
    <3>2. CASE FinishSubmit(m, "seal_conflict")
      BY <1>3, <2>2, <3>2 DEF SubmitPcs, SubmitResults, Sealing
    <3> QED
      BY <2>8, <3>1, <3>2 DEF SubmitWinner
  <2>9. CASE SubmitReturn(m)
    <3>1. FinishSubmit(m, "sealed")
      BY <2>9 DEF SubmitReturn
    <3> QED
      BY <1>3, <2>2, <3>1 DEF Sealing, SubmitPcs, SubmitResults
  <2> QED
    BY <2>4, <2>5, <2>6, <2>7, <2>8, <2>9
<1> QED
  BY <1>1, <1>2, <1>4, MovesOn

\* The transition to submitted begins.
LEMMA TransitionKeepsInv == ASSUME SInv, NEW m \in Submits, SubmitTransition(m) PROVE SInv'
<1>1. PICK it \in SubmitRecords : it = submit[m] /\ it.receipt \in seals \cup {NoSeal}
  BY DEF SInv, SubmitType, SealsSound
<1>2. Healthy \/ Faulty
  BY DEF SubmitTransition, TransitionRead
<1>3. AttemptType'
  <2>1. CASE TransitionRead(m, TheAttempt, "submitted")
    BY <2>1, SubmitAssumption, CallsKeepTypes DEF SInv, Statuses
  <2>2. CASE UNCHANGED <<status, epoch, lease, call>>
    BY <1>2, <2>2, AttemptsUnmoved DEF SInv
  <2> QED
    BY <2>1, <2>2 DEF SubmitTransition
<1>4. RInv' /\ rows' = rows /\ UNCHANGED <<seals, jobs>>
  BY <1>3, UnmovedKeepsInv DEF SubmitTransition, SInv, responseVars, RInv, ResponseType, AttemptType
<1>5. PICK pc \in {"closing", "done"}, res \in SubmitResults :
        submit' = [submit EXCEPT ![m].pc = pc, ![m].res = res, ![m].receipt = it.receipt]
  <2>1. CASE submit' = [submit EXCEPT ![m].pc = "closing"]
    <3>1. submit' = [submit EXCEPT ![m].pc = "closing", ![m].res = it.res, ![m].receipt = it.receipt]
      BY <1>1, <2>1 DEF SInv, SubmitType, SubmitRecords
    <3>2. it.res \in SubmitResults
      BY DEF SubmitRecords
    <3> QED
      BY <3>1, <3>2
  <2>2. CASE FinishSubmit(m, "sealed")
    <3>1. submit' = [submit EXCEPT ![m].pc = "done", ![m].res = "sealed", ![m].receipt = it.receipt]
      BY <1>1, <2>2 DEF FinishSubmit, SInv, SubmitType, SubmitRecords
    <3> QED
      BY <3>1 DEF SubmitResults
  <2> QED
    BY <2>1, <2>2 DEF SubmitTransition
<1> QED
  BY <1>1, <1>2, <1>3, <1>4, <1>5, MovesOn DEF SubmitPcs, Sealing

\* The next answer of the batch is saved.
LEMMA FlushKeepsInv == ASSUME SInv, NEW m \in Submits, SubmitFlush(m) PROVE SInv'
<1>1. PICK it \in SubmitRecords : it = submit[m] /\ SubmitSound(it) /\ it.receipt \in seals \cup {NoSeal}
  BY DEF SInv, SubmitType, SubmitsSound, SealsSound
<1>2. it.batch \in Seq(Requests) /\ it.batch # <<>>
  BY <1>1 DEF SubmitFlush, SubmitRecords
<1>3. Head(it.batch) \in Requests /\ Tail(it.batch) \in Seq(Requests)
  BY <1>2
<1>4. RInv' /\ rows' = rows /\ (Healthy \/ Faulty) /\ UNCHANGED <<seals, jobs>>
  <2>1. m \in Saves /\ SaveBegin(m, Head(it.batch))
    BY <1>1, SubmitAssumption DEF SubmitFlush
  <2> QED
    BY <1>3, <2>1, BeginKeepsInv DEF SInv, SaveBegin, SubmitFlush
<1>5. AttemptType'
  BY <1>4, AttemptsUnmoved DEF SubmitFlush, SInv
<1> DEFINE me == [it EXCEPT !.pc = "flushing", !.batch = Tail(@)]
<1>6. /\ me \in SubmitRecords /\ me.pc = "flushing" /\ me.snap = it.snap
      /\ me.promise = it.promise /\ me.receipt = it.receipt
  BY <1>3 DEF SubmitRecords, SubmitPcs
<1>7. submit' = [submit EXCEPT ![m] = me]
  BY <1>1 DEF SubmitFlush, SInv, SubmitType
<1> HIDE DEF me
<1>8. SubmitSound(me)
  BY <1>1, <1>6 DEF SubmitSound
<1>9. SubmitSound(me)'
  BY <1>4, <1>8, SubmitSoundStays, FaultsStay DEF SInv, AttemptType
<1>10. submit[m].pc \notin Sealing
  BY DEF SubmitFlush, Sealing
<1> QED
  BY <1>1, <1>4, <1>5, <1>6, <1>7, <1>9, <1>10, SubmitKeepsInv

\* Its acknowledgement becomes part of the promise.
LEMMA FlushedKeepsInv == ASSUME SInv, NEW m \in Submits, SubmitFlushed(m) PROVE SInv'
<1>1. PICK it \in SubmitRecords : it = submit[m] /\ SubmitSound(it) /\ it.receipt \in seals \cup {NoSeal}
  BY DEF SInv, SubmitType, SubmitsSound, SealsSound
<1>2. m \in Saves
  BY SubmitAssumption
<1>3. IdleSave \in SaveRecords /\ SaveSound(IdleSave)
  BY DEF IdleSave, SaveRecords, SavePcs, SaveResults, SaveSound, UnderWay, RefusedAs
<1>4. RInv'
  <2>1. PICK me \in SaveRecords : me = IdleSave /\ SaveSound(me)
    BY <1>3
  <2>2. save' = [save EXCEPT ![m] = me] /\ UNCHANGED <<rows, open>> /\ Healthy
    BY <2>1 DEF SubmitFlushed
  <2> QED
    BY <1>2, <2>1, <2>2, SaveReads DEF SInv
<1>5. AttemptType' /\ Healthy /\ UNCHANGED <<rows, seals, jobs>>
  BY AttemptsUnmoved DEF SubmitFlushed, SInv
<1> DEFINE told == {[item |-> save[m].req.item, seq |-> save[m].highest]}
<1>6. PICK promise \in SUBSET Marks :
        /\ submit' = [submit EXCEPT ![m].pc = "flush", ![m].promise = promise]
        /\ PromiseKept(promise)
  <2>1. CASE save[m].res # "accepted"
    <3>1. submit' = [submit EXCEPT ![m].pc = "flush", ![m].promise = it.promise]
      BY <1>1, <2>1 DEF SubmitFlushed, SInv, SubmitType
    <3> QED
      BY <1>1, <3>1 DEF SubmitRecords, SubmitSound
  <2>2. CASE save[m].res = "accepted"
    <3>1. submit' = [submit EXCEPT ![m].pc = "flush", ![m].promise = it.promise \cup told]
      BY <1>1, <2>2 DEF SubmitFlushed, SInv, SubmitType
    <3>2. told \subseteq Acked
      BY <1>2, <2>2 DEF Acked
    <3>3. told \subseteq Marks /\ PromiseKept(told)
      BY <3>2, AckedKept DEF PromiseKept
    <3>4. it.promise \cup told \in SUBSET Marks /\ PromiseKept(it.promise \cup told)
      BY <1>1, <3>3 DEF PromiseKept, SubmitRecords, SubmitSound
    <3> QED
      BY <3>1, <3>4
  <2> QED
    BY <2>1, <2>2
<1> DEFINE me == [it EXCEPT !.pc = "flush", !.promise = promise]
<1>7. /\ me \in SubmitRecords /\ me.pc = "flush" /\ me.snap = it.snap
      /\ me.promise = promise /\ me.receipt = it.receipt
  BY DEF SubmitRecords, SubmitPcs
<1>8. submit' = [submit EXCEPT ![m] = me]
  BY <1>1, <1>6 DEF SInv, SubmitType
<1> HIDE DEF me
<1>9. SubmitSound(me)
  BY <1>1, <1>6, <1>7 DEF SubmitSound
<1>10. SubmitSound(me)'
  BY <1>5, <1>9, SubmitSoundStays, FaultsStay DEF SInv, AttemptType
<1>11. submit[m].pc \notin Sealing
  BY DEF SubmitFlushed, Sealing
<1> QED
  BY <1>1, <1>4, <1>5, <1>7, <1>8, <1>10, <1>11, SubmitKeepsInv

\* The final snapshot: one answer of each item, the newest of those stored.
LEMMA SnapshotSound ==
    ASSUME SInv
    PROVE  /\ FinalSnapshot \subseteq Answers
           /\ SnapSound(FinalSnapshot)
           /\ \A promise \in SUBSET Marks : PromiseKept(promise) => Covers(FinalSnapshot, promise)
<1> DEFINE Answer(row) == [item |-> row.item, seq |-> row.seq, val |-> row.val]
<1>1. \A row \in rows : row.item \in Items /\ row.seq \in Nat \ {0} /\ row.val \in Values
  BY DEF SInv, RInv, ResponseType
<1>2. \A e \in FinalSnapshot : \E row \in rows : row \in LatestOf(row.item) /\ e = Answer(row)
  BY DEF FinalSnapshot, LatestOf, RowsOf
<1>3. \A row, other \in rows :
        row \in LatestOf(row.item) /\ other \in LatestOf(other.item) /\ row.item = other.item
        => row = other
  <2> SUFFICES ASSUME NEW row \in rows, NEW other \in rows, row \in LatestOf(row.item),
                      other \in LatestOf(other.item), row.item = other.item
               PROVE  row = other
    OBVIOUS
  <2>1. row.seq <= other.seq /\ other.seq <= row.seq
    BY DEF LatestOf, RowsOf
  <2> QED
    BY <1>1, <2>1 DEF SInv, RInv, RowsApart
<1>4. FinalSnapshot \subseteq Answers
  BY <1>1, <1>2 DEF Answers
<1>5. SnapSound(FinalSnapshot)
  <2>1. ASSUME NEW e \in FinalSnapshot, NEW f \in FinalSnapshot, e.item = f.item
        PROVE  e = f
    BY <1>2, <1>3, <2>1
  <2>2. ASSUME NEW e \in FinalSnapshot
        PROVE  \E row \in RowsOf(e.item) : row.seq = e.seq /\ row.val = e.val
    BY <1>2 DEF RowsOf
  <2> QED
    BY <2>1, <2>2 DEF SnapSound
<1>6. ASSUME NEW promise \in SUBSET Marks, PromiseKept(promise), NEW p \in promise
      PROVE  \E e \in FinalSnapshot : e.item = p.item /\ e.seq >= p.seq
  <2>1. PICK row \in RowsOf(p.item) : row.seq = p.seq
    BY <1>6 DEF PromiseKept
  <2>2. p.item \in Items /\ LatestOf(p.item) # {}
    BY <2>1 DEF Marks, SInv, NewestExists
  <2>3. PICK last \in LatestOf(p.item) : last.seq >= row.seq /\ last.item = p.item
    BY <1>1, <2>1, <2>2 DEF LatestOf, RowsOf
  <2>4. Answer(last) \in FinalSnapshot
    BY <2>2, <2>3 DEF FinalSnapshot
  <2> QED
    BY <2>1, <2>3, <2>4
<1> QED
  BY <1>4, <1>5, <1>6 DEF Covers

\* The answers are listed: from here on the list covers the promise.
LEMMA ListKeepsInv == ASSUME SInv, NEW m \in Submits, SubmitList(m) PROVE SInv'
<1>1. PICK it \in SubmitRecords : it = submit[m] /\ SubmitSound(it) /\ it.receipt \in seals \cup {NoSeal}
  BY DEF SInv, SubmitType, SubmitsSound, SealsSound
<1>2. /\ UNCHANGED <<status, epoch, lease, call, responseVars, seals, jobs>>
      /\ Healthy \/ Faulty
  BY DEF SubmitList
<1>3. AttemptType' /\ RInv' /\ rows' = rows
  BY <1>2, SavesUnmoved
<1>4. PICK snap \in SUBSET Answers :
        /\ Listed(m, snap)
        /\ SnapSound(snap)
        /\ faults' = 0 => Covers(snap, it.promise)
  <2>1. CASE Healthy /\ Listed(m, FinalSnapshot)
    <3>1. it.promise \in SUBSET Marks /\ PromiseKept(it.promise)
      BY <1>1 DEF SubmitRecords, SubmitSound
    <3>2. FinalSnapshot \in SUBSET Answers /\ SnapSound(FinalSnapshot) /\ Covers(FinalSnapshot, it.promise)
      BY <3>1, SnapshotSound
    <3> QED
      BY <2>1, <3>2
  <2>2. CASE Faulty /\ Listed(m, {})
    <3>1. faults' # 0 /\ SnapSound({})
      BY <2>2 DEF Faulty, SInv, RInv, FaultsType, SnapSound
    <3> QED
      BY <2>2, <3>1
  <2> QED
    BY <2>1, <2>2 DEF SubmitList
<1>5. PICK pc \in {"check", "done"}, res \in {"none", "preview"} :
        submit' = [submit EXCEPT ![m].pc = pc, ![m].res = res, ![m].snap = snap]
  BY <1>4 DEF Listed
<1> DEFINE me == [it EXCEPT !.pc = pc, !.res = res, !.snap = snap]
<1>6. /\ me \in SubmitRecords /\ me.snap = snap /\ me.promise = it.promise
      /\ me.receipt = it.receipt
  BY DEF SubmitRecords, SubmitPcs, SubmitResults
<1>7. submit' = [submit EXCEPT ![m] = me]
  BY <1>1, <1>5 DEF SInv, SubmitType
<1> HIDE DEF me
<1>8. SubmitSound(me)'
  <2>1. SnapSound(me.snap)' /\ PromiseKept(me.promise)'
    BY <1>1, <1>3, <1>4, <1>6, ListsStay DEF SubmitSound
  <2>2. faults' = 0 => Covers(me.snap, me.promise)'
    BY <1>4, <1>6 DEF Covers
  <2> QED
    BY <2>1, <2>2 DEF SubmitSound
<1>9. submit[m].pc \notin Sealing
  BY DEF SubmitList, Sealing
<1> QED
  BY <1>1, <1>2, <1>3, <1>6, <1>7, <1>8, <1>9, SubmitKeepsInv

\* The seal: the first one, with its job and the list that covers the promise.
LEMMA InsertSealKeepsInv == ASSUME SInv, NEW m \in Submits, SubmitInsert(m) PROVE SInv'
<1>1. PICK it \in SubmitRecords : it = submit[m] /\ SubmitSound(it) /\ it.pc = "insert"
  BY DEF SubmitInsert, SInv, SubmitType, SubmitsSound
<1>2. PICK seal \in Seals : seal = SealOf(m) /\ seal.by = m /\ seal.snap = it.snap
  <2>1. SealOf(m) = [by |-> m, snap |-> it.snap]
    BY <1>1 DEF SealOf
  <2>2. it.snap \in SUBSET Answers
    BY DEF SubmitRecords
  <2>3. [by |-> m, snap |-> it.snap] \in Seals
    BY <2>2 DEF Seals
  <2> QED
    BY <2>1, <2>3
<1>3. seals = {} /\ seals' = {seal} /\ jobs' = {m}
  <2>1. seals = {} /\ seals' = seals \cup {seal} /\ jobs' = jobs \cup {m}
    BY <1>2 DEF SubmitInsert, SealTaken
  <2>2. jobs = {x.by : x \in seals}
    BY DEF SInv, SealsSound
  <2> QED
    BY <2>1, <2>2
<1>4. AttemptType' /\ RInv' /\ rows' = rows /\ (Healthy \/ Faulty)
  BY SavesUnmoved DEF SubmitInsert
<1>5. faults' = 0 => faults = 0
  BY <1>4, FaultsStay DEF SInv, AttemptType
<1>6. \A n \in Submits : submit[n].receipt = NoSeal
  BY <1>3 DEF SInv, SealsSound
<1>7. PICK me \in SubmitRecords :
        /\ submit' = [submit EXCEPT ![m] = me]
        /\ me.pc \in {"submitting", "done"} /\ me.receipt \in {seal, NoSeal}
        /\ me.snap = it.snap /\ me.promise = it.promise
  <2>1. CASE submit' = [submit EXCEPT ![m].pc = "submitting", ![m].receipt = SealOf(m)]
    <3> DEFINE me == [it EXCEPT !.pc = "submitting", !.receipt = seal]
    <3>1. me \in SubmitRecords /\ me.pc = "submitting" /\ me.receipt = seal
          /\ me.snap = it.snap /\ me.promise = it.promise
      BY DEF SubmitRecords, SubmitPcs
    <3>2. submit' = [submit EXCEPT ![m] = me]
      BY <1>1, <1>2, <2>1 DEF SInv, SubmitType
    <3> QED
      BY <3>1, <3>2
  <2>2. CASE FinishSubmit(m, "error")
    <3> DEFINE me == [it EXCEPT !.pc = "done", !.res = "error"]
    <3>1. me \in SubmitRecords /\ me.pc = "done" /\ me.receipt = it.receipt
          /\ me.snap = it.snap /\ me.promise = it.promise
      BY DEF SubmitRecords, SubmitPcs, SubmitResults
    <3>2. submit' = [submit EXCEPT ![m] = me]
      BY <1>1, <2>2 DEF FinishSubmit, SInv, SubmitType
    <3> QED
      BY <1>1, <1>6, <3>1, <3>2
  <2> QED
    BY <2>1, <2>2 DEF SubmitInsert
<1>8. \A n \in Submits : submit'[n] = IF n = m THEN me ELSE submit[n]
  BY <1>7 DEF SInv, SubmitType
<1>9. SubmitType'
  BY <1>2, <1>3, <1>7 DEF SInv, SubmitType
<1>10. SubmitsSound'
  <2>1. ASSUME NEW n \in Submits PROVE SubmitSound(submit[n])'
    <3>1. PICK old \in SubmitRecords : old = submit[n] /\ SubmitSound(old)'
      BY <1>4, <1>5, SubmitSoundStays DEF SInv, SubmitsSound, SubmitType
    <3>2. CASE n # m
      <4>1. submit'[n] = old
        BY <1>8, <3>1, <3>2
      <4> QED
        BY <3>1, <4>1
    <3>3. CASE n = m
      <4>1. submit'[n] = me /\ old = it
        BY <1>1, <1>8, <3>1, <3>3
      <4> QED
        BY <1>7, <3>1, <4>1 DEF SubmitSound
    <3> QED
      BY <3>2, <3>3
  <2> QED
    BY <2>1 DEF SubmitsSound
<1>11. SealsSound'
  <2>1. jobs' = {x.by : x \in seals'}
    BY <1>2, <1>3
  <2>2. \A n \in Submits : submit'[n].receipt \in seals' \cup {NoSeal}
    BY <1>3, <1>6, <1>7, <1>8
  <2>3. SnapSound(seal.snap)'
    BY <1>1, <1>2, <1>4, ListsStay DEF SubmitSound
  <2>4. submit'[seal.by] = me /\ me.pc \in Sealing
    BY <1>2, <1>7, <1>8 DEF Sealing
  <2>5. faults' = 0 => Covers(seal.snap, me.promise)
    BY <1>1, <1>2, <1>5, <1>7 DEF SubmitSound
  <2> QED
    BY <1>3, <2>1, <2>2, <2>3, <2>4, <2>5 DEF SealsSound, Covers
<1>12. NewestExists'
  BY <1>4, NewestUnmoved DEF SInv
<1> QED
  BY <1>4, <1>9, <1>10, <1>11, <1>12 DEF SInv
-----------------------------------------------------------------------------
(* Theorems.                                                               *)

LEMMA SubmitStarts == Init => SInv
<1> SUFFICES ASSUME Init PROVE SInv
  OBVIOUS
<1>1. RInv
  BY ResponseStarts DEF Init
<1>2. AttemptType
  BY <1>1 DEF Init, RInv, AttemptType, IdleCall, CallPcs, CallResults, Statuses
<1>3. IdleSubmit \in SubmitRecords
  BY DEF IdleSubmit, SubmitRecords, SubmitPcs, SubmitResults
<1>4. SubmitType
  BY <1>3 DEF Init, SubmitType
<1>5. SealsSound
  <2>1. \A m \in Submits : submit[m].receipt = NoSeal
    BY DEF Init, IdleSubmit
  <2>2. jobs = {x.by : x \in seals}
    BY DEF Init
  <2> QED
    BY <2>1, <2>2 DEF Init, SealsSound
<1>6. SubmitsSound
  BY DEF Init, IdleSubmit, SubmitsSound, SubmitSound, SnapSound, PromiseKept
<1>7. NewestExists
  BY DEF Init, ResponseInit, NewestExists, RowsOf
<1> QED
  BY <1>1, <1>2, <1>4, <1>5, <1>6, <1>7 DEF SInv

LEMMA SubmitSteps == SInv /\ [Next]_vars => SInv'
<1> SUFFICES ASSUME SInv, [Next]_vars PROVE SInv'
  OBVIOUS
<1>1. CASE SubmitNext
  <2>1. ASSUME NEW m \in Submits, NEW batch \in Batches, NEW confirmed \in BOOLEAN,
               SubmitRead(m, batch, confirmed)
        PROVE  SInv'
    BY <2>1, ReadKeepsInv
  <2>2. ASSUME NEW m \in Submits, SubmitStep(m) PROVE SInv'
    BY <2>2, PlainStepKeepsInv, TransitionKeepsInv, FlushKeepsInv, FlushedKeepsInv, ListKeepsInv,
       InsertSealKeepsInv DEF SubmitStep
  <2> QED
    BY <1>1, <2>1, <2>2 DEF SubmitNext
<1>2. CASE UNCHANGED vars
  <2>1. Healthy /\ UNCHANGED <<status, epoch, lease, call, responseVars, submitVars>>
    BY <1>2 DEF vars, attemptVars, Healthy
  <2>2. AttemptType' /\ RInv' /\ rows' = rows
    BY <2>1, SavesUnmoved
  <2> QED
    BY <2>1, <2>2, OthersKeepSubmits, NewestUnmoved DEF SInv, Healthy
<1> QED
  BY <1>1, <1>2, SaveNextKeepsInv, CallNextKeepsInv DEF Next, Quiet

LEMMA SubmitInvariance == Spec => []SInv
BY SubmitStarts, SubmitSteps, PTL DEF Spec

\* Every reachable state has the documented shape.
THEOREM SubmitTyped == Spec => []TypeOK
<1>1. SInv => TypeOK
  BY DEF SInv, RInv, SubmitType, SubmitRecords, TypeOK
<1> QED
  BY <1>1, SubmitInvariance, PTL

\* However many submits race, retry or lose their answer: one seal, one job,
\* one receipt, made of stored answers.
THEOREM SealIsOne == Spec => []OneSealOneReceipt
<1>1. SInv => OneSealOneReceipt
  BY DEF SInv, SealsSound, SnapSound, OneSealOneReceipt
<1> QED
  BY <1>1, SubmitInvariance, PTL

\* While the database answers, the seal holds what the student was told.
THEOREM PromisesAreSealed == Spec => []SealKeepsPromises
<1>1. SInv => SealKeepsPromises
  BY DEF SInv, SealsSound, Covers, SealKeepsPromises
<1> QED
  BY <1>1, SubmitInvariance, PTL
=============================================================================
