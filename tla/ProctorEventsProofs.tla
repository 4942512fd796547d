------------------------- MODULE ProctorEventsProofs -------------------------
(***************************************************************************)
(* Proofs about ProctorEvents, for any incidents, batches, other calls,    *)
(* thresholds, bounds and any number of failures, losses and reloads.      *)
(***************************************************************************)
EXTENDS ProctorEvents, AttemptTransitionProofs, SequenceTheorems, FiniteSetTheorems

-----------------------------------------------------------------------------
(* Sequences as the collector handles them.                                *)

LEMMA SeqElements ==
    ASSUME NEW S, NEW s \in Seq(S)
    PROVE  ToSet(s) \subseteq S /\ IsFiniteSet(ToSet(s))
<1>1. s \in [1..Len(s) -> S] /\ DOMAIN s = 1..Len(s) /\ Len(s) \in Nat
  BY LenProperties
<1>2. IsFiniteSet(DOMAIN s)
  BY <1>1, FS_Interval
<1>3. s \in Surjection(DOMAIN s, ToSet(s))
  BY <1>1 DEF Surjection, ToSet
<1> QED
  BY <1>1, <1>2, <1>3, FS_Surjection DEF ToSet

LEMMA ConcatElements ==
    ASSUME NEW S, NEW s \in Seq(S), NEW t \in Seq(S)
    PROVE  s \o t \in Seq(S) /\ ToSet(s \o t) = ToSet(s) \cup ToSet(t)
<1>1. /\ s \o t \in Seq(S) /\ Len(s \o t) = Len(s) + Len(t)
      /\ \A i \in 1..(Len(s) + Len(t)) :
            (s \o t)[i] = IF i <= Len(s) THEN s[i] ELSE t[i - Len(s)]
  BY ConcatProperties
<1>2. /\ DOMAIN s = 1..Len(s) /\ DOMAIN t = 1..Len(t) /\ Len(s) \in Nat /\ Len(t) \in Nat
      /\ DOMAIN (s \o t) = 1..(Len(s) + Len(t))
  BY <1>1, LenProperties
<1>3. ASSUME NEW i \in 1..Len(t) PROVE t[i] = (s \o t)[i + Len(s)] /\ i + Len(s) \in 1..(Len(s) + Len(t))
  BY <1>1, <1>2
<1>4. ASSUME NEW i \in 1..Len(s) PROVE s[i] = (s \o t)[i] /\ i \in 1..(Len(s) + Len(t))
  BY <1>1, <1>2
<1>5. ASSUME NEW i \in 1..(Len(s) + Len(t))
      PROVE  (s \o t)[i] \in ToSet(s) \cup ToSet(t)
  <2>1. i > Len(s) => i - Len(s) \in 1..Len(t)
    BY <1>2
  <2> QED
    BY <1>1, <1>2, <2>1 DEF ToSet
<1>6. ToSet(s \o t) \subseteq ToSet(s) \cup ToSet(t)
  BY <1>2, <1>5 DEF ToSet
<1>7. ToSet(s) \subseteq ToSet(s \o t) /\ ToSet(t) \subseteq ToSet(s \o t)
  BY <1>2, <1>3, <1>4 DEF ToSet
<1> QED
  BY <1>1, <1>6, <1>7

LEMMA AppendElements ==
    ASSUME NEW S, NEW s \in Seq(S), NEW e \in S
    PROVE  /\ Append(s, e) \in Seq(S)
           /\ Len(Append(s, e)) = Len(s) + 1
           /\ Len(s) \in Nat
           /\ \A i \in 1..Len(s) : Append(s, e)[i] = s[i]
           /\ Append(s, e)[Len(s) + 1] = e
           /\ ToSet(Append(s, e)) = ToSet(s) \cup {e}
<1>1. /\ Append(s, e) \in Seq(S) /\ Len(Append(s, e)) = Len(s) + 1 /\ Len(s) \in Nat
      /\ \A i \in 1..Len(s) : Append(s, e)[i] = s[i]
      /\ Append(s, e)[Len(s) + 1] = e
  OBVIOUS
<1>2. DOMAIN Append(s, e) = 1..(Len(s) + 1) /\ DOMAIN s = 1..Len(s)
  BY <1>1
<1>3. 1..(Len(s) + 1) = (1..Len(s)) \cup {Len(s) + 1}
  BY <1>1
<1>4. ToSet(Append(s, e)) = ToSet(s) \cup {e}
  BY <1>1, <1>2, <1>3 DEF ToSet
<1> QED
  BY <1>1, <1>4

LEMMA HeadTailElements ==
    ASSUME NEW S, NEW s \in Seq(S), s # <<>>
    PROVE  /\ Head(s) \in S /\ Tail(s) \in Seq(S)
           /\ ToSet(s) = {Head(s)} \cup ToSet(Tail(s))
<1>1. /\ Head(s) \in S /\ Tail(s) \in Seq(S) /\ Len(Tail(s)) = Len(s) - 1
      /\ \A i \in 1..Len(Tail(s)) : Tail(s)[i] = s[i + 1]
      /\ Head(s) = s[1] /\ Len(s) \in Nat \ {0}
  BY HeadTailProperties, EmptySeq
<1>2. DOMAIN s = 1..Len(s) /\ DOMAIN Tail(s) = 1..(Len(s) - 1)
  BY <1>1
<1>3. ASSUME NEW i \in 1..Len(s) PROVE s[i] \in {Head(s)} \cup ToSet(Tail(s))
  <2>1. i # 1 => i - 1 \in 1..(Len(s) - 1) /\ s[i] = Tail(s)[i - 1]
    BY <1>1
  <2> QED
    BY <1>1, <1>2, <2>1 DEF ToSet
<1>4. ASSUME NEW i \in 1..(Len(s) - 1) PROVE Tail(s)[i] \in ToSet(s)
  <2>1. i + 1 \in 1..Len(s) /\ Tail(s)[i] = s[i + 1]
    BY <1>1
  <2> QED
    BY <1>2, <2>1 DEF ToSet
<1>5. Head(s) \in ToSet(s)
  BY <1>1, <1>2 DEF ToSet
<1>6. ToSet(s) \subseteq {Head(s)} \cup ToSet(Tail(s))
  BY <1>2, <1>3 DEF ToSet
<1>7. ToSet(Tail(s)) \subseteq ToSet(s)
  BY <1>2, <1>4 DEF ToSet
<1> QED
  BY <1>1, <1>5, <1>6, <1>7

LEMMA SubSeqElements ==
    ASSUME NEW S, NEW s \in Seq(S), NEW m \in Nat \ {0}, NEW n \in Nat, n <= Len(s)
    PROVE  /\ SubSeq(s, m, n) \in Seq(S)
           /\ ToSet(SubSeq(s, m, n)) = {s[i] : i \in m..n}
<1>1. /\ Len(s) \in Nat
      /\ DOMAIN s = 1..Len(s) /\ \A i \in 1..Len(s) : s[i] \in S
  BY LenProperties
<1>2. \A i \in m..n : i \in 1..Len(s)
  BY <1>1
<1>3. PICK part : part = SubSeq(s, m, n)
  OBVIOUS
<1>4. /\ part \in Seq(S) /\ Len(part) = (IF m <= n THEN n - m + 1 ELSE 0)
      /\ \A i \in 1..(n - m + 1) : part[i] = s[m + i - 1]
  BY <1>1, <1>2, <1>3, SubSeqProperties
<1>5. DOMAIN part = 1..Len(part)
  BY <1>4, LenProperties
<1>6. ASSUME NEW i \in m..n PROVE s[i] \in ToSet(part)
  <2>1. /\ m <= n /\ i - m + 1 \in 1..(n - m + 1) /\ m + (i - m + 1) - 1 = i
    OBVIOUS
  <2>2. part[i - m + 1] = s[i] /\ i - m + 1 \in DOMAIN part
    BY <1>4, <1>5, <2>1
  <2> QED
    BY <2>2 DEF ToSet
<1>7. ASSUME NEW i \in DOMAIN part PROVE part[i] \in {s[j] : j \in m..n}
  <2>1. m <= n /\ i \in 1..(n - m + 1)
    BY <1>4, <1>5
  <2>2. m + i - 1 \in m..n /\ part[i] = s[m + i - 1]
    BY <1>4, <2>1
  <2> QED
    BY <2>2
<1>8. ToSet(part) \subseteq {s[i] : i \in m..n}
  BY <1>7 DEF ToSet
<1>9. {s[i] : i \in m..n} \subseteq ToSet(part)
  BY <1>6
<1> QED
  BY <1>3, <1>4, <1>8, <1>9

\* A buffer is the batch taken off it and the rest.
LEMMA FlushElements ==
    ASSUME NEW S, NEW s \in Seq(S), NEW n \in Nat
    PROVE  /\ FirstN(s, n) \in Seq(S)
           /\ SubSeq(s, n + 1, Len(s)) \in Seq(S)
           /\ ToSet(s) = ToSet(FirstN(s, n)) \cup ToSet(SubSeq(s, n + 1, Len(s)))
<1>1. PICK len \in Nat : /\ len = Len(s) /\ DOMAIN s = 1..len
  BY LenProperties
<1>2. ToSet(s) = {s[i] : i \in 1..len}
  BY <1>1 DEF ToSet
<1>3. /\ SubSeq(s, n + 1, len) \in Seq(S)
      /\ ToSet(SubSeq(s, n + 1, len)) = {s[i] : i \in (n + 1)..len}
  BY <1>1, SubSeqElements
<1>4. CASE len < n
  <2>1. FirstN(s, n) = SubSeq(s, 1, len)
    BY <1>1, <1>4 DEF FirstN
  <2>2. SubSeq(s, 1, len) \in Seq(S) /\ ToSet(SubSeq(s, 1, len)) = {s[i] : i \in 1..len}
    BY <1>1, SubSeqElements
  <2>3. (n + 1)..len = {}
    BY <1>4
  <2> QED
    BY <1>1, <1>2, <1>3, <2>1, <2>2, <2>3
<1>5. CASE ~(len < n)
  <2>1. FirstN(s, n) = SubSeq(s, 1, n)
    BY <1>1, <1>5 DEF FirstN
  <2>2. n <= Len(s)
    BY <1>1, <1>5
  <2>3. SubSeq(s, 1, n) \in Seq(S) /\ ToSet(SubSeq(s, 1, n)) = {s[i] : i \in 1..n}
    BY <2>2, SubSeqElements
  <2>4. 1..len = (1..n) \cup ((n + 1)..len)
    BY <1>5
  <2> QED
    BY <1>1, <1>2, <1>3, <2>1, <2>3, <2>4
<1> QED
  BY <1>4, <1>5

-----------------------------------------------------------------------------
(* The inductive invariant of the evidence, whatever fails.                *)

\* The events any post carried.
Posted == UNION {ToSet(batch[b].evs) : b \in Batches}

Rows == [ev : Event, by : Batches, prev : Hashes, hash : Hashes, level : Levels]

BatchRecords(n) ==
    [pc : BatchPcs, evs : Seq(Event), waits : BOOLEAN, ok : BOOLEAN, epoch : Nat,
     stored : 0..n, strikes : 0..n, prev : Hashes, left : Seq(Event),
     kept : SUBSET Event, terminated : BOOLEAN]

PageType ==
    /\ next \in 1..(Len(Incidents) + 1)
    /\ seq \in 0..Len(Incidents)
    /\ buffer \in Seq(Event)
    /\ pageEpoch \in Nat
    /\ reloads \in 0..MaxReloads /\ losses \in 0..MaxLosses
    /\ seq < next

EvidenceType ==
    /\ log \in Seq(Rows)
    /\ batch \in [Batches -> BatchRecords(Len(log))]

\* A batch handles and inserts what it carries, nothing before it has read the
\* log, and no strike of an incident that a row it read counted.
BatchSound(me) ==
    /\ me.pc = "idle" => me.evs = <<>>
    /\ me.pc \notin {"events", "done"} => me.kept = {} /\ ~me.terminated
    /\ me.kept \subseteq ToSet(me.evs)
    /\ ToSet(me.left) \subseteq ToSet(me.evs)
    /\ \A e \in me.kept, n \in 1..me.strikes :
          Strike(e) /\ Strike(log[n].ev) => ~SameIncident(e, log[n].ev)

\* A row was inserted by its batch, after all that the batch had read.
RowSound(n) ==
    /\ n > batch[log[n].by].stored /\ n > batch[log[n].by].strikes
    /\ log[n].ev \in batch[log[n].by].kept
    /\ log[n].hash = <<log[n].by, log[n].ev.seq>>

\* uq_proctor_attempt_device_seq
NumbersApart == \A m, n \in 1..Len(log) : log[m].ev.seq = log[n].ev.seq => m = n

EvidenceSound ==
    /\ NumbersApart
    /\ \A b \in Batches : BatchSound(batch[b])
    /\ \A n \in 1..Len(log) : RowSound(n)
    /\ IsFiniteSet(Posted)
    /\ VerdictBacked

EInv == AttemptType /\ PageType /\ EvidenceType /\ EvidenceSound
-----------------------------------------------------------------------------
(* Steps that leave the log alone.                                         *)

LEMMA TypesSplit == TypeOK /\ seq < next <=> AttemptType /\ PageType /\ EvidenceType
BY DEF TypeOK, PageType, EvidenceType, Rows, BatchRecords

\* What such a step may do to a batch.
Moved(me, new) ==
    /\ new.kept = me.kept /\ new.terminated = me.terminated
    /\ me.pc = "idle" \/ new.evs = me.evs
    /\ new.pc = "idle" => me.pc = "idle" /\ new.evs = me.evs
    /\ ToSet(new.left) \subseteq ToSet(new.evs)
    /\ me.pc \in {"events", "done"} =>
          new.pc \in {"events", "done"} /\ new.stored = me.stored /\ new.strikes = me.strikes

LEMMA RowTyped ==
    ASSUME EvidenceType, NEW n \in 1..Len(log)
    PROVE  log[n] \in Rows /\ log[n].by \in Batches /\ log[n].ev \in Event
<1>1. log[n] \in Rows
  BY DEF EvidenceType
<1> QED
  BY <1>1 DEF Rows

\* The batches post no fewer events than before.
LEMMA PostedGrows ==
    ASSUME EInv, \A b \in Batches : Moved(batch[b], batch'[b])
    PROVE  Posted \subseteq Posted'
<1>1. ASSUME NEW b \in Batches PROVE ToSet(batch[b].evs) \subseteq ToSet(batch'[b].evs)
  <2>1. CASE batch[b].pc = "idle"
    <3>1. batch[b].evs = <<>>
      BY <2>1 DEF EInv, EvidenceSound, BatchSound
    <3>2. ToSet(batch[b].evs) = {}
      BY <3>1 DEF ToSet
    <3> QED
      BY <3>2
  <2> QED
    BY <2>1 DEF Moved
<1> QED
  BY <1>1 DEF Posted

\* Three strikes stay three when more is posted.
LEMMA VerdictStays ==
    ASSUME IsFiniteSet(Posted'), Posted \subseteq Posted',
           Cardinality({e \in Posted : Strike(e)}) >= 3
    PROVE  Cardinality({e \in Posted : Strike(e)}') >= 3
<1> DEFINE before == {e \in Posted : Strike(e)}
           after == {e \in Posted' : Strike(e)}
<1>1. IsFiniteSet(after)
  BY FS_Subset
<1>2. before \in SUBSET after
  OBVIOUS
<1>3. Cardinality(before) <= Cardinality(after) /\ IsFiniteSet(before)
  BY <1>1, <1>2, FS_Subset
<1>4. Cardinality(before) \in Nat /\ Cardinality(after) \in Nat
  BY <1>1, <1>3, FS_CardinalityType
<1>5. Cardinality(after) >= 3
  BY <1>3, <1>4
<1>6. {e \in Posted : Strike(e)}' = after
  BY DEF Strike
<1> QED
  BY <1>5, <1>6

LEMMA BatchesMove ==
    ASSUME EInv, log' = log, batch' \in [Batches -> BatchRecords(Len(log))],
           \A b \in Batches : Moved(batch[b], batch'[b]),
           IsFiniteSet(Posted')
    PROVE  EvidenceType' /\ EvidenceSound'
<1>1. EvidenceType'
  BY DEF EInv, EvidenceType
<1>2. NumbersApart'
  BY DEF EInv, EvidenceSound, NumbersApart
<1>3. ASSUME NEW b \in Batches PROVE BatchSound(batch[b])'
  <2>1. PICK me, new : me = batch[b] /\ new = batch'[b] /\ Moved(me, new) /\ BatchSound(me)
    BY DEF EInv, EvidenceSound
  <2>2. new.pc = "idle" => new.evs = <<>>
    BY <2>1 DEF Moved, BatchSound
  <2>3. new.pc \notin {"events", "done"} => new.kept = {} /\ ~new.terminated
    BY <2>1 DEF Moved, BatchSound
  <2>4. new.kept \subseteq ToSet(new.evs) /\ ToSet(new.left) \subseteq ToSet(new.evs)
    BY <2>1 DEF Moved, BatchSound
  <2>5. \A e \in new.kept, n \in 1..new.strikes :
           Strike(e) /\ Strike(log[n].ev) => ~SameIncident(e, log[n].ev)
    BY <2>1 DEF Moved, BatchSound
  <2> QED
    BY <2>1, <2>2, <2>3, <2>4, <2>5 DEF BatchSound
<1>4. ASSUME NEW n \in 1..Len(log) PROVE RowSound(n)'
  <2>1. log[n].by \in Batches
    BY RowTyped DEF EInv
  <2>2. PICK me, new : /\ me = batch[log[n].by] /\ new = batch'[log[n].by]
                       /\ Moved(me, new) /\ BatchSound(me)
    BY <2>1 DEF EInv, EvidenceSound
  <2>3. /\ n > me.stored /\ n > me.strikes /\ log[n].ev \in me.kept
        /\ log[n].hash = <<log[n].by, log[n].ev.seq>>
    BY <2>2 DEF EInv, EvidenceSound, RowSound
  <2>4. n > new.stored /\ n > new.strikes /\ log[n].ev \in new.kept
    BY <2>2, <2>3 DEF Moved, BatchSound
  <2> QED
    BY <2>2, <2>3, <2>4 DEF RowSound
<1>5. VerdictBacked'
  <2>1. SUFFICES ASSUME (\E b \in Batches : batch[b].terminated)'
                 PROVE  Cardinality({e \in Posted : Strike(e)}') >= 3
    BY DEF VerdictBacked, Posted
  <2>2. \E b \in Batches : batch[b].terminated
    BY <2>1 DEF Moved
  <2>3. Cardinality({e \in Posted : Strike(e)}) >= 3
    BY <2>2 DEF EInv, EvidenceSound, VerdictBacked, Posted
  <2> QED
    BY <2>3, PostedGrows, VerdictStays
<1> QED
  BY <1>1, <1>2, <1>3, <1>4, <1>5 DEF EvidenceSound

\* One batch moves.
LEMMA OneMoves ==
    ASSUME EInv, log' = log, NEW b \in Batches, NEW me \in BatchRecords(Len(log)),
           batch' = [batch EXCEPT ![b] = me], Moved(batch[b], me)
    PROVE  EvidenceType' /\ EvidenceSound'
<1>1. batch' \in [Batches -> BatchRecords(Len(log))]
  BY DEF EInv, EvidenceType
<1>2. ASSUME NEW c \in Batches PROVE Moved(batch[c], batch'[c])
  <2>1. batch'[c] = IF c = b THEN me ELSE batch[c]
    BY DEF EInv, EvidenceType
  <2>2. ToSet(batch[c].left) \subseteq ToSet(batch[c].evs)
    BY DEF EInv, EvidenceSound, BatchSound
  <2> QED
    BY <2>1, <2>2 DEF Moved
<1>3. IsFiniteSet(Posted')
  <2>1. Posted' \subseteq Posted \cup ToSet(me.evs)
    BY DEF EInv, EvidenceType, Posted
  <2>2. me.evs \in Seq(Event)
    BY DEF BatchRecords
  <2>3. IsFiniteSet(Posted \cup ToSet(me.evs))
    BY <2>2, SeqElements, FS_Union DEF EInv, EvidenceSound
  <2> QED
    BY <2>1, <2>3, FS_Subset
<1> QED
  BY <1>1, <1>2, <1>3, BatchesMove

LEMMA EvidenceUnmoved ==
    ASSUME EInv, UNCHANGED <<batch, log>>
    PROVE  EvidenceType' /\ EvidenceSound'
<1>1. ASSUME NEW b \in Batches PROVE Moved(batch[b], batch'[b])
  BY DEF EInv, EvidenceSound, BatchSound, Moved
<1>2. IsFiniteSet(Posted')
  <2>1. Posted' = Posted
    BY DEF Posted
  <2> QED
    BY <2>1 DEF EInv, EvidenceSound
<1>3. log' = log /\ batch' \in [Batches -> BatchRecords(Len(log))]
  BY DEF EInv, EvidenceType
<1> QED
  BY <1>1, <1>2, <1>3, BatchesMove

\* What a flush does to a batch and to the buffer.
LEMMA FlushMoves ==
    ASSUME EInv, log' = log, NEW b \in Batches, NEW buf \in Seq(Event), Flush(b, buf)
    PROVE  EvidenceType' /\ EvidenceSound' /\ buffer' \in Seq(Event)
<1>1. PICK it \in BatchRecords(Len(log)) : it = batch[b]
  BY DEF EInv, EvidenceType
<1>2. FirstN(buf, MaxBuffer) \in Seq(Event) /\ buffer' \in Seq(Event)
  BY FlushElements, ProctorAssumption DEF Flush
<1>3. PICK evs \in Seq(Event) : evs = FirstN(buf, MaxBuffer)
  BY <1>2
<1> DEFINE me == [it EXCEPT !.pc = "attempt", !.waits = TRUE, !.evs = evs]
<1>4. me \in BatchRecords(Len(log))
  BY DEF BatchRecords, BatchPcs
<1>5. batch' = [batch EXCEPT ![b] = me]
  BY <1>1, <1>3 DEF Flush, EInv, EvidenceType
<1>6. Moved(batch[b], me)
  <2>1. it.pc = "idle" /\ it.evs = <<>> /\ ToSet(it.left) \subseteq ToSet(it.evs)
    BY <1>1 DEF Flush, EInv, EvidenceSound, BatchSound
  <2>2. ToSet(<<>>) = {}
    BY DEF ToSet
  <2>3. ToSet(it.left) = {}
    BY <2>1, <2>2
  <2> QED
    BY <1>1, <2>1, <2>3 DEF Moved, BatchRecords
<1> QED
  BY <1>2, <1>4, <1>5, <1>6, OneMoves

\* Only what the page waits for, and whether the request is over, changes.
LEMMA WaitMoves ==
    ASSUME EInv, log' = log, NEW b \in Batches,
           NEW waits \in BOOLEAN, NEW pc \in BatchPcs,
           pc = batch[b].pc \/ pc = "done",
           batch' = [batch EXCEPT ![b].waits = waits, ![b].pc = pc]
    PROVE  EvidenceType' /\ EvidenceSound'
<1>1. PICK it \in BatchRecords(Len(log)) : it = batch[b]
  BY DEF EInv, EvidenceType
<1> DEFINE me == [it EXCEPT !.waits = waits, !.pc = pc]
<1>2. me \in BatchRecords(Len(log))
  BY DEF BatchRecords
<1>3. batch' = [batch EXCEPT ![b] = me]
  BY <1>1 DEF EInv, EvidenceType
<1>4. Moved(batch[b], me)
  <2>1. ToSet(it.left) \subseteq ToSet(it.evs)
    BY <1>1 DEF EInv, EvidenceSound, BatchSound
  <2> QED
    BY <1>1, <2>1 DEF Moved, BatchRecords
<1> QED
  BY <1>2, <1>3, <1>4, OneMoves

LEMMA PostTyped ==
    ASSUME EvidenceType, PageType, NEW b \in Batches
    PROVE  /\ batch[b].evs \in Seq(Event) /\ batch[b].pc \in BatchPcs
           /\ Restore(batch[b].evs) \in Seq(Event)
           /\ \A n \in Nat : FirstN(Restore(batch[b].evs), n) \in Seq(Event)
<1>1. batch[b].evs \in Seq(Event) /\ batch[b].pc \in BatchPcs
  BY DEF EvidenceType, BatchRecords
<1>2. Restore(batch[b].evs) \in Seq(Event)
  BY <1>1 DEF Restore, PageType
<1> QED
  BY <1>1, <1>2, FlushElements

LEMMA RecordKeepsEInv == ASSUME EInv, Record PROVE EInv'
<1>1. AttemptType'
  BY AttemptsUnmoved DEF EInv, Record
<1>2. /\ next \in Nat /\ next <= Len(Incidents) /\ seq \in Nat /\ seq < next
      /\ Incidents[next] \in [focus : BOOLEAN, at : Nat, dur : Nat]
      /\ Len(Incidents) \in Nat
  <2>1. Len(Incidents) \in Nat /\ Incidents \in Seq([focus : BOOLEAN, at : Nat, dur : Nat])
    BY ProctorAssumption
  <2>2. /\ next \in 1..(Len(Incidents) + 1) /\ seq \in 0..Len(Incidents) /\ seq < next
        /\ next <= Len(Incidents)
    BY DEF EInv, PageType, Record
  <2>3. next \in 1..Len(Incidents) /\ seq \in Nat
    BY <2>1, <2>2
  <2>4. Incidents[next] \in [focus : BOOLEAN, at : Nat, dur : Nat]
    BY <2>1, <2>3, ElementOfSeq
  <2> QED
    BY <2>1, <2>2, <2>3, <2>4
<1>3. PICK i \in [focus : BOOLEAN, at : Nat, dur : Nat] : i = Incidents[next]
  BY <1>2
<1>4. PICK e \in Event : e = [seq |-> seq + 1, focus |-> i.focus, at |-> i.at, dur |-> i.dur,
                             epoch |-> pageEpoch]
  <2>1. seq + 1 \in Nat \ {0} /\ pageEpoch \in Nat
    BY <1>2 DEF EInv, PageType
  <2>2. i.focus \in BOOLEAN /\ i.at \in Nat /\ i.dur \in Nat
    OBVIOUS
  <2> QED
    BY <2>1, <2>2 DEF Event
<1>5. Append(buffer, e) \in Seq(Event)
  BY DEF EInv, PageType
<1>6. EvidenceType' /\ EvidenceSound' /\ buffer' \in Seq(Event)
  <2>1. CASE buffer' = Append(buffer, e) /\ UNCHANGED batch
    <3>1. UNCHANGED <<batch, log>>
      BY <2>1 DEF Record
    <3> QED
      BY <1>5, <2>1, <3>1, EvidenceUnmoved
  <2>2. CASE \E b \in Batches : Flush(b, Append(buffer, e))
    <3>1. log' = log
      BY DEF Record
    <3> QED
      BY <1>5, <2>2, <3>1, FlushMoves
  <2> QED
    BY <1>3, <1>4, <2>1, <2>2 DEF Record
<1>7. PageType'
  BY <1>2, <1>6 DEF EInv, PageType, Record
<1> QED
  BY <1>1, <1>6, <1>7 DEF EInv

LEMMA OnlineKeepsEInv == ASSUME EInv, Online PROVE EInv'
<1>1. AttemptType'
  BY AttemptsUnmoved DEF EInv, Online
<1>2. buffer \in Seq(Event) /\ log' = log /\ \E b \in Batches : Flush(b, buffer)
  BY DEF EInv, PageType, Online
<1>3. EvidenceType' /\ EvidenceSound' /\ buffer' \in Seq(Event)
  BY <1>2, FlushMoves
<1>4. PageType'
  BY <1>3 DEF EInv, PageType, Online
<1> QED
  BY <1>1, <1>3, <1>4 DEF EInv

LEMMA LostKeepsEInv == ASSUME EInv, NEW b \in Batches, Lost(b) PROVE EInv'
<1>1. AttemptType'
  BY AttemptsUnmoved DEF EInv, Lost
<1>2. /\ log' = log
      /\ \E pc \in BatchPcs : /\ pc = batch[b].pc \/ pc = "done"
                              /\ batch' = [batch EXCEPT ![b].waits = FALSE, ![b].pc = pc]
  <2>1. CASE batch' = [batch EXCEPT ![b].waits = FALSE]
    <3>1. batch' = [batch EXCEPT ![b].waits = FALSE, ![b].pc = batch[b].pc]
      BY <2>1 DEF EInv, EvidenceType, BatchRecords
    <3> QED
      BY <3>1, PostTyped DEF Lost, EInv
  <2>2. CASE batch' = [batch EXCEPT ![b].waits = FALSE, ![b].pc = "done"]
    BY <2>2 DEF Lost, BatchPcs
  <2> QED
    BY <2>1, <2>2 DEF Lost
<1>3. EvidenceType' /\ EvidenceSound'
  BY <1>2, WaitMoves
<1>4. buffer' \in Seq(Event)
  BY PostTyped DEF Lost, EInv
<1>5. losses' \in 0..MaxLosses
  BY ProctorAssumption DEF Lost, EInv, PageType
<1>6. PageType'
  BY <1>4, <1>5 DEF EInv, PageType, Lost
<1> QED
  BY <1>1, <1>3, <1>6 DEF EInv

LEMMA AnsweredKeepsEInv == ASSUME EInv, NEW b \in Batches, Answered(b) PROVE EInv'
<1>1. AttemptType'
  BY AttemptsUnmoved DEF EInv, Answered
<1>2. /\ log' = log /\ "done" \in BatchPcs
      /\ batch' = [batch EXCEPT ![b].waits = FALSE, ![b].pc = "done"]
  BY DEF Answered, EInv, EvidenceType, BatchRecords, BatchPcs
<1>3. EvidenceType' /\ EvidenceSound'
  BY <1>2, WaitMoves
<1>4. 3 * MaxBuffer \in Nat
  BY ProctorAssumption
<1>5. buffer' \in Seq(Event)
  BY <1>4, PostTyped DEF Answered, EInv, PageType
<1>6. PageType'
  BY <1>5 DEF EInv, PageType, Answered
<1> QED
  BY <1>1, <1>3, <1>6 DEF EInv

LEMMA ReloadKeepsEInv == ASSUME EInv, Reload PROVE EInv'
<1>1. AttemptType'
  BY AttemptsUnmoved DEF EInv, Reload
<1>2. /\ log' = log
      /\ batch' = [b \in Batches |-> [batch[b] EXCEPT !.waits = FALSE]]
  BY DEF Reload
<1>3. ASSUME NEW b \in Batches
      PROVE  /\ batch'[b] \in BatchRecords(Len(log))
             /\ Moved(batch[b], batch'[b]) /\ batch'[b].evs = batch[b].evs
  <2>1. PICK it \in BatchRecords(Len(log)) : it = batch[b]
    BY DEF EInv, EvidenceType
  <2>2. batch'[b] = [it EXCEPT !.waits = FALSE]
    BY <1>2, <2>1
  <2>3. ToSet(it.left) \subseteq ToSet(it.evs)
    BY <2>1 DEF EInv, EvidenceSound, BatchSound
  <2> QED
    BY <2>1, <2>2, <2>3 DEF Moved, BatchRecords
<1>4. Posted' = Posted
  BY <1>3 DEF Posted
<1>5. IsFiniteSet(Posted')
  BY <1>4 DEF EInv, EvidenceSound
<1>6. batch' \in [Batches -> BatchRecords(Len(log))]
  BY <1>2, <1>3
<1>7. EvidenceType' /\ EvidenceSound'
  BY <1>2, <1>3, <1>5, <1>6, BatchesMove
<1>8. <<>> \in Seq(Event) /\ epoch[Attempt] \in Nat /\ reloads' \in 0..MaxReloads
  BY ProctorAssumption DEF EInv, PageType, Reload, AttemptType
<1>9. PageType'
  BY <1>8, ProctorAssumption DEF EInv, PageType, Reload
<1> QED
  BY <1>1, <1>7, <1>9 DEF EInv

-----------------------------------------------------------------------------
(* recordProctorEvents.                                                    *)

\* What was read of proctor_events is a number of its rows.
LEMMA ReadKeepsEInv ==
    ASSUME EInv, NEW b \in Batches,
           ReadAttempt(b) \/ ReadStored(b) \/ ReadStrikes(b) \/ ReadTail(b),
           UNCHANGED <<status, epoch, lease, call, pageVars, log>>
    PROVE  EInv'
<1>1. AttemptType'
  <2>1. Healthy \/ Faulty
    BY DEF ReadAttempt, ReadStored, ReadStrikes, ReadTail, RowsRead
  <2> QED
    BY <2>1, AttemptsUnmoved DEF EInv
<1>2. PageType'
  BY DEF EInv, PageType, pageVars
<1>3. PICK it \in BatchRecords(Len(log)) : it = batch[b]
  BY DEF EInv, EvidenceType
<1>4. Len(log) \in Nat /\ \A n \in {0, Len(log)} : n \in 0..Len(log)
  BY DEF EInv, EvidenceType
<1>5. BatchSound(it) /\ \A n \in {0, Len(log)} : (IF n = 0 THEN NoHash ELSE log[n].hash) \in Hashes
  <2>1. ASSUME NEW n \in {0, Len(log)}, n # 0 PROVE log[n].hash \in Hashes
    <3>1. n \in 1..Len(log)
      BY <1>4, <2>1
    <3> QED
      BY <3>1, RowTyped DEF Rows, EInv
  <2> QED
    BY <1>3, <2>1 DEF EInv, EvidenceSound, Hashes
<1>6. PICK me \in BatchRecords(Len(log)) : batch' = [batch EXCEPT ![b] = me] /\ Moved(it, me)
  <2> USE DEF EInv, EvidenceType
  <2>1. CASE ReadAttempt(b) /\ batch[b].pc = "attempt"
    <3>1. epoch[Attempt] \in Nat
      BY ProctorAssumption DEF AttemptType
    <3>2. CASE batch' = [batch EXCEPT ![b].pc = "stored", ![b].epoch = epoch[Attempt]]
      <4> DEFINE me == [it EXCEPT !.pc = "stored", !.epoch = epoch[Attempt]]
      <4>1. me \in BatchRecords(Len(log)) /\ batch' = [batch EXCEPT ![b] = me]
        BY <1>3, <3>1, <3>2 DEF BatchRecords, BatchPcs
      <4>2. Moved(it, me)
        BY <1>3, <1>5, <2>1 DEF Moved, BatchSound, BatchRecords
      <4> QED
        BY <4>1, <4>2
    <3>3. CASE batch' = [batch EXCEPT ![b].pc = "done", ![b].ok = FALSE]
      <4> DEFINE me == [it EXCEPT !.pc = "done", !.ok = FALSE]
      <4>1. me \in BatchRecords(Len(log)) /\ batch' = [batch EXCEPT ![b] = me]
        BY <1>3, <3>3 DEF BatchRecords, BatchPcs
      <4>2. Moved(it, me)
        BY <1>3, <1>5, <2>1 DEF Moved, BatchSound, BatchRecords
      <4> QED
        BY <4>1, <4>2
    <3> QED
      BY <2>1, <3>2, <3>3 DEF ReadAttempt
  <2>2. CASE ReadStored(b) /\ batch[b].pc = "stored"
    <3>1. PICK n \in {0, Len(log)} : batch' = [batch EXCEPT ![b].pc = "strikes", ![b].stored = n]
      BY <2>2 DEF ReadStored
    <3> DEFINE me == [it EXCEPT !.pc = "strikes", !.stored = n]
    <3>2. me \in BatchRecords(Len(log)) /\ batch' = [batch EXCEPT ![b] = me]
      BY <1>3, <1>4, <3>1 DEF BatchRecords, BatchPcs
    <3>3. Moved(it, me)
      BY <1>3, <1>5, <2>2 DEF Moved, BatchSound, BatchRecords
    <3> QED
      BY <3>2, <3>3
  <2>3. CASE ReadStrikes(b) /\ batch[b].pc = "strikes"
    <3>1. PICK n \in {0, Len(log)} : batch' = [batch EXCEPT ![b].pc = "tail", ![b].strikes = n]
      BY <2>3 DEF ReadStrikes
    <3> DEFINE me == [it EXCEPT !.pc = "tail", !.strikes = n]
    <3>2. me \in BatchRecords(Len(log)) /\ batch' = [batch EXCEPT ![b] = me]
      BY <1>3, <1>4, <3>1 DEF BatchRecords, BatchPcs
    <3>3. Moved(it, me)
      BY <1>3, <1>5, <2>3 DEF Moved, BatchSound, BatchRecords
    <3> QED
      BY <3>2, <3>3
  <2>4. CASE ReadTail(b) /\ batch[b].pc = "tail"
    <3>1. PICK n \in {0, Len(log)}, hash \in Hashes :
                batch' = [batch EXCEPT ![b].pc = "events", ![b].left = batch[b].evs,
                                       ![b].prev = hash]
      BY <1>5, <2>4 DEF ReadTail
    <3> DEFINE me == [it EXCEPT !.pc = "events", !.left = it.evs, !.prev = hash]
    <3>2. me \in BatchRecords(Len(log)) /\ batch' = [batch EXCEPT ![b] = me]
      BY <1>3, <3>1 DEF BatchRecords, BatchPcs
    <3>3. Moved(it, me)
      BY <1>3, <1>5, <2>4 DEF Moved, BatchSound, BatchRecords
    <3> QED
      BY <3>2, <3>3
  <2> QED
    BY <2>1, <2>2, <2>3, <2>4 DEF ReadAttempt, ReadStored, ReadStrikes, ReadTail
<1>7. EvidenceType' /\ EvidenceSound'
  BY <1>3, <1>6, OneMoves
<1> QED
  BY <1>1, <1>2, <1>7 DEF EInv

LEMMA DropKeepsEInv ==
    ASSUME EInv, NEW b \in Batches, DropEvent(b) \/ RecordDone(b),
           UNCHANGED <<status, epoch, lease, call, pageVars>>
    PROVE  EInv'
<1>1. AttemptType'
  BY AttemptsUnmoved DEF EInv, DropEvent, RecordDone
<1>2. PageType' /\ log' = log
  BY DEF EInv, PageType, pageVars, DropEvent, RecordDone
<1>3. PICK it \in BatchRecords(Len(log)) : it = batch[b]
  BY DEF EInv, EvidenceType
<1>4. BatchSound(it) /\ it.pc = "events"
  BY <1>3 DEF EInv, EvidenceSound, DropEvent, RecordDone, AtEvents
<1>5. CASE DropEvent(b)
  <2>1. it.left \in Seq(Event) /\ it.left # <<>>
    BY <1>3, <1>5 DEF DropEvent, BatchRecords
  <2>2. Tail(it.left) \in Seq(Event) /\ ToSet(Tail(it.left)) \subseteq ToSet(it.left)
    BY <2>1, HeadTailElements
  <2> DEFINE me == [it EXCEPT !.left = Tail(it.left)]
  <2>3. me \in BatchRecords(Len(log)) /\ batch' = [batch EXCEPT ![b] = me]
    BY <1>3, <1>5, <2>2 DEF DropEvent, BatchRecords, EInv, EvidenceType
  <2>4. Moved(batch[b], me)
    BY <1>3, <1>4, <2>2 DEF Moved, BatchSound, BatchRecords
  <2>5. EvidenceType' /\ EvidenceSound'
    BY <1>2, <2>3, <2>4, OneMoves
  <2> QED
    BY <1>1, <1>2, <2>5 DEF EInv
<1>6. CASE RecordDone(b)
  <2> DEFINE me == [it EXCEPT !.pc = "done", !.ok = TRUE]
  <2>1. me \in BatchRecords(Len(log)) /\ batch' = [batch EXCEPT ![b] = me]
    BY <1>3, <1>6 DEF RecordDone, BatchRecords, BatchPcs, EInv, EvidenceType
  <2>2. Moved(batch[b], me)
    BY <1>3, <1>4 DEF Moved, BatchSound, BatchRecords
  <2>3. EvidenceType' /\ EvidenceSound'
    BY <1>2, <2>1, <2>2, OneMoves
  <2> QED
    BY <1>1, <1>2, <2>3 DEF EInv
<1> QED
  BY <1>5, <1>6

LEMMA DiesKeepsEInv == ASSUME EInv, NEW b \in Batches, RecordDies(b) PROVE EInv'
<1>1. AttemptType'
  <2>1. CASE call' = call
    BY <2>1, AttemptsUnmoved DEF EInv, RecordDies
  <2>2. CASE call' = [call EXCEPT ![b].pc = "done"]
    <3>1. FaultsType'
      BY FaultsStay DEF EInv, AttemptType, RecordDies
    <3> DEFINE Records == [pc : CallPcs, att : Attempts \cup {NoAttempt},
                           to : Statuses \cup {"none"}, epoch : Nat, res : CallResults]
    <3>2. call \in [Calls -> Records] /\ b \in Calls
      BY ProctorAssumption DEF EInv, AttemptType
    <3>3. PICK it \in Records : it = call[b]
      BY <3>2
    <3>4. [it EXCEPT !.pc = "done"] \in Records
      BY DEF CallPcs
    <3>5. call' = [call EXCEPT ![b] = [it EXCEPT !.pc = "done"]]
      BY <2>2, <3>2, <3>3
    <3>6. call' \in [Calls -> Records]
      BY <3>2, <3>4, <3>5
    <3> QED
      BY <3>1, <3>6 DEF EInv, AttemptType, RecordDies
  <2> QED
    BY <2>1, <2>2 DEF RecordDies
<1>2. /\ log' = log /\ "done" \in BatchPcs
      /\ batch' = [batch EXCEPT ![b].waits = FALSE, ![b].pc = "done"]
  <2>1. log' = log
    BY DEF RecordDies
  <2>2. batch' = [batch EXCEPT ![b].waits = FALSE, ![b].pc = "done"]
    BY DEF RecordDies, EInv, EvidenceType, BatchRecords
  <2> QED
    BY <2>1, <2>2 DEF BatchPcs
<1>3. EvidenceType' /\ EvidenceSound'
  BY <1>2, WaitMoves
<1>4. buffer' \in Seq(Event)
  BY PostTyped DEF RecordDies, EInv, PageType
<1>5. PageType'
  BY <1>4 DEF EInv, PageType, RecordDies
<1> QED
  BY <1>1, <1>3, <1>5 DEF EInv

\* Terminate and the other calls leave the evidence alone.
LEMMA CallsKeepEInv ==
    ASSUME EInv, AttemptType', UNCHANGED <<pageVars, batch, log>>
    PROVE  EInv'
<1>1. PageType' /\ UNCHANGED <<batch, log>>
  BY DEF EInv, PageType, pageVars
<1> QED
  BY <1>1, EvidenceUnmoved DEF EInv

-----------------------------------------------------------------------------
(* KeepEvent: an event that is not dropped.                                *)

StrikesPosted == {e \in Posted : Strike(e)}

LEMMA IncidentSymmetric ==
    ASSUME NEW e \in Event, NEW c \in Event
    PROVE  SameIncident(e, e) /\ (SameIncident(e, c) <=> SameIncident(c, e))
BY ProctorAssumption DEF Event, SameIncident

\* What confirmedCount counts are different posted strikes: the rows that were
\* read have different numbers, and an event that counted in this batch is of no
\* incident of theirs.
LEMMA ConfirmedArePosted ==
    ASSUME EInv, NEW b \in Batches
    PROVE  /\ ConfirmedSoFar(b) \subseteq StrikesPosted
           /\ IsFiniteSet(ConfirmedSoFar(b))
           /\ ConfirmedCount(b) = Cardinality(ConfirmedSoFar(b))
           /\ ConfirmedCount(b) \in Nat
<1> DEFINE before == ConfirmedBefore(b)
           read == {log[n].ev : n \in before}
           own == {e \in batch[b].kept : Strike(e)}
<1>1. PICK it \in BatchRecords(Len(log)) : it = batch[b] /\ BatchSound(it)
  BY DEF EInv, EvidenceType, EvidenceSound
<1>2. Len(log) \in Nat /\ it.strikes \in 0..Len(log)
  BY DEF EInv, EvidenceType, BatchRecords
<1>3. before \in SUBSET (1..Len(log)) /\ \A n \in before : Strike(log[n].ev) /\ n \in 1..it.strikes
  BY <1>1, <1>2 DEF ConfirmedBefore
<1>4. IsFiniteSet(before)
  <2> HIDE DEF before
  <2>1. IsFiniteSet(1..Len(log))
    BY <1>2, FS_Interval
  <2> QED
    BY <1>3, <2>1, FS_Subset
<1>5. Cardinality(read) = Cardinality(before) /\ IsFiniteSet(read)
  <2> DEFINE f == [n \in before |-> log[n].ev]
  <2> HIDE DEF before
  <2>1. f \in Surjection(before, read)
    BY DEF Surjection
  <2>2. \A m, n \in before : f[m] = f[n] => m = n
    BY <1>3 DEF EInv, EvidenceSound, NumbersApart
  <2>3. f \in Injection(before, read)
    BY <2>1, <2>2 DEF Injection, IsInjective, Surjection
  <2>4. f \in Bijection(before, read)
    BY <2>1, <2>3 DEF Bijection
  <2>5. ExistsBijection(before, read)
    BY <2>4 DEF ExistsBijection
  <2> QED
    BY <1>4, <2>5, FS_Bijection
<1>6. own \subseteq StrikesPosted
  BY <1>1 DEF BatchSound, StrikesPosted, Posted
<1>7. read \subseteq StrikesPosted
  <2>1. ASSUME NEW n \in before PROVE log[n].ev \in StrikesPosted
    <3>1. n \in 1..Len(log) /\ log[n].by \in Batches /\ Strike(log[n].ev)
      BY <1>3, RowTyped DEF EInv
    <3>2. log[n].ev \in ToSet(batch[log[n].by].evs)
      BY <3>1 DEF EInv, EvidenceSound, RowSound, BatchSound
    <3> QED
      BY <3>1, <3>2 DEF StrikesPosted, Posted
  <2> QED
    BY <2>1
<1>8. IsFiniteSet(own)
  <2>1. own \in SUBSET Posted
    BY <1>6 DEF StrikesPosted
  <2> QED
    BY <2>1, FS_Subset DEF EInv, EvidenceSound
<1>9. own \cap read = {}
  <2>1. SUFFICES ASSUME NEW n \in before, log[n].ev \in own PROVE FALSE
    OBVIOUS
  <2>2. log[n].ev \in Event /\ Strike(log[n].ev)
    BY <1>3, <2>1, RowTyped DEF EInv
  <2>3. ~SameIncident(log[n].ev, log[n].ev)
    BY <1>1, <1>3, <2>1 DEF BatchSound
  <2> QED
    BY <2>2, <2>3, IncidentSymmetric
<1>10. ConfirmedSoFar(b) = own \cup read
  BY DEF ConfirmedSoFar
<1>11. Cardinality(own) \in Nat /\ Cardinality(read) \in Nat
  BY <1>5, <1>8, FS_CardinalityType
<1>12. /\ IsFiniteSet(own \cup read)
       /\ Cardinality(own \cup read) = Cardinality(own) + Cardinality(read) - 0
  <2> HIDE DEF own, read
  <2>1. Cardinality(own \cap read) = 0
    BY <1>9, FS_EmptySet
  <2> QED
    BY <1>5, <1>8, <2>1, FS_Union
<1>13. ConfirmedCount(b) = Cardinality(before) + Cardinality(own)
  BY DEF ConfirmedCount
<1> QED
  BY <1>5, <1>6, <1>7, <1>10, <1>11, <1>12, <1>13

\* A third one makes three posted strikes.
LEMMA ThirdIsBacked ==
    ASSUME EInv, NEW b \in Batches, NEW e \in ToSet(batch[b].evs), e \in Event,
           ~Dropped(b, e), EventLevel(b, e) = "terminated"
    PROVE  Cardinality(StrikesPosted) >= 3
<1>1. /\ ConfirmedSoFar(b) \subseteq StrikesPosted
      /\ IsFiniteSet(ConfirmedSoFar(b))
      /\ ConfirmedCount(b) = Cardinality(ConfirmedSoFar(b))
      /\ ConfirmedCount(b) \in Nat
  BY ConfirmedArePosted
<1>2. Strike(e) /\ ConfirmedCount(b) + 1 >= 3
  BY <1>1 DEF EventLevel, Level
<1>3. e \notin ConfirmedSoFar(b)
  BY <1>2, IncidentSymmetric DEF Dropped
<1>4. e \in StrikesPosted
  BY <1>2 DEF StrikesPosted, Posted
<1>5. /\ IsFiniteSet(ConfirmedSoFar(b) \cup {e})
      /\ Cardinality(ConfirmedSoFar(b) \cup {e}) = ConfirmedCount(b) + 1
  BY <1>1, <1>3, FS_AddElement
<1>6. IsFiniteSet(StrikesPosted)
  <2>1. StrikesPosted \in SUBSET Posted
    BY DEF StrikesPosted
  <2> QED
    BY <2>1, FS_Subset DEF EInv, EvidenceSound
<1>7. /\ Cardinality(ConfirmedSoFar(b) \cup {e}) <= Cardinality(StrikesPosted)
      /\ Cardinality(StrikesPosted) \in Nat
  <2>1. ConfirmedSoFar(b) \cup {e} \in SUBSET StrikesPosted
    BY <1>1, <1>4
  <2> QED
    BY <1>6, <2>1, FS_Subset, FS_CardinalityType
<1> QED
  BY <1>1, <1>2, <1>5, <1>7

\* The row that KeepEvent may insert, and what it makes of its batch.
RowOf(b, e) ==
    [ev |-> e, by |-> b, prev |-> batch[b].prev, hash |-> <<b, e.seq>>,
     level |-> EventLevel(b, e)]

Kept(b, e) ==
    [batch[b] EXCEPT !.left = Tail(batch[b].left), !.kept = batch[b].kept \cup {e},
                     !.prev = <<b, e.seq>>,
                     !.terminated = batch[b].terminated \/ EventLevel(b, e) = "terminated"]

NewNumber(e) == \A n \in 1..Len(log) : log[n].ev.seq # e.seq

LEMMA KeepFacts ==
    ASSUME EInv, NEW b \in Batches, KeepEvent(b)
    PROVE  \E e \in Event :
              /\ batch[b].pc = "events" /\ e \in ToSet(batch[b].left) /\ ~Dropped(b, e)
              /\ RowOf(b, e) \in Rows
              /\ Kept(b, e) \in BatchRecords(Len(log))
              /\ ToSet(batch[b].left) = {e} \cup ToSet(Tail(batch[b].left))
              /\ ToSet(Tail(batch[b].left)) \subseteq ToSet(batch[b].left)
              /\ batch' = [batch EXCEPT ![b] = Kept(b, e)]
              /\ \/ log' = log /\ (Faulty \/ (Healthy /\ ~NewNumber(e)))
                 \/ log' = Append(log, RowOf(b, e)) /\ NewNumber(e)
<1>1. PICK it \in BatchRecords(Len(log)) : it = batch[b]
  BY DEF EInv, EvidenceType
<1>2. it.left \in Seq(Event) /\ it.left # <<>> /\ it.pc = "events"
  BY <1>1 DEF BatchRecords, KeepEvent, AtEvents
<1>3. /\ Head(it.left) \in Event /\ Tail(it.left) \in Seq(Event)
      /\ ToSet(Tail(it.left)) \subseteq ToSet(it.left) /\ Head(it.left) \in ToSet(it.left)
      /\ ToSet(it.left) = {Head(it.left)} \cup ToSet(Tail(it.left))
  BY <1>2, HeadTailElements
<1>4. PICK e \in Event : e = Head(it.left)
  BY <1>3
<1>5. EventLevel(b, e) \in Levels /\ it.prev \in Hashes /\ <<b, e.seq>> \in Hashes
  BY <1>4 DEF EventLevel, Level, Levels, BatchRecords, Hashes, Event
<1>6. RowOf(b, e) \in Rows
  BY <1>1, <1>5 DEF RowOf, Rows
<1>7. Kept(b, e) \in BatchRecords(Len(log))
  <2> DEFINE terminated == it.terminated \/ EventLevel(b, e) = "terminated"
             kept == it.kept \cup {e}
  <2>1. terminated \in BOOLEAN /\ kept \in SUBSET Event
    BY DEF BatchRecords
  <2>2. Kept(b, e) = [it EXCEPT !.left = Tail(it.left), !.kept = kept,
                                !.prev = <<b, e.seq>>, !.terminated = terminated]
    BY <1>1 DEF Kept
  <2> HIDE DEF terminated, kept
  <2> QED
    BY <1>3, <1>5, <2>1, <2>2 DEF BatchRecords
<1>8. batch' = [batch EXCEPT ![b] = Kept(b, e)]
  <2>1. batch' = [batch EXCEPT ![b].left = Tail(batch[b].left),
                               ![b].kept = batch[b].kept \cup {e},
                               ![b].prev = <<b, e.seq>>,
                               ![b].terminated = batch[b].terminated \/ EventLevel(b, e) = "terminated"]
    BY <1>1, <1>4 DEF KeepEvent, NextPrev
  <2> QED
    BY <2>1 DEF Kept, EInv, EvidenceType
<1>9. ~Dropped(b, e)
  BY <1>1, <1>4 DEF KeepEvent
<1>10. \/ log' = log /\ (Faulty \/ (Healthy /\ ~NewNumber(e)))
       \/ log' = Append(log, RowOf(b, e)) /\ NewNumber(e)
  <2>1. e = Head(batch[b].left)
    BY <1>1, <1>4
  <2> DEFINE inserted == IF NewNumber(e) THEN Append(log, RowOf(b, e)) ELSE log
  <2>2. \/ Healthy /\ log' = inserted
        \/ Faulty /\ log' \in {log, inserted}
    BY <2>1 DEF KeepEvent, RowOf, NewNumber
  <2> QED
    BY <2>2
<1> QED
  BY <1>1, <1>2, <1>3, <1>4, <1>6, <1>7, <1>8, <1>9, <1>10

\* The log as it was, and perhaps the new row.
LEMMA LogGrows ==
    ASSUME EInv, NEW row \in Rows, log' = log \/ log' = Append(log, row)
    PROVE  /\ log' \in Seq(Rows) /\ Len(log) \in Nat /\ Len(log') \in Nat
           /\ Len(log) <= Len(log') /\ Len(log') <= Len(log) + 1
           /\ \A n \in 1..Len(log) : log'[n] = log[n]
           /\ \A n \in 1..Len(log') : n \in 1..Len(log) \/ (n = Len(log) + 1 /\ log'[n] = row)
           /\ log' = Append(log, row) => Len(log') = Len(log) + 1
<1>1. log \in Seq(Rows)
  BY DEF EInv, EvidenceType
<1>2. CASE log' = log
  BY <1>1, <1>2
<1>3. CASE log' = Append(log, row)
  BY <1>1, <1>3, AppendElements
<1> QED
  BY <1>2, <1>3

LEMMA KeepKeepsEInv ==
    ASSUME EInv, NEW b \in Batches, KeepEvent(b),
           UNCHANGED <<status, epoch, lease, call, pageVars>>
    PROVE  EInv'
<1>1. AttemptType' /\ PageType'
  <2>1. Healthy \/ Faulty
    BY DEF KeepEvent
  <2> QED
    BY <2>1, AttemptsUnmoved DEF EInv, PageType, pageVars
<1>2. PICK e \in Event :
            /\ batch[b].pc = "events" /\ e \in ToSet(batch[b].left) /\ ~Dropped(b, e)
            /\ RowOf(b, e) \in Rows
            /\ Kept(b, e) \in BatchRecords(Len(log))
            /\ ToSet(Tail(batch[b].left)) \subseteq ToSet(batch[b].left)
            /\ batch' = [batch EXCEPT ![b] = Kept(b, e)]
            /\ \/ log' = log /\ (Faulty \/ (Healthy /\ ~NewNumber(e)))
               \/ log' = Append(log, RowOf(b, e)) /\ NewNumber(e)
  BY KeepFacts
<1>3. PICK it \in BatchRecords(Len(log)) : it = batch[b] /\ BatchSound(it)
  BY DEF EInv, EvidenceType, EvidenceSound
<1>4. PICK me \in BatchRecords(Len(log)) : me = Kept(b, e)
  BY <1>2
<1>5. /\ me.pc = it.pc /\ me.evs = it.evs /\ me.stored = it.stored /\ me.strikes = it.strikes
      /\ me.kept = it.kept \cup {e} /\ me.left = Tail(it.left)
      /\ me.terminated => it.terminated \/ EventLevel(b, e) = "terminated"
  BY <1>3, <1>4 DEF Kept, BatchRecords
<1>6. PICK row \in Rows : row = RowOf(b, e)
  BY <1>2
<1>7. row.ev = e /\ row.by = b /\ row.hash = <<b, e.seq>>
  BY <1>6 DEF RowOf
<1>8. /\ log' \in Seq(Rows) /\ Len(log) \in Nat /\ Len(log') \in Nat
      /\ Len(log) <= Len(log') /\ Len(log') <= Len(log) + 1
      /\ \A n \in 1..Len(log) : log'[n] = log[n]
      /\ \A n \in 1..Len(log') : n \in 1..Len(log) \/ (n = Len(log) + 1 /\ log'[n] = row)
      /\ log' = Append(log, row) => Len(log') = Len(log) + 1
  BY <1>2, <1>6, LogGrows
<1>9. /\ \A c \in Batches : batch'[c] = IF c = b THEN me ELSE batch[c]
      /\ batch \in [Batches -> BatchRecords(Len(log))]
  BY <1>2, <1>4 DEF EInv, EvidenceType
<1>10. EvidenceType'
  <2>1. \A me2 \in BatchRecords(Len(log)) : me2 \in BatchRecords(Len(log'))
    BY <1>8, SMTT(30) DEF BatchRecords
  <2>2. batch' \in [Batches -> BatchRecords(Len(log'))]
    BY <1>2, <1>4, <1>9, <2>1
  <2> QED
    BY <1>8, <2>2 DEF EvidenceType
<1>11. e \in ToSet(it.evs)
  BY <1>2, <1>3 DEF BatchSound
<1>12. ASSUME NEW c \in Batches PROVE BatchSound(batch[c])'
  <2>1. CASE c # b
    <3>1. PICK other \in BatchRecords(Len(log)) : other = batch[c] /\ BatchSound(other)
      BY DEF EInv, EvidenceType, EvidenceSound
    <3>2. \A n \in 1..other.strikes : log'[n] = log[n]
      BY <1>8, SMTT(30) DEF BatchRecords
    <3>3. other = batch'[c]
      BY <1>9, <2>1, <3>1
    <3>4. \A x \in other.kept, n \in 1..other.strikes :
             Strike(x) /\ Strike(log'[n].ev) => ~SameIncident(x, log'[n].ev)
      BY <3>1, <3>2 DEF BatchSound
    <3> QED
      BY <3>1, <3>3, <3>4 DEF BatchSound
  <2>2. CASE c = b
    <3>1. \A n \in 1..it.strikes : log'[n] = log[n]
      BY <1>8 DEF BatchRecords
    <3>2. ASSUME NEW n \in 1..it.strikes, Strike(e), Strike(log[n].ev)
          PROVE  ~SameIncident(e, log[n].ev)
      <4>1. n \in ConfirmedBefore(b)
        BY <1>3, <3>2 DEF ConfirmedBefore
      <4>2. log[n].ev \in ConfirmedSoFar(b)
        BY <4>1 DEF ConfirmedSoFar
      <4> QED
        BY <1>2, <3>2, <4>2 DEF Dropped
    <3>3. \A x \in me.kept, n \in 1..me.strikes :
             Strike(x) /\ Strike(log'[n].ev) => ~SameIncident(x, log'[n].ev)
      BY <1>3, <1>5, <3>1, <3>2 DEF BatchSound
    <3>4. /\ me.kept \subseteq ToSet(me.evs) /\ ToSet(me.left) \subseteq ToSet(me.evs)
          /\ me.pc = "events"
      BY <1>2, <1>3, <1>5, <1>11 DEF BatchSound
    <3>5. me = batch'[c]
      BY <1>9, <2>2
    <3> QED
      BY <3>3, <3>4, <3>5 DEF BatchSound
  <2> QED
    BY <2>1, <2>2
<1>13. ASSUME NEW n \in 1..Len(log') PROVE RowSound(n)'
  <2>1. CASE n \in 1..Len(log)
    <3>1. log'[n] = log[n] /\ log[n].by \in Batches
      BY <1>8, <2>1, RowTyped DEF EInv
    <3>2. /\ batch'[log[n].by].stored = batch[log[n].by].stored
          /\ batch'[log[n].by].strikes = batch[log[n].by].strikes
          /\ batch[log[n].by].kept \subseteq batch'[log[n].by].kept
      BY <1>3, <1>5, <1>9, <3>1
    <3>3. RowSound(n)
      BY <2>1 DEF EInv, EvidenceSound
    <3> QED
      BY <3>1, <3>2, <3>3 DEF RowSound
  <2>2. CASE n = Len(log) + 1 /\ log'[n] = row
    <3>1. n > me.stored /\ n > me.strikes
      BY <1>8, <2>2 DEF BatchRecords
    <3> QED
      BY <1>5, <1>7, <1>9, <2>2, <3>1 DEF RowSound
  <2> QED
    BY <1>8, <2>1, <2>2
<1>14. NumbersApart'
  <2>1. CASE log' = log
    BY <2>1 DEF EInv, EvidenceSound, NumbersApart
  <2>2. CASE log' = Append(log, row) /\ NewNumber(e)
    <3> SUFFICES ASSUME NEW m \in 1..Len(log'), NEW n \in 1..Len(log'),
                        log'[m].ev.seq = log'[n].ev.seq
                 PROVE  m = n
      BY DEF NumbersApart
    <3>1. CASE m \in 1..Len(log) /\ n \in 1..Len(log)
      BY <1>8, <3>1 DEF EInv, EvidenceSound, NumbersApart
    <3>2. CASE m \in 1..Len(log) /\ n = Len(log) + 1 /\ log'[n] = row
      BY <1>7, <1>8, <2>2, <3>2 DEF NewNumber
    <3>3. CASE n \in 1..Len(log) /\ m = Len(log) + 1 /\ log'[m] = row
      BY <1>7, <1>8, <2>2, <3>3 DEF NewNumber
    <3> QED
      BY <1>8, <3>1, <3>2, <3>3
  <2> QED
    BY <1>2, <1>6, <2>1, <2>2
<1>15. Posted' = Posted
  <2>1. \A c \in Batches : batch'[c].evs = batch[c].evs
    BY <1>3, <1>5, <1>9
  <2> QED
    BY <2>1 DEF Posted
<1>16. VerdictBacked'
  <2>1. SUFFICES ASSUME NEW c \in Batches, batch'[c].terminated
                 PROVE  Cardinality({x \in Posted : Strike(x)}') >= 3
    BY DEF VerdictBacked, Posted
  <2>2. CASE \E d \in Batches : batch[d].terminated
    <3>1. Cardinality({x \in Posted : Strike(x)}) >= 3
      BY <2>2 DEF EInv, EvidenceSound, VerdictBacked, Posted
    <3> QED
      BY <1>15, <3>1, VerdictStays DEF EInv, EvidenceSound
  <2>3. CASE \A d \in Batches : ~batch[d].terminated
    <3>1. c = b /\ EventLevel(b, e) = "terminated"
      BY <1>3, <1>5, <1>9, <2>1, <2>3
    <3>2. Cardinality({x \in Posted : Strike(x)}) >= 3
      BY <1>2, <1>3, <1>11, <3>1, ThirdIsBacked DEF StrikesPosted
    <3> QED
      BY <1>15, <3>2, VerdictStays DEF EInv, EvidenceSound
  <2> QED
    BY <2>2, <2>3
<1>17. IsFiniteSet(Posted')
  BY <1>15 DEF EInv, EvidenceSound
<1> QED
  BY <1>1, <1>10, <1>12, <1>13, <1>14, <1>16, <1>17 DEF EInv, EvidenceSound

-----------------------------------------------------------------------------
(* The invariance of EInv.                                                 *)

LEMMA InitKeepsEInv == ASSUME Init PROVE EInv
<1>1. AttemptType
  BY MaxFaultsNat, ProctorAssumption DEF Init, AttemptType, FaultsType, Statuses, IdleCall,
                                         CallPcs, CallResults
<1>2. PageType
  <2>1. Len(Incidents) \in Nat
    BY ProctorAssumption
  <2> QED
    BY <2>1, ProctorAssumption DEF Init, PageType
<1>3. log = <<>> /\ Len(log) = 0 /\ log \in Seq(Rows)
  BY DEF Init
<1>4. IdleBatch \in BatchRecords(0)
  BY DEF IdleBatch, BatchRecords, BatchPcs, Hashes
<1>5. EvidenceType
  BY <1>3, <1>4 DEF Init, EvidenceType
<1>6. ToSet(<<>>) = {}
  BY DEF ToSet
<1>7. ASSUME NEW b \in Batches PROVE BatchSound(batch[b]) /\ batch[b].evs = <<>> /\ ~batch[b].terminated
  BY <1>6 DEF Init, IdleBatch, BatchSound
<1>8. Posted = {}
  BY <1>6, <1>7 DEF Posted
<1>9. IsFiniteSet(Posted)
  BY <1>8, FS_EmptySet
<1>10. EvidenceSound
  BY <1>3, <1>7, <1>9 DEF EvidenceSound, NumbersApart, VerdictBacked
<1> QED
  BY <1>1, <1>2, <1>5, <1>10 DEF EInv

LEMMA AttemptCallsKeepTypes ==
    ASSUME EInv, AttemptNext \/ \E b \in Batches : Terminate(b)
    PROVE  AttemptType' /\ (Healthy \/ Faulty)
<1>1. \A c \in Batches \cup Others : c \in Calls
  BY ProctorAssumption
<1>2. Attempt \in Attempts /\ "submitted" \in Statuses /\ "terminated" \in Statuses
  BY ProctorAssumption DEF Statuses
<1>3. CASE \E c \in Calls, to \in Statuses :
              TransitionRead(c, Attempt, to) \/ ReopenRead(c, Attempt) \/ CallStep(c) \/ CallFault(c)
  BY <1>2, <1>3, CallsKeepTypes DEF EInv
<1>4. ASSUME NEW b \in Batches, call[b].pc = "idle", FinishCall(b, "error"), Faulty,
             UNCHANGED <<status, epoch, lease>>
      PROVE  AttemptType'
  <2> DEFINE Records == [pc : CallPcs, att : Attempts \cup {NoAttempt},
                         to : Statuses \cup {"none"}, epoch : Nat, res : CallResults]
  <2>1. call \in [Calls -> Records] /\ b \in Calls
    BY <1>1 DEF EInv, AttemptType
  <2>2. PICK it \in Records : it = call[b]
    BY <2>1
  <2>3. [it EXCEPT !.pc = "done", !.res = "error"] \in Records
    BY DEF CallPcs, CallResults
  <2>4. call' = [call EXCEPT ![b] = [it EXCEPT !.pc = "done", !.res = "error"]]
    BY <1>4, <2>1, <2>2 DEF FinishCall
  <2>5. call' \in [Calls -> Records]
    BY <2>1, <2>3, <2>4
  <2>6. FaultsType'
    BY <1>4, FaultsStay DEF EInv, AttemptType
  <2> QED
    BY <1>4, <2>5, <2>6 DEF EInv, AttemptType
<1> QED
  BY <1>1, <1>2, <1>3, <1>4 DEF AttemptNext, Terminate

LEMMA NextKeepsEInv == ASSUME EInv, [Next]_vars PROVE EInv'
<1>1. CASE PageNext
  BY <1>1, RecordKeepsEInv, OnlineKeepsEInv, LostKeepsEInv, AnsweredKeepsEInv, ReloadKeepsEInv
     DEF PageNext
<1>2. CASE RecordNext
  <2>1. PICK b \in Batches :
            \/ /\ \/ ReadAttempt(b) \/ ReadStored(b) \/ ReadStrikes(b) \/ ReadTail(b)
               /\ UNCHANGED <<status, epoch, lease, call, pageVars, log>>
            \/ /\ DropEvent(b) \/ KeepEvent(b) \/ RecordDone(b)
               /\ UNCHANGED <<status, epoch, lease, call, pageVars>>
            \/ Terminate(b) /\ UNCHANGED <<pageVars, batch, log>>
            \/ RecordDies(b)
    BY <1>2 DEF RecordNext
  <2>2. CASE Terminate(b) /\ UNCHANGED <<pageVars, batch, log>>
    BY <2>2, AttemptCallsKeepTypes, CallsKeepEInv
  <2> QED
    BY <2>1, <2>2, ReadKeepsEInv, DropKeepsEInv, KeepKeepsEInv, DiesKeepsEInv
<1>3. CASE AttemptNext
  BY <1>3, AttemptCallsKeepTypes, CallsKeepEInv DEF AttemptNext
<1>4. CASE UNCHANGED vars
  <2>1. AttemptType' /\ UNCHANGED <<pageVars, batch, log>>
    BY <1>4 DEF vars, attemptVars, EInv, AttemptType, FaultsType
  <2> QED
    BY <2>1, CallsKeepEInv
<1> QED
  BY <1>1, <1>2, <1>3, <1>4 DEF Next, Quiet

LEMMA EInvHolds == Spec => []EInv
<1>1. Init => EInv
  BY InitKeepsEInv
<1>2. EInv /\ [Next]_vars => EInv'
  BY NextKeepsEInv
<1> QED
  BY <1>1, <1>2, PTL DEF Spec

\* The state always has its declared shape: of a batch, what it has read of the
\* log is never more than the log holds.
THEOREM EvidenceTyped == Spec => []TypeOK
<1>1. EInv => TypeOK
  BY TypesSplit DEF EInv
<1> QED
  BY <1>1, EInvHolds, PTL

\* Whatever is resent, reordered, raced or lost and whatever fails, a batch
\* decides to end the attempt only when three different strikes were posted.
THEOREM VerdictIsBacked == Spec => []VerdictBacked
<1>1. EInv => VerdictBacked
  BY DEF EInv, EvidenceSound
<1> QED
  BY <1>1, EInvHolds, PTL

-----------------------------------------------------------------------------
(* The chain, the levels and the third strike.                             *)

HashAt(n) == IF n = 0 THEN NoHash ELSE log[n].hash

\* Since the batch read the stored numbers, no other has inserted.
Own(b) == \A n \in (batch[b].stored + 1)..Len(log) : log[n].by = b

\* While no call fails, a batch that no other one overtook goes on from the last
\* row, and what it kept is stored.
Current(b) ==
    batch[b].pc = "events" /\ Own(b) =>
        /\ batch[b].prev = HashAt(Len(log))
        /\ \A e \in batch[b].kept : \E n \in 1..Len(log) : log[n].by = b /\ log[n].ev = e

EpisodesCounted ==
    Undisturbed =>
        /\ \A m, n \in Confirmed : m # n => ~SameIncident(log[m].ev, log[n].ev)
        /\ \A n \in Confirmed :
               log[n].level = Level(Cardinality({m \in Confirmed : m <= n}))

ThirdDecided ==
    Undisturbed /\ Cardinality(Confirmed) >= 3 => \E b \in Batches : batch[b].terminated

ChainInv ==
    /\ faults = 0 => \A b \in Batches : Current(b)
    /\ ChainIsLinear
    /\ EpisodesCounted
    /\ ThirdDecided

\* A batch's transition: begun only for its verdict, and over only when the
\* attempt is ended.
EndingCall(b) ==
    /\ call[b].pc = "idle" \/ batch[b].terminated
    /\ call[b].pc \in {"write", "release"} => call[b].att = Attempt /\ call[b].to = "terminated"
    /\ call[b].pc # "reopen"
    /\ call[b].pc \in {"release", "done"} => status[Attempt] = "terminated"

\* While no call fails and nothing else moves the attempt.
EndingInv ==
    faults = 0 /\ (\A c \in Others : call[c].pc = "idle") =>
        /\ status[Attempt] \in {"in_progress", "terminated"}
        /\ lease[Attempt] \in {"active", "released"}
        /\ \A b \in Batches : EndingCall(b)
        /\ status[Attempt] = "terminated" =>
               \/ lease[Attempt] = "released"
               \/ \E b \in Batches : call[b].pc = "release"

\* What a step that inserts nothing may do to a batch when no call fails.
Calm(me, new) ==
    /\ new.kept = me.kept /\ new.terminated = me.terminated
    /\ me.pc \in {"events", "done"} => new.stored = me.stored /\ new.strikes = me.strikes
    /\ new.pc = "events" =>
          \/ me.pc = "events" /\ new.prev = me.prev
          \/ me.pc = "tail" /\ new.prev = HashAt(Len(log)) /\ me.kept = {}

LEMMA ReadsAreCalm ==
    ASSUME EInv, faults' = faults, NEW b \in Batches,
           ReadAttempt(b) \/ ReadStored(b) \/ ReadStrikes(b) \/ ReadTail(b)
    PROVE  \A c \in Batches : Calm(batch[c], batch'[c])
<1> SUFFICES ASSUME NEW c \in Batches PROVE Calm(batch[c], batch'[c])
  OBVIOUS
<1>1. PICK it \in BatchRecords(Len(log)) : it = batch[b] /\ BatchSound(it)
  BY DEF EInv, EvidenceType, EvidenceSound
<1>2. Healthy /\ ~Faulty /\ Len(log) \in Nat
  BY DEF Healthy, Faulty, EInv, AttemptType, FaultsType, EvidenceType
<1>3. CASE c # b
  BY <1>3 DEF Calm, ReadAttempt, ReadStored, ReadStrikes, ReadTail, EInv, EvidenceType
<1>4. CASE c = b
  <2>1. CASE ReadAttempt(b)
    <3>1. /\ it.pc = "attempt"
          /\ batch' = [batch EXCEPT ![b].pc = "stored", ![b].epoch = epoch[Attempt]]
      BY <1>1, <1>2, <2>1 DEF ReadAttempt
    <3> QED
      BY <1>1, <1>4, <3>1 DEF Calm, EInv, EvidenceType
  <2>2. CASE ReadStored(b)
    BY <1>1, <1>2, <1>4, <2>2 DEF Calm, ReadStored, EInv, EvidenceType
  <2>3. CASE ReadStrikes(b)
    BY <1>1, <1>2, <1>4, <2>3 DEF Calm, ReadStrikes, EInv, EvidenceType
  <2>4. CASE ReadTail(b)
    <3>1. /\ it.pc = "tail" /\ it.kept = {}
          /\ batch' = [batch EXCEPT ![b].pc = "events", ![b].left = batch[b].evs,
                                    ![b].prev = HashAt(Len(log))]
      BY <1>1, <1>2, <2>4 DEF ReadTail, RowsRead, HashAt, BatchSound
    <3> QED
      BY <1>1, <1>4, <3>1 DEF Calm, EInv, EvidenceType
  <2> QED
    BY <2>1, <2>2, <2>3, <2>4
<1> QED
  BY <1>3, <1>4

LEMMA PageIsCalm ==
    ASSUME EInv, PageNext
    PROVE  log' = log /\ \A c \in Batches : Calm(batch[c], batch'[c])
<1>1. log' = log
  BY DEF PageNext, Record, Online, Lost, Answered, Reload
<1>2. ASSUME NEW b \in Batches, NEW buf, Flush(b, buf), NEW c \in Batches
      PROVE  Calm(batch[c], batch'[c])
  BY <1>2 DEF Flush, Calm, EInv, EvidenceType
<1>3. ASSUME UNCHANGED batch, NEW c \in Batches
      PROVE  Calm(batch[c], batch'[c])
  BY <1>3 DEF Calm
<1>4. ASSUME NEW b \in Batches, Lost(b) \/ Answered(b), NEW c \in Batches
      PROVE  Calm(batch[c], batch'[c])
  <2>1. CASE batch' = [batch EXCEPT ![b].waits = FALSE]
    BY <2>1 DEF Calm, EInv, EvidenceType
  <2>2. CASE batch' = [batch EXCEPT ![b].waits = FALSE, ![b].pc = "done"]
    BY <2>2 DEF Calm, EInv, EvidenceType
  <2> QED
    BY <1>4, <2>1, <2>2 DEF Lost, Answered
<1>5. ASSUME Reload, NEW c \in Batches PROVE Calm(batch[c], batch'[c])
  <2>1. PICK it \in BatchRecords(Len(log)) : it = batch[c]
    BY DEF EInv, EvidenceType
  <2>2. batch'[c] = [it EXCEPT !.waits = FALSE]
    BY <1>5, <2>1 DEF Reload
  <2> QED
    BY <2>1, <2>2 DEF Calm, BatchRecords
<1>6. ASSUME Record, NEW c \in Batches PROVE Calm(batch[c], batch'[c])
  BY <1>2, <1>3, <1>6 DEF Record
<1>7. ASSUME Online, NEW c \in Batches PROVE Calm(batch[c], batch'[c])
  BY <1>2, <1>7 DEF Online
<1> QED
  BY <1>1, <1>4, <1>5, <1>6, <1>7 DEF PageNext

\* Failures are counted, so that none has happened before a step that ends with
\* none.
LEMMA HealthySteps ==
    ASSUME EInv, [Next]_vars, faults' = 0
    PROVE  faults = 0
<1>1. UNCHANGED vars \/ Healthy \/ Faulty
  <2>1. ASSUME NEW c, CallStep(c) \/ CallFault(c) PROVE Healthy \/ Faulty
    BY <2>1 DEF CallStep, CallFault, TransitionWrite, TransitionRelease, TransitionFault,
                ReopenWrite, ReopenFault
  <2>2. ASSUME NEW c, NEW to, TransitionRead(c, Attempt, to) \/ ReopenRead(c, Attempt)
        PROVE  Healthy \/ Faulty
    BY <2>2 DEF TransitionRead, ReopenRead
  <2>3. CASE PageNext
    BY <2>3 DEF PageNext, Record, Online, Lost, Answered, Reload
  <2>4. CASE AttemptNext
    BY <2>1, <2>2, <2>4 DEF AttemptNext
  <2>5. CASE RecordNext
    BY <2>2, <2>5 DEF RecordNext, ReadAttempt, ReadStored, ReadStrikes, ReadTail, RowsRead,
                      DropEvent, KeepEvent, RecordDone, Terminate, RecordDies
  <2> QED
    BY <2>3, <2>4, <2>5 DEF Next, Quiet
<1>2. UNCHANGED vars => faults' = faults
  BY DEF vars, attemptVars
<1> QED
  BY <1>1, <1>2, FaultsStay DEF EInv, AttemptType, Healthy

LEMMA CalmOrKept ==
    ASSUME EInv, [Next]_vars, faults' = 0
    PROVE  \/ log' = log /\ \A c \in Batches : Calm(batch[c], batch'[c])
           \/ \E b \in Batches : KeepEvent(b)
<1>1. faults' = faults /\ ~Faulty
  BY HealthySteps DEF Faulty, EInv, AttemptType, FaultsType
<1>2. ASSUME UNCHANGED <<batch, log>>, NEW c \in Batches PROVE log' = log /\ Calm(batch[c], batch'[c])
  BY <1>2 DEF Calm
<1>3. CASE PageNext
  BY <1>3, PageIsCalm
<1>4. CASE RecordNext
  <2>1. PICK b \in Batches :
            \/ /\ \/ ReadAttempt(b) \/ ReadStored(b) \/ ReadStrikes(b) \/ ReadTail(b)
               /\ UNCHANGED <<status, epoch, lease, call, pageVars, log>>
            \/ /\ DropEvent(b) \/ KeepEvent(b) \/ RecordDone(b)
               /\ UNCHANGED <<status, epoch, lease, call, pageVars>>
            \/ Terminate(b) /\ UNCHANGED <<pageVars, batch, log>>
    BY <1>1, <1>4 DEF RecordNext, RecordDies
  <2>2. ASSUME DropEvent(b) \/ RecordDone(b), NEW c \in Batches
        PROVE  log' = log /\ Calm(batch[c], batch'[c])
    <3>1. CASE DropEvent(b)
      BY <3>1 DEF DropEvent, AtEvents, Calm, EInv, EvidenceType
    <3>2. CASE RecordDone(b)
      BY <3>2 DEF RecordDone, AtEvents, Calm, EInv, EvidenceType
    <3> QED
      BY <2>2, <3>1, <3>2
  <2> QED
    BY <1>1, <1>2, <2>1, <2>2, ReadsAreCalm
<1>5. CASE AttemptNext
  BY <1>2, <1>5 DEF AttemptNext
<1>6. CASE UNCHANGED vars
  BY <1>2, <1>6 DEF vars
<1> QED
  BY <1>3, <1>4, <1>5, <1>6 DEF Next, Quiet

\* An undisturbed past: what overlapped or failed once stays so.
LEMMA UndisturbedBefore ==
    ASSUME EInv, faults' = 0 => faults = 0,
           Len(log) \in Nat, Len(log') \in Nat, Len(log) <= Len(log'),
           \A n \in 1..Len(log) : log'[n] = log[n],
           \A b \in Batches : batch[b].pc \in {"events", "done"} =>
                batch'[b].stored = batch[b].stored /\ batch'[b].strikes = batch[b].strikes,
           Undisturbed'
    PROVE  Undisturbed
<1> SUFFICES ASSUME NEW b \in Batches, NEW n \in 1..Len(log), log[n].by = b
             PROVE  /\ batch[b].stored = batch[b].strikes
                    /\ \A k \in (batch[b].stored + 1)..n : log[k].by = b
  BY DEF Undisturbed, Alone
<1>1. batch[b].pc \in {"events", "done"}
  BY DEF EInv, EvidenceSound, RowSound, BatchSound
<1>2. n \in 1..Len(log') /\ log'[n].by = b
  OBVIOUS
<1>3. /\ batch'[b].stored = batch'[b].strikes
      /\ \A k \in (batch'[b].stored + 1)..n : log'[k].by = b
  BY <1>2 DEF Undisturbed, Alone
<1>4. batch[b].stored \in Nat
  BY DEF EInv, EvidenceType, BatchRecords
<1>5. \A k \in (batch[b].stored + 1)..n : log'[k] = log[k]
  BY <1>4
<1> QED
  BY <1>1, <1>3, <1>5

LEMMA CalmKeepsChain ==
    ASSUME EInv, ChainInv, faults' = 0 => faults = 0, log' = log,
           faults' = 0 => \A c \in Batches : Calm(batch[c], batch'[c])
    PROVE  ChainInv'
<1>1. Len(log) \in Nat
  BY DEF EInv, EvidenceType
<1>2. Undisturbed' => Undisturbed
  <2> SUFFICES ASSUME Undisturbed' PROVE Undisturbed
    OBVIOUS
  <2>1. faults' = 0
    BY DEF Undisturbed
  <2> QED
    BY <1>1, <2>1, UndisturbedBefore DEF Calm
<1>3. Confirmed' = Confirmed
  BY DEF Confirmed, Strike
<1>4. ASSUME faults' = 0, NEW b \in Batches PROVE Current(b)'
  <2> SUFFICES ASSUME batch'[b].pc = "events", Own(b)'
               PROVE  /\ batch'[b].prev = HashAt(Len(log))
                      /\ \A e \in batch'[b].kept :
                            \E n \in 1..Len(log) : log[n].by = b /\ log[n].ev = e
    BY DEF Current, HashAt
  <2>1. Calm(batch[b], batch'[b])
    BY <1>4
  <2>2. CASE batch[b].pc = "events" /\ batch'[b].prev = batch[b].prev
    <3>1. Own(b)
      BY <2>1, <2>2 DEF Own, Calm
    <3> QED
      BY <1>4, <2>1, <2>2, <3>1 DEF ChainInv, Current, Calm
  <2>3. CASE batch'[b].prev = HashAt(Len(log)) /\ batch[b].kept = {}
    BY <2>1, <2>3 DEF Calm
  <2> QED
    BY <2>1, <2>2, <2>3 DEF Calm
<1>5. ChainIsLinear'
  BY <1>2 DEF ChainInv, ChainIsLinear
<1>6. EpisodesCounted'
  BY <1>2, <1>3 DEF ChainInv, EpisodesCounted
<1>7. ThirdDecided'
  <2> SUFFICES ASSUME Undisturbed', Cardinality(Confirmed) >= 3
               PROVE  \E b \in Batches : batch'[b].terminated
    BY <1>3 DEF ThirdDecided
  <2>1. PICK b \in Batches : batch[b].terminated
    BY <1>2 DEF ChainInv, ThirdDecided
  <2> QED
    BY <2>1 DEF Undisturbed, Calm
<1> QED
  BY <1>4, <1>5, <1>6, <1>7 DEF ChainInv

\* What a batch that read all rows but its own counts is what the log holds.
LEMMA OwnCount ==
    ASSUME EInv, NEW b \in Batches, batch[b].pc = "events", Own(b), Current(b),
           batch[b].stored = batch[b].strikes
    PROVE  /\ \A n \in Confirmed : log[n].ev \in ConfirmedSoFar(b)
           /\ IsFiniteSet(Confirmed) /\ Cardinality(Confirmed) \in Nat
           /\ ConfirmedCount(b) = Cardinality(Confirmed)
<1>1. Len(log) \in Nat /\ batch[b].strikes \in 0..Len(log)
  BY DEF EInv, EvidenceType, BatchRecords
<1>2. ASSUME NEW n \in Confirmed PROVE log[n].ev \in ConfirmedSoFar(b)
  <2>1. n \in 1..Len(log) /\ Strike(log[n].ev)
    BY DEF Confirmed
  <2>2. CASE n \in 1..batch[b].strikes
    BY <2>1, <2>2 DEF ConfirmedSoFar, ConfirmedBefore
  <2>3. CASE n \notin 1..batch[b].strikes
    <3>1. log[n].by = b
      BY <1>1, <2>1, <2>3 DEF Own
    <3>2. log[n].ev \in batch[b].kept
      BY <2>1, <3>1 DEF EInv, EvidenceSound, RowSound
    <3> QED
      BY <2>1, <3>2 DEF ConfirmedSoFar
  <2> QED
    BY <2>2, <2>3
<1>3. ASSUME NEW e \in ConfirmedSoFar(b) PROVE \E n \in Confirmed : log[n].ev = e
  <2>1. CASE \E n \in ConfirmedBefore(b) : e = log[n].ev
    BY <1>1, <2>1 DEF ConfirmedBefore, Confirmed
  <2>2. CASE e \in batch[b].kept /\ Strike(e)
    BY <2>2 DEF Current, Confirmed
  <2> QED
    BY <2>1, <2>2 DEF ConfirmedSoFar
<1>4. IsFiniteSet(Confirmed) /\ Cardinality(Confirmed) \in Nat
  <2>1. IsFiniteSet(1..Len(log)) /\ Confirmed \in SUBSET (1..Len(log))
    BY <1>1, FS_Interval DEF Confirmed
  <2> QED
    BY <2>1, FS_Subset, FS_CardinalityType
<1>5. Cardinality(ConfirmedSoFar(b)) = Cardinality(Confirmed)
  <2> DEFINE f == [n \in Confirmed |-> log[n].ev]
  <2>1. f \in Surjection(Confirmed, ConfirmedSoFar(b))
    BY <1>2, <1>3 DEF Surjection
  <2>2. \A m, n \in Confirmed : f[m] = f[n] => m = n
    BY DEF EInv, EvidenceSound, NumbersApart, Confirmed
  <2>3. f \in Bijection(Confirmed, ConfirmedSoFar(b))
    BY <2>1, <2>2 DEF Bijection, Injection, IsInjective, Surjection
  <2>4. ExistsBijection(Confirmed, ConfirmedSoFar(b))
    BY <2>3 DEF ExistsBijection
  <2> QED
    BY <1>4, <2>4, FS_Bijection
<1> QED
  BY <1>2, <1>4, <1>5, ConfirmedArePosted

LEMMA KeepKeepsChain ==
    ASSUME EInv, ChainInv, faults' = 0 => faults = 0, NEW b \in Batches, KeepEvent(b)
    PROVE  ChainInv'
<1>1. PICK e \in Event :
            /\ batch[b].pc = "events" /\ e \in ToSet(batch[b].left) /\ ~Dropped(b, e)
            /\ RowOf(b, e) \in Rows
            /\ Kept(b, e) \in BatchRecords(Len(log))
            /\ batch' = [batch EXCEPT ![b] = Kept(b, e)]
            /\ \/ log' = log /\ (Faulty \/ (Healthy /\ ~NewNumber(e)))
               \/ log' = Append(log, RowOf(b, e)) /\ NewNumber(e)
  BY KeepFacts
<1>2. PICK it \in BatchRecords(Len(log)) : it = batch[b]
  BY DEF EInv, EvidenceType
<1>3. PICK me \in BatchRecords(Len(log)) : me = Kept(b, e)
  BY <1>1
<1>4. /\ me.pc = it.pc /\ me.evs = it.evs /\ me.stored = it.stored /\ me.strikes = it.strikes
      /\ me.kept = it.kept \cup {e} /\ me.prev = <<b, e.seq>>
      /\ it.terminated \/ EventLevel(b, e) = "terminated" => me.terminated
  BY <1>2, <1>3 DEF Kept, BatchRecords
<1>5. PICK row \in Rows : row = RowOf(b, e)
  BY <1>1
<1>6. /\ row.ev = e /\ row.by = b /\ row.hash = <<b, e.seq>> /\ row.prev = it.prev
      /\ row.level = EventLevel(b, e)
  BY <1>2, <1>5 DEF RowOf
<1>7. /\ Len(log) \in Nat /\ Len(log') \in Nat /\ Len(log) <= Len(log')
      /\ \A n \in 1..Len(log) : log'[n] = log[n]
      /\ \A n \in 1..Len(log') : n \in 1..Len(log) \/ (n = Len(log) + 1 /\ log'[n] = row)
      /\ log' = Append(log, row) => Len(log') = Len(log) + 1
  BY <1>1, <1>5, LogGrows
<1>8. /\ \A c \in Batches : batch'[c] = IF c = b THEN me ELSE batch[c]
      /\ batch[b].stored \in 0..Len(log)
  BY <1>1, <1>2, <1>3 DEF EInv, EvidenceType, BatchRecords
<1>9. Undisturbed' => Undisturbed
  BY <1>2, <1>4, <1>7, <1>8, UndisturbedBefore
<1>10. CASE log' = log /\ faults' = 0
  <2>1. ~NewNumber(e)
    BY <1>1, <1>5, <1>7, <1>10 DEF Faulty, EInv, AttemptType, FaultsType
  <2>2. PICK n \in 1..Len(log) : log[n].ev.seq = e.seq
    BY <2>1 DEF NewNumber
  <2>3. e.seq \notin StoredKeys(b)
    BY <1>1 DEF Dropped
  <2>4. n \notin 1..batch[b].stored
    BY <2>2, <2>3 DEF StoredKeys
  <2>5. log[n].by # b
    BY <2>2, <2>3 DEF StoredKeys, EInv, EvidenceSound, RowSound
  <2>6. ~Own(b)' /\ ~Own(b)
    <3>1. n \in (batch[b].stored + 1)..Len(log)
      BY <1>7, <1>8, <2>4
    <3> QED
      BY <1>2, <1>4, <1>8, <1>10, <2>5, <3>1 DEF Own
  <2>7. ASSUME NEW c \in Batches PROVE Current(c)'
    <3>1. c # b => Current(c)
      BY <1>10 DEF ChainInv
    <3>2. c # b => Current(c)'
      BY <1>8, <1>10, <3>1 DEF Current, Own, HashAt
    <3> QED
      BY <2>6, <3>2 DEF Current
  <2>8. ChainIsLinear'
    BY <1>9, <1>10 DEF ChainInv, ChainIsLinear
  <2>9. Confirmed' = Confirmed
    BY <1>10 DEF Confirmed, Strike
  <2>10. EpisodesCounted'
    BY <1>9, <1>10, <2>9 DEF ChainInv, EpisodesCounted
  <2>11. ThirdDecided'
    BY <1>2, <1>4, <1>8, <1>9, <2>9 DEF ChainInv, ThirdDecided
  <2> QED
    BY <2>7, <2>8, <2>10, <2>11 DEF ChainInv
<1>11. CASE log' = Append(log, row) /\ NewNumber(e) /\ faults' = 0
  <2> DEFINE N == Len(log) + 1
  <2>1. N \in 1..Len(log') /\ log'[N] = row /\ Len(log') = N
    BY <1>7, <1>11
  <2>2. Own(b)' => Own(b)
    <3>1. \A n \in (batch[b].stored + 1)..Len(log) :
                n \in (batch[b].stored + 1)..Len(log') /\ log'[n] = log[n]
      BY <1>7, <1>8
    <3> QED
      BY <1>2, <1>4, <1>8, <3>1 DEF Own
  <2>3. ASSUME NEW c \in Batches PROVE Current(c)'
    <3>1. CASE c # b
      <4>1. batch'[c] = batch[c] /\ batch[c].stored \in 0..Len(log)
        BY <1>8, <3>1 DEF EInv, EvidenceType, BatchRecords
      <4>2. ~Own(c)'
        BY <1>6, <1>7, <2>1, <3>1, <4>1 DEF Own
      <4> QED
        BY <4>2 DEF Current
    <3>2. CASE c = b
      <4> SUFFICES ASSUME Own(b)'
                   PROVE  /\ batch'[b].prev = HashAt(Len(log))'
                          /\ \A x \in batch'[b].kept :
                                \E n \in 1..Len(log') : log'[n].by = b /\ log'[n].ev = x
        BY <3>2 DEF Current
      <4>1. HashAt(Len(log))' = row.hash
        BY <1>7, <2>1 DEF HashAt
      <4>2. \A x \in it.kept : \E n \in 1..Len(log) : log[n].by = b /\ log[n].ev = x
        BY <1>1, <1>2, <1>11, <2>2 DEF ChainInv, Current
      <4>3. \A x \in it.kept : \E n \in 1..Len(log') : log'[n].by = b /\ log'[n].ev = x
        BY <1>7, <4>2
      <4> QED
        BY <1>4, <1>6, <1>8, <2>1, <4>1, <4>3
    <3> QED
      BY <3>1, <3>2
  <2>4. ASSUME Undisturbed' PROVE Own(b) /\ Current(b) /\ batch[b].stored = batch[b].strikes
    <3>1. /\ batch[b].stored = batch[b].strikes
          /\ \A k \in (batch[b].stored + 1)..N : log'[k].by = b
      BY <1>2, <1>4, <1>6, <1>8, <2>1, <2>4 DEF Undisturbed, Alone
    <3>2. Own(b)'
      BY <1>2, <1>4, <1>8, <2>1, <3>1 DEF Own
    <3> QED
      BY <1>11, <2>2, <3>1, <3>2 DEF ChainInv
  <2>5. ChainIsLinear'
    <3> SUFFICES ASSUME Undisturbed', NEW n \in 1..Len(log')
                 PROVE  log'[n].prev = IF n = 1 THEN NoHash ELSE log'[n - 1].hash
      BY DEF ChainIsLinear
    <3>1. CASE n \in 1..Len(log)
      <4>1. n # 1 => n - 1 \in 1..Len(log)
        BY <1>7, <3>1
      <4> QED
        BY <1>7, <1>9, <3>1, <4>1 DEF ChainInv, ChainIsLinear
    <3>2. CASE n = N
      <4>1. it.prev = HashAt(Len(log))
        BY <1>1, <1>2, <2>4 DEF Current
      <4>2. n # 1 => n - 1 \in 1..Len(log) /\ n - 1 = Len(log) /\ Len(log) # 0
        BY <1>7, <3>2
      <4>3. n = 1 => Len(log) = 0
        BY <1>7, <3>2
      <4> QED
        BY <1>6, <1>7, <2>1, <3>2, <4>1, <4>2, <4>3 DEF HashAt
    <3> QED
      BY <1>7, <3>1, <3>2
  <2>6. EpisodesCounted' /\ ThirdDecided'
    <3>1. CASE ~Undisturbed'
      BY <3>1 DEF EpisodesCounted, ThirdDecided
    <3>2. CASE Undisturbed' /\ ~Strike(e)
      <4>1. Confirmed' = Confirmed
        BY <1>6, <1>7, <2>1, <3>2 DEF Confirmed, Strike
      <4>2. \A n \in Confirmed : log'[n] = log[n]
        BY <1>7 DEF Confirmed
      <4>3. EpisodesCounted'
        BY <1>9, <3>2, <4>1, <4>2 DEF ChainInv, EpisodesCounted, SameIncident
      <4>4. ThirdDecided'
        BY <1>2, <1>4, <1>8, <1>9, <4>1 DEF ChainInv, ThirdDecided
      <4> QED
        BY <4>3, <4>4
    <3>3. CASE Undisturbed' /\ Strike(e)
      <4>1. /\ \A n \in Confirmed : log[n].ev \in ConfirmedSoFar(b)
            /\ IsFiniteSet(Confirmed) /\ Cardinality(Confirmed) \in Nat
            /\ ConfirmedCount(b) = Cardinality(Confirmed)
        BY <1>1, <2>4, <3>3, OwnCount
      <4>2. Confirmed' = Confirmed \cup {N} /\ N \notin Confirmed
        <5>1. N \in Confirmed'
          BY <1>6, <2>1, <3>3 DEF Confirmed, Strike
        <5>2. \A n \in 1..Len(log) : n \in Confirmed' <=> n \in Confirmed
          BY <1>7 DEF Confirmed, Strike
        <5>3. Confirmed \subseteq 1..Len(log) /\ Confirmed' \subseteq 1..N
          BY <2>1 DEF Confirmed
        <5> QED
          BY <1>7, <5>1, <5>2, <5>3
      <4>3. Cardinality(Confirmed') = Cardinality(Confirmed) + 1
        BY <4>1, <4>2, FS_AddElement
      <4>4. row.level = Level(Cardinality(Confirmed'))
        BY <1>6, <3>3, <4>1, <4>3 DEF EventLevel
      <4>5. \A n \in Confirmed : /\ n \in 1..Len(log) /\ log'[n] = log[n]
                                 /\ log[n].ev \in Event
                                 /\ ~SameIncident(e, log[n].ev)
        BY <1>1, <1>7, <3>3, <4>1, RowTyped DEF Confirmed, Dropped, EInv
      <4>6. ASSUME NEW m \in Confirmed', NEW n \in Confirmed', m # n
            PROVE  ~SameIncident(log'[m].ev, log'[n].ev)
        <5>1. CASE m \in Confirmed /\ n \in Confirmed
          BY <1>9, <3>3, <4>5, <4>6, <5>1 DEF ChainInv, EpisodesCounted
        <5>2. CASE m = N /\ n \in Confirmed
          BY <1>6, <2>1, <4>5, <5>2
        <5>3. CASE n = N /\ m \in Confirmed
          <6>1. ~SameIncident(log[m].ev, e)
            BY <4>5, <5>3, IncidentSymmetric
          <6> QED
            BY <1>6, <2>1, <4>5, <5>3, <6>1
        <5> QED
          BY <4>2, <4>6, <5>1, <5>2, <5>3
      <4>7. ASSUME NEW n \in Confirmed'
            PROVE  log'[n].level = Level(Cardinality({m \in Confirmed' : m <= n}))
        <5>1. CASE n \in Confirmed
          <6>1. {m \in Confirmed' : m <= n} = {m \in Confirmed : m <= n}
            BY <1>7, <4>2, <4>5, <5>1
          <6>2. log[n].level = Level(Cardinality({m \in Confirmed : m <= n}))
            BY <1>9, <3>3, <5>1 DEF ChainInv, EpisodesCounted
          <6> QED
            BY <4>5, <5>1, <6>1, <6>2
        <5>2. CASE n = N
          <6>1. \A m \in Confirmed' : m <= n
            BY <1>7, <4>2, <4>5, <5>2
          <6>2. {m \in Confirmed' : m <= n} = Confirmed'
            BY <6>1
          <6> QED
            BY <2>1, <4>4, <5>2, <6>2
        <5> QED
          BY <4>2, <5>1, <5>2
      <4>8. EpisodesCounted'
        BY <4>6, <4>7 DEF EpisodesCounted, SameIncident, Level
      <4>9. ASSUME Cardinality(Confirmed') >= 3 PROVE batch'[b].terminated
        <5>1. EventLevel(b, e) = "terminated"
          BY <1>6, <4>1, <4>3, <4>4, <4>9 DEF Level
        <5> QED
          BY <1>4, <1>8, <5>1
      <4>10. ThirdDecided'
        BY <4>9 DEF ThirdDecided
      <4> QED
        BY <4>8, <4>10
    <3> QED
      BY <3>1, <3>2, <3>3
  <2> QED
    BY <2>3, <2>5, <2>6 DEF ChainInv
<1>12. CASE faults' # 0
  BY <1>12 DEF ChainInv, Undisturbed, ChainIsLinear, EpisodesCounted, ThirdDecided
<1> QED
  BY <1>1, <1>5, <1>10, <1>11, <1>12

\* What ends the attempt while no call fails and nothing else moves it.
LEMMA IdleBefore ==
    ASSUME EInv, [Next]_vars, NEW c \in Calls, call'[c].pc = "idle"
    PROVE  call[c].pc = "idle"
<1>1. call \in [Calls -> [pc : CallPcs, att : Attempts \cup {NoAttempt},
                          to : Statuses \cup {"none"}, epoch : Nat, res : CallResults]]
  BY DEF EInv, AttemptType
<1>2. CASE call' = call
  BY <1>2
<1>3. ASSUME NEW d \in Calls, NEW to,
             TransitionRead(d, Attempt, to) \/ ReopenRead(d, Attempt)
      PROVE  call[c].pc = "idle"
  BY <1>1, <1>3 DEF TransitionRead, ReopenRead
<1>4. ASSUME NEW d \in Calls, CallStep(d)
      PROVE  call[c].pc = "idle"
  <2>1. CASE TransitionWrite(d)
    BY <1>1, <2>1 DEF TransitionWrite
  <2>2. CASE TransitionRelease(d) \/ ReopenWrite(d)
    BY <1>1, <2>2 DEF TransitionRelease, ReopenWrite, FinishCall
  <2> QED
    BY <1>4, <2>1, <2>2 DEF CallStep
<1>5. ASSUME NEW d \in Calls, FinishCall(d, "error") \/ FinishCall(d, "ok")
      PROVE  call[c].pc = "idle"
  BY <1>1, <1>5 DEF FinishCall
<1>6. ASSUME NEW d \in Calls, CallFault(d) PROVE call[c].pc = "idle"
  BY <1>5, <1>6 DEF CallFault, TransitionFault, ReopenFault
<1>7. \A d \in Batches \cup Others : d \in Calls
  BY ProctorAssumption
<1>8. CASE AttemptNext
  BY <1>3, <1>4, <1>6, <1>7, <1>8 DEF AttemptNext
<1>9. CASE RecordNext
  <2>1. PICK b \in Batches : UNCHANGED call \/ Terminate(b) \/ RecordDies(b)
    BY <1>9 DEF RecordNext
  <2>2. CASE Terminate(b)
    BY <1>3, <1>5, <1>7, <2>2 DEF Terminate
  <2>3. CASE call' = [call EXCEPT ![b].pc = "done"]
    BY <1>1, <2>3
  <2> QED
    BY <1>2, <2>1, <2>2, <2>3 DEF RecordDies
<1>10. CASE PageNext
  BY <1>2, <1>10 DEF PageNext, Record, Online, Lost, Answered, Reload
<1>11. CASE UNCHANGED vars
  BY <1>2, <1>11 DEF vars, attemptVars
<1> QED
  BY <1>8, <1>9, <1>10, <1>11 DEF Next, Quiet

LEMMA NextKeepsEnding == ASSUME EInv, EndingInv, [Next]_vars PROVE EndingInv'
<1> SUFFICES ASSUME faults' = 0, \A c \in Others : call'[c].pc = "idle"
             PROVE  /\ status'[Attempt] \in {"in_progress", "terminated"}
                    /\ lease'[Attempt] \in {"active", "released"}
                    /\ \A b \in Batches : EndingCall(b)'
                    /\ status'[Attempt] = "terminated" =>
                           \/ lease'[Attempt] = "released"
                           \/ \E b \in Batches : call'[b].pc = "release"
  BY DEF EndingInv
<1>1. /\ faults = 0 /\ faults' = faults /\ ~Faulty
      /\ \A c \in Batches \cup Others : c \in Calls
  BY HealthySteps, ProctorAssumption DEF Faulty, EInv, AttemptType, FaultsType
<1>2. \A c \in Others : call[c].pc = "idle"
  BY <1>1, IdleBefore
<1>3. /\ status[Attempt] \in {"in_progress", "terminated"}
      /\ lease[Attempt] \in {"active", "released"}
      /\ \A b \in Batches : EndingCall(b)
      /\ status[Attempt] = "terminated" =>
             \/ lease[Attempt] = "released"
             \/ \E b \in Batches : call[b].pc = "release"
  BY <1>1, <1>2 DEF EndingInv
<1>4. \A b \in Batches : batch[b].terminated => batch'[b].terminated
  <2>1. ASSUME NEW b \in Batches, KeepEvent(b), NEW c \in Batches, batch[c].terminated
        PROVE  batch'[c].terminated
    <3>1. PICK e \in Event : batch' = [batch EXCEPT ![b] = Kept(b, e)]
      BY <2>1, KeepFacts
    <3>2. PICK it \in BatchRecords(Len(log)) : it = batch[b]
      BY DEF EInv, EvidenceType
    <3>3. it.terminated => Kept(b, e).terminated
      BY <3>2 DEF Kept, BatchRecords
    <3> QED
      BY <2>1, <3>1, <3>2, <3>3 DEF EInv, EvidenceType
  <2> QED
    BY <2>1, CalmOrKept DEF Calm
<1>5. CASE UNCHANGED <<status, lease, call>>
  BY <1>3, <1>4, <1>5 DEF EndingCall
<1>6. /\ Attempts = {Attempt} /\ Attempt \in Attempts
      /\ status \in [Attempts -> Statuses \cup {"none"}]
      /\ lease \in [Attempts -> {"none", "active", "released"}]
      /\ call \in [Calls -> [pc : CallPcs, att : Attempts \cup {NoAttempt},
                             to : Statuses \cup {"none"}, epoch : Nat, res : CallResults]]
  BY ProctorAssumption DEF EInv, AttemptType
<1>7. ASSUME NEW b \in Batches, batch[b].terminated, TransitionRead(b, Attempt, "terminated")
      PROVE  /\ status'[Attempt] \in {"in_progress", "terminated"}
             /\ lease'[Attempt] \in {"active", "released"}
             /\ \A c \in Batches : EndingCall(c)'
             /\ status'[Attempt] = "terminated" =>
                    \/ lease'[Attempt] = "released"
                    \/ \E c \in Batches : call'[c].pc = "release"
  <2>1. /\ status' = status /\ lease' = lease /\ call[b].pc = "idle"
        /\ \A c \in Batches : c # b => call'[c] = call[c]
        /\ call'[b].att = Attempt /\ call'[b].to = "terminated"
        /\ call'[b].pc \in {"write", "done"}
        /\ call'[b].pc = "done" => status[Attempt] = "terminated"
    BY <1>1, <1>3, <1>6, <1>7 DEF TransitionRead, Successors
  <2>2. ASSUME NEW c \in Batches PROVE EndingCall(c)'
    BY <1>3, <1>4, <1>7, <2>1 DEF EndingCall
  <2> QED
    BY <1>3, <2>1, <2>2
<1>8. ASSUME NEW b \in Calls, CallStep(b)
      PROVE  /\ status'[Attempt] \in {"in_progress", "terminated"}
             /\ lease'[Attempt] \in {"active", "released"}
             /\ \A c \in Batches : EndingCall(c)'
             /\ status'[Attempt] = "terminated" =>
                    \/ lease'[Attempt] = "released"
                    \/ \E c \in Batches : call'[c].pc = "release"
  <2>1. b \in Batches
    <3>1. call[b].pc # "idle"
      BY <1>8 DEF CallStep, TransitionWrite, TransitionRelease, ReopenWrite
    <3> QED
      BY <1>2, <3>1, ProctorAssumption
  <2>2. CASE TransitionWrite(b)
    <3>1. /\ status'[Attempt] = "terminated" /\ lease' = lease
          /\ \A c \in Batches : c # b => call'[c] = call[c]
          /\ call'[b].att = Attempt /\ call'[b].to = "terminated" /\ call'[b].pc = "release"
          /\ call[b].pc = "write"
      BY <1>1, <1>3, <1>6, <2>1, <2>2 DEF TransitionWrite, EndingCall, Terminal
    <3>2. ASSUME NEW c \in Batches PROVE EndingCall(c)'
      BY <1>3, <1>4, <3>1 DEF EndingCall
    <3> QED
      BY <1>3, <2>1, <3>1, <3>2
  <2>3. CASE TransitionRelease(b)
    <3>1. /\ status' = status /\ status[Attempt] = "terminated" /\ lease'[Attempt] = "released"
          /\ \A c \in Batches : c # b => call'[c] = call[c]
          /\ call'[b].pc = "done" /\ call[b].pc = "release"
      BY <1>1, <1>3, <1>6, <2>1, <2>3 DEF TransitionRelease, FinishCall, EndingCall, Released
    <3>2. ASSUME NEW c \in Batches PROVE EndingCall(c)'
      BY <1>3, <1>4, <3>1 DEF EndingCall
    <3> QED
      BY <1>3, <3>1, <3>2
  <2>4. ~ReopenWrite(b)
    BY <1>3, <2>1 DEF ReopenWrite, EndingCall
  <2> QED
    BY <1>8, <2>2, <2>3, <2>4 DEF CallStep
<1>9. ~(\E c \in Calls : CallFault(c)) /\ ~(\E b \in Batches : RecordDies(b))
  BY <1>1 DEF CallFault, TransitionFault, ReopenFault, RecordDies
<1>10. ASSUME NEW c \in Others
       PROVE  ~TransitionRead(c, Attempt, "submitted") /\ ~ReopenRead(c, Attempt)
  BY <1>1, <1>6 DEF TransitionRead, ReopenRead
<1>11. CASE AttemptNext
  BY <1>8, <1>9, <1>10, <1>11 DEF AttemptNext
<1>12. CASE RecordNext
  BY <1>1, <1>5, <1>7, <1>9, <1>12 DEF RecordNext, Terminate
<1>13. CASE PageNext
  BY <1>5, <1>13 DEF PageNext, Record, Online, Lost, Answered, Reload
<1>14. CASE UNCHANGED vars
  BY <1>5, <1>14 DEF vars, attemptVars
<1> QED
  BY <1>11, <1>12, <1>13, <1>14 DEF Next, Quiet

LEMMA InitKeepsChain == ASSUME Init PROVE ChainInv /\ EndingInv
<1>1. log = <<>> /\ Len(log) = 0 /\ Confirmed = {}
  BY DEF Init, Confirmed
<1>2. Cardinality(Confirmed) = 0
  BY <1>1, FS_EmptySet
<1>3. ChainInv
  <2>1. \A b \in Batches : Current(b)
    BY DEF Init, IdleBatch, Current
  <2>2. ChainIsLinear /\ EpisodesCounted
    BY <1>1 DEF ChainIsLinear, EpisodesCounted
  <2>3. ThirdDecided
    BY <1>2 DEF ThirdDecided
  <2> QED
    BY <2>1, <2>2, <2>3 DEF ChainInv
<1>4. EndingInv
  BY ProctorAssumption DEF Init, IdleCall, EndingInv, EndingCall
<1> QED
  BY <1>3, <1>4

LEMMA NextKeepsChain == ASSUME EInv, ChainInv, [Next]_vars PROVE ChainInv'
<1>1. faults' = 0 => faults = 0
  BY HealthySteps
<1>2. CASE \E b \in Batches : KeepEvent(b)
  BY <1>1, <1>2, KeepKeepsChain
<1>3. CASE faults' = 0 /\ ~(\E b \in Batches : KeepEvent(b))
  BY <1>1, <1>3, CalmOrKept, CalmKeepsChain
<1>4. CASE faults' # 0
  BY <1>4 DEF ChainInv, Undisturbed, ChainIsLinear, EpisodesCounted, ThirdDecided
<1> QED
  BY <1>2, <1>3, <1>4

LEMMA ChainInvHolds == Spec => [](EInv /\ ChainInv /\ EndingInv)
<1>1. Init => ChainInv /\ EndingInv
  BY InitKeepsChain
<1>2. EInv /\ ChainInv /\ EndingInv /\ [Next]_vars => ChainInv' /\ EndingInv'
  BY NextKeepsChain, NextKeepsEnding
<1> QED
  BY <1>1, <1>2, EInvHolds, PTL DEF Spec

\* Each row is chained to the row before it, across batches, resends and reloads,
\* as long as no call fails and no other batch inserts between the reads of a
\* batch and its inserts.
THEOREM ChainHolds == Spec => []ChainIsLinear
<1>1. ChainInv => ChainIsLinear
  BY DEF ChainInv
<1> QED
  BY <1>1, ChainInvHolds, PTL

\* Under the same conditions one episode is one strike, the levels of the stored
\* strikes follow their order, and with the third one the attempt is ended and
\* its lease released, or this is under way, unless something else moved it.
THEOREM ThirdStrikeIsEnd == Spec => []ThirdStrikeEnds
<1>1. EInv /\ ChainInv /\ EndingInv => ThirdStrikeEnds
  <2> SUFFICES ASSUME EInv, ChainInv, EndingInv, Undisturbed,
                      Cardinality(Confirmed) >= 3, \A c \in Others : call[c].pc = "idle",
                      \A b \in Batches : ~(batch[b].terminated /\ call[b].pc # "done")
               PROVE  status[Attempt] = "terminated" /\ lease[Attempt] = "released"
    BY DEF ThirdStrikeEnds, ChainInv, EpisodesCounted
  <2>1. faults = 0 /\ \A b \in Batches : EndingCall(b)
    BY DEF Undisturbed, EndingInv
  <2>2. PICK b \in Batches : batch[b].terminated
    BY DEF ChainInv, ThirdDecided
  <2>3. status[Attempt] = "terminated"
    BY <2>1, <2>2 DEF EndingCall
  <2>4. \A c \in Batches : call[c].pc # "release"
    BY <2>1 DEF EndingCall
  <2> QED
    BY <2>1, <2>3, <2>4 DEF EndingInv
<1> QED
  BY <1>1, ChainInvHolds, PTL

-----------------------------------------------------------------------------
(* Nothing that the page observed vanishes.                                *)

\* Reopening only ever raises the epoch.
EpochsGrow ==
    /\ epoch[Attempt] >= 1
    /\ \A c \in Calls : call[c].pc = "reopen" => call[c].epoch >= 2

PageStays == faults = 0 /\ reloads = 0 /\ epoch[Attempt] = 1

\* The event is an incident that the page has observed.
Genuine(e) ==
    /\ e.seq \in 1..(next - 1)
    /\ e.focus = Incidents[e.seq].focus /\ e.at = Incidents[e.seq].at
    /\ e.dur = Incidents[e.seq].dur
    /\ e.epoch = 1

\* The incident is stored, or it counts as part of one that is.
Settled(i) ==
    \/ \E n \in 1..Len(log) : log[n].ev.seq = i
    \/ Strike(Incidents[i]) /\ \E n \in Confirmed : SameIncident(Incidents[i], log[n].ev)

\* What a batch has handled is settled.
BatchSettles(me) ==
    /\ \A e \in ToSet(me.evs) : Genuine(e)
    /\ me.pc \in {"stored", "strikes", "tail", "events"} => me.epoch = 1
    /\ \A e \in me.kept : \E n \in 1..Len(log) : log[n].ev.seq = e.seq
    /\ me.pc = "events" => \A e \in ToSet(me.evs) : e \in ToSet(me.left) \/ Settled(e.seq)
    /\ me.pc = "done" /\ me.waits => me.ok /\ \A e \in ToSet(me.evs) : Settled(e.seq)

\* Where an incident may be.
Buffered(i) == \E e \in ToSet(buffer) : e.seq = i

Underway(i) == \E b \in Batches : batch[b].waits /\ \E e \in ToSet(batch[b].evs) : e.seq = i

PageSound ==
    /\ seq = next - 1 /\ pageEpoch = 1
    /\ \A e \in ToSet(buffer) : Genuine(e)
    /\ \A b \in Batches : BatchSettles(batch[b])
    /\ \A i \in 1..(next - 1) : Buffered(i) \/ Underway(i) \/ Settled(i)

VanishInv == EpochsGrow /\ (PageStays => PageSound)

LEMMA EpochsStay ==
    ASSUME EInv, EpochsGrow, [Next]_vars
    PROVE  EpochsGrow' /\ (epoch'[Attempt] = 1 => epoch[Attempt] = 1)
<1>1. /\ Attempts = {Attempt} /\ Attempt \in Attempts
      /\ epoch \in [Attempts -> Nat]
      /\ call \in [Calls -> [pc : CallPcs, att : Attempts \cup {NoAttempt},
                             to : Statuses \cup {"none"}, epoch : Nat, res : CallResults]]
      /\ \A c \in Batches \cup Others : c \in Calls
  BY ProctorAssumption DEF EInv, AttemptType
<1>2. ASSUME UNCHANGED <<epoch, call>> PROVE EpochsGrow' /\ epoch' = epoch
  BY <1>2 DEF EpochsGrow
<1>3. ASSUME NEW c \in Calls, NEW to, TransitionRead(c, Attempt, to) \/ ReopenRead(c, Attempt)
      PROVE  EpochsGrow' /\ epoch' = epoch
  <2>1. CASE TransitionRead(c, Attempt, to)
    <3>1. epoch' = epoch /\ call'[c].pc # "reopen" /\ \A d \in Calls : d # c => call'[d] = call[d]
      BY <1>1, <2>1 DEF TransitionRead
    <3> QED
      BY <3>1 DEF EpochsGrow
  <2>2. CASE ReopenRead(c, Attempt)
    <3>1. /\ epoch' = epoch /\ call'[c].epoch = epoch[Attempt] + 1
          /\ \A d \in Calls : d # c => call'[d] = call[d]
      BY <1>1, <2>2 DEF ReopenRead
    <3>2. epoch[Attempt] \in Nat
      BY <1>1
    <3> QED
      BY <3>1, <3>2 DEF EpochsGrow
  <2> QED
    BY <1>3, <2>1, <2>2
<1>4. ASSUME NEW c \in Calls, NEW pc \in {"done", "release"}, NEW res,
             call' = [call EXCEPT ![c].pc = pc, ![c].res = res],
             \/ epoch' = epoch
             \/ call[c].pc = "reopen" /\ epoch' = [epoch EXCEPT ![call[c].att] = call[c].epoch]
      PROVE  EpochsGrow' /\ (epoch'[Attempt] = 1 => epoch[Attempt] = 1)
  <2>1. call'[c].pc # "reopen" /\ \A d \in Calls : d # c => call'[d] = call[d]
    BY <1>1, <1>4
  <2>2. epoch'[Attempt] = epoch[Attempt] \/ (epoch'[Attempt] \in Nat /\ epoch'[Attempt] >= 2)
    BY <1>1, <1>4 DEF EpochsGrow
  <2>3. epoch[Attempt] \in Nat
    BY <1>1
  <2> QED
    BY <2>1, <2>2, <2>3 DEF EpochsGrow
<1>5. ASSUME NEW c \in Calls, CallStep(c) \/ CallFault(c)
      PROVE  EpochsGrow' /\ (epoch'[Attempt] = 1 => epoch[Attempt] = 1)
  <2>1. \E pc \in {"done", "release"}, res \in CallResults :
            /\ call' = [call EXCEPT ![c].pc = pc, ![c].res = res]
            /\ \/ epoch' = epoch
               \/ call[c].pc = "reopen" /\ epoch' = [epoch EXCEPT ![call[c].att] = call[c].epoch]
    <3>1. CASE TransitionWrite(c)
      BY <3>1 DEF TransitionWrite, CallResults
    <3>2. CASE TransitionRelease(c) \/ TransitionFault(c)
      BY <3>2 DEF TransitionRelease, TransitionFault, FinishCall, CallResults
    <3>3. CASE ReopenWrite(c) \/ ReopenFault(c)
      BY <3>3 DEF ReopenWrite, ReopenFault, FinishCall, CallResults
    <3> QED
      BY <1>5, <3>1, <3>2, <3>3 DEF CallStep, CallFault
  <2> QED
    BY <1>4, <2>1
<1>6. CASE AttemptNext
  BY <1>1, <1>3, <1>5, <1>6 DEF AttemptNext
<1>7. CASE RecordNext
  <2>1. PICK b \in Batches : UNCHANGED <<epoch, call>> \/ Terminate(b) \/ RecordDies(b)
    BY <1>7 DEF RecordNext
  <2>2. CASE Terminate(b)
    <3>1. CASE FinishCall(b, "error") /\ UNCHANGED epoch
      BY <1>1, <1>4, <3>1 DEF FinishCall
    <3> QED
      BY <1>1, <1>3, <2>2, <3>1 DEF Terminate
  <2>3. CASE RecordDies(b)
    <3>1. epoch' = epoch /\ (call' = call \/ call' = [call EXCEPT ![b].pc = "done"])
      BY <2>3 DEF RecordDies
    <3>2. call' = [call EXCEPT ![b].pc = "done"] =>
             call'[b].pc # "reopen" /\ \A d \in Calls : d # b => call'[d] = call[d]
      BY <1>1
    <3> QED
      BY <1>1, <3>1, <3>2 DEF EpochsGrow
  <2> QED
    BY <1>2, <2>1, <2>2, <2>3
<1>8. CASE PageNext
  BY <1>2, <1>8 DEF PageNext, Record, Online, Lost, Answered, Reload
<1>9. CASE UNCHANGED vars
  BY <1>2, <1>9 DEF vars, attemptVars
<1> QED
  BY <1>6, <1>7, <1>8, <1>9 DEF Next, Quiet

\* The page stayed, the database answered and the attempt was not reopened.
LEMMA PageStayed ==
    ASSUME EInv, EpochsGrow, [Next]_vars, PageStays'
    PROVE  PageStays /\ faults' = faults /\ ~Faulty /\ ~Reload
<1>1. faults = 0 /\ faults' = faults
  BY HealthySteps DEF PageStays
<1>2. epoch[Attempt] = 1
  BY EpochsStay DEF PageStays
<1>3. ~Reload
  BY DEF PageStays, Reload, EInv, PageType
<1>4. reloads' = reloads
  BY <1>3 DEF Next, PageNext, RecordNext, AttemptNext, Quiet, Record, Online, Lost, Answered,
              RecordDies, vars, pageVars
<1> QED
  BY <1>1, <1>2, <1>3, <1>4 DEF PageStays, Faulty, EInv, AttemptType, FaultsType

\* The number of an event says which incident it is.
LEMMA GenuineFacts ==
    ASSUME NEW e \in Event, NEW c \in Event, Genuine(e)
    PROVE  /\ Strike(e) <=> Strike(Incidents[e.seq])
           /\ SameIncident(e, c) <=> SameIncident(Incidents[e.seq], c)
           /\ Genuine(c) /\ e.seq = c.seq => e = c
<1>1. (Strike(e) <=> Strike(Incidents[e.seq]))
      /\ (SameIncident(e, c) <=> SameIncident(Incidents[e.seq], c))
  BY DEF Genuine, Strike, SameIncident
<1>2. ASSUME Genuine(c), e.seq = c.seq PROVE e = c
  BY <1>2 DEF Genuine, Event
<1> QED
  BY <1>1, <1>2

LEMMA SettledStays ==
    ASSUME Len(log) \in Nat, Len(log') \in Nat, Len(log) <= Len(log'),
           \A n \in 1..Len(log) : log'[n] = log[n], NEW i, Settled(i)
    PROVE  Settled(i)'
<1>1. CASE \E n \in 1..Len(log) : log[n].ev.seq = i
  BY <1>1 DEF Settled
<1>2. ASSUME NEW n \in Confirmed, Strike(Incidents[i]), SameIncident(Incidents[i], log[n].ev)
      PROVE  Settled(i)'
  <2>1. n \in Confirmed' /\ log'[n] = log[n]
    BY DEF Confirmed, Strike
  <2> QED
    BY <1>2, <2>1 DEF Settled, Strike, SameIncident
<1> QED
  BY <1>1, <1>2 DEF Settled

\* A batch stays as it is while rows are added and incidents observed.
LEMMA SettlesStays ==
    ASSUME Len(log) \in Nat, Len(log') \in Nat, Len(log) <= Len(log'),
           \A n \in 1..Len(log) : log'[n] = log[n],
           next \in Nat, next' \in Nat, next <= next',
           NEW me, BatchSettles(me)
    PROVE  BatchSettles(me)'
<1>1. ASSUME NEW e, Genuine(e) PROVE Genuine(e)'
  BY <1>1 DEF Genuine
<1>2. \A i : Settled(i) => Settled(i)'
  BY SettledStays
<1>3. \A e \in ToSet(me.evs) : Genuine(e)'
  BY <1>1 DEF BatchSettles
<1>4. \A e \in me.kept : \E n \in 1..Len(log') : log'[n].ev.seq = e.seq
  BY DEF BatchSettles
<1> QED
  BY <1>2, <1>3, <1>4 DEF BatchSettles

\* A step of one request.
LEMMA RequestKeepsPage ==
    ASSUME EInv, PageSound, UNCHANGED pageVars,
           Len(log') \in Nat, Len(log) <= Len(log'), \A n \in 1..Len(log) : log'[n] = log[n],
           NEW b \in Batches, NEW me, batch' = [batch EXCEPT ![b] = me],
           me.evs = batch[b].evs, me.waits = batch[b].waits, BatchSettles(me)'
    PROVE  PageSound'
<1>1. /\ next' = next /\ seq' = seq /\ buffer' = buffer /\ pageEpoch' = pageEpoch
      /\ Len(log) \in Nat /\ next \in Nat
      /\ \A c \in Batches : batch'[c] = IF c = b THEN me ELSE batch[c]
  BY DEF pageVars, EInv, PageType, EvidenceType
<1>2. ASSUME NEW c \in Batches PROVE BatchSettles(batch[c])'
  <2>1. CASE c = b
    <3>1. batch'[c] = me
      BY <1>1, <2>1
    <3> QED
      BY <3>1 DEF BatchSettles
  <2>2. CASE c # b
    <3>1. PICK other : other = batch[c] /\ other = batch'[c]
      BY <1>1, <2>2
    <3>2. BatchSettles(other)'
      BY <1>1, <3>1, SettlesStays DEF PageSound
    <3> QED
      BY <3>1, <3>2 DEF BatchSettles
  <2> QED
    BY <2>1, <2>2
<1>3. \A i : Settled(i) => Settled(i)'
  BY <1>1, SettledStays
<1>4. \A i : (Buffered(i) => Buffered(i)') /\ (Underway(i) => Underway(i)')
  BY <1>1 DEF Buffered, Underway
<1>5. \A e \in ToSet(buffer) : Genuine(e)'
  BY <1>1 DEF PageSound, Genuine
<1> QED
  BY <1>1, <1>2, <1>3, <1>4, <1>5 DEF PageSound

LEMMA PageUnmoved ==
    ASSUME EInv, PageSound, UNCHANGED <<pageVars, batch, log>>
    PROVE  PageSound'
BY DEF PageSound, pageVars, BatchSettles, Genuine, Settled, Confirmed, Buffered, Underway,
       Strike, SameIncident

LEMMA ReadKeepsPage ==
    ASSUME EInv, PageSound, epoch[Attempt] = 1, NEW b \in Batches, ~Faulty,
           ReadAttempt(b) \/ ReadStored(b) \/ ReadStrikes(b) \/ ReadTail(b),
           UNCHANGED <<status, epoch, lease, call, pageVars, log>>
    PROVE  PageSound'
<1>1. PICK it \in BatchRecords(Len(log)) : it = batch[b] /\ BatchSettles(it)
  BY DEF EInv, EvidenceType, PageSound
<1>2. Len(log) \in Nat /\ log' = log /\ next' = next
  BY DEF EInv, EvidenceType, pageVars
<1> \A n \in {0, Len(log)} : n \in 0..Len(log)
  BY <1>2
<1>3. ASSUME NEW me \in BatchRecords(Len(log)), batch' = [batch EXCEPT ![b] = me],
             me.evs = it.evs, me.waits = it.waits, me.kept = it.kept, me.epoch = 1,
             me.pc \in {"stored", "strikes", "tail", "events"},
             me.pc = "events" => me.left = it.evs
      PROVE  PageSound'
  <2>1. BatchSettles(me)
    BY <1>1, <1>3 DEF BatchSettles
  <2>2. BatchSettles(me)'
    BY <1>2, <2>1 DEF BatchSettles, Genuine, Settled, Confirmed, Strike, SameIncident
  <2> QED
    <3>1. /\ Len(log') \in Nat /\ Len(log) <= Len(log')
          /\ \A n \in 1..Len(log) : log'[n] = log[n]
      BY <1>2
    <3>2. me.evs = batch[b].evs /\ me.waits = batch[b].waits
      BY <1>1, <1>3
    <3> QED
      BY <1>3, <2>2, <3>1, <3>2, RequestKeepsPage
<1>4. CASE ReadAttempt(b)
  <2> DEFINE me == [it EXCEPT !.pc = "stored", !.epoch = 1]
  <2>1. me \in BatchRecords(Len(log)) /\ batch' = [batch EXCEPT ![b] = me]
    BY <1>1, <1>4 DEF ReadAttempt, BatchRecords, BatchPcs, EInv, EvidenceType
  <2>2. /\ me.evs = it.evs /\ me.waits = it.waits /\ me.kept = it.kept /\ me.epoch = 1
        /\ me.pc = "stored"
    BY DEF BatchRecords
  <2> HIDE DEF me
  <2> QED
    BY <1>3, <2>1, <2>2
<1>5. CASE ReadStored(b)
  <2>1. PICK n \in {0, Len(log)} : batch' = [batch EXCEPT ![b].pc = "strikes", ![b].stored = n]
    BY <1>5 DEF ReadStored
  <2> DEFINE me == [it EXCEPT !.pc = "strikes", !.stored = n]
  <2>2. me \in BatchRecords(Len(log)) /\ batch' = [batch EXCEPT ![b] = me]
    BY <1>1, <1>2, <2>1 DEF BatchRecords, BatchPcs, EInv, EvidenceType
  <2>3. it.epoch = 1
    BY <1>1, <1>5 DEF BatchSettles, ReadStored
  <2>4. /\ me.evs = it.evs /\ me.waits = it.waits /\ me.kept = it.kept /\ me.epoch = 1
        /\ me.pc = "strikes"
    BY <2>3 DEF BatchRecords
  <2> HIDE DEF me
  <2> QED
    BY <1>3, <2>2, <2>4
<1>6. CASE ReadStrikes(b)
  <2>1. PICK n \in {0, Len(log)} : batch' = [batch EXCEPT ![b].pc = "tail", ![b].strikes = n]
    BY <1>6 DEF ReadStrikes
  <2> DEFINE me == [it EXCEPT !.pc = "tail", !.strikes = n]
  <2>2. me \in BatchRecords(Len(log)) /\ batch' = [batch EXCEPT ![b] = me]
    BY <1>1, <1>2, <2>1 DEF BatchRecords, BatchPcs, EInv, EvidenceType
  <2>3. it.epoch = 1
    BY <1>1, <1>6 DEF BatchSettles, ReadStrikes
  <2>4. /\ me.evs = it.evs /\ me.waits = it.waits /\ me.kept = it.kept /\ me.epoch = 1
        /\ me.pc = "tail"
    BY <2>3 DEF BatchRecords
  <2> HIDE DEF me
  <2> QED
    BY <1>3, <2>2, <2>4
<1>7. CASE ReadTail(b)
  <2>1. PICK n \in {0, Len(log)} :
            batch' = [batch EXCEPT ![b].pc = "events", ![b].left = batch[b].evs,
                                   ![b].prev = IF n = 0 THEN NoHash ELSE log[n].hash]
    BY <1>7 DEF ReadTail
  <2>2. (IF n = 0 THEN NoHash ELSE log[n].hash) \in Hashes
    <3>1. n # 0 => n \in 1..Len(log)
      BY <1>2
    <3>2. n # 0 => log[n].hash \in Hashes
      BY <3>1, RowTyped DEF EInv, Rows
    <3> QED
      BY <3>2 DEF Hashes
  <2>3. PICK hash \in Hashes : hash = (IF n = 0 THEN NoHash ELSE log[n].hash)
    BY <2>2
  <2> DEFINE me == [it EXCEPT !.pc = "events", !.left = it.evs, !.prev = hash]
  <2>4. me \in BatchRecords(Len(log)) /\ batch' = [batch EXCEPT ![b] = me]
    BY <1>1, <2>1, <2>3 DEF BatchRecords, BatchPcs, EInv, EvidenceType
  <2>5. it.epoch = 1
    BY <1>1, <1>7 DEF BatchSettles, ReadTail
  <2>6. /\ me.evs = it.evs /\ me.waits = it.waits /\ me.kept = it.kept /\ me.epoch = 1
        /\ me.pc = "events" /\ me.left = it.evs
    BY <2>5 DEF BatchRecords
  <2> HIDE DEF me
  <2> QED
    BY <1>3, <2>4, <2>6
<1> QED
  BY <1>4, <1>5, <1>6, <1>7

\* An event is dropped for something that settles it.
LEMMA DroppedIsSettled ==
    ASSUME EInv, PageSound, NEW b \in Batches, batch[b].pc = "events",
           NEW e \in ToSet(batch[b].evs), Dropped(b, e)
    PROVE  Settled(e.seq)
<1>1. PICK it \in BatchRecords(Len(log)) : it = batch[b] /\ BatchSettles(it) /\ BatchSound(it)
  BY DEF EInv, EvidenceType, EvidenceSound, PageSound
<1>2. /\ Len(log) \in Nat /\ it.stored \in 0..Len(log) /\ it.strikes \in 0..Len(log)
      /\ it.kept \in SUBSET Event /\ it.evs \in Seq(Event)
  BY DEF EInv, EvidenceType, BatchRecords
<1>3. e \in Event /\ Genuine(e)
  BY <1>1, <1>2, SeqElements DEF BatchSettles
<1>4. CASE e.seq \in StoredKeys(b)
  <2>1. CASE \E n \in 1..it.stored : log[n].ev.seq = e.seq
    BY <1>2, <2>1 DEF Settled
  <2>2. CASE \E x \in it.kept : x.seq = e.seq
    BY <1>1, <2>2 DEF BatchSettles, Settled
  <2> QED
    BY <1>1, <1>4, <2>1, <2>2 DEF StoredKeys
<1>5. CASE Strike(e) /\ \E c \in ConfirmedSoFar(b) : SameIncident(e, c)
  <2>1. PICK c \in ConfirmedSoFar(b) : SameIncident(e, c)
    BY <1>5
  <2>2. \E n \in Confirmed : log[n].ev = c
    <3>1. CASE \E n \in ConfirmedBefore(b) : c = log[n].ev
      BY <1>1, <1>2, <3>1 DEF ConfirmedBefore, Confirmed
    <3>2. CASE c \in it.kept /\ Strike(c)
      <4>1. c \in Event /\ c \in ToSet(it.evs) /\ Genuine(c)
        BY <1>1, <1>2, <3>2 DEF BatchSound, BatchSettles
      <4>2. PICK n \in 1..Len(log) : log[n].ev.seq = c.seq
        BY <1>1, <3>2 DEF BatchSettles
      <4>3. log[n].ev \in Event /\ log[n].by \in Batches
        BY RowTyped DEF EInv
      <4>4. log[n].ev \in ToSet(batch[log[n].by].evs)
        BY <4>3 DEF EInv, EvidenceSound, RowSound, BatchSound
      <4>5. Genuine(log[n].ev)
        BY <4>3, <4>4 DEF PageSound, BatchSettles
      <4>6. log[n].ev = c
        BY <4>1, <4>2, <4>3, <4>5, GenuineFacts
      <4> QED
        BY <3>2, <4>6 DEF Confirmed
    <3> QED
      BY <1>1, <2>1, <3>1, <3>2 DEF ConfirmedSoFar
  <2>3. PICK n \in Confirmed : log[n].ev = c
    BY <2>2
  <2>4. c \in Event
    BY <2>3, RowTyped DEF Confirmed, EInv
  <2>5. Strike(Incidents[e.seq]) /\ SameIncident(Incidents[e.seq], log[n].ev)
    BY <1>3, <1>5, <2>1, <2>3, <2>4, GenuineFacts
  <2> QED
    BY <2>5 DEF Settled
<1>6. e.epoch = batch[b].epoch
  BY <1>1, <1>3 DEF BatchSettles, Genuine
<1> QED
  BY <1>4, <1>5, <1>6 DEF Dropped

LEMMA DropKeepsPage ==
    ASSUME EInv, PageSound, NEW b \in Batches, DropEvent(b) \/ RecordDone(b),
           UNCHANGED <<status, epoch, lease, call, pageVars>>
    PROVE  PageSound'
<1>1. PICK it \in BatchRecords(Len(log)) : it = batch[b] /\ BatchSettles(it) /\ BatchSound(it)
  BY DEF EInv, EvidenceType, EvidenceSound, PageSound
<1>2. /\ Len(log) \in Nat /\ Len(log') \in Nat /\ log' = log /\ Len(log) <= Len(log')
      /\ \A n \in 1..Len(log) : log'[n] = log[n]
      /\ next' = next /\ batch[b].pc = "events" /\ it.pc = "events"
  BY <1>1 DEF EInv, EvidenceType, pageVars, DropEvent, RecordDone, AtEvents
<1>3. ASSUME NEW me \in BatchRecords(Len(log)), batch' = [batch EXCEPT ![b] = me],
             me.evs = it.evs, me.waits = it.waits, BatchSettles(me)
      PROVE  PageSound'
  <2>1. BatchSettles(me)'
    BY <1>2, <1>3 DEF BatchSettles, Genuine, Settled, Confirmed, Strike, SameIncident
  <2>2. me.evs = batch[b].evs /\ me.waits = batch[b].waits
    BY <1>1, <1>3
  <2> QED
    BY <1>2, <1>3, <2>1, <2>2, RequestKeepsPage
<1>4. CASE DropEvent(b)
  <2>1. it.left \in Seq(Event) /\ it.left # <<>> /\ Dropped(b, Head(it.left))
    BY <1>1, <1>4 DEF DropEvent, BatchRecords
  <2>2. Tail(it.left) \in Seq(Event) /\ ToSet(it.left) = {Head(it.left)} \cup ToSet(Tail(it.left))
    BY <2>1, HeadTailElements
  <2>3. Head(it.left) \in ToSet(it.evs)
    BY <1>1, <2>2 DEF BatchSound
  <2>4. PICK e \in ToSet(it.evs) : e = Head(it.left) /\ Settled(e.seq)
    BY <1>1, <1>2, <2>1, <2>3, DroppedIsSettled
  <2> DEFINE me == [it EXCEPT !.left = Tail(it.left)]
  <2>5. me \in BatchRecords(Len(log)) /\ batch' = [batch EXCEPT ![b] = me]
    BY <1>1, <1>4, <2>2 DEF DropEvent, BatchRecords, EInv, EvidenceType
  <2>6. /\ me.evs = it.evs /\ me.waits = it.waits /\ me.pc = it.pc /\ me.epoch = it.epoch
        /\ me.kept = it.kept /\ me.left = Tail(it.left)
    BY DEF BatchRecords
  <2> HIDE DEF me
  <2>7. BatchSettles(me)
    BY <1>1, <1>2, <2>2, <2>4, <2>6 DEF BatchSettles
  <2> QED
    BY <1>3, <2>5, <2>6, <2>7
<1>5. CASE RecordDone(b)
  <2>1. it.left = <<>>
    BY <1>1, <1>5 DEF RecordDone
  <2>2. ToSet(<<>>) = {}
    BY DEF ToSet
  <2>3. ToSet(it.left) = {}
    BY <2>1, <2>2
  <2> DEFINE me == [it EXCEPT !.pc = "done", !.ok = TRUE]
  <2>4. me \in BatchRecords(Len(log)) /\ batch' = [batch EXCEPT ![b] = me]
    BY <1>1, <1>5 DEF RecordDone, BatchRecords, BatchPcs, EInv, EvidenceType
  <2>5. /\ me.evs = it.evs /\ me.waits = it.waits /\ me.pc = "done" /\ me.kept = it.kept
        /\ me.ok
    BY DEF BatchRecords
  <2> HIDE DEF me
  <2>6. BatchSettles(me)
    BY <1>1, <1>2, <2>3, <2>5 DEF BatchSettles
  <2> QED
    BY <1>3, <2>4, <2>5, <2>6
<1> QED
  BY <1>4, <1>5

LEMMA KeepKeepsPage ==
    ASSUME EInv, PageSound, NEW b \in Batches, KeepEvent(b), ~Faulty,
           UNCHANGED <<status, epoch, lease, call, pageVars>>
    PROVE  PageSound'
<1>1. PICK e \in Event :
            /\ batch[b].pc = "events" /\ e \in ToSet(batch[b].left) /\ ~Dropped(b, e)
            /\ RowOf(b, e) \in Rows
            /\ Kept(b, e) \in BatchRecords(Len(log))
            /\ ToSet(batch[b].left) = {e} \cup ToSet(Tail(batch[b].left))
            /\ batch' = [batch EXCEPT ![b] = Kept(b, e)]
            /\ \/ log' = log /\ (Faulty \/ (Healthy /\ ~NewNumber(e)))
               \/ log' = Append(log, RowOf(b, e)) /\ NewNumber(e)
  BY KeepFacts
<1>2. PICK it \in BatchRecords(Len(log)) : it = batch[b] /\ BatchSettles(it) /\ BatchSound(it)
  BY DEF EInv, EvidenceType, EvidenceSound, PageSound
<1>3. PICK me \in BatchRecords(Len(log)) : me = Kept(b, e)
  BY <1>1
<1>4. /\ me.pc = it.pc /\ me.evs = it.evs /\ me.waits = it.waits /\ me.epoch = it.epoch
      /\ me.kept = it.kept \cup {e} /\ me.left = Tail(it.left)
  BY <1>2, <1>3 DEF Kept, BatchRecords
<1>5. PICK row \in Rows : row = RowOf(b, e) /\ row.ev = e
  BY <1>1 DEF RowOf
<1>6. /\ Len(log) \in Nat /\ Len(log') \in Nat /\ Len(log) <= Len(log')
      /\ \A n \in 1..Len(log) : log'[n] = log[n]
      /\ \A n \in 1..Len(log') : n \in 1..Len(log) \/ (n = Len(log) + 1 /\ log'[n] = row)
      /\ log' = Append(log, row) => Len(log') = Len(log) + 1
  BY <1>1, <1>5, LogGrows
<1>7. PICK n \in 1..Len(log') : log'[n].ev.seq = e.seq
  <2>1. CASE ~NewNumber(e)
    BY <1>6, <2>1 DEF NewNumber
  <2>2. CASE log' = Append(log, row)
    <3>1. Len(log) + 1 \in 1..Len(log') /\ log'[Len(log) + 1] = row
      BY <1>6, <2>2
    <3> QED
      BY <1>5, <3>1
  <2> QED
    BY <1>1, <1>5, <2>1, <2>2
<1>8. next \in Nat /\ next' = next
  BY DEF EInv, PageType, pageVars
<1>9. BatchSettles(it)'
  BY <1>2, <1>6, <1>8, SettlesStays
<1>10. BatchSettles(me)'
  <2>1. Settled(e.seq)'
    BY <1>7 DEF Settled
  <2>2. \A x \in ToSet(me.evs) : Genuine(x)'
    BY <1>4, <1>9 DEF BatchSettles
  <2>3. \A x \in me.kept : \E m \in 1..Len(log') : log'[m].ev.seq = x.seq
    BY <1>4, <1>7, <1>9 DEF BatchSettles
  <2>4. \A x \in ToSet(me.evs) : x \in ToSet(me.left) \/ Settled(x.seq)'
    BY <1>1, <1>2, <1>4, <1>9, <2>1 DEF BatchSettles
  <2>5. me.pc = "events" /\ me.epoch = 1
    BY <1>1, <1>2, <1>4 DEF BatchSettles
  <2> QED
    BY <2>2, <2>3, <2>4, <2>5 DEF BatchSettles
<1>11. me.evs = batch[b].evs /\ me.waits = batch[b].waits /\ batch' = [batch EXCEPT ![b] = me]
  BY <1>1, <1>2, <1>3, <1>4
<1> QED
  BY <1>6, <1>10, <1>11, RequestKeepsPage

\* What leaves the buffer is on its way.
LEMMA FlushKeepsPage ==
    ASSUME EInv, PageSound, log' = log, NEW b \in Batches, NEW buf \in Seq(Event), Flush(b, buf),
           next' \in Nat, next <= next', seq' = next' - 1, pageEpoch' = 1,
           \A e \in ToSet(buf) : Genuine(e)',
           \A i \in 1..(next' - 1) :
               (\E e \in ToSet(buf) : e.seq = i) \/ Underway(i) \/ Settled(i)
    PROVE  PageSound'
<1>1. PICK it \in BatchRecords(Len(log)) : it = batch[b] /\ BatchSettles(it) /\ BatchSound(it)
  BY DEF EInv, EvidenceType, EvidenceSound, PageSound
<1>2. PICK evs \in Seq(Event), rest \in Seq(Event) :
          /\ evs = FirstN(buf, MaxBuffer) /\ rest = SubSeq(buf, MaxBuffer + 1, Len(buf))
          /\ ToSet(buf) = ToSet(evs) \cup ToSet(rest)
  <2>1. MaxBuffer \in Nat
    BY ProctorAssumption
  <2>2. /\ FirstN(buf, MaxBuffer) \in Seq(Event)
        /\ SubSeq(buf, MaxBuffer + 1, Len(buf)) \in Seq(Event)
        /\ ToSet(buf) = ToSet(FirstN(buf, MaxBuffer)) \cup ToSet(SubSeq(buf, MaxBuffer + 1, Len(buf)))
    BY <2>1, FlushElements
  <2> QED
    BY <2>2
<1>3. /\ batch[b].pc = "idle" /\ buffer' = rest
      /\ batch' = [batch EXCEPT ![b].pc = "attempt", ![b].waits = TRUE, ![b].evs = evs]
  BY <1>2 DEF Flush
<1> DEFINE new == [it EXCEPT !.pc = "attempt", !.waits = TRUE, !.evs = evs]
<1>4. PICK me : me = new
  OBVIOUS
<1>5. me.pc = "attempt" /\ me.waits /\ me.evs = evs /\ me.kept = {}
  BY <1>1, <1>3, <1>4 DEF BatchRecords, BatchSound
<1>6. \A c \in Batches : batch'[c] = IF c = b THEN me ELSE batch[c]
  BY <1>1, <1>3, <1>4 DEF EInv, EvidenceType
<1>7. Len(log) \in Nat /\ next \in Nat
  BY DEF EInv, EvidenceType, PageType
<1>8. ASSUME NEW c \in Batches PROVE BatchSettles(batch[c])'
  <2>1. CASE c = b
    <3>1. batch'[c] = me
      BY <1>6, <2>1
    <3>2. BatchSettles(me)'
      BY <1>2, <1>5 DEF BatchSettles
    <3> QED
      BY <3>1, <3>2 DEF BatchSettles
  <2>2. CASE c # b
    <3>1. PICK other : other = batch[c] /\ other = batch'[c]
      BY <1>6, <2>2
    <3>2. BatchSettles(other)
      BY <3>1 DEF PageSound
    <3>3. BatchSettles(other)'
      BY <1>7, <3>2, SettlesStays
    <3> QED
      BY <3>1, <3>3 DEF BatchSettles
  <2> QED
    BY <2>1, <2>2
<1>9. \A e \in ToSet(buffer') : Genuine(e)'
  BY <1>2, <1>3
<1>10. ASSUME NEW i \in 1..(next' - 1) PROVE Buffered(i)' \/ Underway(i)' \/ Settled(i)'
  <2>1. CASE \E e \in ToSet(rest) : e.seq = i
    BY <1>3, <2>1 DEF Buffered
  <2>2. CASE \E e \in ToSet(evs) : e.seq = i
    BY <1>5, <1>6, <2>2 DEF Underway
  <2>3. CASE Underway(i)
    <3>1. PICK c \in Batches : batch[c].waits /\ \E e \in ToSet(batch[c].evs) : e.seq = i
      BY <2>3 DEF Underway
    <3>2. c # b
      <4>1. it.evs = <<>>
        BY <1>1, <1>3 DEF BatchSound
      <4>2. ToSet(<<>>) = {}
        BY DEF ToSet
      <4>3. ToSet(it.evs) = {}
        BY <4>1, <4>2
      <4> QED
        BY <1>1, <3>1, <4>3
    <3> QED
      BY <1>6, <3>1, <3>2 DEF Underway
  <2>4. CASE Settled(i)
    BY <1>7, <2>4, SettledStays
  <2> QED
    BY <1>2, <2>1, <2>2, <2>3, <2>4
<1> QED
  BY <1>8, <1>9, <1>10 DEF PageSound

LEMMA RecordKeepsPage == ASSUME EInv, PageSound, Record PROVE PageSound'
<1>1. /\ next \in Nat \ {0} /\ next' = next + 1 /\ seq = next - 1 /\ seq' = next
      /\ pageEpoch = 1 /\ pageEpoch' = 1 /\ log' = log /\ Len(log) \in Nat
  BY ProctorAssumption DEF EInv, EvidenceType, PageType, PageSound, Record
<1>2. next \in 1..Len(Incidents) /\ Incidents \in Seq([focus : BOOLEAN, at : Nat, dur : Nat])
  BY <1>1, ProctorAssumption DEF Record
<1>3. PICK i \in [focus : BOOLEAN, at : Nat, dur : Nat] : i = Incidents[next]
  BY <1>2, ElementOfSeq
<1>4. PICK e \in Event : e = [seq |-> seq + 1, focus |-> i.focus, at |-> i.at, dur |-> i.dur,
                             epoch |-> pageEpoch]
  <2>1. seq + 1 \in Nat \ {0} /\ pageEpoch \in Nat
    BY <1>1
  <2>2. i.focus \in BOOLEAN /\ i.at \in Nat /\ i.dur \in Nat
    OBVIOUS
  <2> QED
    BY <2>1, <2>2 DEF Event
<1>5. /\ e.seq = next /\ e.focus = i.focus /\ e.at = i.at /\ e.dur = i.dur /\ e.epoch = 1
  BY <1>1, <1>4
<1>6. Genuine(e)'
  BY <1>1, <1>3, <1>5 DEF Genuine
<1>7. PICK buf \in Seq(Event) : buf = Append(buffer, e) /\ ToSet(buf) = ToSet(buffer) \cup {e}
  <2>1. buffer \in Seq(Event)
    BY DEF EInv, PageType
  <2>2. Append(buffer, e) \in Seq(Event) /\ ToSet(Append(buffer, e)) = ToSet(buffer) \cup {e}
    BY <2>1, AppendElements
  <2> QED
    BY <2>2
<1>8. \A x \in ToSet(buffer) : Genuine(x)'
  BY <1>1 DEF PageSound, Genuine
<1>9. \A x \in ToSet(buf) : Genuine(x)'
  BY <1>6, <1>7, <1>8
<1>10. \A j \in 1..(next' - 1) :
           (\E x \in ToSet(buf) : x.seq = j) \/ Underway(j) \/ Settled(j)
  <2> SUFFICES ASSUME NEW j \in 1..(next' - 1)
               PROVE  (\E x \in ToSet(buf) : x.seq = j) \/ Underway(j) \/ Settled(j)
    OBVIOUS
  <2>1. CASE j = next
    BY <1>5, <1>7, <2>1
  <2>2. CASE j \in 1..(next - 1)
    BY <1>7, <2>2 DEF PageSound, Buffered
  <2> QED
    BY <1>1, <2>1, <2>2
<1>11. CASE \E b \in Batches : Flush(b, buf)
  BY <1>1, <1>9, <1>10, <1>11, FlushKeepsPage
<1>12. CASE buffer' = buf /\ UNCHANGED batch
  <2>1. ASSUME NEW b \in Batches PROVE BatchSettles(batch[b])'
    <3>1. PICK me : me = batch[b] /\ me = batch'[b]
      BY <1>12
    <3>2. BatchSettles(me)
      BY <3>1 DEF PageSound
    <3>3. BatchSettles(me)'
      BY <1>1, <3>2, SettlesStays
    <3> QED
      BY <3>1, <3>3 DEF BatchSettles
  <2>2. \A j : (Settled(j) => Settled(j)') /\ (Underway(j) => Underway(j)')
    BY <1>1, <1>12, SettledStays DEF Underway
  <2>3. \A x \in ToSet(buffer') : Genuine(x)'
    BY <1>9, <1>12
  <2>4. \A j \in 1..(next' - 1) : Buffered(j)' \/ Underway(j)' \/ Settled(j)'
    BY <1>10, <1>12, <2>2 DEF Buffered
  <2>5. seq' = next' - 1 /\ pageEpoch' = 1
    BY <1>1
  <2> QED
    BY <2>1, <2>3, <2>4, <2>5 DEF PageSound
<1> QED
  BY <1>3, <1>4, <1>7, <1>11, <1>12 DEF Record

LEMMA OnlineKeepsPage == ASSUME EInv, PageSound, Online PROVE PageSound'
<1>1. /\ next \in Nat /\ next' = next /\ seq' = next' - 1 /\ pageEpoch' = 1 /\ log' = log
      /\ buffer \in Seq(Event) /\ \E b \in Batches : Flush(b, buffer)
  BY DEF EInv, PageType, PageSound, Online
<1>2. \A e \in ToSet(buffer) : Genuine(e)'
  BY <1>1 DEF PageSound, Genuine
<1>3. \A i \in 1..(next' - 1) :
          (\E e \in ToSet(buffer) : e.seq = i) \/ Underway(i) \/ Settled(i)
  BY <1>1 DEF PageSound, Buffered
<1> QED
  BY <1>1, <1>2, <1>3, FlushKeepsPage

\* A post that the page waits for no more: its events are back in the buffer, or
\* all of them are settled.
LEMMA EndedKeepsPage ==
    ASSUME EInv, PageSound, NEW b \in Batches,
           UNCHANGED <<log, next, seq, pageEpoch>>,
           NEW pc, pc = "done" \/ pc = batch[b].pc,
           batch' = [batch EXCEPT ![b].waits = FALSE, ![b].pc = pc],
           \/ buffer' = Restore(batch[b].evs)
           \/ buffer' = buffer /\ \A e \in ToSet(batch[b].evs) : Settled(e.seq)
    PROVE  PageSound'
<1>1. PICK it \in BatchRecords(Len(log)) : it = batch[b] /\ BatchSettles(it)
  BY DEF EInv, EvidenceType, PageSound
<1> DEFINE new == [it EXCEPT !.waits = FALSE, !.pc = pc]
<1>2. PICK me : me = new
  OBVIOUS
<1>3. /\ me.pc = pc /\ ~me.waits /\ me.evs = it.evs /\ me.kept = it.kept
      /\ me.left = it.left /\ me.epoch = it.epoch
  BY <1>2 DEF BatchRecords
<1>4. \A c \in Batches : batch'[c] = IF c = b THEN me ELSE batch[c]
  BY <1>1, <1>2 DEF EInv, EvidenceType
<1>5. Len(log) \in Nat /\ next \in Nat
  BY DEF EInv, EvidenceType, PageType
<1>6. BatchSettles(me)
  BY <1>1, <1>3 DEF BatchSettles
<1>7. ASSUME NEW c \in Batches PROVE BatchSettles(batch[c])'
  <2>1. PICK other : other = batch'[c] /\ BatchSettles(other)
    BY <1>4, <1>6 DEF PageSound
  <2>2. BatchSettles(other)'
    BY <1>5, <2>1, SettlesStays
  <2> QED
    BY <2>1, <2>2 DEF BatchSettles
<1>8. \A i : Settled(i) => Settled(i)'
  BY <1>5, SettledStays
<1>9. it.evs \in Seq(Event) /\ buffer \in Seq(Event)
  BY DEF BatchRecords, EInv, PageType
<1>10. ToSet(buffer) \subseteq ToSet(buffer')
       /\ ToSet(buffer') \subseteq ToSet(buffer) \cup ToSet(it.evs)
       /\ \A e \in ToSet(it.evs) : e \in ToSet(buffer') \/ Settled(e.seq)
  <2>1. CASE buffer' = Restore(batch[b].evs)
    <3>1. buffer' = it.evs \o buffer
      BY <1>1, <2>1 DEF Restore
    <3>2. ToSet(buffer') = ToSet(it.evs) \cup ToSet(buffer)
      BY <1>9, <3>1, ConcatElements
    <3> QED
      BY <3>2
  <2>2. CASE buffer' = buffer /\ \A e \in ToSet(batch[b].evs) : Settled(e.seq)
    BY <1>1, <2>2
  <2> QED
    BY <2>1, <2>2
<1>11. \A e \in ToSet(buffer') : Genuine(e)'
  <2>1. \A e : Genuine(e) => Genuine(e)'
    BY DEF Genuine
  <2> QED
    BY <1>1, <1>10, <2>1 DEF PageSound, BatchSettles
<1>12. ASSUME NEW i \in 1..(next - 1) PROVE Buffered(i)' \/ Underway(i)' \/ Settled(i)'
  <2>1. CASE Buffered(i)
    BY <1>10, <2>1 DEF Buffered
  <2>2. CASE Settled(i)
    BY <1>8, <2>2
  <2>3. CASE Underway(i)
    <3>1. PICK c \in Batches : batch[c].waits /\ \E e \in ToSet(batch[c].evs) : e.seq = i
      BY <2>3 DEF Underway
    <3>2. CASE c = b
      BY <1>1, <1>8, <1>10, <3>1, <3>2 DEF Buffered
    <3>3. CASE c # b
      BY <1>4, <3>1, <3>3 DEF Underway
    <3> QED
      BY <3>2, <3>3
  <2> QED
    BY <2>1, <2>2, <2>3 DEF PageSound
<1> QED
  BY <1>7, <1>11, <1>12 DEF PageSound

LEMMA NextKeepsPage ==
    ASSUME EInv, VanishInv, [Next]_vars
    PROVE  VanishInv'
<1>1. EpochsGrow'
  BY EpochsStay DEF VanishInv
<1> SUFFICES ASSUME PageStays' PROVE PageSound'
  BY <1>1 DEF VanishInv
<1>2. PageSound /\ epoch[Attempt] = 1 /\ ~Faulty /\ ~Reload
  BY PageStayed DEF VanishInv, PageStays
<1>3. ASSUME NEW b \in Batches, Lost(b) PROVE PageSound'
  <2>1. buffer' = Restore(batch[b].evs) /\ UNCHANGED <<log, next, seq, pageEpoch>>
    BY <1>3 DEF Lost
  <2>2. CASE batch' = [batch EXCEPT ![b].waits = FALSE]
    <3>1. batch' = [batch EXCEPT ![b].waits = FALSE, ![b].pc = batch[b].pc]
      BY <2>2 DEF EInv, EvidenceType, BatchRecords
    <3> QED
      BY <1>2, <2>1, <3>1, EndedKeepsPage
  <2>3. CASE batch' = [batch EXCEPT ![b].waits = FALSE, ![b].pc = "done"]
    BY <1>2, <2>1, <2>3, EndedKeepsPage
  <2> QED
    BY <1>3, <2>2, <2>3 DEF Lost
<1>4. ASSUME NEW b \in Batches, Answered(b) PROVE PageSound'
  <2>1. batch[b].ok /\ \A e \in ToSet(batch[b].evs) : Settled(e.seq)
    BY <1>2, <1>4 DEF PageSound, BatchSettles, Answered
  <2>2. buffer' = buffer /\ UNCHANGED <<log, next, seq, pageEpoch>>
    BY <1>4, <2>1 DEF Answered
  <2>3. batch' = [batch EXCEPT ![b].waits = FALSE, ![b].pc = batch[b].pc]
    BY <1>4 DEF Answered, EInv, EvidenceType, BatchRecords
  <2> QED
    BY <1>2, <2>1, <2>2, <2>3, EndedKeepsPage
<1>5. CASE PageNext
  BY <1>2, <1>3, <1>4, <1>5, RecordKeepsPage, OnlineKeepsPage DEF PageNext
<1>6. CASE UNCHANGED <<pageVars, batch, log>>
  BY <1>2, <1>6, PageUnmoved
<1>7. CASE RecordNext
  <2>1. PICK b \in Batches :
            \/ /\ \/ ReadAttempt(b) \/ ReadStored(b) \/ ReadStrikes(b) \/ ReadTail(b)
               /\ UNCHANGED <<status, epoch, lease, call, pageVars, log>>
            \/ /\ DropEvent(b) \/ KeepEvent(b) \/ RecordDone(b)
               /\ UNCHANGED <<status, epoch, lease, call, pageVars>>
            \/ UNCHANGED <<pageVars, batch, log>>
    BY <1>2, <1>7 DEF RecordNext, RecordDies
  <2> QED
    BY <1>2, <1>6, <2>1, ReadKeepsPage, DropKeepsPage, KeepKeepsPage
<1>8. CASE AttemptNext \/ UNCHANGED vars
  BY <1>6, <1>8 DEF AttemptNext, vars
<1> QED
  BY <1>5, <1>7, <1>8 DEF Next, Quiet

LEMMA InitKeepsPage == ASSUME Init PROVE VanishInv
<1>1. /\ next = 1 /\ seq = 0 /\ pageEpoch = 1 /\ epoch[Attempt] = 1
      /\ buffer = <<>> /\ \A b \in Batches : batch[b] = IdleBatch
      /\ \A c \in Calls : call[c].pc = "idle"
  BY ProctorAssumption DEF Init, IdleCall
<1>2. ToSet(<<>>) = {}
  BY DEF ToSet
<1>3. BatchSettles(IdleBatch)
  BY <1>2 DEF IdleBatch, BatchSettles
<1>4. \A b \in Batches : BatchSettles(batch[b])
  BY <1>1, <1>3
<1>5. ToSet(buffer) = {}
  BY <1>1, <1>2
<1> QED
  BY <1>1, <1>4, <1>5 DEF VanishInv, EpochsGrow, PageSound

\* As long as the page stays, the database answers and the attempt is not
\* reopened, what the page observed is buffered, on its way, stored, or of an
\* incident that is stored: no lost answer, resend or overlap makes it vanish.
THEOREM ObservedIsKept == Spec => []NothingVanishes
<1>1. Init => VanishInv
  BY InitKeepsPage
<1>2. EInv /\ VanishInv /\ [Next]_vars => VanishInv'
  BY NextKeepsPage
<1>3. VanishInv => NothingVanishes
  BY DEF VanishInv, PageStays, PageSound, NothingVanishes, Buffered, Underway, Settled
<1> QED
  BY <1>1, <1>2, <1>3, EInvHolds, PTL DEF Spec
=============================================================================
