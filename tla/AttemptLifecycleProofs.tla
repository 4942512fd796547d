----------------------- MODULE AttemptLifecycleProofs -----------------------
(***************************************************************************)
(* Proofs about AttemptLifecycle, for any number of attempts, days,        *)
(* requests and database failures: its invariants, and that it implements  *)
(* AttemptRegistry.                                                        *)
(***************************************************************************)
EXTENDS AttemptLifecycle, TLAPS

-----------------------------------------------------------------------------
(* The inductive invariant.                                                *)

\* A lease belongs to an attempts row: they are inserted in one transaction.
LeaseHasRow ==
    \A a \in Attempts : lease[a] # "none" => status[a] # "none"

\* An invocation that is on its way to a write found a row, and the status it
\* will write is one a row can have.
CallHasRow ==
    \A c \in Calls :
        call[c].pc \in {"write", "release", "reopen"} =>
            /\ call[c].att \in Attempts
            /\ status[call[c].att] # "none"
            /\ call[c].to \in Statuses

IInv ==
    /\ TypeOK
    /\ LeaseHasRow
    /\ CallHasRow
    /\ SingleWriter
    /\ OneAttemptPerDay
    /\ StartNamesItsDay

CallRecord ==
    [pc : CallPcs, att : Attempts \cup {NoAttempt}, to : Statuses \cup {"none"},
     epoch : Nat, res : CallResults]

\* Finishing an invocation keeps the type of call and touches no other one.
LEMMA FinishCallType ==
    ASSUME call \in [Calls -> CallRecord], NEW c \in Calls,
           NEW res \in CallResults, FinishCall(c, res)
    PROVE  /\ call' \in [Calls -> CallRecord]
           /\ call'[c].pc = "done"
           /\ \A d \in Calls : d # c => call'[d] = call[d]
<1>1. PICK done \in CallRecord : done = [call[c] EXCEPT !.pc = "done", !.res = res]
  BY DEF CallRecord, CallPcs
<1>2. done.pc = "done"
  BY <1>1 DEF CallRecord
<1>3. call' = [call EXCEPT ![c] = done]
  BY <1>1 DEF FinishCall
<1> QED
  BY <1>2, <1>3

\* A transition or a reopening neither creates a row nor activates a lease.
LEMMA CallKeepsInv ==
    ASSUME IInv, UNCHANGED <<key, start>>, NEW c \in Calls,
           \/ \E a \in Attempts, to \in Statuses : TransitionRead(c, a, to)
           \/ \E a \in Attempts : ReopenRead(c, a)
           \/ CallStep(c)
           \/ CallFault(c)
    PROVE  IInv'
<1> USE DEF IInv, TypeOK, AttemptType
<1>a. ASSUME UNCHANGED <<status, epoch, lease>>, FaultsType', CallHasRow',
             call' \in [Calls -> CallRecord]
      PROVE  IInv'
  BY <1>a DEF CallRecord, LeaseHasRow, SingleWriter, OneAttemptPerDay, StartNamesItsDay
<1>b. Healthy => FaultsType'
  BY DEF Healthy, FaultsType
<1>c. Faulty => FaultsType'
  BY MaxFaultsNat DEF Faulty, FaultsType
<1>d. call \in [Calls -> CallRecord]
  BY DEF CallRecord
<1>1. ASSUME NEW a \in Attempts, NEW to \in Statuses, TransitionRead(c, a, to)
      PROVE  IInv'
  <2>1. CallHasRow'
    BY <1>1 DEF TransitionRead, CallHasRow, Successors, Statuses
  <2> QED
    BY <1>1, <1>a, <1>b, <2>1 DEF TransitionRead, CallRecord, CallPcs, CallResults
<1>2. ASSUME NEW a \in Attempts, ReopenRead(c, a)
      PROVE  IInv'
  <2>1. CallHasRow'
    BY <1>2 DEF ReopenRead, CallHasRow, Statuses
  <2> QED
    BY <1>2, <1>a, <1>b, <2>1 DEF ReopenRead, CallRecord, CallPcs, CallResults, Statuses
<1>3. CASE TransitionWrite(c)
  <2>1. /\ call[c].att \in Attempts
        /\ status[call[c].att] # "none"
        /\ call[c].to \in Statuses
    BY <1>3 DEF TransitionWrite, CallHasRow
  <2>2. /\ call' \in [Calls -> CallRecord]
        /\ call'[c].att = call[c].att /\ call'[c].to = call[c].to
        /\ \A d \in Calls : d # c => call'[d] = call[d]
    <3> DEFINE pc == IF call[c].to \in Terminal THEN "release" ELSE "done"
    <3>1. call' = [call EXCEPT ![c] = [call[c] EXCEPT !.pc = pc, !.res = "ok"]]
      BY <1>3, <1>d DEF TransitionWrite
    <3>2. pc \in CallPcs /\ "ok" \in CallResults
      BY DEF CallPcs, CallResults
    <3> HIDE DEF pc
    <3>3. [call[c] EXCEPT !.pc = pc, !.res = "ok"] \in CallRecord
      BY <3>2, <1>d DEF CallRecord
    <3> QED
      BY <3>1, <3>3, <1>d DEF CallRecord
  <2>3. /\ status' \in [Attempts -> Statuses \cup {"none"}]
        /\ \A a \in Attempts : status'[a] # "none" <=> status[a] # "none"
    BY <1>3, <2>1 DEF TransitionWrite, Statuses
  <2>4. TypeOK'
    BY <1>3, <1>b, <2>2, <2>3 DEF TransitionWrite, CallRecord
  <2>5. CallHasRow'
    BY <2>1, <2>2, <2>3 DEF CallHasRow
  <2> QED
    BY <1>3, <2>3, <2>4, <2>5 DEF TransitionWrite, LeaseHasRow, SingleWriter,
       OneAttemptPerDay, StartNamesItsDay
\* The steps that finish the invocation: they keep which rows exist and activate
\* no lease.
<1>e. ASSUME NEW res \in CallResults, FinishCall(c, res), FaultsType',
             epoch' \in [Attempts -> Nat],
             status' \in [Attempts -> Statuses \cup {"none"}],
             \A a \in Attempts : status'[a] # "none" <=> status[a] # "none",
             lease' \in [Attempts -> {"none", "active", "released"}],
             \A a \in Attempts : lease'[a] = lease[a] \/ (lease[a] = "active" /\ lease'[a] = "released")
      PROVE  IInv'
  <2>1. /\ call' \in [Calls -> CallRecord]
        /\ call'[c].pc = "done"
        /\ \A d \in Calls : d # c => call'[d] = call[d]
    BY <1>d, <1>e, FinishCallType
  <2>2. TypeOK'
    BY <1>e, <2>1 DEF CallRecord
  <2>3. CallHasRow'
    BY <1>e, <2>1 DEF CallHasRow
  <2>4. LeaseHasRow' /\ SingleWriter'
    BY <1>e DEF LeaseHasRow, SingleWriter
  <2>5. OneAttemptPerDay' /\ StartNamesItsDay'
    BY <1>e DEF OneAttemptPerDay, StartNamesItsDay
  <2> QED
    BY <2>2, <2>3, <2>4, <2>5
<1>f. /\ "ok" \in CallResults /\ "error" \in CallResults
      /\ "in_progress" \in Statuses /\ "none" \notin Statuses
  BY DEF CallResults, Statuses
\* One status or one epoch written, one lease released.
<1>g. ASSUME NEW to \in Statuses, call[c].att \in Attempts, status[call[c].att] # "none"
      PROVE  LET written == [status EXCEPT ![call[c].att] = to]
             IN  /\ written \in [Attempts -> Statuses \cup {"none"}]
                 /\ \A a \in Attempts : written[a] # "none" <=> status[a] # "none"
  BY <1>f, <1>g
<1>h. LET freed == Released(call[c].att)
      IN  /\ freed \in [Attempts -> {"none", "active", "released"}]
          /\ \A a \in Attempts : freed[a] = lease[a] \/ (lease[a] = "active" /\ freed[a] = "released")
  BY DEF Released
<1>4. CASE TransitionRelease(c)
  BY <1>4, <1>b, <1>e, <1>f, <1>h DEF TransitionRelease
<1>5. CASE ReopenWrite(c)
  <2>1. call[c].att \in Attempts /\ status[call[c].att] # "none"
    BY <1>5 DEF ReopenWrite, CallHasRow
  <2>2. epoch' \in [Attempts -> Nat]
    BY <1>5, <2>1 DEF ReopenWrite
  <2> QED
    BY <1>5, <1>b, <1>e, <1>f, <1>g, <2>1, <2>2 DEF ReopenWrite
<1>6. CASE TransitionFault(c)
  <2>1. /\ call[c].att \in Attempts /\ status[call[c].att] # "none"
        /\ call[c].to \in Statuses
    BY <1>6 DEF TransitionFault, CallHasRow
  <2>2. CASE call[c].pc = "write"
    BY <1>6, <1>c, <1>e, <1>f, <1>g, <2>1, <2>2 DEF TransitionFault
  <2>3. CASE call[c].pc = "release"
    BY <1>6, <1>c, <1>e, <1>f, <1>h, <2>3 DEF TransitionFault
  <2> QED
    BY <1>6, <2>2, <2>3 DEF TransitionFault
<1>7. CASE ReopenFault(c)
  <2>1. call[c].att \in Attempts /\ status[call[c].att] # "none"
    BY <1>7 DEF ReopenFault, CallHasRow
  <2>2. epoch' \in [Attempts -> Nat]
    BY <1>7, <2>1 DEF ReopenFault
  <2> QED
    BY <1>7, <1>c, <1>e, <1>f, <1>g, <2>1, <2>2 DEF ReopenFault
<1> QED
  BY <1>1, <1>2, <1>3, <1>4, <1>5, <1>6, <1>7 DEF CallStep, CallFault

StartRecord ==
    [pc : StartPcs, day : Days \cup {NoDay}, eligible : BOOLEAN,
     parallel : BOOLEAN, res : StartResults, att : Attempts \cup {NoAttempt}]

LEMMA FinishStartType ==
    ASSUME start \in [Starts -> StartRecord], NEW s \in Starts,
           NEW res \in StartResults, NEW a \in Attempts \cup {NoAttempt},
           FinishStart(s, res, a)
    PROVE  /\ start' \in [Starts -> StartRecord]
           /\ start'[s].res = res /\ start'[s].att = a
           /\ start'[s].day = start[s].day
           /\ \A t \in Starts : t # s => start'[t] = start[t]
<1>1. PICK done \in StartRecord :
        done = [start[s] EXCEPT !.pc = "done", !.res = res, !.att = a]
  BY DEF StartRecord, StartPcs
<1>2. done.res = res /\ done.att = a /\ done.day = start[s].day
  BY <1>1 DEF StartRecord
<1>3. start' = [start EXCEPT ![s] = done]
  BY <1>1 DEF FinishStart
<1> QED
  BY <1>2, <1>3

\* A start that inserts nothing only has to name an attempt of its day.
LEMMA StartWithoutInsert ==
    ASSUME IInv, NEW s \in Starts,
           UNCHANGED <<status, epoch, lease, call, key>>, FaultsType',
           start' \in [Starts -> StartRecord],
           \A t \in Starts : t # s => start'[t] = start[t],
           start'[s].res \in {"duplicate", "created"} =>
               /\ start'[s].att \in Attempts
               /\ status[start'[s].att] # "none"
               /\ key[start'[s].att] = start'[s].day
    PROVE  IInv'
BY DEF IInv, TypeOK, AttemptType, StartRecord, LeaseHasRow, CallHasRow,
       SingleWriter, OneAttemptPerDay, StartNamesItsDay

\* startAttempt keeps the invariant.
LEMMA StartKeepsInv ==
    ASSUME IInv, StartNext
    PROVE  IInv'
<1>a. Healthy => FaultsType'
  BY DEF Healthy, FaultsType, IInv, TypeOK, AttemptType
<1>b. Faulty => FaultsType'
  BY MaxFaultsNat DEF Faulty, FaultsType, IInv, TypeOK, AttemptType
<1>c. start \in [Starts -> StartRecord]
  BY DEF IInv, TypeOK, StartRecord
<1>1. ASSUME NEW s \in Starts, NEW d \in Days, StartNotAssigned(s, d)
      PROVE  IInv'
  <2>1. [IdleStart EXCEPT !.pc = "done", !.day = d, !.res = "not_assigned"] \in StartRecord
    BY DEF IdleStart, StartRecord, StartPcs, StartResults
  <2>2. /\ start' \in [Starts -> StartRecord]
        /\ start'[s].res = "not_assigned"
        /\ \A t \in Starts : t # s => start'[t] = start[t]
    BY <1>1, <1>c, <2>1 DEF StartNotAssigned, IdleStart
  <2> QED
    BY <1>1, <1>a, <2>2, StartWithoutInsert DEF StartNotAssigned
<1>2. ASSUME NEW s \in Starts, NEW d \in Days, NEW eligible \in BOOLEAN,
             StartReadLeases(s, d, eligible)
      PROVE  IInv'
  <2>1. PICK parallel \in BOOLEAN :
          start' = [start EXCEPT ![s] = [IdleStart EXCEPT
              !.pc = "lookup", !.day = d, !.eligible = eligible, !.parallel = parallel]]
    BY <1>2 DEF StartReadLeases
  <2>2. [IdleStart EXCEPT !.pc = "lookup", !.day = d, !.eligible = eligible,
                          !.parallel = parallel] \in StartRecord
    BY DEF IdleStart, StartRecord, StartPcs, StartResults
  <2>3. /\ start' \in [Starts -> StartRecord]
        /\ start'[s].res = "none"
        /\ \A t \in Starts : t # s => start'[t] = start[t]
    BY <1>c, <2>1, <2>2 DEF IdleStart
  <2> QED
    BY <1>2, <1>a, <1>b, <2>3, StartWithoutInsert DEF StartReadLeases
<1>3. ASSUME NEW s \in Starts, NEW a \in RowOfDay(start[s].day),
             FinishStart(s, "duplicate", a), FaultsType',
             UNCHANGED <<status, epoch, lease, call, key>>
      PROVE  IInv'
  <2>1. a \in Attempts /\ status[a] # "none" /\ key[a] = start[s].day
    BY DEF RowOfDay
  <2> QED
    BY <1>3, <1>c, <2>1, FinishStartType, StartWithoutInsert DEF StartResults
<1>4. ASSUME NEW s \in Starts, FaultsType',
             UNCHANGED <<status, epoch, lease, call, key>>,
             NEW res \in {"blocked", "parallel_denied", "error"},
             FinishStart(s, res, NoAttempt)
      PROVE  IInv'
  <2>1. res \in StartResults /\ res \notin {"duplicate", "created"}
    BY DEF StartResults
  <2> QED
    BY <1>4, <1>c, <2>1, FinishStartType, StartWithoutInsert
<1>5. ASSUME NEW s \in Starts, NEW pc \in {"insert", "recheck"}, FaultsType',
             UNCHANGED <<status, epoch, lease, call, key>>,
             start' = [start EXCEPT ![s].pc = pc]
      PROVE  IInv'
  <2>1. /\ start' \in [Starts -> StartRecord]
        /\ start'[s].res = start[s].res /\ start'[s].att = start[s].att
        /\ start'[s].day = start[s].day
        /\ \A t \in Starts : t # s => start'[t] = start[t]
    BY <1>5, <1>c DEF StartRecord, StartPcs
  <2>2. start[s].res \in {"duplicate", "created"} =>
               /\ start[s].att \in Attempts
               /\ status[start[s].att] # "none"
               /\ key[start[s].att] = start[s].day
    BY DEF IInv, StartNamesItsDay
  <2> QED
    BY <1>5, <2>1, <2>2, StartWithoutInsert
<1>6. ASSUME NEW s \in Starts, StartGate(s), FaultsType',
             UNCHANGED <<status, epoch, lease, call, key>>
      PROVE  IInv'
  BY <1>4, <1>5, <1>6 DEF StartGate
<1>7. ASSUME NEW s \in Starts, StartLookup(s)
      PROVE  IInv'
  BY <1>3, <1>6, <1>7, <1>a, <1>b DEF StartLookup
<1>8. ASSUME NEW s \in Starts, StartInsert(s)
      PROVE  IInv'
  <2>1. PICK a \in Attempts :
          /\ status[a] = "none"
          /\ status' = [status EXCEPT ![a] = "ready"]
          /\ epoch' = [epoch EXCEPT ![a] = 1]
          /\ lease' = [lease EXCEPT ![a] = "active"]
          /\ key' = [key EXCEPT ![a] = start[s].day]
          /\ \/ Healthy /\ FinishStart(s, "created", a)
             \/ Faulty /\ FinishStart(s, "error", NoAttempt)
    BY <1>8 DEF StartInsert
  <2>2. /\ start' \in [Starts -> StartRecord]
        /\ \/ start'[s].res = "created" /\ start'[s].att = a
           \/ start'[s].res = "error"
        /\ start'[s].day = start[s].day
        /\ \A t \in Starts : t # s => start'[t] = start[t]
    <3>1. "created" \in StartResults /\ "error" \in StartResults
      BY DEF StartResults
    <3> QED
      BY <1>c, <2>1, <3>1, FinishStartType
  <2>3. /\ start[s].day \in Days \cup {NoDay}
        /\ call' = call
        /\ FaultsType'
    BY <1>8, <1>a, <1>b, <1>c DEF StartInsert, StartRecord
  <2>4. /\ \A b \in Attempts : lease[b] # "active"
        /\ \A b \in Attempts : status[b] # "none" => key[b] # start[s].day
    BY <1>8 DEF StartInsert, StartConflict, RowOfDay, ActiveLeases
  <2>t. /\ status \in [Attempts -> Statuses \cup {"none"}]
        /\ epoch \in [Attempts -> Nat]
        /\ lease \in [Attempts -> {"none", "active", "released"}]
        /\ key \in [Attempts -> Days \cup {NoDay}]
    BY DEF IInv, TypeOK, AttemptType
  <2>5. /\ status'[a] = "ready" /\ lease'[a] = "active" /\ key'[a] = start[s].day
        /\ \A b \in Attempts : b # a =>
             /\ status'[b] = status[b] /\ lease'[b] = lease[b] /\ key'[b] = key[b]
    BY <2>1, <2>t
  <2>6. TypeOK'
    <3>1. status' \in [Attempts -> Statuses \cup {"none"}]
      BY <2>1, <2>t DEF Statuses
    <3>2. epoch' \in [Attempts -> Nat]
      BY <2>1, <2>t
    <3>3. lease' \in [Attempts -> {"none", "active", "released"}]
      BY <2>1, <2>t
    <3>4. key' \in [Attempts -> Days \cup {NoDay}]
      BY <2>1, <2>3, <2>t
    <3> QED
      BY <2>2, <2>3, <3>1, <3>2, <3>3, <3>4
         DEF IInv, TypeOK, AttemptType, StartRecord
  <2>7. LeaseHasRow'
    BY <2>5 DEF IInv, LeaseHasRow
  <2>8. CallHasRow'
    <3>1. \A b \in Attempts : status[b] # "none" => status'[b] # "none"
      BY <2>1, <2>5
    <3> QED
      BY <2>3, <3>1 DEF IInv, CallHasRow
  <2>9. SingleWriter'
    BY <2>4, <2>5 DEF SingleWriter
  <2>10. OneAttemptPerDay'
    BY <2>4, <2>5 DEF IInv, OneAttemptPerDay
  <2>11. StartNamesItsDay'
    <3>1. ASSUME NEW t \in Starts, t # s,
                 start'[t].res \in {"duplicate", "created"}
          PROVE  /\ start'[t].att \in Attempts
                 /\ status'[start'[t].att] # "none"
                 /\ key'[start'[t].att] = start'[t].day
      <4>1. /\ start[t].att \in Attempts
            /\ status[start[t].att] # "none"
            /\ key[start[t].att] = start[t].day
        BY <2>2, <3>1 DEF IInv, StartNamesItsDay
      <4> QED
        BY <2>1, <2>2, <2>5, <3>1, <4>1
    <3>2. start'[s].res \in {"duplicate", "created"} =>
          /\ start'[s].att \in Attempts
          /\ status'[start'[s].att] # "none"
          /\ key'[start'[s].att] = start'[s].day
      BY <2>2, <2>5
    <3> QED
      BY <3>1, <3>2 DEF StartNamesItsDay
  <2> QED
    BY <2>6, <2>7, <2>8, <2>9, <2>10, <2>11 DEF IInv
<1>9. ASSUME NEW s \in Starts, StartRefused(s)
      PROVE  IInv'
  BY <1>5, <1>9, <1>a DEF StartRefused
<1>10. ASSUME NEW s \in Starts, StartError(s)
       PROVE  IInv'
  BY <1>4, <1>10, <1>b DEF StartError
<1>11. ASSUME NEW s \in Starts, StartRecheck(s)
       PROVE  IInv'
  BY <1>3, <1>4, <1>11, <1>a, <1>b DEF StartRecheck
<1> QED
  BY <1>1, <1>2, <1>7, <1>8, <1>9, <1>10, <1>11 DEF StartNext, StartStep

\* The invariant holds of the empty tables.
LEMMA InitInv == Init => IInv
<1> SUFFICES ASSUME Init PROVE IInv
  OBVIOUS
<1>1. TypeOK
  BY MaxFaultsNat DEF Init, TypeOK, AttemptType, FaultsType, IdleCall, IdleStart,
     CallPcs, CallResults, StartPcs, StartResults
<1> QED
  BY <1>1 DEF IInv, Init, LeaseHasRow, CallHasRow, SingleWriter, OneAttemptPerDay,
     StartNamesItsDay, IdleCall, IdleStart

\* Every step keeps it.
LEMMA NextInv == IInv /\ [Next]_vars => IInv'
<1> SUFFICES ASSUME IInv, [Next]_vars PROVE IInv'
  OBVIOUS
<1>1. CASE StartNext
  BY <1>1, StartKeepsInv
<1>2. CASE CallNext
  BY <1>2, CallKeepsInv DEF CallNext
<1>3. CASE UNCHANGED vars
  BY <1>3 DEF vars, attemptVars, IInv, TypeOK, AttemptType, FaultsType, LeaseHasRow,
     CallHasRow, SingleWriter, OneAttemptPerDay, StartNamesItsDay
<1> QED
  BY <1>1, <1>2, <1>3 DEF Next, Quiet

-----------------------------------------------------------------------------
(* The theorems.                                                           *)

THEOREM Invariance == Spec => []IInv
<1> QED
  BY InitInv, NextInv, PTL DEF Spec

\* Every request of the attempt service leaves rows of the documented shape.
THEOREM TypeCorrect == Spec => []TypeOK
<1>1. IInv => TypeOK
  BY DEF IInv
<1> QED
  BY <1>1, Invariance, PTL

\* However many starts, transitions and reopenings race, and whichever database
\* calls fail, at most one active lease exists (gate 5 of startAttempt).
THEOREM WriterIsSingle == Spec => []SingleWriter
<1>1. IInv => SingleWriter
  BY DEF IInv
<1> QED
  BY <1>1, Invariance, PTL

\* A start says "parallel session" only when it has looked its day up and found
\* nothing, or the database has failed.
LEMMA DenialIsJustified ==
    ASSUME IInv, StartNext, NEW t \in Starts,
           start[t].res = "none", start'[t].res = "parallel_denied"
    PROVE  RowOfDay(start[t].day) = {} \/ faults' > 0
<1>1. start \in [Starts -> StartRecord] /\ faults \in Nat
  BY MaxFaultsNat DEF IInv, TypeOK, AttemptType, FaultsType, StartRecord
<1>2. Faulty => faults' > 0
  BY <1>1 DEF Faulty
<1>3. ASSUME NEW s \in Starts, NEW res \in StartResults, NEW a \in Attempts \cup {NoAttempt},
             FinishStart(s, res, a)
      PROVE  t = s /\ res = "parallel_denied"
  BY <1>1, <1>3, FinishStartType
<1>4. ASSUME NEW s \in Starts, NEW pc, start' = [start EXCEPT ![s].pc = pc]
      PROVE  FALSE
  <2>1. start'[t].res = start[t].res
    BY <1>1, <1>4 DEF StartRecord
  <2> QED
    BY <2>1
<1>5. {"duplicate", "blocked", "parallel_denied", "created", "error"} \subseteq StartResults
  BY DEF StartResults
<1>6. ASSUME NEW s \in Starts, NEW d \in Days, StartNotAssigned(s, d)
      PROVE  FALSE
  <2>1. start'[t].res \in {start[t].res, "not_assigned"}
    BY <1>1, <1>6 DEF StartNotAssigned, IdleStart
  <2> QED
    BY <2>1
<1>7. ASSUME NEW s \in Starts, NEW d \in Days, NEW eligible \in BOOLEAN,
             StartReadLeases(s, d, eligible)
      PROVE  FALSE
  <2>1. start'[t].res \in {start[t].res, "none"}
    BY <1>1, <1>7 DEF StartReadLeases, IdleStart
  <2> QED
    BY <2>1
<1>8. ASSUME NEW s \in Starts, StartLookup(s) \/ StartRecheck(s)
      PROVE  RowOfDay(start[t].day) = {} \/ faults' > 0
  <2>1. ASSUME NEW a \in RowOfDay(start[s].day), FinishStart(s, "duplicate", a)
        PROVE  FALSE
    BY <1>3, <1>5, <2>1 DEF RowOfDay
  <2>2. CASE Faulty
    BY <1>2, <2>2
  <2>3. CASE RowOfDay(start[s].day) = {} /\ StartGate(s)
    BY <1>3, <1>4, <1>5, <2>3 DEF StartGate
  <2>4. CASE RowOfDay(start[s].day) = {} /\ FinishStart(s, "parallel_denied", NoAttempt)
    BY <1>3, <1>5, <2>4
  <2> QED
    BY <1>8, <2>1, <2>2, <2>3, <2>4 DEF StartLookup, StartRecheck
<1>9. ASSUME NEW s \in Starts, StartInsert(s) \/ StartError(s)
      PROVE  FALSE
  BY <1>3, <1>5, <1>9 DEF StartInsert, StartError
<1>10. ASSUME NEW s \in Starts, StartRefused(s)
       PROVE  FALSE
  BY <1>4, <1>10 DEF StartRefused
<1> QED
  BY <1>6, <1>7, <1>8, <1>9, <1>10 DEF StartNext, StartStep

\* A student who restarts on the same day is never told that a parallel session
\* is in the way, as long as the database answers (the order of the lookup and
\* the gate in startAttempt).
THEOREM RestartIsNotDenied == Spec => SameDayNeverDenied
<1>1. IInv /\ [Next]_vars =>
        [\A s \in Starts :
            start[s].res = "none" /\ start'[s].res = "parallel_denied" =>
                RowOfDay(start[s].day) = {} \/ faults' > 0]_vars
  <2> SUFFICES ASSUME IInv, Next, NEW s \in Starts,
                      start[s].res = "none", start'[s].res = "parallel_denied"
               PROVE  RowOfDay(start[s].day) = {} \/ faults' > 0
    OBVIOUS
  <2>1. StartNext
    BY DEF Next, CallNext, Quiet, vars
  <2> QED
    BY <2>1, DenialIsJustified
<1> QED
  BY <1>1, Invariance, PTL DEF Spec, SameDayNeverDenied

\* Starts of one day never leave two attempts behind.
THEOREM DayHasOneAttempt == Spec => []OneAttemptPerDay
<1>1. IInv => OneAttemptPerDay
  BY DEF IInv
<1> QED
  BY <1>1, Invariance, PTL

\* A start that answers with an attempt answers with one of its own day.
THEOREM AnswerNamesItsDay == Spec => []StartNamesItsDay
<1>1. IInv => StartNamesItsDay
  BY DEF IInv
<1> QED
  BY <1>1, Invariance, PTL

-----------------------------------------------------------------------------
(* The lease of a finished attempt.                                        *)

\* A failure is never forgotten.
LEMMA FaultStays ==
    ASSUME IInv, Healthy \/ Faulty, faults > 0
    PROVE  faults' > 0
BY DEF IInv, TypeOK, AttemptType, FaultsType, Healthy, Faulty

LEMMA TerminalCallStep ==
    ASSUME IInv, TerminalReleasesLease, UNCHANGED <<key, start>>, NEW c \in Calls,
           \/ \E a \in Attempts, to \in Statuses : TransitionRead(c, a, to)
           \/ \E a \in Attempts : ReopenRead(c, a)
           \/ CallStep(c)
           \/ CallFault(c)
    PROVE  TerminalReleasesLease'
<1>t. /\ status \in [Attempts -> Statuses \cup {"none"}]
      /\ lease \in [Attempts -> {"none", "active", "released"}]
      /\ call \in [Calls -> CallRecord]
      /\ faults \in Nat
  BY MaxFaultsNat DEF IInv, TypeOK, AttemptType, CallRecord, FaultsType
\* The releases that are under way stay under way.
<1>a. ASSUME UNCHANGED lease, Healthy, call[c].pc # "release",
             \A d \in Calls : d # c => call'[d] = call[d],
             \A a \in Attempts :
                status'[a] \in Terminal =>
                   \/ status[a] \in Terminal
                   \/ call'[c].pc = "release" /\ call'[c].att = a
      PROVE  TerminalReleasesLease'
  BY <1>a DEF TerminalReleasesLease, Healthy
<1>b. ASSUME Faulty PROVE TerminalReleasesLease'
  BY <1>b, <1>t DEF Faulty, TerminalReleasesLease
<1>1. ASSUME NEW a \in Attempts, NEW to \in Statuses, TransitionRead(c, a, to)
      PROVE  TerminalReleasesLease'
  BY <1>1, <1>a, <1>t DEF TransitionRead
<1>2. ASSUME NEW a \in Attempts, ReopenRead(c, a)
      PROVE  TerminalReleasesLease'
  BY <1>2, <1>a, <1>t DEF ReopenRead
<1>3. CASE TransitionWrite(c)
  <2>1. call[c].att \in Attempts /\ call[c].to \in Statuses
    BY <1>3 DEF TransitionWrite, IInv, CallHasRow
  <2>2. /\ call'[c].pc = IF call[c].to \in Terminal THEN "release" ELSE "done"
        /\ call'[c].att = call[c].att
        /\ \A d \in Calls : d # c => call'[d] = call[d]
    BY <1>3, <1>t DEF TransitionWrite, CallRecord
  <2>3. \A a \in Attempts : status'[a] = IF a = call[c].att THEN call[c].to ELSE status[a]
    BY <1>3, <1>t, <2>1 DEF TransitionWrite
  <2>4. \A a \in Attempts :
            status'[a] \in Terminal =>
                status[a] \in Terminal \/ (call'[c].pc = "release" /\ call'[c].att = a)
    BY <2>2, <2>3
  <2> QED
    BY <1>3, <1>a, <2>2, <2>4 DEF TransitionWrite
<1>4. CASE TransitionRelease(c)
  <2>1. /\ UNCHANGED <<status, faults>>
        /\ call[c].att \in Attempts /\ lease' = Released(call[c].att)
    BY <1>4 DEF TransitionRelease, Healthy, IInv, CallHasRow
  <2>2. /\ lease'[call[c].att] # "active"
        /\ \A a \in Attempts : a # call[c].att => lease'[a] = lease[a]
    BY <1>t, <2>1 DEF Released
  <2>3. \A d \in Calls : d # c => call'[d] = call[d]
    BY <1>4, <1>t DEF TransitionRelease, FinishCall
  <2> QED
    BY <2>1, <2>2, <2>3 DEF TerminalReleasesLease
<1>5. CASE ReopenWrite(c)
  <2>1. /\ call[c].att \in Attempts
        /\ \A a \in Attempts :
              status'[a] = IF a = call[c].att THEN "in_progress" ELSE status[a]
    BY <1>5, <1>t DEF ReopenWrite, IInv, CallHasRow
  <2>2. \A d \in Calls : d # c => call'[d] = call[d]
    BY <1>5, <1>t DEF ReopenWrite, FinishCall
  <2>3. \A a \in Attempts : status'[a] \in Terminal => status[a] \in Terminal
    BY <2>1 DEF Terminal
  <2> QED
    BY <1>5, <1>a, <2>2, <2>3 DEF ReopenWrite
<1>6. CASE CallFault(c)
  BY <1>6, <1>b DEF CallFault, TransitionFault, ReopenFault
<1> QED
  BY <1>1, <1>2, <1>3, <1>4, <1>5, <1>6 DEF CallStep

\* A start only adds an attempt that is not finished.
LEMMA TerminalStartStep ==
    ASSUME IInv, TerminalReleasesLease, StartNext
    PROVE  TerminalReleasesLease'
<1>1. \E s \in Starts : StartInsert(s) \/ UNCHANGED <<status, lease>>
  BY DEF StartNext, StartStep, StartNotAssigned, StartReadLeases, StartLookup,
         StartRefused, StartError, StartRecheck
<1>2. /\ UNCHANGED call
      /\ Healthy \/ Faulty
  BY DEF StartNext, StartStep, StartNotAssigned, StartReadLeases, StartLookup,
         StartInsert, StartRefused, StartError, StartRecheck
<1>3. CASE UNCHANGED <<status, lease>>
  BY <1>2, <1>3, FaultStays DEF TerminalReleasesLease, Healthy
<1>4. ASSUME NEW s \in Starts, StartInsert(s)
      PROVE  TerminalReleasesLease'
  <2>1. PICK a \in Attempts : /\ status' = [status EXCEPT ![a] = "ready"]
                              /\ lease' = [lease EXCEPT ![a] = "active"]
    BY <1>4 DEF StartInsert
  <2>2. \A b \in Attempts : status'[b] \in Terminal =>
            status[b] = status'[b] /\ lease'[b] = lease[b]
    BY <2>1 DEF IInv, TypeOK, AttemptType, Terminal
  <2> QED
    BY <1>2, <2>2, FaultStays DEF TerminalReleasesLease, Healthy
<1> QED
  BY <1>1, <1>3, <1>4

\* However many transitions and reopenings race, a finished attempt holds its
\* lease only while its release is on the way or because the database failed.
THEOREM FinishedIsReleased == Spec => []TerminalReleasesLease
<1>1. Init => TerminalReleasesLease
  BY DEF Init, TerminalReleasesLease
<1>2. IInv /\ TerminalReleasesLease /\ [Next]_vars => TerminalReleasesLease'
  <2> SUFFICES ASSUME IInv, TerminalReleasesLease, [Next]_vars
               PROVE  TerminalReleasesLease'
    OBVIOUS
  <2>1. CASE StartNext
    BY <2>1, TerminalStartStep
  <2>2. CASE CallNext
    BY <2>2, TerminalCallStep DEF CallNext
  <2>3. CASE UNCHANGED vars
    BY <2>3 DEF vars, attemptVars, TerminalReleasesLease
  <2> QED
    BY <2>1, <2>2, <2>3 DEF Next, Quiet
<1> QED
  BY <1>1, <1>2, Invariance, PTL DEF Spec
-----------------------------------------------------------------------------
(* The refinement of AttemptRegistry: the requests map to bookings,        *)
(* releases and stutters.                                                  *)

\* A start that has passed its first gate knows its day.
StartHasDay ==
    \A s \in Starts : start[s].pc \notin {"idle", "done"} => start[s].day \in Days

LEMMA StartHasDayStep == TypeOK /\ StartHasDay /\ [Next]_vars => StartHasDay'
<1> SUFFICES ASSUME TypeOK, StartHasDay, [Next]_vars PROVE StartHasDay'
  OBVIOUS
<1>1. start \in [Starts -> StartRecord]
  BY DEF TypeOK, StartRecord
<1>2. ASSUME NEW s \in Starts, NEW d \in Days,
             \/ StartNotAssigned(s, d)
             \/ \E eligible \in BOOLEAN : StartReadLeases(s, d, eligible)
      PROVE  StartHasDay'
  <2>1. start'[s].day = d /\ \A t \in Starts : t # s => start'[t] = start[t]
    <3>1. CASE StartNotAssigned(s, d)
      BY <1>1, <3>1 DEF StartNotAssigned, IdleStart
    <3>2. ASSUME NEW eligible \in BOOLEAN, StartReadLeases(s, d, eligible)
          PROVE  start'[s].day = d /\ \A t \in Starts : t # s => start'[t] = start[t]
      BY <1>1, <3>2 DEF StartReadLeases, IdleStart
    <3> QED
      BY <1>2, <3>1, <3>2
  <2> QED
    BY <2>1 DEF StartHasDay
<1>3. ASSUME NEW s \in Starts, NEW res, NEW a, FinishStart(s, res, a)
      PROVE  StartHasDay'
  <2>1. start'[s].pc = "done" /\ \A t \in Starts : t # s => start'[t] = start[t]
    BY <1>1, <1>3 DEF FinishStart, StartRecord
  <2> QED
    BY <2>1 DEF StartHasDay
<1>4. ASSUME NEW s \in Starts, NEW pc, start[s].pc \notin {"idle", "done"},
             start' = [start EXCEPT ![s].pc = pc]
      PROVE  StartHasDay'
  <2>1. /\ start'[s].day = start[s].day
        /\ \A t \in Starts : t # s => start'[t] = start[t]
    BY <1>1, <1>4 DEF StartRecord
  <2> QED
    BY <1>4, <2>1 DEF StartHasDay
<1>5. ASSUME NEW s \in Starts, start[s].pc = "lookup", StartGate(s)
      PROVE  StartHasDay'
  BY <1>3, <1>4, <1>5 DEF StartGate
<1>6. ASSUME NEW s \in Starts, StartStep(s)
      PROVE  StartHasDay'
  <2>1. CASE StartLookup(s)
    BY <1>3, <1>5, <2>1 DEF StartLookup
  <2>2. CASE StartInsert(s)
    BY <1>3, <2>2 DEF StartInsert
  <2>3. CASE StartRefused(s)
    BY <1>4, <2>3 DEF StartRefused
  <2>4. CASE StartError(s)
    BY <1>3, <2>4 DEF StartError
  <2>5. CASE StartRecheck(s)
    BY <1>3, <2>5 DEF StartRecheck
  <2> QED
    BY <1>6, <2>1, <2>2, <2>3, <2>4, <2>5 DEF StartStep
<1>7. CASE StartNext
  BY <1>2, <1>6, <1>7 DEF StartNext
<1>8. CASE CallNext \/ UNCHANGED vars
  BY <1>8 DEF CallNext, vars, StartHasDay
<1> QED
  BY <1>7, <1>8 DEF Next, Quiet

-----------------------------------------------------------------------------
(* The refinement.                                                         *)

LEMMA AnyOfFacts ==
    /\ AnyOf({}) = NoAttempt
    /\ \A a : AnyOf({a}) = a
    /\ \A S : S # {} => AnyOf(S) \in S
BY DEF AnyOf

\* The writer is the only attempt with an active lease.
LEMMA WriterIsHolder ==
    ASSUME SingleWriter, NEW a \in Attempts, lease[a] = "active"
    PROVE  ActiveLeases = {a} /\ Writer = a
<1>1. ActiveLeases = {a}
  BY DEF ActiveLeases, SingleWriter
<1> QED
  BY <1>1, AnyOfFacts DEF Writer

\* A step that keeps which rows exist and their keys keeps the book.
LEMMA SameBook ==
    ASSUME key' = key,
           \A a \in Attempts : status'[a] = "none" <=> status[a] = "none"
    PROVE  Book' = Book
<1>1. ASSUME NEW d \in Days
      PROVE  RowOfDay(d)' = RowOfDay(d)
  BY DEF RowOfDay
<1>2. \A d \in Days : AnyOf(RowOfDay(d)') = AnyOf(RowOfDay(d))
  BY <1>1
<1> QED
  BY <1>2 DEF Book

LEMMA SameWriter ==
    ASSUME lease' = lease
    PROVE  Writer' = Writer
BY DEF Writer, ActiveLeases

\* A transition or a reopening keeps the rows; all but a release keep the lease.
LEMMA CallRefines ==
    ASSUME IInv, UNCHANGED <<key, start>>, NEW c \in Calls,
           \/ \E a \in Attempts, to \in Statuses : TransitionRead(c, a, to)
           \/ \E a \in Attempts : ReopenRead(c, a)
           \/ CallStep(c)
           \/ CallFault(c)
    PROVE  Registry!Next \/ UNCHANGED <<Book, Writer>>
<1>t. /\ status \in [Attempts -> Statuses \cup {"none"}]
      /\ lease \in [Attempts -> {"none", "active", "released"}]
  BY DEF IInv, TypeOK, AttemptType
<1>1. ASSUME UNCHANGED <<status, lease>>
      PROVE  UNCHANGED <<Book, Writer>>
  BY <1>1, SameBook, SameWriter
<1>2. ASSUME NEW to \in Statuses, call[c].att \in Attempts,
             status[call[c].att] # "none", UNCHANGED lease,
             status' = [status EXCEPT ![call[c].att] = to]
      PROVE  UNCHANGED <<Book, Writer>>
  <2>1. \A a \in Attempts : status'[a] = "none" <=> status[a] = "none"
    BY <1>t, <1>2 DEF Statuses
  <2> QED
    BY <1>2, <2>1, SameBook, SameWriter
<1>3. CASE TransitionWrite(c)
  BY <1>2, <1>3 DEF TransitionWrite, IInv, CallHasRow
<1>4. CASE ReopenWrite(c)
  <2>1. "in_progress" \in Statuses
    BY DEF Statuses
  <2> QED
    BY <1>2, <1>4, <2>1 DEF ReopenWrite, IInv, CallHasRow
<1>5. ASSUME call[c].pc = "release", UNCHANGED status, lease' = Released(call[c].att)
      PROVE  Registry!Next \/ UNCHANGED <<Book, Writer>>
  <2> DEFINE a == call[c].att
  <2>1. a \in Attempts /\ UNCHANGED status /\ lease' = Released(a)
    BY <1>5 DEF IInv, CallHasRow
  <2>2. CASE lease[a] # "active"
    BY <1>1, <2>1, <2>2 DEF Released
  <2>3. CASE lease[a] = "active"
    <3>1. Writer = a /\ ActiveLeases = {a}
      BY <2>1, <2>3, WriterIsHolder DEF IInv
    <3>2. lease' = [lease EXCEPT ![a] = "released"]
      BY <2>1, <2>3 DEF Released
    <3>3. ActiveLeases' = {}
      BY <1>t, <2>1, <3>1, <3>2 DEF ActiveLeases
    <3>4. Writer' = NoAttempt
      BY <3>3, AnyOfFacts DEF Writer
    <3>5. Writer # NoAttempt
      BY <2>1, <3>1, NoAttemptAssumption
    <3>6. Book' = Book
      BY <2>1, SameBook
    <3> QED
      BY <3>4, <3>5, <3>6 DEF Registry!Next, Registry!Release
  <2> QED
    BY <2>2, <2>3
<1>6. CASE TransitionFault(c)
  <2>1. CASE call[c].pc = "write"
    <3>1. /\ call[c].att \in Attempts /\ status[call[c].att] # "none"
          /\ call[c].to \in Statuses
      BY <2>1 DEF IInv, CallHasRow
    <3> QED
      BY <1>1, <1>2, <1>6, <2>1, <3>1 DEF TransitionFault
  <2>2. CASE call[c].pc = "release"
    BY <1>1, <1>5, <1>6, <2>2 DEF TransitionFault
  <2> QED
    BY <1>6, <2>1, <2>2 DEF TransitionFault
<1>7. CASE ReopenFault(c)
  <2>1. "in_progress" \in Statuses
    BY DEF Statuses
  <2> QED
    BY <1>1, <1>2, <1>7, <2>1 DEF ReopenFault, IInv, CallHasRow
<1>8. ASSUME (\E a \in Attempts, to \in Statuses : TransitionRead(c, a, to))
             \/ (\E a \in Attempts : ReopenRead(c, a))
      PROVE  UNCHANGED <<status, lease>>
  BY <1>8 DEF TransitionRead, ReopenRead
<1>9. CASE TransitionRelease(c)
  BY <1>5, <1>9 DEF TransitionRelease
<1> QED
  BY <1>1, <1>3, <1>4, <1>6, <1>7, <1>8, <1>9 DEF CallStep, CallFault

\* The insert of startAttempt books the day; its other steps are stutters.
LEMMA StartRefines ==
    ASSUME IInv, StartHasDay, StartNext
    PROVE  Registry!Next \/ UNCHANGED <<Book, Writer>>
<1>1. ASSUME NEW s \in Starts, StartInsert(s)
      PROVE  Registry!Next
  <2>0. PICK d \in Days : d = start[s].day
    BY <1>1 DEF StartInsert, StartHasDay
  <2>1. PICK a \in Attempts :
          /\ status[a] = "none"
          /\ status' = [status EXCEPT ![a] = "ready"]
          /\ lease' = [lease EXCEPT ![a] = "active"]
          /\ key' = [key EXCEPT ![a] = d]
    BY <1>1, <2>0 DEF StartInsert
  <2>2. RowOfDay(d) = {} /\ ActiveLeases = {}
    BY <1>1, <2>0 DEF StartInsert, StartConflict
  <2>3. /\ status'[a] = "ready" /\ lease'[a] = "active" /\ key'[a] = d
        /\ \A b \in Attempts : b # a =>
             /\ status'[b] = status[b] /\ lease'[b] = lease[b] /\ key'[b] = key[b]
    BY <2>1 DEF IInv, TypeOK, AttemptType
  <2>4. Writer = NoAttempt /\ Book[d] = NoAttempt
    BY <2>2, AnyOfFacts DEF Writer, Book
  <2>5. ActiveLeases' = {a}
    BY <2>2, <2>3 DEF ActiveLeases
  <2>6. Writer' = a
    BY <2>5, AnyOfFacts DEF Writer
  <2>7. /\ RowOfDay(d)' = {a}
        /\ \A e \in Days : e # d => RowOfDay(e)' = RowOfDay(e)
    BY <2>1, <2>2, <2>3 DEF RowOfDay
  <2>8. Book' = [Book EXCEPT ![d] = a]
    <3>1. \A e \in Days : Book'[e] = IF e = d THEN a ELSE Book[e]
      BY <2>7, AnyOfFacts DEF Book
    <3>2. /\ Book = [e \in Days |-> Book[e]]
          /\ Book' = [e \in Days |-> Book'[e]]
      BY DEF Book
    <3> QED
      BY <2>2, <3>1, <3>2
  <2>9. \A e \in Days : Book[e] # a
    <3>1. ASSUME NEW e \in Days
          PROVE  Book[e] = NoAttempt \/ Book[e] \in RowOfDay(e)
      BY AnyOfFacts DEF Book
    <3> QED
      BY <2>1, <3>1, NoAttemptAssumption DEF RowOfDay
  <2> QED
    BY <2>2, <2>4, <2>6, <2>8, <2>9 DEF Registry!Next, Registry!Start
<1>2. ASSUME UNCHANGED <<status, lease, key>>
      PROVE  UNCHANGED <<Book, Writer>>
  BY <1>2, SameBook, SameWriter
<1>3. ASSUME NEW s \in Starts, ~StartInsert(s),
             \/ StartStep(s)
             \/ \E d \in Days : StartNotAssigned(s, d)
             \/ \E d \in Days, eligible \in BOOLEAN : StartReadLeases(s, d, eligible)
      PROVE  UNCHANGED <<status, lease, key>>
  BY <1>3 DEF StartStep, StartNotAssigned, StartReadLeases, StartLookup,
              StartRefused, StartError, StartRecheck
<1> QED
  BY <1>1, <1>2, <1>3 DEF StartNext, StartStep

LEMMA InitRefines == Init => Registry!Init
<1> SUFFICES ASSUME Init PROVE Registry!Init
  OBVIOUS
<1>1. ActiveLeases = {} /\ \A d : RowOfDay(d) = {}
  BY DEF Init, ActiveLeases, RowOfDay
<1> QED
  BY <1>1, AnyOfFacts DEF Registry!Init, Book, Writer

\* The attempt service keeps its promise to the student: a day has one attempt,
\* for good, and a new attempt becomes the writer only when there is none.
THEOREM Refinement == Spec => ImplementsRegistry
<1>1. Init => StartHasDay
  BY DEF Init, StartHasDay, IdleStart
<1>2. IInv => TypeOK
  BY DEF IInv
<1>3. IInv /\ StartHasDay /\ [Next]_vars => [Registry!Next]_<<Book, Writer>>
  <2> SUFFICES ASSUME IInv, StartHasDay, [Next]_vars
               PROVE  Registry!Next \/ UNCHANGED <<Book, Writer>>
    OBVIOUS
  <2>1. CASE StartNext
    BY <2>1, StartRefines
  <2>2. CASE CallNext
    BY <2>2, CallRefines DEF CallNext
  <2>3. CASE UNCHANGED vars
    BY <2>3, SameBook, SameWriter DEF vars, attemptVars
  <2> QED
    BY <2>1, <2>2, <2>3 DEF Next, Quiet
<1> QED
  BY <1>1, <1>2, <1>3, InitRefines, StartHasDayStep, Invariance, PTL
     DEF Spec, ImplementsRegistry, Registry!Spec
=============================================================================
