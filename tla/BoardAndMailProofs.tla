------------------------- MODULE BoardAndMailProofs -------------------------
(***************************************************************************)
(* Proofs about the exam board and the mail it sends: BoardMeeting, for any *)
(* members, runs, votes and requests, GradeLedger, for any grades,         *)
(* amendments and requests, and EmailQueue, for any jobs, keys, workers and *)
(* failures.                                                               *)
(***************************************************************************)
EXTENDS BoardMeeting, GradeLedger, EmailQueue, FiniteSetTheorems, TLAPS

-----------------------------------------------------------------------------
(* BoardMeeting: the inductive invariant.                                  *)

\* What a request has read is backed by the history of the meeting's votes, and
\* what it has written is still there.
CallBacked(me) ==
    /\ me.pc \in {"attend", "found", "new", "vote"} => me.member \in Members
    /\ me.pc \in {"attendees", "decide", "close", "existing"} => me.run \in Runs
    /\ me.pc = "decide" => me.verdict \in verdicts[me.meeting]
    /\ me.pc = "close" =>
            decision[me.run] = [kind |-> me.verdict, meeting |-> me.meeting]
    /\ me.pc = "existing" => decision[me.run] # NoDecision

CallsBacked == \A c \in BoardCalls : CallBacked(boardCall[c])

\* What the votes amount to now is in the history.
ConsentKept == \A m \in Meetings : Consent(attendee[m]) \subseteq verdicts[m]

BInv ==
    /\ BoardType
    /\ CallsBacked
    /\ ConsentKept
    /\ DecisionHeld
    /\ MeetingShowsDecision
-----------------------------------------------------------------------------
(* What checkQuorum computes is what the votes amount to.                  *)

LEMMA VerdictIsConsent ==
    ASSUME NEW table, Verdict(table) # "none"
    PROVE  Verdict(table) \in Consent(table)
<1> DEFINE free == {u \in Members : table[u].here /\ ~table[u].conflict}
           yes == {u \in free : table[u].vote = "approve"}
           no == {u \in free : table[u].vote = "reject"}
<1>1. IsFiniteSet(free) /\ IsFiniteSet(yes) /\ IsFiniteSet(no)
  BY BoardAssumption, FS_Subset
<1>2. Cardinality(yes) \in Nat /\ Cardinality(no) \in Nat /\ (yes = {} <=> Cardinality(yes) = 0)
  BY <1>1, FS_CardinalityType, FS_EmptySet
<1>3. Cardinality(yes \cup no) = Cardinality(yes) + Cardinality(no)
  <2>1. yes \cap no = {}
    OBVIOUS
  <2>2. Cardinality(yes \cup no) = Cardinality(yes) + Cardinality(no) - Cardinality(yes \cap no)
    BY <1>1, FS_Union
  <2>3. Cardinality(yes \cap no) = 0
    <3>1. Cardinality({}) = 0
      BY FS_EmptySet
    <3> QED
      BY <2>1, <3>1
  <2> QED
    BY <2>2, <2>3, <1>2
<1>4. Voters(table) = free /\ For(table, "approve") = Cardinality(yes)
      /\ For(table, "reject") = Cardinality(no)
  BY DEF Voters, For
<1>5. Cardinality(free) >= Quorum
  BY <1>4 DEF Verdict, QuorumMet
<1>6. RatioMet(table) <=> /\ Cardinality(yes) + Cardinality(no) > 0
                          /\ 10 * Cardinality(yes) >= Ratio * (Cardinality(yes) + Cardinality(no))
  BY <1>4 DEF RatioMet
<1> DEFINE y == Cardinality(yes)
           n == Cardinality(no)
<1>7. RatioMet(table) <=> (yes # {} /\ 10 * y >= Ratio * (y + n))
  <2>1. y \in Nat /\ n \in Nat /\ Ratio \in Nat \ {0}
    BY <1>2, BoardAssumption
  <2>2. CASE y = 0 /\ n > 0
    <3>1. Ratio * (y + n) > 0
      BY <2>1, <2>2
    <3> QED
      BY <3>1, <2>1, <2>2, <1>2, <1>6
  <2>3. CASE ~(y = 0 /\ n > 0)
    <3>1. y + n > 0 <=> y # 0
      BY <2>1, <2>3
    <3> QED
      BY <3>1, <1>2, <1>6
  <2> QED
    BY <2>2, <2>3
<1>8. Verdict(table) = IF RatioMet(table) THEN "ratified" ELSE "rejected"
  BY DEF Verdict
<1>9. Verdict(table) \in Closed /\ (Verdict(table) = "ratified" <=> RatioMet(table))
  BY <1>8 DEF Closed
<1> QED
  BY <1>3, <1>5, <1>7, <1>9 DEF Consent
-----------------------------------------------------------------------------
(* Steps.                                                                  *)

\* A step that changes the request alone, and no request that is closing.
LEMMA RequestStep ==
    ASSUME BInv, UNCHANGED <<meeting, attendee, decision, verdicts, answered>>,
           strayed \subseteq strayed', strayed' \subseteq Meetings,
           NEW c \in BoardCalls, NEW me \in BoardCallType,
           boardCall' = [boardCall EXCEPT ![c] = me],
           me.pc # "close", CallBacked(me),
           boardCall[c].pc = "close" => boardCall[c].meeting \in strayed'
    PROVE  BInv'
<1>1. \A d \in BoardCalls : boardCall'[d] = IF d = c THEN me ELSE boardCall[d]
  BY DEF BInv, BoardType
<1>2. BoardType'
  BY DEF BInv, BoardType
<1>3. CallsBacked'
  BY <1>1 DEF BInv, CallsBacked, CallBacked
<1>4. ConsentKept' /\ DecisionHeld'
  BY DEF BInv, ConsentKept, DecisionHeld
<1>5. MeetingShowsDecision'
  BY <1>1 DEF BInv, MeetingShowsDecision
<1> QED
  BY <1>2, <1>3, <1>4, <1>5 DEF BInv

LEMMA IdleIsBacked ==
    IdleBoardCall \in BoardCallType /\ CallBacked(IdleBoardCall) /\ IdleBoardCall.pc = "idle"
<1>1. SomeMeeting \in Meetings
  BY BoardAssumption DEF SomeMeeting
<1> QED
  BY <1>1 DEF IdleBoardCall, BoardCallType, CallBacked

\* The requests begin, look and end.
LEMMA ReadSteps ==
    ASSUME BInv, NEW c \in BoardCalls,
           OpenRead(c) \/ AttendRead(c) \/ VoteRead(c) \/ RatifyBegin(c)
    PROVE  BInv'
<1>1. PICK me \in BoardCallType :
        /\ Ask(c, me) /\ CallBacked(me) /\ me.pc # "close"
        /\ Free(c) /\ UNCHANGED <<meeting, attendee, decision, boardHistory>>
  <2>1. CASE OpenRead(c)
    <3>1. PICK m \in Meetings : Ask(c, [IdleBoardCall EXCEPT !.pc = "open", !.meeting = m])
      BY <2>1 DEF OpenRead
    <3> DEFINE it == [IdleBoardCall EXCEPT !.pc = "open", !.meeting = m]
    <3>2. it \in BoardCallType /\ it.pc = "open"
      BY IdleIsBacked DEF BoardCallType
    <3> QED
      BY <2>1, <3>1, <3>2 DEF OpenRead, CallBacked
  <2>2. CASE AttendRead(c)
    <3>1. PICK m \in Meetings, u \in Members, conflict \in BOOLEAN :
            Ask(c, [IdleBoardCall EXCEPT !.pc = "attend", !.meeting = m, !.member = u,
                                         !.conflict = conflict])
      BY <2>2 DEF AttendRead
    <3> DEFINE it == [IdleBoardCall EXCEPT !.pc = "attend", !.meeting = m, !.member = u,
                                           !.conflict = conflict]
    <3>2. it \in BoardCallType /\ it.pc = "attend" /\ it.member = u
      BY IdleIsBacked DEF BoardCallType
    <3> QED
      BY <2>2, <3>1, <3>2 DEF AttendRead, CallBacked
  <2>3. CASE VoteRead(c)
    <3>1. PICK m \in Meetings, u \in Members, v \in Votes :
            Ask(c, [IdleBoardCall EXCEPT !.pc = "vote", !.meeting = m, !.member = u, !.vote = v])
      BY <2>3 DEF VoteRead
    <3> DEFINE it == [IdleBoardCall EXCEPT !.pc = "vote", !.meeting = m, !.member = u, !.vote = v]
    <3>2. it \in BoardCallType /\ it.pc = "vote" /\ it.member = u
      BY IdleIsBacked DEF BoardCallType
    <3> QED
      BY <2>3, <3>1, <3>2 DEF VoteRead, CallBacked
  <2>4. CASE RatifyBegin(c)
    <3>1. PICK m \in Meetings, r \in Runs :
            Ask(c, [IdleBoardCall EXCEPT !.pc = "attendees", !.meeting = m, !.run = r])
      BY <2>4 DEF RatifyBegin
    <3> DEFINE it == [IdleBoardCall EXCEPT !.pc = "attendees", !.meeting = m, !.run = r]
    <3>2. it \in BoardCallType /\ it.pc = "attendees" /\ it.run = r
      BY IdleIsBacked DEF BoardCallType
    <3> QED
      BY <2>4, <3>1, <3>2 DEF RatifyBegin, CallBacked
  <2> QED
    BY <2>1, <2>2, <2>3, <2>4
<1>2. boardCall[c].pc # "close" /\ strayed' = strayed /\ strayed \subseteq Meetings
  BY <1>1 DEF Free, boardHistory, BInv, BoardType
<1> QED
  BY <1>1, <1>2, RequestStep DEF Ask, boardHistory

\* The calls end, or go on with what they have read.
LEMMA OwnSteps ==
    ASSUME BInv, NEW c \in BoardCalls,
           AttendLook(c) \/ RatifyRead(c) \/ BoardFault(c)
    PROVE  BInv'
<1>1. PICK it \in BoardCallType : it = boardCall[c] /\ CallBacked(it)
  BY DEF BInv, BoardType, CallsBacked
<1>2. strayed \subseteq Meetings /\ it.meeting \in Meetings
  BY DEF BInv, BoardType, BoardCallType
<1>3. CASE AttendLook(c)
  <2>1. PICK pc \in {"found", "new"} : boardCall' = [boardCall EXCEPT ![c].pc = pc]
    BY <1>3 DEF AttendLook, Becomes
  <2> DEFINE me == [it EXCEPT !.pc = pc]
  <2>2. me \in BoardCallType /\ me.pc = pc /\ me.member = it.member
    BY <1>1 DEF BoardCallType
  <2>3. CallBacked(me)
    BY <1>1, <1>3, <2>2 DEF CallBacked, AttendLook
  <2>4. boardCall' = [boardCall EXCEPT ![c] = me]
    BY <1>1, <2>1 DEF BInv, BoardType
  <2> HIDE DEF me
  <2> QED
    BY <1>1, <1>2, <1>3, <2>2, <2>3, <2>4, RequestStep DEF AttendLook, boardHistory
<1>4. CASE RatifyRead(c)
  <2> DEFINE table == attendee[it.meeting]
  <2>1. CASE BoardReturn(c)
    BY <1>1, <1>2, <1>4, <2>1, IdleIsBacked, RequestStep DEF RatifyRead, BoardReturn, boardHistory
  <2>2. CASE Verdict(table) # "none" /\
             boardCall' = [boardCall EXCEPT ![c].pc = "decide", ![c].verdict = Verdict(table)]
    <3> DEFINE me == [it EXCEPT !.pc = "decide", !.verdict = Verdict(table)]
    <3>1. Verdict(table) \in Consent(table)
      BY <2>2, VerdictIsConsent
    <3>2. Verdict(table) \in verdicts[it.meeting] /\ Verdict(table) \in Closed
      BY <1>2, <3>1 DEF BInv, BoardType, ConsentKept
    <3>3. /\ me \in BoardCallType /\ me.pc = "decide" /\ me.meeting = it.meeting
          /\ me.run = it.run /\ me.verdict = Verdict(table)
      BY <1>1, <3>2 DEF BoardCallType
    <3>4. CallBacked(me)
      BY <1>1, <1>4, <3>2, <3>3 DEF CallBacked, RatifyRead
    <3>5. boardCall' = [boardCall EXCEPT ![c] = me]
      BY <1>1, <2>2 DEF BInv, BoardType
    <3> HIDE DEF me
    <3> QED
      BY <1>1, <1>2, <1>4, <3>3, <3>4, <3>5, RequestStep DEF RatifyRead, boardHistory
  <2> QED
    BY <1>1, <1>4, <2>1, <2>2 DEF RatifyRead
<1>5. CASE BoardFault(c)
  <2>1. /\ strayed \subseteq strayed' /\ strayed' \subseteq Meetings
        /\ it.pc = "close" => it.meeting \in strayed'
    BY <1>1, <1>2, <1>5 DEF BoardFault
  <2> QED
    BY <1>1, <1>5, <2>1, IdleIsBacked, RequestStep DEF BoardFault, BoardReturn
<1> QED
  BY <1>3, <1>4, <1>5

\* The attendees change, and the history with them.
LEMMA AttendeeStep ==
    ASSUME BInv, NEW c \in BoardCalls, boardCall[c].pc # "close", BoardReturn(c),
           attendee' \in [Meetings -> [Members -> Attendances]], Recorded,
           UNCHANGED <<meeting, decision, answered, strayed>>
    PROVE  BInv'
<1>1. \A d \in BoardCalls : boardCall'[d] = IF d = c THEN IdleBoardCall ELSE boardCall[d]
  BY DEF BInv, BoardType, BoardReturn
<1>2. \A m \in Meetings : verdicts'[m] = verdicts[m] \cup Consent(attendee'[m])
  BY DEF Recorded
<1>3. \A table : Consent(table) \subseteq Closed
  BY DEF Consent
<1>4. BoardType'
  <2>1. verdicts' \in [Meetings -> SUBSET Closed]
    BY <1>3 DEF Recorded, BInv, BoardType
  <2>2. boardCall' \in [BoardCalls -> BoardCallType]
    BY IdleIsBacked DEF BInv, BoardType, BoardReturn
  <2> QED
    BY <2>1, <2>2 DEF BInv, BoardType
<1>5. CallsBacked'
  <2>1. ASSUME NEW d \in BoardCalls
        PROVE  CallBacked(boardCall[d])'
    <3>1. PICK it : it = boardCall'[d]
      OBVIOUS
    <3>2. CallBacked(it) /\ it.meeting \in Meetings
      BY <1>1, <3>1, IdleIsBacked DEF BInv, BoardType, BoardCallType, CallsBacked
    <3> QED
      BY <1>2, <3>1, <3>2 DEF CallBacked
  <2> QED
    BY <2>1 DEF CallsBacked
<1>6. ConsentKept'
  <2>1. \A m \in Meetings : Consent(attendee'[m]) \subseteq verdicts'[m]
    BY <1>2
  <2> QED
    BY <2>1 DEF ConsentKept, Consent
<1>7. DecisionHeld'
  <2>1. \A r \in Runs : decision[r] # NoDecision => decision[r].meeting \in Meetings
    BY DEF BInv, BoardType, Decisions
  <2> QED
    BY <1>2, <2>1 DEF BInv, DecisionHeld
<1>8. MeetingShowsDecision'
  BY <1>1 DEF BInv, MeetingShowsDecision
<1> QED
  BY <1>4, <1>5, <1>6, <1>7, <1>8 DEF BInv

LEMMA AttendeeSteps ==
    ASSUME BInv, NEW c \in BoardCalls, AttendWrite(c) \/ VoteWrite(c)
    PROVE  BInv'
<1>1. PICK it \in BoardCallType : it = boardCall[c] /\ CallBacked(it)
  BY SMTT(30) DEF BInv, BoardType, CallsBacked
<1>2. it.member \in Members /\ it.meeting \in Meetings /\ it.pc # "close"
  BY <1>1 DEF CallBacked, BoardCallType, AttendWrite, VoteWrite
<1>3. attendee[it.meeting][it.member] \in Attendances
  BY <1>2 DEF BInv, BoardType
<1>4. attendee' \in [Meetings -> [Members -> Attendances]]
  <2>1. CASE UNCHANGED attendee
    BY <2>1 DEF BInv, BoardType
  <2>2. CASE attendee' = [attendee EXCEPT ![it.meeting][it.member] =
                [@ EXCEPT !.here = TRUE, !.conflict = it.conflict]]
    <3>1. [attendee[it.meeting][it.member] EXCEPT !.here = TRUE, !.conflict = it.conflict] \in Attendances
      BY <1>3 DEF Attendances, BoardCallType
    <3> QED
      BY <1>2, <2>2, <3>1 DEF BInv, BoardType
  <2>3. CASE attendee' = [attendee EXCEPT ![it.meeting][it.member].vote = it.vote]
    <3>1. [attendee[it.meeting][it.member] EXCEPT !.vote = it.vote] \in Attendances
      BY <1>3 DEF Attendances, BoardCallType
    <3> QED
      BY <1>2, <2>3, <3>1 DEF BInv, BoardType
  <2> QED
    BY <1>1, <2>1, <2>2, <2>3 DEF AttendWrite, VoteWrite
<1> QED
  BY <1>1, <1>2, <1>4, AttendeeStep DEF AttendWrite, VoteWrite

LEMMA OpenKeepsInv ==
    ASSUME BInv, NEW c \in BoardCalls, OpenWrite(c)
    PROVE  BInv'
<1>1. PICK m \in Meetings : m = boardCall[c].meeting
  BY DEF BInv, BoardType, BoardCallType
<1>2. \A d \in BoardCalls : boardCall'[d] = IF d = c THEN IdleBoardCall ELSE boardCall[d]
  BY DEF OpenWrite, BInv, BoardType, BoardReturn
<1>3. \A k \in Meetings : meeting'[k] = IF k = m THEN "open" ELSE meeting[k]
  BY <1>1 DEF OpenWrite, BInv, BoardType
<1>4. BoardType'
  <2>1. meeting' \in [Meetings -> {"scheduled", "open"} \cup Closed]
    BY DEF OpenWrite, BInv, BoardType
  <2>2. boardCall' \in [BoardCalls -> BoardCallType]
    BY IdleIsBacked DEF OpenWrite, BInv, BoardType, BoardReturn
  <2>3. strayed' \subseteq Meetings
    BY <1>1 DEF OpenWrite, BInv, BoardType
  <2> QED
    BY <2>1, <2>2, <2>3 DEF OpenWrite, BInv, BoardType
<1>5. CallsBacked' /\ ConsentKept' /\ DecisionHeld'
  BY <1>2, IdleIsBacked
  DEF OpenWrite, BInv, CallsBacked, CallBacked, ConsentKept, DecisionHeld
<1>6. MeetingShowsDecision'
  <2>1. \A k \in Meetings : meeting'[k] \in Closed => meeting[k] = meeting'[k]
    BY <1>3 DEF Closed
  <2>2. \A k \in Meetings : meeting[k] \in Closed => meeting'[k] = meeting[k] \/ k \in strayed'
    BY <1>1, <1>3 DEF OpenWrite
  <2>3. strayed \subseteq strayed'
    BY DEF OpenWrite
  <2>4. \A r \in Runs : decision[r] # NoDecision => decision[r].meeting \in Meetings
    BY DEF BInv, BoardType, Decisions
  <2>5. \A d \in BoardCalls : boardCall[d].pc = "close" => boardCall'[d] = boardCall[d]
    BY <1>2 DEF OpenWrite
  <2> QED
    BY <2>1, <2>2, <2>3, <2>4, <2>5 DEF OpenWrite, BInv, MeetingShowsDecision
<1> QED
  BY <1>4, <1>5, <1>6 DEF BInv

\* The decision is taken by the votes that were read, or it was taken before.
LEMMA InsertKeepsInv ==
    ASSUME BInv, NEW c \in BoardCalls, RatifyInsert(c)
    PROVE  BInv'
<1>1. PICK it \in BoardCallType : it = boardCall[c] /\ CallBacked(it)
  BY DEF BInv, BoardType, CallsBacked
<1>2. /\ it.pc = "decide" /\ it.run \in Runs /\ it.meeting \in Meetings
      /\ it.verdict \in verdicts[it.meeting] /\ it.verdict \in Closed
  BY <1>1 DEF RatifyInsert, CallBacked, BInv, BoardType, BoardCallType
<1>3. CASE DecisionTaken(it.run)
  <2> DEFINE me == [it EXCEPT !.pc = "existing"]
  <2>1. me \in BoardCallType /\ me.pc = "existing" /\ me.run = it.run
    BY <1>1 DEF BoardCallType
  <2>2. CallBacked(me)
    BY <1>2, <1>3, <2>1 DEF CallBacked, DecisionTaken
  <2>3. boardCall' = [boardCall EXCEPT ![c] = me]
    BY <1>1, <1>3 DEF RatifyInsert, Becomes, BInv, BoardType
  <2>4. strayed' = strayed /\ strayed \subseteq Meetings
    BY DEF RatifyInsert, boardHistory, BInv, BoardType
  <2> HIDE DEF me
  <2> QED
    BY <1>1, <1>2, <1>3, <2>1, <2>2, <2>3, <2>4, RequestStep DEF RatifyInsert, boardHistory
<1>4. CASE ~DecisionTaken(it.run)
  <2> DEFINE me == [it EXCEPT !.pc = "close"]
             taken == [kind |-> it.verdict, meeting |-> it.meeting]
  <2>1. /\ me \in BoardCallType /\ me.pc = "close" /\ me.run = it.run
        /\ me.meeting = it.meeting /\ me.verdict = it.verdict
    BY <1>1 DEF BoardCallType
  <2>2. decision' = [decision EXCEPT ![it.run] = taken] /\ decision[it.run] = NoDecision
    BY <1>1, <1>4 DEF RatifyInsert, DecisionTaken
  <2>3. boardCall' = [boardCall EXCEPT ![c] = me]
    BY <1>1, <1>4 DEF RatifyInsert, Becomes, BInv, BoardType
  <2> HIDE DEF me
  <2>4. \A r \in Runs : decision'[r] = IF r = it.run THEN taken ELSE decision[r]
    BY <1>2, <2>2 DEF BInv, BoardType
  <2>5. \A d \in BoardCalls : boardCall'[d] = IF d = c THEN me ELSE boardCall[d]
    BY <2>3 DEF BInv, BoardType
  <2>6. taken \in Decisions /\ taken # NoDecision
    BY <1>2 DEF Decisions, NoDecision, Closed
  <2>7. BoardType'
    <3>1. decision' \in [Runs -> Decisions \cup {NoDecision}]
      BY <2>2, <2>6 DEF BInv, BoardType
    <3>2. boardCall' \in [BoardCalls -> BoardCallType]
      BY <2>1, <2>3 DEF BInv, BoardType
    <3> QED
      BY <3>1, <3>2 DEF RatifyInsert, boardHistory, BInv, BoardType
  <2>8. CallsBacked'
    <3>1. ASSUME NEW d \in BoardCalls
          PROVE  CallBacked(boardCall[d])'
      <4>1. PICK other : other = boardCall'[d]
        OBVIOUS
      <4>2. CASE d = c
        BY <4>1, <4>2, <2>5, <2>1, <1>2, <2>4 DEF CallBacked
      <4>3. CASE d # c
        <5>1. other = boardCall[d] /\ CallBacked(other)
          BY <4>1, <4>3, <2>5 DEF BInv, CallsBacked
        <5>2. other.pc = "close" => other.run # it.run
          BY <5>1, <2>2 DEF CallBacked, NoDecision
        <5> QED
          BY <4>1, <5>1, <5>2, <2>4, <2>6 DEF CallBacked, RatifyInsert, boardHistory
      <4> QED
        BY <4>2, <4>3
    <3> QED
      BY <3>1 DEF CallsBacked
  <2>9. ConsentKept'
    BY DEF RatifyInsert, boardHistory, BInv, ConsentKept
  <2>10. DecisionHeld'
    <3>1. answered[it.run] = {}
      <4>1. answered[it.run] \subseteq Closed /\ answered[it.run] \subseteq {"none"}
        BY <1>2, <2>2 DEF BInv, BoardType, DecisionHeld, NoDecision
      <4> QED
        BY <4>1 DEF Closed
    <3> QED
      BY <1>2, <2>4, <3>1 DEF RatifyInsert, boardHistory, BInv, DecisionHeld
  <2>11. MeetingShowsDecision'
    <3>1. ASSUME NEW m \in Meetings, meeting[m] \in Closed
          PROVE  \E r \in Runs : decision'[r] = [kind |-> meeting[m], meeting |-> m]
      <4>1. PICK r \in Runs : decision[r] = [kind |-> meeting[m], meeting |-> m]
        BY <3>1 DEF BInv, MeetingShowsDecision
      <4>2. r # it.run
        BY <4>1, <2>2 DEF NoDecision
      <4> QED
        BY <4>1, <4>2, <2>4
    <3>2. \A d \in BoardCalls : boardCall[d].pc = "close" => boardCall'[d] = boardCall[d]
      BY <2>5, <1>1, <1>2
    <3>3. boardCall'[c].pc = "close" /\ boardCall'[c].meeting = taken.meeting
      BY <2>5, <2>1
    <3> QED
      BY <3>1, <3>2, <3>3, <2>4 DEF RatifyInsert, boardHistory, BInv, MeetingShowsDecision
  <2> QED
    BY <2>7, <2>8, <2>9, <2>10, <2>11 DEF BInv
<1> QED
  BY <1>3, <1>4

\* The request is told the decision it has taken or found.
LEMMA CloseKeepsInv ==
    ASSUME BInv, NEW c \in BoardCalls, RatifyClose(c)
    PROVE  BInv'
<1>1. PICK it \in BoardCallType : it = boardCall[c] /\ CallBacked(it)
  BY DEF BInv, BoardType, CallsBacked
<1>2. /\ it.pc = "close" /\ it.run \in Runs /\ it.meeting \in Meetings
      /\ decision[it.run] = [kind |-> it.verdict, meeting |-> it.meeting]
  BY <1>1 DEF RatifyClose, CallBacked, BoardCallType
<1>3. it.verdict \in Closed /\ decision[it.run].kind = it.verdict
  <2>1. decision[it.run].kind = it.verdict /\ decision[it.run].kind \in Closed \cup {"none"}
    BY <1>2 DEF BInv, BoardType, Decisions, NoDecision
  <2>2. it.verdict # "none"
    <3>1. NoDecision # [kind |-> it.verdict, meeting |-> it.meeting]
      <4>1. "meeting" \notin DOMAIN NoDecision
        BY DEF NoDecision
      <4> QED
        BY <4>1
    <3>2. decision[it.run] \in Decisions
      BY <1>2, <3>1 DEF BInv, BoardType
    <3> QED
      BY <2>1, <3>2 DEF Decisions, Closed
  <2> QED
    BY <2>1, <2>2
<1>4. \A d \in BoardCalls : boardCall'[d] = IF d = c THEN IdleBoardCall ELSE boardCall[d]
  BY DEF RatifyClose, BInv, BoardType, BoardReturn
<1>5. \A m \in Meetings : meeting'[m] = IF m = it.meeting THEN it.verdict ELSE meeting[m]
  BY <1>1, <1>2 DEF RatifyClose, BInv, BoardType
<1>6. \A r \in Runs : answered'[r] = IF r = it.run THEN answered[r] \cup {it.verdict} ELSE answered[r]
  BY <1>1, <1>2 DEF RatifyClose, BInv, BoardType
<1>7. BoardType'
  <2>1. meeting' \in [Meetings -> {"scheduled", "open"} \cup Closed]
    BY <1>1, <1>3 DEF RatifyClose, BInv, BoardType
  <2>2. answered' \in [Runs -> SUBSET Closed]
    BY <1>1, <1>2, <1>3 DEF RatifyClose, BInv, BoardType
  <2>3. boardCall' \in [BoardCalls -> BoardCallType]
    BY IdleIsBacked DEF RatifyClose, BInv, BoardType, BoardReturn
  <2> QED
    BY <2>1, <2>2, <2>3 DEF RatifyClose, BInv, BoardType
<1>8. CallsBacked' /\ ConsentKept'
  BY <1>4, IdleIsBacked DEF RatifyClose, BInv, CallsBacked, CallBacked, ConsentKept
<1>9. DecisionHeld'
  <2>1. \A r \in Runs : answered[r] \subseteq {decision[r].kind}
    BY DEF BInv, DecisionHeld
  <2>2. \A r \in Runs : answered'[r] \subseteq {decision[r].kind}
    BY <2>1, <1>3, <1>6
  <2> QED
    BY <2>2 DEF RatifyClose, BInv, DecisionHeld
<1>10. MeetingShowsDecision'
  <2>1. ASSUME NEW m \in Meetings, meeting'[m] \in Closed
        PROVE  \E r \in Runs : decision[r] = [kind |-> meeting'[m], meeting |-> m]
    BY <1>2, <1>5, <2>1 DEF BInv, MeetingShowsDecision
  <2>2. \A m \in Meetings : meeting[m] \in Closed => meeting'[m] \in Closed
    BY <1>3, <1>5
  <2>3. \A d \in BoardCalls : boardCall[d].pc = "close" =>
            boardCall'[d] = boardCall[d] \/ boardCall[d].meeting = it.meeting
    BY <1>4, <1>1
  <2>4. meeting'[it.meeting] \in Closed
    BY <1>2, <1>3, <1>5
  <2>5. \A r \in Runs : decision[r] # NoDecision => decision[r].meeting \in Meetings
    BY DEF BInv, BoardType, Decisions
  <2> QED
    BY <2>1, <2>2, <2>3, <2>4, <2>5 DEF RatifyClose, BInv, MeetingShowsDecision
<1> QED
  BY <1>7, <1>8, <1>9, <1>10 DEF BInv

LEMMA ExistingKeepsInv ==
    ASSUME BInv, NEW c \in BoardCalls, RatifyExisting(c)
    PROVE  BInv'
<1>1. PICK it \in BoardCallType : it = boardCall[c] /\ CallBacked(it)
  BY DEF BInv, BoardType, CallsBacked
<1>2. it.pc = "existing" /\ it.run \in Runs /\ decision[it.run] # NoDecision
  BY <1>1 DEF RatifyExisting, CallBacked
<1>3. decision[it.run].kind \in Closed
  BY <1>2 DEF BInv, BoardType, Decisions
<1>4. \A d \in BoardCalls : boardCall'[d] = IF d = c THEN IdleBoardCall ELSE boardCall[d]
  BY DEF RatifyExisting, BInv, BoardType, BoardReturn
<1>5. \A r \in Runs : answered'[r] =
            IF r = it.run THEN answered[r] \cup {decision[r].kind} ELSE answered[r]
  BY <1>1, <1>2 DEF RatifyExisting, BInv, BoardType
<1>6. BoardType'
  <2>1. answered' \in [Runs -> SUBSET Closed]
    BY <1>1, <1>2, <1>3 DEF RatifyExisting, BInv, BoardType
  <2>2. boardCall' \in [BoardCalls -> BoardCallType]
    BY IdleIsBacked DEF RatifyExisting, BInv, BoardType, BoardReturn
  <2> QED
    BY <2>1, <2>2 DEF RatifyExisting, BInv, BoardType
<1>7. CallsBacked' /\ ConsentKept'
  BY <1>4, IdleIsBacked DEF RatifyExisting, BInv, CallsBacked, CallBacked, ConsentKept
<1>8. DecisionHeld'
  BY <1>5 DEF RatifyExisting, BInv, DecisionHeld
<1>9. MeetingShowsDecision'
  <2>1. \A d \in BoardCalls : boardCall[d].pc = "close" => boardCall'[d] = boardCall[d]
    BY <1>4, <1>1, <1>2
  <2> QED
    BY <2>1 DEF RatifyExisting, BInv, MeetingShowsDecision
<1> QED
  BY <1>6, <1>7, <1>8, <1>9 DEF BInv

LEMMA BoardStarts == BoardInit => BInv
<1> SUFFICES ASSUME BoardInit PROVE BInv
  OBVIOUS
<1>1. BoardType /\ CallsBacked
  BY IdleIsBacked DEF BoardInit, BoardType, CallsBacked, Attendances, Absent
<1>2. ConsentKept
  <2>1. ASSUME NEW m \in Meetings, NEW kind \in Consent(attendee[m])
        PROVE  FALSE
    <3>1. {u \in Members : attendee[m][u].here /\ ~attendee[m][u].conflict} = {}
      BY DEF BoardInit, Absent
    <3>2. Cardinality({}) = 0
      BY FS_EmptySet
    <3>3. Cardinality({u \in Members : attendee[m][u].here /\ ~attendee[m][u].conflict}) >= Quorum
      BY <2>1 DEF Consent
    <3> QED
      BY <3>1, <3>2, <3>3, BoardAssumption
  <2> QED
    BY <2>1 DEF ConsentKept
<1>3. DecisionHeld /\ MeetingShowsDecision
  BY DEF BoardInit, DecisionHeld, MeetingShowsDecision, Closed
<1> QED
  BY <1>1, <1>2, <1>3 DEF BInv

LEMMA BoardSteps == BInv /\ [BoardNext]_boardVars => BInv'
<1> SUFFICES ASSUME BInv, [BoardNext]_boardVars PROVE BInv'
  OBVIOUS
<1>1. ASSUME NEW c \in BoardCalls, BoardStep(c) PROVE BInv'
  BY <1>1, ReadSteps, OwnSteps, AttendeeSteps, OpenKeepsInv, InsertKeepsInv, CloseKeepsInv,
     ExistingKeepsInv
  DEF BoardStep
<1>2. CASE UNCHANGED boardVars
  <2>1. BoardType' /\ CallsBacked' /\ ConsentKept'
    BY <1>2 DEF boardVars, boardHistory, BInv, BoardType, CallsBacked, CallBacked, ConsentKept
  <2>2. DecisionHeld' /\ MeetingShowsDecision'
    BY <1>2 DEF boardVars, boardHistory, BInv, DecisionHeld, MeetingShowsDecision
  <2> QED
    BY <2>1, <2>2 DEF BInv
<1> QED
  BY <1>1, <1>2 DEF BoardNext
-----------------------------------------------------------------------------
(* Theorems.                                                               *)

LEMMA BoardInvariance == BoardSpec => []BInv
BY BoardStarts, BoardSteps, PTL DEF BoardSpec

\* Meetings, attendances, decisions and requests keep their shape.
THEOREM BoardTyped == BoardSpec => []BoardType
<1>1. BInv => BoardType
  BY DEF BInv
<1> QED
  BY <1>1, BoardInvariance, PTL

\* Whichever ratifications, votes and declarations of conflict race, a decision
\* is what the votes amounted to at some moment, and the answer of everybody.
THEOREM DecisionIsHeld == BoardSpec => []DecisionHeld
<1>1. BInv => DecisionHeld
  BY DEF BInv
<1> QED
  BY <1>1, BoardInvariance, PTL

\* The status of a meeting and the decisions of it agree, but for the failures
\* the property names.
THEOREM MeetingsShowDecisions == BoardSpec => []MeetingShowsDecision
<1>1. BInv => MeetingShowsDecision
  BY DEF BInv
<1> QED
  BY <1>1, BoardInvariance, PTL

\* A decision is never changed or taken back.
THEOREM DecisionIsFinal == BoardSpec => DecisionFinal
<1> DEFINE Stays == \A r \in Runs : decision[r] # NoDecision => decision'[r] = decision[r]
<1>1. BInv /\ [BoardNext]_boardVars => [Stays]_boardVars
  <2> SUFFICES ASSUME BInv, BoardNext PROVE Stays
    OBVIOUS
  <2>1. PICK c \in BoardCalls : BoardStep(c)
    BY DEF BoardNext
  <2>2. CASE RatifyInsert(c)
    BY <2>2 DEF RatifyInsert, DecisionTaken, BInv, BoardType
  <2>3. CASE ~RatifyInsert(c)
    BY <2>1, <2>3 DEF BoardStep, OpenRead, OpenWrite, AttendRead, AttendLook, AttendWrite,
       VoteRead, VoteWrite, RatifyBegin, RatifyRead, RatifyClose, RatifyExisting, BoardFault
  <2> QED
    BY <2>2, <2>3
<1> QED
  BY <1>1, BoardInvariance, PTL DEF BoardSpec, DecisionFinal
-----------------------------------------------------------------------------
(* GradeLedger: the inductive invariant.                                   *)

\* No two rows have one number.
NumbersApart == \A row, other \in ledger : row.no = other.no => row = other

\* What a request has read still holds of the rows up to the number it read,
\* although others may have appended to them since.
CallSound(me) ==
    /\ me.pc \in {"amend", "insert"} => me.asked \in Asked
    /\ me.pc = "insert" =>
            /\ me.old \in Grades /\ ~SameNumber(me.old, me.asked)
            /\ me.no \in 1..MaxAmendments /\ me.no <= Cardinality(ledger) + 1
            /\ me.old = EffectiveGrade(UpTo(me.no - 1))
    /\ me.pc \in {"release", "enqueue"} => ratified = "ratified"
    /\ me.pc = "enqueue" =>
            /\ me.grade \in Grades
            /\ me.no <= Cardinality(ledger) /\ me.grade = EffectiveGrade(UpTo(me.no))

CallsSound == \A c \in LedgerCalls : CallSound(ledgerCall[c])

\* An acknowledgement that is on its way is about a release that is not
\* reconciled, and alone with it.
AcksApart ==
    ~overlapped => \A c \in LedgerCalls : ledgerCall[c].pc = "ack" =>
        /\ \A row \in outbox : row.version = ledgerCall[c].no => row.status # "reconciled"
        /\ \A d \in LedgerCalls \ {c} :
                ledgerCall[d].pc = "ack" => ledgerCall[d].no # ledgerCall[c].no

LInv ==
    /\ LedgerType
    /\ IsFiniteSet(ledger)
    /\ NumbersApart
    /\ LedgerIsChain
    /\ ReleaseIsVersion
    /\ CallsSound
    /\ AcksApart
-----------------------------------------------------------------------------
(* The rows up to a number.                                                *)

LEMMA CountIsNat ==
    ASSUME IsFiniteSet(ledger)
    PROVE  Cardinality(ledger) \in Nat
BY FS_CardinalityType

LEMMA UpToAll ==
    ASSUME LInv
    PROVE  UpTo(Cardinality(ledger)) = ledger
<1>1. \A row \in ledger : row.no \in 1..Cardinality(ledger)
  BY DEF LInv, LedgerIsChain
<1> QED
  BY <1>1, CountIsNat DEF UpTo, LInv

\* The grade that counts is a grade: there is a last row.
LEMMA EffectiveIsGrade ==
    ASSUME LInv
    PROVE  EffectiveGrade(ledger) \in Grades
<1>1. CASE ledger = {}
  BY <1>1, LedgerAssumption DEF EffectiveGrade
<1>2. CASE ledger # {}
  <2> DEFINE last(row) == \A other \in ledger : other.no <= row.no
  <2>1. \A row \in ledger : row.no \in 1..Cardinality(ledger)
    BY DEF LInv, LedgerIsChain
  <2>2. Cardinality(ledger) \in 1..Cardinality(ledger)
    BY <1>2, <2>1, CountIsNat DEF LInv
  <2>3. PICK row \in ledger : row.no = Cardinality(ledger)
    BY <2>2 DEF LInv, LedgerIsChain
  <2>4. last(row)
    BY <2>1, <2>3, CountIsNat DEF LInv
  <2>5. LastOf(ledger) \in ledger
    BY <2>3, <2>4 DEF LastOf
  <2> QED
    BY <1>2, <2>5 DEF EffectiveGrade, LInv, LedgerType, Amendments
<1> QED
  BY <1>1, <1>2
-----------------------------------------------------------------------------
(* Steps.                                                                  *)

\* A step that changes the requests alone.
LEMMA OnlyCalls ==
    ASSUME LInv, UNCHANGED <<ratified, ledger, outbox, promised>>, overlapped' \in BOOLEAN,
           NEW c \in LedgerCalls, NEW me \in LedgerCallType, Call(c, me),
           CallSound(me), AcksApart'
    PROVE  LInv'
<1>1. /\ ledgerCall' \in [LedgerCalls -> LedgerCallType]
      /\ \A d \in LedgerCalls : ledgerCall'[d] = IF d = c THEN me ELSE ledgerCall[d]
  BY DEF Call, LInv, LedgerType
<1>2. LedgerType'
  BY <1>1 DEF LInv, LedgerType
<1>3. CallsSound'
  <2> SUFFICES ASSUME NEW d \in LedgerCalls PROVE CallSound(ledgerCall[d])'
    BY DEF CallsSound
  <2>1. PICK it : it = ledgerCall'[d] /\ CallSound(it)
    BY <1>1 DEF LInv, CallsSound
  <2> QED
    BY <2>1 DEF CallSound, UpTo
<1>4. LedgerIsChain' /\ ReleaseIsVersion' /\ NumbersApart' /\ IsFiniteSet(ledger)'
  BY DEF LInv, LedgerIsChain, ReleaseIsVersion, NumbersApart, UpTo
<1> QED
  BY <1>2, <1>3, <1>4 DEF LInv

\* A request that becomes something other than an acknowledgement.
LEMMA NoNewAck ==
    ASSUME LInv, UNCHANGED <<outbox, overlapped>>,
           NEW c \in LedgerCalls, NEW me, me.pc # "ack", Call(c, me)
    PROVE  AcksApart'
<1>1. \A d \in LedgerCalls : ledgerCall'[d] = IF d = c THEN me ELSE ledgerCall[d]
  BY DEF Call, LInv, LedgerType
<1> QED
  BY <1>1 DEF LInv, AcksApart

LEMMA IdleIsSound == IdleLedgerCall \in LedgerCallType /\ CallSound(IdleLedgerCall)
                     /\ IdleLedgerCall.pc = "idle"
BY DEF IdleLedgerCall, LedgerCallType, CallSound, OutboxStatuses

\* A row is appended under the number that follows the last one; up to there
\* nothing changes, and from there on its grade counts.
LEMMA AppendNumbers ==
    ASSUME LInv, NEW c \in LedgerCalls, ledgerCall[c].pc = "insert",
           ~NumberTaken(ledgerCall[c].no),
           ledger' = ledger \cup {Amendment(ledgerCall[c])}
    PROVE  /\ ledgerCall[c].no = Cardinality(ledger) + 1
           /\ IsFiniteSet(ledger') /\ Cardinality(ledger') = Cardinality(ledger) + 1
           /\ \A k \in 0..Cardinality(ledger) : UpTo(k)' = UpTo(k)
           /\ \A k \in Nat : k = Cardinality(ledger) + 1 =>
                    EffectiveGrade(UpTo(k)') = Rounded[ledgerCall[c].asked]
<1> DEFINE n == Cardinality(ledger)
           me == ledgerCall[c]
           row == Amendment(me)
<1>0. row.no = me.no /\ row.old = me.old /\ row.asked = me.asked /\ row.new = Rounded[me.asked]
  BY DEF Amendment
<1> HIDE DEF row
<1>1. me.no \in Nat \ {0} /\ me.no <= n + 1
  BY LedgerAssumption DEF LInv, LedgerType, CallsSound, CallSound
<1>2. n \in Nat
  BY CountIsNat DEF LInv
<1>3. \A other \in ledger : other.no \in 1..n
  BY DEF LInv, LedgerIsChain
<1>4. me.no = n + 1
  <2>1. me.no \notin {other.no : other \in ledger}
    BY DEF NumberTaken
  <2>2. me.no \notin 1..n
    BY <2>1 DEF LInv, LedgerIsChain
  <2> QED
    BY <1>1, <1>2, <2>2
<1>5. row \notin ledger /\ row.no = n + 1 /\ ledger' = ledger \cup {row}
  BY <1>0, <1>3, <1>4, <1>2 DEF row
<1>6. IsFiniteSet(ledger') /\ Cardinality(ledger') = n + 1
  BY <1>5, FS_AddElement DEF LInv
<1>7. \A k \in 0..n : UpTo(k)' = UpTo(k)
  BY <1>2, <1>5, <1>3 DEF UpTo
<1>8. row \in ledger' /\ \A k \in Nat : k = n + 1 => UpTo(k)' = ledger'
  <2>1. \A other \in ledger : other.no <= n + 1
    BY <1>2, <1>3
  <2>2. \A other \in ledger' : other.no <= n + 1
    BY <1>2, <1>5, <2>1
  <2> QED
    BY <1>5, <2>2 DEF UpTo
<1>9. LastOf(ledger') = row
  <2>1. \A other \in ledger' : other.no <= row.no
    BY <1>2, <1>3, <1>5
  <2>2. \A last \in ledger' : (\A other \in ledger' : other.no <= last.no) => last = row
    BY <1>2, <1>3, <1>5, <1>8
  <2> QED
    BY <1>8, <2>1, <2>2 DEF LastOf
<1>10. EffectiveGrade(ledger') = Rounded[me.asked]
  BY <1>0, <1>8, <1>9 DEF EffectiveGrade
<1> QED
  BY <1>4, <1>6, <1>7, <1>8, <1>10

LEMMA AppendKeepsInv ==
    ASSUME LInv, NEW c \in LedgerCalls, ledgerCall[c].pc = "insert",
           ~NumberTaken(ledgerCall[c].no), Done(c),
           ledger' = ledger \cup {Amendment(ledgerCall[c])},
           promised' \in {promised, promised \cup {Amendment(ledgerCall[c])}},
           UNCHANGED <<ratified, outbox, overlapped>>
    PROVE  LInv'
<1> DEFINE n == Cardinality(ledger)
           me == ledgerCall[c]
           row == Amendment(me)
<1>0. row.no = me.no /\ row.old = me.old /\ row.asked = me.asked /\ row.new = Rounded[me.asked]
  BY DEF Amendment
<1> HIDE DEF row
<1>1. /\ me \in LedgerCallType /\ me.no \in Nat \ {0} /\ me.no <= MaxAmendments /\ me.no <= n + 1
      /\ me.old \in Grades /\ me.asked \in Asked /\ ~SameNumber(me.old, me.asked)
      /\ me.old = EffectiveGrade(UpTo(me.no - 1))
  BY LedgerAssumption DEF LInv, LedgerType, CallsSound, CallSound
<1>2. n \in Nat
  BY CountIsNat DEF LInv
<1>3. \A other \in ledger : other.no \in 1..n
  BY DEF LInv, LedgerIsChain
<1>4. me.no = n + 1
  BY AppendNumbers
<1>5. /\ row \notin ledger /\ row.no = n + 1 /\ ledger' = ledger \cup {row}
      /\ promised' \in {promised, promised \cup {row}}
  BY <1>0, <1>3, <1>4, <1>2 DEF row
<1>6. IsFiniteSet(ledger') /\ Cardinality(ledger') = n + 1
  BY AppendNumbers
<1>7. \A k \in 0..n : UpTo(k)' = UpTo(k)
  BY AppendNumbers
<1>8. \A d \in LedgerCalls : ledgerCall'[d] = IF d = c THEN IdleLedgerCall ELSE ledgerCall[d]
  BY DEF Done, Call, LInv, LedgerType
<1>9. LedgerType'
  <2>1. row \in Amendments
    BY <1>1, NumbersAssumption DEF row, Amendment, Amendments
  <2>2. ledgerCall' \in [LedgerCalls -> LedgerCallType]
    BY IdleIsSound DEF Done, Call, LInv, LedgerType
  <2> QED
    BY <1>5, <2>1, <2>2 DEF LInv, LedgerType
<1>10. NumbersApart'
  BY <1>3, <1>5, <1>2 DEF LInv, NumbersApart
<1>11. LedgerIsChain'
  <2>1. {other.no : other \in ledger'} = 1..(n + 1)
    <3>1. {other.no : other \in ledger \cup {row}} = {other.no : other \in ledger} \cup {row.no}
      OBVIOUS
    <3>2. {other.no : other \in ledger} = 1..n
      BY DEF LInv, LedgerIsChain
    <3>3. 1..n \cup {n + 1} = 1..(n + 1)
      BY <1>2
    <3> QED
      BY <3>1, <3>2, <3>3, <1>5
  <2>2. n + 1 <= MaxAmendments
    BY <1>1, <1>4
  <2>3. ASSUME NEW other \in ledger'
        PROVE  ChangesAsAsked(other) /\ other.old = EffectiveGrade(UpTo(other.no - 1)')
    <3>1. CASE other = row
      <4>1. other.no - 1 \in 0..n /\ other.no = me.no /\ other.old = me.old
        BY <3>1, <1>0, <1>4, <1>2
      <4>2. UpTo(other.no - 1)' = UpTo(other.no - 1)
        BY <4>1, <1>7
      <4>3. ChangesAsAsked(other)
        BY <3>1, <1>0, <1>1, NumbersAssumption DEF ChangesAsAsked, SameNumber
      <4> QED
        BY <4>1, <4>2, <4>3, <1>1
    <3>2. CASE other \in ledger
      <4>1. other.no - 1 \in 0..n
        BY <1>3, <1>2, <3>2
      <4>2. UpTo(other.no - 1)' = UpTo(other.no - 1)
        BY <4>1, <1>7
      <4>3. ChangesAsAsked(other) /\ other.old = EffectiveGrade(UpTo(other.no - 1))
        BY <3>2 DEF LInv, LedgerIsChain
      <4> QED
        BY <4>2, <4>3
    <3> QED
      BY <1>5, <3>1, <3>2
  <2>4. \A other \in ledger' : ChangesAsAsked(other) /\ other.old = EffectiveGrade(UpTo(other.no - 1)')
    BY <2>3
  <2>5. promised' \subseteq ledger'
    BY <1>5 DEF LInv, LedgerIsChain
  <2> QED
    BY <2>1, <2>2, <2>4, <2>5, <1>6 DEF LedgerIsChain, EffectiveGrade
<1>12. ReleaseIsVersion'
  <2>1. ASSUME NEW other \in outbox
        PROVE  /\ other.version <= n + 1
               /\ other.grade = Payload(EffectiveGrade(UpTo(other.version)'))
    <3>1. /\ other.version \in Nat /\ other.version <= n
          /\ other.grade = Payload(EffectiveGrade(UpTo(other.version)))
      BY LedgerAssumption DEF LInv, LedgerType, Releases, Versions, ReleaseIsVersion
    <3>2. UpTo(other.version)' = UpTo(other.version)
      BY <3>1, <1>7, <1>2
    <3> QED
      BY <3>1, <3>2, <1>2
  <2>2. \A other \in outbox :
            other.version <= n + 1 /\ other.grade = Payload(EffectiveGrade(UpTo(other.version)'))
    BY <2>1
  <2> QED
    BY <2>2, <1>6 DEF LInv, ReleaseIsVersion, EffectiveGrade
<1>13. CallsSound'
  <2>1. ASSUME NEW d \in LedgerCalls, d # c
        PROVE  CallSound(ledgerCall[d])'
    <3>0. PICK it : it = ledgerCall[d]
      OBVIOUS
    <3>1. ledgerCall'[d] = it /\ it.no \in Nat /\ CallSound(it)
      BY <1>8, <2>1, <3>0 DEF LInv, LedgerType, CallsSound, LedgerCallType
    <3>2. it.pc = "insert" => /\ it.no <= n + 2
                              /\ it.old = EffectiveGrade(UpTo(it.no - 1)')
      <4>1. it.pc = "insert" => it.no - 1 \in 0..n /\ it.old = EffectiveGrade(UpTo(it.no - 1))
        BY <3>1, <1>2 DEF CallSound
      <4> QED
        BY <4>1, <1>7, <1>2, <3>1
    <3>3. it.pc = "enqueue" => /\ it.no <= n + 1
                               /\ it.grade = EffectiveGrade(UpTo(it.no)')
      <4>1. it.pc = "enqueue" => it.no \in 0..n /\ it.grade = EffectiveGrade(UpTo(it.no))
        BY <3>1, <1>2 DEF CallSound
      <4> QED
        BY <4>1, <1>7, <1>2, <3>1
    <3>4. CallSound(it)'
      BY <3>1, <3>2, <3>3, <1>6, <1>2 DEF CallSound, EffectiveGrade
    <3> QED
      BY <3>1, <3>4
  <2>2. CallSound(ledgerCall[c])'
    BY <1>8 DEF IdleLedgerCall, CallSound
  <2> QED
    BY <2>1, <2>2 DEF CallsSound
<1>14. AcksApart'
  BY IdleIsSound, NoNewAck DEF Done
<1> QED
  BY <1>6, <1>9, <1>10, <1>11, <1>12, <1>13, <1>14 DEF LInv

\* A step of a request that leaves the tables alone, and is no acknowledgement.
LEMMA OwnStep ==
    ASSUME LInv, UNCHANGED <<ratified, ledger, outbox, promised, overlapped>>,
           NEW c \in LedgerCalls, NEW me \in LedgerCallType, me.pc # "ack", Call(c, me),
           CallSound(me)
    PROVE  LInv'
<1>1. AcksApart'
  BY NoNewAck
<1>2. overlapped' \in BOOLEAN
  BY DEF LInv, LedgerType
<1> QED
  BY <1>1, <1>2, OnlyCalls

LEMMA AmendSteps ==
    ASSUME LInv, NEW c \in LedgerCalls, AmendBegin(c) \/ AmendRead(c)
    PROVE  LInv'
<1>1. CASE AmendBegin(c)
  <2>1. PICK asked \in Asked :
            Call(c, [IdleLedgerCall EXCEPT !.pc = "amend", !.asked = asked])
    BY <1>1 DEF AmendBegin
  <2> DEFINE me == [IdleLedgerCall EXCEPT !.pc = "amend", !.asked = asked]
  <2>2. me \in LedgerCallType /\ me.pc = "amend" /\ me.asked \in Asked
    BY DEF IdleLedgerCall, LedgerCallType, OutboxStatuses
  <2>3. CallSound(me)
    BY <2>2 DEF CallSound
  <2> QED
    BY <1>1, <2>1, <2>2, <2>3, OwnStep DEF AmendBegin
<1>2. CASE AmendRead(c)
  <2> DEFINE n == Cardinality(ledger)
             old == EffectiveGrade(ledger)
             me == [ledgerCall[c] EXCEPT !.pc = "insert", !.no = n + 1, !.old = old]
  <2>1. n \in Nat /\ old \in Grades /\ UpTo(n) = ledger
    BY CountIsNat, EffectiveIsGrade, UpToAll DEF LInv
  <2>2. ledgerCall[c] \in LedgerCallType /\ ledgerCall[c].asked \in Asked
    BY <1>2 DEF LInv, LedgerType, CallsSound, CallSound, AmendRead
  <2>3. CASE Done(c)
    BY <1>2, <2>3, IdleIsSound, OwnStep DEF AmendRead, Done
  <2>4. CASE ~(SameNumber(old, ledgerCall[c].asked) \/ n + 1 > MaxAmendments) /\ Call(c, me)
    <3>1. /\ me \in LedgerCallType /\ me.pc = "insert" /\ me.no = n + 1 /\ me.old = old
          /\ me.asked \in Asked /\ ~SameNumber(old, me.asked)
      <4>1. PICK it \in LedgerCallType :
                it = ledgerCall[c] /\ it.asked \in Asked /\ ~SameNumber(old, it.asked)
        BY <2>2, <2>4
      <4>2. PICK no \in Nat : no = n + 1
        BY <2>1
      <4>3. me = [it EXCEPT !.pc = "insert", !.no = no, !.old = old]
        BY <4>1, <4>2
      <4> HIDE DEF me, old, n
      <4> QED
        BY <2>1, <4>1, <4>2, <4>3 DEF LedgerCallType
    <3>2. me.no - 1 = n /\ me.no \in 1..MaxAmendments
      BY <2>1, <2>4, <3>1, LedgerAssumption
    <3>3. CallSound(me)
      BY <3>1, <3>2, <2>1 DEF CallSound
    <3> QED
      BY <1>2, <2>4, <3>1, <3>3, OwnStep DEF AmendRead
  <2> QED
    BY <1>2, <2>3, <2>4 DEF AmendRead
<1> QED
  BY <1>1, <1>2

LEMMA InsertSteps ==
    ASSUME LInv, NEW c \in LedgerCalls, AmendInsert(c) \/ AmendAnswerLost(c)
    PROVE  LInv'
<1>1. CASE ~NumberTaken(ledgerCall[c].no)
  BY <1>1, AppendKeepsInv DEF AmendInsert, AmendAnswerLost
<1>2. CASE NumberTaken(ledgerCall[c].no)
  BY <1>2, IdleIsSound, OwnStep DEF AmendInsert, AmendAnswerLost, Done
<1> QED
  BY <1>1, <1>2

LEMMA ReleaseReads ==
    ASSUME LInv, NEW c \in LedgerCalls, ReleaseBegin(c) \/ ReleaseRead(c)
    PROVE  LInv'
<1>1. CASE ReleaseBegin(c)
  <2> DEFINE me == [IdleLedgerCall EXCEPT !.pc = "release"]
  <2>1. me \in LedgerCallType /\ me.pc = "release"
    BY DEF IdleLedgerCall, LedgerCallType, OutboxStatuses
  <2>2. CallSound(me)
    BY <1>1, <2>1 DEF CallSound, ReleaseBegin
  <2> QED
    BY <1>1, <2>1, <2>2, OwnStep DEF ReleaseBegin
<1>2. CASE ReleaseRead(c)
  <2> DEFINE n == Cardinality(ledger)
             me == [ledgerCall[c] EXCEPT !.pc = "enqueue", !.no = n,
                                          !.grade = EffectiveGrade(ledger)]
  <2>1. n \in Nat /\ EffectiveGrade(ledger) \in Grades /\ UpTo(n) = ledger
    BY CountIsNat, EffectiveIsGrade, UpToAll DEF LInv
  <2>2. ledgerCall[c] \in LedgerCallType /\ ratified = "ratified"
    BY <1>2 DEF LInv, LedgerType, CallsSound, CallSound, ReleaseRead
  <2>3. /\ me \in LedgerCallType /\ me.pc = "enqueue" /\ me.no = n
        /\ me.grade = EffectiveGrade(ledger)
    BY <2>1, <2>2 DEF LedgerCallType
  <2>4. CallSound(me)
    BY <2>1, <2>2, <2>3 DEF CallSound
  <2> QED
    BY <1>2, <2>3, <2>4, OwnStep DEF ReleaseRead
<1> QED
  BY <1>1, <1>2

\* A release is stored with the grade its version had when it was read.
LEMMA ReleaseStores ==
    ASSUME LInv, NEW c \in LedgerCalls, ReleaseInsert(c)
    PROVE  LInv'
<1> DEFINE n == Cardinality(ledger)
<1>1. PICK me \in LedgerCallType : me = ledgerCall[c]
  BY DEF LInv, LedgerType
<1>2. /\ n \in Nat /\ me.pc = "enqueue" /\ me.no <= n /\ me.grade \in Grades
      /\ me.grade = EffectiveGrade(UpTo(me.no)) /\ ratified = "ratified"
  BY <1>1, CountIsNat DEF LInv, CallsSound, CallSound, ReleaseInsert
<1>3. CASE KeyTaken(me.no)
  BY <1>1, <1>3, IdleIsSound, OwnStep DEF ReleaseInsert, Done
<1>4. CASE ~KeyTaken(me.no)
  <2> DEFINE row == [version |-> me.no, grade |-> Payload(me.grade), status |-> "pending"]
  <2>1. outbox' = outbox \cup {row}
    BY <1>1, <1>4 DEF ReleaseInsert
  <2>2. \A d \in LedgerCalls : ledgerCall'[d] = IF d = c THEN IdleLedgerCall ELSE ledgerCall[d]
    BY DEF ReleaseInsert, Done, Call, LInv, LedgerType
  <2>3. LedgerType'
    <3>1. me.no \in 0..MaxAmendments
      BY <1>2, LedgerAssumption DEF LInv, LedgerIsChain, LedgerCallType
    <3>2. row \in Releases
      BY <1>2, <3>1 DEF Releases, Versions, OutboxStatuses, Payload
    <3>3. ledgerCall' \in [LedgerCalls -> LedgerCallType]
      BY IdleIsSound DEF ReleaseInsert, Done, Call, LInv, LedgerType
    <3> QED
      BY <2>1, <3>2, <3>3 DEF LInv, LedgerType, ReleaseInsert
  <2>4. ReleaseIsVersion'
    <3>1. \A other \in outbox : other.version # row.version
      BY <1>4 DEF KeyTaken
    <3>2. row.version <= n /\ row.grade = Payload(EffectiveGrade(UpTo(row.version)))
      BY <1>2
    <3> QED
      BY <2>1, <3>1, <3>2, <1>2 DEF ReleaseInsert, ReleaseIsVersion, LInv, UpTo
  <2>5. CallsSound'
    BY <2>2, IdleIsSound DEF LInv, CallsSound, CallSound, UpTo, ReleaseInsert
  <2>6. AcksApart'
    BY <2>1, <2>2, IdleIsSound DEF LInv, AcksApart, ReleaseInsert
  <2>7. LedgerIsChain' /\ NumbersApart' /\ IsFiniteSet(ledger)'
    BY DEF LInv, LedgerIsChain, NumbersApart, UpTo, ReleaseInsert
  <2> QED
    BY <2>3, <2>4, <2>5, <2>6, <2>7 DEF LInv
<1> QED
  BY <1>3, <1>4

LEMMA AckReads ==
    ASSUME LInv, NEW c \in LedgerCalls, AckRead(c)
    PROVE  LInv'
<1>1. PICK row \in outbox, status \in OutboxStatuses :
        /\ row.status # "reconciled"
        /\ Call(c, [IdleLedgerCall EXCEPT !.pc = "ack", !.no = row.version, !.status = status])
        /\ overlapped' = (overlapped \/ \E other \in LedgerCalls \ {c} :
                            ledgerCall[other].pc = "ack" /\ ledgerCall[other].no = row.version)
  BY DEF AckRead
<1> DEFINE me == [IdleLedgerCall EXCEPT !.pc = "ack", !.no = row.version, !.status = status]
<1>2. row.version \in Nat
  BY LedgerAssumption DEF LInv, LedgerType, Releases, Versions
<1>3. me \in LedgerCallType /\ me.pc = "ack" /\ me.no = row.version
  BY <1>2 DEF IdleLedgerCall, LedgerCallType
<1>4. CallSound(me)
  BY <1>3 DEF CallSound
<1>5. \A d \in LedgerCalls : ledgerCall'[d] = IF d = c THEN me ELSE ledgerCall[d]
  BY <1>1 DEF Call, LInv, LedgerType
<1>6. \A other \in outbox : other.version = row.version => other.status # "reconciled"
  BY <1>1 DEF LInv, ReleaseIsVersion
<1>7. overlapped' \in BOOLEAN
  BY <1>1 DEF LInv, LedgerType
<1>8. AcksApart'
  <2>1. SUFFICES ASSUME ~overlapped'
                 PROVE  AcksApart'
    BY DEF AcksApart
  <2>2. ~overlapped /\ \A other \in LedgerCalls \ {c} :
            ledgerCall[other].pc = "ack" => ledgerCall[other].no # row.version
    BY <1>1, <2>1
  <2> HIDE DEF me
  <2> QED
    BY <1>3, <1>5, <1>6, <2>2 DEF AckRead, LInv, AcksApart
<1> HIDE DEF me
<1>9. UNCHANGED <<ratified, ledger, outbox, promised>> /\ Call(c, me)
  BY <1>1 DEF AckRead, me
<1> QED
  BY <1>3, <1>4, <1>7, <1>8, <1>9, OnlyCalls

LEMMA AckWrites ==
    ASSUME LInv, NEW c \in LedgerCalls, AckWrite(c)
    PROVE  LInv'
<1>1. PICK me \in LedgerCallType : me = ledgerCall[c]
  BY DEF LInv, LedgerType
<1> DEFINE after(row) == IF row.version = me.no THEN [row EXCEPT !.status = me.status] ELSE row
<1>2. outbox' = {after(row) : row \in outbox} /\ me.pc = "ack"
  BY <1>1 DEF AckWrite
<1>3. ASSUME NEW row \in outbox
      PROVE  /\ after(row) \in Releases /\ after(row).version = row.version
             /\ after(row).grade = row.grade
             /\ row.version # me.no => after(row) = row
  <2>1. row \in Releases /\ me.status \in OutboxStatuses
    BY DEF LInv, LedgerType, LedgerCallType
  <2> QED
    BY <2>1 DEF Releases
<1> HIDE DEF after
<1>4. \A d \in LedgerCalls : ledgerCall'[d] = IF d = c THEN IdleLedgerCall ELSE ledgerCall[d]
  BY DEF AckWrite, Done, Call, LInv, LedgerType
<1>5. LedgerType'
  <2>1. outbox' \subseteq Releases
    BY <1>2, <1>3
  <2>2. ledgerCall' \in [LedgerCalls -> LedgerCallType]
    BY IdleIsSound DEF AckWrite, Done, Call, LInv, LedgerType
  <2> QED
    BY <2>1, <2>2 DEF LInv, LedgerType, AckWrite
<1>6. ReleaseIsVersion'
  <2>1. ASSUME NEW row \in outbox'
        PROVE  /\ row.version <= Cardinality(ledger)
               /\ row.grade = Payload(EffectiveGrade(UpTo(row.version)))
               /\ \A other \in outbox' : other.version = row.version => other = row
    <3>1. PICK before \in outbox : row = after(before)
      BY <1>2, <2>1
    <3>2. /\ before.version <= Cardinality(ledger)
          /\ before.grade = Payload(EffectiveGrade(UpTo(before.version)))
      BY DEF LInv, ReleaseIsVersion
    <3>3. ASSUME NEW other \in outbox, after(other).version = row.version
          PROVE  after(other) = row
      <4>1. other.version = before.version
        BY <3>1, <3>3, <1>3
      <4> QED
        BY <3>1, <4>1 DEF LInv, ReleaseIsVersion
    <3> QED
      BY <3>1, <3>2, <3>3, <1>2, <1>3
  <2>2. outbox' # {} => ratified = "ratified"
    BY <1>2 DEF LInv, ReleaseIsVersion
  <2> QED
    BY <2>1, <2>2 DEF AckWrite, ReleaseIsVersion, EffectiveGrade, UpTo
<1>7. CallsSound'
  BY <1>4, IdleIsSound DEF LInv, CallsSound, CallSound, UpTo, AckWrite
<1>8. AcksApart'
  <2>1. SUFFICES ASSUME ~overlapped, NEW d \in LedgerCalls \ {c}, ledgerCall[d].pc = "ack"
                 PROVE  /\ \A row \in outbox' :
                             row.version = ledgerCall[d].no => row.status # "reconciled"
                        /\ \A e \in LedgerCalls \ {d} : e # c /\ ledgerCall[e].pc = "ack" =>
                             ledgerCall[e].no # ledgerCall[d].no
    BY <1>4, IdleIsSound DEF AcksApart, AckWrite
  <2>2. ledgerCall[d].no # me.no
    BY <2>1, <1>1, <1>2 DEF LInv, AcksApart
  <2> QED
    BY <2>1, <2>2, <1>2, <1>3 DEF LInv, AcksApart
<1>9. LedgerIsChain' /\ NumbersApart' /\ IsFiniteSet(ledger)'
  BY DEF LInv, LedgerIsChain, NumbersApart, UpTo, AckWrite
<1> QED
  BY <1>5, <1>6, <1>7, <1>8, <1>9 DEF LInv

LEMMA DecideKeepsInv ==
    ASSUME LInv, Decide
    PROVE  LInv'
<1>1. LedgerType'
  BY DEF Decide, LInv, LedgerType
<1>2. ReleaseIsVersion'
  BY DEF Decide, LInv, ReleaseIsVersion, UpTo
<1>3. CallsSound'
  BY DEF Decide, LInv, CallsSound, CallSound, UpTo
<1>4. AcksApart' /\ LedgerIsChain' /\ NumbersApart' /\ IsFiniteSet(ledger)'
  BY DEF Decide, LInv, AcksApart, LedgerIsChain, NumbersApart, UpTo
<1> QED
  BY <1>1, <1>2, <1>3, <1>4 DEF LInv

LEMMA LedgerStarts == LedgerInit => LInv
<1> SUFFICES ASSUME LedgerInit PROVE LInv
  OBVIOUS
<1>1. IsFiniteSet(ledger) /\ Cardinality(ledger) = 0
  BY FS_EmptySet DEF LedgerInit
<1>2. LedgerType /\ CallsSound /\ AcksApart
  BY IdleIsSound DEF LedgerInit, LedgerType, CallsSound, AcksApart
<1>3. LedgerIsChain
  BY <1>1, LedgerAssumption DEF LedgerInit, LedgerIsChain
<1>4. ReleaseIsVersion /\ NumbersApart
  BY DEF LedgerInit, ReleaseIsVersion, NumbersApart
<1> QED
  BY <1>1, <1>2, <1>3, <1>4 DEF LInv

LEMMA LedgerSteps == LInv /\ [LedgerNext]_ledgerVars => LInv'
<1> SUFFICES ASSUME LInv, [LedgerNext]_ledgerVars PROVE LInv'
  OBVIOUS
<1>1. CASE Decide
  BY <1>1, DecideKeepsInv
<1>2. ASSUME NEW c \in LedgerCalls, LedgerStep(c) PROVE LInv'
  <2>1. CASE LedgerFault(c)
    BY <2>1, IdleIsSound, OwnStep DEF LedgerFault, Done
  <2> QED
    BY <1>2, <2>1, AmendSteps, InsertSteps, ReleaseReads, ReleaseStores, AckReads, AckWrites
    DEF LedgerStep
<1>3. CASE UNCHANGED ledgerVars
  <2>1. LedgerType' /\ CallsSound' /\ AcksApart'
    BY <1>3 DEF ledgerVars, LInv, LedgerType, CallsSound, CallSound, AcksApart, UpTo
  <2>2. LedgerIsChain' /\ ReleaseIsVersion' /\ NumbersApart' /\ IsFiniteSet(ledger)'
    BY <1>3 DEF ledgerVars, LInv, LedgerIsChain, ReleaseIsVersion, NumbersApart, UpTo
  <2> QED
    BY <2>1, <2>2 DEF LInv
<1> QED
  BY <1>1, <1>2, <1>3 DEF LedgerNext
-----------------------------------------------------------------------------
(* Theorems.                                                               *)

LEMMA LedgerInvariance == LedgerSpec => []LInv
BY LedgerStarts, LedgerSteps, PTL DEF LedgerSpec

\* The rows of a run, its releases and its requests keep their shape.
THEOREM LedgerTyped == LedgerSpec => []LedgerType
<1>1. LInv => LedgerType
  BY DEF LInv
<1> QED
  BY <1>1, LedgerInvariance, PTL

\* However many requests append at the same time, and wherever they fail, the
\* amendments of a run are a chain: the index on their number is enough for
\* the grade each replaces too, which is not under any index.
THEOREM AmendmentsAreChain == LedgerSpec => []LedgerIsChain
<1>1. LInv => LedgerIsChain
  BY DEF LInv
<1> QED
  BY <1>1, LedgerInvariance, PTL

\* A release carries the grade of the version it is keyed by.
THEOREM ReleasesAreVersions == LedgerSpec => []ReleaseIsVersion
<1>1. LInv => ReleaseIsVersion
  BY DEF LInv
<1> QED
  BY <1>1, LedgerInvariance, PTL

\* A confirmed amendment is never undone, a release's grade never changed.
THEOREM LedgerIsAppended == LedgerSpec => LedgerAppends
<1> DEFINE Kept == /\ promised \subseteq ledger'
                   /\ \A row \in outbox : \E new \in outbox' :
                         new.version = row.version /\ new.grade = row.grade
<1>1. LInv /\ [LedgerNext]_ledgerVars => [Kept]_ledgerVars
  <2> SUFFICES ASSUME LInv, LedgerNext PROVE Kept
    OBVIOUS
  <2>1. ledger \subseteq ledger'
    BY DEF LedgerNext, LedgerStep, Decide, AmendBegin, AmendRead, AmendInsert, AmendAnswerLost,
           ReleaseBegin, ReleaseRead, ReleaseInsert, AckRead, AckWrite, LedgerFault
  <2>2. CASE \E c \in LedgerCalls : AckWrite(c)
    <3>1. PICK c \in LedgerCalls : AckWrite(c)
      BY <2>2
    <3>2. \A row \in outbox : row \in Releases
      BY DEF LInv, LedgerType
    <3>3. ASSUME NEW row \in outbox
          PROVE  \E new \in outbox' : new.version = row.version /\ new.grade = row.grade
      <4> DEFINE new == IF row.version = ledgerCall[c].no
                        THEN [row EXCEPT !.status = ledgerCall[c].status] ELSE row
      <4>1. new \in outbox'
        BY <3>1 DEF AckWrite
      <4>2. new.version = row.version /\ new.grade = row.grade
        BY <3>2 DEF Releases
      <4> QED
        BY <4>1, <4>2
    <3> QED
      BY <2>1, <3>3 DEF LInv, LedgerIsChain
  <2>3. CASE ~\E c \in LedgerCalls : AckWrite(c)
    <3>1. outbox \subseteq outbox'
      BY <2>3 DEF LedgerNext, LedgerStep, Decide, AmendBegin, AmendRead, AmendInsert,
             AmendAnswerLost, ReleaseBegin, ReleaseRead, ReleaseInsert, AckRead, LedgerFault
    <3> QED
      BY <2>1, <3>1 DEF LInv, LedgerIsChain
  <2> QED
    BY <2>2, <2>3
<1> QED
  BY <1>1, LedgerInvariance, PTL DEF LedgerSpec, LedgerAppends

\* What the book shows of a step that leaves rows and releases as they are.
LEMMA NothingShown ==
    ASSUME UNCHANGED <<ratified, ledger>>, Sent' = Sent
    PROVE  UNCHANGED <<ratified, Cardinality(ledger), GradeOfVersion, Sent>>
<1>1. GradeOfVersion' = GradeOfVersion
  BY DEF GradeOfVersion, UpTo
<1> QED
  BY <1>1

\* An insert that the index lets pass amends the book, whatever was appended
\* between the request's read and its write.
LEMMA InsertAmends ==
    ASSUME LInv, NEW c \in LedgerCalls, AmendInsert(c) \/ AmendAnswerLost(c),
           ~NumberTaken(ledgerCall[c].no)
    PROVE  Promise!Next
<1>1. PICK me \in LedgerCallType : me = ledgerCall[c]
  BY DEF LInv, LedgerType
<1>2. PICK n \in Nat : n = Cardinality(ledger)
  BY CountIsNat DEF LInv
<1>3. /\ me.pc = "insert" /\ UNCHANGED <<ratified, outbox>>
      /\ ledger' = ledger \cup {Amendment(me)}
  BY <1>1 DEF AmendInsert, AmendAnswerLost
<1>4. /\ me.no = n + 1 /\ Cardinality(ledger') = n + 1
      /\ \A k \in 0..n : UpTo(k)' = UpTo(k)
      /\ EffectiveGrade(UpTo(n + 1)') = Rounded[me.asked]
  <2>1. ledger' = ledger \cup {Amendment(ledgerCall[c])}
    BY DEF AmendInsert, AmendAnswerLost
  <2>2. /\ ledgerCall[c].no = Cardinality(ledger) + 1
        /\ Cardinality(ledger') = Cardinality(ledger) + 1
        /\ \A k \in 0..Cardinality(ledger) : UpTo(k)' = UpTo(k)
        /\ \A k \in Nat : k = Cardinality(ledger) + 1 =>
                 EffectiveGrade(UpTo(k)') = Rounded[ledgerCall[c].asked]
    BY <1>1, <1>3, <2>1, AppendNumbers
  <2> QED
    BY <1>1, <1>2, <2>2
<1>5. /\ me.asked \in Asked /\ ~SameNumber(me.old, me.asked) /\ me.no <= MaxAmendments
      /\ me.old = EffectiveGrade(UpTo(me.no - 1))
  BY <1>1, <1>3, LedgerAssumption DEF LInv, CallsSound, CallSound
<1>6. n < MaxAmendments /\ ~SameNumber(GradeOfVersion[n], me.asked)
  <2>1. me.no - 1 = n /\ n \in 0..n
    BY <1>2, <1>4
  <2>2. GradeOfVersion[n] = EffectiveGrade(UpTo(n))
    BY <1>2, <2>1 DEF GradeOfVersion
  <2> QED
    BY <1>2, <1>4, <1>5, <2>1, <2>2, LedgerAssumption
<1>7. GradeOfVersion' = [v \in 0..n + 1 |-> IF v = n + 1 THEN Rounded[me.asked] ELSE GradeOfVersion[v]]
  <2>1. GradeOfVersion' = [v \in 0..n + 1 |-> EffectiveGrade(UpTo(v)')]
    BY <1>4 DEF GradeOfVersion, EffectiveGrade
  <2>2. ASSUME NEW v \in 0..n + 1
        PROVE  EffectiveGrade(UpTo(v)') = IF v = n + 1 THEN Rounded[me.asked] ELSE GradeOfVersion[v]
    <3>1. CASE v = n + 1
      BY <1>4, <3>1
    <3>2. CASE v # n + 1
      <4>1. v \in 0..n
        BY <1>2, <3>2
      <4>2. GradeOfVersion[v] = EffectiveGrade(UpTo(v)) /\ UpTo(v)' = UpTo(v)
        BY <1>2, <1>4, <4>1 DEF GradeOfVersion
      <4> QED
        BY <3>2, <4>2
    <3> QED
      BY <3>1, <3>2
  <2> QED
    BY <2>1, <2>2
<1>8. Sent' = Sent
  BY <1>3 DEF Sent
<1> QED
  <2>1. Promise!Amend(me.asked)
    BY <1>2, <1>3, <1>4, <1>6, <1>7, <1>8 DEF Promise!Amend, Promise!SameNumber, SameNumber
  <2> QED
    BY <1>5, <2>1 DEF Promise!Next

\* A release that is stored sends the version it read.
LEMMA ReleaseSends ==
    ASSUME LInv, NEW c \in LedgerCalls, ReleaseInsert(c)
    PROVE  Promise!Next \/ UNCHANGED <<ratified, Cardinality(ledger), GradeOfVersion, Sent>>
<1>1. PICK me \in LedgerCallType : me = ledgerCall[c] /\ me.pc = "enqueue"
  BY DEF LInv, LedgerType, ReleaseInsert
<1>2. PICK n \in Nat : n = Cardinality(ledger)
  BY CountIsNat DEF LInv
<1>3. /\ me.no \in 0..n /\ me.grade = EffectiveGrade(UpTo(me.no)) /\ ratified = "ratified"
  <2>1. CallSound(me)
    BY <1>1 DEF LInv, CallsSound
  <2> QED
    BY <1>1, <1>2, <2>1 DEF CallSound, LedgerCallType
<1>4. UNCHANGED <<ratified, ledger>>
  BY DEF ReleaseInsert
<1>5. CASE KeyTaken(me.no)
  <2>1. Sent' = Sent
    BY <1>1, <1>5 DEF ReleaseInsert, Sent
  <2> QED
    BY <1>4, <2>1, NothingShown
<1>6. CASE ~KeyTaken(me.no)
  <2>1. \A release \in Sent : release.version # me.no
    BY <1>6 DEF KeyTaken, Sent
  <2>2. GradeOfVersion[me.no] = me.grade
    BY <1>2, <1>3 DEF GradeOfVersion
  <2>3. PICK row : row = [version |-> me.no, grade |-> Payload(me.grade), status |-> "pending"]
    OBVIOUS
  <2>4. row.version = me.no /\ row.grade = Payload(me.grade) /\ outbox' = outbox \cup {row}
    BY <1>1, <1>6, <2>3 DEF ReleaseInsert
  <2>5. Sent' = Sent \cup {[version |-> me.no, grade |-> Payload(GradeOfVersion[me.no])]}
    <3>1. Sent' = {[version |-> r.version, grade |-> r.grade] : r \in outbox \cup {row}}
      BY <2>4 DEF Sent
    <3> QED
      BY <2>2, <2>4, <3>1 DEF Sent
  <2>6. UNCHANGED <<ratified, Cardinality(ledger), GradeOfVersion>>
    BY <1>4 DEF GradeOfVersion, UpTo
  <2> QED
    <3>1. Promise!Send(me.no)
      BY <1>3, <2>1, <2>5, <2>6 DEF Promise!Send, Promise!Payload, Payload
    <3> QED
      BY <1>2, <1>3, <3>1 DEF Promise!Next
<1> QED
  BY <1>5, <1>6

\* An acknowledgement changes no more than the status of a release.
LEMMA AckShowsNothing ==
    ASSUME LInv, NEW c \in LedgerCalls, AckWrite(c)
    PROVE  Sent' = Sent
<1>1. PICK me : me = ledgerCall[c]
  OBVIOUS
<1> DEFINE after(row) == IF row.version = me.no THEN [row EXCEPT !.status = me.status] ELSE row
           shown(row) == [version |-> row.version, grade |-> row.grade]
<1>2. outbox' = {after(row) : row \in outbox}
  BY <1>1 DEF AckWrite
<1>3. \A row \in outbox : shown(after(row)) = shown(row)
  BY DEF LInv, LedgerType, Releases
<1>4. Sent = {shown(row) : row \in outbox} /\ Sent' = {shown(row) : row \in outbox'}
  BY DEF Sent
<1> HIDE DEF after, shown
<1> QED
  BY <1>2, <1>3, <1>4

\* Requests that read, compute and write in separate calls, fail anywhere and
\* overtake one another, change the book in single steps: the decision once, one
\* amendment at a time to another number than the grade that counts, each version
\* sent at most once and after ratification.
THEOREM LedgerRefinesBook == LedgerSpec => ImplementsGradeBook
<1>1. LedgerInit => Promise!Init
  <2> SUFFICES ASSUME LedgerInit PROVE Promise!Init
    OBVIOUS
  <2>1. ledger = {} /\ outbox = {} /\ ratified = "none" /\ Cardinality(ledger) = 0
    BY FS_EmptySet DEF LedgerInit
  <2>2. Sent = {} /\ UpTo(0) = {}
    BY <2>1 DEF Sent, UpTo
  <2>3. EffectiveGrade(UpTo(0)) = RunGrade
    BY <2>2 DEF EffectiveGrade
  <2>4. GradeOfVersion = [v \in 0..0 |-> RunGrade]
    <3>1. \A v \in 0..0 : v = 0
      OBVIOUS
    <3> QED
      BY <2>1, <2>3, <3>1 DEF GradeOfVersion
  <2> QED
    BY <2>1, <2>2, <2>4 DEF Promise!Init
<1>2. LInv /\ [LedgerNext]_ledgerVars =>
        [Promise!Next]_<<ratified, Cardinality(ledger), GradeOfVersion, Sent>>
  <2> SUFFICES ASSUME LInv, [LedgerNext]_ledgerVars
               PROVE  Promise!Next \/ UNCHANGED <<ratified, Cardinality(ledger), GradeOfVersion, Sent>>
    OBVIOUS
  <2>1. CASE Decide
    <3>1. UNCHANGED <<Cardinality(ledger), GradeOfVersion, Sent>>
      BY <2>1 DEF Decide, GradeOfVersion, UpTo, Sent
    <3> QED
      BY <2>1, <3>1 DEF Decide, Promise!Next, Promise!Decide
  <2>2. ASSUME NEW c \in LedgerCalls, AmendInsert(c) \/ AmendAnswerLost(c)
        PROVE  Promise!Next \/ UNCHANGED <<ratified, Cardinality(ledger), GradeOfVersion, Sent>>
    <3>1. CASE ~NumberTaken(ledgerCall[c].no)
      BY <2>2, <3>1, InsertAmends
    <3>2. CASE NumberTaken(ledgerCall[c].no)
      <4>1. UNCHANGED <<ratified, ledger, outbox>>
        BY <2>2, <3>2 DEF AmendInsert, AmendAnswerLost
      <4>2. Sent' = Sent
        BY <4>1 DEF Sent
      <4> QED
        BY <4>1, <4>2, NothingShown
    <3> QED
      BY <3>1, <3>2
  <2>3. ASSUME NEW c \in LedgerCalls, AckWrite(c)
        PROVE  UNCHANGED <<ratified, Cardinality(ledger), GradeOfVersion, Sent>>
    <3>1. UNCHANGED <<ratified, ledger>> /\ Sent' = Sent
      BY <2>3, AckShowsNothing DEF AckWrite
    <3> QED
      BY <3>1, NothingShown
  <2>4. ASSUME UNCHANGED <<ratified, ledger, outbox>>
        PROVE  UNCHANGED <<ratified, Cardinality(ledger), GradeOfVersion, Sent>>
    <3>1. Sent' = Sent
      BY <2>4 DEF Sent
    <3> QED
      BY <2>4, <3>1, NothingShown
  <2>5. ASSUME NEW c \in LedgerCalls,
               \/ AmendBegin(c) \/ AmendRead(c) \/ ReleaseBegin(c) \/ ReleaseRead(c)
               \/ AckRead(c) \/ LedgerFault(c)
        PROVE  UNCHANGED <<ratified, ledger, outbox>>
    BY <2>5 DEF AmendBegin, AmendRead, ReleaseBegin, ReleaseRead, AckRead, LedgerFault
  <2>6. CASE UNCHANGED ledgerVars
    BY <2>4, <2>6 DEF ledgerVars
  <2> QED
    BY <2>1, <2>2, <2>3, <2>4, <2>5, <2>6, ReleaseSends DEF LedgerNext, LedgerStep
<1> QED
  BY <1>1, <1>2, LedgerInvariance, PTL DEF LedgerSpec, ImplementsGradeBook, Promise!Spec

\* The read that turns an acknowledgement of a reconciled release away is
\* enough as long as no two acknowledgements of one release overlap.
THEOREM ReconciledIsFinal == LedgerSpec => ReconciledFinal
<1> DEFINE Kept == \A row \in outbox : (row.status = "reconciled" /\ ~overlapped) => row \in outbox'
<1>1. LInv /\ [LedgerNext]_ledgerVars => [Kept]_ledgerVars
  <2> SUFFICES ASSUME LInv, LedgerNext PROVE Kept
    OBVIOUS
  <2>1. CASE \E c \in LedgerCalls : AckWrite(c)
    <3>1. PICK c \in LedgerCalls : AckWrite(c)
      BY <2>1
    <3>2. ASSUME NEW row \in outbox, row.status = "reconciled", ~overlapped
          PROVE  row \in outbox'
      <4>1. row.version # ledgerCall[c].no
        BY <3>1, <3>2 DEF LInv, AcksApart, AckWrite
      <4> QED
        BY <3>1, <4>1 DEF AckWrite
    <3> QED
      BY <3>2
  <2>2. CASE ~\E c \in LedgerCalls : AckWrite(c)
    BY <2>2 DEF LedgerNext, LedgerStep, Decide, AmendBegin, AmendRead, AmendInsert,
           AmendAnswerLost, ReleaseBegin, ReleaseRead, ReleaseInsert, AckRead, LedgerFault
  <2> QED
    BY <2>1, <2>2
<1> QED
  BY <1>1, LedgerInvariance, PTL DEF LedgerSpec, ReconciledFinal
-----------------------------------------------------------------------------
(* EmailQueue: the inductive invariant.                                    *)

StoredJobs == {e \in Mails : job[e].status # "none"}

\* A tick has to do with stored jobs; past the call of the provider it retries
\* only what may be tried once more.
TickSound(me) ==
    /\ me.todo \subseteq StoredJobs /\ me.recover \subseteq StoredJobs
    /\ me.at \in StoredJobs \cup {NoMail}
    /\ me.pc \notin {"idle", "recover", "next"} => me.at \in Mails
    /\ me.pc \in {"requeue", "count"} => me.attempts[me.at] + 1 < MaxAttempts

TicksSound == \A w \in Workers : TickSound(worker[w])

Asking(e) == enqueuing[e] \in {"key", "mark", "store"}
Passed(e) == enqueuing[e] \in {"store", "stored"}

\* What an enqueue has come to, as long as nothing fails.
EnqueuesSound ==
    /\ \A e \in Mails :
          /\ enqueuing[e] # "failed"
          /\ job[e].status # "none" <=> enqueuing[e] = "stored"
          /\ enqueuing[e] \in {"key", "mark", "duplicate"} => Key[e] # NoKey
          /\ enqueuing[e] = "duplicate" \/ (Passed(e) /\ Key[e] # NoKey) => Key[e] \in keys
    /\ \A k \in keys : k # NoKey /\ \E e \in Mails : Key[e] = k /\ Passed(e)

\* Of two enqueues of a key one at most is under way, and one at most has passed.
KeysApart ==
    \A e \in Mails :
        /\ enqueuing[e] = "mark" => Key[e] \notin keys
        /\ \A other \in SameKey(e) : ~(Asking(e) /\ Asking(other)) /\ ~(Passed(e) /\ Passed(other))

\* The states of a job: not stored; tried as often as it counts, and to be tried
\* again; settled.
Unstored(e) == job[e].status = "none" /\ job[e].attempts = 0 /\ sends[e] = 0 /\ thrown[e] = 0

Tried(e, n) == sends[e] = n /\ thrown[e] = n /\ n < MaxAttempts

Waiting(e) == job[e].status = "queued" /\ Tried(e, job[e].attempts)

Once(e) == sends[e] <= 1 + thrown[e] /\ sends[e] <= MaxAttempts

Settled(e) == job[e].status \in {"sent", "deadletter"} /\ Once(e)

\* The job a tick has at hand, by what the tick does next.
AtHand(me, e) ==
    /\ me.pc # "backoff" => me.attempts[e] = job[e].attempts
    /\ job[e].status \in {"queued", "processing"}
    /\ me.pc = "lease" => Waiting(e)
    /\ me.pc \in {"leased", "resolve", "send"} => Tried(e, job[e].attempts)
    /\ me.pc \in {"sent", "dead"} => Once(e)
    /\ me.pc \in {"requeue", "count"} => Tried(e, job[e].attempts + 1)
    /\ me.pc = "count" => job[e].status = "queued"
    /\ me.pc = "backoff" => Waiting(e)

\* A tick that runs alone has nothing to recover; what it has to do is waiting.
Working(me) ==
    /\ me.recover = {} /\ me.pc # "recovered" /\ me.at \notin me.todo
    /\ me.at # NoMail => me.at \in Mails /\ AtHand(me, me.at)
    /\ me.pc \in {"recover", "next"} <=> me.at = NoMail
    /\ \A e \in me.todo : Waiting(e) /\ me.attempts[e] = job[e].attempts

OneTick ==
    /\ \A w, v \in Workers : Busy(w) /\ Busy(v) => w = v
    /\ \A w \in Workers : Busy(w) => Working(worker[w])

JobsSound ==
    \A e \in Mails :
        Unstored(e) \/ Waiting(e) \/ Settled(e) \/ \E w \in Workers : Busy(w) /\ worker[w].at = e

MailInv ==
    /\ EmailType
    /\ TicksSound
    /\ mishaps = 0 =>
          EnqueuesSound /\ (~together => KeysApart /\ OneTick /\ JobsSound)
-----------------------------------------------------------------------------
LEMMA MailInvInit == EmailInit => MailInv
<1> SUFFICES ASSUME EmailInit PROVE MailInv
  OBVIOUS
<1>1. EmailType
  <2>1. 0 \in 0..MaxAttempts /\ 0 \in 0..MaxMishaps
    BY EmailAssumption
  <2>2. NoJob \in Jobs
    BY <2>1 DEF NoJob, Jobs, JobStatuses
  <2>3. IdleTick \in
            [pc : {"idle", "recover", "recovered", "next", "lease", "leased", "resolve", "send",
                   "sent", "dead", "requeue", "count", "backoff"},
             todo : SUBSET Mails, recover : SUBSET Mails, expired : SUBSET Mails,
             attempts : [Mails -> 0..MaxAttempts], at : Mails \cup {NoMail}]
    BY <2>1 DEF IdleTick
  <2> QED
    BY <2>1, <2>2, <2>3 DEF EmailInit, EmailType
<1>2. TicksSound
  BY DEF EmailInit, IdleTick, TicksSound, TickSound
<1>3. EnqueuesSound /\ KeysApart
  BY DEF EmailInit, EnqueuesSound, KeysApart, NoJob, Passed, Asking
<1>4. OneTick /\ JobsSound
  BY DEF EmailInit, OneTick, JobsSound, Busy, IdleTick, NoJob, Unstored
<1> QED
  BY <1>1, <1>2, <1>3, <1>4 DEF MailInv

\* A failed call, or a worker's death, is counted.
LEMMA MishapsCounted ==
    ASSUME EmailType
    PROVE  /\ Smooth => mishaps' \in 0..MaxMishaps /\ (mishaps' = 0 <=> mishaps = 0)
           /\ Mishap => mishaps' \in 0..MaxMishaps /\ mishaps' # 0
BY EmailAssumption DEF EmailType, Smooth, Mishap

\* What enqueues have come to depends on them, on the keys and on which jobs are stored.
LEMMA EnqueuesStay ==
    ASSUME EnqueuesSound, UNCHANGED <<enqueuing, keys>>,
           \A e \in Mails : job'[e].status = "none" <=> job[e].status = "none"
    PROVE  EnqueuesSound' /\ (KeysApart => KeysApart')
<1>1. EnqueuesSound'
  BY DEF EnqueuesSound, Passed
<1>2. KeysApart => KeysApart'
  BY DEF KeysApart, Asking, Passed, SameKey
<1> QED
  BY <1>1, <1>2

\* A stored job stays stored.
LEMMA TicksStay ==
    ASSUME TicksSound, \A e \in Mails : job[e].status # "none" => job'[e].status # "none",
           \A w \in Workers : worker'[w] = worker[w] \/ TickSound(worker[w])'
    PROVE  TicksSound'
<1>1. StoredJobs \subseteq StoredJobs'
  BY DEF StoredJobs
<1>2. ASSUME NEW w \in Workers, worker'[w] = worker[w] PROVE TickSound(worker[w])'
  <2>1. PICK me : me = worker[w] /\ me = worker'[w]
    BY <1>2
  <2>2. TickSound(me)
    BY <2>1 DEF TicksSound
  <2> QED
    BY <1>1, <2>1, <2>2 DEF TickSound
<1> QED
  BY <1>2 DEF TicksSound

\* A step that leaves every job's status and count as they are.
LEMMA JobsAlike ==
    ASSUME EmailType, OneTick, JobsSound, UNCHANGED <<worker, sends, thrown>>,
           \A e \in Mails : job'[e].status = job[e].status /\ job'[e].attempts = job[e].attempts
    PROVE  OneTick' /\ JobsSound'
<1>1. \A e \in Mails : /\ Unstored(e) => Unstored(e)'
                       /\ Waiting(e) => Waiting(e)'
                       /\ Settled(e) => Settled(e)'
  BY DEF Unstored, Waiting, Settled, Tried, Once
<1>2. ASSUME NEW w \in Workers, Busy(w) PROVE Working(worker[w])'
  <2>1. PICK me : me = worker[w] /\ me = worker'[w]
    OBVIOUS
  <2>2. Working(me)
    BY <1>2, <2>1 DEF OneTick
  <2>3. me.todo \subseteq Mails
    BY <2>1 DEF EmailType
  <2> QED
    BY <1>1, <2>1, <2>2, <2>3 DEF Working, AtHand, Tried, Once
<1> QED
  BY <1>1, <1>2 DEF OneTick, JobsSound, Busy

\* A job with another status is a job.
LEMMA StatusTyped ==
    ASSUME EmailType, NEW e \in Mails, NEW s \in JobStatuses
    PROVE  /\ [job[e] EXCEPT !.status = s] \in Jobs
           /\ [job[e] EXCEPT !.status = s].status = s
           /\ [job[e] EXCEPT !.status = s].attempts = job[e].attempts
<1>1. job[e] \in Jobs
  BY DEF EmailType
<1> QED
  BY <1>1 DEF Jobs

TickRecords ==
    [pc : {"idle", "recover", "recovered", "next", "lease", "leased", "resolve", "send",
           "sent", "dead", "requeue", "count", "backoff"},
     todo : SUBSET Mails, recover : SUBSET Mails, expired : SUBSET Mails,
     attempts : [Mails -> 0..MaxAttempts], at : Mails \cup {NoMail}]

\* A tick's step replaces the tick's record.
LEMMA TickStepTyped ==
    ASSUME MailInv, NEW w \in Workers, NEW me \in TickRecords, TickSound(me)',
           worker' = [worker EXCEPT ![w] = me],
           job' \in [Mails -> Jobs], mishaps' \in 0..MaxMishaps,
           \A e \in Mails : job[e].status # "none" => job'[e].status # "none",
           sends' \in [Mails -> Nat], thrown' \in [Mails -> Nat], together' \in BOOLEAN,
           cut' \subseteq Mails, UNCHANGED <<keys, expired, enqueuing>>
    PROVE  EmailType' /\ TicksSound' /\ \A v \in Workers : worker'[v] = IF v = w THEN me ELSE worker[v]
<1>1. worker \in [Workers -> TickRecords]
  BY DEF MailInv, EmailType, TickRecords
<1>2. worker' \in [Workers -> TickRecords]
      /\ \A v \in Workers : worker'[v] = IF v = w THEN me ELSE worker[v]
  BY <1>1
<1>3. EmailType'
  BY <1>2 DEF MailInv, EmailType, TickRecords
<1>4. TicksSound'
  BY <1>2, TicksStay DEF MailInv
<1> QED
  BY <1>2, <1>3, <1>4

LEMMA IdleIsRecord == IdleTick \in TickRecords
<1>1. 0 \in 0..MaxAttempts
  BY EmailAssumption
<1> QED
  BY <1>1 DEF IdleTick, TickRecords

LEMMA TicksAreRecords == EmailType => worker \in [Workers -> TickRecords]
BY DEF EmailType, TickRecords

LEMMA WriteTyped ==
    ASSUME EmailType, NEW e \in Mails, NEW new \in Jobs, Write(e, new)
    PROVE  /\ job' \in [Mails -> Jobs] /\ mishaps' \in 0..MaxMishaps
           /\ mishaps' = 0 => mishaps = 0 /\ job' = [job EXCEPT ![e] = new]
<1>1. [job EXCEPT ![e] = new] \in [Mails -> Jobs] /\ job \in [Mails -> Jobs]
  BY DEF EmailType
<1> QED
  BY <1>1, MishapsCounted DEF Write

\* A write to a job that leaves its status.
LEMMA JobWritten ==
    ASSUME EmailType, NEW e \in Mails, NEW new \in Jobs, Write(e, new), new.status = job[e].status
    PROVE  /\ job' \in [Mails -> Jobs] /\ mishaps' \in 0..MaxMishaps
           /\ mishaps' = 0 => mishaps = 0 /\ job'[e].attempts = new.attempts
           /\ job'[e].status = job[e].status
           /\ \A o \in Mails \ {e} : job'[o] = job[o]
<1>1. /\ job' \in [Mails -> Jobs] /\ mishaps' \in 0..MaxMishaps
      /\ mishaps' = 0 => mishaps = 0 /\ job' = [job EXCEPT ![e] = new]
  BY WriteTyped
<1>2. job \in [Mails -> Jobs] /\ job' \in {job, [job EXCEPT ![e] = new]}
  BY DEF Write, EmailType
<1> QED
  BY <1>1, <1>2

LEMMA DueTyped ==
    ASSUME EmailType, NEW e \in Mails, NEW due \in BOOLEAN
    PROVE  \E new \in Jobs : /\ new = [job[e] EXCEPT !.due = due]
                             /\ new.status = job[e].status /\ new.attempts = job[e].attempts
<1>1. job[e] \in Jobs
  BY DEF EmailType
<1>2. /\ [job[e] EXCEPT !.due = due] \in Jobs
      /\ [job[e] EXCEPT !.due = due].status = job[e].status
      /\ [job[e] EXCEPT !.due = due].attempts = job[e].attempts
  BY <1>1 DEF Jobs
<1> QED
  BY <1>2

\* A step of a tick that runs alone, for the job it has at hand.
LEMMA TickGoesOn ==
    ASSUME EmailType, OneTick, JobsSound, NEW w \in Workers, Busy(w),
           NEW e \in Mails, worker[w].at = e,
           NEW me, worker' = [worker EXCEPT ![w] = me],
           me.recover = worker[w].recover, me.todo = worker[w].todo,
           me.attempts = worker[w].attempts,
           \/ me.at = e /\ me.pc \notin {"idle", "recover", "recovered", "next"} /\ AtHand(me, e)'
           \/ me.at = NoMail /\ me.pc = "next" /\ (Waiting(e) \/ Settled(e))',
           \A o \in Mails \ {e} : job'[o] = job[o] /\ sends'[o] = sends[o] /\ thrown'[o] = thrown[o]
    PROVE  OneTick' /\ JobsSound'
<1>1. \A o \in Mails \ {e} : /\ Unstored(o) => Unstored(o)'
                             /\ Waiting(o) => Waiting(o)'
                             /\ Settled(o) => Settled(o)'
  BY DEF Unstored, Waiting, Settled, Tried, Once
<1>2. /\ \A v \in Workers : worker'[v] = IF v = w THEN me ELSE worker[v]
      /\ \A v \in Workers : Busy(v)' <=> v = w
      /\ e # NoMail
  BY EmailAssumption DEF EmailType, OneTick, Busy
<1>3. Working(worker[w]) /\ worker[w].todo \subseteq Mails
  BY DEF OneTick, EmailType
<1>4. Working(me)'
  <2>1. \A o \in me.todo : o # e /\ Waiting(o)' /\ me.attempts[o] = job'[o].attempts
    BY <1>1, <1>3 DEF Working
  <2>2. me.recover = {} /\ me.at \notin me.todo
    BY <1>2, <1>3, EmailAssumption DEF Working
  <2> QED
    BY <1>2, <2>1, <2>2 DEF Working
<1>5. OneTick'
  BY <1>2, <1>4 DEF OneTick
<1>6. ASSUME NEW o \in Mails
      PROVE  (Unstored(o) \/ Waiting(o) \/ Settled(o))' \/ \E v \in Workers : Busy(v)' /\ worker'[v].at = o
  <2>1. CASE o = e
    BY <1>2, <2>1
  <2>2. CASE o # e
    BY <1>1, <1>2, <2>2 DEF JobsSound, OneTick
  <2> QED
    BY <2>1, <2>2
<1> QED
  BY <1>5, <1>6 DEF JobsSound
-----------------------------------------------------------------------------
(* Enqueues.                                                               *)

LEMMA EnqueueBeginKeeps ==
    ASSUME MailInv, NEW e \in Mails, EnqueueBegin(e)
    PROVE  MailInv'
<1>1. EmailType' /\ TicksSound'
  BY TicksStay DEF EnqueueBegin, MailInv, EmailType, jobVars
<1>2. ASSUME mishaps = 0 PROVE EnqueuesSound'
  BY <1>2 DEF EnqueueBegin, MailInv, EmailType, EnqueuesSound, Passed, jobVars
<1>3. ASSUME mishaps = 0, ~together' PROVE ~together /\ (KeysApart /\ OneTick /\ JobsSound)'
  <2>1. ~together /\ \A other \in SameKey(e) : ~Asking(other)
    BY <1>3 DEF EnqueueBegin, MailInv, EmailType, Asking
  <2>2. KeysApart'
    BY <1>3, <2>1 DEF EnqueueBegin, MailInv, EmailType, KeysApart, Asking, Passed, SameKey, jobVars
  <2>3. OneTick' /\ JobsSound'
    BY <1>3, <2>1, JobsAlike DEF EnqueueBegin, MailInv, jobVars
  <2> QED
    BY <2>1, <2>2, <2>3
<1> QED
  BY <1>1, <1>2, <1>3 DEF MailInv, EnqueueBegin

LEMMA EnqueueLookKeeps ==
    ASSUME MailInv, NEW e \in Mails, EnqueueLook(e)
    PROVE  MailInv'
<1>1. EmailType' /\ TicksSound'
  BY MishapsCounted, TicksStay DEF EnqueueLook, MailInv, EmailType, jobVars, emailHistory
<1>2. ASSUME mishaps' = 0
      PROVE  /\ mishaps = 0
             /\ enqueuing' = [enqueuing EXCEPT ![e] = IF Key[e] \in keys THEN "duplicate" ELSE "mark"]
  BY <1>2, MishapsCounted DEF EnqueueLook, MailInv
<1>3. ASSUME mishaps' = 0 PROVE EnqueuesSound'
  BY <1>2, <1>3 DEF EnqueueLook, MailInv, EmailType, EnqueuesSound, Passed, jobVars
<1>4. ASSUME mishaps' = 0, ~together' PROVE (KeysApart /\ OneTick /\ JobsSound)'
  <2>1. mishaps = 0 /\ ~together
    BY <1>2, <1>4 DEF EnqueueLook, emailHistory
  <2>2. KeysApart'
    BY <1>2, <1>4, <2>1 DEF EnqueueLook, MailInv, EmailType, KeysApart, Asking, Passed, SameKey, jobVars
  <2>3. OneTick' /\ JobsSound'
    BY <2>1, JobsAlike DEF EnqueueLook, MailInv, jobVars, emailHistory
  <2> QED
    BY <2>2, <2>3
<1> QED
  BY <1>1, <1>3, <1>4 DEF MailInv

LEMMA EnqueueMarkKeeps ==
    ASSUME MailInv, NEW e \in Mails, EnqueueMark(e)
    PROVE  MailInv'
<1>1. EmailType' /\ TicksSound'
  BY MishapsCounted, TicksStay DEF EnqueueMark, MailInv, EmailType, emailHistory
<1>2. ASSUME mishaps' = 0 PROVE mishaps = 0 /\ keys' = keys \cup {Key[e]}
  BY <1>2, MishapsCounted DEF EnqueueMark, MailInv
<1>3. ASSUME mishaps' = 0 PROVE EnqueuesSound'
  BY <1>2, <1>3 DEF EnqueueMark, MailInv, EmailType, EnqueuesSound, Passed
<1>4. ASSUME mishaps' = 0, ~together' PROVE (KeysApart /\ OneTick /\ JobsSound)'
  <2>1. mishaps = 0 /\ ~together
    BY <1>2, <1>4 DEF EnqueueMark, emailHistory
  <2>2. \A other \in SameKey(e) : ~Asking(other) /\ ~Passed(other)
    BY <2>1 DEF EnqueueMark, MailInv, EnqueuesSound, KeysApart, Asking, SameKey
  <2>3. KeysApart'
    BY <1>2, <1>4, <2>1, <2>2
       DEF EnqueueMark, MailInv, EmailType, EnqueuesSound, KeysApart, Asking, Passed, SameKey
  <2>4. OneTick' /\ JobsSound'
    BY <2>1, JobsAlike DEF EnqueueMark, MailInv, emailHistory
  <2> QED
    BY <2>3, <2>4
<1> QED
  BY <1>1, <1>3, <1>4 DEF MailInv

LEMMA EnqueueStoreKeeps ==
    ASSUME MailInv, NEW e \in Mails, EnqueueStore(e)
    PROVE  MailInv'
<1>1. [job EXCEPT ![e].status = "queued"] \in [Mails -> Jobs]
  BY StatusTyped DEF MailInv, EmailType, JobStatuses
<1>2. EmailType' /\ TicksSound'
  <2>1. job' \in [Mails -> Jobs] /\ mishaps' \in 0..MaxMishaps
    BY <1>1, MishapsCounted DEF EnqueueStore, MailInv, EmailType
  <2>2. /\ \/ enqueuing' = [enqueuing EXCEPT ![e] = "stored"]
           \/ enqueuing' = [enqueuing EXCEPT ![e] = "failed"]
        /\ UNCHANGED <<keys, expired, worker, sends, thrown, together, cut>>
    BY DEF EnqueueStore, emailHistory
  <2>3. EmailType'
    BY <2>1, <2>2 DEF MailInv, EmailType
  <2>4. \A o \in Mails : job[o].status # "none" => job'[o].status # "none"
    <3>1. job' = job \/ job' = [job EXCEPT ![e].status = "queued"]
      BY DEF EnqueueStore
    <3>2. job \in [Mails -> Jobs]
      BY DEF MailInv, EmailType
    <3>3. CASE job' = job
      BY <3>3
    <3>4. CASE job' = [job EXCEPT ![e].status = "queued"]
      <4> SUFFICES ASSUME NEW o \in Mails, job[o].status # "none"
                   PROVE  job'[o].status # "none"
        OBVIOUS
      <4>1. CASE o = e
        BY <3>2, <3>4, <4>1 DEF Jobs
      <4>2. CASE o # e
        BY <3>2, <3>4, <4>2
      <4> QED
        BY <4>1, <4>2
    <3> QED
      BY <3>1, <3>3, <3>4
  <2>5. TicksSound'
    BY <2>2, <2>4, TicksStay DEF MailInv
  <2> QED
    BY <2>3, <2>5
<1>3. ASSUME mishaps' = 0
      PROVE  /\ mishaps = 0
             /\ job' = [job EXCEPT ![e].status = "queued"]
             /\ enqueuing' = [enqueuing EXCEPT ![e] = "stored"]
  BY <1>3, MishapsCounted DEF EnqueueStore, MailInv
<1>4. ASSUME mishaps' = 0
      PROVE  \A o \in Mails : /\ enqueuing'[o] = IF o = e THEN "stored" ELSE enqueuing[o]
                              /\ o # e => job'[o] = job[o]
                              /\ job'[e].status = "queued" /\ job'[e].attempts = job[e].attempts
  BY <1>3, <1>4 DEF MailInv, EmailType, Jobs
<1>5. ASSUME mishaps' = 0 PROVE EnqueuesSound'
  <2>1. EnqueuesSound
    BY <1>3, <1>5 DEF MailInv
  <2> QED
    BY <1>4, <1>5, <2>1 DEF EnqueueStore, EnqueuesSound, Passed
<1>6. ASSUME mishaps' = 0, ~together' PROVE (KeysApart /\ OneTick /\ JobsSound)'
  <2>1. mishaps = 0 /\ ~together /\ UNCHANGED <<worker, sends, thrown, keys>>
    BY <1>3, <1>6 DEF EnqueueStore, emailHistory
  <2>2. job[e].status = "none"
    BY <2>1 DEF EnqueueStore, MailInv, EnqueuesSound
  <2>3. KeysApart'
    BY <1>4, <1>6, <2>1 DEF EnqueueStore, MailInv, KeysApart, Asking, Passed, SameKey
  <2>4. \A o \in Mails \ {e} : /\ Unstored(o) => Unstored(o)'
                               /\ Waiting(o) => Waiting(o)'
                               /\ Settled(o) => Settled(o)'
    BY <1>4, <1>6, <2>1 DEF Unstored, Waiting, Settled, Tried, Once
  <2>5. ASSUME NEW w \in Workers, Busy(w) PROVE Working(worker[w])' /\ worker[w].at # e
    <3>1. PICK me : me = worker[w] /\ me = worker'[w]
      BY <2>1
    <3>2. Working(me) /\ me.todo \subseteq Mails
      BY <2>1, <2>5, <3>1 DEF MailInv, OneTick, EmailType
    <3>3. e \notin me.todo /\ me.at # e
      BY <2>2, <3>2, EmailAssumption DEF Working, Waiting, AtHand
    <3>4. Working(me)'
      BY <1>4, <1>6, <2>1, <2>4, <3>2, <3>3 DEF Working, AtHand, Tried, Once
    <3> QED
      BY <3>1, <3>3, <3>4
  <2>6. OneTick'
    BY <2>1, <2>5 DEF MailInv, OneTick, Busy
  <2>7. Waiting(e)'
    <3>1. Unstored(e)
      BY <2>1, <2>2, <2>5 DEF MailInv, JobsSound, Waiting, Settled
    <3> QED
      BY <1>4, <1>6, <2>1, <3>1, EmailAssumption DEF Unstored, Waiting, Tried
  <2>8. JobsSound'
    BY <2>1, <2>4, <2>7 DEF MailInv, JobsSound, Busy
  <2> QED
    BY <2>3, <2>6, <2>8
<1> QED
  BY <1>2, <1>5, <1>6 DEF MailInv
-----------------------------------------------------------------------------
(* Time, and a tick's steps.                                               *)

LEMMA TimeKeeps ==
    ASSUME MailInv, NEW e \in Mails, TimeStep(e) \/ LinkExpires(e)
    PROVE  MailInv'
<1>1. /\ job' \in [Mails -> Jobs] /\ expired' \subseteq Resets
      /\ \A o \in Mails : job'[o].status = job[o].status /\ job'[o].attempts = job[o].attempts
  <2>1. CASE TimeStep(e)
    <3>1. job[e] \in Jobs /\ job \in [Mails -> Jobs]
      BY DEF MailInv, EmailType
    <3>2. [job[e] EXCEPT !.lease = "old"] \in Jobs /\ [job[e] EXCEPT !.due = TRUE] \in Jobs
      BY <3>1 DEF Jobs
    <3>3. PICK new \in Jobs : /\ job' = [job EXCEPT ![e] = new]
                              /\ new.status = job[e].status /\ new.attempts = job[e].attempts
      BY <2>1, <3>1, <3>2 DEF TimeStep, LeaseAges, BackoffEnds, Jobs
    <3> QED
      BY <2>1, <3>1, <3>3 DEF TimeStep, LeaseAges, BackoffEnds, MailInv, EmailType
  <2>2. CASE LinkExpires(e)
    BY <2>2 DEF LinkExpires, MailInv, EmailType
  <2> QED
    BY <2>1, <2>2
<1>2. UNCHANGED <<keys, enqueuing, worker, mishaps, sends, thrown, together, cut>>
  BY DEF TimeStep, LeaseAges, BackoffEnds, LinkExpires, emailHistory
<1>3. EmailType' /\ TicksSound'
  BY <1>1, <1>2, TicksStay DEF MailInv, EmailType
<1> QED
  BY <1>1, <1>2, <1>3, EnqueuesStay, JobsAlike DEF MailInv

LEMMA TickReadKeeps ==
    ASSUME MailInv, NEW w \in Workers, TickRead(w)
    PROVE  MailInv'
<1>1. PICK me : /\ me = [pc |-> "recover", recover |-> Stale, todo |-> Stale \cup Due,
                         expired |-> expired, attempts |-> [e \in Mails |-> job[e].attempts],
                         at |-> NoMail]
                /\ worker' = [worker EXCEPT ![w] = me]
  BY DEF TickRead
<1>2. UNCHANGED <<job, keys, expired, enqueuing, mishaps, sends, thrown, cut>>
  BY DEF TickRead, jobVars
<1>3. EmailType' /\ TicksSound' /\ \A v \in Workers : worker'[v] = IF v = w THEN me ELSE worker[v]
  <2>1. /\ \A e \in Mails : job[e].attempts \in 0..MaxAttempts
        /\ Stale \subseteq Mails /\ Due \subseteq Mails /\ expired \subseteq Mails
    BY EmailAssumption DEF MailInv, EmailType, Jobs, Stale, Due
  <2>2. me \in TickRecords
    BY <1>1, <2>1 DEF TickRecords
  <2>3. TickSound(me)'
    BY <1>1, <1>2 DEF TickSound, StoredJobs, Stale, Due
  <2>4. together' \in BOOLEAN
    BY DEF TickRead, MailInv, EmailType
  <2> QED
    BY <1>1, <1>2, <2>2, <2>3, <2>4, TickStepTyped DEF MailInv, EmailType
<1>5. ASSUME mishaps' = 0 PROVE EnqueuesSound' /\ (~together' => KeysApart')
  BY <1>2, <1>5, EnqueuesStay DEF MailInv, TickRead
<1>6. ASSUME mishaps' = 0, ~together' PROVE OneTick' /\ JobsSound'
  <2>1. OneTick /\ JobsSound /\ \A v \in Workers : ~Busy(v)
    BY <1>2, <1>6 DEF MailInv, TickRead
  <2>2. \A e \in Mails : Unstored(e) \/ Waiting(e) \/ Settled(e)
    BY <2>1 DEF JobsSound
  <2>3. Stale = {} /\ \A e \in Due : Waiting(e)
    BY <2>2 DEF Stale, Due, Unstored, Waiting, Settled
  <2>4. \A e \in Mails : /\ Unstored(e) => Unstored(e)'
                         /\ Waiting(e) => Waiting(e)'
                         /\ Settled(e) => Settled(e)'
    BY <1>2 DEF Unstored, Waiting, Settled, Tried, Once
  <2>5. Working(me)'
    BY <1>1, <1>2, <2>3, <2>4, EmailAssumption DEF Working, Due
  <2>6. OneTick'
    BY <1>3, <2>1, <2>5 DEF OneTick, Busy
  <2> QED
    BY <2>2, <2>4, <2>6 DEF JobsSound
<1> QED
  BY <1>2, <1>3, <1>5, <1>6 DEF MailInv

\* The status of a stored job is written.
LEMMA StatusWritten ==
    ASSUME EmailType, NEW e \in Mails, job[e].status # "none",
           NEW s \in JobStatuses \ {"none"}, Write(e, [job[e] EXCEPT !.status = s])
    PROVE  /\ job' \in [Mails -> Jobs] /\ mishaps' \in 0..MaxMishaps
           /\ job'[e].status # "none" /\ \A o \in Mails \ {e} : job'[o] = job[o]
           /\ mishaps' = 0 => /\ mishaps = 0
                              /\ job'[e].status = s /\ job'[e].attempts = job[e].attempts
<1>0. /\ [job[e] EXCEPT !.status = s] \in Jobs
      /\ [job[e] EXCEPT !.status = s].status = s
      /\ [job[e] EXCEPT !.status = s].attempts = job[e].attempts
  BY StatusTyped
<1>1. PICK new \in Jobs : /\ new = [job[e] EXCEPT !.status = s]
                          /\ new.status = s /\ new.attempts = job[e].attempts
  BY <1>0, Zenon
<1>2. Write(e, new) /\ job \in [Mails -> Jobs]
  BY <1>1 DEF EmailType
<1>3. job' \in {job, [job EXCEPT ![e] = new]}
  BY <1>2 DEF Write
<1>4. /\ job' \in [Mails -> Jobs] /\ mishaps' \in 0..MaxMishaps
      /\ mishaps' = 0 => mishaps = 0 /\ job' = [job EXCEPT ![e] = new]
  BY <1>2, WriteTyped
<1>5. job'[e].status # "none" /\ \A o \in Mails \ {e} : job'[o] = job[o]
  BY <1>1, <1>2, <1>3
<1>6. job' = [job EXCEPT ![e] = new] => job'[e].status = s /\ job'[e].attempts = job[e].attempts
  BY <1>1, <1>2
<1> QED
  BY <1>4, <1>5, <1>6

LEMMA AtHandFacts ==
    ASSUME MailInv, NEW w \in Workers, worker[w].pc \notin {"idle", "recover", "next"}
    PROVE  /\ Busy(w) /\ worker[w] \in TickRecords
           /\ worker[w].at \in Mails /\ job[worker[w].at].status # "none"
           /\ worker[w].pc \in {"requeue", "count"} =>
                 worker[w].attempts[worker[w].at] + 1 < MaxAttempts
BY TicksAreRecords, EmailAssumption DEF MailInv, TicksSound, TickSound, StoredJobs, Busy

\* What a tick does that does not run alone, to one job that stays stored.
LEMMA RecoveringKeeps ==
    ASSUME MailInv, NEW w \in Workers, NEW me \in TickRecords, TickSound(me)',
           worker' = [worker EXCEPT ![w] = me], NEW e \in Mails,
           job' \in [Mails -> Jobs], mishaps' \in 0..MaxMishaps, mishaps' = 0 => mishaps = 0,
           job[e].status # "none" /\ job'[e].status # "none",
           \A o \in Mails \ {e} : job'[o] = job[o],
           UNCHANGED <<keys, expired, enqueuing, sends, thrown, together, cut>>,
           ~(mishaps = 0 /\ ~together)
    PROVE  MailInv'
<1>1. \A o \in Mails : job'[o].status = "none" <=> job[o].status = "none"
  OBVIOUS
<1>2. EmailType' /\ TicksSound'
  BY <1>1, TickStepTyped DEF MailInv, EmailType
<1>3. ASSUME mishaps' = 0 PROVE EnqueuesSound'
  BY <1>1, <1>3, EnqueuesStay DEF MailInv
<1> QED
  BY <1>2, <1>3 DEF MailInv

\* A job returned to the queue: never by a tick that runs alone.
LEMMA TickRecoverKeeps ==
    ASSUME MailInv, NEW w \in Workers, TickRecover(w)
    PROVE  MailInv'
<1>1. UNCHANGED <<keys, expired, enqueuing, sends, thrown, together, cut>>
  BY DEF TickRecover, emailHistory
<1>2. CASE \E e \in worker[w].recover :
              /\ Write(e, [job[e] EXCEPT !.status = "queued"])
              /\ worker' = [worker EXCEPT ![w].pc = "recovered", ![w].recover = @ \ {e}, ![w].at = e]
  <2>1. PICK e \in Mails : /\ e \in worker[w].recover
                           /\ Write(e, [job[e] EXCEPT !.status = "queued"])
                           /\ worker' = [worker EXCEPT ![w].pc = "recovered",
                                                       ![w].recover = @ \ {e}, ![w].at = e]
    BY <1>2 DEF MailInv, EmailType
  <2>2. job[e].status # "none"
    BY <2>1 DEF MailInv, TicksSound, TickSound, StoredJobs
  <2>3. /\ job' \in [Mails -> Jobs] /\ mishaps' \in 0..MaxMishaps
        /\ job'[e].status # "none" /\ \A o \in Mails \ {e} : job'[o] = job[o]
        /\ mishaps' = 0 => mishaps = 0
    BY <2>1, <2>2, StatusWritten DEF MailInv, JobStatuses
  <2>4. PICK me : me = [worker[w] EXCEPT !.pc = "recovered", !.recover = @ \ {e}, !.at = e]
    OBVIOUS
  <2>5. worker' = [worker EXCEPT ![w] = me]
    BY <2>1, <2>4
  <2>6. TickSound(worker[w]) /\ worker[w] \in TickRecords
    BY TicksAreRecords DEF MailInv, TicksSound
  <2>7. TickSound(me)' /\ me \in TickRecords
    BY <2>2, <2>3, <2>4, <2>6 DEF TickRecords, TickSound, StoredJobs
  <2>8. ~(mishaps = 0 /\ ~together)
    BY <2>1 DEF MailInv, OneTick, Working, Busy, TickRecover
  <2> QED
    BY <1>1, <2>2, <2>3, <2>5, <2>7, <2>8, RecoveringKeeps
<1>3. CASE /\ worker[w].recover = {}
           /\ worker' = [worker EXCEPT ![w].pc = "next"]
           /\ UNCHANGED <<job, mishaps>>
  <2>1. PICK me : me = [worker[w] EXCEPT !.pc = "next"] /\ worker' = [worker EXCEPT ![w] = me]
    BY <1>3
  <2>2. /\ me.todo = worker[w].todo /\ me.recover = worker[w].recover /\ me.pc = "next"
        /\ me.at = worker[w].at /\ me.attempts = worker[w].attempts /\ me \in TickRecords
    BY <2>1, TicksAreRecords DEF MailInv, TickRecords
  <2>3. TickSound(me)'
    BY <1>3, <2>2 DEF MailInv, TicksSound, TickSound, StoredJobs
  <2>4. EmailType' /\ TicksSound' /\ \A v \in Workers : worker'[v] = IF v = w THEN me ELSE worker[v]
    BY <1>1, <1>3, <2>1, <2>2, <2>3, TickStepTyped DEF MailInv, EmailType
  <2>5. ASSUME OneTick, JobsSound PROVE OneTick' /\ JobsSound'
    <3>1. Working(worker[w]) /\ Busy(w) /\ worker[w].at = NoMail
      BY <2>5 DEF TickRecover, OneTick, Busy, Working
    <3>2. Working(me)'
      BY <1>1, <1>3, <2>2, <3>1 DEF Working, Waiting, Tried
    <3>4. OneTick'
      BY <2>2, <2>4, <2>5, <3>1, <3>2 DEF OneTick, Busy
    <3>5. \A e \in Mails : Unstored(e) \/ Waiting(e) \/ Settled(e)
      BY <2>5, <3>1, EmailAssumption DEF JobsSound, OneTick
    <3>6. JobsSound'
      BY <1>1, <1>3, <3>5 DEF JobsSound, Unstored, Waiting, Settled, Tried, Once
    <3> QED
      BY <3>4, <3>6
  <2> QED
    BY <1>1, <1>3, <2>4, <2>5, EnqueuesStay DEF MailInv
<1> QED
  BY <1>2, <1>3 DEF TickRecover

LEMMA TickRecoveredKeeps ==
    ASSUME MailInv, NEW w \in Workers, TickRecovered(w)
    PROVE  MailInv'
<1>1. PICK e \in Mails : e = worker[w].at /\ job[e].status # "none"
  BY AtHandFacts DEF TickRecovered
<1>2. /\ worker[w].pc = "recovered" /\ Write(e, [job[e] EXCEPT !.due = TRUE])
      /\ worker' = [worker EXCEPT ![w].pc = "recover", ![w].at = NoMail]
      /\ UNCHANGED <<keys, expired, enqueuing, sends, thrown, together, cut>>
  BY <1>1 DEF TickRecovered, emailHistory
<1>3. PICK new \in Jobs : /\ new = [job[e] EXCEPT !.due = TRUE]
                          /\ new.status = job[e].status /\ new.attempts = job[e].attempts
  BY DueTyped DEF MailInv
<1>4. /\ job' \in [Mails -> Jobs] /\ mishaps' \in 0..MaxMishaps /\ (mishaps' = 0 => mishaps = 0)
      /\ job'[e].status = job[e].status /\ \A o \in Mails \ {e} : job'[o] = job[o]
  BY <1>2, <1>3, JobWritten DEF MailInv
<1>5. PICK me : me = [worker[w] EXCEPT !.pc = "recover", !.at = NoMail]
  OBVIOUS
<1>6. worker' = [worker EXCEPT ![w] = me]
  BY <1>2, <1>5
<1>7. TickSound(worker[w]) /\ worker[w] \in TickRecords
  BY TicksAreRecords DEF MailInv, TicksSound
<1>8. TickSound(me)' /\ me \in TickRecords
  BY <1>1, <1>4, <1>5, <1>7 DEF TickRecords, TickSound, StoredJobs
<1>9. ~(mishaps = 0 /\ ~together)
  BY <1>2 DEF MailInv, OneTick, Working, Busy
<1> QED
  BY <1>1, <1>2, <1>4, <1>6, <1>8, <1>9, RecoveringKeeps

\* A step for the job at hand.
LEMMA AtHandKeeps ==
    ASSUME MailInv, NEW w \in Workers, Busy(w), NEW e \in Mails, worker[w].at = e,
           NEW me \in TickRecords, worker' = [worker EXCEPT ![w] = me],
           me.todo = worker[w].todo, me.recover = worker[w].recover,
           me.attempts = worker[w].attempts,
           \/ me.at = e /\ me.pc \notin {"idle", "recover", "recovered", "next"}
           \/ me.at = NoMail /\ me.pc = "next",
           me.pc \in {"requeue", "count"} => me.attempts[e] + 1 < MaxAttempts,
           job' \in [Mails -> Jobs], sends' \in [Mails -> Nat], thrown' \in [Mails -> Nat],
           job[e].status # "none" /\ job'[e].status # "none",
           \A o \in Mails \ {e} : job'[o] = job[o] /\ sends'[o] = sends[o] /\ thrown'[o] = thrown[o],
           mishaps' \in 0..MaxMishaps, mishaps' = 0 => mishaps = 0, cut' \subseteq Mails,
           UNCHANGED <<keys, expired, enqueuing, together>>,
           mishaps' = 0 /\ AtHand(worker[w], e) =>
              IF me.at = e THEN AtHand(me, e)' ELSE (Waiting(e) \/ Settled(e))'
    PROVE  MailInv'
<1>1. \A o \in Mails : job'[o].status = "none" <=> job[o].status = "none"
  OBVIOUS
<1>2. e # NoMail
  BY EmailAssumption
<1>3. TickSound(me)'
  BY <1>1, <1>2 DEF MailInv, TicksSound, TickSound, StoredJobs
<1>4. EmailType' /\ TicksSound'
  BY <1>1, <1>3, TickStepTyped DEF MailInv, EmailType
<1>5. ASSUME mishaps' = 0 PROVE EnqueuesSound' /\ (~together' => KeysApart')
  BY <1>1, <1>5, EnqueuesStay DEF MailInv
<1>6. ASSUME mishaps' = 0, ~together' PROVE OneTick' /\ JobsSound'
  <2>1. OneTick /\ JobsSound /\ EmailType
    BY <1>6 DEF MailInv
  <2>2. AtHand(worker[w], e)
    BY <1>2, <2>1 DEF OneTick, Working
  <2> QED
    BY <1>2, <1>6, <2>1, <2>2, TickGoesOn
<1> QED
  BY <1>4, <1>5, <1>6 DEF MailInv

TickPcs ==
    {"lease", "leased", "resolve", "send", "sent", "dead", "requeue", "count", "backoff"}

\* What the steps below have in common: they change the job at hand only.
OnlyJob(e) ==
    /\ job' \in [Mails -> Jobs] /\ sends' \in [Mails -> Nat] /\ thrown' \in [Mails -> Nat]
    /\ job'[e].status # "none"
    /\ \A o \in Mails \ {e} : job'[o] = job[o] /\ sends'[o] = sends[o] /\ thrown'[o] = thrown[o]
    /\ mishaps' \in 0..MaxMishaps /\ (mishaps' = 0 => mishaps = 0) /\ cut' \subseteq Mails
    /\ UNCHANGED <<keys, expired, enqueuing, together>>

LEMMA GoingOnKeeps ==
    ASSUME MailInv, NEW w \in Workers, worker[w].pc \in TickPcs,
           NEW e \in Mails, e = worker[w].at, OnlyJob(e),
           NEW pc \in TickPcs, Goto(w, pc),
           pc \in {"requeue", "count"} => worker[w].attempts[e] + 1 < MaxAttempts,
           \A me \in TickRecords :
              me.pc = pc /\ me.attempts = worker[w].attempts
              /\ mishaps' = 0 /\ AtHand(worker[w], e) => AtHand(me, e)'
    PROVE  MailInv'
<1>1. Busy(w) /\ job[e].status # "none"
  BY AtHandFacts DEF TickPcs
<1>2. PICK me \in TickRecords :
               /\ worker' = [worker EXCEPT ![w] = me]
               /\ me.pc = pc /\ me.at = e /\ me.todo = worker[w].todo
               /\ me.recover = worker[w].recover /\ me.attempts = worker[w].attempts
  <2>1. worker[w] \in TickRecords
    BY AtHandFacts DEF TickPcs
  <2>2. PICK me \in TickRecords : me = [worker[w] EXCEPT !.pc = pc]
    BY <2>1 DEF TickRecords, TickPcs
  <2> QED
    BY <2>1, <2>2 DEF Goto, TickRecords
<1>3. mishaps' = 0 /\ AtHand(worker[w], e) => AtHand(me, e)'
  BY <1>2
<1>4. /\ worker[w].at = e /\ me.pc \notin {"idle", "recover", "recovered", "next"}
      /\ me.pc \in {"requeue", "count"} => me.attempts[e] + 1 < MaxAttempts
  BY <1>2 DEF TickPcs
<1> QED
  BY <1>1, <1>2, <1>3, <1>4, AtHandKeeps DEF OnlyJob

TickDone(w) == worker' = [worker EXCEPT ![w].pc = "next", ![w].at = NoMail]

LEMMA DoneKeeps ==
    ASSUME MailInv, NEW w \in Workers, worker[w].pc \in TickPcs,
           NEW e \in Mails, e = worker[w].at, OnlyJob(e),
           TickDone(w),
           mishaps' = 0 /\ AtHand(worker[w], e) => (Waiting(e) \/ Settled(e))'
    PROVE  MailInv'
<1>1. Busy(w) /\ job[e].status # "none" /\ e # NoMail
  BY AtHandFacts, EmailAssumption DEF TickPcs
<1>2. PICK me \in TickRecords :
               /\ worker' = [worker EXCEPT ![w] = me]
               /\ me.pc = "next" /\ me.at = NoMail /\ me.todo = worker[w].todo
               /\ me.recover = worker[w].recover /\ me.attempts = worker[w].attempts
  <2>1. worker[w] \in TickRecords
    BY AtHandFacts DEF TickPcs
  <2>2. PICK me \in TickRecords : me = [worker[w] EXCEPT !.pc = "next", !.at = NoMail]
    BY <2>1 DEF TickRecords
  <2> QED
    BY <2>1, <2>2 DEF TickDone, TickRecords
<1>3. /\ me.pc \notin {"requeue", "count"} /\ me.at # e
      /\ mishaps' = 0 /\ AtHand(worker[w], e) =>
              IF me.at = e THEN AtHand(me, e)' ELSE (Waiting(e) \/ Settled(e))'
  BY <1>1, <1>2
<1> QED
  BY <1>1, <1>2, <1>3, AtHandKeeps DEF OnlyJob

LEMMA TickLeaseKeeps ==
    ASSUME MailInv, NEW w \in Workers, TickLease(w)
    PROVE  MailInv'
<1>1. PICK e \in Mails : e = worker[w].at /\ job[e].status # "none"
  BY AtHandFacts DEF TickLease
<1>2. /\ worker[w].pc = "lease" /\ Goto(w, "leased")
      /\ Write(e, [job[e] EXCEPT !.status = "processing"])
      /\ UNCHANGED <<keys, expired, enqueuing, sends, thrown, together, cut>>
  BY <1>1 DEF TickLease, emailHistory
<1>3. ASSUME NEW me \in TickRecords, me.pc = "leased", me.attempts = worker[w].attempts,
             mishaps' = 0, AtHand(worker[w], e)
      PROVE  AtHand(me, e)'
  BY <1>1, <1>2, <1>3, StatusWritten DEF AtHand, Waiting, Tried, MailInv, JobStatuses
<1>4. OnlyJob(e)
  BY <1>1, <1>2, StatusWritten DEF OnlyJob, MailInv, EmailType, JobStatuses
<1> QED
  BY <1>1, <1>2, <1>3, <1>4, GoingOnKeeps DEF TickPcs

LEMMA TickLeaseTimeKeeps ==
    ASSUME MailInv, NEW w \in Workers, TickLeaseTime(w)
    PROVE  MailInv'
<1>1. PICK e \in Mails : e = worker[w].at /\ job[e].status # "none"
  BY AtHandFacts DEF TickLeaseTime
<1>2. PICK age \in {"fresh", "old"} : Write(e, [job[e] EXCEPT !.lease = age])
  BY <1>1 DEF TickLeaseTime
<1>3. /\ worker[w].pc = "leased" /\ Goto(w, "resolve")
      /\ UNCHANGED <<keys, expired, enqueuing, sends, thrown, together>> /\ cut' \subseteq Mails
  BY <1>1 DEF TickLeaseTime, MailInv, EmailType
<1>4. PICK new \in Jobs : /\ new = [job[e] EXCEPT !.lease = age]
                          /\ new.status = job[e].status /\ new.attempts = job[e].attempts
  <2>1. job[e] \in Jobs
    BY DEF MailInv, EmailType
  <2>2. [job[e] EXCEPT !.lease = age] \in Jobs
    BY <2>1 DEF Jobs
  <2>3. /\ [job[e] EXCEPT !.lease = age].status = job[e].status
        /\ [job[e] EXCEPT !.lease = age].attempts = job[e].attempts
    BY <2>1 DEF Jobs
  <2> QED
    BY <2>2, <2>3
<1>5. /\ job' \in [Mails -> Jobs] /\ mishaps' \in 0..MaxMishaps
      /\ mishaps' = 0 => mishaps = 0
      /\ job'[e].status = job[e].status /\ job'[e].attempts = job[e].attempts
      /\ \A o \in Mails \ {e} : job'[o] = job[o]
  BY <1>2, <1>4, WriteTyped DEF Write, MailInv, EmailType
<1>6. ASSUME NEW me \in TickRecords, me.pc = "resolve", me.attempts = worker[w].attempts,
             mishaps' = 0, AtHand(worker[w], e)
      PROVE  AtHand(me, e)'
  BY <1>3, <1>5, <1>6 DEF AtHand, Tried
<1>7. OnlyJob(e)
  BY <1>1, <1>3, <1>5 DEF OnlyJob, MailInv, EmailType
<1> QED
  BY <1>1, <1>3, <1>6, <1>7, GoingOnKeeps DEF TickPcs

LEMMA TickResolveKeeps ==
    ASSUME MailInv, NEW w \in Workers, TickResolve(w)
    PROVE  MailInv'
<1>1. PICK e \in Mails : e = worker[w].at /\ job[e].status # "none"
  BY AtHandFacts DEF TickResolve
<1>2. PICK pc \in {"send", "dead"} : Goto(w, pc)
  BY DEF TickResolve
<1>3. /\ worker[w].pc = "resolve"
      /\ UNCHANGED <<job, keys, expired, enqueuing, sends, thrown, together, cut>>
      /\ mishaps' \in 0..MaxMishaps /\ (mishaps' = 0 => mishaps = 0)
  BY MishapsCounted DEF TickResolve, MailInv, jobVars, emailHistory
<1>4. ASSUME NEW me \in TickRecords, me.pc = pc, me.attempts = worker[w].attempts,
             mishaps' = 0, AtHand(worker[w], e)
      PROVE  AtHand(me, e)'
  <2>1. job[e].attempts \in Nat
    BY DEF MailInv, EmailType, Jobs
  <2> QED
    BY <1>3, <1>4, <2>1, EmailAssumption DEF AtHand, Tried, Once
<1>5. OnlyJob(e)
  BY <1>1, <1>3 DEF OnlyJob, MailInv, EmailType
<1> QED
  BY <1>1, <1>2, <1>3, <1>4, <1>5, GoingOnKeeps DEF TickPcs

\* The mail is handed to the provider: once more than it was thrown back.
LEMMA TickSendKeeps ==
    ASSUME MailInv, NEW w \in Workers, TickSend(w)
    PROVE  MailInv'
<1>1. PICK e \in Mails : e = worker[w].at /\ job[e].status # "none"
  BY AtHandFacts DEF TickSend
<1>2. /\ worker[w].pc = "send" /\ sends' = [sends EXCEPT ![e] = @ + 1]
      /\ UNCHANGED <<job, keys, expired, enqueuing, mishaps, together, cut>>
  BY <1>1 DEF TickSend, jobVars
<1>3. PICK pc \in TickPcs :
        /\ Goto(w, pc) /\ pc \in {"sent", "dead", "requeue"}
        /\ \/ pc # "requeue" /\ thrown' = thrown
           \/ thrown' = [thrown EXCEPT ![e] = @ + 1]
        /\ pc = "requeue" =>
              ~LastTry(worker[w].attempts[e]) /\ thrown' = [thrown EXCEPT ![e] = @ + 1]
  BY <1>1 DEF TickSend, TickPcs
<1>4. job[e].attempts \in Nat /\ worker[w].attempts[e] \in Nat /\ sends[e] \in Nat /\ thrown[e] \in Nat
  BY DEF MailInv, EmailType, Jobs
<1>5. /\ sends' \in [Mails -> Nat] /\ thrown' \in [Mails -> Nat]
      /\ sends'[e] = sends[e] + 1 /\ thrown'[e] \in {thrown[e], thrown[e] + 1}
      /\ pc = "requeue" => thrown'[e] = thrown[e] + 1
      /\ \A o \in Mails \ {e} : sends'[o] = sends[o] /\ thrown'[o] = thrown[o]
  BY <1>2, <1>3 DEF MailInv, EmailType
<1>6. pc = "requeue" => worker[w].attempts[e] + 1 < MaxAttempts
  BY <1>3, <1>4, EmailAssumption DEF LastTry
<1>7. ASSUME NEW me \in TickRecords, me.pc = pc, me.attempts = worker[w].attempts,
             mishaps' = 0, AtHand(worker[w], e)
      PROVE  AtHand(me, e)'
  BY <1>2, <1>3, <1>4, <1>5, <1>6, <1>7, EmailAssumption DEF AtHand, Tried, Once
<1>8. OnlyJob(e)
  BY <1>1, <1>2, <1>5 DEF OnlyJob, MailInv, EmailType
<1> QED
  BY <1>1, <1>2, <1>3, <1>6, <1>7, <1>8, GoingOnKeeps DEF TickPcs

\* The mail is settled: sent, or put to the dead letters.
LEMMA TickSettles ==
    ASSUME MailInv, NEW w \in Workers, TickSent(w) \/ TickDead(w)
    PROVE  MailInv'
<1>1. worker[w].pc \in {"sent", "dead"}
  BY DEF TickSent, TickDead
<1>2. PICK e \in Mails : e = worker[w].at /\ job[e].status # "none"
  BY <1>1, AtHandFacts
<1>3. PICK s \in {"sent", "deadletter"} : Settle(w, s)
  BY DEF TickSent, TickDead
<1>4. /\ Write(e, [job[e] EXCEPT !.status = s])
      /\ worker' = [worker EXCEPT ![w].pc = "next", ![w].at = NoMail]
      /\ UNCHANGED <<keys, expired, enqueuing, sends, thrown, together, cut>>
  BY <1>2, <1>3 DEF Settle, emailHistory
<1>5. mishaps' = 0 /\ AtHand(worker[w], e) => Settled(e)'
  BY <1>1, <1>2, <1>4, StatusWritten DEF AtHand, Settled, Once, MailInv, JobStatuses
<1>6. OnlyJob(e)
  BY <1>2, <1>4, StatusWritten DEF OnlyJob, MailInv, EmailType, JobStatuses
<1> QED
  BY <1>1, <1>2, <1>4, <1>5, <1>6, DoneKeeps DEF TickDone, TickPcs

LEMMA TickRequeueKeeps ==
    ASSUME MailInv, NEW w \in Workers, TickRequeue(w)
    PROVE  MailInv'
<1>1. PICK e \in Mails : e = worker[w].at /\ job[e].status # "none"
  BY AtHandFacts DEF TickRequeue
<1>2. /\ worker[w].pc = "requeue" /\ Goto(w, "count")
      /\ Write(e, [job[e] EXCEPT !.status = "queued"])
      /\ UNCHANGED <<keys, expired, enqueuing, sends, thrown, together, cut>>
  BY <1>1 DEF TickRequeue, emailHistory
<1>3. ASSUME NEW me \in TickRecords, me.pc = "count", me.attempts = worker[w].attempts,
             mishaps' = 0, AtHand(worker[w], e)
      PROVE  AtHand(me, e)'
  BY <1>1, <1>2, <1>3, StatusWritten DEF AtHand, Tried, MailInv, JobStatuses
<1>4. worker[w].attempts[e] + 1 < MaxAttempts
  BY <1>1, <1>2, AtHandFacts
<1>5. OnlyJob(e)
  BY <1>1, <1>2, StatusWritten DEF OnlyJob, MailInv, EmailType, JobStatuses
<1> QED
  BY <1>1, <1>2, <1>3, <1>4, <1>5, GoingOnKeeps DEF TickPcs

\* The count follows the status: the job waits again, tried once more.
LEMMA TickCountKeeps ==
    ASSUME MailInv, NEW w \in Workers, TickCount(w)
    PROVE  MailInv'
<1>1. PICK e \in Mails : e = worker[w].at /\ job[e].status # "none"
  BY AtHandFacts DEF TickCount
<1>2. PICK n \in 0..MaxAttempts : n = worker[w].attempts[e] + 1
  <2>1. worker[w].attempts[e] \in Nat /\ worker[w].attempts[e] + 1 < MaxAttempts
    BY <1>1, AtHandFacts DEF TickCount, MailInv, EmailType
  <2> QED
    BY <2>1, EmailAssumption
<1>3. /\ worker[w].pc = "count" /\ Goto(w, "backoff")
      /\ Write(e, [job[e] EXCEPT !.attempts = n])
      /\ UNCHANGED <<keys, expired, enqueuing, sends, thrown, together, cut>>
  BY <1>1, <1>2 DEF TickCount, emailHistory
<1>4. PICK new \in Jobs : /\ new = [job[e] EXCEPT !.attempts = n]
                          /\ new.status = job[e].status /\ new.attempts = n
  <2>1. job[e] \in Jobs
    BY DEF MailInv, EmailType
  <2>2. [job[e] EXCEPT !.attempts = n] \in Jobs
    BY <2>1 DEF Jobs
  <2>3. /\ [job[e] EXCEPT !.attempts = n].status = job[e].status
        /\ [job[e] EXCEPT !.attempts = n].attempts = n
    BY <2>1 DEF Jobs
  <2> QED
    BY <2>2, <2>3
<1>5. /\ job' \in [Mails -> Jobs] /\ mishaps' \in 0..MaxMishaps
      /\ mishaps' = 0 => mishaps = 0 /\ job'[e].attempts = n
      /\ job'[e].status = job[e].status
      /\ \A o \in Mails \ {e} : job'[o] = job[o]
  BY <1>3, <1>4, JobWritten DEF MailInv
<1>6. ASSUME NEW me \in TickRecords, me.pc = "backoff", me.attempts = worker[w].attempts,
             mishaps' = 0, AtHand(worker[w], e)
      PROVE  AtHand(me, e)'
  <2>1. job[e].status = "queued" /\ Tried(e, n)
    BY <1>2, <1>3, <1>6 DEF AtHand
  <2>2. job'[e].status = "queued" /\ job'[e].attempts = n /\ sends' = sends /\ thrown' = thrown
    BY <1>3, <1>5, <1>6, <2>1
  <2>3. Waiting(e)'
    BY <2>1, <2>2 DEF Waiting, Tried
  <2> QED
    BY <1>6, <2>2, <2>3 DEF AtHand
<1>7. OnlyJob(e)
  BY <1>1, <1>3, <1>5 DEF OnlyJob, MailInv, EmailType
<1> QED
  BY <1>1, <1>3, <1>6, <1>7, GoingOnKeeps DEF TickPcs

\* The time of the retry follows the count: the job waits as it did.
LEMMA TickBackoffKeeps ==
    ASSUME MailInv, NEW w \in Workers, TickBackoff(w)
    PROVE  MailInv'
<1>1. PICK e \in Mails : e = worker[w].at /\ job[e].status # "none"
  BY AtHandFacts DEF TickBackoff
<1>2. /\ worker[w].pc = "backoff"
      /\ worker' = [worker EXCEPT ![w].pc = "next", ![w].at = NoMail]
      /\ Write(e, [job[e] EXCEPT !.due = FALSE])
      /\ UNCHANGED <<keys, expired, enqueuing, sends, thrown, together, cut>>
  BY <1>1 DEF TickBackoff, emailHistory
<1>3. PICK new \in Jobs : /\ new = [job[e] EXCEPT !.due = FALSE]
                          /\ new.status = job[e].status /\ new.attempts = job[e].attempts
  BY DueTyped DEF MailInv
<1>4. /\ job' \in [Mails -> Jobs] /\ mishaps' \in 0..MaxMishaps
      /\ mishaps' = 0 => mishaps = 0 /\ job'[e].attempts = job[e].attempts
      /\ job'[e].status = job[e].status
      /\ \A o \in Mails \ {e} : job'[o] = job[o]
  BY <1>2, <1>3, JobWritten DEF MailInv
<1>5. mishaps' = 0 /\ AtHand(worker[w], e) => Waiting(e)'
  BY <1>2, <1>4 DEF AtHand, Waiting, Tried
<1>6. OnlyJob(e)
  BY <1>1, <1>2, <1>4 DEF OnlyJob, MailInv, EmailType
<1> QED
  BY <1>1, <1>2, <1>5, <1>6, DoneKeeps DEF TickDone, TickPcs

\* The tick is over, or takes the next job.
LEMMA TickNextKeeps ==
    ASSUME MailInv, NEW w \in Workers, TickNext(w)
    PROVE  MailInv'
<1>1. PICK e : e = NextMail(worker[w].todo)
  OBVIOUS
<1>2. worker[w] \in TickRecords /\ worker[w].pc = "next" /\ Busy(w) /\ TickSound(worker[w])
  BY TicksAreRecords DEF MailInv, TicksSound, TickNext, Busy
<1>3. PICK me : /\ worker' = [worker EXCEPT ![w] = me]
                /\ me = IF worker[w].todo = {} THEN IdleTick
                        ELSE [worker[w] EXCEPT !.todo = worker[w].todo \ {e}, !.at = e,
                                 !.pc = IF e \in worker[w].expired THEN "dead" ELSE "lease"]
  BY <1>1 DEF TickNext
<1>4. UNCHANGED <<job, keys, expired, enqueuing, mishaps, sends, thrown, together, cut>>
  BY DEF TickNext, jobVars, emailHistory
<1>5. worker[w].todo # {} => e \in worker[w].todo
  BY <1>1 DEF NextMail
<1>6. me \in TickRecords /\ TickSound(me)'
  <2>1. CASE worker[w].todo = {}
    BY <1>3, <2>1, IdleIsRecord DEF IdleTick, TickSound
  <2>2. CASE worker[w].todo # {}
    <3>1. e \in Mails /\ job[e].status # "none"
      BY <1>2, <1>5, <2>2 DEF TickSound, StoredJobs
    <3>2. PICK pc \in {"dead", "lease"} : me = [worker[w] EXCEPT !.todo = worker[w].todo \ {e}, !.at = e, !.pc = pc]
      BY <1>3, <2>2
    <3>3. /\ me \in TickRecords /\ me.todo \subseteq worker[w].todo /\ me.recover = worker[w].recover
          /\ me.at = e /\ me.pc \in {"dead", "lease"}
      BY <1>2, <3>1, <3>2 DEF TickRecords
    <3> QED
      BY <1>2, <1>4, <3>1, <3>3 DEF TickSound, StoredJobs
  <2> QED
    BY <2>1, <2>2
<1>7. EmailType' /\ TicksSound' /\ \A v \in Workers : worker'[v] = IF v = w THEN me ELSE worker[v]
  BY <1>3, <1>4, <1>6, TickStepTyped DEF MailInv, EmailType
<1>8. ASSUME mishaps' = 0, ~together' PROVE OneTick' /\ JobsSound'
  <2>1. OneTick /\ JobsSound /\ Working(worker[w]) /\ worker[w].at = NoMail
    BY <1>2, <1>4, <1>8 DEF MailInv, OneTick, Working
  <2>2. \A o \in Mails : Unstored(o) \/ Waiting(o) \/ Settled(o)
    BY <1>2, <2>1, EmailAssumption DEF JobsSound, OneTick
  <2>3. \A o \in Mails : /\ Unstored(o) => Unstored(o)'
                         /\ Waiting(o) => Waiting(o)'
                         /\ Settled(o) => Settled(o)'
    BY <1>4 DEF Unstored, Waiting, Settled, Tried, Once
  <2>4. JobsSound'
    BY <2>2, <2>3 DEF JobsSound
  <2>5. me.pc # "idle" => Working(me)'
    <3>1. CASE worker[w].todo = {}
      BY <1>3, <3>1 DEF IdleTick
    <3>2. CASE worker[w].todo # {}
      <4>1. e \in Mails /\ e # NoMail /\ Waiting(e) /\ worker[w].attempts[e] = job[e].attempts
        BY <1>2, <1>5, <2>1, <3>2, EmailAssumption DEF Working, TickSound, StoredJobs
      <4>2. /\ me.todo = worker[w].todo \ {e} /\ me.recover = worker[w].recover
            /\ me.at = e /\ me.pc \in {"dead", "lease"} /\ me.attempts = worker[w].attempts
        BY <1>2, <1>3, <3>2 DEF TickRecords
      <4>3. job[e].attempts \in Nat
        BY <4>1 DEF MailInv, EmailType, Jobs
      <4>4. AtHand(me, e)'
        BY <1>4, <4>1, <4>2, <4>3, EmailAssumption DEF AtHand, Waiting, Tried, Once
      <4>5. \A o \in me.todo : Waiting(o)' /\ me.attempts[o] = job'[o].attempts
        BY <1>2, <1>4, <2>1, <2>3, <4>2 DEF Working, TickSound, StoredJobs
      <4> QED
        BY <2>1, <4>1, <4>2, <4>4, <4>5 DEF Working
    <3> QED
      BY <3>1, <3>2
  <2>6. OneTick'
    BY <1>2, <1>7, <2>1, <2>5 DEF OneTick, Busy
  <2> QED
    BY <2>4, <2>6
<1> QED
  BY <1>4, <1>7, <1>8, EnqueuesStay DEF MailInv

LEMMA WorkerDiesKeeps ==
    ASSUME MailInv, NEW w \in Workers, WorkerDies(w)
    PROVE  MailInv'
<1>1. PICK me \in TickRecords : me = IdleTick
  BY IdleIsRecord
<1>2. TickSound(me)'
  BY <1>1 DEF IdleTick, TickSound
<1>3. worker[w].pc = "leased" => worker[w].at \in Mails
  BY AtHandFacts
<1>4. /\ worker' = [worker EXCEPT ![w] = me] /\ cut' \subseteq Mails
      /\ UNCHANGED <<job, keys, expired, enqueuing, sends, thrown, together>>
  BY <1>1, <1>3 DEF WorkerDies, jobVars, MailInv, EmailType
<1>5. mishaps' \in 0..MaxMishaps /\ mishaps' # 0
  BY MishapsCounted DEF WorkerDies, MailInv
<1>6. EmailType' /\ TicksSound'
  BY <1>2, <1>4, <1>5, TickStepTyped DEF MailInv, EmailType
<1> QED
  BY <1>5, <1>6 DEF MailInv

LEMMA MailInvSteps == MailInv /\ [EmailNext]_emailVars => MailInv'
<1> SUFFICES ASSUME MailInv, [EmailNext]_emailVars PROVE MailInv'
  OBVIOUS
<1>1. ASSUME NEW e \in Mails, EnqueueBegin(e) \/ EnqueueStep(e) \/ TimeStep(e) \/ LinkExpires(e)
      PROVE  MailInv'
  BY <1>1, EnqueueBeginKeeps, EnqueueLookKeeps, EnqueueMarkKeeps, EnqueueStoreKeeps, TimeKeeps
     DEF EnqueueStep
<1>2. ASSUME NEW w \in Workers, TickStep(w) \/ WorkerDies(w) PROVE MailInv'
  BY <1>2, TickReadKeeps, TickRecoverKeeps, TickRecoveredKeeps, TickNextKeeps, TickLeaseKeeps, TickLeaseTimeKeeps,
     TickResolveKeeps, TickSendKeeps, TickSettles, TickRequeueKeeps, TickCountKeeps, TickBackoffKeeps,
     WorkerDiesKeeps DEF TickStep
<1>3. CASE UNCHANGED emailVars
  <2>1. UNCHANGED <<job, keys, expired, enqueuing, worker, mishaps, sends, thrown, together, cut>>
    BY <1>3 DEF emailVars, jobVars, emailHistory
  <2>2. EmailType' /\ TicksSound'
    BY <2>1, TicksStay DEF MailInv, EmailType
  <2> QED
    BY <2>1, <2>2, EnqueuesStay, JobsAlike DEF MailInv
<1> QED
  BY <1>1, <1>2, <1>3 DEF EmailNext, EmailQuiet

LEMMA MailInvGives == MailInv => EmailType /\ MailOnce
<1> SUFFICES ASSUME MailInv, mishaps = 0 PROVE MailOnce
  BY DEF MailInv, MailOnce
<1>1. EnqueuesSound
  BY DEF MailInv
<1>2. ASSUME NEW e \in Mails, enqueuing[e] = "duplicate"
      PROVE  \E other \in SameKey(e) : job[other].status # "none" \/ enqueuing[other] = "store"
  <2>1. PICK other \in Mails : Key[other] = Key[e] /\ Key[e] # NoKey /\ Passed(other)
    BY <1>1, <1>2 DEF EnqueuesSound
  <2> QED
    BY <1>1, <1>2, <2>1 DEF EnqueuesSound, Passed, SameKey
<1>3. ASSUME ~together, NEW e \in Mails
      PROVE  /\ sends[e] <= 1 + thrown[e] /\ sends[e] <= MaxAttempts
             /\ job[e].status # "none" => \A other \in SameKey(e) : job[other].status = "none"
  <2>1. KeysApart /\ OneTick /\ JobsSound
    BY <1>3 DEF MailInv
  <2>2. job[e].attempts \in Nat /\ sends[e] \in Nat /\ thrown[e] \in Nat
    BY DEF MailInv, EmailType, Jobs
  <2>3. sends[e] <= 1 + thrown[e] /\ sends[e] <= MaxAttempts
    <3>1. CASE Unstored(e) \/ Waiting(e) \/ Settled(e)
      BY <2>2, <3>1, EmailAssumption DEF Unstored, Waiting, Settled, Tried, Once
    <3>2. CASE \E w \in Workers : Busy(w) /\ worker[w].at = e
      <4>1. PICK w \in Workers : Busy(w) /\ worker[w].at = e
        BY <3>2
      <4>2. AtHand(worker[w], e) /\ worker[w].pc \in TickPcs
        BY <2>1, <4>1, EmailAssumption, TicksAreRecords
           DEF OneTick, Working, TickRecords, TickPcs, MailInv, Busy
      <4> QED
        BY <2>2, <4>2, EmailAssumption DEF AtHand, Waiting, Tried, Once, TickPcs
    <3> QED
      BY <2>1, <3>1, <3>2 DEF JobsSound
  <2>4. job[e].status # "none" => \A other \in SameKey(e) : job[other].status = "none"
    BY <1>1, <2>1 DEF EnqueuesSound, KeysApart, Passed, SameKey
  <2> QED
    BY <2>3, <2>4
<1> QED
  BY <1>2, <1>3 DEF MailOnce
-----------------------------------------------------------------------------
\* A key lets one mail through and a mail is handed to the provider once, and
\* once more for every call that threw, while nothing fails or overlaps
\* (MailOnce).
THEOREM MailGoesOutOnce == EmailSpec => []MailOnce
<1>1. MailInv => MailOnce
  BY MailInvGives
<1> QED
  BY <1>1, MailInvInit, MailInvSteps, PTL DEF EmailSpec

\* EmailType is an invariant.
THEOREM MailTyped == EmailSpec => []EmailType
<1>1. MailInv => EmailType
  BY DEF MailInv
<1> QED
  BY <1>1, MailInvInit, MailInvSteps, PTL DEF EmailSpec
=============================================================================
