---------------------------- MODULE BoardMeeting ----------------------------
(***************************************************************************)
(* The meetings of the board that ratifies grades                          *)
(* (src/modules/board/board.service.js, the rules in board.schema.js).     *)
(* Every operation is a request of its own that reads and then writes the  *)
(* database, one call after the other and no transaction around them: what *)
(* it read may be stale when it writes.                                    *)
(*                                                                         *)
(* Whether a calculation run may be put before the board at all (its rule  *)
(* approved, its grade set, no open moderation case) is decided by the     *)
(* services that own those rows: here it may turn out either way.          *)
(***************************************************************************)
EXTENDS Naturals, FiniteSets

CONSTANTS
    Meetings, Members,
    Runs,           \* calculation runs, one grade of one student each
    NoRun, NoMember,
    Votes,          \* the votes members cast, of approve, reject and abstain
    Quorum,         \* required_quorum of the meetings
    Ratio,          \* required_approval_ratio, in tenths
    BoardCalls      \* requests under way at the same time

ASSUME BoardAssumption ==
    /\ NoRun \notin Runs /\ NoMember \notin Members
    /\ Votes \subseteq {"approve", "reject", "abstain"}
    /\ Quorum \in Nat \ {0} /\ Ratio \in 1..10   \* createBoardMeeting turns 0 into the default
    /\ IsFiniteSet(Members)
    /\ Meetings # {}

VARIABLES
    meeting,    \* board_meetings: the status
    attendee,   \* board_attendees: absent, or the conflict and the vote
    decision,   \* board_decisions: at most one of a run
    boardCall,  \* local state of the requests
    verdicts,   \* history: what the votes of a meeting have amounted to
    answered,   \* history: the kinds of decision ratifyResult gave out, by run
    strayed     \* history: meetings whose closing or opening went astray

boardHistory == <<verdicts, answered, strayed>>
boardVars == <<meeting, attendee, decision, boardCall, boardHistory>>

Closed == {"ratified", "rejected"}
Attendances == [here : BOOLEAN, conflict : BOOLEAN, vote : Votes \cup {"none"}]
Decisions == [kind : Closed, meeting : Meetings]
NoDecision == [kind |-> "none"]

Absent == [here |-> FALSE, conflict |-> FALSE, vote |-> "none"]
SomeMeeting == CHOOSE m \in Meetings : TRUE

\* verdict: what checkQuorum made of the attendees and the meeting as read.
BoardCallType ==
    [pc : {"idle", "open", "attend", "found", "new", "vote", "attendees", "decide", "close", "existing"},
     meeting : Meetings, member : Members \cup {NoMember}, run : Runs \cup {NoRun},
     conflict : BOOLEAN, vote : Votes \cup {"none"}, verdict : Closed \cup {"none"}]

BoardType ==
    /\ meeting \in [Meetings -> {"scheduled", "open"} \cup Closed]
    /\ attendee \in [Meetings -> [Members -> Attendances]]
    /\ decision \in [Runs -> Decisions \cup {NoDecision}]
    /\ boardCall \in [BoardCalls -> BoardCallType]
    /\ verdicts \in [Meetings -> SUBSET Closed]
    /\ answered \in [Runs -> SUBSET Closed]
    /\ strayed \subseteq Meetings

IdleBoardCall ==
    [pc |-> "idle", meeting |-> SomeMeeting, member |-> NoMember, run |-> NoRun,
     conflict |-> FALSE, vote |-> "none", verdict |-> "none"]

\* Meetings as createBoardMeeting has just stored them.
BoardInit ==
    /\ meeting = [m \in Meetings |-> "scheduled"]
    /\ attendee = [m \in Meetings |-> [u \in Members |-> Absent]]
    /\ decision = [r \in Runs |-> NoDecision]
    /\ boardCall = [c \in BoardCalls |-> IdleBoardCall]
    /\ strayed = {}
    /\ verdicts = [m \in Meetings |-> {}]
    /\ answered = [r \in Runs |-> {}]

Free(c) == boardCall[c].pc = "idle"
Ask(c, call) == boardCall' = [boardCall EXCEPT ![c] = call]
Becomes(c, pc) == boardCall' = [boardCall EXCEPT ![c].pc = pc]
BoardReturn(c) == boardCall' = [boardCall EXCEPT ![c] = IdleBoardCall]
-----------------------------------------------------------------------------
\* checkQuorum

Voters(table) == {u \in Members : table[u].here /\ ~table[u].conflict}
For(table, vote) == Cardinality({u \in Voters(table) : table[u].vote = vote})

QuorumMet(table) == Cardinality(Voters(table)) >= Quorum

\* The ratio is of the voters who do not abstain, and zero when there are none.
RatioMet(table) ==
    LET decisive == For(table, "approve") + For(table, "reject")
    IN  decisive > 0 /\ 10 * For(table, "approve") >= Ratio * decisive

Verdict(table) ==
    IF ~QuorumMet(table) THEN "none" ELSE IF RatioMet(table) THEN "ratified" ELSE "rejected"
-----------------------------------------------------------------------------
\* openBoardMeeting: the status is read, and written by its meeting alone.

OpenRead(c) ==
    /\ Free(c)
    /\ \E m \in Meetings :
        /\ meeting[m] = "scheduled"
        /\ Ask(c, [IdleBoardCall EXCEPT !.pc = "open", !.meeting = m])
    /\ UNCHANGED <<meeting, attendee, decision, boardHistory>>

OpenWrite(c) ==
    /\ boardCall[c].pc = "open"
    /\ LET m == boardCall[c].meeting
       IN  /\ meeting' = [meeting EXCEPT ![m] = "open"]
           /\ strayed' = IF meeting[m] \in Closed THEN strayed \cup {m} ELSE strayed
    /\ BoardReturn(c)
    /\ UNCHANGED <<attendee, decision, verdicts, answered>>
-----------------------------------------------------------------------------
\* addAttendee

AttendRead(c) ==
    /\ Free(c)
    /\ \E m \in Meetings, u \in Members, conflict \in BOOLEAN :
        /\ meeting[m] \notin Closed
        /\ Ask(c, [IdleBoardCall EXCEPT !.pc = "attend", !.meeting = m, !.member = u,
                                     !.conflict = conflict])
    /\ UNCHANGED <<meeting, attendee, decision, boardHistory>>

AttendLook(c) ==
    /\ boardCall[c].pc = "attend"
    /\ LET me == boardCall[c]
       IN  Becomes(c, IF attendee[me.meeting][me.member].here THEN "found" ELSE "new")
    /\ UNCHANGED <<meeting, attendee, decision, boardHistory>>

\* The history of what the votes amount to: there is a quorum without conflict,
\* and those of it who approve are enough of those who approve or reject.
Consent(table) ==
    LET free == {u \in Members : table[u].here /\ ~table[u].conflict}
        yes == {u \in free : table[u].vote = "approve"}
        no == {u \in free : table[u].vote = "reject"}
    IN  {kind \in Closed :
            /\ Cardinality(free) >= Quorum
            /\ (kind = "ratified") <=>
                    (yes # {} /\ 10 * Cardinality(yes) >= Ratio * Cardinality(yes \cup no))}

Recorded == verdicts' = [m \in Meetings |-> verdicts[m] \cup Consent(attendee'[m])]

\* A new row, or the unique index turns it away; an old row keeps its vote.
AttendWrite(c) ==
    /\ boardCall[c].pc \in {"found", "new"}
    /\ LET me == boardCall[c]
           row == attendee[me.meeting][me.member]
       IN  IF me.pc = "new" /\ row.here
           THEN UNCHANGED attendee
           ELSE attendee' = [attendee EXCEPT ![me.meeting][me.member] =
                    [@ EXCEPT !.here = TRUE, !.conflict = me.conflict]]
    /\ Recorded
    /\ BoardReturn(c)
    /\ UNCHANGED <<meeting, decision, answered, strayed>>
-----------------------------------------------------------------------------
\* recordVote: the conflict is looked at before the vote is written, the
\* meeting not at all.

VoteRead(c) ==
    /\ Free(c)
    /\ \E m \in Meetings, u \in Members, v \in Votes :
        /\ attendee[m][u].here /\ ~attendee[m][u].conflict
        /\ Ask(c, [IdleBoardCall EXCEPT !.pc = "vote", !.meeting = m, !.member = u, !.vote = v])
    /\ UNCHANGED <<meeting, attendee, decision, boardHistory>>

VoteWrite(c) ==
    /\ boardCall[c].pc = "vote"
    /\ LET me == boardCall[c]
       IN  attendee' = [attendee EXCEPT ![me.meeting][me.member].vote = me.vote]
    /\ Recorded
    /\ BoardReturn(c)
    /\ UNCHANGED <<meeting, decision, answered, strayed>>
-----------------------------------------------------------------------------
\* ratifyResult

\* The run is ready for the board: otherwise the request ends here.
RatifyBegin(c) ==
    /\ Free(c)
    /\ \E m \in Meetings, r \in Runs :
        Ask(c, [IdleBoardCall EXCEPT !.pc = "attendees", !.meeting = m, !.run = r])
    /\ UNCHANGED <<meeting, attendee, decision, boardHistory>>

\* One read of the attendees; the requirements it is judged by never change.
RatifyRead(c) ==
    /\ boardCall[c].pc = "attendees"
    /\ LET verdict == Verdict(attendee[boardCall[c].meeting])
       IN  IF verdict = "none" THEN BoardReturn(c)
           ELSE boardCall' = [boardCall EXCEPT ![c].pc = "decide", ![c].verdict = verdict]
    /\ UNCHANGED <<meeting, attendee, decision, boardHistory>>

\* Mutant of DecisionTaken: no unique index on the run.
NoDecisionTaken(r) == FALSE

\* uq_board_decision_run
DecisionTaken(r) == decision[r] # NoDecision

\* Mutant of RatifyInsert: the meeting is left as it is.
RatifyInsertOnly(c) ==
    /\ boardCall[c].pc = "decide"
    /\ LET me == boardCall[c]
       IN  IF DecisionTaken(me.run)
           THEN Becomes(c, "existing") /\ UNCHANGED <<decision, answered>>
           ELSE /\ decision' = [decision EXCEPT ![me.run] =
                        [kind |-> me.verdict, meeting |-> me.meeting]]
                /\ answered' = [answered EXCEPT ![me.run] = @ \cup {me.verdict}]
                /\ BoardReturn(c)
    /\ UNCHANGED <<meeting, attendee, verdicts, strayed>>

RatifyInsert(c) ==
    /\ boardCall[c].pc = "decide"
    /\ LET me == boardCall[c]
       IN  IF DecisionTaken(me.run)
           THEN Becomes(c, "existing") /\ UNCHANGED decision
           ELSE /\ decision' = [decision EXCEPT ![me.run] =
                        [kind |-> me.verdict, meeting |-> me.meeting]]
                /\ Becomes(c, "close")
    /\ UNCHANGED <<meeting, attendee, boardHistory>>

\* The meeting is closed the way this run was decided, however it stands.
RatifyClose(c) ==
    /\ boardCall[c].pc = "close"
    /\ LET me == boardCall[c]
       IN  /\ meeting' = [meeting EXCEPT ![me.meeting] = me.verdict]
           /\ answered' = [answered EXCEPT ![me.run] = @ \cup {me.verdict}]
    /\ BoardReturn(c)
    /\ UNCHANGED <<attendee, decision, verdicts, strayed>>

\* The run was decided before: that decision is the answer, and the meeting,
\* which may be another one, is left as it is.
RatifyExisting(c) ==
    /\ boardCall[c].pc = "existing"
    /\ LET r == boardCall[c].run
       IN  answered' = [answered EXCEPT ![r] = @ \cup {decision[r].kind}]
    /\ BoardReturn(c)
    /\ UNCHANGED <<meeting, attendee, decision, verdicts, strayed>>

\* A call of the database fails, or the process dies: the request is over.
BoardFault(c) ==
    /\ ~Free(c)
    /\ LET me == boardCall[c]
       IN  strayed' = IF me.pc = "close" THEN strayed \cup {me.meeting} ELSE strayed
    /\ BoardReturn(c)
    /\ UNCHANGED <<meeting, attendee, decision, verdicts, answered>>
-----------------------------------------------------------------------------
BoardStep(c) ==
    \/ OpenRead(c) \/ OpenWrite(c)
    \/ AttendRead(c) \/ AttendLook(c) \/ AttendWrite(c)
    \/ VoteRead(c) \/ VoteWrite(c)
    \/ RatifyBegin(c) \/ RatifyRead(c) \/ RatifyInsert(c) \/ RatifyClose(c) \/ RatifyExisting(c)
    \/ BoardFault(c)

BoardNext == \E c \in BoardCalls : BoardStep(c)

BoardSpec == BoardInit /\ [][BoardNext]_boardVars
-----------------------------------------------------------------------------
\* A decision is what the votes of its meeting amounted to at some moment, the
\* members with a declared conflict left out: a vote that was on its way when
\* its member declared a conflict is stored, and never counts.  And every request
\* that is told how a run was decided is told the same, whichever requests race:
\* what the decision says, not what the votes say by now.
DecisionHeld ==
    /\ \A r \in Runs : decision[r] # NoDecision =>
            decision[r].kind \in verdicts[decision[r].meeting]
    /\ \A r \in Runs : answered[r] \subseteq {decision[r].kind}

\* "Immutable ratification": the decision on a run is never changed or taken
\* back, whichever requests and meetings race for it.
DecisionFinal ==
    [][\A r \in Runs : decision[r] # NoDecision => decision'[r] = decision[r]]_boardVars

\* A closed meeting has decided a run the way its status says; and a meeting
\* that decided a run is closed, or is being closed, unless the second of the
\* two writes failed (no retry makes it) or a late opening went over it.
MeetingShowsDecision ==
    /\ \A m \in Meetings : meeting[m] \in Closed =>
            \E r \in Runs : decision[r] = [kind |-> meeting[m], meeting |-> m]
    /\ \A r \in Runs : decision[r] # NoDecision =>
            LET m == decision[r].meeting
            IN  \/ meeting[m] \in Closed
                \/ \E c \in BoardCalls : boardCall[c].pc = "close" /\ boardCall[c].meeting = m
                \/ m \in strayed
=============================================================================
