---------------------------- MODULE GradeLedger ----------------------------
(***************************************************************************)
(* The grade of one calculation run after the board has seen it            *)
(* (src/modules/board/board.service.js): the amendments appended to it,    *)
(* its releases to the student information system's outbox, and the        *)
(* acknowledgements of that system.  Requests read, compute and write in   *)
(* separate calls of the database; three unique indexes are what keeps     *)
(* them apart.  The decision of the board is BoardMeeting's: here it is    *)
(* taken once, either way, and stays.                                      *)
(***************************************************************************)
EXTENDS Naturals, FiniteSets, GradeNumbers

CONSTANTS
    RunGrade,       \* final_grade of the run, which is never overwritten
    MaxAmendments,  \* maxAmendmentsPerRun
    LedgerCalls     \* requests under way at the same time

ASSUME LedgerAssumption ==
    /\ RunGrade \in Grades
    /\ MaxAmendments \in Nat

VARIABLES
    ratified,   \* board_decisions: the kind of the decision, or none
    ledger,     \* grade_amendments: a set of rows
    outbox,     \* sis_outbox: a set of rows, told apart by their version
    ledgerCall, \* local state of the requests
    promised,   \* history: the amendments whose request was told they are made
    overlapped  \* history: whether two acknowledgements of a release overlapped

ledgerVars == <<ratified, ledger, outbox, ledgerCall, promised, overlapped>>

Versions == 0..MaxAmendments

\* asked is not in the table: it goes to the audit.
Amendments == [no : Nat \ {0}, old : Grades, new : Grades, asked : Asked]
OutboxStatuses == {"pending", "sent", "reconciled", "failed"}
Releases == [version : Versions, grade : Grades \cup {NoGrade}, status : OutboxStatuses]

LedgerCallType ==
    [pc : {"idle", "amend", "insert", "release", "enqueue", "ack"},
     no : Nat, old : Grades \cup {NoGrade}, asked : Asked \cup {NoGrade},
     grade : Grades \cup {NoGrade}, status : OutboxStatuses]

LedgerType ==
    /\ ratified \in {"none", "ratified", "rejected"}
    /\ ledger \subseteq Amendments
    /\ outbox \subseteq Releases
    /\ ledgerCall \in [LedgerCalls -> LedgerCallType]
    /\ promised \subseteq Amendments
    /\ overlapped \in BOOLEAN

IdleLedgerCall ==
    [pc |-> "idle", no |-> 0, old |-> NoGrade, asked |-> NoGrade, grade |-> NoGrade,
     status |-> "pending"]

LedgerInit ==
    /\ ratified = "none"
    /\ ledger = {} /\ outbox = {} /\ promised = {}
    /\ ledgerCall = [c \in LedgerCalls |-> IdleLedgerCall]
    /\ overlapped = FALSE

Idle(c) == ledgerCall[c].pc = "idle"
Call(c, call) == ledgerCall' = [ledgerCall EXCEPT ![c] = call]
Done(c) == Call(c, IdleLedgerCall)
-----------------------------------------------------------------------------
\* Mutant of Decide: a rejected run may still be ratified.
DecideAgain ==
    /\ ratified # "ratified"
    /\ ratified' \in {"ratified", "rejected"}
    /\ UNCHANGED <<ledger, outbox, ledgerCall, promised, overlapped>>

\* ratifyResult, as far as the ledger sees it.
Decide ==
    /\ ratified = "none"
    /\ ratified' \in {"ratified", "rejected"}
    /\ UNCHANGED <<ledger, outbox, ledgerCall, promised, overlapped>>
-----------------------------------------------------------------------------
\* The rows in the order of their numbers: the last of them, and the grade
\* that counts after all of them.

LastOf(rows) == CHOOSE row \in rows : \A other \in rows : other.no <= row.no

EffectiveGrade(rows) == IF rows = {} THEN RunGrade ELSE LastOf(rows).new

\* appendAmendment: the run has a grade; nobody asks for a decision.
AmendBegin(c) ==
    /\ Idle(c)
    /\ \E asked \in Asked : Call(c, [IdleLedgerCall EXCEPT !.pc = "amend", !.asked = asked])
    /\ UNCHANGED <<ratified, ledger, outbox, promised, overlapped>>

\* The next number, and the grade that is replaced; an amendment that asks
\* for that grade, or one too many, is refused.
AmendRead(c) ==
    /\ ledgerCall[c].pc = "amend"
    /\ LET no == Cardinality(ledger) + 1
           old == EffectiveGrade(ledger)
       IN  IF SameNumber(old, ledgerCall[c].asked) \/ no > MaxAmendments
           THEN Done(c)
           ELSE Call(c, [ledgerCall[c] EXCEPT !.pc = "insert", !.no = no, !.old = old])
    /\ UNCHANGED <<ratified, ledger, outbox, promised, overlapped>>

\* Mutant of NumberTaken: without uq_grade_amendment.
NumberFree(no) == FALSE

\* uq_grade_amendment
NumberTaken(no) == \E row \in ledger : row.no = no

\* The row that the request stores: its column rounds what was asked for.
Amendment(me) ==
    [no |-> me.no, old |-> me.old, new |-> Rounded[me.asked], asked |-> me.asked]

\* The row is stored, or the index turns it away and the request fails.
AmendInsert(c) ==
    /\ ledgerCall[c].pc = "insert"
    /\ LET me == ledgerCall[c]
           row == Amendment(me)
       IN  IF NumberTaken(me.no)
           THEN UNCHANGED <<ledger, promised>>
           ELSE /\ ledger' = ledger \cup {row}
                /\ promised' = promised \cup {row}
    /\ Done(c)
    /\ UNCHANGED <<ratified, outbox, overlapped>>
-----------------------------------------------------------------------------
\* releaseBatch

ReleaseBegin(c) ==
    /\ Idle(c)
    /\ ratified = "ratified"
    /\ Call(c, [IdleLedgerCall EXCEPT !.pc = "release"])
    /\ UNCHANGED <<ratified, ledger, outbox, promised, overlapped>>

\* Mutant of ReleaseRead: the grade is the run's, as it was ratified.
ReleaseReadRun(c) ==
    /\ ledgerCall[c].pc = "release"
    /\ Call(c, [ledgerCall[c] EXCEPT !.pc = "enqueue", !.no = Cardinality(ledger), !.grade = RunGrade])
    /\ UNCHANGED <<ratified, ledger, outbox, promised, overlapped>>

\* The version and the grade come from one read of the amendments.
ReleaseRead(c) ==
    /\ ledgerCall[c].pc = "release"
    /\ Call(c, [ledgerCall[c] EXCEPT !.pc = "enqueue", !.no = Cardinality(ledger),
                                     !.grade = EffectiveGrade(ledger)])
    /\ UNCHANGED <<ratified, ledger, outbox, promised, overlapped>>

\* uq_sis_outbox_key: the key is made of the run and the version.
KeyTaken(version) == \E row \in outbox : row.version = version

\* A release of this version is there already: it is the answer.
ReleaseInsert(c) ==
    /\ ledgerCall[c].pc = "enqueue"
    /\ LET me == ledgerCall[c]
       IN  outbox' = IF KeyTaken(me.no) THEN outbox
                     ELSE outbox \cup {[version |-> me.no, grade |-> Payload(me.grade),
                                         status |-> "pending"]}
    /\ Done(c)
    /\ UNCHANGED <<ratified, ledger, promised, overlapped>>
-----------------------------------------------------------------------------
\* reconcileOutbox

\* Mutant of AckRead: a reconciled release is acknowledged again.
AckAgain(c) ==
    /\ Idle(c)
    /\ \E row \in outbox, status \in OutboxStatuses :
        Call(c, [IdleLedgerCall EXCEPT !.pc = "ack", !.no = row.version, !.status = status])
    /\ UNCHANGED <<ratified, ledger, outbox, promised, overlapped>>

\* The row is read, and written whatever it has become.
AckRead(c) ==
    /\ Idle(c)
    /\ \E row \in outbox, status \in OutboxStatuses :
        /\ row.status # "reconciled"
        /\ Call(c, [IdleLedgerCall EXCEPT !.pc = "ack", !.no = row.version, !.status = status])
        /\ overlapped' = (overlapped \/ \E other \in LedgerCalls \ {c} :
                            ledgerCall[other].pc = "ack" /\ ledgerCall[other].no = row.version)
    /\ UNCHANGED <<ratified, ledger, outbox, promised>>

AckWrite(c) ==
    /\ ledgerCall[c].pc = "ack"
    /\ LET me == ledgerCall[c]
       IN  outbox' = {IF row.version = me.no THEN [row EXCEPT !.status = me.status] ELSE row :
                        row \in outbox}
    /\ Done(c)
    /\ UNCHANGED <<ratified, ledger, promised, overlapped>>

\* A call of the database fails, as for a grade the column has no room for, or
\* the process dies.
LedgerFault(c) ==
    /\ ~Idle(c)
    /\ Done(c)
    /\ UNCHANGED <<ratified, ledger, outbox, promised, overlapped>>

\* Nobody is told of the row although it is there.
AmendAnswerLost(c) ==
    /\ ledgerCall[c].pc = "insert"
    /\ LET me == ledgerCall[c]
       IN  /\ ~NumberTaken(me.no)
           /\ ledger' = ledger \cup {Amendment(me)}
    /\ Done(c)
    /\ UNCHANGED <<ratified, outbox, promised, overlapped>>
-----------------------------------------------------------------------------
LedgerStep(c) ==
    \/ AmendBegin(c) \/ AmendRead(c) \/ AmendInsert(c) \/ AmendAnswerLost(c)
    \/ ReleaseBegin(c) \/ ReleaseRead(c) \/ ReleaseInsert(c)
    \/ AckRead(c) \/ AckWrite(c)
    \/ LedgerFault(c)

LedgerNext == Decide \/ \E c \in LedgerCalls : LedgerStep(c)

LedgerSpec == LedgerInit /\ [][LedgerNext]_ledgerVars
-----------------------------------------------------------------------------
\* The first rows, up to a number.
UpTo(n) == {row \in ledger : row.no <= n}

\* The grade of each version so far, and what was sent of it.
GradeOfVersion == [n \in 0..Cardinality(ledger) |-> EffectiveGrade(UpTo(n))]
Sent == {[version |-> row.version, grade |-> row.grade] : row \in outbox}

Promise == INSTANCE GradeBook WITH
    decision <- ratified, top <- Cardinality(ledger), grades <- GradeOfVersion, sent <- Sent

\* Requests that read, compute and write in separate calls implement a book in
\* which a decision, an amendment and a release are one step each
\* (appendAmendment, releaseBatch): what an amendment computed from an old
\* read is either turned away or still right when it is written.
ImplementsGradeBook == Promise!Spec

ChangesAsAsked(row) ==
    row.asked \in Grades \ {NotANumber} => row.new = row.asked /\ row.new # row.old

\* The ledger is a chain, whoever appends to it at the same time: numbered from
\* one without a gap, within the limit, each row naming as old the grade that
\* the row before it set and the first one the run's; what was confirmed is in
\* it; and an amendment to a grade of two decimals sets and changes it, so that
\* its retry after a lost answer is not appended twice in a row.  Of a number
\* with more decimals neither is true (validateAmendment compares it unrounded).
LedgerIsChain ==
    /\ promised \subseteq ledger
    /\ {row.no : row \in ledger} = 1..Cardinality(ledger)
    /\ Cardinality(ledger) <= MaxAmendments
    /\ \A row \in ledger :
        ChangesAsAsked(row) /\ row.old = EffectiveGrade(UpTo(row.no - 1))

\* The student information system is sent a grade only after the board has
\* ratified one, and under the key of a version the grade that counted after so
\* many amendments, once, and null for NaN: a release that is overtaken by an amendment between
\* its read and its write carries the version it has the grade of.
ReleaseIsVersion ==
    /\ outbox # {} => ratified = "ratified"
    /\ \A row \in outbox :
        /\ row.version <= Cardinality(ledger) /\ row.grade = Payload(EffectiveGrade(UpTo(row.version)))
        /\ \A other \in outbox : other.version = row.version => other = row

\* An amendment that was confirmed stays, and what was released is not changed.
LedgerAppends ==
    [][/\ promised \subseteq ledger'
       /\ \A row \in outbox : \E new \in outbox' :
            new.version = row.version /\ new.grade = row.grade]_ledgerVars

\* A reconciled release stays reconciled, as long as no two acknowledgements of
\* it overlap: the read that turns the later one away is all that protects it.
ReconciledFinal ==
    [][\A row \in outbox : (row.status = "reconciled" /\ ~overlapped) => row \in outbox']_ledgerVars
=============================================================================
