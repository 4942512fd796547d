---------------------------- MODULE CastAnswers -----------------------------
(***************************************************************************)
(* An answer to a question of a live lesson: handleAnswer of               *)
(* socket/cast-handler.js, submitAnswer of services/cast/answer-service.js *)
(* and the client's command with its one retry                             *)
(* (public/js/cast-socket-client.js).  The state of the lesson is read     *)
(* once; the answer is put by a transaction on the key of the question and *)
(* its owner, a participant or, with one device per team, a team; the      *)
(* owner's score is then read and written back in calls of its own.        *)
(* A retry carries the command id of the first delivery.                   *)
(***************************************************************************)
EXTENDS Naturals, FiniteSets

CONSTANTS
    Owners,         \* who answers and is scored
    Prompts,        \* the questions
    AnswerCmds,     \* commands of the clients: [id, owner, prompt, right]
    Deliveries,     \* handlers under way at the same time
    NoCmd,
    MaxMisses       \* bound: calls of the database that fail

ASSUME AnswerAssumption ==
    /\ NoCmd \notin AnswerCmds /\ MaxMisses \in Nat
    /\ \A m \in AnswerCmds : m.owner \in Owners /\ m.prompt \in Prompts /\ m.right \in {0, 1}

VARIABLES
    asked,      \* the questions that are open for answers (CastSession's part)
    given,      \* cast_private/{id}/answers: the command stored for prompt and owner
    tally,      \* cast_sessions/{id}/scores
    delivery,   \* local state of the handlers
    posted,     \* how often the client has sent a command
    heard,      \* commands whose acknowledgement has reached the client
    confirmed,  \* history: commands that were answered with ok
    replayed,   \* history: owners of which a stored answer was put again
    mingled,    \* history: owners of which two scores were computed at a time
    misses      \* calls that have failed

answerVars == <<asked, given, tally, delivery, posted, heard, confirmed, replayed, mingled, misses>>

Tallies == [total : Nat, count : Nat]
NoTally == [total |-> 0, count |-> 0]
Resting == [at |-> "rest", cmd |-> NoCmd, seen |-> NoTally]

CastAnswersType ==
    /\ asked \subseteq Prompts
    /\ given \in [Prompts \X Owners -> AnswerCmds \cup {NoCmd}]
    /\ tally \in [Owners -> Tallies]
    /\ delivery \in [Deliveries -> [at : {"rest", "look", "put", "score", "write", "ack"},
                                    cmd : AnswerCmds \cup {NoCmd}, seen : Tallies]]
    /\ \A d \in Deliveries : delivery[d].at = "rest" <=> delivery[d].cmd = NoCmd
    /\ posted \in [AnswerCmds -> 0..2]
    /\ heard \subseteq confirmed /\ confirmed \subseteq AnswerCmds
    /\ replayed \subseteq Owners /\ mingled \subseteq Owners
    /\ misses \in 0..MaxMisses

CastAnswersInit ==
    /\ asked = {}
    /\ given = [k \in Prompts \X Owners |-> NoCmd]
    /\ tally = [o \in Owners |-> NoTally]
    /\ delivery = [d \in Deliveries |-> Resting]
    /\ posted = [m \in AnswerCmds |-> 0]
    /\ heard = {} /\ confirmed = {} /\ replayed = {} /\ mingled = {}
    /\ misses = 0

AnswerSlot(m) == <<m.prompt, m.owner>>
CmdOf(d) == delivery[d].cmd
Steps(d, at) == delivery' = [delivery EXCEPT ![d].at = at]
Rests(d) == delivery' = [delivery EXCEPT ![d] = Resting]
-----------------------------------------------------------------------------
\* The lesson opens one question and closes it, in any order.
LessonMoves ==
    /\ asked' \in {{}} \cup {{p} : p \in Prompts}
    /\ asked' # asked
    /\ UNCHANGED <<given, tally, delivery, posted, heard, confirmed, replayed, mingled, misses>>

\* sendCommand: once, and once more where no acknowledgement came in time.
MayPost(m) == posted[m] = 0 \/ (posted[m] = 1 /\ m \notin heard)

Post(d, m) ==
    /\ delivery[d].at = "rest"
    /\ MayPost(m)
    /\ posted' = [posted EXCEPT ![m] = @ + 1]
    /\ delivery' = [delivery EXCEPT ![d] = [Resting EXCEPT !.at = "look", !.cmd = m]]
    /\ UNCHANGED <<asked, given, tally, heard, confirmed, replayed, mingled, misses>>

\* submitAnswer: the question has to be the open one.
Look(d) ==
    /\ delivery[d].at = "look"
    /\ IF CmdOf(d).prompt \in asked THEN Steps(d, "put") ELSE Rests(d)
    /\ UNCHANGED <<asked, given, tally, posted, heard, confirmed, replayed, mingled, misses>>

\* Mutant of StoredAs: the later answer replaces the first one.
StoredAsLast(m) == m

\* What putAnswerIfAbsent leaves: the first answer of the owner.
StoredAs(m) == IF given[AnswerSlot(m)] = NoCmd THEN m ELSE given[AnswerSlot(m)]

\* An answer that finds itself is accepted again: nothing sets its replay flag.
Put(d) ==
    /\ delivery[d].at = "put"
    /\ given' = [given EXCEPT ![AnswerSlot(CmdOf(d))] = StoredAs(CmdOf(d))]
    /\ IF given'[AnswerSlot(CmdOf(d))] = CmdOf(d) THEN Steps(d, "score") ELSE Rests(d)
    /\ replayed' = replayed \cup {o \in {CmdOf(d).owner} : given[AnswerSlot(CmdOf(d))] = CmdOf(d)}
    /\ UNCHANGED <<asked, tally, posted, heard, confirmed, mingled, misses>>

\* Another answer of this owner is being added to the score as well.
Together(d) ==
    \E e \in Deliveries \ {d} : delivery[e].at = "write" /\ CmdOf(e).owner = CmdOf(d).owner

TallyRead(d) ==
    /\ delivery[d].at = "score"
    /\ delivery' = [delivery EXCEPT ![d].at = "write", ![d].seen = tally[CmdOf(d).owner]]
    /\ mingled' = mingled \cup {o \in {CmdOf(d).owner} : Together(d)}
    /\ UNCHANGED <<asked, given, tally, posted, heard, confirmed, replayed, misses>>

\* Mutant of Added: the running total is not carried over.
AddedAlone(seen, m) == [total |-> m.right, count |-> seen.count + 1]

Added(seen, m) == [total |-> seen.total + m.right, count |-> seen.count + 1]

TallyWrite(d) ==
    /\ delivery[d].at = "write"
    /\ tally' = [tally EXCEPT ![CmdOf(d).owner] = Added(delivery[d].seen, CmdOf(d))]
    /\ Steps(d, "ack")
    /\ UNCHANGED <<asked, given, posted, heard, confirmed, replayed, mingled, misses>>

\* The acknowledgement may be lost on its way.
AckAnswer(d) ==
    /\ delivery[d].at = "ack"
    /\ confirmed' = confirmed \cup {CmdOf(d)}
    /\ heard' \in {heard, heard \cup {CmdOf(d)}}
    /\ Rests(d)
    /\ UNCHANGED <<asked, given, tally, posted, replayed, mingled, misses>>

\* A call fails and an error is sent; a write that failed may have been made.
Miss(d) ==
    /\ delivery[d].at \in {"look", "put", "score", "write"}
    /\ misses < MaxMisses /\ misses' = misses + 1
    /\ \/ UNCHANGED <<given, tally>>
       \/ /\ delivery[d].at = "put"
          /\ given' = [given EXCEPT ![AnswerSlot(CmdOf(d))] = StoredAs(CmdOf(d))]
          /\ UNCHANGED tally
       \/ /\ delivery[d].at = "write"
          /\ tally' = [tally EXCEPT ![CmdOf(d).owner] = Added(delivery[d].seen, CmdOf(d))]
          /\ UNCHANGED given
    /\ Rests(d)
    /\ UNCHANGED <<asked, posted, heard, confirmed, replayed, mingled>>
-----------------------------------------------------------------------------
AnswersOver ==
    /\ \A m \in AnswerCmds : posted[m] = 2 \/ m \in heard
    /\ UNCHANGED answerVars

CastAnswersNext ==
    \/ LessonMoves \/ AnswersOver
    \/ \E d \in Deliveries :
        \/ \E m \in AnswerCmds : Post(d, m)
        \/ Look(d) \/ Put(d) \/ TallyRead(d) \/ TallyWrite(d) \/ AckAnswer(d) \/ Miss(d)

CastAnswersSpec == CastAnswersInit /\ [][CastAnswersNext]_answerVars
-----------------------------------------------------------------------------
\* Whoever was told that an answer is accepted finds this answer stored, however
\* the devices of a team raced and whatever was retried.
ConfirmedIsStored == \A m \in confirmed : given[AnswerSlot(m)] = m

\* The answers stored for an owner, and those of them not added to the score yet.
Kept(o) == {m \in AnswerCmds : m.owner = o /\ given[AnswerSlot(m)] = m}
Adding(o) == {d \in Deliveries : delivery[d].at \in {"score", "write"} /\ CmdOf(d).owner = o}

\* The score of an owner counts every stored answer once, as soon as its handler
\* is through -- where no stored answer was put again by a retry, no two of the
\* owner's answers were being added at a time, and no call has failed.
ScoreCountsAnswers ==
    \A o \in Owners :
        (o \notin replayed \cup mingled /\ misses = 0) =>
            /\ tally[o].count + Cardinality(Adding(o)) = Cardinality(Kept(o))
            /\ tally[o].total + Cardinality({d \in Adding(o) : CmdOf(d).right = 1})
                  = Cardinality({m \in Kept(o) : m.right = 1})
=============================================================================
