---------------------------- MODULE GameSession ----------------------------
(***************************************************************************)
(* One live quiz game (socket/game-handler.js).  The session is a tree of  *)
(* the realtime database that every handler reads and writes one node at a *)
(* time, each access an await; the timers that end a preview and a         *)
(* question live in the process, in a map of references by kind.           *)
(*                                                                         *)
(* A timer is "held" while the map refers to it, so that it can be         *)
(* cleared, and "lost" when another reference has replaced it: it still    *)
(* fires, and nothing can clear it.                                        *)
(*                                                                         *)
(* An option is told apart by whether it is the right one; every right     *)
(* answer is worth one point.                                              *)
(***************************************************************************)
EXTENDS Naturals, FiniteSets

CONSTANTS
    Players, Bots,  \* names of players and of the host's bots
    Joins,          \* invocations of player:join
    Answering,      \* invocations of player:answer and arena:botAnswer
    Computing,      \* invocations of computeScoresAndShowLB that may overlap
    Questions,      \* the last index of a question
    Tokens, NoToken,    \* idempotency keys; a bot and the web player send none
    NoQuestion, NoAnswer,
    GameRequests,       \* the answers that may be sent: by whom, and which
    AutoMode,       \* settings.auto
    MaxEvents       \* bound: commands and disconnects of the host, and failed calls

QIndex == 0..Questions
Names == Players \cup Bots

\* An answer as it is stored: its option, and its idempotency key.
GameAnswers == [right : BOOLEAN, token : Tokens \cup {NoToken}]

ASSUME GameAssumption ==
    /\ Questions \in Nat
    /\ NoQuestion \notin QIndex
    /\ NoToken \notin Tokens
    /\ NoAnswer \notin GameAnswers
    /\ GameRequests \subseteq [name : Names, answer : GameAnswers]
    /\ AutoMode \in BOOLEAN
    /\ Players # {} /\ Players \cap Bots = {}
    /\ MaxEvents \in Nat

VARIABLES
    game,       \* state.status and state.q_index
    players,    \* the players node
    answers,    \* the answers node
    results,    \* whether the results node is there
    held,       \* activeTimers: the question each kind of timer is for
    lost,       \* pending timers nothing refers to, by kind and question
    joining, answering, computing,  \* local state of the invocations
    preview,    \* showQuestionPreview between its two writes: the question
    activate,   \* activateQuestion between a timer and the next one
    ending,     \* host:end and endGame
    commands, incidents,    \* what the bounds count
    acked, due, paid, reveals, raced    \* history, not in the code

sessionVars == <<game, players, answers, results>>
timerVars == <<held, lost>>
flowVars == <<preview, activate, ending>>
callVars == <<joining, answering, computing>>
boundVars == <<commands, incidents>>
historyVars == <<acked, due, paid, reveals, raced>>

gameVars == <<sessionVars, timerVars, flowVars, callVars, boundVars, historyVars>>

Kinds == {"previewTimer", "questionTimer", "autoNext"}
GameStatuses ==
    {"waiting", "question_preview", "question_active", "leaderboard", "ended", "gone"}

\* acked: the answers a player has got an "accepted" for; due: those of them
\* that were right when a computation of their question started; paid: how
\* often a computation has credited an answer; raced: two computations, or two
\* joins under one name, have overlapped.
GameType ==
    /\ game \in [status : GameStatuses, q : QIndex]
    /\ players \in [Names -> [joined : BOOLEAN, score : Nat]]
    /\ answers \in [QIndex -> [Names -> GameAnswers \cup {NoAnswer}]]
    /\ results \in BOOLEAN
    /\ held \in [Kinds -> QIndex \cup {NoQuestion}]
    /\ lost \in [Kinds -> [QIndex -> Nat]]
    /\ preview \in QIndex \cup {NoQuestion}
    /\ activate \in [pc : {"idle", "update", "timer"}, q : QIndex]
    /\ ending \in {"no", "check", "scoring", "results", "state"}
    /\ joining \in [Joins -> [pc : {"idle", "name", "store", "done"}, name : Players]]
    /\ answering \in [Answering ->
            [pc : {"idle", "token", "look", "store", "ack", "count", "done"},
             q : QIndex, name : Names, answer : GameAnswers, blind : BOOLEAN]]
    /\ computing \in [Computing ->
            [pc : {"idle", "read", "write", "show", "late"}, q : QIndex,
             answered : SUBSET Names, right : SUBSET Names, scores : [Names -> Nat],
             thenEnd : BOOLEAN]]
    /\ commands \in 0..MaxEvents /\ incidents \in 0..MaxEvents
    /\ acked \subseteq QIndex \X Names /\ due \subseteq QIndex \X Names
    /\ paid \in [QIndex -> [Names -> Nat]] /\ reveals \in [QIndex -> Nat]
    /\ raced \in BOOLEAN

AnyPlayer == CHOOSE p \in Players : TRUE
NoScores == [p \in Names |-> 0]

IdleAnswer ==
    [pc |-> "idle", q |-> 0, name |-> AnyPlayer, answer |-> [right |-> FALSE, token |-> NoToken],
     blind |-> TRUE]
DoneAnswer == [IdleAnswer EXCEPT !.pc = "done"]

IdleComputing ==
    [pc |-> "idle", q |-> 0, answered |-> {}, right |-> {}, scores |-> NoScores,
     thenEnd |-> FALSE]

\* A game as host:create has just stored it.
GameInit ==
    /\ game = [status |-> "waiting", q |-> 0]
    /\ players = [p \in Names |-> [joined |-> FALSE, score |-> 0]]
    /\ answers = [q \in QIndex |-> [p \in Names |-> NoAnswer]]
    /\ results = FALSE
    /\ held = [k \in Kinds |-> NoQuestion]
    /\ lost = [k \in Kinds |-> [q \in QIndex |-> 0]]
    /\ preview = NoQuestion
    /\ activate = [pc |-> "idle", q |-> 0]
    /\ ending = "no"
    /\ joining = [j \in Joins |-> [pc |-> "idle", name |-> AnyPlayer]]
    /\ answering = [c \in Answering |-> IdleAnswer]
    /\ computing = [k \in Computing |-> IdleComputing]
    /\ commands = 0 /\ incidents = 0
    /\ acked = {} /\ due = {} /\ raced = FALSE
    /\ paid = [q \in QIndex |-> [p \in Names |-> 0]]
    /\ reveals = [q \in QIndex |-> 0]
-----------------------------------------------------------------------------
\* Timers.

NothingHeld == [k \in Kinds |-> NoQuestion]

\* A new reference takes the place of the old one, which is not cleared.
Hold(kind, q) ==
    /\ held' = [held EXCEPT ![kind] = q]
    /\ lost' = IF held[kind] = NoQuestion
               THEN lost ELSE [lost EXCEPT ![kind][held[kind]] = @ + 1]

\* The references and the lost timers once a timer of this kind has fired.
Fired(kind, q) ==
    {left \in {[held |-> [held EXCEPT ![kind] = NoQuestion], lost |-> lost]} :
        held[kind] = q}
    \cup {[held |-> held, lost |-> [lost EXCEPT ![kind][q] = n]] :
            n \in {m \in 0..lost[kind][q] : m + 1 = lost[kind][q]}}
-----------------------------------------------------------------------------
\* player:join

DoneJoin == [pc |-> "done", name |-> AnyPlayer]

JoinRead(j, p) ==
    /\ joining[j].pc = "idle"
    /\ game.status = "waiting"
    /\ joining' = [joining EXCEPT ![j] = [pc |-> "name", name |-> p]]
    /\ UNCHANGED <<sessionVars, timerVars, flowVars, answering, computing, boundVars, historyVars>>

JoinName(j) ==
    /\ joining[j].pc = "name"
    /\ joining' = [joining EXCEPT ![j] =
            IF players[@.name].joined THEN DoneJoin ELSE [@ EXCEPT !.pc = "store"]]
    /\ UNCHANGED <<sessionVars, timerVars, flowVars, answering, computing, boundVars, historyVars>>

JoinStore(j) ==
    /\ joining[j].pc = "store"
    /\ LET p == joining[j].name
       IN  /\ players' = [players EXCEPT ![p] = [joined |-> TRUE, score |-> 0]]
           /\ raced' = (raced \/ players[p].joined)
    /\ joining' = [joining EXCEPT ![j] = DoneJoin]
    /\ UNCHANGED <<game, answers, results, timerVars, flowVars, answering, computing, boundVars,
                   acked, due, paid, reveals>>
-----------------------------------------------------------------------------
\* computeScoresAndShowLB, from the call to its last write.

Stored(q) == {p \in Names : answers[q][p] # NoAnswer}

RightAnswers(q) == {p \in Stored(q) : answers[q][p].right}

\* The call: its timer autoNext is cleared, the rest runs later.
StartScoring(q, timers, thenEnd) ==
    LET free == {k \in Computing : computing[k].pc = "idle"}
        k == CHOOSE each \in free : TRUE
    IN  /\ free # {}
        /\ computing' = [computing EXCEPT ![k] =
                            [IdleComputing EXCEPT !.pc = "read", !.q = q, !.thenEnd = thenEnd]]
        /\ held' = [timers EXCEPT !["autoNext"] = NoQuestion]
        /\ raced' = (raced \/ free # Computing)
        /\ due' = due \cup {pair \in acked : pair[1] = q /\ pair[2] \in RightAnswers(q)}
        /\ UNCHANGED <<acked, paid, reveals>>

\* The reads: nothing that happens between them changes the players.
ScoreRead(k) ==
    /\ computing[k].pc = "read"
    /\ LET q == computing[k].q
       IN  computing' = [computing EXCEPT ![k].pc = "write", ![k].answered = Stored(q),
                                          ![k].right = RightAnswers(q),
                                          ![k].scores = [p \in Names |-> players[p].score]]
    /\ UNCHANGED <<sessionVars, timerVars, flowVars, joining, answering, boundVars, historyVars>>

\* Mutant of Credit: two points for one answer.
CreditTwice(k, p) == computing[k].scores[p] + 2

\* A score once this computation has credited it.
Credit(k, p) == computing[k].scores[p] + 1

\* The writes for the answers of the players in some, made together: totalTime,
\* which makes a record for a bot that never joined, and score when right.
Written(k, some) ==
    /\ players' = [p \in Names |->
            IF p \notin some THEN players[p]
            ELSE [joined |-> TRUE,
                  score |-> IF p \in computing[k].right THEN Credit(k, p) ELSE players[p].score]]
    /\ paid' = [paid EXCEPT ![computing[k].q] = [p \in Names |->
            IF p \in some \cap computing[k].right THEN @[p] + 1 ELSE @[p]]]
    /\ UNCHANGED <<game, answers, results, lost, preview, activate, joining, answering,
                   acked, due, reveals, raced>>

ScoreWrite(k) ==
    /\ computing[k].pc = "write"
    /\ Written(k, computing[k].answered)
    /\ computing' = [computing EXCEPT ![k].pc = "show"]
    /\ UNCHANGED <<held, ending, boundVars>>

\* host:end goes on to endGame, which clears the timers.
AfterScoring(k) ==
    /\ ending' = IF computing[k].thenEnd THEN "results" ELSE ending
    /\ held' = IF computing[k].thenEnd THEN NothingHeld ELSE held

\* The call returns.
ScoringReturns(k) ==
    /\ computing' = [computing EXCEPT ![k] = IdleComputing]
    /\ AfterScoring(k)

\* The leaderboard, and the right answer for everybody to see.
ScoreShow(k) ==
    /\ computing[k].pc = "show"
    /\ game' = [status |-> "leaderboard", q |-> computing[k].q]
    /\ reveals' = [reveals EXCEPT ![computing[k].q] = @ + 1]
    /\ ScoringReturns(k)
    /\ UNCHANGED <<players, answers, results, lost, preview, activate, joining, answering,
                   boundVars, acked, due, paid, raced>>
-----------------------------------------------------------------------------
\* showQuestionPreview and activateQuestion

ShowPreview(q) ==
    /\ preview = NoQuestion
    /\ game' = [status |-> "question_preview", q |-> q]
    /\ preview' = q
    /\ UNCHANGED <<players, answers, results, timerVars, activate, ending, callVars, incidents,
                   historyVars>>

PreviewTimer ==
    /\ preview # NoQuestion
    /\ Hold("previewTimer", preview)
    /\ preview' = NoQuestion
    /\ UNCHANGED <<sessionVars, activate, ending, callVars, boundVars, historyVars>>

PreviewEnds(q) ==
    /\ activate.pc = "idle"
    /\ \E left \in Fired("previewTimer", q) : held' = left.held /\ lost' = left.lost
    /\ activate' = [pc |-> "update", q |-> q]
    /\ UNCHANGED <<sessionVars, preview, ending, callVars, boundVars, historyVars>>

\* The update merges into the node: q_index is whatever is there.
Activate ==
    /\ activate.pc = "update"
    /\ game' = [game EXCEPT !.status = "question_active"]
    /\ activate' = [activate EXCEPT !.pc = "timer"]
    /\ UNCHANGED <<players, answers, results, timerVars, preview, ending, callVars, boundVars,
                   historyVars>>

\* Mutant of QuestionTimer: no timer for the question.
QuestionTimerUnset ==
    /\ activate.pc = "timer"
    /\ activate' = [activate EXCEPT !.pc = "idle"]
    /\ UNCHANGED <<sessionVars, timerVars, preview, ending, callVars, boundVars, historyVars>>

QuestionTimer ==
    /\ activate.pc = "timer"
    /\ Hold("questionTimer", activate.q)
    /\ activate' = [activate EXCEPT !.pc = "idle"]
    /\ UNCHANGED <<sessionVars, preview, ending, callVars, boundVars, historyVars>>

TimeIsUp(q) ==
    /\ \E left \in Fired("questionTimer", q) :
          /\ lost' = left.lost
          /\ \/ AutoMode /\ StartScoring(q, left.held, FALSE)
             \/ ~AutoMode /\ held' = left.held /\ UNCHANGED <<computing, historyVars>>
    /\ UNCHANGED <<sessionVars, flowVars, joining, answering, boundVars>>

AllAnswered(q) ==
    /\ \E left \in Fired("autoNext", q) :
          lost' = left.lost /\ StartScoring(q, left.held, FALSE)
    /\ UNCHANGED <<sessionVars, flowVars, joining, answering, boundVars>>
-----------------------------------------------------------------------------
\* player:answer and arena:botAnswer.  A request that fails its checks ends
\* there; one that passes is for the active question.

AnswerRead(c, r) ==
    /\ answering[c].pc = "idle"
    /\ c = CHOOSE each \in Answering : answering[each].pc = "idle"
    /\ game.status = "question_active"
    /\ r.name \in Bots \/ players[r.name].joined
    /\ answering' = [answering EXCEPT ![c] =
            [IdleAnswer EXCEPT !.pc = IF r.answer.token = NoToken THEN "look" ELSE "token",
                               !.q = game.q, !.name = r.name, !.answer = r.answer]]
    /\ UNCHANGED <<sessionVars, timerVars, flowVars, joining, computing, boundVars, historyVars>>

StoredFor(c) == answers[answering[c].q][answering[c].name]

Slot(c) == <<answering[c].q, answering[c].name>>

\* A retry gets its "accepted" again, or a refusal when its option is another.
AnswerReplay(c) ==
    /\ answering[c].pc = "token"
    /\ LET replay == StoredFor(c) # NoAnswer /\ StoredFor(c).token = answering[c].answer.token
       IN  /\ answering' = [answering EXCEPT
                    ![c] = IF replay THEN DoneAnswer ELSE [@ EXCEPT !.pc = "look"]]
           /\ acked' = IF replay /\ StoredFor(c).right = answering[c].answer.right
                       THEN acked \cup {Slot(c)} ELSE acked
    /\ UNCHANGED <<sessionVars, timerVars, flowVars, joining, computing, boundVars, due, paid,
                   reveals, raced>>

\* Mutant of AnswerLook: a stored answer is not looked for.
AnswerLookOnce(c) ==
    /\ answering[c].pc = "look"
    /\ answering' = [answering EXCEPT ![c].pc = "store", ![c].blind = Slot(c) \notin acked]
    /\ UNCHANGED <<sessionVars, timerVars, flowVars, joining, computing, boundVars, historyVars>>

AnswerLook(c) ==
    /\ answering[c].pc = "look"
    /\ answering' = [answering EXCEPT
            ![c] = IF StoredFor(c) # NoAnswer THEN DoneAnswer
                   ELSE [@ EXCEPT !.pc = "store", !.blind = Slot(c) \notin acked]]
    /\ UNCHANGED <<sessionVars, timerVars, flowVars, joining, computing, boundVars, historyVars>>

AnswerStore(c) ==
    /\ answering[c].pc = "store"
    /\ answers' = [answers EXCEPT ![answering[c].q][answering[c].name] = answering[c].answer]
    /\ answering' = [answering EXCEPT ![c].pc = "ack"]
    /\ due' = due \ {Slot(c)}
    /\ UNCHANGED <<game, players, results, timerVars, flowVars, joining, computing, boundVars,
                   acked, paid, reveals, raced>>

\* The re-read only logs; the reply is "accepted" whatever it finds.
AnswerAck(c) ==
    /\ answering[c].pc = "ack"
    /\ acked' = acked \cup {Slot(c)}
    /\ answering' = [answering EXCEPT ![c].pc = "count"]
    /\ UNCHANGED <<sessionVars, timerVars, flowVars, joining, computing, boundVars, due, paid,
                   reveals, raced>>

\* The answers and the players are counted; when everybody has answered, the
\* timer autoNext is set anew.
AnswerCount(c) ==
    /\ answering[c].pc = "count"
    /\ held' = IF AutoMode /\ Cardinality(Stored(answering[c].q))
                            >= Cardinality({p \in Names : players[p].joined})
               THEN [held EXCEPT !["autoNext"] = answering[c].q] ELSE held
    /\ answering' = [answering EXCEPT ![c] = DoneAnswer]
    /\ UNCHANGED <<sessionVars, lost, flowVars, joining, computing, boundVars, historyVars>>
-----------------------------------------------------------------------------
\* Commands of the host, whose page (views/game/host.ejs) offers "start" in the
\* lobby, "next" once a leaderboard has been shown and "force next" and "end"
\* after the start.  An index it sends is one it has been shown, maybe of old.

HostCommand ==
    commands + incidents < MaxEvents /\ commands' = commands + 1 /\ UNCHANGED incidents

Exists == game.status # "gone"
Started == Exists /\ game.status # "waiting"

\* The page offers the start in the lobby and sends it once (hasStarted,
\* views/game/host.ejs); the handler does not ask for the status.  Bound: the
\* host starts when no join is in flight.
HostStart ==
    /\ HostCommand
    /\ game.status = "waiting"
    /\ \A j \in Joins : joining[j].pc \in {"idle", "done"}
    /\ ShowPreview(0)

HostNext(i) ==
    /\ HostCommand /\ Started
    /\ reveals[i] > 0 /\ i < Questions
    /\ ShowPreview(i + 1)

\* endGame: it clears every timer, then reads the players.
HostLast ==
    /\ HostCommand /\ Started
    /\ reveals[Questions] > 0 /\ ending = "no"
    /\ held' = NothingHeld /\ ending' = "results"
    /\ UNCHANGED <<sessionVars, lost, preview, activate, callVars, historyVars>>

\* For a session that is gone, the computation returns at once.
HostForceNext(i) ==
    /\ HostCommand /\ Started
    /\ i <= game.q /\ StartScoring(i, NothingHeld, FALSE)
    /\ UNCHANGED <<sessionVars, lost, flowVars, joining, answering>>

HostEnd ==
    /\ HostCommand /\ Started
    /\ ending = "no"
    /\ held' = NothingHeld /\ ending' = "check"
    /\ UNCHANGED <<sessionVars, lost, preview, activate, callVars, historyVars>>

EndCheck ==
    /\ ending = "check"
    /\ \/ /\ game.status \in {"question_active", "question_preview"}
          /\ StartScoring(game.q, held, TRUE)
          /\ ending' = "scoring"
       \/ /\ game.status \notin {"question_active", "question_preview"}
          /\ held' = NothingHeld /\ ending' = "results"
          /\ UNCHANGED <<computing, historyVars>>
    /\ UNCHANGED <<sessionVars, lost, preview, activate, joining, answering, boundVars>>

EndResults ==
    /\ ending = "results"
    /\ results' = TRUE /\ ending' = "state"
    /\ UNCHANGED <<game, players, answers, timerVars, preview, activate, callVars, boundVars,
                   historyVars>>

EndState ==
    /\ ending = "state"
    /\ game' = [game EXCEPT !.status = "ended"] /\ ending' = "no"
    /\ UNCHANGED <<players, answers, results, timerVars, preview, activate, callVars, boundVars,
                   historyVars>>

Incident ==
    commands + incidents < MaxEvents /\ incidents' = incidents + 1 /\ UNCHANGED commands

HostDisconnect ==
    /\ Incident
    /\ held' = NothingHeld
    /\ UNCHANGED <<sessionVars, lost, flowVars, callVars, historyVars>>
-----------------------------------------------------------------------------
InFlight ==
    \/ \E j \in Joins : joining[j].pc \in {"name", "store"}
    \/ \E c \in Answering : answering[c].pc \notin {"idle", "done"}
    \/ \E k \in Computing : computing[k].pc # "idle"
    \/ preview # NoQuestion \/ activate.pc # "idle" \/ ending # "no"

\* A cleanup, five minutes after the end or an hour after the creation.  Bound:
\* one that takes an hour-old game from under running handlers or lost timers is
\* not followed; what those still write is removed by the cleanup a minute later.
Cleanup ==
    /\ Exists /\ ~InFlight
    /\ \A kind \in Kinds, q \in QIndex : lost[kind][q] = 0
    /\ game' = [game EXCEPT !.status = "gone"]
    /\ players' = [p \in Names |-> [joined |-> FALSE, score |-> 0]]
    /\ answers' = [q \in QIndex |-> [p \in Names |-> NoAnswer]]
    /\ held' = NothingHeld
    /\ UNCHANGED <<results, lost, flowVars, callVars, boundVars, historyVars>>

\* A call of the database rejects.  The handlers catch it and end; a write may
\* have been made.

AnswerFault(c) ==
    /\ Incident
    /\ answering[c].pc \notin {"idle", "done"}
    /\ answering' = [answering EXCEPT ![c] = DoneAnswer]
    /\ \/ UNCHANGED <<answers, due>>
       \/ /\ answering[c].pc = "store"
          /\ answers' = [answers EXCEPT ![answering[c].q][answering[c].name] = answering[c].answer]
          /\ due' = due \ {Slot(c)}
    /\ UNCHANGED <<game, players, results, timerVars, flowVars, joining, computing, acked, paid,
                   reveals, raced>>

ScoreFault(k) ==
    /\ Incident
    /\ computing[k].pc \in {"read", "show"}
    /\ ScoringReturns(k)
    /\ UNCHANGED <<sessionVars, lost, preview, activate, joining, answering, historyVars>>

\* The reads of the right option are caught (getPrivateCorrect): the computation
\* goes on, and no answer is right.
KeyUnread(k) ==
    /\ Incident
    /\ computing[k].pc = "read"
    /\ computing' = [computing EXCEPT
            ![k].pc = "write", ![k].answered = Stored(computing[k].q), ![k].right = {},
            ![k].scores = [p \in Names |-> players[p].score]]
    /\ UNCHANGED <<sessionVars, timerVars, flowVars, joining, answering, historyVars>>

\* The call returns at the first write that rejects, with the others under way.
WriteFault(k) ==
    /\ Incident
    /\ computing[k].pc = "write"
    /\ computing' = [computing EXCEPT ![k].pc = "late", ![k].thenEnd = FALSE]
    /\ AfterScoring(k)
    /\ UNCHANGED <<sessionVars, lost, preview, activate, joining, answering, historyVars>>

\* Some of them are made.
ScoreLate(k) ==
    /\ computing[k].pc = "late"
    /\ \E some \in SUBSET computing[k].answered : Written(k, some)
    /\ computing' = [computing EXCEPT ![k] = IdleComputing]
    /\ UNCHANGED <<held, ending, boundVars>>

FlowFault ==
    /\ Incident
    /\ \/ preview # NoQuestion /\ preview' = NoQuestion /\ UNCHANGED <<activate, ending>>
       \/ activate.pc = "update" /\ activate' = [activate EXCEPT !.pc = "idle"]
          /\ UNCHANGED <<preview, ending>>
       \/ ending \in {"check", "results", "state"} /\ ending' = "no"
          /\ UNCHANGED <<preview, activate>>
    /\ UNCHANGED <<sessionVars, timerVars, callVars, historyVars>>
-----------------------------------------------------------------------------
JoinNext == \E j \in Joins : (\E p \in Players : JoinRead(j, p)) \/ JoinName(j) \/ JoinStore(j)

AnswerStep(c) ==
    \/ AnswerReplay(c) \/ AnswerLook(c) \/ AnswerStore(c) \/ AnswerAck(c) \/ AnswerCount(c)

AnswerNext ==
    \E c \in Answering :
        (\E r \in GameRequests : AnswerRead(c, r)) \/ AnswerStep(c)

ScoreStep(k) == ScoreRead(k) \/ ScoreWrite(k) \/ ScoreShow(k) \/ ScoreLate(k)

FlowStep ==
    \/ PreviewTimer \/ Activate \/ QuestionTimer
    \/ EndCheck \/ EndResults \/ EndState

TimerStep == \E q \in QIndex : PreviewEnds(q) \/ TimeIsUp(q) \/ AllAnswered(q)

HostNextStep ==
    \/ HostStart \/ HostLast \/ HostEnd \/ HostDisconnect
    \/ \E i \in QIndex : HostNext(i) \/ HostForceNext(i)

FaultNext ==
    \/ \E c \in Answering : AnswerFault(c)
    \/ \E k \in Computing : ScoreFault(k) \/ KeyUnread(k) \/ WriteFault(k)
    \/ FlowFault

GameQuiet ==
    /\ ~InFlight
    /\ \A q \in QIndex, kind \in Kinds : Fired(kind, q) = {}
    /\ UNCHANGED gameVars

GameNext ==
    \/ JoinNext \/ AnswerNext \/ (\E k \in Computing : ScoreStep(k))
    \/ FlowStep \/ TimerStep \/ HostNextStep \/ Cleanup \/ FaultNext \/ GameQuiet

\* The event loop runs every callback that is due; nobody has to answer, to
\* command or to clean up.
GameFairness ==
    /\ \A k \in Computing : WF_gameVars(ScoreStep(k))
    /\ WF_gameVars(FlowStep)
    /\ WF_gameVars(TimerStep)

GameSpec == GameInit /\ [][GameNext]_gameVars /\ GameFairness
-----------------------------------------------------------------------------
\* "First answer is final": an answer that was acknowledged is replaced only by
\* an invocation that had looked for a duplicate before the acknowledgement
\* went out (player:answer, arena:botAnswer).
FirstAnswerFinal ==
    [][\A c \in Answering :
        (answering[c].pc = "store" /\ answers' # answers /\ Slot(c) \in acked
            /\ answers'[Slot(c)[1]][Slot(c)[2]] # StoredFor(c)) => answering[c].blind]_gameVars

\* What computations have credited a player: one point each.
Credits(p) == UNION {{q} \X (1..paid[q][p]) : q \in QIndex}

\* Scores add up: as long as no two computations, with the late writes of one
\* that failed, and no two joins under one name have overlapped, a player's score
\* is what the computations credited (the read of players and the write back in
\* computeScoresAndShowLB); and a right answer acknowledged before a computation
\* of its question started is credited once no computation is under way, short of
\* a failed call.
ScoresAddUp ==
    /\ ~raced /\ game.status # "gone" =>
            \A p \in Names : players[p].score = Cardinality(Credits(p))
    /\ incidents = 0 /\ (\A k \in Computing : computing[k].pc = "idle") =>
            \A pair \in due : paid[pair[1]][pair[2]] >= 1

\* Unless a host's disconnect has cleared the timers or a call has failed, an
\* active question does not stay active: a timer, a command or a cleanup ends
\* it (activateQuestion's timer, host:forceNext, host:end).
QuestionEnds ==
    (game.status = "question_active")
        ~> (game.status # "question_active" \/ incidents > 0)

=============================================================================
