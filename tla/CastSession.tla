---------------------------- MODULE CastSession ----------------------------
(***************************************************************************)
(* The course of a live lesson (socket/cast-handler.js on top of           *)
(* services/cast: state-machine.js, event-store.js, timer-service.js).     *)
(* The state is one node of the realtime database, with a revision.  A     *)
(* command of the director, a question timer that fires and a think timer  *)
(* that ends all go the same way: the handler reads the state, computes    *)
(* the next one as a whole, and commitEvent compares the expected revision *)
(* with a read of its own and then replaces the node in a transaction that *)
(* never aborts; the event is logged under its revision after that.        *)
(*                                                                         *)
(* question:resume is in no phase's list of allowed commands, so that      *)
(* handleResume always refuses: it has no action here.                     *)
(***************************************************************************)
EXTENDS Naturals

CONSTANTS
    CastCalls,      \* handlers under way at the same time
    LastQuestion,   \* index of the last question
    NoTimer,
    MaxRevision,    \* bound: the revision up to which commits are followed
    MaxCrossings,   \* bound: commands that come while a handler is under way or from
                    \* a director who has not seen the last commit, and failed calls
    MaxPreviews     \* bound: how often a question is previewed

ASSUME CastAssumption ==
    /\ LastQuestion \in Nat
    /\ MaxRevision \in Nat \ {0} /\ MaxCrossings \in Nat /\ MaxPreviews \in Nat

VARIABLES
    cast,       \* cast_sessions/{id}/state
    castLog,    \* cast_private/{id}/events: the revisions there is an event for
    timer,      \* the timer registry: the revision and the question of the timer
    thinking,   \* pending think timers, by question
    castCall,   \* local state of the handlers
    clash,      \* history: a commit replaced a state it had not read
    mishap,     \* history: a call of the database has failed
    dropped,    \* history: an open question has lost its timer
    previews,   \* history: how often a question was previewed
    crossed     \* the crossings and failures so far

castHistory == <<clash, mishap, dropped, previews, crossed>>
castVars == <<cast, castLog, timer, thinking, castCall, castHistory>>

Positions == 0..LastQuestion
Phases == {"LOBBY_OPEN", "THINK_TIME", "QUESTION_OPEN", "QUESTION_LOCKED", "REVEAL",
           "DISCUSSION", "REVOTE_OPEN", "LEADERBOARD", "ENDED"}
Commands == {"start", "preview", "pause", "addTime", "close", "reveal", "discuss", "revote",
             "next", "leaderboard", "end", "choreo"}
Events == Commands \cup {"opened", "expired"}

Snapshot == [phase : Phases, q : Positions, paused : BOOLEAN]

CastType ==
    /\ cast \in [state : Snapshot, rev : 1..MaxRevision]
    /\ castLog \subseteq 2..MaxRevision
    /\ timer \in [rev : 1..MaxRevision, q : Positions] \cup {NoTimer}
    /\ thinking \in [Positions -> Nat]
    /\ castCall \in [CastCalls ->
            [pc : {"idle", "fired", "again", "check", "write", "log", "done"},
             kind : Events, next : Snapshot, q : Positions,
             expected : 0..MaxRevision, base : 0..MaxRevision, unset : BOOLEAN]]
    /\ clash \in BOOLEAN /\ mishap \in BOOLEAN /\ dropped \in BOOLEAN
    /\ previews \in [Positions -> Nat] /\ crossed \in 0..MaxCrossings

Lobby == [phase |-> "LOBBY_OPEN", q |-> 0, paused |-> FALSE]

IdleCast ==
    [pc |-> "idle", kind |-> "start", next |-> Lobby, q |-> 0, expected |-> 0, base |-> 0,
     unset |-> FALSE]

\* A session as createSession has just stored it.
CastInit ==
    /\ cast = [state |-> Lobby, rev |-> 1]
    /\ castLog = {} /\ timer = NoTimer
    /\ thinking = [q \in Positions |-> 0]
    /\ castCall = [c \in CastCalls |-> IdleCast]
    /\ clash = FALSE /\ mishap = FALSE /\ dropped = FALSE
    /\ previews = [q \in Positions |-> 0] /\ crossed = 0
-----------------------------------------------------------------------------
\* What the handlers ask of the phase before they go on (assertCommandAllowed
\* and their own conditions).
AllowedIn ==
    [start |-> {"LOBBY_OPEN"},
     preview |-> {"THINK_TIME"},
     pause |-> {"QUESTION_OPEN"},
     addTime |-> {"QUESTION_OPEN"},
     close |-> {"QUESTION_OPEN", "REVOTE_OPEN"},
     reveal |-> {"QUESTION_LOCKED", "REVOTE_OPEN"},
     discuss |-> {"QUESTION_LOCKED", "REVEAL"},
     revote |-> {"REVEAL", "DISCUSSION"},
     next |-> {"REVEAL", "DISCUSSION", "LEADERBOARD"},
     leaderboard |-> {"REVEAL"},
     end |-> Phases \ {"ENDED"},
     choreo |-> Phases]

\* applyEvent
PhaseAfter ==
    [start |-> "THINK_TIME", preview |-> "THINK_TIME", opened |-> "QUESTION_OPEN",
     close |-> "QUESTION_LOCKED", reveal |-> "REVEAL", discuss |-> "DISCUSSION",
     revote |-> "REVOTE_OPEN", next |-> "THINK_TIME", leaderboard |-> "LEADERBOARD",
     end |-> "ENDED"]

Apply(s, kind) ==
    CASE kind \in {"addTime", "choreo"} -> s
      [] kind = "pause" -> [s EXCEPT !.paused = TRUE]
      [] kind = "expired" ->
            [s EXCEPT !.phase = IF @ = "REVOTE_OPEN" THEN "REVEAL" ELSE "QUESTION_LOCKED"]
      [] kind = "opened" -> [s EXCEPT !.phase = PhaseAfter[kind], !.paused = FALSE]
      [] kind = "next" -> [phase |-> PhaseAfter[kind], q |-> s.q + 1, paused |-> FALSE]
      [] OTHER -> [s EXCEPT !.phase = PhaseAfter[kind]]

Timed == {"QUESTION_OPEN", "REVOTE_OPEN"}

CastReturn(c) == castCall' = [castCall EXCEPT ![c] = IdleCast]

\* The handler goes on to commit what it has computed from this read.
Commits(c, kind, expected, cancels) ==
    castCall' = [castCall EXCEPT ![c] =
        [IdleCast EXCEPT !.pc = "check", !.kind = kind, !.expected = expected,
                         !.next = Apply(cast.state, kind),
                         !.unset = cancels]]
-----------------------------------------------------------------------------
\* A command of the director, whose page starts at revision 1 and may be one
\* revision behind (cast-socket-client.js).  These cancel the
\* question's timer before anything is checked against the revision.
Cancelling == {"pause", "close", "revote", "next", "end"}

AtLast(s) == s.q = LastQuestion

DirectorCommands(c) ==
    /\ castCall[c].pc = "idle"
    /\ \E kind \in Commands, expected \in {cast.rev, cast.rev - 1} \ {0} :
        /\ IF expected = cast.rev /\ \A d \in CastCalls : castCall[d].pc = "idle"
           THEN UNCHANGED crossed
           ELSE crossed < MaxCrossings /\ crossed' = crossed + 1
        /\ cast.state.phase \in AllowedIn[kind]
        /\ kind = "preview" => previews[cast.state.q] < MaxPreviews
        /\ timer' = IF kind \in Cancelling THEN NoTimer ELSE timer
        /\ IF kind = "next" /\ AtLast(cast.state)
           THEN castCall' = [castCall EXCEPT ![c] =
                    [IdleCast EXCEPT !.pc = "again", !.expected = expected,
                                     !.unset = timer # NoTimer]]
           ELSE Commits(c, kind, expected, kind \in Cancelling /\ timer # NoTimer)
    /\ UNCHANGED <<cast, castLog, thinking, clash, mishap, dropped, previews>>

\* After the last question handleNext ends the session: another read.
EndAgain(c) ==
    /\ castCall[c].pc = "again"
    /\ timer' = IF cast.state.phase = "ENDED" THEN timer ELSE NoTimer
    /\ IF cast.state.phase = "ENDED" THEN CastReturn(c)
       ELSE Commits(c, "end", castCall[c].expected, castCall[c].unset \/ timer # NoTimer)
    /\ UNCHANGED <<cast, castLog, thinking, castHistory>>

\* openQuestionNow, when the think time ends: the question is still the one.
ThinkEnds(c) ==
    /\ castCall[c].pc = "idle"
    /\ \E q \in Positions :
        /\ thinking[q] > 0
        /\ thinking' = [thinking EXCEPT ![q] = @ - 1]
        /\ IF cast.state.q = q THEN Commits(c, "opened", cast.rev, FALSE) ELSE UNCHANGED castCall
    /\ UNCHANGED <<cast, castLog, timer, castHistory>>

TimerFires(c) ==
    /\ castCall[c].pc = "idle"
    /\ timer # NoTimer
    /\ castCall' = [castCall EXCEPT ![c] =
            [IdleCast EXCEPT !.pc = "fired", !.expected = timer.rev, !.q = timer.q]]
    /\ timer' = NoTimer
    /\ UNCHANGED <<cast, castLog, thinking, castHistory>>

\* The timer's revision is still the state's.
StillAt(revision, q) ==
    cast.rev = revision /\ cast.state.q = q /\ cast.state.phase \in Timed

\* onFire and handleLockNow
Expire(c) ==
    /\ castCall[c].pc = "fired"
    /\ IF StillAt(castCall[c].expected, castCall[c].q)
       THEN Commits(c, "expired", cast.rev, TRUE) ELSE CastReturn(c)
    /\ UNCHANGED <<cast, castLog, timer, thinking, castHistory>>
-----------------------------------------------------------------------------
\* commitEvent

\* Mutant of StaleRevision: the revision is not compared.
NeverStale(c) == FALSE

\* A command that names no revision is not refused; no page sends one.
StaleRevision(c) == castCall[c].expected # 0 /\ castCall[c].expected # cast.rev

\* The read of commitEvent: a command that is refused here has already
\* cancelled the timer.
CommitCheck(c) ==
    /\ castCall[c].pc = "check"
    /\ IF StaleRevision(c)
       THEN CastReturn(c) /\ dropped' = (dropped \/ castCall[c].unset)
       ELSE /\ cast.rev < MaxRevision
            /\ castCall' = [castCall EXCEPT ![c].pc = "write", ![c].base = cast.rev,
                                            ![c].expected = 0, ![c].unset = FALSE]
            /\ UNCHANGED dropped
    /\ UNCHANGED <<cast, castLog, timer, thinking, clash, mishap, previews, crossed>>

\* The transaction replaces the state, whatever has become of it.
Replace(c) ==
    /\ cast' = [state |-> castCall[c].next, rev |-> castCall[c].base + 1]
    /\ clash' = (clash \/ cast.rev # castCall[c].base)

TimerOut == timer # NoTimer \/ \E d \in CastCalls : castCall[d].pc = "fired"

\* A commit without a timer of its own makes the timer that is set, or has just
\* fired, a stale one.
CommitWrite(c) ==
    /\ castCall[c].pc = "write"
    /\ Replace(c)
    /\ LET me == castCall[c]
       IN  /\ dropped' = (dropped \/ (me.kind = "choreo" /\ TimerOut))
           /\ previews' = IF me.kind = "preview" THEN [previews EXCEPT ![me.next.q] = @ + 1]
                          ELSE previews
    /\ castCall' = [castCall EXCEPT ![c].pc = "log"]
    /\ UNCHANGED <<castLog, timer, thinking, mishap, crossed>>

\* Mutant of Scheduling: added time leaves the old timer as it is.
SchedulingOnOpen == {"opened", "revote"}

Scheduling == {"opened", "revote", "addTime"}

\* Mutant of LogKey: the event is stored under the revision it was made from.
LogKeyBase(c) == castCall[c].base

LogKey(c) == castCall[c].base + 1

CommitLog(c) ==
    /\ castCall[c].pc = "log"
    /\ castLog' = castLog \cup {LogKey(c)}
    /\ IF castCall[c].kind \in Scheduling \cup {"preview"}
       THEN castCall' = [castCall EXCEPT ![c].pc = "done"] ELSE CastReturn(c)
    /\ UNCHANGED <<cast, timer, thinking, castHistory>>

\* What follows a commit: a preview waits out the think time, and an opening
\* sets the question's timer, in place of the one that is set.
Follow(c) ==
    /\ castCall[c].pc = "done"
    /\ LET me == castCall[c]
       IN  /\ timer' = IF me.kind \in Scheduling
                       THEN [rev |-> me.base + 1, q |-> me.next.q] ELSE timer
           /\ thinking' = IF me.kind = "preview" THEN [thinking EXCEPT ![me.next.q] = @ + 1]
                          ELSE thinking
           /\ dropped' = (dropped \/ (me.kind \in Scheduling /\ me.base + 1 # cast.rev))
    /\ CastReturn(c)
    /\ UNCHANGED <<cast, castLog, clash, mishap, previews, crossed>>

\* A call of the database fails; a write that failed may have been made.
CastFault(c) ==
    /\ castCall[c].pc # "idle"
    /\ crossed < MaxCrossings /\ crossed' = crossed + 1
    /\ mishap' = TRUE
    /\ \/ UNCHANGED <<cast, clash>>
       \/ castCall[c].pc = "write" /\ Replace(c)
    /\ CastReturn(c)
    /\ UNCHANGED <<castLog, timer, thinking, dropped, previews>>
-----------------------------------------------------------------------------
Goes(c) ==
    \/ Expire(c) \/ EndAgain(c)
    \/ CommitCheck(c) \/ CommitWrite(c) \/ CommitLog(c) \/ Follow(c)

CastOver ==
    /\ cast.rev = MaxRevision \/ cast.state.phase = "ENDED"
    /\ UNCHANGED castVars

CastNext ==
    \/ \E c \in CastCalls :
            DirectorCommands(c) \/ ThinkEnds(c) \/ TimerFires(c) \/ Goes(c) \/ CastFault(c)
    \/ CastOver

\* A handler that was started goes on, and a timer that is not cancelled fires.
CastFairness ==
    /\ \A c \in CastCalls : WF_castVars(Goes(c))
    /\ WF_castVars(\E c \in CastCalls : TimerFires(c))

CastSpec == CastInit /\ [][CastNext]_castVars /\ CastFairness
-----------------------------------------------------------------------------
\* As long as no commit goes over one it has not read, the lesson only moves
\* forward, one revision at a time: a question is followed by the next one only
\* after its answers were shown, and a question that is closed is not opened for
\* answers again except by the director's revote.  A think timer knows the
\* question it waits for and not the phase: it opens a lesson that was ended
\* while it waited, and, where a question was previewed twice, one that is over.
Forward(s, t, again) ==
    /\ s.phase = "ENDED" => t.phase \in {"ENDED", "QUESTION_OPEN"} /\ t.q = s.q
    /\ t.q # s.q => /\ t.q = s.q + 1
                    /\ t.phase = "THINK_TIME"
                    /\ s.phase \in {"REVEAL", "DISCUSSION", "LEADERBOARD"}
    /\ (t.q = s.q /\ t.phase = "QUESTION_OPEN" /\ ~again) =>
            s.phase \in {"THINK_TIME", "QUESTION_OPEN", "ENDED"}
    /\ (t.q = s.q /\ t.phase \in {"LOBBY_OPEN", "THINK_TIME"}) =>
            s.phase \in {"LOBBY_OPEN", "THINK_TIME"}

LessonMovesForward ==
    [][cast' # cast => \/ clash'
                       \/ /\ cast'.rev = cast.rev + 1
                          /\ Forward(cast.state, cast'.state, previews[cast.state.q] > 1)]_castVars

\* A lesson that has ended stays ended (tests/unit/cast-state-machine.test.js:70,
\* "ENDED is terminal"; the table of the phases that may follow).  It is opened
\* again by a think timer that was waiting when the director ended it.
EndedIsFinal == [][cast.state.phase = "ENDED" => cast'.state.phase = "ENDED"]_castVars

\* Without such a clash and without a failed call the log a reconnecting client
\* catches up from has an event for every revision, but for those a handler is
\* about to store.
LogIsComplete ==
    (~clash /\ ~mishap) =>
        2..cast.rev = castLog \cup {castCall[c].base + 1 :
                                    c \in {d \in CastCalls : castCall[d].pc = "log"}}

\* A question that is open and not paused is closed by the director or by its
\* timer, unless the timer was dropped on the way: by a command that was refused
\* after it had cancelled the timer, by a commit that made the timer stale, by
\* an older timer that was set in its place, by a clash or by a failed call.
QuestionCloses ==
    (cast.state.phase = "QUESTION_OPEN" /\ ~cast.state.paused) ~>
        \/ cast.state.phase # "QUESTION_OPEN" \/ cast.state.paused
        \/ dropped \/ clash \/ mishap \/ cast.rev = MaxRevision
=============================================================================
