# Deborah in TLA+

A verification project for the Deborah repository (exam platform, Node.js,
Express, Socket.IO, PostgreSQL through Kysely, Firebase RTDB). It models the code
that decides whether a student's answers survive: starting an attempt, autosaving
answers, replaying an offline journal, submitting and sealing; the code that turns
a proctor's evidence into the end of an attempt; the board that ratifies a grade and
the ledger of what follows; the live game and the live lesson; and the mail queue.
Paths below are relative to the repository's root (`src/` of the project layout).

## 1. Inventory

| Component | State it keeps | Operations | Interacts with |
|---|---|---|---|
| Attempt lifecycle (`src/modules/attempt`) | `attempts` (status, epoch, external_key), `attempt_leases` | startAttempt, transitionAttempt; reopenAttempt lives in `src/modules/proctor` | called by the page, by submit, by the third strike, by a teacher |
| Autosave (`src/modules/response`) | `attempt_responses`, `response_revisions` | saveResponse, listResponses | reads attempts; called by the page, the submit's flush, the offline replay |
| Offline journal (`public/js/offline-journal.js`, `src/modules/offline`) | IndexedDB entries and mark in the browser; `offline_journal_acks`, `recovery_packages` | append, sync, reconnectSync, export/import | replays through saveResponse, reads the attempt's epoch |
| Submit and seal (`src/modules/submit`) | `attempt_seals`, `scoring_outbox` | submitAttempt (preview, flush, seal, transition) | saveResponse, listResponses, transitionAttempt |
| Proctor events (`public/js/proctor-collector.js`, `src/modules/proctor`) | the page's buffer and numbers; `proctor_events` (hash chain, strikes) | record, flush, restore; recordProctorEvents, reopenAttempt | transitionAttempt on the third strike |
| Live game (`socket/game-handler.js`) | RTDB `game_sessions` (state, players, answers, results), timers in memory | player:join, player:answer, arena:botAnswer, host:start/next/forceNext/end, scoring, question timers, auto-advance, the host's disconnect, cleanup | Socket.IO events and timers of one process |
| Cast live lesson (`services/cast`, `socket/cast-handler.js`) | RTDB session state with a revision, event log, answers, scores; think and question timers | the director's commands, commitEvent, think and question timers, submitAnswer, putAnswerIfAbsent, the score | director and students over Socket.IO; the client retries a command once |
| Email queue (`src/modules/email`) | RTDB `email_queue` and `email_idempotency` | enqueueEmail, processEmailQueue, dead letters | periodic workers, the mail provider |
| Board (`src/modules/board`) | `board_meetings`, `board_attendees`, `board_decisions`, `grade_amendments`, `sis_outbox` | open, attend, vote, ratifyResult, appendAmendment, releaseBatch, reconcileOutbox | calculation runs, the student information system |
| Authentication (`src/modules/auth`) | RTDB users, sessions, MFA secrets and codes | login, verify, sessions | every route |
| Seating, safe-submit, marking, grading, consideration, scheduling, publishing, accommodations, authoring, AI, integrations, reporting, front end | one or a few tables each | request handlers | listed with their reason in PROJECT.json |

**What is hard.** Node runs one handler at a time but every `await` lets another
one in, so every read that is used after an `await` may be stale. The services
answer this in three ways, and each is a hazard of its own: unique indexes that
refuse the loser of a race (and a second lookup that decides what the loser is
told), writes that go by id without a condition, and `.catch(() => null)`, which
turns a failed read into "there is nothing" and a failed write into a success.
A write that fails at the client may have taken effect at the server.

**What makes each component correct.**
- Attempts: one attempt per student, assignment and UTC day; one active lease; an
  answer of startAttempt names the day's attempt; a finished attempt gives its
  lease back; a finished attempt stays finished.
- Autosave: an acknowledgement is backed by a row; the first answer of a
  first-answer item is final; nothing is refused but for something stored.
- Offline: what is acknowledged is decided; a resend stores nothing twice; edits
  keep their order; no edit is lost.
- Submit: one seal, one scoring job, one receipt; the seal holds what had been
  acknowledged; a sealed attempt is closed; nothing is saved after the seal.
- Proctor: one strike per episode, one hash chain, a third strike terminates.
- Game: the first answer of a player is final; a player's score is what the
  computations credited; every question ends.
- Cast: a lesson moves forward only, one revision at a time; the log a reconnecting
  client reads is complete; an open question is closed; an accepted answer is
  stored and counted once.
- Email: a key sends one mail; a mail is sent once when nothing fails; the queue drains.
- Board: a decision is what the votes amounted to, and everybody's answer; a closed
  meeting shows its decision; the amendments are a chain; a release carries the
  grade of its version; a reconciled release stays reconciled.

The full list of hazards, with lines and the properties that cover them, is
`hazards` in PROJECT.json.

## 2. Modules

```
DbFaults                      a database call succeeds, fails, or loses its answer
├── AttemptTransition         transitionAttempt, reopenAttempt
│   ├── AttemptTransitionProofs
│   ├── AttemptLifecycle      + startAttempt            (complete component)
│   │   ├── AttemptRegistry   what it promises          (abstract specification)
│   │   └── AttemptLifecycleProofs
│   ├── ProctorEvents         + the collector, recordProctorEvents
│   │   └── ProctorEventsProofs
│   └── SubmitSeal            + submitAttempt; composes both components
│       └── SubmitSealProofs
└── ResponseSave              saveResponse, and the page's saves (complete component)
    ├── ResponseSaveProofs
    ├── SubmitSeal
    └── OfflineJournal        append, sync, reconnectSync; composes saveResponse
        └── OfflineJournalProofs
BoardMeeting ─┐               meetings, votes, ratifyResult
GradeLedger ──┤               amendments, releases, acknowledgements of a run
│             │ GradeBook     what the ledger promises  (abstract specification)
│             │ GradeNumbers  what a column and JSON make of a number; used by both
EmailQueue ───┴ BoardAndMailProofs      enqueueEmail, workers, the provider
CastSession ──┐               the phases, revisions and timers of a lesson
CastAnswers ──┤               answers of a lesson, retries and scores
GameSession ──┴ LiveProofs    one live game, its timers and computations
```

The components of the second group share no state with one another or with the
first. Three MC modules (`MCAttemptsAndGames`, `MCAnswersAndGrades`,
`MCWhatMustEnd`) put several such components into one run: a variable `part`, chosen
by the initial state, says whose steps are taken while the others stay as they
start, so that the state spaces add up instead of multiplying, and every property
is one of its component's behaviours. `Types` in MCAnswersAndGrades is the conjunction
of its components' type invariants; that the variables of every component keep their
types is proved (section 4).

`MC*` modules and `.cfg` files instantiate them; `V*.cfg` are the runs in which
TLC finds a statement of the source violated.

**Conventions.** One action is the code from one `await` to the next: a database
call with what is computed from its result. An invocation of a handler is an
element of a set (`Starts`, `Calls`, `Saves`, `Submits`, `Syncs`) with a record of
its local state, `pc` naming the call it waits for. A handler's own call of
another handler carries the caller's name, so `TransitionRead(m, ...)` in
SubmitSeal is the transition submit `m` makes. `Healthy` and `Faulty` (DbFaults)
say whether the step's call succeeded; the consequence of a failure is written at
every call, as in the code. Definitions that precede a mapped definition and
change it slightly (`StartConflictNoKeyIndex`, `SubmitListEarly`, ...) are the
mutants PROJECT.json lists: with them in place of the original, the named
property fails.

**AttemptTransition / AttemptLifecycle.** `status`, `epoch`, `key` are columns of
`attempts`, `lease` is the status of the attempt's row in `attempt_leases`.
startAttempt is read leases -> look up the day -> (gate) insert -> on a unique
violation look up again. The two unique indexes of migration 014 are
`StartConflict`. The preflight, identity and device gates do not depend on the
modelled state and are one boolean, `eligible`. In reopenAttempt the statement
that should issue a new lease calls `onConflictDoNothing`, which Kysely's insert
builder does not have, and names a column the table does not have; it throws
after the update of the attempt was made, so `ReopenWrite` moves status and epoch
and leaves the lease alone.

**ResponseSave.** `rows` is `attempt_responses` of one attempt. A
save looks up its key, reads the item's latest row, decides (lock gate, then
sequence gate), inserts, and on a unique violation acknowledges the winner or
refuses. `Mode` is resolveResponseMode: `item_lock` is reachable only through a
policy snapshot no route passes, so items are `first`, `editable` or unknown. The
client clock's staleness check (EPOCH_MISMATCH) has no effect on state and is left
out. An essay's revision row is inserted in the same transaction and holds the
row's revision, so it is not kept apart.

**SubmitSeal.** One attempt, as AttemptLifecycle leaves it. submitAttempt reads the
attempt, returns an existing seal, gates on the status it read, flushes its batch
through saveResponse, lists the answers, re-reads the status in a transaction
without locking the row, inserts seal and scoring job, and calls
transitionAttempt. A seal is identified by the submit that wrote it and its
snapshot: hash and HMAC receipt are functions of those. `promise` is a history
variable (what the student had been told).

**ProctorEvents.** `next`, `seq`, `buffer`, `pageEpoch` are the collector of the
page, `batch` its posts and their invocations of recordProctorEvents, `log` is
`proctor_events` in the order of the ids. The table is append-only, so what an
invocation has read of it is a number of rows (`stored`, `strikes`); a failed read
is the number 0, as in the code. `kept` holds the events it tried to insert, from
which `storedKeys`, `confirmedSoFar` and `confirmedCount` follow. The third
strike's call of transitionAttempt carries the batch's name. A hash is named by
the invocation and the event, because the receive time is hashed. The collector's
`startedAt` is the time it records the event; how long the incident lasted is
`dur`.

**OfflineJournal.** The browser's side: append() reads the mark, counts the
entries, encrypts, puts; IndexedDB runs transactions in the order of their
creation, so counts happen in the order of calls and a sync's deletions (one
transaction) are one step, while encryption may reverse the puts. sync() reads,
filters by the mark, sends, deletes, moves the mark; the store hands the entries
out in the order of their numbers, which are its keys, so a batch is a set that
the server goes through from its lowest number. The server's side:
reconnectSync reads the attempt's epoch once, the highest numbers of the items
once, and saves entry after entry. `ServerAcked == 0` because the upsert of
`offline_journal_acks` never succeeds: `Math.max` of a column reference and a
number is NaN, PostgreSQL refuses it for an integer column (on a first insert,
too: the parameter is bound either way) and the error is swallowed.
`refused` and `order` are history variables: what was refused, and the newest edit
put with its number, as long as the numbers rise and no edit is passed over
(`Observe`, a conjunct of every step of the program that never hinders one).

**GameSession.** `game`, `players`, `answers`, `results` are nodes of the session's
tree. Timers live in a map by kind: `held` is the reference, `lost` the timers that
a newer reference replaced, which still fire and cannot be cleared. An invocation of
player:answer is read state -> idempotency key -> look for an answer -> store ->
acknowledge -> count; a computation of scores is read -> write back -> show. `AutoMode`
is settings.auto. Points are one per right answer. The property of the scores is
about the sum of what computations credited, because the code's guard against a
second reveal does not work: `revealed` is set (game-handler.js:888) and never read
(874), so a forced next that crosses a timer credits a question twice. A failed read
ends a computation, but that of the right option is caught and makes every answer a
wrong one (`KeyUnread`). At the first write that fails the call returns, while the
others may still be made (`WriteFault`, `ScoreLate`). Two steps are narrower than
their handlers. host:start does not ask for the status; the host page sends it once
(`hasStarted`, host.ejs). The cleanup of an hour-old session runs whatever is under
way; `Cleanup` takes a session in which nothing is in flight, and what a running
handler would write after it is removed a minute later.

**CastSession.** `cast` is the state node with its revision. A director's command, a
question timer and a think timer all compute the next state from a read and go
through commitEvent: `CommitCheck` is its read, `CommitWrite` the transaction, which
never aborts (event-store.js:36-38 says so), `CommitLog` the event. A commit without
an expected revision, or with 0, is not compared (`StaleRevision`). Commands cancel
the timer before the revision is checked (`DirectorCommands`). `dropped` and `clash`
record the ways in which a timer or a state is lost; the properties name them.

**CastAnswers.** `given` is the answer put by a transaction under question and owner
(a participant, or a team with one device), `tally` the score, read and written back
in calls of its own. The client's command is sent once and again when no
acknowledgement came (cast-socket-client.js). A retried command finds itself stored
and is scored again, because nothing sets the replay flag (session-store.js:208);
`replayed` names the owners it happened to.

**EmailQueue.** A job's times are what comparisons make of them: the lease is fresh
or old, the backoff is over or not, a link has expired. A tick judges by its start.
Every write is a step of its own: a lease is two (the status, then the time), so is
a recovery, and a retry three (status, count, time). sendEmail, external, succeeds, answers that it did not send
(the job is dead at once: the provider never throws for a transient failure,
provider.js:264 and 297), or throws. Ticks of several workers may overlap.

**BoardMeeting, GradeLedger.** One action per database call; the unique indexes of
migration 029 are `DecisionTaken`, `NumberTaken` and `KeyTaken`. Whether a run may
be put before the board, and the ratification as the ledger sees it (`Decide`), are
free choices. An amendment asks for any number (`asked`), which is compared with the
grade that counts as it is (`SameNumber`) and rounded by the column, decimal(8,2), when
it is stored (`Rounded`): it may be stored as the grade it replaces. A row's `asked` is
not in the table; the audit has it. NaN equals nothing, a numeric column holds it, and
JSON makes null of it when it is released (`Payload`). `Promise` maps the ledger to GradeBook: one decision, a history
of grades to which an amendment adds in one step the rounding of what it asks for and
which is never rewritten, and
versions that are sent at most once after the ratification. `decision` is `ratified`,
`top` the number of amendment rows, `grades` is `GradeOfVersion` and `sent` is `Sent`;
the reads and the retries of the requests stutter. `Consent` is what the votes amount to, written independently of
checkQuorum (`Verdict`); `verdicts` is its history.

## 3. Runs

| Run | Module, cfg | Shows |
|---|---|---|
| attempts_and_games | MCAttemptsAndGames | SingleWriter, OneAttemptPerDay, StartNamesItsDay, TerminalReleasesLease, ImplementsRegistry, SameDayNeverDenied, LeaseComesBack; ScoresAddUp, FirstAnswerFinal, QuestionEnds |
| answers_and_grades | MCAnswersAndGrades | Types; AckBacked, OneFinalAnswer, RefusedForStored; ConfirmedIsStored, ScoreCountsAnswers; DecisionHeld, MeetingShowsDecision; LedgerIsChain, ReleaseIsVersion, ReconciledFinal, ImplementsGradeBook |
| what_must_end | MCWhatMustEnd | SealedCloses; MailOnce, QueueDrains; LogIsComplete, LessonMovesForward, QuestionCloses |
| submit_seal | MCSubmitSeal | OneSealOneReceipt, SealKeepsPromises |
| offline_journal | MCOfflineJournal | TypeOK, AckCoversDecided, StoredOnce, ReplayKeepsOrder, ReplayLosesNothing |
| proctor_events | MCProctorEvents | TypeOK, ChainIsLinear, ThirdStrikeEnds, VerdictBacked, NothingVanishes |
| terminal_is_final | VTerminalIsFinal | violated: a finished attempt is overwritten by a transition that read it before |
| concurrent_duplicate | VConcurrentDuplicateRejected | violated: two answers under one number are both accepted, one is stored |
| save_after_seal | VNoSaveAfterSeal | violated: an answer is saved after the seal |
| receipt_submitted | VReceiptMeansSubmitted | violated: a receipt without the transition, and the retry does not repair it |
| offline_lossless | VNoEditLost | violated without any failure or overlap: an edit that was never sent is overwritten |
| ended_is_final | VEndedIsFinal | violated: a think timer reopens a lesson the director has ended |

**Bounds, and why they are enough.**
- attempts_and_games (0.6 million states). Attempts: two attempts, two days, two
  starts, two transitions or reopenings, one failure. A race needs two of a kind; two
  days tell "the day's attempt" from "another attempt with the lease"; one failure
  is what leaves a lease behind. Games: one player (a bot's answers take the same way,
  and the theorems hold for any bots), one join, two answers in
  flight out of three (one contradicts another under the same idempotency key), two
  computations that may overlap, two questions, automatic advance, and two events
  out of host commands, disconnects and failed calls together (`MaxEvents = 2`).
  QuestionEnds is thus shown for automatic games; in the others the question timer ends
  nothing and a question waits for its host. Two questions are what a late timer
  needs to hit the wrong one. No symmetry, because liveness and refinement are
  checked.
- answers_and_grades (1.4 million states). Saves: three out of ten requests, one
  failure. The requests hold two tabs that number alike, a retry, a key used for two
  saves, a gap, number 0, an item the package does not have; three saves are what a
  retry of one of two racing saves takes. Answers: one owner with
  two devices, three commands on two questions, two handlers, each command sent at
  most twice, one failed call. Board: one meeting, two members, one run, two
  requests; a quorum of one and a ratio of six tenths tell a quorum from a consent
  and one approval in two from enough. Ledger: two grades and NaN, two amendments, two
  symmetric requests; amendments ask for another grade than the run's, for NaN, or for
  a number that is rounded to the run's grade, which is what tells a comparison before
  the rounding from one after it. Of three possible releases two are made and one is
  acknowledged, maybe more than once (`OneAcknowledged`). Two meetings or two runs
  would only repeat what the index on the run keeps apart, and the proofs hold for any number.
- what_must_end (0.5 million states). Submits: two, with two answers each, no
  failures, no reopening. Mail: two mails of one key, of which one is urgent and has
  a link that expires, one worker, three attempts, one death or failed write; with
  two workers the liveness check no longer ends in time. Lesson: two questions,
  two handlers, revisions up to 7 (the states at the bound count as over), one
  crossing command or failed call, or two previews of a question, not both
  (`OneDetour`). Seven revisions reach
  the second question or an added time and a revote of the first.
- submit_seal: two submits (with a pending answer or none), one save of the page,
  one transition or reopening, one failure; the submits are symmetric.
- offline_journal: three edits of two items, two overlapping syncs in batches of at
  most two, and one mishap (`OneMishap`): a failure (lost message, failed call, dead
  process), a reopening or a reload (1.4 million states). Two syncs are a request and its retry, three edits are what a reused
  number takes. `offline_lossless` uses four edits, no failures and a page that
  awaits every call (`Patient`), so that its trace shows the mark alone.
- proctor_events: five incidents (two of one episode, a blur, two more episodes),
  two batches, one network error, one submission or reopening, and one failed call or
  dead process or else one reload (`OneMishap`; 1.6 million states). Four focus losses of three episodes are what a verdict
  takes and what a wrong count would miss; two batches are a post and its resend,
  or two that overlap. `MaxBuffer` 3 makes a batch shorter than the buffer; the
  buffer's bound of three batches is in the model and never reached.
- Fault bounds are global: `MaxFaults = 1` means one failure anywhere. Mishaps that a
  run does not combine are combined by the theorems, which have no such bound; a
  liveness property is shown for the combinations of its run only.

**Conditions in properties.** SameDayNeverDenied, LeaseComesBack,
SealKeepsPromises, ReplayKeepsOrder, ReplayLosesNothing say "while the database answers". They are
false after a failure, and that is what the code does: a failed lookup counts as
"no attempt yet", a failed release is swallowed, a failed list of the answers is
an empty one (a confirmed submit then seals an attempt without answers), a failed
save of a batch is sent again with a later number than the edit that followed it
and overrides it. ReplayKeepsOrder and ReplayLosesNothing also end (`order.kept`) where an edit gets no
higher number than the one before, or a sync passes over an edit that it could have
stored. Both happen without a failure. When two syncs overlap the later
answer may move the mark back, and the count of the entries then hands out a number
again (six edits and three syncs); a reopening makes the entries of the past epoch
ones to pass over, while a sync that read the attempt before it stores them after
newer ones. In both cases a later answer of the item is stored before an earlier one. NoEditLost is ReplayLosesNothing
without these conditions, and offline_lossless finds it violated.
ChainIsLinear and ThirdStrikeEnds (which also says that an episode is one strike) are stated for batches that
do not overlap (`Undisturbed`: between a batch's reads and its last insert only its
own rows appear) and while the database answers. Under overlap they are false:
two batches chain to one row, count one episode twice, or both give warning 2 and
end nothing at the third strike. The collector posts every event at once and
awaits nothing, so overlap is ordinary. VerdictBacked has no condition. Its three
focus losses may lie before a reopening: loadConfirmedStrikes does not filter by
epoch, so a reopened attempt ends at its first strike, although
`proctor.schema.js:187-189` says events of an old epoch are no evidence for the new
one. NothingVanishes ends at a reload, because a new page numbers from 1 under the
same device id and the server takes its events for duplicates.
AckCoversDecided has a third case, a save that raced the entry: saveResponse
acknowledges the winner of a unique violation in the loser's stead.
FirstAnswerFinal is about answers whose player had been acknowledged before the
other invocation looked: of two that look at a time, the later overwrites the first.
ScoresAddUp ends where two computations, or two joins under one name, overlap; late
writes of a failed computation count as its part.
LedgerIsChain says that an amendment changes the grade, and that its retry is not
appended again, for grades of two decimals only: a number with more is compared before
it is rounded (section 5).
QuestionEnds ends at a host's disconnect (which clears every timer) or a failed call.
ScoreCountsAnswers excludes owners of whom a stored answer was retried or two answers
were added at a time. LessonMovesForward and LogIsComplete end at a clash of two
commits; the former allows what a think timer does after the end and after a second
preview. QuestionCloses names the ways a timer is dropped. MailOnce needs that no call
failed and, for its second half, that no two ticks and no two enqueues of a key
overlapped: nothing in the code excludes either. QueueDrains leaves out a job whose
second lease write was cut off (queue.js:198-206): no tick takes it back.
ReconciledFinal needs that acknowledgements of one release do not overlap.
MeetingShowsDecision names the failed second write, which no retry of ratifyResult
repairs, and an opening that read the meeting before it was closed.

**Fairness.** Weak fairness of the steps of a request that has been read: Node
runs every continuation, and the database answers or the call fails. No fairness
of arrivals (a start, a save, a submit, a transition need never come), none of
failures, none of the host or the director, whose commands need never come. A timer
that is set and not cleared fires; a worker ticks; a lease ages and a backoff ends.
In the runs that hold several components the fairness is weak fairness of the
component's fair steps together, which assumes less than the component's own
fairness of each request: LeaseComesBack, SealedCloses, QuestionEnds, QueueDrains and
QuestionCloses hold already under it, and no other property depends on it.

## 4. Proofs

Checked by TLAPS for every value of the constants. Each module has one inductive
invariant per specification (its named parts say what a step may disturb), a lemma
per action or group of actions that it is kept, a lemma that combines them, and the
theorems, which read a property off the invariant.

- `AttemptLifecycleProofs`: TypeCorrect, WriterIsSingle, DayHasOneAttempt,
  AnswerNamesItsDay, FinishedIsReleased, RestartIsNotDenied (SameDayNeverDenied:
  while the database answers, only a start whose day has no attempt comes to the
  denial). SingleWriter and OneAttemptPerDay are
  not inductive alone; `IInv` adds what links them: an attempt that does not
  exist has no lease and no day, a call that waits to write or to release names
  an existing attempt, a start that returned an attempt returned one of its day,
  and a finished attempt's lease is active only while a release waits or after a
  failure. `Refinement == Spec => ImplementsRegistry`: the mapping sends a day to the
  row with its external_key and the writer to the attempt with the active lease, both
  chosen from sets that IInv shows to be singletons or empty. Only StartInsert maps to
  Start and TransitionRelease to Release; every other step stutters.
- `AttemptTransitionProofs`: what every step of a transition or reopening keeps of the
  types, cited by the two modules that compose it.
- `ResponseSaveProofs`: AcksAreBacked (AckBacked), FirstAnswerIsFinal (OneFinalAnswer),
  RefusalsAreJustified (RefusedForStored), SavesTyped. `RInv` adds the unique indexes, that a row
  was asked for by a request of its key and item, and what a save has met: one that
  waits to insert has a number above zero, one that was refused by an index has a row
  that clashes with it. Rows are never taken away, so what a save has met still holds
  when it answers (`SoundnessStays`). The theorems have the hypothesis `KeysNameItems`
  (requests under one key are for one item, as the page makes its keys), which
  MCResponseSave assumes and TLC evaluates. The lemmas are stated for one save among
  others so that the two compositions below can cite them.
- `SubmitSealProofs`: SubmitTyped, SealIsOne (OneSealOneReceipt), PromisesAreSealed
  (SealKeepsPromises). `SInv` has RInv for the saves of the page and of the flushes,
  and NewestExists, the newest row of every item that has one: kept as an invariant,
  because the maximum of a growing set would take an induction. A submit's snapshot is
  a list of stored answers, one per item (`SnapSound`), which covers what the student
  had been told when the submit began (`Covers`, `PromiseKept`) as long as the database
  answers; a seal is such a snapshot, and the one receipt names it (`SealsSound`).
- `ProctorEventsProofs` proves its five invariants in layers, each using the one before:
  VerdictIsBacked (VerdictBacked) and EvidenceTyped from `EInv`: rows have numbers of
  their own and come from posted events, and what a batch counted are different rows,
  so a verdict of three strikes is an injection into three posted focus losses.
  ChainHolds (ChainIsLinear) from `ChainInv`: while nothing has overlapped or failed
  the rows a batch read are all the rows, but its own, and a strike has an episode of
  its own. ThirdStrikeIsEnd (ThirdStrikeEnds) from `EndingInv`: with three strikes a
  batch is on its way to end the attempt, its transition is, or something else moved
  the attempt. ObservedIsKept (NothingVanishes) from `VanishInv`: epochs only grow, and
  while the page stays an observed incident is in the buffer, in a batch that is
  underway, or stored; a batch leaves the buffer only when the server has its rows.
- `OfflineJournalProofs`: AcksAreDecided (AckCoversDecided), EditsAreStoredOnce
  (StoredOnce), EditsInOrder (ReplayKeepsOrder), EditsAreKept
  (ReplayLosesNothing), JournalTyped (TypeOK). An edit is put once, under one number, in the
  store, in every batch, read and row (`NumberedOnce`, `Marked`); a sync that serves
  a batch has decided every number below the entry it has come to (`ServeSound`,
  `Decided`), and the save it waits for asks for that entry. Two edits may get one
  number here, so the keys do not name the items and RInv does not hold: only its
  RowsApart and NewestExists are used. The order of overlapping syncs is `OrderInv`:
  numbers rise with the edits (`MarksRise`); every batch and every read of the
  store is closed from the oldest entry that is not settled (`FromOldest`), so that
  whatever a sync missed was stored before it read; numbers the server acknowledges, and
  the mark, are settled (`SettledTo`), so that deleting up to them loses nothing; and a
  save begins when the older edits of its item are stored (`OlderStored`), whichever
  sync stored them. For EditsAreKept only two kinds of steps take an entry away: a put
  under a number that is there, which cannot be, as the number of a new entry is above
  all others while the numbers rise, and the drop after an answer, which takes what
  SettledTo says was settled; answers never go (`AnswersGrow`). JournalTyped says that the saves' requests are
  `Requests`; it has the hypothesis that these are all that the browser can number
  (`Sendable`), which TLC's instance with its bounded numbers replaces by the bound.
- `BoardAndMailProofs`, board: DecisionIsHeld (DecisionHeld), MeetingsShowDecisions
  (MeetingShowsDecision), DecisionIsFinal (DecisionFinal), BoardTyped. VerdictIsConsent shows,
  with the cardinality of disjoint sets, that checkQuorum's verdict is the consent
  of the voters for any quorum and ratio; the invariant adds that consent is kept in
  the history, that a request which waits to decide has a verdict of it, and that
  one which waits to close or found a decision names one that is there.
  Ledger: AmendmentsAreChain (LedgerIsChain), ReleasesAreVersions (ReleaseIsVersion),
  LedgerIsAppended (LedgerAppends), ReconciledIsFinal (ReconciledFinal), LedgerTyped. Only the
  number of an amendment is under a unique index, its old grade is not: the invariant
  says that what a request has read still holds of the rows up to the number it read
  (`CallSound`), so that when the index accepts the number, the old grade is still the
  last one, and when a release is stored late it still carries the grade of its version.
  `AcksApart` keeps acknowledgements apart until two overlap. `LedgerRefinesBook == Spec
  => ImplementsGradeBook` needs the same invariant: an insert that the index lets pass,
  answered or not, is Amend of the number asked for, which is still another one than
  the grade that counts, as the one that the request read is still the last
  (`InsertAmends`); a release stored is Send of a version that was not sent, with that
  version's grade (`ReleaseSends`); Decide is Decide; all other steps show nothing.
  Mail: MailGoesOutOnce (MailOnce), MailTyped. A tick has to do with stored jobs; until
  something fails, the keys that are marked are those of enqueues past the mark; and
  until two ticks or two enqueues of a key overlap, at most one tick is at work, every
  job is unstored, waiting with a count that equals the calls that threw, settled, or
  at hand of that tick, in one of the states between its writes (`AtHand`).
- `LiveProofs`, lesson: ConfirmedStays (ConfirmedIsStored), FirstAnswerStays (no step
  replaces a stored answer), ScoresCount (ScoreCountsAnswers), AnswersTyped: while an owner has not
  been replayed or raced, one handler at most is between the read and the write of the
  score, and what it has read is the score as it is; the sets of counted answers stay
  finite as part of the invariant. LogKeepsUp (LogIsComplete) and LessonIsForward
  (LessonMovesForward), LessonTyped: until two commits clash, a handler that waits to write has read
  the state as it is (`CallsCurrent`), so a revision is either logged or of the one
  handler that is about to log it; of a question
  previewed once there is one think timer (`ThinksOnce`), and while it is ahead the
  lesson is in its think time or over (`ThinkHolds`).
  Game: ScoresSum (ScoresAddUp), FirstAnswerIsKept (FirstAnswerFinal), GameTypedAlways.
  Until two computations overlap, the one there is has read the scores as they are
  (`OneComputes`); a due answer is credited or a computation that will credit it is
  under way (`DueKept`); what is acknowledged is stored, so that a handler comes to the
  store only when it found no acknowledged answer (`AnswersKept`); a session that was
  cleaned up has nothing in flight (`GoneIsQuiet`).

Assumptions, all of them ASSUMEs that TLC evaluates: NoAttempt, NoDay, NoGrade, NoRun,
NoMember, NoCmd, NoRequest, NoMail, NoAnswer, NoToken and NoQuestion are none of their
kind; the bounds (MaxFaults, MaxMisses, MaxAmendments, MaxMishaps, MaxLosses,
MaxReloads, MaxEdits, MaxEvents, MaxCrossings, MaxPreviews, the last question) are
natural numbers, and the limits that must let something happen (MaxBatch, MaxBuffer,
MaxAttempts, MaxRevision, MaxEpoch, the strike threshold) positive ones; the run's
grade is a grade, a column makes a grade of every number and leaves grades as they
are (NumbersAssumption); the board has finitely many members, a quorum of at least one, a
ratio of one to ten tenths and at least one meeting; a command names an owner, a
question and whether it is right; a save names an item, a number, an answer and a key,
and every item has a mode; the calls and saves that a composed component makes carry
its own names (Submits, Syncs, Batches); an edit has an item, an incident a time and
a length; a game has a player, and bots have other names. `KeysNameItems` is assumed of
the page's saves and of submits. Nothing else is assumed about the sizes of the sets.

Model-checked only: the liveness properties (LeaseComesBack, SealedCloses,
QuestionEnds, QueueDrains, QuestionCloses), which are out of the prover's reach,
and `Types` of MCAnswersAndGrades, a definition of that run whose conjuncts are proved
one by one as SavesTyped, AnswersTyped, BoardTyped and LedgerTyped.

## 5. What is not modelled

`audit()` (an insert whose failure is swallowed everywhere or ends a request after
its effects), content packages, device attestation, hash and HMAC of a receipt,
completeness summaries, encryption, and the recovery packages of the offline
service (importing one records it, nothing is replayed). The PostgreSQL driver is
taken to store a JavaScript array in a jsonb column as the services expect.
Tenants, users and assignments other than the one at hand do not meet in these
components.

Game: creating a session, presence flags, points by speed, rejoining and watching
(reads), HTTP routes beside the socket. Lesson: automatic podium and fully automatic
mode, predict-observe-explain, response boards, quick prompts, self-paced races,
transfer questions, the formation of teams, screen projections; question:resume is in
no phase's list of allowed commands, so handleResume always refuses, and the limit of
three extensions lies beyond the bound on revisions. Mail: the batch limit and the
pause between mails, which only delay a job. Board: reads, and the rows of other
services that decide whether a run is ready.

One-time codes of the login and the sessions are single records that one request
reads and writes; they are not part of exams and lessons, and the rest of
authentication is cryptography and protocol libraries. Seating, uploads, marking and
scheduling settle their conflicts by one unique index each, and authoring, reporting,
integrations and pages are documents and I/O: they would each repeat a pattern the
models already show. PROJECT.json lists every component with its reason; by lines
most of the repository is front end, texts and routes of this kind, so the map covers
the core and a small share of the whole.

Other differences between text and code met on the way, without a run of their
own: migration 014:11-14 says one live attempt, the index is on leases only, and a
reopened attempt lives without a lease; `attempt.service.js:378-386` swallows the
failed release it promises; `response.schema.js:315` says a retry returns the
stored acknowledgement, the answer to a racing retry is the item's latest row;
`response.schema.js:5-6` promises monotonic revisions, `response.service.js:194`
computes them from a row read before; `submit.service.js:196` speaks of the
attempt being in progress at the seal, the row is not locked. board.service.js:470
speaks of a new decision that re-releases an amended grade, but decisions are unique
per run: an amendment needs no decision and a release only a new version;
board.schema.js:261-263 says an amendment must change the grade and compares the number
as it was sent with a grade that decimal(8,2) has rounded: 3.141 over 3.14 passes and is
stored as 3.14 over 3.14, its retry after a lost answer is appended again, and NaN
passes over NaN, too, and is released as null;
openBoardMeeting writes the status it did not compare and may reopen a closed
meeting, and ratifyResult never checks that the meeting is open.
answer-service.js:9 promises the same acknowledgement for a retried command id; the
stored answer is acknowledged and scored again. cast-participant.js:673 speaks of a
retry of the same command id and clicks the button, which sends a new one. In the
mail queue a key is marked before the job is stored (queue.js:93-109), so that a
failed store leaves a key whose retries are told "duplicate", and a failed read of
the recipient puts the mail to the dead letters at once. reopenAttempt promises a
lease and issues none (see AttemptTransition above).

## 6. Plan

Done: attempts, autosave, submit, offline journal, proctor events, live game, live
lesson and its answers, mail queue, board and ledger; for each of them the inductive
invariant and the theorems of section 4.

1. An abstract one-shot seal that SubmitSeal refines, as the ledger does GradeBook.
2. Seating's check-in journal, as a third client that replays late, and two attempts in
   one browser's journal.
