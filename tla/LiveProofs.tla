----------------------------- MODULE LiveProofs -----------------------------
(***************************************************************************)
(* Proofs about live play: of a lesson, CastAnswers, for any commands,     *)
(* handlers and failures, and CastSession, for any handlers, questions and *)
(* bounds; and of a quiz game, GameSession, for any players, bots, handlers, *)
(* questions, answers and failures.                                        *)
(***************************************************************************)
EXTENDS CastAnswers, CastSession, GameSession, FiniteSetTheorems, TLAPS

-----------------------------------------------------------------------------
(* CastAnswers: the inductive invariant.                                   *)

\* A handler that is past the transaction has its command stored.
StoredSoFar ==
    \A d \in Deliveries : delivery[d].at \in {"score", "write", "ack"} =>
        given[AnswerSlot(CmdOf(d))] = CmdOf(d)

AInv == CastAnswersType /\ StoredSoFar /\ ConfirmedIsStored

\* No step replaces a stored command.
Keeps == \A k \in Prompts \X Owners : given[k] # NoCmd => given'[k] = given[k]
-----------------------------------------------------------------------------
LEMMA CommandsAreReal ==
    ASSUME AInv
    PROVE  /\ \A m \in AnswerCmds : AnswerSlot(m) \in Prompts \X Owners /\ m # NoCmd
           /\ \A d \in Deliveries : delivery[d].at # "rest" => CmdOf(d) \in AnswerCmds
BY AnswerAssumption DEF AInv, CastAnswersType, AnswerSlot, CmdOf

\* The two steps that write an answer store a command where there was none.
LEMMA WritesKeep ==
    ASSUME AInv, NEW d \in Deliveries, delivery[d].at = "put",
           given' = [given EXCEPT ![AnswerSlot(CmdOf(d))] = StoredAs(CmdOf(d))]
    PROVE  Keeps /\ given' \in [Prompts \X Owners -> AnswerCmds \cup {NoCmd}]
<1>1. PICK m \in AnswerCmds : m = CmdOf(d) /\ AnswerSlot(m) \in Prompts \X Owners
  BY CommandsAreReal
<1>2. StoredAs(m) \in AnswerCmds \cup {NoCmd}
  BY <1>1 DEF StoredAs, AInv, CastAnswersType
<1>3. given' = [given EXCEPT ![AnswerSlot(m)] = StoredAs(m)]
  BY <1>1
<1>4. given[AnswerSlot(m)] # NoCmd => StoredAs(m) = given[AnswerSlot(m)]
  BY SMTT(30) DEF StoredAs
<1> QED
  BY <1>1, <1>2, <1>3, <1>4 DEF Keeps, AInv, CastAnswersType

LEMMA NothingReplaced ==
    ASSUME AInv, CastAnswersNext
    PROVE  Keeps
<1>1. CASE given' = given
  BY <1>1 DEF Keeps
<1>2. CASE \E d \in Deliveries : delivery[d].at = "put" /\
              given' = [given EXCEPT ![AnswerSlot(CmdOf(d))] = StoredAs(CmdOf(d))]
  BY <1>2, WritesKeep
<1> QED
  BY <1>1, <1>2 DEF CastAnswersNext, LessonMoves, AnswersOver, Post, Look, Put, TallyRead,
                    TallyWrite, AckAnswer, Miss, answerVars

Handlers == [at : {"rest", "look", "put", "score", "write", "ack"},
             cmd : AnswerCmds \cup {NoCmd}, seen : Tallies]

LEMMA RestingIsHandler ==
    Resting \in Handlers /\ Resting.at = "rest" /\ Resting.cmd = NoCmd
BY DEF Resting, NoTally, Tallies, Handlers

\* What every step of a handler has to leave.
LEMMA HandlerStep ==
    ASSUME AInv, CastAnswersNext,
           NEW d \in Deliveries, NEW h \in Handlers,
           delivery' = [delivery EXCEPT ![d] = h], h.at = "rest" <=> h.cmd = NoCmd,
           h.at \in {"score", "write", "ack"} => given'[AnswerSlot(h.cmd)] = h.cmd,
           asked' = asked, given' \in [Prompts \X Owners -> AnswerCmds \cup {NoCmd}],
           tally' \in [Owners -> Tallies], posted' \in [AnswerCmds -> 0..2],
           replayed' \subseteq Owners, mingled' \subseteq Owners, misses' \in 0..MaxMisses,
           heard' \subseteq confirmed', confirmed' \subseteq AnswerCmds,
           \A m \in confirmed' : m \in confirmed \/ given'[AnswerSlot(m)] = m
    PROVE  AInv'
<1>1. Keeps
  BY NothingReplaced
<1>2. \A e \in Deliveries : delivery'[e] = IF e = d THEN h ELSE delivery[e]
  BY DEF AInv, CastAnswersType
<1>3. CastAnswersType'
  <2>1. delivery' \in [Deliveries -> Handlers]
    BY DEF AInv, CastAnswersType, Handlers
  <2>2. \A e \in Deliveries : delivery'[e].at = "rest" <=> delivery'[e].cmd = NoCmd
    BY <1>2 DEF AInv, CastAnswersType
  <2> QED
    BY <2>1, <2>2 DEF AInv, CastAnswersType, Handlers
<1>4. StoredSoFar'
  <2>1. ASSUME NEW e \in Deliveries, delivery'[e].at \in {"score", "write", "ack"}
        PROVE  given'[AnswerSlot(delivery'[e].cmd)] = delivery'[e].cmd
    <3>1. CASE e = d
      BY <1>2, <2>1, <3>1
    <3>2. CASE e # d
      <4>1. PICK m \in AnswerCmds : m = delivery[e].cmd /\ given[AnswerSlot(m)] = m
        BY <1>2, <2>1, <3>2, CommandsAreReal DEF AInv, StoredSoFar, CmdOf
      <4>2. AnswerSlot(m) \in Prompts \X Owners /\ m # NoCmd
        BY CommandsAreReal
      <4> QED
        BY <1>1, <1>2, <3>2, <4>1, <4>2 DEF Keeps
    <3> QED
      BY <3>1, <3>2
  <2> QED
    BY <2>1 DEF StoredSoFar, CmdOf, AnswerSlot
<1>5. ConfirmedIsStored'
  <2>1. ASSUME NEW m \in confirmed'
        PROVE  given'[AnswerSlot(m)] = m
    <3>1. CASE m \in confirmed
      <4>1. given[AnswerSlot(m)] = m /\ AnswerSlot(m) \in Prompts \X Owners /\ m # NoCmd
        BY <3>1, CommandsAreReal DEF AInv, CastAnswersType, ConfirmedIsStored
      <4> QED
        BY <1>1, <4>1 DEF Keeps
    <3> QED
      BY <2>1, <3>1
  <2> QED
    BY <2>1 DEF ConfirmedIsStored, AnswerSlot
<1> QED
  BY <1>3, <1>4, <1>5 DEF AInv

LEMMA AddedIsTally ==
    ASSUME NEW seen \in Tallies, NEW m \in AnswerCmds
    PROVE  Added(seen, m) \in Tallies
<1>1. m.right \in Nat
  BY AnswerAssumption
<1> QED
  BY <1>1 DEF Added, Tallies

\* The steps of a handler.
LEMMA HandlersKeepInv ==
    ASSUME AInv, CastAnswersNext, NEW d \in Deliveries,
           \/ \E m \in AnswerCmds : Post(d, m)
           \/ Look(d) \/ Put(d) \/ TallyRead(d) \/ TallyWrite(d) \/ AckAnswer(d) \/ Miss(d)
    PROVE  AInv'
<1>1. PICK h \in Handlers : h = delivery[d] /\ (h.at = "rest" <=> h.cmd = NoCmd)
  BY DEF AInv, CastAnswersType, Handlers
<1>2. h.at # "rest" => h.cmd \in AnswerCmds /\ h.cmd.owner \in Owners
  BY <1>1, AnswerAssumption DEF Handlers
<1>3. CmdOf(d) = h.cmd /\ h.at \in {"score", "write", "ack"} => given[AnswerSlot(h.cmd)] = h.cmd
  BY <1>1 DEF AInv, StoredSoFar, CmdOf
<1>4. CmdOf(d) = h.cmd
  BY <1>1 DEF CmdOf
<1>5. CASE \E m \in AnswerCmds : Post(d, m)
  <2>1. PICK m \in AnswerCmds : Post(d, m)
    BY <1>5
  <2> DEFINE next == [Resting EXCEPT !.at = "look", !.cmd = m]
  <2>2. next \in Handlers /\ next.at = "look" /\ next.cmd # NoCmd
    BY RestingIsHandler, AnswerAssumption DEF Handlers
  <2>3. posted' \in [AnswerCmds -> 0..2]
    <3>1. posted[m] + 1 \in 0..2
      <4>1. posted[m] = 0 \/ posted[m] = 1
        BY <2>1 DEF Post, MayPost
      <4> QED
        BY <4>1
    <3> QED
      BY <2>1, <3>1 DEF Post, AInv, CastAnswersType
  <2> HIDE DEF next
  <2>4. delivery' = [delivery EXCEPT ![d] = next]
    BY <2>1 DEF Post, next
  <2> QED
    BY <2>1, <2>2, <2>3, <2>4, HandlerStep DEF Post, AInv, CastAnswersType
<1>6. CASE Look(d)
  <2>1. CASE Rests(d)
    BY <1>6, <2>1, RestingIsHandler, HandlerStep DEF Look, Rests, AInv, CastAnswersType
  <2>2. CASE Steps(d, "put")
    <3> DEFINE next == [h EXCEPT !.at = "put"]
    <3>1. next \in Handlers /\ next.at = "put" /\ next.cmd # NoCmd
      BY <1>1, <1>6 DEF Look, Handlers
    <3>2. delivery' = [delivery EXCEPT ![d] = next]
      BY <1>1, <2>2 DEF Steps, AInv, CastAnswersType
    <3> HIDE DEF next
    <3> QED
      BY <1>6, <3>1, <3>2, HandlerStep DEF Look, AInv, CastAnswersType
  <2> QED
    BY <1>6, <2>1, <2>2 DEF Look
<1>7. CASE Put(d)
  <2>1. given' \in [Prompts \X Owners -> AnswerCmds \cup {NoCmd}]
    BY <1>7, WritesKeep DEF Put
  <2>2. replayed' \subseteq Owners
    BY <1>1, <1>2, <1>4, <1>7 DEF Put, AInv, CastAnswersType
  <2>3. CASE Rests(d)
    BY <1>7, <2>1, <2>2, <2>3, RestingIsHandler, HandlerStep DEF Put, Rests, AInv, CastAnswersType
  <2>4. CASE given'[AnswerSlot(h.cmd)] = h.cmd /\ Steps(d, "score")
    <3> DEFINE next == [h EXCEPT !.at = "score"]
    <3>1. next \in Handlers /\ next.at = "score" /\ next.cmd = h.cmd /\ next.cmd # NoCmd
      BY <1>1, <1>7 DEF Put, Handlers
    <3>2. delivery' = [delivery EXCEPT ![d] = next]
      BY <1>1, <2>4 DEF Steps, AInv, CastAnswersType
    <3> HIDE DEF next
    <3> QED
      BY <1>7, <2>1, <2>2, <2>4, <3>1, <3>2, HandlerStep DEF Put, AInv, CastAnswersType
  <2> QED
    BY <1>4, <1>7, <2>3, <2>4 DEF Put
<1>8. CASE TallyRead(d)
  <2> DEFINE next == [h EXCEPT !.at = "write", !.seen = tally[h.cmd.owner]]
  <2>1. tally[h.cmd.owner] \in Tallies
    BY <1>1, <1>2, <1>8 DEF TallyRead, AInv, CastAnswersType
  <2>2. next \in Handlers /\ next.at = "write" /\ next.cmd = h.cmd /\ next.cmd # NoCmd
    BY <1>1, <1>8, <2>1 DEF TallyRead, Handlers
  <2>3. delivery' = [delivery EXCEPT ![d] = next]
    BY <1>1, <1>4, <1>8 DEF TallyRead, AInv, CastAnswersType
  <2>4. mingled' \subseteq Owners
    BY <1>1, <1>2, <1>4, <1>8 DEF TallyRead, AInv, CastAnswersType
  <2>5. given[AnswerSlot(h.cmd)] = h.cmd
    BY <1>1, <1>3, <1>4, <1>8 DEF TallyRead
  <2> HIDE DEF next
  <2>6. UNCHANGED <<asked, given, tally, posted, heard, confirmed, replayed, misses>>
    BY <1>8 DEF TallyRead
  <2> QED
    BY <2>2, <2>3, <2>4, <2>5, <2>6, HandlerStep DEF AInv, CastAnswersType
<1>9. CASE TallyWrite(d)
  <2> DEFINE next == [h EXCEPT !.at = "ack"]
  <2>1. next \in Handlers /\ next.at = "ack" /\ next.cmd = h.cmd /\ next.cmd # NoCmd
    BY <1>1, <1>9 DEF TallyWrite, Handlers
  <2>2. delivery' = [delivery EXCEPT ![d] = next]
    BY <1>1, <1>9 DEF TallyWrite, Steps, AInv, CastAnswersType
  <2>3. tally' \in [Owners -> Tallies]
    <3>1. Added(h.seen, h.cmd) \in Tallies
      BY <1>1, <1>2, <1>9, AddedIsTally DEF TallyWrite, Handlers
    <3> QED
      BY <1>1, <1>4, <1>9, <3>1 DEF TallyWrite, AInv, CastAnswersType
  <2>4. given[AnswerSlot(h.cmd)] = h.cmd
    BY <1>1, <1>3, <1>4, <1>9 DEF TallyWrite
  <2> HIDE DEF next
  <2> QED
    BY <1>9, <2>1, <2>2, <2>3, <2>4, HandlerStep DEF TallyWrite, AInv, CastAnswersType
<1>10. CASE AckAnswer(d)
  <2>1. confirmed' = confirmed \cup {h.cmd} /\ h.cmd \in AnswerCmds
        /\ given'[AnswerSlot(h.cmd)] = h.cmd
    BY <1>1, <1>2, <1>3, <1>4, <1>10 DEF AckAnswer
  <2>2. heard' \subseteq confirmed' /\ confirmed' \subseteq AnswerCmds
    BY <1>4, <1>10, <2>1 DEF AckAnswer, AInv, CastAnswersType
  <2>3. \A m \in confirmed' : m \in confirmed \/ given'[AnswerSlot(m)] = m
    BY <2>1
  <2> QED
    BY <1>10, <2>2, <2>3, RestingIsHandler, HandlerStep DEF AckAnswer, Rests, AInv, CastAnswersType
<1>11. CASE Miss(d)
  <2>1. given' \in [Prompts \X Owners -> AnswerCmds \cup {NoCmd}]
    <3>1. CASE given' = given
      BY <3>1 DEF AInv, CastAnswersType
    <3>2. CASE given' # given
      BY <1>11, <3>2, WritesKeep DEF Miss
    <3> QED
      BY <3>1, <3>2
  <2>2. tally' \in [Owners -> Tallies]
    <3>1. CASE tally' = tally
      BY <3>1 DEF AInv, CastAnswersType
    <3>2. CASE tally' # tally
      <4>1. /\ h.at = "write"
            /\ tally' = [tally EXCEPT ![h.cmd.owner] = Added(h.seen, h.cmd)]
        BY <1>1, <1>4, <1>11, <3>2 DEF Miss
      <4>2. Added(h.seen, h.cmd) \in Tallies
        BY <1>2, <4>1, AddedIsTally DEF Handlers
      <4> QED
        BY <4>1, <4>2 DEF AInv, CastAnswersType
    <3> QED
      BY <3>1, <3>2
  <2>3. misses' \in 0..MaxMisses
    BY <1>11, AnswerAssumption DEF Miss, AInv, CastAnswersType
  <2> QED
    BY <1>11, <2>1, <2>2, <2>3, RestingIsHandler, HandlerStep DEF Miss, Rests, AInv, CastAnswersType
<1> QED
  BY <1>5, <1>6, <1>7, <1>8, <1>9, <1>10, <1>11

LEMMA AnswersStart == CastAnswersInit => AInv
<1> SUFFICES ASSUME CastAnswersInit PROVE AInv
  OBVIOUS
<1>1. CastAnswersType
  BY RestingIsHandler, AnswerAssumption
  DEF CastAnswersInit, CastAnswersType, Handlers, NoTally, Tallies
<1>2. StoredSoFar /\ ConfirmedIsStored
  BY RestingIsHandler DEF CastAnswersInit, StoredSoFar, ConfirmedIsStored
<1> QED
  BY <1>1, <1>2 DEF AInv

LEMMA AnswersStep == AInv /\ [CastAnswersNext]_answerVars => AInv'
<1> SUFFICES ASSUME AInv, [CastAnswersNext]_answerVars PROVE AInv'
  OBVIOUS
<1>1. CASE UNCHANGED answerVars
  BY <1>1 DEF answerVars, AInv, CastAnswersType, StoredSoFar, ConfirmedIsStored, CmdOf, AnswerSlot
<1>2. CASE CastAnswersNext /\ LessonMoves
  BY <1>2 DEF LessonMoves, AInv, CastAnswersType, StoredSoFar, ConfirmedIsStored, CmdOf, AnswerSlot
<1>3. CASE CastAnswersNext /\ ~LessonMoves /\ ~AnswersOver
  BY <1>3, HandlersKeepInv DEF CastAnswersNext
<1> QED
  BY <1>1, <1>2, <1>3 DEF CastAnswersNext, AnswersOver
-----------------------------------------------------------------------------
(* The scores.                                                             *)

\* Of one owner: the sets are finite, and where the counts have to agree, the one
\* handler that is about to write has read the score as it is.
Counts(o) == o \notin replayed \cup mingled /\ misses = 0

Writers(o) == {d \in Deliveries : delivery[d].at = "write" /\ CmdOf(d).owner = o}

ScoreSound(o) ==
    /\ IsFiniteSet(Kept(o)) /\ IsFiniteSet(Adding(o))
    /\ Counts(o) =>
        /\ tally[o].count + Cardinality(Adding(o)) = Cardinality(Kept(o))
        /\ tally[o].total + Cardinality({d \in Adding(o) : CmdOf(d).right = 1})
              = Cardinality({m \in Kept(o) : m.right = 1})
        /\ \A d \in Writers(o) : delivery[d].seen = tally[o]
        /\ \A d, e \in Writers(o) : d = e

ScoreInv == AInv /\ \A o \in Owners : ScoreSound(o)

\* Whatever a step of a handler does, it adds at most its own command and itself.
LEMMA SetsStayFinite ==
    ASSUME AInv, NEW o \in Owners, IsFiniteSet(Kept(o)), IsFiniteSet(Adding(o)),
           NEW d \in Deliveries, NEW m,
           \A k \in Prompts \X Owners : given'[k] # given[k] => given'[k] = m,
           \A e \in Deliveries \ {d} : delivery'[e] = delivery[e]
    PROVE  IsFiniteSet(Kept(o))' /\ IsFiniteSet(Adding(o))'
<1>1. Kept(o)' \subseteq Kept(o) \cup {m}
  BY CommandsAreReal DEF Kept, AnswerSlot
<1>2. Adding(o)' \subseteq Adding(o) \cup {d}
  BY DEF Adding, CmdOf
<1> QED
  BY <1>1, <1>2, FS_AddElement, FS_Subset

\* A step that touches neither the answers nor the handlers of an owner.
LEMMA ScoreStays ==
    ASSUME AInv, NEW o \in Owners, ScoreSound(o), NEW d \in Deliveries,
           \A m \in AnswerCmds : m.owner = o => given'[AnswerSlot(m)] = given[AnswerSlot(m)],
           \A e \in Deliveries \ {d} : delivery'[e] = delivery[e],
           delivery[d].at \in {"score", "write"} => CmdOf(d).owner # o,
           delivery'[d].at \in {"score", "write"} => CmdOf(d)'.owner # o,
           tally'[o] = tally[o], Counts(o)' => Counts(o)
    PROVE  ScoreSound(o)'
<1>1. Kept(o)' = Kept(o)
  BY DEF Kept, AnswerSlot
<1>2. Adding(o)' = Adding(o) /\ Writers(o)' = Writers(o)
  BY DEF Adding, Writers, CmdOf
<1>3. \A e \in Adding(o) : CmdOf(e)' = CmdOf(e)
  BY DEF Adding, CmdOf
<1>4. \A e \in Writers(o) : delivery'[e] = delivery[e]
  BY DEF Writers, CmdOf
<1>5. {e \in Adding(o) : CmdOf(e).right = 1}' = {e \in Adding(o) : CmdOf(e).right = 1}
  BY <1>2, <1>3
<1>6. {m \in Kept(o) : m.right = 1}' = {m \in Kept(o) : m.right = 1}
  BY <1>1
<1> QED
  BY <1>1, <1>2, <1>4, <1>5, <1>6 DEF ScoreSound

\* A command is stored, and its handler goes on to add it.
LEMMA PutKeepsScore ==
    ASSUME AInv, NEW d \in Deliveries, Put(d), NEW o \in Owners, ScoreSound(o)
    PROVE  ScoreSound(o)'
<1>1. PICK m \in AnswerCmds :
          m = CmdOf(d) /\ m.owner \in Owners /\ AnswerSlot(m) \in Prompts \X Owners /\ m # NoCmd
  BY CommandsAreReal, AnswerAssumption DEF Put
<1>2. given' = [given EXCEPT ![AnswerSlot(m)] = StoredAs(m)] /\ d \notin Adding(o)
  BY <1>1 DEF Put, Adding
<1>3. \A e \in Deliveries \ {d} : delivery'[e] = delivery[e]
  BY DEF Put, Steps, Rests, AInv, CastAnswersType
<1>4. UNCHANGED <<tally, mingled, misses>> /\ replayed \subseteq replayed'
  BY DEF Put
<1>5. Counts(o)' => Counts(o)
  BY <1>4 DEF Counts
<1>6. CASE given[AnswerSlot(m)] = NoCmd /\ m.owner = o
  <2>1. given' = [given EXCEPT ![AnswerSlot(m)] = m] /\ given'[AnswerSlot(m)] = m
    BY <1>1, <1>2, <1>6 DEF StoredAs, AInv, CastAnswersType
  <2>2. delivery'[d].at = "score" /\ CmdOf(d)' = m
    BY <1>1, <2>1 DEF Put, Steps, CmdOf, AInv, CastAnswersType
  <2>3. Kept(o)' = Kept(o) \cup {m} /\ m \notin Kept(o)
    <3>1. \A k \in AnswerCmds :
             given'[AnswerSlot(k)] = IF AnswerSlot(k) = AnswerSlot(m) THEN m ELSE given[AnswerSlot(k)]
      BY <1>1, <2>1, CommandsAreReal DEF AInv, CastAnswersType
    <3>2. \A k \in AnswerCmds : AnswerSlot(k)' = AnswerSlot(k)
      BY DEF AnswerSlot
    <3> QED
      BY <1>1, <1>6, <3>1, <3>2, CommandsAreReal DEF Kept
  <2>4. Adding(o)' = Adding(o) \cup {d}
    BY <1>3, <1>6, <2>2 DEF Adding, CmdOf
  <2>5. IsFiniteSet(Kept(o)) /\ IsFiniteSet(Adding(o))
    BY DEF ScoreSound
  <2>6. /\ IsFiniteSet(Kept(o))' /\ Cardinality(Kept(o))' = Cardinality(Kept(o)) + 1
        /\ IsFiniteSet(Adding(o))' /\ Cardinality(Adding(o))' = Cardinality(Adding(o)) + 1
    BY <1>2, <2>3, <2>4, <2>5, FS_AddElement
  <2>7. Writers(o)' = Writers(o) /\ \A e \in Writers(o) : delivery'[e] = delivery[e]
    BY <1>3, <2>2 DEF Writers, CmdOf, Put
  <2> DEFINE keptRight == {k \in Kept(o) : k.right = 1}
             addingRight == {e \in Adding(o) : CmdOf(e).right = 1}
  <2>8. IsFiniteSet(keptRight) /\ IsFiniteSet(addingRight) /\ m \notin keptRight /\ d \notin addingRight
    BY <1>2, <2>3, <2>5, FS_Subset
  <2>9. \A e \in Adding(o) : CmdOf(e)' = CmdOf(e)
    BY <1>2, <1>3 DEF Adding, CmdOf
  <2>10. \E n \in {0, 1} : /\ Cardinality(keptRight)' = Cardinality(keptRight) + n
                         /\ Cardinality(addingRight)' = Cardinality(addingRight) + n
    <3>1. Cardinality(keptRight) \in Nat /\ Cardinality(addingRight) \in Nat
      BY <2>8, FS_CardinalityType
    <3>2. CASE m.right = 1
      <4>1. keptRight' = keptRight \cup {m} /\ addingRight' = addingRight \cup {d}
        BY <2>2, <2>3, <2>4, <2>9, <3>2
      <4> QED
        BY <2>8, <4>1, FS_AddElement
    <3>3. CASE m.right # 1
      <4>1. keptRight' = keptRight /\ addingRight' = addingRight
        BY <2>2, <2>3, <2>4, <2>9, <3>3
      <4> HIDE DEF keptRight, addingRight
      <4> QED
        BY <3>1, <4>1
    <3> QED
      BY <3>2, <3>3
  <2>11. Cardinality(keptRight) \in Nat /\ Cardinality(addingRight) \in Nat /\ tally[o].total \in Nat
    BY <2>8, FS_CardinalityType DEF AInv, CastAnswersType, Tallies
  <2>12. Cardinality(Kept(o)) \in Nat /\ Cardinality(Adding(o)) \in Nat /\ tally[o].count \in Nat
    BY <2>5, FS_CardinalityType DEF AInv, CastAnswersType, Tallies
  <2>13. Counts(o)' => tally'[o].count + Cardinality(Adding(o))' = Cardinality(Kept(o))'
    BY <1>4, <1>5, <2>6, <2>12 DEF ScoreSound
  <2>14. Counts(o)' => tally'[o].total + Cardinality(addingRight)' = Cardinality(keptRight)'
    <3>1. Counts(o)' => tally[o].total + Cardinality(addingRight) = Cardinality(keptRight)
      BY <1>5 DEF ScoreSound
    <3> HIDE DEF addingRight, keptRight
    <3> QED
      BY <1>4, <2>10, <2>11, <3>1
  <2>15. Counts(o)' => /\ \A e \in Writers(o)' : delivery'[e].seen = tally'[o]
                      /\ \A e, f \in Writers(o)' : e = f
    BY <1>4, <1>5, <2>7 DEF ScoreSound
  <2> QED
    BY <2>6, <2>13, <2>14, <2>15 DEF ScoreSound
<1>7. CASE given[AnswerSlot(m)] # NoCmd /\ m.owner = o
  <2>1. given' = given
    BY <1>1, <1>2, <1>7 DEF StoredAs, AInv, CastAnswersType
  <2>2. CASE given[AnswerSlot(m)] = m
    <3>1. ~Counts(o)'
      BY <1>1, <1>7, <2>2 DEF Put, Counts
    <3>2. IsFiniteSet(Kept(o))' /\ IsFiniteSet(Adding(o))'
      BY <1>3, <2>1, SetsStayFinite DEF ScoreSound
    <3> QED
      BY <3>1, <3>2 DEF ScoreSound
  <2>3. CASE given[AnswerSlot(m)] # m
    <3>1. delivery'[d].at = "rest" /\ delivery[d].at = "put"
      BY <1>1, <2>1, <2>3, RestingIsHandler DEF Put, Rests, AInv, CastAnswersType
    <3> QED
      BY <1>3, <1>4, <1>5, <2>1, <3>1, ScoreStays
  <2> QED
    BY <2>2, <2>3
<1>8. CASE m.owner # o
  <2>1. \A n \in AnswerCmds : n.owner = o => given'[AnswerSlot(n)] = given[AnswerSlot(n)]
    BY <1>1, <1>2, <1>8, CommandsAreReal DEF AnswerSlot, AInv, CastAnswersType
  <2>2. delivery[d].at = "put" /\ (delivery'[d].at = "rest" \/ CmdOf(d)' = m)
    BY <1>1, RestingIsHandler DEF Put, Steps, Rests, CmdOf, AInv, CastAnswersType
  <2> QED
    BY <1>3, <1>4, <1>5, <1>8, <2>1, <2>2, ScoreStays
<1> QED
  BY <1>6, <1>7, <1>8

\* The score is read: nobody else is about to write it, or the owner is mingled.
LEMMA ReadKeepsScore ==
    ASSUME AInv, NEW d \in Deliveries, TallyRead(d), NEW o \in Owners, ScoreSound(o)
    PROVE  ScoreSound(o)'
<1>1. CmdOf(d)' = CmdOf(d) /\ delivery'[d].at = "write"
      /\ delivery'[d].seen = tally[CmdOf(d).owner]
  BY DEF TallyRead, CmdOf, AInv, CastAnswersType
<1>2. \A e \in Deliveries \ {d} : delivery'[e] = delivery[e]
  BY DEF TallyRead, AInv, CastAnswersType
<1>3. UNCHANGED <<given, tally, replayed, misses>> /\ mingled \subseteq mingled'
      /\ delivery[d].at = "score"
  BY DEF TallyRead
<1>4. Counts(o)' => Counts(o)
  BY <1>3 DEF Counts
<1>5. CASE CmdOf(d).owner # o
  BY <1>1, <1>2, <1>3, <1>4, <1>5, ScoreStays
<1>6. CASE CmdOf(d).owner = o
  <2>1. Kept(o)' = Kept(o)
    BY <1>3 DEF Kept, AnswerSlot
  <2>2. Adding(o)' = Adding(o)
    BY <1>1, <1>2, <1>3 DEF Adding, CmdOf
  <2>3. \A e \in Deliveries : CmdOf(e)' = CmdOf(e)
    BY <1>1, <1>2 DEF CmdOf
  <2>4. {e \in Adding(o) : CmdOf(e).right = 1}' = {e \in Adding(o) : CmdOf(e).right = 1}
    BY <2>2, <2>3 DEF Adding
  <2>5. {m \in Kept(o) : m.right = 1}' = {m \in Kept(o) : m.right = 1}
    BY <2>1
  <2>6. Counts(o)' => Writers(o) = {}
    BY <1>3, <1>6 DEF TallyRead, Together, Counts, Writers
  <2>7. Counts(o)' => Writers(o)' = {d}
    BY <1>1, <1>2, <1>6, <2>6 DEF Writers, CmdOf
  <2> QED
    BY <1>1, <1>3, <1>4, <1>6, <2>1, <2>2, <2>4, <2>5, <2>7 DEF ScoreSound
<1> QED
  BY <1>5, <1>6

\* The score is written back with one answer more.
LEMMA WriteKeepsScore ==
    ASSUME AInv, NEW d \in Deliveries, TallyWrite(d), NEW o \in Owners, ScoreSound(o)
    PROVE  ScoreSound(o)'
<1>1. PICK m \in AnswerCmds : m = CmdOf(d) /\ m.owner \in Owners /\ m.right \in {0, 1}
  BY CommandsAreReal, AnswerAssumption DEF TallyWrite
<1>2. delivery'[d].at = "ack" /\ delivery[d].at = "write"
  BY DEF TallyWrite, Steps, AInv, CastAnswersType
<1>3. \A e \in Deliveries \ {d} : delivery'[e] = delivery[e]
  BY DEF TallyWrite, Steps, AInv, CastAnswersType
<1>4. UNCHANGED <<given, replayed, mingled, misses>>
  BY DEF TallyWrite
<1>5. tally' = [tally EXCEPT ![m.owner] = Added(delivery[d].seen, m)]
  BY <1>1 DEF TallyWrite
<1>6. CASE m.owner # o
  <2>1. tally'[o] = tally[o]
    BY <1>1, <1>5, <1>6 DEF AInv, CastAnswersType
  <2> QED
    BY <1>1, <1>2, <1>3, <1>4, <1>6, <2>1, ScoreStays DEF Counts
<1>7. CASE m.owner = o
  <2>1. Kept(o)' = Kept(o)
    BY <1>4 DEF Kept, AnswerSlot
  <2>2. Adding(o)' = Adding(o) \ {d} /\ d \in Adding(o)
    BY <1>1, <1>2, <1>3, <1>7 DEF Adding, CmdOf
  <2>3. IsFiniteSet(Kept(o)) /\ IsFiniteSet(Adding(o))
    BY DEF ScoreSound
  <2>4. IsFiniteSet(Adding(o))' /\ Cardinality(Adding(o))' = Cardinality(Adding(o)) - 1
    BY <2>2, <2>3, FS_RemoveElement
  <2> DEFINE keptRight == {k \in Kept(o) : k.right = 1}
             addingRight == {e \in Adding(o) : CmdOf(e).right = 1}
  <2>5. IsFiniteSet(addingRight) /\ IsFiniteSet(keptRight) /\ keptRight' = keptRight
    BY <2>1, <2>3, FS_Subset
  <2>6. \A e \in Adding(o) \ {d} : CmdOf(e)' = CmdOf(e)
    BY <1>3 DEF Adding, CmdOf
  <2>7. Cardinality(addingRight)' = Cardinality(addingRight) - m.right
    <3>1. Cardinality(addingRight) \in Nat
      BY <2>5, FS_CardinalityType
    <3>2. CASE m.right = 1
      <4>1. addingRight' = addingRight \ {d} /\ d \in addingRight
        BY <1>1, <2>2, <2>6, <3>2
      <4> HIDE DEF addingRight
      <4>2. Cardinality(addingRight \ {d}) = Cardinality(addingRight) - 1
        BY <2>5, <4>1, FS_RemoveElement
      <4> QED
        BY <3>2, <4>1, <4>2
    <3>3. CASE m.right = 0
      <4>1. addingRight' = addingRight
        BY <1>1, <2>2, <2>6, <3>3
      <4> HIDE DEF addingRight
      <4> QED
        BY <3>1, <3>3, <4>1
    <3> QED
      BY <1>1, <3>2, <3>3
  <2>8. Counts(o)' => Counts(o)
    BY <1>4 DEF Counts
  <2>9. d \in Writers(o)
    BY <1>1, <1>2, <1>7 DEF Writers
  <2>10. Counts(o)' => Writers(o)' = {}
    <3> SUFFICES ASSUME Counts(o)', NEW e \in Writers(o)' PROVE FALSE
      OBVIOUS
    <3>1. e # d /\ e \in Writers(o)
      BY <1>2, <1>3 DEF Writers, CmdOf
    <3> QED
      BY <2>8, <2>9, <3>1 DEF ScoreSound
  <2>11. Counts(o)' => tally'[o] = [total |-> tally[o].total + m.right, count |-> tally[o].count + 1]
    BY <1>1, <1>5, <1>7, <2>8, <2>9 DEF ScoreSound, Added, AInv, CastAnswersType
  <2>12. Cardinality(keptRight) \in Nat /\ Cardinality(addingRight) \in Nat /\ tally[o].total \in Nat
    BY <2>5, FS_CardinalityType DEF AInv, CastAnswersType, Tallies
  <2>13. Cardinality(Kept(o)) \in Nat /\ Cardinality(Adding(o)) \in Nat /\ tally[o].count \in Nat
    BY <2>3, FS_CardinalityType DEF AInv, CastAnswersType, Tallies
  <2>14. Counts(o)' => tally'[o].count + Cardinality(Adding(o))' = Cardinality(Kept(o))'
    BY <2>1, <2>4, <2>8, <2>11, <2>13 DEF ScoreSound
  <2>15. Counts(o)' => tally'[o].total + Cardinality(addingRight)' = Cardinality(keptRight)'
    <3>1. Counts(o)' => tally[o].total + Cardinality(addingRight) = Cardinality(keptRight)
      BY <2>8 DEF ScoreSound
    <3>2. Counts(o)' => tally'[o].total = tally[o].total + m.right
      BY <2>11
    <3> HIDE DEF addingRight, keptRight
    <3> QED
      BY <1>1, <2>5, <2>7, <2>12, <3>1, <3>2
  <2> QED
    BY <2>1, <2>3, <2>4, <2>10, <2>14, <2>15 DEF ScoreSound
<1> QED
  BY <1>6, <1>7

LEMMA HandlersKeepScore ==
    ASSUME AInv, NEW d \in Deliveries, NEW o \in Owners, ScoreSound(o),
           \/ \E m \in AnswerCmds : Post(d, m)
           \/ Look(d) \/ AckAnswer(d) \/ Miss(d)
    PROVE  ScoreSound(o)'
<1>1. \A e \in Deliveries \ {d} : delivery'[e] = delivery[e]
  BY DEF Post, Look, AckAnswer, Miss, Steps, Rests, AInv, CastAnswersType
<1>2. CASE Miss(d)
  <2>1. ~Counts(o)'
    BY <1>2 DEF Counts, Miss, AInv, CastAnswersType
  <2>2. \A k \in Prompts \X Owners : given'[k] # given[k] => given'[k] = CmdOf(d)
    BY <1>2, CommandsAreReal DEF Miss, StoredAs, AInv, CastAnswersType
  <2>3. PICK m : m = CmdOf(d)
    OBVIOUS
  <2>4. IsFiniteSet(Kept(o))' /\ IsFiniteSet(Adding(o))'
    BY <1>1, <2>2, <2>3, SetsStayFinite DEF ScoreSound
  <2> QED
    BY <2>1, <2>4 DEF ScoreSound
<1>3. CASE ~Miss(d)
  <2>1. UNCHANGED <<given, tally, replayed, mingled, misses>>
    BY <1>3 DEF Post, Look, AckAnswer
  <2>2. delivery[d].at \notin {"score", "write"} /\ delivery'[d].at \notin {"score", "write"}
    <3>1. CASE \E m \in AnswerCmds : Post(d, m)
      <4>1. PICK m \in AnswerCmds : Post(d, m)
        BY <3>1
      <4>2. [Resting EXCEPT !.at = "look", !.cmd = m].at = "look"
        BY DEF Resting
      <4> QED
        BY <4>1, <4>2 DEF Post, AInv, CastAnswersType
    <3>2. CASE Look(d)
      <4>1. delivery[d].at = "look" /\ (delivery'[d].at = "put" \/ delivery'[d] = Resting)
        BY <3>2 DEF Look, Steps, Rests, AInv, CastAnswersType
      <4> QED
        BY <4>1, RestingIsHandler
    <3>3. CASE AckAnswer(d)
      BY <3>3, RestingIsHandler DEF AckAnswer, Rests, AInv, CastAnswersType
    <3> QED
      BY <1>3, <3>1, <3>2, <3>3
  <2> QED
    BY <1>1, <2>1, <2>2, ScoreStays DEF Counts
<1> QED
  BY <1>2, <1>3

LEMMA ScoreSteps == ScoreInv /\ [CastAnswersNext]_answerVars => ScoreInv'
<1> SUFFICES ASSUME ScoreInv, [CastAnswersNext]_answerVars PROVE ScoreInv'
  OBVIOUS
<1>1. AInv'
  BY AnswersStep DEF ScoreInv
<1>2. ASSUME NEW o \in Owners PROVE ScoreSound(o)'
  <2>1. CASE UNCHANGED <<given, tally, delivery, replayed, mingled, misses>>
    <3>1. Kept(o)' = Kept(o) /\ Adding(o)' = Adding(o) /\ Writers(o)' = Writers(o)
      BY <2>1 DEF Kept, Adding, Writers, CmdOf, AnswerSlot
    <3>2. \A d \in Deliveries : CmdOf(d)' = CmdOf(d)
      BY <2>1 DEF CmdOf
    <3>3. /\ {d \in Adding(o) : CmdOf(d).right = 1}' = {d \in Adding(o) : CmdOf(d).right = 1}
          /\ {m \in Kept(o) : m.right = 1}' = {m \in Kept(o) : m.right = 1}
      BY <3>1, <3>2 DEF Adding
    <3>4. Counts(o)' = Counts(o) /\ ScoreSound(o)
      BY <2>1 DEF Counts, ScoreInv
    <3> QED
      BY <2>1, <3>1, <3>3, <3>4 DEF ScoreSound
  <2>2. CASE \E d \in Deliveries :
                \/ \E m \in AnswerCmds : Post(d, m)
                \/ Look(d) \/ Put(d) \/ TallyRead(d) \/ TallyWrite(d) \/ AckAnswer(d) \/ Miss(d)
    BY <2>2, PutKeepsScore, ReadKeepsScore, WriteKeepsScore, HandlersKeepScore DEF ScoreInv
  <2> QED
    BY <2>1, <2>2 DEF CastAnswersNext, LessonMoves, AnswersOver, answerVars
<1> QED
  BY <1>1, <1>2 DEF ScoreInv

LEMMA ScoreStarts == CastAnswersInit => ScoreInv
<1> SUFFICES ASSUME CastAnswersInit, NEW o \in Owners PROVE ScoreSound(o)
  BY AnswersStart DEF ScoreInv
<1>1. Kept(o) = {}
  BY AnswerAssumption DEF CastAnswersInit, Kept, AnswerSlot
<1>2. Adding(o) = {} /\ Writers(o) = {}
  BY RestingIsHandler DEF CastAnswersInit, Adding, Writers
<1>3. {m \in Kept(o) : m.right = 1} = {} /\ {d \in Adding(o) : CmdOf(d).right = 1} = {}
  BY <1>1, <1>2
<1>4. tally[o].count = 0 /\ tally[o].total = 0
  BY DEF CastAnswersInit, NoTally
<1> QED
  BY <1>1, <1>2, <1>3, <1>4, FS_EmptySet DEF ScoreSound
-----------------------------------------------------------------------------
(* Theorems.                                                               *)

LEMMA AnswersInvariance == CastAnswersSpec => []AInv
BY AnswersStart, AnswersStep, PTL DEF CastAnswersSpec

\* The answers, scores and handlers of a lesson keep their shape.
THEOREM AnswersTyped == CastAnswersSpec => []CastAnswersType
<1>1. AInv => CastAnswersType
  BY DEF AInv
<1> QED
  BY <1>1, AnswersInvariance, PTL

\* Whoever was told that an answer is accepted finds it stored, whatever devices
\* race, whatever is retried and whichever calls fail.
THEOREM ConfirmedStays == CastAnswersSpec => []ConfirmedIsStored
<1>1. AInv => ConfirmedIsStored
  BY DEF AInv
<1> QED
  BY <1>1, AnswersInvariance, PTL

\* The first answer of an owner is never replaced, confirmed or not.
THEOREM FirstAnswerStays == CastAnswersSpec => [][Keeps]_answerVars
<1>1. AInv /\ [CastAnswersNext]_answerVars => [Keeps]_answerVars
  BY NothingReplaced
<1> QED
  BY <1>1, AnswersInvariance, PTL DEF CastAnswersSpec

\* The score of an owner counts every stored answer once and adds up the right
\* ones, where no answer was put again, none were added at a time and no call
\* failed.
THEOREM ScoresCount == CastAnswersSpec => []ScoreCountsAnswers
<1>1. ScoreInv => ScoreCountsAnswers
  BY DEF ScoreInv, ScoreSound, Counts, ScoreCountsAnswers
<1> QED
  BY <1>1, ScoreStarts, ScoreSteps, PTL DEF CastAnswersSpec
-----------------------------------------------------------------------------
(* CastSession: the inductive invariant.                                   *)

CastPcs == {"idle", "fired", "again", "check", "write", "log", "done"}

CastCallType ==
    [pc : CastPcs, kind : Events, next : Snapshot, q : Positions,
     expected : 0..MaxRevision, base : 0..MaxRevision, unset : BOOLEAN]

\* A commit on its way does not leave the revisions that are followed.
BasesInBound ==
    \A c \in CastCalls : castCall[c].pc \in {"write", "log", "done"} =>
        castCall[c].base \in 1..(MaxRevision - 1)

\* What the handlers have asked of the phase.
Fits(s, kind) ==
    /\ kind \in Commands => s.phase \in AllowedIn[kind]
    /\ kind = "next" => ~AtLast(s)
    /\ kind = "expired" => s.phase \in Timed

ComputedFrom(s, me) == me.next = Apply(s, me.kind) /\ Fits(s, me.kind)

\* Where no commit went over another: what a handler is about to commit under
\* the revision of the state was computed from this state.
CallCurrent(me) ==
    /\ me.pc \in {"again", "check"} => me.expected \in 1..cast.rev
    /\ me.pc = "check" /\ me.expected = cast.rev => ComputedFrom(cast.state, me)
    /\ me.pc = "write" => me.base <= cast.rev
    /\ me.pc = "write" /\ me.base = cast.rev => ComputedFrom(cast.state, me)

CallsCurrent == ~clash => \A c \in CastCalls : CallCurrent(castCall[c])

\* A preview's think time is still to come, or its end is on the way.
Opening(me, q) ==
    /\ \/ me.pc \in {"log", "done"} /\ me.kind = "preview"
       \/ me.pc \in {"check", "write"} /\ me.kind = "opened"
    /\ me.next.q = q

\* A preview has one think time.
ThinksOnce ==
    \A q \in Positions :
        /\ previews[q] = 0 => thinking[q] = 0 /\ \A c \in CastCalls : ~Opening(castCall[c], q)
        /\ previews[q] = 1 =>
              /\ thinking[q] <= 1
              /\ thinking[q] = 1 => \A c \in CastCalls : ~Opening(castCall[c], q)
              /\ \A c, d \in CastCalls :
                    Opening(castCall[c], q) /\ Opening(castCall[d], q) => c = d

ThinkAhead(q) == thinking[q] > 0 \/ \E c \in CastCalls : Opening(castCall[c], q)

\* Until the think time of its only preview is over, a question is neither
\* opened nor left, but for the end of the lesson.
ThinkHolds ==
    ~clash => \A q \in Positions :
        ThinkAhead(q) /\ previews[q] = 1 /\ cast.state.q = q =>
            cast.state.phase \in {"THINK_TIME", "ENDED"}

LessonType ==
    /\ cast \in [state : Snapshot, rev : 1..MaxRevision]
    /\ castLog \subseteq 2..MaxRevision
    /\ timer \in [rev : 1..MaxRevision, q : Positions] \cup {NoTimer}
    /\ clash \in BOOLEAN /\ mishap \in BOOLEAN /\ dropped \in BOOLEAN
    /\ previews \in [Positions -> Nat] /\ crossed \in 0..MaxCrossings

CInv ==
    /\ LessonType
    /\ thinking \in [Positions -> Nat]
    /\ castCall \in [CastCalls -> CastCallType]
    /\ BasesInBound /\ CallsCurrent
    /\ ThinksOnce /\ ThinkHolds
    /\ LogIsComplete
-----------------------------------------------------------------------------
(* What the state machine computes.                                        *)

LEMMA ApplyIsSnapshot ==
    ASSUME NEW s \in Snapshot, NEW kind \in Events, Fits(s, kind)
    PROVE  Apply(s, kind) \in Snapshot
<1>1. LastQuestion \in Nat
  BY CastAssumption
<1>2. CASE kind \in {"addTime", "choreo", "pause", "expired", "opened"}
  <2>1. CASE kind \in {"addTime", "choreo"}
    BY <2>1 DEF Apply
  <2>2. CASE kind = "pause"
    BY <2>2 DEF Apply, Snapshot
  <2>3. CASE kind = "expired"
    BY <2>3 DEF Apply, Snapshot, Phases
  <2>4. CASE kind = "opened"
    BY <2>4 DEF Apply, Snapshot, Phases, PhaseAfter
  <2> QED
    BY <1>2, <2>1, <2>2, <2>3, <2>4
<1>3. CASE kind = "next"
  <2>1. s.q + 1 \in Positions
    BY <1>1, <1>3 DEF Fits, AtLast, Snapshot, Positions
  <2> QED
    BY <1>3, <2>1 DEF Apply, Snapshot, Phases, PhaseAfter
<1>4. CASE kind \in {"start", "preview", "close", "reveal", "discuss", "revote", "leaderboard", "end"}
  <2>1. PhaseAfter[kind] \in Phases
    BY <1>4 DEF PhaseAfter, Phases
  <2>2. Apply(s, kind) = [s EXCEPT !.phase = PhaseAfter[kind]]
    BY <1>4 DEF Apply
  <2> QED
    BY <2>1, <2>2 DEF Snapshot
<1> QED
  BY <1>2, <1>3, <1>4 DEF Events, Commands

\* Only the next question has another index, and only a think time's end opens.
LEMMA ApplyKeepsQuestion ==
    ASSUME NEW s \in Snapshot, NEW kind \in Events
    PROVE  /\ kind # "next" => Apply(s, kind).q = s.q
           /\ kind = "preview" => Apply(s, kind).phase = "THINK_TIME"
           /\ kind = "opened" => Apply(s, kind).phase = "QUESTION_OPEN"
<1>1. CASE kind \in {"addTime", "choreo", "pause", "expired", "opened", "next"}
  BY <1>1 DEF Apply, Snapshot, PhaseAfter
<1>2. CASE kind \in {"start", "preview", "close", "reveal", "discuss", "revote", "leaderboard", "end"}
  <2>1. Apply(s, kind) = [s EXCEPT !.phase = PhaseAfter[kind]]
    BY <1>2 DEF Apply
  <2> QED
    BY <1>2, <2>1 DEF Snapshot, PhaseAfter
<1> QED
  BY <1>1, <1>2 DEF Events, Commands

LEMMA ApplyIsForward ==
    ASSUME NEW s \in Snapshot, NEW kind \in Events, Fits(s, kind), NEW again \in BOOLEAN,
           kind = "opened" => again \/ s.phase \in {"THINK_TIME", "ENDED"}
    PROVE  Forward(s, Apply(s, kind), again)
<1>1. CASE kind \in {"addTime", "choreo"}
  BY <1>1 DEF Apply, Forward, Fits, Commands, AllowedIn, Snapshot
<1>2. CASE kind = "pause"
  BY <1>2 DEF Apply, Forward, Fits, Commands, AllowedIn, Snapshot
<1>3. CASE kind = "expired"
  BY <1>3 DEF Apply, Forward, Fits, Timed, Snapshot
<1>4. CASE kind = "opened"
  BY <1>4 DEF Apply, Forward, PhaseAfter, Snapshot
<1>5. CASE kind = "next"
  BY <1>5, CastAssumption DEF Apply, Forward, Fits, Commands, AllowedIn, PhaseAfter, Snapshot, Positions
<1>6. CASE kind \in {"start", "preview", "close", "reveal", "discuss", "revote", "leaderboard", "end"}
  <2>1. Apply(s, kind) = [s EXCEPT !.phase = PhaseAfter[kind]]
    BY <1>6 DEF Apply
  <2>2. PICK t \in Phases : t = PhaseAfter[kind]
    BY <1>6 DEF PhaseAfter, Phases
  <2>3. Apply(s, kind).phase = t /\ Apply(s, kind).q = s.q
    BY <2>1, <2>2 DEF Snapshot
  <2>4. s.phase \in AllowedIn[kind]
    BY <1>6 DEF Fits, Commands
  <2>5. /\ s.phase = "ENDED" => t \in {"ENDED", "QUESTION_OPEN"}
        /\ t # "QUESTION_OPEN"
        /\ t \in {"LOBBY_OPEN", "THINK_TIME"} => s.phase \in {"LOBBY_OPEN", "THINK_TIME"}
    BY <1>6, <2>2, <2>4 DEF PhaseAfter, AllowedIn, Phases
  <2> QED
    BY <2>3, <2>5 DEF Forward
<1> QED
  BY <1>1, <1>2, <1>3, <1>4, <1>5, <1>6 DEF Events, Commands
-----------------------------------------------------------------------------
(* Steps that leave the state and its log alone.                           *)

\* What such a step may make of the think times and of the handler's part in
\* them: one is handed on, or ends.
Hands(me, new) ==
    \A q \in Positions :
        \/ thinking'[q] = thinking[q] /\ (Opening(new, q) => Opening(me, q))
        \/ thinking'[q] = thinking[q] - 1 /\ thinking[q] > 0 /\ ~Opening(me, q)
        \/ thinking'[q] = thinking[q] + 1 /\ Opening(me, q) /\ ~Opening(new, q)

LEMMA ThinksStay ==
    ASSUME CInv, NEW c \in CastCalls, NEW new \in CastCallType,
           castCall' = [castCall EXCEPT ![c] = new],
           UNCHANGED <<cast, previews>>, clash' = clash,
           thinking' \in [Positions -> Nat], Hands(castCall[c], new)
    PROVE  ThinksOnce' /\ ThinkHolds'
<1>1. \A d \in CastCalls : castCall'[d] = IF d = c THEN new ELSE castCall[d]
  BY DEF CInv
<1>2. \A me, q : Opening(me, q)' = Opening(me, q)
  BY DEF Opening
<1>3. ASSUME NEW q \in Positions
      PROVE  /\ ThinkAhead(q)' => ThinkAhead(q)
             /\ previews[q] = 1 =>
                  /\ thinking'[q] <= 1
                  /\ thinking'[q] = 1 => \A d \in CastCalls : ~Opening(castCall'[d], q)
                  /\ \A d, e \in CastCalls :
                        Opening(castCall'[d], q) /\ Opening(castCall'[e], q) => d = e
  <2>1. thinking[q] \in Nat /\ thinking'[q] \in Nat
    BY DEF CInv
  <2>2. previews[q] = 1 =>
            /\ thinking[q] <= 1
            /\ thinking[q] = 1 => \A d \in CastCalls : ~Opening(castCall[d], q)
            /\ \A d, e \in CastCalls :
                  Opening(castCall[d], q) /\ Opening(castCall[e], q) => d = e
    BY DEF CInv, ThinksOnce
  <2>3. CASE thinking'[q] = thinking[q] /\ (Opening(new, q) => Opening(castCall[c], q))
    BY <1>1, <1>2, <2>1, <2>2, <2>3 DEF ThinkAhead
  <2>4. CASE thinking'[q] = thinking[q] - 1 /\ thinking[q] > 0 /\ ~Opening(castCall[c], q)
    BY <1>1, <1>2, <2>1, <2>2, <2>4 DEF ThinkAhead
  <2>5. CASE thinking'[q] = thinking[q] + 1 /\ Opening(castCall[c], q) /\ ~Opening(new, q)
    BY <1>1, <1>2, <2>1, <2>2, <2>5 DEF ThinkAhead
  <2> QED
    BY <2>3, <2>4, <2>5 DEF Hands
<1>4. ASSUME NEW q \in Positions, previews[q] = 0
      PROVE  ~ThinkAhead(q)
  BY <1>4 DEF CInv, ThinksOnce, ThinkAhead
<1>5. ASSUME NEW q \in Positions, previews[q] = 0
      PROVE  thinking'[q] = 0 /\ \A d \in CastCalls : ~Opening(castCall'[d], q)
  <2>1. thinking'[q] \in Nat
    BY DEF CInv
  <2> QED
    BY <1>2, <1>3, <1>4, <1>5, <2>1 DEF ThinkAhead
<1>6. ThinksOnce'
  <2>1. \A q \in Positions : previews'[q] = previews[q]
    OBVIOUS
  <2> QED
    BY <1>2, <1>3, <1>5, <2>1 DEF ThinksOnce
<1>7. ThinkHolds'
  BY <1>3 DEF CInv, ThinkHolds
<1> QED
  BY <1>6, <1>7

LEMMA QuietStep ==
    ASSUME CInv, NEW c \in CastCalls, NEW new \in CastCallType,
           castCall' = [castCall EXCEPT ![c] = new],
           UNCHANGED <<cast, castLog, clash, previews>>,
           thinking' \in [Positions -> Nat], Hands(castCall[c], new),
           timer' \in [rev : 1..MaxRevision, q : Positions] \cup {NoTimer},
           dropped' \in BOOLEAN, mishap' \in BOOLEAN, crossed' \in 0..MaxCrossings,
           new.pc \in {"write", "log", "done"} => new.base \in 1..(MaxRevision - 1),
           ~clash => CallCurrent(new),
           mishap' \/ (~mishap /\ castCall[c].pc # "log" /\ new.pc # "log")
    PROVE  CInv'
<1>1. \A d \in CastCalls : castCall'[d] = IF d = c THEN new ELSE castCall[d]
  BY DEF CInv
<1>2. LessonType' /\ castCall' \in [CastCalls -> CastCallType]
  BY DEF CInv, LessonType
<1>3. BasesInBound'
  BY <1>1 DEF CInv, BasesInBound
<1>4. CallsCurrent'
  BY <1>1 DEF CInv, CallsCurrent, CallCurrent
<1>5. ThinksOnce' /\ ThinkHolds'
  BY ThinksStay
<1>6. LogIsComplete'
  <2> SUFFICES ASSUME ~clash, ~mishap' PROVE LogIsComplete'
    BY DEF LogIsComplete
  <2>1. ~mishap /\ castCall[c].pc # "log" /\ new.pc # "log"
    OBVIOUS
  <2>2. {d \in CastCalls : castCall'[d].pc = "log"} = {d \in CastCalls : castCall[d].pc = "log"}
    BY <1>1, <2>1
  <2>3. \A d \in {e \in CastCalls : castCall[e].pc = "log"} : castCall'[d].base = castCall[d].base
    BY <1>1, <2>1
  <2>4. {castCall'[d].base + 1 : d \in {e \in CastCalls : castCall'[e].pc = "log"}}
        = {castCall[d].base + 1 : d \in {e \in CastCalls : castCall[e].pc = "log"}}
    BY <2>2, <2>3
  <2> QED
    BY <2>1, <2>4 DEF CInv, LogIsComplete
<1> QED
  BY <1>2, <1>3, <1>4, <1>5, <1>6 DEF CInv

LEMMA IdleIsCall ==
    /\ IdleCast \in CastCallType /\ IdleCast.pc = "idle" /\ IdleCast.kind = "start"
    /\ IdleCast.expected = 0 /\ IdleCast.base = 0 /\ IdleCast.unset = FALSE
<1>1. Lobby \in Snapshot /\ 0 \in Positions /\ 0 \in 0..MaxRevision
  BY CastAssumption DEF Lobby, Snapshot, Phases, Positions
<1> QED
  BY <1>1 DEF IdleCast, CastCallType, CastPcs, Events, Commands

\* A handler that has read the state is about to commit what follows from it.
LEMMA CommitsKeepsInv ==
    ASSUME CInv, NEW c \in CastCalls, NEW kind \in Events, NEW expected \in 0..MaxRevision,
           NEW cancels \in BOOLEAN, Commits(c, kind, expected, cancels),
           castCall[c].pc \notin {"check", "write", "log", "done"},
           ~clash => expected \in 1..cast.rev, Fits(cast.state, kind),
           \/ kind # "opened" /\ thinking' = thinking
           \/ /\ thinking[cast.state.q] > 0
              /\ thinking' = [thinking EXCEPT ![cast.state.q] = @ - 1],
           UNCHANGED <<cast, castLog, clash, mishap, dropped, previews>>,
           timer' \in [rev : 1..MaxRevision, q : Positions] \cup {NoTimer},
           crossed' \in 0..MaxCrossings
    PROVE  CInv'
<1>1. PICK next \in Snapshot :
          /\ next = Apply(cast.state, kind)
          /\ kind # "next" => next.q = cast.state.q
  BY ApplyIsSnapshot, ApplyKeepsQuestion DEF CInv, LessonType
<1> DEFINE new == [IdleCast EXCEPT !.pc = "check", !.kind = kind, !.expected = expected,
                                   !.next = next, !.unset = cancels]
<1>2. /\ new \in CastCallType /\ new.pc = "check" /\ new.kind = kind
      /\ new.expected = expected /\ new.next = next
  BY IdleIsCall DEF CastCallType, CastPcs
<1>3. castCall' = [castCall EXCEPT ![c] = new]
  BY <1>1 DEF Commits
<1> HIDE DEF new
<1>4. ~clash => CallCurrent(new)
  BY <1>1, <1>2 DEF CallCurrent, ComputedFrom
<1>5. thinking' \in [Positions -> Nat]
  BY DEF CInv
<1>6. Hands(castCall[c], new)
  <2> SUFFICES ASSUME NEW q \in Positions
               PROVE  \/ thinking'[q] = thinking[q] /\ (Opening(new, q) => Opening(castCall[c], q))
                      \/ thinking'[q] = thinking[q] - 1 /\ thinking[q] > 0 /\ ~Opening(castCall[c], q)
    BY DEF Hands
  <2>1. ~Opening(castCall[c], q)
    BY DEF Opening
  <2>2. CASE kind # "opened" /\ thinking' = thinking
    BY <1>2, <2>2 DEF Opening
  <2>3. CASE /\ thinking[cast.state.q] > 0 /\ kind = "opened"
             /\ thinking' = [thinking EXCEPT ![cast.state.q] = @ - 1]
    BY <1>1, <1>2, <2>1, <2>3 DEF Opening, CInv, LessonType, Snapshot
  <2>4. CASE /\ thinking[cast.state.q] > 0 /\ kind # "opened"
             /\ thinking' = [thinking EXCEPT ![cast.state.q] = @ - 1]
    BY <1>1, <1>2, <2>1, <2>4 DEF Opening, CInv
  <2> QED
    BY <2>2, <2>3, <2>4
<1> QED
  BY <1>2, <1>3, <1>4, <1>5, <1>6, QuietStep DEF CInv, LessonType

LEMMA DirectorKeepsInv == ASSUME CInv, NEW c \in CastCalls, DirectorCommands(c) PROVE CInv'
<1>1. PICK kind \in Commands, expected \in {cast.rev, cast.rev - 1} \ {0} :
        /\ crossed' = crossed \/ (crossed < MaxCrossings /\ crossed' = crossed + 1)
        /\ cast.state.phase \in AllowedIn[kind]
        /\ timer' = IF kind \in Cancelling THEN NoTimer ELSE timer
        /\ IF kind = "next" /\ AtLast(cast.state)
           THEN castCall' = [castCall EXCEPT ![c] =
                    [IdleCast EXCEPT !.pc = "again", !.expected = expected,
                                     !.unset = timer # NoTimer]]
           ELSE Commits(c, kind, expected, kind \in Cancelling /\ timer # NoTimer)
  BY DEF DirectorCommands
<1>2. UNCHANGED <<cast, castLog, thinking, clash, mishap, dropped, previews>> /\ castCall[c].pc = "idle"
  BY DEF DirectorCommands
<1>3. expected \in 0..MaxRevision /\ expected \in 1..cast.rev
  BY CastAssumption DEF CInv, LessonType
<1>4. crossed' \in 0..MaxCrossings
  BY <1>1, CastAssumption DEF CInv, LessonType
<1>5. timer' \in [rev : 1..MaxRevision, q : Positions] \cup {NoTimer}
  BY <1>1 DEF CInv, LessonType
<1>6. CASE kind = "next" /\ AtLast(cast.state)
  <2> DEFINE new == [IdleCast EXCEPT !.pc = "again", !.expected = expected,
                                     !.unset = timer # NoTimer]
  <2>1. new \in CastCallType /\ new.pc = "again" /\ new.expected = expected /\ new.kind = "start"
    BY <1>3, IdleIsCall DEF CastCallType, CastPcs
  <2>2. castCall' = [castCall EXCEPT ![c] = new]
    BY <1>1, <1>6
  <2> HIDE DEF new
  <2>3. CallCurrent(new) /\ Hands(castCall[c], new)
    BY <1>2, <1>3, <2>1 DEF CallCurrent, Hands, Opening
  <2>4. thinking' \in [Positions -> Nat]
    BY <1>2 DEF CInv
  <2> QED
    BY <1>2, <1>4, <1>5, <2>1, <2>2, <2>3, <2>4, QuietStep DEF CInv, LessonType
<1>7. CASE ~(kind = "next" /\ AtLast(cast.state))
  <2>1. Fits(cast.state, kind)
    BY <1>1, <1>7 DEF Fits, Commands
  <2>2. PICK cancels \in BOOLEAN : Commits(c, kind, expected, cancels)
    BY <1>1, <1>7
  <2>3. kind \in Events /\ kind # "opened"
    BY DEF Events, Commands
  <2> QED
    BY <1>2, <1>3, <1>4, <1>5, <2>1, <2>2, <2>3, CommitsKeepsInv
<1> QED
  BY <1>6, <1>7

\* A handler that returns.
LEMMA ReturnKeepsInv ==
    ASSUME CInv, NEW c \in CastCalls, CastReturn(c), castCall[c].pc # "log" \/ mishap',
           UNCHANGED <<cast, castLog, clash, previews>>,
           \/ thinking' = thinking
           \/ /\ castCall[c].pc = "done" /\ castCall[c].kind = "preview"
              /\ thinking' = [thinking EXCEPT ![castCall[c].next.q] = @ + 1],
           timer' \in [rev : 1..MaxRevision, q : Positions] \cup {NoTimer},
           dropped' \in BOOLEAN, mishap' \in BOOLEAN, ~mishap' => ~mishap,
           crossed' \in 0..MaxCrossings
    PROVE  CInv'
<1>1. castCall' = [castCall EXCEPT ![c] = IdleCast] /\ castCall[c].next \in Snapshot
  BY DEF CastReturn, CInv, CastCallType
<1>2. thinking' \in [Positions -> Nat]
  BY <1>1 DEF CInv, Snapshot
<1>3. CallCurrent(IdleCast) /\ \A q \in Positions : ~Opening(IdleCast, q)
  BY IdleIsCall DEF CallCurrent, Opening
<1>4. Hands(castCall[c], IdleCast)
  BY <1>1, <1>3 DEF Hands, Opening, CInv, Snapshot
<1> QED
  BY <1>1, <1>2, <1>3, <1>4, IdleIsCall, QuietStep

LEMMA EndAgainKeepsInv == ASSUME CInv, NEW c \in CastCalls, EndAgain(c) PROVE CInv'
<1>1. UNCHANGED <<cast, castLog, thinking, castHistory>> /\ castCall[c].pc = "again"
  BY DEF EndAgain
<1>2. timer' \in [rev : 1..MaxRevision, q : Positions] \cup {NoTimer}
  BY DEF EndAgain, CInv, LessonType
<1>3. CASE cast.state.phase = "ENDED"
  BY <1>1, <1>2, <1>3, ReturnKeepsInv DEF EndAgain, castHistory, CInv, LessonType
<1>4. CASE cast.state.phase # "ENDED"
  <2>1. PICK cancels \in BOOLEAN : Commits(c, "end", castCall[c].expected, cancels)
    BY <1>4 DEF EndAgain, CInv, CastCallType
  <2>2. castCall[c].expected \in 0..MaxRevision /\ "end" \in Events
    BY DEF CInv, CastCallType, Events, Commands
  <2>3. Fits(cast.state, "end")
    BY <1>4 DEF Fits, Commands, AllowedIn, CInv, LessonType, Snapshot
  <2>4. ~clash => castCall[c].expected \in 1..cast.rev
    BY <1>1 DEF CInv, CallsCurrent, CallCurrent
  <2>5. UNCHANGED <<clash, mishap, dropped, previews, crossed>> /\ crossed \in 0..MaxCrossings
    BY <1>1 DEF castHistory, CInv, LessonType
  <2> QED
    BY <1>1, <1>2, <2>1, <2>2, <2>3, <2>4, <2>5, CommitsKeepsInv
<1> QED
  BY <1>3, <1>4

LEMMA ThinkEndsKeepsInv == ASSUME CInv, NEW c \in CastCalls, ThinkEnds(c) PROVE CInv'
<1>1. PICK q \in Positions :
        /\ thinking[q] > 0
        /\ thinking' = [thinking EXCEPT ![q] = @ - 1]
        /\ IF cast.state.q = q THEN Commits(c, "opened", cast.rev, FALSE) ELSE UNCHANGED castCall
  BY DEF ThinkEnds
<1>2. /\ UNCHANGED <<cast, castLog, timer, clash, mishap, dropped, previews, crossed>>
      /\ castCall[c].pc = "idle"
  BY DEF ThinkEnds, castHistory
<1>3. crossed \in 0..MaxCrossings /\ timer \in [rev : 1..MaxRevision, q : Positions] \cup {NoTimer}
      /\ cast.rev \in 0..MaxRevision /\ cast.rev \in 1..cast.rev
  BY DEF CInv, LessonType
<1>4. CASE cast.state.q = q
  <2>1. Fits(cast.state, "opened") /\ "opened" \in Events
    BY DEF Fits, Commands, Events
  <2> QED
    BY <1>1, <1>2, <1>3, <1>4, <2>1, CommitsKeepsInv
<1>5. CASE cast.state.q # q
  <2>1. PICK new \in CastCallType : new = castCall[c]
    BY DEF CInv
  <2>2. castCall' = [castCall EXCEPT ![c] = new]
    BY <1>1, <1>5, <2>1 DEF CInv
  <2>3. thinking' \in [Positions -> Nat]
    BY <1>1 DEF CInv
  <2>4. Hands(castCall[c], new)
    BY <1>1, <1>2, <2>1 DEF Hands, Opening, CInv
  <2>5. ~clash => CallCurrent(new)
    BY <2>1 DEF CInv, CallsCurrent
  <2>6. dropped' \in BOOLEAN /\ mishap' \in BOOLEAN
    BY <1>2 DEF CInv, LessonType
  <2> QED
    BY <1>2, <1>3, <2>1, <2>2, <2>3, <2>4, <2>5, <2>6, QuietStep
<1> QED
  BY <1>4, <1>5

LEMMA TimerFiresKeepsInv == ASSUME CInv, NEW c \in CastCalls, TimerFires(c) PROVE CInv'
<1> DEFINE new == [IdleCast EXCEPT !.pc = "fired", !.expected = timer.rev, !.q = timer.q]
<1>1. timer \in [rev : 1..MaxRevision, q : Positions]
  BY DEF TimerFires, CInv, LessonType
<1>2. new \in CastCallType /\ new.pc = "fired"
  <2>1. timer.rev \in 0..MaxRevision /\ timer.q \in Positions
    BY <1>1, CastAssumption
  <2> QED
    BY <2>1, IdleIsCall DEF CastCallType, CastPcs
<1>3. castCall' = [castCall EXCEPT ![c] = new]
  BY DEF TimerFires
<1> HIDE DEF new
<1>4. /\ UNCHANGED <<cast, castLog, thinking, clash, mishap, dropped, previews, crossed>>
      /\ castCall[c].pc = "idle" /\ timer' = NoTimer
  BY DEF TimerFires, castHistory
<1>5. CallCurrent(new) /\ Hands(castCall[c], new)
  BY <1>2, <1>4 DEF CallCurrent, Hands, Opening
<1> QED
  BY <1>2, <1>3, <1>4, <1>5, QuietStep DEF CInv, LessonType

LEMMA ExpireKeepsInv == ASSUME CInv, NEW c \in CastCalls, Expire(c) PROVE CInv'
<1>1. /\ UNCHANGED <<cast, castLog, timer, thinking, clash, mishap, dropped, previews, crossed>>
      /\ castCall[c].pc = "fired"
  BY DEF Expire, castHistory
<1>2. crossed \in 0..MaxCrossings /\ timer \in [rev : 1..MaxRevision, q : Positions] \cup {NoTimer}
      /\ cast.rev \in 0..MaxRevision /\ cast.rev \in 1..cast.rev
  BY DEF CInv, LessonType
<1>3. CASE StillAt(castCall[c].expected, castCall[c].q)
  <2>1. Fits(cast.state, "expired") /\ "expired" \in Events
    BY <1>3 DEF Fits, Commands, Events, StillAt
  <2> QED
    BY <1>1, <1>2, <1>3, <2>1, CommitsKeepsInv DEF Expire
<1>4. CASE ~StillAt(castCall[c].expected, castCall[c].q)
  BY <1>1, <1>2, <1>4, ReturnKeepsInv DEF Expire, CInv, LessonType
<1> QED
  BY <1>3, <1>4

LEMMA CheckKeepsInv == ASSUME CInv, NEW c \in CastCalls, CommitCheck(c) PROVE CInv'
<1>1. /\ UNCHANGED <<cast, castLog, timer, thinking, clash, mishap, previews, crossed>>
      /\ castCall[c].pc = "check"
  BY DEF CommitCheck
<1>2. PICK me \in CastCallType : me = castCall[c]
  BY DEF CInv
<1>3. CASE StaleRevision(c)
  <2>1. CastReturn(c) /\ dropped' \in BOOLEAN
    BY <1>2, <1>3 DEF CommitCheck, CInv, LessonType, CastCallType
  <2> QED
    BY <1>1, <2>1, ReturnKeepsInv DEF CInv, LessonType
<1>4. CASE ~StaleRevision(c)
  <2> DEFINE new == [me EXCEPT !.pc = "write", !.base = cast.rev, !.expected = 0, !.unset = FALSE]
  <2>1. cast.rev \in 1..(MaxRevision - 1) /\ dropped' = dropped
    BY <1>4, CastAssumption DEF CommitCheck, CInv, LessonType
  <2>2. cast.rev \in 0..MaxRevision /\ 0 \in 0..MaxRevision
    BY <2>1, CastAssumption
  <2>3. /\ new \in CastCallType /\ new.pc = "write" /\ new.base = cast.rev
        /\ new.next = me.next /\ new.kind = me.kind
    BY <2>2 DEF CastCallType, CastPcs
  <2>4. castCall' = [castCall EXCEPT ![c] = new]
    BY <1>2, <1>4 DEF CommitCheck, CInv, CastCallType
  <2> HIDE DEF new
  <2>5. Hands(castCall[c], new)
    BY <1>1, <1>2, <2>3 DEF Hands, Opening
  <2>6. ~clash => CallCurrent(new)
    <3>1. ~clash => ComputedFrom(cast.state, me)
      BY <1>1, <1>2, <1>4 DEF CInv, CallsCurrent, CallCurrent, StaleRevision
    <3> QED
      BY <2>1, <2>3, <3>1 DEF CallCurrent, ComputedFrom
  <2> QED
    BY <1>1, <2>1, <2>3, <2>4, <2>5, <2>6, QuietStep DEF CInv, LessonType
<1> QED
  BY <1>3, <1>4

LEMMA FollowKeepsInv == ASSUME CInv, NEW c \in CastCalls, Follow(c) PROVE CInv'
<1>1. PICK me \in CastCallType : me = castCall[c] /\ me.base \in 1..(MaxRevision - 1)
  BY DEF CInv, BasesInBound, Follow
<1>2. /\ castCall[c].pc = "done" /\ CastReturn(c)
      /\ UNCHANGED <<cast, castLog, clash, mishap, previews, crossed>>
      /\ timer' = IF me.kind \in Scheduling THEN [rev |-> me.base + 1, q |-> me.next.q] ELSE timer
      /\ thinking' = IF me.kind = "preview" THEN [thinking EXCEPT ![me.next.q] = @ + 1] ELSE thinking
      /\ dropped' = (dropped \/ (me.kind \in Scheduling /\ me.base + 1 # cast.rev))
  BY <1>1 DEF Follow
<1>3. timer' \in [rev : 1..MaxRevision, q : Positions] \cup {NoTimer}
  <2>1. me.base + 1 \in 1..MaxRevision /\ me.next.q \in Positions
    BY <1>1, CastAssumption DEF CastCallType, Snapshot
  <2> QED
    BY <1>2, <2>1 DEF CInv, LessonType
<1>4. dropped' \in BOOLEAN /\ mishap' \in BOOLEAN /\ crossed' \in 0..MaxCrossings
  BY <1>2 DEF CInv, LessonType
<1> QED
  BY <1>1, <1>2, <1>3, <1>4, ReturnKeepsInv
-----------------------------------------------------------------------------
(* Steps that replace the state.                                           *)

\* A commit that goes over no other one follows from the state it replaces.
LEMMA ReplaceFollows ==
    ASSUME CInv, NEW c \in CastCalls, castCall[c].pc = "write", Replace(c)
    PROVE  /\ cast' \in [state : Snapshot, rev : 1..MaxRevision] /\ clash' \in BOOLEAN
           /\ cast'.state = castCall[c].next
           /\ ~clash' => /\ ~clash /\ castCall[c].base = cast.rev /\ cast'.rev = cast.rev + 1
                         /\ ComputedFrom(cast.state, castCall[c])
<1>1. PICK me \in CastCallType : me = castCall[c] /\ me.base \in 1..(MaxRevision - 1)
  BY DEF CInv, BasesInBound
<1>2. cast' = [state |-> me.next, rev |-> me.base + 1] /\ clash' = (clash \/ cast.rev # me.base)
  BY <1>1 DEF Replace
<1>3. me.base + 1 \in 1..MaxRevision /\ me.next \in Snapshot
  BY <1>1, CastAssumption DEF CastCallType
<1>4. clash' \in BOOLEAN
  BY <1>2 DEF CInv, LessonType
<1>5. ~clash' => ~clash /\ me.base = cast.rev /\ ComputedFrom(cast.state, me)
  BY <1>1, <1>2 DEF CInv, CallsCurrent, CallCurrent
<1> QED
  BY <1>1, <1>2, <1>3, <1>4, <1>5

\* Before the think time of its only preview is over, a question is previewed
\* again, or the lesson ended.
LEMMA BeforeOpening ==
    ASSUME NEW s \in Snapshot, NEW kind \in Events, Fits(s, kind),
           s.phase \in {"THINK_TIME", "ENDED"}, kind # "opened"
    PROVE  Apply(s, kind).phase \in {"THINK_TIME", "ENDED"}
<1>1. CASE kind \in {"addTime", "choreo"}
  BY <1>1 DEF Apply
<1>2. CASE kind = "end"
  BY <1>2 DEF Apply, PhaseAfter, Snapshot
<1>3. CASE kind = "preview"
  BY <1>3 DEF Apply, PhaseAfter, Snapshot
<1>4. CASE kind = "expired"
  BY <1>4 DEF Fits, Timed
<1>5. kind \in {"addTime", "choreo", "end", "preview", "expired"}
  BY DEF Fits, AllowedIn, Events, Commands
<1> QED
  BY <1>1, <1>2, <1>3, <1>4, <1>5

LEMMA ReplaceKeepsInv ==
    ASSUME CInv, NEW c \in CastCalls, castCall[c].pc = "write", Replace(c),
           NEW new \in CastCallType, castCall' = [castCall EXCEPT ![c] = new],
           UNCHANGED <<castLog, timer, thinking>>,
           dropped' \in BOOLEAN, mishap' \in BOOLEAN, crossed' \in 0..MaxCrossings,
           \/ /\ new.pc = "log" /\ mishap' = mishap
              /\ new.kind = castCall[c].kind /\ new.next = castCall[c].next
              /\ new.base = castCall[c].base
              /\ previews' = IF new.kind = "preview"
                             THEN [previews EXCEPT ![new.next.q] = @ + 1] ELSE previews
           \/ new.pc = "idle" /\ mishap' /\ previews' = previews
    PROVE  CInv'
<1>1. \A d \in CastCalls : castCall'[d] = IF d = c THEN new ELSE castCall[d]
  BY DEF CInv
<1>2. PICK me \in CastCallType : me = castCall[c] /\ me.base \in 1..(MaxRevision - 1)
  BY DEF CInv, BasesInBound
<1>3. /\ cast' \in [state : Snapshot, rev : 1..MaxRevision] /\ clash' \in BOOLEAN
      /\ cast'.state = me.next
      /\ ~clash' => /\ ~clash /\ me.base = cast.rev /\ cast'.rev = cast.rev + 1
                    /\ ComputedFrom(cast.state, me)
  BY <1>2, ReplaceFollows
<1>4. /\ previews' \in [Positions -> Nat] /\ me.next.q \in Positions
      /\ \A q \in Positions :
            previews'[q] = IF new.pc = "log" /\ me.kind = "preview" /\ q = me.next.q
                           THEN previews[q] + 1 ELSE previews[q]
  BY <1>2 DEF CInv, LessonType, CastCallType, Snapshot
<1>5. LessonType' /\ castCall' \in [CastCalls -> CastCallType] /\ thinking' \in [Positions -> Nat]
  BY <1>3, <1>4 DEF CInv, LessonType
<1>6. BasesInBound'
  BY <1>1, <1>2 DEF CInv, BasesInBound
<1>7. CallsCurrent'
  <2> SUFFICES ASSUME ~clash', NEW d \in CastCalls PROVE CallCurrent(castCall[d])'
    BY DEF CallsCurrent
  <2>1. CASE d = c
    BY <1>1, <2>1 DEF CallCurrent
  <2>2. CASE d # c
    <3>1. PICK it \in CastCallType : it = castCall[d] /\ it = castCall'[d]
      BY <1>1, <2>2 DEF CInv
    <3>2. CallCurrent(it)
      BY <1>3, <3>1 DEF CInv, CallsCurrent
    <3>3. cast.rev \in Nat /\ it.expected \in Nat /\ it.base \in Nat /\ cast'.rev = cast.rev + 1
      BY <1>3, CastAssumption DEF CInv, LessonType, CastCallType
    <3>4. CallCurrent(it)'
      BY <3>2, <3>3 DEF CallCurrent
    <3> QED
      BY <3>1, <3>4
  <2> QED
    BY <2>1, <2>2
<1>8. \A it, q : Opening(it, q)' = Opening(it, q)
  BY DEF Opening
<1>9. /\ \A q : Opening(new, q) <=> new.pc = "log" /\ me.kind = "preview" /\ q = me.next.q
      /\ \A q : Opening(me, q) <=> me.kind = "opened" /\ q = me.next.q
  BY <1>2 DEF Opening
<1>10. ThinksOnce'
  <2> SUFFICES ASSUME NEW q \in Positions
               PROVE  /\ previews'[q] = 0 =>
                            thinking[q] = 0 /\ \A d \in CastCalls : ~Opening(castCall'[d], q)
                      /\ previews'[q] = 1 =>
                            /\ thinking[q] <= 1
                            /\ thinking[q] = 1 => \A d \in CastCalls : ~Opening(castCall'[d], q)
                            /\ \A d, e \in CastCalls :
                                  Opening(castCall'[d], q) /\ Opening(castCall'[e], q) => d = e
    BY <1>8 DEF ThinksOnce
  <2>1. previews[q] \in Nat /\ thinking[q] \in Nat
    BY DEF CInv, LessonType
  <2>2. /\ previews[q] = 0 =>
              thinking[q] = 0 /\ \A d \in CastCalls : ~Opening(castCall[d], q)
        /\ previews[q] = 1 =>
              /\ thinking[q] <= 1
              /\ thinking[q] = 1 => \A d \in CastCalls : ~Opening(castCall[d], q)
              /\ \A d, e \in CastCalls :
                    Opening(castCall[d], q) /\ Opening(castCall[e], q) => d = e
    BY DEF CInv, ThinksOnce
  <2>3. CASE new.pc = "log" /\ me.kind = "preview" /\ q = me.next.q
    <3>1. previews'[q] = previews[q] + 1
      BY <1>4, <2>3
    <3> QED
      BY <1>1, <2>1, <2>2, <3>1
  <2>4. CASE ~(new.pc = "log" /\ me.kind = "preview" /\ q = me.next.q)
    <3>1. previews'[q] = previews[q] /\ ~Opening(new, q)
      BY <1>4, <1>9, <2>4
    <3> QED
      BY <1>1, <2>1, <2>2, <3>1
  <2> QED
    BY <2>3, <2>4
<1>11. ThinkHolds'
  <2> SUFFICES ASSUME ~clash', NEW q \in Positions, ThinkAhead(q)', previews'[q] = 1, me.next.q = q
               PROVE  me.next.phase \in {"THINK_TIME", "ENDED"}
    BY <1>3 DEF ThinkHolds
  <2>1. /\ cast.state \in Snapshot /\ me.kind \in Events /\ Fits(cast.state, me.kind)
        /\ me.next = Apply(cast.state, me.kind)
    BY <1>3 DEF ComputedFrom, CInv, LessonType, CastCallType
  <2>2. CASE me.kind = "preview"
    BY <2>1, <2>2, ApplyKeepsQuestion
  <2>3. CASE me.kind = "next"
    BY <2>1, <2>3 DEF Apply, PhaseAfter
  <2>4. CASE me.kind \notin {"preview", "next"}
    <3>1. previews[q] = 1 /\ ~Opening(new, q)
      BY <1>4, <1>9, <2>4
    <3>2. thinking[q] > 0 \/ \E d \in CastCalls : d # c /\ Opening(castCall[d], q)
      BY <1>1, <1>8, <3>1 DEF ThinkAhead
    <3>3. me.kind # "opened"
      <4> SUFFICES ASSUME me.kind = "opened" PROVE FALSE
        OBVIOUS
      <4>1. Opening(castCall[c], q)
        BY <1>2, <1>9
      <4>2. thinking[q] \in Nat
        BY DEF CInv
      <4> QED
        BY <3>1, <3>2, <4>1, <4>2 DEF CInv, ThinksOnce
    <3>4. cast.state.q = q
      BY <2>1, <2>4, ApplyKeepsQuestion
    <3>5. cast.state.phase \in {"THINK_TIME", "ENDED"}
      BY <1>3, <3>1, <3>2, <3>4 DEF CInv, ThinkHolds, ThinkAhead
    <3> QED
      BY <2>1, <3>3, <3>5, BeforeOpening
  <2> QED
    BY <2>2, <2>3, <2>4
<1>12. LogIsComplete'
  <2> SUFFICES ASSUME ~clash', ~mishap'
               PROVE  2..cast'.rev = castLog \cup {castCall'[d].base + 1 :
                                          d \in {e \in CastCalls : castCall'[e].pc = "log"}}
    BY DEF LogIsComplete
  <2>1. new.pc = "log" /\ new.base = me.base /\ ~mishap /\ ~clash /\ me.base = cast.rev
    BY <1>2, <1>3
  <2>2. 2..cast.rev = castLog \cup {castCall[d].base + 1 :
                                    d \in {e \in CastCalls : castCall[e].pc = "log"}}
    BY <2>1 DEF CInv, LogIsComplete
  <2>3. {e \in CastCalls : castCall'[e].pc = "log"} = {e \in CastCalls : castCall[e].pc = "log"} \cup {c}
    BY <1>1, <2>1
  <2>4. \A d \in {e \in CastCalls : castCall[e].pc = "log"} : castCall'[d].base = castCall[d].base
    BY <1>1
  <2>5. castCall'[c].base + 1 = cast.rev + 1
    BY <1>1, <2>1
  <2>6. {castCall'[d].base + 1 : d \in {e \in CastCalls : castCall'[e].pc = "log"}}
        = {castCall[d].base + 1 : d \in {e \in CastCalls : castCall[e].pc = "log"}} \cup {cast.rev + 1}
    BY <2>3, <2>4, <2>5
  <2>7. 2..cast'.rev = 2..cast.rev \cup {cast.rev + 1}
    <3>1. cast.rev \in Nat \ {0} /\ cast'.rev = cast.rev + 1
      BY <1>3, CastAssumption DEF CInv, LessonType
    <3> QED
      BY <3>1
  <2> QED
    BY <2>2, <2>6, <2>7
<1> QED
  BY <1>5, <1>6, <1>7, <1>10, <1>11, <1>12 DEF CInv

LEMMA WriteKeepsInv == ASSUME CInv, NEW c \in CastCalls, CommitWrite(c) PROVE CInv'
<1>1. PICK me \in CastCallType : me = castCall[c]
  BY DEF CInv
<1> DEFINE new == [me EXCEPT !.pc = "log"]
<1>2. /\ new \in CastCallType /\ new.pc = "log" /\ new.kind = me.kind /\ new.next = me.next
      /\ new.base = me.base
  BY DEF CastCallType, CastPcs
<1>3. castCall' = [castCall EXCEPT ![c] = new]
  BY <1>1 DEF CommitWrite, CInv, CastCallType
<1> HIDE DEF new
<1>4. /\ castCall[c].pc = "write" /\ Replace(c) /\ UNCHANGED <<castLog, timer, thinking, mishap, crossed>>
      /\ dropped' = (dropped \/ (me.kind = "choreo" /\ TimerOut))
      /\ previews' = IF me.kind = "preview" THEN [previews EXCEPT ![me.next.q] = @ + 1] ELSE previews
  BY <1>1 DEF CommitWrite
<1>5. dropped' \in BOOLEAN /\ mishap' \in BOOLEAN /\ crossed' \in 0..MaxCrossings
  BY <1>4 DEF CInv, LessonType
<1> QED
  BY <1>1, <1>2, <1>3, <1>4, <1>5, ReplaceKeepsInv

LEMMA FaultKeepsInv == ASSUME CInv, NEW c \in CastCalls, CastFault(c) PROVE CInv'
<1>1. /\ CastReturn(c) /\ mishap' = TRUE
      /\ UNCHANGED <<castLog, timer, thinking, dropped, previews>>
  BY DEF CastFault
<1>2. crossed' \in 0..MaxCrossings
  BY CastAssumption DEF CastFault, CInv, LessonType
<1>3. CASE UNCHANGED <<cast, clash>>
  BY <1>1, <1>2, <1>3, ReturnKeepsInv DEF CInv, LessonType
<1>4. CASE castCall[c].pc = "write" /\ Replace(c)
  <2>1. castCall' = [castCall EXCEPT ![c] = IdleCast]
    BY <1>1 DEF CastReturn
  <2> QED
    BY <1>1, <1>2, <1>4, <2>1, IdleIsCall, ReplaceKeepsInv DEF CInv, LessonType
<1> QED
  BY <1>3, <1>4 DEF CastFault

\* The event is logged, and where something follows the handler goes on.
LEMMA LogKeepsInv == ASSUME CInv, NEW c \in CastCalls, CommitLog(c) PROVE CInv'
<1>1. PICK me \in CastCallType : me = castCall[c] /\ me.base \in 1..(MaxRevision - 1)
  BY DEF CInv, BasesInBound, CommitLog
<1>2. /\ castCall[c].pc = "log" /\ castLog' = castLog \cup {me.base + 1}
      /\ UNCHANGED <<cast, timer, thinking, clash, mishap, dropped, previews, crossed>>
  BY <1>1 DEF CommitLog, LogKey, castHistory
<1>3. PICK new \in CastCallType :
          /\ castCall' = [castCall EXCEPT ![c] = new]
          /\ \/ new.pc = "done" /\ new.kind = me.kind /\ new.next = me.next /\ new.base = me.base
             \/ new.pc = "idle" /\ me.kind # "preview"
  <2>1. CASE me.kind \in Scheduling \cup {"preview"}
    <3> DEFINE new == [me EXCEPT !.pc = "done"]
    <3>1. new \in CastCallType
      BY DEF CastCallType, CastPcs
    <3>2. castCall' = [castCall EXCEPT ![c] = new]
      BY <1>1, <2>1 DEF CommitLog, CInv, CastCallType
    <3>3. new.pc = "done" /\ new.kind = me.kind /\ new.next = me.next /\ new.base = me.base
      BY DEF CastCallType
    <3> QED
      BY <3>1, <3>2, <3>3
  <2>2. CASE me.kind \notin Scheduling \cup {"preview"}
    BY <1>1, <2>2, IdleIsCall DEF CommitLog, CastReturn
  <2> QED
    BY <2>1, <2>2
<1>4. \A d \in CastCalls : castCall'[d] = IF d = c THEN new ELSE castCall[d]
  BY <1>3 DEF CInv
<1>5. LessonType' /\ castCall' \in [CastCalls -> CastCallType] /\ thinking' \in [Positions -> Nat]
  <2>1. me.base + 1 \in 2..MaxRevision
    BY <1>1, CastAssumption
  <2> QED
    BY <1>2, <1>3, <2>1 DEF CInv, LessonType
<1>6. BasesInBound'
  BY <1>1, <1>3, <1>4 DEF CInv, BasesInBound
<1>7. CallsCurrent'
  BY <1>2, <1>3, <1>4 DEF CInv, CallsCurrent, CallCurrent
<1>8. Hands(castCall[c], new)
  BY <1>1, <1>2, <1>3 DEF Hands, Opening
<1>9. ThinksOnce' /\ ThinkHolds'
  BY <1>2, <1>3, <1>5, <1>8, ThinksStay
<1>10. LogIsComplete'
  <2>1. {e \in CastCalls : castCall'[e].pc = "log"} = {e \in CastCalls : castCall[e].pc = "log"} \ {c}
    BY <1>3, <1>4
  <2>2. \A d \in {e \in CastCalls : castCall'[e].pc = "log"} : castCall'[d].base = castCall[d].base
    BY <1>4, <2>1
  <2>3. castLog \cup {castCall[d].base + 1 : d \in {e \in CastCalls : castCall[e].pc = "log"}}
        = castLog' \cup {castCall'[d].base + 1 : d \in {e \in CastCalls : castCall'[e].pc = "log"}}
    BY <1>1, <1>2, <2>1, <2>2
  <2> QED
    BY <1>2, <2>3 DEF CInv, LogIsComplete
<1> QED
  BY <1>5, <1>6, <1>7, <1>9, <1>10 DEF CInv

LEMMA LessonStarts == CastInit => CInv
<1> SUFFICES ASSUME CastInit PROVE CInv
  OBVIOUS
<1>1. Lobby \in Snapshot /\ 0 \in Positions /\ 1 \in 1..MaxRevision /\ 0 \in 0..MaxCrossings
  BY CastAssumption DEF Lobby, Snapshot, Phases, Positions
<1>2. LessonType /\ thinking \in [Positions -> Nat]
  BY <1>1 DEF CastInit, LessonType
<1>3. castCall \in [CastCalls -> CastCallType] /\ \A c \in CastCalls : castCall[c] = IdleCast
  BY IdleIsCall DEF CastInit
<1>4. BasesInBound /\ CallsCurrent
  BY <1>3, IdleIsCall DEF BasesInBound, CallsCurrent, CallCurrent
<1>5. ThinksOnce /\ ThinkHolds
  BY <1>3, IdleIsCall DEF CastInit, ThinksOnce, ThinkHolds, Opening
<1>6. LogIsComplete
  <2>1. {d \in CastCalls : castCall[d].pc = "log"} = {}
    BY <1>3, IdleIsCall
  <2>2. 2..1 = {}
    OBVIOUS
  <2> QED
    BY <2>1, <2>2 DEF CastInit, LogIsComplete
<1> QED
  BY <1>2, <1>3, <1>4, <1>5, <1>6 DEF CInv

LEMMA LessonSteps == CInv /\ [CastNext]_castVars => CInv'
<1> SUFFICES ASSUME CInv, [CastNext]_castVars PROVE CInv'
  OBVIOUS
<1>1. CASE UNCHANGED castVars
  BY <1>1 DEF castVars, castHistory, CInv, LessonType, BasesInBound, CallsCurrent, CallCurrent,
              ThinksOnce, ThinkHolds, ThinkAhead, Opening, LogIsComplete
<1>2. ASSUME NEW c \in CastCalls,
             DirectorCommands(c) \/ ThinkEnds(c) \/ TimerFires(c) \/ Goes(c) \/ CastFault(c)
      PROVE  CInv'
  BY <1>2, DirectorKeepsInv, ThinkEndsKeepsInv, TimerFiresKeepsInv, ExpireKeepsInv,
     EndAgainKeepsInv, CheckKeepsInv, WriteKeepsInv, LogKeepsInv, FollowKeepsInv, FaultKeepsInv
     DEF Goes
<1> QED
  BY <1>1, <1>2 DEF CastNext, CastOver

LEMMA LessonInvariance == CastSpec => []CInv
BY LessonStarts, LessonSteps, PTL DEF CastSpec
-----------------------------------------------------------------------------
(* Theorems.                                                               *)

\* The log a reconnecting client catches up from has an event for every revision
\* but for those a handler is about to store, unless commits clashed or a call
\* failed.
THEOREM LogKeepsUp == CastSpec => []LogIsComplete
<1>1. CInv => LogIsComplete
  BY DEF CInv
<1> QED
  BY <1>1, LessonInvariance, PTL

\* The state of a lesson keeps its shape.
THEOREM LessonTyped == CastSpec => []CastType
<1>1. CInv => CastType
  BY DEF CInv, LessonType, CastCallType, CastPcs, CastType
<1> QED
  BY <1>1, LessonInvariance, PTL

\* Only a commit changes the state.
LEMMA OnlyCommits ==
    ASSUME CastNext, cast' # cast
    PROVE  \E c \in CastCalls : castCall[c].pc = "write" /\ Replace(c)
BY DEF CastNext, CastOver, castVars, DirectorCommands, ThinkEnds, TimerFires, Goes, Expire, EndAgain,
       CommitCheck, CommitWrite, CommitLog, Follow, CastFault

\* Whatever commands and timers cross, as long as no commit goes over another the
\* lesson only moves forward, by one revision at a time.
THEOREM LessonIsForward == CastSpec => LessonMovesForward
<1>1. ASSUME CInv, [CastNext]_castVars, cast' # cast, ~clash'
      PROVE  cast'.rev = cast.rev + 1 /\ Forward(cast.state, cast'.state, previews[cast.state.q] > 1)
  <2>1. CastNext
    BY <1>1 DEF castVars
  <2>2. PICK c \in CastCalls : castCall[c].pc = "write" /\ Replace(c)
    BY <1>1, <2>1, OnlyCommits
  <2>3. PICK me \in CastCallType : me = castCall[c]
    BY <1>1 DEF CInv
  <2>4. /\ cast'.rev = cast.rev + 1 /\ ~clash /\ cast.state \in Snapshot /\ me.kind \in Events
        /\ cast'.state = Apply(cast.state, me.kind) /\ Fits(cast.state, me.kind)
        /\ me.next = Apply(cast.state, me.kind)
    BY <1>1, <2>2, <2>3, ReplaceFollows DEF ComputedFrom, CInv, LessonType, CastCallType
  <2>5. ASSUME me.kind = "opened", ~(previews[cast.state.q] > 1)
        PROVE  cast.state.phase \in {"THINK_TIME", "ENDED"}
    <3>1. cast.state.q \in Positions /\ previews[cast.state.q] \in Nat
      BY <1>1, <2>4 DEF CInv, LessonType, Snapshot
    <3>2. Opening(castCall[c], cast.state.q)
      BY <2>2, <2>3, <2>4, <2>5, ApplyKeepsQuestion DEF Opening
    <3>3. previews[cast.state.q] # 0
      BY <1>1, <3>1, <3>2 DEF CInv, ThinksOnce
    <3>4. previews[cast.state.q] = 1 => cast.state.phase \in {"THINK_TIME", "ENDED"}
      BY <1>1, <2>4, <3>1, <3>2 DEF CInv, ThinkHolds, ThinkAhead
    <3> QED
      BY <2>5, <3>1, <3>3, <3>4
  <2>6. CASE previews[cast.state.q] > 1
    <3>1. Forward(cast.state, cast'.state, TRUE)
      BY <2>4, ApplyIsForward
    <3> QED
      BY <2>4, <2>6, <3>1 DEF Forward
  <2>7. CASE ~(previews[cast.state.q] > 1)
    <3>1. Forward(cast.state, cast'.state, FALSE)
      BY <2>4, <2>5, <2>7, ApplyIsForward
    <3> QED
      BY <2>4, <2>7, <3>1 DEF Forward
  <2> QED
    BY <2>6, <2>7
<1> QED
  BY <1>1, LessonInvariance, PTL DEF CastSpec, LessonMovesForward
-----------------------------------------------------------------------------
(* GameSession: the inductive invariant.                                   *)

\* A session that was cleaned up has left nothing behind.
GoneIsQuiet ==
    ~Exists =>
        /\ ~InFlight /\ held = NothingHeld
        /\ \A kind \in Kinds, q \in QIndex : lost[kind][q] = 0

\* What was acknowledged is stored; who stores had not found an acknowledged answer.
AnswersKept ==
    Exists =>
        /\ \A pair \in acked : answers[pair[1]][pair[2]] # NoAnswer
        /\ \A c \in Answering :
              /\ answering[c].pc = "ack" => StoredFor(c) # NoAnswer
              /\ answering[c].pc = "store" => answering[c].blind

\* While no two computations overlap, the one there is has read the scores as they are.
OneComputes ==
    ~raced =>
        /\ \A k, l \in Computing : computing[k].pc # "idle" /\ computing[l].pc # "idle" => k = l
        /\ \A k \in Computing, p \in Names :
              computing[k].pc \in {"write", "late"} => computing[k].scores[p] = players[p].score

ScoresKept ==
    /\ \A p \in Names : ~players[p].joined => players[p].score = 0
    /\ ~raced /\ Exists => \A p \in Names : players[p].score = Cardinality(Credits(p))

CreditsFinite == \A p \in Names : IsFiniteSet(Credits(p))

\* A computation that will credit this answer.
WillCredit(me, q, p) ==
    /\ me.q = q
    /\ \/ me.pc = "read" /\ p \in RightAnswers(q)
       \/ me.pc = "write" /\ p \in me.answered \cap me.right

DueKept ==
    incidents = 0 => \A pair \in due :
        \/ paid[pair[1]][pair[2]] >= 1
        \/ \E k \in Computing : WillCredit(computing[k], pair[1], pair[2])

\* The parts of GameType that steps disturb together.
SessionTyped ==
    /\ game \in [status : GameStatuses, q : QIndex]
    /\ players \in [Names -> [joined : BOOLEAN, score : Nat]]
    /\ answers \in [QIndex -> [Names -> GameAnswers \cup {NoAnswer}]]
    /\ results \in BOOLEAN

TimersTyped ==
    /\ held \in [Kinds -> QIndex \cup {NoQuestion}]
    /\ lost \in [Kinds -> [QIndex -> Nat]]

FlowTyped ==
    /\ preview \in QIndex \cup {NoQuestion}
    /\ activate \in [pc : {"idle", "update", "timer"}, q : QIndex]
    /\ ending \in {"no", "check", "scoring", "results", "state"}

JoinRecords == [pc : {"idle", "name", "store", "done"}, name : Players]

AnswerRecords ==
    [pc : {"idle", "token", "look", "store", "ack", "count", "done"},
     q : QIndex, name : Names, answer : GameAnswers, blind : BOOLEAN]

ScoreRecords ==
    [pc : {"idle", "read", "write", "show", "late"}, q : QIndex,
     answered : SUBSET Names, right : SUBSET Names, scores : [Names -> Nat],
     thenEnd : BOOLEAN]

BoundsTyped == commands \in 0..MaxEvents /\ incidents \in 0..MaxEvents

HistoryTyped ==
    /\ acked \subseteq QIndex \X Names /\ due \subseteq QIndex \X Names
    /\ paid \in [QIndex -> [Names -> Nat]] /\ reveals \in [QIndex -> Nat]
    /\ raced \in BOOLEAN

GameTyped ==
    /\ SessionTyped /\ TimersTyped /\ FlowTyped /\ BoundsTyped /\ HistoryTyped
    /\ joining \in [Joins -> JoinRecords]
    /\ answering \in [Answering -> AnswerRecords]
    /\ computing \in [Computing -> ScoreRecords]

GInv ==
    /\ GameTyped
    /\ GoneIsQuiet
    /\ AnswersKept
    /\ OneComputes /\ ScoresKept /\ CreditsFinite
    /\ DueKept
-----------------------------------------------------------------------------
LEMMA GameTypedIsType == GameTyped <=> GameType
BY DEF GameTyped, GameType, SessionTyped, TimersTyped, FlowTyped, BoundsTyped, HistoryTyped,
       JoinRecords, AnswerRecords, ScoreRecords

LEMMA IdleRecords ==
    /\ 0 \in QIndex
    /\ AnyPlayer \in Players /\ AnyPlayer \in Names
    /\ IdleAnswer \in AnswerRecords /\ DoneAnswer \in AnswerRecords
    /\ IdleComputing \in ScoreRecords
    /\ DoneJoin \in JoinRecords
    /\ NothingHeld \in [Kinds -> QIndex \cup {NoQuestion}]
<1>1. 0 \in QIndex
  BY GameAssumption DEF QIndex
<1>2. AnyPlayer \in Players
  BY GameAssumption DEF AnyPlayer
<1>3. AnyPlayer \in Names
  BY <1>2 DEF Names
<1>4. [right |-> FALSE, token |-> NoToken] \in GameAnswers
  BY DEF GameAnswers
<1>5. IdleAnswer \in AnswerRecords
  BY <1>1, <1>3, <1>4 DEF IdleAnswer, AnswerRecords
<1>6. DoneAnswer \in AnswerRecords
  BY <1>5 DEF DoneAnswer, AnswerRecords
<1>7. IdleComputing \in ScoreRecords
  BY <1>1 DEF IdleComputing, ScoreRecords, NoScores
<1> QED
  BY <1>1, <1>2, <1>3, <1>5, <1>6, <1>7 DEF DoneJoin, JoinRecords, NothingHeld

\* Nothing is credited to a player of whom no answer was paid.
LEMMA NoCredits ==
    ASSUME NEW p, \A q \in QIndex : paid[q][p] = 0
    PROVE  Cardinality(Credits(p)) = 0 /\ IsFiniteSet(Credits(p))
<1>1. Credits(p) = {}
  BY DEF Credits
<1> QED
  BY <1>1, FS_EmptySet

LEMMA GInvInit == GameInit => GInv
<1> SUFFICES ASSUME GameInit PROVE GInv
  OBVIOUS
<1>1. GameTyped
  <2>1. 0 \in 0..MaxEvents
    BY GameAssumption
  <2>2. SessionTyped /\ TimersTyped /\ FlowTyped
    BY IdleRecords DEF GameInit, SessionTyped, TimersTyped, FlowTyped, GameStatuses
  <2>3. BoundsTyped /\ HistoryTyped
    BY <2>1 DEF GameInit, BoundsTyped, HistoryTyped
  <2>4. /\ joining \in [Joins -> JoinRecords]
        /\ answering \in [Answering -> AnswerRecords]
        /\ computing \in [Computing -> ScoreRecords]
    BY IdleRecords DEF GameInit, JoinRecords
  <2> QED
    BY <2>2, <2>3, <2>4 DEF GameTyped
<1>2. GoneIsQuiet /\ AnswersKept /\ OneComputes /\ DueKept
  BY DEF GameInit, GoneIsQuiet, Exists, AnswersKept, OneComputes, DueKept, IdleAnswer,
         IdleComputing
<1>3. ScoresKept /\ CreditsFinite
  <2>1. ASSUME NEW p \in Names PROVE Cardinality(Credits(p)) = 0 /\ IsFiniteSet(Credits(p))
    BY NoCredits DEF GameInit
  <2> QED
    BY <2>1 DEF GameInit, ScoresKept, CreditsFinite
<1> QED
  BY <1>1, <1>2, <1>3 DEF GInv

\* A timer that fires is held or lost; the references stay references.
LEMMA FiredTyped ==
    ASSUME TimersTyped, NEW kind \in Kinds, NEW q \in QIndex, NEW left \in Fired(kind, q)
    PROVE  /\ left.held \in [Kinds -> QIndex \cup {NoQuestion}]
           /\ left.lost \in [Kinds -> [QIndex -> Nat]]
           /\ held # NothingHeld \/ lost[kind][q] # 0
<1>1. CASE left = [held |-> [held EXCEPT ![kind] = NoQuestion], lost |-> lost] /\ held[kind] = q
  BY <1>1, GameAssumption DEF TimersTyped, NothingHeld
<1>2. ASSUME NEW n \in {m \in 0..lost[kind][q] : m + 1 = lost[kind][q]},
             left = [held |-> held, lost |-> [lost EXCEPT ![kind][q] = n]]
      PROVE  /\ left.held \in [Kinds -> QIndex \cup {NoQuestion}]
             /\ left.lost \in [Kinds -> [QIndex -> Nat]]
             /\ held # NothingHeld \/ lost[kind][q] # 0
  BY <1>2 DEF TimersTyped
<1> QED
  BY <1>1, <1>2 DEF Fired

LEMMA HoldTyped ==
    ASSUME TimersTyped, NEW kind \in Kinds, NEW q \in QIndex, Hold(kind, q)
    PROVE  TimersTyped'
<1>1. held' \in [Kinds -> QIndex \cup {NoQuestion}]
  BY DEF Hold, TimersTyped
<1>2. CASE held[kind] = NoQuestion
  BY <1>1, <1>2 DEF Hold, TimersTyped
<1>3. CASE held[kind] # NoQuestion
  <2>1. held[kind] \in QIndex /\ lost[kind][held[kind]] + 1 \in Nat
    BY <1>3 DEF TimersTyped
  <2> QED
    BY <1>1, <1>3, <2>1 DEF Hold, TimersTyped
<1> QED
  BY <1>2, <1>3

\* Commands and failures are counted.
LEMMA EventsCounted ==
    ASSUME BoundsTyped
    PROVE  /\ HostCommand => BoundsTyped' /\ incidents' = incidents
           /\ Incident => BoundsTyped' /\ incidents' # 0
BY GameAssumption DEF BoundsTyped, HostCommand, Incident
-----------------------------------------------------------------------------
(* What steps leave alone.                                                 *)

LEMMA AnswersUnmoved ==
    ASSUME AnswersKept, Exists, UNCHANGED <<answers, answering, acked>>
    PROVE  AnswersKept'
BY DEF AnswersKept, StoredFor

LEMMA ScoresUnmoved ==
    ASSUME ScoresKept, Exists, UNCHANGED <<players, paid>>, raced => raced'
    PROVE  ScoresKept'
<1>1. \A p \in Names : Credits(p)' = Credits(p)
  BY DEF Credits
<1> QED
  BY <1>1 DEF ScoresKept

LEMMA CreditsUnmoved ==
    ASSUME CreditsFinite, paid' = paid
    PROVE  CreditsFinite'
<1>1. \A p \in Names : Credits(p)' = Credits(p)
  BY DEF Credits
<1> QED
  BY <1>1 DEF CreditsFinite

LEMMA DueUnmoved ==
    ASSUME DueKept, incidents' = 0 => incidents = 0, UNCHANGED <<due, paid, computing, answers>>
    PROVE  DueKept'
BY DEF DueKept, WillCredit, RightAnswers, Stored

\* A step that has to do with neither answers nor scores.
LEMMA PlainKeeps ==
    ASSUME GInv, Exists, Exists', GameTyped', incidents' = 0 => incidents = 0,
           UNCHANGED <<answers, answering, acked, due, players, paid, raced, computing>>
    PROVE  GInv'
<1>1. AnswersKept' /\ ScoresKept' /\ DueKept'
  BY AnswersUnmoved, ScoresUnmoved, DueUnmoved DEF GInv
<1>2. OneComputes' /\ CreditsFinite'
  BY CreditsUnmoved DEF GInv, OneComputes
<1> QED
  BY <1>1, <1>2 DEF GInv, GoneIsQuiet

\* A session that is gone stays as it is.
LEMMA GoneStays ==
    ASSUME GInv, ~Exists, GameNext
    PROVE  GInv'
<1>1. /\ \A j \in Joins : joining[j].pc \notin {"name", "store"}
      /\ \A c \in Answering : answering[c].pc \in {"idle", "done"}
      /\ \A k \in Computing : computing[k].pc = "idle"
      /\ preview = NoQuestion /\ activate.pc = "idle" /\ ending = "no"
      /\ held = NothingHeld
      /\ \A kind \in Kinds, q \in QIndex : lost[kind][q] = 0
      /\ game.status = "gone"
  BY DEF GInv, GoneIsQuiet, InFlight, Exists
<1>2. ~JoinNext
  BY <1>1 DEF JoinNext, JoinRead, JoinName, JoinStore
<1>3. ~AnswerNext
  BY <1>1 DEF AnswerNext, AnswerRead, AnswerStep, AnswerReplay, AnswerLook, AnswerStore,
              AnswerAck, AnswerCount
<1>4. \A k \in Computing : ~ScoreStep(k)
  BY <1>1 DEF ScoreStep, ScoreRead, ScoreWrite, ScoreShow, ScoreLate
<1>5. ~FlowStep
  BY <1>1 DEF FlowStep, PreviewTimer, Activate, QuestionTimer, EndCheck, EndResults, EndState
<1>6. ~TimerStep
  <2>1. ASSUME NEW kind \in Kinds, NEW q \in QIndex, NEW left \in Fired(kind, q) PROVE FALSE
    BY <1>1, FiredTyped DEF GInv, GameTyped
  <2> QED
    BY <2>1 DEF TimerStep, PreviewEnds, TimeIsUp, AllAnswered, Kinds
<1>7. ~Cleanup /\ ~FaultNext
  BY <1>1 DEF Cleanup, Exists, FaultNext, AnswerFault, ScoreFault, KeyUnread, WriteFault, FlowFault
<1>8. HostNextStep => HostDisconnect
  BY <1>1 DEF HostNextStep, HostStart, HostLast, HostEnd, HostNext, HostForceNext, Started, Exists
<1>9. CASE HostDisconnect
  <2>1. UNCHANGED <<sessionVars, lost, flowVars, callVars, historyVars, held>>
    BY <1>1, <1>9 DEF HostDisconnect
  <2>2. BoundsTyped' /\ incidents' # 0
    BY <1>9, EventsCounted DEF HostDisconnect, GInv, GameTyped
  <2>3. GameTyped'
    BY <2>1, <2>2 DEF GInv, GameTyped, SessionTyped, TimersTyped, FlowTyped, HistoryTyped,
                      sessionVars, flowVars, callVars, historyVars
  <2>4. GoneIsQuiet' /\ ~Exists'
    BY <2>1 DEF GInv, GoneIsQuiet, InFlight, Exists, sessionVars, flowVars, callVars
  <2>5. OneComputes' /\ ScoresKept' /\ CreditsFinite'
    BY <2>1, <2>4, CreditsUnmoved DEF GInv, OneComputes, ScoresKept, sessionVars, callVars, historyVars
  <2> QED
    BY <2>2, <2>3, <2>4, <2>5 DEF GInv, AnswersKept, DueKept
<1>10. CASE GameQuiet
  <2>1. UNCHANGED <<sessionVars, lost, flowVars, callVars, historyVars, held, commands, incidents>>
    BY <1>10 DEF GameQuiet, gameVars, timerVars, boundVars
  <2>2. GameTyped'
    BY <2>1 DEF GInv, GameTyped, SessionTyped, TimersTyped, FlowTyped, HistoryTyped, BoundsTyped,
                      sessionVars, flowVars, callVars, historyVars
  <2>3. GoneIsQuiet' /\ ~Exists'
    BY <2>1 DEF GInv, GoneIsQuiet, InFlight, Exists, sessionVars, flowVars, callVars
  <2>4. OneComputes' /\ ScoresKept' /\ CreditsFinite' /\ DueKept'
    BY <2>1, <2>3, DueUnmoved, CreditsUnmoved DEF GInv, OneComputes, ScoresKept, sessionVars, callVars, historyVars
  <2> QED
    BY <2>2, <2>3, <2>4 DEF GInv, AnswersKept
<1> QED
  BY <1>2, <1>3, <1>4, <1>5, <1>6, <1>7, <1>8, <1>9, <1>10 DEF GameNext
-----------------------------------------------------------------------------
(* Joining.                                                                *)

LEMMA JoinKeeps ==
    ASSUME GInv, Exists, NEW j \in Joins,
           (\E p \in Players : JoinRead(j, p)) \/ JoinName(j)
    PROVE  GInv'
<1>1. UNCHANGED <<sessionVars, timerVars, flowVars, answering, computing, boundVars, historyVars>>
  BY DEF JoinRead, JoinName
<1>2. joining' \in [Joins -> JoinRecords]
  <2>1. joining[j] \in JoinRecords
    BY DEF GInv, GameTyped
  <2>2. [joining[j] EXCEPT !.pc = "store"] \in JoinRecords
    BY <2>1 DEF JoinRecords
  <2>3. PICK it \in JoinRecords : joining' = [joining EXCEPT ![j] = it]
    BY <2>2, IdleRecords DEF JoinRead, JoinName, JoinRecords
  <2> QED
    BY <2>3 DEF GInv, GameTyped
<1>3. GameTyped' /\ Exists'
  BY <1>1, <1>2 DEF GInv, GameTyped, SessionTyped, TimersTyped, FlowTyped, HistoryTyped, BoundsTyped,
                    sessionVars, timerVars, flowVars, historyVars, boundVars, Exists
<1> QED
  BY <1>1, <1>3, PlainKeeps DEF sessionVars, historyVars, boundVars

\* A player who joins once has no score yet.
LEMMA JoinStoreKeeps ==
    ASSUME GInv, Exists, NEW j \in Joins, JoinStore(j)
    PROVE  GInv'
<1>1. PICK p \in Names :
        /\ players' = [players EXCEPT ![p] = [joined |-> TRUE, score |-> 0]]
        /\ raced' = (raced \/ players[p].joined)
  BY DEF JoinStore, GInv, GameTyped, JoinRecords, Names
<1>2. /\ UNCHANGED <<game, answers, results, held, lost, preview, activate, ending, answering,
                     computing, commands, incidents, acked, due, paid, reveals>>
      /\ joining' = [joining EXCEPT ![j] = DoneJoin]
  BY DEF JoinStore, timerVars, flowVars, boundVars
<1>3. players' \in [Names -> [joined : BOOLEAN, score : Nat]] /\ raced' \in BOOLEAN
  BY <1>1 DEF GInv, GameTyped, SessionTyped, HistoryTyped
<1>4. GameTyped' /\ Exists'
  BY <1>2, <1>3, IdleRecords DEF GInv, GameTyped, SessionTyped, TimersTyped, FlowTyped, HistoryTyped,
                                 BoundsTyped, Exists
<1>5. ~raced' => \A o \in Names : players'[o].score = players[o].score
  BY <1>1 DEF GInv, GameTyped, SessionTyped, HistoryTyped, ScoresKept
<1>6. OneComputes'
  BY <1>1, <1>2, <1>5 DEF GInv, OneComputes
<1>7. ScoresKept'
  <2>1. \A o \in Names : Credits(o)' = Credits(o)
    BY <1>2 DEF Credits
  <2> QED
    BY <1>1, <1>5, <2>1 DEF GInv, GameTyped, SessionTyped, ScoresKept
<1> QED
  BY <1>2, <1>4, <1>6, <1>7, AnswersUnmoved, DueUnmoved, CreditsUnmoved DEF GInv, GoneIsQuiet
-----------------------------------------------------------------------------
(* Computing scores.                                                       *)

\* A computation begins: alone, or the race is noted.
LEMMA ScoringStarts ==
    ASSUME GInv, Exists, NEW q \in QIndex, NEW thenEnd \in BOOLEAN,
           NEW timers \in [Kinds -> QIndex \cup {NoQuestion}],
           StartScoring(q, timers, thenEnd),
           UNCHANGED <<sessionVars, joining, answering>>,
           lost' \in [Kinds -> [QIndex -> Nat]], FlowTyped', BoundsTyped',
           incidents' = 0 => incidents = 0
    PROVE  GInv'
<1>1. PICK k \in Computing, me \in ScoreRecords :
        /\ computing[k].pc = "idle" /\ computing' = [computing EXCEPT ![k] = me]
        /\ me.pc = "read" /\ me.q = q
  <2>1. [IdleComputing EXCEPT !.pc = "read", !.q = q, !.thenEnd = thenEnd] \in ScoreRecords
    BY IdleRecords DEF ScoreRecords
  <2>2. /\ [IdleComputing EXCEPT !.pc = "read", !.q = q, !.thenEnd = thenEnd].pc = "read"
        /\ [IdleComputing EXCEPT !.pc = "read", !.q = q, !.thenEnd = thenEnd].q = q
    BY DEF IdleComputing
  <2> QED
    BY <2>1, <2>2 DEF StartScoring
<1>2. /\ raced' = (raced \/ {l \in Computing : computing[l].pc = "idle"} # Computing)
      /\ due' = due \cup {pair \in acked : pair[1] = q /\ pair[2] \in RightAnswers(q)}
      /\ held' = [timers EXCEPT !["autoNext"] = NoQuestion]
      /\ UNCHANGED <<game, players, answers, results, joining, answering, acked, paid, reveals>>
  BY DEF StartScoring, sessionVars
<1>3. /\ computing' \in [Computing -> ScoreRecords]
      /\ \A l \in Computing : computing'[l] = IF l = k THEN me ELSE computing[l]
  BY <1>1 DEF GInv, GameTyped
<1>4. GameTyped' /\ Exists'
  <2>1. SessionTyped' /\ Exists'
    BY <1>2 DEF GInv, GameTyped, SessionTyped, Exists
  <2>2. TimersTyped'
    BY <1>2 DEF TimersTyped, Kinds
  <2>3. HistoryTyped'
    BY <1>2 DEF GInv, GameTyped, HistoryTyped
  <2> QED
    BY <1>2, <1>3, <2>1, <2>2, <2>3 DEF GInv, GameTyped
<1>5. OneComputes'
  BY <1>1, <1>2, <1>3 DEF OneComputes
<1>6. DueKept'
  <2>1. ASSUME incidents' = 0, NEW pair \in due' 
        PROVE  \/ paid[pair[1]][pair[2]] >= 1
               \/ \E l \in Computing : WillCredit(computing[l], pair[1], pair[2])'
    <3>1. CASE pair \in due
      <4>1. CASE paid[pair[1]][pair[2]] >= 1
        BY <4>1
      <4>2. CASE paid[pair[1]][pair[2]] < 1
        <5>1. PICK l \in Computing : WillCredit(computing[l], pair[1], pair[2])
          BY <2>1, <3>1, <4>2, SMTT(30) DEF GInv, DueKept, GameTyped, HistoryTyped
        <5>2. l # k
          BY <1>1, <5>1 DEF WillCredit
        <5> QED
          BY <1>2, <1>3, <5>1, <5>2 DEF WillCredit, RightAnswers, Stored
      <4> QED
        BY <3>1, <4>1, <4>2 DEF GInv, GameTyped, HistoryTyped
    <3>2. CASE pair[1] = q /\ pair[2] \in RightAnswers(q)
      BY <1>1, <1>2, <1>3, <3>2 DEF WillCredit, RightAnswers, Stored
    <3> QED
      BY <1>2, <2>1, <3>1, <3>2
  <2> QED
    BY <1>2, <2>1 DEF DueKept
<1> QED
  BY <1>2, <1>4, <1>5, <1>6, AnswersUnmoved, ScoresUnmoved, CreditsUnmoved DEF GInv, GoneIsQuiet

LEMMA ScoreReadKeeps ==
    ASSUME GInv, Exists, NEW k \in Computing, ScoreRead(k)
    PROVE  GInv'
<1>1. computing[k] \in ScoreRecords /\ computing[k].pc = "read"
  BY DEF ScoreRead, GInv, GameTyped
<1>2. PICK q \in QIndex : q = computing[k].q
  BY <1>1 DEF ScoreRecords
<1>3. UNCHANGED <<game, players, answers, results, held, lost, preview, activate, ending, joining,
                  answering, commands, incidents, acked, due, paid, reveals, raced>>
  BY DEF ScoreRead, sessionVars, timerVars, flowVars, boundVars, historyVars
<1>4. PICK me \in ScoreRecords :
        /\ computing' = [computing EXCEPT ![k] = me]
        /\ me.q = q /\ me.pc = "write" /\ me.answered = Stored(q) /\ me.right = RightAnswers(q)
        /\ \A p \in Names : me.scores[p] = players[p].score
  <2>1. PICK scores \in [Names -> Nat] : scores = [p \in Names |-> players[p].score]
    BY DEF GInv, GameTyped, SessionTyped
  <2>2. PICK me : me = [computing[k] EXCEPT !.pc = "write", !.answered = Stored(q),
                                            !.right = RightAnswers(q), !.scores = scores]
    OBVIOUS
  <2>3. Stored(q) \subseteq Names /\ RightAnswers(q) \subseteq Names
    BY DEF Stored, RightAnswers
  <2>4. /\ me \in ScoreRecords /\ me.q = q /\ me.pc = "write" /\ me.answered = Stored(q)
        /\ me.right = RightAnswers(q) /\ me.scores = scores
    BY <1>1, <1>2, <2>2, <2>3 DEF ScoreRecords
  <2>5. computing' = [computing EXCEPT ![k] = me]
    BY <1>1, <1>2, <2>1, <2>2 DEF ScoreRead, GInv, GameTyped
  <2> QED
    BY <2>1, <2>4, <2>5
<1>5. /\ computing' \in [Computing -> ScoreRecords]
      /\ \A l \in Computing : computing'[l] = IF l = k THEN me ELSE computing[l]
  BY <1>4 DEF GInv, GameTyped
<1>6. GameTyped' /\ Exists'
  BY <1>3, <1>5 DEF GInv, GameTyped, SessionTyped, TimersTyped, FlowTyped, HistoryTyped,
                    BoundsTyped, Exists
<1>7. OneComputes'
  BY <1>1, <1>3, <1>4, <1>5 DEF GInv, OneComputes
<1>8. DueKept'
  <2>1. ASSUME NEW l \in Computing, NEW p, NEW o, WillCredit(computing[l], o, p)
        PROVE  WillCredit(computing[l], o, p)'
    <3>1. CASE l = k
      BY <1>1, <1>2, <1>3, <1>4, <1>5, <2>1, <3>1 DEF WillCredit, RightAnswers
    <3>2. CASE l # k
      BY <1>3, <1>5, <2>1, <3>2 DEF WillCredit, RightAnswers, Stored
    <3> QED
      BY <3>1, <3>2
  <2> QED
    BY <1>3, <2>1 DEF GInv, DueKept
<1> QED
  BY <1>3, <1>6, <1>7, <1>8, AnswersUnmoved, ScoresUnmoved, CreditsUnmoved DEF GInv, GoneIsQuiet

\* Every point written is paid: the player's credits grow by one.
LEMMA WrittenIsPaid ==
    ASSUME GInv, Exists, NEW k \in Computing, computing[k].pc \in {"write", "late"},
           NEW some \in SUBSET computing[k].answered, Written(k, some), game' = game
    PROVE  /\ players' \in [Names -> [joined : BOOLEAN, score : Nat]]
           /\ paid' \in [QIndex -> [Names -> Nat]]
           /\ \A q \in QIndex, p \in Names :
                 /\ paid'[q][p] >= paid[q][p]
                 /\ q = computing[k].q /\ p \in some \cap computing[k].right => paid'[q][p] >= 1
           /\ ScoresKept' /\ CreditsFinite'
<1>1. computing[k] \in ScoreRecords /\ raced' = raced
  BY DEF GInv, GameTyped, Written
<1>2. PICK now \in QIndex : now = computing[k].q
  BY <1>1 DEF ScoreRecords
<1>3. PICK got \in SUBSET Names : got = some \cap computing[k].right
  BY <1>1 DEF ScoreRecords
<1>4. /\ paid' \in [QIndex -> [Names -> Nat]]
      /\ \A q \in QIndex, p \in Names :
            paid'[q][p] = IF q = now /\ p \in got THEN paid[q][p] + 1 ELSE paid[q][p]
  BY <1>2, <1>3 DEF Written, GInv, GameTyped, HistoryTyped
<1>5. ASSUME NEW p \in Names
      PROVE  /\ players'[p] \in [joined : BOOLEAN, score : Nat]
             /\ p \in got => players'[p].joined /\ players'[p].score = computing[k].scores[p] + 1
             /\ p \notin got => players'[p].score = players[p].score
                                /\ (players[p].joined => players'[p].joined)
  BY <1>1, <1>3, <1>5 DEF Written, Credit, GInv, GameTyped, SessionTyped, ScoreRecords
<1>6. players' \in [Names -> [joined : BOOLEAN, score : Nat]]
  BY <1>5 DEF Written
<1>7. \A p \in Names : ~players'[p].joined => players'[p].score = 0
  BY <1>5 DEF GInv, ScoresKept
<1>8. ASSUME NEW p \in Names
      PROVE  /\ IsFiniteSet(Credits(p)')
             /\ Cardinality(Credits(p)') = Cardinality(Credits(p)) + IF p \in got THEN 1 ELSE 0
             /\ Cardinality(Credits(p)) \in Nat
  <2>1. IsFiniteSet(Credits(p))
    BY DEF GInv, CreditsFinite
  <2>2. CASE p \notin got
    <3>1. Credits(p)' = Credits(p)
      BY <1>4, <2>2 DEF Credits
    <3> QED
      BY <2>1, <2>2, <3>1, FS_CardinalityType
  <2>3. CASE p \in got
    <3>1. paid[now][p] \in Nat
      BY DEF GInv, GameTyped, HistoryTyped
    <3>2. PICK new : new = <<now, paid[now][p] + 1>>
      OBVIOUS
    <3>3. Credits(p)' = Credits(p) \cup {new}
      <4>1. ASSUME NEW q \in QIndex
            PROVE  {q} \X (1..paid'[q][p]) =
                      ({q} \X (1..paid[q][p])) \cup (IF q = now THEN {new} ELSE {})
        <5>1. CASE q = now
          <6>1. 1..(paid[now][p] + 1) = (1..paid[now][p]) \cup {paid[now][p] + 1}
            BY <3>1
          <6> QED
            BY <1>4, <2>3, <3>2, <5>1, <6>1
        <5>2. CASE q # now
          BY <1>4, <5>2
        <5> QED
          BY <5>1, <5>2
      <4> QED
        BY <4>1 DEF Credits
    <3>4. new \notin Credits(p)
      BY <3>1, <3>2 DEF Credits
    <3> QED
      BY <2>1, <2>3, <3>3, <3>4, FS_AddElement, FS_CardinalityType
  <2> QED
    BY <2>2, <2>3
<1>9. ASSUME ~raced', NEW p \in Names PROVE players'[p].score = Cardinality(Credits(p)')
  <2>1. players[p].score = Cardinality(Credits(p)) /\ computing[k].scores[p] = players[p].score
    BY <1>1, <1>9 DEF GInv, ScoresKept, OneComputes
  <2> QED
    BY <1>5, <1>8, <2>1
<1>10. ScoresKept' /\ CreditsFinite'
  BY <1>7, <1>8, <1>9 DEF ScoresKept, CreditsFinite
<1>11. \A q \in QIndex, p \in Names : paid[q][p] \in Nat
  BY DEF GInv, GameTyped, HistoryTyped
<1> QED
  BY <1>2, <1>3, <1>4, <1>6, <1>10, <1>11

LEMMA ScoreWriteKeeps ==
    ASSUME GInv, Exists, NEW k \in Computing, ScoreWrite(k)
    PROVE  GInv'
<1>1. computing[k] \in ScoreRecords /\ computing[k].pc = "write"
  BY DEF ScoreWrite, GInv, GameTyped
<1>2. Written(k, computing[k].answered)
  BY DEF ScoreWrite
<1>3. UNCHANGED <<game, answers, results, held, lost, preview, activate, ending, joining,
                  answering, commands, incidents, acked, due, reveals, raced>>
  BY DEF ScoreWrite, Written, boundVars
<1>4. PICK me \in ScoreRecords : me.pc = "show" /\ computing' = [computing EXCEPT ![k] = me]
  <2>1. [computing[k] EXCEPT !.pc = "show"] \in ScoreRecords
        /\ [computing[k] EXCEPT !.pc = "show"].pc = "show"
    BY <1>1 DEF ScoreRecords
  <2> QED
    BY <2>1 DEF ScoreWrite
<1>5. /\ computing' \in [Computing -> ScoreRecords]
      /\ \A l \in Computing : computing'[l] = IF l = k THEN me ELSE computing[l]
  BY <1>4 DEF GInv, GameTyped
<1>6. GameTyped' /\ Exists' /\ ScoresKept' /\ CreditsFinite'
  BY <1>1, <1>2, <1>3, <1>5, WrittenIsPaid
     DEF GInv, GameTyped, SessionTyped, TimersTyped, FlowTyped, HistoryTyped, BoundsTyped, Exists
<1>7. OneComputes'
  BY <1>1, <1>3, <1>4, <1>5 DEF GInv, OneComputes
<1>8. \A q \in QIndex, p \in Names :
         /\ paid'[q][p] >= paid[q][p]
         /\ q = computing[k].q /\ p \in computing[k].answered \cap computing[k].right => paid'[q][p] >= 1
  BY <1>1, <1>2, <1>3, WrittenIsPaid
<1>9. DueKept'
  <2>1. ASSUME NEW l \in Computing, NEW q \in QIndex, NEW p \in Names,
               WillCredit(computing[l], q, p)
        PROVE  WillCredit(computing[l], q, p)' \/ paid'[q][p] >= 1
    <3>1. CASE l = k
      BY <1>1, <1>8, <2>1, <3>1 DEF WillCredit
    <3>2. CASE l # k
      BY <1>3, <1>5, <2>1, <3>2 DEF WillCredit, RightAnswers, Stored
    <3> QED
      BY <3>1, <3>2
  <2>2. \A q \in QIndex, p \in Names :
           paid'[q][p] \in Nat /\ paid[q][p] \in Nat /\ paid'[q][p] >= paid[q][p]
    BY <1>6, <1>8 DEF GInv, GameTyped, HistoryTyped
  <2>3. \A pair \in due : pair[1] \in QIndex /\ pair[2] \in Names
    BY DEF GInv, GameTyped, HistoryTyped
  <2> QED
    BY <1>3, <2>1, <2>2, <2>3 DEF GInv, DueKept
<1> QED
  BY <1>3, <1>6, <1>7, <1>9, AnswersUnmoved DEF GInv, GoneIsQuiet

\* A computation ends: nothing depends on it any more, or a call has failed.
LEMMA ScoringEnds ==
    ASSUME GInv, Exists, NEW k \in Computing, computing[k].pc # "idle", ScoringReturns(k),
           SessionTyped', Exists',
           HistoryTyped', BoundsTyped', ScoresKept', CreditsFinite', raced' = raced,
           UNCHANGED <<answers, lost, preview, activate, joining, answering, acked>>,
           \/ computing[k].pc = "show" /\ UNCHANGED <<due, paid, incidents, players>>
           \/ incidents' # 0
    PROVE  GInv'
<1>1. /\ computing' \in [Computing -> ScoreRecords]
      /\ \A l \in Computing : computing'[l] = IF l = k THEN IdleComputing ELSE computing[l]
  BY IdleRecords DEF ScoringReturns, GInv, GameTyped
<1>2. GameTyped'
  BY <1>1, IdleRecords DEF ScoringReturns, AfterScoring, GInv, GameTyped, TimersTyped, FlowTyped
<1>3. ASSUME ~raced' PROVE \A l \in Computing : computing'[l].pc = "idle"
  BY <1>1, <1>3 DEF GInv, OneComputes, IdleComputing
<1>4. OneComputes'
  BY <1>3 DEF OneComputes
<1>5. DueKept'
  <2>1. CASE incidents' # 0
    BY <2>1 DEF DueKept
  <2>2. CASE computing[k].pc = "show" /\ UNCHANGED <<due, paid, incidents>>
    <3>1. ASSUME NEW l \in Computing, NEW q, NEW p, WillCredit(computing[l], q, p)
          PROVE  WillCredit(computing[l], q, p)'
      BY <1>1, <2>2, <3>1 DEF WillCredit, RightAnswers, Stored
    <3> QED
      BY <2>2, <3>1 DEF GInv, DueKept
  <2> QED
    BY <2>1, <2>2
<1> QED
  BY <1>2, <1>4, <1>5, AnswersUnmoved DEF GInv, GoneIsQuiet

LEMMA ScoreShowKeeps ==
    ASSUME GInv, Exists, NEW k \in Computing, ScoreShow(k)
    PROVE  GInv'
<1>1. /\ computing[k] \in ScoreRecords /\ computing[k].pc = "show" /\ ScoringReturns(k)
      /\ game' = [status |-> "leaderboard", q |-> computing[k].q]
      /\ reveals' = [reveals EXCEPT ![computing[k].q] = @ + 1]
      /\ UNCHANGED <<players, answers, results, lost, preview, activate, joining, answering,
                     commands, incidents, acked, due, paid, raced>>
  BY DEF ScoreShow, boundVars, GInv, GameTyped
<1>2. SessionTyped' /\ Exists'
  BY <1>1 DEF GInv, GameTyped, SessionTyped, Exists, ScoreRecords, GameStatuses
<1>3. HistoryTyped' /\ BoundsTyped'
  BY <1>1 DEF GInv, GameTyped, HistoryTyped, BoundsTyped, ScoreRecords
<1>4. ScoresKept' /\ CreditsFinite'
  BY <1>1, ScoresUnmoved, CreditsUnmoved DEF GInv
<1> QED
  BY <1>1, <1>2, <1>3, <1>4, ScoringEnds

LEMMA ScoreFaultKeeps ==
    ASSUME GInv, Exists, NEW k \in Computing, ScoreFault(k)
    PROVE  GInv'
<1>1. BoundsTyped' /\ incidents' # 0 /\ ScoringReturns(k) /\ computing[k].pc # "idle"
  BY EventsCounted DEF ScoreFault, GInv, GameTyped
<1>2. UNCHANGED <<game, players, answers, results, acked, due, paid, reveals, raced, lost,
                  preview, activate, joining, answering>>
  BY DEF ScoreFault, sessionVars, historyVars
<1>3. SessionTyped' /\ HistoryTyped' /\ Exists'
  BY <1>2 DEF GInv, GameTyped, SessionTyped, HistoryTyped, Exists
<1>4. ScoresKept' /\ CreditsFinite'
  BY <1>2, ScoresUnmoved, CreditsUnmoved DEF GInv
<1> QED
  BY <1>1, <1>2, <1>3, <1>4, ScoringEnds

\* A call has failed and the computation goes on, its timers and the end of the
\* game maybe moved.
LEMMA ScoringFails ==
    ASSUME GInv, Exists, NEW k \in Computing, NEW me \in ScoreRecords,
           computing' = [computing EXCEPT ![k] = me],
           \/ computing[k].pc = "read" /\ \A p \in Names : me.scores[p] = players[p].score
           \/ computing[k].pc = "write" /\ me.scores = computing[k].scores,
           UNCHANGED <<sessionVars, lost, preview, activate, joining, answering, historyVars>>,
           held' \in [Kinds -> QIndex \cup {NoQuestion}], FlowTyped', Incident
    PROVE  GInv'
<1>1. UNCHANGED <<game, players, answers, results, acked, due, paid, reveals, raced, lost,
                  preview, activate, joining, answering>>
  BY DEF sessionVars, historyVars
<1>2. BoundsTyped' /\ incidents' # 0
  BY EventsCounted DEF GInv, GameTyped
<1>3. /\ computing' \in [Computing -> ScoreRecords]
      /\ \A l \in Computing : computing'[l] = IF l = k THEN me ELSE computing[l]
  BY DEF GInv, GameTyped
<1>4. GameTyped' /\ Exists'
  BY <1>1, <1>2, <1>3 DEF GInv, GameTyped, SessionTyped, TimersTyped, HistoryTyped, Exists
<1>5. OneComputes'
  BY <1>1, <1>3 DEF GInv, OneComputes
<1>6. DueKept'
  BY <1>2 DEF DueKept
<1> QED
  BY <1>1, <1>4, <1>5, <1>6, AnswersUnmoved, ScoresUnmoved, CreditsUnmoved DEF GInv, GoneIsQuiet

LEMMA KeyUnreadKeeps ==
    ASSUME GInv, Exists, NEW k \in Computing, KeyUnread(k)
    PROVE  GInv'
<1>1. computing[k] \in ScoreRecords /\ computing[k].pc = "read" /\ Incident
  BY DEF KeyUnread, GInv, GameTyped
<1>2. UNCHANGED <<sessionVars, held, lost, preview, activate, ending, joining, answering, historyVars>>
  BY DEF KeyUnread, timerVars, flowVars
<1>3. PICK scores \in [Names -> Nat] : scores = [p \in Names |-> players[p].score]
  BY DEF GInv, GameTyped, SessionTyped
<1>4. PICK me : me = [computing[k] EXCEPT !.pc = "write", !.answered = Stored(computing[k].q),
                                          !.right = {}, !.scores = scores]
  OBVIOUS
<1>5. me \in ScoreRecords /\ me.scores = scores
  BY <1>1, <1>4 DEF ScoreRecords, Stored
<1>6. computing' = [computing EXCEPT ![k] = me]
  BY <1>3, <1>4 DEF KeyUnread, GInv, GameTyped
<1>7. held' \in [Kinds -> QIndex \cup {NoQuestion}] /\ FlowTyped'
  BY <1>2 DEF GInv, GameTyped, TimersTyped, FlowTyped
<1> QED
  BY <1>1, <1>2, <1>3, <1>5, <1>6, <1>7, ScoringFails

LEMMA WriteFaultKeeps ==
    ASSUME GInv, Exists, NEW k \in Computing, WriteFault(k)
    PROVE  GInv'
<1>1. computing[k] \in ScoreRecords /\ computing[k].pc = "write" /\ Incident
  BY DEF WriteFault, GInv, GameTyped
<1>2. UNCHANGED <<sessionVars, lost, preview, activate, joining, answering, historyVars>>
  BY DEF WriteFault
<1>3. PICK me : me = [computing[k] EXCEPT !.pc = "late", !.thenEnd = FALSE]
  OBVIOUS
<1>4. me \in ScoreRecords /\ me.scores = computing[k].scores
  BY <1>1, <1>3 DEF ScoreRecords
<1>5. computing' = [computing EXCEPT ![k] = me]
  BY <1>3 DEF WriteFault
<1>6. held' \in [Kinds -> QIndex \cup {NoQuestion}] /\ FlowTyped'
  BY <1>2, IdleRecords DEF WriteFault, AfterScoring, GInv, GameTyped, TimersTyped, FlowTyped
<1> QED
  BY <1>1, <1>2, <1>4, <1>5, <1>6, ScoringFails

LEMMA ScoreLateKeeps ==
    ASSUME GInv, Exists, NEW k \in Computing, ScoreLate(k)
    PROVE  GInv'
<1>1. PICK some \in SUBSET computing[k].answered : Written(k, some)
  BY DEF ScoreLate
<1>2. computing[k].pc = "late" /\ computing' = [computing EXCEPT ![k] = IdleComputing]
  BY DEF ScoreLate
<1>3. UNCHANGED <<game, answers, results, held, lost, preview, activate, ending, joining,
                  answering, commands, incidents, acked, due, reveals, raced>>
  BY <1>1 DEF ScoreLate, Written, boundVars
<1>4. /\ computing' \in [Computing -> ScoreRecords]
      /\ \A l \in Computing : computing'[l] = IF l = k THEN IdleComputing ELSE computing[l]
  BY <1>2, IdleRecords DEF GInv, GameTyped
<1>5. GameTyped' /\ Exists' /\ ScoresKept' /\ CreditsFinite'
  BY <1>1, <1>2, <1>3, <1>4, WrittenIsPaid
     DEF GInv, GameTyped, SessionTyped, TimersTyped, FlowTyped, HistoryTyped, BoundsTyped, Exists
<1>6. OneComputes'
  BY <1>2, <1>3, <1>4 DEF GInv, OneComputes, IdleComputing
<1>7. \A q \in QIndex, p \in Names : paid'[q][p] >= paid[q][p]
  BY <1>1, <1>2, <1>3, WrittenIsPaid
<1>8. DueKept'
  <2>1. ASSUME NEW l \in Computing, NEW q \in QIndex, NEW p \in Names,
               WillCredit(computing[l], q, p)
        PROVE  WillCredit(computing[l], q, p)'
    <3>1. l # k
      BY <1>2, <2>1 DEF WillCredit
    <3> QED
      BY <1>3, <1>4, <2>1, <3>1 DEF WillCredit, RightAnswers, Stored
  <2>2. \A q \in QIndex, p \in Names :
           paid'[q][p] \in Nat /\ paid[q][p] \in Nat /\ paid'[q][p] >= paid[q][p]
    BY <1>5, <1>7 DEF GInv, GameTyped, HistoryTyped
  <2>3. \A pair \in due : pair[1] \in QIndex /\ pair[2] \in Names
    BY DEF GInv, GameTyped, HistoryTyped
  <2> QED
    BY <1>3, <2>1, <2>2, <2>3 DEF GInv, DueKept
<1> QED
  BY <1>3, <1>5, <1>6, <1>8, AnswersUnmoved DEF GInv, GoneIsQuiet
-----------------------------------------------------------------------------
(* Timers, the flow of questions, and the host.                            *)

\* Steps that have to do with the flow of the game and its timers only.
LEMMA FlowKeeps ==
    ASSUME GInv, Exists, Exists', SessionTyped', TimersTyped', FlowTyped', BoundsTyped',
           incidents' = 0 => incidents = 0,
           UNCHANGED <<answers, players, callVars, historyVars>>
    PROVE  GInv'
<1>1. GameTyped'
  BY DEF GInv, GameTyped, HistoryTyped, callVars, historyVars
<1> QED
  BY <1>1, PlainKeeps DEF callVars, historyVars

LEMMA PreviewAndActivateKeep ==
    ASSUME GInv, Exists, PreviewTimer \/ Activate \/ QuestionTimer
    PROVE  GInv'
<1>1. UNCHANGED <<players, answers, results, ending, callVars, boundVars, historyVars>>
  BY DEF PreviewTimer, Activate, QuestionTimer, sessionVars
<1>2. SessionTyped' /\ Exists'
  <2>1. game' \in [status : GameStatuses, q : QIndex] /\ game'.status # "gone"
    BY DEF PreviewTimer, Activate, QuestionTimer, sessionVars, GInv, GameTyped, SessionTyped,
           GameStatuses, Exists
  <2> QED
    BY <1>1, <2>1 DEF GInv, GameTyped, SessionTyped, Exists
<1>3. TimersTyped'
  <2>1. CASE PreviewTimer
    BY <2>1, HoldTyped DEF PreviewTimer, GInv, GameTyped, FlowTyped, Kinds
  <2>2. CASE QuestionTimer
    BY <2>2, HoldTyped DEF QuestionTimer, GInv, GameTyped, FlowTyped, Kinds
  <2>3. CASE Activate
    BY <2>3 DEF Activate, timerVars, GInv, GameTyped, TimersTyped
  <2> QED
    BY <2>1, <2>2, <2>3
<1>4. FlowTyped'
  BY <1>1 DEF PreviewTimer, Activate, QuestionTimer, GInv, GameTyped, FlowTyped
<1>5. BoundsTyped' /\ incidents' = incidents
  BY <1>1 DEF GInv, GameTyped, BoundsTyped, boundVars
<1> QED
  BY <1>1, <1>2, <1>3, <1>4, <1>5, FlowKeeps

LEMMA TimersKeep ==
    ASSUME GInv, Exists, NEW q \in QIndex, PreviewEnds(q) \/ TimeIsUp(q) \/ AllAnswered(q)
    PROVE  GInv'
<1>1. \A kind \in Kinds : \A left \in Fired(kind, q) :
         /\ left.held \in [Kinds -> QIndex \cup {NoQuestion}]
         /\ left.lost \in [Kinds -> [QIndex -> Nat]]
  BY FiredTyped DEF GInv, GameTyped
<1>2. SessionTyped' /\ Exists' /\ BoundsTyped' /\ incidents' = incidents
      /\ UNCHANGED <<sessionVars, joining, answering>>
  BY DEF PreviewEnds, TimeIsUp, AllAnswered, sessionVars, boundVars, callVars, GInv, GameTyped,
         SessionTyped, BoundsTyped, Exists
<1>3. CASE PreviewEnds(q)
  <2>1. TimersTyped'
    BY <1>1, <1>3 DEF PreviewEnds, TimersTyped, Kinds
  <2>2. FlowTyped'
    BY <1>3 DEF PreviewEnds, GInv, GameTyped, FlowTyped
  <2> QED
    BY <1>2, <1>3, <2>1, <2>2, FlowKeeps DEF PreviewEnds, sessionVars
<1>4. ASSUME NEW kind \in Kinds, NEW left \in Fired(kind, q), lost' = left.lost,
             StartScoring(q, left.held, FALSE), UNCHANGED flowVars
      PROVE  GInv'
  <2>1. FlowTyped'
    BY <1>4 DEF GInv, GameTyped, FlowTyped, flowVars
  <2> QED
    BY <1>1, <1>2, <1>4, <2>1, ScoringStarts
<1>5. CASE TimeIsUp(q)
  <2>1. ASSUME NEW left \in Fired("questionTimer", q), lost' = left.lost, UNCHANGED flowVars,
               StartScoring(q, left.held, FALSE)
        PROVE  GInv'
    BY <1>4, <2>1 DEF Kinds
  <2>2. ASSUME NEW left \in Fired("questionTimer", q), lost' = left.lost, UNCHANGED flowVars,
               held' = left.held, UNCHANGED <<computing, historyVars>>
        PROVE  GInv'
    <3>1. TimersTyped'
      BY <1>1, <2>2 DEF TimersTyped, Kinds
    <3>2. FlowTyped'
      BY <2>2 DEF GInv, GameTyped, FlowTyped, flowVars
    <3> QED
      BY <1>2, <2>2, <3>1, <3>2, FlowKeeps DEF sessionVars, callVars
  <2> QED
    BY <1>5, <2>1, <2>2 DEF TimeIsUp
<1>6. CASE AllAnswered(q)
  BY <1>4, <1>6 DEF AllAnswered, Kinds
<1> QED
  BY <1>3, <1>5, <1>6

LEMMA NothingHeldTyped == TimersTyped /\ held' \in {held, NothingHeld} /\ lost' = lost => TimersTyped'
BY IdleRecords DEF TimersTyped

LEMMA ShowPreviewKeeps ==
    ASSUME GInv, Exists, HostCommand, NEW q \in QIndex, ShowPreview(q)
    PROVE  GInv'
<1>1. SessionTyped' /\ Exists'
  BY DEF ShowPreview, GInv, GameTyped, SessionTyped, GameStatuses, Exists
<1>2. TimersTyped' /\ FlowTyped'
  BY DEF ShowPreview, timerVars, GInv, GameTyped, TimersTyped, FlowTyped
<1>3. BoundsTyped' /\ incidents' = incidents
  BY EventsCounted DEF GInv, GameTyped
<1> QED
  BY <1>1, <1>2, <1>3, FlowKeeps DEF ShowPreview

LEMMA HostKeeps ==
    ASSUME GInv, Exists, HostNextStep
    PROVE  GInv'
<1>1. ASSUME NEW i \in QIndex, HostForceNext(i) PROVE GInv'
  <2>1. FlowTyped' /\ lost' \in [Kinds -> [QIndex -> Nat]]
    BY <1>1 DEF HostForceNext, flowVars, GInv, GameTyped, FlowTyped, TimersTyped
  <2>2. BoundsTyped' /\ incidents' = incidents
    BY <1>1, EventsCounted DEF HostForceNext, GInv, GameTyped
  <2> QED
    BY <1>1, <2>1, <2>2, IdleRecords, ScoringStarts DEF HostForceNext
<1>2. ASSUME NEW i \in QIndex, HostNext(i) PROVE GInv'
  <2>1. i + 1 \in QIndex
    BY <1>2, GameAssumption DEF HostNext, QIndex
  <2> QED
    BY <1>2, <2>1, ShowPreviewKeeps DEF HostNext
<1>3. CASE HostStart
  BY <1>3, IdleRecords, ShowPreviewKeeps DEF HostStart
<1>4. CASE HostLast \/ HostEnd \/ HostDisconnect
  <2>1. /\ held' = NothingHeld
        /\ UNCHANGED <<sessionVars, lost, preview, activate, callVars, historyVars>>
        /\ ending' \in {ending, "results", "check"}
    BY <1>4 DEF HostLast, HostEnd, HostDisconnect, flowVars
  <2>2. SessionTyped' /\ Exists' /\ TimersTyped' /\ FlowTyped'
    BY <2>1, NothingHeldTyped DEF GInv, GameTyped, SessionTyped, FlowTyped, sessionVars, Exists
  <2>3. BoundsTyped' /\ (incidents' = 0 => incidents = 0)
    BY <1>4, EventsCounted DEF HostLast, HostEnd, HostDisconnect, GInv, GameTyped
  <2> QED
    BY <2>1, <2>2, <2>3, FlowKeeps DEF sessionVars
<1> QED
  BY <1>1, <1>2, <1>3, <1>4 DEF HostNextStep

LEMMA EndingKeeps ==
    ASSUME GInv, Exists, EndCheck \/ EndResults \/ EndState
    PROVE  GInv'
<1>1. UNCHANGED <<players, answers, preview, activate, lost, joining, answering, boundVars>>
  BY DEF EndCheck, EndResults, EndState, sessionVars, callVars, timerVars
<1>2. BoundsTyped' /\ incidents' = incidents
  BY <1>1 DEF boundVars, GInv, GameTyped, BoundsTyped
<1>3. FlowTyped'
  BY <1>1 DEF EndCheck, EndResults, EndState, GInv, GameTyped, FlowTyped
<1>4. CASE EndCheck /\ StartScoring(game.q, held, TRUE)
  BY <1>1, <1>2, <1>3, <1>4, ScoringStarts DEF EndCheck, GInv, GameTyped, SessionTyped, TimersTyped
<1>5. CASE ~StartScoring(game.q, held, TRUE) \/ EndResults \/ EndState
  <2>1. UNCHANGED <<callVars, historyVars>> /\ held' \in {held, NothingHeld}
    BY <1>1, <1>5 DEF EndCheck, EndResults, EndState, callVars, timerVars
  <2>2. TimersTyped'
    BY <1>1, <2>1, NothingHeldTyped DEF GInv, GameTyped
  <2>3. SessionTyped' /\ Exists'
    BY <1>1 DEF EndCheck, EndResults, EndState, sessionVars, GInv, GameTyped, SessionTyped,
                GameStatuses, Exists
  <2> QED
    BY <1>1, <1>2, <1>3, <2>1, <2>2, <2>3, FlowKeeps
<1> QED
  BY <1>4, <1>5

LEMMA FlowFaultKeeps ==
    ASSUME GInv, Exists, FlowFault
    PROVE  GInv'
<1>1. BoundsTyped' /\ incidents' # 0
  BY EventsCounted DEF FlowFault, GInv, GameTyped
<1>2. UNCHANGED <<sessionVars, timerVars, callVars, historyVars>>
  BY DEF FlowFault
<1>3. FlowTyped'
  BY DEF FlowFault, GInv, GameTyped, FlowTyped
<1>4. SessionTyped' /\ TimersTyped' /\ Exists'
  BY <1>2 DEF sessionVars, timerVars, GInv, GameTyped, SessionTyped, TimersTyped, Exists
<1> QED
  BY <1>1, <1>2, <1>3, <1>4, FlowKeeps DEF sessionVars

\* Everything is taken away when nothing is under way.
LEMMA CleanupKeeps ==
    ASSUME GInv, Cleanup
    PROVE  GInv'
<1>1. /\ UNCHANGED <<results, lost, preview, activate, ending, joining, answering, computing,
                     commands, incidents, acked, due, paid, reveals, raced>>
      /\ held' = NothingHeld /\ ~InFlight /\ game' = [game EXCEPT !.status = "gone"]
  BY DEF Cleanup, flowVars, callVars, boundVars, historyVars
<1>2. SessionTyped' /\ ~Exists'
  BY <1>1 DEF Cleanup, GInv, GameTyped, SessionTyped, GameStatuses, Exists
<1>3. GameTyped'
  BY <1>1, <1>2, NothingHeldTyped DEF GInv, GameTyped, FlowTyped, BoundsTyped, HistoryTyped
<1>4. GoneIsQuiet'
  BY <1>1 DEF Cleanup, GoneIsQuiet, InFlight
<1>5. \A k \in Computing : computing[k].pc = "idle"
  BY <1>1 DEF InFlight
<1>6. OneComputes'
  BY <1>1, <1>5 DEF OneComputes
<1>7. ScoresKept' /\ CreditsFinite'
  BY <1>1, <1>2, CreditsUnmoved DEF Cleanup, GInv, ScoresKept
<1>8. DueKept'
  BY <1>1, <1>5 DEF GInv, DueKept, WillCredit
<1> QED
  BY <1>2, <1>3, <1>4, <1>6, <1>7, <1>8 DEF GInv, AnswersKept
-----------------------------------------------------------------------------
(* Answers.                                                                *)

\* What an invocation of an answer may do: what is stored stays stored, what it
\* acknowledges is stored, and it stores when it has found no acknowledged answer.
LEMMA AnswerKeeps ==
    ASSUME GInv, Exists, NEW c \in Answering, NEW me \in AnswerRecords,
           answering' = [answering EXCEPT ![c] = me],
           UNCHANGED <<game, players, results, lost, preview, activate, ending, joining, computing,
                       paid, reveals, raced>>,
           TimersTyped', BoundsTyped', incidents' = 0 => incidents = 0,
           answers' \in [QIndex -> [Names -> GameAnswers \cup {NoAnswer}]],
           \A q \in QIndex, p \in Names : answers[q][p] # NoAnswer => answers'[q][p] # NoAnswer,
           acked' \subseteq QIndex \X Names,
           \A pair \in acked' : answers'[pair[1]][pair[2]] # NoAnswer,
           me.pc = "ack" => answers'[me.q][me.name] # NoAnswer,
           me.pc = "store" => me.blind,
           due' \subseteq due,
           \A pair \in due' : answers'[pair[1]][pair[2]] = answers[pair[1]][pair[2]]
    PROVE  GInv'
<1>1. /\ answering' \in [Answering -> AnswerRecords]
      /\ \A d \in Answering : answering'[d] = IF d = c THEN me ELSE answering[d]
  BY DEF GInv, GameTyped
<1>2. GameTyped' /\ Exists'
  BY <1>1 DEF GInv, GameTyped, SessionTyped, FlowTyped, HistoryTyped, Exists
<1>3. AnswersKept'
  <2>1. ASSUME NEW d \in Answering
        PROVE  /\ answering'[d].pc = "ack" => StoredFor(d)' # NoAnswer
               /\ answering'[d].pc = "store" => answering'[d].blind
    <3>1. CASE d = c
      BY <1>1, <3>1 DEF StoredFor
    <3>2. CASE d # c
      <4>1. answering[d].q \in QIndex /\ answering[d].name \in Names /\ answering'[d] = answering[d]
        BY <1>1, <3>2 DEF GInv, GameTyped, AnswerRecords
      <4> QED
        BY <4>1 DEF GInv, AnswersKept, StoredFor
    <3> QED
      BY <3>1, <3>2
  <2> QED
    BY <2>1 DEF AnswersKept
<1>4. OneComputes' /\ ScoresKept' /\ CreditsFinite'
  BY <1>2, ScoresUnmoved, CreditsUnmoved DEF GInv, OneComputes
<1>5. DueKept'
  <2>1. ASSUME NEW pair \in due', NEW k \in Computing, WillCredit(computing[k], pair[1], pair[2])
        PROVE  WillCredit(computing[k], pair[1], pair[2])'
    BY <2>1 DEF WillCredit, RightAnswers, Stored
  <2>2. ASSUME incidents' = 0, NEW pair \in due'
        PROVE  \/ paid[pair[1]][pair[2]] >= 1
               \/ \E k \in Computing : WillCredit(computing[k], pair[1], pair[2])
    BY <2>2 DEF GInv, DueKept
  <2> QED
    BY <2>1, <2>2 DEF DueKept
<1> QED
  BY <1>2, <1>3, <1>4, <1>5 DEF GInv, GoneIsQuiet

\* Where an invocation is: a question, and a name.
LEMMA SlotTyped ==
    ASSUME GInv, NEW c \in Answering
    PROVE  /\ answering[c] \in AnswerRecords
           /\ answering[c].q \in QIndex /\ answering[c].name \in Names
           /\ Slot(c) \in QIndex \X Names /\ Slot(c) = <<answering[c].q, answering[c].name>>
           /\ StoredFor(c) = answers[answering[c].q][answering[c].name]
           /\ answering[c].answer \in GameAnswers
BY DEF GInv, GameTyped, AnswerRecords, Slot, StoredFor

\* Storing an answer: its slot is no longer due.
LEMMA StoringAnAnswer ==
    ASSUME GInv, NEW c \in Answering,
           answers' = [answers EXCEPT ![answering[c].q][answering[c].name] = answering[c].answer],
           due' = due \ {Slot(c)}
    PROVE  /\ answers' \in [QIndex -> [Names -> GameAnswers \cup {NoAnswer}]]
           /\ answers'[answering[c].q][answering[c].name] # NoAnswer
           /\ \A q \in QIndex, p \in Names : answers[q][p] # NoAnswer => answers'[q][p] # NoAnswer
           /\ due' \subseteq due
           /\ \A pair \in due' : answers'[pair[1]][pair[2]] = answers[pair[1]][pair[2]]
<1>1. PICK q \in QIndex, p \in Names, it \in GameAnswers :
         /\ Slot(c) = <<q, p>> /\ answers' = [answers EXCEPT ![q][p] = it]
         /\ q = answering[c].q /\ p = answering[c].name
  BY SlotTyped
<1>2. it # NoAnswer
  BY GameAssumption
<1>3. answers \in [QIndex -> [Names -> GameAnswers \cup {NoAnswer}]]
  BY DEF GInv, GameTyped, SessionTyped
<1>4. answers' \in [QIndex -> [Names -> GameAnswers \cup {NoAnswer}]]
  BY <1>1, <1>3
<1>5. \A r \in QIndex, o \in Names :
         answers'[r][o] = IF r = q /\ o = p THEN it ELSE answers[r][o]
  BY <1>1, <1>3
<1>6. ASSUME NEW pair \in due' PROVE answers'[pair[1]][pair[2]] = answers[pair[1]][pair[2]]
  <2>1. pair \in QIndex \X Names /\ pair # <<q, p>>
    BY <1>1 DEF GInv, GameTyped, HistoryTyped
  <2>2. pair[1] \in QIndex /\ pair[2] \in Names /\ ~(pair[1] = q /\ pair[2] = p)
    BY <2>1
  <2> QED
    BY <1>5, <2>2
<1> QED
  BY <1>1, <1>2, <1>4, <1>5, <1>6

\* What the steps of an answer that store nothing leave as it is.
LEMMA AnswerAside ==
    ASSUME GInv, Exists, NEW c \in Answering, NEW me \in AnswerRecords,
           answering' = [answering EXCEPT ![c] = me],
           UNCHANGED <<sessionVars, lost, flowVars, joining, computing, boundVars, due, paid, reveals,
                       raced>>,
           held' \in [Kinds -> QIndex \cup {NoQuestion}],
           acked' \subseteq acked \cup {Slot(c)},
           Slot(c) \in acked' => StoredFor(c) # NoAnswer,
           me.pc # "ack", me.pc = "store" => me.blind
    PROVE  GInv'
<1>1. UNCHANGED <<game, players, answers, results, preview, activate, ending, joining, computing,
                  paid, reveals, raced, due, lost, commands, incidents>>
  BY DEF sessionVars, flowVars, boundVars
<1>2. TimersTyped' /\ BoundsTyped'
  BY <1>1 DEF GInv, GameTyped, TimersTyped, BoundsTyped
<1>3. answers' \in [QIndex -> [Names -> GameAnswers \cup {NoAnswer}]]
  BY <1>1 DEF GInv, GameTyped, SessionTyped
<1>4. acked' \subseteq QIndex \X Names /\ acked \subseteq QIndex \X Names
  BY SlotTyped DEF GInv, GameTyped, HistoryTyped
<1>5. ASSUME NEW pair \in acked' PROVE answers'[pair[1]][pair[2]] # NoAnswer
  <2>1. CASE pair \in acked
    BY <1>1, <2>1 DEF GInv, AnswersKept
  <2>2. CASE pair = Slot(c)
    BY <1>1, <2>2, SlotTyped
  <2> QED
    BY <2>1, <2>2
<1> QED
  BY <1>1, <1>2, <1>3, <1>4, <1>5, AnswerKeeps

LEMMA AnswerStepKeeps ==
    ASSUME GInv, Exists, NEW c \in Answering, AnswerStep(c)
    PROVE  GInv'
<1>0. /\ answering[c] \in AnswerRecords /\ DoneAnswer \in AnswerRecords
      /\ held \in [Kinds -> QIndex \cup {NoQuestion}]
      /\ Slot(c) \in QIndex \X Names
      /\ \A pair \in acked : answers[pair[1]][pair[2]] # NoAnswer
      /\ Slot(c) \in acked => StoredFor(c) # NoAnswer
  BY SlotTyped, IdleRecords DEF GInv, GameTyped, TimersTyped, AnswersKept
<1>1. CASE AnswerReplay(c)
  <2>1. PICK me \in AnswerRecords : me.pc \in {"done", "look"} /\ answering' = [answering EXCEPT ![c] = me]
    <3>1. [answering[c] EXCEPT !.pc = "look"] \in AnswerRecords
          /\ [answering[c] EXCEPT !.pc = "look"].pc = "look" /\ DoneAnswer.pc = "done"
      BY <1>0 DEF AnswerRecords, DoneAnswer, IdleAnswer
    <3> QED
      BY <1>0, <1>1, <3>1 DEF AnswerReplay
  <2>2. acked' \subseteq acked \cup {Slot(c)} /\ (Slot(c) \in acked' => StoredFor(c) # NoAnswer)
    BY <1>0, <1>1 DEF AnswerReplay
  <2>3. UNCHANGED <<sessionVars, lost, held, flowVars, joining, computing, boundVars, due, paid, reveals,
                    raced>>
    BY <1>1 DEF AnswerReplay, timerVars
  <2> QED
    BY <1>0, <2>1, <2>2, <2>3, AnswerAside
<1>2. CASE AnswerLook(c)
  <2>1. PICK me \in AnswerRecords :
          /\ me.pc # "ack" /\ (me.pc = "store" => me.blind) /\ answering' = [answering EXCEPT ![c] = me]
    <3>1. CASE StoredFor(c) # NoAnswer
      BY <1>0, <1>2, <3>1 DEF AnswerLook, DoneAnswer, IdleAnswer
    <3>2. CASE StoredFor(c) = NoAnswer
      <4>1. [answering[c] EXCEPT !.pc = "store", !.blind = TRUE] \in AnswerRecords
            /\ [answering[c] EXCEPT !.pc = "store", !.blind = TRUE].pc = "store"
            /\ [answering[c] EXCEPT !.pc = "store", !.blind = TRUE].blind
        BY <1>0 DEF AnswerRecords
      <4>2. answering' = [answering EXCEPT
                ![c] = [answering[c] EXCEPT !.pc = "store", !.blind = TRUE]]
        BY <1>0, <1>2, <3>2 DEF AnswerLook
      <4> QED
        BY <4>1, <4>2
    <3> QED
      BY <3>1, <3>2
  <2>2. UNCHANGED <<sessionVars, lost, held, flowVars, joining, computing, boundVars, due, paid, reveals,
                    raced, acked>>
    BY <1>2 DEF AnswerLook, timerVars, historyVars
  <2> QED
    BY <1>0, <2>1, <2>2, AnswerAside
<1>3. CASE AnswerStore(c)
  <2>1. PICK me \in AnswerRecords :
          /\ me.pc = "ack" /\ me.q = answering[c].q /\ me.name = answering[c].name
          /\ answering' = [answering EXCEPT ![c] = me]
    <3>1. [answering[c] EXCEPT !.pc = "ack"] \in AnswerRecords
          /\ [answering[c] EXCEPT !.pc = "ack"].pc = "ack"
          /\ [answering[c] EXCEPT !.pc = "ack"].q = answering[c].q
          /\ [answering[c] EXCEPT !.pc = "ack"].name = answering[c].name
      BY <1>0 DEF AnswerRecords
    <3> QED
      BY <1>3, <3>1 DEF AnswerStore
  <2>2. UNCHANGED <<game, players, results, lost, held, preview, activate, ending, joining, computing,
                    paid, reveals, raced, acked, commands, incidents>>
    BY <1>3 DEF AnswerStore, timerVars, flowVars, boundVars
  <2>3. TimersTyped' /\ BoundsTyped' /\ acked' \subseteq QIndex \X Names
    BY <2>2 DEF GInv, GameTyped, TimersTyped, BoundsTyped, HistoryTyped
  <2>4. /\ answers' = [answers EXCEPT ![answering[c].q][answering[c].name] = answering[c].answer]
        /\ due' = due \ {Slot(c)}
    BY <1>3 DEF AnswerStore
  <2>5. /\ answers' \in [QIndex -> [Names -> GameAnswers \cup {NoAnswer}]]
        /\ answers'[answering[c].q][answering[c].name] # NoAnswer
        /\ \A q \in QIndex, p \in Names : answers[q][p] # NoAnswer => answers'[q][p] # NoAnswer
        /\ due' \subseteq due
        /\ \A pair \in due' : answers'[pair[1]][pair[2]] = answers[pair[1]][pair[2]]
    BY <2>4, StoringAnAnswer
  <2>6. \A pair \in acked' : answers'[pair[1]][pair[2]] # NoAnswer
    BY <1>0, <2>2, <2>5 DEF GInv, GameTyped, HistoryTyped
  <2> QED
    BY <2>1, <2>2, <2>3, <2>5, <2>6, AnswerKeeps
<1>4. CASE AnswerAck(c)
  <2>1. PICK me \in AnswerRecords : me.pc = "count" /\ answering' = [answering EXCEPT ![c] = me]
    <3>1. [answering[c] EXCEPT !.pc = "count"] \in AnswerRecords
          /\ [answering[c] EXCEPT !.pc = "count"].pc = "count"
      BY <1>0 DEF AnswerRecords
    <3> QED
      BY <1>4, <3>1 DEF AnswerAck
  <2>2. acked' \subseteq acked \cup {Slot(c)} /\ StoredFor(c) # NoAnswer
    BY <1>4 DEF AnswerAck, GInv, AnswersKept
  <2>3. UNCHANGED <<sessionVars, lost, held, flowVars, joining, computing, boundVars, due, paid, reveals,
                    raced>>
    BY <1>4 DEF AnswerAck, timerVars
  <2> QED
    BY <1>0, <2>1, <2>2, <2>3, AnswerAside
<1>5. CASE AnswerCount(c)
  <2>1. answering' = [answering EXCEPT ![c] = DoneAnswer] /\ DoneAnswer.pc = "done"
    BY <1>5 DEF AnswerCount, DoneAnswer, IdleAnswer
  <2>2. held' \in [Kinds -> QIndex \cup {NoQuestion}]
    BY <1>0, <1>5 DEF AnswerCount, AnswerRecords
  <2>3. UNCHANGED <<sessionVars, lost, flowVars, joining, computing, boundVars, due, paid, reveals,
                    raced, acked>>
    BY <1>5 DEF AnswerCount, historyVars
  <2> QED
    BY <1>0, <2>1, <2>2, <2>3, AnswerAside
<1> QED
  BY <1>1, <1>2, <1>3, <1>4, <1>5 DEF AnswerStep

LEMMA AnswerReadKeeps ==
    ASSUME GInv, Exists, NEW c \in Answering, NEW r \in GameRequests, AnswerRead(c, r)
    PROVE  GInv'
<1>1. PICK me \in AnswerRecords : me.pc \in {"token", "look"} /\ answering' = [answering EXCEPT ![c] = me]
  <2>1. r.name \in Names /\ r.answer \in GameAnswers /\ game.q \in QIndex
    BY GameAssumption DEF GInv, GameTyped, SessionTyped
  <2>2. ASSUME NEW pc \in {"token", "look"}
        PROVE  /\ [IdleAnswer EXCEPT !.pc = pc, !.q = game.q, !.name = r.name, !.answer = r.answer]
                    \in AnswerRecords
               /\ [IdleAnswer EXCEPT !.pc = pc, !.q = game.q, !.name = r.name, !.answer = r.answer].pc
                    = pc
    BY <2>1, IdleRecords DEF AnswerRecords
  <2> QED
    BY <2>2 DEF AnswerRead
<1>2. UNCHANGED <<sessionVars, lost, held, flowVars, joining, computing, boundVars, due, paid, reveals,
                  raced, acked>>
  BY DEF AnswerRead, timerVars, historyVars
<1>3. held' \in [Kinds -> QIndex \cup {NoQuestion}] /\ (Slot(c) \in acked' => StoredFor(c) # NoAnswer)
  BY <1>2, SlotTyped DEF GInv, GameTyped, TimersTyped, AnswersKept
<1> QED
  BY <1>1, <1>2, <1>3, AnswerAside

LEMMA AnswerFaultKeeps ==
    ASSUME GInv, Exists, NEW c \in Answering, AnswerFault(c)
    PROVE  GInv'
<1>1. /\ answering' = [answering EXCEPT ![c] = DoneAnswer] /\ DoneAnswer.pc = "done"
      /\ DoneAnswer \in AnswerRecords
      /\ UNCHANGED <<game, players, results, lost, held, preview, activate, ending, joining, computing,
                     paid, reveals, raced, acked>>
  BY IdleRecords DEF AnswerFault, timerVars, flowVars, DoneAnswer, IdleAnswer
<1>2. BoundsTyped' /\ (incidents' = 0 => incidents = 0)
  BY EventsCounted DEF AnswerFault, GInv, GameTyped
<1>3. TimersTyped' /\ acked' \subseteq QIndex \X Names
  BY <1>1 DEF GInv, GameTyped, TimersTyped, HistoryTyped
<1>4. /\ answers' \in [QIndex -> [Names -> GameAnswers \cup {NoAnswer}]]
      /\ \A q \in QIndex, p \in Names : answers[q][p] # NoAnswer => answers'[q][p] # NoAnswer
      /\ due' \subseteq due
      /\ \A pair \in due' : answers'[pair[1]][pair[2]] = answers[pair[1]][pair[2]]
  <2>1. CASE UNCHANGED <<answers, due>>
    BY <2>1 DEF GInv, GameTyped, SessionTyped
  <2>2. CASE /\ answers' = [answers EXCEPT ![answering[c].q][answering[c].name] = answering[c].answer]
             /\ due' = due \ {Slot(c)}
    BY <2>2, StoringAnAnswer
  <2> QED
    BY <2>1, <2>2 DEF AnswerFault
<1>5. \A pair \in acked' : answers'[pair[1]][pair[2]] # NoAnswer
  BY <1>1, <1>4 DEF GInv, GameTyped, HistoryTyped, AnswersKept
<1> QED
  BY <1>1, <1>2, <1>3, <1>4, <1>5, AnswerKeeps
-----------------------------------------------------------------------------
LEMMA GInvStutter == GInv /\ UNCHANGED gameVars => GInv'
<1> SUFFICES ASSUME GInv, UNCHANGED gameVars PROVE GInv'
  OBVIOUS
<1>1. UNCHANGED <<sessionVars, lost, flowVars, callVars, historyVars, held, commands, incidents>>
  BY DEF gameVars, timerVars, boundVars
<1>2. GameTyped'
  BY <1>1 DEF GInv, GameTyped, SessionTyped, TimersTyped, FlowTyped, HistoryTyped, BoundsTyped,
              sessionVars, flowVars, callVars, historyVars
<1>3. GoneIsQuiet' /\ Exists' = Exists
  BY <1>1 DEF GInv, GoneIsQuiet, InFlight, Exists, sessionVars, flowVars, callVars
<1>4. OneComputes' /\ ScoresKept' /\ CreditsFinite' /\ DueKept'
  <2>1. \A p \in Names : Credits(p)' = Credits(p)
    BY <1>1 DEF Credits, historyVars
  <2> QED
    BY <1>1, <1>3, <2>1, DueUnmoved, CreditsUnmoved
       DEF GInv, OneComputes, ScoresKept, sessionVars, callVars, historyVars
<1>5. AnswersKept'
  BY <1>1, <1>3 DEF GInv, AnswersKept, StoredFor, sessionVars, callVars, historyVars
<1> QED
  BY <1>2, <1>3, <1>4, <1>5 DEF GInv

LEMMA GInvSteps == GInv /\ [GameNext]_gameVars => GInv'
<1> SUFFICES ASSUME GInv, [GameNext]_gameVars PROVE GInv'
  OBVIOUS
<1>1. CASE UNCHANGED gameVars
  BY <1>1, GInvStutter
<1>2. CASE ~Exists /\ GameNext
  BY <1>2, GoneStays
<1>3. CASE Exists /\ GameNext
  <2>1. CASE JoinNext
    BY <1>3, <2>1, JoinKeeps, JoinStoreKeeps DEF JoinNext
  <2>2. CASE AnswerNext
    BY <1>3, <2>2, AnswerReadKeeps, AnswerStepKeeps DEF AnswerNext
  <2>3. CASE \E k \in Computing : ScoreStep(k)
    BY <1>3, <2>3, ScoreReadKeeps, ScoreWriteKeeps, ScoreShowKeeps, ScoreLateKeeps DEF ScoreStep
  <2>4. CASE FlowStep
    BY <1>3, <2>4, PreviewAndActivateKeep, EndingKeeps DEF FlowStep
  <2>5. CASE TimerStep
    BY <1>3, <2>5, TimersKeep DEF TimerStep
  <2>6. CASE HostNextStep
    BY <1>3, <2>6, HostKeeps
  <2>7. CASE Cleanup
    BY <2>7, CleanupKeeps
  <2>8. CASE FaultNext
    BY <1>3, <2>8, AnswerFaultKeeps, ScoreFaultKeeps, KeyUnreadKeeps, WriteFaultKeeps, FlowFaultKeeps
       DEF FaultNext
  <2>9. CASE GameQuiet
    BY <2>9, GInvStutter DEF GameQuiet
  <2> QED
    BY <1>3, <2>1, <2>2, <2>3, <2>4, <2>5, <2>6, <2>7, <2>8, <2>9 DEF GameNext
<1> QED
  BY <1>1, <1>2, <1>3

LEMMA GameInvariant == GameSpec => []GInv
BY GInvInit, GInvSteps, PTL DEF GameSpec

\* The state of a game keeps its shape.
THEOREM GameTypedAlways == GameSpec => []GameType
<1>1. GInv => GameType
  BY GameTypedIsType DEF GInv
<1> QED
  BY <1>1, GameInvariant, PTL

\* Scores add up: what a player has is what the computations credited, unless
\* two computations or two joins under one name have overlapped; and a right
\* answer acknowledged before a computation started is credited when it ends
\* (computeScoresAndShowLB).
THEOREM ScoresSum == GameSpec => []ScoresAddUp
<1>1. GInv => ScoresAddUp
  <2> SUFFICES ASSUME GInv PROVE ScoresAddUp
    OBVIOUS
  <2>1. ~raced /\ game.status # "gone" => \A p \in Names : players[p].score = Cardinality(Credits(p))
    BY DEF GInv, ScoresKept, Exists
  <2>2. ASSUME incidents = 0, \A k \in Computing : computing[k].pc = "idle", NEW pair \in due
        PROVE  paid[pair[1]][pair[2]] >= 1
    BY <2>2 DEF GInv, DueKept, WillCredit
  <2> QED
    BY <2>1, <2>2 DEF ScoresAddUp
<1> QED
  BY <1>1, GameInvariant, PTL

\* First answer is final: whoever replaces an acknowledged answer had looked for
\* one before the acknowledgement went out (player:answer, arena:botAnswer).
THEOREM FirstAnswerIsKept == GameSpec => FirstAnswerFinal
<1>1. GInv => \A c \in Answering : answering[c].pc = "store" => answering[c].blind
  BY DEF GInv, GoneIsQuiet, AnswersKept, InFlight
<1>2. GInv => [\A c \in Answering :
        (answering[c].pc = "store" /\ answers' # answers /\ Slot(c) \in acked
            /\ answers'[Slot(c)[1]][Slot(c)[2]] # StoredFor(c)) => answering[c].blind]_gameVars
  BY <1>1
<1> QED
  BY <1>2, GameInvariant, PTL DEF FirstAnswerFinal
=============================================================================
