-------------------------- MODULE ChatTurnsProofs --------------------------
(***************************************************************************)
(* Proofs about ChatTurns, for every number of turns.                       *)
(***************************************************************************)
EXTENDS ChatTurns, TLAPS

(***************************************************************************)
(* Rows, and what the operations of RowStore do to them.                    *)
(***************************************************************************)
\* Questions, replies and the conversation are different rows.
LEMMA RowFacts ==
    ASSUME NEW t \in Turns, NEW s \in Turns
    PROVE  /\ Question(t) \in Rows /\ Reply(t) \in Rows /\ Conversation \in Rows
           /\ Question(t) \in Messages /\ Reply(t) \in Messages
           /\ Conversation \notin Messages
           /\ Question(t) # Reply(s)
           /\ Question(t) # Conversation /\ Reply(t) # Conversation
           /\ Question(t) = Question(s) => t = s
           /\ Reply(t) = Reply(s) => t = s
  BY DEF Question, Reply, Conversation, Rows, Messages

StoreInv ==
    /\ StoreType(db) /\ StoreType(work)
    /\ lock \in [Rows -> Turns \cup {None}]

\* A value a statement may give row o.
RowType(o, v) ==
    /\ o \in Messages => v \in Message
    /\ o = Conversation => v \in Titles

\* Writing one row keeps the store well formed and touches no other row.
LEMMA WriteStore ==
    ASSUME StoreInv, NEW t \in Turns, NEW o \in Rows, NEW v, RowType(o, v), Write(t, o, v)
    PROVE  /\ StoreInv'
           /\ db' = db
           /\ \A x \in Rows : work'[x] = IF x = o THEN v ELSE work[x]
           /\ \A x \in Rows : lock'[x] = IF x = o THEN t ELSE lock[x]
  <1> USE DEF StoreInv, Write
  <1>1. /\ db' = db
        /\ \A x \in Rows : work'[x] = IF x = o THEN v ELSE work[x]
        /\ \A x \in Rows : lock'[x] = IF x = o THEN t ELSE lock[x]
        /\ DOMAIN work' = Rows
    BY DEF StoreType
  <1>2. StoreType(db') /\ StoreType(work')
    BY <1>1 DEF StoreType, RowType, Rows
  <1>3. lock' \in [Rows -> Turns \cup {None}]
    OBVIOUS
  <1> QED BY <1>1, <1>2, <1>3

\* A commit publishes the rows t holds.
LEMMA CommitStore ==
    ASSUME StoreInv, NEW t \in Turns, Commit(t)
    PROVE  /\ StoreInv'
           /\ work' = work
           /\ \A x \in Rows : db'[x] = IF lock[x] = t THEN work[x] ELSE db[x]
           /\ \A x \in Rows : lock'[x] = IF lock[x] = t THEN None ELSE lock[x]
  <1> USE DEF StoreInv, Commit, Released
  <1>1. /\ work' = work
        /\ \A x \in Rows : db'[x] = IF lock[x] = t THEN work[x] ELSE db[x]
        /\ \A x \in Rows : lock'[x] = IF lock[x] = t THEN None ELSE lock[x]
        /\ DOMAIN db' = Rows
    OBVIOUS
  <1>2. StoreType(db') /\ StoreType(work')
    BY <1>1 DEF StoreType, Rows
  <1>3. lock' \in [Rows -> Turns \cup {None}]
    OBVIOUS
  <1> QED BY <1>1, <1>2, <1>3

\* A rollback forgets the rows t holds.
LEMMA RollbackStore ==
    ASSUME StoreInv, NEW t \in Turns, Rollback(t)
    PROVE  /\ StoreInv'
           /\ db' = db
           /\ \A x \in Rows : work'[x] = IF lock[x] = t THEN db[x] ELSE work[x]
           /\ \A x \in Rows : lock'[x] = IF lock[x] = t THEN None ELSE lock[x]
  <1> USE DEF StoreInv, Rollback, Released
  <1>1. /\ db' = db
        /\ \A x \in Rows : work'[x] = IF lock[x] = t THEN db[x] ELSE work[x]
        /\ \A x \in Rows : lock'[x] = IF lock[x] = t THEN None ELSE lock[x]
        /\ DOMAIN work' = Rows
    OBVIOUS
  <1>2. StoreType(db') /\ StoreType(work')
    BY <1>1 DEF StoreType, Rows
  <1>3. lock' \in [Rows -> Turns \cup {None}]
    OBVIOUS
  <1> QED BY <1>1, <1>2, <1>3

(***************************************************************************)
(* What a step of t leaves alone, and what follows.                         *)
(***************************************************************************)
LocalTypes ==
    /\ DOMAIN pc = Turns
    /\ mode \in [Turns -> {"json", "stream"}]
    /\ txn \in [Turns -> Nat]
    /\ untitled \in [Turns -> BOOLEAN]
    /\ hist \in [Turns -> SUBSET Messages]
    /\ made \in [Turns -> {"none", "part", "whole"}]
    /\ told \in [Turns -> {"nothing", "answer", "done", "error", "bad_gateway",
                           "internal_error"}]
    /\ left \in [Turns -> BOOLEAN]
    /\ prior \in [Turns -> SUBSET Turns]

StageType(t) ==
    \/ pc[t] \in {"idle"} \cup Common
    \/ pc[t] = "answer" /\ ~Streaming(t)
    \/ pc[t] = "late" /\ Streaming(t)

\* TypeOK falls into these parts.
LEMMA TypesOfTypeOK ==
    TypeOK <=> StoreInv /\ LocalTypes /\ \A t \in Turns : StageType(t)
  <1>1. ASSUME LocalTypes, NEW t \in Turns
        PROVE  StageType(t) <=> pc[t] = "idle" \/ pc[t] \in StagesOf[mode[t]]
    BY <1>1 DEF LocalTypes, StageType, Streaming, StagesOf, Common
  <1> QED BY <1>1 DEF TypeOK, StoreInv, LocalTypes

\* The local state of the other turns, and what was answered.
LocalFrame(t) ==
    /\ \A q \in Turns \ {t} :
           /\ pc'[q] = pc[q] /\ mode'[q] = mode[q] /\ untitled'[q] = untitled[q]
           /\ hist'[q] = hist[q] /\ told'[q] = told[q] /\ left'[q] = left[q]
           /\ prior'[q] = prior[q]
    /\ told[t] = "answer" => told'[t] = "answer"

\* The messages of the other turns.
RowsFrame(t) ==
    \A q \in Turns \ {t} : \A m \in {Question(q), Reply(q)} :
        db'[m] = db[m] /\ work'[m] = work[m] /\ lock'[m] = lock[m]

\* The other turns keep their part of the invariant.
LEMMA OthersInv ==
    ASSUME IInv, NEW t \in Turns, LocalFrame(t), RowsFrame(t), NEW q \in Turns \ {t}
    PROVE  StageType(q)' /\ TurnInv(q)'
  <1>1. /\ pc'[q] = pc[q] /\ mode'[q] = mode[q] /\ untitled'[q] = untitled[q]
        /\ hist'[q] = hist[q] /\ told'[q] = told[q] /\ left'[q] = left[q]
        /\ prior'[q] = prior[q]
    BY DEF LocalFrame
  <1>2. \A m \in {Question(q), Reply(q)} :
            db'[m] = db[m] /\ work'[m] = work[m] /\ lock'[m] = lock[m]
    BY DEF RowsFrame
  <1>3. StageType(q) /\ TurnInv(q)
    BY TypesOfTypeOK DEF IInv
  <1>4. StageType(q)'
    BY <1>1, <1>3 DEF StageType, Streaming
  <1>5. OwnRows(q)' /\ QuestionStage(q)' /\ ReplyStage(q)'
    BY <1>1, <1>2, <1>3 DEF TurnInv, OwnRows, QuestionStage, ReplyStage
  <1>6. ToldStage(q)'
    BY <1>1, <1>2, <1>3 DEF TurnInv, ToldStage, Streaming
  <1>7. \A s \in prior[q] : told'[s] = "answer"
    <2> SUFFICES ASSUME NEW s \in prior[q] PROVE told'[s] = "answer"
      OBVIOUS
    <2>1. s \in Turns /\ told[s] = "answer"
      BY <1>3 DEF IInv, TypeOK, TurnInv, PromptStage
    <2> QED BY <2>1 DEF LocalFrame
  <1>8. PromptStage(q)'
    BY <1>1, <1>3, <1>7 DEF TurnInv, PromptStage, SeenPrior, Titling
  <1> QED BY <1>4, <1>5, <1>6, <1>8 DEF TurnInv

\* What is left to show of a step of t.
LEMMA Assemble ==
    ASSUME IInv, NEW t \in Turns, LocalFrame(t), RowsFrame(t), StoreInv', LocalTypes',
           StageType(t)', TurnInv(t)', TitleStage'
    PROVE  IInv'
  <1>1. \A q \in Turns : StageType(q)' /\ TurnInv(q)'
    BY OthersInv
  <1>2. \A q \in Turns : pc'[q] = "idle" \/ pc'[q] \in StagesOf[mode'[q]]
    BY <1>1 DEF LocalTypes, StageType, Streaming, StagesOf, Common
  <1>3. TypeOK'
    BY <1>2 DEF TypeOK, StoreInv, LocalTypes
  <1> QED BY <1>1, <1>3 DEF IInv

\* The title, when a step of t leaves its row alone.
LEMMA TitleKept ==
    ASSUME IInv, NEW t \in Turns, LocalFrame(t), RowsFrame(t),
           /\ db'[Conversation] = db[Conversation]
           /\ work'[Conversation] = work[Conversation]
           /\ lock'[Conversation] = lock[Conversation],
           pc[t] # "commit_title", pc'[t] # "commit_title",
           FirstTurn(t) => FirstTurn(t)',
           db[Conversation] = Given => ~untitled'[t]
    PROVE  TitleStage'
  <1>1. \A q \in Turns : FirstTurn(q) => FirstTurn(q)'
    BY DEF LocalFrame, RowsFrame, FirstTurn
  <1>2. \A q \in Turns : lock'[Conversation] = q <=> pc'[q] = "commit_title"
    BY DEF IInv, TitleStage, LocalFrame
  <1>3. db[Conversation] = Given => \A q \in Turns : ~untitled'[q]
    BY DEF IInv, TitleStage, LocalFrame
  <1> QED BY <1>1, <1>2, <1>3 DEF IInv, TitleStage

\* What the invariant says of t alone, in the words of the lemmas above.
LEMMA TurnFacts ==
    ASSUME IInv, NEW t \in Turns
    PROVE  /\ StoreInv /\ LocalTypes /\ StageType(t) /\ TurnInv(t) /\ TitleStage
           /\ pc[t] # "commit_title" => lock[Conversation] # t
  BY TypesOfTypeOK DEF IInv, TitleStage

(***************************************************************************)
(* Steps that leave the database alone.                                     *)
(***************************************************************************)
\* Such a step keeps the invariant if it keeps that of its turn and does not
\* move to or from a title waiting for its commit.
LEMMA LocalStep ==
    ASSUME IInv, NEW t \in Turns, UNCHANGED store, LocalFrame(t), LocalTypes',
           StageType(t)', QuestionStage(t)', ReplyStage(t)', ToldStage(t)',
           PromptStage(t)', pc[t] # "commit_title", pc'[t] # "commit_title",
           prior'[t] = prior[t] \/ pc[t] = "idle",
           db[Conversation] = Given => ~untitled'[t]
    PROVE  IInv'
  <1>1. StoreInv' /\ RowsFrame(t)
    BY TurnFacts DEF store, StoreInv, StoreType, RowsFrame
  <1>2. TurnInv(t)'
    BY TurnFacts DEF store, TurnInv, OwnRows
  <1>3. FirstTurn(t) => FirstTurn(t)'
    BY TurnFacts DEF store, TurnInv, ReplyStage, FirstTurn
  <1>4. TitleStage'
    BY <1>1, <1>3, TitleKept DEF store
  <1> QED BY <1>1, <1>2, <1>4, Assemble

\* A turn is sent.
LEMMA SendInv == ASSUME IInv, NEW t \in Turns, Send(t) PROVE IInv'
  <1> USE TurnFacts DEF Send, Goto
  <1>1. LocalTypes' /\ StageType(t)' /\ LocalFrame(t)
    BY ChatAssumption DEF LocalTypes, StageType, StagesOf, Common, LocalFrame
  <1>2. QuestionStage(t)' /\ ReplyStage(t)' /\ ToldStage(t)'
    BY <1>1 DEF TurnInv, QuestionStage, ReplyStage, ToldStage, LocalTypes, Streaming
  <1>3. PromptStage(t)'
    BY <1>1 DEF TurnInv, PromptStage, LocalTypes
  <1>4. db[Conversation] = Given => ~untitled'[t]
    BY DEF TitleStage
  <1> QED BY <1>1, <1>2, <1>3, <1>4, LocalStep DEF store, LocalTypes

\* A turn reads the conversation.
LEMMA LoadInv == ASSUME IInv, NEW t \in Turns, Load(t) PROVE IInv'
  <1> USE TurnFacts DEF Load, Goto
  <1>1. LocalTypes' /\ StageType(t)' /\ LocalFrame(t)
    BY DEF LocalTypes, StageType, StagesOf, Common, LocalFrame
  <1>2. QuestionStage(t)' /\ ReplyStage(t)' /\ ToldStage(t)'
    BY <1>1 DEF TurnInv, QuestionStage, ReplyStage, ToldStage, LocalTypes, Streaming
  <1>3. PromptStage(t)'
    BY <1>1 DEF TurnInv, PromptStage, LocalTypes
  <1>4. db[Conversation] = Given => ~untitled'[t]
    BY ChatAssumption DEF Visible, LocalTypes
  <1> QED BY <1>1, <1>2, <1>3, <1>4, LocalStep DEF store, LocalTypes

\* A turn reads the messages of its prompt: those of its own transaction and
\* those committed, so also those of the turns answered before.
LEMMA ReadHistoryInv == ASSUME IInv, NEW t \in Turns, ReadHistory(t) PROVE IInv'
  <1> USE TurnFacts DEF ReadHistory, Goto
  <1>1. LocalTypes' /\ StageType(t)' /\ LocalFrame(t)
    BY DEF LocalTypes, StageType, StagesOf, Common, LocalFrame
  <1>2. QuestionStage(t)' /\ ReplyStage(t)' /\ ToldStage(t)'
    BY <1>1 DEF TurnInv, QuestionStage, ReplyStage, ToldStage, LocalTypes, Streaming
  <1>3. Question(t) \in hist'[t]
    BY RowFacts DEF TurnInv, QuestionStage, Visible, LocalTypes
  <1>4. SeenPrior(t)'
    <2> SUFFICES ASSUME NEW s \in prior[t], NEW m \in {Question(s), Reply(s)}
                 PROVE  m \in hist'[t]
      BY DEF SeenPrior, LocalTypes
    <2>1. s \in Turns /\ told[s] = "answer" /\ m \in Messages
      BY RowFacts DEF TurnInv, PromptStage, LocalTypes
    <2>2. db[m] # None /\ work[m] # None
      BY <2>1 DEF IInv, TurnInv, ToldStage, OwnRows
    <2> QED BY <2>1, <2>2 DEF Visible, LocalTypes
  <1>5. PromptStage(t)'
    BY <1>1, <1>3, <1>4 DEF TurnInv, PromptStage, LocalTypes
  <1>6. db[Conversation] = Given => ~untitled'[t]
    BY DEF TitleStage
  <1> QED BY <1>1, <1>2, <1>5, <1>6, LocalStep DEF store, LocalTypes

\* The model answers in one piece.
LEMMA ModelAnswersInv == ASSUME IInv, NEW t \in Turns, ModelAnswers(t) PROVE IInv'
  <1> USE TurnFacts
  <1>1. LocalTypes' /\ LocalFrame(t)
    BY DEF ModelAnswers, Goto, LocalTypes, LocalFrame, TurnInv, ToldStage
  <1>2. /\ pc[t] = "model" /\ ~Streaming(t)
        /\ pc'[t] = "reply"
        /\ UNCHANGED <<db, work, lock, mode, untitled, hist, told, left, prior>>
    BY DEF ModelAnswers, Goto, LocalTypes
  <1>3. StageType(t)'
    BY <1>2, <1>1 DEF StageType, Common, Streaming, LocalTypes
  <1>4. QuestionStage(t)' /\ ReplyStage(t)'
    BY <1>2 DEF TurnInv, QuestionStage, ReplyStage, ToldStage, StageType, Common
  <1>5. ToldStage(t)'
    BY <1>2, <1>4 DEF TurnInv, ToldStage, Streaming, StageType, Common
  <1>6. PromptStage(t)'
    BY <1>1, <1>2 DEF TurnInv, PromptStage, SeenPrior, Titling, LocalFrame, LocalTypes
  <1> QED BY <1>1, <1>2, <1>3, <1>4, <1>5, <1>6, LocalStep DEF store, TitleStage

\* The model sends a first chunk.
LEMMA ChunkInv == ASSUME IInv, NEW t \in Turns, Chunk(t) PROVE IInv'
  <1> USE TurnFacts
  <1>1. LocalTypes' /\ LocalFrame(t)
    BY DEF Chunk, Goto, LocalTypes, LocalFrame, TurnInv, ToldStage
  <1>2. /\ pc[t] = "model"
        /\ pc'[t] = "model"
        /\ UNCHANGED <<db, work, lock, mode, untitled, hist, told, left, prior>>
    BY DEF Chunk, Goto, LocalTypes
  <1>3. StageType(t)'
    BY <1>2, <1>1 DEF StageType, Common, Streaming, LocalTypes
  <1>4. QuestionStage(t)' /\ ReplyStage(t)'
    BY <1>2 DEF TurnInv, QuestionStage, ReplyStage, ToldStage, StageType, Common
  <1>5. ToldStage(t)'
    BY <1>2, <1>4 DEF TurnInv, ToldStage, Streaming, StageType, Common
  <1>6. PromptStage(t)'
    BY <1>1, <1>2 DEF TurnInv, PromptStage, SeenPrior, Titling, LocalFrame, LocalTypes
  <1> QED BY <1>1, <1>2, <1>3, <1>4, <1>5, <1>6, LocalStep DEF store, TitleStage

\* The model ends its stream.
LEMMA StreamEndsInv == ASSUME IInv, NEW t \in Turns, StreamEnds(t) PROVE IInv'
  <1> USE TurnFacts
  <1>1. LocalTypes' /\ LocalFrame(t)
    BY DEF StreamEnds, Goto, Tell, AfterStream, LocalTypes, LocalFrame, TurnInv, ToldStage
  <1>2. /\ pc[t] = "model" /\ Streaming(t)
        /\ pc'[t] \in {"teardown", "reply"} /\ told'[t] = "done"
        /\ UNCHANGED <<db, work, lock, mode, untitled, hist, left, prior>>
    BY DEF StreamEnds, Goto, Tell, AfterStream, LocalTypes
  <1>3. StageType(t)'
    BY <1>2, <1>1 DEF StageType, Common, Streaming, LocalTypes
  <1>4. QuestionStage(t)' /\ ReplyStage(t)'
    BY <1>2 DEF TurnInv, QuestionStage, ReplyStage, ToldStage, StageType, Common
  <1>5. ToldStage(t)'
    BY <1>2, <1>4 DEF TurnInv, ToldStage, Streaming, StageType, Common
  <1>6. PromptStage(t)'
    BY <1>1, <1>2 DEF TurnInv, PromptStage, SeenPrior, Titling, LocalFrame, LocalTypes
  <1> QED BY <1>1, <1>2, <1>3, <1>4, <1>5, <1>6, LocalStep DEF store, TitleStage

\* The model breaks its stream off.
LEMMA StreamFailsInv == ASSUME IInv, NEW t \in Turns, StreamFails(t) PROVE IInv'
  <1> USE TurnFacts
  <1>1. LocalTypes' /\ LocalFrame(t)
    BY DEF StreamFails, Goto, Tell, AfterStream, LocalTypes, LocalFrame, TurnInv, ToldStage
  <1>2. /\ pc[t] = "model" /\ Streaming(t)
        /\ pc'[t] \in {"teardown", "reply"} /\ told'[t] = "error"
        /\ UNCHANGED <<db, work, lock, mode, untitled, hist, left, prior>>
    BY DEF StreamFails, Goto, Tell, AfterStream, LocalTypes
  <1>3. StageType(t)'
    BY <1>2, <1>1 DEF StageType, Common, Streaming, LocalTypes
  <1>4. QuestionStage(t)' /\ ReplyStage(t)'
    BY <1>2 DEF TurnInv, QuestionStage, ReplyStage, ToldStage, StageType, Common
  <1>5. ToldStage(t)'
    BY <1>2, <1>4 DEF TurnInv, ToldStage, Streaming, StageType, Common
  <1>6. PromptStage(t)'
    BY <1>1, <1>2 DEF TurnInv, PromptStage, SeenPrior, Titling, LocalFrame, LocalTypes
  <1> QED BY <1>1, <1>2, <1>3, <1>4, <1>5, <1>6, LocalStep DEF store, TitleStage

\* The client closes a stream before the first chunk.
LEMMA LeaveUnansweredInv == ASSUME IInv, NEW t \in Turns, LeaveUnanswered(t) PROVE IInv'
  <1> USE TurnFacts
  <1>1. LocalTypes' /\ LocalFrame(t)
    BY DEF LeaveUnanswered, Goto, LocalTypes, LocalFrame, TurnInv, ToldStage
  <1>2. /\ pc[t] = "model" /\ Streaming(t)
        /\ pc'[t] = "teardown" /\ left'[t]
        /\ UNCHANGED <<db, work, lock, mode, untitled, hist, told, prior>>
    BY DEF LeaveUnanswered, Goto, LocalTypes
  <1>3. StageType(t)'
    BY <1>2, <1>1 DEF StageType, Common, Streaming, LocalTypes
  <1>4. QuestionStage(t)' /\ ReplyStage(t)'
    BY <1>2 DEF TurnInv, QuestionStage, ReplyStage, ToldStage, StageType, Common
  <1>5. ToldStage(t)'
    BY <1>2, <1>4 DEF TurnInv, ToldStage, Streaming, StageType, Common
  <1>6. PromptStage(t)'
    BY <1>1, <1>2 DEF TurnInv, PromptStage, SeenPrior, Titling, LocalFrame, LocalTypes
  <1> QED BY <1>1, <1>2, <1>3, <1>4, <1>5, <1>6, LocalStep DEF store, TitleStage

\* The client closes a stream that is suspended at a yield.
LEMMA LeaveSuspendedInv == ASSUME IInv, NEW t \in Turns, LeaveSuspended(t) PROVE IInv'
  <1> USE TurnFacts
  <1>1. LocalTypes' /\ LocalFrame(t)
    BY DEF LeaveSuspended, Goto, LocalTypes, LocalFrame, TurnInv, ToldStage
  <1>2. /\ pc[t] = "model" /\ Streaming(t)
        /\ pc'[t] = "teardown" /\ left'[t]
        /\ UNCHANGED <<db, work, lock, mode, untitled, hist, told, prior>>
    BY DEF LeaveSuspended, Goto, LocalTypes
  <1>3. StageType(t)'
    BY <1>2, <1>1 DEF StageType, Common, Streaming, LocalTypes
  <1>4. QuestionStage(t)' /\ ReplyStage(t)'
    BY <1>2 DEF TurnInv, QuestionStage, ReplyStage, ToldStage, StageType, Common
  <1>5. ToldStage(t)'
    BY <1>2, <1>4 DEF TurnInv, ToldStage, Streaming, StageType, Common
  <1>6. PromptStage(t)'
    BY <1>1, <1>2 DEF TurnInv, PromptStage, SeenPrior, Titling, LocalFrame, LocalTypes
  <1> QED BY <1>1, <1>2, <1>3, <1>4, <1>5, <1>6, LocalStep DEF store, TitleStage

\* The loop finalises the generator of a stream its client closed.
LEMMA LateReplyInv == ASSUME IInv, NEW t \in Turns, LateReply(t) PROVE IInv'
  <1> USE TurnFacts
  <1>1. LocalTypes' /\ LocalFrame(t)
    BY DEF LateReply, Goto, LocalTypes, LocalFrame, TurnInv, ToldStage
  <1>2. /\ pc[t] = "late"
        /\ pc'[t] = "reply"
        /\ UNCHANGED <<db, work, lock, mode, untitled, hist, told, left, prior>>
    BY DEF LateReply, Goto, LocalTypes
  <1>3. StageType(t)'
    BY <1>2, <1>1 DEF StageType, Common, Streaming, LocalTypes
  <1>4. QuestionStage(t)' /\ ReplyStage(t)'
    BY <1>2 DEF TurnInv, QuestionStage, ReplyStage, ToldStage, StageType, Common
  <1>5. ToldStage(t)'
    BY <1>2, <1>4 DEF TurnInv, ToldStage, Streaming, StageType, Common
  <1>6. PromptStage(t)'
    BY <1>1, <1>2 DEF TurnInv, PromptStage, SeenPrior, Titling, LocalFrame, LocalTypes
  <1> QED BY <1>1, <1>2, <1>3, <1>4, <1>5, <1>6, LocalStep DEF store, TitleStage

\* The model answers with a title.
LEMMA TitleAnsweredInv == ASSUME IInv, NEW t \in Turns, TitleAnswered(t) PROVE IInv'
  <1> USE TurnFacts
  <1>1. LocalTypes' /\ LocalFrame(t)
    BY DEF TitleAnswered, Goto, Rest, store, LocalTypes, LocalFrame, TurnInv, ToldStage
  <1>2. /\ pc[t] = "title"
        /\ pc'[t] = "set_title"
        /\ UNCHANGED <<db, work, lock, mode, untitled, hist, told, left, prior>>
    BY DEF TitleAnswered, Goto, Rest, store, LocalTypes
  <1>3. StageType(t)'
    BY <1>2, <1>1 DEF StageType, Common, Streaming, LocalTypes
  <1>4. QuestionStage(t)' /\ ReplyStage(t)'
    BY <1>2 DEF TurnInv, QuestionStage, ReplyStage, ToldStage, StageType, Common
  <1>5. ToldStage(t)'
    BY <1>2, <1>4 DEF TurnInv, ToldStage, Streaming, StageType, Common
  <1>6. PromptStage(t)'
    BY <1>1, <1>2 DEF TurnInv, PromptStage, SeenPrior, Titling, LocalFrame, LocalTypes
  <1> QED BY <1>1, <1>2, <1>3, <1>4, <1>5, <1>6, LocalStep DEF store, TitleStage

\* The model does not answer with a title.
LEMMA TitleFailsInv == ASSUME IInv, NEW t \in Turns, TitleFails(t) PROVE IInv'
  <1> USE TurnFacts
  <1>1. LocalTypes' /\ LocalFrame(t)
    BY DEF TitleFails, Goto, Rest, store, LocalTypes, LocalFrame, TurnInv, ToldStage
  <1>2. /\ pc[t] = "title"
        /\ pc'[t] = Finish(t)
        /\ UNCHANGED <<db, work, lock, mode, untitled, hist, told, left, prior>>
    BY DEF TitleFails, Goto, Rest, store, LocalTypes
  <1>3. StageType(t)'
    BY <1>2, <1>1 DEF StageType, Common, Streaming, LocalTypes, Finish
  <1>4. QuestionStage(t)' /\ ReplyStage(t)'
    BY <1>2 DEF TurnInv, QuestionStage, ReplyStage, ToldStage, StageType, Common, Finish
  <1>5. ToldStage(t)'
    BY <1>2, <1>4 DEF TurnInv, ToldStage, Streaming, StageType, Common, Finish
  <1>6. PromptStage(t)'
    BY <1>1, <1>2 DEF TurnInv, PromptStage, SeenPrior, Titling, LocalFrame, LocalTypes, Finish
  <1> QED BY <1>1, <1>2, <1>3, <1>4, <1>5, <1>6, LocalStep DEF store, TitleStage, Finish

\* The JSON answer is sent; question and reply are committed by then.
LEMMA AnswerInv == ASSUME IInv, NEW t \in Turns, Answer(t) PROVE IInv'
  <1> USE TurnFacts
  <1>1. LocalTypes' /\ LocalFrame(t)
    BY DEF Answer, Goto, Tell, LocalTypes, LocalFrame, TurnInv, ToldStage
  <1>2. /\ pc[t] = "answer"
        /\ pc'[t] = "teardown" /\ told'[t] = "answer"
        /\ UNCHANGED <<db, work, lock, mode, untitled, hist, left, prior>>
    BY DEF Answer, Goto, Tell, LocalTypes
  <1>3. StageType(t)'
    BY <1>2, <1>1 DEF StageType, Common, Streaming, LocalTypes
  <1>4. QuestionStage(t)' /\ ReplyStage(t)'
    BY <1>2 DEF TurnInv, QuestionStage, ReplyStage, ToldStage, StageType, Common
  <1>5. ToldStage(t)'
    BY <1>2, <1>4 DEF TurnInv, ToldStage, ReplyStage, Streaming, StageType, Common
  <1>6. PromptStage(t)'
    BY <1>1, <1>2 DEF TurnInv, PromptStage, SeenPrior, Titling, LocalFrame, LocalTypes
  <1> QED BY <1>1, <1>2, <1>3, <1>4, <1>5, <1>6, LocalStep DEF store, TitleStage

(***************************************************************************)
(* Steps that store, commit or roll back.                                   *)
(***************************************************************************)
\* A statement of t on one of its own messages, or on the conversation, touches
\* no message of another turn.
LEMMA WriteFrame ==
    ASSUME IInv, NEW t \in Turns, NEW o \in {Question(t), Reply(t), Conversation}, NEW v,
           RowType(o, v), Write(t, o, v)
    PROVE  /\ StoreInv' /\ RowsFrame(t)
           /\ db' = db
           /\ \A x \in {Question(t), Reply(t), Conversation} :
                  /\ work'[x] = IF x = o THEN v ELSE work[x]
                  /\ lock'[x] = IF x = o THEN t ELSE lock[x]
  <1>1. StoreInv /\ o \in Rows
    BY TurnFacts, RowFacts
  <1>2. /\ StoreInv'
        /\ db' = db
        /\ \A x \in Rows : work'[x] = IF x = o THEN v ELSE work[x]
        /\ \A x \in Rows : lock'[x] = IF x = o THEN t ELSE lock[x]
    BY <1>1, WriteStore
  <1>3. RowsFrame(t)
    BY <1>2, RowFacts DEF RowsFrame
  <1> QED BY <1>2, <1>3, RowFacts

\* A commit of t publishes its messages and no other; the title with it only if
\* t has stored one.
LEMMA CommitFrame ==
    ASSUME IInv, NEW t \in Turns, Commit(t)
    PROVE  /\ StoreInv' /\ RowsFrame(t)
           /\ work' = work
           /\ \A m \in {Question(t), Reply(t)} : db'[m] = work[m] /\ lock'[m] = None
           /\ IF pc[t] = "commit_title"
              THEN db'[Conversation] = work[Conversation] /\ lock'[Conversation] = None
              ELSE /\ db'[Conversation] = db[Conversation]
                   /\ lock'[Conversation] = lock[Conversation]
  <1>1. /\ StoreInv'
        /\ work' = work
        /\ \A x \in Rows : db'[x] = IF lock[x] = t THEN work[x] ELSE db[x]
        /\ \A x \in Rows : lock'[x] = IF lock[x] = t THEN None ELSE lock[x]
    BY TurnFacts, CommitStore
  <1>2. \A q \in Turns : OwnRows(q)
    BY TurnFacts DEF TurnInv
  <1>3. RowsFrame(t)
    BY <1>1, <1>2, RowFacts, ChatAssumption DEF RowsFrame, OwnRows
  <1>4. \A m \in {Question(t), Reply(t)} : db'[m] = work[m] /\ lock'[m] = None
    BY <1>1, <1>2, RowFacts DEF OwnRows
  <1>5. lock[Conversation] = t <=> pc[t] = "commit_title"
    BY TurnFacts DEF TitleStage
  <1> QED BY <1>1, <1>3, <1>4, <1>5, RowFacts

\* A rollback of t takes back its messages and no other; the title with it only
\* if t has stored one.
LEMMA RollbackFrame ==
    ASSUME IInv, NEW t \in Turns, Rollback(t)
    PROVE  /\ StoreInv' /\ RowsFrame(t)
           /\ db' = db
           /\ \A m \in {Question(t), Reply(t)} : work'[m] = db[m] /\ lock'[m] = None
           /\ IF pc[t] = "commit_title"
              THEN work'[Conversation] = db[Conversation] /\ lock'[Conversation] = None
              ELSE /\ work'[Conversation] = work[Conversation]
                   /\ lock'[Conversation] = lock[Conversation]
  <1>1. /\ StoreInv'
        /\ db' = db
        /\ \A x \in Rows : work'[x] = IF lock[x] = t THEN db[x] ELSE work[x]
        /\ \A x \in Rows : lock'[x] = IF lock[x] = t THEN None ELSE lock[x]
    BY TurnFacts, RollbackStore
  <1>2. \A q \in Turns : OwnRows(q)
    BY TurnFacts DEF TurnInv
  <1>3. RowsFrame(t)
    BY <1>1, <1>2, RowFacts, ChatAssumption DEF RowsFrame, OwnRows
  <1>4. \A m \in {Question(t), Reply(t)} : work'[m] = db[m] /\ lock'[m] = None
    BY <1>1, <1>2, RowFacts DEF OwnRows
  <1>5. lock[Conversation] = t <=> pc[t] = "commit_title"
    BY TurnFacts DEF TitleStage
  <1> QED BY <1>1, <1>3, <1>4, <1>5, RowFacts

\* A transaction of t ends, and with it the claim of t on the title.
LEMMA EndStep ==
    ASSUME IInv, NEW t \in Turns, Commit(t) \/ Rollback(t), LocalFrame(t), LocalTypes',
           StageType(t)', QuestionStage(t)', ReplyStage(t)', ToldStage(t)',
           PromptStage(t)', pc'[t] # "commit_title", UNCHANGED <<untitled, prior>>
    PROVE  IInv'
  <1>1. /\ StoreInv' /\ RowsFrame(t)
        /\ \A m \in {Question(t), Reply(t)} : work'[m] = db'[m] /\ lock'[m] = None
        /\ \A m \in {Question(t), Reply(t)} : db[m] # None => db'[m] # None
    BY CommitFrame, RollbackFrame, TurnFacts DEF TurnInv, OwnRows
  <1>2. TurnInv(t)'
    BY <1>1 DEF TurnInv, OwnRows
  <1>3. \A q \in Turns : FirstTurn(q) => FirstTurn(q)'
    BY <1>1 DEF RowsFrame, FirstTurn
  <1>4. TitleStage'
    <2>1. CASE pc[t] = "commit_title"
      <3>1. /\ lock'[Conversation] = None
            /\ work'[Conversation] = db'[Conversation]
            /\ db'[Conversation] \in {db[Conversation], work[Conversation]}
        BY <2>1, CommitFrame, RollbackFrame
      <3>2. \A q \in Turns : pc'[q] # "commit_title"
        BY <2>1, TurnFacts DEF TitleStage, LocalFrame
      <3>3. Given \notin Turns /\ None \notin Turns
        BY ChatAssumption
      <3> QED BY <1>3, <3>1, <3>2, <3>3, TurnFacts DEF TitleStage
    <2>2. CASE pc[t] # "commit_title"
      <3>1. UNCHANGED <<db[Conversation], work[Conversation], lock[Conversation]>>
        BY <2>2, CommitFrame, RollbackFrame
      <3>2. \A q \in Turns : pc'[q] = "commit_title" <=> pc[q] = "commit_title"
        BY <2>2 DEF LocalFrame
      <3> QED BY <1>3, <3>1, <3>2, TurnFacts DEF TitleStage
    <2> QED BY <2>1, <2>2
  <1> QED BY <1>1, <1>2, <1>4, Assemble

\* The model fails: what the turn stored is rolled back, so its question is not
\* there, and nothing of it is told but the 502.
LEMMA ModelFailsInv == ASSUME IInv, NEW t \in Turns, ModelFails(t) PROVE IInv'
  <1> USE TurnFacts
  <1>1. LocalTypes' /\ LocalFrame(t)
    BY DEF ModelFails, Goto, Tell, LocalTypes, LocalFrame, TurnInv, ToldStage
  <1>2. /\ pc[t] = "model"
        /\ pc'[t] = "ended" /\ told'[t] = "bad_gateway"
        /\ Rollback(t)
        /\ UNCHANGED <<mode, hist, left, untitled, prior>>
    BY DEF ModelFails, Goto, Tell, LocalTypes
  <1>3. \A m \in {Question(t), Reply(t)} : db'[m] = db[m] /\ lock'[m] = None
    BY <1>2, RollbackFrame
  <1>4. StageType(t)'
    BY <1>1, <1>2 DEF StageType, Common, Streaming, LocalTypes, TurnInv, ToldStage
  <1>5. QuestionStage(t)' /\ ReplyStage(t)'
    BY <1>2, <1>3, ChatAssumption
    DEF TurnInv, OwnRows, QuestionStage, ReplyStage, ToldStage, StageType, Common
  <1>6. ToldStage(t)'
    BY <1>2, <1>3, <1>5
    DEF TurnInv, OwnRows, QuestionStage, ReplyStage, ToldStage, Streaming
  <1>7. PromptStage(t)'
    BY <1>1, <1>2
    DEF TurnInv, PromptStage, SeenPrior, Titling, LocalFrame, LocalTypes
  <1> QED BY <1>1, <1>2, <1>4, <1>5, <1>6, <1>7, EndStep

\* The client closes a stream that waits for the model.
LEMMA LeaveCancelledInv == ASSUME IInv, NEW t \in Turns, LeaveCancelled(t) PROVE IInv'
  <1> USE TurnFacts
  <1>1. LocalTypes' /\ LocalFrame(t)
    BY DEF LeaveCancelled, Goto, LocalTypes, LocalFrame, TurnInv, ToldStage
  <1>2. /\ pc[t] = "model" /\ Streaming(t)
        /\ pc'[t] = "ended" /\ left'[t]
        /\ Rollback(t)
        /\ UNCHANGED <<mode, hist, told, untitled, prior>>
    BY DEF LeaveCancelled, Goto, LocalTypes
  <1>3. \A m \in {Question(t), Reply(t)} : db'[m] = db[m] /\ lock'[m] = None
    BY <1>2, RollbackFrame
  <1>4. StageType(t)'
    BY <1>1, <1>2 DEF StageType, Common, Streaming, LocalTypes, TurnInv, ToldStage
  <1>5. QuestionStage(t)' /\ ReplyStage(t)'
    BY <1>2, <1>3, ChatAssumption
    DEF TurnInv, OwnRows, QuestionStage, ReplyStage, ToldStage, StageType, Common
  <1>6. ToldStage(t)'
    BY <1>2, <1>3, <1>5
    DEF TurnInv, OwnRows, QuestionStage, ReplyStage, ToldStage, Streaming
  <1>7. PromptStage(t)'
    BY <1>1, <1>2
    DEF TurnInv, PromptStage, SeenPrior, Titling, LocalFrame, LocalTypes
  <1> QED BY <1>1, <1>2, <1>4, <1>5, <1>6, <1>7, EndStep

\* The client closes a stream that is in its finally block.
LEMMA LeavePersistingInv == ASSUME IInv, NEW t \in Turns, LeavePersisting(t) PROVE IInv'
  <1> USE TurnFacts
  <1>1. LocalTypes' /\ LocalFrame(t)
    BY DEF LeavePersisting, Goto, LocalTypes, LocalFrame, TurnInv, ToldStage
  <1>2. /\ pc[t] \in {"reply", "commit", "title", "set_title", "commit_title"}
        /\ Streaming(t)
        /\ pc[t] \notin {"commit", "commit_title"} => Rollback(t)
        /\ pc'[t] = "ended" /\ left'[t]
        /\ Commit(t) \/ Rollback(t)
        /\ UNCHANGED <<mode, hist, told, untitled, prior>>
    BY DEF LeavePersisting, Goto, LocalTypes
  <1>3. /\ \A m \in {Question(t), Reply(t)} : lock'[m] = None
        /\ \/ \A m \in {Question(t), Reply(t)} : db'[m] = db[m]
           \/ pc[t] \in {"commit", "commit_title"}
              /\ \A m \in {Question(t), Reply(t)} : db'[m] = work[m]
    BY <1>2, CommitFrame, RollbackFrame
  <1>4. StageType(t)'
    BY <1>1, <1>2 DEF StageType, Common, Streaming, LocalTypes, TurnInv, ToldStage
  <1>5. QuestionStage(t)' /\ ReplyStage(t)'
    BY <1>2, <1>3, ChatAssumption
    DEF TurnInv, OwnRows, QuestionStage, ReplyStage, ToldStage, StageType, Common
  <1>6. ToldStage(t)'
    BY <1>2, <1>3, <1>5
    DEF TurnInv, OwnRows, QuestionStage, ReplyStage, ToldStage, Streaming
  <1>7. PromptStage(t)'
    BY <1>1, <1>2
    DEF TurnInv, PromptStage, SeenPrior, Titling, LocalFrame, LocalTypes
  <1> QED BY <1>1, <1>2, <1>4, <1>5, <1>6, <1>7, EndStep

\* The reply is committed, and the question with it.
LEMMA CommitReplyInv == ASSUME IInv, NEW t \in Turns, CommitReply(t) PROVE IInv'
  <1> USE TurnFacts
  <1>1. LocalTypes' /\ LocalFrame(t)
    BY DEF CommitReply, Goto, Rest, LocalTypes, LocalFrame, TurnInv, ToldStage
  <1>2. /\ pc[t] = "commit"
        /\ pc'[t] = (IF Titling(t) THEN "title" ELSE Finish(t))
        /\ Commit(t)
        /\ UNCHANGED <<mode, hist, told, left, untitled, prior>>
    BY DEF CommitReply, Goto, Rest, LocalTypes
  <1>3. \A m \in {Question(t), Reply(t)} :
            db'[m] = work[m] /\ work'[m] = work[m] /\ lock'[m] = None
    BY <1>2, CommitFrame
  <1>4. StageType(t)'
    BY <1>1, <1>2 DEF StageType, Common, Streaming, LocalTypes, TurnInv, ToldStage, Finish
  <1>5. QuestionStage(t)' /\ ReplyStage(t)'
    BY <1>2, <1>3, ChatAssumption
    DEF TurnInv, OwnRows, QuestionStage, ReplyStage, ToldStage, StageType, Common, Finish
  <1>6. ToldStage(t)'
    BY <1>2, <1>3, <1>5
    DEF TurnInv, OwnRows, QuestionStage, ReplyStage, ToldStage, Streaming, Finish
  <1>7. PromptStage(t)'
    BY <1>1, <1>2
    DEF TurnInv, PromptStage, SeenPrior, Titling, LocalFrame, LocalTypes, Finish
  <1> QED BY <1>1, <1>2, <1>4, <1>5, <1>6, <1>7, EndStep DEF Finish

\* The title is committed.
LEMMA CommitTitleInv == ASSUME IInv, NEW t \in Turns, CommitTitle(t) PROVE IInv'
  <1> USE TurnFacts
  <1>1. LocalTypes' /\ LocalFrame(t)
    BY DEF CommitTitle, Goto, Rest, LocalTypes, LocalFrame, TurnInv, ToldStage
  <1>2. /\ pc[t] = "commit_title"
        /\ pc'[t] = Finish(t)
        /\ Commit(t)
        /\ UNCHANGED <<mode, hist, told, left, untitled, prior>>
    BY DEF CommitTitle, Goto, Rest, LocalTypes
  <1>3. \A m \in {Question(t), Reply(t)} :
            db'[m] = work[m] /\ work'[m] = work[m] /\ lock'[m] = None
    BY <1>2, CommitFrame
  <1>4. StageType(t)'
    BY <1>1, <1>2 DEF StageType, Common, Streaming, LocalTypes, TurnInv, ToldStage, Finish
  <1>5. QuestionStage(t)' /\ ReplyStage(t)'
    BY <1>2, <1>3, ChatAssumption
    DEF TurnInv, OwnRows, QuestionStage, ReplyStage, ToldStage, StageType, Common, Finish
  <1>6. ToldStage(t)'
    BY <1>2, <1>3, <1>5
    DEF TurnInv, OwnRows, QuestionStage, ReplyStage, ToldStage, Streaming, Finish
  <1>7. PromptStage(t)'
    BY <1>1, <1>2
    DEF TurnInv, PromptStage, SeenPrior, Titling, LocalFrame, LocalTypes, Finish
  <1> QED BY <1>1, <1>2, <1>4, <1>5, <1>6, <1>7, EndStep DEF Finish

\* The session of the request ends with a commit.
LEMMA TeardownInv == ASSUME IInv, NEW t \in Turns, Teardown(t) PROVE IInv'
  <1> USE TurnFacts
  <1>1. LocalTypes' /\ LocalFrame(t)
    BY DEF Teardown, Goto, Rest, AfterTeardown, LocalTypes, LocalFrame, TurnInv, ToldStage
  <1>2. /\ pc[t] = "teardown"
        /\ pc'[t] = "ended" \/ (pc'[t] = "late" /\ left[t])
        /\ Commit(t)
        /\ UNCHANGED <<mode, hist, told, left, untitled, prior>>
    BY DEF Teardown, Goto, Rest, AfterTeardown, LocalTypes
  <1>3. \A m \in {Question(t), Reply(t)} :
            db'[m] = work[m] /\ work'[m] = work[m] /\ lock'[m] = None
    BY <1>2, CommitFrame
  <1>4. StageType(t)'
    BY <1>1, <1>2 DEF StageType, Common, Streaming, LocalTypes, TurnInv, ToldStage
  <1>5. QuestionStage(t)' /\ ReplyStage(t)'
    BY <1>2, <1>3, ChatAssumption
    DEF TurnInv, OwnRows, QuestionStage, ReplyStage, ToldStage, StageType, Common
  <1>6. ToldStage(t)'
    BY <1>2, <1>3, <1>5
    DEF TurnInv, OwnRows, QuestionStage, ReplyStage, ToldStage, Streaming
  <1>7. PromptStage(t)'
    BY <1>1, <1>2
    DEF TurnInv, PromptStage, SeenPrior, Titling, LocalFrame, LocalTypes
  <1> QED BY <1>1, <1>2, <1>4, <1>5, <1>6, <1>7, EndStep

\* The commit of the session fails.
LEMMA TeardownFailsInv == ASSUME IInv, NEW t \in Turns, TeardownFails(t) PROVE IInv'
  <1> USE TurnFacts
  <1>1. LocalTypes' /\ LocalFrame(t)
    BY DEF TeardownFails, Goto, Rest, AfterTeardown, LocalTypes, LocalFrame, TurnInv, ToldStage
  <1>2. /\ pc[t] = "teardown"
        /\ pc'[t] = "ended" \/ (pc'[t] = "late" /\ left[t])
        /\ Rollback(t)
        /\ UNCHANGED <<mode, hist, told, left, untitled, prior>>
    BY DEF TeardownFails, Goto, Rest, AfterTeardown, LocalTypes
  <1>3. \A m \in {Question(t), Reply(t)} : db'[m] = db[m] /\ lock'[m] = None
    BY <1>2, RollbackFrame
  <1>4. StageType(t)'
    BY <1>1, <1>2 DEF StageType, Common, Streaming, LocalTypes, TurnInv, ToldStage
  <1>5. QuestionStage(t)' /\ ReplyStage(t)'
    BY <1>2, <1>3, ChatAssumption
    DEF TurnInv, OwnRows, QuestionStage, ReplyStage, ToldStage, StageType, Common
  <1>6. ToldStage(t)'
    BY <1>2, <1>3, <1>5
    DEF TurnInv, OwnRows, QuestionStage, ReplyStage, ToldStage, Streaming
  <1>7. PromptStage(t)'
    BY <1>1, <1>2
    DEF TurnInv, PromptStage, SeenPrior, Titling, LocalFrame, LocalTypes
  <1> QED BY <1>1, <1>2, <1>4, <1>5, <1>6, <1>7, EndStep

\* A statement of a request that can still be answered fails.
LEMMA RequestFailsInv == ASSUME IInv, NEW t \in Turns, RequestFails(t) PROVE IInv'
  <1> USE TurnFacts
  <1>1. LocalTypes' /\ LocalFrame(t)
    BY DEF RequestFails, Goto, Tell, LocalTypes, LocalFrame, TurnInv, ToldStage
  <1>2. /\ pc[t] \in {"load", "ask", "history", "reply", "commit"}
        /\ pc[t] # "commit" => Rollback(t)
        /\ pc'[t] = "ended" /\ told'[t] = "internal_error"
        /\ Commit(t) \/ Rollback(t)
        /\ UNCHANGED <<mode, hist, left, untitled, prior>>
    BY DEF RequestFails, Goto, Tell, LocalTypes
  <1>3. /\ \A m \in {Question(t), Reply(t)} : lock'[m] = None
        /\ \/ \A m \in {Question(t), Reply(t)} : db'[m] = db[m]
           \/ pc[t] \in {"commit", "commit_title"}
              /\ \A m \in {Question(t), Reply(t)} : db'[m] = work[m]
    BY <1>2, CommitFrame, RollbackFrame
  <1>4. StageType(t)'
    BY <1>1, <1>2 DEF StageType, Common, Streaming, LocalTypes, TurnInv, ToldStage
  <1>5. QuestionStage(t)' /\ ReplyStage(t)'
    BY <1>2, <1>3, ChatAssumption
    DEF TurnInv, OwnRows, QuestionStage, ReplyStage, ToldStage, StageType, Common
  <1>6. ToldStage(t)'
    BY <1>2, <1>3, <1>5
    DEF TurnInv, OwnRows, QuestionStage, ReplyStage, ToldStage, Streaming
  <1>7. PromptStage(t)'
    BY <1>1, <1>2
    DEF TurnInv, PromptStage, SeenPrior, Titling, LocalFrame, LocalTypes
  <1> QED BY <1>1, <1>2, <1>4, <1>5, <1>6, <1>7, EndStep

\* A statement of the finally block of a stream fails.
LEMMA PersistFailsInv == ASSUME IInv, NEW t \in Turns, PersistFails(t) PROVE IInv'
  <1> USE TurnFacts
  <1>1. LocalTypes' /\ LocalFrame(t)
    BY DEF PersistFails, Goto, Rest, LocalTypes, LocalFrame, TurnInv, ToldStage
  <1>2. /\ pc[t] \in {"reply", "commit"}
        /\ pc'[t] = "ended"
        /\ Rollback(t)
        /\ UNCHANGED <<mode, hist, told, left, untitled, prior>>
    BY DEF PersistFails, Goto, Rest, LocalTypes
  <1>3. \A m \in {Question(t), Reply(t)} : db'[m] = db[m] /\ lock'[m] = None
    BY <1>2, RollbackFrame
  <1>4. StageType(t)'
    BY <1>1, <1>2 DEF StageType, Common, Streaming, LocalTypes, TurnInv, ToldStage
  <1>5. QuestionStage(t)' /\ ReplyStage(t)'
    BY <1>2, <1>3, ChatAssumption
    DEF TurnInv, OwnRows, QuestionStage, ReplyStage, ToldStage, StageType, Common
  <1>6. ToldStage(t)'
    BY <1>2, <1>3, <1>5
    DEF TurnInv, OwnRows, QuestionStage, ReplyStage, ToldStage, Streaming
  <1>7. PromptStage(t)'
    BY <1>1, <1>2
    DEF TurnInv, PromptStage, SeenPrior, Titling, LocalFrame, LocalTypes
  <1> QED BY <1>1, <1>2, <1>4, <1>5, <1>6, <1>7, EndStep

\* A statement that stores the title fails.
LEMMA StoreTitleFailsInv == ASSUME IInv, NEW t \in Turns, StoreTitleFails(t) PROVE IInv'
  <1> USE TurnFacts
  <1>1. LocalTypes' /\ LocalFrame(t)
    BY DEF StoreTitleFails, Goto, Rest, LocalTypes, LocalFrame, TurnInv, ToldStage
  <1>2. /\ pc[t] \in {"set_title", "commit_title"}
        /\ pc'[t] = Finish(t)
        /\ Rollback(t)
        /\ UNCHANGED <<mode, hist, told, left, untitled, prior>>
    BY DEF StoreTitleFails, Goto, Rest, LocalTypes
  <1>3. \A m \in {Question(t), Reply(t)} : db'[m] = db[m] /\ lock'[m] = None
    BY <1>2, RollbackFrame
  <1>4. StageType(t)'
    BY <1>1, <1>2 DEF StageType, Common, Streaming, LocalTypes, TurnInv, ToldStage, Finish
  <1>5. QuestionStage(t)' /\ ReplyStage(t)'
    BY <1>2, <1>3, ChatAssumption
    DEF TurnInv, OwnRows, QuestionStage, ReplyStage, ToldStage, StageType, Common, Finish
  <1>6. ToldStage(t)'
    BY <1>2, <1>3, <1>5
    DEF TurnInv, OwnRows, QuestionStage, ReplyStage, ToldStage, Streaming, Finish
  <1>7. PromptStage(t)'
    BY <1>1, <1>2
    DEF TurnInv, PromptStage, SeenPrior, Titling, LocalFrame, LocalTypes, Finish
  <1> QED BY <1>1, <1>2, <1>4, <1>5, <1>6, <1>7, EndStep DEF Finish

\* A turn stores its question.
LEMMA AskInv == ASSUME IInv, NEW t \in Turns, Ask(t) PROVE IInv'
  <1> DEFINE row == [created_at |-> txn[t], whole |-> TRUE]
  <1> USE TurnFacts
  <1>1. LocalTypes' /\ LocalFrame(t)
    BY DEF Ask, Goto, Rest, LocalTypes, LocalFrame
  <1>2. /\ pc[t] = "ask" /\ pc'[t] = "history"
        /\ Write(t, Question(t), row)
        /\ UNCHANGED <<mode, untitled, hist, told, left, prior>>
    BY DEF Ask, Goto, Rest, LocalTypes
  <1>3. row \in Message /\ row # None /\ t # None
    <2>1. row \in Message
      BY DEF LocalTypes, Message
    <2> QED BY <2>1, ChatAssumption
  <1>4. RowType(Question(t), row)
    BY <1>3, RowFacts DEF RowType
  <1> HIDE DEF row
  <1>5. /\ StoreInv' /\ RowsFrame(t)
        /\ db' = db
        /\ work'[Question(t)] = row /\ lock'[Question(t)] = t
        /\ UNCHANGED <<work[Reply(t)], lock[Reply(t)], work[Conversation], lock[Conversation]>>
    BY <1>2, <1>4, WriteFrame, RowFacts
  <1>6. StageType(t)'
    BY <1>2 DEF StageType, Common
  <1>7. TurnInv(t)'
    <2>1. OwnRows(t)' /\ QuestionStage(t)' /\ ReplyStage(t)'
      BY <1>2, <1>3, <1>5 DEF TurnInv, OwnRows, QuestionStage, ReplyStage, ToldStage
    <2>2. ToldStage(t)' /\ PromptStage(t)'
      BY <1>1, <1>2, <1>5
      DEF TurnInv, ToldStage, PromptStage, Streaming, LocalFrame, LocalTypes
    <2> QED BY <2>1, <2>2 DEF TurnInv
  <1>8. TitleStage'
    BY <1>1, <1>2, <1>5, TitleKept DEF FirstTurn, TitleStage
  <1> QED BY <1>1, <1>5, <1>6, <1>7, <1>8, Assemble

\* A turn stores its reply.
LEMMA StoreReplyInv == ASSUME IInv, NEW t \in Turns, StoreReply(t) PROVE IInv'
  <1> DEFINE row == [created_at |-> txn[t], whole |-> made[t] = "whole"]
  <1> USE TurnFacts
  <1>1. LocalTypes' /\ LocalFrame(t)
    BY DEF StoreReply, Goto, Rest, LocalTypes, LocalFrame
  <1>2. /\ pc[t] = "reply" /\ pc'[t] = "commit"
        /\ Write(t, Reply(t), row)
        /\ UNCHANGED <<mode, untitled, hist, told, left, prior>>
    BY DEF StoreReply, Goto, Rest, LocalTypes
  <1>3. row \in Message /\ row # None /\ t # None
    <2>1. row \in Message
      BY DEF LocalTypes, Message
    <2> QED BY <2>1, ChatAssumption
  <1>4. RowType(Reply(t), row)
    BY <1>3, RowFacts DEF RowType
  <1> HIDE DEF row
  <1>5. /\ StoreInv' /\ RowsFrame(t)
        /\ db' = db
        /\ work'[Reply(t)] = row /\ lock'[Reply(t)] = t
        /\ UNCHANGED <<work[Question(t)], lock[Question(t)],
                       work[Conversation], lock[Conversation]>>
    BY <1>2, <1>4, WriteFrame, RowFacts
  <1>6. StageType(t)'
    BY <1>2 DEF StageType, Common
  <1>7. TurnInv(t)'
    <2>1. OwnRows(t)' /\ QuestionStage(t)' /\ ReplyStage(t)'
      BY <1>2, <1>3, <1>5 DEF TurnInv, OwnRows, QuestionStage, ReplyStage
    <2>2. ToldStage(t)' /\ PromptStage(t)'
      BY <1>1, <1>2, <1>5
      DEF TurnInv, ToldStage, PromptStage, SeenPrior, Streaming, LocalFrame, LocalTypes
    <2> QED BY <2>1, <2>2 DEF TurnInv
  <1>8. TitleStage'
    BY <1>1, <1>2, <1>5, TitleKept DEF FirstTurn, TitleStage
  <1> QED BY <1>1, <1>5, <1>6, <1>7, <1>8, Assemble

\* A turn stores the title.  Its reply is committed; and as it found no reply in
\* a prompt that holds all turns answered before it, there are none.
LEMMA SetTitleInv == ASSUME IInv, NEW t \in Turns, SetTitle(t) PROVE IInv'
  <1> USE TurnFacts
  <1>1. LocalTypes' /\ LocalFrame(t)
    BY DEF SetTitle, Goto, Rest, LocalTypes, LocalFrame
  <1>2. /\ pc[t] = "set_title" /\ pc'[t] = "commit_title"
        /\ Write(t, Conversation, t)
        /\ UNCHANGED <<mode, untitled, hist, told, left, prior>>
    BY DEF SetTitle, Goto, Rest, LocalTypes
  <1>3. RowType(Conversation, t) /\ t # None
    BY RowFacts, ChatAssumption DEF RowType, Titles
  <1>4. /\ StoreInv' /\ RowsFrame(t)
        /\ db' = db
        /\ work'[Conversation] = t /\ lock'[Conversation] = t
        /\ UNCHANGED <<work[Question(t)], lock[Question(t)], work[Reply(t)], lock[Reply(t)]>>
    BY <1>2, <1>3, WriteFrame, RowFacts
  <1>5. lock[Conversation] = None \/ lock[Conversation] = t
    BY <1>2 DEF Write, Free
  <1>6. StageType(t)'
    BY <1>2 DEF StageType, Common
  <1>7. TurnInv(t)'
    <2>1. OwnRows(t)' /\ QuestionStage(t)' /\ ReplyStage(t)'
      BY <1>2, <1>4 DEF TurnInv, OwnRows, QuestionStage, ReplyStage
    <2>2. ToldStage(t)' /\ PromptStage(t)'
      BY <1>1, <1>2, <1>4
      DEF TurnInv, ToldStage, PromptStage, SeenPrior, Titling, Streaming, LocalFrame, LocalTypes
    <2> QED BY <2>1, <2>2 DEF TurnInv
  <1>8. FirstTurn(t)
    <2>1. db[Reply(t)] # None /\ SeenPrior(t) /\ \A s \in Turns : Reply(s) \notin hist[t]
      BY <1>2 DEF TurnInv, ReplyStage, PromptStage, Titling
    <2> QED BY <2>1 DEF FirstTurn, SeenPrior, LocalTypes
  <1>9. TitleStage'
    <2>1. \A q \in Turns : FirstTurn(q) <=> FirstTurn(q)'
      BY <1>1, <1>2, <1>4 DEF FirstTurn, LocalFrame
    <2>2. \A q \in Turns : lock'[Conversation] = q <=> pc'[q] = "commit_title"
      BY <1>1, <1>2, <1>3, <1>4, <1>5, ChatAssumption DEF TitleStage, LocalFrame
    <2> QED BY <1>2, <1>3, <1>4, <1>8, <2>1, <2>2 DEF TitleStage
  <1> QED BY <1>1, <1>4, <1>6, <1>7, <1>9, Assemble

(***************************************************************************)
(* The invariant and what follows from it.                                  *)
(***************************************************************************)
\* A new or an old conversation satisfies the invariant.
LEMMA InitInv == Init => IInv
  <1> SUFFICES ASSUME Init PROVE IInv
    OBVIOUS
  <1> USE DEF Init
  <1>1. TypeOK
    BY ChatAssumption DEF TypeOK, StoreType, Titles, Rows, Messages, Conversation
  <1>2. ASSUME NEW t \in Turns PROVE TurnInv(t)
    <2>1. \A m \in {Question(t), Reply(t)} : db[m] = None /\ lock[m] = None /\ work[m] = None
      BY <1>2, RowFacts
    <2> QED BY <1>2, <2>1, ChatAssumption
            DEF TurnInv, OwnRows, QuestionStage, ReplyStage, ToldStage, PromptStage
  <1>3. TitleStage
    <2>1. db[Conversation] \in {Untitled, Given} /\ work = db /\ lock[Conversation] = None
      BY DEF Rows
    <2> QED BY <2>1, ChatAssumption DEF TitleStage
  <1> QED BY <1>1, <1>2, <1>3 DEF IInv

\* Every step keeps the invariant.
LEMMA StepInv == IInv /\ [Next]_vars => IInv'
  <1> SUFFICES ASSUME IInv, [Next]_vars PROVE IInv'
    OBVIOUS
  <1>1. ASSUME NEW t \in Turns, Send(t) PROVE IInv'
    BY <1>1, SendInv
  <1>2. ASSUME NEW t \in Turns, Prepare(t) PROVE IInv'
    BY <1>2, LoadInv, AskInv, ReadHistoryInv DEF Prepare
  <1>3. ASSUME NEW t \in Turns, Generate(t) PROVE IInv'
    BY <1>3, ModelAnswersInv, ModelFailsInv, ChunkInv, StreamEndsInv, StreamFailsInv
    DEF Generate
  <1>4. ASSUME NEW t \in Turns, Leave(t) PROVE IInv'
    BY <1>4, LeaveUnansweredInv, LeaveCancelledInv, LeaveSuspendedInv, LeavePersistingInv
    DEF Leave
  <1>5. ASSUME NEW t \in Turns, Persist(t) PROVE IInv'
    BY <1>5, LateReplyInv, StoreReplyInv, CommitReplyInv DEF Persist
  <1>6. ASSUME NEW t \in Turns, Name(t) PROVE IInv'
    BY <1>6, TitleAnsweredInv, SetTitleInv, CommitTitleInv, TitleFailsInv DEF Name
  <1>7. ASSUME NEW t \in Turns, Break(t) PROVE IInv'
    BY <1>7, RequestFailsInv, PersistFailsInv, StoreTitleFailsInv, TeardownFailsInv
    DEF Break
  <1>8. ASSUME NEW t \in Turns, Answer(t) \/ Teardown(t) PROVE IInv'
    BY <1>8, AnswerInv, TeardownInv
  <1>9. CASE UNCHANGED vars
    BY <1>9 DEF vars, IInv, TypeOK, StoreType, TurnInv, OwnRows, QuestionStage, ReplyStage,
                ToldStage, PromptStage, SeenPrior, Titling, TitleStage, FirstTurn, Streaming
  <1> QED BY <1>1, <1>2, <1>3, <1>4, <1>5, <1>6, <1>7, <1>8, <1>9
          DEF Next, Handle, Quiescent

\* The inductive invariant: how far each turn has come decides which of its
\* rows are stored, held and committed.
THEOREM Invariant == Spec => []IInv
  <1> QED BY InitInv, StepInv, PTL DEF Spec

\* Every variable keeps its type.
THEOREM TypeCorrect == Spec => []TypeOK
  <1>1. IInv => TypeOK
    BY DEF IInv
  <1> QED BY <1>1, Invariant, PTL

\* A reply is stored with its question unless the client had gone.
THEOREM RepliesHaveQuestions == Spec => []ReplyHasQuestion
  <1>1. IInv => ReplyHasQuestion
    BY DEF IInv, TurnInv, ReplyStage, ReplyHasQuestion
  <1> QED BY <1>1, Invariant, PTL

\* A prompt holds every turn that was answered before it was asked.
THEOREM PromptsSeeAnswers == Spec => []AnsweredTurnsSeen
  <1>1. IInv => AnsweredTurnsSeen
    BY DEF IInv, TurnInv, PromptStage, SeenPrior, AnsweredTurnsSeen
  <1> QED BY <1>1, Invariant, PTL

\* A turn answered with 502 has left no message.
THEOREM FailuresLeaveNothing == Spec => []FailedTurnLeavesNothing
  <1>1. IInv => FailedTurnLeavesNothing
    BY DEF IInv, TurnInv, ToldStage, FailedTurnLeavesNothing
  <1> QED BY <1>1, Invariant, PTL

\* A generated title comes from a turn whose reply is stored and before which no
\* turn was answered.
THEOREM TitlesByFirstTurns == Spec => []TitleByFirstTurn
  <1>1. IInv => TitleByFirstTurn
    BY DEF IInv, TitleStage, FirstTurn, TitleByFirstTurn
  <1> QED BY <1>1, Invariant, PTL

\* Only a commit of the turn that takes a step changes what is committed.
LEMMA OnlyCommits ==
    ASSUME NEW t \in Turns, Send(t) \/ Handle(t) \/ Leave(t) \/ Break(t)
    PROVE  db' = db \/ Commit(t)
  <1>1. CASE Send(t)
    BY <1>1 DEF Send
  <1>2. CASE Prepare(t)
    BY <1>2 DEF Prepare, Load, Ask, ReadHistory, Write
  <1>3. CASE Generate(t)
    BY <1>3
    DEF Generate, ModelAnswers, ModelFails, Chunk, StreamEnds, StreamFails, Rollback
  <1>4. CASE Leave(t)
    BY <1>4
    DEF Leave, LeaveUnanswered, LeaveCancelled, LeaveSuspended, LeavePersisting, Rollback
  <1>5. CASE Persist(t)
    BY <1>5 DEF Persist, LateReply, StoreReply, CommitReply, Write
  <1>6. CASE Name(t)
    BY <1>6 DEF Name, TitleAnswered, SetTitle, CommitTitle, TitleFails, Write, store
  <1>7. CASE Break(t)
    BY <1>7 DEF Break, RequestFails, PersistFails, StoreTitleFails, TeardownFails, Rollback
  <1>8. CASE Answer(t) \/ Teardown(t)
    BY <1>8 DEF Answer, Teardown
  <1> QED BY <1>1, <1>2, <1>3, <1>4, <1>5, <1>6, <1>7, <1>8 DEF Handle

\* A given title is never replaced: a turn that is to commit a title has read
\* that there was none, and nobody gives one afterwards.
THEOREM GivenTitlesKept == Spec => GivenTitleKept
  <1>1. ASSUME IInv, [Next]_vars, db[Conversation] = Given
        PROVE  db'[Conversation] = Given
    <2>1. CASE db' = db
      BY <1>1, <2>1
    <2>2. ASSUME NEW t \in Turns, Commit(t) PROVE db'[Conversation] = Given
      <3>1. pc[t] # "commit_title"
        BY <1>1, TurnFacts DEF TurnInv, PromptStage, Titling, TitleStage
      <3> QED BY <1>1, <2>2, <3>1, CommitFrame
    <2> QED BY <1>1, <2>1, <2>2, OnlyCommits DEF Next, Quiescent, vars
  <1>2. IInv /\ [Next]_vars => [db[Conversation] = Given => db'[Conversation] = Given]_vars
    BY <1>1
  <1> QED BY <1>2, Invariant, PTL DEF Spec, GivenTitleKept

(***************************************************************************)
(* Refinement: every step is a step of ChatLog or none.                     *)
(***************************************************************************)
\* What ChatLog sees of the state.
Logged == {m \in Messages : db[m] # None}
HeardAll == [t \in Turns |-> Heard(t)]
Gone == {t \in Turns : left[t]}
Seen == <<Logged, db[Conversation], hist, HeardAll, Gone>>

\* ChatLog and ChatTurns name messages alike.
LEMMA SameRows ==
    ASSUME NEW t \in Turns
    PROVE  /\ Log!Question(t) = Question(t) /\ Log!Reply(t) = Reply(t)
           /\ Log!Exchanged(t) = {Question(t), Reply(t)}
  BY DEF Log!Question, Log!Reply, Log!Exchanged, Question, Reply

\* Every message is the question or the reply of a turn.
LEMMA MessageIs ==
    ASSUME NEW m \in Messages
    PROVE  \E q \in Turns : m \in {Question(q), Reply(q)}
  BY DEF Messages, Question, Reply

\* From the call of the model to its end, a turn is underway.
LEMMA UnderwayIs ==
    ASSUME IInv, NEW t \in Turns,
           \/ pc[t] \in {"model", "reply", "commit", "title", "set_title", "commit_title",
                         "answer", "late"}
           \/ pc[t] = "teardown" /\ db[Question(t)] = None
    PROVE  hist[t] # {} /\ Heard(t) = "nothing" /\ Log!Underway(t)
  <1>1. TurnInv(t)
    BY TurnFacts
  <1>2. hist[t] # {}
    BY <1>1 DEF TurnInv, PromptStage
  <1>3. told[t] # "answer" /\ told[t] # "bad_gateway"
    BY <1>1 DEF TurnInv, ToldStage
  <1>4. Heard(t) = "nothing"
    BY <1>3 DEF Heard
  <1> QED BY <1>2, <1>4 DEF Log!Underway

\* What is told to one client does not change what the others heard.
LEMMA HeardFrame ==
    ASSUME NEW t \in Turns, \A q \in Turns \ {t} : told'[q] = told[q]
    PROVE  /\ Heard(t)' = Heard(t) => HeardAll' = HeardAll
           /\ \A h : Heard(t)' = h => HeardAll' = [HeardAll EXCEPT ![t] = h]
  <1>1. \A q \in Turns \ {t} : Heard(q)' = Heard(q)
    BY DEF Heard
  <1> QED BY <1>1 DEF HeardAll

\* The log after a commit of t: what there was, and the messages t held.
LEMMA CommitLogs ==
    ASSUME IInv, NEW t \in Turns, Commit(t)
    PROVE  Logged' = Logged \cup {m \in {Question(t), Reply(t)} : work[m] # None}
  <1>1. /\ \A m \in {Question(t), Reply(t)} : db'[m] = work[m]
        /\ \A m \in {Question(t), Reply(t)} : db[m] # None => work[m] # None
        /\ RowsFrame(t)
    BY CommitFrame, TurnFacts DEF TurnInv, OwnRows
  <1>2. \A m \in Messages : m \notin {Question(t), Reply(t)} => db'[m] = db[m]
    BY <1>1, MessageIs DEF RowsFrame
  <1> QED BY <1>1, <1>2, RowFacts DEF Logged

\* A step that commits nothing, reads no prompt, tells no client its answer and
\* loses no client is not seen.
LEMMA Silent ==
    ASSUME IInv, NEW t \in Turns, db' = db, hist' = hist, left' = left,
           \A q \in Turns \ {t} : told'[q] = told[q],
           Heard(t)' = Heard(t)
    PROVE  Seen' = Seen
  <1>1. HeardAll' = HeardAll
    BY HeardFrame
  <1> QED BY <1>1 DEF Seen, Logged, Gone

\* A turn reads its prompt: its own question, and every message of the log.
LEMMA ReadHistorySeen ==
    ASSUME IInv, NEW t \in Turns, ReadHistory(t)
    PROVE  Log!Prompt(t) /\ UNCHANGED <<Logged, db[Conversation], HeardAll, Gone>>
  <1>1. /\ pc[t] = "history" /\ hist' = [hist EXCEPT ![t] = hist'[t]]
        /\ hist'[t] = {m \in Messages : Visible(t, m) # None}
        /\ UNCHANGED <<db, told, left>>
    BY TurnFacts DEF ReadHistory, LocalTypes
  <1>2. hist[t] = {} /\ work[Question(t)] # None /\ lock[Question(t)] = t /\ lock[Reply(t)] # t
    BY <1>1, TurnFacts DEF TurnInv, PromptStage, QuestionStage, ReplyStage
  <1>3. \A m \in Messages : lock[m] = t => m = Question(t)
    <2> SUFFICES ASSUME NEW m \in Messages, lock[m] = t PROVE m = Question(t)
      OBVIOUS
    <2>1. PICK q \in Turns : m \in {Question(q), Reply(q)}
      BY MessageIs
    <2>2. q = t
      BY <2>1, TurnFacts, ChatAssumption DEF TurnInv, OwnRows
    <2> QED BY <1>2, <2>1, <2>2
  <1>4. hist'[t] = Logged \cup {Question(t)}
    BY <1>1, <1>2, <1>3, RowFacts DEF Visible, Logged
  <1>5. UNCHANGED <<Logged, db[Conversation], HeardAll, Gone>>
    BY <1>1 DEF Logged, HeardAll, Heard, Gone
  <1> QED BY <1>1, <1>2, <1>4, <1>5, SameRows DEF Log!Prompt, Logged, HeardAll, Gone

\* The model fails: the client is refused, and the log knows nothing of the turn.
LEMMA ModelFailsSeen ==
    ASSUME IInv, NEW t \in Turns, ModelFails(t)
    PROVE  Log!Refuse(t)
  <1>1. /\ pc[t] = "model" /\ ~Streaming(t)
        /\ told' = [told EXCEPT ![t] = "bad_gateway"]
        /\ UNCHANGED <<db, hist, left>>
    BY DEF ModelFails, Tell, Rollback
  <1>2. Log!Underway(t)
    BY <1>1, UnderwayIs
  <1>3. db[Question(t)] = None /\ db[Reply(t)] = None /\ ~left[t]
    BY <1>1, TurnFacts DEF TurnInv, QuestionStage, ReplyStage, ToldStage
  <1>4. HeardAll' = [HeardAll EXCEPT ![t] = "refused"]
    <2>1. told'[t] = "bad_gateway" /\ \A q \in Turns \ {t} : told'[q] = told[q]
      BY <1>1, TurnFacts DEF LocalTypes
    <2>2. Heard(t)' = "refused"
      BY <2>1 DEF Heard
    <2> QED BY <2>1, <2>2, HeardFrame
  <1> QED BY <1>1, <1>2, <1>3, <1>4, SameRows DEF Log!Refuse, HeardAll

\* The JSON answer is sent: question and reply are in the log.
LEMMA AnswerSeen ==
    ASSUME IInv, NEW t \in Turns, Answer(t)
    PROVE  Log!Answer(t)
  <1>1. /\ pc[t] = "answer"
        /\ told' = [told EXCEPT ![t] = "answer"]
        /\ UNCHANGED <<db, hist, left>>
    BY DEF Answer, Tell
  <1>2. Log!Underway(t)
    BY <1>1, UnderwayIs
  <1>3. ~left[t] /\ db[Question(t)] # None /\ db[Reply(t)] # None
    BY <1>1, TurnFacts DEF TurnInv, ReplyStage, ToldStage, StageType, Common
  <1>4. HeardAll' = [HeardAll EXCEPT ![t] = "answer"]
    <2>1. told'[t] = "answer" /\ \A q \in Turns \ {t} : told'[q] = told[q]
      BY <1>1, TurnFacts DEF LocalTypes
    <2>2. Heard(t)' = "answer"
      BY <2>1 DEF Heard
    <2> QED BY <2>1, <2>2, HeardFrame
  <1> QED BY <1>1, <1>2, <1>3, <1>4, SameRows, RowFacts DEF Log!Answer, HeardAll

\* The client closes its stream, and nothing is committed.
LEMMA LeaveSeen ==
    ASSUME IInv, NEW t \in Turns, db' = db, hist' = hist, told' = told,
           left' = [left EXCEPT ![t] = TRUE],
           pc[t] \in {"model", "reply", "commit", "title", "set_title", "commit_title"}
    PROVE  Log!Leave(t)
  <1>1. Log!Underway(t)
    BY UnderwayIs
  <1>2. Gone' = Gone \cup {t}
    BY TurnFacts DEF Gone, LocalTypes
  <1>3. HeardAll' = HeardAll
    BY DEF HeardAll, Heard
  <1> QED BY <1>1, <1>2, <1>3 DEF Log!Leave, Gone, HeardAll


\* The reply is committed, and the client may go at that moment: the exchange
\* enters the log, or the reply of a client that had gone.
LEMMA CommitSeen ==
    ASSUME IInv, NEW t \in Turns, Commit(t), pc[t] = "commit", hist' = hist, HeardAll' = HeardAll,
           left' = left \/ (left' = [left EXCEPT ![t] = TRUE] /\ ~left[t])
    PROVE  Log!Exchange(t) \/ Log!ReplyAlone(t)
  <1>1. Log!Underway(t)
    BY UnderwayIs
  <1>2. db'[Conversation] = db[Conversation]
    BY CommitFrame
  <1>3. /\ lock[Reply(t)] = t /\ work[Reply(t)] # None /\ db[Reply(t)] = None
        /\ lock[Question(t)] = t => db[Question(t)] = None
        /\ lock[Question(t)] # t => work[Question(t)] = db[Question(t)]
        /\ ~left[t] => lock[Question(t)] = t /\ work[Question(t)] # None
        /\ left[t] => lock[Question(t)] # t
    BY TurnFacts DEF TurnInv, OwnRows, QuestionStage, ReplyStage
  <1>4. Logged' = Logged \cup {m \in {Question(t), Reply(t)} : work[m] # None}
    BY CommitLogs
  <1>5. CASE ~left[t]
    <2>1. Logged' = Logged \cup {Question(t), Reply(t)}
      BY <1>3, <1>4, <1>5
    <2>2. {Question(t), Reply(t)} \cap Logged = {}
      BY <1>3, <1>5 DEF Logged
    <2>3. Gone' = Gone \/ Gone' = Gone \cup {t}
      BY TurnFacts DEF Gone, LocalTypes
    <2>4. t \notin Gone
      BY <1>5 DEF Gone
    <2> QED BY <1>1, <1>2, <2>1, <2>2, <2>3, <2>4, SameRows
            DEF Log!Exchange, Log!MayLeave, Logged, Gone, HeardAll
  <1>6. CASE left[t]
    <2>1. Logged' = Logged \cup {Reply(t)}
      BY <1>3, <1>4, <1>6, RowFacts DEF Logged
    <2>2. Reply(t) \notin Logged /\ t \in Gone /\ Gone' = Gone
      BY <1>3, <1>6 DEF Logged, Gone
    <2> QED BY <1>1, <1>2, <2>1, <2>2, SameRows DEF Log!ReplyAlone, Logged, Gone, HeardAll
  <1> QED BY <1>5, <1>6

\* The title is committed, and the client may go at that moment.
LEMMA CommitTitleSeen ==
    ASSUME IInv, NEW t \in Turns, Commit(t), pc[t] = "commit_title", hist' = hist,
           HeardAll' = HeardAll, left' = left \/ left' = [left EXCEPT ![t] = TRUE]
    PROVE  Log!Name(t)
  <1>1. Log!Underway(t)
    BY UnderwayIs
  <1>2. db'[Conversation] = t
    BY CommitFrame, TurnFacts DEF TitleStage
  <1>3. /\ work[Question(t)] = db[Question(t)] /\ work[Reply(t)] = db[Reply(t)]
        /\ db[Reply(t)] # None /\ Titling(t)
    BY TurnFacts DEF TurnInv, OwnRows, QuestionStage, ReplyStage, PromptStage
  <1>4. Logged' = Logged
    BY <1>3, CommitLogs, RowFacts DEF Logged
  <1>5. Reply(t) \in Logged
    BY <1>3, RowFacts DEF Logged
  <1>6. db[Conversation] # Given
    BY <1>3, TurnFacts DEF Titling, TitleStage
  <1>7. Gone' = Gone \/ Gone' = Gone \cup {t}
    BY TurnFacts DEF Gone, LocalTypes
  <1>8. \A s \in Turns : Log!Reply(s) \notin hist[t]
    BY <1>3, SameRows DEF Titling
  <1> QED BY <1>1, <1>2, <1>4, <1>5, <1>6, <1>7, <1>8, SameRows
          DEF Log!Name, Log!MayLeave, Logged, Gone, HeardAll

\* The session of the request ends: a question without a reply enters the log,
\* or nothing was left to commit.
LEMMA TeardownSeen ==
    ASSUME IInv, NEW t \in Turns, Teardown(t)
    PROVE  Log!AskAlone(t) \/ Seen' = Seen
  <1>1. /\ pc[t] = "teardown" /\ Commit(t)
        /\ UNCHANGED <<hist, told, left>>
    BY DEF Teardown, Rest
  <1>2. db'[Conversation] = db[Conversation]
    BY <1>1, CommitFrame
  <1>3. /\ work[Reply(t)] = db[Reply(t)]
        /\ lock[Question(t)] = t => db[Question(t)] = None
        /\ lock[Question(t)] # t => work[Question(t)] = db[Question(t)]
        /\ db[Question(t)] = None => db[Reply(t)] = None
    BY <1>1, TurnFacts DEF TurnInv, OwnRows, QuestionStage, ReplyStage
  <1>4. Logged' = Logged \cup {m \in {Question(t), Reply(t)} : work[m] # None}
    BY <1>1, CommitLogs
  <1>5. HeardAll' = HeardAll /\ Gone' = Gone
    BY <1>1 DEF HeardAll, Heard, Gone
  <1>6. CASE work[Question(t)] = db[Question(t)]
    <2>1. Logged' = Logged
      BY <1>3, <1>4, <1>6, RowFacts DEF Logged
    <2> QED BY <1>1, <1>2, <1>5, <2>1 DEF Seen
  <1>7. CASE work[Question(t)] # db[Question(t)]
    <2>1. db[Question(t)] = None /\ db[Reply(t)] = None
      BY <1>3, <1>7
    <2>2. Log!Underway(t)
      BY <1>1, <2>1, UnderwayIs
    <2>3. Logged' = Logged \cup {Question(t)}
      BY <1>3, <1>4, <1>7, <2>1
    <2>4. {Question(t), Reply(t)} \cap Logged = {}
      BY <2>1 DEF Logged
    <2> QED BY <1>1, <1>2, <1>5, <2>2, <2>3, <2>4, SameRows
            DEF Log!AskAlone, Logged, Gone, HeardAll
  <1> QED BY <1>6, <1>7

\* The client closes a stream, wherever it is.
LEMMA LeavesSeen ==
    ASSUME IInv, NEW t \in Turns, Leave(t)
    PROVE  Log!Leave(t) \/ Log!Exchange(t) \/ Log!ReplyAlone(t) \/ Log!Name(t)
  <1>1. /\ left' = [left EXCEPT ![t] = TRUE] /\ hist' = hist /\ told' = told
        /\ pc[t] \in {"model", "reply", "commit", "title", "set_title", "commit_title"}
        /\ \/ db' = db
           \/ ~left[t] /\ pc[t] \in {"commit", "commit_title"} /\ Commit(t)
    BY DEF Leave, LeaveUnanswered, LeaveCancelled, LeaveSuspended, LeavePersisting, Rollback
  <1>2. HeardAll' = HeardAll
    BY <1>1 DEF HeardAll, Heard
  <1>3. CASE db' = db
    BY <1>1, <1>3, LeaveSeen
  <1>4. CASE ~left[t] /\ pc[t] = "commit" /\ Commit(t)
    BY <1>1, <1>2, <1>4, CommitSeen
  <1>5. CASE pc[t] = "commit_title" /\ Commit(t)
    BY <1>1, <1>2, <1>5, CommitTitleSeen
  <1> QED BY <1>1, <1>3, <1>4, <1>5

\* A failing statement: nothing is seen of it, but the commit of a reply that was
\* made all the same.
LEMMA BreakSeen ==
    ASSUME IInv, NEW t \in Turns, Break(t)
    PROVE  Log!Exchange(t) \/ Log!ReplyAlone(t) \/ Seen' = Seen
  <1>1. CASE PersistFails(t) \/ StoreTitleFails(t) \/ TeardownFails(t)
    <2>1. db' = db /\ UNCHANGED <<hist, told, left>>
      BY <1>1 DEF PersistFails, StoreTitleFails, TeardownFails, Rollback, Rest
    <2> QED BY <2>1, Silent DEF Heard
  <1>2. CASE RequestFails(t)
    <2>1. /\ pc[t] \in {"load", "ask", "history", "reply", "commit"}
          /\ UNCHANGED <<hist, left>>
          /\ told' = [told EXCEPT ![t] = "internal_error"]
          /\ db' = db \/ (pc[t] = "commit" /\ Commit(t))
      BY <1>2 DEF RequestFails, Tell, Rollback
    <2>2. told[t] # "answer" /\ told[t] # "bad_gateway"
      BY <2>1, TurnFacts DEF TurnInv, ToldStage
    <2>3. /\ told'[t] = "internal_error"
          /\ \A q \in Turns \ {t} : told'[q] = told[q]
      BY <2>1, TurnFacts DEF LocalTypes
    <2>4. Heard(t)' = Heard(t)
      BY <2>2, <2>3 DEF Heard
    <2>5. HeardAll' = HeardAll
      BY <2>3, <2>4, HeardFrame
    <2>6. CASE db' = db
      BY <2>1, <2>3, <2>4, <2>6, Silent
    <2>7. CASE pc[t] = "commit" /\ Commit(t)
      BY <2>1, <2>5, <2>7, CommitSeen
    <2> QED BY <2>1, <2>6, <2>7
  <1> QED BY <1>1, <1>2 DEF Break

\* What the model does is not seen, but that it fails.
LEMMA GenerateSeen ==
    ASSUME IInv, NEW t \in Turns, Generate(t)
    PROVE  Log!Refuse(t) \/ Seen' = Seen
  <1>1. CASE ModelAnswers(t) \/ Chunk(t)
    <2>1. UNCHANGED <<db, hist, told, left>>
      BY <1>1 DEF ModelAnswers, Chunk
    <2> QED BY <2>1, Silent DEF Heard
  <1>2. CASE StreamEnds(t) \/ StreamFails(t)
    <2>1. /\ pc[t] = "model"
          /\ UNCHANGED <<db, hist, left>>
          /\ \E e \in {"done", "error"} : told' = [told EXCEPT ![t] = e]
      BY <1>2 DEF StreamEnds, StreamFails, Tell
    <2>2. told[t] # "answer" /\ told[t] # "bad_gateway"
      BY <2>1, TurnFacts DEF TurnInv, ToldStage
    <2>3. /\ told'[t] \in {"done", "error"}
          /\ \A q \in Turns \ {t} : told'[q] = told[q]
      BY <2>1, TurnFacts DEF LocalTypes
    <2>4. Heard(t)' = Heard(t)
      BY <2>2, <2>3 DEF Heard
    <2> QED BY <2>1, <2>3, <2>4, Silent
  <1> QED BY <1>1, <1>2, ModelFailsSeen DEF Generate

\* Storing the reply and the title is seen when it is committed.
LEMMA StoreSeen ==
    ASSUME IInv, NEW t \in Turns, Persist(t) \/ Name(t)
    PROVE  Log!Exchange(t) \/ Log!ReplyAlone(t) \/ Log!Name(t) \/ Seen' = Seen
  <1>1. UNCHANGED <<hist, told, left>>
    BY DEF Persist, Name, LateReply, StoreReply, CommitReply, TitleAnswered, SetTitle,
           CommitTitle, TitleFails, Rest
  <1>2. HeardAll' = HeardAll
    BY <1>1 DEF HeardAll, Heard
  <1>3. \/ db' = db
        \/ pc[t] \in {"commit", "commit_title"} /\ Commit(t)
    BY DEF Persist, Name, LateReply, StoreReply, CommitReply, TitleAnswered, SetTitle,
           CommitTitle, TitleFails, Write, store
  <1>4. CASE db' = db
    BY <1>1, <1>4, Silent DEF Heard
  <1>5. CASE pc[t] \in {"commit", "commit_title"} /\ Commit(t)
    BY <1>1, <1>2, <1>5, CommitSeen, CommitTitleSeen
  <1> QED BY <1>3, <1>4, <1>5

\* Any number of interleaved turns change what is committed, shown to the model
\* and answered as the chat log does: a turn enters it whole, but where its client
\* has gone or its stream brought nothing, and is answered only with what is there.
THEOREM LogImplemented == Spec => ImplementsLog
  <1>1. Init => Log!Init
    <2> SUFFICES ASSUME Init PROVE Log!Init
      OBVIOUS
    <2>1. Logged = {} /\ Gone = {} /\ HeardAll = [t \in Turns |-> "nothing"]
      BY RowFacts DEF Init, Logged, Gone, HeardAll, Heard, Rows, Messages, Conversation
    <2>2. db[Conversation] \in {Untitled, Given}
      BY DEF Init, Rows
    <2> QED BY <2>1, <2>2 DEF Init, Log!Init, Logged, Gone, HeardAll
  <1>2. IInv /\ [Next]_vars => Log!Next \/ Seen' = Seen
    <2> SUFFICES ASSUME IInv, [Next]_vars PROVE Log!Next \/ Seen' = Seen
      OBVIOUS
    <2> USE DEF Log!Next
    <2>1. ASSUME NEW t \in Turns, Send(t) PROVE Seen' = Seen
      BY <2>1, Silent DEF Send, Heard
    <2>2. ASSUME NEW t \in Turns, Prepare(t) PROVE Log!Prompt(t) \/ Seen' = Seen
      <3>1. CASE ReadHistory(t)
        BY <3>1, ReadHistorySeen
      <3>2. CASE Load(t) \/ Ask(t)
        BY <3>2, Silent DEF Load, Ask, Write, Rest, Heard
      <3> QED BY <2>2, <3>1, <3>2 DEF Prepare
    <2>3. CASE \E t \in Turns : Send(t) \/ Handle(t) \/ Leave(t) \/ Break(t)
      BY <2>1, <2>2, <2>3, GenerateSeen, StoreSeen, AnswerSeen, TeardownSeen, LeavesSeen,
         BreakSeen DEF Handle
    <2>4. CASE UNCHANGED vars
      BY <2>4 DEF vars, Seen, Logged, HeardAll, Heard, Gone
    <2> QED BY <2>3, <2>4 DEF Next, Quiescent
  <1>3. IInv /\ [Next]_vars =>
            [Log!Next]_<<{m \in Messages : db[m] # None}, db[Conversation], hist,
                         [t \in Turns |-> Heard(t)], {t \in Turns : left[t]}>>
    BY <1>2 DEF Seen, Logged, HeardAll, Gone
  <1> QED BY <1>1, <1>3, Invariant, PTL DEF Spec, ImplementsLog, Log!Spec

=============================================================================
