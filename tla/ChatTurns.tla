------------------------------ MODULE ChatTurns ------------------------------
(***************************************************************************)
(* The turns of one conversation: send_message of the chat router, with its *)
(* two answers (JSON, or a stream of events), what it stores, and the title *)
(* it generates after the first turn (src/domains/chat/router and           *)
(* repository).                                                             *)
(*                                                                          *)
(* A turn is one request with one database session.  created_at defaults to *)
(* now(), the time the transaction began, so messages of one transaction    *)
(* have the same created_at: txn counts the transactions in which a turn    *)
(* stores messages, and a message bears the number of its own.  Requests    *)
(* that get_current_user, require_permission or the ownership test refuse   *)
(* store nothing and are left out.                                          *)
(***************************************************************************)
EXTENDS Naturals, FiniteSets

CONSTANTS Turns,     \* messages sent by clients, each by its own request
          Modes,     \* how clients ask to be answered: "json", "stream"
          Untitled,  \* no title
          Given,     \* the title given when the conversation was created
          Failures,  \* whether statements can fail and clients go away
          None

VARIABLES db, work, lock,   \* see RowStore
          pc,        \* what the turn does next
          mode,      \* body.stream
          txn,       \* transactions in which the turn stores messages, so far
          untitled,  \* the conversation had no title when the turn read it
          hist,      \* the messages of the prompt
          made,      \* collected_chunks: none, part or all of the reply
          told,      \* what the client was told last
          left,      \* the client closed the stream
          prior      \* turns that were answered before this one was sent

Question(t) == <<t, "user">>
Reply(t) == <<t, "assistant">>
Messages == Turns \X {"user", "assistant"}
Conversation == <<None, "conversation">>

Reqs == Turns
Rows == Messages \cup {Conversation}

INSTANCE RowStore

store == <<db, work, lock>>
vars == <<db, work, lock, pc, mode, txn, untitled, hist, made, told, left, prior>>

(***************************************************************************)
(* A message row is reduced to created_at and, for a reply, to whether the  *)
(* model had finished: the code stores finish_reason "stop" for every reply *)
(* it stores.  The row of the conversation is its title: none, given at     *)
(* creation, or generated from a turn.                                      *)
(***************************************************************************)
Message == [created_at: Nat, whole: BOOLEAN]
Titles == Turns \cup {Untitled, Given}

ASSUME ChatAssumption ==
    /\ None \notin Turns \cup Titles \cup Message
    /\ {Untitled, Given} \cap Turns = {}
    /\ Untitled # Given
    /\ Modes \subseteq {"json", "stream"}
    /\ Failures \in BOOLEAN

Common == {"load", "ask", "history", "model", "reply", "commit", "title", "set_title",
           "commit_title", "teardown", "ended"}

StagesOf == [json |-> Common \cup {"answer"}, stream |-> Common \cup {"late"}]

Init ==
    /\ \E title \in {Untitled, Given} :
           db = [o \in Rows |-> IF o = Conversation THEN title ELSE None]
    /\ work = db
    /\ lock = [o \in Rows |-> None]
    /\ pc = [t \in Turns |-> "idle"]
    /\ mode = [t \in Turns |-> "json"]
    /\ txn = [t \in Turns |-> 0]
    /\ untitled = [t \in Turns |-> FALSE]
    /\ hist = [t \in Turns |-> {}]
    /\ made = [t \in Turns |-> "none"]
    /\ told = [t \in Turns |-> "nothing"]
    /\ left = [t \in Turns |-> FALSE]
    /\ prior = [t \in Turns |-> {}]

(***************************************************************************)
(* Helpers.                                                                 *)
(***************************************************************************)
Goto(t, stage) == pc' = [pc EXCEPT ![t] = stage]

Tell(t, what) == told' = [told EXCEPT ![t] = what]

\* Only the database and the program counter change.
Rest == UNCHANGED <<mode, txn, untitled, hist, made, told, left, prior>>

Streaming(t) == mode[t] = "stream"

\* Mutant of Titling: it need not be the first turn.
TitlingUntitled(t) == untitled[t]

\* is_first_turn and conv.title is None, both as they were read.
Titling(t) == untitled[t] /\ \A s \in Turns : Reply(s) \notin hist[t]

\* Mutant of Finish: a stream is answered like a JSON request.
FinishAnswering(t) == "answer"

\* Where a turn goes when its reply is stored and its title is dealt with.  A
\* stream its client closed is finished by the event loop, not by the request.
Finish(t) == IF ~Streaming(t) THEN "answer" ELSE IF left[t] THEN "ended" ELSE "teardown"

(***************************************************************************)
(* Up to the call of the model.                                             *)
(***************************************************************************)
Send(t) ==
    /\ pc[t] = "idle"
    /\ \E m \in Modes : mode' = [mode EXCEPT ![t] = m]
    /\ txn' = [txn EXCEPT ![t] = @ + 1]
    /\ prior' = [prior EXCEPT ![t] = {s \in Turns : told[s] = "answer"}]
    /\ Goto(t, "load")
    /\ UNCHANGED <<db, work, lock, untitled, hist, made, told, left>>

Load(t) ==
    /\ pc[t] = "load"
    /\ untitled' = [untitled EXCEPT ![t] = Visible(t, Conversation) = Untitled]
    /\ Goto(t, "ask")
    /\ UNCHANGED <<db, work, lock, mode, txn, hist, made, told, left, prior>>

Ask(t) ==
    /\ pc[t] = "ask"
    /\ Write(t, Question(t), [created_at |-> txn[t], whole |-> TRUE])
    /\ Goto(t, "history")
    /\ Rest

\* Mutant of ReadHistory: read by another session, which sees what is committed.
ReadHistoryCommitted(t) ==
    /\ pc[t] = "history"
    /\ hist' = [hist EXCEPT ![t] = {m \in Messages : db[m] # None}]
    /\ Goto(t, "model")
    /\ UNCHANGED <<db, work, lock, mode, txn, untitled, made, told, left, prior>>

ReadHistory(t) ==
    /\ pc[t] = "history"
    /\ hist' = [hist EXCEPT ![t] = {m \in Messages : Visible(t, m) # None}]
    /\ Goto(t, "model")
    /\ UNCHANGED <<db, work, lock, mode, txn, untitled, made, told, left, prior>>

(***************************************************************************)
(* The model answers, in one piece or in chunks that go to the client as    *)
(* they come.                                                               *)
(***************************************************************************)
ModelAnswers(t) ==
    /\ pc[t] = "model" /\ ~Streaming(t)
    /\ made' = [made EXCEPT ![t] = "whole"]
    /\ Goto(t, "reply")
    /\ UNCHANGED <<db, work, lock, mode, txn, untitled, hist, told, left, prior>>

\* Mutant of ModelFails: the 502 is returned, not raised.
ModelFailsReturning(t) ==
    /\ pc[t] = "model" /\ ~Streaming(t)
    /\ Commit(t)
    /\ Tell(t, "bad_gateway")
    /\ Goto(t, "ended")
    /\ UNCHANGED <<mode, txn, untitled, hist, made, left, prior>>

\* The 502 leaves the handler and get_async_session rolls back.
ModelFails(t) ==
    /\ pc[t] = "model" /\ ~Streaming(t)
    /\ Rollback(t)
    /\ Tell(t, "bad_gateway")
    /\ Goto(t, "ended")
    /\ UNCHANGED <<mode, txn, untitled, hist, made, left, prior>>

Chunk(t) ==
    /\ pc[t] = "model" /\ Streaming(t) /\ made[t] = "none"
    /\ made' = [made EXCEPT ![t] = "part"]
    /\ UNCHANGED <<db, work, lock, pc, mode, txn, untitled, hist, told, left, prior>>

\* The finally block stores what was collected, if anything was.
AfterStream(t) == Goto(t, IF made[t] = "none" THEN "teardown" ELSE "reply")

\* [DONE] is sent, and then the finally block runs.
StreamEnds(t) ==
    /\ pc[t] = "model" /\ Streaming(t)
    /\ made' = [made EXCEPT ![t] = IF @ = "part" THEN "whole" ELSE @]
    /\ Tell(t, "done")
    /\ AfterStream(t)
    /\ UNCHANGED <<db, work, lock, mode, txn, untitled, hist, left, prior>>

\* Mutant of StreamFails: a rollback before the finally block.
StreamFailsRollingBack(t) ==
    /\ pc[t] = "model" /\ Streaming(t)
    /\ Rollback(t)
    /\ Tell(t, "error")
    /\ AfterStream(t)
    /\ UNCHANGED <<mode, txn, untitled, hist, made, left, prior>>

\* An error event is sent, and then the finally block runs.
StreamFails(t) ==
    /\ pc[t] = "model" /\ Streaming(t)
    /\ Tell(t, "error")
    /\ AfterStream(t)
    /\ UNCHANGED <<db, work, lock, mode, txn, untitled, hist, made, left, prior>>

(***************************************************************************)
(* The client closes the stream: EventSourceResponse cancels the task.      *)
(***************************************************************************)
\* Nothing was collected: the finally block has nothing to do.
LeaveUnanswered(t) ==
    /\ Failures /\ pc[t] = "model" /\ Streaming(t) /\ made[t] = "none"
    /\ left' = [left EXCEPT ![t] = TRUE]
    /\ Goto(t, "teardown")
    /\ UNCHANGED <<db, work, lock, mode, txn, untitled, hist, made, told, prior>>

\* The generator is cancelled while it waits for the model: the INSERT of its
\* finally block is cancelled too and takes the connection with it.
LeaveCancelled(t) ==
    /\ Failures /\ pc[t] = "model" /\ Streaming(t) /\ made[t] = "part"
    /\ left' = [left EXCEPT ![t] = TRUE]
    /\ Rollback(t)
    /\ Goto(t, "ended")
    /\ UNCHANGED <<mode, txn, untitled, hist, made, told, prior>>

\* It is suspended at a yield, the cancellation having hit the sending: the
\* session is torn down, and the finally block runs when the loop finalises
\* the generator, in a transaction of its own.
LeaveSuspended(t) ==
    /\ Failures /\ pc[t] = "model" /\ Streaming(t) /\ made[t] = "part"
    /\ left' = [left EXCEPT ![t] = TRUE]
    /\ Goto(t, "teardown")
    /\ UNCHANGED <<db, work, lock, mode, txn, untitled, hist, made, told, prior>>

\* It is in its finally block, as when the client closes on [DONE]: what was
\* not committed is lost, and the title with it.
LeavePersisting(t) ==
    /\ Failures /\ Streaming(t) /\ ~left[t]
    /\ pc[t] \in {"reply", "commit", "title", "set_title", "commit_title"}
    /\ left' = [left EXCEPT ![t] = TRUE]
    /\ Rollback(t) \/ (pc[t] \in {"commit", "commit_title"} /\ Commit(t))
    /\ Goto(t, "ended")
    /\ UNCHANGED <<mode, txn, untitled, hist, made, told, prior>>

LateReply(t) ==
    /\ pc[t] = "late"
    /\ txn' = [txn EXCEPT ![t] = @ + 1]
    /\ Goto(t, "reply")
    /\ UNCHANGED <<db, work, lock, mode, untitled, hist, made, told, left, prior>>

(***************************************************************************)
(* The reply and the title.                                                 *)
(***************************************************************************)
StoreReply(t) ==
    /\ pc[t] = "reply"
    /\ Write(t, Reply(t), [created_at |-> txn[t], whole |-> made[t] = "whole"])
    /\ Goto(t, "commit")
    /\ Rest

\* Mutant of CommitReply: the commit is left to the teardown.
CommitReplyLater(t) ==
    /\ pc[t] = "commit"
    /\ Goto(t, IF Titling(t) THEN "title" ELSE Finish(t))
    /\ UNCHANGED store
    /\ Rest

CommitReply(t) ==
    /\ pc[t] = "commit"
    /\ Commit(t)
    /\ Goto(t, IF Titling(t) THEN "title" ELSE Finish(t))
    /\ Rest

\* _auto_title: the model is asked for a title ...
TitleAnswered(t) ==
    /\ pc[t] = "title"
    /\ Goto(t, "set_title")
    /\ UNCHANGED store
    /\ Rest

\* ... which is stored unconditionally.
SetTitle(t) ==
    /\ pc[t] = "set_title"
    /\ Write(t, Conversation, t)
    /\ Goto(t, "commit_title")
    /\ Rest

\* Mutant of CommitTitle: the title is not committed.
CommitTitleForgotten(t) ==
    /\ pc[t] = "commit_title"
    /\ Goto(t, Finish(t))
    /\ UNCHANGED store
    /\ Rest

CommitTitle(t) ==
    /\ pc[t] = "commit_title"
    /\ Commit(t)
    /\ Goto(t, Finish(t))
    /\ Rest

\* The model fails or answers with blanks: nothing to store, and logged.
TitleFails(t) ==
    /\ pc[t] = "title"
    /\ Goto(t, Finish(t))
    /\ UNCHANGED store
    /\ Rest

Answer(t) ==
    /\ pc[t] = "answer"
    /\ Tell(t, "answer")
    /\ Goto(t, "teardown")
    /\ UNCHANGED <<db, work, lock, mode, txn, untitled, hist, made, left, prior>>

\* get_async_session commits what is left and closes the session.
AfterTeardown(t) == Goto(t, IF left[t] /\ made[t] = "part" THEN "late" ELSE "ended")

Teardown(t) ==
    /\ pc[t] = "teardown"
    /\ Commit(t)
    /\ AfterTeardown(t)
    /\ Rest

(***************************************************************************)
(* A statement fails.                                                       *)
(***************************************************************************)
\* Of a request that can still be answered: 500.  The commit may have been
\* made all the same.
RequestFails(t) ==
    /\ Failures
    /\ \/ pc[t] \in {"load", "ask", "history"}
       \/ ~Streaming(t) /\ pc[t] \in {"reply", "commit"}
    /\ Rollback(t) \/ (pc[t] = "commit" /\ Commit(t))
    /\ Tell(t, "internal_error")
    /\ Goto(t, "ended")
    /\ UNCHANGED <<mode, txn, untitled, hist, made, left, prior>>

\* Of the finally block of a stream: logged.
PersistFails(t) ==
    /\ Failures /\ Streaming(t) /\ pc[t] \in {"reply", "commit"}
    /\ Rollback(t)
    /\ Goto(t, "ended")
    /\ Rest

\* Of _auto_title: logged.
StoreTitleFails(t) ==
    /\ Failures /\ pc[t] \in {"set_title", "commit_title"}
    /\ Rollback(t)
    /\ Goto(t, Finish(t))
    /\ Rest

TeardownFails(t) ==
    /\ Failures /\ pc[t] = "teardown"
    /\ Rollback(t)
    /\ AfterTeardown(t)
    /\ Rest

(***************************************************************************)
(* The specification.                                                       *)
(***************************************************************************)
Prepare(t) == Load(t) \/ Ask(t) \/ ReadHistory(t)

Generate(t) == \/ ModelAnswers(t) \/ ModelFails(t) \/ Chunk(t)
               \/ StreamEnds(t) \/ StreamFails(t)

Leave(t) == \/ LeaveUnanswered(t) \/ LeaveCancelled(t) \/ LeaveSuspended(t)
            \/ LeavePersisting(t)

Persist(t) == LateReply(t) \/ StoreReply(t) \/ CommitReply(t)

Name(t) == TitleAnswered(t) \/ SetTitle(t) \/ CommitTitle(t) \/ TitleFails(t)

Break(t) == \/ RequestFails(t) \/ PersistFails(t) \/ StoreTitleFails(t)
            \/ TeardownFails(t)

\* What the event loop, the database and the model do for a turn once sent.
Handle(t) == \/ Prepare(t) \/ Generate(t) \/ Persist(t) \/ Name(t) \/ Answer(t)
             \/ Teardown(t)

Quiescent == (\A t \in Turns : pc[t] = "ended") /\ UNCHANGED vars

Next == (\E t \in Turns : Send(t) \/ Handle(t) \/ Leave(t) \/ Break(t)) \/ Quiescent

Spec == Init /\ [][Next]_vars

\* The model ends every answer it begins, the loop runs every ready task and
\* statements end.
FairSpec == Spec /\ \A t \in Turns : WF_vars(Handle(t))

(***************************************************************************)
(* Properties.                                                              *)
(***************************************************************************)
StoreType(rows) ==
    /\ DOMAIN rows = Rows
    /\ \A m \in Messages : rows[m] \in Message \/ rows[m] = None
    /\ rows[Conversation] \in Titles

\* Types of all variables; a turn is at a step of the way it is answered.
TypeOK ==
    /\ StoreType(db) /\ StoreType(work)
    /\ lock \in [Rows -> Turns \cup {None}]
    /\ DOMAIN pc = Turns
    /\ mode \in [Turns -> {"json", "stream"}]
    /\ \A t \in Turns : pc[t] = "idle" \/ pc[t] \in StagesOf[mode[t]]
    /\ txn \in [Turns -> Nat]
    /\ untitled \in [Turns -> BOOLEAN]
    /\ hist \in [Turns -> SUBSET Messages]
    /\ made \in [Turns -> {"none", "part", "whole"}]
    /\ told \in [Turns -> {"nothing", "answer", "done", "error", "bad_gateway",
                           "internal_error"}]
    /\ left \in [Turns -> BOOLEAN]
    /\ prior \in [Turns -> SUBSET Turns]

\* A stored reply is stored with its question, whatever failed, unless the
\* client had gone: both are in one transaction up to the commit of the reply.
ReplyHasQuestion ==
    \A t \in Turns : db[Reply(t)] # None /\ ~left[t] => db[Question(t)] # None

\* A turn sent after the JSON answer to another has question and reply of that
\* one in its prompt: send_message commits before it answers.
AnsweredTurnsSeen ==
    \A t \in Turns : pc[t] \in Common \ {"load", "ask", "history"} /\ hist[t] # {} =>
        \A s \in prior[t] : {Question(s), Reply(s)} \subseteq hist[t]

\* A turn refused because the model failed leaves no message behind for later
\* prompts: its question was not committed before the model was asked.
FailedTurnLeavesNothing ==
    \A t \in Turns : told[t] = "bad_gateway" =>
        db[Question(t)] = None /\ db[Reply(t)] = None

\* The generated title is that of a turn whose reply is stored and before which
\* no turn had been answered, though _auto_title tests neither when it stores.
TitleByFirstTurn ==
    \A t \in Turns : db[Conversation] = t => db[Reply(t)] # None /\ prior[t] = {}

\* A title given when the conversation was created is never replaced.
GivenTitleKept == [][db[Conversation] = Given => db'[Conversation] = Given]_vars

\* What a client heard as the JSON answer to its turn; events are not told apart.
Heard(t) == CASE told[t] = "answer" -> "answer"
              [] told[t] = "bad_gateway" -> "refused"
              [] OTHER -> "nothing"

Log == INSTANCE ChatLog WITH log <- {m \in Messages : db[m] # None},
                             title <- db[Conversation],
                             prompt <- hist,
                             heard <- [t \in Turns |-> Heard(t)],
                             gone <- {t \in Turns : left[t]}

\* Interleaved turns, with their transactions, failures and closed streams, look
\* like turns that each enter the log at once and are shown all of it.
ImplementsLog == Log!Spec

\* Every turn ends, also when several wait to store a title.
EveryTurnEnds == \A t \in Turns : pc[t] # "idle" ~> pc[t] = "ended"

(***************************************************************************)
(* The inductive invariant.                                                 *)
(***************************************************************************)
\* Nobody else writes the messages of t; a row nobody holds has one version.
OwnRows(t) ==
    \A m \in {Question(t), Reply(t)} :
        /\ lock[m] \in {None, t}
        /\ lock[m] = None => work[m] = db[m]
        /\ db[m] # None => work[m] # None

\* The question, from its INSERT to the commit that publishes it.
QuestionStage(t) ==
    /\ pc[t] \in {"idle", "load", "ask"} => db[Question(t)] = None
    /\ pc[t] \in {"history", "model"} => db[Question(t)] = None
    /\ \/ pc[t] \in {"history", "model"}
       \/ pc[t] \in {"reply", "commit"} /\ ~left[t]
       => lock[Question(t)] = t /\ work[Question(t)] # None
    /\ lock[Question(t)] = t =>
           /\ pc[t] \in {"history", "model", "reply", "commit", "teardown"}
           /\ db[Question(t)] = None
           /\ left[t] => pc[t] = "teardown"

\* The reply is held for one await only, and committed before anything else.
ReplyStage(t) ==
    /\ lock[Reply(t)] = t <=> pc[t] = "commit"
    /\ pc[t] = "commit" => work[Reply(t)] # None
    /\ \/ pc[t] \in {"idle", "load", "ask", "history", "model", "late", "reply", "commit"}
       \/ pc[t] = "teardown" /\ left[t]
       => db[Reply(t)] = None
    /\ pc[t] \in {"title", "set_title", "commit_title", "answer"} => db[Reply(t)] # None
    /\ db[Reply(t)] # None /\ ~left[t] => db[Question(t)] # None

\* What the client was told, and of which turn it may have left.
ToldStage(t) ==
    /\ told[t] = "answer" =>
           /\ pc[t] \in {"teardown", "ended"}
           /\ db[Question(t)] # None /\ db[Reply(t)] # None
    /\ told[t] = "bad_gateway" =>
           pc[t] = "ended" /\ db[Question(t)] = None /\ db[Reply(t)] = None
    /\ left[t] => Streaming(t) /\ pc[t] \notin {"idle", "load", "ask", "history", "model"}
    /\ pc[t] = "late" => left[t]

SeenPrior(t) == \A s \in prior[t] : {Question(s), Reply(s)} \subseteq hist[t]

\* A prompt holds the turns answered before, and a turn that generates a title
\* has found it should.
PromptStage(t) ==
    /\ \A s \in prior[t] : told[s] = "answer"
    /\ hist[t] # {} => SeenPrior(t)
    /\ pc[t] \in {"idle", "load", "ask", "history"} => hist[t] = {}
    /\ pc[t] \notin {"idle", "load", "ask", "history", "ended"} => hist[t] # {}
    /\ pc[t] \in {"title", "set_title", "commit_title"} => Titling(t)

\* A generated title is that of a first turn whose reply is stored.
FirstTurn(t) == db[Reply(t)] # None /\ prior[t] = {}

TitleStage ==
    /\ lock[Conversation] = None => work[Conversation] = db[Conversation]
    /\ \A t \in Turns : lock[Conversation] = t <=>
           pc[t] = "commit_title"
    /\ \A t \in Turns : lock[Conversation] = t => work[Conversation] = t
    /\ \A t \in Turns : db[Conversation] = t \/ work[Conversation] = t => FirstTurn(t)
    /\ work[Conversation] \in Turns \cup {db[Conversation]}
    /\ db[Conversation] = Given => \A t \in Turns : ~untitled[t]

TurnInv(t) == /\ OwnRows(t) /\ QuestionStage(t) /\ ReplyStage(t) /\ ToldStage(t)
              /\ PromptStage(t)

IInv == TypeOK /\ (\A t \in Turns : TurnInv(t)) /\ TitleStage

=============================================================================
