------------------------------- MODULE ChatLog -------------------------------
(***************************************************************************)
(* What the chat domain promises of a conversation, without requests,       *)
(* transactions or locks: a log in which a turn appears whole, a prompt     *)
(* that is the log with the turn's own question, and a title that a first   *)
(* turn may give (send_message and _auto_title of chat_router.py).          *)
(***************************************************************************)
CONSTANTS Turns, Untitled, Given

VARIABLES log,      \* the messages of the conversation
          title,    \* its title
          prompt,   \* what the model was shown for a turn, {} before it was asked
          heard,    \* how a turn was answered: nothing (yet), answer or refused
          gone      \* turns whose client closed the stream

Question(t) == <<t, "user">>
Reply(t) == <<t, "assistant">>
Exchanged(t) == {Question(t), Reply(t)}

Init ==
    /\ log = {}
    /\ title \in {Untitled, Given}
    /\ prompt = [t \in Turns |-> {}]
    /\ heard = [t \in Turns |-> "nothing"]
    /\ gone = {}

\* The model is shown everything that is in the log, and the question.
Prompt(t) ==
    /\ prompt[t] = {}
    /\ prompt' = [prompt EXCEPT ![t] = log \cup {Question(t)}]
    /\ UNCHANGED <<log, title, heard, gone>>

\* The model has been asked, and the client has no JSON answer yet.
Underway(t) == prompt[t] # {} /\ heard[t] = "nothing"

\* A client may close its stream at the very moment.
MayLeave(t) == gone' \in {gone, gone \cup {t}}

\* Question and reply enter the log together ...
Exchange(t) ==
    /\ Underway(t) /\ t \notin gone
    /\ Exchanged(t) \cap log = {}
    /\ log' = log \cup Exchanged(t)
    /\ MayLeave(t)
    /\ UNCHANGED <<title, prompt, heard>>

\* ... but that a stream may bring no reply ...
AskAlone(t) ==
    /\ Underway(t)
    /\ Exchanged(t) \cap log = {}
    /\ log' = log \cup {Question(t)}
    /\ UNCHANGED <<title, prompt, heard, gone>>

\* ... or bring it when its client has gone.
ReplyAlone(t) ==
    /\ Underway(t) /\ t \in gone
    /\ Reply(t) \notin log
    /\ log' = log \cup {Reply(t)}
    /\ UNCHANGED <<title, prompt, heard, gone>>

\* A turn that was shown no reply names the conversation after its own.
Name(t) ==
    /\ Underway(t)
    /\ title # Given
    /\ Reply(t) \in log
    /\ \A s \in Turns : Reply(s) \notin prompt[t]
    /\ title' = t
    /\ MayLeave(t)
    /\ UNCHANGED <<log, prompt, heard>>

Leave(t) ==
    /\ Underway(t)
    /\ gone' = gone \cup {t}
    /\ UNCHANGED <<log, title, prompt, heard>>

\* A client is answered with what is in the log, and refused for good.
Answer(t) ==
    /\ Underway(t) /\ t \notin gone
    /\ Exchanged(t) \subseteq log
    /\ heard' = [heard EXCEPT ![t] = "answer"]
    /\ UNCHANGED <<log, title, prompt, gone>>

Refuse(t) ==
    /\ Underway(t) /\ t \notin gone
    /\ Exchanged(t) \cap log = {}
    /\ heard' = [heard EXCEPT ![t] = "refused"]
    /\ UNCHANGED <<log, title, prompt, gone>>

Next ==
    \E t \in Turns :
        \/ Prompt(t) \/ Exchange(t) \/ AskAlone(t) \/ ReplyAlone(t) \/ Name(t)
        \/ Leave(t) \/ Answer(t) \/ Refuse(t)

Spec == Init /\ [][Next]_<<log, title, prompt, heard, gone>>

=============================================================================
