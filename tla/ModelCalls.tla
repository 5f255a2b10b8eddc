----------------------------- MODULE ModelCalls -----------------------------
(***************************************************************************)
(* Which model a request reaches, and what comes back: the LLM settings     *)
(* (src/core/config.py), the two places that route a provider and a model   *)
(* (LLMSettings.litellm_model and ProviderFactory), the client built for    *)
(* every request, and the endpoints of chat_router.py that store nothing:   *)
(* /complete, /stream and /provider.                                        *)
(*                                                                          *)
(* A process reads its settings once (get_settings is cached) and serves    *)
(* every request from them; the operator edits .env at any time and may     *)
(* restart the process, which cuts the requests it was serving.  Model      *)
(* names, deployments and keys are opaque; a chunk is its place in the      *)
(* provider's stream and whether it has text.                               *)
(***************************************************************************)
EXTENDS Naturals, Sequences

CONSTANTS Reqs,
          Models,       \* values of LLM_DEFAULT_MODEL
          Deployments,  \* values of AZURE_OPENAI_DEPLOYMENT, Empty among them
          Stripped,     \* what str.strip() makes of a deployment
          Empty,        \* the empty string
          Environments, \* bound: the settings .env may hold
          MaxChunks,    \* bound on the chunks of a stream
          Edits,        \* bound on edits of .env
          None

VARIABLES env,       \* .env as the operator has written it
          settings,  \* get_settings().llm in the running process
          edits,
          pc,
          kind,      \* the endpoint
          call,      \* keyword arguments of the request's ChatLiteLLM, or None
          made,      \* history: chunks of the provider, TRUE for one with text
          fate,      \* history: what became of the provider's answer
          sent,      \* SSE events sent to the client
          told       \* the model named in the answer, or None

vars == <<env, settings, edits, pc, kind, call, made, fate, sent, told>>

Providers == {"openai", "anthropic", "gemini", "azure", "ollama"}
Keyed == Providers \ {"ollama"}

\* LLMSettings: the provider, the model, and the keys that are not empty.
LLMSettings == [provider: Providers, model: Models, deployment: Deployments,
                keys: SUBSET Keyed]

\* An SSE event: a chunk of the answer, [DONE], or an error.
Data(place) == [event |-> "data", place |-> place]
Done == [event |-> "[DONE]", place |-> 0]
Error == [event |-> "error", place |-> 0]

Kinds == {"complete", "stream", "provider"}
Ended == {"done", "failed", "left", "lost", "unprocessable"}

ASSUME ModelCallsAssumption ==
    /\ Empty \in Deployments
    /\ Stripped \in [Deployments -> Deployments] /\ Stripped[Empty] = Empty
    /\ Environments \subseteq LLMSettings
    /\ MaxChunks \in Nat /\ Edits \in Nat
    /\ None \notin {"AZURE_OPENAI_ENDPOINT", "OLLAMA_BASE_URL"}

(***************************************************************************)
(* Routing.                                                                 *)
(***************************************************************************)
\* Mutant of LitellmModel: the deployment is used for every provider.
LitellmModelDeployed(s) ==
    [provider |-> s.provider,
     name |-> IF s.deployment # Empty THEN s.deployment ELSE s.model]

\* LLMSettings.litellm_model, which every call uses: "<provider>/<name>", an Azure
\* deployment by its own name, as it is written, when it has one.
LitellmModel(s) ==
    [provider |-> s.provider,
     name |-> IF s.provider = "azure" /\ s.deployment # Empty THEN s.deployment ELSE s.model]

\* ProviderFactory.make_model_string and from_settings, which strip the deployment;
\* no call of the program goes through them.
FactoryModel(s) ==
    LET deployment == Stripped[s.deployment] IN
    [provider |-> s.provider,
     name |-> IF s.provider = "azure" /\ deployment # Empty THEN deployment ELSE s.model]

\* active_api_key
ActiveKey(s) == IF s.provider \in s.keys THEN s.provider ELSE Empty

\* as_litellm_kwargs: None stands for an argument that is left out.
ApiKey(s) ==
    CASE s.provider = "azure"  -> ActiveKey(s)
      [] s.provider = "ollama" -> "ollama"
      [] OTHER -> IF ActiveKey(s) # Empty THEN ActiveKey(s) ELSE None

ApiBase(s) ==
    CASE s.provider = "azure"  -> "AZURE_OPENAI_ENDPOINT"
      [] s.provider = "ollama" -> "OLLAMA_BASE_URL"
      [] OTHER -> None

\* make_chat_litellm; nothing overrides the settings.
ChatLiteLLM(s) == [model |-> LitellmModel(s), api_key |-> ApiKey(s), api_base |-> ApiBase(s)]

\* Mutant of CurrentSettings: the environment is read again for every request.
ReadAgain == env

\* get_settings().llm: the process reads its environment once.
CurrentSettings == settings

\* DefaultLLMClientFactory: every request has a client of its own, made from the
\* settings of the process.
GetLLMClient == ChatLiteLLM(CurrentSettings)

Init ==
    /\ env \in Environments
    /\ settings = env
    /\ edits = 0
    /\ pc = [r \in Reqs |-> "idle"]
    /\ kind = [r \in Reqs |-> "complete"]
    /\ call = [r \in Reqs |-> None]
    /\ made = [r \in Reqs |-> <<>>]
    /\ fate = [r \in Reqs |-> "open"]
    /\ sent = [r \in Reqs |-> <<>>]
    /\ told = [r \in Reqs |-> None]

(***************************************************************************)
(* Requests.                                                                *)
(***************************************************************************)
Goto(r, stage) == pc' = [pc EXCEPT ![r] = stage]

\* get_chat_service, the dependency of an endpoint.
GetChatService(r, endpoint) ==
    /\ pc[r] = "idle"
    /\ kind' = [kind EXCEPT ![r] = endpoint]
    /\ call' = [call EXCEPT ![r] = GetLLMClient]

\* An empty list of messages is 422.
ChatComplete(r) ==
    /\ GetChatService(r, "complete")
    /\ Goto(r, "model") \/ Goto(r, "unprocessable")
    /\ UNCHANGED <<env, settings, edits, made, fate, sent, told>>

ChatStream(r) ==
    /\ GetChatService(r, "stream")
    /\ Goto(r, "model") \/ Goto(r, "unprocessable")
    /\ UNCHANGED <<env, settings, edits, made, fate, sent, told>>

\* The model an answer names is read from the settings when it is there.
ActiveModel == LitellmModel(CurrentSettings)

\* get_provider_info
ProviderInfo(r) ==
    /\ pc[r] = "idle"
    /\ kind' = [kind EXCEPT ![r] = "provider"]
    /\ told' = [told EXCEPT ![r] = ActiveModel]
    /\ Goto(r, "done")
    /\ UNCHANGED <<env, settings, edits, call, made, fate, sent>>

\* ainvoke returns.
ModelAnswers(r) ==
    /\ pc[r] = "model" /\ kind[r] = "complete"
    /\ told' = [told EXCEPT ![r] = ActiveModel]
    /\ fate' = [fate EXCEPT ![r] = "ended"]
    /\ Goto(r, "done")
    /\ UNCHANGED <<env, settings, edits, kind, call, made, sent>>

\* Mutant of Forwarded: astream yields chunks without text too.
ForwardedAll(text, place) == <<Data(place)>>

\* Mutant of Forwarded: places are counted from zero.
ForwardedFromZero(text, place) == IF text THEN <<Data(place - 1)>> ELSE <<>>

\* astream passes on the chunks that have text.
Forwarded(text, place) == IF text THEN <<Data(place)>> ELSE <<>>

Chunk(r) ==
    /\ pc[r] = "model" /\ kind[r] = "stream"
    /\ Len(made[r]) < MaxChunks
    /\ \E text \in BOOLEAN :
        /\ made' = [made EXCEPT ![r] = Append(@, text)]
        /\ sent' = [sent EXCEPT ![r] = @ \o Forwarded(text, Len(made[r]) + 1)]
    /\ UNCHANGED <<env, settings, edits, pc, kind, call, fate, told>>

\* The provider's stream ends: [DONE].
StreamEnds(r) ==
    /\ pc[r] = "model" /\ kind[r] = "stream"
    /\ fate' = [fate EXCEPT ![r] = "ended"]
    /\ sent' = [sent EXCEPT ![r] = Append(@, Done)]
    /\ Goto(r, "done")
    /\ UNCHANGED <<env, settings, edits, kind, call, made, told>>

\* The provider fails: 502, or an error event after the chunks already sent.
ModelFails(r) ==
    /\ pc[r] = "model" /\ kind[r] = "complete"
    /\ fate' = [fate EXCEPT ![r] = "failed"]
    /\ Goto(r, "failed")
    /\ UNCHANGED <<env, settings, edits, kind, call, made, sent, told>>

StreamFails(r) ==
    /\ pc[r] = "model" /\ kind[r] = "stream"
    /\ fate' = [fate EXCEPT ![r] = "failed"]
    /\ sent' = [sent EXCEPT ![r] = Append(@, Error)]
    /\ Goto(r, "done")
    /\ UNCHANGED <<env, settings, edits, kind, call, made, told>>

\* The client closes the stream: the generator is cancelled at its yield.
ClientLeaves(r) ==
    /\ pc[r] = "model" /\ kind[r] = "stream"
    /\ Goto(r, "left")
    /\ UNCHANGED <<env, settings, edits, kind, call, made, fate, sent, told>>

(***************************************************************************)
(* The operator.                                                            *)
(***************************************************************************)
EditEnv ==
    /\ edits < Edits
    /\ env' \in Environments \ {env}
    /\ edits' = edits + 1
    /\ UNCHANGED <<settings, pc, kind, call, made, fate, sent, told>>

\* The process is started anew and reads the environment; what it was serving is
\* cut, and what it had answered belongs to the process before.
Restart ==
    /\ settings' = env
    /\ pc' = [r \in Reqs |-> IF pc[r] = "idle" THEN "idle" ELSE "lost"]
    /\ UNCHANGED <<env, edits, kind, call, made, fate, sent, told>>

Quiescent == (\A r \in Reqs : pc[r] \in Ended) /\ UNCHANGED vars

Next ==
    \/ \E r \in Reqs : \/ ChatComplete(r) \/ ChatStream(r) \/ ProviderInfo(r)
                       \/ ModelAnswers(r) \/ ModelFails(r)
                       \/ Chunk(r) \/ StreamEnds(r) \/ StreamFails(r) \/ ClientLeaves(r)
    \/ EditEnv \/ Restart \/ Quiescent

Spec == Init /\ [][Next]_vars

(***************************************************************************)
(* Properties.                                                              *)
(***************************************************************************)
Events == {Data(place) : place \in 1..MaxChunks} \cup {Done, Error}
ModelNames == [provider: Providers, name: Models \cup Deployments]

\* Every variable has its type.
TypeOK ==
    /\ env \in LLMSettings /\ settings \in LLMSettings
    /\ edits \in 0..Edits
    /\ pc \in [Reqs -> {"idle", "model"} \cup Ended]
    /\ kind \in [Reqs -> Kinds]
    /\ call \in [Reqs -> {None} \cup [model: ModelNames,
                                     api_key: Keyed \cup {"ollama", Empty, None},
                                     api_base: {"AZURE_OPENAI_ENDPOINT", "OLLAMA_BASE_URL", None}]]
    /\ made \in [Reqs -> Seq(BOOLEAN)]
    /\ fate \in [Reqs -> {"open", "ended", "failed"}]
    /\ sent \in [Reqs -> Seq(Events)]
    /\ told \in [Reqs -> {None} \cup ModelNames]
    /\ \A r \in Reqs : pc[r] = "idle" => call[r] = None /\ sent[r] = <<>>

Current(r) == pc[r] \notin {"lost", "idle"}

\* All requests of one process reach one model, the one that answers and
\* /provider name, whatever is written to .env while they wait.
OneModel ==
    \A q, r \in Reqs :
        (Current(q) /\ Current(r) /\ call[q] # None) =>
            /\ call[r] # None => call[r] = call[q]
            /\ told[r] # None => told[r] = call[q].model

\* The settings for which the two routings name one model: an Azure deployment has no
\* blanks around it, or is nothing but the blanks that are the model's name as well.
RoutedAlike(s) ==
    s.provider = "azure" =>
        \/ Stripped[s.deployment] = s.deployment
        \/ Stripped[s.deployment] = Empty /\ s.model = s.deployment

\* A call reaches the model that ProviderFactory names for the same settings if and
\* only if they are RoutedAlike: the factory, which calls itself the single source of
\* truth (llm_factory.py:3), is wrong about an Azure deployment with blanks around it,
\* under which the call goes out as it is written.  The key a call carries is its
\* provider's own, or none; an Azure or Ollama call has the address it needs.
CallsRouted ==
    \A r \in Reqs : (Current(r) /\ call[r] # None) =>
        /\ call[r].model = FactoryModel(settings) <=> RoutedAlike(settings)
        /\ call[r].api_key \in {call[r].model.provider, Empty, None}
        /\ call[r].api_base # None <=> call[r].model.provider \in {"azure", "ollama"}

\* The events a client has, of the chunks a provider made: every chunk with text,
\* in order, then [DONE] or the error when the provider has ended or failed, and
\* nothing after it.
Transcript(events, chunks, end) ==
    LET places == {i \in DOMAIN events : events[i].event = "data"} IN
    /\ {events[i].place : i \in places} = {i \in DOMAIN chunks : chunks[i]}
    /\ \A i, j \in DOMAIN events : i < j =>
          /\ i \in places
          /\ j \in places => events[i].place < events[j].place
    /\ end = "ended"  <=> \E i \in DOMAIN events : events[i] = Done
    /\ end = "failed" <=> \E i \in DOMAIN events : events[i] = Error

\* A client that reads a stream up to [DONE] has every chunk with text, in order,
\* of an answer that is complete; an error comes after what the provider had
\* sent, and neither is followed by anything.
TranscriptSound ==
    \A r \in Reqs : kind[r] = "stream" => Transcript(sent[r], made[r], fate[r])

=============================================================================
