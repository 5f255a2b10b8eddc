-------------------------- MODULE ModelCallsProofs --------------------------
(***************************************************************************)
(* Proof of the properties of ModelCalls for any requests, models,          *)
(* deployments and environments.                                            *)
(***************************************************************************)
EXTENDS ModelCalls, TLAPS

\* A request of the running process was routed by its settings.
Routed(r) ==
    Current(r) =>
        /\ call[r] \in {None, ChatLiteLLM(settings)}
        /\ told[r] \in {None, LitellmModel(settings)}

\* What a request has received is what its provider has made of it.
Received(r) ==
    /\ pc[r] = "idle" => /\ call[r] = None /\ told[r] = None
                         /\ sent[r] = <<>> /\ made[r] = <<>> /\ fate[r] = "open"
    /\ pc[r] = "model" => fate[r] = "open"
    /\ kind[r] = "stream" => Transcript(sent[r], made[r], fate[r])

\* The inductive invariant: OneModel alone does not say that the model of the calls
\* under way is the one the settings name to the next.
IInv == /\ TypeOK
        /\ env \in Environments /\ settings \in Environments
        /\ \A r \in Reqs : Routed(r) /\ Received(r)

(***************************************************************************)
(* Routing.                                                                 *)
(***************************************************************************)
LEMMA ModelNamed ==
  ASSUME NEW s \in LLMSettings
  PROVE  LitellmModel(s) \in ModelNames
  BY DEF LitellmModel, LLMSettings, ModelNames

\* The arguments of ChatLiteLLM are of the types the invariant gives them.
LEMMA CallTyped ==
  ASSUME NEW s \in LLMSettings
  PROVE  ChatLiteLLM(s) \in [model: ModelNames,
                             api_key: Keyed \cup {"ollama", Empty, None},
                             api_base: {"AZURE_OPENAI_ENDPOINT", "OLLAMA_BASE_URL", None}]
  <1>1. ActiveKey(s) \in Keyed \cup {Empty} BY DEF ActiveKey, LLMSettings
  <1>2. ApiKey(s) \in Keyed \cup {"ollama", Empty, None} BY <1>1 DEF ApiKey
  <1>3. ApiBase(s) \in {"AZURE_OPENAI_ENDPOINT", "OLLAMA_BASE_URL", None} BY DEF ApiBase
  <1> QED BY <1>2, <1>3, ModelNamed DEF ChatLiteLLM

\* The two routings name one model exactly for settings that are RoutedAlike; the key
\* is the provider's, the address is there when it is needed.
LEMMA RoutingsCompared ==
  ASSUME NEW s \in Environments
  PROVE  /\ ChatLiteLLM(s).model = FactoryModel(s) <=> RoutedAlike(s)
         /\ ChatLiteLLM(s).api_key \in {ChatLiteLLM(s).model.provider, Empty, None}
         /\ ChatLiteLLM(s).api_base # None
               <=> ChatLiteLLM(s).model.provider \in {"azure", "ollama"}
  <1>1. s \in LLMSettings /\ Stripped[Empty] = Empty
    BY ModelCallsAssumption
  <1>2. LitellmModel(s).provider = s.provider /\ s.provider \in Providers
    BY <1>1 DEF LitellmModel, LLMSettings
  <1>3. LitellmModel(s) = FactoryModel(s) <=> LitellmModel(s).name = FactoryModel(s).name
    BY DEF LitellmModel, FactoryModel
  <1>4. LitellmModel(s).name = FactoryModel(s).name <=> RoutedAlike(s)
    <2>1. CASE s.provider # "azure"
      BY <2>1 DEF LitellmModel, FactoryModel, RoutedAlike
    <2>2. CASE s.provider = "azure" /\ s.deployment = Empty
      BY <1>1, <2>2 DEF LitellmModel, FactoryModel, RoutedAlike
    <2>3. CASE s.provider = "azure" /\ s.deployment # Empty
      <3>1. LitellmModel(s).name = s.deployment BY <2>3 DEF LitellmModel
      <3>2. FactoryModel(s).name
              = IF Stripped[s.deployment] # Empty THEN Stripped[s.deployment] ELSE s.model
        BY <2>3 DEF FactoryModel
      <3> QED BY <2>3, <3>1, <3>2 DEF RoutedAlike
    <2> QED BY <2>1, <2>2, <2>3
  <1>5. ActiveKey(s) \in {s.provider, Empty} BY DEF ActiveKey
  <1>6. ApiKey(s) \in {s.provider, Empty, None} BY <1>2, <1>5 DEF ApiKey, Providers
  <1>7. ApiBase(s) # None <=> s.provider \in {"azure", "ollama"}
    BY <1>2, ModelCallsAssumption DEF ApiBase, Providers
  <1> QED BY <1>2, <1>3, <1>4, <1>6, <1>7 DEF ChatLiteLLM

(***************************************************************************)
(* Streams.                                                                 *)
(***************************************************************************)
LEMMA DataEvent ==
  ASSUME NEW place \in Nat
  PROVE  /\ Data(place).event = "data" /\ Data(place).place = place
         /\ Data(place) # Done /\ Data(place) # Error
  BY DEF Data, Done, Error

\* [DONE] and the error event are neither data nor one another.
LEMMA LastEvents == Done.event # "data" /\ Error.event # "data" /\ Done # Error
  BY DEF Done, Error

\* A stream of which nothing was made or sent is a sound open transcript.
LEMMA EmptyTranscript == Transcript(<<>>, <<>>, "open")
  BY DEF Transcript

\* A chunk is passed on when it has text.
LEMMA ChunkTranscript ==
  ASSUME NEW s \in Seq(Events), NEW m \in Seq(BOOLEAN), NEW text \in BOOLEAN,
         Transcript(s, m, "open")
  PROVE  Transcript(s \o Forwarded(text, Len(m) + 1), Append(m, text), "open")
  <1> DEFINE n == Len(s)
             k == Len(m) + 1
             mm == Append(m, text)
  <1>1. n \in Nat /\ DOMAIN s = 1..n /\ Len(m) \in Nat /\ DOMAIN m = 1..Len(m) OBVIOUS
  <1>2. DOMAIN mm = 1..k /\ mm[k] = text /\ \A i \in 1..Len(m) : mm[i] = m[i] OBVIOUS
  <1>3. \A i \in 1..n : s[i].event = "data"
    <2> SUFFICES ASSUME NEW i \in 1..n, s[i].event # "data" PROVE FALSE OBVIOUS
    <2>1. s[i] \in Events BY <1>1
    <2>2. s[i] = Done \/ s[i] = Error BY <2>1, ModelCallsAssumption DEF Events, Data
    <2> QED BY <1>1, <2>2 DEF Transcript
  <1>4. {s[i].place : i \in 1..n} = {i \in 1..Len(m) : m[i]}
    BY <1>1, <1>3 DEF Transcript
  <1>5. \A i, j \in 1..n : i < j => s[i].place < s[j].place
    BY <1>1, <1>3 DEF Transcript
  <1>6. \A i \in 1..n : s[i].place \in 1..Len(m) BY <1>4
  <1>7. \A i \in 1..n : s[i] # Done /\ s[i] # Error BY <1>3, LastEvents
  <1>8. CASE ~text
    <2>1. s \o Forwarded(text, k) = s BY <1>8 DEF Forwarded
    <2>2. {i \in 1..k : mm[i]} = {i \in 1..Len(m) : m[i]} BY <1>1, <1>2, <1>8
    <2>3. Transcript(s, mm, "open")
      BY <1>1, <1>2, <1>3, <1>4, <1>5, <1>7, <2>2 DEF Transcript
    <2> QED BY <2>1, <2>3
  <1>9. CASE text
    <2> DEFINE ss == s \o <<Data(k)>>
    <2>1. s \o Forwarded(text, k) = ss BY <1>9 DEF Forwarded
    <2>2. /\ DOMAIN ss = 1..(n + 1) /\ ss[n + 1] = Data(k)
          /\ \A i \in 1..n : ss[i] = s[i]
      OBVIOUS
    <2>3. k \in Nat BY <1>1
    <2>4. \A i \in 1..(n + 1) : ss[i].event = "data" /\ ss[i] # Done /\ ss[i] # Error
      BY <1>1, <1>3, <1>7, <2>2, <2>3, DataEvent
    <2>5. ss[n + 1].place = k BY <2>2, <2>3, DataEvent
    <2>6. {ss[i].place : i \in 1..(n + 1)} = {i \in 1..k : mm[i]}
      <3>1. {ss[i].place : i \in 1..(n + 1)} = {s[i].place : i \in 1..n} \cup {k}
        BY <1>1, <2>2, <2>5
      <3>2. {i \in 1..k : mm[i]} = {i \in 1..Len(m) : m[i]} \cup {k}
        BY <1>1, <1>2, <1>9
      <3> QED BY <1>4, <3>1, <3>2
    <2>7. \A i, j \in 1..(n + 1) : i < j => ss[i].place < ss[j].place
      <3> SUFFICES ASSUME NEW i \in 1..(n + 1), NEW j \in 1..(n + 1), i < j
                   PROVE  ss[i].place < ss[j].place
        OBVIOUS
      <3>1. CASE j = n + 1
        <4>1. i \in 1..n BY <1>1, <3>1
        <4>2. ss[i].place \in 1..Len(m) BY <1>6, <2>2, <4>1
        <4> QED BY <1>1, <2>5, <3>1, <4>2
      <3>2. CASE j # n + 1
        <4>1. i \in 1..n /\ j \in 1..n BY <1>1, <3>2
        <4> QED BY <1>5, <2>2, <4>1
      <3> QED BY <3>1, <3>2
    <2>8. {i \in DOMAIN ss : ss[i].event = "data"} = 1..(n + 1) BY <2>2, <2>4
    <2> HIDE DEF ss, mm, n, k
    <2>9. Transcript(ss, mm, "open")
      BY <1>2, <2>2, <2>4, <2>6, <2>7, <2>8 DEF Transcript
    <2> QED BY <2>1, <2>9 DEF ss, mm, k
  <1> QED BY <1>8, <1>9

\* [DONE] or an error is the last event.
LEMMA LastTranscript ==
  ASSUME NEW s \in Seq(Events), NEW m \in Seq(BOOLEAN), Transcript(s, m, "open")
  PROVE  /\ Transcript(Append(s, Done), m, "ended")
         /\ Transcript(Append(s, Error), m, "failed")
  <1> DEFINE n == Len(s)
  <1>1. n \in Nat /\ DOMAIN s = 1..n OBVIOUS
  <1>2. \A i \in 1..n : s[i].event = "data"
    <2> SUFFICES ASSUME NEW i \in 1..n, s[i].event # "data" PROVE FALSE OBVIOUS
    <2>1. s[i] \in Events BY <1>1
    <2>2. s[i] = Done \/ s[i] = Error BY <2>1, ModelCallsAssumption DEF Events, Data
    <2> QED BY <1>1, <2>2 DEF Transcript
  <1>3. ASSUME NEW last \in {Done, Error}
        PROVE  /\ {Append(s, last)[i].place :
                      i \in {j \in DOMAIN Append(s, last) : Append(s, last)[j].event = "data"}}
                     = {i \in DOMAIN m : m[i]}
               /\ \A i, j \in DOMAIN Append(s, last) : i < j =>
                     /\ i \in {h \in DOMAIN Append(s, last) : Append(s, last)[h].event = "data"}
                     /\ j \in {h \in DOMAIN Append(s, last) : Append(s, last)[h].event = "data"}
                           => Append(s, last)[i].place < Append(s, last)[j].place
               /\ \A x \in {Done, Error} :
                     x = last <=> \E i \in DOMAIN Append(s, last) : Append(s, last)[i] = x
    <2> DEFINE ss == Append(s, last)
    <2>1. /\ DOMAIN ss = 1..(n + 1) /\ ss[n + 1] = last
          /\ \A i \in 1..n : ss[i] = s[i]
      OBVIOUS
    <2>2. ss[n + 1].event # "data" BY <2>1, LastEvents
    <2>3. {j \in DOMAIN ss : ss[j].event = "data"} = 1..n BY <1>1, <1>2, <2>1, <2>2
    <2>4. {s[i].place : i \in 1..n} = {i \in DOMAIN m : m[i]} BY <1>1, <1>2 DEF Transcript
    <2>5. \A i, j \in 1..n : i < j => s[i].place < s[j].place
      BY <1>1, <1>2 DEF Transcript
    <2>6. \A i \in 1..n : ss[i] # Done /\ ss[i] # Error BY <1>2, <2>1, LastEvents
    <2> HIDE DEF ss, n
    <2>7. {ss[i].place : i \in 1..n} = {i \in DOMAIN m : m[i]} BY <2>1, <2>4
    <2>8. \A i, j \in DOMAIN ss : i < j => i \in 1..n /\ (j \in 1..n => ss[i].place < ss[j].place)
      BY <1>1, <2>1, <2>5
    <2>9. \A x \in {Done, Error} : x = last <=> \E i \in DOMAIN ss : ss[i] = x
      BY <1>1, <2>1, <2>6
    <2> QED BY <2>3, <2>7, <2>8, <2>9 DEF ss
  <1>4. Transcript(Append(s, Done), m, "ended") BY <1>3, LastEvents DEF Transcript
  <1>5. Transcript(Append(s, Error), m, "failed") BY <1>3, LastEvents DEF Transcript
  <1> QED BY <1>4, <1>5

(***************************************************************************)
(* The invariant.                                                           *)
(***************************************************************************)
LEMMA InitInv == Init => IInv
  <1> SUFFICES ASSUME Init PROVE IInv OBVIOUS
  <1>1. env \in LLMSettings BY ModelCallsAssumption DEF Init
  <1>2. TypeOK
    BY <1>1, ModelCallsAssumption DEF Init, TypeOK, Kinds, Ended
  <1>3. ASSUME NEW r \in Reqs PROVE Routed(r) /\ Received(r)
    BY EmptyTranscript DEF Init, Routed, Received, Current
  <1> QED BY <1>2, <1>3 DEF Init, IInv

\* A step of request r in a process that keeps its settings.
LEMMA OthersKeep ==
  ASSUME IInv, TypeOK', NEW r \in Reqs,
         UNCHANGED <<env, settings>>,
         \A q \in Reqs \ {r} : /\ pc'[q] = pc[q] /\ kind'[q] = kind[q] /\ call'[q] = call[q]
                               /\ made'[q] = made[q] /\ fate'[q] = fate[q]
                               /\ sent'[q] = sent[q] /\ told'[q] = told[q],
         Routed(r)', Received(r)'
  PROVE  IInv'
  <1>1. ASSUME NEW q \in Reqs \ {r} PROVE Routed(q)' /\ Received(q)'
    <2>1. Routed(q) /\ Received(q) BY DEF IInv
    <2>2. Routed(q)'
      BY <2>1 DEF Routed, Current, ChatLiteLLM, LitellmModel, ApiKey, ActiveKey, ApiBase
    <2>3. Received(q)' BY <2>1 DEF Received, Transcript
    <2> QED BY <2>2, <2>3
  <1> QED BY <1>1 DEF IInv

\* GetChatService of either endpoint, and what follows it.
LEMMA StartInv ==
  ASSUME IInv, NEW r \in Reqs, NEW endpoint \in {"complete", "stream"},
         GetChatService(r, endpoint), NEW stage \in {"model", "unprocessable"}, Goto(r, stage),
         UNCHANGED <<env, settings, edits, made, fate, sent, told>>
  PROVE  IInv'
  <1>1. TypeOK /\ Routed(r) /\ Received(r) /\ settings \in LLMSettings
    BY DEF IInv, TypeOK
  <1>2. /\ pc[r] = "idle" /\ kind' = [kind EXCEPT ![r] = endpoint]
        /\ call' = [call EXCEPT ![r] = ChatLiteLLM(settings)]
        /\ pc' = [pc EXCEPT ![r] = stage]
    BY DEF GetChatService, GetLLMClient, CurrentSettings, Goto
  <1>3. /\ pc'[r] = stage /\ call'[r] = ChatLiteLLM(settings)
        /\ \A q \in Reqs \ {r} : pc'[q] = pc[q] /\ kind'[q] = kind[q] /\ call'[q] = call[q]
    BY <1>1, <1>2 DEF TypeOK
  <1>4. TypeOK'
    <2>1. call' \in [Reqs -> {None} \cup [model: ModelNames,
                                     api_key: Keyed \cup {"ollama", Empty, None},
                                     api_base: {"AZURE_OPENAI_ENDPOINT", "OLLAMA_BASE_URL", None}]]
      BY <1>1, <1>2, CallTyped DEF TypeOK
    <2>2. pc' \in [Reqs -> {"idle", "model"} \cup Ended] BY <1>1, <1>2 DEF TypeOK, Ended
    <2>3. kind' \in [Reqs -> Kinds] BY <1>1, <1>2 DEF TypeOK, Kinds
    <2>4. \A q \in Reqs : pc'[q] = "idle" => call'[q] = None /\ sent'[q] = <<>>
      BY <1>1, <1>3 DEF TypeOK
    <2> QED BY <1>1, <2>1, <2>2, <2>3, <2>4 DEF TypeOK
  <1>5. Routed(r)'
    <2>1. told'[r] = None BY <1>1, <1>2 DEF Received
    <2>2. ChatLiteLLM(settings') = ChatLiteLLM(settings) OBVIOUS
    <2> QED BY <1>3, <2>1, <2>2 DEF Routed
  <1>6. Received(r)'
    <2>1. sent'[r] = <<>> /\ made'[r] = <<>> /\ fate'[r] = "open" BY <1>1, <1>2 DEF Received
    <2> QED BY <1>3, <2>1, EmptyTranscript DEF Received
  <1> QED BY <1>3, <1>4, <1>5, <1>6, OthersKeep

\* /provider answers from the cached settings, which are those of the process.
LEMMA ProviderInfoInv ==
  ASSUME IInv, NEW r \in Reqs, ProviderInfo(r)
  PROVE  IInv'
  <1>1. TypeOK /\ Routed(r) /\ Received(r) /\ settings \in LLMSettings
    BY DEF IInv, TypeOK
  <1>2. /\ pc[r] = "idle" /\ kind' = [kind EXCEPT ![r] = "provider"]
        /\ told' = [told EXCEPT ![r] = LitellmModel(settings)]
        /\ pc' = [pc EXCEPT ![r] = "done"]
        /\ UNCHANGED <<env, settings, edits, call, made, fate, sent>>
    BY DEF ProviderInfo, ActiveModel, CurrentSettings, Goto
  <1>3. /\ pc'[r] = "done" /\ told'[r] = LitellmModel(settings) /\ kind'[r] = "provider"
        /\ \A q \in Reqs \ {r} : pc'[q] = pc[q] /\ kind'[q] = kind[q] /\ told'[q] = told[q]
    BY <1>1, <1>2 DEF TypeOK
  <1>4. TypeOK'
    <2>1. told' \in [Reqs -> {None} \cup ModelNames] BY <1>1, <1>2, ModelNamed DEF TypeOK
    <2>2. pc' \in [Reqs -> {"idle", "model"} \cup Ended] BY <1>1, <1>2 DEF TypeOK, Ended
    <2>3. kind' \in [Reqs -> Kinds] BY <1>1, <1>2 DEF TypeOK, Kinds
    <2>4. \A q \in Reqs : pc'[q] = "idle" => call'[q] = None /\ sent'[q] = <<>>
      BY <1>1, <1>2, <1>3 DEF TypeOK
    <2> QED BY <1>1, <1>2, <2>1, <2>2, <2>3, <2>4 DEF TypeOK
  <1>5. Routed(r)'
    <2>1. call'[r] = None BY <1>1, <1>2 DEF Received
    <2>2. LitellmModel(settings') = LitellmModel(settings) BY <1>2
    <2> QED BY <1>3, <2>1, <2>2 DEF Routed
  <1>6. Received(r)' BY <1>3 DEF Received
  <1> QED BY <1>2, <1>3, <1>4, <1>5, <1>6, OthersKeep

\* The call of a request that is not streamed ends.
LEMMA CompleteInv ==
  ASSUME IInv, NEW r \in Reqs, ModelAnswers(r) \/ ModelFails(r)
  PROVE  IInv'
  <1>1. TypeOK /\ Routed(r) /\ Received(r) /\ settings \in LLMSettings
    BY DEF IInv, TypeOK
  <1>2. /\ pc[r] = "model" /\ kind[r] = "complete"
        /\ told' = [told EXCEPT ![r] = LitellmModel(settings)] \/ told' = told
        /\ \E end \in {"ended", "failed"} : fate' = [fate EXCEPT ![r] = end]
        /\ \E stage \in {"done", "failed"} : pc' = [pc EXCEPT ![r] = stage]
        /\ UNCHANGED <<env, settings, edits, kind, call, made, sent>>
    BY DEF ModelAnswers, ModelFails, ActiveModel, CurrentSettings, Goto
  <1>3. /\ pc'[r] \in {"done", "failed"} /\ told'[r] \in {told[r], LitellmModel(settings)}
        /\ \A q \in Reqs \ {r} : pc'[q] = pc[q] /\ told'[q] = told[q] /\ fate'[q] = fate[q]
    BY <1>1, <1>2 DEF TypeOK
  <1>4. TypeOK'
    <2>1. told' \in [Reqs -> {None} \cup ModelNames] BY <1>1, <1>2, ModelNamed DEF TypeOK
    <2>2. pc' \in [Reqs -> {"idle", "model"} \cup Ended] BY <1>1, <1>2 DEF TypeOK, Ended
    <2>3. fate' \in [Reqs -> {"open", "ended", "failed"}] BY <1>1, <1>2 DEF TypeOK
    <2>4. \A q \in Reqs : pc'[q] = "idle" => call'[q] = None /\ sent'[q] = <<>>
      BY <1>1, <1>2, <1>3 DEF TypeOK
    <2> QED BY <1>1, <1>2, <2>1, <2>2, <2>3, <2>4 DEF TypeOK
  <1>5. Routed(r)'
    <2>1. Current(r) BY <1>2 DEF Current
    <2>2. LitellmModel(settings') = LitellmModel(settings)
          /\ ChatLiteLLM(settings') = ChatLiteLLM(settings)
      BY <1>2
    <2> QED BY <1>1, <1>2, <1>3, <2>1, <2>2 DEF Routed
  <1>6. Received(r)' BY <1>2, <1>3 DEF Received
  <1> QED BY <1>2, <1>3, <1>4, <1>5, <1>6, OthersKeep

\* A stream goes on or ends.
LEMMA StreamInv ==
  ASSUME IInv, NEW r \in Reqs, pc[r] = "model", kind[r] = "stream",
         UNCHANGED <<env, settings, edits, kind, call, told>>,
         NEW stage \in {"model", "done", "left"}, pc' = [pc EXCEPT ![r] = stage],
         NEW chunks \in Seq(BOOLEAN), made' = [made EXCEPT ![r] = chunks],
         NEW events \in Seq(Events), sent' = [sent EXCEPT ![r] = events],
         NEW end \in {"open", "ended", "failed"}, fate' = [fate EXCEPT ![r] = end],
         stage = "model" => end = "open",
         Transcript(events, chunks, end)
  PROVE  IInv'
  <1>1. TypeOK /\ Routed(r) /\ Received(r) BY DEF IInv
  <1>2. /\ pc'[r] = stage /\ made'[r] = chunks /\ sent'[r] = events /\ fate'[r] = end
        /\ \A q \in Reqs \ {r} : /\ pc'[q] = pc[q] /\ made'[q] = made[q]
                                 /\ sent'[q] = sent[q] /\ fate'[q] = fate[q]
    BY <1>1 DEF TypeOK
  <1>3. TypeOK'
    <2>1. pc' \in [Reqs -> {"idle", "model"} \cup Ended] BY <1>1 DEF TypeOK, Ended
    <2>2. made' \in [Reqs -> Seq(BOOLEAN)] BY <1>1 DEF TypeOK
    <2>3. sent' \in [Reqs -> Seq(Events)] BY <1>1 DEF TypeOK
    <2>4. fate' \in [Reqs -> {"open", "ended", "failed"}] BY <1>1 DEF TypeOK
    <2>5. \A q \in Reqs : pc'[q] = "idle" => call'[q] = None /\ sent'[q] = <<>>
      BY <1>1, <1>2 DEF TypeOK
    <2> QED BY <1>1, <2>1, <2>2, <2>3, <2>4, <2>5 DEF TypeOK
  <1>4. Routed(r)'
    <2>1. Current(r) BY DEF Current
    <2>2. LitellmModel(settings') = LitellmModel(settings)
          /\ ChatLiteLLM(settings') = ChatLiteLLM(settings)
      OBVIOUS
    <2> QED BY <1>1, <2>1, <2>2 DEF Routed
  <1>5. Received(r)' BY <1>2 DEF Received
  <1> QED BY <1>2, <1>3, <1>4, <1>5, OthersKeep

\* What StreamInv takes of a stream that is open.
LEMMA OpenStream ==
  ASSUME IInv, NEW r \in Reqs, pc[r] = "model", kind[r] = "stream"
  PROVE  /\ made[r] \in Seq(BOOLEAN) /\ sent[r] \in Seq(Events) /\ fate[r] = "open"
         /\ Transcript(sent[r], made[r], "open")
         /\ pc = [pc EXCEPT ![r] = "model"] /\ fate = [fate EXCEPT ![r] = "open"]
         /\ made = [made EXCEPT ![r] = made[r]] /\ sent = [sent EXCEPT ![r] = sent[r]]
  <1>1. TypeOK /\ Received(r) BY DEF IInv
  <1>2. fate[r] = "open" /\ Transcript(sent[r], made[r], "open") BY <1>1 DEF Received
  <1> QED BY <1>1, <1>2 DEF TypeOK

\* A chunk of the model extends the transcript by what the loop forwards of it.
LEMMA ChunkInv ==
  ASSUME IInv, NEW r \in Reqs, Chunk(r)
  PROVE  IInv'
  <1>1. pc[r] = "model" /\ kind[r] = "stream" /\ Len(made[r]) < MaxChunks
        /\ UNCHANGED <<env, settings, edits, pc, kind, call, fate, told>>
    BY DEF Chunk
  <1> DEFINE place == Len(made[r]) + 1
  <1>2. PICK text \in BOOLEAN :
          /\ made' = [made EXCEPT ![r] = Append(@, text)]
          /\ sent' = [sent EXCEPT ![r] = @ \o Forwarded(text, place)]
    BY DEF Chunk
  <1>3. /\ made[r] \in Seq(BOOLEAN) /\ sent[r] \in Seq(Events)
        /\ Transcript(sent[r], made[r], "open")
        /\ pc' = [pc EXCEPT ![r] = "model"] /\ fate' = [fate EXCEPT ![r] = "open"]
    BY <1>1, OpenStream
  <1>4. made \in [Reqs -> Seq(BOOLEAN)] /\ sent \in [Reqs -> Seq(Events)]
    BY DEF IInv, TypeOK
  <1>5. made' = [made EXCEPT ![r] = Append(made[r], text)] /\ Append(made[r], text) \in Seq(BOOLEAN)
    BY <1>2, <1>3, <1>4
  <1>6. place \in 1..MaxChunks BY <1>1, <1>3, ModelCallsAssumption
  <1>7. Forwarded(text, place) \in Seq(Events)
    <2>1. Data(place) \in Events BY <1>6 DEF Events
    <2>2. <<Data(place)>> \in Seq(Events) /\ << >> \in Seq(Events) BY <2>1
    <2> QED BY <2>2 DEF Forwarded
  <1>8. /\ sent' = [sent EXCEPT ![r] = sent[r] \o Forwarded(text, place)]
        /\ sent[r] \o Forwarded(text, place) \in Seq(Events)
    BY <1>2, <1>3, <1>4, <1>7
  <1>9. Transcript(sent[r] \o Forwarded(text, place), Append(made[r], text), "open")
    BY <1>3, ChunkTranscript
  <1> HIDE DEF place
  <1> QED BY <1>1, <1>3, <1>5, <1>8, <1>9, StreamInv

\* The end of the stream, or its failure, adds the last event and nothing else.
LEMMA StreamEndsInv ==
  ASSUME IInv, NEW r \in Reqs, StreamEnds(r) \/ StreamFails(r)
  PROVE  IInv'
  <1>1. /\ pc[r] = "model" /\ kind[r] = "stream"
        /\ UNCHANGED <<env, settings, edits, kind, call, made, told>>
        /\ pc' = [pc EXCEPT ![r] = "done"]
    BY DEF StreamEnds, StreamFails, Goto
  <1>2. /\ made[r] \in Seq(BOOLEAN) /\ sent[r] \in Seq(Events)
        /\ Transcript(sent[r], made[r], "open")
        /\ made' = [made EXCEPT ![r] = made[r]]
    BY <1>1, OpenStream
  <1>3. sent \in [Reqs -> Seq(Events)] BY DEF IInv, TypeOK
  <1>4. Append(sent[r], Done) \in Seq(Events) /\ Append(sent[r], Error) \in Seq(Events)
    BY <1>2 DEF Events
  <1>5. /\ Transcript(Append(sent[r], Done), made[r], "ended")
        /\ Transcript(Append(sent[r], Error), made[r], "failed")
    BY <1>2, LastTranscript
  <1>6. CASE StreamEnds(r)
    <2>1. fate' = [fate EXCEPT ![r] = "ended"] /\ sent' = [sent EXCEPT ![r] = Append(sent[r], Done)]
      BY <1>3, <1>6 DEF StreamEnds
    <2> QED BY <1>1, <1>2, <1>4, <1>5, <2>1, StreamInv
  <1>7. CASE StreamFails(r)
    <2>1. fate' = [fate EXCEPT ![r] = "failed"] /\ sent' = [sent EXCEPT ![r] = Append(sent[r], Error)]
      BY <1>3, <1>7 DEF StreamFails
    <2> QED BY <1>1, <1>2, <1>4, <1>5, <2>1, StreamInv
  <1> QED BY <1>6, <1>7

\* A client that leaves finds an open transcript.
LEMMA ClientLeavesInv ==
  ASSUME IInv, NEW r \in Reqs, ClientLeaves(r)
  PROVE  IInv'
  <1>1. /\ pc[r] = "model" /\ kind[r] = "stream"
        /\ UNCHANGED <<env, settings, edits, kind, call, made, fate, sent, told>>
        /\ pc' = [pc EXCEPT ![r] = "left"]
    BY DEF ClientLeaves, Goto
  <1>2. /\ made[r] \in Seq(BOOLEAN) /\ sent[r] \in Seq(Events)
        /\ Transcript(sent[r], made[r], "open")
        /\ made' = [made EXCEPT ![r] = made[r]] /\ sent' = [sent EXCEPT ![r] = sent[r]]
        /\ fate' = [fate EXCEPT ![r] = "open"]
    BY <1>1, OpenStream
  <1> QED BY <1>1, <1>2, StreamInv

\* The operator edits .env: nothing in the process changes.
LEMMA EditEnvInv ==
  ASSUME IInv, EditEnv
  PROVE  IInv'
  <1>1. /\ env' \in Environments /\ edits' = edits + 1 /\ edits < Edits
        /\ UNCHANGED <<settings, pc, kind, call, made, fate, sent, told>>
    BY DEF EditEnv
  <1>2. TypeOK' BY <1>1, ModelCallsAssumption DEF IInv, TypeOK
  <1>3. ASSUME NEW r \in Reqs PROVE Routed(r)' /\ Received(r)'
    <2>1. Routed(r) /\ Received(r) BY DEF IInv
    <2>2. LitellmModel(settings') = LitellmModel(settings)
          /\ ChatLiteLLM(settings') = ChatLiteLLM(settings)
      BY <1>1
    <2>3. Routed(r)' BY <1>1, <2>1, <2>2 DEF Routed, Current
    <2>4. Received(r)' BY <1>1, <2>1 DEF Received, Transcript
    <2> QED BY <2>3, <2>4
  <1> QED BY <1>1, <1>2, <1>3 DEF IInv

\* A new process has new settings, and no request of the old one.
LEMMA RestartInv ==
  ASSUME IInv, Restart
  PROVE  IInv'
  <1>1. /\ settings' = env
        /\ pc' = [r \in Reqs |-> IF pc[r] = "idle" THEN "idle" ELSE "lost"]
        /\ UNCHANGED <<env, edits, kind, call, made, fate, sent, told>>
    BY DEF Restart
  <1>2. TypeOK /\ env \in Environments BY DEF IInv
  <1>3. TypeOK' BY <1>1, <1>2 DEF TypeOK, Ended
  <1>4. ASSUME NEW r \in Reqs PROVE Routed(r)' /\ Received(r)'
    <2>1. Received(r) BY DEF IInv
    <2>2. pc'[r] \in {"idle", "lost"} /\ (pc'[r] = "idle" => pc[r] = "idle") BY <1>1
    <2>3. Routed(r)' BY <2>2 DEF Routed, Current
    <2>4. Received(r)' BY <1>1, <2>1, <2>2 DEF Received, Transcript
    <2> QED BY <2>3, <2>4
  <1> QED BY <1>1, <1>2, <1>3, <1>4 DEF IInv

\* Every step keeps the invariant: one lemma per action.
LEMMA NextInv == IInv /\ [Next]_vars => IInv'
  <1> SUFFICES ASSUME IInv, [Next]_vars PROVE IInv' OBVIOUS
  <1>1. ASSUME UNCHANGED vars PROVE IInv'
    <2>1. TypeOK' BY <1>1 DEF IInv, TypeOK, vars
    <2>2. LitellmModel(settings') = LitellmModel(settings)
          /\ ChatLiteLLM(settings') = ChatLiteLLM(settings)
      BY <1>1 DEF vars
    <2>3. ASSUME NEW r \in Reqs PROVE Routed(r)' /\ Received(r)'
      <3>1. Routed(r) /\ Received(r) BY DEF IInv
      <3>2. Routed(r)' BY <1>1, <2>2, <3>1 DEF Routed, Current, vars
      <3>3. Received(r)' BY <1>1, <3>1 DEF Received, Transcript, vars
      <3> QED BY <3>2, <3>3
    <2> QED BY <1>1, <2>1, <2>3 DEF IInv, vars
  <1>2. CASE Quiescent BY <1>1, <1>2 DEF Quiescent
  <1>3. ASSUME NEW r \in Reqs, ChatComplete(r) PROVE IInv'
    BY <1>3, StartInv DEF ChatComplete
  <1>4. ASSUME NEW r \in Reqs, ChatStream(r) PROVE IInv'
    BY <1>4, StartInv DEF ChatStream
  <1>5. ASSUME NEW r \in Reqs, ProviderInfo(r) PROVE IInv' BY <1>5, ProviderInfoInv
  <1>6. ASSUME NEW r \in Reqs, ModelAnswers(r) \/ ModelFails(r) PROVE IInv'
    BY <1>6, CompleteInv
  <1>7. ASSUME NEW r \in Reqs, Chunk(r) PROVE IInv' BY <1>7, ChunkInv
  <1>8. ASSUME NEW r \in Reqs, StreamEnds(r) \/ StreamFails(r) PROVE IInv'
    BY <1>8, StreamEndsInv
  <1>9. ASSUME NEW r \in Reqs, ClientLeaves(r) PROVE IInv' BY <1>9, ClientLeavesInv
  <1>10. CASE EditEnv BY <1>10, EditEnvInv
  <1>11. CASE Restart BY <1>11, RestartInv
  <1> QED BY <1>1, <1>2, <1>3, <1>4, <1>5, <1>6, <1>7, <1>8, <1>9, <1>10, <1>11 DEF Next

\* The inductive invariant of the calls.
THEOREM Invariant == Spec => []IInv
  BY InitInv, NextInv, PTL DEF Spec

\* Every variable keeps its type.
THEOREM TypeCorrect == Spec => []TypeOK
  <1>1. IInv => TypeOK BY DEF IInv
  <1> QED BY <1>1, Invariant, PTL

\* Every request of a process reaches one model, the one its answers name, whatever
\* is written to .env.
THEOREM OneModelPerProcess == Spec => []OneModel
  <1>1. IInv => OneModel
    <2> SUFFICES ASSUME IInv, NEW q \in Reqs, NEW r \in Reqs,
                        Current(q), Current(r), call[q] # None
                 PROVE  /\ call[r] # None => call[r] = call[q]
                        /\ told[r] # None => told[r] = call[q].model
      BY DEF OneModel
    <2>1. Routed(q) /\ Routed(r) BY DEF IInv
    <2>2. call[q] = ChatLiteLLM(settings) BY <2>1 DEF Routed
    <2>3. call[q].model = LitellmModel(settings) BY <2>2 DEF ChatLiteLLM
    <2> QED BY <2>1, <2>2, <2>3 DEF Routed
  <1> QED BY <1>1, Invariant, PTL

\* A call reaches the model the factory names for its settings exactly when they have
\* no blanks around an Azure deployment; it has its provider's key and address.
THEOREM CallsAreRouted == Spec => []CallsRouted
  <1>1. IInv => CallsRouted
    <2> SUFFICES ASSUME IInv, NEW r \in Reqs, Current(r), call[r] # None
                 PROVE  /\ call[r].model = FactoryModel(settings) <=> RoutedAlike(settings)
                        /\ call[r].api_key \in {call[r].model.provider, Empty, None}
                        /\ call[r].api_base # None
                               <=> call[r].model.provider \in {"azure", "ollama"}
      BY DEF CallsRouted
    <2>1. call[r] = ChatLiteLLM(settings) /\ settings \in Environments
      BY DEF IInv, Routed
    <2> QED BY <2>1, RoutingsCompared
  <1> QED BY <1>1, Invariant, PTL

\* A stream is the chunks with text, in order, and then how the provider ended.
THEOREM TranscriptsSound == Spec => []TranscriptSound
  <1>1. IInv => TranscriptSound BY DEF IInv, Received, TranscriptSound
  <1> QED BY <1>1, Invariant, PTL

=============================================================================
