--------------------------- MODULE EventBusProofs ---------------------------
(***************************************************************************)
(* Proof that the bus dispatches completely: TypeOK and DispatchComplete    *)
(* hold of EventBus for any types, handlers, lists and events.              *)
(***************************************************************************)
EXTENDS EventBus, TLAPS

Dispatching == {"gather", "cancelling"}

\* The list a publish holds has only grown since it was read.
Grown(e) ==
    /\ held[e] \in Lists
    /\ Len(run[e]) <= Len(list[held[e]])
    /\ \A i \in 1..Len(run[e]) : list[held[e]][i] = run[e][i]

Quiet(e) == \A x \in log : x[1] # e

\* What is known of a publish at each of its steps.
Stage(e) ==
    /\ pc[e] = "idle" => run[e] = <<>> /\ Quiet(e)
    /\ pc[e] \in Dispatching => Grown(e) /\ Quiet(e)
    /\ pc[e] = "gather" => \A i \in 1..Len(run[e]) : result[e][i] # "cancelled"

\* The errors of a publish that has ended, as they should have been logged.
Complete(e) ==
    pc[e] \in {"returned", "raised"} =>
        /\ \A i \in 1..Len(run[e]) : result[e][i] \in {"ok", "error"}
        /\ {x \in log : x[1] = e} =
              {<<e, i, run[e][i]>> : i \in {j \in 1..Len(run[e]) : result[e][j] = "error"}}

\* The inductive invariant: DispatchComplete alone does not say that the list a
\* publish pairs its results with still begins with the handlers it started.
IInv == TypeOK /\ \A e \in Events : Stage(e) /\ Complete(e)

\* What TypeOK says of the coroutines of a publication and of their outcomes: one each.
LEMMA Domains ==
  ASSUME TypeOK, NEW e \in Events
  PROVE  /\ run[e] \in Seq(Handlers) /\ DOMAIN run[e] = 1..Len(run[e])
         /\ result[e] \in Seq(Results) /\ DOMAIN result[e] = 1..Len(run[e])
         /\ Len(run[e]) \in Nat /\ Len(result[e]) = Len(run[e])
  BY DEF TypeOK

\* Before the first publication there is nothing to account for.
LEMMA InitInv == Init => IInv
  <1> SUFFICES ASSUME Init PROVE IInv OBVIOUS
  <1>1. TypeOK BY EventBusAssumption DEF Init, TypeOK, Results, Ended
  <1>2. ASSUME NEW e \in Events PROVE Stage(e) /\ Complete(e)
    BY DEF Init, Stage, Complete, Quiet, Grown, Dispatching
  <1> QED BY <1>1, <1>2 DEF IInv

\* A step that leaves the publications alone and lets lists only grow.
LEMMA ListsGrow ==
  ASSUME IInv, TypeOK',
         UNCHANGED <<pc, held, run, result, log>>,
         \A l \in Lists : /\ Len(list[l]) <= Len(list'[l])
                          /\ \A i \in 1..Len(list[l]) : list'[l][i] = list[l][i]
  PROVE  IInv'
  <1>1. ASSUME NEW e \in Events PROVE Stage(e)'
    <2>1. Stage(e) BY DEF IInv
    <2>2. ASSUME Grown(e) PROVE Grown(e)'
      <3>1. Len(run[e]) \in Nat /\ Len(list[held[e]]) \in Nat /\ Len(list'[held[e]]) \in Nat
        BY <2>2, Domains DEF IInv, TypeOK, Grown
      <3> QED BY <2>2, <3>1 DEF Grown
    <2> QED BY <2>1, <2>2 DEF Stage, Quiet
  <1>2. ASSUME NEW e \in Events PROVE Complete(e)'
    BY DEF IInv, Complete
  <1> QED BY <1>1, <1>2 DEF IInv

\* subscribe only appends to a list: publications that hold it keep what they run.
LEMMA SubscribeInv ==
  ASSUME IInv, NEW t \in Types, NEW h \in Handlers, Subscribe(t, h)
  PROVE  IInv'
  <1>1. PICK l \in Lists :
          /\ \/ handlers[t] = l /\ UNCHANGED handlers
             \/ handlers' = [handlers EXCEPT ![t] = l]
          /\ list' = [list EXCEPT ![l] = Append(@, h)]
    BY DEF Subscribe
  <1>2. list \in [Lists -> Seq(Handlers)] BY DEF IInv, TypeOK
  <1>3. UNCHANGED <<pc, held, run, result, log>> BY DEF Subscribe
  <1>4. list' \in [Lists -> Seq(Handlers)] BY <1>1, <1>2
  <1>5. TypeOK'
    BY <1>1, <1>3, <1>4 DEF IInv, TypeOK
  <1>6. ASSUME NEW k \in Lists
        PROVE  /\ Len(list[k]) <= Len(list'[k])
               /\ \A i \in 1..Len(list[k]) : list'[k][i] = list[k][i]
    <2>1. list[k] \in Seq(Handlers) BY <1>2
    <2>2. list'[k] = list[k] \/ list'[k] = Append(list[k], h) BY <1>1, <1>2
    <2> QED BY <2>1, <2>2
  <1> QED BY <1>3, <1>5, <1>6, ListsGrow

\* clear forgets the lists; publications keep the objects they hold.
LEMMA ClearInv ==
  ASSUME IInv, Clear
  PROVE  IInv'
  <1>1. TypeOK' BY DEF IInv, TypeOK, Clear
  <1>2. list' = list /\ list \in [Lists -> Seq(Handlers)] BY DEF IInv, TypeOK, Clear
  <1>3. \A l \in Lists : Len(list[l]) <= Len(list'[l]) BY <1>2
  <1> QED BY <1>1, <1>2, <1>3, ListsGrow DEF Clear

\* A step of the publication of e: the others keep their stage.
LEMMA OthersKeep ==
  ASSUME IInv, TypeOK', NEW e \in Events,
         list' = list,
         \A f \in Events \ {e} : /\ pc'[f] = pc[f] /\ held'[f] = held[f]
                                 /\ run'[f] = run[f] /\ result'[f] = result[f],
         \A x : x[1] # e => (x \in log' <=> x \in log),
         Stage(e)', Complete(e)'
  PROVE  IInv'
  <1>1. ASSUME NEW f \in Events \ {e} PROVE Stage(f)' /\ Complete(f)'
    <2>1. Stage(f) /\ Complete(f) BY DEF IInv
    <2>2. Quiet(f) => Quiet(f)' BY DEF Quiet
    <2>3. Grown(f) => Grown(f)' BY DEF Grown
    <2>4. Stage(f)' BY <2>1, <2>2, <2>3 DEF Stage
    <2>5. {x \in log' : x[1] = f} = {x \in log : x[1] = f} OBVIOUS
    <2>6. Complete(f)' BY <2>1, <2>5 DEF Complete
    <2> QED BY <2>4, <2>6
  <1> QED BY <1>1 DEF IInv

\* A publication without handlers is complete as soon as it is made.
LEMMA PublishNobodyInv ==
  ASSUME IInv, NEW e \in Events, NEW t \in Types, PublishNobody(e, t)
  PROVE  IInv'
  <1>1. TypeOK /\ Stage(e) BY DEF IInv
  <1>2. pc[e] = "idle" /\ pc' = [pc EXCEPT ![e] = "returned"] BY DEF PublishNobody
  <1>3. UNCHANGED <<handlers, list, held, run, result, log>> BY DEF PublishNobody
  <1>4. TypeOK' BY <1>1, <1>2, <1>3 DEF TypeOK, Ended
  <1>5. pc'[e] = "returned" BY <1>1, <1>2 DEF TypeOK
  <1>6. run[e] = <<>> /\ Quiet(e) BY <1>1, <1>2 DEF Stage
  <1>7. Stage(e)' BY <1>5 DEF Stage, Dispatching
  <1>8. Complete(e)'
    <2>1. Len(run'[e]) = 0 BY <1>3, <1>6
    <2>2. {x \in log' : x[1] = e} = {} BY <1>3, <1>6 DEF Quiet
    <2> QED BY <2>1, <2>2 DEF Complete
  <1>9. \A f \in Events \ {e} : pc'[f] = pc[f] BY <1>1, <1>2 DEF TypeOK
  <1> QED BY <1>3, <1>4, <1>7, <1>8, <1>9, OthersKeep

\* publish starts a coroutine for each handler of the list it keeps.
LEMMA PublishInv ==
  ASSUME IInv, NEW e \in Events, NEW t \in Types, Publish(e, t)
  PROVE  IInv'
  <1> DEFINE l == handlers[t]
  <1>1. TypeOK /\ Stage(e) BY DEF IInv
  <1>2. /\ pc[e] = "idle" /\ l \in Lists /\ list[l] \in Seq(Handlers)
        /\ pc' = [pc EXCEPT ![e] = "gather"]
        /\ held' = [held EXCEPT ![e] = l]
        /\ run' = [run EXCEPT ![e] = list[l]]
        /\ result' = [result EXCEPT ![e] = [i \in DOMAIN list[l] |-> "running"]]
        /\ UNCHANGED <<handlers, list, log>>
    BY <1>1 DEF Publish, TypeOK
  <1>3. DOMAIN list[l] = 1..Len(list[l]) /\ Len(list[l]) \in Nat BY <1>2
  <1>4. [i \in DOMAIN list[l] |-> "running"] \in Seq(Results)
    BY <1>3 DEF Results
  <1>5. Len([i \in DOMAIN list[l] |-> "running"]) = Len(list[l]) BY <1>3
  <1>6. TypeOK'
    <2>1. pc' \in [Events -> {"idle", "gather", "cancelling"} \cup Ended]
      BY <1>1, <1>2 DEF TypeOK
    <2>2. held' \in [Events -> Lists \cup {None}] BY <1>1, <1>2 DEF TypeOK
    <2>3. run' \in [Events -> Seq(Handlers)] BY <1>1, <1>2 DEF TypeOK
    <2>4. result' \in [Events -> Seq(Results)] BY <1>1, <1>2, <1>4 DEF TypeOK
    <2>5. \A f \in Events : Len(result'[f]) = Len(run'[f])
      BY <1>1, <1>2, <1>5 DEF TypeOK
    <2> QED BY <1>1, <1>2, <2>1, <2>2, <2>3, <2>4, <2>5 DEF TypeOK
  <1>7. /\ pc'[e] = "gather" /\ held'[e] = l /\ run'[e] = list[l]
        /\ result'[e] = [i \in DOMAIN list[l] |-> "running"]
    BY <1>1, <1>2 DEF TypeOK
  <1>8. Stage(e)'
    <2>1. Grown(e)' BY <1>2, <1>3, <1>7 DEF Grown
    <2>2. Quiet(e)' BY <1>1, <1>2 DEF Stage, Quiet
    <2>3. \A i \in 1..Len(run'[e]) : result'[e][i] # "cancelled" BY <1>3, <1>7
    <2> QED BY <1>7, <2>1, <2>2, <2>3 DEF Stage
  <1>9. Complete(e)' BY <1>7 DEF Complete
  <1>10. \A f \in Events \ {e} : /\ pc'[f] = pc[f] /\ held'[f] = held[f]
                                 /\ run'[f] = run[f] /\ result'[f] = result[f]
    BY <1>1, <1>2 DEF TypeOK
  <1> QED BY <1>2, <1>6, <1>8, <1>9, <1>10, OthersKeep

\* One handler of a publish that waits comes to an end.
LEMMA ResultInv ==
  ASSUME IInv, NEW e \in Events, NEW i \in DOMAIN run[e], NEW end \in Results,
         pc[e] \in Dispatching, end = "cancelled" => pc[e] = "cancelling",
         result' = [result EXCEPT ![e][i] = end],
         UNCHANGED <<handlers, list, pc, held, run, log>>
  PROVE  IInv'
  <1>1. TypeOK /\ Stage(e) BY DEF IInv
  <1>2. /\ i \in 1..Len(run[e]) /\ result[e] \in Seq(Results)
        /\ Len(result[e]) = Len(run[e]) /\ Len(run[e]) \in Nat
    BY <1>1, Domains
  <1>3. result'[e] = [result[e] EXCEPT ![i] = end] BY <1>1 DEF TypeOK
  <1>4. result'[e] \in Seq(Results) /\ Len(result'[e]) = Len(run[e])
    BY <1>2, <1>3
  <1>5. \A f \in Events \ {e} : result'[f] = result[f] BY <1>1 DEF TypeOK
  <1>6. TypeOK'
    <2>1. DOMAIN result' = Events BY <1>1 DEF TypeOK
    <2>2. result' = [f \in Events |-> result'[f]] BY <1>1 DEF TypeOK
    <2>3. \A f \in Events : result'[f] \in Seq(Results) /\ Len(result'[f]) = Len(run'[f])
      BY <1>1, <1>4, <1>5 DEF TypeOK
    <2>4. result' \in [Events -> Seq(Results)] BY <2>2, <2>3
    <2> QED BY <1>1, <2>3, <2>4 DEF TypeOK
  <1>7. Stage(e)'
    <2>1. Grown(e)' /\ Quiet(e)' BY <1>1 DEF Stage, Grown, Quiet
    <2>2. pc[e] = "gather" => \A j \in 1..Len(run'[e]) : result'[e][j] # "cancelled"
      BY <1>1, <1>2, <1>3 DEF Stage
    <2> QED BY <2>1, <2>2 DEF Stage, Dispatching
  <1>8. Complete(e)' BY DEF Complete, Dispatching
  <1> QED BY <1>5, <1>6, <1>7, <1>8, OthersKeep

\* A handler that returns or raises only fills in its outcome.
LEMMA HandlerEndsInv ==
  ASSUME IInv, NEW e \in Events, NEW i \in DOMAIN run[e], HandlerEnds(e, i)
  PROVE  IInv'
  <1>1. PICK end \in {"ok", "error"} : result' = [result EXCEPT ![e][i] = end]
    BY DEF HandlerEnds
  <1> QED BY <1>1, ResultInv DEF HandlerEnds, Dispatching, Results

\* A cancelled handler only fills in its outcome; its publication is being cancelled.
LEMMA HandlerCancelledInv ==
  ASSUME IInv, NEW e \in Events, NEW i \in DOMAIN run[e], HandlerCancelled(e, i)
  PROVE  IInv'
  BY ResultInv DEF HandlerCancelled, Dispatching, Results

\* Cancelling a publication leaves its coroutines and their outcomes alone.
LEMMA CancelInv ==
  ASSUME IInv, NEW e \in Events, Cancel(e)
  PROVE  IInv'
  <1>1. TypeOK /\ Stage(e) BY DEF IInv
  <1>2. pc[e] = "gather" /\ pc' = [pc EXCEPT ![e] = "cancelling"] BY DEF Cancel
  <1>3. UNCHANGED <<handlers, list, held, run, result, log>> BY DEF Cancel
  <1>4. TypeOK' BY <1>1, <1>2, <1>3 DEF TypeOK
  <1>5. pc'[e] = "cancelling" BY <1>1, <1>2 DEF TypeOK
  <1>6. Stage(e)' BY <1>1, <1>2, <1>3, <1>5 DEF Stage, Grown, Quiet, Dispatching
  <1>7. Complete(e)' BY <1>5 DEF Complete
  <1>8. \A f \in Events \ {e} : pc'[f] = pc[f] BY <1>1, <1>2 DEF TypeOK
  <1> QED BY <1>3, <1>4, <1>6, <1>7, <1>8, OthersKeep

\* zip() pairs each result with the handler that gave it.
LEMMA ErrorsPaired ==
  ASSUME TypeOK, NEW e \in Events, Grown(e)
  PROVE  Errors(e) = {<<e, i, run[e][i]>> : i \in {j \in 1..Len(run[e]) : result[e][j] = "error"}}
  <1>1. list[held[e]] \in Seq(Handlers) BY DEF TypeOK, Grown
  <1>2. DOMAIN run[e] = 1..Len(run[e]) /\ Len(run[e]) \in Nat BY Domains
  <1>3. DOMAIN list[held[e]] = 1..Len(list[held[e]]) /\ Len(list[held[e]]) \in Nat BY <1>1
  <1>4. DOMAIN run[e] \cap DOMAIN list[held[e]] = 1..Len(run[e])
    BY <1>2, <1>3 DEF Grown
  <1>5. \A i \in 1..Len(run[e]) : list[held[e]][i] = run[e][i] BY DEF Grown
  <1> QED BY <1>4, <1>5 DEF Errors

\* The publication ends with an outcome for each handler and the errors logged.
LEMMA PublishEndsInv ==
  ASSUME IInv, NEW e \in Events, PublishEnds(e)
  PROVE  IInv'
  <1>1. TypeOK /\ Stage(e) BY DEF IInv
  <1>2. /\ pc[e] = "gather" /\ Gathered(e) /\ log' = log \cup Errors(e)
        /\ UNCHANGED <<handlers, list, held, run, result>>
        /\ \E end \in {"returned", "raised"} : pc' = [pc EXCEPT ![e] = end]
    BY DEF PublishEnds
  <1>3. Grown(e) /\ Quiet(e) BY <1>1, <1>2 DEF Stage, Dispatching
  <1>4. Errors(e) = {<<e, i, run[e][i]>> : i \in {j \in 1..Len(run[e]) : result[e][j] = "error"}}
    BY <1>1, <1>3, ErrorsPaired
  <1>5. Len(run[e]) \in Nat /\ run[e] \in Seq(Handlers) /\ DOMAIN run[e] = 1..Len(run[e])
        /\ result[e] \in Seq(Results) /\ Len(result[e]) = Len(run[e])
    BY <1>1, Domains
  <1>6. Errors(e) \subseteq Events \X Nat \X Handlers BY <1>4, <1>5
  <1>7. TypeOK'
    <2>1. log' \subseteq Events \X Nat \X Handlers BY <1>1, <1>2, <1>6 DEF TypeOK
    <2>2. pc' \in [Events -> {"idle", "gather", "cancelling"} \cup Ended]
      BY <1>1, <1>2 DEF TypeOK, Ended
    <2> QED BY <1>1, <1>2, <2>1, <2>2 DEF TypeOK
  <1>8. pc'[e] \in {"returned", "raised"} /\ \A f \in Events \ {e} : pc'[f] = pc[f]
    BY <1>1, <1>2 DEF TypeOK
  <1>9. Stage(e)' BY <1>8 DEF Stage, Dispatching
  <1>10. Complete(e)'
    <2>1. \A i \in 1..Len(run[e]) : result[e][i] \in {"ok", "error"}
      BY <1>1, <1>2, <1>5 DEF Gathered, Stage, Results
    <2>2. {x \in log' : x[1] = e} = Errors(e)
      <3>1. \A x \in Errors(e) : x[1] = e BY <1>4
      <3> QED BY <1>2, <1>3, <3>1 DEF Quiet
    <2> QED BY <1>2, <1>4, <2>1, <2>2 DEF Complete
  <1>11. \A x : x[1] # e => (x \in log' <=> x \in log)
    <2>1. \A x \in Errors(e) : x[1] = e BY <1>4
    <2> QED BY <1>2, <2>1
  <1> QED BY <1>2, <1>7, <1>8, <1>9, <1>10, <1>11, OthersKeep

\* A cancelled publication ends and logs nothing.
LEMMA PublishCancelledInv ==
  ASSUME IInv, NEW e \in Events, PublishCancelled(e)
  PROVE  IInv'
  <1>1. TypeOK BY DEF IInv
  <1>2. pc' = [pc EXCEPT ![e] = "cancelled"] BY DEF PublishCancelled
  <1>3. UNCHANGED <<handlers, list, held, run, result, log>> BY DEF PublishCancelled
  <1>4. TypeOK' BY <1>1, <1>2, <1>3 DEF TypeOK, Ended
  <1>5. pc'[e] = "cancelled" /\ \A f \in Events \ {e} : pc'[f] = pc[f]
    BY <1>1, <1>2 DEF TypeOK
  <1>6. Stage(e)' /\ Complete(e)' BY <1>5 DEF Stage, Complete, Dispatching
  <1> QED BY <1>3, <1>4, <1>5, <1>6, OthersKeep

\* Every step keeps the invariant: one lemma per action.
LEMMA NextInv == IInv /\ [Next]_vars => IInv'
  <1> SUFFICES ASSUME IInv, [Next]_vars PROVE IInv' OBVIOUS
  <1>1. CASE UNCHANGED vars
    BY <1>1 DEF vars, IInv, TypeOK, Stage, Complete, Grown, Quiet
  <1>2. CASE Quiescent BY <1>1, <1>2 DEF Quiescent
  <1>3. ASSUME NEW t \in Types, NEW h \in Handlers, Subscribe(t, h) PROVE IInv'
    BY <1>3, SubscribeInv
  <1>4. CASE Clear BY <1>4, ClearInv
  <1>5. ASSUME NEW e \in Events, NEW t \in Types, PublishNobody(e, t) \/ Publish(e, t) PROVE IInv'
    BY <1>5, PublishNobodyInv, PublishInv
  <1>6. ASSUME NEW e \in Events, NEW i \in DOMAIN run[e],
               HandlerEnds(e, i) \/ HandlerCancelled(e, i)
        PROVE  IInv'
    BY <1>6, HandlerEndsInv, HandlerCancelledInv
  <1>7. ASSUME NEW e \in Events, Cancel(e) \/ PublishEnds(e) \/ PublishCancelled(e) PROVE IInv'
    BY <1>7, CancelInv, PublishEndsInv, PublishCancelledInv
  <1> QED BY <1>1, <1>2, <1>3, <1>4, <1>5, <1>6, <1>7 DEF Next

\* The inductive invariant of the bus.
THEOREM Invariant == Spec => []IInv
  BY InitInv, NextInv, PTL DEF Spec

\* Every variable keeps its type.
THEOREM TypeCorrect == Spec => []TypeOK
  <1>1. IInv => TypeOK BY DEF IInv
  <1> QED BY <1>1, Invariant, PTL

\* publish() runs every handler it found to its end and logs each error under the
\* handler that raised it, whatever is subscribed or cleared meanwhile.
THEOREM DispatchesComplete == Spec => []DispatchComplete
  <1>1. IInv => DispatchComplete
    <2> SUFFICES ASSUME IInv, NEW e \in Events, pc[e] \in {"returned", "raised"}
                 PROVE /\ \A i \in DOMAIN run[e] : result[e][i] \in {"ok", "error"}
                       /\ {x \in log : x[1] = e} =
                            {<<e, i, run[e][i]>> : i \in {j \in DOMAIN run[e] : result[e][j] = "error"}}
      BY DEF DispatchComplete
    <2>1. DOMAIN run[e] = 1..Len(run[e]) BY Domains DEF IInv
    <2> QED BY <2>1 DEF IInv, Complete
  <1> QED BY <1>1, Invariant, PTL

=============================================================================
