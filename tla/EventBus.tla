------------------------------ MODULE EventBus ------------------------------
(***************************************************************************)
(* The in-process bus of domain events (src/domains/shared/events.py):      *)
(* subscribe, publish and clear of DomainEventBus, on one event loop.       *)
(*                                                                          *)
(* publish keeps a reference to the list of handlers, not a copy, across    *)
(* its await.  Lists are therefore objects: _handlers maps an event type to *)
(* the list it has now, and clear() forgets the lists without emptying      *)
(* them.  A list that was never used is <<>>.  Handlers run as tasks, end   *)
(* in any order, and may subscribe others: Subscribe may happen anywhere    *)
(* between two awaits.                                                      *)
(***************************************************************************)
EXTENDS Naturals, Sequences

CONSTANTS Types,      \* subclasses of DomainEvent
          Handlers,
          Lists,      \* list objects; their number bounds clear()
          Events,     \* events published, one publish() each
          MaxLen,     \* bound on the handlers of a list
          None

VARIABLES handlers,   \* _handlers: the list a type has now, or None
          list,       \* contents of every list object
          pc,         \* where the publish() of an event stands
          held,       \* its local `handlers`: the list object it read
          run,        \* the handlers it started, in order
          result,     \* what became of each of them
          log         \* domain_event_handler_error records: event, place, handler

vars == <<handlers, list, pc, held, run, result, log>>

Results == {"running", "ok", "error", "cancelled"}
Ended == {"returned", "raised", "cancelled"}

ASSUME EventBusAssumption == None \notin Lists /\ MaxLen \in Nat

Init ==
    /\ handlers = [t \in Types |-> None]
    /\ list = [l \in Lists |-> <<>>]
    /\ pc = [e \in Events |-> "idle"]
    /\ held = [e \in Events |-> None]
    /\ run = [e \in Events |-> <<>>]
    /\ result = [e \in Events |-> <<>>]
    /\ log = {}

\* subscribe: appends to the list of the type, a new one if it has none
\* (defaultdict).
Subscribe(t, h) ==
    \E l \in Lists :
        /\ \/ handlers[t] = l /\ UNCHANGED handlers
           \/ /\ handlers[t] = None /\ list[l] = <<>>
              /\ handlers' = [handlers EXCEPT ![t] = l]
        /\ Len(list[l]) < MaxLen
        /\ list' = [list EXCEPT ![l] = Append(@, h)]
        /\ UNCHANGED <<pc, held, run, result, log>>

\* Mutant of Clear: the lists are emptied in place.
ClearInPlace ==
    /\ list' = [l \in Lists |-> <<>>]
    /\ UNCHANGED <<handlers, pc, held, run, result, log>>

\* clear
Clear ==
    /\ handlers' = [t \in Types |-> None]
    /\ UNCHANGED <<list, pc, held, run, result, log>>

\* publish, up to its await: without a handler it returns, otherwise gather()
\* starts every handler of the list.
PublishNobody(e, t) ==
    /\ pc[e] = "idle" /\ handlers[t] = None
    /\ pc' = [pc EXCEPT ![e] = "returned"]
    /\ UNCHANGED <<handlers, list, held, run, result, log>>

Publish(e, t) ==
    LET l == handlers[t] IN
    /\ pc[e] = "idle" /\ l # None
    /\ pc' = [pc EXCEPT ![e] = "gather"]
    /\ held' = [held EXCEPT ![e] = l]
    /\ run' = [run EXCEPT ![e] = list[l]]
    /\ result' = [result EXCEPT ![e] = [i \in DOMAIN list[l] |-> "running"]]
    /\ UNCHANGED <<handlers, list, log>>

\* Mutant of HandlerEnds: a task that has ended is forgotten.
HandlerEndsForgotten(e, i) ==
    /\ pc[e] \in {"gather", "cancelling"}
    /\ result[e][i] = "running"
    /\ result' = [result EXCEPT ![e] = SubSeq(@, 1, i - 1)]
    /\ UNCHANGED <<handlers, list, pc, held, run, log>>

\* A handler returns or raises.
HandlerEnds(e, i) ==
    /\ pc[e] \in {"gather", "cancelling"}
    /\ result[e][i] = "running"
    /\ \E end \in {"ok", "error"} : result' = [result EXCEPT ![e][i] = end]
    /\ UNCHANGED <<handlers, list, pc, held, run, log>>

\* The task that awaits publish() is cancelled, and gather() cancels the handlers.
Cancel(e) ==
    /\ pc[e] = "gather"
    /\ pc' = [pc EXCEPT ![e] = "cancelling"]
    /\ UNCHANGED <<handlers, list, held, run, result, log>>

HandlerCancelled(e, i) ==
    /\ pc[e] = "cancelling"
    /\ result[e][i] = "running"
    /\ result' = [result EXCEPT ![e][i] = "cancelled"]
    /\ UNCHANGED <<handlers, list, pc, held, run, log>>

\* Mutant of Gathered: gather() without return_exceptions.
GatheredFirst(e) ==
    \/ \A i \in DOMAIN run[e] : result[e][i] # "running"
    \/ \E i \in DOMAIN run[e] : result[e][i] = "error"

\* gather() has the results of all handlers.
Gathered(e) == \A i \in DOMAIN run[e] : result[e][i] # "running"

\* The errors among the results, paired by zip() with the handlers in the list
\* as it is now.
Errors(e) ==
    {<<e, i, list[held[e]][i]>> :
        i \in {j \in DOMAIN run[e] \cap DOMAIN list[held[e]] : result[e][j] = "error"}}

\* Errors are logged; zip(strict=True) then raises when a handler was added to
\* the list during the dispatch.
PublishEnds(e) ==
    /\ pc[e] = "gather" /\ Gathered(e)
    /\ log' = log \cup Errors(e)
    /\ pc' = [pc EXCEPT ![e] = IF Len(list[held[e]]) = Len(run[e])
                               THEN "returned" ELSE "raised"]
    /\ UNCHANGED <<handlers, list, held, run, result>>

\* CancelledError leaves publish() once every handler has ended.
PublishCancelled(e) ==
    /\ pc[e] = "cancelling" /\ Gathered(e)
    /\ pc' = [pc EXCEPT ![e] = "cancelled"]
    /\ UNCHANGED <<handlers, list, held, run, result, log>>

Quiescent == (\A e \in Events : pc[e] \in Ended) /\ UNCHANGED vars

Next ==
    \/ \E t \in Types, h \in Handlers : Subscribe(t, h)
    \/ Clear
    \/ \E e \in Events : \/ \E t \in Types : PublishNobody(e, t) \/ Publish(e, t)
                         \/ \E i \in DOMAIN run[e] : HandlerEnds(e, i) \/ HandlerCancelled(e, i)
                         \/ Cancel(e)
                         \/ PublishEnds(e) \/ PublishCancelled(e)
    \/ Quiescent

Spec == Init /\ [][Next]_vars

(***************************************************************************)
(* Properties.                                                              *)
(***************************************************************************)
\* Every variable has its type, and a publish under way has one result per
\* handler it started.
TypeOK ==
    /\ handlers \in [Types -> Lists \cup {None}]
    /\ list \in [Lists -> Seq(Handlers)]
    /\ pc \in [Events -> {"idle", "gather", "cancelling"} \cup Ended]
    /\ held \in [Events -> Lists \cup {None}]
    /\ run \in [Events -> Seq(Handlers)]
    /\ result \in [Events -> Seq(Results)]
    /\ \A e \in Events : Len(result[e]) = Len(run[e])
    /\ log \subseteq Events \X Nat \X Handlers

\* Whatever is subscribed or cleared while it waits, a publish that is not
\* cancelled ends when every handler it found has run to its end, however others
\* ended, and it logs each error under the handler that raised it.
DispatchComplete ==
    \A e \in Events : pc[e] \in {"returned", "raised"} =>
        /\ \A i \in DOMAIN run[e] : result[e][i] \in {"ok", "error"}
        /\ {x \in log : x[1] = e} =
              {<<e, i, run[e][i]>> : i \in {j \in DOMAIN run[e] : result[e][j] = "error"}}

=============================================================================
