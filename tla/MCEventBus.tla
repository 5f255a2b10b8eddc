----------------------------- MODULE MCEventBus -----------------------------
(***************************************************************************)
(* Instance of EventBus for TLC: handlers, lists and events are alike.      *)
(***************************************************************************)
EXTENDS EventBus, TLC

Symmetric == Permutations(Handlers) \cup Permutations(Lists) \cup Permutations(Events)

=============================================================================
