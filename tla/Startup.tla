------------------------------- MODULE Startup -------------------------------
(***************************************************************************)
(* From `docker compose up` to an application that serves: the script that   *)
(* waits for the services, then the process, over services that fail and     *)
(* come back under both.                                                     *)
(***************************************************************************)
EXTENDS WaitForServices, Readiness

vars == <<servicesVars, waitVars, appVars>>

Init == ServicesInit /\ WaitInit /\ AppInit

\* The script has said that all services are healthy; its variables are gone, and
\* the application is started, as often as its supervisor cares to.
GoOn ==
    /\ pc = "ended" /\ exit_code = 0
    /\ pc' = "gone"
    /\ defined' = {} /\ target_services' = <<>> /\ wait_results' = <<>> /\ clock' = 0
    /\ healthy' = {} /\ troubled' = {}
    /\ UNCHANGED <<servicesVars, exit_code, appVars>>

\* The script has failed, or the application is down for good.
Quiescent ==
    /\ \/ pc = "ended" /\ exit_code # 0
       \/ pc = "gone" /\ app = "down"
    /\ UNCHANGED vars

\* Once the script is gone nobody reads what Docker says of a server, and its probes
\* are left out.
Environment ==
    /\ ServicesNext
    /\ pc = "gone" => ~\E s \in Names : Probed(s)
    /\ UNCHANGED <<pc, defined, target_services, wait_results, clock, exit_code>>
    /\ UNCHANGED <<app, starts, redis_client, redis_in_use, checked_out, turn, probe, checks>>
    /\ WaitObserves /\ AppObserves

Next ==
    \/ WaitNext /\ UNCHANGED appVars
    \/ GoOn
    \/ pc = "gone" /\ AppNext /\ UNCHANGED waitVars
    \/ Environment
    \/ Quiescent

Spec == Init /\ [][Next]_vars

\* Every variable has its type; the script's and the application's bookkeeping agrees
\* with what they do.
TypeOK == ServicesTypeOK /\ WaitTypeOK /\ AppTypeOK

=============================================================================
