--------------------------- MODULE WaitForServices ---------------------------
(***************************************************************************)
(* scripts/wait_for_services.py: docker compose up, then one service after   *)
(* another is polled until Docker calls it healthy, all under one deadline   *)
(* that is tested before a query and not during it.                          *)
(*                                                                           *)
(* Time is counted in seconds from the first poll; a query takes between     *)
(* none and MaxQuery of them.                                                *)
(***************************************************************************)
EXTENDS Services, Integers, Sequences

CONSTANTS Timeout,       \* the argument, or DEFAULT_TIMEOUT
          PollInterval,  \* POLL_INTERVAL
          MaxQuery       \* bound on docker compose ps and docker inspect

VARIABLES pc,
          defined,         \* services of the compose file
          target_services,
          wait_results,    \* WaitResult.success of each service polled so far
          clock,
          exit_code,
          healthy,         \* history: services Docker called healthy once they were known
          troubled         \* history: targets Docker did not, or could not inspect

waitVars == <<pc, defined, target_services, wait_results, clock, exit_code, healthy, troubled>>

SERVICES_WITH_HEALTHCHECK == <<"postgres", "redis", "mailpit">>

ASSUME WaitAssumption ==
    /\ Timeout \in Nat \ {0} /\ PollInterval \in Nat \ {0} /\ MaxQuery \in Nat

WaitInit ==
    /\ pc = "begin"
    /\ defined \in {Names, Names \ {"mailpit"}}
    /\ target_services = <<>>
    /\ wait_results = <<>>
    /\ clock = 0
    /\ exit_code = 0
    /\ healthy = {} /\ troubled = {}

\* get_container_health: a container without a healthcheck is healthy when it runs.
ContainerHealth(c) ==
    CASE c.status = "absent" -> "none"
      [] c.status = "exited" -> "exited"
      [] c.status \notin {"absent", "exited"} /\ c.health # "none" -> c.health
      [] c.status \notin {"absent", "exited"} /\ c.health = "none" ->
            IF c.status = "running" THEN "healthy" ELSE "starting"

Targets == {target_services[i] : i \in DOMAIN target_services}
HealthyAmong(services, containers) ==
    {s \in services : ContainerHealth(containers[s]) = "healthy"}

Exit(code) == pc' = "ended" /\ exit_code' = code

\* What the services do is seen by the history while the script polls.
WaitObserves ==
    LET now == HealthyAmong(defined, container') IN
    IF pc = "poll"
    THEN healthy' = healthy \cup now /\ troubled' = troubled \cup (defined \ now)
    ELSE UNCHANGED <<healthy, troubled>>

\* The argument, find_compose_cmd and check_compose_file.
CheckPrerequisites ==
    /\ pc = "begin"
    /\ \/ pc' = "up" /\ UNCHANGED exit_code
       \/ Exit(1) \/ Exit(2)
    /\ UNCHANGED <<servicesVars, defined, target_services, wait_results, clock, healthy, troubled>>

\* docker compose up -d; when it fails, some containers may have been started.
Up ==
    /\ pc = "up"
    /\ \E started \in SUBSET defined :
        /\ container' = [s \in Names |-> IF s \in started /\ container[s].status # "running"
                                         THEN Started(s) ELSE container[s]]
        /\ \/ started = defined /\ pc' = "config" /\ UNCHANGED exit_code
           \/ Exit(1)
    /\ UNCHANGED <<alive, faults, defined, target_services, wait_results, clock, healthy, troubled>>

\* [svc for svc in SERVICES_WITH_HEALTHCHECK if svc in defined_services]
Selected(found) ==
    LET Only(i) == LET s == SERVICES_WITH_HEALTHCHECK[i] IN IF s \in found THEN <<s>> ELSE <<>>
    IN Only(1) \o Only(2) \o Only(3)

\* get_defined_services: no services when docker compose config fails, and then
\* there is nothing to wait for.
GetDefinedServices ==
    /\ pc = "config"
    /\ \E found \in {defined, {}} :
        /\ target_services' = Selected(found)
        /\ healthy' = HealthyAmong(defined, container)
        /\ \/ found = {} /\ Exit(0) /\ UNCHANGED troubled
           \/ /\ found # {} /\ pc' = "poll" /\ UNCHANGED exit_code
              /\ troubled' = defined \ healthy'
    /\ UNCHANGED <<servicesVars, defined, wait_results, clock>>

Service == target_services[Len(wait_results) + 1]

\* wait_for_service returns: the next service, or the verdict.
Return(success) ==
    /\ wait_results' = Append(wait_results, success)
    /\ pc' = IF Len(wait_results') = Len(target_services) THEN "verdict" ELSE "poll"

\* The deadline has passed, perhaps before the service was asked for even once.
TimedOut ==
    /\ pc = "poll" /\ clock >= Timeout
    /\ Return(FALSE)
    /\ UNCHANGED <<servicesVars, defined, target_services, clock, exit_code, healthy, troubled>>

\* Mutant of Query: a service that is starting will do.
QueryStarting ==
    /\ pc = "poll" /\ clock < Timeout
    /\ \E took \in 0..MaxQuery, health \in {ContainerHealth(container[Service]), "unknown"} :
        /\ \/ /\ health \in {"healthy", "starting"} /\ Return(TRUE)
              /\ clock' = clock + took
           \/ /\ health \in {"unhealthy", "exited"} /\ Return(FALSE)
              /\ clock' = clock + took
           \/ /\ health \in {"none", "unknown"}
              /\ clock' = clock + took + PollInterval
              /\ UNCHANGED <<pc, wait_results>>
        /\ troubled' = IF health = "healthy" THEN troubled ELSE troubled \cup {Service}
    /\ UNCHANGED <<servicesVars, defined, target_services, exit_code, healthy>>

\* One turn of the loop: healthy, unhealthy or exited ends it; otherwise it
\* sleeps.  "unknown" is an inspection that failed.
Query ==
    /\ pc = "poll" /\ clock < Timeout
    /\ \E took \in 0..MaxQuery, health \in {ContainerHealth(container[Service]), "unknown"} :
        /\ \/ /\ health = "healthy" /\ Return(TRUE)
              /\ clock' = clock + took
           \/ /\ health \in {"unhealthy", "exited"} /\ Return(FALSE)
              /\ clock' = clock + took
           \/ /\ health \in {"starting", "none", "unknown"}
              /\ clock' = clock + took + PollInterval
              /\ UNCHANGED <<pc, wait_results>>
        /\ troubled' = IF health = "healthy" THEN troubled ELSE troubled \cup {Service}
    /\ UNCHANGED <<servicesVars, defined, target_services, exit_code, healthy>>

\* Exit 1 when a service failed.
Verdict ==
    /\ pc = "verdict"
    /\ Exit(IF \A i \in DOMAIN wait_results : wait_results[i] THEN 0 ELSE 1)
    /\ UNCHANGED <<servicesVars, defined, target_services, wait_results, clock, healthy, troubled>>

WaitNext == CheckPrerequisites \/ Up \/ GetDefinedServices \/ TimedOut \/ Query \/ Verdict

WaitTypeOK ==
    /\ pc \in {"begin", "up", "config", "poll", "verdict", "ended", "gone"}
    /\ defined \subseteq Names
    /\ target_services \in Seq(Names)
    /\ wait_results \in Seq(BOOLEAN)
    /\ Len(wait_results) <= Len(target_services)
    /\ pc = "poll" => Len(wait_results) < Len(target_services)
    /\ clock \in Nat
    /\ exit_code \in 0..2
    /\ healthy \subseteq Names /\ troubled \subseteq Names

(***************************************************************************)
(* Properties.                                                              *)
(***************************************************************************)
\* However many services are late, the script polls no longer than its timeout
\* and the turn of the loop in which it passes.
Bounded == clock < Timeout + PollInterval + MaxQuery

\* Exit code 0 means that all services are healthy, as the script's docstring says:
\* that Docker called each service of the compose file healthy at some moment.
AllHealthy ==
    pc = "ended" /\ exit_code = 0 => defined \subseteq healthy

\* It means so whenever the compose file could be listed: each service it defines was
\* called healthy while the script polled.  Without a list (docker compose config has
\* failed) the script ends with 0 and has asked for none.
SuccessSeen ==
    pc = "ended" /\ exit_code = 0 /\ target_services # <<>> => defined \subseteq healthy

\* Failure means that some service was not healthy, or not inspected, while the
\* script polled: provided querying each once takes less than the timeout.  (A
\* service that was healthy all along may still be named, as one the script had no
\* time left to ask about.)
FailureSeen ==
    pc = "ended" /\ exit_code = 1 /\ target_services # <<>>
        /\ Len(target_services) * MaxQuery < Timeout => troubled # {}

\* What the script reports is justified by what Docker said, in bounded time.
VerdictSound == Bounded /\ SuccessSeen /\ FailureSeen

=============================================================================
