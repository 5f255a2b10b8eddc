------------------------------ MODULE Services ------------------------------
(***************************************************************************)
(* PostgreSQL, Redis and Mailpit as docker-compose.yml runs them: what       *)
(* Docker says of each container, and whether the server in it answers.      *)
(* Docker probes a server every few seconds, so its word may be old; a       *)
(* container that exits is started anew (restart: unless-stopped).           *)
(***************************************************************************)
EXTENDS Naturals

CONSTANTS Checked,  \* services with a healthcheck in the compose file
          Faults    \* bound on servers that hang and containers that exit

VARIABLES container,  \* what docker inspect shows of each container
          alive,      \* whether the server in it answers
          faults

servicesVars == <<container, alive, faults>>

Names == {"postgres", "redis", "mailpit"}

\* State.Status and State.Health.Status; "none" without a Health block.
Container == [status: {"absent", "running", "restarting", "exited"},
              health: {"none", "starting", "healthy", "unhealthy"}]

Absent == [status |-> "absent", health |-> "none"]
Started(s) == [status |-> "running", health |-> IF s \in Checked THEN "starting" ELSE "none"]
Running(s) == [status |-> "running", health |-> IF s \in Checked THEN "healthy" ELSE "none"]

ASSUME ServicesAssumption == Checked \subseteq Names /\ Faults \in Nat

\* Nothing runs yet, or the services were left running.
ServicesInit ==
    /\ \/ container = [s \in Names |-> Absent] /\ alive = [s \in Names |-> FALSE]
       \/ container = [s \in Names |-> Running(s)] /\ alive = [s \in Names |-> TRUE]
    /\ faults = 0

\* The server has booted, or answers again.
Answers(s) ==
    /\ container[s].status = "running" /\ ~alive[s]
    /\ alive' = [alive EXCEPT ![s] = TRUE]
    /\ UNCHANGED <<container, faults>>

\* A probe that succeeds, or the last of the retries that fail.
Probed(s) ==
    /\ container[s].status = "running" /\ s \in Checked
    /\ container' = [container EXCEPT ![s].health = IF alive[s] THEN "healthy" ELSE "unhealthy"]
    /\ UNCHANGED <<alive, faults>>

Hangs(s) ==
    /\ alive[s] /\ faults < Faults
    /\ alive' = [alive EXCEPT ![s] = FALSE]
    /\ faults' = faults + 1
    /\ UNCHANGED container

Exits(s) ==
    /\ container[s].status = "running" /\ faults < Faults
    /\ \E status \in {"exited", "restarting"} :
        container' = [container EXCEPT ![s] =
            [status |-> status, health |-> IF s \in Checked THEN "unhealthy" ELSE "none"]]
    /\ alive' = [alive EXCEPT ![s] = FALSE]
    /\ faults' = faults + 1

Restarted(s) ==
    /\ container[s].status \in {"exited", "restarting"}
    /\ container' = [container EXCEPT ![s] = Started(s)]
    /\ UNCHANGED <<alive, faults>>

ServicesNext ==
    \E s \in Names : Answers(s) \/ Probed(s) \/ Hangs(s) \/ Exits(s) \/ Restarted(s)

ServicesTypeOK ==
    /\ container \in [Names -> Container]
    /\ alive \in [Names -> BOOLEAN]
    /\ faults \in 0..Faults
    /\ \A s \in Names : alive[s] => container[s].status = "running"

=============================================================================
