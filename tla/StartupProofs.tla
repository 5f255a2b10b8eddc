---------------------------- MODULE StartupProofs ----------------------------
(***************************************************************************)
(* Proofs about Startup, for any deadline, poll interval and length of a    *)
(* query, any number of turns, probes, connections, starts and faults.      *)
(***************************************************************************)
EXTENDS Startup, FiniteSetTheorems, TLAPS

(***************************************************************************)
(* The inductive invariant: the script.                                     *)
(***************************************************************************)
Files == {Names, Names \ {"mailpit"}}

\* Nothing has been polled yet.
Early ==
    pc \in {"begin", "up", "config"} =>
        /\ defined \in Files
        /\ target_services = <<>> /\ wait_results = <<>> /\ clock = 0
        /\ healthy = {} /\ troubled = {}

Polling == pc \in {"poll", "verdict"}

\* What is polled is what the compose file defines.
Listed == target_services # <<>> => Targets = defined

\* What the history has seen of the services and of the results so far.
Polled ==
    /\ pc = "poll" => HealthyAmong(defined, container) \subseteq healthy
    /\ pc = "verdict" => Len(wait_results) = Len(target_services)
    /\ Polling => \A i \in 1..Len(wait_results) : wait_results[i] => target_services[i] \in healthy

\* As long as nothing was wrong, each service has cost one query.
Prompt ==
    (Polling /\ troubled = {} /\ Len(target_services) * MaxQuery < Timeout) =>
        /\ clock <= Len(wait_results) * MaxQuery
        /\ \A i \in 1..Len(wait_results) : wait_results[i]

ScriptInv ==
    /\ WaitTypeOK
    /\ Len(target_services) <= 3
    /\ Early /\ Listed /\ Polled /\ Prompt
    /\ Bounded /\ SuccessSeen /\ FailureSeen

(***************************************************************************)
(* The inductive invariant: the application.                                *)
(***************************************************************************)
\* A process that is down or starts serves nobody.
ServesOnly == Busy => app \in {"serving", "draining"}

\* The stages that come after a check.
After(name) ==
    CASE name = "postgres" -> {"redis", "ping", "mailpit"} \cup Answered
      [] name = "redis" -> {"mailpit"} \cup Answered
      [] name = "mailpit" -> Answered

\* The history of a probe under way has what can be seen now.
Seen(p) ==
    probe[p] \in Checking =>
        /\ \A s \in Names : IF alive[s] THEN s \in up[p] ELSE s \in down[p]
        /\ probe[p] \in Full => probe[p] \in crowded[p]

\* What a probe knows at each of its steps, and what its history has seen.
ProbeInv(p) ==
    /\ probe[p] \in {"idle", "postgres", "select"} => checks[p] = {}
    /\ Seen(p)
    /\ \A s \in Names : probe[p] \in After(s) => s \in checks[p] \/ s \in up[p]
    /\ checks[p] \subseteq down[p] \cup crowded[p]
    /\ probe[p] = "200" => checks[p] = {}
    /\ probe[p] = "503" => checks[p] # {}

AppInv == AppTypeOK /\ ServesOnly /\ \A p \in Probes : ProbeInv(p)

IInv == ServicesTypeOK /\ ScriptInv /\ AppInv

(***************************************************************************)
(* The services.                                                            *)
(***************************************************************************)
\* A server answers in a running container only, whatever fails or is restarted.
LEMMA ServicesKept ==
  ASSUME ServicesTypeOK, ServicesNext
  PROVE  ServicesTypeOK'
  <1> PICK s \in Names : Answers(s) \/ Probed(s) \/ Hangs(s) \/ Exits(s) \/ Restarted(s)
    BY DEF ServicesNext
  <1>1. CASE Answers(s) BY <1>1 DEF Answers, ServicesTypeOK
  <1>2. CASE Probed(s) BY <1>2 DEF Probed, ServicesTypeOK, Container
  <1>3. CASE Hangs(s) BY <1>3, ServicesAssumption DEF Hangs, ServicesTypeOK
  <1>4. CASE Exits(s) BY <1>4, ServicesAssumption DEF Exits, ServicesTypeOK, Container
  <1>5. CASE Restarted(s) BY <1>5 DEF Restarted, ServicesTypeOK, Container, Started
  <1> QED BY <1>1, <1>2, <1>3, <1>4, <1>5

\* docker compose up starts what does not run, and no server answers in it yet.
LEMMA UpServices ==
  ASSUME ServicesTypeOK, Up
  PROVE  ServicesTypeOK'
  <1> PICK started \in SUBSET defined :
        container' = [s \in Names |-> IF s \in started /\ container[s].status # "running"
                                      THEN Started(s) ELSE container[s]]
    BY DEF Up
  <1>1. \A s \in Names : Started(s) \in Container BY DEF Started, Container
  <1>2. alive' = alive /\ faults' = faults BY DEF Up
  <1> QED BY <1>1, <1>2 DEF ServicesTypeOK

(***************************************************************************)
(* The script.                                                              *)
(***************************************************************************)
\* What WaitTypeOK says of the sequences, for the provers.
LEMMA Lengths ==
  ASSUME ScriptInv
  PROVE  /\ Len(wait_results) \in Nat /\ Len(target_services) \in Nat
         /\ Len(target_services) <= 3
         /\ Len(wait_results) <= Len(target_services)
         /\ DOMAIN wait_results = 1..Len(wait_results)
         /\ DOMAIN target_services = 1..Len(target_services)
         /\ clock \in Nat /\ Timeout \in Nat \ {0} /\ PollInterval \in Nat \ {0} /\ MaxQuery \in Nat
  <1>1. /\ target_services \in Seq(Names) /\ wait_results \in Seq(BOOLEAN)
        /\ Len(wait_results) <= Len(target_services) /\ Len(target_services) <= 3
        /\ clock \in Nat
    BY DEF ScriptInv, WaitTypeOK
  <1> QED BY <1>1, WaitAssumption

\* A step of the application leaves the script and the containers alone.
LEMMA ScriptStays ==
  ASSUME ScriptInv, UNCHANGED waitVars, UNCHANGED container
  PROVE  ScriptInv'
  BY DEF ScriptInv, waitVars, WaitTypeOK, Early, Listed, Polled, Polling, Prompt, Bounded,
     SuccessSeen, FailureSeen, HealthyAmong, Targets

\* The prerequisites are there, or the script ends before it knows of a service.
LEMMA CheckPrerequisitesInv ==
  ASSUME ScriptInv, CheckPrerequisites
  PROVE  ScriptInv'
  BY Lengths DEF ScriptInv, CheckPrerequisites, Exit, WaitTypeOK, Early, Listed, Polled, Polling,
     Prompt, Bounded, SuccessSeen, FailureSeen, Targets

\* So does a failing docker compose up.
LEMMA UpInv ==
  ASSUME ScriptInv, Up
  PROVE  ScriptInv'
  BY Lengths DEF ScriptInv, Up, Exit, WaitTypeOK, Early, Listed, Polled, Polling, Prompt, Bounded,
     SuccessSeen, FailureSeen, Targets

\* What a sequence is made of.
Elements(seq) == {seq[i] : i \in DOMAIN seq}

\* The services selected from those of a compose file are all of them, two or three.
LEMMA SelectedTyped ==
  ASSUME NEW found \in Files \cup {{}}
  PROVE  /\ Selected(found) \in Seq(Names) /\ Len(Selected(found)) <= 3
         /\ found # {} => Len(Selected(found)) > 0
         /\ found = {} => Selected(found) = <<>>
         /\ Elements(Selected(found)) = found
  <1> DEFINE S == Selected(found)
  <1>1. CASE found = Names
    <2>1. S \in Seq(Names) /\ Len(S) = 3 /\ S[1] = "postgres" /\ S[2] = "redis" /\ S[3] = "mailpit"
      BY <1>1 DEF Selected, SERVICES_WITH_HEALTHCHECK, Names
    <2> HIDE DEF S
    <2>2. DOMAIN S = {1, 2, 3} BY <2>1
    <2>3. Elements(S) = {"postgres", "redis", "mailpit"} BY <2>1, <2>2 DEF Elements
    <2>4. Elements(S) = found /\ found # {} BY <1>1, <2>3 DEF Names
    <2> QED BY <2>1, <2>4 DEF S
  <1>2. CASE found = Names \ {"mailpit"}
    <2>1. S \in Seq(Names) /\ Len(S) = 2 /\ S[1] = "postgres" /\ S[2] = "redis"
      BY <1>2 DEF Selected, SERVICES_WITH_HEALTHCHECK, Names
    <2> HIDE DEF S
    <2>2. DOMAIN S = {1, 2} BY <2>1
    <2>3. Elements(S) = {"postgres", "redis"} BY <2>1, <2>2 DEF Elements
    <2>4. Elements(S) = found /\ found # {} BY <1>2, <2>3 DEF Names
    <2> QED BY <2>1, <2>4 DEF S
  <1>3. CASE found = {}
    <2>1. S = <<>> BY <1>3 DEF Selected, SERVICES_WITH_HEALTHCHECK
    <2> HIDE DEF S
    <2>2. Elements(<<>>) = {} BY DEF Elements
    <2>3. Elements(S) = found BY <1>3, <2>1, <2>2
    <2>4. S \in Seq(Names) /\ Len(S) <= 3 BY <2>1
    <2> QED BY <1>3, <2>1, <2>3, <2>4 DEF S
  <1> QED BY <1>1, <1>2, <1>3 DEF Files

\* Polling begins with what Docker says now; without a list there is no polling.
LEMMA GetDefinedServicesInv ==
  ASSUME ScriptInv, GetDefinedServices
  PROVE  ScriptInv'
  <1>1. PICK found \in {defined, {}} :
          /\ target_services' = Selected(found)
          /\ healthy' = HealthyAmong(defined, container)
          /\ \/ found = {} /\ Exit(0) /\ UNCHANGED troubled
             \/ /\ found # {} /\ pc' = "poll" /\ UNCHANGED exit_code
                /\ troubled' = defined \ healthy'
    BY DEF GetDefinedServices
  <1>2. /\ pc = "config" /\ wait_results = <<>> /\ clock = 0 /\ defined \in Files
        /\ UNCHANGED <<servicesVars, defined, wait_results, clock>>
        /\ healthy = {} /\ troubled = {} /\ defined \subseteq Names
    BY DEF GetDefinedServices, ScriptInv, Early, WaitTypeOK
  <1>3. /\ target_services' \in Seq(Names) /\ Len(target_services') <= 3
        /\ found # {} => Len(target_services') > 0
        /\ found = {} => target_services' = <<>>
        /\ Targets' = found
    BY <1>1, <1>2, SelectedTyped DEF Targets, Elements
  <1>4. Listed' BY <1>1, <1>2, <1>3 DEF Listed
  <1>5. healthy' \subseteq Names /\ troubled' \subseteq Names
    BY <1>1, <1>2 DEF HealthyAmong
  <1>6. WaitTypeOK'
    BY <1>1, <1>2, <1>3, <1>5 DEF Exit, ScriptInv, WaitTypeOK
  <1>7. Early' /\ Polled'
    BY <1>1, <1>2, <1>3 DEF Exit, Early, Polled, Polling, servicesVars, HealthyAmong
  <1>8. Prompt' /\ Bounded'
    BY <1>2, Lengths DEF Prompt, Bounded
  <1>9. SuccessSeen' /\ FailureSeen'
    BY <1>1, <1>3 DEF Exit, SuccessSeen, FailureSeen
  <1> QED BY <1>3, <1>4, <1>6, <1>7, <1>8, <1>9 DEF ScriptInv

\* The result of a service is one more; with the last one the polling is over.
LEMMA Returned ==
  ASSUME ScriptInv, pc = "poll", NEW success \in BOOLEAN, Return(success),
         target_services' = target_services
  PROVE  /\ wait_results' \in Seq(BOOLEAN)
         /\ Len(wait_results') = Len(wait_results) + 1
         /\ Len(wait_results') <= Len(target_services)
         /\ \A i \in 1..Len(wait_results) : wait_results'[i] = wait_results[i]
         /\ wait_results'[Len(wait_results) + 1] = success
         /\ pc' = "poll" => Len(wait_results') < Len(target_services)
         /\ pc' = "verdict" => Len(wait_results') = Len(target_services)
         /\ pc' \in {"poll", "verdict"}
  <1>1. Len(wait_results) < Len(target_services) /\ wait_results \in Seq(BOOLEAN)
    BY DEF ScriptInv, WaitTypeOK
  <1>2. /\ wait_results' = Append(wait_results, success)
        /\ pc' = IF Len(wait_results') = Len(target_services) THEN "verdict" ELSE "poll"
    BY DEF Return
  <1>3. /\ wait_results' \in Seq(BOOLEAN) /\ Len(wait_results') = Len(wait_results) + 1
        /\ \A i \in 1..Len(wait_results) : wait_results'[i] = wait_results[i]
        /\ wait_results'[Len(wait_results) + 1] = success
    BY <1>1, <1>2
  <1>4. Len(wait_results') <= Len(target_services)
    BY <1>1, <1>3, Lengths
  <1>5. CASE Len(wait_results') = Len(target_services)
    BY <1>2, <1>3, <1>4, <1>5
  <1>6. CASE Len(wait_results') # Len(target_services)
    <2> DEFINE m == Len(wait_results')
               n == Len(target_services)
    <2>1. m < n
      <3>1. Len(wait_results) \in Nat /\ n \in Nat BY Lengths
      <3>2. m = Len(wait_results) + 1 /\ m <= n /\ m # n BY <1>3, <1>4, <1>6
      <3> HIDE DEF m, n
      <3> QED BY <3>1, <3>2
    <2> QED BY <1>2, <1>3, <1>4, <1>6, <2>1
  <1> QED BY <1>5, <1>6

\* A service that had no turn before the deadline fails; when nothing was wrong,
\* the services before it took the whole timeout.
LEMMA TimedOutInv ==
  ASSUME ScriptInv, TimedOut
  PROVE  ScriptInv'
  <1> DEFINE k == Len(wait_results)
             n == Len(target_services)
  <1>1. /\ pc = "poll" /\ clock >= Timeout /\ Return(FALSE)
        /\ UNCHANGED <<servicesVars, defined, target_services, clock, exit_code, healthy, troubled>>
    BY DEF TimedOut
  <1>2. k < n BY <1>1 DEF ScriptInv, WaitTypeOK
  <1>3. WaitTypeOK' BY <1>1, Returned DEF ScriptInv, WaitTypeOK
  <1>4. Early' /\ Bounded' BY <1>1, Returned DEF ScriptInv, Early, Bounded
  <1>5. Polled'
    <2>1. ASSUME NEW i \in 1..Len(wait_results'), wait_results'[i]
          PROVE  i \in 1..k /\ wait_results[i]
      <3>1. /\ k \in Nat /\ Len(wait_results') = k + 1 /\ ~wait_results'[k + 1]
            /\ \A j \in 1..k : wait_results'[j] = wait_results[j]
        BY <1>1, Returned, Lengths
      <3>2. i # k + 1 BY <2>1, <3>1
      <3>3. i \in 1..k
        <4> HIDE DEF k
        <4> QED BY <3>1, <3>2
      <3> QED BY <2>1, <3>1, <3>3
    <2>2. \A i \in 1..Len(wait_results') : wait_results'[i] => target_services[i] \in healthy
      BY <1>1, <2>1 DEF ScriptInv, Polled, Polling
    <2> QED BY <1>1, <2>2, Returned
            DEF ScriptInv, Polled, Polling, HealthyAmong, servicesVars
  <1>6. Prompt'
    <2>1. ASSUME troubled = {}, n * MaxQuery < Timeout PROVE FALSE
      <3>1. clock <= k * MaxQuery BY <1>1, <2>1 DEF ScriptInv, Prompt, Polling
      <3>2. k * MaxQuery <= n * MaxQuery
        <4>1. k \in Nat /\ n \in Nat /\ k <= 2 /\ n <= 3 BY <1>2, Lengths
        <4>2. MaxQuery \in Nat BY WaitAssumption
        <4> HIDE DEF k, n
        <4> QED BY <1>2, <4>1, <4>2
      <3>3. k * MaxQuery \in Nat /\ n * MaxQuery \in Nat BY Lengths
      <3> HIDE DEF k, n
      <3> QED BY <1>1, <2>1, <3>1, <3>2, <3>3, Lengths
    <2> QED BY <1>1, <2>1 DEF Prompt
  <1>7. SuccessSeen' /\ FailureSeen' BY <1>1, Returned DEF SuccessSeen, FailureSeen
  <1>8. Listed' BY <1>1 DEF ScriptInv, Listed, Targets
  <1> QED BY <1>1, <1>3, <1>4, <1>5, <1>6, <1>7, <1>8 DEF ScriptInv

\* A turn of the loop: success was seen, trouble was noted, and as long as there
\* was none the turn took one query.
LEMMA QueryInv ==
  ASSUME ScriptInv, Query
  PROVE  ScriptInv'
  <1> DEFINE k == Len(wait_results)
             n == Len(target_services)
  <1>1. PICK took \in 0..MaxQuery, health \in {ContainerHealth(container[Service]), "unknown"} :
        /\ \/ /\ health = "healthy" /\ Return(TRUE)
              /\ clock' = clock + took
           \/ /\ health \in {"unhealthy", "exited"} /\ Return(FALSE)
              /\ clock' = clock + took
           \/ /\ health \in {"starting", "none", "unknown"}
              /\ clock' = clock + took + PollInterval
              /\ UNCHANGED <<pc, wait_results>>
        /\ troubled' = IF health = "healthy" THEN troubled ELSE troubled \cup {Service}
    BY DEF Query
  <1>2. /\ pc = "poll" /\ clock < Timeout
        /\ UNCHANGED <<container, defined, target_services, exit_code, healthy>>
    BY DEF Query, servicesVars
  <1>3. k < n BY <1>2 DEF ScriptInv, WaitTypeOK
  <1>4. Service \in defined /\ defined \subseteq Names
    <2>1. k + 1 \in 1..n
      <3>1. k \in Nat /\ n \in Nat BY Lengths
      <3> HIDE DEF k, n
      <3> QED BY <1>3, <3>1
    <2>2. target_services # <<>> BY <2>1
    <2> QED BY <2>1, <2>2, Lengths DEF Service, Listed, Targets, ScriptInv, WaitTypeOK
  <1>5. clock' \in Nat /\ clock' < Timeout + PollInterval + MaxQuery
    <2>1. took \in Nat /\ took <= MaxQuery BY Lengths
    <2>2. clock' = clock + took \/ clock' = clock + took + PollInterval BY <1>1
    <2> QED BY <1>2, <2>1, <2>2, Lengths
  <1>6. troubled' \subseteq Names
    BY <1>1, <1>4 DEF ScriptInv, WaitTypeOK
  <1>7. /\ Len(target_services') <= 3 /\ Early' /\ Listed' /\ Bounded'
        /\ pc' \in {"poll", "verdict"} /\ SuccessSeen' /\ FailureSeen'
    <2>1. pc' \in {"poll", "verdict"} BY <1>1, <1>2, Returned
    <2> QED BY <1>2, <1>5, <2>1
            DEF Early, Listed, Targets, Bounded, SuccessSeen, FailureSeen, ScriptInv
  <1>8. CASE health = "healthy" /\ Return(TRUE) /\ clock' = clock + took
    <2>1. target_services[k + 1] \in healthy
      <3>1. ContainerHealth(container[Service]) = "healthy" BY <1>1, <1>8
      <3>2. Service \in HealthyAmong(defined, container) BY <1>4, <3>1 DEF HealthyAmong
      <3> QED BY <1>2, <3>2 DEF ScriptInv, Polled, Service
    <2>2. WaitTypeOK'
      BY <1>2, <1>5, <1>6, <1>8, Returned DEF ScriptInv, WaitTypeOK
    <2>3. ASSUME NEW i \in 1..Len(wait_results') PROVE i \in 1..k \/ i = k + 1
      <3>1. k \in Nat /\ Len(wait_results') = k + 1 BY <1>2, <1>8, Returned, Lengths
      <3> HIDE DEF k
      <3> QED BY <3>1
    <2>4. \A i \in 1..Len(wait_results') :
              wait_results'[i] => target_services[i] \in healthy
      BY <1>2, <1>8, <2>1, <2>3, Returned DEF ScriptInv, Polled, Polling
    <2>5. Polled'
      BY <1>2, <1>8, <2>4, Returned
         DEF ScriptInv, Polled, Polling, HealthyAmong
    <2>6. ASSUME troubled' = {}, n * MaxQuery < Timeout
          PROVE  /\ clock' <= Len(wait_results') * MaxQuery
                 /\ \A i \in 1..Len(wait_results') : wait_results'[i]
      <3>1. /\ clock <= k * MaxQuery
            /\ \A i \in 1..k : wait_results[i]
        BY <1>1, <1>2, <1>8, <2>6 DEF ScriptInv, Prompt, Polling
      <3>2. \A i \in 1..Len(wait_results') : wait_results'[i]
        BY <1>2, <1>8, <2>3, <3>1, Returned
      <3>3. clock' <= (k + 1) * MaxQuery
        <4>1. /\ k \in Nat /\ MaxQuery \in Nat /\ clock \in Nat
              /\ took \in Nat /\ took <= MaxQuery /\ clock' = clock + took
          BY <1>8, Lengths
        <4> HIDE DEF k
        <4>2. (k + 1) * MaxQuery = k * MaxQuery + MaxQuery BY <4>1
        <4>3. k * MaxQuery \in Nat BY <4>1
        <4> QED BY <3>1, <4>1, <4>2, <4>3
      <3> QED BY <1>2, <1>8, <3>2, <3>3, Returned
    <2> QED BY <1>2, <1>7, <2>2, <2>5, <2>6 DEF ScriptInv, Prompt
  <1>9. ASSUME health # "healthy" PROVE ScriptInv'
    <2>1. troubled' # {} BY <1>1, <1>9
    <2>2. WaitTypeOK'
      BY <1>1, <1>2, <1>5, <1>6, <1>9, Returned DEF ScriptInv, WaitTypeOK
    <2>3. Polled'
      <3>1. CASE Return(FALSE)
        <4>1. ASSUME NEW i \in 1..Len(wait_results'), wait_results'[i]
              PROVE  i \in 1..k /\ wait_results[i]
          <5>1. /\ k \in Nat /\ Len(wait_results') = k + 1 /\ ~wait_results'[k + 1]
                /\ \A j \in 1..k : wait_results'[j] = wait_results[j]
            BY <1>2, <3>1, Returned, Lengths
          <5>2. i # k + 1 BY <4>1, <5>1
          <5>3. i \in 1..k
            <6> HIDE DEF k
            <6> QED BY <5>1, <5>2
          <5> QED BY <4>1, <5>1, <5>3
        <4>2. \A i \in 1..Len(wait_results') :
                  wait_results'[i] => target_services[i] \in healthy
          BY <1>2, <4>1 DEF ScriptInv, Polled, Polling
        <4> QED BY <1>2, <3>1, <4>2, Returned
                DEF ScriptInv, Polled, Polling, HealthyAmong
      <3>2. CASE UNCHANGED <<pc, wait_results>>
        BY <1>2, <3>2 DEF ScriptInv, Polled, Polling, HealthyAmong
      <3> QED BY <1>1, <1>9, <3>1, <3>2
    <2> QED BY <1>7, <2>1, <2>2, <2>3 DEF ScriptInv, Prompt
  <1> QED BY <1>1, <1>8, <1>9

\* The verdict: 0 when all were seen healthy, 1 when there was trouble.
LEMMA VerdictInv ==
  ASSUME ScriptInv, Verdict
  PROVE  ScriptInv'
  <1>1. /\ pc = "verdict" /\ pc' = "ended" /\ exit_code' \in {0, 1}
        /\ exit_code' = 0 <=> \A i \in DOMAIN wait_results : wait_results[i]
        /\ UNCHANGED <<container, defined, target_services, wait_results, clock,
                       healthy, troubled>>
    BY DEF Verdict, Exit, servicesVars
  <1>2. /\ DOMAIN wait_results = 1..Len(wait_results)
        /\ DOMAIN target_services = 1..Len(wait_results)
    BY <1>1, Lengths DEF ScriptInv, Polled
  <1>3. WaitTypeOK' BY <1>1 DEF ScriptInv, WaitTypeOK
  <1>4. Early' /\ Listed' /\ Polled' /\ Prompt' /\ Bounded'
    BY <1>1 DEF ScriptInv, Early, Listed, Targets, Polled, Polling, Prompt, Bounded
  <1>5. SuccessSeen'
    <2>1. exit_code' = 0 => Targets \subseteq healthy
      BY <1>1, <1>2 DEF ScriptInv, Polled, Polling, Targets
    <2> QED BY <1>1, <2>1 DEF SuccessSeen, ScriptInv, Listed
  <1>6. FailureSeen'
    BY <1>1, <1>2 DEF FailureSeen, ScriptInv, Prompt, Polling
  <1> QED BY <1>1, <1>3, <1>4, <1>5, <1>6 DEF ScriptInv

\* When the application starts the script and what it knew are gone.
LEMMA GoOnInv ==
  ASSUME ScriptInv, GoOn
  PROVE  ScriptInv'
  BY Lengths DEF ScriptInv, GoOn, WaitTypeOK, Early, Listed, Polled, Polling, Prompt, Bounded,
     SuccessSeen, FailureSeen

\* The services move while the script polls, and its history sees it.
LEMMA EnvironmentScript ==
  ASSUME ScriptInv, Environment
  PROVE  ScriptInv'
  <1>1. /\ UNCHANGED <<pc, defined, target_services, wait_results, clock, exit_code>>
        /\ IF pc = "poll"
           THEN LET now == HealthyAmong(defined, container')
                IN healthy' = healthy \cup now /\ troubled' = troubled \cup (defined \ now)
           ELSE UNCHANGED <<healthy, troubled>>
    BY DEF Environment, WaitObserves
  <1>2. Targets' = Targets /\ defined \subseteq Names
    BY <1>1 DEF Targets, ScriptInv, WaitTypeOK
  <1>3. HealthyAmong(defined, container') \subseteq Names
    BY <1>2 DEF HealthyAmong
  <1>4. WaitTypeOK' BY <1>1, <1>2, <1>3 DEF ScriptInv, WaitTypeOK
  <1>5. Early' /\ Listed' BY <1>1, <1>2 DEF ScriptInv, Early, Listed
  <1>6. Polled'
    <2>1. pc = "poll" => HealthyAmong(defined, container)' \subseteq healthy'
      BY <1>1, <1>2 DEF HealthyAmong
    <2>2. healthy \subseteq healthy' BY <1>1
    <2> QED BY <1>1, <2>1, <2>2 DEF ScriptInv, Polled, Polling
  <1>7. Prompt'
    <2>1. troubled \subseteq troubled' BY <1>1
    <2> QED BY <1>1, <2>1 DEF ScriptInv, Prompt, Polling
  <1>8. Bounded' /\ SuccessSeen' /\ FailureSeen'
    BY <1>1, <1>2 DEF ScriptInv, Bounded, SuccessSeen, FailureSeen
  <1> QED BY <1>1, <1>4, <1>5, <1>6, <1>7, <1>8 DEF ScriptInv

(***************************************************************************)
(* The connections of the pools.                                            *)
(***************************************************************************)
\* One or none.
Is(x, y) == IF x = y THEN 1 ELSE 0

TurnStages == {"idle", "done", "lost"} \cup Serving
ProbeStages == {"idle", "lost"} \cup Checking \cup Answered

\* One turn that moves leaves the set of its old stage and enters that of its new one.
LEMMA TurnCount ==
  ASSUME turn \in [Turns -> TurnStages],
         NEW t \in Turns, NEW stage, turn' = [turn EXCEPT ![t] = stage], NEW at
  PROVE  /\ Cardinality(TurnsAt(at)) \in Nat /\ Cardinality(TurnsAt(at)') \in Nat
         /\ Cardinality(TurnsAt(at)')
              = Cardinality(TurnsAt(at)) + Is(stage, at) - Is(turn[t], at)
  <1> DEFINE A == TurnsAt(at)
             B == TurnsAt(at)'
  <1>1. IsFiniteSet(A) /\ IsFiniteSet(B)
    BY FS_Subset, ReadinessAssumption DEF TurnsAt
  <1>2. Cardinality(A) \in Nat /\ Cardinality(B) \in Nat
    BY <1>1, FS_CardinalityType
  <1>3. CASE turn[t] # at /\ stage = at
    <2>1. B = A \cup {t} /\ t \notin A BY <1>3 DEF TurnsAt
    <2>2. Cardinality(B) = Cardinality(A) + 1
      <3> HIDE DEF A, B
      <3> QED BY <1>1, <2>1, FS_AddElement
    <2> QED BY <1>2, <1>3, <2>2 DEF Is
  <1>4. CASE turn[t] = at /\ stage # at
    <2>1. B = A \ {t} /\ t \in A BY <1>4 DEF TurnsAt
    <2>2. Cardinality(B) = Cardinality(A) - 1
      <3> HIDE DEF A, B
      <3> QED BY <1>1, <2>1, FS_RemoveElement
    <2> QED BY <1>2, <1>4, <2>2 DEF Is
  <1>5. CASE turn[t] = at <=> stage = at
    <2>1. B = A BY <1>5 DEF TurnsAt
    <2>2. Is(stage, at) = Is(turn[t], at) /\ Is(stage, at) \in {0, 1} BY <1>5 DEF Is
    <2> QED BY <1>2, <2>1, <2>2
  <1> QED BY <1>3, <1>4, <1>5

\* So does one probe.
LEMMA ProbeCount ==
  ASSUME probe \in [Probes -> ProbeStages],
         NEW p \in Probes, NEW stage, probe' = [probe EXCEPT ![p] = stage], NEW at
  PROVE  /\ Cardinality(ProbesAt(at)) \in Nat /\ Cardinality(ProbesAt(at)') \in Nat
         /\ Cardinality(ProbesAt(at)')
              = Cardinality(ProbesAt(at)) + Is(stage, at) - Is(probe[p], at)
  <1> DEFINE A == ProbesAt(at)
             B == ProbesAt(at)'
  <1>1. IsFiniteSet(A) /\ IsFiniteSet(B)
    BY FS_Subset, ReadinessAssumption DEF ProbesAt
  <1>2. Cardinality(A) \in Nat /\ Cardinality(B) \in Nat
    BY <1>1, FS_CardinalityType
  <1>3. CASE probe[p] # at /\ stage = at
    <2>1. B = A \cup {p} /\ p \notin A BY <1>3 DEF ProbesAt
    <2>2. Cardinality(B) = Cardinality(A) + 1
      <3> HIDE DEF A, B
      <3> QED BY <1>1, <2>1, FS_AddElement
    <2> QED BY <1>2, <1>3, <2>2 DEF Is
  <1>4. CASE probe[p] = at /\ stage # at
    <2>1. B = A \ {p} /\ p \in A BY <1>4 DEF ProbesAt
    <2>2. Cardinality(B) = Cardinality(A) - 1
      <3> HIDE DEF A, B
      <3> QED BY <1>1, <2>1, FS_RemoveElement
    <2> QED BY <1>2, <1>4, <2>2 DEF Is
  <1>5. CASE probe[p] = at <=> stage = at
    <2>1. B = A BY <1>5 DEF ProbesAt
    <2>2. Is(stage, at) = Is(probe[p], at) /\ Is(stage, at) \in {0, 1} BY <1>5 DEF Is
    <2> QED BY <1>2, <2>1, <2>2
  <1> QED BY <1>3, <1>4, <1>5

\* A counter that is the sum of two and moves with one of them stays their sum.
LEMMA StillSum ==
  ASSUME NEW c \in Nat, NEW d, NEW a \in Nat, NEW e \in Nat, NEW b \in Nat,
         NEW x \in {0, 1}, NEW y \in {0, 1},
         c = a + b, e = a + x - y, d = c + x - y
  PROVE  d = e + b /\ d = b + e /\ d \in Nat
  OBVIOUS

LEMMA IsFacts ==
  ASSUME NEW x, NEW y
  PROVE  Is(x, y) \in {0, 1} /\ (x = y => Is(x, y) = 1) /\ (x # y => Is(x, y) = 0)
  BY DEF Is

\* The turns and the probes hold natural numbers of connections, which add up.
LEMMA Counted ==
  ASSUME AppTypeOK
  PROVE  /\ \A at : Cardinality(TurnsAt(at)) \in Nat /\ Cardinality(ProbesAt(at)) \in Nat
         /\ checked_out = Cardinality(TurnsAt("model")) + Cardinality(ProbesAt("select"))
         /\ redis_in_use = Cardinality(TurnsAt("ask")) + Cardinality(ProbesAt("ping"))
         /\ checked_out \in Nat /\ checked_out <= PoolSize
         /\ redis_in_use \in Nat /\ redis_in_use <= RedisPool
         /\ PoolSize \in Nat \ {0} /\ RedisPool \in Nat \ {0} /\ Starts \in Nat
  <1>1. \A at : IsFiniteSet(TurnsAt(at)) /\ IsFiniteSet(ProbesAt(at))
    BY FS_Subset, ReadinessAssumption DEF TurnsAt, ProbesAt
  <1>2. \A at : Cardinality(TurnsAt(at)) \in Nat /\ Cardinality(ProbesAt(at)) \in Nat
    BY <1>1, FS_CardinalityType
  <1> QED BY <1>2, ReadinessAssumption DEF AppTypeOK

(***************************************************************************)
(* The histories.                                                           *)
(***************************************************************************)
HistoryType ==
    /\ up \in [Probes -> SUBSET Names] /\ down \in [Probes -> SUBSET Names]
    /\ crowded \in [Probes -> SUBSET {"postgres", "redis"}]

\* The history of a probe has not lost anything.
Recalls(p) ==
    up[p] \subseteq up'[p] /\ down[p] \subseteq down'[p] /\ crowded[p] \subseteq crowded'[p]

\* AppObserves adds to what probes have seen all that they can see now.
LEMMA Observed ==
  ASSUME AppInv, AppObserves
  PROVE  HistoryType' /\ \A p \in Probes : Recalls(p) /\ Seen(p)'
  <1>1. HistoryType BY DEF AppInv, AppTypeOK, HistoryType
  <1>2. Full' \subseteq {"postgres", "redis"} BY DEF Full
  <1>3. HistoryType' BY <1>1, <1>2 DEF AppObserves, HistoryType
  <1>4. ASSUME NEW p \in Probes PROVE Recalls(p) /\ Seen(p)'
    BY <1>1 DEF AppObserves, HistoryType, Recalls, Seen
  <1> QED BY <1>3, <1>4

\* A probe that stands still knows what it knew.
LEMMA ProbeStays ==
  ASSUME AppInv, NEW p \in Probes, Recalls(p), Seen(p)',
         probe'[p] = probe[p], checks'[p] = checks[p]
  PROVE  ProbeInv(p)'
  BY DEF AppInv, ProbeInv, Recalls

\* A turn moves, and the connections still add up.
LEMMA TurnStep ==
  ASSUME AppInv, NEW t \in Turns, NEW stage \in Serving \cup {"done"},
         turn' = [turn EXCEPT ![t] = stage], app \in {"serving", "draining"},
         UNCHANGED <<servicesVars, app, starts, redis_client, probe, checks>>,
         checked_out' = checked_out + Is(stage, "model") - Is(turn[t], "model"),
         redis_in_use' = redis_in_use + Is(stage, "ask") - Is(turn[t], "ask"),
         checked_out' <= PoolSize, redis_in_use' <= RedisPool, AppObserves
  PROVE  AppInv'
  <1>1. AppTypeOK /\ turn \in [Turns -> TurnStages]
    BY DEF AppInv, AppTypeOK, TurnStages
  <1>2. /\ checked_out \in Nat /\ redis_in_use \in Nat
        /\ \A at : Cardinality(TurnsAt(at)) \in Nat /\ Cardinality(ProbesAt(at)) \in Nat
    BY <1>1, Counted
  <1>3. /\ checked_out' = Cardinality(TurnsAt("model")') + Cardinality(ProbesAt("select")')
        /\ checked_out' \in Nat
    <2>1. Cardinality(TurnsAt("model")')
            = Cardinality(TurnsAt("model")) + Is(stage, "model") - Is(turn[t], "model")
      BY <1>1, TurnCount DEF TurnsAt
    <2>2. Cardinality(TurnsAt("model")') \in Nat BY <1>1, TurnCount DEF TurnsAt
    <2>3. Cardinality(ProbesAt("select")') = Cardinality(ProbesAt("select")) BY DEF ProbesAt
    <2>4. checked_out = Cardinality(TurnsAt("model")) + Cardinality(ProbesAt("select"))
      BY <1>1, Counted
    <2> QED BY <1>2, <2>1, <2>2, <2>3, <2>4, StillSum, IsFacts
  <1>4. /\ redis_in_use' = Cardinality(TurnsAt("ask")') + Cardinality(ProbesAt("ping")')
        /\ redis_in_use' \in Nat
    <2>1. Cardinality(TurnsAt("ask")')
            = Cardinality(TurnsAt("ask")) + Is(stage, "ask") - Is(turn[t], "ask")
      BY <1>1, TurnCount DEF TurnsAt
    <2>2. Cardinality(TurnsAt("ask")') \in Nat BY <1>1, TurnCount DEF TurnsAt
    <2>3. Cardinality(ProbesAt("ping")') = Cardinality(ProbesAt("ping")) BY DEF ProbesAt
    <2>4. redis_in_use = Cardinality(TurnsAt("ask")) + Cardinality(ProbesAt("ping"))
      BY <1>1, Counted
    <2> QED BY <1>2, <2>1, <2>2, <2>3, <2>4, StillSum, IsFacts
  <1>5. HistoryType' /\ \A p \in Probes : Recalls(p) /\ Seen(p)' BY Observed
  <1>6. turn' \in [Turns -> {"idle", "done", "lost"} \cup Serving]
    BY <1>1 DEF TurnStages
  <1>7. AppTypeOK'
    BY <1>1, <1>3, <1>4, <1>5, <1>6, Counted DEF AppTypeOK, HistoryType
  <1>8. ServesOnly' BY DEF ServesOnly
  <1>9. \A p \in Probes : ProbeInv(p)'
    BY <1>5, ProbeStays
  <1> QED BY <1>7, <1>8, <1>9 DEF AppInv

\* A probe moves, the connections still add up, and it knows enough where it gets.
LEMMA ProbeStep ==
  ASSUME AppInv, NEW p \in Probes, NEW stage \in Checking \cup Answered,
         NEW found \in SUBSET Names,
         probe' = [probe EXCEPT ![p] = stage], checks' = [checks EXCEPT ![p] = found],
         app \in {"serving", "draining"},
         UNCHANGED <<servicesVars, app, starts, redis_client, turn>>,
         checked_out' = checked_out + Is(stage, "select") - Is(probe[p], "select"),
         redis_in_use' = redis_in_use + Is(stage, "ping") - Is(probe[p], "ping"),
         checked_out' <= PoolSize, redis_in_use' <= RedisPool, AppObserves,
         ProbeInv(p)'
  PROVE  AppInv'
  <1>1. /\ AppTypeOK /\ probe \in [Probes -> ProbeStages]
        /\ checks \in [Probes -> SUBSET Names]
    BY DEF AppInv, AppTypeOK, ProbeStages
  <1>2. /\ checked_out \in Nat /\ redis_in_use \in Nat
        /\ \A at : Cardinality(TurnsAt(at)) \in Nat /\ Cardinality(ProbesAt(at)) \in Nat
    BY <1>1, Counted
  <1>3. /\ checked_out' = Cardinality(TurnsAt("model")') + Cardinality(ProbesAt("select")')
        /\ checked_out' \in Nat
    <2>1. Cardinality(ProbesAt("select")')
            = Cardinality(ProbesAt("select")) + Is(stage, "select") - Is(probe[p], "select")
      BY <1>1, ProbeCount DEF ProbesAt
    <2>2. Cardinality(ProbesAt("select")') \in Nat BY <1>1, ProbeCount DEF ProbesAt
    <2>3. checked_out = Cardinality(ProbesAt("select")) + Cardinality(TurnsAt("model"))
      BY <1>1, <1>2, Counted
    <2>4. Cardinality(TurnsAt("model")') = Cardinality(TurnsAt("model")) BY DEF TurnsAt
    <2> QED BY <1>2, <2>1, <2>2, <2>3, <2>4, StillSum, IsFacts
  <1>4. /\ redis_in_use' = Cardinality(TurnsAt("ask")') + Cardinality(ProbesAt("ping")')
        /\ redis_in_use' \in Nat
    <2>1. Cardinality(ProbesAt("ping")')
            = Cardinality(ProbesAt("ping")) + Is(stage, "ping") - Is(probe[p], "ping")
      BY <1>1, ProbeCount DEF ProbesAt
    <2>2. Cardinality(ProbesAt("ping")') \in Nat BY <1>1, ProbeCount DEF ProbesAt
    <2>3. redis_in_use = Cardinality(ProbesAt("ping")) + Cardinality(TurnsAt("ask"))
      BY <1>1, <1>2, Counted
    <2>4. Cardinality(TurnsAt("ask")') = Cardinality(TurnsAt("ask")) BY DEF TurnsAt
    <2> QED BY <1>2, <2>1, <2>2, <2>3, <2>4, StillSum, IsFacts
  <1>6. HistoryType' /\ \A q \in Probes : Recalls(q) /\ Seen(q)' BY Observed
  <1>7. /\ probe' \in [Probes -> {"idle", "lost"} \cup Checking \cup Answered]
        /\ checks' \in [Probes -> SUBSET Names]
    BY <1>1 DEF ProbeStages
  <1>8. AppTypeOK'
    BY <1>1, <1>3, <1>4, <1>6, <1>7, Counted DEF AppTypeOK, HistoryType
  <1>9. ServesOnly' BY DEF ServesOnly
  <1>10. \A q \in Probes \ {p} : ProbeInv(q)'
    BY <1>1, <1>6, ProbeStays
  <1> QED BY <1>8, <1>9, <1>10 DEF AppInv

(***************************************************************************)
(* The application.                                                         *)
(***************************************************************************)
\* A step of the script leaves the application and the servers alone.
LEMMA AppStays ==
  ASSUME AppInv, UNCHANGED appVars, UNCHANGED alive
  PROVE  AppInv'
  <1>1. AppTypeOK' BY DEF AppInv, AppTypeOK, TurnsAt, ProbesAt, appVars, histories
  <1>2. ServesOnly' BY DEF AppInv, ServesOnly, Busy, appVars
  <1>3. \A p \in Probes : ProbeInv(p)'
    BY DEF AppInv, ProbeInv, Seen, Full, appVars, histories
  <1> QED BY <1>1, <1>2, <1>3 DEF AppInv

\* Servers fail and come back, and the history of every probe under way sees it.
LEMMA EnvironmentApp ==
  ASSUME AppInv, Environment
  PROVE  AppInv'
  <1>1. /\ UNCHANGED <<app, starts, redis_client, redis_in_use, checked_out, turn, probe, checks>>
        /\ AppObserves
    BY DEF Environment
  <1>2. HistoryType' /\ \A p \in Probes : Recalls(p) /\ Seen(p)'
    BY <1>1, Observed
  <1>3. AppTypeOK'
    BY <1>1, <1>2 DEF AppInv, AppTypeOK, TurnsAt, ProbesAt, HistoryType
  <1>4. ServesOnly' BY <1>1 DEF AppInv, ServesOnly, Busy
  <1>5. \A p \in Probes : ProbeInv(p)' BY <1>1, <1>2, ProbeStays
  <1> QED BY <1>3, <1>4, <1>5 DEF AppInv

\* The lifespan moves the process between its stages while it serves nobody, and a
\* signal only stops it from taking requests.
LEMMA LifespanInv ==
  ASSUME AppInv, ServicesTypeOK, StartingUp \/ WarmUp \/ Stop \/ ShutDown, AppObserves
  PROVE  AppInv'
  <1>1. UNCHANGED <<servicesVars, checked_out, turn, probe, checks>>
    BY DEF StartingUp, WarmUp, Stop, ShutDown
  <1>2. /\ app' \in {"down", "starting", "serving", "draining"}
        /\ starts' \in 0..Starts /\ redis_client' = (app' # "down")
    <2>1. /\ starts \in Nat /\ starts <= Starts /\ Starts \in Nat
      BY ReadinessAssumption DEF AppInv, AppTypeOK
    <2>2. redis_client = (app # "down") BY DEF AppInv, AppTypeOK
    <2>3. CASE StartingUp
      <3>1. app' = "starting" /\ redis_client' = TRUE BY <2>3 DEF StartingUp
      <3>2. (app' # "down") = TRUE BY <3>1
      <3>3. starts' \in 0..Starts BY <2>1, <2>3 DEF StartingUp
      <3> QED BY <3>1, <3>2, <3>3
    <2>4. CASE WarmUp
      <3>1. /\ app' = IF alive["redis"] THEN "serving" ELSE "down"
            /\ redis_client' = alive["redis"] /\ starts' = starts
        BY <2>4 DEF WarmUp
      <3>2. alive["redis"] \in BOOLEAN
        <4>1. alive \in [Names -> BOOLEAN] /\ "redis" \in Names BY DEF ServicesTypeOK, Names
        <4> QED BY <4>1, Zenon
      <3>3. (app' # "down") = alive["redis"]
        <4>1. CASE alive["redis"] = TRUE BY <3>1, <4>1
        <4>2. CASE alive["redis"] = FALSE BY <3>1, <4>2
        <4> QED BY <3>2, <4>1, <4>2, Zenon
      <3>4. starts' \in 0..Starts BY <2>1, <3>1
      <3>5. redis_client' = (app' # "down") BY <3>1, <3>3, Zenon
      <3> QED BY <3>1, <3>4, <3>5
    <2>5. CASE Stop
      <3>1. /\ app = "serving" /\ app' = "draining"
            /\ redis_client' = redis_client /\ starts' = starts
        BY <2>5 DEF Stop
      <3>2. (app' # "down") = (app # "down") BY <3>1
      <3>3. starts' \in 0..Starts BY <2>1, <3>1
      <3>4. redis_client' = (app' # "down") BY <2>2, <3>1, <3>2, Zenon
      <3> QED BY <3>1, <3>3, <3>4
    <2>6. CASE ShutDown
      <3>1. app' = "down" /\ redis_client' = FALSE /\ starts' = starts
        BY <2>6 DEF ShutDown
      <3>2. (app' # "down") = FALSE BY <3>1
      <3>3. starts' \in 0..Starts BY <2>1, <3>1
      <3>4. redis_client' = (app' # "down") BY <3>1, <3>2, Zenon
      <3> QED BY <3>1, <3>3, <3>4
    <2> QED BY <2>3, <2>4, <2>5, <2>6
  <1>3. redis_in_use' = redis_in_use
    <2>1. CASE StartingUp
      <3>1. TurnsAt("ask") = {} /\ ProbesAt("ping") = {}
        <4>1. ~Busy BY <2>1 DEF StartingUp, AppInv, ServesOnly
        <4> QED BY <4>1 DEF Busy, Serving, Checking, TurnsAt, ProbesAt
      <3>2. redis_in_use = Cardinality(TurnsAt("ask")) + Cardinality(ProbesAt("ping"))
        BY DEF AppInv, AppTypeOK
      <3>3. Cardinality({}) = 0 BY FS_EmptySet
      <3>4. redis_in_use = 0 BY <3>1, <3>2, <3>3
      <3> QED BY <2>1, <3>4 DEF StartingUp
    <2> QED BY <2>1 DEF WarmUp, Stop, ShutDown
  <1>4. HistoryType' /\ \A p \in Probes : Recalls(p) /\ Seen(p)' BY Observed
  <1>5. AppTypeOK'
    BY <1>1, <1>2, <1>3, <1>4 DEF AppInv, AppTypeOK, TurnsAt, ProbesAt, HistoryType
  <1>6. Busy' = Busy BY <1>1 DEF Busy
  <1>7. Busy => app \in {"serving", "draining"} /\ app' \in {"serving", "draining"}
    BY DEF AppInv, ServesOnly, StartingUp, WarmUp, Stop, ShutDown
  <1>8. ServesOnly' BY <1>6, <1>7 DEF ServesOnly
  <1>9. \A p \in Probes : ProbeInv(p)' BY <1>1, <1>4, ProbeStays
  <1> QED BY <1>5, <1>8, <1>9 DEF AppInv

\* With the process go its connections and all requests under way.
LEMMA KilledInv ==
  ASSUME AppInv, Killed, AppObserves
  PROVE  AppInv'
  <1>1. /\ app' = "down" /\ redis_client' = FALSE /\ redis_in_use' = 0 /\ checked_out' = 0
        /\ turn' = [t \in Turns |-> IF turn[t] \in Serving THEN "lost" ELSE turn[t]]
        /\ probe' = [p \in Probes |-> IF probe[p] \in Checking THEN "lost" ELSE probe[p]]
        /\ UNCHANGED <<servicesVars, starts, checks>>
    BY DEF Killed
  <1>2. /\ \A t \in Turns : turn'[t] \in {"idle", "done", "lost"}
        /\ \A p \in Probes : probe'[p] \in {"idle", "lost"} \cup Answered
    BY <1>1 DEF AppInv, AppTypeOK, Checking, Answered, Serving
  <1>3. /\ TurnsAt("model")' = {} /\ ProbesAt("select")' = {}
        /\ TurnsAt("ask")' = {} /\ ProbesAt("ping")' = {}
    BY <1>2 DEF Answered, TurnsAt, ProbesAt
  <1>4. 0 \in 0..PoolSize /\ 0 \in 0..RedisPool /\ 0 = Cardinality({}) + Cardinality({})
    BY FS_EmptySet, ReadinessAssumption
  <1>5. HistoryType' /\ \A p \in Probes : Recalls(p) /\ Seen(p)' BY Observed
  <1>6. AppTypeOK'
    BY <1>1, <1>2, <1>3, <1>4, <1>5 DEF AppInv, AppTypeOK, HistoryType
  <1>7. ServesOnly' BY <1>2 DEF ServesOnly, Busy, Checking, Answered, Serving
  <1>8. ASSUME NEW p \in Probes PROVE ProbeInv(p)'
    <2>1. CASE probe'[p] = "lost"
      <3>1. \A s \in Names : "lost" \notin After(s) BY DEF After, Answered, Names
      <3> QED BY <1>1, <1>5, <2>1, <3>1 DEF ProbeInv, AppInv, Recalls
    <2>2. CASE probe'[p] = probe[p] BY <1>1, <1>5, <2>2, ProbeStays
    <2> QED BY <1>1, <2>1, <2>2
  <1> QED BY <1>6, <1>7, <1>8 DEF AppInv

\* A turn arrives, asks for revoked tokens, gets its connection or not, and gives it
\* back.
LEMMA TurnInv ==
  ASSUME AppInv, NEW t \in Turns, AppObserves,
         \/ TurnArrives(t) \/ BlacklistAnswers(t)
         \/ CheckOut(t) \/ CheckOutFails(t) \/ TurnEnds(t)
  PROVE  AppInv'
  <1>1. turn[t] \in Serving => app \in {"serving", "draining"}
    BY DEF AppInv, ServesOnly, Busy
  <1>2. /\ checked_out \in Nat /\ checked_out <= PoolSize /\ PoolSize \in Nat
        /\ redis_in_use \in Nat /\ redis_in_use <= RedisPool /\ RedisPool \in Nat
    BY Counted DEF AppInv
  <1>3. CASE TurnArrives(t)
    <2>1. /\ turn[t] = "idle" /\ app \in {"serving", "draining"}
          /\ UNCHANGED <<servicesVars, app, starts, redis_client, checked_out, probe, checks>>
      BY <1>3 DEF TurnArrives
    <2>2. CASE /\ redis_in_use < RedisPool /\ redis_in_use' = redis_in_use + 1
               /\ turn' = [turn EXCEPT ![t] = "ask"]
      <3>1. /\ checked_out' = checked_out + Is("ask", "model") - Is(turn[t], "model")
            /\ redis_in_use' = redis_in_use + Is("ask", "ask") - Is(turn[t], "ask")
            /\ checked_out' <= PoolSize /\ redis_in_use' <= RedisPool
        BY <1>2, <2>1, <2>2 DEF Is
      <3> QED BY <1>2, <2>1, <2>2, <3>1, TurnStep DEF Serving
    <2>3. CASE turn' = [turn EXCEPT ![t] = "done"] /\ UNCHANGED redis_in_use
      <3>1. /\ checked_out' = checked_out + Is("done", "model") - Is(turn[t], "model")
            /\ redis_in_use' = redis_in_use + Is("done", "ask") - Is(turn[t], "ask")
            /\ checked_out' <= PoolSize /\ redis_in_use' <= RedisPool
        BY <1>2, <2>1, <2>3 DEF Is
      <3> QED BY <1>2, <2>1, <2>3, <3>1, TurnStep DEF Serving
    <2> QED BY <1>3, <2>2, <2>3 DEF TurnArrives
  <1>4. CASE BlacklistAnswers(t)
    <2>1. /\ turn[t] = "ask" /\ app \in {"serving", "draining"}
          /\ redis_in_use' = redis_in_use - 1
          /\ UNCHANGED <<servicesVars, app, starts, redis_client, checked_out, probe, checks>>
      BY <1>1, <1>4 DEF BlacklistAnswers, Serving
    <2>2. PICK stage \in {"want", "done"} : turn' = [turn EXCEPT ![t] = stage]
      BY <1>4 DEF BlacklistAnswers
    <2>3. /\ checked_out' = checked_out + Is(stage, "model") - Is(turn[t], "model")
          /\ redis_in_use' = redis_in_use + Is(stage, "ask") - Is(turn[t], "ask")
          /\ checked_out' <= PoolSize /\ redis_in_use' <= RedisPool
      BY <1>2, <2>1 DEF Is
    <2> QED BY <1>2, <2>1, <2>2, <2>3, TurnStep DEF Serving
  <1>5. CASE CheckOut(t)
    <2>1. /\ turn[t] = "want" /\ checked_out < PoolSize
          /\ turn' = [turn EXCEPT ![t] = "model"] /\ checked_out' = checked_out + 1
          /\ UNCHANGED <<servicesVars, app, starts, redis_client, redis_in_use, probe, checks>>
      BY <1>5 DEF CheckOut, CanConnect
    <2>2. /\ checked_out' = checked_out + Is("model", "model") - Is(turn[t], "model")
          /\ redis_in_use' = redis_in_use + Is("model", "ask") - Is(turn[t], "ask")
          /\ checked_out' <= PoolSize /\ redis_in_use' <= RedisPool
      BY <1>2, <2>1 DEF Is
    <2> QED BY <1>1, <1>2, <2>1, <2>2, TurnStep DEF Serving
  <1>6. CASE CheckOutFails(t)
    <2>1. /\ turn[t] = "want" /\ turn' = [turn EXCEPT ![t] = "done"]
          /\ UNCHANGED <<servicesVars, app, starts, redis_client, redis_in_use, checked_out,
                         probe, checks>>
      BY <1>6 DEF CheckOutFails
    <2>2. /\ checked_out' = checked_out + Is("done", "model") - Is(turn[t], "model")
          /\ redis_in_use' = redis_in_use + Is("done", "ask") - Is(turn[t], "ask")
          /\ checked_out' <= PoolSize /\ redis_in_use' <= RedisPool
      BY <1>2, <2>1 DEF Is
    <2> QED BY <1>1, <1>2, <2>1, <2>2, TurnStep DEF Serving
  <1>7. CASE TurnEnds(t)
    <2>1. /\ turn[t] = "model" /\ turn' = [turn EXCEPT ![t] = "done"]
          /\ checked_out' = checked_out - 1
          /\ UNCHANGED <<servicesVars, app, starts, redis_client, redis_in_use, probe, checks>>
      BY <1>7 DEF TurnEnds
    <2>2. /\ checked_out' = checked_out + Is("done", "model") - Is(turn[t], "model")
          /\ redis_in_use' = redis_in_use + Is("done", "ask") - Is(turn[t], "ask")
          /\ checked_out' <= PoolSize /\ redis_in_use' <= RedisPool
      BY <1>2, <2>1 DEF Is
    <2> QED BY <1>1, <1>2, <2>1, <2>2, TurnStep DEF Serving
  <1> QED BY <1>3, <1>4, <1>5, <1>6, <1>7

\* A probe that is under way: what is known of it, and of who answers it.
LEMMA UnderWay ==
  ASSUME AppInv, NEW p \in Probes, probe[p] \in Checking
  PROVE  /\ app \in {"serving", "draining"} /\ redis_client = TRUE
         /\ ProbeInv(p) /\ checks[p] \in SUBSET Names
         /\ probe \in [Probes -> ProbeStages]
         /\ checks \in [Probes -> SUBSET Names]
         /\ checked_out \in Nat /\ checked_out <= PoolSize /\ PoolSize \in Nat
         /\ redis_in_use \in Nat /\ redis_in_use <= RedisPool /\ RedisPool \in Nat
  <1>1. app \in {"serving", "draining"}
    BY DEF AppInv, ServesOnly, Busy
  <1>2. redis_client = (app # "down") BY DEF AppInv, AppTypeOK
  <1>3. (app # "down") = TRUE BY <1>1
  <1>4. redis_client = TRUE BY <1>2, <1>3, Zenon
  <1> QED BY <1>1, <1>4, Counted DEF AppInv, AppTypeOK, ProbeStages

\* A probe that starts has seen what it can see, and has noted nothing.
LEMMA ReadyInv ==
  ASSUME AppInv, NEW p \in Probes, Ready(p), AppObserves
  PROVE  AppInv'
  <1>1. /\ app = "serving" /\ probe[p] = "idle"
        /\ probe' = [probe EXCEPT ![p] = "postgres"]
        /\ UNCHANGED <<servicesVars, app, starts, redis_client, redis_in_use, checked_out, turn,
                       checks>>
    BY DEF Ready
  <1>2. /\ probe \in [Probes -> ProbeStages] /\ checks \in [Probes -> SUBSET Names]
        /\ checks[p] = {}
    BY <1>1 DEF AppInv, AppTypeOK, ProbeStages, ProbeInv
  <1>3. checks' = [checks EXCEPT ![p] = {}] /\ checks'[p] = {} BY <1>1, <1>2
  <1>4. probe'[p] = "postgres" /\ \A s \in Names : "postgres" \notin After(s)
    BY <1>1, <1>2 DEF After, Answered, Names
  <1>5. Seen(p)' BY Observed
  <1>6. ProbeInv(p)' BY <1>3, <1>4, <1>5 DEF ProbeInv
  <1>7. /\ checked_out \in Nat /\ checked_out <= PoolSize /\ PoolSize \in Nat
        /\ redis_in_use \in Nat /\ redis_in_use <= RedisPool /\ RedisPool \in Nat
    BY Counted DEF AppInv
  <1>8. /\ checked_out' = checked_out + Is("postgres", "select") - Is(probe[p], "select")
        /\ redis_in_use' = redis_in_use + Is("postgres", "ping") - Is(probe[p], "ping")
    BY <1>1, <1>7 DEF Is
  <1> QED BY <1>1, <1>3, <1>6, <1>7, <1>8, ProbeStep DEF Checking

\* A check gets the connection it needs and has noted nothing yet.
LEMMA ConnectedInv ==
  ASSUME AppInv, NEW p \in Probes, probe[p] \in {"postgres", "redis"}, AppObserves,
         NEW next \in {"select", "ping"}, probe' = [probe EXCEPT ![p] = next],
         probe[p] = "postgres" <=> next = "select",
         checked_out' = checked_out + Is(next, "select"),
         redis_in_use' = redis_in_use + Is(next, "ping"),
         checked_out' <= PoolSize, redis_in_use' <= RedisPool,
         UNCHANGED <<servicesVars, app, starts, redis_client, turn, checks>>
  PROVE  AppInv'
  <1>1. /\ app \in {"serving", "draining"} /\ ProbeInv(p) /\ checks[p] \in SUBSET Names
        /\ probe \in [Probes -> ProbeStages] /\ checks \in [Probes -> SUBSET Names]
        /\ checked_out \in Nat /\ redis_in_use \in Nat
    BY UnderWay DEF Checking
  <1>2. checks' = [checks EXCEPT ![p] = checks[p]] /\ checks'[p] = checks[p]
    BY <1>1
  <1>3. probe'[p] = next BY <1>1
  <1>4. Recalls(p) /\ Seen(p)' BY Observed
  <1>5. \A s \in Names : next \in After(s) => probe[p] \in After(s)
    BY DEF After, Answered, Names
  <1>6. next = "select" => checks[p] = {} BY <1>1 DEF ProbeInv
  <1>7. ProbeInv(p)'
    BY <1>1, <1>2, <1>3, <1>4, <1>5, <1>6 DEF ProbeInv, Recalls
  <1>8. /\ Is(next, "select") - Is(probe[p], "select") = Is(next, "select")
        /\ Is(next, "ping") - Is(probe[p], "ping") = Is(next, "ping")
        /\ Is(next, "select") \in Nat /\ Is(next, "ping") \in Nat
        /\ Is(probe[p], "select") = 0 /\ Is(probe[p], "ping") = 0
    BY DEF Is
  <1>9. /\ checked_out' = checked_out + Is(next, "select") - Is(probe[p], "select")
        /\ redis_in_use' = redis_in_use + Is(next, "ping") - Is(probe[p], "ping")
    BY <1>1, <1>8
  <1> QED BY <1>1, <1>2, <1>7, <1>9, ProbeStep DEF Checking

\* A check ends: what it reports its history has seen, a server that does not answer
\* or a pool in use to the last, and what it does not report has answered.
LEMMA CheckInv ==
  ASSUME AppInv, NEW p \in Probes, NEW name \in Names, NEW ok \in BOOLEAN,
         NEW next \in {"redis", "mailpit"} \cup Answered,
         probe[p] \in Checking, Note(p, name, ok, next), AppObserves,
         ok => alive[name], ~ok => ~alive[name] \/ name \in crowded[p],
         next \in After(name),
         \A s \in Names : next \in After(s) => s = name \/ probe[p] \in After(s),
         next = "200" => checks'[p] = {}, next = "503" => checks'[p] # {},
         UNCHANGED <<servicesVars, app, starts, redis_client, turn>>,
         checked_out' = checked_out - Is(probe[p], "select"),
         redis_in_use' = redis_in_use - Is(probe[p], "ping")
  PROVE  AppInv'
  <1> DEFINE found == IF ok THEN checks[p] ELSE checks[p] \cup {name}
  <1>1. /\ app \in {"serving", "draining"} /\ ProbeInv(p)
        /\ probe \in [Probes -> ProbeStages] /\ checks \in [Probes -> SUBSET Names]
        /\ checked_out \in Nat /\ checked_out <= PoolSize /\ PoolSize \in Nat
        /\ redis_in_use \in Nat /\ redis_in_use <= RedisPool /\ RedisPool \in Nat
    BY UnderWay
  <1>2. found \in SUBSET Names BY <1>1
  <1>3. probe' = [probe EXCEPT ![p] = next] /\ checks' = [checks EXCEPT ![p] = found]
    BY DEF Note
  <1>4. /\ ok => name \in up[p]
        /\ ~ok => name \in down[p] \/ name \in crowded[p]
    BY <1>1 DEF ProbeInv, Seen
  <1>5. probe'[p] = next /\ checks'[p] = found BY <1>1, <1>3
  <1>6. Recalls(p) /\ Seen(p)' BY Observed
  <1>7. ProbeInv(p)'
    <2>1. \A s \in Names : next \in After(s) => s \in found \/ s \in up[p]
      BY <1>1, <1>4 DEF ProbeInv
    <2>2. found \subseteq down[p] \cup crowded[p] BY <1>1, <1>4 DEF ProbeInv
    <2>3. next \notin {"idle", "postgres", "select"} BY DEF Answered
    <2> HIDE DEF found
    <2> QED BY <1>5, <1>6, <2>1, <2>2, <2>3 DEF ProbeInv, Recalls
  <1>8. /\ Is(next, "select") = 0 /\ Is(next, "ping") = 0
        /\ Is(probe[p], "select") \in {0, 1} /\ Is(probe[p], "ping") \in {0, 1}
    BY DEF Is, Answered
  <1>9. /\ checked_out' = checked_out + Is(next, "select") - Is(probe[p], "select")
        /\ redis_in_use' = redis_in_use + Is(next, "ping") - Is(probe[p], "ping")
        /\ checked_out' <= PoolSize /\ redis_in_use' <= RedisPool
    BY <1>1, <1>8
  <1> HIDE DEF found
  <1> QED BY <1>1, <1>2, <1>3, <1>7, <1>9, ProbeStep DEF Checking

\* The stages that follow a check of the probe.
LEMMA Afterwards ==
  /\ "redis" \in After("postgres") /\ \A s \in Names : "redis" \in After(s) => s = "postgres"
  /\ "mailpit" \in After("redis")
  /\ \A s \in Names : "mailpit" \in After(s) => s = "redis" \/ "redis" \in After(s)
  /\ \A s \in Names : "mailpit" \in After(s) => s = "redis" \/ "ping" \in After(s)
  /\ \A next \in Answered :
        /\ next \in After("mailpit")
        /\ \A s \in Names : next \in After(s) => s = "mailpit" \/ "mailpit" \in After(s)
  BY DEF After, Answered, Names

\* The first check gets a connection, or notes that there is none.
LEMMA ConnectInv ==
  ASSUME AppInv, NEW p \in Probes, Connect(p), AppObserves
  PROVE  AppInv'
  <1>1. /\ probe[p] = "postgres"
        /\ UNCHANGED <<servicesVars, app, starts, redis_client, redis_in_use, turn>>
    BY DEF Connect
  <1>2. /\ ProbeInv(p) /\ checked_out \in Nat /\ checked_out <= PoolSize /\ PoolSize \in Nat
        /\ redis_in_use \in Nat /\ redis_in_use <= RedisPool
    BY <1>1, UnderWay DEF Checking
  <1>3. CASE /\ CanConnect
             /\ checked_out' = checked_out + 1
             /\ probe' = [probe EXCEPT ![p] = "select"]
             /\ UNCHANGED checks
    <2>1. /\ checked_out' = checked_out + Is("select", "select")
          /\ redis_in_use' = redis_in_use + Is("select", "ping")
          /\ checked_out' <= PoolSize /\ redis_in_use' <= RedisPool
      BY <1>1, <1>2, <1>3 DEF CanConnect, Is
    <2> QED BY <1>1, <1>3, <2>1, ConnectedInv
  <1>4. CASE /\ ~CanConnect
             /\ Note(p, "postgres", FALSE, "redis")
             /\ UNCHANGED checked_out
    <2>1. ~alive["postgres"] \/ "postgres" \in crowded[p]
      <3>1. CASE alive["postgres"]
        <4>1. checked_out = PoolSize BY <1>2, <1>4, <3>1 DEF CanConnect
        <4>2. "postgres" \in Full BY <4>1 DEF Full
        <4> QED BY <1>1, <1>2, <4>2 DEF ProbeInv, Seen, Checking
      <3> QED BY <3>1
    <2>2. /\ checked_out' = checked_out - Is(probe[p], "select")
          /\ redis_in_use' = redis_in_use - Is(probe[p], "ping")
      BY <1>1, <1>2, <1>4 DEF Is
    <2> QED BY <1>1, <1>4, <2>1, <2>2, Afterwards, CheckInv DEF Names, Checking
  <1> QED BY <1>3, <1>4 DEF Connect

\* The second check gets a connection, or is refused one.
LEMMA CheckRedisInv ==
  ASSUME AppInv, NEW p \in Probes, CheckRedis(p), AppObserves
  PROVE  AppInv'
  <1>1. /\ probe[p] = "redis" /\ redis_client' = TRUE
        /\ UNCHANGED <<servicesVars, app, starts, checked_out, turn>>
    BY DEF CheckRedis
  <1>2. /\ ProbeInv(p) /\ checked_out \in Nat /\ checked_out <= PoolSize
        /\ redis_in_use \in Nat /\ redis_in_use <= RedisPool /\ RedisPool \in Nat
        /\ redis_client = TRUE
    BY <1>1, UnderWay DEF Checking
  <1>3. redis_client' = redis_client BY <1>1, <1>2
  <1>4. CASE /\ redis_in_use < RedisPool
             /\ redis_in_use' = redis_in_use + 1
             /\ probe' = [probe EXCEPT ![p] = "ping"]
             /\ UNCHANGED checks
    <2>1. /\ checked_out' = checked_out + Is("ping", "select")
          /\ redis_in_use' = redis_in_use + Is("ping", "ping")
          /\ checked_out' <= PoolSize /\ redis_in_use' <= RedisPool
      BY <1>1, <1>2, <1>4 DEF Is
    <2> QED BY <1>1, <1>3, <1>4, <2>1, ConnectedInv
  <1>5. CASE /\ redis_in_use = RedisPool
             /\ Note(p, "redis", FALSE, "mailpit")
             /\ UNCHANGED redis_in_use
    <2>1. "redis" \in crowded[p]
      <3>1. "redis" \in Full BY <1>5 DEF Full
      <3> QED BY <1>1, <1>2, <3>1 DEF ProbeInv, Seen, Checking
    <2>2. /\ checked_out' = checked_out - Is(probe[p], "select")
          /\ redis_in_use' = redis_in_use - Is(probe[p], "ping")
      BY <1>1, <1>2, <1>5 DEF Is
    <2> QED BY <1>1, <1>3, <1>5, <2>1, <2>2, Afterwards, CheckInv DEF Names, Checking
  <1> QED BY <1>4, <1>5 DEF CheckRedis

\* The three questions to a server.
LEMMA ChecksInv ==
  ASSUME AppInv, ServicesTypeOK, NEW p \in Probes, AppObserves,
         Select(p) \/ Ping(p) \/ CheckMailpit(p)
  PROVE  AppInv'
  <1>1. probe[p] \in Checking BY DEF Select, Ping, CheckMailpit, Checking
  <1>2. checked_out \in Nat /\ redis_in_use \in Nat BY <1>1, UnderWay
  <1>3. \A s \in Names : alive[s] \in BOOLEAN BY Zenon DEF ServicesTypeOK
  <1>4. CASE Select(p)
    <2>1. /\ probe[p] = "select" /\ Note(p, "postgres", alive["postgres"], "redis")
          /\ checked_out' = checked_out - 1
          /\ UNCHANGED <<servicesVars, app, starts, redis_client, redis_in_use, turn>>
      BY <1>4 DEF Select
    <2>2. /\ checked_out' = checked_out - Is(probe[p], "select")
          /\ redis_in_use' = redis_in_use - Is(probe[p], "ping")
      BY <1>2, <2>1 DEF Is
    <2>3. "postgres" \in Names BY DEF Names
    <2> QED BY <1>1, <1>3, <2>1, <2>2, <2>3, Afterwards, CheckInv DEF Answered
  <1>5. CASE Ping(p)
    <2>1. /\ probe[p] = "ping" /\ Note(p, "redis", alive["redis"], "mailpit")
          /\ redis_in_use' = redis_in_use - 1
          /\ UNCHANGED <<servicesVars, app, starts, redis_client, checked_out, turn>>
      BY <1>5 DEF Ping
    <2>2. /\ checked_out' = checked_out - Is(probe[p], "select")
          /\ redis_in_use' = redis_in_use - Is(probe[p], "ping")
      BY <1>2, <2>1 DEF Is
    <2>3. "redis" \in Names BY DEF Names
    <2> QED BY <1>1, <1>3, <2>1, <2>2, <2>3, Afterwards, CheckInv DEF Answered
  <1>6. CASE CheckMailpit(p)
    <2>1. /\ probe[p] = "mailpit"
          /\ Note(p, "mailpit", alive["mailpit"], IF checks'[p] = {} THEN "200" ELSE "503")
          /\ UNCHANGED <<servicesVars, app, starts, redis_client, redis_in_use, checked_out, turn>>
      BY <1>6 DEF CheckMailpit
    <2>2. /\ checked_out' = checked_out - Is(probe[p], "select")
          /\ redis_in_use' = redis_in_use - Is(probe[p], "ping")
      BY <1>2, <2>1 DEF Is
    <2>3. "mailpit" \in Names BY DEF Names
    <2>4. CASE checks'[p] = {}
      <3>1. Note(p, "mailpit", alive["mailpit"], "200") BY <2>1, <2>4
      <3>2. "200" \in Answered /\ "200" # "503" BY DEF Answered
      <3> QED BY <1>1, <1>3, <2>1, <2>2, <2>3, <2>4, <3>1, <3>2, Afterwards, CheckInv
    <2>5. CASE checks'[p] # {}
      <3>1. Note(p, "mailpit", alive["mailpit"], "503") BY <2>1, <2>5
      <3>2. "503" \in Answered /\ "200" # "503" BY DEF Answered
      <3> QED BY <1>1, <1>3, <2>1, <2>2, <2>3, <2>5, <3>1, <3>2, Afterwards, CheckInv
    <2> QED BY <2>4, <2>5
  <1> QED BY <1>4, <1>5, <1>6

(***************************************************************************)
(* The theorems.                                                            *)
(***************************************************************************)
\* Nothing has been started; the services may be running.
LEMMA InitInv == Init => IInv
  <1> SUFFICES ASSUME Init PROVE IInv
    OBVIOUS
  <1>1. /\ ServicesInit /\ WaitInit /\ AppInit BY DEF Init
  <1>2. ServicesTypeOK
    <2>1. Absent \in Container /\ \A s \in Names : Running(s) \in Container
      BY DEF Absent, Running, Container
    <2>2. \A s \in Names : Running(s).status = "running" BY DEF Running
    <2>3. faults = 0 /\ 0 \in 0..Faults BY <1>1, ServicesAssumption DEF ServicesInit
    <2>4. CASE container = [s \in Names |-> Absent] /\ alive = [s \in Names |-> FALSE]
      BY <2>1, <2>3, <2>4 DEF ServicesTypeOK
    <2>5. CASE container = [s \in Names |-> Running(s)] /\ alive = [s \in Names |-> TRUE]
      BY <2>1, <2>2, <2>3, <2>5 DEF ServicesTypeOK
    <2> QED BY <1>1, <2>4, <2>5 DEF ServicesInit
  <1>3. ScriptInv
    BY <1>1, WaitAssumption
       DEF WaitInit, ScriptInv, WaitTypeOK, Early, Listed, Polled, Polling, Prompt, Bounded,
           SuccessSeen, FailureSeen, Files, Names
  <1>4. AppTypeOK
    <2>1. /\ TurnsAt("model") = {} /\ ProbesAt("select") = {}
          /\ TurnsAt("ask") = {} /\ ProbesAt("ping") = {}
      BY <1>1 DEF AppInit, TurnsAt, ProbesAt
    <2>2. /\ 0 \in 0..PoolSize /\ 0 \in 0..RedisPool /\ 0 \in 0..Starts
          /\ 0 = Cardinality({}) + Cardinality({})
      BY FS_EmptySet, ReadinessAssumption
    <2>3. redis_client = (app # "down")
      <3>1. redis_client = FALSE /\ app = "down" BY <1>1 DEF AppInit
      <3>2. (app # "down") = FALSE BY <3>1
      <3> QED BY <3>1, <3>2, Zenon
    <2> QED BY <1>1, <2>1, <2>2, <2>3 DEF AppInit, AppTypeOK
  <1>5. ServesOnly BY <1>1 DEF AppInit, ServesOnly, Busy, Checking, Serving
  <1>6. ASSUME NEW p \in Probes PROVE ProbeInv(p)
    <2>1. /\ probe[p] = "idle" /\ checks[p] = {} BY <1>1 DEF AppInit
    <2>2. \A s \in Names : "idle" \notin After(s) BY DEF After, Answered, Names
    <2> QED BY <2>1, <2>2 DEF ProbeInv, Seen, Checking
  <1> QED BY <1>2, <1>3, <1>4, <1>5, <1>6 DEF IInv, AppInv

\* The application's steps: one lemma each.
LEMMA AppNextInv ==
  ASSUME ServicesTypeOK, AppInv, AppNext
  PROVE  AppInv' /\ UNCHANGED servicesVars
  <1>1. AppStep /\ AppObserves BY DEF AppNext
  <1>2. UNCHANGED servicesVars
    <2>1. StartingUp \/ WarmUp \/ Stop \/ ShutDown \/ Killed => UNCHANGED servicesVars
      BY DEF StartingUp, WarmUp, Stop, ShutDown, Killed
    <2>2. \A t \in Turns :
              TurnArrives(t) \/ BlacklistAnswers(t) \/ CheckOut(t) \/ CheckOutFails(t) \/ TurnEnds(t)
              => UNCHANGED servicesVars
      BY DEF TurnArrives, BlacklistAnswers, CheckOut, CheckOutFails, TurnEnds
    <2>3. \A p \in Probes :
              Ready(p) \/ Connect(p) \/ Select(p) \/ CheckRedis(p) \/ Ping(p) \/ CheckMailpit(p)
              => UNCHANGED servicesVars
      BY DEF Ready, Connect, Select, CheckRedis, Ping, CheckMailpit
    <2> QED BY <1>1, <2>1, <2>2, <2>3 DEF AppStep
  <1>3. CASE StartingUp \/ WarmUp \/ Stop \/ ShutDown
    BY <1>1, <1>2, <1>3, LifespanInv
  <1>4. CASE Killed BY <1>1, <1>2, <1>4, KilledInv
  <1>5. ASSUME NEW t \in Turns,
               \/ TurnArrives(t) \/ BlacklistAnswers(t)
               \/ CheckOut(t) \/ CheckOutFails(t) \/ TurnEnds(t)
        PROVE  AppInv'
    BY <1>1, <1>5, TurnInv
  <1>6. ASSUME NEW p \in Probes,
               \/ Ready(p) \/ Connect(p) \/ Select(p)
               \/ CheckRedis(p) \/ Ping(p) \/ CheckMailpit(p)
        PROVE  AppInv'
    BY <1>1, <1>6, ReadyInv, ConnectInv, CheckRedisInv, ChecksInv
  <1> QED BY <1>1, <1>2, <1>3, <1>4, <1>5, <1>6 DEF AppStep

\* Every step keeps the three parts of the invariant.
LEMMA NextInv == IInv /\ [Next]_vars => IInv'
  <1> SUFFICES ASSUME IInv, [Next]_vars PROVE IInv'
    OBVIOUS
  <1>1. ServicesTypeOK /\ ScriptInv /\ AppInv BY DEF IInv
  <1>2. CASE WaitNext /\ UNCHANGED appVars
    <2>1. alive' = alive
      BY <1>2 DEF WaitNext, CheckPrerequisites, Up, GetDefinedServices, TimedOut, Query, Verdict,
         servicesVars
    <2>2. ServicesTypeOK'
      <3>1. CASE Up BY <1>1, <3>1, UpServices
      <3>2. CASE ~Up
        BY <1>1, <1>2, <3>2 DEF WaitNext, CheckPrerequisites, GetDefinedServices, TimedOut,
           Query, Verdict, servicesVars, ServicesTypeOK
      <3> QED BY <3>1, <3>2
    <2>3. ScriptInv'
      BY <1>1, <1>2, CheckPrerequisitesInv, UpInv, GetDefinedServicesInv, TimedOutInv, QueryInv,
         VerdictInv DEF WaitNext
    <2>4. AppInv' BY <1>1, <1>2, <2>1, AppStays
    <2> QED BY <2>2, <2>3, <2>4 DEF IInv
  <1>3. CASE GoOn
    <2>1. UNCHANGED <<servicesVars, appVars>> BY <1>3 DEF GoOn
    <2>2. ServicesTypeOK' BY <1>1, <2>1 DEF ServicesTypeOK, servicesVars
    <2>3. AppInv' BY <1>1, <2>1, AppStays DEF servicesVars
    <2> QED BY <1>1, <1>3, <2>2, <2>3, GoOnInv DEF IInv
  <1>4. CASE AppNext /\ UNCHANGED waitVars
    <2>1. AppInv' /\ UNCHANGED servicesVars BY <1>1, <1>4, AppNextInv
    <2>2. ServicesTypeOK' BY <1>1, <2>1 DEF ServicesTypeOK, servicesVars
    <2>3. ScriptInv' BY <1>1, <1>4, <2>1, ScriptStays DEF servicesVars
    <2> QED BY <2>1, <2>2, <2>3 DEF IInv
  <1>5. CASE Environment
    <2>1. ServicesTypeOK' BY <1>1, <1>5, ServicesKept DEF Environment
    <2> QED BY <1>1, <1>5, <2>1, EnvironmentScript, EnvironmentApp DEF IInv
  <1>6. CASE UNCHANGED vars
    <2>1. UNCHANGED <<servicesVars, waitVars, appVars>> BY <1>6 DEF vars
    <2>2. ServicesTypeOK' BY <1>1, <2>1 DEF ServicesTypeOK, servicesVars
    <2>3. ScriptInv' BY <1>1, <2>1, ScriptStays DEF servicesVars
    <2>4. AppInv' BY <1>1, <2>1, AppStays DEF servicesVars
    <2> QED BY <2>2, <2>3, <2>4 DEF IInv
  <1> QED BY <1>2, <1>3, <1>4, <1>5, <1>6 DEF Next, Quiescent

\* The invariant holds in every state of every composition of the script, the
\* services and the application.
THEOREM Invariant == Spec => []IInv
  <1> QED BY InitInv, NextInv, PTL DEF Spec

\* Variables keep their types, and the connections in use are those that turns and
\* probes hold.
THEOREM TypeCorrect == Spec => []TypeOK
  <1>1. IInv => TypeOK BY DEF IInv, ScriptInv, AppInv, TypeOK
  <1> QED BY <1>1, Invariant, PTL

\* When the compose file could be listed, the exit code of the waiting script is
\* justified by what Docker said while it polled, and it comes in bounded time,
\* whatever the services do.
THEOREM VerdictsSound == Spec => []VerdictSound
  <1>1. IInv => VerdictSound BY DEF IInv, ScriptInv, VerdictSound
  <1> QED BY <1>1, Invariant, PTL

\* The answers of /ready are justified by what the servers and the two pools did while
\* the probe ran: whatever it reports did not answer, or its pool was in use.
THEOREM ProbesTruthful == Spec => []ProbeTruthful
  <1>1. IInv => ProbeTruthful
    <2> SUFFICES ASSUME IInv, NEW p \in Probes
                 PROVE  /\ probe[p] = "200" => up[p] = Names
                        /\ probe[p] = "503" =>
                              checks[p] # {} /\ checks[p] \subseteq down[p] \cup crowded[p]
      BY DEF ProbeTruthful
    <2>1. ProbeInv(p) /\ up[p] \subseteq Names BY DEF IInv, AppInv, AppTypeOK
    <2>2. \A s \in Names : "200" \in After(s) BY DEF After, Answered, Names
    <2> QED BY <2>1, <2>2 DEF ProbeInv
  <1> QED BY <1>1, Invariant, PTL

=============================================================================
