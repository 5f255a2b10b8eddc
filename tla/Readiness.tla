------------------------------ MODULE Readiness ------------------------------
(***************************************************************************)
(* The application's life and its /ready endpoint (src/main.py), with the    *)
(* shared Redis client and its pool (src/core/redis.py), which every request *)
(* of a signed-in user asks for revoked tokens, and the connection pool of   *)
(* src/core/database.py, which a chat turn holds a connection of for as long *)
(* as the model answers.  A turn waits for a connection of the database      *)
(* until the pool's timeout; the Redis pool refuses at once.                 *)
(***************************************************************************)
EXTENDS Services, FiniteSets

CONSTANTS Turns,     \* requests of signed-in users that use the database
          Probes,    \* requests to /ready
          PoolSize,  \* pool_size and max_overflow together
          RedisPool, \* max_connections of the Redis pool
          Starts     \* bound on starts of the process

VARIABLES app,
          starts,
          redis_client,  \* _redis_client is set
          redis_in_use,  \* connections of the Redis pool in use
          checked_out,   \* connections of the database pool in use
          turn,          \* where a turn stands
          probe,         \* where a probe stands, or its status code
          checks,        \* the checks of a probe that were not "ok"
          up,            \* history: servers that answered at a moment of the probe
          down,          \* history: servers that did not
          crowded        \* history: pools the probe found in use to the last

histories == <<up, down, crowded>>
appVars == <<app, starts, redis_client, redis_in_use, checked_out, turn, probe, checks, histories>>

Checking == {"postgres", "select", "redis", "ping", "mailpit"}
Answered == {"200", "503"}

ASSUME ReadinessAssumption ==
    /\ PoolSize \in Nat \ {0} /\ RedisPool \in Nat \ {0} /\ Starts \in Nat
    /\ IsFiniteSet(Turns) /\ IsFiniteSet(Probes)

AppInit ==
    /\ app = "down" /\ starts = 0
    /\ redis_client = FALSE /\ redis_in_use = 0
    /\ checked_out = 0
    /\ turn = [t \in Turns |-> "idle"]
    /\ probe = [p \in Probes |-> "idle"]
    /\ checks = [p \in Probes |-> {}]
    /\ up = [p \in Probes |-> {}] /\ down = [p \in Probes |-> {}]
    /\ crowded = [p \in Probes |-> {}]

\* The pools with no connection left, by the check that needs one.
Full == {pool \in {"postgres", "redis"} :
            IF pool = "postgres" THEN checked_out = PoolSize ELSE redis_in_use = RedisPool}

\* What the servers do, and the pool it is about to use, is seen by the history of
\* every probe under way.
AppObserves ==
    LET seen(p, set) == IF probe'[p] \in Checking THEN set ELSE {} IN
    /\ up' = [p \in Probes |-> up[p] \cup seen(p, {s \in Names : alive'[s]})]
    /\ down' = [p \in Probes |-> down[p] \cup seen(p, {s \in Names : ~alive'[s]})]
    /\ crowded' = [p \in Probes |-> crowded[p] \cup ({probe'[p]} \cap Full')]

(***************************************************************************)
(* lifespan.                                                                *)
(***************************************************************************)
\* get_redis_client builds the client with an empty pool; nothing is sent yet.
StartingUp ==
    /\ app = "down" /\ starts < Starts
    /\ app' = "starting"
    /\ starts' = starts + 1
    /\ redis_client' = TRUE /\ redis_in_use' = 0
    /\ UNCHANGED <<servicesVars, checked_out, turn, probe, checks>>

\* ping: without an answer the process ends before it serves anything.
WarmUp ==
    /\ app = "starting"
    /\ app' = IF alive["redis"] THEN "serving" ELSE "down"
    /\ redis_client' = alive["redis"]
    /\ UNCHANGED <<servicesVars, starts, redis_in_use, checked_out, turn, probe, checks>>

\* The server is told to stop, and lets the requests under way end.
Stop ==
    /\ app = "serving"
    /\ app' = "draining"
    /\ UNCHANGED <<servicesVars, starts, redis_client, redis_in_use, checked_out, turn, probe, checks>>

Serving == {"ask", "want", "model"}

Busy ==
    \/ \E t \in Turns : turn[t] \in Serving
    \/ \E p \in Probes : probe[p] \in Checking

ShutDown ==
    /\ app = "draining" /\ ~Busy
    /\ app' = "down"
    /\ redis_client' = FALSE
    /\ UNCHANGED <<servicesVars, starts, redis_in_use, checked_out, turn, probe, checks>>

\* The process is killed, with its client, its pools and its requests.
Killed ==
    /\ app \in {"serving", "draining"}
    /\ app' = "down"
    /\ redis_client' = FALSE /\ redis_in_use' = 0
    /\ checked_out' = 0
    /\ turn' = [t \in Turns |-> IF turn[t] \in Serving THEN "lost" ELSE turn[t]]
    /\ probe' = [p \in Probes |-> IF probe[p] \in Checking THEN "lost" ELSE probe[p]]
    /\ UNCHANGED <<servicesVars, starts, checks>>

(***************************************************************************)
(* Requests of signed-in users.                                             *)
(***************************************************************************)
\* get_current_user: the blacklist is asked over a connection of the Redis pool,
\* which raises when all are in use.
TurnArrives(t) ==
    /\ app = "serving" /\ turn[t] = "idle"
    /\ \/ /\ redis_in_use < RedisPool
          /\ redis_in_use' = redis_in_use + 1
          /\ turn' = [turn EXCEPT ![t] = "ask"]
       \/ /\ redis_in_use = RedisPool
          /\ turn' = [turn EXCEPT ![t] = "done"]
          /\ UNCHANGED redis_in_use
    /\ UNCHANGED <<servicesVars, app, starts, redis_client, checked_out, probe, checks>>

\* is_jti_blacklisted: the connection goes back, and the request goes on unless its
\* token is revoked or Redis does not answer.
BlacklistAnswers(t) ==
    /\ turn[t] = "ask"
    /\ \/ alive["redis"] /\ turn' = [turn EXCEPT ![t] = "want"]
       \/ turn' = [turn EXCEPT ![t] = "done"]
    /\ redis_in_use' = redis_in_use - 1
    /\ UNCHANGED <<servicesVars, app, starts, redis_client, checked_out, probe, checks>>

\* The pool lends a connection that it has pinged or has just opened.
CanConnect == checked_out < PoolSize /\ alive["postgres"]

CheckOut(t) ==
    /\ turn[t] = "want" /\ CanConnect
    /\ turn' = [turn EXCEPT ![t] = "model"]
    /\ checked_out' = checked_out + 1
    /\ UNCHANGED <<servicesVars, app, starts, redis_client, redis_in_use, probe, checks>>

\* The database does not answer, or no connection came free within the pool's timeout.
CheckOutFails(t) ==
    /\ turn[t] = "want" /\ ~CanConnect
    /\ turn' = [turn EXCEPT ![t] = "done"]
    /\ UNCHANGED <<servicesVars, app, starts, redis_client, redis_in_use, checked_out, probe, checks>>

\* get_async_session: committed, rolled back or cancelled, the session is closed
\* and the connection goes back.
TurnEnds(t) ==
    /\ turn[t] = "model"
    /\ turn' = [turn EXCEPT ![t] = "done"]
    /\ checked_out' = checked_out - 1
    /\ UNCHANGED <<servicesVars, app, starts, redis_client, redis_in_use, probe, checks>>

(***************************************************************************)
(* /ready: three checks in turn, an error of one does not end the others.    *)
(***************************************************************************)
Ready(p) ==
    /\ app = "serving" /\ probe[p] = "idle"
    /\ probe' = [probe EXCEPT ![p] = "postgres"]
    /\ UNCHANGED <<servicesVars, app, starts, redis_client, redis_in_use, checked_out, turn, checks>>

\* What a check found is noted, and the next one begins.
Note(p, name, ok, next) ==
    /\ checks' = [checks EXCEPT ![p] = IF ok THEN @ ELSE @ \cup {name}]
    /\ probe' = [probe EXCEPT ![p] = next]

\* engine.connect
Connect(p) ==
    /\ probe[p] = "postgres"
    /\ \/ /\ CanConnect
          /\ checked_out' = checked_out + 1
          /\ probe' = [probe EXCEPT ![p] = "select"]
          /\ UNCHANGED checks
       \/ /\ ~CanConnect
          /\ Note(p, "postgres", FALSE, "redis")
          /\ UNCHANGED checked_out
    /\ UNCHANGED <<servicesVars, app, starts, redis_client, redis_in_use, turn>>

\* Mutant of Select: the connection of a statement that fails is kept.
SelectKeeps(p) ==
    /\ probe[p] = "select"
    /\ Note(p, "postgres", alive["postgres"], "redis")
    /\ checked_out' = IF alive["postgres"] THEN checked_out - 1 ELSE checked_out
    /\ UNCHANGED <<servicesVars, app, starts, redis_client, redis_in_use, turn>>

\* SELECT 1, and the connection goes back.
Select(p) ==
    /\ probe[p] = "select"
    /\ Note(p, "postgres", alive["postgres"], "redis")
    /\ checked_out' = checked_out - 1
    /\ UNCHANGED <<servicesVars, app, starts, redis_client, redis_in_use, turn>>

\* Mutant of CheckRedis: that there is a client is enough.
CheckRedisClient(p) ==
    /\ probe[p] = "redis"
    /\ redis_client' = TRUE
    /\ Note(p, "redis", TRUE, "mailpit")
    /\ UNCHANGED <<servicesVars, app, starts, redis_in_use, checked_out, turn>>

\* get_redis_client, and a connection for the ping: the pool raises when all are in
\* use, and Redis is reported as failed.
CheckRedis(p) ==
    /\ probe[p] = "redis"
    /\ redis_client' = TRUE
    /\ \/ /\ redis_in_use < RedisPool
          /\ redis_in_use' = redis_in_use + 1
          /\ probe' = [probe EXCEPT ![p] = "ping"]
          /\ UNCHANGED checks
       \/ /\ redis_in_use = RedisPool
          /\ Note(p, "redis", FALSE, "mailpit")
          /\ UNCHANGED redis_in_use
    /\ UNCHANGED <<servicesVars, app, starts, checked_out, turn>>

\* ping, and the connection goes back.
Ping(p) ==
    /\ probe[p] = "ping"
    /\ Note(p, "redis", alive["redis"], "mailpit")
    /\ redis_in_use' = redis_in_use - 1
    /\ UNCHANGED <<servicesVars, app, starts, redis_client, checked_out, turn>>

\* The SMTP banner, within the timeouts; then the answer, 200 if every check was "ok".
CheckMailpit(p) ==
    /\ probe[p] = "mailpit"
    /\ Note(p, "mailpit", alive["mailpit"], IF checks'[p] = {} THEN "200" ELSE "503")
    /\ UNCHANGED <<servicesVars, app, starts, redis_client, redis_in_use, checked_out, turn>>

AppStep ==
    \/ StartingUp \/ WarmUp \/ Stop \/ ShutDown \/ Killed
    \/ \E t \in Turns : \/ TurnArrives(t) \/ BlacklistAnswers(t)
                        \/ CheckOut(t) \/ CheckOutFails(t) \/ TurnEnds(t)
    \/ \E p \in Probes : \/ Ready(p) \/ Connect(p) \/ Select(p)
                         \/ CheckRedis(p) \/ Ping(p) \/ CheckMailpit(p)

\* The histories go with every step.
AppNext == AppStep /\ AppObserves

TurnsAt(stage) == {t \in Turns : turn[t] = stage}
ProbesAt(stage) == {p \in Probes : probe[p] = stage}

\* A connection is in use exactly while a turn or a check holds it, and a process
\* that serves has a Redis client.
AppTypeOK ==
    /\ app \in {"down", "starting", "serving", "draining"}
    /\ starts \in 0..Starts
    /\ redis_client = (app # "down")
    /\ redis_in_use \in 0..RedisPool
    /\ redis_in_use = Cardinality(TurnsAt("ask")) + Cardinality(ProbesAt("ping"))
    /\ checked_out \in 0..PoolSize
    /\ checked_out = Cardinality(TurnsAt("model")) + Cardinality(ProbesAt("select"))
    /\ turn \in [Turns -> {"idle", "done", "lost"} \cup Serving]
    /\ probe \in [Probes -> {"idle", "lost"} \cup Checking \cup Answered]
    /\ checks \in [Probes -> SUBSET Names]
    /\ up \in [Probes -> SUBSET Names] /\ down \in [Probes -> SUBSET Names]
    /\ crowded \in [Probes -> SUBSET {"postgres", "redis"}]

(***************************************************************************)
(* Properties.                                                              *)
(***************************************************************************)
\* "ready" means that each of the three servers answered at a moment of the probe,
\* not all at the same one; "degraded" means that something was reported, and each
\* server reported did not answer at a moment of the probe or had the pool in front
\* of it in use to the last: an instance whose turns wait for the model is taken for
\* one without a database, and one whose turns ask for revoked tokens for one
\* without Redis.
ProbeTruthful ==
    \A p \in Probes :
        /\ probe[p] = "200" => up[p] = Names
        /\ probe[p] = "503" => checks[p] # {} /\ checks[p] \subseteq down[p] \cup crowded[p]

=============================================================================
