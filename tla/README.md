# fastapi-bootstrap: TLA+ models, model checks and proofs

This directory holds the TLA+ development for the FastAPI back end under `src/src`: an auth
domain (JWT pairs, refresh-token rotation, password reset, OAuth, RBAC) and a chat domain (an LLM
proxy with conversations), over PostgreSQL, Redis and an SMTP server.

`PROJECT.json` lists the components, the runs, the mutants that show each property can fail, the
source lines of every definition, the hazards and the findings.

## The system

| Component | State | Operations | Talks to |
|---|---|---|---|
| Auth sessions (`domains/auth/service`, `repository`, `router`) | `refresh_tokens`, `password_resets`, `users.hashed_password`; the `jwt:blacklist:` keys in Redis | login, refresh, logout, password-reset request and confirmation | database session, Redis, mail |
| Signup and e-mail verification (same files) | `users`, `email_verifications`, `user_roles` | signup, verify-email | database session, mail |
| OAuth provisioning (`auth_router`, `oauth/*`) | `oauth:state:` keys, `oauth_accounts`, `users` | login URL, callback | Redis, provider, database session |
| Access tokens and RBAC (`domains/auth/security.py`) | the blacklist with its TTLs; roles and permissions | issue, decode, `get_current_user`, `require_permission`, blacklisting | Redis, database session |
| Chat conversations (`domains/chat/router`, `repository`) | `conversations`, `messages` | create, list, get, send a message (JSON or SSE), auto-title | database session, LLM client |
| LLM client and routing (`llm_factory`, `llm_client`, `container`, `infra/llm`) | the settings a process read once | build the model string and arguments, `/complete`, `/stream`, `/provider` | configuration, LiteLLM |
| Database sessions (`core/database.py`) | one transaction per request, a pool of 5 + 10 connections | open, commit or roll back in the dependency's teardown | PostgreSQL |
| Domain events (`domains/shared/events.py`) | handler lists | subscribe, publish, clear | handlers |
| Start-up and readiness (`main.py`, `core/redis.py`, `scripts/wait_for_services.py`) | the Redis client, the pool, polled container health | wait for containers, lifespan, `/ready` | Redis, database, SMTP, docker |
| Configuration (`core/config.py`) | settings | validate, derive URLs | environment |

Everything runs in one asyncio process (any number of them may share the database), so handlers
interleave at their `await`s. What is hard here:

* **Transactions against answers.** `get_async_session` commits in the teardown of a `yield`
  dependency, which FastAPI runs after the answer is sent; only `refresh()` commits before, because
  it opens its own `transaction()`. A client can act on an answer whose rows no other request can
  see yet, and a commit can fail after a 2xx.
* **Rows read without a lock.** At READ COMMITTED a bulk `UPDATE` works on a snapshot, waits for
  the rows others hold and tests them again; rows inserted meanwhile are not seen. Reset tokens and
  logout look a row up with a plain `SELECT` and update it afterwards. A user, the roles and the
  permissions are three statements with a snapshot each.
* **Exceptions inside transactions.** Raising leaves `transaction()` and undoes what was done in it.
* **Waiting.** Bulk `UPDATE`s lock rows in no fixed order; PostgreSQL breaks the deadlocks. A chat
  turn holds a pooled connection for as long as the model answers.
* **Two stores.** Redis is written at once, the database at commit; one can fail without the other.
* **Three clocks.** An access token expires with a whole second, its blacklist key a whole number of
  seconds after an instant, and both are compared with a clock in between.
* **Things read before an await and used after it.** The bus pairs results with a list of handlers
  that others may have extended; a turn decides on a title from what it read before the model was
  called; an answer names the model of the settings at its end.
* **Services that come and go** under a script that asks for each of them once, and under a probe
  that looks at one after the other.

What makes each component correct is stated where it is modelled below.

## Modules

| Module | Contents |
|---|---|
| `RowStore` | The database as the handlers use it: committed and newest version of a row, row locks, commit and rollback. Instantiated by every module with a transaction. |
| `AuthSessions` | The five endpoints above, one action per piece of a handler between two awaits; the properties; the refinement mapping; the inductive invariant; the mutants, each before the definition it replaces. |
| `SessionChains` | What the auth domain promises of refresh tokens, without requests or transactions: chains that are opened, rotated and revoked in one step. |
| `AuthSessionsProofs` | Proof of the inductive invariant, of type correctness, of one live token per family, that revocations are final and that `AuthSessions` implements `SessionChains`. |
| `MCAuthSessions` | Definitions that the `.cfg` files of `AuthSessions` use. |
| `AuthSessionsOutcomes` | Proof of what requests have achieved once they answer: the remaining properties of `AuthSessions`, from a strengthened invariant. |
| `Accounts` | Signup, e-mail verification and OAuth callback over the unique indexes of `users` and `oauth_accounts`, with the nonces in Redis and the mails. |
| `AccountBook` | What the auth domain promises of accounts, without requests or transactions: an address is entered once, with its token or its identity, in one step. |
| `AccountsProofs` | Inductive invariant of `Accounts`, proof of every safety property, that waiting ends and that `Accounts` implements `AccountBook`. |
| `AccessTokens`, `MCAccessTokens` | Access tokens in time: minting, the dependencies of a route, the blacklist and its TTL, an operator who changes the account. |
| `AccessTokensProofs` | Inductive invariant of `AccessTokens` and proof of every property. |
| `ChatTurns` | `send_message` of one conversation: what each turn stores, streams and reads, and the auto-title; its inductive invariant. |
| `ChatLog` | What the chat domain promises of a conversation, without requests or transactions: a log that turns enter whole, prompts that are the log, a title that a first turn may give. |
| `ChatTurnsProofs` | Proof of that invariant, of every safety property of `ChatTurns` and that it implements `ChatLog`. |
| `ModelCalls`, `MCModelCalls` | Which model a request reaches and what comes back, over settings read once per process: the two routings as operators, `/complete`, `/stream`, `/provider`. |
| `ModelCallsProofs` | Inductive invariant of `ModelCalls` and proof of every property. |
| `EventBus`, `MCEventBus` | `subscribe`, `publish` and `clear` over list objects. |
| `EventBusProofs` | Inductive invariant of `EventBus` and proof of its property. |
| `Services` | The containers as Docker sees them and the servers in them; extended by the next two. |
| `WaitForServices` | `scripts/wait_for_services.py`: compose up, polling under one deadline, exit code. |
| `Readiness` | The application's life, its pool and Redis client, and `/ready`. |
| `Startup`, `MCStartup` | The composition: services, script and application. |
| `StartupProofs` | Inductive invariant of `Startup` and proof of every property. |

### AuthSessions and the code

`db[o]` is the committed row `o`, `work[o]` its newest version, `lock[o]` the request whose
transaction holds it. A refresh token is its rotation family, its `revoked` flag and
`replaced_by_jti`; a reset token its `used` flag; a user the number of password changes. `pc[r]` is
the next await of request `r`; `job[r]` what the client asked for; `new[r]` the token the handler
generated; `snap[r]` the rows the snapshot of its bulk `UPDATE` matched; `ans[r]` what the client
was told; `known` the tokens clients hold (they can present no others); `blacklist` the Redis keys.

* `refresh`: `RefreshLock` is `SELECT ... FOR UPDATE` with the tests on the row it returns;
  `RefreshMissing` a row that is not there (its token was answered by a login whose commit is still
  due, or was lost); `RefreshReject` the expired row or deactivated user; `RefreshIssue` and
  `RefreshRotate` the two statements of a rotation; then the commit on leaving `transaction()` and
  the answer, in this order. The reuse branch runs the bulk `UPDATE` (`SweepBegin`, `SweepRow`) and
  raises (`RefreshReuse`): the rollback is part of the action.
* `login`: accepted or refused credentials, the `INSERT`, the answer, then the commit.
* `logout`: the blacklist test of `get_current_user`, the unlocked lookup, the `UPDATE` by jti, the
  Redis key, the answer, then the commit.
* `password-reset`: the bulk `UPDATE` of earlier tokens, the `INSERT`, the mail (delivered or not),
  the answer, then the commit.
* `password-reset/confirm`: the unlocked lookup, the `UPDATE` by id, the password, the bulk
  revocation, the answer, then the commit.

`Fail` is every exception: rollback before the answer, or a lost commit after it. `ConnectionLost`
may strike a request at any await, which covers a lost answer of `refresh` (committed, the client
keeps the old token and may present it again). `DeadlockVictim` is PostgreSQL's deadlock detection.

Abstractions: the wrong secret, the wrong subject and the tampered token end like a rejection;
expiry is a choice (`RefreshReject`, `ConfirmReject`); a jti is never generated twice; a password is
its number of changes. Clients present tokens they were given; a token that does not decode is
presented to logout as `None`.

### Accounts and the code

A user row is keyed by its address (`ix_users_email`) and carries the id, which is the request that
inserted it, whether it has a password (`local`) and `is_verified`; a verification row belongs to
the signup that made it; an OAuth account is keyed by provider and subject
(`uq_oauth_provider_uid`). `Insert` is an `INSERT` under a unique index: it waits while another
transaction has inserted the key and is refused (`SignupTaken`, 409; `OAuthTaken`, an uncaught
`IntegrityError`, 500) once the key is committed. `pc[r]` is the next await, `job[r]` the arguments
and the user id the handler found or made, `mailed` the tokens in users' hands, `nonces` the
`oauth:state:` keys. The mail goes out before the commit and the commit may be lost, so a link can be
followed before its row is visible, or never work. The nonce is read and deleted by two commands.
Expiry and a nonce nobody stored are choices of `VerifyReject` and `CheckState`. The role and refresh
token rows of an account are of no interest to other requests and are left out; so are the answers.

`Book` maps the committed tables to `AccountBook`: `users` is `db` at the addresses, `tokens` whether
the verification row of an account is missing, open or used, `linked` the user of an OAuth row. What
the handlers hold uncommitted is not in the book. `WaitsFor(r, q)` says that the next statement of `r`
needs a unique index entry or a row that `q` holds; on the instance of `accounts`, TLC has found it
true of some `q` in exactly the states where `r` is under way and `Handle(r)` is not enabled.

### ChatTurns and the code

A turn is one request and one database session. `db` holds its question, its reply and the
conversation's title; `txn[t]` numbers the transactions of a turn, which is what `created_at`
(`now()`) tells apart; `hist[t]` is the prompt; `made[t]` is `collected_chunks`; `told[t]` the last
thing the client heard. JSON and streamed turns share the steps up to the model (`Load`, `Ask`,
`ReadHistory`) and from the reply on (`StoreReply`, `CommitReply`, the title). A client that closes a
stream cancels the task that runs the generator. What happens then depends on where it stands:
before the first chunk nothing is stored; waiting for the model, the `INSERT` of the `finally` block
is cancelled as well (`LeaveCancelled`); suspended in a `yield`, the generator is finalised later by
the event loop, on the session that was closed meanwhile, in a new transaction (`LeaveSuspended`,
`LateReply`); in the `finally` block, what is not committed is lost (`LeavePersisting`). A model that
fails makes a JSON turn a 502 with a rollback, and a stream an error event after which the `finally`
block stores what was collected.

`Log` maps the state to `ChatLog`: the log is the set of committed messages, `prompt` the history a
turn read, `heard` the JSON answer or the 502 (events of a stream, and a 500, promise nothing of the
log), `gone` the turns whose client closed the stream. In `ChatLog` a turn enters the log in one step
(`Exchange`), but for two ways the code has to store half of one: a stream that brought no chunk, or
that its client left, stores its question (`AskAlone`), and one that was suspended when its client
left stores its reply later (`ReplyAlone`), after the question or, when the teardown failed, without.

### AccessTokens and the code

Time runs in ticks, `Second` of them to a second: `exp[t]` is the claim in whole seconds, `until[t]`
the tick at which Redis drops `jwt:blacklist:<jti>`. `Decodes` is jose's comparison (a token is
good through the whole second of its `exp`); `SecondsUntil` is `_seconds_until`, rounded down and at
least one. A request is the chain of dependencies of a route: `Start` (header, decoding and type),
`CheckBlacklist`, `ReadUser`, `ReadRoles`, `ReadPermissions` (the row and the two `selectinload`
statements, then 401, 403 or the handler); a logout goes on to `Blacklist`. `RequestFails` is a
Redis or database error: 500, nothing set. `Administer` is whatever an operator changes of the
account meanwhile. `loggedOut`, `job.late`, `job.at` and `saw` are history: which logouts had answered
when a request was made, when it asked the blacklist, and what the account was while it ran. One
account stands for all, since no step compares two; the rows of a logout are in `AuthSessions`.

### EventBus and the code

`handlers[t]` is the list *object* of a type, `list[l]` its contents: `publish` keeps a reference
across its `await` (`held`), `subscribe` appends in place, `clear` forgets the objects. `run` and
`result` are the coroutines `gather(return_exceptions=True)` started and their outcomes; `log` the
error records, each with the handler `zip` paired it with. A handler may subscribe others, so
`Subscribe` may happen at any moment; a cancelled `publish` ends once its handlers have.

### ModelCalls and the code

`env` is `.env`, `settings` what `get_settings()` cached, `call[r]` the arguments of the
`ChatLiteLLM` built for request `r`. `LitellmModel` (`config.py`) and `FactoryModel`
(`llm_factory.py`) are the two routings, `ApiKey` and `ApiBase` the third place a provider is looked
at. `made` and `fate` are what the provider did, `sent` the SSE events of the answer. `EditEnv` and
`Restart` are the operator. Names, keys and addresses are opaque, but for the blanks around the name
of an Azure deployment, which one routing strips (`Stripped`) and the other keeps; generation
parameters, which no decision depends on, are left out. `FactoryModel` routes no call: nothing in
`src/src` uses it, and it is there to be compared with.

### Start-up and the code

`Services` has what `docker inspect` says of a container beside whether its server answers; they
disagree between two healthchecks. `WaitForServices` has one action for each stage of the script and
`Query` for a turn of its loop: the deadline is tested before a query, not during it. `Readiness` has
the lifespan (`StartingUp`, `WarmUp`, `Stop`, `ShutDown`, `Killed`), requests of signed-in users
(turns), and the three checks of `/ready`, each of which may fail without ending the others. A turn
first asks Redis for its token (`TurnArrives`, `BlacklistAnswers`), then checks a connection of the
database out (`turn = "want"` while it waits; `CheckOutFails` is the timeout, or a database that does
not answer) and returns it (`TurnEnds`). Both pools are bounded: the database's makes requests wait,
the one of the Redis client (`max_connections`) raises at once, for a turn, which ends with a 500,
and for `CheckRedis`, which then reports Redis as failed. `Ping` is the answer to a ping that was
sent. `Startup` puts the three together: the application starts when the script has ended with 0, and
services fail under both. `healthy`, `troubled`, `up`, `down`, `crowded` are histories of what was the
case while the script polled or a probe ran; `AppObserves` adds to the last three at every step, of
the application and of the services. `GetDefinedServices` has the failed `docker compose config`,
which is taken for a file without services.

## Runs

| Run | Question | Bounds |
|---|---|---|
| `sessions` | Is there one live token per family, are successor and link visible together, is a token exchanged once, is an answered refresh durable, is revocation final, does a reset revoke every session it saw, do earlier reset tokens stop working, do used ones stay used, do the committed tokens implement `SessionChains`? Is `IInv` an invariant? | 3 requests of login, refresh, logout, reset request, reset confirmation; 5 tokens, 2 at the start; 4 reset tokens, 1 at the start |
| `progress` | Does every session request end? | 3 requests over 3 rows locked in different orders, under fairness |
| `accounts` | Are accounts whole, made once, verified by their token; are OAuth accounts linked to a user that exists; is every commit one entry of `AccountBook`; does waiting end, and every request, without help against deadlocks? | 3 requests, one address and the empty one, 2 subjects of one provider, one nonce at a time |
| `tokens` | How long does a revocation hold? Was what a request was allowed granted at one moment? | 3 requests, 1 token, 2 roles; 2 ticks to a second, lifetime 2 s, 6 ticks, 2 edits |
| `chat` | Is a reply stored with its question, does a prompt hold the turns answered before, does a refused turn leave nothing, whose title is kept, do the turns implement `ChatLog`, does every turn end? Is its `IInv`, of which `TypeOK` is a part, an invariant? | 2 turns, each JSON or streamed; title given or not |
| `models` | Do all requests of a process reach one model, the one answers name? For which settings do the two routings agree, and has a call the key and address of its provider? Can a client tell a complete stream from a cut one? | 2 requests; two model names, one of them blank; an Azure deployment that is missing, plain, padded with blanks or nothing but blanks; keys of none, the own or all providers; 2 chunks, 1 edit, any restarts |
| `events` | Is every handler found run to its end and its error logged under its name? | 2 events of one type, 2 handlers, 2 list objects of up to 2 handlers |
| `startup` | Are exit codes and status codes justified by what the services did? Are connections returned? | 3 services, 1 fault; timeout 4 s, poll 2 s, query up to 1 s; 2 turns and 1 probe over two pools of 2; 2 starts |

The bounds name how many requests run at once. Three let two interfere while a third replays what
they left; the turns of a conversation meet in its title row and in what the later one reads of the
earlier. More tokens than requests plus initial sessions are never generated. A nonce identifier is
stored again once the request that used it has ended, so one stands for any number of logins, one
after the other, and two callbacks may still race for it. In `tokens` half a second is the error that
rounding makes, and the clock runs past the `exp` of every token minted; two edits are one more than
`AllowedMeansHeld` allows for, so that its condition is met and missed. In `models` one edit gives
`.env` and the process different settings, a restart either. In `events` a second list object lets a
`clear` separate a publication from later subscriptions. In `startup` queries of three services and a
poll exceed the timeout, so the deadline passes before the last service, and two turns exhaust
either pool under a probe; one fault suffices for each of the verdicts to be wrong about. Requests,
and tokens no session starts with, are interchangeable, hence the
symmetry of the runs; those with liveness properties have none.

The fair specifications add weak fairness of `Handle`, what the event loop, the database, Redis and
the model do for a request once it is made: the loop runs every ready task, statements and model
answers end, and (`progress` only) the database breaks a deadlock after `deadlock_timeout`. Clients'
calls and departures, lost connections and failing statements are not owed. A request that waits for
a row is not enabled, so the fairness promises nothing about who gets the row next.

Four more runs check what docstrings and comments say and the code does not do. TLC finds a
counterexample to each:

* `reuse_revokes`: the reuse branch of `refresh()` raises inside `transaction()`, so the revocation
  of the user's sessions is rolled back (`auth_service.py:317`).
* `reset_token_once`: two confirmations with one reset token both succeed (`auth_service.py:407`).
* `one_per_provider`: people whose provider tells no address all become the user with address `""`
  (`auth_service.py:455`).
* `all_healthy`: when `docker compose config` fails, the script finds no services, asks for none and
  ends with 0 (`wait_for_services.py:188`, `:358-361`), which its docstring (line 25) explains as
  "모든 서비스 healthy". `VerdictSound` of `startup` says what 0 means otherwise.

## Proofs

### Auth sessions

For any sets of requests, users and tokens, with `SetsAssumption` (the kinds of keys are disjoint,
`None` is none of them, every token is generated for one user):

* `Invariant`: `Spec => []IInv`. `OneLivePerFamily` alone is not inductive: that a refresh may
  insert a successor depends on the row lock it took earlier and on the token still being live when
  it commits. `IInv` says who holds what and what they made of it: an unlocked row has one version
  (`UnlockedSettled`); a request outside a transaction holds nothing (`HoldsNothing`); a refresh
  between acceptance and commit holds its live token and its unpublished successor (`HoldsToken`);
  every token row a request holds is one of five drafts (`Drafts`); targets of updates exist;
  families are rooted. The proof has one lemma per action; `OthersInv` does the other requests'
  share once and for all, since a step of `r` touches only rows `r` holds or nobody holds.
* `TypeCorrect`, `OneLive`: its consequences.
* `RevocationsFinal`: `Spec => RevocationFinal`, from `OnlyCommitsPublish` and `CommitTokens`.
* `Refinement`: `Spec => ImplementsChains`. A commit is the only step that changes the committed
  tokens, and it is an `Open`, a `Rotate`, a `Revoke`, or nothing.

* `Outcomes`: `Spec => []OInv` (`AuthSessionsOutcomes`), which adds to `IInv` what a request has
  achieved at each stage and what becomes of it when it commits: the rows a committed rotation left
  are there and linked (`Durable`); a reset holds, and then has revoked, all of its snapshot and
  nothing of other users (`Revoking`); a request for a reset has used up its snapshot before it mails
  the new token (`UsingUp`); and of the table, that links lead to rows (`LinksResolve`) and used
  tokens stay used in the newest version too (`UsedStays`). That a token is exchanged once follows
  from `LinksResolve`: the second exchange would publish a row that a link already leads to. The
  proof sorts the actions by what they do to the table (end a transaction, write a row, lock one,
  none of these). `OInv` has been checked by TLC, on the instance of `sessions` and on one
  with two users.
* `SuccessorsLinked`, `OneExchange`, `AnswersDurable`, `ResetsCover`, `RequestsCover`, `UsesFinal`,
  `ResetsSpareOthers`: the remaining safety properties of `AuthSessions`, from `OInv`. No run checks
  the last one (`ResetSparesOthers`): it needs two accounts, and the user of a row never changes.

### Chat turns

For any number of turns, with `ChatAssumption` (titles and turns are distinct, `None` is no value):

* `Invariant`: `Spec => []IInv`. None of the properties is inductive: that a committed reply has its
  question depends on the turn still holding the uncommitted question when it stores the reply; that
  a title comes from a first turn depends on what the turn read before it called the model. `IInv`
  ties the rows of a turn to the step it has reached: nobody else writes them (`OwnRows`); the
  question is held, uncommitted, while the model answers (`QuestionStage`); the reply is held for one
  await only (`ReplyStage`); a prompt holds the turns answered before, and a turn that generates a
  title found no title and no reply (`PromptStage`); the title row is held exactly by the turn about
  to commit a title, with its own, and a given title is one no turn has read as missing
  (`TitleStage`). For the refinement it also says that a question which is held is not committed yet,
  that of the turns whose client has gone only those in teardown hold one, and that no reply is
  committed before the step that does so: without these, a commit might enter a message twice. One
  lemma per action; `LocalStep` and `EndStep` do the shares of the other turns and of the title for
  steps that leave the database alone and for those that end a transaction.
* `TypeCorrect`, `RepliesHaveQuestions`, `PromptsSeeAnswers`, `FailuresLeaveNothing`,
  `TitlesByFirstTurns`: its consequences.
* `GivenTitlesKept`: the action property `GivenTitleKept`, from the invariant and `OnlyCommits`. No run
  checks it, since `ImplementsLog` says more.
* `LogImplemented`: `Spec => ImplementsLog`. `Silent` disposes of the steps that commit nothing, read no
  prompt, tell no client its answer and lose no client. The others have a lemma each: reading the
  history is `Prompt` (`ReadHistorySeen`: nobody else's uncommitted message is visible); a commit is
  sorted by the step the turn is at, `Exchange` or `ReplyAlone` at the reply (`CommitSeen`), `Name` at the
  title (`CommitTitleSeen`), `AskAlone` or nothing at the teardown (`TeardownSeen`), each of the first
  two possibly together with the client leaving (`LeavesSeen`), `Exchange` also with a 500
  (`BreakSeen`). The properties above say what states can look like; this says what steps there are:
  nothing ever leaves the log, nothing of a refused turn enters it later, and no answer runs ahead
  of it.

### Accounts

For any requests, addresses, providers, subjects and nonces, with `AccountsAssumption` (kinds of keys
are disjoint, `None` is no value):

* `Invariant`: `Spec => []IInv`. `SignupWhole` is not inductive: that a user and its verification
  appear together depends on the transaction still holding both. `IInv` says which rows a request
  holds at each await and what it made of them (`Holds`, `NewRows`, `SignupInv`, `VerifyInv`,
  `OAuthInv`), who made each row of the three tables (`UserRow`, `TokenRow`, `AccountRow`), and that
  a row nobody holds has one version. `OthersInv` does the share of the other requests,
  `LocalStep`, `WriteStep`, `CommitStep` and `RollbackStep` what the four kinds of steps have in
  common; each action has a lemma over these.
* Theorems for `TypeOK`, `SignupWhole`, `LinkedToUser`, `VerifiedByToken`, `CreatedOnce` and the
  action property `AccountsKept` (`CommittedKept`), which no run checks, since `ImplementsBook` says
  more.
* `WaitingEnds`: `Spec => []WaitsEnd`, the safety half of `EveryRequestEnds` for any number of requests.
  A request that another waits for is under way, and if it waits itself, it is a callback at its
  `INSERT` into `oauth_accounts`, waiting for one at its commit (`LastStepsRun`, `AwaitedHolds`, from
  `HeldRows`: exactly which rows a request holds at each await). So chains of waiting requests have
  two links at most and no circles, although callbacks hold an address while they wait for an account.
* `BookImplemented`: `Spec => ImplementsBook`. Only commits are seen (`DatabaseKept`); a signup's is a
  `Register` (`SignupRefines`), a verification's a `Verify`, or nothing when another request has used the
  token already (`VerifyRefines`), a callback's a `Join`, a `Link`, or nothing when the account was there
  (`CallbackRefines`). For this `IInv` also says that a token row was issued by a signup
  (`IssuedBySignup`) and that a callback which found its account made no user.

### Access tokens

For any tokens, roles and requests, any number of ticks to a second and any lifetime
(`AccessTokensAssumption`: at least one of each):

* `Invariant`: `Spec => []IInv`. Of a token logged out it says that its key outlives the last second
  of its life, or that this second has come (`Kept`; `KeyLongEnough` is the arithmetic of the
  rounding); of a late request, when it can have passed the blacklist (`Credentials`); of a request
  on its way to its route, which states of the account it has seen and which of them its readings are
  from, and that two such states, when there are no more, differ in one column (`Sees`, `Near`).
* Theorems for `TypeOK`, `RevokedUntilLastSecond` and `AllowedMeansHeld`.

### Model calls

For any models, deployments, environments and requests, with `ModelCallsAssumption` (the empty
deployment is one, and trims to itself):

* `RoutingsCompared`: the routings of `config.py` and `llm_factory.py` build the same model string for
  exactly those settings that are `RoutedAlike`: any provider but Azure, and an Azure deployment
  without blanks around it (or one that is nothing but the blanks which are the model's name as well).
  For the others they differ, whatever the names are. The key of a call is its provider's own, or
  none, and it has a base address exactly for the providers that need one.
* `Invariant`: `Spec => []IInv`: a call of the running process was routed by its settings (`Routed`),
  and the events sent are what the provider made (`Received`, over the lemmas on `Transcript`).
* Theorems for `TypeOK`, `OneModel`, `CallsRouted` and `TranscriptSound`.

### Event bus

For any types, handlers, events and any capacity of the lists (`EventBusAssumption`):

* `Invariant`: `Spec => []IInv`. The list a publication holds still begins with the handlers it
  started (`Grown`), so that the `zip` pairs each outcome with its handler; nothing is logged before
  the end (`Quiet`), and all that must be after it (`Complete`).
* Theorems for `TypeOK` and `DispatchComplete`.

### Start-up

For any timeout, poll interval and query time, any number of turns, probes, connections, starts and
faults, with `WaitAssumption`, `ReadinessAssumption` (the sets of requests are finite, there is a
connection) and `ServicesAssumption`:

* `Invariant`: `Spec => []IInv`, of three parts. The services: a server answers in a running
  container. The script: what it polls is all that the compose file defines, or nothing
  (`Listed`); what Docker calls healthy while it polls, and every service reported so far as healthy,
  is in its history (`Polled`); as long as nothing was wrong, each service has cost one
  query (`Prompt`), so that the deadline cannot pass before the last one when they fit into it.
  The application: requests run only in a process that serves (`ServesOnly`); a probe has noted, or
  its history has seen answering, each service it is past; it notes a failure only when its history
  has seen the server without an answer or the pool in use to the last (`ProbeInv`, `Seen`).
  Connections of either pool are counted by `TurnCount` and `ProbeCount`.
* Theorems for `TypeOK`, `VerdictSound` and `ProbeTruthful`.

The `IInv` of `Accounts` and of the four components after it were checked by TLC on the instances of
their runs before they were proved.

### Only model-checked

Liveness: `EveryRequestEnds` (twice) and `EveryTurnEnds`; temporal reasoning under fairness is beyond
the prover. `WaitingEnds`, and what `IInv` of `ChatTurns` says of the title row (held only by a turn
whose next step is to commit or give up), are the part of them that is proved: whoever is waited for
can go on. Every safety property and every refinement of the passing runs is proved.

## Plan

1. (done) `RowStore`, `AuthSessions`, `SessionChains`, their runs, the invariant and the refinement.
2. (done) `Accounts` and `ChatTurns` with their runs.
3. (done) Proofs about `ChatTurns`, `Accounts` and the remaining properties of `AuthSessions`.
4. (done) `EventBus` and its proof.
5. (done) `Services`, `WaitForServices`, `Readiness`, their composition `Startup` and its proof.
6. (done) `ModelCalls` and its proof.
7. (done) `AccessTokens` and its proof.
8. (done) `AccountBook` and `ChatLog`, the proofs that the two concurrent specifications implement them,
   and that waiting ends in `Accounts`.
9. (done, in `Readiness`) The connection pool under turns that hold a session; the bound on how many
   streams starve the API is a matter of the constants 5 + 10 and of client behaviour.

Left: reading conversations (`list`, `get`) against turns under way; the validation of settings.

### Also seen while modelling, and not run

Where the code and what is written about it differ, apart from the four runs above:

* `refresh()` does not write to the Redis blacklist, which the sequence diagram at `src/README.md:728`
  has it do.
* A stream sends `[DONE]` before it stores the reply; `src/README.md:791-792` has it the other way
  round. A stream that breaks off leaves a partial reply in the history (`chat_router.py:523`).
* The comment at `auth_service.py:419` has all refresh tokens of the user revoked by a reset; a token
  whose login commits after the snapshot of the statement survives.
* A logout may find no row, because the login that answered with the token has not committed yet
  (`database.py:127`); it answers 200, and the row appears live (`auth_router.py:199`).
* `conversation.model_name` keeps the model of its creation when the provider changes;
  `/provider` calls the cached settings current (`chat_router.py:324`).
* `llm_factory.py:3` and `llm_client.py:90-91` call the factory the single source of truth for model
  strings. Of a blank-padded Azure deployment name the factory strips the blanks (`llm_factory.py:157`,
  and `test_llm_factory.py:133-135` tests it), but no call goes through it; the routing that calls use
  keeps them (`config.py:202`), and takes a deployment of nothing but blanks for a name.
  `CallsRouted` states for which settings the two differ, and `models` reaches them.
* The script may name a healthy service as failed when the shared deadline passes before its turn
  (`wait_for_services.py:266`, message at line 387).

What the models settle by a choice, and a reader of the code may wonder about: two messages of one
transaction have one `created_at`, so that their order is the database's (`chat_repository.py:102`);
two first turns at the same time both store a title; a handler that subscribes another of the type
being dispatched makes the strict `zip` raise `ValueError` (`events.py:184`; no production code uses
the bus); a chunk whose text is `[DONE]` looks like the end of the stream; a TTL is rounded down to
whole seconds while a token is good through the second of its `exp` (`security.py:244`, `:253`);
containers that exited or are unhealthy are final for the script although Docker may restart them;
`/health` answers 200 whatever happens.

### Not modelled

* Logging, middleware and error mapping: they change no state that another request reads.
* Schemas and shared types: stateless validation of a payload, which the models start after.
* Mail formatting and SMTP: delivered or not is a choice of the steps that send.
* Validation of settings and derived URLs: evaluated once, before anything interleaves; only what
  routing reads of them is in `ModelCalls`.
* Migrations and deployment scripts: run once by an operator. `Justfile` and `Taskfile` call a shell
  version of the waiting script; the Python one is modelled.
* Password hashing, generation parameters, rate limits, the role rows of new accounts: no decision of
  the modelled handlers depends on them.
* A Redis that loses acknowledged keys (RDB snapshots): the code does not handle it.
