---------------------------- MODULE AccessTokens ----------------------------
(***************************************************************************)
(* Access tokens and permissions (src/domains/auth/security.py): minting,   *)
(* get_current_user with its Redis and database reads, require_permission,  *)
(* and the blacklisting of a token by logout.                               *)
(*                                                                          *)
(* Time runs in ticks, Second of them to a second: the exp claim is a whole *)
(* number of seconds, jose compares it with the whole second of the clock,  *)
(* and Redis counts a TTL in whole seconds from the instant of the SET.     *)
(* The tokens are those of one account.  The database work of a logout is    *)
(* AuthSessions'.                                                           *)
(***************************************************************************)
EXTENDS Integers, FiniteSets

CONSTANTS Reqs,            \* requests with a bearer token
          Access,          \* access tokens the service may mint, by jti
          Roles,
          Second,          \* ticks to a second
          Lifetime,        \* ACCESS_TOKEN_EXPIRE_MINUTES, in seconds
          Opening,         \* bound: the tick after which no token is minted
          Closing,         \* bound: the last tick of the clock
          Edits,           \* bound on what an operator changes of the account
          None

VARIABLES now,       \* the clock, in ticks
          exp,       \* exp claim of a minted token in seconds; 0: not minted
          until,     \* tick at which Redis drops jwt:blacklist:<jti>; 0: no key
          account,   \* the rows of users, user_roles and role_permissions
          pc,        \* the await a request stands at
          job,       \* what it was called with and has read
          edits,     \* changes made to the account
          loggedOut, \* history: tokens whose logout has answered 204
          saw        \* history: what the account was while the request ran

vars == <<now, exp, until, account, pc, job, edits, loggedOut, saw>>

\* is_active, the roles of the account, and those that grant the permission a
\* route asks for.
Account == [active: BOOLEAN, roles: SUBSET Roles, granting: SUBSET Roles]

Job == [op: {"use", "logout"},
        tok: Access \cup {None},   \* credentials; None without the header
        late: BOOLEAN,             \* history: made after the token's logout answered
        at: Nat,                   \* history: of such, the tick the blacklist was asked
        active: BOOLEAN,           \* user.is_active
        roles: SUBSET Roles]       \* user.roles

Blank == [op |-> "use", tok |-> None, late |-> FALSE, at |-> 0, active |-> FALSE, roles |-> {}]

Waiting == {"check", "user", "roles", "permissions", "blacklist"}
Ended == {"accepted", "denied", "forbidden", "failed"}

ASSUME AccessTokensAssumption ==
    /\ Second \in Nat \ {0}
    /\ Lifetime \in Nat \ {0}
    /\ Opening \in Nat /\ Closing \in Nat /\ Edits \in Nat
    /\ None \notin Access

Init ==
    /\ now = 0
    /\ exp = [t \in Access |-> 0]
    /\ until = [t \in Access |-> 0]
    /\ account = [active |-> TRUE, roles |-> Roles, granting |-> Roles]
    /\ pc = [r \in Reqs |-> "idle"]
    /\ job = [r \in Reqs |-> Blank]
    /\ edits = 0
    /\ loggedOut = {}
    /\ saw = [r \in Reqs |-> {}]

(***************************************************************************)
(* Helpers.                                                                 *)
(***************************************************************************)
Goto(r, stage) == pc' = [pc EXCEPT ![r] = stage]

\* A request that is refused or fails: its handler's variables are gone.
Refuse(r, end) ==
    /\ Goto(r, end)
    /\ job' = [job EXCEPT ![r] = Blank]
    /\ saw' = [saw EXCEPT ![r] = {}]

Larger(a, b) == IF a > b THEN a ELSE b

\* The instant of an exp claim, in ticks.
ExpiresAt(t) == exp[t] * Second

\* decode_token: jose refuses a token once the second of the clock is past exp.
Decodes(t) == exp[t] # 0 /\ now \div Second <= exp[t]

\* Mutant of SecondsUntil: one second is taken off, lest the key outlive the token.
SecondsUntilShort(t) == Larger(1, (ExpiresAt(t) - now) \div Second - 1)

\* Mutant of SecondsUntil: without the floor of one second.
SecondsUntilZero(t) == (ExpiresAt(t) - now) \div Second

\* _seconds_until: whole seconds, rounded down, and never less than one.
SecondsUntil(t) == Larger(1, (ExpiresAt(t) - now) \div Second)

Blacklisted(t) == until[t] # 0

HasPermission(roles, granting) == roles \cap granting # {}

(***************************************************************************)
(* Minting and time.                                                        *)
(***************************************************************************)
CreateAccessToken(t) ==
    /\ exp[t] = 0 /\ now < Opening
    /\ exp' = [exp EXCEPT ![t] = now \div Second + Lifetime]
    /\ UNCHANGED <<now, until, account, pc, job, edits, loggedOut, saw>>

\* Redis drops a key at the end of its TTL.
Tick ==
    /\ now < Closing
    /\ now' = now + 1
    /\ until' = [t \in Access |-> IF until[t] <= now + 1 THEN 0 ELSE until[t]]
    /\ UNCHANGED <<exp, account, pc, job, edits, loggedOut, saw>>

(***************************************************************************)
(* Dependencies of a route.                                                 *)
(***************************************************************************)
\* A request arrives; the token is decoded and its type tested at once, by
\* get_current_user and, of a logout, by get_current_access_token_context.  A
\* request without the header, with a refresh token or with an expired one is
\* refused here.
Start(r) ==
    /\ pc[r] = "idle"
    /\ \/ \E op \in {"use", "logout"}, t \in Access :
            /\ Decodes(t)
            /\ job' = [job EXCEPT ![r] = [Blank EXCEPT !.op = op, !.tok = t,
                                                       !.late = t \in loggedOut]]
            /\ saw' = [saw EXCEPT ![r] = IF op = "use" THEN {account} ELSE {}]
            /\ Goto(r, "check")
       \/ Refuse(r, "denied")
    /\ UNCHANGED <<now, exp, until, account, edits, loggedOut>>

\* is_jti_blacklisted: EXISTS in Redis.
CheckBlacklist(r) ==
    /\ pc[r] = "check"
    /\ \/ Blacklisted(job[r].tok) /\ Refuse(r, "denied")
       \/ /\ ~Blacklisted(job[r].tok)
          /\ job' = [job EXCEPT ![r].at = IF job[r].late THEN now ELSE 0]
          /\ Goto(r, "user")
          /\ UNCHANGED saw
    /\ UNCHANGED <<now, exp, until, account, edits, loggedOut>>

\* The user row; selectinload then sends a statement for the roles and one for
\* their permissions, each with a READ COMMITTED snapshot of its own.
ReadUser(r) ==
    /\ pc[r] = "user"
    /\ job' = [job EXCEPT ![r].active = account.active]
    /\ Goto(r, "roles")
    /\ UNCHANGED <<now, exp, until, account, edits, loggedOut, saw>>

ReadRoles(r) ==
    /\ pc[r] = "roles"
    /\ job' = [job EXCEPT ![r].roles = account.roles]
    /\ Goto(r, "permissions")
    /\ UNCHANGED <<now, exp, until, account, edits, loggedOut, saw>>

\* Mutant of Admits: is_active is not tested again.
AdmitsInactive(r) ==
    job[r].op = "use" => HasPermission(job[r].roles, account.granting)

\* What get_current_user and require_permission make of what was read; a logout
\* asks for no permission.
Admits(r) ==
    /\ job[r].active
    /\ job[r].op = "use" => HasPermission(job[r].roles, account.granting)

\* 401 for a closed account, 403 without the permission, or on to the handler.
ReadPermissions(r) ==
    /\ pc[r] = "permissions"
    /\ \/ Admits(r) /\ Goto(r, IF job[r].op = "use" THEN "accepted" ELSE "blacklist")
          /\ UNCHANGED <<job, saw>>
       \/ ~Admits(r) /\ Refuse(r, IF job[r].active THEN "forbidden" ELSE "denied")
    /\ UNCHANGED <<now, exp, until, account, edits, loggedOut>>

\* blacklist_jti, the last thing a logout does: SET with a TTL.
Blacklist(r) ==
    LET t == job[r].tok IN
    /\ pc[r] = "blacklist"
    /\ until' = [until EXCEPT ![t] = now + Second * SecondsUntil(t)]
    /\ loggedOut' = loggedOut \cup {t}
    /\ Goto(r, "accepted")
    /\ UNCHANGED <<now, exp, account, job, edits, saw>>

\* Redis or the database raises: 500, nothing is set.
RequestFails(r) ==
    /\ pc[r] \in Waiting
    /\ Refuse(r, "failed")
    /\ UNCHANGED <<now, exp, until, account, edits, loggedOut>>

(***************************************************************************)
(* An operator changes the account in the database: the account is closed   *)
(* or opened, given or taken a role, or a role given or taken the permission.*)
(***************************************************************************)
Flip(S, x) == IF x \in S THEN S \ {x} ELSE S \cup {x}

Administer ==
    /\ edits < Edits
    /\ \E a \in {[account EXCEPT !.active = ~@]}
                  \cup {[account EXCEPT !.roles = Flip(@, x)] : x \in Roles}
                  \cup {[account EXCEPT !.granting = Flip(@, x)] : x \in Roles} :
        /\ account' = a
        /\ saw' = [r \in Reqs |-> IF pc[r] \in Waiting /\ saw[r] # {} THEN saw[r] \cup {a}
                              ELSE saw[r]]
    /\ edits' = edits + 1
    /\ UNCHANGED <<now, exp, until, pc, job, loggedOut>>

\* The clock has run out and nothing is under way.
Quiescent ==
    /\ \A r \in Reqs : pc[r] \notin Waiting
    /\ UNCHANGED vars

Next ==
    \/ (\E t \in Access : CreateAccessToken(t)) \/ Tick \/ Administer \/ Quiescent
    \/ \E r \in Reqs : \/ Start(r) \/ CheckBlacklist(r) \/ ReadUser(r) \/ ReadRoles(r)
                       \/ ReadPermissions(r) \/ Blacklist(r) \/ RequestFails(r)

Spec == Init /\ [][Next]_vars

(***************************************************************************)
(* Properties.                                                              *)
(***************************************************************************)
\* Every variable has its type, a key of the blacklist lies in the future, and
\* only requests that were made have credentials.
TypeOK ==
    /\ now \in Nat /\ edits \in 0..Edits
    /\ exp \in [Access -> Nat]
    /\ until \in [Access -> Nat]
    /\ \A t \in Access : until[t] # 0 => until[t] > now /\ exp[t] # 0
    /\ account \in Account
    /\ pc \in [Reqs -> {"idle"} \cup Waiting \cup Ended]
    /\ job \in [Reqs -> Job]
    /\ \A r \in Reqs : pc[r] \in Waiting \cup {"accepted"} => job[r].tok \in Access
    /\ loggedOut \subseteq Access
    /\ saw \in [Reqs -> SUBSET Account]

\* A token whose logout has answered is refused from then on, until the last
\* second before its exp: the TTL is rounded down to whole seconds, so the key
\* may be gone that much before the token, and no earlier.
RevokedUntilLastSecond ==
    \A r \in Reqs :
        job[r].late /\ pc[r] \notin {"check", "denied", "failed"} =>
            job[r].at > ExpiresAt(job[r].tok) - Second

\* A request is let through only if the account held the permission, and was
\* open, at one moment while the request ran: provided the account was changed
\* at most once meanwhile, since its three statements have a snapshot each.
AllowedMeansHeld ==
    \A r \in Reqs :
        pc[r] = "accepted" /\ job[r].op = "use" /\ Cardinality(saw[r]) <= 2 =>
            \E a \in saw[r] : a.active /\ HasPermission(a.roles, a.granting)

=============================================================================
