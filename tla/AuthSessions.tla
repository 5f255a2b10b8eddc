---------------------------- MODULE AuthSessions ----------------------------
(***************************************************************************)
(* The session core of the auth domain: login, refresh-token rotation with  *)
(* reuse detection, logout and password reset, as the requests of the auth  *)
(* router run them against the database and Redis                           *)
(* (src/domains/auth/router, service and repository).                       *)
(*                                                                          *)
(* A request is an asyncio task; it can be interleaved with the others at   *)
(* every await on the database, on Redis or on the mail server, so one      *)
(* action is the code between two such awaits.  Where a handler raises, the *)
(* rollback that get_async_session or transaction() makes is part of the    *)
(* action.                                                                  *)
(***************************************************************************)
EXTENDS Naturals, FiniteSets

CONSTANTS Reqs,      \* requests; each is made once
          Users,     \* verified, active accounts
          Tokens,    \* jti values uuid4 may give to refresh tokens
          Resets,    \* password-reset tokens token_urlsafe may give
          Owner,     \* the user a jti or reset token is generated for
          Sessions0, \* sessions that exist at the start: tokens still live
          Resets0,   \* reset tokens that exist at the start: mailed, unused
          Ops,       \* the endpoints clients call
          Failures,  \* whether connections can be lost
          None

VARIABLES db, work, lock,   \* see RowStore
          pc,         \* where in its handler a request is
          job,        \* what the client asked for: endpoint and arguments
          new,        \* the token or reset token the request generated
          snap,       \* snapshot of the request's bulk UPDATE: matching rows
          ans,        \* the answer sent to the client
          known,      \* refresh and reset tokens clients hold
          blacklist   \* access tokens blacklisted in Redis

Rows == Tokens \cup Resets \cup Users

INSTANCE RowStore

store == <<db, work, lock>>
vars == <<db, work, lock, pc, job, new, snap, ans, known, blacklist>>

AllOps == {"login", "refresh", "logout", "request", "confirm"}

(***************************************************************************)
(* Rows.  A refresh token carries its rotation family, named here by the    *)
(* first token of the family, and the jti that replaced it.  The row of a   *)
(* user is reduced to the number of times its password was changed.         *)
(***************************************************************************)
RefreshToken == [family: Tokens, revoked: BOOLEAN, replaced_by_jti: Tokens \cup {None}]
PasswordReset == [used: BOOLEAN]

ASSUME SetsAssumption ==
    /\ Tokens \cap Resets = {}
    /\ Tokens \cap Users = {}
    /\ Resets \cap Users = {}
    /\ None \notin Reqs \cup Rows
    /\ None \notin RefreshToken
    /\ None \notin PasswordReset \cup Nat
    /\ Owner \in [Tokens \cup Resets -> Users]
    /\ Sessions0 \subseteq Tokens
    /\ Resets0 \subseteq Resets
    /\ Ops \subseteq AllOps
    /\ Failures \in BOOLEAN

NewToken(family) == [family |-> family, revoked |-> FALSE, replaced_by_jti |-> None]
RevokedVersion(row) == [row EXCEPT !.revoked = TRUE]
RotatedVersion(row, n) == [row EXCEPT !.revoked = TRUE, !.replaced_by_jti = n]

NewReset == [used |-> FALSE]
UsedVersion(row) == [row EXCEPT !.used = TRUE]

Live(row) == row # None /\ ~row.revoked
Unused(row) == row # None /\ ~row.used

\* What a client asks for.  acc is the access token of a logout.
Jobs ==
         [op: {"login", "request"}, user: Users, tok: {None}, acc: {None}]
    \cup [op: {"refresh"}, user: Users, tok: Tokens, acc: {None}]
    \cup [op: {"logout"}, user: Users, tok: Tokens \cup {None}, acc: Tokens]
    \cup [op: {"confirm"}, user: Users, tok: Resets, acc: {None}]

\* The awaits of each handler, named by what the request is about to do.
StagesOf ==
    [login   |-> {"read", "issue", "respond", "commit"},
     refresh |-> {"read", "issue", "rotate", "scan", "sweep", "commit", "respond"},
     logout  |-> {"auth", "read", "revoke", "blacklist", "respond", "commit"},
     request |-> {"scan", "sweep", "mail", "respond", "commit"},
     confirm |-> {"read", "use", "password", "scan", "sweep", "respond", "commit"}]

Ended == {"done", "lost"}

Answers == {"none", "ok", "rejected", "reuse", "error"}

Init ==
    /\ db = [o \in Rows |-> IF o \in Users THEN 0
                            ELSE IF o \in Sessions0 THEN NewToken(o)
                            ELSE IF o \in Resets0 THEN NewReset
                            ELSE None]
    /\ work = db
    /\ lock = [o \in Rows |-> None]
    /\ pc = [r \in Reqs |-> "idle"]
    /\ job = [r \in Reqs |-> None]
    /\ new = [r \in Reqs |-> None]
    /\ snap = [r \in Reqs |-> {}]
    /\ ans = [r \in Reqs |-> "none"]
    /\ known = Sessions0 \cup Resets0
    /\ blacklist = {}

(***************************************************************************)
(* Helpers.                                                                 *)
(***************************************************************************)
At(r, op, stage) == pc[r] = stage /\ job[r].op = op

Goto(r, stage) == pc' = [pc EXCEPT ![r] = stage]

\* The rest of the request-local state and of the clients' state is unchanged.
OnlyMoves(r, stage) ==
    /\ Goto(r, stage)
    /\ UNCHANGED <<job, new, snap, ans, known, blacklist>>

\* Mutant of Fail: the transaction is left open, its locks held.
FailLeavingOpen(r, answer) ==
    /\ UNCHANGED store
    /\ ans' = [ans EXCEPT ![r] = IF @ = "none" THEN answer ELSE @]
    /\ Goto(r, IF ans[r] = "none" THEN "done" ELSE "lost")
    /\ UNCHANGED <<job, new, snap, known, blacklist>>

\* An exception leaves the handler: get_async_session (or transaction() in
\* refresh) rolls back before the answer is sent.  After the answer only the
\* commit was left, and it is lost.
Fail(r, answer) ==
    /\ Rollback(r)
    /\ ans' = [ans EXCEPT ![r] = IF @ = "none" THEN answer ELSE @]
    /\ Goto(r, IF ans[r] = "none" THEN "done" ELSE "lost")
    /\ UNCHANGED <<job, new, snap, known, blacklist>>

\* Mutant of Fresh: the user's old reset row is armed again.
FreshOrRearmed(r, n) == Owner[n] = job[r].user

\* A jti or reset token that was never used: uuid4 and token_urlsafe do not
\* repeat.
Fresh(r, n) == Owner[n] = job[r].user /\ work[n] = None /\ n \notin known

(***************************************************************************)
(* A client calls an endpoint.  It can only present tokens it was given.    *)
(***************************************************************************)
Start(r, op, stage, u, t, a) ==
    /\ pc[r] = "idle"
    /\ op \in Ops
    /\ job' = [job EXCEPT ![r] = [op |-> op, user |-> u, tok |-> t, acc |-> a]]
    /\ Goto(r, stage)
    /\ UNCHANGED <<db, work, lock, new, snap, ans, known, blacklist>>

StartLogin(r) == \E u \in Users : Start(r, "login", "read", u, None, None)

StartRefresh(r) ==
    \E t \in known \cap Tokens : Start(r, "refresh", "read", Owner[t], t, None)

\* The access token acc was issued together with a refresh token, whose name
\* it bears here; the code does not require it to be the pair of tok.  A refresh
\* token that does not decode (expired, malformed) is presented as None.
StartLogout(r) ==
    \E t \in (known \cap Tokens) \cup {None}, a \in known \cap Tokens :
        Start(r, "logout", "auth", Owner[a], t, a)

StartRequest(r) == \E u \in Users : Start(r, "request", "scan", u, None, None)

StartConfirm(r) ==
    \E p \in known \cap Resets : Start(r, "confirm", "read", Owner[p], p, None)

(***************************************************************************)
(* _issue_tokens: INSERT of the row of a new refresh token.                 *)
(***************************************************************************)
Issue(r, n, family, stage) ==
    /\ Fresh(r, n)
    /\ Write(r, n, NewToken(family))
    /\ new' = [new EXCEPT ![r] = n]
    /\ Goto(r, stage)
    /\ UNCHANGED <<job, snap, ans, known, blacklist>>

(***************************************************************************)
(* POST /login                                                              *)
(***************************************************************************)
\* The user is read; the password matches ...
LoginAccept(r) ==
    /\ At(r, "login", "read")
    /\ OnlyMoves(r, "issue")
    /\ UNCHANGED store

\* ... or does not.
LoginReject(r) == At(r, "login", "read") /\ Fail(r, "rejected")

LoginIssue(r) ==
    /\ At(r, "login", "issue")
    /\ \E n \in Tokens : Issue(r, n, n, "respond")

(***************************************************************************)
(* POST /refresh, all of it in one transaction().                           *)
(***************************************************************************)
\* SELECT ... FOR UPDATE finds no row: the token is unknown.
RefreshMissing(r) ==
    /\ At(r, "refresh", "read")
    /\ db[job[r].tok] = None
    /\ OnlyMoves(r, "scan")
    /\ UNCHANGED store

\* Mutant of RefreshLock: a plain SELECT.
RefreshLockPlain(r) ==
    LET t == job[r].tok IN
    /\ At(r, "refresh", "read")
    /\ db[t] # None
    /\ OnlyMoves(r, IF db[t].revoked THEN "scan" ELSE "issue")
    /\ UNCHANGED store

\* It locks the row, having waited for the transaction that held it, and reads
\* the version that transaction left.
RefreshLock(r) ==
    LET t == job[r].tok IN
    /\ At(r, "refresh", "read")
    /\ db[t] # None
    /\ LockRow(r, t)
    /\ OnlyMoves(r, IF db[t].revoked THEN "scan" ELSE "issue")

\* The row has expired or its user was deactivated.
RefreshReject(r) == At(r, "refresh", "issue") /\ Fail(r, "rejected")

\* Mutant of RefreshIssue: the old row is never marked.
RefreshIssueUnmarked(r) ==
    /\ At(r, "refresh", "issue")
    /\ \E n \in Tokens : Issue(r, n, work[job[r].tok].family, "commit")

RefreshIssue(r) ==
    /\ At(r, "refresh", "issue")
    /\ \E n \in Tokens : Issue(r, n, work[job[r].tok].family, "rotate")

\* Mutants of RefreshRotate: the row is revoked without a link to its
\* successor; the commit is left to the teardown after the answer.
RefreshRotateUnlinked(r) ==
    LET t == job[r].tok IN
    /\ At(r, "refresh", "rotate")
    /\ Write(r, t, RevokedVersion(work[t]))
    /\ OnlyMoves(r, "commit")

RefreshRotateUncommitted(r) ==
    LET t == job[r].tok IN
    /\ At(r, "refresh", "rotate")
    /\ Write(r, t, RotatedVersion(work[t], new[r]))
    /\ OnlyMoves(r, "respond")

\* mark_refresh_token_rotated
RefreshRotate(r) ==
    LET t == job[r].tok IN
    /\ At(r, "refresh", "rotate")
    /\ Write(r, t, RotatedVersion(work[t], new[r]))
    /\ OnlyMoves(r, "commit")

\* invalidate_all_user_sessions has updated its last row; the exception raised
\* next leaves transaction(), which rolls the updates back.
RefreshReuse(r) ==
    /\ At(r, "refresh", "sweep")
    /\ \A t \in snap[r] : lock[t] = r
    /\ Fail(r, "reuse")

(***************************************************************************)
(* UPDATE refresh_tokens SET revoked WHERE user_id = .. AND NOT revoked, as *)
(* the refresh and confirm handlers run it.  The statement takes a snapshot *)
(* and visits the matching rows; a row that another transaction has changed *)
(* in the meantime is waited for, locked and tested again.                  *)
(***************************************************************************)
SweepBegin(r) ==
    /\ At(r, "refresh", "scan") \/ At(r, "confirm", "scan")
    /\ snap' = [snap EXCEPT ![r] =
                  {t \in Tokens : Owner[t] = job[r].user /\ Live(Visible(r, t))}]
    /\ Goto(r, "sweep")
    /\ UNCHANGED <<db, work, lock, job, new, ans, known, blacklist>>

SweepRow(r) ==
    /\ At(r, "refresh", "sweep") \/ At(r, "confirm", "sweep")
    /\ \E t \in snap[r] :
          /\ lock[t] # r
          /\ Write(r, t, RevokedVersion(work[t]))
    /\ OnlyMoves(r, "sweep")

(***************************************************************************)
(* POST /logout                                                             *)
(***************************************************************************)
\* get_current_user: the access token must not be blacklisted.
LogoutAuth(r) ==
    /\ At(r, "logout", "auth")
    /\ job[r].acc \notin blacklist
    /\ OnlyMoves(r, "read")
    /\ UNCHANGED store

LogoutReject(r) ==
    /\ At(r, "logout", "auth")
    /\ job[r].acc \in blacklist
    /\ Fail(r, "rejected")

\* The refresh token is looked up without a lock; one that does not decode or
\* has no visible row is passed over.
LogoutRead(r) ==
    LET t == job[r].tok
        found == IF t = None THEN FALSE ELSE Visible(r, t) # None
    IN /\ At(r, "logout", "read")
       /\ OnlyMoves(r, IF found THEN "revoke" ELSE "blacklist")
       /\ UNCHANGED store

\* Mutant of LogoutRevoke: the rotation columns are written back as NULL.
LogoutRevokeWholeRow(r) ==
    LET t == job[r].tok IN
    /\ At(r, "logout", "revoke")
    /\ Write(r, t, RotatedVersion(work[t], None))
    /\ OnlyMoves(r, "blacklist")

\* revoke_refresh_token: an UPDATE by jti, whatever the row has become.
LogoutRevoke(r) ==
    LET t == job[r].tok IN
    /\ At(r, "logout", "revoke")
    /\ Write(r, t, RevokedVersion(work[t]))
    /\ OnlyMoves(r, "blacklist")

\* The key is set in Redis at once, outside the transaction.
LogoutBlacklist(r) ==
    /\ At(r, "logout", "blacklist")
    /\ blacklist' = blacklist \cup {job[r].acc}
    /\ Goto(r, "respond")
    /\ UNCHANGED <<db, work, lock, job, new, snap, ans, known>>

(***************************************************************************)
(* POST /password-reset                                                     *)
(***************************************************************************)
\* mark_user_password_resets_used: a bulk UPDATE as above, of the reset rows.
RequestBegin(r) ==
    /\ At(r, "request", "scan")
    /\ snap' = [snap EXCEPT ![r] =
                  {p \in Resets : Owner[p] = job[r].user /\ Unused(Visible(r, p))}]
    /\ Goto(r, "sweep")
    /\ UNCHANGED <<db, work, lock, job, new, ans, known, blacklist>>

RequestRow(r) ==
    /\ At(r, "request", "sweep")
    /\ \E p \in snap[r] :
          /\ lock[p] # r
          /\ Write(r, p, UsedVersion(work[p]))
    /\ OnlyMoves(r, "sweep")

\* Mutant of RequestCreate: rows others hold are skipped, not waited for.
RequestCreateSkipping(r) ==
    /\ At(r, "request", "sweep")
    /\ \A p \in snap[r] : lock[p] # None
    /\ \E p \in Resets :
          /\ Fresh(r, p)
          /\ Write(r, p, NewReset)
          /\ new' = [new EXCEPT ![r] = p]
    /\ Goto(r, "mail")
    /\ UNCHANGED <<job, snap, ans, known, blacklist>>

RequestCreate(r) ==
    /\ At(r, "request", "sweep")
    /\ \A p \in snap[r] : lock[p] = r
    /\ \E p \in Resets :
          /\ Fresh(r, p)
          /\ Write(r, p, NewReset)
          /\ new' = [new EXCEPT ![r] = p]
    /\ Goto(r, "mail")
    /\ UNCHANGED <<job, snap, ans, known, blacklist>>

\* The mail goes out before the row is committed; a failed delivery is logged.
RequestMail(r) ==
    /\ At(r, "request", "mail")
    /\ \/ known' = known \cup {new[r]}
       \/ known' = known
    /\ Goto(r, "respond")
    /\ UNCHANGED <<db, work, lock, job, new, snap, ans, blacklist>>

(***************************************************************************)
(* POST /password-reset/confirm                                             *)
(***************************************************************************)
\* The reset token is read without a lock ...
ConfirmRead(r) ==
    /\ At(r, "confirm", "read")
    /\ Unused(Visible(r, job[r].tok))
    /\ OnlyMoves(r, "use")
    /\ UNCHANGED store

\* ... and refused when it is unknown, used or expired.
ConfirmReject(r) == At(r, "confirm", "read") /\ Fail(r, "rejected")

\* mark_password_reset_used: an UPDATE by id that does not test used again.
ConfirmUse(r) ==
    LET p == job[r].tok IN
    /\ At(r, "confirm", "use")
    /\ Write(r, p, UsedVersion(work[p]))
    /\ OnlyMoves(r, "password")

ConfirmPassword(r) ==
    LET u == job[r].user IN
    /\ At(r, "confirm", "password")
    /\ Write(r, u, work[u] + 1)
    /\ OnlyMoves(r, "scan")

\* Mutant of ConfirmSwept: rows others hold are skipped, not waited for.
ConfirmSweptSkipping(r) ==
    /\ At(r, "confirm", "sweep")
    /\ \A t \in snap[r] : lock[t] # None
    /\ OnlyMoves(r, "respond")
    /\ UNCHANGED store

\* The bulk revocation has visited its last row.
ConfirmSwept(r) ==
    /\ At(r, "confirm", "sweep")
    /\ \A t \in snap[r] : lock[t] = r
    /\ OnlyMoves(r, "respond")
    /\ UNCHANGED store

(***************************************************************************)
(* Answer and commit.  refresh commits when it leaves transaction(), before *)
(* it answers; the other endpoints commit in the teardown of                *)
(* get_async_session, which runs once the answer is sent.                   *)
(***************************************************************************)
\* Mutant of Respond: every answer carries the generated token.
RespondWithToken(r) ==
    /\ pc[r] = "respond"
    /\ ans' = [ans EXCEPT ![r] = "ok"]
    /\ known' = known \cup {new[r]}
    /\ Goto(r, IF job[r].op = "refresh" THEN "done" ELSE "commit")
    /\ UNCHANGED <<db, work, lock, job, new, snap, blacklist>>

Respond(r) ==
    /\ pc[r] = "respond"
    /\ ans' = [ans EXCEPT ![r] = "ok"]
    /\ known' = IF job[r].op \in {"login", "refresh"} THEN known \cup {new[r]}
                                                      ELSE known
    /\ Goto(r, IF job[r].op = "refresh" THEN "done" ELSE "commit")
    /\ UNCHANGED <<db, work, lock, job, new, snap, blacklist>>

CommitTransaction(r) ==
    /\ pc[r] = "commit"
    /\ Commit(r)
    /\ OnlyMoves(r, IF job[r].op = "refresh" THEN "respond" ELSE "done")

(***************************************************************************)
(* Transactions that wait for each other's rows.  The database aborts one   *)
(* of them; the handler gets an exception.                                  *)
(***************************************************************************)
\* The rows the statement r is about to run, or is running, has to lock.
Wanted(r) ==
    IF At(r, "refresh", "read") \/ At(r, "logout", "revoke") \/ At(r, "confirm", "use")
    THEN {job[r].tok}
    ELSE IF At(r, "confirm", "password") THEN {job[r].user}
    ELSE IF pc[r] = "sweep" THEN snap[r]
    ELSE {}

WaitsFor(r, s) == s # r /\ \E o \in Wanted(r) : lock[o] = s

Deadlocked(r) ==
    \E S \in SUBSET Reqs : r \in S /\ \A s \in S : \E q \in S : WaitsFor(s, q)

DeadlockVictim(r) == Deadlocked(r) /\ Fail(r, "error")

\* The connection to the database, Redis or the client is lost.
ConnectionLost(r) ==
    /\ Failures
    /\ pc[r] \notin {"idle"} \cup Ended
    /\ Fail(r, "error")

(***************************************************************************)
(* The specification.                                                       *)
(***************************************************************************)
Call(r) == \/ StartLogin(r) \/ StartRefresh(r) \/ StartLogout(r)
           \/ StartRequest(r) \/ StartConfirm(r)

Login(r) == LoginAccept(r) \/ LoginReject(r) \/ LoginIssue(r)

Refresh(r) == \/ RefreshMissing(r) \/ RefreshLock(r) \/ RefreshReject(r)
              \/ RefreshIssue(r) \/ RefreshRotate(r) \/ RefreshReuse(r)

Sweep(r) == SweepBegin(r) \/ SweepRow(r)

Logout(r) == \/ LogoutAuth(r) \/ LogoutReject(r) \/ LogoutRead(r)
             \/ LogoutRevoke(r) \/ LogoutBlacklist(r)

Request(r) == RequestBegin(r) \/ RequestRow(r) \/ RequestCreate(r) \/ RequestMail(r)

Confirm(r) == \/ ConfirmRead(r) \/ ConfirmReject(r) \/ ConfirmUse(r)
              \/ ConfirmPassword(r) \/ ConfirmSwept(r)

\* What the event loop, the database and Redis do for a request once made.
Handle(r) == \/ Login(r) \/ Refresh(r) \/ Sweep(r) \/ Logout(r) \/ Request(r)
             \/ Confirm(r) \/ Respond(r) \/ CommitTransaction(r) \/ DeadlockVictim(r)

\* Every request was made and has ended.
Quiescent == (\A r \in Reqs : pc[r] \in Ended) /\ UNCHANGED vars

Next == (\E r \in Reqs : Call(r) \/ Handle(r) \/ ConnectionLost(r)) \/ Quiescent

Spec == Init /\ [][Next]_vars

\* A handler that can run does run: the event loop is fair, statements end, and
\* the database breaks deadlocks.  Calls and failures are not due.
Fairness == \A r \in Reqs : WF_vars(Handle(r))

FairSpec == Spec /\ Fairness

(***************************************************************************)
(* Properties.                                                              *)
(***************************************************************************)
StoreType(rows) ==
    /\ DOMAIN rows = Rows
    /\ \A t \in Tokens : rows[t] \in RefreshToken \/ rows[t] = None
    /\ \A p \in Resets : rows[p] \in PasswordReset \/ rows[p] = None
    /\ \A u \in Users : rows[u] \in Nat

RequestType(r) ==
    \/ pc[r] = "idle" /\ job[r] = None
    \/ job[r] \in Jobs /\ pc[r] \in StagesOf[job[r].op] \cup Ended

\* Types of all variables; a request is at an await of the handler it called.
TypeOK ==
    /\ StoreType(db) /\ StoreType(work)
    /\ lock \in [Rows -> Reqs \cup {None}]
    /\ DOMAIN pc = Reqs /\ DOMAIN job = Reqs
    /\ \A r \in Reqs : RequestType(r)
    /\ new \in [Reqs -> Tokens \cup Resets \cup {None}]
    /\ snap \in [Reqs -> SUBSET (Tokens \cup Resets)]
    /\ ans \in [Reqs -> Answers]
    /\ known \subseteq Tokens \cup Resets
    /\ blacklist \subseteq Tokens

\* A rotation family never has two live tokens, however many requests present
\* its tokens at once: refresh() reads the row FOR UPDATE before it tests and
\* replaces it.
OneLivePerFamily ==
    \A t1, t2 \in Tokens :
        (Live(db[t1]) /\ Live(db[t2]) /\ db[t1].family = db[t2].family) => t1 = t2

\* A committed token that is not the first of its family is the replacement of
\* exactly one committed token, which is revoked and of the same family and
\* user: the successor and the link to it become visible together.
SuccessorLinked ==
    \A n \in Tokens :
        (db[n] # None /\ db[n].family # n) =>
            \E t \in Tokens :
                /\ db[t] # None /\ db[t].revoked /\ db[t].replaced_by_jti = n
                /\ db[t].family = db[n].family /\ Owner[t] = Owner[n]
                /\ \A s \in Tokens \ {t} : db[s] # None => db[s].replaced_by_jti # n

\* Two refresh requests that present the same token are never both answered
\* with tokens.
RotatedOnce ==
    \A r1, r2 \in Reqs :
        (/\ ans[r1] = "ok" /\ job[r1].op = "refresh"
         /\ ans[r2] = "ok" /\ job[r2].op = "refresh"
         /\ job[r1].tok = job[r2].tok) => r1 = r2

\* What a refresh answer says is on disk: refresh commits before it answers, so
\* the token the client holds from then on is known, and the old one revoked.
AnsweredRefreshDurable ==
    \A r \in Reqs :
        (ans[r] = "ok" /\ job[r].op = "refresh") =>
            /\ db[new[r]] # None
            /\ db[job[r].tok].revoked
            /\ db[job[r].tok].replaced_by_jti = new[r]

\* A completed password reset has revoked every session its bulk UPDATE saw,
\* also the ones whose rows other requests held or changed meanwhile.
ResetCoversSnapshot ==
    \A r \in Reqs :
        At(r, "confirm", "done") /\ ans[r] = "ok" => \A t \in snap[r] : ~Live(db[t])

\* The reset of one user's password commits no change to another's sessions.
ResetSparesOthers ==
    [][\A r \in Reqs :
          (At(r, "confirm", "commit") /\ pc'[r] = "done") =>
              \A t \in Tokens : Owner[t] # job[r].user => db'[t] = db[t]]_vars

\* No step brings a revoked token back or re-points a replaced one: a logout or
\* a bulk revocation that waited for a rotation keeps what the rotation wrote.
RevocationFinal ==
    [][\A t \in Tokens : (db[t] # None /\ db[t].revoked) =>
          /\ db'[t] # None /\ db'[t].revoked
          /\ db[t].replaced_by_jti # None =>
                db'[t].replaced_by_jti = db[t].replaced_by_jti]_vars

\* Every request ends, in spite of row locks taken in different orders.
EveryRequestEnds ==
    \A r \in Reqs : pc[r] # "idle" ~> pc[r] \in Ended

\* Every reset token that was unused when a completed reset request ran its
\* UPDATE is used up: only the token just mailed may still work.
RequestCoversSnapshot ==
    \A r \in Reqs :
        At(r, "request", "done") /\ ans[r] = "ok" => \A p \in snap[r] : db[p].used

\* A used reset token never becomes usable again.
UsedFinal == [][\A p \in Resets : (db[p] # None /\ db[p].used) =>
                    db'[p] # None /\ db'[p].used]_vars

(***************************************************************************)
(* What the documentation, docstrings and comments say and the code does    *)
(* not do.                                                                  *)
(***************************************************************************)
\* "if the incoming token is already revoked, all active refresh tokens and
\* server-side session records for that user are invalidated" (refresh).
ReuseEndsSessions ==
    \A r \in Reqs : ans[r] = "reuse" => \A t \in snap[r] : ~Live(db[t])

\* UnauthorizedError "If the token is invalid, expired, or already used"
\* (confirm_password_reset): one reset token, one reset.
ResetTokenUsedOnce ==
    \A q1, q2 \in Reqs :
        (/\ ans[q1] = "ok" /\ job[q1].op = "confirm"
         /\ ans[q2] = "ok" /\ job[q2].op = "confirm"
         /\ job[q1].tok = job[q2].tok) => q1 = q2

(***************************************************************************)
(* The committed refresh_tokens table implements the abstract chains.       *)
(***************************************************************************)
TokenState(row) == IF row = None THEN "absent"
                   ELSE IF ~row.revoked THEN "live"
                   ELSE IF row.replaced_by_jti # None THEN "replaced"
                   ELSE "revoked"

TokenFamily(row) == IF row = None THEN None ELSE row.family
TokenSuccessor(row) == IF row = None THEN None ELSE row.replaced_by_jti

Chains == INSTANCE SessionChains WITH
    Live0 <- Sessions0,
    state <- [t \in Tokens |-> TokenState(db[t])],
    family <- [t \in Tokens |-> TokenFamily(db[t])],
    succ <- [t \in Tokens |-> TokenSuccessor(db[t])]

\* Every step of the requests is one step of the chains, or none.
ImplementsChains == Chains!Spec

(***************************************************************************)
(* The inductive invariant.                                                 *)
(***************************************************************************)
\* A row nobody holds has one version.
UnlockedSettled == \A o \in Rows : lock[o] = None => work[o] = db[o]

\* No handler deletes a row.
NothingDeleted == \A o \in Rows : db[o] # None => work[o] # None

\* The rows a statement is about to update were read, so they exist.
TargetsExist(r) ==
    /\ pc[r] \in {"revoke", "use"} => job[r].tok # None /\ db[job[r].tok] # None
    /\ pc[r] = "sweep" =>
          \A o \in snap[r] :
              /\ o \in (IF job[r].op = "request" THEN Resets ELSE Tokens)
              /\ db[o] # None

\* A refresh that has accepted its token, until it commits ...
Rotating(r) == pc[r] \in {"issue", "rotate", "commit"} /\ job[r].op = "refresh"

\* ... holds the token, still live, then also the successor.
HoldsToken(r) ==
    Rotating(r) =>
        /\ lock[job[r].tok] = r
        /\ Live(db[job[r].tok])
        /\ pc[r] # "issue" => new[r] \in Tokens /\ lock[new[r]] = r /\ db[new[r]] = None

\* What is about to be sent to the client was generated.
Generated(r) ==
    /\ pc[r] = "respond" /\ job[r].op \in {"login", "refresh"} => new[r] \in Tokens
    /\ pc[r] = "mail" => new[r] \in Resets

\* What the transaction of r has made of a token row it holds.
LoginDraft(r, t) ==
    /\ job[r].op = "login"
    /\ pc[r] \in {"respond", "commit"}
    /\ t = new[r] /\ db[t] = None /\ work[t] = NewToken(t)

PresentedDraft(r, t) ==
    /\ Rotating(r)
    /\ t = job[r].tok
    /\ work[t] = IF pc[r] = "commit" THEN RotatedVersion(db[t], new[r]) ELSE db[t]

SuccessorDraft(r, t) ==
    /\ Rotating(r) /\ pc[r] # "issue"
    /\ t = new[r] /\ db[t] = None /\ work[t] = NewToken(db[job[r].tok].family)

ReuseDraft(r, t) ==
    /\ job[r].op = "refresh" /\ pc[r] \in {"scan", "sweep"}
    /\ db[t] # None /\ work[t] \in {db[t], RevokedVersion(db[t])}

RevokedDraft(r, t) ==
    /\ job[r].op \in {"logout", "confirm"} /\ pc[r] \notin Ended
    /\ db[t] # None /\ work[t] = RevokedVersion(db[t])

Drafts(r) ==
    \A t \in Tokens : lock[t] = r =>
        /\ pc[r] # "idle"
        /\ \/ LoginDraft(r, t) \/ PresentedDraft(r, t) \/ SuccessorDraft(r, t)
           \/ ReuseDraft(r, t) \/ RevokedDraft(r, t)

\* A request that has run no statement that locks, or has ended its transaction.
OutsideTransaction(r) ==
    \/ pc[r] \in {"idle", "auth", "read"} \cup Ended
    \/ pc[r] = "scan" /\ job[r].op = "request"
    \/ pc[r] = "respond" /\ job[r].op = "refresh"

\* It holds no lock: none outlives its transaction.
HoldsNothing(r) == OutsideTransaction(r) => \A o \in Rows : lock[o] # r

RequestInv(r) == /\ TargetsExist(r) /\ HoldsToken(r) /\ Generated(r) /\ Drafts(r)
                 /\ HoldsNothing(r)

\* The first token of a family is in the table with the rest of it.
FamilyRooted == \A t \in Tokens : db[t] # None => db[db[t].family] # None

IInv ==
    /\ TypeOK
    /\ UnlockedSettled
    /\ NothingDeleted
    /\ \A r \in Reqs : RequestInv(r)
    /\ FamilyRooted
    /\ OneLivePerFamily

=============================================================================
