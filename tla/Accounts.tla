------------------------------ MODULE Accounts ------------------------------
(***************************************************************************)
(* How accounts come to be: signup, e-mail verification and OAuth callback  *)
(* (src/domains/auth: AuthService.signup_and_send_email, verify_email and   *)
(* oauth_provision_user, with their routes).  Tables users,                 *)
(* email_verifications and oauth_accounts, with their unique indexes; the   *)
(* nonces of OAuth logins in Redis; the mails.                              *)
(*                                                                          *)
(* A user's id is the request that inserted the row, which is keyed by its  *)
(* e-mail address (ix_users_email); NoEmail is the address "" an adapter    *)
(* returns for a provider that tells none.  A signup request has one        *)
(* verification token.  The default role and the refresh token go to rows   *)
(* of their own that nobody else touches; their statements are left out, to *)
(* fail like the statement before them.                                     *)
(***************************************************************************)
EXTENDS Naturals, FiniteSets

CONSTANTS Reqs,        \* requests
          Emails,      \* normalised addresses, NoEmail among them
          NoEmail,
          Providers,   \* OAuth providers
          Subjects,    \* provider_user_id of the people who sign in
          Nonces,      \* state nonces of OAuth logins
          Ops,         \* the operations clients call
          Failures,    \* whether statements and commits can fail
          None

VARIABLES db, work, lock,   \* see RowStore
          pc,       \* the await a request stands at
          job,      \* what it was called with, and the user id it found
          mailed,   \* verification tokens delivered
          nonces    \* oauth:state:<nonce> in Redis: the provider, or None

Identities == Providers \X Subjects
Verification(r) == <<r, "verification">>
Verifications == Reqs \X {"verification"}

Rows == Emails \cup Identities \cup Verifications

INSTANCE RowStore

store == <<db, work, lock>>
vars == <<db, work, lock, pc, job, mailed, nonces>>

User == [id: Reqs, local: BOOLEAN, verified: BOOLEAN]
EmailVerification == [user: Reqs, used: BOOLEAN]
OAuthAccount == [user: Reqs]

\* The row of the user with this id, as r reads it.
EmailOf(r, id) == CHOOSE e \in Emails : Visible(r, e) # None /\ Visible(r, e).id = id

\* What a handler keeps between its awaits; None where it has nothing yet.
Job == [op: {"signup", "verify", "oauth"},
        email: Emails \cup {None},            \* payload.email, user_info["email"]
        user: Reqs \cup {None},               \* user.id
        tok: Verifications \cup {None},       \* the token in the link
        ident: Identities \cup {None},        \* provider and subject
        nonce: Nonces \cup {None}]            \* state

Blank == [op |-> "signup", email |-> None, user |-> None, tok |-> None, ident |-> None,
          nonce |-> None]

StagesOf == [
    signup |-> {"existing", "create_user", "verification", "mail", "commit"},
    verify |-> {"read", "use", "mark_verified", "commit"},
    oauth  |-> {"state", "consume", "exchange", "update", "user", "create_user",
                "mark_verified", "link", "commit"}]

Ended == {"done", "lost", "failed"}

ASSUME AccountsAssumption ==
    /\ NoEmail \in Emails
    /\ None \notin Reqs \cup Rows \cup User \cup EmailVerification \cup OAuthAccount
                \cup Providers \cup Nonces
    /\ Emails \cap (Identities \cup Verifications) = {}
    /\ Identities \cap Verifications = {}
    /\ Ops \subseteq {"signup", "verify", "oauth"}
    /\ Failures \in BOOLEAN

Init ==
    /\ db = [o \in Rows |-> None]
    /\ work = db
    /\ lock = [o \in Rows |-> None]
    /\ pc = [r \in Reqs |-> "idle"]
    /\ job = [r \in Reqs |-> Blank]
    /\ mailed = {}
    /\ nonces = [n \in Nonces |-> None]

(***************************************************************************)
(* Helpers.                                                                 *)
(***************************************************************************)
At(r, op, stage) == pc[r] = stage /\ job[r].op = op

Goto(r, stage) == pc' = [pc EXCEPT ![r] = stage]

\* Only the store and the program counter change.
Rest == UNCHANGED <<job, mailed, nonces>>

\* Mutant of Fail: the transaction stays open.
FailLeavingOpen(r) ==
    /\ UNCHANGED store
    /\ Goto(r, "failed")
    /\ Rest

\* An exception leaves the handler, the client gets an error status and
\* get_async_session rolls back.
Fail(r) ==
    /\ Rollback(r)
    /\ Goto(r, "failed")
    /\ Rest

\* The unique index of the table has a committed row with this key.
Taken(o) == db[o] # None

\* INSERT: waits for another transaction that has inserted the key.
Insert(r, o, row) == ~Taken(o) /\ Write(r, o, row)

Begin(r, j, stage) ==
    /\ pc[r] = "idle"
    /\ j.op \in Ops
    /\ job' = [job EXCEPT ![r] = j]
    /\ Goto(r, stage)
    /\ UNCHANGED <<db, work, lock, mailed, nonces>>

(***************************************************************************)
(* POST /signup                                                             *)
(***************************************************************************)
StartSignup(r) ==
    \E e \in Emails \ {NoEmail} :
        Begin(r, [Blank EXCEPT !.op = "signup", !.email = e], "existing")

\* get_user_by_email: ConflictError, 409, when there is one.
SignupExisting(r) ==
    /\ At(r, "signup", "existing")
    /\ \/ Visible(r, job[r].email) # None /\ Fail(r)
       \/ /\ Visible(r, job[r].email) = None
          /\ Goto(r, "create_user")
          /\ UNCHANGED store
          /\ Rest

\* Mutant of CreateUser: there is no unique index on users.email.
CreateUserUnindexed(r) ==
    LET e == job[r].email
        user == [id |-> r, local |-> job[r].op = "signup", verified |-> FALSE]
    IN /\ pc[r] = "create_user"
       /\ Write(r, e, user)
       /\ job' = [job EXCEPT ![r].user = r]
       /\ Goto(r, IF job[r].op = "signup" THEN "verification" ELSE "mark_verified")
       /\ UNCHANGED <<mailed, nonces>>

CreateUser(r) ==
    LET e == job[r].email
        user == [id |-> r, local |-> job[r].op = "signup", verified |-> FALSE]
    IN /\ pc[r] = "create_user"
       /\ Insert(r, e, user)
       /\ job' = [job EXCEPT ![r].user = r]
       /\ Goto(r, IF job[r].op = "signup" THEN "verification" ELSE "mark_verified")
       /\ UNCHANGED <<mailed, nonces>>

\* IntegrityError becomes ConflictError, 409.
SignupTaken(r) ==
    /\ At(r, "signup", "create_user")
    /\ Taken(job[r].email)
    /\ Fail(r)

\* Mutant of CreateVerification: the user is committed before its token exists.
CreateVerificationApart(r) ==
    /\ At(r, "signup", "verification")
    /\ Commit(r)
    /\ Goto(r, "mail")
    /\ Rest

CreateVerification(r) ==
    /\ At(r, "signup", "verification")
    /\ Write(r, Verification(r), [user |-> r, used |-> FALSE])
    /\ Goto(r, "mail")
    /\ Rest

\* The mail goes out before the commit; a failure to send is logged.
SendMail(r) ==
    /\ At(r, "signup", "mail")
    /\ mailed' \in {mailed, mailed \cup {Verification(r)}}
    /\ Goto(r, "commit")
    /\ UNCHANGED <<db, work, lock, job, nonces>>

(***************************************************************************)
(* POST /verify-email/{token}                                               *)
(***************************************************************************)
StartVerify(r) ==
    \E v \in mailed : Begin(r, [Blank EXCEPT !.op = "verify", !.tok = v], "read")

\* The row is read without a lock.
VerifyRead(r) ==
    LET v == Visible(r, job[r].tok) IN
    /\ At(r, "verify", "read")
    /\ v # None /\ ~v.used
    /\ job' = [job EXCEPT ![r].user = v.user]
    /\ Goto(r, "use")
    /\ UNCHANGED <<db, work, lock, mailed, nonces>>

\* UnauthorizedError: unknown, used or expired.
VerifyReject(r) ==
    /\ At(r, "verify", "read")
    /\ Fail(r)

\* mark_email_verification_used: by id, whatever `used` has become.
VerifyUse(r) ==
    LET v == job[r].tok IN
    /\ At(r, "verify", "use")
    /\ Write(r, v, [work[v] EXCEPT !.used = TRUE])
    /\ Goto(r, "mark_verified")
    /\ Rest

\* Mutant of MarkUserVerified: the user row is left as it is.
MarkUserVerifiedForgotten(r) == r \in Reqs /\ UNCHANGED store

\* mark_user_verified: an UPDATE by id.
MarkUserVerified(r) ==
    LET e == EmailOf(r, job[r].user)
    IN Write(r, e, [work[e] EXCEPT !.verified = TRUE])

VerifyUser(r) ==
    /\ At(r, "verify", "mark_verified")
    /\ MarkUserVerified(r)
    /\ Goto(r, "commit")
    /\ Rest

(***************************************************************************)
(* GET /oauth/{provider}/login and /oauth/{provider}/callback               *)
(***************************************************************************)
\* A nonce is random: none is stored again while a request holds it.
OAuthLogin(n) ==
    /\ "oauth" \in Ops
    /\ nonces[n] = None
    /\ \A r \in Reqs : job[r].nonce = n => pc[r] \in Ended
    /\ \E p \in Providers : nonces' = [nonces EXCEPT ![n] = p]
    /\ UNCHANGED <<db, work, lock, pc, job, mailed>>

\* The provider sends the browser back with a code for one of its subjects.
StartCallback(r) ==
    \E n \in Nonces, i \in Identities :
        /\ nonces[n] # None
        /\ Begin(r, [Blank EXCEPT !.op = "oauth", !.ident = i, !.nonce = n], "state")

\* redis.get: the nonce must be stored, not expired, for this provider,
\* else 400.
CheckState(r) ==
    /\ At(r, "oauth", "state")
    /\ \/ Fail(r)
       \/ /\ nonces[job[r].nonce] = job[r].ident[1]
          /\ Goto(r, "consume")
          /\ UNCHANGED store
          /\ Rest

\* redis.delete, a second command.
ConsumeState(r) ==
    /\ At(r, "oauth", "consume")
    /\ nonces' = [nonces EXCEPT ![job[r].nonce] = None]
    /\ Goto(r, "exchange")
    /\ UNCHANGED <<db, work, lock, job, mailed>>

\* exchange_code: the provider tells an address of the subject, or none; then
\* get_oauth_account.
FindAccount(r) ==
    LET a == Visible(r, job[r].ident) IN
    /\ At(r, "oauth", "exchange")
    /\ \E e \in Emails :
           job' = [job EXCEPT ![r].email = e, ![r].user = IF a = None THEN None ELSE a.user]
    /\ Goto(r, IF a = None THEN "user" ELSE "update")
    /\ UNCHANGED <<db, work, lock, mailed, nonces>>

\* 502.
ExchangeFails(r) == Failures /\ At(r, "oauth", "exchange") /\ Fail(r)

\* Mutant of UpdateAccount: the account follows the address it reports.
UpdateAccountMoving(r) ==
    LET i == job[r].ident
        u == Visible(r, job[r].email)
    IN /\ At(r, "oauth", "update")
       /\ Write(r, i, IF u = None THEN work[i] ELSE [user |-> u.id])
       /\ Goto(r, "commit")
       /\ Rest

\* update_oauth_account: the provider's tokens, nothing of the link.
UpdateAccount(r) ==
    /\ At(r, "oauth", "update")
    /\ Write(r, job[r].ident, work[job[r].ident])
    /\ Goto(r, "commit")
    /\ Rest

\* get_user_by_email.
FindUser(r) ==
    LET u == Visible(r, job[r].email) IN
    /\ At(r, "oauth", "user")
    /\ job' = [job EXCEPT ![r].user = IF u = None THEN None ELSE u.id]
    /\ Goto(r, IF u = None THEN "create_user" ELSE "link")
    /\ UNCHANGED <<db, work, lock, mailed, nonces>>

\* Mutant of OAuthTaken: the error is swallowed and the lost row linked.
OAuthTakenSwallowed(r) ==
    /\ \/ At(r, "oauth", "create_user") /\ Taken(job[r].email)
       \/ At(r, "oauth", "link") /\ Taken(job[r].ident)
    /\ Rollback(r)
    /\ job' = [job EXCEPT ![r].user = r]
    /\ Goto(r, IF pc[r] = "link" THEN "commit" ELSE "link")
    /\ UNCHANGED <<mailed, nonces>>

\* Nothing catches IntegrityError: 500.
OAuthTaken(r) ==
    /\ \/ At(r, "oauth", "create_user") /\ Taken(job[r].email)
       \/ At(r, "oauth", "link") /\ Taken(job[r].ident)
    /\ Fail(r)

\* A user made for the callback counts as verified.
VerifyCreated(r) ==
    /\ At(r, "oauth", "mark_verified")
    /\ MarkUserVerified(r)
    /\ Goto(r, "link")
    /\ Rest

LinkAccount(r) ==
    /\ At(r, "oauth", "link")
    /\ Insert(r, job[r].ident, [user |-> job[r].user])
    /\ Goto(r, "commit")
    /\ Rest

(***************************************************************************)
(* The end of a request.                                                    *)
(***************************************************************************)
\* Mutant of CommitTransaction: the request ends where no handler stands.
CommitNowhere(r) ==
    /\ pc[r] = "commit"
    /\ Commit(r)
    /\ Goto(r, "answered")
    /\ Rest

\* get_async_session commits when the answer has been sent.
CommitTransaction(r) ==
    /\ pc[r] = "commit"
    /\ Commit(r)
    /\ Goto(r, "done")
    /\ Rest

\* The answer stands, the rows do not.
CommitLost(r) ==
    /\ Failures /\ pc[r] = "commit"
    /\ Rollback(r)
    /\ Goto(r, "lost")
    /\ Rest

StatementFails(r) ==
    /\ Failures
    /\ pc[r] \in {"existing", "create_user", "verification", "mail", "read", "use",
                  "mark_verified", "exchange", "update", "user", "link"}
    /\ Fail(r)

(***************************************************************************)
(* The specification.                                                       *)
(***************************************************************************)
Call(r) == StartSignup(r) \/ StartVerify(r) \/ StartCallback(r)

Signup(r) == \/ SignupExisting(r) \/ SignupTaken(r) \/ CreateVerification(r)
             \/ SendMail(r)

Verify(r) == VerifyRead(r) \/ VerifyReject(r) \/ VerifyUse(r) \/ VerifyUser(r)

Callback(r) == \/ CheckState(r) \/ ConsumeState(r) \/ FindAccount(r) \/ ExchangeFails(r)
               \/ UpdateAccount(r) \/ FindUser(r) \/ VerifyCreated(r) \/ OAuthTaken(r)
               \/ LinkAccount(r)

Shared(r) == CreateUser(r) \/ CommitTransaction(r)

Handle(r) == Signup(r) \/ Verify(r) \/ Callback(r) \/ Shared(r)

Break(r) == CommitLost(r) \/ StatementFails(r)

Quiescent == (\A r \in Reqs : pc[r] \in {"idle"} \cup Ended) /\ UNCHANGED vars

Next == \/ \E r \in Reqs : Call(r) \/ Handle(r) \/ Break(r)
        \/ \E n \in Nonces : OAuthLogin(n)
        \/ Quiescent

Spec == Init /\ [][Next]_vars

\* The event loop runs every ready task and statements, mails and exchanges end.
FairSpec == Spec /\ \A r \in Reqs : WF_vars(Handle(r))

(***************************************************************************)
(* Properties.                                                              *)
(***************************************************************************)
StoreType(rows) ==
    /\ DOMAIN rows = Rows
    /\ \A e \in Emails : rows[e] \in User \cup {None}
    /\ \A i \in Identities : rows[i] \in OAuthAccount \cup {None}
    /\ \A v \in Verifications : rows[v] \in EmailVerification \cup {None}

\* Types of all variables; a request is at an await of the handler it called.
TypeOK ==
    /\ StoreType(db) /\ StoreType(work)
    /\ lock \in [Rows -> Reqs \cup {None}]
    /\ DOMAIN pc = Reqs
    /\ job \in [Reqs -> Job]
    /\ \A r \in Reqs : pc[r] \in StagesOf[job[r].op] \cup Ended \cup {"idle"}
    /\ mailed \subseteq Verifications
    /\ nonces \in [Nonces -> Providers \cup {None}]

IsUser(id) == \E e \in Emails : db[e] # None /\ db[e].id = id

\* An account made by signup is committed with its verification token, and
\* no token without the account: signup is one transaction.
SignupWhole ==
    /\ \A e \in Emails : db[e] # None /\ db[e].local => db[Verification(db[e].id)] # None
    /\ \A v \in Verifications : db[v] # None => IsUser(db[v].user)

\* Every linked OAuth account has its user, also when the callback lost the race
\* for the address or for the account and its own user row was rolled back.
LinkedToUser == \A i \in Identities : db[i] # None => IsUser(db[i].user)

\* An account made by signup is verified exactly when its token has been used:
\* verify_email changes both rows or none, and linking verifies nobody.
VerifiedByToken ==
    \A e \in Emails : db[e] # None /\ db[e].local =>
        (db[e].verified <=> db[Verification(db[e].id)].used)

\* Requests that raced to create one account do not both end well as creator.
CreatedOnce ==
    \A q, r \in Reqs :
        (/\ pc[q] = "done" /\ job[q].user = q
         /\ pc[r] = "done" /\ job[r].user = r
         /\ job[q].email = job[r].email) => q = r

\* A committed account keeps its id, its kind and its verification, and an OAuth
\* account its user, whatever signups and callbacks follow.
AccountsKept ==
    [][/\ \A e \in Emails : db[e] # None =>
              /\ db'[e] # None
              /\ db'[e].id = db[e].id /\ db'[e].local = db[e].local
              /\ db[e].verified => db'[e].verified
       /\ \A i \in Identities : db[i] # None => db'[i] = db[i]]_vars

\* How the committed tables look to the book.
TokenState(v) == IF v = None THEN "none" ELSE IF v.used THEN "used" ELSE "open"

LinkedUser(a) == IF a = None THEN None ELSE a.user

Book == INSTANCE AccountBook
        WITH Ids <- Reqs,
             users <- [e \in Emails |-> db[e]],
             tokens <- [r \in Reqs |-> TokenState(db[Verification(r)])],
             linked <- [i \in Identities |-> LinkedUser(db[i])]

\* The committed tables change as the book does, however signups, verifications
\* and callbacks interleave and fail: an account and its token, or its identity,
\* appear in one step, a token and its account are verified in one, and nothing
\* committed is lost or re-linked.
ImplementsBook == Book!Spec

\* r cannot go on before q ends: its next statement writes a row q holds, or
\* inserts a key q has inserted.
WaitsFor(r, q) ==
    /\ q # r
    /\ \/ pc[r] = "create_user" /\ ~Taken(job[r].email) /\ lock[job[r].email] = q
       \/ pc[r] = "link" /\ ~Taken(job[r].ident) /\ lock[job[r].ident] = q
       \/ pc[r] = "update" /\ lock[job[r].ident] = q
       \/ pc[r] = "verification" /\ lock[Verification(r)] = q
       \/ pc[r] = "use" /\ lock[job[r].tok] = q
       \/ pc[r] = "mark_verified" /\ lock[EmailOf(r, job[r].user)] = q

\* Waiting leads to a request that can go on in two steps at most, and never in a
\* circle: whoever is waited for is under way, and if it waits itself, then for a
\* request that has only its commit left.
WaitsEnd ==
    \A p, q \in Reqs : WaitsFor(p, q) =>
        /\ pc[q] \notin Ended
        /\ \A r \in Reqs : WaitsFor(q, r) => pc[r] = "commit"

\* Every request ends: waiting for a unique index or a row never makes a cycle,
\* so no request depends on PostgreSQL ending a deadlock.
EveryRequestEnds == \A r \in Reqs : pc[r] # "idle" ~> pc[r] \in Ended

(***************************************************************************)
(* What a docstring says and the code does not do.                          *)
(***************************************************************************)
\* "One user can have multiple OAuth accounts (one per provider)" (OAuthAccount).
OneAccountPerProvider ==
    \A i, j \in Identities :
        (db[i] # None /\ db[j] # None /\ db[i].user = db[j].user /\ i[1] = j[1]) => i = j

=============================================================================
