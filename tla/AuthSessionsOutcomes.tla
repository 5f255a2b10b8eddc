------------------------ MODULE AuthSessionsOutcomes ------------------------
(***************************************************************************)
(* What the endpoints of AuthSessions have achieved once they answer: a     *)
(* refresh exchanged its token for one linked successor, a reset revoked    *)
(* what its bulk UPDATE saw and nobody else's sessions, a request for a     *)
(* reset used up the earlier reset tokens.                                  *)
(***************************************************************************)
EXTENDS AuthSessionsProofs

(***************************************************************************)
(* The strengthening of the inductive invariant.                            *)
(***************************************************************************)
\* A refresh exchanges a token for one of the same user.
SameUser(r) ==
    /\ (pc[r] # "idle" /\ job[r].op = "refresh") => Owner[job[r].tok] = job[r].user
    /\ (Rotating(r) /\ pc[r] # "issue") => Owner[new[r]] = job[r].user

\* A refresh answers when it is done, the others before they commit.
Answered(r) ==
    ans[r] = "ok" =>
        /\ pc[r] \in {"commit", "done", "lost"}
        /\ job[r].op = "refresh" => pc[r] = "done"

\* A refresh that has committed its rotation, whether or not it has answered.
Exchanged(r) ==
    /\ pc[r] = "respond" \/ (pc[r] = "done" /\ ans[r] = "ok")
    /\ job[r].op = "refresh"

\* Its rows are in the table, linked.
Durable(r) ==
    Exchanged(r) =>
        /\ new[r] \in Tokens /\ db[new[r]] # None
        /\ db[job[r].tok] # None
        /\ db[job[r].tok].revoked /\ db[job[r].tok].replaced_by_jti = new[r]

\* A reset holds tokens of its user only, all of the snapshot once the bulk
\* revocation is through, and leaves them revoked.
Revoking(r) ==
    (pc[r] # "idle" /\ job[r].op = "confirm") =>
        /\ pc[r] = "sweep" => \A t \in snap[r] : Owner[t] = job[r].user
        /\ \A t \in Tokens : lock[t] = r => Owner[t] = job[r].user
        /\ pc[r] \in {"respond", "commit"} => \A t \in snap[r] : t \in Tokens /\ lock[t] = r
        /\ pc[r] = "done" /\ ans[r] = "ok" =>
              \A t \in snap[r] : t \in Tokens /\ db[t] # None /\ db[t].revoked

\* A request for a reset has used up the rows of the snapshot it holds, all of
\* them before it mails the new token, and leaves them used.
UsingUp(r) ==
    (pc[r] # "idle" /\ job[r].op = "request") =>
        /\ pc[r] = "sweep" => \A p \in snap[r] : lock[p] = r => work[p].used
        /\ pc[r] \in {"mail", "respond", "commit"} =>
              \A p \in snap[r] : /\ p \in Resets /\ lock[p] = r
                                 /\ work[p] # None /\ work[p].used
        /\ pc[r] = "done" /\ ans[r] = "ok" =>
              \A p \in snap[r] : p \in Resets /\ db[p] # None /\ db[p].used

Outcome(r) == SameUser(r) /\ Answered(r) /\ Durable(r) /\ Revoking(r) /\ UsingUp(r)

\* A link leads to a row of the table.
LinksResolve ==
    \A t \in Tokens : (db[t] # None /\ db[t].replaced_by_jti # None) =>
        db[db[t].replaced_by_jti] # None

\* No transaction makes a used reset token usable.
UsedStays == \A p \in Resets : (db[p] # None /\ db[p].used) => ~Unused(work[p])

\* Two refreshes have not exchanged the same token.
ExchangedOnce ==
    \A r1, r2 \in Reqs :
        (Exchanged(r1) /\ Exchanged(r2) /\ job[r1].tok = job[r2].tok) => r1 = r2

OInv ==
    /\ IInv
    /\ \A r \in Reqs : Outcome(r)
    /\ LinksResolve
    /\ SuccessorLinked
    /\ UsedStays
    /\ ExchangedOnce


(***************************************************************************)
(* What a step of one request leaves alone.                                 *)
(***************************************************************************)
\* One statement touches one row, which nobody else holds.
LEMMA WriteShape ==
    ASSUME IInv, NEW r \in Reqs, NEW o \in Rows, NEW v, Write(r, o, v)
    PROVE  OthersRows(r) /\ db' = db
  BY DEF OthersRows, Write, Free, IInv, TypeOK, StoreType

\* The end of a transaction touches the rows it held.
LEMMA EndShape ==
    ASSUME IInv, NEW r \in Reqs, Commit(r) \/ Rollback(r)
    PROVE  OthersRows(r)
  <1>1. CASE Commit(r)
    BY <1>1, StoreOfIInv, CommitStore DEF OthersRows, IInv, NothingDeleted
  <1>2. CASE Rollback(r)
    BY <1>2, StoreOfIInv, RollbackStore DEF OthersRows
  <1> QED BY <1>1, <1>2

\* A step that touches no row.
LEMMA NoRowShape ==
    ASSUME IInv, NEW r \in Reqs, UNCHANGED store
    PROVE  OthersRows(r)
  BY DEF OthersRows, store

\* The local state and the answers of the other requests.
OthersKept(r) ==
    /\ OthersLocal(r)
    /\ \A q \in Reqs \ {r} : ans'[q] = ans[q]

Step(r) == Call(r) \/ Handle(r) \/ ConnectionLost(r)

\* The actions by what they do to the table: end the transaction, write a row,
\* lock one, or none of these.
Failing(r) == \/ LoginReject(r) \/ RefreshReject(r) \/ RefreshReuse(r) \/ LogoutReject(r)
              \/ ConfirmReject(r) \/ DeadlockVictim(r) \/ ConnectionLost(r)

Writing(r) == \/ LoginIssue(r) \/ RefreshIssue(r) \/ RefreshRotate(r) \/ SweepRow(r)
              \/ LogoutRevoke(r) \/ RequestRow(r) \/ RequestCreate(r) \/ ConfirmUse(r)
              \/ ConfirmPassword(r)

Moving(r) == \/ LoginAccept(r) \/ RefreshMissing(r) \/ SweepBegin(r) \/ LogoutAuth(r)
             \/ LogoutRead(r) \/ LogoutBlacklist(r) \/ RequestBegin(r) \/ RequestMail(r)
             \/ ConfirmRead(r) \/ ConfirmSwept(r) \/ Respond(r)

\* Every step is of one of these kinds.
LEMMA StepKinds ==
    ASSUME NEW r \in Reqs, Step(r)
    PROVE  \/ Call(r) \/ Failing(r) \/ Writing(r) \/ RefreshLock(r) \/ Moving(r)
           \/ CommitTransaction(r)
  BY DEF Step, Handle, Login, Refresh, Sweep, Logout, Request, Confirm, Failing, Writing,
         Moving

\* An exception is a rollback with an answer that is not "ok".
LEMMA FailingStep ==
    ASSUME IInv, NEW r \in Reqs, Failing(r)
    PROVE  \E answer \in Answers : answer # "ok" /\ Fail(r, answer)
  BY DEF Failing, LoginReject, RefreshReject, RefreshReuse, LogoutReject, ConfirmReject,
         DeadlockVictim, ConnectionLost, Answers

\* A call sets the request's job and its first await, and nothing else.
LEMMA CallStep ==
    ASSUME IInv, NEW r \in Reqs, Call(r)
    PROVE  /\ pc[r] = "idle" /\ pc'[r] \in {"read", "auth", "scan"}
           /\ pc' = [pc EXCEPT ![r] = pc'[r]] /\ job' = [job EXCEPT ![r] = job'[r]]
           /\ job'[r].op = "refresh" => Owner[job'[r].tok] = job'[r].user
           /\ UNCHANGED <<db, work, lock, new, snap, ans, known, blacklist>>
  <1> DEFINE Called ==
        /\ pc[r] = "idle" /\ pc'[r] \in {"read", "auth", "scan"}
        /\ pc' = [pc EXCEPT ![r] = pc'[r]] /\ job' = [job EXCEPT ![r] = job'[r]]
        /\ job'[r].op = "refresh" => Owner[job'[r].tok] = job'[r].user
        /\ UNCHANGED <<db, work, lock, new, snap, ans, known, blacklist>>
  <1>1. ASSUME NEW op, NEW stage \in {"read", "auth", "scan"}, NEW u, NEW t, NEW a,
               Start(r, op, stage, u, t, a), op = "refresh" => u = Owner[t]
        PROVE  Called
    BY <1>1 DEF Start, Goto, IInv, TypeOK
  <1>2. CASE StartLogin(r) \/ StartRequest(r)
    BY <1>1, <1>2 DEF StartLogin, StartRequest
  <1>3. CASE StartRefresh(r)
    BY <1>1, <1>3 DEF StartRefresh
  <1>4. CASE StartLogout(r) \/ StartConfirm(r)
    BY <1>1, <1>4 DEF StartLogout, StartConfirm
  <1> QED BY <1>2, <1>3, <1>4 DEF Call

\* A request that writes is at an await of its handler, about to write a row of
\* the database.
LEMMA WritingStep ==
    ASSUME IInv, NEW r \in Reqs, Writing(r)
    PROVE  \E o \in Rows : \E v : Write(r, o, v)
  <1>1. pc[r] \in {"revoke", "use"} => job[r].tok # None
    BY DEF IInv, RequestInv, TargetsExist
  <1>2. snap[r] \subseteq Rows
    BY DEF IInv, TypeOK, Rows
  <1>3. pc[r] \in {"rotate", "revoke", "use", "password"} => job[r] \in Jobs
    BY DEF IInv, TypeOK, RequestType
  <1>4. CASE LoginIssue(r) \/ RefreshIssue(r) \/ RequestCreate(r)
    BY <1>4 DEF LoginIssue, RefreshIssue, RequestCreate, Issue, Rows
  <1>5. CASE SweepRow(r) \/ RequestRow(r)
    BY <1>2, <1>5 DEF SweepRow, RequestRow
  <1>6. CASE RefreshRotate(r)
    BY <1>3, <1>6 DEF RefreshRotate, At, Jobs, Rows
  <1>7. CASE LogoutRevoke(r)
    BY <1>1, <1>3, <1>7 DEF LogoutRevoke, At, Jobs, Rows
  <1>8. CASE ConfirmUse(r)
    BY <1>3, <1>8 DEF ConfirmUse, At, Jobs, Rows
  <1>9. CASE ConfirmPassword(r)
    BY <1>3, <1>9 DEF ConfirmPassword, At, Jobs, Rows
  <1> QED BY <1>4, <1>5, <1>6, <1>7, <1>8, <1>9 DEF Writing

\* The local state a step may change is that of its own request.
LEMMA LocalShape ==
    ASSUME IInv, NEW r \in Reqs, Step(r)
    PROVE  OthersKept(r)
  <1> USE DEF OthersKept, OthersLocal, IInv, TypeOK, Goto
  <1>1. CASE Call(r)
    BY <1>1, CallStep
  <1>2. CASE Failing(r)
    BY <1>2, FailingStep DEF Fail
  <1>3. CASE Writing(r)
    BY <1>3 DEF Writing, LoginIssue, RefreshIssue, RefreshRotate, SweepRow, LogoutRevoke,
       RequestRow, RequestCreate, ConfirmUse, ConfirmPassword, Issue, OnlyMoves
  <1>4. CASE RefreshLock(r) \/ CommitTransaction(r)
    BY <1>4 DEF RefreshLock, CommitTransaction, OnlyMoves
  <1>5. CASE Moving(r)
    BY <1>5 DEF Moving, LoginAccept, RefreshMissing, SweepBegin, LogoutAuth, LogoutRead,
       LogoutBlacklist, RequestBegin, RequestMail, ConfirmRead, ConfirmSwept, Respond,
       OnlyMoves
  <1> QED BY <1>1, <1>2, <1>3, <1>4, <1>5, StepKinds

\* Calls and moves touch no row.
LEMMA RowsUntouched ==
    ASSUME IInv, NEW r \in Reqs, Call(r) \/ Moving(r)
    PROVE  UNCHANGED store
  <1>1. CASE Call(r)
    BY <1>1, CallStep DEF store
  <1>2. CASE Moving(r)
    BY <1>2 DEF Moving, LoginAccept, RefreshMissing, SweepBegin, LogoutAuth, LogoutRead,
       LogoutBlacklist, RequestBegin, RequestMail, ConfirmRead, ConfirmSwept, Respond, store
  <1> QED BY <1>1, <1>2

\* The rows a step may change are those of its own transaction.
LEMMA RowShape ==
    ASSUME IInv, NEW r \in Reqs, Step(r)
    PROVE  OthersRows(r)
  <1>1. CASE Call(r) \/ Moving(r)
    BY <1>1, RowsUntouched, NoRowShape
  <1>2. CASE Failing(r)
    BY <1>2, FailingStep, EndShape DEF Fail
  <1>3. CASE Writing(r)
    BY <1>3, WritingStep, WriteShape
  <1>4. CASE RefreshLock(r)
    BY <1>4 DEF RefreshLock, LockRow, OthersRows, Free, IInv, TypeOK
  <1>5. CASE CommitTransaction(r)
    BY <1>5, EndShape DEF CommitTransaction
  <1> QED BY <1>1, <1>2, <1>3, <1>4, <1>5, StepKinds

(***************************************************************************)
(* Used reset tokens.                                                       *)
(***************************************************************************)
\* A statement gives a reset row that is in the table, or was inserted by the
\* same transaction, no version but the used one.
LEMMA ResetWrites ==
    ASSUME IInv, NEW r \in Reqs, Writing(r), NEW p \in Resets, work'[p] # work[p]
    PROVE  work[p] = None \/ ~Unused(work'[p])
  <1>1. work[p] \in PasswordReset \/ work[p] = None
    BY DEF IInv, TypeOK, StoreType
  <1>2. \A row \in PasswordReset : UsedVersion(row).used
    BY DEF UsedVersion, PasswordReset
  <1>3. p \notin Tokens /\ p \notin Users /\ p \in Rows /\ DOMAIN work = Rows
    BY SetsAssumption DEF Rows, IInv, TypeOK, StoreType
  <1>4. pc[r] \in {"rotate", "revoke", "use", "password"} => job[r] \in Jobs
    BY DEF IInv, TypeOK, RequestType
  <1>5. pc[r] \in {"revoke", "use"} => job[r].tok # None
    BY DEF IInv, RequestInv, TargetsExist
  <1>6. ASSUME pc[r] = "sweep", job[r].op # "request", NEW o \in snap[r] PROVE o \in Tokens
    BY <1>6 DEF IInv, RequestInv, TargetsExist
  <1>7. ASSUME NEW o \in Tokens \cup Users, NEW v, Write(r, o, v) PROVE FALSE
    BY <1>3, <1>7 DEF Write
  <1>8. ~LoginIssue(r) /\ ~RefreshIssue(r)
    BY <1>7 DEF LoginIssue, RefreshIssue, Issue
  <1>9. ~RefreshRotate(r) /\ ~LogoutRevoke(r) /\ ~ConfirmPassword(r)
    BY <1>4, <1>5, <1>7 DEF RefreshRotate, LogoutRevoke, ConfirmPassword, At, Jobs
  <1>10. ~SweepRow(r)
    BY <1>6, <1>7 DEF SweepRow, At
  <1>11. CASE RequestCreate(r)
    <2>1. PICK o \in Resets : Fresh(r, o) /\ Write(r, o, NewReset)
      BY <1>11 DEF RequestCreate
    <2> QED BY <1>3, <2>1 DEF Fresh, Write
  <1>12. ASSUME NEW o, Write(r, o, UsedVersion(work[o]))
         PROVE  work[p] = None \/ ~Unused(work'[p])
    BY <1>1, <1>2, <1>3, <1>12 DEF Write, Unused
  <1> QED BY <1>8, <1>9, <1>10, <1>11, <1>12
          DEF Writing, RequestRow, ConfirmUse

\* So a committed use is there to stay, also in open transactions.
LEMMA UsedKept ==
    ASSUME IInv, UsedStays, NEW r \in Reqs, Step(r), NEW p \in Resets
    PROVE  /\ (db[p] # None /\ db[p].used) => (db'[p] # None /\ db'[p].used)
           /\ (db'[p] # None /\ db'[p].used) => ~Unused(work'[p])
  <1>1. p \in Rows /\ (db[p] # None => work[p] # None)
    BY DEF Rows, IInv, NothingDeleted
  <1>2. CASE UNCHANGED <<db, work>>
    BY <1>2 DEF UsedStays
  <1>3. CASE Commit(r)
    <2>1. /\ work' = work
          /\ db'[p] = IF lock[p] = r THEN work[p] ELSE db[p]
      BY <1>1, <1>3, CommitStore, StoreOfIInv
    <2> QED BY <1>1, <2>1 DEF UsedStays, Unused
  <1>4. CASE Rollback(r)
    <2>1. /\ db' = db
          /\ work'[p] = IF lock[p] = r THEN db[p] ELSE work[p]
      BY <1>1, <1>4, RollbackStore, StoreOfIInv
    <2> QED BY <2>1 DEF UsedStays, Unused
  <1>5. CASE Writing(r)
    <2>1. db' = db
      BY <1>5, WritingStep, WriteShape
    <2>2. CASE work'[p] = work[p]
      BY <2>1, <2>2 DEF UsedStays
    <2>3. CASE work'[p] # work[p]
      BY <1>1, <1>5, <2>1, <2>3, ResetWrites
    <2> QED BY <2>2, <2>3
  <1>6. CASE Call(r) \/ Moving(r)
    BY <1>2, <1>6, RowsUntouched DEF store
  <1>7. CASE RefreshLock(r)
    BY <1>2, <1>7 DEF RefreshLock, LockRow
  <1>8. CASE Failing(r)
    BY <1>4, <1>8, FailingStep DEF Fail
  <1>9. CASE CommitTransaction(r)
    BY <1>3, <1>9 DEF CommitTransaction
  <1> QED BY <1>5, <1>6, <1>7, <1>8, <1>9, StepKinds

\* A revocation committed before a step is still there after it.
LEMMA RevokedKept ==
    ASSUME IInv, NEW r \in Reqs, Step(r), NEW t \in Tokens, db[t] # None, db[t].revoked
    PROVE  /\ db'[t] # None /\ db'[t].revoked
           /\ db'[t].replaced_by_jti = db[t].replaced_by_jti
           /\ db'[t].family = db[t].family
  <1>1. [Next]_vars
    BY DEF Step, Next
  <1>2. CASE db' = db
    BY <1>2
  <1>3. ASSUME NEW q \in Reqs, CommitTransaction(q)
        PROVE  /\ db'[t] # None /\ db'[t].revoked
               /\ db'[t].replaced_by_jti = db[t].replaced_by_jti
               /\ db'[t].family = db[t].family
    <2>1. db[t] \in RefreshToken
      BY DEF IInv, TypeOK, StoreType
    <2>2. db'[t] = db[t] \/ db'[t] = RevokedVersion(db[t])
      BY <1>3, CommitTokens DEF CommitsToken, LoginDraft, Live
    <2> QED BY <1>3, <2>1, <2>2, CommitKeepsRevocations, RevokedType
  <1> QED BY <1>1, <1>2, <1>3, OnlyCommitsPublish

(***************************************************************************)
(* The share of the other requests.                                         *)
(***************************************************************************)
\* A step of r takes nothing from what another request has achieved.
LEMMA OthersOutcome ==
    ASSUME IInv, UsedStays, NEW r \in Reqs, Step(r), NEW q \in Reqs \ {r}, Outcome(q)
    PROVE  Outcome(q)'
  <1>1. /\ pc'[q] = pc[q] /\ job'[q] = job[q] /\ new'[q] = new[q] /\ snap'[q] = snap[q]
        /\ ans'[q] = ans[q]
    BY LocalShape DEF OthersKept, OthersLocal
  <1>2. /\ \A x \in Rows : lock'[x] = q <=> lock[x] = q
        /\ \A x \in Rows : lock[x] = q => work'[x] = work[x]
        /\ \A x \in Rows : db[x] # None => db'[x] # None
    BY RowShape, SetsAssumption DEF OthersRows
  <1>3. \A t \in Tokens : (db[t] # None /\ db[t].revoked) =>
            /\ db'[t] # None /\ db'[t].revoked
            /\ db'[t].replaced_by_jti = db[t].replaced_by_jti
    BY RevokedKept
  <1>4. \A p \in Resets : (db[p] # None /\ db[p].used) => db'[p] # None /\ db'[p].used
    BY UsedKept
  <1>5. pc[q] = "idle" \/ job[q] \in Jobs
    BY DEF IInv, TypeOK, RequestType
  <1>6. SameUser(q)' /\ Answered(q)'
    BY <1>1 DEF Outcome, SameUser, Rotating, Answered
  <1>7. Durable(q)'
    <2>1. Exchanged(q) => job[q].tok \in Tokens
      BY <1>5 DEF Exchanged, Jobs
    <2> QED BY <1>1, <1>2, <1>3, <2>1 DEF Outcome, Durable, Exchanged, Rows
  <1>8. Revoking(q)'
    BY <1>1, <1>2, <1>3 DEF Outcome, Revoking, Rows
  <1>9. UsingUp(q)'
    <2>1. \A p \in snap[q] : p \in Rows
      BY DEF IInv, TypeOK, Rows
    <2> QED BY <1>1, <1>2, <1>4, <2>1 DEF Outcome, UsingUp, Rows
  <1> QED BY <1>6, <1>7, <1>8, <1>9 DEF Outcome

(***************************************************************************)
(* The request's own share, one kind of step at a time.                     *)
(***************************************************************************)
\* A call starts without locks and without an answer.
LEMMA CallOutcome ==
    ASSUME IInv, NEW r \in Reqs, Call(r), Outcome(r)
    PROVE  Outcome(r)'
  <1>1. /\ pc[r] = "idle" /\ pc'[r] \in {"read", "auth", "scan"}
        /\ job'[r].op = "refresh" => Owner[job'[r].tok] = job'[r].user
        /\ lock' = lock /\ ans' = ans
    BY CallStep
  <1>2. \A x \in Rows : lock[x] # r
    BY <1>1 DEF IInv, RequestInv, HoldsNothing, OutsideTransaction
  <1>3. ans[r] # "ok"
    BY <1>1 DEF Outcome, Answered
  <1> QED BY <1>1, <1>2, <1>3
          DEF Outcome, SameUser, Rotating, Answered, Durable, Exchanged, Revoking, UsingUp,
              Rows

\* A rollback releases the rows; a request that had answered is lost.
LEMMA FailingOutcome ==
    ASSUME IInv, NEW r \in Reqs, Failing(r), Outcome(r)
    PROVE  Outcome(r)'
  <1>1. PICK answer \in Answers : answer # "ok" /\ Fail(r, answer)
    BY FailingStep
  <1>2. /\ pc'[r] = IF ans[r] = "none" THEN "done" ELSE "lost"
        /\ ans'[r] = IF ans[r] = "none" THEN answer ELSE ans[r]
        /\ job'[r] = job[r]
    BY <1>1 DEF Fail, Goto, IInv, TypeOK
  <1>3. \A x \in Rows : lock'[x] # r
    BY <1>1, RollbackStore, StoreOfIInv, SetsAssumption DEF Fail, Rows
  <1>4. pc[r] # "idle" => (job[r].op = "refresh" => Owner[job[r].tok] = job[r].user)
    BY DEF Outcome, SameUser
  <1>5. pc[r] \notin {"idle", "done", "lost"}
    <2>1. CASE DeadlockVictim(r)
      <3>1. Wanted(r) # {}
        BY <2>1 DEF DeadlockVictim, Deadlocked, WaitsFor
      <3> QED BY <3>1 DEF Wanted, At
    <2> QED BY <2>1 DEF Failing, LoginReject, RefreshReject, RefreshReuse, LogoutReject,
               ConfirmReject, ConnectionLost, At, Ended
  <1>6. ans'[r] = "ok" => ans[r] = "ok" /\ pc'[r] = "lost"
    BY <1>1, <1>2
  <1>7. ans[r] = "ok" => job[r].op # "refresh" \/ pc[r] = "done"
    BY DEF Outcome, Answered
  <1> QED BY <1>2, <1>3, <1>4, <1>5, <1>6, <1>7
          DEF Outcome, SameUser, Rotating, Answered, Durable, Exchanged, Revoking, UsingUp,
              Rows

\* A statement that writes comes before the answer.  A reset writes tokens of
\* its user only; a request for a reset makes the rows of its snapshot used.
LEMMA WritingOutcome ==
    ASSUME IInv, NEW r \in Reqs, Writing(r), Outcome(r)
    PROVE  Outcome(r)'
  <1>1. /\ pc[r] \in {"issue", "rotate", "sweep", "revoke", "use", "password"}
        /\ job' = job /\ ans' = ans /\ snap' = snap
    BY DEF Writing, LoginIssue, RefreshIssue, RefreshRotate, SweepRow, LogoutRevoke,
       RequestRow, RequestCreate, ConfirmUse, ConfirmPassword, Issue, OnlyMoves, At
  <1>2. /\ ans[r] # "ok"
        /\ job[r].op = "refresh" => Owner[job[r].tok] = job[r].user
        /\ job[r] \in Jobs
    BY <1>1 DEF Outcome, Answered, SameUser, IInv, TypeOK, RequestType
  <1>3. DOMAIN pc = Reqs /\ DOMAIN new = Reqs
    BY DEF IInv, TypeOK
  <1>4. CASE LoginIssue(r) \/ RefreshIssue(r) \/ RefreshRotate(r) \/ LogoutRevoke(r)
    <2>1. /\ job[r].op \in {"login", "refresh", "logout"}
          /\ pc'[r] \in {"respond", "rotate", "commit", "blacklist"}
          /\ pc'[r] = "respond" => job[r].op = "login"
      BY <1>3, <1>4 DEF LoginIssue, RefreshIssue, RefreshRotate, LogoutRevoke, Issue,
         OnlyMoves, Goto, At
    <2>2. job[r].op = "refresh" => Owner[new'[r]] = job[r].user
      BY <1>3, <1>4 DEF LoginIssue, RefreshIssue, RefreshRotate, LogoutRevoke, Issue, Fresh,
         OnlyMoves, At, Outcome, SameUser, Rotating
    <2> QED BY <1>1, <1>2, <2>1, <2>2
            DEF Outcome, SameUser, Rotating, Answered, Durable, Exchanged, Revoking, UsingUp
  <1>5. CASE SweepRow(r) \/ ConfirmUse(r) \/ ConfirmPassword(r)
    <2>1. /\ job[r].op \in {"refresh", "confirm"} /\ new' = new
          /\ pc'[r] \in {"sweep", "password", "scan"}
          /\ pc'[r] = "sweep" => pc[r] = "sweep"
      BY <1>3, <1>5 DEF SweepRow, ConfirmUse, ConfirmPassword, OnlyMoves, Goto, At
    <2>2. ASSUME job[r].op = "confirm", NEW t \in Tokens, lock'[t] = r
          PROVE  Owner[t] = job[r].user
      <3>1. PICK o, v : Write(r, o, v) /\ (o \in Tokens => o \in snap[r] /\ pc[r] = "sweep")
        BY <1>2, <1>5, SetsAssumption DEF SweepRow, ConfirmUse, ConfirmPassword, At, Jobs
      <3>2. lock[t] = r \/ t = o
        BY <2>2, <3>1 DEF Write, IInv, TypeOK, Rows
      <3> QED BY <1>1, <2>2, <3>1, <3>2 DEF Outcome, Revoking
    <2> QED BY <1>1, <1>2, <2>1, <2>2
            DEF Outcome, SameUser, Rotating, Answered, Durable, Exchanged, Revoking, UsingUp
  <1>6. CASE RequestRow(r) \/ RequestCreate(r)
    <2>1. /\ job[r].op = "request" /\ pc[r] = "sweep" /\ pc'[r] \in {"sweep", "mail"}
      BY <1>3, <1>6 DEF RequestRow, RequestCreate, OnlyMoves, Goto, At
    <2>2. \A p \in snap[r] : /\ p \in Resets /\ p \in Rows /\ p \in DOMAIN work
                             /\ work[p] \in PasswordReset /\ work[p] # None
      BY <2>1, SetsAssumption DEF IInv, RequestInv, TargetsExist, NothingDeleted, TypeOK,
         StoreType, Rows
    <2>3. \A row \in PasswordReset : UsedVersion(row).used /\ UsedVersion(row) # None
      BY SetsAssumption DEF UsedVersion, PasswordReset
    <2>4. ASSUME NEW p \in snap[r], lock'[p] = r PROVE work'[p] # None /\ work'[p].used
      <3>1. CASE work'[p] = work[p] /\ lock[p] = r
        BY <2>1, <2>2, <3>1 DEF Outcome, UsingUp
      <3>2. CASE RequestRow(r)
        BY <2>2, <2>3, <2>4, <3>1, <3>2 DEF RequestRow, Write, IInv, TypeOK
      <3>3. CASE RequestCreate(r)
        BY <2>2, <3>1, <3>3 DEF RequestCreate, Fresh, Write
      <3> QED BY <1>6, <3>2, <3>3
    <2>5. pc'[r] = "mail" => \A p \in snap[r] : lock'[p] = r
      <3>1. CASE RequestRow(r)
        BY <1>3, <3>1 DEF RequestRow, OnlyMoves, Goto
      <3>2. CASE RequestCreate(r)
        <4>1. PICK o : Write(r, o, NewReset)
          BY <3>2 DEF RequestCreate
        <4>2. \A p \in snap[r] : lock[p] = r
          BY <3>2 DEF RequestCreate
        <4>3. lock \in [Rows -> Reqs \cup {None}] /\ lock' = [lock EXCEPT ![o] = r]
          BY <4>1 DEF Write, IInv, TypeOK
        <4>4. \A p \in snap[r] : p \in Rows
          BY <2>2
        <4> QED BY <4>2, <4>3, <4>4
      <3> QED BY <1>6, <3>1, <3>2
    <2> QED BY <1>1, <1>2, <2>1, <2>2, <2>4, <2>5
            DEF Outcome, SameUser, Rotating, Answered, Durable, Exchanged, Revoking, UsingUp
  <1> QED BY <1>4, <1>5, <1>6 DEF Writing

\* SELECT ... FOR UPDATE achieves nothing yet.
LEMMA LockOutcome ==
    ASSUME IInv, NEW r \in Reqs, RefreshLock(r), Outcome(r)
    PROVE  Outcome(r)'
  <1>1. /\ pc[r] = "read" /\ job[r].op = "refresh" /\ pc'[r] \in {"scan", "issue"}
        /\ job' = job /\ ans' = ans
    BY DEF RefreshLock, OnlyMoves, Goto, At, IInv, TypeOK
  <1> QED BY <1>1
          DEF Outcome, SameUser, Rotating, Answered, Durable, Exchanged, Revoking, UsingUp

\* The steps that touch no row: a snapshot takes rows of the request's user, and
\* the bulk UPDATE is left with every row of the snapshot held.
LEMMA MovingOutcome ==
    ASSUME IInv, NEW r \in Reqs, Moving(r), Outcome(r)
    PROVE  Outcome(r)'
  <1>1. /\ job' = job /\ new' = new /\ db' = db /\ work' = work /\ lock' = lock
        /\ DOMAIN pc = Reqs /\ DOMAIN snap = Reqs /\ DOMAIN ans = Reqs
    BY DEF Moving, LoginAccept, RefreshMissing, SweepBegin, LogoutAuth, LogoutRead,
       LogoutBlacklist, RequestBegin, RequestMail, ConfirmRead, ConfirmSwept, Respond,
       OnlyMoves, store, IInv, TypeOK
  <1>2. pc[r] # "idle" /\ pc[r] \notin {"commit", "done", "lost"}
    BY DEF Moving, LoginAccept, RefreshMissing, SweepBegin, LogoutAuth, LogoutRead,
       LogoutBlacklist, RequestBegin, RequestMail, ConfirmRead, ConfirmSwept, Respond, At
  <1>3. ans[r] # "ok" /\ job[r].op \in AllOps
    BY <1>2 DEF Outcome, Answered, IInv, TypeOK, RequestType, Jobs, AllOps, Ended
  <1> USE <1>1, <1>2, <1>3 DEF Outcome, SameUser, Rotating, Answered, Durable, Exchanged,
          Revoking, UsingUp
  <1>4. CASE LoginAccept(r) \/ LogoutAuth(r) \/ LogoutRead(r) \/ LogoutBlacklist(r)
    BY <1>4 DEF LoginAccept, LogoutAuth, LogoutRead, LogoutBlacklist, OnlyMoves, Goto, At
  <1>5. CASE RefreshMissing(r) \/ ConfirmRead(r)
    BY <1>5 DEF RefreshMissing, ConfirmRead, OnlyMoves, Goto, At
  <1>6. CASE SweepBegin(r)
    BY <1>6 DEF SweepBegin, Goto, At
  <1>7. CASE RequestBegin(r)
    <2>1. \A p \in Rows : lock[p] # r
      BY <1>7 DEF RequestBegin, At, IInv, RequestInv, HoldsNothing, OutsideTransaction
    <2> QED BY <1>7, <2>1 DEF RequestBegin, Goto, At, Rows
  <1>8. CASE RequestMail(r)
    BY <1>8 DEF RequestMail, Goto, At
  <1>9. CASE ConfirmSwept(r)
    <2>1. \A t \in snap[r] : t \in Tokens
      BY <1>9 DEF ConfirmSwept, At, IInv, RequestInv, TargetsExist
    <2> QED BY <1>9, <2>1 DEF ConfirmSwept, OnlyMoves, Goto, At
  <1>10. CASE Respond(r)
    BY <1>10 DEF Respond, Goto
  <1> QED BY <1>4, <1>5, <1>6, <1>7, <1>8, <1>9, <1>10 DEF Moving

\* A commit makes what the transaction held the committed version.
LEMMA CommitOutcome ==
    ASSUME IInv, NEW r \in Reqs, CommitTransaction(r), Outcome(r)
    PROVE  Outcome(r)'
  <1>1. /\ pc[r] = "commit" /\ job' = job /\ new' = new /\ snap' = snap /\ ans' = ans
        /\ pc'[r] = IF job[r].op = "refresh" THEN "respond" ELSE "done"
        /\ job[r] \in Jobs
    BY DEF CommitTransaction, OnlyMoves, Goto, IInv, TypeOK, RequestType, Ended
  <1>2. /\ \A x \in Rows : db'[x] = IF lock[x] = r THEN work[x] ELSE db[x]
        /\ \A x \in Rows : lock'[x] # r
    BY CommitStore, StoreOfIInv, SetsAssumption DEF CommitTransaction, Rows
  <1>3. CASE job[r].op = "refresh"
    <2>1. Rotating(r)
      BY <1>1, <1>3 DEF Rotating
    <2>2. /\ job[r].tok \in Tokens /\ new[r] \in Tokens
          /\ db[job[r].tok] \in RefreshToken
          /\ db'[job[r].tok] = RotatedVersion(db[job[r].tok], new[r])
          /\ db'[new[r]] = NewToken(db[job[r].tok].family)
      BY <2>1, CommitHolds DEF IInv, TypeOK, StoreType, Live
    <2>3. db[job[r].tok].family \in Tokens
      BY <2>2 DEF RefreshToken
    <2>4. /\ db'[job[r].tok] \in RefreshToken /\ db'[job[r].tok].revoked
          /\ db'[job[r].tok].replaced_by_jti = new[r]
      BY <2>2, RotatedType
    <2>5. db'[new[r]] \in RefreshToken
      BY <2>2, <2>3, NewTokenType
    <2>6. None \notin RefreshToken
      BY SetsAssumption
    <2> QED BY <1>1, <1>3, <2>2, <2>4, <2>5, <2>6
            DEF Outcome, SameUser, Rotating, Answered, Durable, Exchanged, Revoking, UsingUp
  <1>4. CASE job[r].op = "confirm"
    <2>1. ASSUME NEW t \in Tokens, lock[t] = r PROVE db'[t] # None /\ db'[t].revoked
      <3>1. db[t] \in RefreshToken /\ work[t] = RevokedVersion(db[t])
        BY <1>1, <1>4, <2>1 DEF IInv, RequestInv, Drafts, LoginDraft, PresentedDraft,
           SuccessorDraft, ReuseDraft, RevokedDraft, Rotating, TypeOK, StoreType
      <3> QED BY <1>2, <2>1, <3>1, RevokedType, TokenVersions
    <2> QED BY <1>1, <1>2, <1>4, <2>1
            DEF Outcome, SameUser, Rotating, Answered, Durable, Exchanged, Revoking, UsingUp,
                Rows
  <1>5. CASE job[r].op \in {"login", "logout"}
    BY <1>1, <1>5
       DEF Outcome, SameUser, Rotating, Answered, Durable, Exchanged, Revoking, UsingUp
  <1>6. CASE job[r].op = "request"
    BY <1>1, <1>2, <1>6 DEF Outcome, SameUser, Rotating, Answered, Durable, Exchanged,
       Revoking, UsingUp, Rows
  <1> QED BY <1>1, <1>3, <1>4, <1>5, <1>6 DEF Jobs

\* What a request has achieved, every step of it keeps.
LEMMA OwnOutcome ==
    ASSUME IInv, NEW r \in Reqs, Step(r), Outcome(r)
    PROVE  Outcome(r)'
  BY StepKinds, CallOutcome, FailingOutcome, WritingOutcome, LockOutcome, MovingOutcome,
     CommitOutcome

(***************************************************************************)
(* Links.                                                                   *)
(***************************************************************************)
\* A commit that is not a rotation links nothing: every token keeps its family
\* and its replacement, or is inserted at the head of a family.
LEMMA PlainCommit ==
    ASSUME IInv, NEW r \in Reqs, CommitTransaction(r), ~Rotating(r), NEW t \in Tokens
    PROVE  \/ db[t] # None /\ db'[t] # None
              /\ db'[t].family = db[t].family
              /\ db'[t].replaced_by_jti = db[t].replaced_by_jti
           \/ db[t] = None /\ db'[t] = None
           \/ db'[t] = NewToken(t)
  <1>1. db[t] # None => db[t] \in RefreshToken
    BY DEF IInv, TypeOK, StoreType
  <1>2. CASE db[t] # None /\ db'[t] = RevokedVersion(db[t])
    BY <1>1, <1>2, RevokedType, TokenVersions
  <1> QED BY <1>2, CommitTokens DEF CommitsToken

\* A commit keeps every link leading to a row, and every successor the
\* replacement of one token.
LEMMA CommitLinks ==
    ASSUME IInv, NEW r \in Reqs, CommitTransaction(r), Outcome(r), LinksResolve,
           SuccessorLinked
    PROVE  LinksResolve' /\ SuccessorLinked'
  <1>1. \A t \in Tokens : db[t] # None => db[t] \in RefreshToken
    BY DEF IInv, TypeOK, StoreType
  <1>2. \A t \in Tokens : (db[t] # None /\ db[t].revoked) => db'[t] # None /\ db'[t].revoked
    BY CommitKeepsRevocations
  <1>3. \A f \in Tokens : /\ NewToken(f) # None
                          /\ NewToken(f).family = f /\ NewToken(f).replaced_by_jti = None
    BY NewTokenType, TokenVersions DEF NewToken
  <1>4. \A t \in Tokens : db[t] # None /\ db[t].replaced_by_jti # None
                            => db[t].replaced_by_jti \in Tokens
    BY <1>1 DEF RefreshToken
  <1>5. None \notin Tokens
    BY SetsAssumption DEF Rows
  <1>6. \A t \in Tokens : db[t] # None => db'[t] # None
    BY CommitStore, StoreOfIInv DEF CommitTransaction, Rows, IInv, NothingDeleted
  <1>7. CASE ~Rotating(r)
    <2>1. \A t \in Tokens :
            (db'[t] # None /\ db'[t].replaced_by_jti # None) =>
                db[t] # None /\ db[t].replaced_by_jti = db'[t].replaced_by_jti
      BY <1>3, <1>7, PlainCommit
    <2>2. LinksResolve'
      BY <1>4, <1>6, <2>1 DEF LinksResolve
    <2>3. ASSUME NEW n \in Tokens, db'[n] # None, db'[n].family # n
          PROVE  db[n] # None /\ db'[n].family = db[n].family
      BY <1>3, <1>7, <2>3, PlainCommit
    <2>4. SuccessorLinked'
      <3> SUFFICES ASSUME NEW n \in Tokens, db'[n] # None, db'[n].family # n
                   PROVE  \E t \in Tokens :
                            /\ db'[t] # None /\ db'[t].revoked /\ db'[t].replaced_by_jti = n
                            /\ db'[t].family = db'[n].family /\ Owner[t] = Owner[n]
                            /\ \A s \in Tokens \ {t} :
                                  db'[s] # None => db'[s].replaced_by_jti # n
        BY DEF SuccessorLinked
      <3>1. PICK t \in Tokens :
                /\ db[t] # None /\ db[t].revoked /\ db[t].replaced_by_jti = n
                /\ db[t].family = db[n].family /\ Owner[t] = Owner[n]
                /\ \A s \in Tokens \ {t} : db[s] # None => db[s].replaced_by_jti # n
        BY <2>3 DEF SuccessorLinked
      <3>2. db'[t] # None /\ db'[t].revoked
        BY <1>2, <3>1
      <3>3. db'[t].family = db[t].family /\ db'[t].replaced_by_jti = n
        <4>1. db'[t] # NewToken(t)
          BY <1>3, <1>5, <3>1, CommitKeepsRevocations
        <4> QED BY <1>7, <3>1, <4>1, PlainCommit
      <3>4. \A s \in Tokens \ {t} : db'[s] # None => db'[s].replaced_by_jti # n
        BY <1>5, <2>1, <3>1
      <3> QED BY <2>3, <3>1, <3>2, <3>3, <3>4
    <2> QED BY <2>2, <2>4
  <1>8. CASE Rotating(r)
    <2> DEFINE t == job[r].tok
               n == new[r]
    <2>1. /\ t \in Tokens /\ n \in Tokens /\ Live(db[t]) /\ db[n] = None
          /\ db'[t] = RotatedVersion(db[t], n) /\ db'[n] = NewToken(db[t].family)
          /\ \A x \in Tokens \ {t, n} : db'[x] = db[x]
      BY <1>8, CommitHolds
    <2>2. t # n /\ db[t] \in RefreshToken /\ db[t].family \in Tokens
      BY <1>1, <2>1 DEF Live, RefreshToken
    <2>3. /\ db'[t] # None /\ db'[t].revoked /\ db'[t].family = db[t].family
          /\ db'[t].replaced_by_jti = n
      BY <1>6, <2>1, <2>2, RotatedType DEF Live
    <2>4. /\ db'[n] # None /\ db'[n].family = db[t].family
          /\ db'[n].replaced_by_jti = None
      BY <1>3, <2>1, <2>2
    <2>5. Owner[t] = Owner[n]
      BY <1>8 DEF CommitTransaction, Rotating, Outcome, SameUser
    <2>6. \A s \in Tokens : db[s] # None => db[s].replaced_by_jti # n
      BY <1>5, <2>1 DEF LinksResolve
    <2> HIDE DEF t, n
    <2>7. LinksResolve'
      BY <1>4, <1>6, <2>1, <2>3, <2>4 DEF LinksResolve
    <2>8. SuccessorLinked'
      <3> SUFFICES ASSUME NEW m \in Tokens, db'[m] # None, db'[m].family # m
                   PROVE  \E x \in Tokens :
                            /\ db'[x] # None /\ db'[x].revoked /\ db'[x].replaced_by_jti = m
                            /\ db'[x].family = db'[m].family /\ Owner[x] = Owner[m]
                            /\ \A s \in Tokens \ {x} :
                                  db'[s] # None => db'[s].replaced_by_jti # m
        BY DEF SuccessorLinked
      <3>1. CASE m = n
        <4>1. \A s \in Tokens \ {t} : db'[s] # None => db'[s].replaced_by_jti # n
          BY <1>5, <2>1, <2>4, <2>6
        <4> QED BY <2>1, <2>3, <2>4, <2>5, <3>1, <4>1
      <3>2. CASE m # n
        <4>1. db[m] # None /\ db'[m].family = db[m].family
          BY <2>1, <2>3, <3>2 DEF Live
        <4>2. PICK x \in Tokens :
                  /\ db[x] # None /\ db[x].revoked /\ db[x].replaced_by_jti = m
                  /\ db[x].family = db[m].family /\ Owner[x] = Owner[m]
                  /\ \A s \in Tokens \ {x} : db[s] # None => db[s].replaced_by_jti # m
          BY <4>1 DEF SuccessorLinked
        <4>3. x # t /\ x # n
          BY <2>1, <4>2 DEF Live
        <4>4. db'[x] = db[x]
          BY <2>1, <4>3
        <4>5. ASSUME NEW s \in Tokens \ {x}, db'[s] # None PROVE db'[s].replaced_by_jti # m
          BY <1>5, <2>1, <2>3, <2>4, <3>2, <4>2, <4>5
        <4> QED BY <4>1, <4>2, <4>4, <4>5
      <3> QED BY <3>1, <3>2
    <2> QED BY <2>7, <2>8
  <1> QED BY <1>7, <1>8

\* Only the commit of a refresh exchanges a token, and that token was live.
LEMMA ExchangeKept ==
    ASSUME IInv, \A r \in Reqs : Outcome(r), ExchangedOnce, NEW r \in Reqs, Step(r)
    PROVE  ExchangedOnce'
  <1>1. \A q \in Reqs : Exchanged(q) => /\ db[job[q].tok] # None
                                        /\ db[job[q].tok].revoked
    BY DEF Outcome, Durable
  <1>2. \A q \in Reqs \ {r} : (Exchanged(q)' <=> Exchanged(q)) /\ job'[q] = job[q]
    BY LocalShape DEF OthersKept, OthersLocal, Exchanged
  <1>3. ASSUME Exchanged(r)'
        PROVE  /\ job'[r] = job[r]
               /\ Exchanged(r) \/ Live(db[job[r].tok])
    <2>1. CASE Call(r)
      BY <1>3, <2>1, CallStep DEF Exchanged
    <2>2. CASE Failing(r)
      <3>1. PICK answer \in Answers : answer # "ok" /\ Fail(r, answer)
        BY <2>2, FailingStep
      <3> QED BY <1>3, <3>1 DEF Exchanged, Fail, Goto, IInv, TypeOK
    <2>3. CASE Writing(r) \/ RefreshLock(r)
      BY <1>3, <2>3 DEF Exchanged, Writing, LoginIssue, RefreshIssue, RefreshRotate, SweepRow,
         LogoutRevoke, RequestRow, RequestCreate, ConfirmUse, ConfirmPassword, RefreshLock,
         Issue, OnlyMoves, Goto, At, IInv, TypeOK
    <2>4. CASE Moving(r)
      BY <1>3, <2>4 DEF Exchanged, Moving, LoginAccept, RefreshMissing, SweepBegin,
         LogoutAuth, LogoutRead, LogoutBlacklist, RequestBegin, RequestMail, ConfirmRead,
         ConfirmSwept, Respond, OnlyMoves, Goto, At, IInv, TypeOK
    <2>5. CASE CommitTransaction(r)
      <3>1. pc[r] = "commit" /\ job' = job
        BY <2>5 DEF CommitTransaction, OnlyMoves
      <3>2. Rotating(r)
        BY <1>3, <3>1 DEF Exchanged, Rotating
      <3> QED BY <2>5, <3>1, <3>2, CommitHolds
    <2> QED BY <2>1, <2>2, <2>3, <2>4, <2>5, StepKinds
  <1> QED BY <1>1, <1>2, <1>3 DEF ExchangedOnce, Live

(***************************************************************************)
(* The strengthened invariant.                                              *)
(***************************************************************************)
\* Every step keeps it.
LEMMA NextOutcomes == OInv /\ [Next]_vars => OInv'
  <1> SUFFICES ASSUME OInv, [Next]_vars PROVE OInv'
    OBVIOUS
  <1> USE DEF OInv
  <1>1. IInv'
    BY NextInv
  <1>2. ASSUME NEW r \in Reqs, Step(r) PROVE OInv'
    <2>1. \A q \in Reqs : Outcome(q)'
      BY <1>2, OwnOutcome, OthersOutcome
    <2>2. LinksResolve' /\ SuccessorLinked'
      BY CommitLinks, OnlyCommitsPublish DEF LinksResolve, SuccessorLinked
    <2>3. UsedStays'
      BY <1>2, UsedKept DEF UsedStays
    <2>4. ExchangedOnce'
      BY <1>2, ExchangeKept
    <2> QED BY <1>1, <2>1, <2>2, <2>3, <2>4
  <1>3. CASE Quiescent \/ UNCHANGED vars
    BY <1>1, <1>3 DEF Quiescent, vars, Outcome, SameUser, Rotating, Answered, Durable,
       Exchanged, Revoking, UsingUp, LinksResolve, SuccessorLinked, UsedStays, ExchangedOnce
  <1> QED BY <1>2, <1>3 DEF Next, Step

\* At the start nothing is linked, used or answered.
LEMMA InitOutcomes == Init => OInv
  <1> SUFFICES ASSUME Init PROVE OInv
    OBVIOUS
  <1>1. IInv
    BY InitInv
  <1>2. ASSUME NEW t \in Tokens, db[t] # None
        PROVE  db[t].family = t /\ db[t].replaced_by_jti = None
    <2>1. db[t] = NewToken(t)
      BY <1>2, SetsAssumption DEF Init, Rows
    <2> QED BY <2>1 DEF NewToken
  <1>3. work = db /\ \A r \in Reqs : pc[r] = "idle" /\ ans[r] = "none"
    BY DEF Init
  <1>4. \A r \in Reqs : Outcome(r)
    BY <1>3 DEF Outcome, SameUser, Rotating, Answered, Durable, Exchanged, Revoking, UsingUp
  <1>5. LinksResolve /\ SuccessorLinked /\ UsedStays /\ ExchangedOnce
    BY <1>2, <1>3 DEF LinksResolve, SuccessorLinked, UsedStays, Unused, ExchangedOnce,
       Exchanged
  <1> QED BY <1>1, <1>4, <1>5 DEF OInv

\* In every state each request has achieved what its answer says, links lead to
\* rows, and no token was exchanged twice.
THEOREM Outcomes == Spec => []OInv
  BY InitOutcomes, NextOutcomes, PTL DEF Spec

\* The successor of a rotation and the link to it become visible together.
THEOREM SuccessorsLinked == Spec => []SuccessorLinked
  <1>1. OInv => SuccessorLinked
    BY DEF OInv
  <1> QED BY <1>1, Outcomes, PTL

\* However many refreshes present one token, one is answered with tokens.
THEOREM OneExchange == Spec => []RotatedOnce
  <1>1. OInv => RotatedOnce
    BY DEF OInv, ExchangedOnce, Exchanged, RotatedOnce, Outcome, Answered
  <1> QED BY <1>1, Outcomes, PTL

\* An answered refresh is on disk, also if its answer is never received.
THEOREM AnswersDurable == Spec => []AnsweredRefreshDurable
  <1>1. OInv => AnsweredRefreshDurable
    BY DEF OInv, Exchanged, AnsweredRefreshDurable, Outcome, Answered, Durable
  <1> QED BY <1>1, Outcomes, PTL

\* A completed password reset has revoked the sessions its snapshot held.
THEOREM ResetsCover == Spec => []ResetCoversSnapshot
  <1>1. OInv => ResetCoversSnapshot
    BY DEF OInv, ResetCoversSnapshot, Outcome, Revoking, At, Live
  <1> QED BY <1>1, Outcomes, PTL

\* A completed request for a reset has used up the earlier reset tokens.
THEOREM RequestsCover == Spec => []RequestCoversSnapshot
  <1>1. OInv => RequestCoversSnapshot
    BY DEF OInv, RequestCoversSnapshot, Outcome, UsingUp, At
  <1> QED BY <1>1, Outcomes, PTL

\* No step makes a used reset token usable again.
THEOREM UsesFinal == Spec => UsedFinal
  <1> DEFINE Final == \A p \in Resets : (db[p] # None /\ db[p].used) =>
                        db'[p] # None /\ db'[p].used
  <1>1. OInv /\ [Next]_vars => [Final]_vars
    <2> SUFFICES ASSUME OInv, [Next]_vars PROVE Final
      OBVIOUS
    <2>1. ASSUME NEW r \in Reqs, Step(r) PROVE Final
      BY <2>1, UsedKept DEF OInv
    <2>2. CASE Quiescent \/ UNCHANGED vars
      BY <2>2 DEF Quiescent, vars
    <2> QED BY <2>1, <2>2 DEF Next, Step
  <1> QED BY <1>1, Outcomes, PTL DEF Spec, UsedFinal

\* The commit of a reset changes no session of another user.
THEOREM ResetsSpareOthers == Spec => ResetSparesOthers
  <1> DEFINE Spares == \A r \in Reqs :
                (At(r, "confirm", "commit") /\ pc'[r] = "done") =>
                    \A t \in Tokens : Owner[t] # job[r].user => db'[t] = db[t]
  <1>1. OInv /\ [Next]_vars => [Spares]_vars
    <2> SUFFICES ASSUME OInv, [Next]_vars, NEW r \in Reqs, At(r, "confirm", "commit"),
                        pc'[r] = "done", NEW t \in Tokens, Owner[t] # job[r].user
                 PROVE  db'[t] = db[t]
      BY DEF At
    <2>1. CASE db' = db
      BY <2>1
    <2>2. ASSUME NEW q \in Reqs, CommitTransaction(q) PROVE db'[t] = db[t]
      <3>1. q = r
        BY <2>2 DEF At, CommitTransaction, OnlyMoves, Goto, OInv, IInv, TypeOK
      <3>2. lock[t] # r
        BY DEF OInv, Outcome, Revoking, At
      <3> QED BY <2>2, <3>1, <3>2, CommitStore, StoreOfIInv
              DEF CommitTransaction, OInv, Rows
    <2> QED BY <2>1, <2>2, OnlyCommitsPublish
  <1> QED BY <1>1, Outcomes, PTL DEF Spec, ResetSparesOthers

=============================================================================
