------------------------- MODULE AuthSessionsProofs -------------------------
(***************************************************************************)
(* Proofs about AuthSessions, for every number of requests, users and       *)
(* tokens.                                                                  *)
(***************************************************************************)
EXTENDS AuthSessions, TLAPS

(***************************************************************************)
(* What the operations of RowStore do to one row.                           *)
(***************************************************************************)
StoreInv ==
    /\ StoreType(db) /\ StoreType(work)
    /\ lock \in [Rows -> Reqs \cup {None}]
    /\ UnlockedSettled
    /\ NothingDeleted

\* A value a statement may give row o.
RowType(o, v) ==
    /\ o \in Tokens => v \in RefreshToken
    /\ o \in Resets => v \in PasswordReset
    /\ o \in Users => v \in Nat

\* Writing one row keeps the store well formed and touches no other row.
LEMMA WriteStore ==
    ASSUME StoreInv, NEW r \in Reqs, NEW o \in Rows, NEW v, v # None, RowType(o, v),
           Write(r, o, v)
    PROVE  /\ StoreInv'
           /\ db' = db
           /\ \A x \in Rows : work'[x] = IF x = o THEN v ELSE work[x]
           /\ \A x \in Rows : lock'[x] = IF x = o THEN r ELSE lock[x]
  <1> USE DEF StoreInv, Write
  <1>1. /\ db' = db
        /\ \A x \in Rows : work'[x] = IF x = o THEN v ELSE work[x]
        /\ \A x \in Rows : lock'[x] = IF x = o THEN r ELSE lock[x]
        /\ DOMAIN work' = Rows
    BY DEF StoreType
  <1>2. StoreType(db') /\ StoreType(work')
    BY <1>1, SetsAssumption DEF StoreType, RowType, Rows
  <1>3. lock' \in [Rows -> Reqs \cup {None}]
    OBVIOUS
  <1>4. UnlockedSettled'
    BY <1>1, SetsAssumption DEF UnlockedSettled, Rows
  <1>5. NothingDeleted'
    BY <1>1 DEF NothingDeleted
  <1> QED BY <1>1, <1>2, <1>3, <1>4, <1>5

\* A commit publishes the rows r holds.
LEMMA CommitStore ==
    ASSUME StoreInv, NEW r \in Reqs, Commit(r)
    PROVE  /\ StoreInv'
           /\ work' = work
           /\ \A x \in Rows : db'[x] = IF lock[x] = r THEN work[x] ELSE db[x]
           /\ \A x \in Rows : lock'[x] = IF lock[x] = r THEN None ELSE lock[x]
  <1> USE DEF StoreInv, Commit, Released
  <1>1. /\ work' = work
        /\ \A x \in Rows : db'[x] = IF lock[x] = r THEN work[x] ELSE db[x]
        /\ \A x \in Rows : lock'[x] = IF lock[x] = r THEN None ELSE lock[x]
        /\ DOMAIN db' = Rows
    OBVIOUS
  <1>2. StoreType(db') /\ StoreType(work')
    BY <1>1 DEF StoreType, Rows
  <1>3. lock' \in [Rows -> Reqs \cup {None}]
    OBVIOUS
  <1>4. UnlockedSettled'
    BY <1>1 DEF UnlockedSettled
  <1>5. NothingDeleted'
    BY <1>1 DEF NothingDeleted
  <1> QED BY <1>1, <1>2, <1>3, <1>4, <1>5

\* A rollback forgets the rows r holds.
LEMMA RollbackStore ==
    ASSUME StoreInv, NEW r \in Reqs, Rollback(r)
    PROVE  /\ StoreInv'
           /\ db' = db
           /\ \A x \in Rows : work'[x] = IF lock[x] = r THEN db[x] ELSE work[x]
           /\ \A x \in Rows : lock'[x] = IF lock[x] = r THEN None ELSE lock[x]
  <1> USE DEF StoreInv, Rollback, Released
  <1>1. /\ db' = db
        /\ \A x \in Rows : work'[x] = IF lock[x] = r THEN db[x] ELSE work[x]
        /\ \A x \in Rows : lock'[x] = IF lock[x] = r THEN None ELSE lock[x]
        /\ DOMAIN work' = Rows
    OBVIOUS
  <1>2. StoreType(db') /\ StoreType(work')
    BY <1>1 DEF StoreType, Rows
  <1>3. lock' \in [Rows -> Reqs \cup {None}]
    OBVIOUS
  <1>4. UnlockedSettled'
    BY <1>1 DEF UnlockedSettled
  <1>5. NothingDeleted'
    BY <1>1 DEF NothingDeleted
  <1> QED BY <1>1, <1>2, <1>3, <1>4, <1>5

(***************************************************************************)
(* The invariant, one action at a time.                                     *)
(***************************************************************************)
\* The invariant contains what the store lemmas need.
LEMMA StoreOfIInv == ASSUME IInv PROVE StoreInv
  BY DEF IInv, TypeOK, StoreInv

\* What a step of request r leaves alone: the local state of the others, and
\* every row another transaction holds.
OthersLocal(r) ==
    /\ DOMAIN pc' = Reqs /\ DOMAIN job' = Reqs
    /\ \A q \in Reqs \ {r} : /\ pc'[q] = pc[q] /\ job'[q] = job[q]
                             /\ new'[q] = new[q] /\ snap'[q] = snap[q]

OthersRows(r) ==
    \A x \in Rows :
        /\ lock[x] \notin {None, r} =>
              lock'[x] = lock[x] /\ work'[x] = work[x] /\ db'[x] = db[x]
        /\ lock'[x] \in {None, r, lock[x]}
        /\ db[x] # None => db'[x] # None

\* A request that is rotating, revoking or using a token presented one.
LEMMA TokenPresented ==
    ASSUME TypeOK, NEW r \in Reqs
    PROVE  /\ Rotating(r) => job[r].tok \in Tokens
           /\ pc[r] \in {"revoke", "use"} => job[r].tok \in Tokens \cup Resets \cup {None}
  BY DEF TypeOK, RequestType, Jobs, StagesOf, Ended, Rotating

\* So the others keep their part of the invariant.
LEMMA OthersInv ==
    ASSUME IInv, NEW r \in Reqs, OthersLocal(r), OthersRows(r), NEW q \in Reqs \ {r}
    PROVE  RequestType(q)' /\ RequestInv(q)'
  <1>1. pc'[q] = pc[q] /\ job'[q] = job[q] /\ new'[q] = new[q] /\ snap'[q] = snap[q]
    BY DEF OthersLocal
  <1>2. RequestType(q)'
    BY <1>1 DEF IInv, TypeOK, RequestType
  <1>3. TargetsExist(q)'
    <2>1. pc[q] \in {"revoke", "use"} /\ job[q].tok # None => job[q].tok \in Rows
      BY TokenPresented DEF IInv, Rows
    <2>2. pc[q] = "sweep" => snap[q] \subseteq Rows
      BY DEF IInv, RequestInv, TargetsExist, Rows
    <2> QED BY <1>1, <2>1, <2>2 DEF IInv, RequestInv, TargetsExist, OthersRows
  <1>4. \A x \in Rows : lock[x] = q <=> lock'[x] = q
    BY SetsAssumption DEF OthersRows
  <1>5. \A x \in Rows : lock[x] = q => work'[x] = work[x] /\ db'[x] = db[x]
    BY SetsAssumption DEF OthersRows
  <1>6. Rotating(q)' <=> Rotating(q)
    BY <1>1 DEF Rotating
  <1>7. Rotating(q) => /\ job[q].tok \in Rows /\ lock[job[q].tok] = q
                       /\ pc[q] # "issue" => new[q] \in Rows /\ lock[new[q]] = q
    BY TokenPresented DEF IInv, RequestInv, HoldsToken, Rows
  <1>8. HoldsToken(q)'
    BY <1>1, <1>4, <1>5, <1>6, <1>7 DEF IInv, RequestInv, HoldsToken
  <1>9. Generated(q)'
    BY <1>1 DEF IInv, RequestInv, Generated
  <1>10. Drafts(q)'
    <2> SUFFICES ASSUME NEW t \in Tokens, lock'[t] = q
                 PROVE  /\ pc'[q] # "idle"
                        /\ \/ LoginDraft(q, t)' \/ PresentedDraft(q, t)'
                           \/ SuccessorDraft(q, t)' \/ ReuseDraft(q, t)'
                           \/ RevokedDraft(q, t)'
      BY DEF Drafts
    <2>1. lock[t] = q /\ work'[t] = work[t] /\ db'[t] = db[t]
      BY <1>4, <1>5 DEF Rows
    <2>2. /\ pc[q] # "idle"
          /\ \/ LoginDraft(q, t) \/ PresentedDraft(q, t) \/ SuccessorDraft(q, t)
             \/ ReuseDraft(q, t) \/ RevokedDraft(q, t)
      BY <2>1 DEF IInv, RequestInv, Drafts
    <2>3. Rotating(q) => db'[job'[q].tok] = db[job[q].tok]
      BY <1>1, <1>5, <1>7
    <2> QED BY <1>1, <1>6, <2>1, <2>2, <2>3
            DEF LoginDraft, PresentedDraft, SuccessorDraft, ReuseDraft, RevokedDraft
  <1>11. HoldsNothing(q)'
    BY <1>1, <1>4 DEF IInv, RequestInv, HoldsNothing, OutsideTransaction
  <1> QED BY <1>2, <1>3, <1>8, <1>9, <1>10, <1>11 DEF RequestInv

LocalTypes ==
    /\ new \in [Reqs -> Tokens \cup Resets \cup {None}]
    /\ snap \in [Reqs -> SUBSET (Tokens \cup Resets)]
    /\ ans \in [Reqs -> Answers]
    /\ known \subseteq Tokens \cup Resets
    /\ blacklist \subseteq Tokens

\* What is left to show of an action of r.
LEMMA Assemble ==
    ASSUME IInv, NEW r \in Reqs, OthersLocal(r), OthersRows(r), StoreInv', LocalTypes',
           RequestType(r)', RequestInv(r)', FamilyRooted', OneLivePerFamily'
    PROVE  IInv'
  <1>1. \A q \in Reqs : RequestType(q)' /\ RequestInv(q)'
    BY OthersInv
  <1>2. TypeOK'
    BY <1>1 DEF TypeOK, StoreInv, LocalTypes, OthersLocal
  <1> QED BY <1>1, <1>2 DEF IInv, StoreInv

\* A step that leaves the committed rows alone keeps what is said of them.
LEMMA FamiliesKept ==
    ASSUME IInv, db' = db
    PROVE  FamilyRooted' /\ OneLivePerFamily'
  BY DEF IInv, FamilyRooted, OneLivePerFamily

\* A step of r that touches no row at all.
LEMMA NoRowStep ==
    ASSUME IInv, NEW r \in Reqs, UNCHANGED store, OthersLocal(r), LocalTypes',
           RequestType(r)', RequestInv(r)'
    PROVE  IInv'
  <1>1. db' = db /\ work' = work /\ lock' = lock
    BY DEF store
  <1>2. OthersRows(r)
    BY <1>1, StoreOfIInv DEF OthersRows
  <1>3. StoreInv'
    BY <1>1, StoreOfIInv DEF StoreInv, StoreType, UnlockedSettled, NothingDeleted
  <1> QED BY <1>1, <1>2, <1>3, Assemble, FamiliesKept

\* A step of r that writes one row.
LEMMA WriteStep ==
    ASSUME IInv, NEW r \in Reqs, NEW o \in Rows, NEW v, v # None, RowType(o, v),
           Write(r, o, v), OthersLocal(r), LocalTypes', RequestType(r)', RequestInv(r)'
    PROVE  IInv'
  <1>1. /\ StoreInv'
        /\ db' = db
        /\ \A x \in Rows : work'[x] = IF x = o THEN v ELSE work[x]
        /\ \A x \in Rows : lock'[x] = IF x = o THEN r ELSE lock[x]
    BY WriteStore, StoreOfIInv
  <1>2. OthersRows(r)
    BY <1>1 DEF OthersRows, Write, Free
  <1> QED BY <1>1, <1>2, Assemble, FamiliesKept

\* A rollback, with the handler's answer.
LEMMA FailInv ==
    ASSUME IInv, NEW r \in Reqs, NEW answer \in Answers, pc[r] # "idle", Fail(r, answer)
    PROVE  IInv'
  <1>1. /\ StoreInv'
        /\ db' = db
        /\ \A x \in Rows : work'[x] = IF lock[x] = r THEN db[x] ELSE work[x]
        /\ \A x \in Rows : lock'[x] = IF lock[x] = r THEN None ELSE lock[x]
    BY RollbackStore, StoreOfIInv DEF Fail
  <1>2. OthersRows(r)
    BY <1>1 DEF OthersRows
  <1>3. /\ job' = job /\ new' = new /\ snap' = snap /\ known' = known
        /\ blacklist' = blacklist /\ pc'[r] \in Ended
        /\ pc' = [pc EXCEPT ![r] = pc'[r]]
        /\ ans' \in [Reqs -> Answers]
    BY DEF Fail, Goto, Ended, IInv, TypeOK, Answers
  <1>4. OthersLocal(r) /\ LocalTypes' /\ RequestType(r)'
    BY <1>3 DEF OthersLocal, LocalTypes, RequestType, IInv, TypeOK, Ended, StagesOf
  <1>5. TargetsExist(r)' /\ HoldsToken(r)' /\ Generated(r)' /\ HoldsNothing(r)'
    BY <1>1, <1>3, SetsAssumption
       DEF TargetsExist, HoldsToken, HoldsNothing, Generated, Rotating, Ended, Rows
  <1>6. Drafts(r)'
    BY <1>1, SetsAssumption DEF Drafts, Rows
  <1> QED BY <1>1, <1>2, <1>4, <1>5, <1>6, Assemble, FamiliesKept DEF RequestInv

\* The versions the handlers write are rows of the table.
LEMMA TokenVersions ==
    ASSUME NEW t \in Tokens, NEW v \in RefreshToken
    PROVE  t \in Rows /\ v # None /\ RowType(t, v)
  BY SetsAssumption DEF RowType, Rows

\* The same of the versions of a reset row.
LEMMA ResetVersions ==
    ASSUME NEW p \in Resets, NEW v \in PasswordReset
    PROVE  p \in Rows /\ v # None /\ RowType(p, v)
  BY SetsAssumption DEF RowType, Rows

\* A new token is a row of refresh_tokens.
LEMMA NewTokenType == \A f \in Tokens : NewToken(f) \in RefreshToken
  BY DEF NewToken, RefreshToken

\* A revocation changes the revoked column only.
LEMMA RevokedType ==
    \A row \in RefreshToken :
        /\ RevokedVersion(row) \in RefreshToken
        /\ RevokedVersion(row).revoked
        /\ RevokedVersion(row).family = row.family
        /\ RevokedVersion(row).replaced_by_jti = row.replaced_by_jti
  BY DEF RevokedVersion, RefreshToken

\* A rotation changes the revoked and replaced_by_jti columns only.
LEMMA RotatedType ==
    \A row \in RefreshToken, n \in Tokens :
        /\ RotatedVersion(row, n) \in RefreshToken
        /\ RotatedVersion(row, n).revoked
        /\ RotatedVersion(row, n).family = row.family
        /\ RotatedVersion(row, n).replaced_by_jti = n
  BY DEF RotatedVersion, RefreshToken

(***************************************************************************)
(* The actions that write a row.                                            *)
(***************************************************************************)
\* The login's INSERT opens a family of its own.
LEMMA LoginIssueInv ==
    ASSUME IInv, NEW r \in Reqs, LoginIssue(r)
    PROVE  IInv'
  <1>1. PICK n \in Tokens : Issue(r, n, n, "respond")
    BY DEF LoginIssue
  <1> DEFINE v == NewToken(n)
  <1>2. n \in Rows /\ v # None /\ RowType(n, v)
    BY NewTokenType, TokenVersions
  <1>3. /\ Write(r, n, v) /\ work[n] = None
        /\ pc[r] = "issue" /\ job[r].op = "login"
        /\ job' = job /\ snap' = snap /\ ans' = ans /\ known' = known
        /\ blacklist' = blacklist
        /\ new' = [new EXCEPT ![r] = n] /\ pc' = [pc EXCEPT ![r] = "respond"]
    BY <1>1 DEF Issue, LoginIssue, At, Goto, Fresh
  <1>4. /\ StoreInv'
        /\ db' = db
        /\ \A x \in Rows : work'[x] = IF x = n THEN v ELSE work[x]
        /\ \A x \in Rows : lock'[x] = IF x = n THEN r ELSE lock[x]
    BY <1>2, <1>3, WriteStore, StoreOfIInv
  <1>5. OthersLocal(r) /\ LocalTypes' /\ RequestType(r)'
    BY <1>3 DEF OthersLocal, LocalTypes, RequestType, IInv, TypeOK, StagesOf
  <1>6. TargetsExist(r)' /\ HoldsToken(r)' /\ Generated(r)' /\ HoldsNothing(r)'
    BY <1>3 DEF TargetsExist, HoldsToken, HoldsNothing, OutsideTransaction, Ended,
                Generated, Rotating, IInv, TypeOK
  <1>7. \A t \in Tokens : lock[t] # r
    BY <1>3 DEF IInv, RequestInv, Drafts, LoginDraft, PresentedDraft, SuccessorDraft,
                ReuseDraft, RevokedDraft, Rotating
  <1>8. db[n] = None
    BY <1>2, <1>3 DEF IInv, NothingDeleted
  <1>9. Drafts(r)'
    BY <1>3, <1>4, <1>7, <1>8 DEF Drafts, LoginDraft, Rows, IInv, TypeOK
  <1> QED BY <1>2, <1>3, <1>5, <1>6, <1>9, WriteStep DEF RequestInv

\* SELECT ... FOR UPDATE: the refresh holds a settled row, live if it goes on
\* to rotate.
LEMMA RefreshLockInv ==
    ASSUME IInv, NEW r \in Reqs, RefreshLock(r)
    PROVE  IInv'
  <1> DEFINE t == job[r].tok
  <1>1. pc[r] = "read" /\ job[r].op = "refresh" /\ t \in Tokens /\ t \in Rows
    BY DEF RefreshLock, At, IInv, TypeOK, RequestType, Jobs, StagesOf, Ended, Rows
  <1>2. /\ db[t] # None /\ Free(r, t) /\ lock' = [lock EXCEPT ![t] = r]
        /\ db' = db /\ work' = work
        /\ job' = job /\ new' = new /\ snap' = snap /\ ans' = ans /\ known' = known
        /\ blacklist' = blacklist
        /\ pc' = [pc EXCEPT ![r] = IF db[t].revoked THEN "scan" ELSE "issue"]
    BY DEF RefreshLock, LockRow, OnlyMoves, Goto
  <1>3. \A x \in Rows : lock'[x] = IF x = t THEN r ELSE lock[x]
    BY <1>2 DEF IInv, TypeOK
  <1>4. \A x \in Tokens : lock[x] # r
    BY <1>1 DEF IInv, RequestInv, Drafts, LoginDraft, PresentedDraft, SuccessorDraft,
                ReuseDraft, RevokedDraft, Rotating
  <1>5. work[t] = db[t]
    BY <1>1, <1>2, <1>4 DEF IInv, UnlockedSettled, Free
  <1>6. StoreInv'
    BY <1>1, <1>2, <1>3, <1>5, SetsAssumption, StoreOfIInv
       DEF StoreInv, StoreType, UnlockedSettled, NothingDeleted, Rows
  <1>7. OthersLocal(r) /\ OthersRows(r) /\ LocalTypes' /\ RequestType(r)'
    BY <1>1, <1>2, <1>3
       DEF OthersLocal, OthersRows, Free, LocalTypes, RequestType, IInv, TypeOK, StagesOf
  <1>8. TargetsExist(r)' /\ HoldsToken(r)' /\ Generated(r)' /\ HoldsNothing(r)'
    BY <1>1, <1>2, <1>3
       DEF TargetsExist, HoldsToken, HoldsNothing, OutsideTransaction, Ended,
                Generated, Rotating, IInv, TypeOK, Live
  <1>9. Drafts(r)'
    BY <1>1, <1>2, <1>3, <1>4, <1>5
       DEF Drafts, PresentedDraft, ReuseDraft, Rotating, Rows, IInv, TypeOK
  <1> QED BY <1>2, <1>6, <1>7, <1>8, <1>9, Assemble, FamiliesKept DEF RequestInv

\* The successor is inserted into the family of the token the refresh holds.
LEMMA RefreshIssueInv ==
    ASSUME IInv, NEW r \in Reqs, RefreshIssue(r)
    PROVE  IInv'
  <1> DEFINE t == job[r].tok
             v == NewToken(work[t].family)
  <1>1. PICK n \in Tokens : Issue(r, n, work[t].family, "rotate")
    BY DEF RefreshIssue
  <1>2. /\ pc[r] = "issue" /\ job[r].op = "refresh"
        /\ t \in Tokens /\ t \in Rows /\ n \in Rows
        /\ lock[t] = r /\ Live(db[t]) /\ db[t] \in RefreshToken /\ work[t] = db[t]
    <2>1. pc[r] = "issue" /\ job[r].op = "refresh" /\ Rotating(r)
      BY DEF RefreshIssue, At, Rotating
    <2>2. t \in Tokens /\ t \in Rows /\ n \in Rows
      BY <2>1, TokenPresented DEF IInv, Rows
    <2>3. lock[t] = r /\ Live(db[t]) /\ db[t] \in RefreshToken
      BY <2>1, <2>2 DEF IInv, RequestInv, HoldsToken, TypeOK, StoreType, Live
    <2>4. work[t] = db[t]
      BY <2>1, <2>2, <2>3 DEF IInv, RequestInv, Drafts, LoginDraft, PresentedDraft,
                SuccessorDraft, ReuseDraft, RevokedDraft
    <2> QED BY <2>1, <2>2, <2>3, <2>4
  <1>3. v # None /\ RowType(n, v)
    <2>1. work[t].family \in Tokens
      BY <1>2 DEF RefreshToken
    <2> QED BY <2>1, NewTokenType, TokenVersions
  <1>4. /\ Write(r, n, v) /\ work[n] = None
        /\ job' = job /\ snap' = snap /\ ans' = ans /\ known' = known
        /\ blacklist' = blacklist
        /\ new' = [new EXCEPT ![r] = n] /\ pc' = [pc EXCEPT ![r] = "rotate"]
    BY <1>1 DEF Issue, Goto, Fresh
  <1>5. /\ StoreInv'
        /\ db' = db
        /\ \A x \in Rows : work'[x] = IF x = n THEN v ELSE work[x]
        /\ \A x \in Rows : lock'[x] = IF x = n THEN r ELSE lock[x]
    BY <1>2, <1>3, <1>4, WriteStore, StoreOfIInv
  <1>6. n # t /\ db[n] = None
    BY <1>2, <1>4 DEF IInv, NothingDeleted, Live
  <1>7. OthersLocal(r) /\ LocalTypes' /\ RequestType(r)'
    BY <1>2, <1>4 DEF OthersLocal, LocalTypes, RequestType, IInv, TypeOK, StagesOf
  <1>8. TargetsExist(r)' /\ HoldsToken(r)' /\ Generated(r)' /\ HoldsNothing(r)'
    BY <1>2, <1>4, <1>5, <1>6
       DEF TargetsExist, HoldsToken, HoldsNothing, OutsideTransaction, Ended,
                Generated, Rotating, IInv, TypeOK
  <1>9. \A x \in Tokens : lock[x] = r => x = t
    BY <1>2 DEF IInv, RequestInv, Drafts, LoginDraft, PresentedDraft, SuccessorDraft,
                ReuseDraft, RevokedDraft, Rotating
  <1>10. Drafts(r)'
    BY <1>2, <1>4, <1>5, <1>6, <1>9
       DEF Drafts, PresentedDraft, SuccessorDraft, Rotating, Rows, IInv, TypeOK
  <1> QED BY <1>2, <1>3, <1>4, <1>7, <1>8, <1>10, WriteStep DEF RequestInv

\* The presented token is marked replaced by the successor just inserted.
LEMMA RefreshRotateInv ==
    ASSUME IInv, NEW r \in Reqs, RefreshRotate(r)
    PROVE  IInv'
  <1> DEFINE t == job[r].tok
             n == new[r]
             v == RotatedVersion(work[t], n)
  <1>1. Rotating(r) /\ pc[r] = "rotate" /\ job[r].op = "refresh"
    BY DEF RefreshRotate, At, Rotating
  <1>2. t \in Tokens /\ n \in Tokens /\ t \in Rows /\ n \in Rows
    BY <1>1, TokenPresented DEF IInv, RequestInv, HoldsToken, Rows
  <1>3. /\ lock[t] = r /\ Live(db[t]) /\ db[t] \in RefreshToken
        /\ lock[n] = r /\ db[n] = None /\ n # t
    BY <1>1, <1>2 DEF IInv, RequestInv, HoldsToken, TypeOK, StoreType, Live
  <1>4. /\ work[t] = db[t] /\ work[n] = NewToken(db[t].family)
        /\ \A x \in Tokens : lock[x] = r => x = t \/ x = n
    BY <1>1, <1>2, <1>3 DEF IInv, RequestInv, Drafts, LoginDraft, PresentedDraft,
                SuccessorDraft, ReuseDraft, RevokedDraft, Rotating
  <1>5. v # None /\ RowType(t, v)
    BY <1>2, <1>3, <1>4, RotatedType, TokenVersions
  <1>6. /\ Write(r, t, v)
        /\ job' = job /\ snap' = snap /\ ans' = ans /\ known' = known
        /\ blacklist' = blacklist /\ new' = new
        /\ pc' = [pc EXCEPT ![r] = "commit"]
    BY DEF RefreshRotate, OnlyMoves, Goto, RotatedVersion
  <1>7. /\ StoreInv'
        /\ db' = db
        /\ \A x \in Rows : work'[x] = IF x = t THEN v ELSE work[x]
        /\ \A x \in Rows : lock'[x] = IF x = t THEN r ELSE lock[x]
    BY <1>2, <1>5, <1>6, WriteStore, StoreOfIInv
  <1>8. OthersLocal(r) /\ LocalTypes' /\ RequestType(r)'
    BY <1>1, <1>6 DEF OthersLocal, LocalTypes, RequestType, IInv, TypeOK, StagesOf
  <1>9. TargetsExist(r)' /\ HoldsToken(r)' /\ Generated(r)' /\ HoldsNothing(r)'
    BY <1>1, <1>2, <1>3, <1>6, <1>7
       DEF TargetsExist, HoldsToken, HoldsNothing, OutsideTransaction, Ended,
                Generated, Rotating, IInv, TypeOK
  <1>10. Drafts(r)'
    BY <1>1, <1>2, <1>3, <1>4, <1>6, <1>7
       DEF Drafts, PresentedDraft, SuccessorDraft, Rotating, Rows, IInv, TypeOK
  <1> QED BY <1>2, <1>5, <1>6, <1>8, <1>9, <1>10, WriteStep DEF RequestInv

\* A revocation of token t, by a logout or by a row of a bulk UPDATE.
LEMMA RevokeInv ==
    ASSUME IInv, NEW r \in Reqs, NEW t \in Tokens, db[t] # None,
           Write(r, t, RevokedVersion(work[t])),
           UNCHANGED <<job, new, snap, ans, known, blacklist>>,
           NEW stage, pc' = [pc EXCEPT ![r] = stage],
           \/ job[r].op = "logout" /\ pc[r] = "revoke" /\ stage = "blacklist"
           \/ job[r].op \in {"refresh", "confirm"} /\ pc[r] = "sweep" /\ stage = "sweep"
    PROVE  IInv'
  <1> DEFINE v == RevokedVersion(work[t])
  <1>1. t \in Rows /\ db[t] \in RefreshToken /\ work[t] \in RefreshToken
    BY DEF Rows, IInv, NothingDeleted, TypeOK, StoreType
  <1>2. v # None /\ RowType(t, v)
    BY <1>1, RevokedType, TokenVersions
  <1>3. /\ StoreInv'
        /\ db' = db
        /\ \A x \in Rows : work'[x] = IF x = t THEN v ELSE work[x]
        /\ \A x \in Rows : lock'[x] = IF x = t THEN r ELSE lock[x]
    BY <1>1, <1>2, WriteStore, StoreOfIInv
  <1>4. OthersLocal(r) /\ LocalTypes' /\ RequestType(r)'
    BY DEF OthersLocal, LocalTypes, RequestType, IInv, TypeOK, StagesOf
  <1>5. TargetsExist(r)' /\ HoldsToken(r)' /\ Generated(r)' /\ HoldsNothing(r)'
    BY <1>3 DEF TargetsExist, HoldsToken, HoldsNothing, OutsideTransaction, Ended,
                Generated, Rotating, IInv, RequestInv, TypeOK
  <1>6. ~Rotating(r)
    BY DEF Rotating
  <1>7. v = RevokedVersion(db[t])
    <2>1. work[t] = db[t] \/ work[t] = RevokedVersion(db[t])
      BY <1>1, <1>6 DEF Write, Free, IInv, UnlockedSettled, RequestInv, Drafts, LoginDraft,
         PresentedDraft, SuccessorDraft, ReuseDraft, RevokedDraft
    <2>2. RevokedVersion(RevokedVersion(db[t])) = RevokedVersion(db[t])
      BY <1>1 DEF RevokedVersion, RefreshToken
    <2> QED BY <2>1, <2>2
  <1>8. Drafts(r)'
    <2> SUFFICES ASSUME NEW x \in Tokens, lock'[x] = r
                 PROVE  pc'[r] # "idle" /\ (ReuseDraft(r, x)' \/ RevokedDraft(r, x)')
      BY DEF Drafts
    <2>1. pc'[r] = stage
      BY DEF IInv, TypeOK
    <2>2. CASE x = t
      BY <1>1, <1>3, <1>7, <2>1, <2>2 DEF ReuseDraft, RevokedDraft, Ended
    <2>3. CASE x # t
      <3>1. lock[x] = r /\ x \in Rows /\ work'[x] = work[x]
        BY <1>3, <2>3 DEF Rows
      <3>2. ReuseDraft(r, x) \/ RevokedDraft(r, x)
        BY <1>6, <3>1 DEF IInv, RequestInv, Drafts, LoginDraft, PresentedDraft, SuccessorDraft
      <3> QED BY <1>3, <2>1, <3>1, <3>2 DEF ReuseDraft, RevokedDraft, Ended
    <2> QED BY <2>2, <2>3
  <1> QED BY <1>1, <1>2, <1>4, <1>5, <1>8, WriteStep DEF RequestInv

\* A row of another table: what r holds of the tokens is not disturbed.
LEMMA OtherTableInv ==
    ASSUME IInv, NEW r \in Reqs, NEW o \in Resets \cup Users, NEW v, v # None, RowType(o, v),
           Write(r, o, v), OthersLocal(r), LocalTypes', RequestType(r)',
           TargetsExist(r)', Generated(r)', job'[r] = job[r], 
           pc'[r] \notin {"idle", "auth", "read"} \cup Ended,
           pc'[r] = "scan" => job[r].op = "confirm", job[r].op \in {"request", "confirm"}
    PROVE  IInv'
  <1>1. o \in Rows /\ o \notin Tokens
    BY SetsAssumption DEF Rows
  <1>2. /\ StoreInv'
        /\ db' = db
        /\ \A x \in Rows : work'[x] = IF x = o THEN v ELSE work[x]
        /\ \A x \in Rows : lock'[x] = IF x = o THEN r ELSE lock[x]
    BY <1>1, WriteStore, StoreOfIInv
  <1>3. HoldsToken(r)' /\ HoldsNothing(r)'
    BY DEF HoldsToken, Rotating, HoldsNothing, OutsideTransaction
  <1>4. Drafts(r)'
    <2> SUFFICES ASSUME NEW x \in Tokens, lock'[x] = r
                 PROVE  RevokedDraft(r, x)'
      BY DEF Drafts
    <2>1. lock[x] = r /\ work'[x] = work[x] /\ db' = db
      BY <1>1, <1>2 DEF Rows
    <2>2. RevokedDraft(r, x)
      BY <2>1 DEF IInv, RequestInv, Drafts, LoginDraft, PresentedDraft, SuccessorDraft,
                  ReuseDraft, RevokedDraft, Rotating
    <2> QED BY <2>1, <2>2 DEF RevokedDraft
  <1> QED BY <1>1, <1>3, <1>4, WriteStep DEF RequestInv

\* A row of the bulk revocation of a reset or of a detected reuse.
LEMMA SweepRowInv ==
    ASSUME IInv, NEW r \in Reqs, SweepRow(r)
    PROVE  IInv'
  <1>1. PICK t \in snap[r] : Write(r, t, RevokedVersion(work[t]))
    BY DEF SweepRow
  <1>2. pc[r] = "sweep" /\ job[r].op \in {"refresh", "confirm"}
    BY DEF SweepRow, At
  <1>3. t \in Tokens /\ db[t] # None
    BY <1>2 DEF IInv, RequestInv, TargetsExist
  <1>4. /\ UNCHANGED <<job, new, snap, ans, known, blacklist>>
        /\ pc' = [pc EXCEPT ![r] = "sweep"]
    BY DEF SweepRow, OnlyMoves, Goto
  <1> QED BY <1>1, <1>2, <1>3, <1>4, RevokeInv

\* The logout's UPDATE by jti.
LEMMA LogoutRevokeInv ==
    ASSUME IInv, NEW r \in Reqs, LogoutRevoke(r)
    PROVE  IInv'
  <1> DEFINE t == job[r].tok
  <1>1. pc[r] = "revoke" /\ job[r].op = "logout" /\ Write(r, t, RevokedVersion(work[t]))
    BY DEF LogoutRevoke, At
  <1>2. t \in Tokens
    BY <1>1 DEF IInv, TypeOK, RequestType, Jobs, RequestInv, TargetsExist
  <1>3. db[t] # None
    BY <1>1 DEF IInv, RequestInv, TargetsExist
  <1>4. /\ UNCHANGED <<job, new, snap, ans, known, blacklist>>
        /\ pc' = [pc EXCEPT ![r] = "blacklist"]
    BY DEF LogoutRevoke, OnlyMoves, Goto
  <1> QED BY <1>1, <1>2, <1>3, <1>4, RevokeInv

\* A used reset token is a row of password_resets.
LEMMA UsedType == \A row \in PasswordReset : UsedVersion(row) \in PasswordReset
  BY DEF UsedVersion, PasswordReset

\* A row of the bulk UPDATE that uses up the earlier reset tokens.
LEMMA RequestRowInv ==
    ASSUME IInv, NEW r \in Reqs, RequestRow(r)
    PROVE  IInv'
  <1>1. PICK p \in snap[r] : Write(r, p, UsedVersion(work[p]))
    BY DEF RequestRow
  <1>2. pc[r] = "sweep" /\ job[r].op = "request"
    BY DEF RequestRow, At
  <1>3. p \in Resets /\ work[p] \in PasswordReset /\ p \in Resets \cup Users
    BY <1>2 DEF IInv, RequestInv, TargetsExist, TypeOK, StoreType, NothingDeleted, Rows
  <1>4. UsedVersion(work[p]) # None /\ RowType(p, UsedVersion(work[p]))
    BY <1>3, UsedType, ResetVersions
  <1>5. /\ UNCHANGED <<job, new, snap, ans, known, blacklist>>
        /\ pc' = [pc EXCEPT ![r] = "sweep"]
    BY DEF RequestRow, OnlyMoves, Goto
  <1>6. db' = db
    BY <1>1 DEF Write
  <1>7. OthersLocal(r) /\ LocalTypes' /\ RequestType(r)' /\ TargetsExist(r)' /\ Generated(r)'
    BY <1>2, <1>5, <1>6 DEF OthersLocal, LocalTypes, RequestType, TargetsExist, Generated,
       RequestInv, IInv, TypeOK
  <1> QED BY <1>1, <1>2, <1>3, <1>4, <1>5, <1>7, OtherTableInv DEF IInv, TypeOK, Ended

\* The INSERT of a reset token.
LEMMA RequestCreateInv ==
    ASSUME IInv, NEW r \in Reqs, RequestCreate(r)
    PROVE  IInv'
  <1>1. PICK p \in Resets : Write(r, p, NewReset) /\ new' = [new EXCEPT ![r] = p]
    BY DEF RequestCreate
  <1>2. pc[r] = "sweep" /\ job[r].op = "request"
    BY DEF RequestCreate, At
  <1>3. NewReset \in PasswordReset /\ p \in Resets \cup Users
    BY DEF NewReset, PasswordReset
  <1>4. NewReset # None /\ RowType(p, NewReset)
    BY <1>3, ResetVersions
  <1>5. /\ UNCHANGED <<job, snap, ans, known, blacklist>>
        /\ pc' = [pc EXCEPT ![r] = "mail"]
    BY DEF RequestCreate, Goto
  <1>6. OthersLocal(r) /\ LocalTypes' /\ RequestType(r)' /\ TargetsExist(r)' /\ Generated(r)'
    BY <1>1, <1>2, <1>5 DEF OthersLocal, LocalTypes, RequestType, TargetsExist, Generated,
       RequestInv, IInv, TypeOK, StagesOf
  <1> QED BY <1>1, <1>2, <1>3, <1>4, <1>5, <1>6, OtherTableInv DEF IInv, TypeOK, Ended

\* The UPDATE of the presented reset token.
LEMMA ConfirmUseInv ==
    ASSUME IInv, NEW r \in Reqs, ConfirmUse(r)
    PROVE  IInv'
  <1> DEFINE p == job[r].tok
  <1>1. pc[r] = "use" /\ job[r].op = "confirm" /\ Write(r, p, UsedVersion(work[p]))
    BY DEF ConfirmUse, At
  <1>2. p \in Resets /\ p \in Rows /\ p \in Resets \cup Users
    BY <1>1 DEF IInv, TypeOK, RequestType, Jobs, Rows
  <1>3. work[p] \in PasswordReset
    BY <1>1, <1>2 DEF IInv, RequestInv, TargetsExist, TypeOK, StoreType, NothingDeleted
  <1>4. UsedVersion(work[p]) # None /\ RowType(p, UsedVersion(work[p]))
    BY <1>2, <1>3, UsedType, ResetVersions
  <1>5. /\ UNCHANGED <<job, new, snap, ans, known, blacklist>>
        /\ pc' = [pc EXCEPT ![r] = "password"]
    BY DEF ConfirmUse, OnlyMoves, Goto
  <1>6. OthersLocal(r) /\ LocalTypes' /\ RequestType(r)' /\ TargetsExist(r)' /\ Generated(r)'
    BY <1>1, <1>5 DEF OthersLocal, LocalTypes, RequestType, TargetsExist, Generated,
       RequestInv, IInv, TypeOK, StagesOf
  <1> QED BY <1>1, <1>2, <1>4, <1>5, <1>6, OtherTableInv DEF IInv, TypeOK, Ended

\* The UPDATE of the password.
LEMMA ConfirmPasswordInv ==
    ASSUME IInv, NEW r \in Reqs, ConfirmPassword(r)
    PROVE  IInv'
  <1> DEFINE u == job[r].user
  <1>1. pc[r] = "password" /\ job[r].op = "confirm" /\ Write(r, u, work[u] + 1)
    BY DEF ConfirmPassword, At
  <1>2. u \in Users /\ u \in Resets \cup Users /\ u \in Rows
    BY <1>1 DEF IInv, TypeOK, RequestType, Jobs, Rows
  <1>3. work[u] + 1 \in Nat
    BY <1>2 DEF IInv, TypeOK, StoreType
  <1>4. work[u] + 1 # None /\ RowType(u, work[u] + 1)
    BY <1>2, <1>3, SetsAssumption DEF RowType
  <1>5. /\ UNCHANGED <<job, new, snap, ans, known, blacklist>>
        /\ pc' = [pc EXCEPT ![r] = "scan"]
    BY DEF ConfirmPassword, OnlyMoves, Goto
  <1>6. OthersLocal(r) /\ LocalTypes' /\ RequestType(r)' /\ TargetsExist(r)' /\ Generated(r)'
    BY <1>1, <1>5 DEF OthersLocal, LocalTypes, RequestType, TargetsExist, Generated,
       RequestInv, IInv, TypeOK, StagesOf
  <1> QED BY <1>1, <1>2, <1>4, <1>5, <1>6, OtherTableInv DEF IInv, TypeOK, Ended

(***************************************************************************)
(* The actions that write no row.                                           *)
(***************************************************************************)
\* r goes on to its next await and holds, if anything, revoked tokens.
LEMMA MoveInv ==
    ASSUME IInv, NEW r \in Reqs, NEW stage \in StagesOf[job[r].op],
           job[r] \in Jobs, pc[r] \notin Ended,
           OnlyMoves(r, stage), UNCHANGED store,
           \A t \in Tokens : lock[t] = r => RevokedDraft(r, t),
           job[r].op = "refresh" => stage \notin {"issue", "rotate", "commit"},
           stage \in {"revoke", "use"} => job[r].tok # None /\ db[job[r].tok] # None,
           stage \notin {"auth", "sweep", "mail"},
           stage = "read" => pc[r] = "auth",
           stage = "scan" => job[r].op = "refresh",
           stage = "respond" => job[r].op \notin {"login", "refresh"}
    PROVE  IInv'
  <1>1. /\ UNCHANGED <<job, new, snap, ans, known, blacklist>>
        /\ pc' = [pc EXCEPT ![r] = stage]
        /\ db' = db /\ work' = work /\ lock' = lock
    BY DEF OnlyMoves, Goto, store
  <1>2. stage # "idle" /\ stage \notin Ended
    BY DEF StagesOf, Jobs, Ended
  <1>3. OthersLocal(r) /\ LocalTypes' /\ RequestType(r)'
    BY <1>1 DEF OthersLocal, LocalTypes, RequestType, IInv, TypeOK
  <1>4. TargetsExist(r)' /\ HoldsToken(r)' /\ Generated(r)' /\ HoldsNothing(r)'
    BY <1>1, <1>2 DEF TargetsExist, HoldsToken, HoldsNothing, OutsideTransaction, Ended,
                Generated, Rotating, IInv, RequestInv, TypeOK
  <1>5. Drafts(r)'
    BY <1>1, <1>2 DEF Drafts, RevokedDraft, IInv, TypeOK
  <1> QED BY <1>3, <1>4, <1>5, NoRowStep DEF RequestInv

\* The credentials match.
LEMMA LoginAcceptInv ==
    ASSUME IInv, NEW r \in Reqs, LoginAccept(r)
    PROVE  IInv'
  <1>1. pc[r] = "read" /\ job[r].op = "login" /\ job[r] \in Jobs /\ pc[r] \notin Ended
    BY DEF LoginAccept, At, IInv, TypeOK, RequestType, Ended
  <1>2. \A t \in Tokens : lock[t] # r
    BY <1>1 DEF IInv, RequestInv, Drafts, Rotating, LoginDraft, PresentedDraft, SuccessorDraft,
                ReuseDraft, RevokedDraft
  <1>3. "issue" \in StagesOf[job[r].op]
    BY <1>1 DEF StagesOf
  <1> QED BY <1>1, <1>2, <1>3, MoveInv DEF LoginAccept

\* The presented token has no row.
LEMMA RefreshMissingInv ==
    ASSUME IInv, NEW r \in Reqs, RefreshMissing(r)
    PROVE  IInv'
  <1>1. pc[r] = "read" /\ job[r].op = "refresh" /\ job[r] \in Jobs /\ pc[r] \notin Ended
    BY DEF RefreshMissing, At, IInv, TypeOK, RequestType, Ended
  <1>2. \A t \in Tokens : lock[t] # r
    BY <1>1 DEF IInv, RequestInv, Drafts, Rotating, LoginDraft, PresentedDraft, SuccessorDraft,
                ReuseDraft, RevokedDraft
  <1>3. "scan" \in StagesOf[job[r].op]
    BY <1>1 DEF StagesOf
  <1> QED BY <1>1, <1>2, <1>3, MoveInv DEF RefreshMissing

\* The access token is not blacklisted.
LEMMA LogoutAuthInv ==
    ASSUME IInv, NEW r \in Reqs, LogoutAuth(r)
    PROVE  IInv'
  <1>1. pc[r] = "auth" /\ job[r].op = "logout" /\ job[r] \in Jobs /\ pc[r] \notin Ended
    BY DEF LogoutAuth, At, IInv, TypeOK, RequestType, Ended
  <1>2. \A t \in Tokens : lock[t] = r => RevokedDraft(r, t)
    BY <1>1 DEF IInv, RequestInv, Drafts, Rotating, LoginDraft, PresentedDraft,
                SuccessorDraft, ReuseDraft
  <1>3. "read" \in StagesOf[job[r].op]
    BY <1>1 DEF StagesOf
  <1> QED BY <1>1, <1>2, <1>3, MoveInv DEF LogoutAuth

\* The logout finds a row it will revoke, or passes over it.
LEMMA LogoutReadInv ==
    ASSUME IInv, NEW r \in Reqs, LogoutRead(r)
    PROVE  IInv'
  <1> DEFINE t == job[r].tok
             found == IF t = None THEN FALSE ELSE Visible(r, t) # None
             stage == IF found THEN "revoke" ELSE "blacklist"
  <1>1. /\ pc[r] = "read" /\ job[r].op = "logout" /\ job[r] \in Jobs /\ pc[r] \notin Ended
        /\ OnlyMoves(r, stage) /\ UNCHANGED store
    BY DEF LogoutRead, At, IInv, TypeOK, RequestType, Ended
  <1>2. \A x \in Tokens : lock[x] = r => RevokedDraft(r, x)
    BY <1>1 DEF IInv, RequestInv, Drafts, Rotating, LoginDraft, PresentedDraft,
                SuccessorDraft, ReuseDraft
  <1>3. stage \in StagesOf[job[r].op]
    BY <1>1 DEF StagesOf
  <1>4. found => t # None /\ db[t] # None
    <2> SUFFICES ASSUME found PROVE t # None /\ db[t] # None
      OBVIOUS
    <2>1. t # None /\ Visible(r, t) # None
      OBVIOUS
    <2>2. t \in Tokens
      BY <1>1, <2>1 DEF Jobs
    <2> QED BY <1>2, <2>1, <2>2 DEF Visible, RevokedDraft
  <1>5. stage = "revoke" => found
    OBVIOUS
  <1>6. stage \in {"revoke", "blacklist"}
    OBVIOUS
  <1> HIDE DEF stage, found
  <1> QED BY <1>1, <1>2, <1>3, <1>4, <1>5, <1>6, MoveInv

\* The reset token is read unused.
LEMMA ConfirmReadInv ==
    ASSUME IInv, NEW r \in Reqs, ConfirmRead(r)
    PROVE  IInv'
  <1> DEFINE p == job[r].tok
  <1>1. /\ pc[r] = "read" /\ job[r].op = "confirm" /\ job[r] \in Jobs /\ pc[r] \notin Ended
        /\ p \in Resets
    BY DEF ConfirmRead, At, IInv, TypeOK, RequestType, Jobs, Ended
  <1>2. \A t \in Tokens : lock[t] = r => RevokedDraft(r, t)
    BY <1>1 DEF IInv, RequestInv, Drafts, Rotating, LoginDraft, PresentedDraft,
                SuccessorDraft, ReuseDraft
  <1>3. "use" \in StagesOf[job[r].op]
    BY <1>1 DEF StagesOf
  <1>4. p # None /\ db[p] # None
    <2>1. Visible(r, p) # None
      BY DEF ConfirmRead, Unused
    <2>2. lock[p] # r
      BY <1>1 DEF IInv, RequestInv, HoldsNothing, OutsideTransaction, Rows
    <2> QED BY <1>1, <2>1, <2>2, SetsAssumption DEF Visible, Rows
  <1> QED BY <1>1, <1>2, <1>3, <1>4, MoveInv DEF ConfirmRead

\* The bulk revocation is over.
LEMMA ConfirmSweptInv ==
    ASSUME IInv, NEW r \in Reqs, ConfirmSwept(r)
    PROVE  IInv'
  <1>1. pc[r] = "sweep" /\ job[r].op = "confirm" /\ job[r] \in Jobs /\ pc[r] \notin Ended
    BY DEF ConfirmSwept, At, IInv, TypeOK, RequestType, Ended
  <1>2. \A t \in Tokens : lock[t] = r => RevokedDraft(r, t)
    BY <1>1 DEF IInv, RequestInv, Drafts, Rotating, LoginDraft, PresentedDraft,
                SuccessorDraft, ReuseDraft
  <1>3. "respond" \in StagesOf[job[r].op]
    BY <1>1 DEF StagesOf
  <1> QED BY <1>1, <1>2, <1>3, MoveInv DEF ConfirmSwept

\* A client's call takes no lock.
LEMMA StartInv ==
    ASSUME IInv, NEW r \in Reqs, NEW op, NEW stage, NEW u, NEW t, NEW a,
           Start(r, op, stage, u, t, a), stage \in {"auth", "read", "scan"},
           stage \in StagesOf[op],
           [op |-> op, user |-> u, tok |-> t, acc |-> a] \in Jobs
    PROVE  IInv'
  <1> DEFINE j == [op |-> op, user |-> u, tok |-> t, acc |-> a]
  <1>1. /\ UNCHANGED <<new, snap, ans, known, blacklist>>
        /\ pc[r] = "idle"
        /\ pc' = [pc EXCEPT ![r] = stage]
        /\ job' = [job EXCEPT ![r] = j]
        /\ db' = db /\ work' = work /\ lock' = lock
    BY DEF Start, Goto
  <1>2. pc'[r] = stage /\ job'[r] = j /\ j.op = op
    BY <1>1 DEF IInv, TypeOK
  <1>3. OthersLocal(r) /\ LocalTypes' /\ RequestType(r)'
    BY <1>1, <1>2 DEF OthersLocal, LocalTypes, RequestType, IInv, TypeOK
  <1>4. \A o \in Rows : lock[o] # r
    BY <1>1 DEF IInv, RequestInv, HoldsNothing, OutsideTransaction
  <1>5. TargetsExist(r)' /\ HoldsToken(r)' /\ Generated(r)' /\ HoldsNothing(r)'
    BY <1>1, <1>2, <1>4 DEF TargetsExist, HoldsToken, Generated, HoldsNothing, Rotating
  <1>6. Drafts(r)'
    BY <1>1, <1>4 DEF Drafts, Rows
  <1> QED BY <1>1, <1>3, <1>5, <1>6, NoRowStep DEF RequestInv, store

\* Every endpoint's call is one of those.
LEMMA CallInv ==
    ASSUME IInv, NEW r \in Reqs, Call(r)
    PROVE  IInv'
  <1>1. CASE StartLogin(r)
    <2>1. PICK u \in Users : Start(r, "login", "read", u, None, None)
      BY <1>1 DEF StartLogin
    <2> QED BY <2>1, StartInv DEF Jobs, StagesOf
  <1>2. CASE StartRefresh(r)
    <2>1. PICK t \in known \cap Tokens : Start(r, "refresh", "read", Owner[t], t, None)
      BY <1>2 DEF StartRefresh
    <2>2. Owner[t] \in Users
      BY SetsAssumption
    <2> QED BY <2>1, <2>2, StartInv DEF Jobs, StagesOf
  <1>3. CASE StartLogout(r)
    <2>1. PICK t \in (known \cap Tokens) \cup {None}, a \in known \cap Tokens :
             Start(r, "logout", "auth", Owner[a], t, a)
      BY <1>3 DEF StartLogout
    <2>2. Owner[a] \in Users
      BY SetsAssumption
    <2> QED BY <2>1, <2>2, StartInv DEF Jobs, StagesOf
  <1>4. CASE StartRequest(r)
    <2>1. PICK u \in Users : Start(r, "request", "scan", u, None, None)
      BY <1>4 DEF StartRequest
    <2> QED BY <2>1, StartInv DEF Jobs, StagesOf
  <1>5. CASE StartConfirm(r)
    <2>1. PICK p \in known \cap Resets : Start(r, "confirm", "read", Owner[p], p, None)
      BY <1>5 DEF StartConfirm
    <2>2. Owner[p] \in Users
      BY SetsAssumption
    <2> QED BY <2>1, <2>2, StartInv DEF Jobs, StagesOf
  <1> QED BY <1>1, <1>2, <1>3, <1>4, <1>5 DEF Call

\* The snapshot of the bulk revocation holds existing tokens.
LEMMA SweepBeginInv ==
    ASSUME IInv, NEW r \in Reqs, SweepBegin(r)
    PROVE  IInv'
  <1> DEFINE S == {t \in Tokens : Owner[t] = job[r].user /\ Live(Visible(r, t))}
  <1>1. /\ UNCHANGED <<new, ans, known, blacklist>> /\ job' = job
        /\ pc[r] = "scan" /\ job[r].op \in {"refresh", "confirm"}
        /\ pc' = [pc EXCEPT ![r] = "sweep"] /\ snap' = [snap EXCEPT ![r] = S]
        /\ db' = db /\ work' = work /\ lock' = lock
    BY DEF SweepBegin, At, Goto
  <1>2. OthersLocal(r) /\ LocalTypes' /\ RequestType(r)'
    BY <1>1 DEF OthersLocal, LocalTypes, RequestType, IInv, TypeOK, StagesOf
  <1>3. \A t \in Tokens : lock[t] = r => ReuseDraft(r, t) \/ RevokedDraft(r, t)
    BY <1>1 DEF IInv, RequestInv, Drafts, Rotating, LoginDraft, PresentedDraft,
                SuccessorDraft
  <1>4. \A t \in S : t \in Tokens /\ db[t] # None
    BY <1>3 DEF Visible, Live, ReuseDraft, RevokedDraft
  <1>5. pc'[r] = "sweep" /\ snap'[r] = S
    BY <1>1 DEF IInv, TypeOK
  <1> HIDE DEF S
  <1>6. TargetsExist(r)' /\ HoldsToken(r)' /\ Generated(r)' /\ HoldsNothing(r)'
    BY <1>1, <1>4, <1>5 DEF TargetsExist, HoldsToken, Generated, HoldsNothing, Rotating,
                            OutsideTransaction, Ended
  <1>7. Drafts(r)'
    BY <1>1, <1>3, <1>5 DEF Drafts, ReuseDraft, RevokedDraft, Ended
  <1> QED BY <1>1, <1>2, <1>6, <1>7, NoRowStep DEF RequestInv, store

\* The snapshot of the bulk UPDATE holds existing reset tokens.
LEMMA RequestBeginInv ==
    ASSUME IInv, NEW r \in Reqs, RequestBegin(r)
    PROVE  IInv'
  <1> DEFINE S == {p \in Resets : Owner[p] = job[r].user /\ Unused(Visible(r, p))}
  <1>1. /\ UNCHANGED <<new, ans, known, blacklist>> /\ job' = job
        /\ pc[r] = "scan" /\ job[r].op = "request"
        /\ pc' = [pc EXCEPT ![r] = "sweep"] /\ snap' = [snap EXCEPT ![r] = S]
        /\ db' = db /\ work' = work /\ lock' = lock
    BY DEF RequestBegin, At, Goto
  <1>2. OthersLocal(r) /\ LocalTypes' /\ RequestType(r)'
    BY <1>1 DEF OthersLocal, LocalTypes, RequestType, IInv, TypeOK, StagesOf
  <1>3. \A p \in Rows : lock[p] # r
    BY <1>1 DEF IInv, RequestInv, HoldsNothing, OutsideTransaction
  <1>4. \A p \in S : p \in Resets /\ db[p] # None
    BY <1>3 DEF Visible, Unused, Rows
  <1>5. pc'[r] = "sweep" /\ snap'[r] = S
    BY <1>1 DEF IInv, TypeOK
  <1> HIDE DEF S
  <1>6. TargetsExist(r)' /\ HoldsToken(r)' /\ Generated(r)' /\ HoldsNothing(r)'
    BY <1>1, <1>4, <1>5 DEF TargetsExist, HoldsToken, Generated, HoldsNothing, Rotating,
                            OutsideTransaction, Ended
  <1>7. Drafts(r)'
    BY <1>1, <1>3 DEF Drafts, Rows
  <1> QED BY <1>1, <1>2, <1>6, <1>7, NoRowStep DEF RequestInv, store

\* The key set in Redis.
LEMMA LogoutBlacklistInv ==
    ASSUME IInv, NEW r \in Reqs, LogoutBlacklist(r)
    PROVE  IInv'
  <1>1. /\ UNCHANGED <<job, new, snap, ans, known>>
        /\ pc[r] = "blacklist" /\ job[r].op = "logout"
        /\ pc' = [pc EXCEPT ![r] = "respond"] /\ blacklist' = blacklist \cup {job[r].acc}
        /\ db' = db /\ work' = work /\ lock' = lock
    BY DEF LogoutBlacklist, At, Goto
  <1>2. job[r].acc \in Tokens
    BY <1>1 DEF IInv, TypeOK, RequestType, Jobs
  <1>3. OthersLocal(r) /\ LocalTypes' /\ RequestType(r)'
    BY <1>1, <1>2 DEF OthersLocal, LocalTypes, RequestType, IInv, TypeOK, StagesOf
  <1>4. TargetsExist(r)' /\ HoldsToken(r)' /\ Generated(r)' /\ HoldsNothing(r)'
    BY <1>1 DEF TargetsExist, HoldsToken, HoldsNothing, OutsideTransaction, Ended,
                Generated, Rotating, IInv, RequestInv, TypeOK
  <1>5. \A t \in Tokens : lock[t] = r => RevokedDraft(r, t)
    BY <1>1 DEF IInv, RequestInv, Drafts, Rotating, LoginDraft, PresentedDraft,
                SuccessorDraft, ReuseDraft
  <1>6. Drafts(r)'
    BY <1>1, <1>5 DEF Drafts, RevokedDraft, IInv, TypeOK, Ended
  <1> QED BY <1>1, <1>3, <1>4, <1>6, NoRowStep DEF RequestInv, store

\* The reset mail, delivered or not.
LEMMA RequestMailInv ==
    ASSUME IInv, NEW r \in Reqs, RequestMail(r)
    PROVE  IInv'
  <1>1. /\ UNCHANGED <<job, new, snap, ans, blacklist>>
        /\ pc[r] = "mail" /\ job[r].op = "request"
        /\ pc' = [pc EXCEPT ![r] = "respond"] /\ known' \subseteq known \cup {new[r]}
        /\ db' = db /\ work' = work /\ lock' = lock
    BY DEF RequestMail, At, Goto
  <1>2. new[r] \in Resets
    BY <1>1 DEF IInv, RequestInv, Generated
  <1>3. OthersLocal(r) /\ LocalTypes' /\ RequestType(r)'
    BY <1>1, <1>2 DEF OthersLocal, LocalTypes, RequestType, IInv, TypeOK, StagesOf
  <1>4. TargetsExist(r)' /\ HoldsToken(r)' /\ Generated(r)' /\ HoldsNothing(r)'
    BY <1>1 DEF TargetsExist, HoldsToken, HoldsNothing, OutsideTransaction, Ended,
                Generated, Rotating, IInv, RequestInv, TypeOK
  <1>5. \A t \in Tokens : lock[t] # r
    BY <1>1 DEF IInv, RequestInv, Drafts, Rotating, LoginDraft, PresentedDraft,
                SuccessorDraft, ReuseDraft, RevokedDraft
  <1>6. Drafts(r)'
    BY <1>1, <1>5 DEF Drafts
  <1> QED BY <1>1, <1>3, <1>4, <1>6, NoRowStep DEF RequestInv, store

\* The answer to the client.
LEMMA RespondInv ==
    ASSUME IInv, NEW r \in Reqs, Respond(r)
    PROVE  IInv'
  <1> DEFINE stage == IF job[r].op = "refresh" THEN "done" ELSE "commit"
  <1>1. /\ UNCHANGED <<job, new, snap, blacklist>>
        /\ pc[r] = "respond"
        /\ pc' = [pc EXCEPT ![r] = stage]
        /\ ans' = [ans EXCEPT ![r] = "ok"]
        /\ known' = IF job[r].op \in {"login", "refresh"} THEN known \cup {new[r]}
                                                          ELSE known
        /\ db' = db /\ work' = work /\ lock' = lock
    BY DEF Respond, Goto
  <1>2. job[r].op \in {"login", "refresh"} => new[r] \in Tokens
    BY <1>1 DEF IInv, RequestInv, Generated
  <1>3. job[r] \in Jobs /\ pc'[r] = stage
    BY <1>1 DEF IInv, TypeOK, RequestType
  <1>4. OthersLocal(r) /\ LocalTypes' /\ RequestType(r)'
    <2>1. stage \in StagesOf[job[r].op] \cup Ended
      BY <1>3 DEF Jobs, StagesOf, Ended
    <2> QED BY <1>1, <1>2, <1>3, <2>1 DEF OthersLocal, LocalTypes, RequestType, IInv, TypeOK, Answers
  <1>5. TargetsExist(r)' /\ HoldsToken(r)' /\ Generated(r)' /\ HoldsNothing(r)'
    BY <1>1, <1>3 DEF TargetsExist, HoldsToken, HoldsNothing, OutsideTransaction, Ended,
                Generated, Rotating, IInv, RequestInv, TypeOK
  <1>6. Drafts(r)'
    BY <1>1, <1>3 DEF IInv, RequestInv, Drafts, Rotating, LoginDraft, PresentedDraft,
                SuccessorDraft, ReuseDraft, RevokedDraft, Ended
  <1> QED BY <1>1, <1>4, <1>5, <1>6, NoRowStep DEF RequestInv, store

(***************************************************************************)
(* The end of a transaction.                                                *)
(***************************************************************************)
\* What a commit makes of a token: it is as it was, or was inserted by a login,
\* replaced by a refresh or inserted as its replacement, or revoked.
CommitsToken(r, t) ==
    \/ db'[t] = db[t]
    \/ LoginDraft(r, t) /\ db'[t] = NewToken(t)
    \/ Rotating(r) /\ t = job[r].tok /\ Live(db[t]) /\ db'[t] = RotatedVersion(db[t], new[r])
    \/ Rotating(r) /\ t = new[r] /\ db[t] = None /\ db'[t] = NewToken(db[job[r].tok].family)
    \/ ~Rotating(r) /\ db[t] # None /\ db'[t] = RevokedVersion(db[t])

\* What a commit makes of a token: the draft of the transaction, or nothing.
LEMMA CommitTokens ==
    ASSUME IInv, NEW r \in Reqs, CommitTransaction(r), NEW t \in Tokens
    PROVE  CommitsToken(r, t)
  <1>1. pc[r] = "commit" /\ db'[t] = IF lock[t] = r THEN work[t] ELSE db[t]
    BY CommitStore, StoreOfIInv DEF CommitTransaction, Rows
  <1>2. CASE lock[t] = r
    <2>1. Rotating(r) => Live(db[job[r].tok])
      BY DEF IInv, RequestInv, HoldsToken
    <2> QED BY <1>1, <1>2, <2>1 DEF CommitsToken, IInv, RequestInv, Drafts, LoginDraft,
               PresentedDraft, SuccessorDraft, ReuseDraft, RevokedDraft, Rotating
  <1>3. CASE lock[t] # r
    BY <1>1, <1>3 DEF CommitsToken
  <1> QED BY <1>2, <1>3

\* The transaction of a refresh holds its token and the successor, nothing else;
\* that of a login, its new token.
LEMMA CommitHolds ==
    ASSUME IInv, NEW r \in Reqs, CommitTransaction(r)
    PROVE  /\ Rotating(r) =>
                /\ job[r].tok \in Tokens /\ new[r] \in Tokens
                /\ Live(db[job[r].tok]) /\ db[new[r]] = None
                /\ db'[job[r].tok] = RotatedVersion(db[job[r].tok], new[r])
                /\ db'[new[r]] = NewToken(db[job[r].tok].family)
                /\ \A t \in Tokens \ {job[r].tok, new[r]} : db'[t] = db[t]
           /\ \A n \in Tokens : LoginDraft(r, n) =>
                \A t \in Tokens \ {n} : db'[t] = db[t]
  <1>1. pc[r] = "commit" /\ \A t \in Tokens : db'[t] = IF lock[t] = r THEN work[t] ELSE db[t]
    BY CommitStore, StoreOfIInv DEF CommitTransaction, Rows
  <1>2. ASSUME Rotating(r)
        PROVE  /\ job[r].tok \in Tokens /\ new[r] \in Tokens
               /\ Live(db[job[r].tok]) /\ db[new[r]] = None
               /\ lock[job[r].tok] = r /\ lock[new[r]] = r
    BY <1>1, <1>2, TokenPresented DEF IInv, RequestInv, HoldsToken
  <1>3. ASSUME NEW t \in Tokens, lock[t] = r
        PROVE  \/ LoginDraft(r, t) \/ PresentedDraft(r, t) \/ SuccessorDraft(r, t)
               \/ ReuseDraft(r, t) \/ RevokedDraft(r, t)
    BY <1>3 DEF IInv, RequestInv, Drafts
  <1>4. ASSUME Rotating(r)
        PROVE  /\ db'[job[r].tok] = RotatedVersion(db[job[r].tok], new[r])
               /\ db'[new[r]] = NewToken(db[job[r].tok].family)
               /\ \A t \in Tokens \ {job[r].tok, new[r]} : db'[t] = db[t]
    BY <1>1, <1>2, <1>3, <1>4 DEF LoginDraft, PresentedDraft, SuccessorDraft, ReuseDraft,
       RevokedDraft, Rotating, Live
  <1>5. ASSUME NEW n \in Tokens, LoginDraft(r, n), NEW t \in Tokens \ {n}
        PROVE  db'[t] = db[t]
    BY <1>1, <1>3, <1>5 DEF LoginDraft, PresentedDraft, SuccessorDraft, ReuseDraft,
       RevokedDraft, Rotating
  <1> QED BY <1>2, <1>4, <1>5

\* A commit keeps families rooted and with one live token.
LEMMA CommitInv ==
    ASSUME IInv, NEW r \in Reqs, CommitTransaction(r)
    PROVE  IInv'
  <1> DEFINE stage == IF job[r].op = "refresh" THEN "respond" ELSE "done"
  <1>1. /\ UNCHANGED <<job, new, snap, ans, known, blacklist>>
        /\ pc[r] = "commit" /\ pc' = [pc EXCEPT ![r] = stage]
    BY DEF CommitTransaction, OnlyMoves, Goto
  <1>2. /\ StoreInv'
        /\ \A x \in Rows : db'[x] = IF lock[x] = r THEN work[x] ELSE db[x]
        /\ \A x \in Rows : lock'[x] = IF lock[x] = r THEN None ELSE lock[x]
        /\ work' = work
    BY CommitStore, StoreOfIInv DEF CommitTransaction
  <1>3. OthersRows(r)
    BY <1>2 DEF OthersRows, IInv, NothingDeleted
  <1>4. job[r] \in Jobs /\ pc'[r] = stage
    BY <1>1 DEF IInv, TypeOK, RequestType
  <1>5. OthersLocal(r) /\ LocalTypes' /\ RequestType(r)'
    <2>1. stage \in StagesOf[job[r].op] \cup Ended
      BY <1>4 DEF Jobs, StagesOf, Ended
    <2> QED BY <1>1, <1>4, <2>1 DEF OthersLocal, LocalTypes, RequestType, IInv, TypeOK
  <1>6. \A x \in Rows : lock'[x] # r
    BY <1>2, SetsAssumption
  <1>7. TargetsExist(r)' /\ HoldsToken(r)' /\ HoldsNothing(r)' /\ Drafts(r)'
    BY <1>1, <1>4, <1>6 DEF TargetsExist, HoldsToken, HoldsNothing, Drafts, Rotating, Rows
  <1>8. Generated(r)'
    BY <1>1, <1>4, CommitHolds DEF Generated, Rotating
  <1>9. FamilyRooted'
    <2> SUFFICES ASSUME NEW t \in Tokens, db'[t] # None
                 PROVE  db'[db'[t].family] # None
      BY DEF FamilyRooted
    <2>1. \A x \in Rows : db[x] # None => db'[x] # None
      BY <1>3 DEF OthersRows
    <2>2. ASSUME NEW x \in Tokens, db[x] # None
          PROVE  /\ db[x] \in RefreshToken /\ db[x].family \in Tokens
                 /\ db'[db[x].family] # None
      BY <2>1, <2>2 DEF IInv, TypeOK, StoreType, FamilyRooted, RefreshToken, Rows
    <2>3. CASE db'[t] = db[t]
      BY <2>2, <2>3
    <2>4. CASE LoginDraft(r, t) /\ db'[t] = NewToken(t)
      BY <2>4 DEF NewToken
    <2>5. CASE Rotating(r) /\ t = job[r].tok /\ Live(db[t])
               /\ db'[t] = RotatedVersion(db[t], new[r])
      <3>1. db[t] \in RefreshToken /\ new[r] \in Tokens
        BY <2>2, <2>5, CommitHolds DEF Live
      <3>2. db'[t].family = db[t].family
        BY <2>5, <3>1, RotatedType
      <3> QED BY <2>2, <2>5, <3>2 DEF Live
    <2>6. CASE Rotating(r) /\ t = new[r] /\ db'[t] = NewToken(db[job[r].tok].family)
      BY <2>2, <2>6, CommitHolds DEF NewToken, Live
    <2>7. CASE db[t] # None /\ db'[t] = RevokedVersion(db[t])
      BY <2>2, <2>7, RevokedType
    <2> QED BY <2>3, <2>4, <2>5, <2>6, <2>7, CommitTokens DEF CommitsToken
  <1>10. OneLivePerFamily'
    <2>1. ASSUME NEW x \in Tokens, NEW y \in Tokens, x # y,
                 Live(db'[x]), Live(db'[y]), db'[x].family = db'[y].family
          PROVE  FALSE
      <3>1. ASSUME NEW t \in Tokens, Live(db'[t]), db'[t] # db[t]
            PROVE  LoginDraft(r, t) \/ (Rotating(r) /\ t = new[r])
        <4>1. db[t] # None => db[t] \in RefreshToken
          BY DEF IInv, TypeOK, StoreType
        <4>2. CASE db[t] # None /\ db'[t] = RevokedVersion(db[t])
          BY <3>1, <4>1, <4>2, RevokedType DEF Live
        <4>3. CASE /\ Rotating(r) /\ t = job[r].tok /\ Live(db[t])
                   /\ db'[t] = RotatedVersion(db[t], new[r])
          <5>1. db[t] \in RefreshToken /\ new[r] \in Tokens
            BY <4>1, <4>3, CommitHolds DEF Live
          <5>2. RotatedVersion(db[t], new[r]).revoked
            BY <5>1, RotatedType
          <5> QED BY <3>1, <4>3, <5>2 DEF Live
        <4> QED BY <3>1, <4>2, <4>3, CommitTokens DEF CommitsToken
      <3>2. ASSUME NEW n \in Tokens, LoginDraft(r, n), NEW t \in Tokens, t # n,
                   Live(db'[t]), db'[t].family = n
            PROVE  FALSE
        BY <3>2, CommitHolds DEF LoginDraft, Live, IInv, FamilyRooted
      <3>3. ASSUME Rotating(r), NEW t \in Tokens, t # new[r], Live(db'[t]),
                   db'[t].family = db[job[r].tok].family
            PROVE  FALSE
        <4>1. t # job[r].tok
          <5>1. job[r].tok \in Tokens /\ new[r] \in Tokens /\ Live(db[job[r].tok])
                /\ db'[job[r].tok] = RotatedVersion(db[job[r].tok], new[r])
            BY <3>3, CommitHolds
          <5>2. db[job[r].tok] \in RefreshToken
            BY <5>1 DEF Live, IInv, TypeOK, StoreType
          <5> QED BY <3>3, <5>1, <5>2, RotatedType DEF Live
        <4>2. db'[t] = db[t]
          BY <3>3, <4>1, CommitHolds
        <4> QED BY <3>3, <4>1, <4>2, CommitHolds DEF IInv, OneLivePerFamily
      <3>4. CASE db'[x] = db[x] /\ db'[y] = db[y]
        BY <2>1, <3>4 DEF IInv, OneLivePerFamily
      <3>5. ASSUME NEW n \in Tokens, LoginDraft(r, n), n \in {x, y} PROVE FALSE
        <4>1. db'[n].family = n
          <5>1. db[n] = None /\ ~Rotating(r) /\ db'[n] # None
            BY <2>1, <3>5 DEF LoginDraft, Rotating, Live
          <5>2. db'[n] = NewToken(n)
            BY <5>1, CommitTokens DEF CommitsToken
          <5> QED BY <5>2 DEF NewToken
        <4> QED BY <2>1, <3>2, <3>5, <4>1
      <3>6. ASSUME Rotating(r), new[r] \in {x, y} PROVE FALSE
        <4>1. db'[new[r]].family = db[job[r].tok].family
          <5>1. db'[new[r]] = NewToken(db[job[r].tok].family)
            BY <3>6, CommitHolds
          <5> QED BY <5>1 DEF NewToken
        <4> QED BY <2>1, <3>3, <3>6, <4>1
      <3> QED BY <2>1, <3>1, <3>4, <3>5, <3>6
    <2> QED BY <2>1 DEF OneLivePerFamily
  <1> QED BY <1>2, <1>3, <1>5, <1>7, <1>8, <1>9, <1>10, Assemble DEF RequestInv

(***************************************************************************)
(* The invariant.                                                           *)
(***************************************************************************)
\* Every action that ends in an exception rolls back.
LEMMA FailureInv ==
    ASSUME IInv, NEW r \in Reqs,
           \/ LoginReject(r) \/ RefreshReject(r) \/ RefreshReuse(r) \/ LogoutReject(r)
           \/ ConfirmReject(r) \/ DeadlockVictim(r) \/ ConnectionLost(r)
    PROVE  IInv'
  <1>1. PICK answer \in Answers : Fail(r, answer)
    BY DEF LoginReject, RefreshReject, RefreshReuse, LogoutReject, ConfirmReject,
           DeadlockVictim, ConnectionLost, Answers
  <1>2. pc[r] # "idle"
    <2>1. CASE DeadlockVictim(r)
      <3>1. Wanted(r) # {}
        BY <2>1 DEF DeadlockVictim, Deadlocked, WaitsFor
      <3> QED BY <3>1 DEF Wanted, At
    <2> QED BY <2>1 DEF LoginReject, RefreshReject, RefreshReuse, LogoutReject,
               ConfirmReject, ConnectionLost, At
  <1> QED BY <1>1, <1>2, FailInv

\* Every step of a handler keeps the invariant.
LEMMA HandleInv ==
    ASSUME IInv, NEW r \in Reqs, Handle(r)
    PROVE  IInv'
  <1>1. CASE Login(r)
    BY <1>1, LoginAcceptInv, FailureInv, LoginIssueInv DEF Login
  <1>2. CASE Refresh(r)
    BY <1>2, RefreshMissingInv, RefreshLockInv, FailureInv, RefreshIssueInv,
       RefreshRotateInv DEF Refresh
  <1>3. CASE Sweep(r)
    BY <1>3, SweepBeginInv, SweepRowInv DEF Sweep
  <1>4. CASE Logout(r)
    BY <1>4, LogoutAuthInv, FailureInv, LogoutReadInv, LogoutRevokeInv,
       LogoutBlacklistInv DEF Logout
  <1>5. CASE Request(r)
    BY <1>5, RequestBeginInv, RequestRowInv, RequestCreateInv, RequestMailInv DEF Request
  <1>6. CASE Confirm(r)
    BY <1>6, ConfirmReadInv, FailureInv, ConfirmUseInv, ConfirmPasswordInv,
       ConfirmSweptInv DEF Confirm
  <1>7. CASE Respond(r) \/ CommitTransaction(r) \/ DeadlockVictim(r)
    BY <1>7, RespondInv, CommitInv, FailureInv
  <1> QED BY <1>1, <1>2, <1>3, <1>4, <1>5, <1>6, <1>7 DEF Handle

\* A step that changes nothing keeps it.
LEMMA StutterInv == ASSUME IInv, UNCHANGED vars PROVE IInv'
  BY DEF IInv, vars, TypeOK, StoreType, RequestType, UnlockedSettled, NothingDeleted,
         RequestInv, TargetsExist, HoldsToken, Rotating, Generated, Drafts, LoginDraft,
         PresentedDraft, SuccessorDraft, ReuseDraft, RevokedDraft, HoldsNothing,
         OutsideTransaction, FamilyRooted, OneLivePerFamily

\* Every step keeps it.
LEMMA NextInv == IInv /\ [Next]_vars => IInv'
  <1> SUFFICES ASSUME IInv, [Next]_vars PROVE IInv'
    OBVIOUS
  <1>1. ASSUME NEW r \in Reqs, Call(r) \/ Handle(r) \/ ConnectionLost(r) PROVE IInv'
    BY <1>1, CallInv, HandleInv, FailureInv
  <1>2. CASE Quiescent \/ UNCHANGED vars
    BY <1>2, StutterInv DEF Quiescent
  <1> QED BY <1>1, <1>2 DEF Next

\* The database that holds the first sessions satisfies it.
LEMMA InitInv == Init => IInv
  <1> SUFFICES ASSUME Init PROVE IInv
    OBVIOUS
  <1>1. \A t \in Tokens : /\ t \in Rows
                          /\ db[t] = IF t \in Sessions0 THEN NewToken(t) ELSE None
    BY SetsAssumption DEF Init, Rows
  <1>2. TypeOK
    <2>1. StoreType(db) /\ work = db
      BY <1>1, SetsAssumption, NewTokenType DEF Init, StoreType, NewReset, PasswordReset, Rows
    <2> QED BY <2>1, SetsAssumption DEF Init, TypeOK, RequestType, Answers
  <1>3. UnlockedSettled /\ NothingDeleted
    BY DEF Init, UnlockedSettled, NothingDeleted
  <1>4. \A r \in Reqs : RequestInv(r)
    BY <1>1, SetsAssumption
       DEF Init, RequestInv, TargetsExist, HoldsToken, Rotating, Generated, Drafts,
           HoldsNothing, Rows
  <1>5. ASSUME NEW t \in Tokens, db[t] # None PROVE db[t].family = t
    <2>1. db[t] = NewToken(t)
      BY <1>1, <1>5
    <2> QED BY <2>1 DEF NewToken
  <1>6. FamilyRooted /\ OneLivePerFamily
    BY <1>5 DEF FamilyRooted, OneLivePerFamily, Live
  <1> QED BY <1>2, <1>3, <1>4, <1>6 DEF IInv

\* The inductive invariant holds in every state: each open transaction holds the
\* rows it changed and has made of them what its handler writes, no lock outlives
\* its transaction, and no family has two live tokens.
THEOREM Invariant == Spec => []IInv
  BY InitInv, NextInv, PTL DEF Spec

\* All variables keep their types, whatever the requests and their interleaving.
THEOREM TypeCorrect == Spec => []TypeOK
  <1>1. IInv => TypeOK
    BY DEF IInv
  <1> QED BY <1>1, Invariant, PTL

\* A rotation family never has two live tokens, for any number of concurrent
\* logins, refreshes, logouts and password resets, with lost connections.
THEOREM OneLive == Spec => []OneLivePerFamily
  <1>1. IInv => OneLivePerFamily
    BY DEF IInv
  <1> QED BY <1>1, Invariant, PTL

(***************************************************************************)
(* The steps seen in the committed refresh_tokens table: only commits       *)
(* change it, a commit opens, rotates or revokes as a step of SessionChains *)
(* does, and none undoes a revocation.                                      *)
(***************************************************************************)
\* Committed rows change at commits only.
LEMMA OnlyCommitsPublish ==
    ASSUME [Next]_vars
    PROVE  db' = db \/ \E r \in Reqs : CommitTransaction(r)
  <1>1. ASSUME NEW r \in Reqs, Call(r) PROVE db' = db
    BY <1>1 DEF Call, StartLogin, StartRefresh, StartLogout, StartRequest, StartConfirm, Start
  <1>2. ASSUME NEW r \in Reqs, Handle(r), ~CommitTransaction(r) PROVE db' = db
    BY <1>2 DEF Handle, Login, LoginAccept, LoginReject, LoginIssue, Refresh, RefreshMissing,
       RefreshLock, RefreshReject, RefreshIssue, RefreshRotate, RefreshReuse, Sweep,
       SweepBegin, SweepRow, Logout, LogoutAuth, LogoutReject, LogoutRead, LogoutRevoke,
       LogoutBlacklist, Request, RequestBegin, RequestRow, RequestCreate, RequestMail,
       Confirm, ConfirmRead, ConfirmReject, ConfirmUse, ConfirmPassword, ConfirmSwept,
       Respond, DeadlockVictim, Fail, Issue, Write, LockRow, Rollback, store
  <1>3. ASSUME NEW r \in Reqs, ConnectionLost(r) PROVE db' = db
    BY <1>3 DEF ConnectionLost, Fail, Rollback
  <1>4. CASE Quiescent \/ UNCHANGED vars
    BY <1>4 DEF Quiescent, vars
  <1> QED BY <1>1, <1>2, <1>3, <1>4 DEF Next

\* A commit keeps the revocations and links committed before it.
LEMMA CommitKeepsRevocations ==
    ASSUME IInv, NEW r \in Reqs, CommitTransaction(r),
           NEW t \in Tokens, db[t] # None, db[t].revoked
    PROVE  /\ db'[t] # None /\ db'[t].revoked
           /\ db'[t].replaced_by_jti = db[t].replaced_by_jti
  <1>1. db[t] \in RefreshToken
    BY DEF IInv, TypeOK, StoreType
  <1>2. db'[t] = db[t] \/ db'[t] = RevokedVersion(db[t])
    BY CommitTokens DEF CommitsToken, LoginDraft, Live
  <1>3. RevokedVersion(db[t]) # None
    BY <1>1, RevokedType, TokenVersions
  <1> QED BY <1>1, <1>2, <1>3, RevokedType

\* A revoked token stays revoked and a replaced one keeps its replacement, in
\* every step of every number of requests.
THEOREM RevocationsFinal == Spec => RevocationFinal
  <1> DEFINE Final ==
        \A t \in Tokens : (db[t] # None /\ db[t].revoked) =>
            /\ db'[t] # None /\ db'[t].revoked
            /\ db[t].replaced_by_jti # None =>
                  db'[t].replaced_by_jti = db[t].replaced_by_jti
  <1>1. IInv /\ [Next]_vars => [Final]_vars
    <2> SUFFICES ASSUME IInv, [Next]_vars PROVE Final
      OBVIOUS
    <2>1. CASE db' = db
      BY <2>1
    <2>2. ASSUME NEW r \in Reqs, CommitTransaction(r) PROVE Final
      BY <2>2, CommitKeepsRevocations
    <2> QED BY <2>1, <2>2, OnlyCommitsPublish
  <1> QED BY <1>1, Invariant, PTL DEF Spec, RevocationFinal

(***************************************************************************)
(* Refinement.                                                              *)
(***************************************************************************)
\* How the three kinds of commits look to the chains.
LEMMA NewState ==
    \A f \in Tokens : /\ TokenState(NewToken(f)) = "live"
                      /\ TokenFamily(NewToken(f)) = f /\ TokenSuccessor(NewToken(f)) = None
  <1> SUFFICES ASSUME NEW f \in Tokens
               PROVE  /\ TokenState(NewToken(f)) = "live"
                      /\ TokenFamily(NewToken(f)) = f /\ TokenSuccessor(NewToken(f)) = None
    OBVIOUS
  <1>1. NewToken(f) # None
    BY NewTokenType, TokenVersions
  <1> QED BY <1>1 DEF TokenState, TokenFamily, TokenSuccessor, NewToken

\* A rotated row is a replaced token of the same chain.
LEMMA RotatedState ==
    \A row \in RefreshToken, n \in Tokens :
        /\ TokenState(RotatedVersion(row, n)) = "replaced"
        /\ TokenFamily(RotatedVersion(row, n)) = TokenFamily(row)
        /\ TokenSuccessor(RotatedVersion(row, n)) = n
  <1> SUFFICES ASSUME NEW row \in RefreshToken, NEW n \in Tokens
               PROVE  /\ TokenState(RotatedVersion(row, n)) = "replaced"
                      /\ TokenFamily(RotatedVersion(row, n)) = TokenFamily(row)
                      /\ TokenSuccessor(RotatedVersion(row, n)) = n
    OBVIOUS
  <1>1. row # None /\ RotatedVersion(row, n) # None /\ n # None
    BY RotatedType, SetsAssumption DEF Rows
  <1> QED BY <1>1, RotatedType DEF TokenState, TokenFamily, TokenSuccessor

\* A revoked row is a revoked or replaced token of the same chain.
LEMMA RevokedState ==
    \A row \in RefreshToken :
        (Live(row) => row.replaced_by_jti = None) =>
            /\ TokenState(RevokedVersion(row)) =
                  IF TokenState(row) = "live" THEN "revoked" ELSE TokenState(row)
            /\ TokenFamily(RevokedVersion(row)) = TokenFamily(row)
            /\ TokenSuccessor(RevokedVersion(row)) = TokenSuccessor(row)
  <1> SUFFICES ASSUME NEW row \in RefreshToken, Live(row) => row.replaced_by_jti = None
               PROVE  /\ TokenState(RevokedVersion(row)) =
                            IF TokenState(row) = "live" THEN "revoked" ELSE TokenState(row)
                      /\ TokenFamily(RevokedVersion(row)) = TokenFamily(row)
                      /\ TokenSuccessor(RevokedVersion(row)) = TokenSuccessor(row)
    OBVIOUS
  <1>1. row # None /\ RevokedVersion(row) # None
    BY RevokedType, SetsAssumption
  <1> QED BY <1>1, RevokedType DEF TokenState, TokenFamily, TokenSuccessor, Live

\* A live token has no replacement yet.
LiveUnlinked == \A t \in Tokens : Live(db[t]) => db[t].replaced_by_jti = None

\* A live token has no successor.
LEMMA LiveUnlinkedInv == Spec => []LiveUnlinked
  <1>1. Init => LiveUnlinked
    <2> SUFFICES ASSUME Init, NEW t \in Tokens, Live(db[t])
                 PROVE  db[t].replaced_by_jti = None
      BY DEF LiveUnlinked
    <2>1. db[t] = NewToken(t)
      BY SetsAssumption DEF Init, Rows, Live
    <2> QED BY <2>1 DEF NewToken
  <1>2. IInv /\ LiveUnlinked /\ [Next]_vars => LiveUnlinked'
    <2> SUFFICES ASSUME IInv, LiveUnlinked, [Next]_vars, NEW t \in Tokens, Live(db'[t])
                 PROVE  db'[t].replaced_by_jti = None
      BY DEF LiveUnlinked
    <2>1. CASE db' = db
      BY <2>1 DEF LiveUnlinked
    <2>2. ASSUME NEW r \in Reqs, CommitTransaction(r)
          PROVE  db'[t].replaced_by_jti = None
      <3>1. db[t] # None => db[t] \in RefreshToken
        BY DEF IInv, TypeOK, StoreType
      <3>2. CASE db'[t] = db[t]
        BY <3>2 DEF LiveUnlinked
      <3>3. ASSUME NEW f, db'[t] = NewToken(f) PROVE db'[t].replaced_by_jti = None
        BY <3>3 DEF NewToken
      <3>4. CASE /\ Rotating(r) /\ t = job[r].tok /\ Live(db[t])
                 /\ db'[t] = RotatedVersion(db[t], new[r])
        <4>1. db[t] \in RefreshToken /\ new[r] \in Tokens
          BY <2>2, <3>1, <3>4, CommitHolds DEF Live
        <4>2. RotatedVersion(db[t], new[r]).revoked
          BY <4>1, RotatedType
        <4> QED BY <3>4, <4>2 DEF Live
      <3>5. CASE db[t] # None /\ db'[t] = RevokedVersion(db[t])
        BY <3>1, <3>5, RevokedType DEF Live
      <3> QED BY <2>2, <3>2, <3>3, <3>4, <3>5, CommitTokens DEF CommitsToken
    <2> QED BY <2>1, <2>2, OnlyCommitsPublish
  <1> QED BY <1>1, <1>2, Invariant, PTL DEF Spec

\* A commit is an Open, a Rotate or a Revoke of the chains, or changes nothing.
LEMMA CommitRefines ==
    ASSUME IInv, LiveUnlinked, NEW r \in Reqs, CommitTransaction(r)
    PROVE  Chains!Next
  <1> DEFINE state == [t \in Tokens |-> TokenState(db[t])]
             family == [t \in Tokens |-> TokenFamily(db[t])]
             succ == [t \in Tokens |-> TokenSuccessor(db[t])]
             S == {t \in Tokens : Live(db[t]) /\ ~Live(db'[t])}
  <1>1. \A t \in Tokens : db[t] # None => db[t] \in RefreshToken
    BY DEF IInv, TypeOK, StoreType
  <1>2. CASE Rotating(r)
    <2> DEFINE t == job[r].tok
               n == new[r]
    <2>1. /\ t \in Tokens /\ n \in Tokens /\ Live(db[t]) /\ db[n] = None
          /\ db'[t] = RotatedVersion(db[t], n) /\ db'[n] = NewToken(db[t].family)
          /\ \A x \in Tokens \ {t, n} : db'[x] = db[x]
      BY <1>2, CommitHolds
    <2>2. t # n /\ db[t] \in RefreshToken /\ db[t].family \in Tokens
      BY <1>1, <2>1 DEF Live, RefreshToken
    <2>3. /\ TokenState(db[t]) = "live" /\ TokenState(db[n]) = "absent"
          /\ TokenState(db'[t]) = "replaced" /\ TokenState(db'[n]) = "live"
      BY <2>1, <2>2, RotatedState, NewState DEF TokenState, Live
    <2>4. /\ TokenFamily(db'[t]) = TokenFamily(db[t])
          /\ TokenFamily(db'[n]) = TokenFamily(db[t])
          /\ TokenSuccessor(db'[t]) = n
          /\ TokenSuccessor(db'[n]) = TokenSuccessor(db[n])
      BY <2>1, <2>2, RotatedState, NewState DEF TokenFamily, TokenSuccessor, Live
    <2>5. state' = [state EXCEPT ![t] = "replaced", ![n] = "live"]
      BY <2>1, <2>2, <2>3
    <2>6. family' = [family EXCEPT ![n] = family[t]]
      BY <2>1, <2>2, <2>4
    <2>7. succ' = [succ EXCEPT ![t] = n]
      BY <2>1, <2>2, <2>4
    <2>8. state[t] = "live" /\ state[n] = "absent"
      BY <2>1, <2>3
    <2> QED BY <2>1, <2>5, <2>6, <2>7, <2>8 DEF Chains!Next, Chains!Rotate
  <1>3. ASSUME NEW n \in Tokens, LoginDraft(r, n), db'[n] # db[n]
        PROVE  Chains!Next
    <2>1. db[n] = None /\ ~Rotating(r) /\ \A x \in Tokens \ {n} : db'[x] = db[x]
      BY <1>3, CommitHolds DEF LoginDraft, Rotating
    <2>2. db'[n] = NewToken(n)
      BY <1>3, <2>1, CommitTokens DEF CommitsToken
    <2>3. /\ TokenState(db[n]) = "absent" /\ TokenState(db'[n]) = "live"
          /\ TokenFamily(db'[n]) = n /\ TokenSuccessor(db'[n]) = TokenSuccessor(db[n])
      BY <2>1, <2>2, NewState DEF TokenState, TokenSuccessor
    <2>4. \A x \in Tokens : x # n => db'[x] = db[x]
      BY <2>1
    <2>5. state' = [state EXCEPT ![n] = "live"]
      BY <2>4, <2>3
    <2>6. family' = [family EXCEPT ![n] = n]
      BY <2>4, <2>3
    <2>7. succ' = succ
      BY <2>4, <2>3
    <2>8. state[n] = "absent"
      BY <2>3
    <2> QED BY <2>5, <2>6, <2>7, <2>8 DEF Chains!Next, Chains!Open
  <1>4. CASE ~Rotating(r) /\ \A n \in Tokens : LoginDraft(r, n) => db'[n] = db[n]
    <2>1. ASSUME NEW t \in Tokens
          PROVE  /\ TokenState(db'[t]) = IF t \in S THEN "revoked" ELSE TokenState(db[t])
                 /\ TokenFamily(db'[t]) = TokenFamily(db[t])
                 /\ TokenSuccessor(db'[t]) = TokenSuccessor(db[t])
      <3>1. CASE db'[t] = db[t]
        BY <3>1
      <3>2. CASE db[t] # None /\ db'[t] = RevokedVersion(db[t])
        <4>1. db[t] \in RefreshToken /\ (Live(db[t]) => db[t].replaced_by_jti = None)
          BY <1>1, <3>2 DEF LiveUnlinked
        <4>2. t \in S <=> TokenState(db[t]) = "live"
          BY <3>2, <4>1, RevokedType DEF Live, TokenState
        <4> QED BY <3>2, <4>1, <4>2, RevokedState
      <3> QED BY <1>4, <3>1, <3>2, CommitTokens DEF CommitsToken
    <2>2. \A t \in S : state[t] = "live"
      BY DEF TokenState, Live
    <2>3. /\ state' = [t \in Tokens |-> IF t \in S THEN "revoked" ELSE state[t]]
          /\ family' = family /\ succ' = succ
      BY <2>1
    <2>4. S \in SUBSET Tokens
      OBVIOUS
    <2> QED BY <2>2, <2>3, <2>4 DEF Chains!Next, Chains!Revoke
  <1> QED BY <1>2, <1>3, <1>4

\* The committed refresh tokens of any number of concurrent requests behave as
\* session chains: opened, rotated and revoked in indivisible steps.
THEOREM Refinement == Spec => ImplementsChains
  <1>1. Init => Chains!Init
    <2> SUFFICES ASSUME Init PROVE Chains!Init
      OBVIOUS
    <2>1. ASSUME NEW t \in Tokens
          PROVE  /\ TokenState(db[t]) = IF t \in Sessions0 THEN "live" ELSE "absent"
                 /\ TokenFamily(db[t]) = IF t \in Sessions0 THEN t ELSE None
                 /\ TokenSuccessor(db[t]) = None
      <3>1. db[t] = IF t \in Sessions0 THEN NewToken(t) ELSE None
        BY SetsAssumption DEF Init, Rows
      <3> QED BY <3>1, NewState DEF TokenState, TokenFamily, TokenSuccessor
    <2> QED BY <2>1 DEF Chains!Init
  <1>2. IInv /\ LiveUnlinked /\ [Next]_vars =>
           [Chains!Next]_<<[t \in Tokens |-> TokenState(db[t])],
                           [t \in Tokens |-> TokenFamily(db[t])],
                           [t \in Tokens |-> TokenSuccessor(db[t])]>>
    BY OnlyCommitsPublish, CommitRefines
  <1> QED BY <1>1, <1>2, Invariant, LiveUnlinkedInv, PTL
          DEF Spec, ImplementsChains, Chains!Spec

=============================================================================
