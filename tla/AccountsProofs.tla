--------------------------- MODULE AccountsProofs ---------------------------
(***************************************************************************)
(* Proofs about signup, e-mail verification and OAuth provisioning, for any *)
(* number of requests, addresses, providers and subjects.                   *)
(*                                                                          *)
(* What is committed together was written by one transaction, so the        *)
(* invariant says of every request which rows it holds at the await it has   *)
(* reached and what it has made of them (RequestInv), and of every committed *)
(* row which others it needs (UserRow, TokenRow, AccountRow).  A user's id   *)
(* leads back to the request that made the row: that makes the UPDATE by id  *)
(* of mark_user_verified hit the row its token belongs to.                  *)
(***************************************************************************)
EXTENDS Accounts, TLAPS

(***************************************************************************)
(* The inductive invariant.                                                 *)
(***************************************************************************)
\* The row of user x.id, made by the request of that name.
MadeBy(x, e) ==
    /\ job[x.id].user = x.id
    /\ job[x.id].email = e
    /\ job[x.id].op = IF x.local THEN "signup" ELSE "oauth"

UserRow(e) ==
    /\ work[e] # None => MadeBy(work[e], e)
    /\ db[e] # None =>
        /\ MadeBy(db[e], e)
        /\ db[e].local => /\ db[Verification(db[e].id)] # None
                          /\ db[e].verified <=> db[Verification(db[e].id)].used

\* The request a token is named for is the signup that made its user.
IssuedBySignup(v) == job[v[1]].user = v[1] /\ job[v[1]].op = "signup"

TokenRow(v) ==
    /\ work[v] # None \/ db[v] # None => IssuedBySignup(v)
    /\ work[v] # None => work[v].user = v[1]
    /\ db[v] # None => db[v].user = v[1] /\ IsUser(v[1])

AccountRow(i) == db[i] # None => IsUser(db[i].user)

UnlockedSettled == \A o \in Rows : lock[o] = None => work[o] = db[o]

\* r has inserted a user and not ended its transaction.
MakesUser(r) ==
    /\ job[r].op # "verify" /\ job[r].user = r
    /\ pc[r] \in {"verification", "mail", "mark_verified", "link", "commit"}

MakesToken(r) == job[r].op = "signup" /\ pc[r] \in {"mail", "commit"}

UsesToken(r) == job[r].op = "verify" /\ pc[r] \in {"mark_verified", "commit"}

VerifiesUser(r) == job[r].op = "verify" /\ pc[r] = "commit"

Links(r) == job[r].op = "oauth" /\ pc[r] = "commit"

\* The rows r has written and not committed.
Holds(r, o) ==
    \/ MakesUser(r) /\ o = job[r].email
    \/ MakesToken(r) /\ o = Verification(r)
    \/ UsesToken(r) /\ o = job[r].tok
    \/ VerifiesUser(r) /\ o = job[job[r].user].email
    \/ Links(r) /\ o = job[r].ident

\* The awaits before a handler knows a user.
FreshStages == {"idle", "existing", "create_user", "read", "state", "consume", "exchange",
                "user"}

VerifiedUser(u) == [id |-> u.id, local |-> u.local, verified |-> TRUE]

NewRows(r) ==
    /\ MakesUser(r) =>
        /\ job[r].email \in Emails /\ db[job[r].email] = None
        /\ work[job[r].email] = [id |-> r, local |-> job[r].op = "signup",
                                 verified |-> job[r].op = "oauth" /\ pc[r] \in {"link", "commit"}]
    /\ MakesToken(r) => work[Verification(r)] = [user |-> r, used |-> FALSE]

SignupInv(r) ==
    job[r].op = "signup" =>
        /\ pc[r] # "idle" => job[r].email \in Emails
        /\ pc[r] \in {"verification", "mail", "commit"} => job[r].user = r

VerifyInv(r) ==
    job[r].op = "verify" =>
        /\ job[r].tok \in Verifications /\ job[r].user # r
        /\ pc[r] \in {"use", "mark_verified", "commit"} =>
               job[r].user = job[r].tok[1] /\ db[job[r].tok] # None
        /\ UsesToken(r) => work[job[r].tok] = [user |-> job[r].tok[1], used |-> TRUE]
        /\ VerifiesUser(r) =>
               LET e == job[job[r].user].email
               IN /\ e \in Emails /\ db[e] # None /\ db[e].id = job[r].user
                  /\ work[e] = VerifiedUser(db[e])

OAuthInv(r) ==
    job[r].op = "oauth" =>
        /\ job[r].ident \in Identities /\ job[r].nonce \in Nonces
        /\ pc[r] \in {"user", "create_user", "mark_verified", "link"} => job[r].email \in Emails
        /\ pc[r] = "mark_verified" => job[r].user = r
        /\ pc[r] = "update" => job[r].user # r /\ db[job[r].ident] # None
        /\ pc[r] \in {"update", "link", "commit"} /\ job[r].user # r => IsUser(job[r].user)
        /\ Links(r) => \/ db[job[r].ident] = None /\ work[job[r].ident] = [user |-> job[r].user]
                       \/ /\ db[job[r].ident] # None /\ work[job[r].ident] = db[job[r].ident]
                          /\ job[r].user # r

RequestInv(r) ==
    /\ pc[r] = "idle" => job[r] = Blank
    /\ pc[r] \in FreshStages => job[r].user = None
    /\ \A o \in Rows : lock[o] = r <=> Holds(r, o)
    /\ NewRows(r) /\ SignupInv(r) /\ VerifyInv(r) /\ OAuthInv(r)
    /\ pc[r] = "done" /\ job[r].user = r =>
           job[r].email \in Emails /\ db[job[r].email] # None /\ db[job[r].email].id = r

IInv ==
    /\ TypeOK
    /\ UnlockedSettled
    /\ \A e \in Emails : UserRow(e)
    /\ \A v \in Verifications : TokenRow(v)
    /\ \A i \in Identities : AccountRow(i)
    /\ \A r \in Reqs : RequestInv(r)

(***************************************************************************)
(* Facts about the state.                                                   *)
(***************************************************************************)
LEMMA TokenIsOf ==
  ASSUME NEW v \in Verifications
  PROVE  v[1] \in Reqs /\ v = Verification(v[1])
  BY DEF Verifications, Verification

\* The verification token of a request is a row key and names the request.
LEMMA VerificationType ==
  ASSUME NEW r \in Reqs
  PROVE  Verification(r) \in Verifications /\ Verification(r)[1] = r
  BY DEF Verifications, Verification

\* Keys of users, identities and verifications are told apart.
LEMMA Keys ==
  /\ Rows = Emails \cup Identities \cup Verifications
  /\ Emails \cap (Identities \cup Verifications) = {}
  /\ Identities \cap Verifications = {}
  BY AccountsAssumption DEF Rows

\* The arguments of a request, field by field.
LEMMA JobType ==
  ASSUME NEW j \in Job
  PROVE  /\ j.op \in {"signup", "verify", "oauth"}
         /\ j.email \in Emails \cup {None} /\ j.user \in Reqs \cup {None}
         /\ j.tok \in Verifications \cup {None} /\ j.ident \in Identities \cup {None}
         /\ j.nonce \in Nonces \cup {None}
  BY DEF Job

\* No row is None.
LEMMA NoneIsNoRow ==
  /\ None \notin User /\ None \notin EmailVerification /\ None \notin OAuthAccount
  BY AccountsAssumption

\* None is neither a request nor a key.
LEMMA NoneIsNoRequest == None \notin Reqs /\ \A o \in Rows : o # None
  BY AccountsAssumption

\* The id of a user leads to its address, so a user has one.
LEMMA UserAt ==
  ASSUME IInv, NEW id \in Reqs, IsUser(id)
  PROVE  /\ job[id].user = id /\ job[id].op \in {"signup", "oauth"}
         /\ job[id].email \in Emails
         /\ db[job[id].email] # None /\ db[job[id].email].id = id
         /\ \A e \in Emails : db[e] # None /\ db[e].id = id => e = job[id].email
  <1>1. PICK e \in Emails : db[e] # None /\ db[e].id = id BY DEF IsUser
  <1>2. \A f \in Emails : db[f] # None /\ db[f].id = id => MadeBy(db[f], f)
    BY DEF IInv, UserRow
  <1> QED BY <1>1, <1>2 DEF MadeBy

\* A request that knows no user yet has made none.
LEMMA FreshMadeNone ==
  ASSUME IInv, NEW r \in Reqs, job[r].user = None
  PROVE  /\ ~IsUser(r)
         /\ \A e \in Emails : /\ db[e] # None => db[e].id # r
                              /\ work[e] # None => work[e].id # r
  BY NoneIsNoRequest DEF IInv, UserRow, MadeBy, IsUser

\* The rows another transaction holds.
LEMMA FreeRow ==
  ASSUME IInv, NEW r \in Reqs, NEW o \in Rows, Free(r, o), ~Holds(r, o)
  PROVE  lock[o] = None /\ work[o] = db[o]
  BY DEF IInv, RequestInv, Free, UnlockedSettled

\* What a request reads of a row it does not hold is committed.
LEMMA ReadsCommitted ==
  ASSUME IInv, NEW r \in Reqs, NEW o \in Rows, ~Holds(r, o)
  PROVE  Visible(r, o) = db[o]
  BY DEF IInv, RequestInv, Visible

\* The address under which a request finds a user id is the one where it saw it.
LEMMA EmailIs ==
  ASSUME IInv, NEW r \in Reqs, NEW id \in Reqs, NEW e \in Emails,
         Visible(r, e) # None, Visible(r, e).id = id
  PROVE  EmailOf(r, id) = e
  <1>1. \A f \in Emails : Visible(r, f) # None /\ Visible(r, f).id = id => job[id].email = f
    BY DEF IInv, UserRow, MadeBy, Visible
  <1> QED BY <1>1 DEF EmailOf

\* Before it knows a user a request holds nothing; so does one that has ended.
LEMMA HoldsNothing ==
  ASSUME NEW r \in Reqs, pc[r] \in FreshStages \cup Ended \cup {"use", "update"}
  PROVE  \A o : ~Holds(r, o)
  BY DEF Holds, MakesUser, MakesToken, UsesToken, VerifiesUser, Links, FreshStages, Ended

(***************************************************************************)
(* What a step of r leaves to the others.                                   *)
(***************************************************************************)
OthersKeep(r) ==
    /\ \A q \in Reqs \ {r} : pc'[q] = pc[q] /\ job'[q] = job[q]
    /\ job[r].user = r => job'[r] = job[r]
    /\ \A o \in Rows :
        /\ lock[o] \notin {None, r} =>
               lock'[o] = lock[o] /\ work'[o] = work[o] /\ db'[o] = db[o]
        /\ lock[o] \in {None, r} => lock'[o] \in {None, r}
        /\ db[o] # None => db'[o] # None
    /\ \A e \in Emails : db[e] # None => db'[e].id = db[e].id

\* A step of a request that leaves the rows of others alone deletes no user.
LEMMA UsersStay ==
  ASSUME NEW r \in Reqs, OthersKeep(r), NEW id, IsUser(id)
  PROVE  IsUser(id)'
  BY Keys DEF OthersKeep, IsUser

\* Such a step keeps the share of the other requests in the invariant.
LEMMA OthersInv ==
  ASSUME IInv, NEW r \in Reqs, OthersKeep(r), NEW q \in Reqs \ {r}
  PROVE  RequestInv(q)'
  <1>1. pc'[q] = pc[q] /\ job'[q] = job[q] BY DEF OthersKeep
  <1>2. RequestInv(q) /\ job[q] \in Job BY DEF IInv, TypeOK
  <1>3. \A o \in Rows : lock'[o] = q <=> lock[o] = q
    BY NoneIsNoRequest DEF OthersKeep, IInv, TypeOK
  <1>4. \A o \in Rows : lock[o] = q => work'[o] = work[o] /\ db'[o] = db[o]
    BY NoneIsNoRequest DEF OthersKeep
  <1>5. VerifiesUser(q) => job'[job[q].user] = job[job[q].user]
    <2> SUFFICES ASSUME VerifiesUser(q) PROVE job'[job[q].user] = job[job[q].user]
      OBVIOUS
    <2>1. job[q].tok \in Verifications /\ job[q].user = job[q].tok[1] /\ db[job[q].tok] # None
      BY <1>2 DEF VerifiesUser, RequestInv, VerifyInv
    <2>2. IsUser(job[q].user) /\ job[q].user \in Reqs
      BY <2>1, TokenIsOf DEF IInv, TokenRow
    <2>3. job[job[q].user].user = job[q].user BY <2>2, UserAt
    <2> QED BY <2>2, <2>3 DEF OthersKeep
  <1>6. /\ MakesUser(q)' = MakesUser(q) /\ MakesToken(q)' = MakesToken(q)
        /\ UsesToken(q)' = UsesToken(q) /\ VerifiesUser(q)' = VerifiesUser(q)
        /\ Links(q)' = Links(q)
    BY <1>1 DEF MakesUser, MakesToken, UsesToken, VerifiesUser, Links
  <1>7. \A o \in Rows : lock'[o] = q <=> Holds(q, o)'
    BY <1>1, <1>2, <1>3, <1>5, <1>6 DEF RequestInv, Holds
  <1>8. NewRows(q)'
    <2>1. MakesUser(q) => job[q].email \in Emails /\ lock[job[q].email] = q
      BY <1>2, Keys DEF RequestInv, NewRows, Holds
    <2>2. MakesToken(q) => lock[Verification(q)] = q /\ Verification(q) \in Rows
      BY <1>2, Keys, VerificationType DEF RequestInv, Holds
    <2> QED BY <1>1, <1>2, <1>4, <1>6, <2>1, <2>2, Keys DEF RequestInv, NewRows
  <1>9. SignupInv(q)' BY <1>1, <1>2 DEF RequestInv, SignupInv
  <1>10. VerifyInv(q)'
    <2> SUFFICES ASSUME job[q].op = "verify" PROVE VerifyInv(q)' BY <1>1 DEF VerifyInv
    <2>1. job[q].tok \in Verifications /\ job[q].tok \in Rows
      BY <1>2, Keys DEF RequestInv, VerifyInv
    <2>2. UsesToken(q) => lock[job[q].tok] = q BY <1>2, <2>1 DEF RequestInv, Holds
    <2>3. VerifiesUser(q) => LET e == job[job[q].user].email
                             IN e \in Emails /\ lock[e] = q
      BY <1>2, Keys DEF RequestInv, Holds, VerifyInv
    <2>4. (UsesToken(q) => work[job[q].tok] = [user |-> job[q].tok[1], used |-> TRUE])'
      BY <1>1, <1>2, <1>4, <1>6, <2>1, <2>2 DEF RequestInv, VerifyInv
    <2>5. (VerifiesUser(q) =>
             LET e == job[job[q].user].email
             IN /\ e \in Emails /\ db[e] # None /\ db[e].id = job[q].user
                /\ work[e] = VerifiedUser(db[e]))'
      BY <1>1, <1>2, <1>4, <1>5, <1>6, <2>3, Keys DEF RequestInv, VerifyInv
    <2>6. (pc[q] \in {"use", "mark_verified", "commit"} =>
             job[q].user = job[q].tok[1] /\ db[job[q].tok] # None)'
      BY <1>1, <1>2, <2>1 DEF RequestInv, VerifyInv, OthersKeep
    <2> QED BY <1>1, <1>2, <2>4, <2>5, <2>6 DEF RequestInv, VerifyInv
  <1>11. OAuthInv(q)'
    <2> SUFFICES ASSUME job[q].op = "oauth" PROVE OAuthInv(q)' BY <1>1 DEF OAuthInv
    <2>1. job[q].ident \in Identities /\ job[q].ident \in Rows
      BY <1>2, Keys DEF RequestInv, OAuthInv
    <2>2. Links(q) => lock[job[q].ident] = q BY <1>2, <2>1 DEF RequestInv, Holds
    <2>3. (Links(q) => \/ db[job[q].ident] = None /\ work[job[q].ident] = [user |-> job[q].user]
                       \/ /\ db[job[q].ident] # None /\ work[job[q].ident] = db[job[q].ident]
                          /\ job[q].user # q)'
      BY <1>1, <1>2, <1>4, <1>6, <2>1, <2>2 DEF RequestInv, OAuthInv
    <2>4. (pc[q] \in {"update", "link", "commit"} /\ job[q].user # q => IsUser(job[q].user))'
      BY <1>1, <1>2, UsersStay DEF RequestInv, OAuthInv
    <2>5. (pc[q] = "update" => job[q].user # q /\ db[job[q].ident] # None)'
      BY <1>1, <1>2, <2>1 DEF RequestInv, OAuthInv, OthersKeep
    <2> QED BY <1>1, <1>2, <2>3, <2>4, <2>5 DEF RequestInv, OAuthInv
  <1>12. (pc[q] = "done" /\ job[q].user = q =>
            job[q].email \in Emails /\ db[job[q].email] # None /\ db[job[q].email].id = q)'
    BY <1>1, <1>2, Keys DEF RequestInv, OthersKeep
  <1> QED BY <1>1, <1>2, <1>7, <1>8, <1>9, <1>10, <1>11, <1>12 DEF RequestInv

(***************************************************************************)
(* The four kinds of steps a request takes.                                 *)
(***************************************************************************)
StepOf(r, stage, j) ==
    /\ pc' = [pc EXCEPT ![r] = stage] /\ job' = [job EXCEPT ![r] = j]
    /\ j \in Job /\ stage \in StagesOf[j.op] \cup Ended \cup {"idle"}
    /\ job[r].user = r => j = job[r]
    /\ mailed' \subseteq Verifications
    /\ nonces' \in [Nonces -> Providers \cup {None}]

\* A step to another await with other arguments keeps the types and the other requests.
LEMMA StepTyped ==
  ASSUME TypeOK, NEW r \in Reqs, NEW stage, NEW j, StepOf(r, stage, j),
         StoreType(db)', StoreType(work)', lock' \in [Rows -> Reqs \cup {None}]
  PROVE  /\ TypeOK'
         /\ pc'[r] = stage /\ job'[r] = j
         /\ \A q \in Reqs \ {r} : pc'[q] = pc[q] /\ job'[q] = job[q]
         /\ job[r].user = r => job'[r] = job[r]
  <1>1. /\ pc'[r] = stage /\ job'[r] = j
        /\ \A q \in Reqs \ {r} : pc'[q] = pc[q] /\ job'[q] = job[q]
        /\ DOMAIN pc' = Reqs /\ job' \in [Reqs -> Job]
    BY DEF TypeOK, StepOf
  <1>2. \A q \in Reqs : pc'[q] \in StagesOf[job'[q].op] \cup Ended \cup {"idle"}
    BY <1>1 DEF TypeOK, StepOf
  <1> QED BY <1>1, <1>2 DEF TypeOK, StepOf

\* A user made by a request stays made by it.
LEMMA MadeStays ==
  ASSUME NEW r \in Reqs, NEW x, NEW e, MadeBy(x, e), x.id \in Reqs,
         \A q \in Reqs \ {r} : job'[q] = job[q],
         job[r].user = r => job'[r] = job[r]
  PROVE  MadeBy(x, e)'
  BY DEF MadeBy

\* A token issued by a signup stays issued by it.
LEMMA IssuedStays ==
  ASSUME NEW r \in Reqs, NEW v \in Verifications, IssuedBySignup(v),
         \A q \in Reqs \ {r} : job'[q] = job[q],
         job[r].user = r => job'[r] = job[r]
  PROVE  IssuedBySignup(v)'
  BY TokenIsOf DEF IssuedBySignup

\* A step that leaves the database alone keeps the invariant if its request does its share.
LEMMA LocalStep ==
  ASSUME IInv, NEW r \in Reqs, NEW stage, NEW j, StepOf(r, stage, j),
         UNCHANGED <<db, work, lock>>, RequestInv(r)'
  PROVE  IInv'
  <1>1. TypeOK BY DEF IInv
  <1>2. /\ TypeOK'
        /\ \A q \in Reqs \ {r} : pc'[q] = pc[q] /\ job'[q] = job[q]
        /\ job[r].user = r => job'[r] = job[r]
    BY <1>1, StepTyped DEF TypeOK, StoreType
  <1>3. OthersKeep(r) BY <1>1, <1>2 DEF OthersKeep, TypeOK
  <1>4. \A q \in Reqs : RequestInv(q)' BY <1>3, OthersInv
  <1>5. ASSUME NEW e \in Emails PROVE UserRow(e)'
    <2>1. UserRow(e) /\ db[e] \in User \cup {None} /\ work[e] \in User \cup {None}
      BY <1>1 DEF IInv, TypeOK, StoreType
    <2>2. /\ work[e] # None => MadeBy(work[e], e)'
          /\ db[e] # None => MadeBy(db[e], e)'
      BY <1>2, <2>1, MadeStays DEF UserRow, User
    <2> QED BY <2>1, <2>2 DEF UserRow
  <1>6. \A v \in Verifications : TokenRow(v)'
    BY <1>2, IssuedStays DEF IInv, TokenRow, IsUser
  <1>7. \A i \in Identities : AccountRow(i)' BY DEF IInv, AccountRow, IsUser
  <1>8. UnlockedSettled' BY DEF IInv, UnlockedSettled
  <1> QED BY <1>2, <1>4, <1>5, <1>6, <1>7, <1>8 DEF IInv

\* So does a statement that writes one row as the types and the maker of the row demand.
LEMMA WriteStep ==
  ASSUME IInv, NEW r \in Reqs, NEW stage, NEW j, StepOf(r, stage, j),
         NEW o \in Rows, NEW v, Write(r, o, v), v # None,
         o \in Emails => v \in User /\ MadeBy(v, o)',
         o \in Verifications =>
             v \in EmailVerification /\ v.user = o[1] /\ IssuedBySignup(o)',
         o \in Identities => v \in OAuthAccount,
         RequestInv(r)'
  PROVE  IInv'
  <1>1. TypeOK BY DEF IInv
  <1>2. /\ Free(r, o) /\ db' = db
        /\ lock' = [lock EXCEPT ![o] = r] /\ work' = [work EXCEPT ![o] = v]
        /\ \A x \in Rows : work'[x] = IF x = o THEN v ELSE work[x]
        /\ \A x \in Rows : lock'[x] = IF x = o THEN r ELSE lock[x]
    BY <1>1 DEF Write, TypeOK, StoreType
  <1>3. StoreType(db)' /\ StoreType(work)' /\ lock' \in [Rows -> Reqs \cup {None}]
    BY <1>1, <1>2, Keys DEF TypeOK, StoreType
  <1>4. /\ TypeOK'
        /\ \A q \in Reqs \ {r} : pc'[q] = pc[q] /\ job'[q] = job[q]
        /\ job[r].user = r => job'[r] = job[r]
    BY <1>1, <1>3, StepTyped
  <1>5. OthersKeep(r) BY <1>1, <1>2, <1>4 DEF OthersKeep, TypeOK, Free
  <1>6. \A q \in Reqs : RequestInv(q)' BY <1>5, OthersInv
  <1>7. ASSUME NEW e \in Emails PROVE UserRow(e)'
    <2>1. UserRow(e) /\ db[e] \in User \cup {None} /\ work[e] \in User \cup {None}
      BY <1>1 DEF IInv, TypeOK, StoreType
    <2>2. \A x \in User : MadeBy(x, e) => MadeBy(x, e)'
      BY <1>4, MadeStays DEF User
    <2>3. work'[e] = IF e = o THEN v ELSE work[e] BY <1>2, Keys
    <2>4. (work[e] # None => MadeBy(work[e], e))'
      BY <2>1, <2>2, <2>3 DEF MadeBy, UserRow
    <2>5. (db[e] # None => MadeBy(db[e], e))' BY <1>2, <2>1, <2>2 DEF MadeBy, UserRow
    <2> QED BY <1>2, <2>1, <2>4, <2>5 DEF UserRow
  <1>8. ASSUME NEW x \in Verifications PROVE TokenRow(x)'
    <2>1. work'[x] = IF x = o THEN v ELSE work[x] BY <1>2, Keys
    <2>2. TokenRow(x) BY DEF IInv
    <2>3. work'[x] # None \/ db'[x] # None => IssuedBySignup(x)'
      BY <1>2, <1>4, <2>1, <2>2, IssuedStays DEF TokenRow
    <2> QED BY <1>2, <2>1, <2>2, <2>3 DEF TokenRow, IsUser
  <1>9. \A i \in Identities : AccountRow(i)' BY <1>2 DEF IInv, AccountRow, IsUser
  <1>10. UnlockedSettled' BY <1>2, NoneIsNoRequest DEF IInv, UnlockedSettled
  <1> QED BY <1>4, <1>6, <1>7, <1>8, <1>9, <1>10 DEF IInv

\* A request that ends without its rows.
LEMMA RollbackStep ==
  ASSUME IInv, NEW r \in Reqs, NEW stage \in {"failed", "lost"}, Rollback(r),
         pc[r] # "idle", pc' = [pc EXCEPT ![r] = stage], UNCHANGED <<job, mailed, nonces>>
  PROVE  IInv'
  <1>1. TypeOK /\ RequestInv(r) BY DEF IInv
  <1>2. /\ db' = db
        /\ work' = [x \in Rows |-> IF lock[x] = r THEN db[x] ELSE work[x]]
        /\ lock' = [x \in Rows |-> IF lock[x] = r THEN None ELSE lock[x]]
    BY DEF Rollback, Released
  <1>3. StoreType(db)' /\ StoreType(work)' /\ lock' \in [Rows -> Reqs \cup {None}]
    BY <1>1, <1>2, Keys DEF TypeOK, StoreType
  <1>4. StepOf(r, stage, job[r]) BY <1>1 DEF StepOf, TypeOK, Ended
  <1>5. /\ TypeOK' /\ pc'[r] = stage /\ job' = job
        /\ \A q \in Reqs \ {r} : pc'[q] = pc[q]
    BY <1>1, <1>3, <1>4, StepTyped
  <1>6. OthersKeep(r) BY <1>1, <1>2, <1>5, NoneIsNoRequest DEF OthersKeep, TypeOK
  <1>7. RequestInv(r)'
    <2>1. \A o \in Rows : ~Holds(r, o)' /\ lock'[o] # r
      BY <1>2, <1>5, NoneIsNoRequest
         DEF Holds, MakesUser, MakesToken, UsesToken, VerifiesUser, Links
    <2>2. (NewRows(r) /\ SignupInv(r) /\ VerifyInv(r) /\ OAuthInv(r))'
      BY <1>1, <1>5 DEF RequestInv, NewRows, SignupInv, VerifyInv, OAuthInv, MakesUser,
                        MakesToken, UsesToken, VerifiesUser, Links
    <2> QED BY <1>5, <2>1, <2>2 DEF RequestInv, FreshStages
  <1>8. \A q \in Reqs : RequestInv(q)' BY <1>6, <1>7, OthersInv
  <1>9. ASSUME NEW e \in Emails PROVE UserRow(e)'
    <2>1. UserRow(e) /\ work'[e] \in {work[e], db[e]} BY <1>2, Keys DEF IInv
    <2> QED BY <1>2, <1>5, <2>1 DEF UserRow, MadeBy
  <1>10. ASSUME NEW x \in Verifications PROVE TokenRow(x)'
    <2>1. TokenRow(x) /\ work'[x] \in {work[x], db[x]} BY <1>2, Keys DEF IInv
    <2> QED BY <1>2, <1>5, <2>1 DEF TokenRow, IssuedBySignup, IsUser
  <1>11. \A i \in Identities : AccountRow(i)' BY <1>2 DEF IInv, AccountRow, IsUser
  <1>12. UnlockedSettled' BY <1>2 DEF IInv, UnlockedSettled
  <1> QED BY <1>5, <1>8, <1>9, <1>10, <1>11, <1>12 DEF IInv

(***************************************************************************)
(* The commit of a request: what it publishes is whole.                     *)
(***************************************************************************)
\* The rows of each kind a request holds.
LEMMA HeldRows ==
  ASSUME IInv, NEW r \in Reqs
  PROVE  /\ \A e \in Emails : lock[e] = r <=>
               \/ MakesUser(r) /\ e = job[r].email
               \/ VerifiesUser(r) /\ e = job[job[r].user].email
         /\ \A v \in Verifications : lock[v] = r <=>
               \/ MakesToken(r) /\ v = Verification(r)
               \/ UsesToken(r) /\ v = job[r].tok
         /\ \A i \in Identities : lock[i] = r <=> Links(r) /\ i = job[r].ident
  <1>1. RequestInv(r) BY DEF IInv
  <1>2. /\ MakesUser(r) => job[r].email \in Emails
        /\ UsesToken(r) => job[r].tok \in Verifications
        /\ VerifiesUser(r) => job[job[r].user].email \in Emails
        /\ Links(r) => job[r].ident \in Identities
        /\ Verification(r) \in Verifications
    BY <1>1, VerificationType
       DEF RequestInv, NewRows, VerifyInv, OAuthInv, UsesToken, VerifiesUser, Links
  <1>3. \A o \in Rows : lock[o] = r <=> Holds(r, o) BY <1>1 DEF RequestInv
  <1>4. \A e \in Emails : e \in Rows /\ e \notin Verifications /\ e \notin Identities
    BY Keys
  <1>5. \A v \in Verifications : v \in Rows /\ v \notin Identities BY Keys
  <1>6. \A i \in Identities : i \in Rows BY Keys
  <1> QED BY <1>2, <1>3, <1>4, <1>5, <1>6 DEF Holds

\* The row of a user that is being made.
LEMMA MadeRow ==
  ASSUME NEW r \in Reqs, NewRows(r), MakesUser(r)
  PROVE  work[job[r].email] \in User /\ work[job[r].email] # None
  <1> DEFINE local == job[r].op = "signup"
             verified == job[r].op = "oauth" /\ pc[r] \in {"link", "commit"}
  <1>1. work[job[r].email] = [id |-> r, local |-> local, verified |-> verified]
    BY DEF NewRows
  <1>2. local \in BOOLEAN /\ verified \in BOOLEAN OBVIOUS
  <1> HIDE DEF local, verified
  <1>3. work[job[r].email] \in User BY <1>1, <1>2 DEF User
  <1> QED BY <1>3, NoneIsNoRow

\* A commit changes no committed user but to verify it.
LEMMA UsersPublished ==
  ASSUME IInv, NEW r \in Reqs, pc[r] = "commit", NEW e \in Emails, db[e] # None, lock[e] = r
  PROVE  work[e] = VerifiedUser(db[e]) /\ UsesToken(r) /\ job[r].tok = Verification(db[e].id)
  <1>1. RequestInv(r) /\ UserRow(e) BY DEF IInv
  <1>2. ~(MakesUser(r) /\ e = job[r].email) BY <1>1 DEF RequestInv, NewRows
  <1>3. VerifiesUser(r) /\ e = job[job[r].user].email BY <1>2, HeldRows
  <1>4. /\ work[e] = VerifiedUser(db[e]) /\ db[e].id = job[r].user
        /\ job[r].tok \in Verifications /\ job[r].user = job[r].tok[1]
    BY <1>1, <1>3 DEF RequestInv, VerifyInv, VerifiesUser
  <1> QED BY <1>3, <1>4, TokenIsOf DEF VerifiesUser, UsesToken

\* A commit publishes rows of the three kinds that the invariant allows.
LEMMA CommitRows ==
  ASSUME IInv, NEW r \in Reqs, pc[r] = "commit", Commit(r), UNCHANGED job
  PROVE  /\ \A e \in Emails : UserRow(e)'
         /\ \A v \in Verifications : TokenRow(v)'
         /\ \A i \in Identities : AccountRow(i)'
  <1>1. TypeOK /\ RequestInv(r) BY DEF IInv
  <1>2. work' = work /\ \A x \in Rows : db'[x] = IF lock[x] = r THEN work[x] ELSE db[x]
    BY DEF Commit
  <1>3. ASSUME NEW id, IsUser(id) PROVE IsUser(id)'
    <2>1. PICK e \in Emails : db[e] # None /\ db[e].id = id BY <1>3 DEF IsUser
    <2>2. CASE lock[e] = r
      <3>1. db'[e] = VerifiedUser(db[e]) BY <1>2, <2>1, <2>2, UsersPublished, Keys
      <3>2. db[e] \in User BY <1>1, <2>1 DEF TypeOK, StoreType
      <3>3. VerifiedUser(db[e]) \in User /\ VerifiedUser(db[e]).id = id
        BY <2>1, <3>2 DEF VerifiedUser, User
      <3>4. db'[e].id = id /\ db'[e] # None BY <3>1, <3>3, AccountsAssumption
      <3> QED BY <3>4 DEF IsUser
    <2>3. CASE lock[e] # r BY <1>2, <2>1, <2>3, Keys DEF IsUser
    <2> QED BY <2>2, <2>3
  <1>4. MakesUser(r) => /\ db'[job[r].email] = work[job[r].email]
                        /\ db'[job[r].email] # None /\ db'[job[r].email].id = r
                        /\ IsUser(r)'
    <2> SUFFICES ASSUME MakesUser(r)
                 PROVE  /\ db'[job[r].email] = work[job[r].email]
                        /\ db'[job[r].email] # None /\ db'[job[r].email].id = r
                        /\ IsUser(r)'
      OBVIOUS
    <2>1. job[r].email \in Emails /\ lock[job[r].email] = r
      BY <1>1, HeldRows DEF RequestInv, NewRows
    <2>2. db'[job[r].email] = work[job[r].email] BY <1>2, <2>1, Keys
    <2>3. work[job[r].email] \in User /\ work[job[r].email].id = r
      BY <1>1, MadeRow DEF RequestInv, NewRows
    <2> QED BY <2>1, <2>2, <2>3, NoneIsNoRow DEF IsUser
  <1>5. ASSUME NEW e \in Emails PROVE UserRow(e)'
    <2>1. UserRow(e) BY DEF IInv
    <2>2. (work[e] # None => MadeBy(work[e], e))' BY <1>2, <2>1 DEF UserRow, MadeBy
    <2>3. (db[e] # None => MadeBy(db[e], e))'
      BY <1>2, <2>1, Keys DEF UserRow, MadeBy
    <2>4. ASSUME db'[e] # None, db'[e].local
          PROVE  /\ db'[Verification(db'[e].id)] # None
                 /\ db'[e].verified <=> db'[Verification(db'[e].id)].used
      <3>1. CASE lock[e] = r /\ db[e] # None
        <4>1. work[e] = VerifiedUser(db[e]) /\ UsesToken(r)
              /\ job[r].tok = Verification(db[e].id)
          BY <1>1, <3>1, UsersPublished DEF RequestInv
        <4>2. db'[e] = VerifiedUser(db[e]) BY <1>2, <3>1, <4>1, Keys
        <4>3. db'[e].id = db[e].id /\ db'[e].verified = TRUE BY <4>2 DEF VerifiedUser
        <4>4. job[r].tok \in Verifications /\ lock[job[r].tok] = r
          BY <1>1, <4>1, HeldRows DEF RequestInv, VerifyInv, UsesToken
        <4>5. db'[job[r].tok] = [user |-> job[r].tok[1], used |-> TRUE]
          BY <1>1, <1>2, <4>1, <4>4, Keys DEF RequestInv, VerifyInv, UsesToken
        <4>6. [user |-> job[r].tok[1], used |-> TRUE] \in EmailVerification
          BY <4>4, TokenIsOf DEF EmailVerification
        <4>7. db'[job[r].tok] # None BY <4>5, <4>6, NoneIsNoRow
        <4>8. db'[e].verified /\ db'[job[r].tok].used BY <4>3, <4>5
        <4>9. Verification(db'[e].id) = job[r].tok BY <4>1, <4>3
        <4> QED BY <4>7, <4>8, <4>9
      <3>2. CASE lock[e] = r /\ db[e] = None
        <4>1. MakesUser(r) /\ e = job[r].email
          BY <1>1, <3>2, HeldRows DEF RequestInv, VerifyInv, VerifiesUser
        <4>2. db'[e] = work[e] BY <1>4, <4>1
        <4>3. db'[e].id = r /\ (db'[e].local <=> job[r].op = "signup")
              /\ (job[r].op = "signup" => ~db'[e].verified)
          <5> DEFINE local == job[r].op = "signup"
                     verified == job[r].op = "oauth" /\ pc[r] \in {"link", "commit"}
          <5>1. work[e] = [id |-> r, local |-> local, verified |-> verified]
            BY <1>1, <4>1 DEF RequestInv, NewRows
          <5>2. local \in BOOLEAN /\ (local => ~verified) OBVIOUS
          <5> HIDE DEF local, verified
          <5>3. db'[e].id = r /\ (db'[e].local <=> local) /\ (local => ~db'[e].verified)
            BY <4>2, <5>1, <5>2
          <5> QED BY <5>3 DEF local
        <4>4. MakesToken(r) BY <2>4, <4>3 DEF MakesToken
        <4>5. Verification(r) \in Verifications /\ lock[Verification(r)] = r
          BY <4>4, HeldRows, VerificationType
        <4>6. db'[Verification(r)] = [user |-> r, used |-> FALSE]
          BY <1>1, <1>2, <4>4, <4>5, Keys DEF RequestInv, NewRows
        <4>7. [user |-> r, used |-> FALSE] \in EmailVerification BY DEF EmailVerification
        <4>8. db'[Verification(r)] # None BY <4>6, <4>7, NoneIsNoRow
        <4>9. ~db'[e].verified /\ ~db'[Verification(r)].used
          BY <4>3, <4>4, <4>6 DEF MakesToken
        <4>10. Verification(db'[e].id) = Verification(r) BY <4>3
        <4> QED BY <4>8, <4>9, <4>10
      <3>3. CASE lock[e] # r
        <4>1. db'[e] = db[e] BY <1>2, <3>3, Keys
        <4> DEFINE id == db[e].id
        <4>2. /\ db[Verification(id)] # None
              /\ db[e].verified <=> db[Verification(id)].used
          BY <2>1, <2>4, <4>1 DEF UserRow
        <4>3. id \in Reqs /\ job[id].email = e /\ job[id].user = id /\ job[id].op = "signup"
          BY <1>1, <2>1, <2>4, <4>1 DEF UserRow, MadeBy, TypeOK, StoreType, User
        <4>4. Verification(id) \in Verifications /\ Verification(id)[1] = id
          BY <4>3, VerificationType
        <4>5. lock[Verification(id)] # r
          <5>1. ~(MakesToken(r) /\ Verification(id) = Verification(r))
            <6> SUFFICES ASSUME MakesToken(r), Verification(id) = Verification(r) PROVE FALSE
              OBVIOUS
            <6>1. id = r BY <4>4, VerificationType
            <6>2. MakesUser(r) BY <1>1, <4>3, <6>1 DEF MakesUser, MakesToken
            <6> QED BY <1>1, <3>3, <4>3, <6>1, <6>2, HeldRows
          <5>2. ~(UsesToken(r) /\ Verification(id) = job[r].tok)
            <6> SUFFICES ASSUME UsesToken(r), Verification(id) = job[r].tok PROVE FALSE
              OBVIOUS
            <6>1. VerifiesUser(r) BY <1>1 DEF UsesToken, VerifiesUser
            <6>2. job[r].user = id BY <1>1, <4>4 DEF RequestInv, VerifyInv, UsesToken
            <6> QED BY <3>3, <4>3, <6>1, <6>2, HeldRows
          <5> QED BY <4>4, <5>1, <5>2, HeldRows
        <4>6. db'[Verification(id)] = db[Verification(id)] BY <1>2, <4>4, <4>5, Keys
        <4> QED BY <4>1, <4>2, <4>6
      <3> QED BY <3>1, <3>2, <3>3
    <2> QED BY <2>2, <2>3, <2>4 DEF UserRow
  <1>6. ASSUME NEW v \in Verifications PROVE TokenRow(v)'
    <2>1. TokenRow(v) BY DEF IInv
    <2>2. /\ (work[v] # None => work[v].user = v[1])'
          /\ (work[v] # None \/ db[v] # None => IssuedBySignup(v))'
      BY <1>2, <2>1, Keys DEF TokenRow, IssuedBySignup
    <2>3. CASE lock[v] # r
      <3>1. db'[v] = db[v] BY <1>2, <2>3, Keys
      <3> QED BY <1>3, <2>1, <2>2, <3>1 DEF TokenRow
    <2>4. CASE lock[v] = r
      <3>1. db'[v] = work[v] BY <1>2, <2>4, Keys
      <3>2. IsUser(v[1])'
        <4>1. CASE MakesToken(r) /\ v = Verification(r)
          <5>1. MakesUser(r)
            BY <1>1, <4>1 DEF RequestInv, SignupInv, MakesToken, MakesUser
          <5> QED BY <1>4, <4>1, <5>1, VerificationType
        <4>2. CASE UsesToken(r) /\ v = job[r].tok
          <5>1. db[v] # None BY <1>1, <4>2 DEF RequestInv, VerifyInv, UsesToken
          <5> QED BY <1>3, <2>1, <5>1 DEF TokenRow
        <4> QED BY <2>4, <4>1, <4>2, HeldRows
      <3> QED BY <2>1, <2>2, <3>1, <3>2 DEF TokenRow
    <2> QED BY <2>3, <2>4
  <1>7. ASSUME NEW i \in Identities PROVE AccountRow(i)'
    <2>1. AccountRow(i) BY DEF IInv
    <2>2. CASE lock[i] # r
      <3>1. db'[i] = db[i] BY <1>2, <2>2, Keys
      <3> QED BY <1>3, <2>1, <3>1 DEF AccountRow
    <2>3. CASE lock[i] = r
      <3>1. db'[i] = work[i] BY <1>2, <2>3, Keys
      <3>2. Links(r) /\ i = job[r].ident BY <2>3, HeldRows
      <3>3. job[r].user = r => IsUser(r)' BY <1>4, <3>2 DEF Links, MakesUser
      <3>4. job[r].user # r => IsUser(job[r].user)'
        BY <1>1, <1>3, <3>2 DEF RequestInv, OAuthInv, Links
      <3>5. CASE db[i] = None /\ work[i] = [user |-> job[r].user]
        BY <3>1, <3>3, <3>4, <3>5 DEF AccountRow
      <3>6. CASE db[i] # None /\ work[i] = db[i]
        BY <1>3, <2>1, <3>1, <3>6 DEF AccountRow
      <3> QED BY <1>1, <3>2, <3>5, <3>6 DEF RequestInv, OAuthInv, Links
    <2> QED BY <2>2, <2>3
  <1> QED BY <1>5, <1>6, <1>7

\* A commit keeps the invariant; users change by being verified, accounts do not change.
LEMMA CommitStep ==
  ASSUME IInv, NEW r \in Reqs, CommitTransaction(r)
  PROVE  /\ IInv'
         /\ \A e \in Emails : db[e] # None =>
                db'[e] # None /\ (db'[e] = db[e] \/ db'[e] = VerifiedUser(db[e]))
         /\ \A i \in Identities : db[i] # None => db'[i] = db[i]
  <1>1. TypeOK /\ RequestInv(r) BY DEF IInv
  <1>2. /\ pc[r] = "commit" /\ Commit(r) /\ pc' = [pc EXCEPT ![r] = "done"]
        /\ UNCHANGED <<job, mailed, nonces>>
    BY DEF CommitTransaction, Goto, Rest
  <1>3. /\ work' = work
        /\ db' = [x \in Rows |-> IF lock[x] = r THEN work[x] ELSE db[x]]
        /\ lock' = [x \in Rows |-> IF lock[x] = r THEN None ELSE lock[x]]
    BY <1>2 DEF Commit, Released
  <1>4. StoreType(db)' /\ StoreType(work)' /\ lock' \in [Rows -> Reqs \cup {None}]
    BY <1>1, <1>3, Keys DEF TypeOK, StoreType
  <1>5. StepOf(r, "done", job[r]) BY <1>1, <1>2 DEF StepOf, TypeOK, Ended
  <1>6. TypeOK' /\ pc'[r] = "done" /\ job' = job /\ \A q \in Reqs \ {r} : pc'[q] = pc[q]
    BY <1>1, <1>2, <1>4, <1>5, StepTyped
  <1>7. \A e \in Emails : db[e] # None =>
          /\ db'[e] # None /\ db'[e].id = db[e].id
          /\ db'[e] = db[e] \/ db'[e] = VerifiedUser(db[e])
    <2> SUFFICES ASSUME NEW e \in Emails, db[e] # None
                 PROVE  /\ db'[e] # None /\ db'[e].id = db[e].id
                        /\ db'[e] = db[e] \/ db'[e] = VerifiedUser(db[e])
      OBVIOUS
    <2>1. CASE lock[e] = r
      <3>1. db'[e] = VerifiedUser(db[e]) BY <1>2, <1>3, <2>1, UsersPublished, Keys
      <3>2. db[e] \in User BY <1>1 DEF TypeOK, StoreType
      <3>3. VerifiedUser(db[e]) \in User /\ VerifiedUser(db[e]).id = db[e].id
        BY <3>2 DEF VerifiedUser, User
      <3> QED BY <3>1, <3>3, NoneIsNoRow
    <2>2. CASE lock[e] # r BY <1>3, <2>2, Keys
    <2> QED BY <2>1, <2>2
  <1>8. \A i \in Identities : db[i] # None => db'[i] = db[i]
    <2> SUFFICES ASSUME NEW i \in Identities, db[i] # None PROVE db'[i] = db[i]
      OBVIOUS
    <2>1. CASE lock[i] = r
      <3>1. Links(r) /\ i = job[r].ident BY <1>2, <2>1, HeldRows
      <3>2. work[i] = db[i] BY <1>1, <3>1 DEF RequestInv, OAuthInv, Links
      <3> QED BY <1>3, <2>1, <3>2, Keys
    <2>2. CASE lock[i] # r BY <1>3, <2>2, Keys
    <2> QED BY <2>1, <2>2
  <1>9. \A v \in Verifications : db[v] # None => db'[v] # None
    <2> SUFFICES ASSUME NEW v \in Verifications, db[v] # None PROVE db'[v] # None
      OBVIOUS
    <2>1. CASE lock[v] = r
      <3>1. db'[v] = work[v] BY <1>3, <2>1, Keys
      <3>2. CASE MakesToken(r) /\ v = Verification(r)
        <4>1. [user |-> r, used |-> FALSE] \in EmailVerification BY DEF EmailVerification
        <4> QED BY <1>1, <3>1, <3>2, <4>1, NoneIsNoRow DEF RequestInv, NewRows
      <3>3. CASE UsesToken(r) /\ v = job[r].tok
        <4>1. [user |-> v[1], used |-> TRUE] \in EmailVerification
          BY TokenIsOf DEF EmailVerification
        <4> QED BY <1>1, <3>1, <3>3, <4>1, NoneIsNoRow DEF RequestInv, VerifyInv, UsesToken
      <3> QED BY <1>2, <2>1, <3>2, <3>3, HeldRows
    <2>2. CASE lock[v] # r BY <1>3, <2>2, Keys
    <2> QED BY <2>1, <2>2
  <1>10. OthersKeep(r)
    <2>1. \A x \in Rows : db[x] # None => db'[x] # None BY <1>7, <1>8, <1>9, Keys
    <2> QED BY <1>1, <1>3, <1>6, <1>7, <2>1, NoneIsNoRequest DEF OthersKeep, TypeOK
  <1>11. RequestInv(r)'
    <2>1. \A o \in Rows : ~Holds(r, o)' /\ lock'[o] # r
      BY <1>3, <1>6, NoneIsNoRequest
         DEF Holds, MakesUser, MakesToken, UsesToken, VerifiesUser, Links
    <2>2. (NewRows(r) /\ SignupInv(r) /\ VerifyInv(r) /\ OAuthInv(r))'
      BY <1>1, <1>2, <1>6 DEF RequestInv, NewRows, SignupInv, VerifyInv, OAuthInv, MakesUser,
                        MakesToken, UsesToken, VerifiesUser, Links
    <2>3. job[r].user = r =>
            job[r].email \in Emails /\ db'[job[r].email] # None /\ db'[job[r].email].id = r
      <3> SUFFICES ASSUME job[r].user = r
                   PROVE  /\ job[r].email \in Emails
                          /\ db'[job[r].email] # None /\ db'[job[r].email].id = r
        OBVIOUS
      <3>1. MakesUser(r) BY <1>1, <1>2 DEF RequestInv, VerifyInv, MakesUser, TypeOK, Job
      <3>2. job[r].email \in Emails /\ lock[job[r].email] = r
        BY <1>1, <1>2, <3>1, HeldRows DEF RequestInv, NewRows
      <3>3. db'[job[r].email] = work[job[r].email] BY <1>3, <3>2, Keys
      <3>4. work[job[r].email].id = r BY <1>1, <3>1 DEF RequestInv, NewRows
      <3>5. work[job[r].email] # None BY <1>1, <3>1, MadeRow DEF RequestInv
      <3> QED BY <3>2, <3>3, <3>4, <3>5
    <2> QED BY <1>6, <2>1, <2>2, <2>3 DEF RequestInv, FreshStages
  <1>12. \A q \in Reqs : RequestInv(q)' BY <1>10, <1>11, OthersInv
  <1>13. UnlockedSettled' BY <1>3 DEF IInv, UnlockedSettled
  <1>14. /\ \A e \in Emails : UserRow(e)'
         /\ \A v \in Verifications : TokenRow(v)'
         /\ \A i \in Identities : AccountRow(i)'
    BY <1>2, CommitRows
  <1> QED BY <1>6, <1>7, <1>8, <1>12, <1>13, <1>14 DEF IInv

(***************************************************************************)
(* The initial states, and one lemma per action.                            *)
(***************************************************************************)
LEMMA BlankType ==
  /\ Blank \in Job
  /\ Blank.op = "signup" /\ Blank.user = None /\ Blank.tok = None /\ Blank.email = None
  BY DEF Blank, Job

\* The awaits of each operation, spelled out for the provers.
LEMMA Stages ==
  /\ StagesOf["signup"] = {"existing", "create_user", "verification", "mail", "commit"}
  /\ StagesOf["verify"] = {"read", "use", "mark_verified", "commit"}
  /\ StagesOf["oauth"] = {"state", "consume", "exchange", "update", "user", "create_user",
                          "mark_verified", "link", "commit"}
  BY DEF StagesOf

\* The empty database satisfies the invariant.
LEMMA InitInv == Init => IInv
  <1> SUFFICES ASSUME Init PROVE IInv OBVIOUS
  <1>1. TypeOK
    BY Keys, BlankType DEF Init, TypeOK, StoreType
  <1>2. \A o \in Rows : db[o] = None /\ work[o] = None /\ lock[o] = None BY DEF Init
  <1>3. \A r \in Reqs : RequestInv(r)
    BY <1>2, BlankType, NoneIsNoRequest
       DEF Init, RequestInv, Holds, MakesUser, MakesToken, UsesToken, VerifiesUser, Links,
           NewRows, SignupInv, VerifyInv, OAuthInv
  <1> QED BY <1>1, <1>2, <1>3, Keys DEF IInv, UserRow, TokenRow, AccountRow, UnlockedSettled

\* A failure is a rollback.
LEMMA FailInv ==
  ASSUME IInv, NEW r \in Reqs, Fail(r), pc[r] # "idle"
  PROVE  IInv'
  BY RollbackStep DEF Fail, Goto, Rest

\* What a handler must know when it goes on to an await before which it has
\* written nothing.
KnownEnough(r, stage, j) ==
    /\ stage \in FreshStages => j.user = None
    /\ j.op = "signup" => j.email \in Emails
    /\ j.op = "verify" =>
        /\ j.tok \in Verifications /\ j.user # r
        /\ stage = "use" => j.user = j.tok[1] /\ db[j.tok] # None
    /\ j.op = "oauth" =>
        /\ j.ident \in Identities /\ j.nonce \in Nonces
        /\ stage \in {"user", "create_user", "link"} => j.email \in Emails
        /\ stage = "update" => db[j.ident] # None
        /\ stage \in {"update", "link"} => j.user # r /\ IsUser(j.user)

\* A request that has written nothing goes on and knows enough for its next await.
LEMMA FreshStep ==
  ASSUME IInv, NEW r \in Reqs, pc[r] \in FreshStages,
         NEW stage \in (FreshStages \cup {"use", "update", "link"}) \ {"idle"},
         NEW j \in Job, stage \in StagesOf[j.op], KnownEnough(r, stage, j),
         pc' = [pc EXCEPT ![r] = stage], job' = [job EXCEPT ![r] = j],
         UNCHANGED <<db, work, lock>>, mailed' \subseteq Verifications,
         nonces' \in [Nonces -> Providers \cup {None}]
  PROVE  IInv'
  <1>1. TypeOK /\ RequestInv(r) BY DEF IInv
  <1>2. StepOf(r, stage, j) BY <1>1, NoneIsNoRequest DEF StepOf, RequestInv
  <1>3. pc'[r] = stage /\ job'[r] = j BY <1>1, <1>2, StepTyped DEF TypeOK, StoreType
  <1>4. \A o \in Rows : lock[o] # r BY <1>1, HoldsNothing DEF RequestInv
  <1>5. stage = "link" => j.op = "oauth" BY Stages, JobType
  <1>6. j.user # r \/ stage \in {"use"} BY <1>5, NoneIsNoRequest, Stages, JobType DEF KnownEnough
  <1>7. stage \notin {"verification", "mail", "mark_verified", "commit"} BY DEF FreshStages
  <1>8. /\ ~MakesUser(r)' /\ ~MakesToken(r)' /\ ~UsesToken(r)' /\ ~VerifiesUser(r)'
        /\ ~Links(r)'
    BY <1>3, <1>6, <1>7 DEF MakesUser, MakesToken, UsesToken, VerifiesUser, Links
  <1>9. \A o \in Rows : ~Holds(r, o)' BY <1>8 DEF Holds
  <1>10. (NewRows(r) /\ SignupInv(r) /\ VerifyInv(r))'
    BY <1>3, <1>7, <1>8 DEF NewRows, SignupInv, VerifyInv, KnownEnough
  <1>11. OAuthInv(r)'
    BY <1>3, <1>7, <1>8 DEF OAuthInv, KnownEnough, IsUser
  <1>12. stage # "done" BY Stages, JobType DEF FreshStages
  <1>13. RequestInv(r)'
    BY <1>3, <1>4, <1>9, <1>10, <1>11, <1>12 DEF RequestInv, KnownEnough
  <1> QED BY <1>2, <1>13, LocalStep

\* POST /signup starts with the lookup of the address.
LEMMA StartSignupInv ==
  ASSUME IInv, NEW r \in Reqs, StartSignup(r)
  PROVE  IInv'
  <1>1. PICK e \in Emails \ {NoEmail} :
          Begin(r, [Blank EXCEPT !.op = "signup", !.email = e], "existing")
    BY DEF StartSignup
  <1> DEFINE j == [Blank EXCEPT !.op = "signup", !.email = e]
  <1>2. j \in Job /\ j.op = "signup" /\ j.email = e /\ j.user = None BY DEF Blank, Job
  <1> HIDE DEF j
  <1>3. /\ pc[r] = "idle" /\ pc' = [pc EXCEPT ![r] = "existing"]
        /\ job' = [job EXCEPT ![r] = j] /\ UNCHANGED <<db, work, lock, mailed, nonces>>
    BY <1>1 DEF Begin, Goto, j
  <1>4. KnownEnough(r, "existing", j) BY <1>2 DEF KnownEnough
  <1> QED BY <1>2, <1>3, <1>4, Stages, FreshStep DEF FreshStages, IInv, TypeOK

\* POST /verify-email starts with a token that was mailed.
LEMMA StartVerifyInv ==
  ASSUME IInv, NEW r \in Reqs, StartVerify(r)
  PROVE  IInv'
  <1>1. PICK v \in mailed : Begin(r, [Blank EXCEPT !.op = "verify", !.tok = v], "read")
    BY DEF StartVerify
  <1> DEFINE j == [Blank EXCEPT !.op = "verify", !.tok = v]
  <1>2. v \in Verifications BY DEF IInv, TypeOK
  <1>3. j \in Job /\ j.op = "verify" /\ j.tok = v /\ j.user = None BY <1>2 DEF Blank, Job
  <1> HIDE DEF j
  <1>4. /\ pc[r] = "idle" /\ pc' = [pc EXCEPT ![r] = "read"]
        /\ job' = [job EXCEPT ![r] = j] /\ UNCHANGED <<db, work, lock, mailed, nonces>>
    BY <1>1 DEF Begin, Goto, j
  <1>5. KnownEnough(r, "read", j) BY <1>2, <1>3, NoneIsNoRequest DEF KnownEnough
  <1> QED BY <1>3, <1>4, <1>5, Stages, FreshStep DEF FreshStages, IInv, TypeOK

\* GET /oauth/{provider}/callback starts with a state.
LEMMA StartCallbackInv ==
  ASSUME IInv, NEW r \in Reqs, StartCallback(r)
  PROVE  IInv'
  <1>1. PICK n \in Nonces, i \in Identities :
          Begin(r, [Blank EXCEPT !.op = "oauth", !.ident = i, !.nonce = n], "state")
    BY DEF StartCallback
  <1> DEFINE j == [Blank EXCEPT !.op = "oauth", !.ident = i, !.nonce = n]
  <1>2. j \in Job /\ j.op = "oauth" /\ j.ident = i /\ j.nonce = n /\ j.user = None
    BY DEF Blank, Job
  <1> HIDE DEF j
  <1>3. /\ pc[r] = "idle" /\ pc' = [pc EXCEPT ![r] = "state"]
        /\ job' = [job EXCEPT ![r] = j] /\ UNCHANGED <<db, work, lock, mailed, nonces>>
    BY <1>1 DEF Begin, Goto, j
  <1>4. KnownEnough(r, "state", j) BY <1>2 DEF KnownEnough
  <1> QED BY <1>2, <1>3, <1>4, Stages, FreshStep DEF FreshStages, IInv, TypeOK

\* A step after which the handler knows what it knew.
LEMMA SameJobStep ==
  ASSUME IInv, NEW r \in Reqs, pc[r] \in FreshStages \ {"idle"},
         NEW stage \in FreshStages \ {"idle", "user"}, stage \in StagesOf[job[r].op],
         stage = "create_user" => job[r].op = "signup",
         pc' = [pc EXCEPT ![r] = stage], UNCHANGED <<db, work, lock, job, mailed>>,
         nonces' \in [Nonces -> Providers \cup {None}]
  PROVE  IInv'
  <1>1. TypeOK /\ RequestInv(r) BY DEF IInv
  <1>2. job[r] \in Job /\ job' = [job EXCEPT ![r] = job[r]] BY <1>1 DEF TypeOK
  <1>3. stage \notin {"use", "update", "link"} BY DEF FreshStages
  <1>4. KnownEnough(r, stage, job[r])
    BY <1>1, <1>3 DEF KnownEnough, RequestInv, SignupInv, VerifyInv, OAuthInv
  <1>5. mailed' \subseteq Verifications BY <1>1 DEF TypeOK
  <1> QED BY <1>2, <1>4, <1>5, FreshStep

\* An address that is not taken leads to the INSERT of the user.
LEMMA SignupExistingInv ==
  ASSUME IInv, NEW r \in Reqs, SignupExisting(r)
  PROVE  IInv'
  <1>1. pc[r] = "existing" /\ job[r].op = "signup" BY DEF SignupExisting, At
  <1>2. CASE Fail(r) BY <1>1, <1>2, FailInv
  <1>3. CASE ~Fail(r)
    <2>1. pc' = [pc EXCEPT ![r] = "create_user"] /\ UNCHANGED <<db, work, lock, job, mailed, nonces>>
      BY <1>3 DEF SignupExisting, Goto, Rest, store
    <2>2. nonces' \in [Nonces -> Providers \cup {None}] BY <2>1 DEF IInv, TypeOK
    <2> QED BY <1>1, <2>1, <2>2, SameJobStep, Stages DEF FreshStages
  <1> QED BY <1>2, <1>3

\* A nonce that is found leads to its deletion.
LEMMA CheckStateInv ==
  ASSUME IInv, NEW r \in Reqs, CheckState(r)
  PROVE  IInv'
  <1>1. pc[r] = "state" /\ job[r].op = "oauth" BY DEF CheckState, At
  <1>2. CASE Fail(r) BY <1>1, <1>2, FailInv
  <1>3. CASE ~Fail(r)
    <2>1. pc' = [pc EXCEPT ![r] = "consume"] /\ UNCHANGED <<db, work, lock, job, mailed, nonces>>
      BY <1>3 DEF CheckState, Goto, Rest, store
    <2>2. nonces' \in [Nonces -> Providers \cup {None}] BY <2>1 DEF IInv, TypeOK
    <2> QED BY <1>1, <2>1, <2>2, SameJobStep, Stages DEF FreshStages
  <1> QED BY <1>2, <1>3

\* The deletion of the nonce touches Redis only.
LEMMA ConsumeStateInv ==
  ASSUME IInv, NEW r \in Reqs, ConsumeState(r)
  PROVE  IInv'
  <1>1. /\ pc[r] = "consume" /\ job[r].op = "oauth"
        /\ nonces' = [nonces EXCEPT ![job[r].nonce] = None]
        /\ pc' = [pc EXCEPT ![r] = "exchange"] /\ UNCHANGED <<db, work, lock, job, mailed>>
    BY DEF ConsumeState, At, Goto
  <1>2. nonces' \in [Nonces -> Providers \cup {None}] BY <1>1 DEF IInv, TypeOK
  <1> QED BY <1>1, <1>2, SameJobStep, Stages DEF FreshStages

\* A step that changes at most the nonces and the mails.
LEMMA Unchanged ==
  ASSUME IInv, TypeOK', UNCHANGED <<db, work, lock, pc, job>>
  PROVE  IInv'
  <1>1. ASSUME NEW r \in Reqs PROVE RequestInv(r)'
    <2>1. RequestInv(r) BY DEF IInv
    <2>2. \A o : Holds(r, o)' <=> Holds(r, o)
      BY DEF Holds, MakesUser, MakesToken, UsesToken, VerifiesUser, Links
    <2>3. NewRows(r)' /\ SignupInv(r)'
      BY <2>1 DEF RequestInv, NewRows, SignupInv, MakesUser, MakesToken
    <2>4. VerifyInv(r)' BY <2>1 DEF RequestInv, VerifyInv, UsesToken, VerifiesUser
    <2>5. OAuthInv(r)' BY <2>1 DEF RequestInv, OAuthInv, Links, IsUser
    <2> QED BY <2>1, <2>2, <2>3, <2>4, <2>5 DEF RequestInv
  <1>2. \A e \in Emails : UserRow(e)' BY DEF IInv, UserRow, MadeBy
  <1>3. \A v \in Verifications : TokenRow(v)'
    BY DEF IInv, TokenRow, IssuedBySignup, IsUser
  <1>4. \A i \in Identities : AccountRow(i)' BY DEF IInv, AccountRow, IsUser
  <1> QED BY <1>1, <1>2, <1>3, <1>4 DEF IInv, UnlockedSettled

\* A login URL only stores a nonce.
LEMMA OAuthLoginInv ==
  ASSUME IInv, NEW n \in Nonces, OAuthLogin(n)
  PROVE  IInv'
  <1>1. UNCHANGED <<db, work, lock, pc, job, mailed>> BY DEF OAuthLogin
  <1>2. nonces' \in [Nonces -> Providers \cup {None}] BY DEF OAuthLogin, IInv, TypeOK
  <1>3. TypeOK' BY <1>1, <1>2 DEF IInv, TypeOK, StoreType
  <1> QED BY <1>1, <1>3, Unchanged

\* The lookup of a token finds a committed row, hence its user.
LEMMA VerifyReadInv ==
  ASSUME IInv, NEW r \in Reqs, VerifyRead(r)
  PROVE  IInv'
  <1> DEFINE tok == job[r].tok
             j == [job[r] EXCEPT !.user = db[tok].user]
  <1>1. TypeOK /\ RequestInv(r) BY DEF IInv
  <1>2. pc[r] = "read" /\ job[r].op = "verify" BY DEF VerifyRead, At
  <1>3. tok \in Verifications /\ job[r] \in Job
    BY <1>1, <1>2 DEF RequestInv, VerifyInv, TypeOK
  <1>4. Visible(r, tok) = db[tok]
    BY <1>2, <1>3, HoldsNothing, ReadsCommitted, Keys DEF FreshStages
  <1>5. /\ db[tok] # None /\ job' = [job EXCEPT ![r].user = db[tok].user]
        /\ pc' = [pc EXCEPT ![r] = "use"]
        /\ UNCHANGED <<db, work, lock, mailed, nonces>>
    BY <1>4 DEF VerifyRead, Goto
  <1>6. db[tok].user = tok[1] /\ IsUser(tok[1]) /\ tok[1] \in Reqs
    BY <1>3, <1>5, TokenIsOf DEF IInv, TokenRow
  <1>7. tok[1] # r BY <1>2, <1>6, UserAt
  <1>8. j \in Job /\ j.op = "verify" /\ j.tok = tok /\ j.user = tok[1]
    BY <1>2, <1>3, <1>6 DEF Job
  <1>9. job' = [job EXCEPT ![r] = j] BY <1>1, <1>5 DEF TypeOK
  <1> HIDE DEF j
  <1>10. KnownEnough(r, "use", j) BY <1>3, <1>5, <1>7, <1>8 DEF KnownEnough, FreshStages
  <1> QED BY <1>2, <1>5, <1>8, <1>9, <1>10, Stages, FreshStep DEF FreshStages, IInv, TypeOK

\* The lookup of an OAuth account finds one linked to a user, or none.
LEMMA FindAccountInv ==
  ASSUME IInv, NEW r \in Reqs, FindAccount(r)
  PROVE  IInv'
  <1> DEFINE i == job[r].ident
             user == IF db[i] = None THEN None ELSE db[i].user
             stage == IF db[i] = None THEN "user" ELSE "update"
  <1>1. TypeOK /\ RequestInv(r) BY DEF IInv
  <1>2. pc[r] = "exchange" /\ job[r].op = "oauth" BY DEF FindAccount, At
  <1>3. i \in Identities /\ job[r].nonce \in Nonces /\ job[r] \in Job /\ job[r].user = None
    BY <1>1, <1>2 DEF RequestInv, OAuthInv, TypeOK, FreshStages
  <1>4. Visible(r, i) = db[i]
    BY <1>2, <1>3, HoldsNothing, ReadsCommitted, Keys DEF FreshStages
  <1>5. PICK e \in Emails : job' = [job EXCEPT ![r].email = e, ![r].user = user]
    BY <1>4 DEF FindAccount
  <1>6. pc' = [pc EXCEPT ![r] = stage] /\ UNCHANGED <<db, work, lock, mailed, nonces>>
    BY <1>4 DEF FindAccount, Goto
  <1>7. db[i] # None => user \in Reqs /\ IsUser(user) /\ user # r
    <2>1. db[i] # None => IsUser(user) BY <1>3 DEF IInv, AccountRow
    <2>2. db[i] # None => user \in Reqs
      BY <1>1, <1>3 DEF TypeOK, StoreType, OAuthAccount
    <2> QED BY <1>3, <2>1, <2>2, FreshMadeNone
  <1> DEFINE j == [job[r] EXCEPT !.email = e, !.user = user]
  <1>8. user \in Reqs \cup {None} BY <1>7
  <1> HIDE DEF user
  <1>9. /\ j \in Job /\ j.op = "oauth" /\ j.ident = i /\ j.nonce = job[r].nonce
        /\ j.email = e /\ j.user = user
    BY <1>2, <1>3, <1>8 DEF Job
  <1>10. job' = [job EXCEPT ![r] = j] BY <1>1, <1>5 DEF TypeOK
  <1>11. user = None <=> db[i] = None BY <1>7, NoneIsNoRequest DEF user
  <1> HIDE DEF j
  <1>12. KnownEnough(r, stage, j) BY <1>3, <1>7, <1>9, <1>11 DEF KnownEnough, FreshStages
  <1>13. stage \in (FreshStages \cup {"use", "update", "link"}) \ {"idle"}
         /\ stage \in StagesOf[j.op]
    BY <1>9, Stages DEF FreshStages
  <1> QED BY <1>2, <1>6, <1>9, <1>10, <1>12, <1>13, FreshStep DEF FreshStages, IInv, TypeOK

\* The lookup of the address finds a user, or leads to an INSERT.
LEMMA FindUserInv ==
  ASSUME IInv, NEW r \in Reqs, FindUser(r)
  PROVE  IInv'
  <1> DEFINE e == job[r].email
             user == IF db[e] = None THEN None ELSE db[e].id
             stage == IF db[e] = None THEN "create_user" ELSE "link"
             j == [job[r] EXCEPT !.user = user]
  <1>1. TypeOK /\ RequestInv(r) BY DEF IInv
  <1>2. pc[r] = "user" /\ job[r].op = "oauth" BY DEF FindUser, At
  <1>3. /\ e \in Emails /\ job[r].ident \in Identities /\ job[r].nonce \in Nonces
        /\ job[r] \in Job /\ job[r].user = None
    BY <1>1, <1>2 DEF RequestInv, OAuthInv, TypeOK, FreshStages
  <1>4. Visible(r, e) = db[e]
    BY <1>2, <1>3, HoldsNothing, ReadsCommitted, Keys DEF FreshStages
  <1>5. /\ job' = [job EXCEPT ![r].user = user] /\ pc' = [pc EXCEPT ![r] = stage]
        /\ UNCHANGED <<db, work, lock, mailed, nonces>>
    BY <1>4 DEF FindUser, Goto
  <1>6. db[e] # None => user \in Reqs /\ IsUser(user) /\ user # r
    <2>1. db[e] # None => IsUser(user) BY <1>3 DEF IsUser
    <2>2. db[e] # None => user \in Reqs BY <1>1, <1>3 DEF TypeOK, StoreType, User
    <2> QED BY <1>3, <2>1, <2>2, FreshMadeNone
  <1>7. user \in Reqs \cup {None} BY <1>6
  <1>8. user = None <=> db[e] = None BY <1>6, NoneIsNoRequest
  <1> HIDE DEF user
  <1>9. /\ j \in Job /\ j.op = "oauth" /\ j.ident = job[r].ident /\ j.nonce = job[r].nonce
        /\ j.email = e /\ j.user = user
    BY <1>2, <1>3, <1>7 DEF Job
  <1>10. job' = [job EXCEPT ![r] = j] BY <1>1, <1>5 DEF TypeOK
  <1> HIDE DEF j
  <1>11. KnownEnough(r, stage, j) BY <1>3, <1>6, <1>8, <1>9 DEF KnownEnough, FreshStages
  <1>12. stage \in (FreshStages \cup {"use", "update", "link"}) \ {"idle"}
         /\ stage \in StagesOf[j.op]
    BY <1>9, Stages DEF FreshStages
  <1> QED BY <1>2, <1>5, <1>9, <1>10, <1>11, <1>12, FreshStep DEF FreshStages, IInv, TypeOK

\* The mail hands the token out; the transaction is whole when it goes.
LEMMA SendMailInv ==
  ASSUME IInv, NEW r \in Reqs, SendMail(r)
  PROVE  IInv'
  <1>1. TypeOK /\ RequestInv(r) BY DEF IInv
  <1>2. /\ pc[r] = "mail" /\ job[r].op = "signup" /\ pc' = [pc EXCEPT ![r] = "commit"]
        /\ UNCHANGED <<db, work, lock, job, nonces>>
        /\ mailed' \subseteq Verifications
    BY <1>1, VerificationType DEF SendMail, At, Goto, TypeOK
  <1>3. StepOf(r, "commit", job[r]) BY <1>1, <1>2, Stages DEF StepOf, TypeOK
  <1>4. pc'[r] = "commit" /\ job'[r] = job[r] BY <1>1, <1>2 DEF TypeOK
  <1>5. job[r].op = "signup" /\ job[r].user = r
    BY <1>1, <1>2 DEF RequestInv, SignupInv
  <1>6. \A o : Holds(r, o)' <=> Holds(r, o)
    BY <1>2, <1>4 DEF Holds, MakesUser, MakesToken, UsesToken, VerifiesUser, Links
  <1>7. NewRows(r)'
    BY <1>1, <1>2, <1>4 DEF RequestInv, NewRows, MakesUser, MakesToken
  <1>8. RequestInv(r)'
    BY <1>1, <1>2, <1>4, <1>5, <1>6, <1>7
       DEF RequestInv, SignupInv, VerifyInv, OAuthInv, FreshStages
  <1> QED BY <1>2, <1>3, <1>8, LocalStep

\* What a statement leaves of the rows.
LEMMA WriteRows ==
  ASSUME TypeOK, NEW r \in Reqs, NEW o \in Rows, NEW v, Write(r, o, v)
  PROVE  /\ Free(r, o) /\ db' = db
         /\ work'[o] = v /\ \A x \in Rows \ {o} : work'[x] = work[x]
         /\ \A x \in Rows : lock'[x] = r <=> x = o \/ lock[x] = r
  BY DEF Write, TypeOK, StoreType

\* The INSERT of a user writes its row under the unique index.
LEMMA CreateUserInv ==
  ASSUME IInv, NEW r \in Reqs, CreateUser(r)
  PROVE  IInv'
  <1> DEFINE e == job[r].email
             local == job[r].op = "signup"
             v == [id |-> r, local |-> local, verified |-> FALSE]
             stage == IF local THEN "verification" ELSE "mark_verified"
             j == [job[r] EXCEPT !.user = r]
  <1>1. TypeOK /\ RequestInv(r) /\ job[r] \in Job BY DEF IInv, TypeOK
  <1>2. /\ pc[r] = "create_user" /\ Insert(r, e, v)
        /\ job' = [job EXCEPT ![r].user = r] /\ pc' = [pc EXCEPT ![r] = stage]
        /\ UNCHANGED <<mailed, nonces>>
    BY DEF CreateUser, Goto
  <1>3. job[r].op \in {"signup", "oauth"}
    BY <1>1, <1>2, Stages, JobType DEF TypeOK, Ended
  <1>4. e \in Emails /\ job[r].user = None
    BY <1>1, <1>2, <1>3 DEF RequestInv, SignupInv, OAuthInv, FreshStages
  <1>5. /\ j \in Job /\ j.op = job[r].op /\ j.email = e /\ j.user = r
        /\ j.ident = job[r].ident /\ j.nonce = job[r].nonce
    BY <1>1 DEF Job
  <1>6. job' = [job EXCEPT ![r] = j] BY <1>1, <1>2 DEF TypeOK
  <1>7. local \in BOOLEAN /\ v \in User BY DEF User
  <1>8. e \in Rows /\ e \notin Verifications /\ e \notin Identities BY <1>4, Keys
  <1>9. Write(r, e, v) /\ db[e] = None BY <1>2 DEF Insert, Taken
  <1>10. stage \in StagesOf[j.op] BY <1>3, <1>5, Stages
  <1> HIDE DEF j
  <1>11. StepOf(r, stage, j)
    BY <1>1, <1>2, <1>4, <1>5, <1>6, <1>10, NoneIsNoRequest DEF StepOf, TypeOK
  <1>12. pc'[r] = stage /\ job'[r] = j BY <1>1, <1>2, <1>6 DEF TypeOK
  <1>13. PICK x \in User, a \in Emails : x = v /\ a = e BY <1>4, <1>7
  <1>14. MadeBy(x, a)'
    <2>1. x.id = r /\ (x.local <=> job[r].op = "signup") BY <1>13
    <2> QED BY <1>3, <1>5, <1>12, <1>13, <2>1 DEF MadeBy
  <1>15. Write(r, a, x) BY <1>9, <1>13
  <1>16. \A o \in Rows : lock'[o] = r <=> Holds(r, o)'
    <2>1. \A o \in Rows : lock[o] # r
      BY <1>1, <1>2, HoldsNothing DEF RequestInv, FreshStages
    <2>2. \A o : Holds(r, o)' <=> o = e
      BY <1>3, <1>5, <1>12 DEF Holds, MakesUser, MakesToken, UsesToken, VerifiesUser, Links
    <2> QED BY <1>1, <1>8, <1>9, <2>1, <2>2, WriteRows
  <1>17. NewRows(r)'
    <2>1. ~MakesToken(r)' BY <1>12 DEF MakesToken
    <2>2. work'[e] = v /\ db'[e] = None BY <1>1, <1>8, <1>9, WriteRows
    <2>3. (job[r].op = "signup")' = local BY <1>5, <1>12
    <2>4. (job[r].op = "oauth" /\ pc[r] \in {"link", "commit"})' = FALSE BY <1>12
    <2>5. (work[job[r].email] = [id |-> r, local |-> job[r].op = "signup",
             verified |-> job[r].op = "oauth" /\ pc[r] \in {"link", "commit"}])'
      BY <1>5, <1>12, <2>2, <2>3, <2>4
    <2> QED BY <1>4, <1>5, <1>12, <2>1, <2>2, <2>5 DEF NewRows
  <1>18. RequestInv(r)'
    <2>1. SignupInv(r)' BY <1>4, <1>5, <1>12 DEF SignupInv
    <2>2. VerifyInv(r)' BY <1>3, <1>5, <1>12 DEF VerifyInv
    <2>3. OAuthInv(r)'
      BY <1>1, <1>4, <1>5, <1>12 DEF RequestInv, OAuthInv, Links
    <2> QED BY <1>12, <1>16, <1>17, <2>1, <2>2, <2>3 DEF RequestInv, FreshStages
  <1> HIDE DEF stage
  <1> QED BY <1>8, <1>11, <1>13, <1>18, <1>14, <1>15, WriteStep, NoneIsNoRow, Keys

\* The INSERT of a verification belongs to the user the request made.
LEMMA CreateVerificationInv ==
  ASSUME IInv, NEW r \in Reqs, CreateVerification(r)
  PROVE  IInv'
  <1> DEFINE o == Verification(r)
             v == [user |-> r, used |-> FALSE]
  <1>1. TypeOK /\ RequestInv(r) BY DEF IInv
  <1>2. /\ pc[r] = "verification" /\ job[r].op = "signup" /\ Write(r, o, v)
        /\ pc' = [pc EXCEPT ![r] = "mail"] /\ UNCHANGED <<job, mailed, nonces>>
    BY DEF CreateVerification, At, Goto, Rest
  <1>3. o \in Verifications /\ o[1] = r /\ o \in Rows /\ o \notin Emails /\ o \notin Identities
    BY VerificationType, Keys
  <1>4. v \in EmailVerification /\ v.user = r BY DEF EmailVerification
  <1>5. StepOf(r, "mail", job[r]) BY <1>1, <1>2, Stages DEF StepOf, TypeOK
  <1>6. pc'[r] = "mail" /\ job'[r] = job[r] BY <1>1, <1>2 DEF TypeOK
  <1>7. job[r].user = r BY <1>1, <1>2 DEF RequestInv, SignupInv
  <1>8. MakesUser(r) /\ MakesUser(r)' /\ MakesToken(r)'
    BY <1>2, <1>6, <1>7 DEF MakesUser, MakesToken
  <1>9. \A x : Holds(r, x)' <=> x = o \/ Holds(r, x)
    BY <1>2, <1>6, <1>8 DEF Holds, MakesToken, UsesToken, VerifiesUser, Links
  <1>10. /\ db' = db /\ work'[o] = v /\ \A x \in Rows \ {o} : work'[x] = work[x]
         /\ \A x \in Rows : lock'[x] = r <=> x = o \/ lock[x] = r
    BY <1>1, <1>2, <1>3, WriteRows
  <1>11. NewRows(r)'
    <2>1. job[r].email \in Emails /\ job[r].email \in Rows \ {o}
      BY <1>1, <1>3, <1>8, Keys DEF RequestInv, NewRows
    <2>2. (pc[r] \in {"link", "commit"})' = (pc[r] \in {"link", "commit"}) BY <1>2, <1>6
    <2> QED BY <1>1, <1>6, <1>8, <1>10, <2>1, <2>2 DEF RequestInv, NewRows
  <1>12. RequestInv(r)'
    BY <1>1, <1>2, <1>6, <1>7, <1>9, <1>10, <1>11
       DEF RequestInv, SignupInv, VerifyInv, OAuthInv, FreshStages
  <1>13. IssuedBySignup(o)' BY <1>2, <1>3, <1>6, <1>7 DEF IssuedBySignup
  <1> HIDE DEF o, v
  <1> QED BY <1>2, <1>3, <1>4, <1>5, <1>12, <1>13, WriteStep, NoneIsNoRow

\* A token used is the same token of the same user.
LEMMA UsedTokenIs ==
  ASSUME NEW t \in EmailVerification
  PROVE  /\ [t EXCEPT !.used = TRUE] = [user |-> t.user, used |-> TRUE]
         /\ [t EXCEPT !.used = TRUE] \in EmailVerification
  <1>1. PICK yes \in BOOLEAN : yes = TRUE OBVIOUS
  <1>2. /\ [t EXCEPT !.used = yes] = [user |-> t.user, used |-> yes]
        /\ [t EXCEPT !.used = yes] \in EmailVerification
    BY DEF EmailVerification
  <1> QED BY <1>1, <1>2

\* A user verified is the same user otherwise.
LEMMA VerifiedUserIs ==
  ASSUME NEW u \in User
  PROVE  [u EXCEPT !.verified = TRUE] = VerifiedUser(u) /\ VerifiedUser(u) \in User
  <1>1. PICK yes \in BOOLEAN : yes = TRUE OBVIOUS
  <1>2. /\ [u EXCEPT !.verified = yes] = [id |-> u.id, local |-> u.local, verified |-> yes]
        /\ [u EXCEPT !.verified = yes] \in User
    BY DEF User
  <1> QED BY <1>1, <1>2 DEF VerifiedUser

\* The token of a request is marked used before its user is verified.
LEMMA VerifyUseInv ==
  ASSUME IInv, NEW r \in Reqs, VerifyUse(r)
  PROVE  IInv'
  <1> DEFINE tok == job[r].tok
  <1>1. TypeOK /\ RequestInv(r) BY DEF IInv
  <1>2. /\ pc[r] = "use" /\ job[r].op = "verify"
        /\ Write(r, tok, [work[tok] EXCEPT !.used = TRUE])
        /\ pc' = [pc EXCEPT ![r] = "mark_verified"] /\ UNCHANGED <<job, mailed, nonces>>
    BY DEF VerifyUse, At, Goto, Rest
  <1>3. /\ tok \in Verifications /\ job[r].user = tok[1] /\ job[r].user # r /\ db[tok] # None
    BY <1>1, <1>2 DEF RequestInv, VerifyInv
  <1>4. tok \in Rows /\ tok \notin Emails /\ tok \notin Identities BY <1>3, Keys
  <1>5. ~Holds(r, tok) BY <1>2, HoldsNothing
  <1>6. /\ Free(r, tok) /\ db' = db /\ work'[tok] = [work[tok] EXCEPT !.used = TRUE]
        /\ \A x \in Rows : lock'[x] = r <=> x = tok \/ lock[x] = r
    BY <1>1, <1>2, <1>4, WriteRows
  <1>7. work[tok] = db[tok] /\ work[tok] \in EmailVerification /\ work[tok].user = tok[1]
    BY <1>1, <1>3, <1>4, <1>5, <1>6, FreeRow DEF IInv, TypeOK, StoreType, TokenRow
  <1>8. PICK v \in EmailVerification :
          v = [work[tok] EXCEPT !.used = TRUE] /\ v = [user |-> tok[1], used |-> TRUE]
    BY <1>7, UsedTokenIs
  <1>9. Write(r, tok, v) /\ work'[tok] = v /\ v.user = tok[1] BY <1>2, <1>6, <1>8
  <1>10. StepOf(r, "mark_verified", job[r]) BY <1>1, <1>2, Stages DEF StepOf, TypeOK
  <1>11. pc'[r] = "mark_verified" /\ job'[r] = job[r] BY <1>1, <1>2 DEF TypeOK
  <1>12. \A x \in Rows : lock'[x] = r <=> Holds(r, x)'
    <2>1. \A x \in Rows : lock[x] # r BY <1>1, <1>2, HoldsNothing DEF RequestInv
    <2>2. \A x : Holds(r, x)' <=> x = tok
      BY <1>2, <1>11 DEF Holds, MakesUser, MakesToken, UsesToken, VerifiesUser, Links
    <2> QED BY <1>6, <2>1, <2>2
  <1>13. VerifyInv(r)'
    BY <1>2, <1>3, <1>6, <1>8, <1>9, <1>11 DEF VerifyInv, VerifiesUser
  <1>14. RequestInv(r)'
    BY <1>2, <1>11, <1>12, <1>13
       DEF RequestInv, NewRows, MakesUser, MakesToken, SignupInv, OAuthInv, FreshStages
  <1>15. PICK a \in Verifications : a = tok BY <1>3
  <1>16. IssuedBySignup(a)' BY <1>2, <1>3, <1>15 DEF IInv, TokenRow, IssuedBySignup
  <1> HIDE DEF tok
  <1> QED BY <1>4, <1>9, <1>10, <1>14, <1>15, <1>16, WriteStep, NoneIsNoRow

\* The user verified is the one the token belongs to.
LEMMA VerifyUserInv ==
  ASSUME IInv, NEW r \in Reqs, VerifyUser(r)
  PROVE  IInv'
  <1> DEFINE tok == job[r].tok
             id == job[r].user
             e == job[id].email
  <1>1. TypeOK /\ RequestInv(r) BY DEF IInv
  <1>2. /\ pc[r] = "mark_verified" /\ job[r].op = "verify" /\ MarkUserVerified(r)
        /\ pc' = [pc EXCEPT ![r] = "commit"] /\ UNCHANGED <<job, mailed, nonces>>
    BY DEF VerifyUser, At, Goto, Rest
  <1>3. /\ tok \in Verifications /\ id = tok[1] /\ id # r /\ db[tok] # None
        /\ work[tok] = [user |-> tok[1], used |-> TRUE]
    BY <1>1, <1>2 DEF RequestInv, VerifyInv, UsesToken
  <1>4. IsUser(id) /\ id \in Reqs BY <1>3, TokenIsOf DEF IInv, TokenRow
  <1>5. e \in Emails /\ db[e] # None /\ db[e].id = id BY <1>4, UserAt
  <1>6. e \in Rows /\ e \notin Identities /\ e \notin Verifications /\ tok \in Rows \ {e}
    BY <1>3, <1>5, Keys
  <1>7. \A x : Holds(r, x) <=> x = tok
    BY <1>2 DEF Holds, MakesUser, MakesToken, UsesToken, VerifiesUser, Links
  <1>8. Visible(r, e) = db[e] BY <1>6, <1>7, ReadsCommitted
  <1>9. EmailOf(r, id) = e BY <1>4, <1>5, <1>8, EmailIs
  <1>10. Write(r, e, [work[e] EXCEPT !.verified = TRUE])
    BY <1>2, <1>9 DEF MarkUserVerified
  <1>11. /\ Free(r, e) /\ db' = db /\ work'[e] = [work[e] EXCEPT !.verified = TRUE]
         /\ work'[tok] = work[tok]
         /\ \A x \in Rows : lock'[x] = r <=> x = e \/ lock[x] = r
    BY <1>1, <1>6, <1>10, WriteRows
  <1>12. work[e] = db[e] /\ work[e] \in User /\ MadeBy(work[e], e)
    BY <1>1, <1>5, <1>6, <1>7, <1>11, FreeRow DEF IInv, TypeOK, StoreType, UserRow
  <1>13. PICK v \in User, a \in Emails :
           /\ a = e /\ v = [work[e] EXCEPT !.verified = TRUE] /\ v = VerifiedUser(db[e])
    BY <1>5, <1>12, VerifiedUserIs
  <1>14. Write(r, a, v) /\ work'[e] = v BY <1>10, <1>11, <1>13
  <1>15. MadeBy(v, a)'
    <2>1. v.id = work[e].id /\ v.local = work[e].local BY <1>12, <1>13 DEF VerifiedUser
    <2> QED BY <1>2, <1>12, <1>13, <2>1 DEF MadeBy
  <1>16. StepOf(r, "commit", job[r]) BY <1>1, <1>2, Stages DEF StepOf, TypeOK
  <1>17. pc'[r] = "commit" /\ job' = job BY <1>1, <1>2 DEF TypeOK
  <1>18. \A x \in Rows : lock'[x] = r <=> Holds(r, x)'
    <2>1. \A x \in Rows : lock[x] = r <=> x = tok BY <1>1, <1>7 DEF RequestInv
    <2>2. \A x : Holds(r, x)' <=> x = tok \/ x = e
      BY <1>2, <1>17 DEF Holds, MakesUser, MakesToken, UsesToken, VerifiesUser, Links
    <2> QED BY <1>11, <2>1, <2>2
  <1>19. VerifyInv(r)'
    BY <1>3, <1>5, <1>11, <1>13, <1>14, <1>17 DEF VerifyInv
  <1>20. RequestInv(r)'
    BY <1>2, <1>17, <1>18, <1>19
       DEF RequestInv, NewRows, MakesUser, MakesToken, SignupInv, OAuthInv, FreshStages
  <1> HIDE DEF e, tok, id
  <1> QED BY <1>14, <1>15, <1>16, <1>20, WriteStep, NoneIsNoRow, Keys

\* The UPDATE of an OAuth account keeps its user.
LEMMA UpdateAccountInv ==
  ASSUME IInv, NEW r \in Reqs, UpdateAccount(r)
  PROVE  IInv'
  <1> DEFINE i == job[r].ident
  <1>1. TypeOK /\ RequestInv(r) BY DEF IInv
  <1>2. /\ pc[r] = "update" /\ job[r].op = "oauth" /\ Write(r, i, work[i])
        /\ pc' = [pc EXCEPT ![r] = "commit"] /\ UNCHANGED <<job, mailed, nonces>>
    BY DEF UpdateAccount, At, Goto, Rest
  <1>3. /\ i \in Identities /\ job[r].nonce \in Nonces /\ job[r].user # r /\ db[i] # None
        /\ IsUser(job[r].user)
    BY <1>1, <1>2 DEF RequestInv, OAuthInv
  <1>4. i \in Rows /\ i \notin Emails /\ i \notin Verifications BY <1>3, Keys
  <1>5. /\ Free(r, i) /\ db' = db /\ work'[i] = work[i]
        /\ \A x \in Rows : lock'[x] = r <=> x = i \/ lock[x] = r
    BY <1>1, <1>2, <1>4, WriteRows
  <1>6. ~Holds(r, i) BY <1>2, HoldsNothing
  <1>7. work[i] = db[i] /\ work[i] \in OAuthAccount
    BY <1>1, <1>3, <1>4, <1>5, <1>6, FreeRow DEF TypeOK, StoreType
  <1>8. StepOf(r, "commit", job[r]) BY <1>1, <1>2, Stages DEF StepOf, TypeOK
  <1>9. pc'[r] = "commit" /\ job'[r] = job[r] BY <1>1, <1>2 DEF TypeOK
  <1>10. \A x \in Rows : lock'[x] = r <=> Holds(r, x)'
    <2>1. \A x \in Rows : lock[x] # r BY <1>1, <1>2, HoldsNothing DEF RequestInv
    <2>2. \A x : Holds(r, x)' <=> x = i
      BY <1>2, <1>3, <1>9 DEF Holds, MakesUser, MakesToken, UsesToken, VerifiesUser, Links
    <2> QED BY <1>5, <2>1, <2>2
  <1>11. OAuthInv(r)' BY <1>3, <1>5, <1>7, <1>9 DEF OAuthInv, IsUser
  <1>12. RequestInv(r)'
    BY <1>2, <1>3, <1>9, <1>10, <1>11
       DEF RequestInv, NewRows, MakesUser, MakesToken, SignupInv, VerifyInv, FreshStages
  <1>13. PICK v \in OAuthAccount : v = work[i] BY <1>7
  <1>14. Write(r, i, v) BY <1>2, <1>13
  <1> HIDE DEF i
  <1> QED BY <1>4, <1>8, <1>12, <1>14, WriteStep, NoneIsNoRow

\* An OAuth user is marked verified by the request that made it.
LEMMA VerifyCreatedInv ==
  ASSUME IInv, NEW r \in Reqs, VerifyCreated(r)
  PROVE  IInv'
  <1> DEFINE e == job[r].email
  <1>1. TypeOK /\ RequestInv(r) BY DEF IInv
  <1>2. /\ pc[r] = "mark_verified" /\ job[r].op = "oauth" /\ MarkUserVerified(r)
        /\ pc' = [pc EXCEPT ![r] = "link"] /\ UNCHANGED <<job, mailed, nonces>>
    BY DEF VerifyCreated, At, Goto, Rest
  <1>3. /\ job[r].user = r /\ job[r].ident \in Identities /\ job[r].nonce \in Nonces
        /\ MakesUser(r)
    BY <1>1, <1>2 DEF RequestInv, OAuthInv, MakesUser
  <1>4. e \in Emails /\ db[e] = None /\ work[e] \in User /\ work[e] # None /\ work[e].id = r
    BY <1>1, <1>3, MadeRow DEF RequestInv, NewRows
  <1>5. e \in Rows /\ e \notin Identities /\ e \notin Verifications BY <1>4, Keys
  <1>6. lock[e] = r BY <1>1, <1>3, <1>5 DEF RequestInv, Holds
  <1>7. EmailOf(r, r) = e BY <1>4, <1>6, EmailIs DEF Visible
  <1>8. Write(r, e, [work[e] EXCEPT !.verified = TRUE])
    BY <1>2, <1>3, <1>7 DEF MarkUserVerified
  <1>9. PICK v \in User, a \in Emails :
          /\ a = e /\ v = [work[e] EXCEPT !.verified = TRUE] /\ v = VerifiedUser(work[e])
    BY <1>4, VerifiedUserIs
  <1>10. Write(r, a, v) BY <1>8, <1>9
  <1>11. /\ db' = db /\ work'[e] = v
         /\ \A x \in Rows : lock'[x] = r <=> x = e \/ lock[x] = r
    BY <1>1, <1>5, <1>9, <1>10, WriteRows
  <1>12. StepOf(r, "link", job[r]) BY <1>1, <1>2, Stages DEF StepOf, TypeOK
  <1>13. pc'[r] = "link" /\ job' = job BY <1>1, <1>2 DEF TypeOK
  <1>14. MadeBy(v, a)'
    <2>1. MadeBy(work[e], e) BY <1>4 DEF IInv, UserRow
    <2>2. v.id = work[e].id /\ v.local = work[e].local BY <1>9 DEF VerifiedUser
    <2> QED BY <1>9, <1>13, <2>1, <2>2 DEF MadeBy
  <1>15. \A x \in Rows : lock'[x] = r <=> Holds(r, x)'
    <2>1. \A x : Holds(r, x)' <=> Holds(r, x)
      BY <1>2, <1>13 DEF Holds, MakesUser, MakesToken, UsesToken, VerifiesUser, Links
    <2> QED BY <1>1, <1>6, <1>11, <2>1 DEF RequestInv
  <1>16. NewRows(r)'
    <2>1. ~MakesToken(r)' BY <1>13 DEF MakesToken
    <2>2. work[e] = [id |-> r, local |-> job[r].op = "signup",
                     verified |-> job[r].op = "oauth" /\ pc[r] \in {"link", "commit"}]
      BY <1>1, <1>3 DEF RequestInv, NewRows
    <2>3. (job[r].op = "signup") = FALSE BY <1>2
    <2>4. v = [id |-> r, local |-> FALSE, verified |-> TRUE]
      <3>1. work[e] = [id |-> r, local |-> FALSE,
                       verified |-> job[r].op = "oauth" /\ pc[r] \in {"link", "commit"}]
        BY <2>2, <2>3
      <3>2. work[e].id = r /\ work[e].local = FALSE BY <3>1
      <3> QED BY <1>9, <3>2 DEF VerifiedUser
    <2>5. (job[r].op = "signup")' = FALSE
          /\ (job[r].op = "oauth" /\ pc[r] \in {"link", "commit"})' = TRUE
      BY <1>2, <1>13
    <2>6. (work[job[r].email] = [id |-> r, local |-> job[r].op = "signup",
             verified |-> job[r].op = "oauth" /\ pc[r] \in {"link", "commit"}])'
      BY <1>11, <1>13, <2>4, <2>5
    <2> QED BY <1>4, <1>11, <1>13, <2>1, <2>6 DEF NewRows
  <1>17. RequestInv(r)'
    BY <1>2, <1>3, <1>4, <1>13, <1>15, <1>16
       DEF RequestInv, SignupInv, VerifyInv, OAuthInv, Links, FreshStages
  <1> HIDE DEF e
  <1> QED BY <1>9, <1>10, <1>12, <1>14, <1>17, WriteStep, NoneIsNoRow, Keys

\* The INSERT of an OAuth account links it to the user found or made.
LEMMA LinkAccountInv ==
  ASSUME IInv, NEW r \in Reqs, LinkAccount(r)
  PROVE  IInv'
  <1> DEFINE i == job[r].ident
             row == [user |-> job[r].user]
  <1>1. TypeOK /\ RequestInv(r) BY DEF IInv
  <1>2. /\ pc[r] = "link" /\ job[r].op = "oauth" /\ Insert(r, i, row)
        /\ pc' = [pc EXCEPT ![r] = "commit"] /\ UNCHANGED <<job, mailed, nonces>>
    BY DEF LinkAccount, At, Goto, Rest
  <1>3. /\ i \in Identities /\ job[r].nonce \in Nonces /\ job[r].email \in Emails
        /\ job[r].user # r => IsUser(job[r].user)
    BY <1>1, <1>2 DEF RequestInv, OAuthInv
  <1>4. job[r].user \in Reqs
    BY <1>1, <1>3 DEF IsUser, TypeOK, StoreType, User
  <1>5. i \in Rows /\ i \notin Emails /\ i \notin Verifications BY <1>3, Keys
  <1>6. PICK v \in OAuthAccount : v = row BY <1>4 DEF OAuthAccount
  <1>7. Write(r, i, v) /\ db[i] = None BY <1>2, <1>6 DEF Insert, Taken
  <1>8. /\ db' = db /\ work'[i] = v /\ \A x \in Rows \ {i} : work'[x] = work[x]
        /\ \A x \in Rows : lock'[x] = r <=> x = i \/ lock[x] = r
    BY <1>1, <1>5, <1>7, WriteRows
  <1>9. StepOf(r, "commit", job[r]) BY <1>1, <1>2, Stages DEF StepOf, TypeOK
  <1>10. pc'[r] = "commit" /\ job' = job BY <1>1, <1>2 DEF TypeOK
  <1>11. \A x \in Rows : lock'[x] = r <=> Holds(r, x)'
    <2>1. \A x : Holds(r, x)' <=> x = i \/ Holds(r, x)
      BY <1>2, <1>10 DEF Holds, MakesUser, MakesToken, UsesToken, VerifiesUser, Links
    <2> QED BY <1>1, <1>8, <2>1 DEF RequestInv
  <1>12. NewRows(r)'
    <2>1. MakesUser(r)' <=> MakesUser(r) BY <1>2, <1>10 DEF MakesUser
    <2>2. ~MakesToken(r)' BY <1>2, <1>10 DEF MakesToken
    <2>3. job[r].email \in Rows \ {i} BY <1>3, <1>5, Keys
    <2>4. (pc[r] \in {"link", "commit"})' = (pc[r] \in {"link", "commit"}) BY <1>2, <1>10
    <2> QED BY <1>1, <1>8, <1>10, <2>1, <2>2, <2>3, <2>4 DEF RequestInv, NewRows
  <1>13. OAuthInv(r)' BY <1>3, <1>6, <1>7, <1>8, <1>10 DEF OAuthInv, IsUser
  <1>14. RequestInv(r)'
    BY <1>2, <1>10, <1>11, <1>12, <1>13
       DEF RequestInv, SignupInv, VerifyInv, FreshStages
  <1> HIDE DEF i, row
  <1> QED BY <1>5, <1>7, <1>9, <1>14, WriteStep, NoneIsNoRow

(***************************************************************************)
(* The theorems.                                                            *)
(***************************************************************************)
LEMMA CallInv ==
  ASSUME IInv, NEW r \in Reqs, Call(r)
  PROVE  IInv'
  BY StartSignupInv, StartVerifyInv, StartCallbackInv DEF Call

\* The steps of a handler keep the invariant: one lemma each.
LEMMA HandleInv ==
  ASSUME IInv, NEW r \in Reqs, Handle(r)
  PROVE  IInv'
  <1>1. CASE Signup(r)
    <2>1. SignupTaken(r) => Fail(r) /\ pc[r] # "idle" BY DEF SignupTaken, At
    <2> QED BY <1>1, <2>1, FailInv, SignupExistingInv, CreateVerificationInv, SendMailInv
            DEF Signup
  <1>2. CASE Verify(r)
    <2>1. VerifyReject(r) => Fail(r) /\ pc[r] # "idle" BY DEF VerifyReject, At
    <2> QED BY <1>2, <2>1, FailInv, VerifyReadInv, VerifyUseInv, VerifyUserInv DEF Verify
  <1>3. CASE Callback(r)
    <2>1. ExchangeFails(r) \/ OAuthTaken(r) => Fail(r) /\ pc[r] # "idle"
      BY DEF ExchangeFails, OAuthTaken, At
    <2> QED BY <1>3, <2>1, FailInv, CheckStateInv, ConsumeStateInv, FindAccountInv,
               UpdateAccountInv, FindUserInv, VerifyCreatedInv, LinkAccountInv DEF Callback
  <1>4. CASE Shared(r) BY <1>4, CreateUserInv, CommitStep DEF Shared
  <1> QED BY <1>1, <1>2, <1>3, <1>4 DEF Handle

\* A lost commit and a failing statement are rollbacks.
LEMMA BreakInv ==
  ASSUME IInv, NEW r \in Reqs, Break(r)
  PROVE  IInv'
  <1>1. CASE CommitLost(r) BY <1>1, RollbackStep DEF CommitLost, Goto, Rest
  <1>2. CASE StatementFails(r) BY <1>2, FailInv DEF StatementFails
  <1> QED BY <1>1, <1>2 DEF Break

\* A step that changes nothing keeps the invariant.
LEMMA StutterInv ==
  ASSUME IInv, UNCHANGED vars
  PROVE  IInv'
  <1>1. UNCHANGED <<db, work, lock, pc, job, mailed, nonces>> BY DEF vars
  <1>2. TypeOK' BY <1>1 DEF IInv, TypeOK, StoreType
  <1> QED BY <1>1, <1>2, Unchanged

\* Every step keeps the invariant: one lemma per action.
LEMMA NextInv == IInv /\ [Next]_vars => IInv'
  <1> SUFFICES ASSUME IInv, [Next]_vars PROVE IInv' OBVIOUS
  <1>1. ASSUME NEW r \in Reqs, Call(r) PROVE IInv' BY <1>1, CallInv
  <1>2. ASSUME NEW r \in Reqs, Handle(r) PROVE IInv' BY <1>2, HandleInv
  <1>3. ASSUME NEW r \in Reqs, Break(r) PROVE IInv' BY <1>3, BreakInv
  <1>4. ASSUME NEW n \in Nonces, OAuthLogin(n) PROVE IInv' BY <1>4, OAuthLoginInv
  <1>5. CASE Quiescent \/ UNCHANGED vars BY <1>5, StutterInv DEF Quiescent
  <1> QED BY <1>1, <1>2, <1>3, <1>4, <1>5 DEF Next

\* The inductive invariant of the accounts: which rows a request holds at each await
\* and what it has made of them, and which rows a committed row needs.
THEOREM Invariant == Spec => []IInv
  BY InitInv, NextInv, PTL DEF Spec

\* Every variable keeps its type and every request stands at an await of its handler.
THEOREM TypeCorrect == Spec => []TypeOK
  <1>1. IInv => TypeOK BY DEF IInv
  <1> QED BY <1>1, Invariant, PTL

\* Signup is one transaction: no account without its token, no token without it.
THEOREM SignupsWhole == Spec => []SignupWhole
  <1>1. IInv => SignupWhole
    <2> SUFFICES ASSUME IInv PROVE SignupWhole OBVIOUS
    <2>1. \A v \in Verifications : db[v] # None => IsUser(db[v].user)
      BY DEF IInv, TokenRow
    <2> QED BY <2>1 DEF IInv, UserRow, SignupWhole
  <1> QED BY <1>1, Invariant, PTL

\* A linked OAuth account has its user, however callbacks race for address and account.
THEOREM AccountsLinked == Spec => []LinkedToUser
  <1>1. IInv => LinkedToUser BY DEF IInv, AccountRow, LinkedToUser
  <1> QED BY <1>1, Invariant, PTL

\* A local account is verified exactly when its token has been used.
THEOREM VerifiedByItsToken == Spec => []VerifiedByToken
  <1>1. IInv => VerifiedByToken BY DEF IInv, UserRow, VerifiedByToken
  <1> QED BY <1>1, Invariant, PTL

\* Of the requests that raced to create one account, one ends well as its creator.
THEOREM OneCreator == Spec => []CreatedOnce
  <1>1. IInv => CreatedOnce BY DEF IInv, RequestInv, CreatedOnce
  <1> QED BY <1>1, Invariant, PTL

\* A step other than a commit leaves the committed rows alone.
LEMMA DatabaseKept ==
  ASSUME IInv, [Next]_vars, \A r \in Reqs : ~CommitTransaction(r)
  PROVE  db' = db
  <1>1. ASSUME NEW r \in Reqs, Call(r) PROVE db' = db
    BY <1>1 DEF Call, StartSignup, StartVerify, StartCallback, Begin
  <1>2. ASSUME NEW r \in Reqs, Fail(r) PROVE db' = db BY <1>2 DEF Fail, Rollback
  <1>3. ASSUME NEW r \in Reqs, Signup(r) PROVE db' = db
    BY <1>2, <1>3 DEF Signup, SignupExisting, SignupTaken, CreateVerification, SendMail,
                      Write, store
  <1>4. ASSUME NEW r \in Reqs, Verify(r) PROVE db' = db
    BY <1>2, <1>4 DEF Verify, VerifyRead, VerifyReject, VerifyUse, VerifyUser,
                      MarkUserVerified, Write
  <1>5. ASSUME NEW r \in Reqs, Callback(r) PROVE db' = db
    BY <1>2, <1>5 DEF Callback, CheckState, ConsumeState, FindAccount, ExchangeFails,
                      UpdateAccount, FindUser, VerifyCreated, OAuthTaken, LinkAccount,
                      MarkUserVerified, Insert, Write, store
  <1>6. ASSUME NEW r \in Reqs, Shared(r) PROVE db' = db
    BY <1>6 DEF Shared, CreateUser, Insert, Write
  <1>7. ASSUME NEW r \in Reqs, Break(r) PROVE db' = db
    BY <1>2, <1>7 DEF Break, CommitLost, StatementFails, Rollback
  <1>8. CASE (\E n \in Nonces : OAuthLogin(n)) \/ Quiescent \/ UNCHANGED vars
    BY <1>8 DEF OAuthLogin, Quiescent, vars
  <1> QED BY <1>1, <1>3, <1>4, <1>5, <1>6, <1>7, <1>8 DEF Next, Handle

\* No step takes a committed account's id, kind or verification, or an OAuth account
\* from its user.
THEOREM CommittedKept == Spec => AccountsKept
  <1> DEFINE Kept ==
        /\ \A e \in Emails : db[e] # None =>
              /\ db'[e] # None
              /\ db'[e].id = db[e].id /\ db'[e].local = db[e].local
              /\ db[e].verified => db'[e].verified
        /\ \A i \in Identities : db[i] # None => db'[i] = db[i]
  <1>1. IInv /\ [Next]_vars => Kept
    <2> SUFFICES ASSUME IInv, [Next]_vars PROVE Kept OBVIOUS
    <2>1. CASE \A r \in Reqs : ~CommitTransaction(r) BY <2>1, DatabaseKept
    <2>2. ASSUME NEW r \in Reqs, CommitTransaction(r) PROVE Kept
      <3>1. /\ \A e \in Emails : db[e] # None =>
                   db'[e] # None /\ (db'[e] = db[e] \/ db'[e] = VerifiedUser(db[e]))
            /\ \A i \in Identities : db[i] # None => db'[i] = db[i]
        BY <2>2, CommitStep
      <3>2. ASSUME NEW e \in Emails, db'[e] = VerifiedUser(db[e])
            PROVE  db'[e].id = db[e].id /\ db'[e].local = db[e].local /\ db'[e].verified = TRUE
        BY <3>2 DEF VerifiedUser
      <3>3. ASSUME NEW e \in Emails, db[e] # None
            PROVE  /\ db'[e] # None
                   /\ db'[e].id = db[e].id /\ db'[e].local = db[e].local
                   /\ db[e].verified => db'[e].verified
        <4>1. CASE db'[e] = db[e] BY <3>1, <3>3, <4>1
        <4>2. CASE db'[e] = VerifiedUser(db[e]) BY <3>1, <3>2, <3>3, <4>2
        <4> QED BY <3>1, <3>3, <4>1, <4>2
      <3> QED BY <3>1, <3>3
    <2> QED BY <2>1, <2>2
  <1> QED BY <1>1, Invariant, PTL DEF Spec, AccountsKept

(***************************************************************************)
(* Waiting.                                                                 *)
(***************************************************************************)
\* A signup does not wait for its token, and nobody waits to verify a user: the
\* rows are its own, or held by none but the one that uses the same token.
LEMMA LastStepsRun ==
  ASSUME IInv, NEW q \in Reqs, NEW r \in Reqs, WaitsFor(q, r)
  PROVE  pc[q] \notin {"verification", "mark_verified"}
  <1>1. TypeOK /\ RequestInv(q) /\ RequestInv(r) BY DEF IInv
  <1>2. q # r BY DEF WaitsFor
  <1>3. ASSUME pc[q] = "verification" PROVE FALSE
    <2>1. job[q].op = "signup" BY <1>1, <1>3, Stages, JobType DEF TypeOK, Ended
    <2>2. MakesUser(q)
      BY <1>1, <1>3, <2>1 DEF RequestInv, SignupInv, MakesUser
    <2>3. lock[Verification(q)] = r /\ Verification(q) \in Verifications
      BY <1>3, VerificationType DEF WaitsFor
    <2>4. ~(MakesToken(r) /\ Verification(q) = Verification(r))
      BY <1>2, VerificationType
    <2>5. UsesToken(r) /\ Verification(q) = job[r].tok BY <2>3, <2>4, HeldRows
    <2>6. db[Verification(q)] # None
      BY <1>1, <2>5 DEF RequestInv, VerifyInv, UsesToken
    <2>7. IsUser(q) BY <2>3, <2>6, VerificationType DEF IInv, TokenRow
    <2>8. db[job[q].email] # None BY <2>7, UserAt
    <2> QED BY <1>1, <2>2, <2>8 DEF RequestInv, NewRows
  <1>4. ASSUME pc[q] = "mark_verified", job[q].op = "oauth" PROVE FALSE
    <2> DEFINE e == job[q].email
    <2>1. job[q].user = q BY <1>1, <1>4 DEF RequestInv, OAuthInv
    <2>2. MakesUser(q) BY <1>4, <2>1 DEF MakesUser
    <2>3. e \in Emails /\ lock[e] = q /\ work[e] # None /\ work[e].id = q
      BY <1>1, <2>2, HeldRows, MadeRow DEF RequestInv, NewRows
    <2>4. EmailOf(q, q) = e BY <2>3, EmailIs DEF Visible
    <2> QED BY <1>2, <1>4, <2>1, <2>3, <2>4 DEF WaitsFor
  <1>5. ASSUME pc[q] = "mark_verified", job[q].op = "verify" PROVE FALSE
    <2> DEFINE id == job[q].user
               e == job[id].email
    <2>1. /\ job[q].tok \in Verifications /\ id = job[q].tok[1]
          /\ db[job[q].tok] # None /\ UsesToken(q)
      BY <1>1, <1>5 DEF RequestInv, VerifyInv, UsesToken
    <2>2. IsUser(id) /\ id \in Reqs BY <2>1, TokenIsOf DEF IInv, TokenRow
    <2>3. e \in Emails /\ db[e] # None /\ db[e].id = id BY <2>2, UserAt
    <2>4. lock[e] # q
      BY <1>5, <2>3, HeldRows DEF MakesUser, VerifiesUser
    <2>5. EmailOf(q, id) = e BY <2>2, <2>3, <2>4, EmailIs DEF Visible
    <2>6. lock[e] = r BY <1>5, <2>5 DEF WaitsFor
    <2>7. ~(MakesUser(r) /\ e = job[r].email) BY <1>1, <2>3 DEF RequestInv, NewRows
    <2>8. VerifiesUser(r) /\ e = job[job[r].user].email BY <2>3, <2>6, <2>7, HeldRows
    <2>9. /\ job[r].user = id /\ job[r].tok \in Verifications /\ job[r].tok[1] = id
          /\ UsesToken(r)
      BY <1>1, <2>3, <2>8 DEF RequestInv, VerifyInv, VerifiesUser, UsesToken
    <2>10. job[r].tok = job[q].tok BY <2>1, <2>9, TokenIsOf
    <2>11. lock[job[q].tok] = q /\ lock[job[q].tok] = r BY <2>1, <2>9, <2>10, HeldRows
    <2> QED BY <1>2, <2>11
  <1>6. pc[q] = "mark_verified" => job[q].op \in {"verify", "oauth"}
    BY <1>1, Stages, JobType DEF TypeOK, Ended
  <1> QED BY <1>3, <1>4, <1>5, <1>6

\* Whoever is waited for holds a row.
LEMMA AwaitedHolds ==
  ASSUME IInv, NEW p \in Reqs, NEW q \in Reqs, WaitsFor(p, q)
  PROVE  \E o \in Rows : Holds(q, o)
  <1>1. TypeOK /\ RequestInv(p) /\ RequestInv(q) BY DEF IInv
  <1>2. \E o \in Rows : lock[o] = q
    <2>1. CASE pc[p] = "create_user"
      <3>1. job[p].op \in {"signup", "oauth"}
        BY <1>1, <2>1, Stages, JobType DEF TypeOK, Ended
      <3>2. job[p].email \in Rows
        BY <1>1, <2>1, <3>1, Keys DEF RequestInv, SignupInv, OAuthInv
      <3> QED BY <2>1, <3>2 DEF WaitsFor
    <2>2. CASE pc[p] \in {"link", "update"}
      <3>1. job[p].op = "oauth" BY <1>1, <2>2, Stages, JobType DEF TypeOK, Ended
      <3>2. job[p].ident \in Rows BY <1>1, <3>1, Keys DEF RequestInv, OAuthInv
      <3> QED BY <2>2, <3>2 DEF WaitsFor
    <2>3. CASE pc[p] = "use"
      <3>1. job[p].op = "verify" BY <1>1, <2>3, Stages, JobType DEF TypeOK, Ended
      <3>2. job[p].tok \in Rows BY <1>1, <3>1, Keys DEF RequestInv, VerifyInv
      <3> QED BY <2>3, <3>2 DEF WaitsFor
    <2> QED BY <2>1, <2>2, <2>3, LastStepsRun DEF WaitsFor
  <1> QED BY <1>1, <1>2 DEF RequestInv

\* However many requests wait for one another, the second of a chain waits for one
\* at its commit.
LEMMA WaitsEndInv == IInv => WaitsEnd
  <1> SUFFICES ASSUME IInv, NEW p \in Reqs, NEW q \in Reqs, WaitsFor(p, q)
               PROVE  /\ pc[q] \notin Ended
                      /\ \A r \in Reqs : WaitsFor(q, r) => pc[r] = "commit"
    BY DEF WaitsEnd
  <1>1. PICK o \in Rows : Holds(q, o) BY AwaitedHolds
  <1>2. pc[q] \notin Ended BY <1>1, HoldsNothing
  <1>3. ASSUME NEW r \in Reqs, WaitsFor(q, r) PROVE pc[r] = "commit"
    <2>1. pc[q] \in {"verification", "mail", "mark_verified", "link", "commit"}
      BY <1>1 DEF Holds, MakesUser, MakesToken, UsesToken, VerifiesUser, Links
    <2>2. pc[q] = "link" /\ lock[job[q].ident] = r
      BY <1>3, <2>1, LastStepsRun DEF WaitsFor
    <2>3. TypeOK /\ RequestInv(q) BY DEF IInv
    <2>4. job[q].op = "oauth" BY <2>2, <2>3, Stages, JobType DEF TypeOK, Ended
    <2>5. job[q].ident \in Identities BY <2>3, <2>4 DEF RequestInv, OAuthInv
    <2> QED BY <2>2, <2>5, HeldRows DEF Links
  <1> QED BY <1>2, <1>3

\* However many requests race, waiting for an index or a row ends: whoever is waited
\* for is under way, and waits itself only for a request at its commit.
THEOREM WaitingEnds == Spec => []WaitsEnd
  BY Invariant, WaitsEndInv, PTL

(***************************************************************************)
(* Refinement: a commit is one entry of the book, or changes nothing.       *)
(***************************************************************************)
\* A token's row is a row, used or not.
LEMMA TokenRowType ==
  ASSUME NEW q \in Reqs, NEW b \in BOOLEAN
  PROVE  [user |-> q, used |-> b] \in EmailVerification
  BY DEF EmailVerification

LEMMA TokenRowIsNotNone ==
  ASSUME NEW q \in Reqs
  PROVE  [user |-> q, used |-> TRUE] # None /\ [user |-> q, used |-> FALSE] # None
  <1>1. \A b \in BOOLEAN : [user |-> q, used |-> b] # None BY TokenRowType, NoneIsNoRow
  <1> QED BY <1>1

\* What a signup publishes is entered with its token.
LEMMA SignupRefines ==
  ASSUME IInv, NEW r \in Reqs, CommitTransaction(r), job[r].op = "signup"
  PROVE  Book!Next
  <1> DEFINE e == job[r].email
             users == [a \in Emails |-> db[a]]
             tokens == [q \in Reqs |-> TokenState(db[Verification(q)])]
             linked == [i \in Identities |-> LinkedUser(db[i])]
             entry == [id |-> r, local |-> TRUE, verified |-> FALSE]
  <1>1. TypeOK /\ RequestInv(r) BY DEF IInv
  <1>2. pc[r] = "commit" /\ \A x \in Rows : db'[x] = IF lock[x] = r THEN work[x] ELSE db[x]
    BY DEF CommitTransaction, Commit
  <1>3. MakesUser(r) /\ MakesToken(r) /\ ~UsesToken(r) /\ ~VerifiesUser(r) /\ ~Links(r)
    BY <1>1, <1>2 DEF RequestInv, SignupInv, MakesUser, MakesToken, UsesToken,
                      VerifiesUser, Links
  <1>4. e \in Emails /\ db[e] = None /\ db'[e] = entry
    <2>1. e \in Emails /\ db[e] = None BY <1>1, <1>3 DEF RequestInv, NewRows
    <2>2. (job[r].op = "signup") = TRUE
          /\ (job[r].op = "oauth" /\ pc[r] \in {"link", "commit"}) = FALSE
      OBVIOUS
    <2>3. work[e] = entry BY <1>1, <1>3, <2>2 DEF RequestInv, NewRows
    <2> QED BY <1>2, <1>3, <2>1, <2>3, HeldRows, Keys
  <1>5. ~IsUser(r) BY <1>4, UserAt
  <1>6. Verification(r) \in Verifications /\ db[Verification(r)] = None
    BY <1>5, VerificationType DEF IInv, TokenRow
  <1>7. TokenState(db'[Verification(r)]) = "open"
    <2>1. db'[Verification(r)] = [user |-> r, used |-> FALSE]
      BY <1>1, <1>2, <1>3, <1>6, HeldRows, Keys DEF RequestInv, NewRows
    <2> QED BY <2>1, TokenRowIsNotNone DEF TokenState
  <1>8. /\ \A a \in Emails \ {e} : db'[a] = db[a]
        /\ \A i \in Identities : db'[i] = db[i]
        /\ \A q \in Reqs \ {r} : db'[Verification(q)] = db[Verification(q)]
    BY <1>2, <1>3, HeldRows, VerificationType, Keys
  <1>9. users' = [users EXCEPT ![e] = entry] BY <1>4, <1>8
  <1>10. tokens' = [tokens EXCEPT ![r] = "open"] BY <1>7, <1>8
  <1>11. linked' = linked BY <1>8
  <1>12. Book!Unentered(e, r) BY <1>4, <1>5 DEF Book!Unentered, IsUser
  <1>13. tokens[r] = "none" BY <1>6 DEF TokenState
  <1> QED BY <1>4, <1>9, <1>10, <1>11, <1>12, <1>13 DEF Book!Next, Book!Register

\* What a verification publishes is a token used and its account verified, unless
\* another request has done so with the same token.
LEMMA VerifyRefines ==
  ASSUME IInv, NEW r \in Reqs, CommitTransaction(r), job[r].op = "verify"
  PROVE  \/ Book!Next
         \/ /\ \A a \in Emails : db'[a] = db[a]
            /\ \A q \in Reqs : TokenState(db'[Verification(q)]) = TokenState(db[Verification(q)])
            /\ \A i \in Identities : db'[i] = db[i]
  <1> DEFINE tok == job[r].tok
             id == job[r].user
             e == job[id].email
             users == [a \in Emails |-> db[a]]
             tokens == [q \in Reqs |-> TokenState(db[Verification(q)])]
             linked == [i \in Identities |-> LinkedUser(db[i])]
  <1>1. TypeOK /\ RequestInv(r) BY DEF IInv
  <1>2. pc[r] = "commit" /\ \A x \in Rows : db'[x] = IF lock[x] = r THEN work[x] ELSE db[x]
    BY DEF CommitTransaction, Commit
  <1>3. UsesToken(r) /\ VerifiesUser(r) /\ ~MakesUser(r) /\ ~MakesToken(r) /\ ~Links(r)
    BY <1>2 DEF MakesUser, MakesToken, UsesToken, VerifiesUser, Links
  <1>4. /\ tok \in Verifications /\ id = tok[1] /\ db[tok] # None
        /\ work[tok] = [user |-> tok[1], used |-> TRUE]
        /\ e \in Emails /\ db[e] # None /\ db[e].id = id /\ work[e] = VerifiedUser(db[e])
    BY <1>1, <1>2, <1>3 DEF RequestInv, VerifyInv
  <1>5. id \in Reqs /\ tok = Verification(id) BY <1>4, TokenIsOf
  <1>6. db'[e] = VerifiedUser(db[e]) BY <1>2, <1>3, <1>4, HeldRows, Keys
  <1>7. TokenState(db'[tok]) = "used"
    <2>1. db'[tok] = [user |-> tok[1], used |-> TRUE]
      BY <1>2, <1>3, <1>4, HeldRows, Keys
    <2>2. tok[1] \in Reqs BY <1>4, <1>5
    <2> QED BY <2>1, <2>2, TokenRowIsNotNone DEF TokenState
  <1>8. /\ \A a \in Emails \ {e} : db'[a] = db[a]
        /\ \A i \in Identities : db'[i] = db[i]
        /\ \A q \in Reqs \ {id} : db'[Verification(q)] = db[Verification(q)]
    <2>1. \A a \in Emails \ {e} : lock[a] # r BY <1>3, HeldRows
    <2>2. \A i \in Identities : lock[i] # r BY <1>3, HeldRows
    <2>3. ASSUME NEW q \in Reqs \ {id} PROVE lock[Verification(q)] # r
      <3>1. Verification(q) \in Verifications /\ Verification(q)[1] = q BY VerificationType
      <3>2. Verification(q) # tok BY <1>4, <3>1
      <3> QED BY <1>3, <3>1, <3>2, HeldRows
    <2> QED BY <1>2, <2>1, <2>2, <2>3, VerificationType, Keys
  <1>9. db[e] \in User /\ db[tok] \in EmailVerification
    BY <1>1, <1>4 DEF TypeOK, StoreType
  <1>10. db[e].local
    <2>1. job[id].op = "signup" BY <1>4 DEF IInv, TokenRow, IssuedBySignup
    <2> QED BY <1>4, <1>9, <2>1 DEF IInv, UserRow, MadeBy, User
  <1>11. db[e].verified <=> db[tok].used
    BY <1>4, <1>5, <1>10 DEF IInv, UserRow
  <1>12. CASE db[tok].used
    <2>1. db[e].verified = TRUE BY <1>9, <1>11, <1>12 DEF User
    <2>2. db'[e] = db[e] BY <1>6, <1>9, <2>1 DEF VerifiedUser, User
    <2>3. TokenState(db[tok]) = "used" BY <1>4, <1>12 DEF TokenState
    <2> QED BY <1>5, <1>7, <1>8, <2>2, <2>3
  <1>13. CASE ~db[tok].used
    <2>1. tokens[id] = "open" /\ ~users[e].verified /\ users[e].local
      BY <1>4, <1>5, <1>10, <1>11, <1>13 DEF TokenState
    <2>2. users[e].id = id BY <1>4
    <2>3. users' = [users EXCEPT ![e] = [id |-> users[e].id, local |-> TRUE, verified |-> TRUE]]
      <3>1. db[e].local = TRUE BY <1>9, <1>10 DEF User
      <3>2. db'[e] = [id |-> db[e].id, local |-> TRUE, verified |-> TRUE]
        BY <1>6, <3>1 DEF VerifiedUser
      <3> QED BY <1>4, <1>8, <3>2
    <2>4. tokens' = [tokens EXCEPT ![id] = "used"] BY <1>5, <1>7, <1>8
    <2>5. linked' = linked BY <1>8
    <2>6. PICK a \in Emails : a = e BY <1>4
    <2>7. Book!Verify(a) BY <1>4, <2>1, <2>2, <2>3, <2>4, <2>5, <2>6 DEF Book!Verify
    <2> QED BY <2>7 DEF Book!Next
  <1> QED BY <1>12, <1>13

\* What a callback publishes is a link to an account of the book, or one that is
\* entered with it, or what the book holds already.
LEMMA CallbackRefines ==
  ASSUME IInv, NEW r \in Reqs, CommitTransaction(r), job[r].op = "oauth"
  PROVE  \/ Book!Next
         \/ /\ \A a \in Emails : db'[a] = db[a]
            /\ \A q \in Reqs : db'[Verification(q)] = db[Verification(q)]
            /\ \A i \in Identities : db'[i] = db[i]
  <1> DEFINE i == job[r].ident
             users == [a \in Emails |-> db[a]]
             tokens == [q \in Reqs |-> TokenState(db[Verification(q)])]
             linked == [x \in Identities |-> LinkedUser(db[x])]
  <1>1. TypeOK /\ RequestInv(r) BY DEF IInv
  <1>2. pc[r] = "commit" /\ \A x \in Rows : db'[x] = IF lock[x] = r THEN work[x] ELSE db[x]
    BY DEF CommitTransaction, Commit
  <1>3. Links(r) /\ ~UsesToken(r) /\ ~VerifiesUser(r) /\ ~MakesToken(r)
    BY <1>2 DEF MakesToken, UsesToken, VerifiesUser, Links
  <1>4. /\ i \in Identities /\ lock[i] = r /\ db'[i] = work[i]
        /\ \/ db[i] = None /\ work[i] = [user |-> job[r].user]
           \/ db[i] # None /\ work[i] = db[i] /\ job[r].user # r
    BY <1>1, <1>2, <1>3, HeldRows, Keys DEF RequestInv, OAuthInv
  <1>5. /\ \A x \in Identities \ {i} : db'[x] = db[x]
        /\ \A q \in Reqs : db'[Verification(q)] = db[Verification(q)]
        /\ \A a \in Emails : ~MakesUser(r) \/ a # job[r].email => db'[a] = db[a]
    BY <1>2, <1>3, HeldRows, VerificationType, Keys
  <1>6. tokens' = tokens BY <1>5
  <1>7. CASE job[r].user = r
    <2> DEFINE e == job[r].email
               entry == [id |-> r, local |-> FALSE, verified |-> TRUE]
    <2>1. MakesUser(r) BY <1>2, <1>3, <1>7 DEF MakesUser
    <2>2. e \in Emails /\ db[e] = None /\ db'[e] = entry
      <3>1. e \in Emails /\ db[e] = None BY <1>1, <2>1 DEF RequestInv, NewRows
      <3>2. (job[r].op = "signup") = FALSE
            /\ (job[r].op = "oauth" /\ pc[r] \in {"link", "commit"}) = TRUE
        BY <1>2
      <3>3. work[e] = entry BY <1>1, <2>1, <3>2 DEF RequestInv, NewRows
      <3> QED BY <1>2, <2>1, <3>1, <3>3, HeldRows, Keys
    <2>3. ~IsUser(r) BY <2>2, UserAt
    <2>4. db[Verification(r)] = None
      BY <2>3, VerificationType DEF IInv, TokenRow
    <2>5. LinkedUser(db[i]) = None /\ LinkedUser(db'[i]) = r
      <3>1. [user |-> r] # None BY NoneIsNoRow DEF OAuthAccount
      <3> QED BY <1>4, <1>7, <3>1 DEF LinkedUser
    <2>6. Book!Unentered(e, r) BY <2>2, <2>3 DEF Book!Unentered, IsUser
    <2>7. users' = [users EXCEPT ![e] = entry] BY <1>5, <2>2
    <2>8. linked' = [linked EXCEPT ![i] = r] BY <1>4, <1>5, <2>5
    <2>9. tokens[r] = "none" /\ linked[i] = None BY <1>4, <2>4, <2>5 DEF TokenState
    <2> QED BY <1>4, <1>6, <2>2, <2>6, <2>7, <2>8, <2>9 DEF Book!Next, Book!Join
  <1>8. CASE job[r].user # r
    <2>1. ~MakesUser(r) BY <1>8 DEF MakesUser
    <2>2. IsUser(job[r].user) BY <1>1, <1>2, <1>3, <1>8 DEF RequestInv, OAuthInv, Links
    <2>3. PICK e \in Emails : db[e] # None /\ db[e].id = job[r].user BY <2>2 DEF IsUser
    <2>4. users' = users BY <1>5, <2>1
    <2>5. CASE db[i] = None /\ work[i] = [user |-> job[r].user]
      <3>1. job[r].user \in Reqs BY <1>1, <2>3 DEF TypeOK, StoreType, User
      <3>2. [user |-> job[r].user] # None BY <3>1, NoneIsNoRow DEF OAuthAccount
      <3>3. LinkedUser(db[i]) = None /\ LinkedUser(db'[i]) = users[e].id
        BY <1>4, <2>3, <2>5, <3>2 DEF LinkedUser
      <3>4. linked' = [linked EXCEPT ![i] = users[e].id] BY <1>4, <1>5, <3>3
      <3>5. linked[i] = None /\ users[e] # None BY <1>4, <2>3, <3>3
      <3> QED BY <1>4, <1>6, <2>4, <3>4, <3>5 DEF Book!Next, Book!Link
    <2>6. CASE db[i] # None /\ work[i] = db[i] BY <1>4, <1>5, <2>1, <2>6
    <2> QED BY <1>4, <2>5, <2>6
  <1> QED BY <1>7, <1>8

\* The committed tables of any number of requests change as the account book does:
\* account and token, or account and identity, in one step, and nothing is undone.
THEOREM BookImplemented == Spec => ImplementsBook
  <1> DEFINE users == [e \in Emails |-> db[e]]
             tokens == [r \in Reqs |-> TokenState(db[Verification(r)])]
             linked == [i \in Identities |-> LinkedUser(db[i])]
  <1>1. Init => Book!Init
    BY Keys, VerificationType DEF Init, Book!Init, TokenState, LinkedUser
  <1>2. IInv /\ [Next]_vars => [Book!Next]_<<users, tokens, linked>>
    <2> SUFFICES ASSUME IInv, [Next]_vars, ~Book!Next
                 PROVE  users' = users /\ tokens' = tokens /\ linked' = linked
      OBVIOUS
    <2>1. CASE \A r \in Reqs : ~CommitTransaction(r) BY <2>1, DatabaseKept
    <2>2. ASSUME NEW r \in Reqs, CommitTransaction(r)
          PROVE  users' = users /\ tokens' = tokens /\ linked' = linked
      <3>1. job[r].op \in {"signup", "verify", "oauth"} BY JobType DEF IInv, TypeOK
      <3>2. job[r].op # "signup" BY <2>2, SignupRefines
      <3>3. /\ \A e \in Emails : db'[e] = db[e]
            /\ \A q \in Reqs : TokenState(db'[Verification(q)]) = TokenState(db[Verification(q)])
            /\ \A i \in Identities : db'[i] = db[i]
        BY <2>2, <3>1, <3>2, VerifyRefines, CallbackRefines
      <3> QED BY <3>3
    <2> QED BY <2>1, <2>2
  <1> QED BY <1>1, <1>2, Invariant, PTL DEF Spec, ImplementsBook, Book!Spec

=============================================================================
