------------------------- MODULE AccessTokensProofs -------------------------
(***************************************************************************)
(* Proofs about access tokens and permissions, for any number of requests,  *)
(* tokens, roles and ticks.                                                 *)
(*                                                                          *)
(* A blacklist key must be long enough whenever it was set and, once Redis  *)
(* has dropped it, the clock must be where the key ended: Kept says both of *)
(* every token whose logout has answered.  What a request was let through   *)
(* on was read by three statements: Sees says that each read is of a state   *)
(* the account had since the request came, and that two such states, when   *)
(* there are no more, differ in one column only.                            *)
(***************************************************************************)
EXTENDS AccessTokens, FiniteSetTheorems, TLAPS

(***************************************************************************)
(* The inductive invariant.                                                 *)
(***************************************************************************)
LastSecond(t) == ExpiresAt(t) - Second

Kept(t) ==
    /\ exp[t] # 0
    /\ until[t] # 0 => until[t] > LastSecond(t)
    /\ until[t] = 0 => now > LastSecond(t)

\* The token of a request was minted; if its logout had answered before, the
\* request passed the blacklist only in the last second.
Credentials(r) ==
    /\ pc[r] \in Waiting => exp[job[r].tok] # 0
    /\ job[r].late =>
        /\ pc[r] \in Waiting \cup {"accepted"}
        /\ job[r].tok \in loggedOut
        /\ pc[r] # "check" => job[r].at > LastSecond(job[r].tok)

\* Two states of the account that one edit of it leads between.
Near(a, b) ==
    \/ a.roles = b.roles /\ a.granting = b.granting
    \/ a.active = b.active /\ a.granting = b.granting
    \/ a.active = b.active /\ a.roles = b.roles

Held(r) == \E a \in saw[r] : a.active /\ HasPermission(a.roles, a.granting)

Sees(r) ==
    /\ IsFiniteSet(saw[r])
    /\ Cardinality(saw[r]) <= 2 => \A a, b \in saw[r] : Near(a, b)
    /\ pc[r] \in Waiting /\ (saw[r] # {} \/ job[r].op = "use") => account \in saw[r]
    /\ pc[r] = "blacklist" => job[r].op = "logout"
    /\ job[r].op = "use" =>
        /\ pc[r] \in {"roles", "permissions"} => \E a \in saw[r] : job[r].active = a.active
        /\ pc[r] = "permissions" => \E a \in saw[r] : job[r].roles = a.roles
        /\ pc[r] = "accepted" /\ Cardinality(saw[r]) <= 2 => Held(r)

IInv ==
    /\ TypeOK
    /\ \A t \in loggedOut : Kept(t)
    /\ \A r \in Reqs : Credentials(r) /\ Sees(r)

(***************************************************************************)
(* Facts about the operators.                                               *)
(***************************************************************************)
\* A key set at any instant ends within a second of the exp of its token, or later.
LEMMA KeyLongEnough ==
  ASSUME TypeOK, NEW t \in Access
  PROVE  /\ SecondsUntil(t) \in Nat \ {0}
         /\ now + Second * SecondsUntil(t) \in Nat
         /\ now + Second * SecondsUntil(t) > now
         /\ now + Second * SecondsUntil(t) > LastSecond(t)
  <1> DEFINE left == ExpiresAt(t) - now
             q == left \div Second
             s == SecondsUntil(t)
  <1>1. now \in Nat /\ exp[t] \in Nat /\ Second \in Nat \ {0}
    BY AccessTokensAssumption DEF TypeOK
  <1>2. ExpiresAt(t) \in Nat BY <1>1 DEF ExpiresAt
  <1>3. left \in Int BY <1>1, <1>2
  <1>4. q \in Int /\ left < Second * q + Second
    <2> HIDE DEF left
    <2> QED BY <1>1, <1>3
  <1>5. s \in Nat \ {0} /\ s >= q
    <2> HIDE DEF q
    <2>1. s = Larger(1, q) BY DEF SecondsUntil, q
    <2> QED BY <1>4, <2>1 DEF Larger
  <1>6. Second * s \in Nat /\ Second * s >= Second /\ Second * s >= Second * q
    <2> HIDE DEF q, s
    <2> QED BY <1>1, <1>4, <1>5
  <1>7. now + Second * s > LastSecond(t)
    <2> DEFINE sq == Second * q
               ss == Second * s
    <2>1. sq \in Int BY <1>1, <1>4
    <2>2. left = ExpiresAt(t) - now /\ left < sq + Second /\ ss >= sq /\ ss \in Nat
      BY <1>4, <1>6
    <2> HIDE DEF left, q, s, sq, ss
    <2>3. now + ss > ExpiresAt(t) - Second BY <1>1, <1>2, <1>3, <2>1, <2>2
    <2> QED BY <2>3 DEF LastSecond, ss
  <1>8. now + Second * s \in Nat /\ now + Second * s > now
    <2> HIDE DEF s
    <2> QED BY <1>1, <1>6
  <1> QED BY <1>5, <1>7, <1>8

\* States that are near each other differ in one column: what is read of them at
\* three moments is what one of them says.
LEMMA OneMoment ==
  ASSUME NEW S \in SUBSET Account, \A a, b \in S : Near(a, b),
         NEW x \in S, NEW y \in S, NEW z \in S
  PROVE  \E a \in S : a.active = x.active /\ a.roles = y.roles /\ a.granting = z.granting
  BY DEF Near

\* One more state, an edit away from the current one.
LEMMA OneMoreState ==
  ASSUME NEW S \in SUBSET Account, IsFiniteSet(S), NEW a \in S, NEW b \in Account,
         Near(a, b), Near(b, a),
         Cardinality(S) <= 2 => \A x, y \in S : Near(x, y)
  PROVE  /\ IsFiniteSet(S \cup {b})
         /\ Cardinality(S \cup {b}) <= 2 => \A x, y \in S \cup {b} : Near(x, y)
  <1>1. IsFiniteSet(S \cup {b})
        /\ Cardinality(S \cup {b}) = IF b \in S THEN Cardinality(S) ELSE Cardinality(S) + 1
    BY FS_AddElement
  <1>2. Cardinality(S) \in Nat BY FS_CardinalityType
  <1>3. CASE b \in S
    <2>1. S \cup {b} = S BY <1>3
    <2> QED BY <1>1, <2>1
  <1>4. CASE b \notin S /\ Cardinality(S \cup {b}) <= 2
    <2>1. Cardinality(S) <= 1 BY <1>1, <1>2, <1>4
    <2>2. Cardinality(S) # 0 BY FS_EmptySet
    <2>3. Cardinality(S) = 1 BY <1>2, <2>1, <2>2
    <2>4. PICK x : S = {x} BY <2>3, FS_Singleton
    <2>5. S \cup {b} = {a, b} BY <2>4
    <2>6. Near(a, a) /\ Near(b, b) BY DEF Near
    <2> QED BY <1>1, <2>5, <2>6
  <1> QED BY <1>1, <1>3, <1>4

\* One edit of an operator changes one field of the account: old and new are near.
LEMMA EditIsNear ==
  ASSUME TypeOK,
         NEW a \in {[account EXCEPT !.active = ~@]}
                     \cup {[account EXCEPT !.roles = Flip(@, x)] : x \in Roles}
                     \cup {[account EXCEPT !.granting = Flip(@, x)] : x \in Roles}
  PROVE  a \in Account /\ Near(account, a) /\ Near(a, account)
  <1>1. account \in Account BY DEF TypeOK
  <1>2. \A S \in SUBSET Roles, x \in Roles : Flip(S, x) \in SUBSET Roles BY DEF Flip
  <1> QED BY <1>1, <1>2 DEF Account, Near

\* What a step leaves of a request it does not touch.
LEMMA RequestKept ==
  ASSUME IInv, NEW r \in Reqs, loggedOut \subseteq loggedOut',
         \A t \in Access : exp[t] # 0 => exp'[t] = exp[t],
         pc'[r] = pc[r], job'[r] = job[r], saw'[r] = saw[r], account' = account
  PROVE  Credentials(r)' /\ Sees(r)'
  <1>1. Credentials(r) /\ Sees(r) BY DEF IInv
  <1>2. Credentials(r)'
    <2>1. (pc[r] \in Waiting => exp[job[r].tok] # 0)'
      BY <1>1 DEF Credentials, IInv, TypeOK
    <2>2. ASSUME job[r].late
          PROVE  /\ pc[r] \in Waiting \cup {"accepted"}
                 /\ job[r].tok \in loggedOut'
                 /\ pc[r] # "check" => job[r].at > LastSecond(job[r].tok)'
      <3>1. job[r].tok \in loggedOut BY <1>1, <2>2 DEF Credentials
      <3>2. job[r].tok \in Access /\ exp[job[r].tok] # 0 BY <3>1 DEF IInv, TypeOK, Kept
      <3>3. LastSecond(job[r].tok)' = LastSecond(job[r].tok)
        BY <3>2 DEF LastSecond, ExpiresAt
      <3> QED BY <1>1, <2>2, <3>1, <3>3 DEF Credentials
    <2> QED BY <2>1, <2>2 DEF Credentials
  <1>3. Sees(r)' BY <1>1 DEF Sees, Held
  <1> QED BY <1>2, <1>3

\* A refused request has nothing left to be held to.
LEMMA RefusedHolds ==
  ASSUME IInv, NEW r \in Reqs, NEW end \in {"denied", "forbidden", "failed"},
         pc'[r] = end, job'[r] = Blank, saw'[r] = {}
  PROVE  Credentials(r)' /\ Sees(r)'
  BY FS_EmptySet DEF Credentials, Sees, Blank, Waiting

(***************************************************************************)
(* The initial states, and one lemma per action.                            *)
(***************************************************************************)
LEMMA InitInv == Init => IInv
  <1> SUFFICES ASSUME Init PROVE IInv OBVIOUS
  <1>1. TypeOK
    BY AccessTokensAssumption DEF Init, TypeOK, Account, Job, Blank, Waiting, Ended
  <1>2. \A r \in Reqs : Credentials(r) /\ Sees(r)
    BY FS_EmptySet DEF Init, Credentials, Sees, Blank, Waiting
  <1> QED BY <1>1, <1>2 DEF Init, IInv

\* A token that is minted belongs to no request and no logout yet.
LEMMA CreateInv ==
  ASSUME IInv, NEW t \in Access, CreateAccessToken(t)
  PROVE  IInv'
  <1>1. TypeOK BY DEF IInv
  <1>2. exp[t] = 0 /\ exp' = [exp EXCEPT ![t] = now \div Second + Lifetime]
        /\ UNCHANGED <<now, until, account, pc, job, edits, loggedOut, saw>>
    BY DEF CreateAccessToken
  <1>3. now \div Second + Lifetime \in Nat \ {0}
    BY <1>1, AccessTokensAssumption DEF TypeOK
  <1>5. TypeOK'
    <2>1. exp' \in [Access -> Nat] /\ \A u \in Access : exp[u] # 0 => exp'[u] # 0
      BY <1>1, <1>2, <1>3 DEF TypeOK
    <2> QED BY <1>1, <1>2, <2>1 DEF TypeOK
  <1>6. \A u \in Access : exp[u] # 0 => exp'[u] = exp[u] BY <1>1, <1>2 DEF TypeOK
  <1>7. ASSUME NEW u \in loggedOut' PROVE Kept(u)'
    <2>1. u \in Access /\ Kept(u) /\ exp'[u] = exp[u]
      BY <1>1, <1>2, <1>6 DEF IInv, TypeOK, Kept
    <2> QED BY <1>2, <2>1 DEF Kept, LastSecond, ExpiresAt
  <1>8. \A r \in Reqs : Credentials(r)' /\ Sees(r)' BY <1>2, <1>6, RequestKept
  <1> QED BY <1>5, <1>7, <1>8 DEF IInv

\* The clock moves: what was asked of the blacklist was asked earlier.
LEMMA TickInv ==
  ASSUME IInv, Tick
  PROVE  IInv'
  <1>1. TypeOK BY DEF IInv
  <1>2. now' = now + 1
        /\ until' = [u \in Access |-> IF until[u] <= now + 1 THEN 0 ELSE until[u]]
        /\ UNCHANGED <<exp, account, pc, job, edits, loggedOut, saw>>
    BY DEF Tick
  <1>3. now \in Nat /\ \A u \in Access : until[u] \in Nat BY <1>1 DEF TypeOK
  <1>4. TypeOK'
    <2>1. now' \in Nat /\ until' \in [Access -> Nat] BY <1>2, <1>3
    <2>2. \A u \in Access : until'[u] # 0 => until'[u] > now' /\ exp'[u] # 0
      BY <1>1, <1>2, <1>3 DEF TypeOK
    <2> QED BY <1>1, <1>2, <2>1, <2>2 DEF TypeOK
  <1>5. ASSUME NEW u \in loggedOut PROVE Kept(u)'
    <2>1. u \in Access /\ Kept(u) BY <1>1 DEF IInv, TypeOK
    <2>2. LastSecond(u) \in Int /\ LastSecond(u)' = LastSecond(u)
      BY <1>1, <1>2, <2>1, AccessTokensAssumption DEF LastSecond, ExpiresAt, TypeOK
    <2>3. until'[u] = IF until[u] <= now + 1 THEN 0 ELSE until[u] BY <1>2, <2>1
    <2>4. exp'[u] # 0 BY <1>2, <2>1 DEF Kept
    <2>5. /\ until'[u] # 0 => until'[u] > LastSecond(u)
          /\ until'[u] = 0 => now' > LastSecond(u)
      <3> DEFINE last == LastSecond(u)
      <3>1. /\ until[u] # 0 => until[u] > last
            /\ until[u] = 0 => now > last
        BY <2>1 DEF Kept
      <3>2. last \in Int /\ until[u] \in Nat BY <1>3, <2>1, <2>2
      <3> HIDE DEF last
      <3>3. /\ until'[u] # 0 => until'[u] > last
            /\ until'[u] = 0 => now' > last
        BY <1>2, <1>3, <2>3, <3>1, <3>2
      <3> QED BY <3>3 DEF last
    <2> QED BY <2>2, <2>4, <2>5 DEF Kept
  <1>6. \A r \in Reqs : Credentials(r)' /\ Sees(r)' BY <1>2, RequestKept
  <1> QED BY <1>2, <1>4, <1>5, <1>6 DEF IInv

\* After an edit every request that runs has seen one state of the account more.
LEMMA AdministerInv ==
  ASSUME IInv, Administer
  PROVE  IInv'
  <1>1. TypeOK BY DEF IInv
  <1>2. edits < Edits /\ edits' = edits + 1
        /\ UNCHANGED <<now, exp, until, pc, job, loggedOut>>
    BY DEF Administer
  <1>3. PICK a \in {[account EXCEPT !.active = ~@]}
                     \cup {[account EXCEPT !.roles = Flip(@, x)] : x \in Roles}
                     \cup {[account EXCEPT !.granting = Flip(@, x)] : x \in Roles} :
          /\ account' = a
          /\ saw' = [r \in Reqs |-> IF pc[r] \in Waiting /\ saw[r] # {} THEN saw[r] \cup {a}
                                ELSE saw[r]]
    BY DEF Administer
  <1>4. a \in Account /\ Near(account, a) /\ Near(a, account) BY <1>1, EditIsNear
  <1>5. TypeOK'
    <2>1. edits' \in 0..Edits BY <1>1, <1>2, AccessTokensAssumption DEF TypeOK
    <2>2. saw' \in [Reqs -> SUBSET Account] BY <1>1, <1>3, <1>4 DEF TypeOK
    <2> QED BY <1>1, <1>2, <1>3, <1>4, <2>1, <2>2 DEF TypeOK
  <1>6. \A u \in loggedOut' : Kept(u)' BY <1>2 DEF IInv, Kept, LastSecond, ExpiresAt
  <1>7. ASSUME NEW r \in Reqs PROVE Credentials(r)' /\ Sees(r)'
    <2>1. Credentials(r) /\ Sees(r) BY DEF IInv
    <2>2. Credentials(r)' BY <1>2, <2>1 DEF Credentials, LastSecond, ExpiresAt
    <2>3. CASE pc[r] \in Waiting /\ saw[r] # {}
      <3>1. saw'[r] = saw[r] \cup {a} BY <1>3, <2>3
      <3>2. account \in saw[r] /\ saw[r] \in SUBSET Account
        BY <1>1, <2>1, <2>3 DEF Sees, TypeOK
      <3>3. /\ IsFiniteSet(saw'[r])
            /\ Cardinality(saw'[r]) <= 2 => \A x, y \in saw'[r] : Near(x, y)
        BY <1>4, <2>1, <3>1, <3>2, OneMoreState DEF Sees
      <3>4. pc[r] # "accepted" BY <2>3 DEF Waiting
      <3>5. account' \in saw'[r] BY <1>3, <3>1
      <3>6. job[r].op = "use" =>
              /\ pc[r] \in {"roles", "permissions"} => \E x \in saw'[r] : job[r].active = x.active
              /\ pc[r] = "permissions" => \E x \in saw'[r] : job[r].roles = x.roles
        BY <2>1, <3>1 DEF Sees
      <3>7. pc[r] = "blacklist" => job[r].op = "logout" BY <2>1 DEF Sees
      <3>8. (Cardinality(saw[r]) <= 2 => \A x, y \in saw[r] : Near(x, y))'
        BY <3>3 DEF Near
      <3>9. /\ IsFiniteSet(saw[r])'
            /\ (pc[r] \in Waiting /\ (saw[r] # {} \/ job[r].op = "use") => account \in saw[r])'
        BY <3>3, <3>5
      <3>10. (job[r].op = "use" =>
                /\ pc[r] \in {"roles", "permissions"} => \E x \in saw[r] : job[r].active = x.active
                /\ pc[r] = "permissions" => \E x \in saw[r] : job[r].roles = x.roles
                /\ pc[r] = "accepted" /\ Cardinality(saw[r]) <= 2 => Held(r))'
        BY <1>2, <3>4, <3>6
      <3>11. (pc[r] = "blacklist" => job[r].op = "logout")' BY <1>2, <3>7
      <3>12. Sees(r)' BY <3>8, <3>9, <3>10, <3>11 DEF Sees
      <3> QED BY <2>2, <3>12
    <2>4. CASE ~(pc[r] \in Waiting /\ saw[r] # {})
      <3>1. saw'[r] = saw[r] BY <1>3, <2>4
      <3>2. ~(pc[r] \in Waiting /\ (saw[r] # {} \/ job[r].op = "use"))
        BY <2>1, <2>4 DEF Sees
      <3> QED BY <1>2, <2>1, <2>2, <3>1, <3>2 DEF Sees, Held
    <2> QED BY <2>3, <2>4
  <1> QED BY <1>5, <1>6, <1>7 DEF IInv

\* A step of one request, of which only its own variables change.
LEMMA StepInv ==
  ASSUME IInv, NEW r \in Reqs, NEW stage, NEW known, NEW states,
         UNCHANGED <<now, exp, until, account, edits, loggedOut>>,
         stage \in {"idle"} \cup Waiting \cup Ended, known \in Job,
         states \in SUBSET Account,
         stage \in Waiting \cup {"accepted"} => known.tok \in Access,
         pc' = [pc EXCEPT ![r] = stage], job' = [job EXCEPT ![r] = known],
         saw' = [saw EXCEPT ![r] = states],
         Credentials(r)' /\ Sees(r)'
  PROVE  IInv'
  <1>1. TypeOK BY DEF IInv
  <1>2. /\ pc'[r] = stage /\ job'[r] = known /\ saw'[r] = states
        /\ \A q \in Reqs \ {r} : pc'[q] = pc[q] /\ job'[q] = job[q] /\ saw'[q] = saw[q]
    BY <1>1 DEF TypeOK
  <1>3. TypeOK'
    <2>1. /\ pc' \in [Reqs -> {"idle"} \cup Waiting \cup Ended]
          /\ job' \in [Reqs -> Job]
          /\ saw' \in [Reqs -> SUBSET Account]
      BY <1>1 DEF TypeOK
    <2>2. \A q \in Reqs : pc'[q] \in Waiting \cup {"accepted"} => job'[q].tok \in Access
      BY <1>1, <1>2 DEF TypeOK
    <2> QED BY <1>1, <2>1, <2>2 DEF TypeOK
  <1>4. \A u \in loggedOut' : Kept(u)' BY DEF IInv, Kept, LastSecond, ExpiresAt
  <1>5. \A q \in Reqs : Credentials(q)' /\ Sees(q)' BY <1>2, RequestKept
  <1> QED BY <1>3, <1>4, <1>5 DEF IInv

\* A refused or failed request claims nothing.
LEMMA RefuseInv ==
  ASSUME IInv, NEW r \in Reqs, NEW end \in {"denied", "forbidden", "failed"}, Refuse(r, end),
         UNCHANGED <<now, exp, until, account, edits, loggedOut>>
  PROVE  IInv'
  <1>1. TypeOK BY DEF IInv
  <1>2. /\ pc' = [pc EXCEPT ![r] = end] /\ job' = [job EXCEPT ![r] = Blank]
        /\ saw' = [saw EXCEPT ![r] = {}]
    BY DEF Refuse, Goto
  <1>3. pc'[r] = end /\ job'[r] = Blank /\ saw'[r] = {} BY <1>1, <1>2 DEF TypeOK
  <1>4. Credentials(r)' /\ Sees(r)' BY <1>3, RefusedHolds
  <1>5. Blank \in Job /\ end \in Ended /\ end \notin Waiting \cup {"accepted"}
        /\ end \in {"idle"} \cup Waiting \cup Ended /\ {} \in SUBSET Account
    BY DEF Blank, Job, Ended, Waiting
  <1> QED BY <1>2, <1>4, <1>5, StepInv

\* A request starts having seen the account as it is.
LEMMA StartInv ==
  ASSUME IInv, NEW r \in Reqs, Start(r)
  PROVE  IInv'
  <1>1. TypeOK BY DEF IInv
  <1>2. UNCHANGED <<now, exp, until, account, edits, loggedOut>> BY DEF Start
  <1>3. CASE Refuse(r, "denied") BY <1>2, <1>3, RefuseInv
  <1>4. CASE ~Refuse(r, "denied")
    <2>1. PICK op \in {"use", "logout"}, t \in Access :
            /\ job' = [job EXCEPT ![r] = [Blank EXCEPT !.op = op, !.tok = t,
                                                       !.late = t \in loggedOut]]
            /\ saw' = [saw EXCEPT ![r] = IF op = "use" THEN {account} ELSE {}]
            /\ Goto(r, "check")
            /\ exp[t] # 0
      BY <1>4 DEF Start, Decodes
    <2> DEFINE known == [Blank EXCEPT !.op = op, !.tok = t, !.late = t \in loggedOut]
               states == IF op = "use" THEN {account} ELSE {}
    <2>2. known \in Job /\ known.op = op /\ known.tok = t /\ (known.late <=> t \in loggedOut)
      <3> DEFINE late == t \in loggedOut
      <3>1. late \in BOOLEAN OBVIOUS
      <3> HIDE DEF late
      <3>2. [Blank EXCEPT !.op = op, !.tok = t, !.late = late] \in Job
            /\ [Blank EXCEPT !.op = op, !.tok = t, !.late = late].op = op
            /\ [Blank EXCEPT !.op = op, !.tok = t, !.late = late].tok = t
            /\ [Blank EXCEPT !.op = op, !.tok = t, !.late = late].late = late
        BY <3>1 DEF Blank, Job
      <3> QED BY <3>2 DEF late
    <2>3. states \in SUBSET Account /\ IsFiniteSet(states) /\ (op = "use" => account \in states)
          /\ \A a, b \in states : Near(a, b)
      BY <1>1, FS_EmptySet, FS_Singleton DEF TypeOK, Near
    <2> HIDE DEF known, states
    <2>4. /\ pc' = [pc EXCEPT ![r] = "check"] /\ job' = [job EXCEPT ![r] = known]
          /\ saw' = [saw EXCEPT ![r] = states]
      BY <2>1 DEF Goto, known, states
    <2>5. pc'[r] = "check" /\ job'[r] = known /\ saw'[r] = states
      BY <1>1, <2>4 DEF TypeOK
    <2>10. exp[t] # 0 BY <2>1
    <2>6. Credentials(r)' BY <1>2, <2>2, <2>5, <2>10 DEF Credentials, Waiting
    <2>7. Sees(r)'
      <3>1. (Cardinality(saw[r]) <= 2 => \A a, b \in saw[r] : Near(a, b))'
        BY <2>3, <2>5 DEF Near
      <3>2. op # "use" => states = {} BY DEF states
      <3> QED BY <1>2, <2>2, <2>3, <2>5, <3>1, <3>2 DEF Sees
    <2>8. "check" \in Waiting BY DEF Waiting
    <2> QED BY <1>2, <2>2, <2>3, <2>4, <2>6, <2>7, <2>8, StepInv
  <1> QED BY <1>3, <1>4

\* A late request passes the blacklist only when the key has gone.
LEMMA CheckBlacklistInv ==
  ASSUME IInv, NEW r \in Reqs, CheckBlacklist(r)
  PROVE  IInv'
  <1>1. TypeOK /\ Credentials(r) /\ Sees(r) BY DEF IInv
  <1>2. pc[r] = "check" /\ UNCHANGED <<now, exp, until, account, edits, loggedOut>>
    BY DEF CheckBlacklist
  <1>3. CASE Refuse(r, "denied") BY <1>2, <1>3, RefuseInv
  <1>4. CASE ~Refuse(r, "denied")
    <2>1. /\ until[job[r].tok] = 0
          /\ job' = [job EXCEPT ![r].at = IF job[r].late THEN now ELSE 0]
          /\ pc' = [pc EXCEPT ![r] = "user"] /\ saw' = saw
      BY <1>4 DEF CheckBlacklist, Blacklisted, Goto
    <2> DEFINE known == [job[r] EXCEPT !.at = IF job[r].late THEN now ELSE 0]
    <2>2. /\ known \in Job /\ known.tok = job[r].tok /\ known.op = job[r].op
          /\ known.late = job[r].late /\ (job[r].late => known.at = now)
      BY <1>1 DEF TypeOK, Job
    <2>3. job' = [job EXCEPT ![r] = known] /\ saw' = [saw EXCEPT ![r] = saw[r]]
      BY <1>1, <2>1 DEF TypeOK
    <2> HIDE DEF known
    <2>4. pc'[r] = "user" /\ job'[r] = known /\ saw'[r] = saw[r]
      BY <1>1, <2>1, <2>3 DEF TypeOK
    <2>5. "user" \in Waiting /\ "check" \in Waiting BY DEF Waiting
    <2>6. Credentials(r)'
      <3>0. (pc[r] \in Waiting => exp[job[r].tok] # 0)'
        BY <1>1, <1>2, <2>2, <2>4, <2>5 DEF Credentials
      <3> SUFFICES ASSUME job[r].late PROVE Credentials(r)' BY <2>2, <2>4, <3>0 DEF Credentials
      <3>1. job[r].tok \in loggedOut BY <1>1 DEF Credentials
      <3>2. now > LastSecond(job[r].tok) BY <2>1, <3>1 DEF IInv, Kept
      <3>3. LastSecond(job[r].tok)' = LastSecond(job[r].tok)
        BY <1>2, <2>2, <2>4 DEF LastSecond, ExpiresAt
      <3> QED BY <1>2, <2>2, <2>4, <2>5, <3>0, <3>1, <3>2, <3>3 DEF Credentials
    <2>7. Sees(r)' BY <1>1, <1>2, <2>2, <2>4, <2>5 DEF Sees
    <2>8. saw[r] \in SUBSET Account /\ job[r].tok \in Access
      BY <1>1, <1>2, <2>5 DEF TypeOK
    <2> QED BY <1>2, <2>1, <2>2, <2>3, <2>5, <2>6, <2>7, <2>8, StepInv
  <1> QED BY <1>3, <1>4

\* A statement of get_current_user that reads one column and goes on.
LEMMA ReadInv ==
  ASSUME IInv, NEW r \in Reqs, NEW stage \in {"roles", "permissions"},
         NEW known \in Job, known.op = job[r].op, known.tok = job[r].tok,
         known.late = job[r].late, known.at = job[r].at,
         pc[r] \in {"user", "roles"}, pc' = [pc EXCEPT ![r] = stage],
         job' = [job EXCEPT ![r] = known],
         UNCHANGED <<now, exp, until, account, edits, loggedOut, saw>>,
         job[r].op = "use" => /\ \E a \in saw[r] : known.active = a.active
                              /\ stage = "permissions" => \E a \in saw[r] : known.roles = a.roles
  PROVE  IInv'
  <1>1. TypeOK /\ Credentials(r) /\ Sees(r) BY DEF IInv
  <1>2. pc'[r] = stage /\ job'[r] = known /\ saw'[r] = saw[r] BY <1>1 DEF TypeOK
  <1>3. pc[r] \in Waiting \ {"check"} /\ stage \in Waiting \ {"check", "blacklist"}
        /\ stage # "accepted"
    BY DEF Waiting
  <1>4. Credentials(r)' BY <1>1, <1>2, <1>3 DEF Credentials, LastSecond, ExpiresAt
  <1>5. Sees(r)'
    <2>1. /\ IsFiniteSet(saw[r])'
          /\ (Cardinality(saw[r]) <= 2 => \A a, b \in saw[r] : Near(a, b))'
      BY <1>1, <1>2 DEF Sees, Near
    <2>2. (pc[r] \in Waiting /\ (saw[r] # {} \/ job[r].op = "use") => account \in saw[r])'
      BY <1>1, <1>2, <1>3 DEF Sees
    <2> QED BY <1>1, <1>2, <1>3, <2>1, <2>2 DEF Sees
  <1>6. saw' = [saw EXCEPT ![r] = saw[r]] /\ saw[r] \in SUBSET Account /\ known.tok \in Access
    BY <1>1, <1>3 DEF TypeOK
  <1> QED BY <1>3, <1>4, <1>5, <1>6, StepInv

\* is_active is read from a state of the account the request has seen.
LEMMA ReadUserInv ==
  ASSUME IInv, NEW r \in Reqs, ReadUser(r)
  PROVE  IInv'
  <1>1. TypeOK /\ Sees(r) BY DEF IInv
  <1>2. /\ pc[r] = "user" /\ pc' = [pc EXCEPT ![r] = "roles"]
        /\ job' = [job EXCEPT ![r].active = account.active]
        /\ UNCHANGED <<now, exp, until, account, edits, loggedOut, saw>>
    BY DEF ReadUser, Goto
  <1> DEFINE known == [job[r] EXCEPT !.active = account.active]
  <1>3. /\ known \in Job /\ known.op = job[r].op /\ known.tok = job[r].tok
        /\ known.late = job[r].late /\ known.at = job[r].at /\ known.active = account.active
    BY <1>1 DEF TypeOK, Job, Account
  <1>4. job' = [job EXCEPT ![r] = known] BY <1>1, <1>2 DEF TypeOK
  <1>5. job[r].op = "use" => account \in saw[r] BY <1>1, <1>2 DEF Sees, Waiting
  <1> HIDE DEF known
  <1> QED BY <1>2, <1>3, <1>4, <1>5, ReadInv

\* The roles are read from a state of the account the request has seen.
LEMMA ReadRolesInv ==
  ASSUME IInv, NEW r \in Reqs, ReadRoles(r)
  PROVE  IInv'
  <1>1. TypeOK /\ Sees(r) BY DEF IInv
  <1>2. /\ pc[r] = "roles" /\ pc' = [pc EXCEPT ![r] = "permissions"]
        /\ job' = [job EXCEPT ![r].roles = account.roles]
        /\ UNCHANGED <<now, exp, until, account, edits, loggedOut, saw>>
    BY DEF ReadRoles, Goto
  <1> DEFINE known == [job[r] EXCEPT !.roles = account.roles]
  <1>3. /\ known \in Job /\ known.op = job[r].op /\ known.tok = job[r].tok
        /\ known.late = job[r].late /\ known.at = job[r].at /\ known.roles = account.roles
        /\ known.active = job[r].active
    BY <1>1 DEF TypeOK, Job, Account
  <1>4. job' = [job EXCEPT ![r] = known] BY <1>1, <1>2 DEF TypeOK
  <1>5. job[r].op = "use" => /\ account \in saw[r]
                             /\ \E a \in saw[r] : job[r].active = a.active
    BY <1>1, <1>2 DEF Sees, Waiting
  <1> HIDE DEF known
  <1>6. job[r].op = "use" => /\ \E a \in saw[r] : known.active = a.active
                             /\ \E a \in saw[r] : known.roles = a.roles
    BY <1>3, <1>5
  <1> QED BY <1>2, <1>3, <1>4, <1>6, ReadInv

\* The permissions are read last: the three readings are of states the request has seen.
LEMMA ReadPermissionsInv ==
  ASSUME IInv, NEW r \in Reqs, ReadPermissions(r)
  PROVE  IInv'
  <1>1. TypeOK /\ Credentials(r) /\ Sees(r) BY DEF IInv
  <1>2. pc[r] = "permissions" /\ UNCHANGED <<now, exp, until, account, edits, loggedOut>>
    BY DEF ReadPermissions
  <1>3. CASE ~Admits(r)
    <2>1. Refuse(r, IF job[r].active THEN "forbidden" ELSE "denied")
      BY <1>3 DEF ReadPermissions
    <2> QED BY <1>2, <2>1, RefuseInv
  <1>4. CASE Admits(r)
    <2> DEFINE stage == IF job[r].op = "use" THEN "accepted" ELSE "blacklist"
    <2>1. pc' = [pc EXCEPT ![r] = stage] /\ UNCHANGED <<job, saw>>
      BY <1>4 DEF ReadPermissions, Goto
    <2>2. pc'[r] = stage /\ job'[r] = job[r] /\ saw'[r] = saw[r]
      BY <1>1, <2>1 DEF TypeOK
    <2>3. job[r] \in Job /\ job[r].tok \in Access /\ saw[r] \in SUBSET Account
          /\ job' = [job EXCEPT ![r] = job[r]] /\ saw' = [saw EXCEPT ![r] = saw[r]]
      BY <1>1, <1>2, <2>1 DEF TypeOK, Waiting
    <2>4. job[r].op \in {"use", "logout"} BY <2>3 DEF Job
    <2>5. stage \in Waiting \cup {"accepted"} /\ stage \notin {"check", "roles", "permissions"}
      BY DEF Waiting
    <2>6. Credentials(r)' BY <1>1, <1>2, <2>2, <2>5 DEF Credentials, LastSecond, ExpiresAt, Waiting
    <2>7. job[r].op = "use" /\ Cardinality(saw[r]) <= 2 => Held(r)
      <3> SUFFICES ASSUME job[r].op = "use", Cardinality(saw[r]) <= 2 PROVE Held(r)
        OBVIOUS
      <3>1. \A a, b \in saw[r] : Near(a, b) BY <1>1 DEF Sees
      <3>2. account \in saw[r] BY <1>1, <1>2 DEF Sees, Waiting
      <3>3. PICK x \in saw[r] : job[r].active = x.active BY <1>1, <1>2 DEF Sees
      <3>4. PICK y \in saw[r] : job[r].roles = y.roles BY <1>1, <1>2 DEF Sees
      <3>5. PICK a \in saw[r] : a.active = x.active /\ a.roles = y.roles
                                /\ a.granting = account.granting
        BY <2>3, <3>1, <3>2, OneMoment
      <3>6. job[r].active /\ HasPermission(job[r].roles, account.granting)
        BY <1>4 DEF Admits
      <3> QED BY <3>3, <3>4, <3>5, <3>6 DEF Held
    <2>8. Sees(r)'
      <3>1. (Cardinality(saw[r]) <= 2 => \A a, b \in saw[r] : Near(a, b))'
        BY <1>1, <2>2 DEF Sees, Near
      <3>2. (pc[r] \in Waiting /\ (saw[r] # {} \/ job[r].op = "use") => account \in saw[r])'
        BY <1>1, <1>2, <2>2 DEF Sees, Waiting
      <3>3. (job[r].op = "use" /\ Cardinality(saw[r]) <= 2 => Held(r))'
        BY <2>2, <2>7 DEF Held
      <3>4. (pc[r] = "blacklist" => job[r].op = "logout")' BY <2>2, <2>4
      <3>5. IsFiniteSet(saw[r])' BY <1>1, <2>2 DEF Sees
      <3>6. (pc[r] \notin {"roles", "permissions"})' BY <2>2, <2>5
      <3> QED BY <3>1, <3>2, <3>3, <3>4, <3>5, <3>6 DEF Sees
    <2>9. stage \in {"idle"} \cup Waiting \cup Ended BY DEF Waiting, Ended
    <2> HIDE DEF stage
    <2> QED BY <1>2, <2>1, <2>3, <2>6, <2>8, <2>9, StepInv
  <1> QED BY <1>3, <1>4

\* A token that a request holds was minted.
LEMMA MintedToken ==
  ASSUME IInv, NEW r \in Reqs, pc[r] = "blacklist"
  PROVE  exp[job[r].tok] # 0 /\ now \in Nat
  BY DEF IInv, Credentials, TypeOK, Waiting

\* A logout stores a key that outlives its token.
LEMMA BlacklistInv ==
  ASSUME IInv, NEW r \in Reqs, Blacklist(r)
  PROVE  IInv'
  <1> DEFINE t == job[r].tok
             key == now + Second * SecondsUntil(t)
  <1>1. TypeOK BY DEF IInv
  <1>2. /\ pc[r] = "blacklist"
        /\ until' = [until EXCEPT ![t] = key]
        /\ loggedOut' = loggedOut \cup {t}
        /\ pc' = [pc EXCEPT ![r] = "accepted"]
        /\ UNCHANGED <<now, exp, account, job, edits, saw>>
    BY DEF Blacklist, Goto
  <1>3. t \in Access BY <1>1, <1>2 DEF TypeOK, Waiting
  <1>4. key \in Nat /\ key > now /\ key > LastSecond(t) BY <1>1, <1>3, KeyLongEnough
  <1>5. exp[t] # 0 /\ now \in Nat BY <1>2, MintedToken DEF t
  <1> HIDE DEF t, key
  <1>6. TypeOK'
    <2>1. until' \in [Access -> Nat]
          /\ \A u \in Access : until'[u] # 0 => until'[u] > now' /\ exp'[u] # 0
      BY <1>1, <1>2, <1>3, <1>4, <1>5 DEF TypeOK
    <2>2. pc' \in [Reqs -> {"idle"} \cup Waiting \cup Ended]
      BY <1>1, <1>2 DEF TypeOK, Ended
    <2>3. \A q \in Reqs : pc'[q] \in Waiting \cup {"accepted"} => job'[q].tok \in Access
      BY <1>1, <1>2, <1>3 DEF TypeOK, t
    <2> QED BY <1>1, <1>2, <1>3, <2>1, <2>2, <2>3 DEF TypeOK
  <1>7. ASSUME NEW u \in loggedOut' PROVE Kept(u)'
    <2>1. LastSecond(u)' = LastSecond(u) BY <1>2 DEF LastSecond, ExpiresAt
    <2>2. CASE u = t
      <3>1. until'[u] = key BY <1>1, <1>2, <1>3, <2>2 DEF TypeOK
      <3>2. key # 0 BY <1>4, <1>5
      <3> QED BY <1>2, <1>4, <1>5, <2>1, <2>2, <3>1, <3>2 DEF Kept
    <2>3. CASE u # t
      <3>1. u \in loggedOut /\ until'[u] = until[u] BY <1>1, <1>2, <2>3 DEF TypeOK
      <3> QED BY <1>2, <2>1, <3>1 DEF IInv, Kept
    <2> QED BY <2>2, <2>3
  <1>8. ASSUME NEW q \in Reqs PROVE Credentials(q)' /\ Sees(q)'
    <2>1. CASE q = r
      <3>1. Credentials(r) /\ Sees(r) /\ pc'[r] = "accepted" BY <1>1, <1>2 DEF IInv, TypeOK
      <3>2. job[r].op = "logout" BY <1>2, <3>1 DEF Sees
      <3>3. Credentials(r)' BY <1>2, <3>1 DEF Credentials, LastSecond, ExpiresAt, Waiting
      <3>4. (Cardinality(saw[r]) <= 2 => \A a, b \in saw[r] : Near(a, b))'
        BY <1>2, <3>1 DEF Sees, Near
      <3>5. Sees(r)' BY <1>2, <3>1, <3>2, <3>4 DEF Sees, Waiting
      <3> QED BY <2>1, <3>3, <3>5
    <2>2. CASE q # r
      <3>1. pc'[q] = pc[q] BY <1>1, <1>2, <2>2 DEF TypeOK
      <3> QED BY <1>2, <3>1, RequestKept
    <2> QED BY <2>1, <2>2
  <1> QED BY <1>6, <1>7, <1>8 DEF IInv

\* Every step keeps the invariant: one lemma per action.
LEMMA NextInv == IInv /\ [Next]_vars => IInv'
  <1> SUFFICES ASSUME IInv, [Next]_vars PROVE IInv' OBVIOUS
  <1>1. CASE UNCHANGED vars
    <2>1. UNCHANGED <<now, exp, until, account, pc, job, edits, loggedOut, saw>>
      BY <1>1 DEF vars
    <2>2. \A r \in Reqs : Credentials(r)' /\ Sees(r)' BY <2>1, RequestKept
    <2> QED BY <2>1, <2>2 DEF IInv, TypeOK, Kept, LastSecond, ExpiresAt
  <1>2. CASE \E t \in Access : CreateAccessToken(t) BY <1>2, CreateInv
  <1>3. CASE Tick BY <1>3, TickInv
  <1>4. CASE Administer BY <1>4, AdministerInv
  <1>5. CASE Quiescent BY <1>1, <1>5 DEF Quiescent
  <1>6. ASSUME NEW r \in Reqs, Start(r) PROVE IInv' BY <1>6, StartInv
  <1>7. ASSUME NEW r \in Reqs, CheckBlacklist(r) PROVE IInv' BY <1>7, CheckBlacklistInv
  <1>8. ASSUME NEW r \in Reqs, ReadUser(r) PROVE IInv' BY <1>8, ReadUserInv
  <1>9. ASSUME NEW r \in Reqs, ReadRoles(r) PROVE IInv' BY <1>9, ReadRolesInv
  <1>10. ASSUME NEW r \in Reqs, ReadPermissions(r) PROVE IInv' BY <1>10, ReadPermissionsInv
  <1>11. ASSUME NEW r \in Reqs, Blacklist(r) PROVE IInv' BY <1>11, BlacklistInv
  <1>12. ASSUME NEW r \in Reqs, RequestFails(r) PROVE IInv'
    BY <1>12, RefuseInv DEF RequestFails
  <1> QED BY <1>1, <1>2, <1>3, <1>4, <1>5, <1>6, <1>7, <1>8, <1>9, <1>10, <1>11, <1>12
          DEF Next

\* The inductive invariant of the tokens: every key of the blacklist lasts long
\* enough, and a request knows the account only as it was while the request ran.
THEOREM Invariant == Spec => []IInv
  BY InitInv, NextInv, PTL DEF Spec

\* Every variable keeps its type.
THEOREM TypeCorrect == Spec => []TypeOK
  <1>1. IInv => TypeOK BY DEF IInv
  <1> QED BY <1>1, Invariant, PTL

\* A token whose logout has answered is refused until the last second before its
\* exp, whatever the clock, the lifetime of a token and the ticks to a second.
THEOREM LogoutLasts == Spec => []RevokedUntilLastSecond
  <1>1. IInv => RevokedUntilLastSecond
    BY DEF IInv, Credentials, LastSecond, RevokedUntilLastSecond
  <1> QED BY <1>1, Invariant, PTL

\* Three reads under READ COMMITTED agree with one state of the account, as long as
\* at most one edit of it falls between them.
THEOREM AllowedWasHeld == Spec => []AllowedMeansHeld
  <1>1. IInv => AllowedMeansHeld BY DEF IInv, Sees, Held, AllowedMeansHeld
  <1> QED BY <1>1, Invariant, PTL

=============================================================================
