----------------------------- MODULE AccountBook -----------------------------
(***************************************************************************)
(* What signup, e-mail verification and OAuth sign-in promise of accounts,  *)
(* without requests, transactions or locks: a book in which an address is   *)
(* entered once, together with its verification token or with the identity  *)
(* that signed in, and in which nothing is crossed out (docstrings of       *)
(* AuthService.signup, verify_email and oauth_provision_user).              *)
(***************************************************************************)
CONSTANTS Emails, Ids, Identities, None

VARIABLES users,     \* the account entered for an address, or None
          tokens,    \* the verification token of an account: none, open or used
          linked     \* the account an identity signs in to, or None

Account == [id: Ids, local: BOOLEAN, verified: BOOLEAN]

Init ==
    /\ users = [e \in Emails |-> None]
    /\ tokens = [id \in Ids |-> "none"]
    /\ linked = [i \in Identities |-> None]

\* An address nobody has, for an account that is not in the book.
Unentered(e, id) == users[e] = None /\ \A f \in Emails : users[f] # None => users[f].id # id

\* A signup enters an account with its token.
Register(e, id) ==
    /\ Unentered(e, id)
    /\ tokens[id] = "none"
    /\ users' = [users EXCEPT ![e] = [id |-> id, local |-> TRUE, verified |-> FALSE]]
    /\ tokens' = [tokens EXCEPT ![id] = "open"]
    /\ linked' = linked

\* The link in the mail uses the token and verifies its account.
Verify(e) ==
    /\ users[e] # None
    /\ users[e].local /\ ~users[e].verified
    /\ tokens[users[e].id] = "open"
    /\ users' = [users EXCEPT ![e] = [id |-> users[e].id, local |-> TRUE, verified |-> TRUE]]
    /\ tokens' = [tokens EXCEPT ![users[e].id] = "used"]
    /\ linked' = linked

\* A first sign-in of an identity links it to an account of the book ...
Link(e, i) ==
    /\ users[e] # None
    /\ linked[i] = None
    /\ linked' = [linked EXCEPT ![i] = users[e].id]
    /\ UNCHANGED <<users, tokens>>

\* ... or to one entered for it, which needs no verification.
Join(e, id, i) ==
    /\ Unentered(e, id)
    /\ tokens[id] = "none"
    /\ linked[i] = None
    /\ users' = [users EXCEPT ![e] = [id |-> id, local |-> FALSE, verified |-> TRUE]]
    /\ linked' = [linked EXCEPT ![i] = id]
    /\ tokens' = tokens

Next ==
    \/ \E e \in Emails, id \in Ids : Register(e, id)
    \/ \E e \in Emails : Verify(e)
    \/ \E e \in Emails, i \in Identities : Link(e, i)
    \/ \E e \in Emails, id \in Ids, i \in Identities : Join(e, id, i)

Spec == Init /\ [][Next]_<<users, tokens, linked>>

=============================================================================
