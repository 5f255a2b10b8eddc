---------------------------- MODULE SessionChains ----------------------------
(***************************************************************************)
(* What the auth domain promises of refresh tokens, without requests,       *)
(* transactions or locks: sessions are chains of tokens, each chain (a      *)
(* rotation family) with one live token at most, its last.  A token is      *)
(* replaced, and its replacement appears, in one indivisible step, and what *)
(* was revoked or replaced stays so (the docstring of RefreshToken in       *)
(* auth_models.py and of AuthService.refresh).                              *)
(***************************************************************************)
CONSTANTS Tokens, Live0, None

VARIABLES state,   \* of each token: absent, live, replaced or revoked
          family,  \* the first token of its chain
          succ     \* the token that replaced it

States == {"absent", "live", "replaced", "revoked"}

Init ==
    /\ state = [t \in Tokens |-> IF t \in Live0 THEN "live" ELSE "absent"]
    /\ family = [t \in Tokens |-> IF t \in Live0 THEN t ELSE None]
    /\ succ = [t \in Tokens |-> None]

\* A login opens a chain.
Open(t) ==
    /\ state[t] = "absent"
    /\ state' = [state EXCEPT ![t] = "live"]
    /\ family' = [family EXCEPT ![t] = t]
    /\ succ' = succ

\* A refresh replaces the live token of a chain.
Rotate(t, n) ==
    /\ state[t] = "live"
    /\ state[n] = "absent"
    /\ state' = [state EXCEPT ![t] = "replaced", ![n] = "live"]
    /\ family' = [family EXCEPT ![n] = family[t]]
    /\ succ' = [succ EXCEPT ![t] = n]

\* A logout or a password reset closes chains.
Revoke(S) ==
    /\ \A t \in S : state[t] = "live"
    /\ state' = [t \in Tokens |-> IF t \in S THEN "revoked" ELSE state[t]]
    /\ UNCHANGED <<family, succ>>

Next ==
    \/ \E t \in Tokens : Open(t)
    \/ \E t, n \in Tokens : Rotate(t, n)
    \/ \E S \in SUBSET Tokens : Revoke(S)

Spec == Init /\ [][Next]_<<state, family, succ>>

\* A chain has one live token at most.
OneLive ==
    \A t1, t2 \in Tokens :
        state[t1] = "live" /\ state[t2] = "live" /\ family[t1] = family[t2] => t1 = t2

=============================================================================
