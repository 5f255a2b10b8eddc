--------------------------- MODULE MCAuthSessions ---------------------------
(***************************************************************************)
(* Instances of AuthSessions for TLC.                                       *)
(***************************************************************************)
EXTENDS AuthSessions, TLC

CONSTANTS r1, r2, r3, u1, t1, t2, t3, t4, t5, p1, p2, p3, p4

\* One account: whatever a request does, it does to the rows of one user.
OneUser == [x \in Tokens \cup Resets |-> u1]

Symmetric == Permutations(Reqs) \cup Permutations(Tokens \ Sessions0)

=============================================================================
