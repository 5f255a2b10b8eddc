--------------------------- MODULE MCAccessTokens ---------------------------
(***************************************************************************)
(* Instance of AccessTokens for TLC: requests are alike.                    *)
(***************************************************************************)
EXTENDS AccessTokens, TLC

Symmetric == Permutations(Reqs)

=============================================================================
