------------------------------ MODULE MCStartup ------------------------------
(* A bounded instance of Startup. *)
EXTENDS Startup, TLC

CONSTANTS t1, t2, p1

MCChecked == Names
MCSymmetry == Permutations({t1, t2})

=============================================================================
