---------------------------- MODULE MCMatchLoop ----------------------------
(* Model-checking instances of MatchLoop. *)
EXTENDS MatchLoop, TLC
=============================================================================
