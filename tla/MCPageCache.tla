---------------------------- MODULE MCPageCache ----------------------------
(* Model-checking instances of PageCache. *)
EXTENDS PageCache, TLC
=============================================================================
