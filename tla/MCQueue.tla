------------------------------ MODULE MCQueue ------------------------------
(* Model-checking instance of Queue. *)
EXTENDS Queue, TLC

(* Connections are interchangeable. *)
TxSymmetry == Permutations(Txs)
=============================================================================
