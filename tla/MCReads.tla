------------------------------ MODULE MCReads ------------------------------
(* Model-checking instances of Reads. *)
EXTENDS Reads, TLC

(* Three releases to page through; two to follow or to inspect, which may   *)
(* fail twice or be swept by a process with the smaller cap.                *)
MCScope == [browse  |-> [releases |-> 1..3, caps |-> {1}],
            follow  |-> [releases |-> 1..2, caps |-> {1, 2}],
            inspect |-> [releases |-> 1..2, caps |-> {1, 2}]]
=============================================================================
