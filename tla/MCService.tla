----------------------------- MODULE MCService -----------------------------
(* Model-checking instances of Service. *)
EXTENDS Service, TLC

CONSTANTS p1, p2

(* Two replicas of takuhai on one database, or the two crawlers. *)
MCKinds == { (p1 :> "takuhai") @@ (p2 :> "takuhai"), (p1 :> "dmhy") @@ (p2 :> "nyaa") }
=============================================================================
