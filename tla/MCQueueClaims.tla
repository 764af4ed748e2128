--------------------------- MODULE MCQueueClaims ---------------------------
(* Queue from a state in which claims sweep, with a history of overlaps. *)
EXTENDS Queue

VARIABLE alone   \* connections whose transaction had no company so far

(* A reachable state to start the claims run from: every release was        *)
(* claimed at 0 and failed once under a cap of 2, the leases ran out at 1,  *)
(* and a restart lowered the cap to 1, so that the next claims sweep them.  *)
OverCapInit ==
  /\ clock = 1
  /\ cap = 1
  /\ rel = [i \in Infohashes |->
              [NoRow EXCEPT !.status = "unmatched", !.attempts = 1,
                            !.lease = 1, !.token = 1, !.published = 2]]
  /\ events = [i \in Infohashes |->
                 <<[status |-> "unmatched", ref |-> NULL, created |-> 0, token |-> 1]>>]
  /\ lock = [i \in Infohashes |-> NULL]
  /\ tx = [t \in Txs |-> Idle]
  /\ grants = [ih: Infohashes, token: {1}, expires: {1}]
  /\ alone = Txs

WatchedNext ==
  /\ Next
  /\ alone' = {t \in Txs : \/ tx'[t].pc = "idle"
                           \/ t \in alone /\ \A u \in Txs \ {t} : tx'[u].pc = "idle"}

(* `alone` watches only; it is part of no guard. *)
OverCapFairSpec == OverCapInit /\ [][WatchedNext]_<<vars, alone>> /\ Fairness

(* A claim that no other transaction overlapped takes the newest claimable  *)
(* releases, as many as its limit allows (store.go:227), and none only if   *)
(* none is claimable, whatever was ingested, merged, swept or left by       *)
(* earlier leases.                                                          *)
LoneClaimTakesNewest ==
  [][\A t \in alone :
       LET open == {i \in Infohashes : Claimable(rel[i], tx[t].now)}
           got == {i \in Infohashes : rel'[i].token # rel[i].token}
           before(i, j) == \/ rel[i].published > rel[j].published
                           \/ rel[i].published = rel[j].published /\ i > j
       IN  ClaimCommit(t) =>
             /\ got \subseteq open
             /\ Cardinality(got) = IF Cardinality(open) < tx[t].limit
                                   THEN Cardinality(open) ELSE tx[t].limit
             /\ \A i \in got, j \in open \ got : before(i, j)]_<<vars, alone>>
=============================================================================
