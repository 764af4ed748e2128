----------------------------- MODULE LeaseQueue ----------------------------
(***************************************************************************)
(* What the work queue promises its users, without clocks, locks and        *)
(* transactions: a claim leases open releases that nobody holds, a lease    *)
(* may run out at any moment, and an answer counts while its token is the   *)
(* newest one.  Module Queue implements this; module MatchLoop uses it.     *)
(***************************************************************************)
EXTENDS Integers, FiniteSets

CONSTANTS
  Infohashes, Refs,
  Caps,     \* values QueueMaxAttempts may have over the restarts
  NULL

ASSUME LeaseQueueAssumption ==
  /\ Caps \subseteq Nat \ {0}
  /\ NULL \notin Refs

VARIABLES
  cap,      \* QueueMaxAttempts
  book      \* releases; `running` while a lease has not run out

queueVars == <<cap, book>>

Settled == {"matched", "suppressed", "exhausted"}
Answers == {"matched", "unmatched", "suppressed"}

Entry == [status: Settled \cup {"absent", "unmatched"}, ref: Refs \cup {NULL},
          attempts: Nat, token: Nat, running: BOOLEAN]

NoEntry == [status |-> "absent", ref |-> NULL, attempts |-> 0, token |-> 0,
            running |-> FALSE]

QueueInit ==
  /\ cap \in Caps
  /\ book = [i \in Infohashes |-> NoEntry]

Idle(i) == book[i].status = "unmatched" /\ ~book[i].running

\* Mutant: a release is offered once, an expired lease does not bring it back.
Offered_Once ==
  {i \in Infohashes : Idle(i) /\ book[i].attempts < cap /\ book[i].token = 0}

Offered == {i \in Infohashes : Idle(i) /\ book[i].attempts < cap}

\* Mutant: the sweep forgets match_status.
Overdue_AnyStatus == {i \in Infohashes : ~book[i].running /\ book[i].attempts >= cap}

(* Releases that failed too often, under a cap that was lowered since. *)
Overdue == {i \in Infohashes : Idle(i) /\ book[i].attempts >= cap}

(* A claim leases some releases and exhausts some.  A lease that is asked   *)
(* to end before it begins does not run.                                    *)
Claim(leased, swept, running) ==
  /\ leased \subseteq Offered
  /\ swept \subseteq Overdue
  /\ book' = [i \in Infohashes |->
                IF i \in leased
                THEN [book[i] EXCEPT !.token = @ + 1, !.running = running]
                ELSE IF i \in swept
                THEN [book[i] EXCEPT !.status = "exhausted"]
                ELSE book[i]]
  /\ UNCHANGED cap

Accepted(i, token) == book[i].status = "unmatched" /\ token > 0 /\ book[i].token = token

(* An answer settles the release, or is a failed attempt that leaves the    *)
(* lease alone.                                                             *)
Answered(e, status, ref) ==
  LET n == IF status = "unmatched" THEN e.attempts + 1 ELSE e.attempts
  IN  IF status = "unmatched" /\ n < cap
      THEN [e EXCEPT !.attempts = n]
      ELSE [e EXCEPT !.status = IF status = "unmatched" THEN "exhausted" ELSE status,
                     !.attempts = n, !.ref = ref, !.running = FALSE]

(* An answer whose lease has run out may still be accepted: it is judged by *)
(* a clock that was read earlier.                                           *)
Submit(i, token, status, ref) ==
  /\ Accepted(i, token)
  /\ status \in Answers
  /\ ref # NULL <=> status = "matched"
  /\ book' = [book EXCEPT ![i] = Answered(@, status, ref)]
  /\ UNCHANGED cap

RunOut(over) ==
  /\ book' = [i \in Infohashes |->
                IF i \in over THEN [book[i] EXCEPT !.running = FALSE] ELSE book[i]]
  /\ UNCHANGED cap

Arrive(i) ==
  /\ book[i].status = "absent"
  /\ book' = [book EXCEPT ![i].status = "unmatched"]
  /\ UNCHANGED cap

Reconfigure ==
  /\ cap' \in Caps
  /\ UNCHANGED book

QueueNext ==
  \/ \E leased, swept \in SUBSET Infohashes, running \in BOOLEAN :
       Claim(leased, swept, running)
  \/ \E i \in Infohashes, status \in Answers, ref \in Refs \cup {NULL} :
       Submit(i, book[i].token, status, ref)
  \/ \E over \in SUBSET Infohashes : RunOut(over)
  \/ \E i \in Infohashes : Arrive(i)
  \/ Reconfigure

QueueSpec == QueueInit /\ [][QueueNext]_queueVars
=============================================================================
