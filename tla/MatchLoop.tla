----------------------------- MODULE MatchLoop -----------------------------
(***************************************************************************)
(* The match loop of integrations/n8n over the queue: the queue trigger     *)
(* (TakuhaiTrigger.node.ts) claims a batch and starts a workflow execution, *)
(* a matcher answers it, and the Takuhai node (Takuhai.node.ts) submits the *)
(* answers one by one.  Executions overlap; responses get lost, executions  *)
(* crash, leases run out under a slow matcher.                              *)
(***************************************************************************)
EXTENDS LeaseQueue

CONSTANTS
  Flows,       \* workflow executions that can be under way at once
  Limit,       \* node parameter of the trigger
  MaxFaults    \* bound: lost responses, crashes, omissions, late answers

ASSUME MatchLoopAssumption ==
  Limit \in Nat \ {0} /\ MaxFaults \in Nat

VARIABLES
  flow,      \* [pc, items]: the claims an execution has still to answer
  faults,    \* faults so far
  reports    \* answers the node reported with ok: true

vars == <<cap, book, flow, faults, reports>>

Item == [ih: Infohashes, token: Nat]

NoFlow == [pc |-> "idle", items |-> {}]

(* The queue, the executions and their reports. *)
TypeOK ==
  /\ cap \in Caps
  /\ book \in [Infohashes -> Entry]
  /\ flow \in [Flows -> [pc: {"idle", "match", "submit"}, items: SUBSET Item]]
  /\ faults \in 0..MaxFaults
  /\ reports \subseteq [ih: Infohashes, status: Answers, ref: Refs \cup {NULL}]

Init ==
  /\ QueueInit
  /\ flow = [f \in Flows |-> NoFlow]
  /\ faults = 0
  /\ reports = {}

Fault == faults < MaxFaults /\ faults' = faults + 1

(* Batches a claim can take when no other transaction is in its way: as     *)
(* many releases as there are, up to the limit.                             *)
Batches ==
  {S \in SUBSET Offered : \/ Cardinality(S) = Limit
                          \/ Cardinality(S) < Limit /\ S = Offered}

Claimed(S) == {[ih |-> i, token |-> book[i].token + 1] : i \in S}

(* A poll: an empty claim starts nothing, any other one an execution.       *)
Poll(f) ==
  /\ flow[f].pc = "idle"
  /\ Offered \cup Overdue # {}
  /\ \E S \in Batches :
       /\ Claim(S, Overdue, TRUE)
       /\ flow' = [flow EXCEPT ![f] = IF S = {} THEN NoFlow
                                      ELSE [pc |-> "match", items |-> Claimed(S)]]
  /\ UNCHANGED <<faults, reports>>

(* The claim is committed and its response lost: the poll throws. *)
PollLost ==
  /\ Fault
  /\ \E S \in Batches : S # {} /\ Claim(S, Overdue, TRUE)
  /\ UNCHANGED <<flow, reports>>

(* The matcher answers.  External: its answer names a release once; the     *)
(* node would submit a second body for it as well, and the store charge it. *)
Match(f) ==
  /\ flow[f].pc = "match"
  /\ flow' = [flow EXCEPT ![f].pc = "submit"]
  /\ UNCHANGED <<cap, book, faults, reports>>

(* The matcher leaves an item out of its answer. *)
Omit(f) ==
  /\ flow[f].pc = "match"
  /\ Fault
  /\ \E x \in flow[f].items :
       flow' = [flow EXCEPT ![f] = [pc |-> "submit", items |-> @.items \ {x}]]
  /\ UNCHANGED <<cap, book, reports>>

(* The matcher or the execution fails. *)
Crash(f) ==
  /\ flow[f].pc # "idle"
  /\ Fault
  /\ flow' = [flow EXCEPT ![f] = NoFlow]
  /\ UNCHANGED <<cap, book, reports>>

Drop(f, x) == flow' = [flow EXCEPT ![f].items = @ \ {x}]

(* submitOne: stored and reported, *)
SubmitOk(f, x, status, ref) ==
  /\ Submit(x.ih, x.token, status, ref)
  /\ Drop(f, x)
  /\ reports' = reports \cup {[ih |-> x.ih, status |-> status, ref |-> ref]}
  /\ UNCHANGED faults

(* or refused with 409 because the token is outdated, the lease has run out *)
(* or the release is settled, which is a result like any other,             *)
SubmitConflict(f, x) ==
  /\ ~Accepted(x.ih, x.token) \/ ~book[x.ih].running
  /\ Drop(f, x)
  /\ UNCHANGED <<cap, book, faults, reports>>

\* Mutant: after a lost response the item is submitted again.
SubmitThrows_Retries(f, x, status, ref) ==
  /\ Fault
  /\ Submit(x.ih, x.token, status, ref) \/ UNCHANGED queueVars
  /\ UNCHANGED <<flow, reports>>

(* or it throws, whether or not the answer was stored, and the items behind *)
(* it are not submitted; but with continueOnFail those of the node's next   *)
(* input items are.                                                         *)
SubmitThrows(f, x, status, ref) ==
  /\ Fault
  /\ Submit(x.ih, x.token, status, ref) \/ UNCHANGED queueVars
  /\ \E next \in SUBSET (flow[f].items \ {x}) : flow' = [flow EXCEPT ![f].items = next]
  /\ UNCHANGED reports

SubmitOne(f) ==
  /\ flow[f].pc = "submit"
  /\ \E x \in flow[f].items :
       \/ SubmitConflict(f, x)
       \/ \E status \in Answers, ref \in Refs \cup {NULL} : SubmitOk(f, x, status, ref)

SubmitFails(f) ==
  /\ flow[f].pc = "submit"
  /\ \E x \in flow[f].items, status \in Answers, ref \in Refs \cup {NULL} :
       SubmitThrows(f, x, status, ref)

Done(f) ==
  /\ flow[f].pc = "submit" /\ flow[f].items = {}
  /\ flow' = [flow EXCEPT ![f] = NoFlow]
  /\ UNCHANGED <<cap, book, faults, reports>>

-----------------------------------------------------------------------------
(* Time, posts and operators. *)

InHand(i) == \E f \in Flows : [ih |-> i, token |-> book[i].token] \in flow[f].items

(* A lease nobody will answer any more runs out, *)
LeaseEnds(i) ==
  /\ book[i].running /\ ~InHand(i)
  /\ RunOut({i})
  /\ UNCHANGED <<flow, faults, reports>>

(* or one that somebody still works on.                                     *)
LeaseEndsEarly(i) ==
  /\ book[i].running /\ InHand(i)
  /\ Fault
  /\ RunOut({i})
  /\ UNCHANGED <<flow, reports>>

Post(i) == Arrive(i) /\ UNCHANGED <<flow, faults, reports>>

Operator == Reconfigure /\ UNCHANGED <<flow, faults, reports>>

FlowStep(f) == Match(f) \/ SubmitOne(f) \/ Done(f)

Next ==
  \/ \E f \in Flows : \/ Poll(f) \/ FlowStep(f)
                      \/ Omit(f) \/ Crash(f) \/ SubmitFails(f)
  \/ PollLost
  \/ \E i \in Infohashes : LeaseEnds(i) \/ LeaseEndsEarly(i) \/ Post(i)
  \/ Operator

Spec == Init /\ [][Next]_vars

(* n8n polls on a schedule and executions run; time passes, so that a lease *)
(* nobody answers runs out.  Faults are transient (MaxFaults).              *)
FairSpec ==
  /\ Spec
  /\ \A f \in Flows : WF_vars(Poll(f)) /\ WF_vars(FlowStep(f))
  /\ \A i \in Infohashes : WF_vars(LeaseEnds(i))

-----------------------------------------------------------------------------
(* Properties. *)

(* A claim costs at most one attempt: lost responses, late answers and      *)
(* batches that broke off never charge a release more often than it was     *)
(* handed out, so it is not exhausted early (store.go:336, 382).            *)
OneAttemptPerClaim == \A i \in Infohashes : book[i].attempts <= book[i].token

(* What the node reported as stored stays the answer: an execution that     *)
(* overlaps, was slower or still holds an older claim of the release cannot *)
(* overwrite it (Takuhai.node.ts:229).                                      *)
AckedAnswerStands ==
  \A r \in reports : r.status # "unmatched" =>
    book[r.ih].status = r.status /\ book[r.ih].ref = r.ref

(* Every release is settled in the end, whichever claims were lost,         *)
(* abandoned, answered too late or broken off in the middle of a batch: the *)
(* lease timeout is the only retry (docs/design.md, Queue Semantics).       *)
EveryReleaseSettled ==
  \A i \in Infohashes : book[i].status = "unmatched" ~> book[i].status \in Settled
-----------------------------------------------------------------------------
(* The inductive invariant behind the safety properties. *)

(* An item in hand is of a claim that was made once, by this execution, and *)
(* while it is the newest claim of its release, its attempt is not spent.   *)
ItemsAreClaims ==
  \A f \in Flows : \A x \in flow[f].items :
    /\ 0 < x.token /\ x.token <= book[x.ih].token
    /\ x.token = book[x.ih].token => book[x.ih].attempts < x.token
    /\ \A g \in Flows : x \in flow[g].items => g = f

LoopInv == TypeOK /\ OneAttemptPerClaim /\ ItemsAreClaims /\ AckedAnswerStands
=============================================================================
