------------------------------- MODULE Queue -------------------------------
(***************************************************************************)
(* The fenced work queue of internal/store/postgres/store.go: the rows of  *)
(* `releases` and `match_events` under concurrent Claim, Submit and IngestN*)
(* transactions.  Postgres runs them READ COMMITTED: a statement takes a   *)
(* snapshot, waits for (or skips) the row locks of others, and re-evaluates*)
(* its WHERE clause on the row it finally locked.  A transaction's writes  *)
(* become visible when it commits; an aborted one leaves no trace.         *)
(*                                                                         *)
(* Every operation reads the Go clock BEFORE it opens its transaction, so  *)
(* the `now` it compares leases with can be older than the time at which   *)
(* it gets its row lock.                                                   *)
(***************************************************************************)
EXTENDS Integers, Sequences, FiniteSets

CONSTANTS
  Infohashes,     \* release keys, integers so that ORDER BY infohash is defined
  Txs,            \* pool connections, one transaction each
  Refs,           \* catalog references a matcher may answer with
  Dates,          \* published_at values
  Caps,           \* values QueueMaxAttempts may have over the restarts
  Limits,         \* `limit` values of a claim request
  LeaseRequests,  \* `lease_seconds` values of a claim request
  DefaultLimit, MaxLimit, DefaultLease,
  DurationHalf,   \* time.Duration holds -DurationHalf .. DurationHalf - 1
  MaxClock,       \* bound: last instant of the model
  MaxToken,       \* bound: no claim starts once a token has reached it
  NULL

ASSUME QueueAssumption ==
  /\ Infohashes \subseteq Int
  /\ Dates \subseteq Int
  /\ Caps \subseteq Nat \ {0}          \* config.Validate
  /\ Limits \subseteq Int
  /\ LeaseRequests \subseteq Int
  /\ DefaultLimit \in Nat \ {0} /\ MaxLimit \in Nat \ {0}
  /\ DefaultLease \in Nat \ {0}
  /\ DurationHalf \in Nat \ {0}
  /\ MaxClock \in Nat /\ MaxToken \in Nat
  /\ NULL \notin Int /\ NULL \notin Txs /\ NULL \notin Refs

VARIABLES
  clock,   \* the wall clock behind s.clock
  cap,     \* cfg.QueueMaxAttempts of the running process
  rel,     \* committed rows of `releases`
  events,  \* committed `match_events` of each release, in id order
  lock,    \* row locks: the transaction that holds the row, or NULL
  tx,      \* the open transaction of each connection
  grants   \* claim responses that reached a matcher

vars == <<clock, cap, rel, events, lock, tx, grants>>

Terminal == {"matched", "suppressed", "exhausted"}
Statuses == {"absent", "unmatched"} \cup Terminal
SubmitStatuses == {"matched", "unmatched", "suppressed"}

Row == [status: Statuses, ref: Refs \cup {NULL}, attempts: Nat,
        lease: Int \cup {NULL}, token: Nat, published: Int]

Event == [status: Statuses, ref: Refs \cup {NULL}, created: Int, token: Nat]

Grant == [ih: Infohashes, token: Nat, expires: Int]

Candidate == [ih: Infohashes, published: Int]

PCs == {"idle", "begun", "sweep", "lease", "submit", "write", "ingest"}

Tx == [pc: PCs, now: Int,
       limit: Nat, expires: Int, todo: SUBSET Candidate,
       swept: SUBSET Infohashes, leased: SUBSET Infohashes,
       ih: Infohashes \cup {NULL}, token: Nat, status: Statuses,
       ref: Refs \cup {NULL}, date: Int]

NoRow == [status |-> "absent", ref |-> NULL, attempts |-> 0,
          lease |-> NULL, token |-> 0, published |-> 0]

Idle == [pc |-> "idle", now |-> 0,
         limit |-> 0, expires |-> 0, todo |-> {}, swept |-> {}, leased |-> {},
         ih |-> NULL, token |-> 0, status |-> "absent", ref |-> NULL, date |-> 0]

(* One type invariant for the whole schema and the transactions on it. *)
TypeOK ==
  /\ clock \in Nat
  /\ cap \in Nat \ {0}
  /\ rel \in [Infohashes -> Row]
  /\ events \in [Infohashes -> Seq(Event)]
  /\ lock \in [Infohashes -> Txs \cup {NULL}]
  /\ tx \in [Txs -> Tx]
  /\ grants \subseteq Grant

Init ==
  /\ clock = 0
  /\ cap \in Caps
  /\ rel = [i \in Infohashes |-> NoRow]
  /\ events = [i \in Infohashes |-> <<>>]
  /\ lock = [i \in Infohashes |-> NULL]
  /\ tx = [t \in Txs |-> Idle]
  /\ grants = {}

-----------------------------------------------------------------------------
(* Row locks. *)

Free(t, i) == lock[i] \in {NULL, t}

\* Mutant: the deferred Rollback is missing and the connection keeps its locks.
Unlocked_NoRollback(t) == lock

Unlocked(t) == [i \in Infohashes |-> IF lock[i] = t THEN NULL ELSE lock[i]]

-----------------------------------------------------------------------------
(* Claim. *)

ClampLimit(l) == IF l <= 0 THEN DefaultLimit
                 ELSE IF l > MaxLimit THEN MaxLimit ELSE l

(* time.Duration(leaseSeconds) * time.Second in int64 arithmetic. *)
LeaseSpan(ls) ==
  LET seconds == IF ls <= 0 THEN DefaultLease ELSE ls
  IN  ((seconds + DurationHalf) % (2 * DurationHalf)) - DurationHalf

LeaseOver(row, now) == row.lease = NULL \/ row.lease <= now

\* Mutant: the sweep forgets the lease condition.
Sweepable_IgnoresLease(row, now) ==
  row.status = "unmatched" /\ row.attempts >= cap

Sweepable(row, now) ==
  row.status = "unmatched" /\ row.attempts >= cap /\ LeaseOver(row, now)

\* Mutant: the claimable query forgets match_status.
Claimable_AnyStatus(row, now) ==
  row.status # "absent" /\ row.attempts < cap /\ LeaseOver(row, now)

Claimable(row, now) ==
  row.status = "unmatched" /\ row.attempts < cap /\ LeaseOver(row, now)

Snapshot(S) == {[ih |-> i, published |-> rel[i].published] : i \in S}

\* Mutant: ORDER BY published_at ASC, infohash DESC.
Newer_OldestFirst(c, d) == \/ c.published < d.published
                           \/ c.published = d.published /\ c.ih > d.ih

(* ORDER BY published_at DESC, infohash DESC *)
Newer(c, d) == \/ c.published > d.published
               \/ c.published = d.published /\ c.ih > d.ih

ClaimBegin(t, l, ls) ==
  /\ tx[t].pc = "idle"
  /\ \A i \in Infohashes : rel[i].token < MaxToken
  /\ tx' = [tx EXCEPT ![t] = [Idle EXCEPT !.pc = "begun", !.now = clock,
                                          !.limit = ClampLimit(l),
                                          !.expires = clock + LeaseSpan(ls)]]
  /\ UNCHANGED <<clock, cap, rel, events, lock, grants>>

(* The sweep UPDATE takes its snapshot ... *)
ClaimSweep(t) ==
  /\ tx[t].pc = "begun"
  /\ tx' = [tx EXCEPT ![t].pc = "sweep",
                      ![t].todo = Snapshot({i \in Infohashes :
                                              Sweepable(rel[i], tx[t].now)})]
  /\ UNCHANGED <<clock, cap, rel, events, lock, grants>>

(* ... and waits for the lock of each row of it, then rechecks the row. *)
ClaimSweepRow(t) ==
  /\ tx[t].pc = "sweep"
  /\ \E c \in tx[t].todo :
       /\ Free(t, c.ih)
       /\ lock' = [lock EXCEPT ![c.ih] = t]
       /\ tx' = [tx EXCEPT ![t].todo = @ \ {c},
                           ![t].swept = IF Sweepable(rel[c.ih], tx[t].now)
                                        THEN @ \cup {c.ih} ELSE @]
  /\ UNCHANGED <<clock, cap, rel, events, grants>>

(* The select+lease statement takes a snapshot of its own ... *)
ClaimSelect(t) ==
  /\ tx[t].pc = "sweep" /\ tx[t].todo = {}
  /\ tx' = [tx EXCEPT ![t].pc = "lease",
                      ![t].todo = Snapshot({i \in Infohashes :
                                              Claimable(rel[i], tx[t].now)})]
  /\ UNCHANGED <<clock, cap, rel, events, lock, grants>>

\* Mutant: no FOR UPDATE, the snapshot is trusted when the row is leased.
ClaimLeaseRow_NoRecheck(t) ==
  /\ tx[t].pc = "lease"
  /\ Cardinality(tx[t].leased) < tx[t].limit
  /\ \E c \in tx[t].todo :
       /\ \A d \in tx[t].todo : d = c \/ Newer(c, d)
       /\ lock' = IF Free(t, c.ih) THEN [lock EXCEPT ![c.ih] = t] ELSE lock
       /\ tx' = [tx EXCEPT ![t].todo = @ \ {c},
                           ![t].leased = IF Free(t, c.ih)
                                         THEN @ \cup {c.ih} ELSE @]
  /\ UNCHANGED <<clock, cap, rel, events, grants>>

(* ... and walks it newest first up to the limit, skipping locked rows and *)
(* rechecking the rows it locks.                                           *)
ClaimLeaseRow(t) ==
  /\ tx[t].pc = "lease"
  /\ Cardinality(tx[t].leased) < tx[t].limit
  /\ \E c \in tx[t].todo :
       /\ \A d \in tx[t].todo : d = c \/ Newer(c, d)
       /\ lock' = IF Free(t, c.ih) THEN [lock EXCEPT ![c.ih] = t] ELSE lock
       /\ tx' = [tx EXCEPT ![t].todo = @ \ {c},
                           ![t].leased =
                               IF Free(t, c.ih) /\ Claimable(rel[c.ih], tx[t].now)
                               THEN @ \cup {c.ih} ELSE @]
  /\ UNCHANGED <<clock, cap, rel, events, grants>>

\* Mutant: the sweep leaves lease_expires_at behind.
Exhaust_KeepsLease(row) == [row EXCEPT !.status = "exhausted"]

Exhaust(row) == [row EXCEPT !.status = "exhausted", !.lease = NULL]

\* Mutant: a claim counts as an attempt.
Lease_CountsAttempt(row, expires) ==
  [row EXCEPT !.token = @ + 1, !.lease = expires, !.attempts = @ + 1]

Lease(row, expires) == [row EXCEPT !.token = @ + 1, !.lease = expires]

(* Commit, and the response on its way to the matcher, where it may be lost. *)
ClaimCommit(t) ==
  /\ tx[t].pc = "lease"
  /\ tx[t].todo = {} \/ Cardinality(tx[t].leased) >= tx[t].limit
  /\ rel' = [i \in Infohashes |->
               IF i \in tx[t].leased THEN Lease(rel[i], tx[t].expires)
               ELSE IF i \in tx[t].swept THEN Exhaust(rel[i])
               ELSE rel[i]]
  /\ \E delivered \in {{}, tx[t].leased} :
       grants' = grants \cup
         {[ih |-> i, token |-> rel[i].token + 1, expires |-> tx[t].expires]
            : i \in delivered}
  /\ lock' = Unlocked(t)
  /\ tx' = [tx EXCEPT ![t] = Idle]
  /\ UNCHANGED <<clock, cap, events>>

-----------------------------------------------------------------------------
(* Submit. *)

(* Tokens a client can present: those of the claims it was handed, however *)
(* old, and 0, which was never issued.                                     *)
Presentable(i) == {0} \cup {g.token : g \in {h \in grants : h.ih = i}}

(* validateSubmit: a match names a reference.  Any other status stores none. *)
ValidSubmit(s, r) == s \in SubmitStatuses /\ (r # NULL <=> s = "matched")

SubmitBegin(t, i, k, s, r) ==
  /\ tx[t].pc = "idle"
  /\ k \in Presentable(i)
  /\ ValidSubmit(s, r)
  /\ tx' = [tx EXCEPT ![t] = [Idle EXCEPT !.pc = "submit", !.now = clock,
                                          !.ih = i, !.token = k,
                                          !.status = s, !.ref = r]]
  /\ UNCHANGED <<clock, cap, rel, events, lock, grants>>

\* Mutant: the token is not compared.
LeaseHeld_AnyToken(row, k, now) == row.lease # NULL /\ row.lease > now

\* Mutant: an expired lease is accepted while nobody re-claimed the release.
LeaseHeld_NoExpiry(row, k, now) == row.token = k /\ row.lease # NULL

LeaseHeld(row, k, now) == row.token = k /\ row.lease # NULL /\ row.lease > now

(* SELECT ... FOR UPDATE: an uncommitted row is not there, a locked one is *)
(* waited for.  ErrNoSuchRelease, ErrStaleLease and ErrNoActiveLease roll   *)
(* back.                                                                   *)
SubmitLock(t) ==
  /\ tx[t].pc = "submit"
  /\ LET i == tx[t].ih
         accepted == /\ rel[i].status = "unmatched"
                     /\ LeaseHeld(rel[i], tx[t].token, tx[t].now)
     IN  /\ rel[i].status = "absent" \/ Free(t, i)
         /\ lock' = IF accepted THEN [lock EXCEPT ![i] = t] ELSE lock
         /\ tx' = IF accepted THEN [tx EXCEPT ![t].pc = "write"]
                              ELSE [tx EXCEPT ![t] = Idle]
  /\ UNCHANGED <<clock, cap, rel, events, grants>>

FinalStatus(row, s) ==
  IF s = "unmatched" /\ row.attempts + 1 >= cap THEN "exhausted" ELSE s

(* The row a submit leaves; `unmatched` keeps the lease running. *)
Answer(row, s, r) ==
  LET n == IF s = "unmatched" THEN row.attempts + 1 ELSE row.attempts
  IN  IF FinalStatus(row, s) = "unmatched"
      THEN [row EXCEPT !.attempts = n]
      ELSE [row EXCEPT !.status = FinalStatus(row, s), !.attempts = n,
                       !.ref = r, !.lease = NULL]

SubmitCommit(t) ==
  /\ tx[t].pc = "write"
  /\ LET i == tx[t].ih
     IN  /\ rel' = [rel EXCEPT ![i] = Answer(@, tx[t].status, tx[t].ref)]
         /\ events' = [events EXCEPT ![i] =
              Append(@, [status |-> FinalStatus(rel[i], tx[t].status),
                         ref |-> tx[t].ref, created |-> tx[t].now,
                         token |-> tx[t].token])]
  /\ lock' = Unlocked(t)
  /\ tx' = [tx EXCEPT ![t] = Idle]
  /\ UNCHANGED <<clock, cap, grants>>

-----------------------------------------------------------------------------
(* IngestN, as far as it touches a release row: the upsert locks the row or *)
(* the key it inserts; its waits and its raw_items are those of module      *)
(* Ingest.                                                                  *)

IngestLock(t, i, d) ==
  /\ tx[t].pc = "idle"
  /\ Free(t, i)
  /\ lock' = [lock EXCEPT ![i] = t]
  /\ tx' = [tx EXCEPT ![t] = [Idle EXCEPT !.pc = "ingest", !.ih = i, !.date = d]]
  /\ UNCHANGED <<clock, cap, rel, events, grants>>

(* New, Updated (published_at is the minimum) or Duplicate (no change); a  *)
(* Conflict rolls back, which is Abort.                                    *)
IngestCommit(t) ==
  /\ tx[t].pc = "ingest"
  /\ LET i == tx[t].ih
         d == tx[t].date
     IN  \/ /\ rel[i].status = "absent"
            /\ rel' = [rel EXCEPT ![i].status = "unmatched", ![i].published = d]
         \/ /\ rel[i].status # "absent"
            /\ rel' = [rel EXCEPT ![i].published = IF d < @ THEN d ELSE @]
         \/ /\ rel[i].status # "absent"
            /\ rel' = rel
  /\ lock' = Unlocked(t)
  /\ tx' = [tx EXCEPT ![t] = Idle]
  /\ UNCHANGED <<clock, cap, events, grants>>

-----------------------------------------------------------------------------
(* The environment. *)

(* The deferred Rollback: a cancelled request, a lost connection, a failed *)
(* statement, an ingest Conflict.                                          *)
Abort(t) ==
  /\ tx[t].pc # "idle"
  /\ lock' = Unlocked(t)
  /\ tx' = [tx EXCEPT ![t] = Idle]
  /\ UNCHANGED <<clock, cap, rel, events, grants>>

(* The process dies or is redeployed, possibly with another attempt cap. *)
Restart ==
  /\ cap' \in Caps
  /\ lock' = [i \in Infohashes |-> NULL]
  /\ tx' = [t \in Txs |-> Idle]
  /\ UNCHANGED <<clock, rel, events, grants>>

Tick ==
  /\ clock < MaxClock
  /\ clock' = clock + 1
  /\ UNCHANGED <<cap, rel, events, lock, tx, grants>>

ClaimStep(t) == \/ ClaimSweep(t) \/ ClaimSweepRow(t) \/ ClaimSelect(t)
                \/ ClaimLeaseRow(t) \/ ClaimCommit(t)

SubmitStep(t) == SubmitLock(t) \/ SubmitCommit(t)

Call(t) ==
  \/ \E l \in Limits, ls \in LeaseRequests : ClaimBegin(t, l, ls)
  \/ \E i \in Infohashes, s \in SubmitStatuses, r \in Refs \cup {NULL} :
       \E k \in Presentable(i) : SubmitBegin(t, i, k, s, r)
  \/ \E i \in Infohashes, d \in Dates : IngestLock(t, i, d)

Next ==
  \/ \E t \in Txs : \/ Call(t)
                    \/ ClaimStep(t)
                    \/ SubmitStep(t)
                    \/ IngestCommit(t)
                    \/ Abort(t)
  \/ Restart
  \/ Tick

(* Who a blocked transaction waits for.  A transaction that waits in a      *)
(* closed set of blocked ones is picked by Postgres' deadlock detector.     *)
WaitsFor(t) ==
  CASE tx[t].pc = "sweep"  -> {lock[c.ih] : c \in tx[t].todo}
    [] tx[t].pc = "submit" -> {lock[tx[t].ih]}
    [] OTHER               -> {NULL}

Deadlocked(t) ==
  \E S \in SUBSET Txs :
    t \in S /\ \A u \in S : WaitsFor(u) # {} /\ WaitsFor(u) \subseteq S

DeadlockVictim(t) == Deadlocked(t) /\ Abort(t)

(* Statements run to their end and row locks are granted in the order of    *)
(* the wait queue (strong fairness); nothing promises that a client calls,  *)
(* that a call is cancelled or that the process restarts.                   *)
Fairness ==
  \A t \in Txs : /\ SF_vars(ClaimStep(t))
                 /\ SF_vars(SubmitStep(t))
                 /\ WF_vars(IngestCommit(t))
                 /\ WF_vars(DeadlockVictim(t))

Spec == Init /\ [][Next]_vars
-----------------------------------------------------------------------------
(* Properties. *)

(* Two matchers never both hold an unexpired lease on a release, although   *)
(* Claim judges expiry by a clock it read before its row lock (store.go:187,*)
(* 226) and candidates by a snapshot that concurrent claims outdate.        *)
NoOverlappingLeases ==
  \A g, h \in grants :
    g.ih = h.ih /\ g.expires > clock /\ h.expires > clock => g = h

(* A claim token is handed out once per release: two responses with the     *)
(* same token are the same lease (claim_token = claim_token + 1 under the    *)
(* row lock, store.go:236).                                                 *)
TokensAreUnique ==
  \A g, h \in grants : g.ih = h.ih /\ g.token = h.token => g = h

(* Fencing: a submit that is written carries the newest token any matcher   *)
(* was handed for that release, however late it arrives (store.go:329).      *)
SubmitIsFenced ==
  \A i \in Infohashes :
    events'[i] # events[i] =>
      \A g \in grants : g.ih = i => g.token <= events'[i][Len(events'[i])].token

(* The property above, as an action property of the specification. *)
FencedSubmit == [][SubmitIsFenced]_vars

(* While a lease handed to a matcher runs, only a submit changes the        *)
(* release's match state: neither the exhaustion sweep nor another claim    *)
(* takes the work away (store.go:207, 226), restarts with another cap       *)
(* included.                                                                *)
OnlySubmitEndsLease ==
  \A g \in grants :
    g.expires > clock /\ events'[g.ih] = events[g.ih] =>
      /\ rel'[g.ih].status = rel[g.ih].status
      /\ rel'[g.ih].token = rel[g.ih].token
      /\ rel'[g.ih].lease = rel[g.ih].lease

(* The property above, as an action property of the specification. *)
LeaseIsProtected == [][OnlySubmitEndsLease]_vars

(* A matched, suppressed or exhausted release is settled: no claim, submit, *)
(* sweep or ingest reopens it, rewrites its answer or adds to its history.  *)
SettledStaysSettled ==
  \A i \in Infohashes :
    rel[i].status \in Terminal =>
      /\ [rel'[i] EXCEPT !.published = 0] = [rel[i] EXCEPT !.published = 0]
      /\ events'[i] = events[i]

(* The property above, as an action property of the specification. *)
TerminalIsFinal == [][SettledStaysSettled]_vars

Failed(e) == e.status \in {"unmatched", "exhausted"}

(* match_events under different leases are in created_at order: a newer     *)
(* lease's answer is stamped strictly later than any answer to an older one,*)
(* although both stamps are read before the row lock (store.go:305, 392).   *)
LeaseHistoryInOrder ==
  \A i \in Infohashes : \A j, k \in 1..Len(events[i]) :
    j < k /\ events[i][j].token # events[i][k].token =>
      /\ events[i][j].token < events[i][k].token
      /\ events[i][j].created < events[i][k].created

(* A release holds a lease exactly while it is unmatched and was claimed,   *)
(* so the ErrNoActiveLease branch behind the token check (store.go:332)     *)
(* rejects nothing, and every settled release answers ErrStaleLease.        *)
LeaseIffOpenClaim ==
  \A i \in Infohashes :
    rel[i].lease # NULL <=> rel[i].status = "unmatched" /\ rel[i].token > 0

(* The row repeats its history.  A terminal answer is the last event and    *)
(* sets status and ref; without one the release is open, or was exhausted   *)
(* by the sweep, which writes no event (store.go:207).  attempt_count is the *)
(* number of failed submits: a claim that crashed, expired or lost its      *)
(* response costs no attempt (store.go:336).                                *)
RowFollowsHistory ==
  \A i \in Infohashes :
    LET h == events[i]
        answered == h # <<>> /\ h[Len(h)].status \in Terminal
    IN  /\ \A k \in 1..Len(h) : h[k].status \in Terminal => k = Len(h)
        /\ IF answered
           THEN rel[i].status = h[Len(h)].status /\ rel[i].ref = h[Len(h)].ref
           ELSE rel[i].status \notin {"matched", "suppressed"} /\ rel[i].ref = NULL
        /\ rel[i].attempts = Cardinality({k \in 1..Len(h) : Failed(h[k])})

(* Every call returns: no claim or submit waits for a row lock for ever,    *)
(* although claims hold several locks while their sweep waits for more and  *)
(* can block one another in a cycle (store.go:207).  An ingest is under way *)
(* here once it has its row; its waits are those of module Ingest.          *)
EveryCallReturns == \A t \in Txs : tx[t].pc # "idle" ~> tx[t].pc = "idle"
-----------------------------------------------------------------------------
(* The promise of module LeaseQueue, with a lease that runs until the clock *)
(* reaches its expiry.                                                      *)

Running(i) == rel[i].lease # NULL /\ rel[i].lease > clock

Book == [i \in Infohashes |->
           [status |-> rel[i].status, ref |-> rel[i].ref, attempts |-> rel[i].attempts,
            token |-> rel[i].token, running |-> Running(i)]]

Leases == INSTANCE LeaseQueue WITH book <- Book

(* Every commit is one atomic step of the queue without clocks and locks:   *)
(* claims take only what nobody holds, sweeps only what is over the cap,    *)
(* and answers only with the newest token, although clocks are read early   *)
(* and rows are chosen from outdated snapshots.                             *)
ActsAtomically == Leases!QueueSpec

-----------------------------------------------------------------------------
(* The inductive invariant behind the safety properties. *)

(* What an open transaction may rely on: its clock reading is in the past;  *)
(* the rows it is about to write are locked by it, so what it checked of    *)
(* them still holds; a submit knows no token that was not issued.           *)
TxIsSound(t) ==
  /\ tx[t].now <= clock
  /\ \A i \in tx[t].swept \cup tx[t].leased :
       /\ lock[i] = t
       /\ rel[i].status = "unmatched"
       /\ LeaseOver(rel[i], tx[t].now)
  /\ tx[t].pc \in {"submit", "write"} =>
       /\ tx[t].ih \in Infohashes
       /\ tx[t].status \in SubmitStatuses
       /\ tx[t].token <= rel[tx[t].ih].token
  /\ tx[t].pc = "write" =>
       /\ lock[tx[t].ih] = t
       /\ rel[tx[t].ih].status = "unmatched"
       /\ LeaseHeld(rel[tx[t].ih], tx[t].token, tx[t].now)
  /\ tx[t].pc = "ingest" =>
       /\ tx[t].ih \in Infohashes
       /\ lock[tx[t].ih] = t

(* A grant is of the current token, and then the row still has its expiry   *)
(* while it is open, or it is of an older token and has expired.            *)
GrantsAreFenced ==
  \A g \in grants :
    /\ 0 < g.token /\ g.token <= rel[g.ih].token
    /\ g.token < rel[g.ih].token => g.expires <= clock
    /\ g.token = rel[g.ih].token /\ rel[g.ih].status = "unmatched"
         => rel[g.ih].lease = g.expires

AbsentIsUnclaimed ==
  \A i \in Infohashes : rel[i].status = "absent" => rel[i].token = 0

(* The fence, inductively: types are kept, what every open transaction       *)
(* checked of the rows it locked still holds (store.go:229, 317), every      *)
(* claim handed out is of the current token and expiry or has run out,       *)
(* tokens are handed out once, and leases are on open releases only.         *)
FenceInv ==
  /\ TypeOK
  /\ \A t \in Txs : TxIsSound(t)
  /\ GrantsAreFenced
  /\ AbsentIsUnclaimed
  /\ LeaseIffOpenClaim
  /\ TokensAreUnique

(* Answers to older leases are older than now, answers to the current lease *)
(* are older than its expiry.                                               *)
EventsAreDated ==
  \A i \in Infohashes : \A k \in 1..Len(events[i]) :
    LET e == events[i][k]
    IN  /\ 0 < e.token /\ e.token <= rel[i].token
        /\ e.token < rel[i].token => e.created < clock
        /\ e.token = rel[i].token /\ rel[i].status = "unmatched"
             => e.created < rel[i].lease

(* A submit under way read its clock after every answer to an older lease.  *)
SubmitsAreLater ==
  \A t \in Txs : tx[t].pc \in {"submit", "write"} =>
    \A k \in 1..Len(events[tx[t].ih]) :
      events[tx[t].ih][k].token < tx[t].token =>
        events[tx[t].ih][k].created < tx[t].now

HistoryInv == EventsAreDated /\ SubmitsAreLater /\ LeaseHistoryInOrder

(* What a submit writes was validated before its transaction.               *)
RequestsAreValid ==
  \A t \in Txs : tx[t].pc \in {"submit", "write"} => ValidSubmit(tx[t].status, tx[t].ref)

RowInv == RequestsAreValid /\ RowFollowsHistory

(* The cap a claim judged attempt_count by is still in force when it        *)
(* commits, and the rows it locked were not answered since.                 *)
ClaimsKeepTheCap ==
  \A t \in Txs : /\ \A i \in tx[t].leased : rel[i].attempts < cap
                 /\ \A i \in tx[t].swept : rel[i].attempts >= cap

AtomicInv == FenceInv /\ RequestsAreValid /\ ClaimsKeepTheCap
=============================================================================
