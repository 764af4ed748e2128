---------------------------- MODULE QueueProofs ----------------------------
(***************************************************************************)
(* Proofs about Queue for every set of releases, connections, caps, lease  *)
(* requests and bounds.                                                    *)
(***************************************************************************)
EXTENDS Queue, FiniteSetTheorems, TLAPS

(* ClampLimit and LeaseSpan (store.go:188-199) stay within their types,     *)
(* whatever a request carries.                                             *)
LEMMA ClampLimitType ==
  ASSUME NEW l \in Limits
  PROVE  ClampLimit(l) \in Nat
BY QueueAssumption DEF ClampLimit

(* The lease span is an integer whatever the request asked for. *)
LEMMA LeaseSpanType ==
  ASSUME NEW ls \in LeaseRequests
  PROVE  LeaseSpan(ls) \in Int
<1> DEFINE seconds == IF ls <= 0 THEN DefaultLease ELSE ls
<1>1. seconds \in Int
  BY QueueAssumption
<1>2. 2 * DurationHalf \in Nat \ {0}
  BY QueueAssumption
<1>3. seconds + DurationHalf \in Int
  BY <1>1, QueueAssumption
<1> HIDE DEF seconds
<1>4. ((seconds + DurationHalf) % (2 * DurationHalf)) \in Int
  BY <1>2, <1>3
<1>5. ((seconds + DurationHalf) % (2 * DurationHalf)) - DurationHalf \in Int
  BY <1>4, QueueAssumption
<1>6. QED
  BY <1>5 DEF LeaseSpan, seconds

(* An idle connection and an absent row are well typed. *)
LEMMA IdleType == Idle \in Tx
BY DEF Idle, Tx, PCs, Statuses

(* The row of a release that was never ingested is well typed. *)
LEMMA NoRowType == NoRow \in Row
BY DEF NoRow, Row, Statuses

(* Typed updates of the fields of a transaction and of a row. *)
LEMMA BegunType ==
  ASSUME NEW n \in Int, NEW l \in Nat, NEW e \in Int
  PROVE  [Idle EXCEPT !.pc = "begun", !.now = n, !.limit = l, !.expires = e] \in Tx
<1>1. "begun" \in PCs
  BY DEF PCs
<1>2. QED
  BY <1>1, IdleType DEF Tx

(* Taking a snapshot keeps a transaction well typed. *)
LEMMA TodoType ==
  ASSUME TypeOK, NEW t \in Txs, NEW p \in PCs, NEW C \in SUBSET Candidate
  PROVE  [tx EXCEPT ![t].pc = p, ![t].todo = C] \in [Txs -> Tx]
<1>1. \A x \in Tx : [x EXCEPT !.pc = p, !.todo = C] \in Tx
  BY DEF Tx
<1>2. tx \in [Txs -> Tx]
  BY DEF TypeOK
<1>3. QED
  BY <1>1, <1>2

(* Visiting one row of the snapshot keeps a transaction well typed. *)
LEMMA VisitType ==
  ASSUME TypeOK, NEW t \in Txs, NEW c \in Candidate, NEW S \in SUBSET Infohashes
  PROVE  /\ [tx EXCEPT ![t].todo = @ \ {c}, ![t].swept = S] \in [Txs -> Tx]
         /\ [tx EXCEPT ![t].todo = @ \ {c}, ![t].leased = S] \in [Txs -> Tx]
<1>1. \A x \in Tx : [x EXCEPT !.todo = @ \ {c}, !.swept = S] \in Tx
  BY DEF Tx
<1>2. \A x \in Tx : [x EXCEPT !.todo = @ \ {c}, !.leased = S] \in Tx
  BY DEF Tx
<1>3. tx \in [Txs -> Tx]
  BY DEF TypeOK
<1>4. QED
  BY <1>1, <1>2, <1>3

(* Every update a commit makes to a row keeps it well typed. *)
LEMMA RowUpdateType ==
  ASSUME NEW row \in Row, NEW e \in Int
  PROVE  Lease(row, e) \in Row /\ Exhaust(row) \in Row
<1>1. row.token + 1 \in Nat
  BY DEF Row
<1>2. "exhausted" \in Statuses
  BY DEF Statuses, Terminal
<1>3. Lease(row, e) \in Row
  BY <1>1 DEF Lease, Row
<1>4. Exhaust(row) \in Row
  BY <1>2 DEF Exhaust, Row
<1>5. QED
  BY <1>3, <1>4

(* Releasing the locks of a transaction leaves a lock table. *)
LEMMA UnlockedType ==
  ASSUME TypeOK, NEW t \in Txs
  PROVE  Unlocked(t) \in [Infohashes -> Txs \cup {NULL}]
BY DEF TypeOK, Unlocked

(* A statement's snapshot is a set of candidates. *)
LEMMA SnapshotType ==
  ASSUME TypeOK, NEW S \in SUBSET Infohashes
  PROVE  Snapshot(S) \in SUBSET Candidate
BY DEF TypeOK, Snapshot, Candidate, Row

-----------------------------------------------------------------------------
(* Type correctness, one lemma per operation. *)

(* The statements and the commit of a claim keep the types. *)
LEMMA ClaimType ==
  ASSUME TypeOK, NEW t \in Txs,
         \/ \E l \in Limits, ls \in LeaseRequests : ClaimBegin(t, l, ls)
         \/ ClaimStep(t)
  PROVE  TypeOK'
<1>1. CASE \E l \in Limits, ls \in LeaseRequests : ClaimBegin(t, l, ls)
  <2>1. PICK l \in Limits, ls \in LeaseRequests : ClaimBegin(t, l, ls)
    BY <1>1
  <2>2. ClampLimit(l) \in Nat /\ clock + LeaseSpan(ls) \in Int /\ clock \in Int
    BY ClampLimitType, LeaseSpanType DEF TypeOK
  <2>3. [Idle EXCEPT !.pc = "begun", !.now = clock, !.limit = ClampLimit(l),
                     !.expires = clock + LeaseSpan(ls)] \in Tx
    BY <2>2, BegunType, Zenon
  <2>4. QED
    BY <2>1, <2>3 DEF ClaimBegin, TypeOK
<1>2. CASE ClaimSweep(t)
  <2> DEFINE S == {i \in Infohashes : Sweepable(rel[i], tx[t].now)}
  <2>1. Snapshot(S) \in SUBSET Candidate
    BY SnapshotType
  <2>2. tx' \in [Txs -> Tx]
    BY <2>1, <1>2, TodoType DEF ClaimSweep, PCs
  <2>3. QED
    BY <2>2, <1>2 DEF ClaimSweep, TypeOK
<1>3. CASE ClaimSweepRow(t)
  <2>1. PICK c \in tx[t].todo :
          /\ lock' = [lock EXCEPT ![c.ih] = t]
          /\ tx' = [tx EXCEPT ![t].todo = @ \ {c},
                              ![t].swept = IF Sweepable(rel[c.ih], tx[t].now)
                                           THEN @ \cup {c.ih} ELSE @]
    BY <1>3 DEF ClaimSweepRow
  <2>2. /\ c \in Candidate /\ c.ih \in Infohashes
        /\ tx[t].swept \subseteq Infohashes /\ tx[t].leased \subseteq Infohashes
    BY DEF TypeOK, Tx, Candidate
  <2> DEFINE S == IF Sweepable(rel[c.ih], tx[t].now)
                  THEN tx[t].swept \cup {c.ih} ELSE tx[t].swept
  <2>a. S \in SUBSET Infohashes
    BY <2>2
  <2>b. tx' = [tx EXCEPT ![t].todo = @ \ {c}, ![t].swept = S]
    BY <2>1
  <2> HIDE DEF S
  <2>3. tx' \in [Txs -> Tx]
    BY <2>2, <2>a, <2>b, VisitType
  <2>4. lock' \in [Infohashes -> Txs \cup {NULL}]
    BY <2>1, <2>2 DEF TypeOK
  <2>5. QED
    BY <2>3, <2>4, <1>3 DEF ClaimSweepRow, TypeOK
<1>4. CASE ClaimSelect(t)
  <2> DEFINE S == {i \in Infohashes : Claimable(rel[i], tx[t].now)}
  <2>1. Snapshot(S) \in SUBSET Candidate
    BY SnapshotType
  <2>2. tx' \in [Txs -> Tx]
    BY <2>1, <1>4, TodoType DEF ClaimSelect, PCs
  <2>3. QED
    BY <2>2, <1>4 DEF ClaimSelect, TypeOK
<1>5. CASE ClaimLeaseRow(t)
  <2>1. PICK c \in tx[t].todo :
          /\ lock' = IF Free(t, c.ih) THEN [lock EXCEPT ![c.ih] = t] ELSE lock
          /\ tx' = [tx EXCEPT ![t].todo = @ \ {c},
                              ![t].leased =
                                  IF Free(t, c.ih) /\ Claimable(rel[c.ih], tx[t].now)
                                  THEN @ \cup {c.ih} ELSE @]
    BY <1>5 DEF ClaimLeaseRow
  <2>2. /\ c \in Candidate /\ c.ih \in Infohashes
        /\ tx[t].swept \subseteq Infohashes /\ tx[t].leased \subseteq Infohashes
    BY DEF TypeOK, Tx, Candidate
  <2> DEFINE S == IF Free(t, c.ih) /\ Claimable(rel[c.ih], tx[t].now)
                  THEN tx[t].leased \cup {c.ih} ELSE tx[t].leased
  <2>a. S \in SUBSET Infohashes
    BY <2>2
  <2>b. tx' = [tx EXCEPT ![t].todo = @ \ {c}, ![t].leased = S]
    BY <2>1
  <2> HIDE DEF S
  <2>3. tx' \in [Txs -> Tx]
    BY <2>2, <2>a, <2>b, VisitType
  <2>4. lock' \in [Infohashes -> Txs \cup {NULL}]
    BY <2>1, <2>2 DEF TypeOK
  <2>5. QED
    BY <2>3, <2>4, <1>5 DEF ClaimLeaseRow, TypeOK
<1>6. CASE ClaimCommit(t)
  <2>1. tx[t].expires \in Int /\ tx[t].leased \subseteq Infohashes
    BY DEF TypeOK, Tx
  <2>2. \A i \in Infohashes : /\ Lease(rel[i], tx[t].expires) \in Row
                              /\ Exhaust(rel[i]) \in Row
                              /\ rel[i] \in Row
    BY <2>1, RowUpdateType DEF TypeOK
  <2>3. rel' \in [Infohashes -> Row]
    BY <2>2, <1>6 DEF ClaimCommit
  <2>4. PICK delivered \in {{}, tx[t].leased} :
          grants' = grants \cup
            {[ih |-> i, token |-> rel[i].token + 1, expires |-> tx[t].expires]
               : i \in delivered}
    BY <1>6 DEF ClaimCommit
  <2>5. \A i \in delivered : rel[i].token + 1 \in Nat /\ i \in Infohashes
    BY <2>1, <2>4 DEF TypeOK, Row
  <2>6. grants' \subseteq Grant
    BY <2>1, <2>4, <2>5 DEF TypeOK, Grant
  <2>7. QED
    BY <2>3, <2>6, <1>6, UnlockedType, IdleType DEF ClaimCommit, TypeOK
<1>7. QED
  BY <1>1, <1>2, <1>3, <1>4, <1>5, <1>6 DEF ClaimStep

(* The row a submit leaves is well typed. *)
LEMMA AnswerType ==
  ASSUME TypeOK, NEW row \in Row, NEW s \in Statuses, NEW r \in Refs \cup {NULL}
  PROVE  FinalStatus(row, s) \in Statuses /\ Answer(row, s, r) \in Row
<1> DEFINE n == IF s = "unmatched" THEN row.attempts + 1 ELSE row.attempts
           f == FinalStatus(row, s)
<1>1. n \in Nat
  BY DEF Row
<1>2. f \in Statuses
  BY DEF FinalStatus, Statuses, Terminal
<1>3. Answer(row, s, r) =
        IF f = "unmatched" THEN [row EXCEPT !.attempts = n]
        ELSE [row EXCEPT !.status = f, !.attempts = n, !.ref = r, !.lease = NULL]
  BY DEF Answer
<1> HIDE DEF n, f
<1>4. [row EXCEPT !.attempts = n] \in Row
  BY <1>1 DEF Row
<1>5. [row EXCEPT !.status = f, !.attempts = n, !.ref = r, !.lease = NULL] \in Row
  BY <1>1, <1>2 DEF Row
<1>6. QED
  BY <1>2, <1>3, <1>4, <1>5 DEF f

(* The statements and the commit of a submit keep the types. *)
LEMMA SubmitType ==
  ASSUME TypeOK, NEW t \in Txs,
         \/ \E i \in Infohashes, s \in SubmitStatuses, r \in Refs \cup {NULL} :
              \E k \in Presentable(i) : SubmitBegin(t, i, k, s, r)
         \/ SubmitStep(t)
  PROVE  TypeOK'
<1>1. ASSUME NEW i \in Infohashes, NEW s \in SubmitStatuses, NEW r \in Refs \cup {NULL},
             NEW k \in Presentable(i), SubmitBegin(t, i, k, s, r)
      PROVE  TypeOK'
  <2>1. k \in Nat /\ s \in Statuses /\ "submit" \in PCs /\ clock \in Int
    BY DEF Presentable, TypeOK, Grant, SubmitStatuses, Statuses, Terminal, PCs
  <2>2. [Idle EXCEPT !.pc = "submit", !.now = clock, !.ih = i, !.token = k,
                     !.status = s, !.ref = r] \in Tx
    BY <2>1, IdleType DEF Tx
  <2>3. QED
    BY <1>1, <2>2 DEF SubmitBegin, TypeOK
<1>2. CASE SubmitLock(t)
  <2>1. \A x \in Tx : [x EXCEPT !.pc = "write"] \in Tx
    BY DEF Tx, PCs
  <2>2. tx' \in [Txs -> Tx]
    BY <1>2, <2>1, IdleType DEF SubmitLock, TypeOK
  <2>3. lock' \in [Infohashes -> Txs \cup {NULL}]
    BY <1>2 DEF SubmitLock, TypeOK
  <2>4. QED
    BY <1>2, <2>2, <2>3 DEF SubmitLock, TypeOK
<1>3. CASE SubmitCommit(t)
  <2> DEFINE i == tx[t].ih
  <2>1. /\ tx[t].status \in Statuses /\ tx[t].ref \in Refs \cup {NULL}
        /\ tx[t].now \in Int /\ tx[t].token \in Nat
    BY DEF TypeOK, Tx
  <2>2. i \in Infohashes => /\ FinalStatus(rel[i], tx[t].status) \in Statuses
                            /\ Answer(rel[i], tx[t].status, tx[t].ref) \in Row
    BY <2>1, AnswerType DEF TypeOK
  <2>3. rel' \in [Infohashes -> Row]
    BY <1>3, <2>2 DEF SubmitCommit, TypeOK
  <2>4. i \in Infohashes =>
          Append(events[i], [status |-> FinalStatus(rel[i], tx[t].status),
                             ref |-> tx[t].ref, created |-> tx[t].now,
                             token |-> tx[t].token]) \in Seq(Event)
    <3>1. i \in Infohashes =>
            [status |-> FinalStatus(rel[i], tx[t].status), ref |-> tx[t].ref,
             created |-> tx[t].now, token |-> tx[t].token] \in Event
      BY <2>1, <2>2 DEF Event
    <3>2. i \in Infohashes => events[i] \in Seq(Event)
      BY DEF TypeOK
    <3>3. QED
      BY <3>1, <3>2
  <2>5. events' \in [Infohashes -> Seq(Event)]
    BY <1>3, <2>4 DEF SubmitCommit, TypeOK
  <2>6. QED
    BY <1>3, <2>3, <2>5, UnlockedType, IdleType DEF SubmitCommit, TypeOK
<1>4. QED
  BY <1>1, <1>2, <1>3 DEF SubmitStep

(* An ingest keeps the types. *)
LEMMA IngestType ==
  ASSUME TypeOK, NEW t \in Txs,
         (\E i \in Infohashes, d \in Dates : IngestLock(t, i, d)) \/ IngestCommit(t)
  PROVE  TypeOK'
<1>1. ASSUME NEW i \in Infohashes, NEW d \in Dates, IngestLock(t, i, d)
      PROVE  TypeOK'
  <2>1. d \in Int /\ "ingest" \in PCs
    BY QueueAssumption DEF PCs
  <2>2. [Idle EXCEPT !.pc = "ingest", !.ih = i, !.date = d] \in Tx
    BY <2>1, IdleType DEF Tx
  <2>3. QED
    BY <1>1, <2>2 DEF IngestLock, TypeOK
<1>2. CASE IngestCommit(t)
  <2>1. tx[t].date \in Int
    BY DEF TypeOK, Tx
  <2>2. \A row \in Row, d \in Int :
          /\ [row EXCEPT !.status = "unmatched", !.published = d] \in Row
          /\ [row EXCEPT !.published = d] \in Row
          /\ row.published \in Int
    BY DEF Row, Statuses
  <2>3. rel' \in [Infohashes -> Row]
    <3>1. rel \in [Infohashes -> Row]
      BY DEF TypeOK
    <3>2. CASE rel' = [rel EXCEPT ![tx[t].ih].status = "unmatched",
                                  ![tx[t].ih].published = tx[t].date]
      BY <2>1, <2>2, <3>1, <3>2
    <3>3. CASE rel' = [rel EXCEPT ![tx[t].ih].published =
                                     IF tx[t].date < @ THEN tx[t].date ELSE @]
      BY <2>1, <2>2, <3>1, <3>3
    <3>4. QED
      BY <1>2, <3>1, <3>2, <3>3 DEF IngestCommit
  <2>4. QED
    BY <1>2, <2>3, UnlockedType, IdleType DEF IngestCommit, TypeOK
<1>3. QED
  BY <1>1, <1>2

(* Rollback, restart and the passing of time keep the types. *)
LEMMA EnvironmentType ==
  ASSUME TypeOK, (\E t \in Txs : Abort(t)) \/ Restart \/ Tick
  PROVE  TypeOK'
<1>1. ASSUME NEW t \in Txs, Abort(t)
      PROVE  TypeOK'
  BY <1>1, UnlockedType, IdleType DEF Abort, TypeOK
<1>2. CASE Restart
  BY <1>2, IdleType, QueueAssumption DEF Restart, TypeOK
<1>3. CASE Tick
  BY <1>3 DEF Tick, TypeOK
<1>4. QED
  BY <1>1, <1>2, <1>3

(* The empty database is well typed. *)
LEMMA InitType == Init => TypeOK
<1> SUFFICES ASSUME Init PROVE TypeOK
  OBVIOUS
<1>1. <<>> \in Seq(Event)
  OBVIOUS
<1>2. QED
  BY <1>1, IdleType, NoRowType, QueueAssumption DEF Init, TypeOK

(* Every step keeps the types. *)
LEMMA NextType == TypeOK /\ [Next]_vars => TypeOK'
<1> SUFFICES ASSUME TypeOK, [Next]_vars PROVE TypeOK'
  OBVIOUS
<1>1. CASE Next
  BY <1>1, ClaimType, SubmitType, IngestType, EnvironmentType DEF Next, Call
<1>2. CASE UNCHANGED vars
  BY <1>2 DEF vars, TypeOK
<1>3. QED
  BY <1>1, <1>2

(* The tables, the lock table, the open transactions and the responses     *)
(* handed out keep their types through every interleaving.                 *)
THEOREM TypeCorrect == Spec => []TypeOK
BY InitType, NextType, PTL DEF Spec

-----------------------------------------------------------------------------
(* The fence. *)

(* A transaction stays sound through the steps of others: they leave alone  *)
(* what it has locked, time does not run backwards and tokens only grow.    *)
LEMMA OthersStaySound ==
  ASSUME NEW u \in Txs, TypeOK, TypeOK', TxIsSound(u),
         tx'[u] = tx[u], clock <= clock',
         \A i \in Infohashes : lock[i] = u => lock'[i] = u /\ rel'[i] = rel[i],
         \A i \in Infohashes : rel[i].token <= rel'[i].token
  PROVE  TxIsSound(u)'
<1>1. tx[u].now <= clock'
  BY DEF TxIsSound, TypeOK, Tx
<1>2. \A i \in tx[u].swept \cup tx[u].leased :
        lock'[i] = u /\ rel'[i].status = "unmatched" /\ LeaseOver(rel'[i], tx[u].now)
  BY DEF TxIsSound, TypeOK, Tx
<1>3. tx[u].pc \in {"submit", "write"} =>
        /\ tx[u].ih \in Infohashes
        /\ tx[u].status \in SubmitStatuses
        /\ tx[u].token <= rel'[tx[u].ih].token
  BY DEF TxIsSound, TypeOK, Tx, Row
<1>4. tx[u].pc = "write" =>
        /\ lock'[tx[u].ih] = u
        /\ rel'[tx[u].ih].status = "unmatched"
        /\ LeaseHeld(rel'[tx[u].ih], tx[u].token, tx[u].now)
  BY DEF TxIsSound
<1>5. tx[u].pc = "ingest" => tx[u].ih \in Infohashes /\ lock'[tx[u].ih] = u
  BY DEF TxIsSound
<1>6. QED
  BY <1>1, <1>2, <1>3, <1>4, <1>5 DEF TxIsSound, LeaseOver, LeaseHeld

(* A connection without a transaction relies on nothing. *)
LEMMA IdleIsSound ==
  ASSUME NEW t \in Txs, TypeOK', tx'[t] = Idle
  PROVE  TxIsSound(t)'
BY DEF TxIsSound, Idle, TypeOK

(* A step that commits nothing and sets the clock no earlier keeps what     *)
(* relates rows and grants.                                                 *)
LEMMA NoCommitKeepsFence ==
  ASSUME FenceInv, TypeOK', UNCHANGED <<rel, grants>>, clock <= clock'
  PROVE  GrantsAreFenced' /\ AbsentIsUnclaimed' /\ LeaseIffOpenClaim' /\ TokensAreUnique'
<1>1. GrantsAreFenced'
  BY DEF FenceInv, GrantsAreFenced, TypeOK, Grant
<1>2. AbsentIsUnclaimed'
  BY DEF FenceInv, AbsentIsUnclaimed
<1>3. LeaseIffOpenClaim'
  BY DEF FenceInv, LeaseIffOpenClaim
<1>4. TokensAreUnique'
  BY DEF FenceInv, TokensAreUnique
<1>5. QED
  BY <1>1, <1>2, <1>3, <1>4

(* So a step of transaction t that commits nothing and takes only free      *)
(* locks has to keep t sound, no more.                                      *)
LEMMA OwnStep ==
  ASSUME FenceInv, TypeOK', NEW t \in Txs, UNCHANGED <<clock, rel, grants>>,
         \A u \in Txs \ {t} : tx'[u] = tx[u],
         \A i \in Infohashes : \A u \in Txs \ {t} : lock[i] = u => lock'[i] = u,
         TxIsSound(t)'
  PROVE  FenceInv'
<1>1. clock <= clock' /\ \A i \in Infohashes : rel[i].token <= rel'[i].token
  BY DEF FenceInv, TypeOK, Row
<1>2. ASSUME NEW u \in Txs \ {t}
      PROVE  TxIsSound(u)'
  BY <1>1, OthersStaySound DEF FenceInv
<1>3. QED
  BY <1>1, <1>2, NoCommitKeepsFence DEF FenceInv

(* Releasing the locks of t releases no lock of another. *)
LEMMA UnlockedKeepsOthers ==
  ASSUME TypeOK, NEW t \in Txs
  PROVE  \A i \in Infohashes : \A u \in Txs \ {t} : lock[i] = u => Unlocked(t)[i] = u
BY DEF TypeOK, Unlocked

(* A claim that has not committed yet keeps the fence. *)
LEMMA ClaimStatementsFence ==
  ASSUME FenceInv, TypeOK', NEW t \in Txs,
         \/ \E l \in Limits, ls \in LeaseRequests : ClaimBegin(t, l, ls)
         \/ ClaimSweep(t) \/ ClaimSweepRow(t) \/ ClaimSelect(t) \/ ClaimLeaseRow(t)
  PROVE  FenceInv'
<1>0. TypeOK /\ TxIsSound(t)
  BY DEF FenceInv
<1>1. ASSUME NEW l \in Limits, NEW ls \in LeaseRequests, ClaimBegin(t, l, ls)
      PROVE  FenceInv'
  <2>1. /\ tx'[t].now = clock /\ tx'[t].pc = "begun"
        /\ tx'[t].swept = {} /\ tx'[t].leased = {}
        /\ clock' = clock /\ clock <= clock
    <3>1. tx'[t] = [Idle EXCEPT !.pc = "begun", !.now = clock, !.limit = ClampLimit(l),
                                !.expires = clock + LeaseSpan(ls)]
      BY <1>0, <1>1 DEF ClaimBegin, TypeOK
    <3>2. clock' = clock
      BY <1>1 DEF ClaimBegin
    <3>3. clock <= clock
      BY <1>0 DEF TypeOK
    <3>4. QED
      BY <3>1, <3>2, <3>3 DEF Idle
  <2>2. TxIsSound(t)'
    BY <2>1 DEF TxIsSound
  <2>3. QED
    BY <1>0, <1>1, <2>2, OwnStep DEF ClaimBegin, TypeOK
<1>2. ASSUME ClaimSweep(t) \/ ClaimSelect(t)
      PROVE  FenceInv'
  <2>1. /\ tx'[t].now = tx[t].now /\ tx'[t].pc \in {"sweep", "lease"}
        /\ tx'[t].swept = tx[t].swept /\ tx'[t].leased = tx[t].leased
    BY <1>0, <1>2 DEF ClaimSweep, ClaimSelect, TypeOK, Tx
  <2>2. UNCHANGED <<clock, rel, lock, grants>>
    BY <1>2 DEF ClaimSweep, ClaimSelect
  <2>3. TxIsSound(t)'
    BY <1>0, <2>1, <2>2 DEF TxIsSound, LeaseOver
  <2>4. \A u \in Txs \ {t} : tx'[u] = tx[u]
    BY <1>0, <1>2 DEF ClaimSweep, ClaimSelect, TypeOK
  <2>5. QED
    BY <2>2, <2>3, <2>4, OwnStep
<1>3. ASSUME ClaimSweepRow(t) \/ ClaimLeaseRow(t)
      PROVE  FenceInv'
  <2>1. PICK c \in tx[t].todo :
          /\ lock' = lock \/ (Free(t, c.ih) /\ lock' = [lock EXCEPT ![c.ih] = t])
          /\ tx'[t].now = tx[t].now /\ tx'[t].pc = tx[t].pc
          /\ \/ tx'[t].swept = tx[t].swept /\ tx'[t].leased = tx[t].leased
             \/ /\ \/ tx'[t].swept = tx[t].swept \cup {c.ih} /\ tx'[t].leased = tx[t].leased
                   \/ tx'[t].swept = tx[t].swept /\ tx'[t].leased = tx[t].leased \cup {c.ih}
                /\ Free(t, c.ih) /\ lock' = [lock EXCEPT ![c.ih] = t]
                /\ rel[c.ih].status = "unmatched" /\ LeaseOver(rel[c.ih], tx[t].now)
    <3>1. CASE ClaimSweepRow(t)
      <4>1. PICK c \in tx[t].todo :
              /\ Free(t, c.ih)
              /\ lock' = [lock EXCEPT ![c.ih] = t]
              /\ tx' = [tx EXCEPT ![t].todo = @ \ {c},
                                  ![t].swept = IF Sweepable(rel[c.ih], tx[t].now)
                                               THEN @ \cup {c.ih} ELSE @]
        BY <3>1 DEF ClaimSweepRow
      <4>2. /\ tx'[t].now = tx[t].now /\ tx'[t].pc = tx[t].pc
            /\ tx'[t].leased = tx[t].leased
            /\ tx'[t].swept = IF Sweepable(rel[c.ih], tx[t].now)
                              THEN tx[t].swept \cup {c.ih} ELSE tx[t].swept
        BY <1>0, <4>1 DEF TypeOK, Tx
      <4>3. QED
        BY <4>1, <4>2 DEF Sweepable
    <3>2. CASE ClaimLeaseRow(t)
      <4>1. PICK c \in tx[t].todo :
              /\ lock' = IF Free(t, c.ih) THEN [lock EXCEPT ![c.ih] = t] ELSE lock
              /\ tx' = [tx EXCEPT ![t].todo = @ \ {c},
                                  ![t].leased =
                                      IF Free(t, c.ih) /\ Claimable(rel[c.ih], tx[t].now)
                                      THEN @ \cup {c.ih} ELSE @]
        BY <3>2 DEF ClaimLeaseRow
      <4>2. /\ tx'[t].now = tx[t].now /\ tx'[t].pc = tx[t].pc
            /\ tx'[t].swept = tx[t].swept
            /\ tx'[t].leased = IF Free(t, c.ih) /\ Claimable(rel[c.ih], tx[t].now)
                               THEN tx[t].leased \cup {c.ih} ELSE tx[t].leased
        BY <1>0, <4>1 DEF TypeOK, Tx
      <4>3. QED
        BY <4>1, <4>2 DEF Claimable
    <3>3. QED
      BY <1>3, <3>1, <3>2
  <2>2. c.ih \in Infohashes /\ tx[t].pc \in {"sweep", "lease"}
    BY <1>0, <1>3 DEF TypeOK, Tx, Candidate, ClaimSweepRow, ClaimLeaseRow
  <2>3. UNCHANGED <<clock, rel, grants>>
    BY <1>3 DEF ClaimSweepRow, ClaimLeaseRow
  <2>4. \A i \in Infohashes : lock[i] = t => lock'[i] = t
    BY <1>0, <2>1, <2>2 DEF TypeOK
  <2>5. \A i \in tx'[t].swept \cup tx'[t].leased :
          lock'[i] = t /\ rel[i].status = "unmatched" /\ LeaseOver(rel[i], tx[t].now)
    <3>1. \A i \in tx[t].swept \cup tx[t].leased : i \in Infohashes
      BY <1>0 DEF TypeOK, Tx
    <3>2. \A i \in tx[t].swept \cup tx[t].leased :
            lock'[i] = t /\ rel[i].status = "unmatched" /\ LeaseOver(rel[i], tx[t].now)
      BY <1>0, <2>4, <3>1 DEF TxIsSound
    <3>3. lock' = [lock EXCEPT ![c.ih] = t] => lock'[c.ih] = t
      BY <1>0, <2>2 DEF TypeOK
    <3>4. QED
      BY <2>1, <3>2, <3>3
  <2>6. TxIsSound(t)'
    BY <1>0, <2>1, <2>2, <2>3, <2>5 DEF TxIsSound, LeaseOver
  <2>7. \A u \in Txs \ {t} : tx'[u] = tx[u]
    BY <1>0, <1>3 DEF ClaimSweepRow, ClaimLeaseRow, TypeOK
  <2>8. \A i \in Infohashes : \A u \in Txs \ {t} : lock[i] = u => lock'[i] = u
    BY <1>0, <2>1, <2>2, QueueAssumption DEF TypeOK, Free
  <2>9. QED
    BY <2>3, <2>6, <2>7, <2>8, OwnStep
<1>4. QED
  BY <1>1, <1>2, <1>3

(* What is common to the steps that end a transaction: its locks go and it  *)
(* is idle.  Rows it had locked may have changed.                           *)
LEMMA EndKeepsSound ==
  ASSUME FenceInv, TypeOK', NEW t \in Txs, clock' = clock,
         tx' = [tx EXCEPT ![t] = Idle], lock' = Unlocked(t),
         \A i \in Infohashes : rel'[i] = rel[i] \/ lock[i] = t,
         \A i \in Infohashes : rel[i].token <= rel'[i].token
  PROVE  \A u \in Txs : TxIsSound(u)'
<1>1. TypeOK /\ clock <= clock'
  BY DEF FenceInv, TypeOK
<1>2. TxIsSound(t)'
  BY <1>1, IdleIsSound DEF TypeOK
<1>3. ASSUME NEW u \in Txs \ {t}
      PROVE  TxIsSound(u)'
  <2>1. tx'[u] = tx[u] /\ TxIsSound(u)
    BY <1>1 DEF FenceInv, TypeOK
  <2>2. \A i \in Infohashes : lock[i] = u => lock'[i] = u /\ rel'[i] = rel[i]
    BY <1>1, UnlockedKeepsOthers
  <2>3. QED
    BY <1>1, <2>1, <2>2, OthersStaySound
<1>4. QED
  BY <1>2, <1>3

(* The lease a claim takes had run out, and with it every grant of the row. *)
LEMMA LeasedGrantsAreOver ==
  ASSUME FenceInv, NEW t \in Txs, NEW i \in tx[t].leased \cup tx[t].swept,
         NEW g \in grants, g.ih = i
  PROVE  g.expires <= clock
<1>1. /\ rel[i].status = "unmatched" /\ LeaseOver(rel[i], tx[t].now)
      /\ tx[t].now <= clock /\ i \in Infohashes
  BY DEF FenceInv, TxIsSound, TypeOK, Tx
<1>2. g \in Grant /\ rel[i] \in Row /\ clock \in Nat /\ tx[t].now \in Int
  BY <1>1 DEF FenceInv, TypeOK, Tx
<1>3. 0 < g.token /\ g.token <= rel[i].token
  BY DEF FenceInv, GrantsAreFenced
<1>4. CASE g.token < rel[i].token
  BY <1>4 DEF FenceInv, GrantsAreFenced
<1>5. CASE g.token = rel[i].token
  <2>1. rel[i].lease = g.expires /\ g.expires \in Int
    BY <1>1, <1>2, <1>5 DEF FenceInv, GrantsAreFenced, Grant
  <2>2. g.expires <= tx[t].now
    BY <1>1, <2>1, QueueAssumption DEF LeaseOver
  <2>3. QED
    BY <1>1, <1>2, <2>1, <2>2
<1>6. QED
  BY <1>2, <1>3, <1>4, <1>5 DEF Grant, Row

(* The commit of a claim keeps the fence: its leases replace expired ones. *)
LEMMA ClaimCommitFence ==
  ASSUME FenceInv, TypeOK', NEW t \in Txs, ClaimCommit(t)
  PROVE  FenceInv'
<1>0. /\ TypeOK /\ TxIsSound(t)
      /\ tx[t].leased \subseteq Infohashes /\ tx[t].swept \subseteq Infohashes
      /\ tx[t].expires \in Int /\ clock' = clock
  BY DEF FenceInv, TypeOK, Tx, ClaimCommit
<1>1. \A i \in Infohashes :
        /\ rel[i].status \in Statuses /\ rel[i].token \in Nat
        /\ i \in tx[t].leased =>
             /\ rel'[i].token = rel[i].token + 1 /\ rel'[i].lease = tx[t].expires
             /\ rel'[i].status = "unmatched" /\ rel[i].status = "unmatched"
        /\ i \in tx[t].swept \ tx[t].leased =>
             /\ rel'[i].token = rel[i].token /\ rel'[i].lease = NULL
             /\ rel'[i].status = "exhausted"
        /\ i \notin tx[t].leased \cup tx[t].swept => rel'[i] = rel[i]
  BY <1>0 DEF ClaimCommit, Lease, Exhaust, TypeOK, Row, TxIsSound
<1>2. \A u \in Txs : TxIsSound(u)'
  <2>1. \A i \in Infohashes : rel'[i] = rel[i] \/ lock[i] = t
    BY <1>0, <1>1 DEF TxIsSound
  <2>2. \A i \in Infohashes : rel[i].token <= rel'[i].token
    BY <1>1
  <2>3. tx' = [tx EXCEPT ![t] = Idle] /\ lock' = Unlocked(t)
    BY DEF ClaimCommit
  <2>4. QED
    BY <1>0, <2>1, <2>2, <2>3, EndKeepsSound
<1>3. PICK delivered \in {{}, tx[t].leased} :
        grants' = grants \cup
          {[ih |-> i, token |-> rel[i].token + 1, expires |-> tx[t].expires]
             : i \in delivered}
  BY DEF ClaimCommit
<1>4. ASSUME NEW g \in grants
      PROVE  /\ g.ih \in Infohashes /\ g.token \in Nat /\ g.expires \in Int
             /\ 0 < g.token /\ g.token <= rel[g.ih].token
  BY <1>0 DEF FenceInv, GrantsAreFenced, TypeOK, Grant
<1>5. ASSUME NEW g \in grants' \ grants
      PROVE  /\ g.ih \in tx[t].leased /\ g.token = rel[g.ih].token + 1
             /\ g.expires = tx[t].expires
  BY <1>3
<1>6. GrantsAreFenced'
  <2>1. ASSUME NEW g \in grants
        PROVE  /\ 0 < g.token /\ g.token <= rel'[g.ih].token
               /\ g.token < rel'[g.ih].token => g.expires <= clock
               /\ g.token = rel'[g.ih].token /\ rel'[g.ih].status = "unmatched"
                    => rel'[g.ih].lease = g.expires
    <3>1. CASE g.ih \in tx[t].leased
      BY <1>1, <1>4, <3>1, LeasedGrantsAreOver
    <3>2. CASE g.ih \in tx[t].swept \ tx[t].leased
      BY <1>1, <1>4, <3>2, LeasedGrantsAreOver
    <3>3. CASE g.ih \notin tx[t].leased \cup tx[t].swept
      BY <1>1, <1>4, <3>3 DEF FenceInv, GrantsAreFenced
    <3>4. QED
      BY <3>1, <3>2, <3>3
  <2>2. ASSUME NEW g \in grants' \ grants
        PROVE  /\ 0 < g.token /\ g.token = rel'[g.ih].token
               /\ rel'[g.ih].lease = g.expires
    BY <1>0, <1>1, <1>5
  <2>3. \A g \in grants' : g.token \in Nat /\ rel'[g.ih].token \in Nat
    BY DEF TypeOK, Grant, Row
  <2>4. QED
    BY <1>0, <2>1, <2>2, <2>3 DEF GrantsAreFenced
<1>7. AbsentIsUnclaimed'
  BY <1>1 DEF FenceInv, AbsentIsUnclaimed
<1>8. LeaseIffOpenClaim'
  BY <1>0, <1>1, QueueAssumption DEF FenceInv, LeaseIffOpenClaim
<1>9. TokensAreUnique'
  <2>1. ASSUME NEW g \in grants, NEW h \in grants' \ grants, g.ih = h.ih
        PROVE  g.token # h.token
    BY <1>0, <1>1, <1>4, <1>5, <2>1
  <2>2. ASSUME NEW g \in grants' \ grants, NEW h \in grants' \ grants, g.ih = h.ih
        PROVE  g = h
    BY <1>3, <2>2
  <2>3. QED
    BY <2>1, <2>2 DEF FenceInv, TokensAreUnique
<1>10. QED
  BY <1>2, <1>6, <1>7, <1>8, <1>9 DEF FenceInv

(* A submit that has not committed yet keeps the fence. *)
LEMMA SubmitStatementsFence ==
  ASSUME FenceInv, TypeOK', NEW t \in Txs,
         \/ \E i \in Infohashes, s \in SubmitStatuses, r \in Refs \cup {NULL} :
              \E k \in Presentable(i) : SubmitBegin(t, i, k, s, r)
         \/ SubmitLock(t)
  PROVE  FenceInv'
<1>0. TypeOK /\ TxIsSound(t) /\ clock <= clock
  BY DEF FenceInv, TypeOK
<1>1. ASSUME NEW i \in Infohashes, NEW s \in SubmitStatuses, NEW r \in Refs \cup {NULL},
             NEW k \in Presentable(i), SubmitBegin(t, i, k, s, r)
      PROVE  FenceInv'
  <2>1. UNCHANGED <<clock, rel, lock, grants>>
    BY <1>1 DEF SubmitBegin
  <2>2. tx'[t] = [Idle EXCEPT !.pc = "submit", !.now = clock, !.ih = i, !.token = k,
                              !.status = s, !.ref = r]
    BY <1>0, <1>1 DEF SubmitBegin, TypeOK
  <2>3. /\ tx'[t].pc = "submit" /\ tx'[t].now = clock /\ tx'[t].ih = i
        /\ tx'[t].token = k /\ tx'[t].status = s
        /\ tx'[t].swept = {} /\ tx'[t].leased = {}
    BY <2>2 DEF Idle
  <2>4. k <= rel[i].token
    BY DEF Presentable, FenceInv, GrantsAreFenced, TypeOK, Row
  <2>5. TxIsSound(t)'
    BY <1>0, <2>1, <2>3, <2>4 DEF TxIsSound
  <2>6. \A u \in Txs \ {t} : tx'[u] = tx[u]
    BY <1>0, <1>1 DEF SubmitBegin, TypeOK
  <2>7. QED
    BY <2>1, <2>5, <2>6, OwnStep
<1>2. CASE SubmitLock(t)
  <2> DEFINE i == tx[t].ih
             accepted == /\ rel[i].status = "unmatched"
                         /\ LeaseHeld(rel[i], tx[t].token, tx[t].now)
  <2>1. UNCHANGED <<clock, rel, grants>>
    BY <1>2 DEF SubmitLock
  <2>2. \A u \in Txs \ {t} : tx'[u] = tx[u]
    BY <1>0, <1>2 DEF SubmitLock, TypeOK
  <2>3. tx[t].pc = "submit" /\ i \in Infohashes /\ tx[t].status \in SubmitStatuses
        /\ tx[t].token <= rel[i].token
    BY <1>0, <1>2 DEF SubmitLock, TxIsSound
  <2>4. CASE accepted
    <3>1. /\ Free(t, i) /\ lock' = [lock EXCEPT ![i] = t]
          /\ tx' = [tx EXCEPT ![t].pc = "write"]
      BY <1>2, <2>4 DEF SubmitLock
    <3>2. /\ tx'[t].pc = "write" /\ tx'[t].now = tx[t].now /\ tx'[t].ih = i
          /\ tx'[t].token = tx[t].token /\ tx'[t].status = tx[t].status
          /\ tx'[t].swept = tx[t].swept /\ tx'[t].leased = tx[t].leased
      BY <1>0, <3>1 DEF TypeOK, Tx
    <3>3. lock'[i] = t /\ \A j \in Infohashes : lock[j] = t => lock'[j] = t
      BY <1>0, <2>3, <3>1 DEF TypeOK
    <3>4. \A j \in tx[t].swept \cup tx[t].leased : j \in Infohashes
      BY <1>0 DEF TypeOK, Tx
    <3>5. TxIsSound(t)'
      BY <1>0, <2>1, <2>3, <2>4, <3>2, <3>3, <3>4 DEF TxIsSound, LeaseOver, LeaseHeld
    <3>6. \A j \in Infohashes : \A u \in Txs \ {t} : lock[j] = u => lock'[j] = u
      BY <1>0, <2>3, <3>1, QueueAssumption DEF TypeOK, Free
    <3>7. QED
      BY <2>1, <2>2, <3>5, <3>6, OwnStep
  <2>5. CASE ~accepted
    <3>1. lock' = lock /\ tx' = [tx EXCEPT ![t] = Idle]
      BY <1>2, <2>5 DEF SubmitLock
    <3>2. TxIsSound(t)'
      BY <1>0, <3>1, IdleIsSound DEF TypeOK
    <3>3. QED
      BY <2>1, <2>2, <3>1, <3>2, OwnStep
  <2>6. QED
    BY <2>4, <2>5
<1>3. QED
  BY <1>1, <1>2

(* What a submit does to its row. *)
LEMMA AnswerFields ==
  ASSUME NEW row \in Row, NEW s \in SubmitStatuses, NEW r \in Refs \cup {NULL}
  PROVE  /\ Answer(row, s, r).token = row.token
         /\ \/ /\ FinalStatus(row, s) = "unmatched"
               /\ Answer(row, s, r).status = row.status
               /\ Answer(row, s, r).lease = row.lease
            \/ /\ FinalStatus(row, s) \in Terminal
               /\ Answer(row, s, r).status = FinalStatus(row, s)
               /\ Answer(row, s, r).lease = NULL
<1>1. FinalStatus(row, s) \in Terminal \cup {"unmatched"}
  BY DEF FinalStatus, SubmitStatuses, Terminal
<1>2. CASE FinalStatus(row, s) = "unmatched"
  BY <1>2 DEF Answer, Row
<1>3. CASE FinalStatus(row, s) # "unmatched"
  BY <1>1, <1>3 DEF Answer, Row
<1>4. QED
  BY <1>2, <1>3

(* The commit of a submit keeps the fence: it settles or keeps its own lease. *)
LEMMA SubmitCommitFence ==
  ASSUME FenceInv, TypeOK', NEW t \in Txs, SubmitCommit(t)
  PROVE  FenceInv'
<1> DEFINE i == tx[t].ih
<1>0. TypeOK /\ TxIsSound(t) /\ UNCHANGED <<clock, grants>>
  BY DEF FenceInv, SubmitCommit
<1>1. /\ i \in Infohashes /\ lock[i] = t /\ tx[t].status \in SubmitStatuses
      /\ rel[i].status = "unmatched" /\ rel[i].lease # NULL
  BY <1>0 DEF SubmitCommit, TxIsSound, LeaseHeld
<1>2. /\ rel'[i] = Answer(rel[i], tx[t].status, tx[t].ref)
      /\ \A j \in Infohashes \ {i} : rel'[j] = rel[j]
  BY <1>0, <1>1 DEF SubmitCommit, TypeOK
<1>3. /\ rel'[i].token = rel[i].token
      /\ \/ rel'[i].status = "unmatched" /\ rel'[i].lease = rel[i].lease
         \/ rel'[i].status \in Terminal /\ rel'[i].lease = NULL
  <2>1. rel[i] \in Row /\ tx[t].ref \in Refs \cup {NULL}
    BY <1>0, <1>1 DEF TypeOK, Tx
  <2>2. QED
    BY <1>1, <1>2, <2>1, AnswerFields
<1>4. \A u \in Txs : TxIsSound(u)'
  <2>1. \A j \in Infohashes : rel'[j] = rel[j] \/ lock[j] = t
    BY <1>1, <1>2
  <2>2. \A j \in Infohashes : rel[j].token <= rel'[j].token
    <3>1. \A j \in Infohashes : rel'[j].token = rel[j].token
      BY <1>2, <1>3
    <3>2. \A j \in Infohashes : rel[j].token \in Nat
      BY <1>0 DEF TypeOK, Row
    <3>3. QED
      BY <3>1, <3>2
  <2>3. QED
    BY <1>0, <2>1, <2>2, EndKeepsSound DEF SubmitCommit
<1>5. GrantsAreFenced'
  BY <1>0, <1>1, <1>2, <1>3 DEF FenceInv, GrantsAreFenced, Terminal, TypeOK, Grant
<1>6. AbsentIsUnclaimed'
  BY <1>2, <1>3 DEF FenceInv, AbsentIsUnclaimed, Terminal
<1>7. LeaseIffOpenClaim'
  BY <1>1, <1>2, <1>3 DEF FenceInv, LeaseIffOpenClaim, Terminal
<1>8. TokensAreUnique'
  BY <1>0 DEF FenceInv, TokensAreUnique
<1>9. QED
  BY <1>4, <1>5, <1>6, <1>7, <1>8 DEF FenceInv

(* An ingest keeps the fence: it opens new rows and moves dates. *)
LEMMA IngestFence ==
  ASSUME FenceInv, TypeOK', NEW t \in Txs,
         (\E i \in Infohashes, d \in Dates : IngestLock(t, i, d)) \/ IngestCommit(t)
  PROVE  FenceInv'
<1>0. TypeOK /\ TxIsSound(t) /\ clock <= clock
  BY DEF FenceInv, TypeOK
<1>1. ASSUME NEW i \in Infohashes, NEW d \in Dates, IngestLock(t, i, d)
      PROVE  FenceInv'
  <2>1. UNCHANGED <<clock, rel, grants>> /\ Free(t, i) /\ lock' = [lock EXCEPT ![i] = t]
    BY <1>1 DEF IngestLock
  <2>2. tx'[t] = [Idle EXCEPT !.pc = "ingest", !.ih = i, !.date = d]
    BY <1>0, <1>1 DEF IngestLock, TypeOK
  <2>3. /\ tx'[t].pc = "ingest" /\ tx'[t].now = 0 /\ tx'[t].ih = i
        /\ tx'[t].swept = {} /\ tx'[t].leased = {}
    BY <2>2 DEF Idle
  <2>4. lock'[i] = t /\ 0 <= clock
    BY <1>0, <2>1 DEF TypeOK
  <2>5. TxIsSound(t)'
    BY <2>1, <2>3, <2>4 DEF TxIsSound
  <2>6. \A u \in Txs \ {t} : tx'[u] = tx[u]
    BY <1>0, <1>1 DEF IngestLock, TypeOK
  <2>7. \A j \in Infohashes : \A u \in Txs \ {t} : lock[j] = u => lock'[j] = u
    BY <1>0, <2>1, QueueAssumption DEF TypeOK, Free
  <2>8. QED
    BY <2>1, <2>5, <2>6, <2>7, OwnStep
<1>2. CASE IngestCommit(t)
  <2> DEFINE i == tx[t].ih
  <2>1. i \in Infohashes /\ lock[i] = t /\ UNCHANGED <<clock, grants>>
    BY <1>0, <1>2 DEF IngestCommit, TxIsSound
  <2>2. \A j \in Infohashes \ {i} : rel'[j] = rel[j]
    BY <1>0, <1>2 DEF IngestCommit, TypeOK
  <2>3. /\ rel'[i].token = rel[i].token /\ rel'[i].lease = rel[i].lease
        /\ \/ rel[i].status = "absent" /\ rel'[i].status = "unmatched"
           \/ rel'[i].status = rel[i].status
    <3>1. rel[i] \in Row
      BY <1>0, <2>1 DEF TypeOK
    <3>2. CASE /\ rel[i].status = "absent"
               /\ rel' = [rel EXCEPT ![i].status = "unmatched", ![i].published = tx[t].date]
      BY <1>0, <2>1, <3>1, <3>2 DEF TypeOK, Row
    <3>3. CASE rel' = [rel EXCEPT ![i].published = IF tx[t].date < @ THEN tx[t].date ELSE @]
      BY <1>0, <2>1, <3>1, <3>3 DEF TypeOK, Row
    <3>4. QED
      BY <1>2, <3>2, <3>3 DEF IngestCommit
  <2>4. \A u \in Txs : TxIsSound(u)'
    <3>1. \A j \in Infohashes : rel'[j] = rel[j] \/ lock[j] = t
      BY <2>1, <2>2
    <3>2. \A j \in Infohashes : rel[j].token <= rel'[j].token
      <4>1. \A j \in Infohashes : rel'[j].token = rel[j].token
        BY <2>2, <2>3
      <4>2. \A j \in Infohashes : rel[j].token \in Nat
        BY <1>0 DEF TypeOK, Row
      <4>3. QED
        BY <4>1, <4>2
    <3>3. QED
      BY <1>2, <2>1, <3>1, <3>2, EndKeepsSound DEF IngestCommit
  <2>5. rel[i].status = "absent" => rel[i].token = 0 /\ rel[i].lease = NULL
    BY <2>1 DEF FenceInv, AbsentIsUnclaimed, LeaseIffOpenClaim
  <2>6. GrantsAreFenced'
    <3>1. ASSUME NEW g \in grants
          PROVE  /\ g.ih \in Infohashes /\ g.token \in Nat
                 /\ 0 < g.token /\ g.token <= rel[g.ih].token
      BY <1>0 DEF FenceInv, GrantsAreFenced, TypeOK, Grant
    <3>2. \A g \in grants : g.ih = i => rel[i].status # "absent"
      BY <2>5, <3>1
    <3>3. \A g \in grants : /\ rel'[g.ih].token = rel[g.ih].token
                             /\ rel'[g.ih].lease = rel[g.ih].lease
                             /\ rel'[g.ih].status = rel[g.ih].status
      BY <2>2, <2>3, <3>1, <3>2
    <3>4. QED
      BY <2>1, <3>3 DEF FenceInv, GrantsAreFenced
  <2>7. AbsentIsUnclaimed'
    BY <2>2, <2>3 DEF FenceInv, AbsentIsUnclaimed
  <2>8. LeaseIffOpenClaim'
    BY <2>1, <2>2, <2>3, <2>5 DEF FenceInv, LeaseIffOpenClaim
  <2>9. TokensAreUnique'
    BY <2>1 DEF FenceInv, TokensAreUnique
  <2>10. QED
    BY <2>4, <2>6, <2>7, <2>8, <2>9 DEF FenceInv
<1>3. QED
  BY <1>1, <1>2

(* Rollback, restart and the passing of time keep the fence. *)
LEMMA EnvironmentFence ==
  ASSUME FenceInv, TypeOK', (\E t \in Txs : Abort(t)) \/ Restart \/ Tick
  PROVE  FenceInv'
<1>0. TypeOK /\ (\A i \in Infohashes : rel[i].token <= rel[i].token)
  BY DEF FenceInv, TypeOK, Row
<1>1. ASSUME NEW t \in Txs, Abort(t)
      PROVE  FenceInv'
  <2>1. UNCHANGED <<clock, rel, grants>> /\ clock <= clock
    BY <1>0, <1>1 DEF Abort, TypeOK
  <2>2. \A u \in Txs : TxIsSound(u)'
    BY <1>0, <1>1, <2>1, EndKeepsSound DEF Abort
  <2>3. QED
    BY <2>1, <2>2, NoCommitKeepsFence DEF FenceInv
<1>2. CASE Restart
  <2>1. UNCHANGED <<clock, rel, grants>> /\ clock <= clock
    BY <1>0, <1>2 DEF Restart, TypeOK
  <2>2. \A u \in Txs : TxIsSound(u)'
    BY <1>2, IdleIsSound DEF Restart
  <2>3. QED
    BY <2>1, <2>2, NoCommitKeepsFence DEF FenceInv
<1>3. CASE Tick
  <2>1. UNCHANGED <<rel, grants, lock, tx>> /\ clock <= clock'
    BY <1>0, <1>3 DEF Tick, TypeOK
  <2>2. \A u \in Txs : TxIsSound(u)'
    BY <1>0, <2>1, OthersStaySound DEF FenceInv
  <2>3. QED
    BY <2>1, <2>2, NoCommitKeepsFence DEF FenceInv
<1>4. QED
  BY <1>1, <1>2, <1>3

(* The empty database satisfies the fence. *)
LEMMA InitFence == Init => FenceInv
<1> SUFFICES ASSUME Init PROVE FenceInv
  OBVIOUS
<1>1. TypeOK
  BY InitType
<1>2. \A t \in Txs : TxIsSound(t)
  BY DEF Init, Idle, TxIsSound
<1>3. GrantsAreFenced /\ TokensAreUnique
  BY DEF Init, GrantsAreFenced, TokensAreUnique
<1>4. AbsentIsUnclaimed /\ LeaseIffOpenClaim
  BY DEF Init, NoRow, AbsentIsUnclaimed, LeaseIffOpenClaim
<1>5. QED
  BY <1>1, <1>2, <1>3, <1>4 DEF FenceInv

(* Every step keeps the fence. *)
LEMMA NextFence == FenceInv /\ [Next]_vars => FenceInv'
<1> SUFFICES ASSUME FenceInv, [Next]_vars PROVE FenceInv'
  OBVIOUS
<1>1. TypeOK'
  BY NextType DEF FenceInv
<1>2. CASE Next
  BY <1>1, <1>2, ClaimStatementsFence, ClaimCommitFence, SubmitStatementsFence,
     SubmitCommitFence, IngestFence, EnvironmentFence
     DEF Next, Call, ClaimStep, SubmitStep
<1>3. CASE UNCHANGED vars
  <2>1. UNCHANGED <<clock, rel, lock, tx, grants>> /\ clock <= clock
    BY <1>3 DEF vars, FenceInv, TypeOK
  <2>2. \A i \in Infohashes : rel[i].token <= rel[i].token
    BY DEF FenceInv, TypeOK, Row
  <2>3. \A u \in Txs : TxIsSound(u)'
    BY <1>1, <2>1, <2>2, OthersStaySound DEF FenceInv
  <2>4. QED
    BY <1>1, <2>1, <2>3, NoCommitKeepsFence DEF FenceInv
<1>4. QED
  BY <1>2, <1>3

(* The inductive invariant holds in every reachable state. *)
THEOREM FenceHolds == Spec => []FenceInv
BY InitFence, NextFence, PTL DEF Spec

(* NoOverlappingLeases: two matchers never both hold an unexpired lease on  *)
(* a release.  Of two unexpired grants neither is of an older token.        *)
THEOREM NoDoubleLease == Spec => []NoOverlappingLeases
<1>1. FenceInv => NoOverlappingLeases
  <2> SUFFICES ASSUME FenceInv, NEW g \in grants, NEW h \in grants,
                      g.ih = h.ih, g.expires > clock, h.expires > clock
               PROVE  g = h
    BY DEF NoOverlappingLeases
  <2>1. /\ g.token \in Nat /\ h.token \in Nat /\ rel[g.ih].token \in Nat
        /\ g.expires \in Int /\ h.expires \in Int /\ clock \in Int
    BY DEF FenceInv, TypeOK, Grant, Row
  <2>2. g.token = rel[g.ih].token /\ h.token = rel[g.ih].token
    BY <2>1 DEF FenceInv, GrantsAreFenced
  <2>3. QED
    BY <2>2 DEF FenceInv, TokensAreUnique
<1>2. QED
  BY <1>1, FenceHolds, PTL

(* TokensAreUnique: no token of a release is handed out for two leases.     *)
THEOREM TokenUniqueness == Spec => []TokensAreUnique
<1>1. FenceInv => TokensAreUnique
  BY DEF FenceInv
<1>2. QED
  BY <1>1, FenceHolds, PTL

(* LeaseIffOpenClaim: the status check behind the token check of Submit     *)
(* (ErrNoActiveLease) can reject nothing.                                   *)
THEOREM NoActiveLeaseIsDead == Spec => []LeaseIffOpenClaim
<1>1. FenceInv => LeaseIffOpenClaim
  BY DEF FenceInv
<1>2. QED
  BY <1>1, FenceHolds, PTL

-----------------------------------------------------------------------------
(* Action properties. *)

(* Only a submit's commit appends to a history. *)
LEMMA OnlySubmitWritesEvents ==
  ASSUME [Next]_vars
  PROVE  UNCHANGED events \/ \E t \in Txs : SubmitCommit(t)
BY DEF Next, vars, Call, ClaimStep, SubmitStep, ClaimBegin, ClaimSweep, ClaimSweepRow,
       ClaimSelect, ClaimLeaseRow, ClaimCommit, SubmitBegin, SubmitLock, IngestLock,
       IngestCommit, Abort, Restart, Tick

(* Only three commits write release rows. *)
LEMMA OnlyCommitsWriteRows ==
  ASSUME [Next]_vars
  PROVE  UNCHANGED rel \/ \E t \in Txs : ClaimCommit(t) \/ SubmitCommit(t) \/ IngestCommit(t)
BY DEF Next, vars, Call, ClaimStep, SubmitStep, ClaimBegin, ClaimSweep, ClaimSweepRow,
       ClaimSelect, ClaimLeaseRow, SubmitBegin, SubmitLock, IngestLock, Abort, Restart, Tick

(* FencedSubmit: a stale submit never overwrites a newer claim.             *)
THEOREM Fencing == Spec => FencedSubmit
<1>1. FenceInv /\ [Next]_vars => [SubmitIsFenced]_vars
  <2> SUFFICES ASSUME FenceInv, [Next]_vars PROVE SubmitIsFenced
    OBVIOUS
  <2>1. CASE UNCHANGED events
    BY <2>1 DEF SubmitIsFenced
  <2>2. ASSUME NEW t \in Txs, SubmitCommit(t)
        PROVE  SubmitIsFenced
    <3> DEFINE i == tx[t].ih
               e == [status |-> FinalStatus(rel[i], tx[t].status), ref |-> tx[t].ref,
                     created |-> tx[t].now, token |-> tx[t].token]
    <3>1. TxIsSound(t) /\ TypeOK
      BY DEF FenceInv
    <3>2. i \in Infohashes /\ tx[t].token = rel[i].token
      BY <2>2, <3>1 DEF SubmitCommit, TxIsSound, LeaseHeld
    <3>3. e.token = tx[t].token
      OBVIOUS
    <3>4. events' = [events EXCEPT ![i] = Append(@, e)]
      BY <2>2 DEF SubmitCommit
    <3> HIDE DEF e
    <3>5. events'[i] = Append(events[i], e) /\ events[i] \in Seq(Event)
      BY <3>1, <3>2, <3>4 DEF TypeOK
    <3>6. events'[i][Len(events'[i])] = e
      BY <3>5
    <3>7. \A j \in Infohashes \ {i} : events'[j] = events[j]
      BY <3>1, <3>4 DEF TypeOK
    <3>8. \A g \in grants : g.ih = i => g.token <= tx[t].token
      BY <3>2 DEF FenceInv, GrantsAreFenced
    <3>9. QED
      BY <3>3, <3>6, <3>7, <3>8 DEF SubmitIsFenced
  <2>3. QED
    BY <2>1, <2>2, OnlySubmitWritesEvents
<1>2. QED
  BY <1>1, FenceHolds, PTL DEF Spec, FencedSubmit

(* LeaseIsProtected: while a lease runs, only a submit changes the match    *)
(* state of its release.                                                    *)
THEOREM LeaseProtection == Spec => LeaseIsProtected
<1>1. FenceInv /\ [Next]_vars => [OnlySubmitEndsLease]_vars
  <2> SUFFICES ASSUME FenceInv, [Next]_vars, NEW g \in grants, g.expires > clock,
                      events'[g.ih] = events[g.ih]
               PROVE  /\ rel'[g.ih].status = rel[g.ih].status
                      /\ rel'[g.ih].token = rel[g.ih].token
                      /\ rel'[g.ih].lease = rel[g.ih].lease
    BY DEF OnlySubmitEndsLease
  <2>0. /\ TypeOK /\ g.ih \in Infohashes /\ g.token \in Nat /\ g.expires \in Int
        /\ clock \in Int /\ 0 < g.token /\ g.token <= rel[g.ih].token
    BY DEF FenceInv, TypeOK, Grant, GrantsAreFenced
  <2>1. CASE UNCHANGED rel
    BY <2>1
  <2>2. ASSUME NEW t \in Txs, ClaimCommit(t)
        PROVE  rel'[g.ih] = rel[g.ih]
    <3>1. g.ih \notin tx[t].leased \cup tx[t].swept
      BY <2>0, LeasedGrantsAreOver
    <3>2. QED
      BY <2>0, <2>2, <3>1 DEF ClaimCommit
  <2>3. ASSUME NEW t \in Txs, SubmitCommit(t)
        PROVE  rel'[g.ih] = rel[g.ih]
    <3> DEFINE i == tx[t].ih
    <3>1. i \in Infohashes
      BY <2>3 DEF FenceInv, SubmitCommit, TxIsSound
    <3>2. i # g.ih
      <4> DEFINE e == [status |-> FinalStatus(rel[i], tx[t].status), ref |-> tx[t].ref,
                       created |-> tx[t].now, token |-> tx[t].token]
      <4>1. events'[i] = Append(events[i], e) /\ events[i] \in Seq(Event)
        BY <2>0, <2>3, <3>1 DEF SubmitCommit, TypeOK
      <4> HIDE DEF e
      <4>2. Len(events'[i]) = Len(events[i]) + 1 /\ Len(events[i]) \in Nat
        BY <4>1
      <4>3. QED
        BY <4>2
    <3>3. QED
      BY <2>0, <2>3, <3>2 DEF SubmitCommit, TypeOK
  <2>4. ASSUME NEW t \in Txs, IngestCommit(t)
        PROVE  /\ rel'[g.ih].status = rel[g.ih].status
               /\ rel'[g.ih].token = rel[g.ih].token
               /\ rel'[g.ih].lease = rel[g.ih].lease
    <3> DEFINE i == tx[t].ih
    <3>1. rel[g.ih].status # "absent"
      BY <2>0 DEF FenceInv, AbsentIsUnclaimed
    <3>2. rel \in [Infohashes -> Row] /\ rel[g.ih] \in Row
      BY <2>0 DEF TypeOK
    <3>3. CASE /\ rel[i].status = "absent"
               /\ rel' = [rel EXCEPT ![i].status = "unmatched", ![i].published = tx[t].date]
      BY <2>0, <3>1, <3>2, <3>3
    <3>4. CASE rel' = [rel EXCEPT ![i].published = IF tx[t].date < @ THEN tx[t].date ELSE @]
      <4>1. CASE i = g.ih
        BY <2>0, <3>2, <3>4, <4>1 DEF Row
      <4>2. CASE i # g.ih
        BY <2>0, <3>2, <3>4, <4>2
      <4>3. QED
        BY <4>1, <4>2
    <3>5. QED
      BY <2>4, <3>3, <3>4 DEF IngestCommit
  <2>5. QED
    BY <2>1, <2>2, <2>3, <2>4, OnlyCommitsWriteRows
<1>2. QED
  BY <1>1, FenceHolds, PTL DEF Spec, LeaseIsProtected

(* TerminalIsFinal: a settled release keeps its answer and its history.     *)
THEOREM Finality == Spec => TerminalIsFinal
<1>1. FenceInv /\ [Next]_vars => [SettledStaysSettled]_vars
  <2> SUFFICES ASSUME FenceInv, [Next]_vars, NEW i \in Infohashes, rel[i].status \in Terminal
               PROVE  /\ [rel'[i] EXCEPT !.published = 0] = [rel[i] EXCEPT !.published = 0]
                      /\ events'[i] = events[i]
    BY DEF SettledStaysSettled
  <2>0. /\ rel \in [Infohashes -> Row] /\ rel[i] \in Row
        /\ rel[i].status # "unmatched" /\ rel[i].status # "absent"
    BY DEF FenceInv, TypeOK, Terminal
  <2>1. ASSUME NEW t \in Txs, SubmitCommit(t)
        PROVE  rel'[i] = rel[i] /\ events'[i] = events[i]
    <3>1. tx[t].ih # i
      BY <2>0, <2>1 DEF FenceInv, TxIsSound, SubmitCommit
    <3>2. QED
      BY <2>1, <3>1 DEF FenceInv, TypeOK, SubmitCommit
  <2>2. ASSUME NEW t \in Txs, ClaimCommit(t)
        PROVE  rel'[i] = rel[i]
    <3>1. i \notin tx[t].leased \cup tx[t].swept
      BY <2>0 DEF FenceInv, TxIsSound
    <3>2. QED
      BY <2>2, <3>1 DEF ClaimCommit
  <2>3. ASSUME NEW t \in Txs, IngestCommit(t)
        PROVE  [rel'[i] EXCEPT !.published = 0] = [rel[i] EXCEPT !.published = 0]
    <3>1. CASE tx[t].ih # i
      BY <2>0, <2>3, <3>1 DEF IngestCommit
    <3>2. CASE rel' = rel
      BY <3>2
    <3>3. CASE /\ tx[t].ih = i
               /\ rel' = [rel EXCEPT ![i].published = IF tx[t].date < @ THEN tx[t].date ELSE @]
      <4>1. PICK d : rel'[i] = [rel[i] EXCEPT !.published = d]
        BY <2>0, <3>3
      <4>2. QED
        BY <2>0, <4>1 DEF Row
    <3>4. QED
      BY <2>0, <2>3, <3>1, <3>2, <3>3 DEF IngestCommit
  <2>4. QED
    BY <2>1, <2>2, <2>3, OnlyCommitsWriteRows, OnlySubmitWritesEvents
<1>2. QED
  BY <1>1, FenceHolds, PTL DEF Spec, TerminalIsFinal

-----------------------------------------------------------------------------
(* The history. *)

(* An event of a history has its fields. *)
LEMMA EventIsTyped ==
  ASSUME TypeOK, NEW i \in Infohashes, NEW k \in 1..Len(events[i])
  PROVE  events[i][k].token \in Nat /\ events[i][k].created \in Int
<1>1. events[i] \in Seq(Event)
  BY DEF TypeOK
<1>2. events[i][k] \in Event
  BY <1>1
<1>3. QED
  BY <1>2 DEF Event

(* A step that appends no event keeps the order of the history; it keeps    *)
(* the dates if it re-leases only releases whose lease has run out and ends *)
(* leases only by settling the release.                                     *)
LEMMA QuietStepKeepsDates ==
  ASSUME FenceInv, FenceInv', EventsAreDated, UNCHANGED events, clock <= clock',
         \A i \in Infohashes :
           \/ rel'[i].token = rel[i].token /\ rel'[i].lease = rel[i].lease
                /\ (rel'[i].status = "unmatched" =>
                      rel[i].status = "unmatched" \/ rel[i].token = 0)
           \/ rel'[i].token = rel[i].token /\ rel'[i].status # "unmatched"
           \/ /\ rel'[i].token = rel[i].token + 1 /\ rel[i].status = "unmatched"
              /\ rel[i].lease # NULL => rel[i].lease <= clock
              /\ rel'[i].lease \in Int
  PROVE  EventsAreDated'
<1> SUFFICES ASSUME NEW i \in Infohashes, NEW k \in 1..Len(events[i])
             PROVE  /\ 0 < events[i][k].token /\ events[i][k].token <= rel'[i].token
                    /\ events[i][k].token < rel'[i].token => events[i][k].created < clock'
                    /\ events[i][k].token = rel'[i].token /\ rel'[i].status = "unmatched"
                         => events[i][k].created < rel'[i].lease
  BY DEF EventsAreDated
<1> DEFINE e == events[i][k]
<1>1. /\ e.token \in Nat /\ e.created \in Int /\ clock \in Int /\ clock' \in Int
      /\ rel[i].token \in Nat /\ rel'[i].token \in Nat
  <2>1. e.token \in Nat /\ e.created \in Int
    BY EventIsTyped DEF FenceInv
  <2>2. QED
    BY <2>1 DEF FenceInv, TypeOK, Row
<1>2. /\ 0 < e.token /\ e.token <= rel[i].token
      /\ e.token < rel[i].token => e.created < clock
      /\ e.token = rel[i].token /\ rel[i].status = "unmatched" => e.created < rel[i].lease
  BY DEF EventsAreDated
<1>3. rel[i].status = "unmatched" /\ rel[i].token > 0 =>
        rel[i].lease # NULL /\ rel[i].lease \in Int
  BY DEF FenceInv, LeaseIffOpenClaim, TypeOK, Row
<1> HIDE DEF e
<1>4. QED
  BY <1>1, <1>2, <1>3 DEF e

(* Steps other than the commit of a submit satisfy that condition. *)
LEMMA QuietRows ==
  ASSUME FenceInv, FenceInv', [Next]_vars, ~ \E t \in Txs : SubmitCommit(t)
  PROVE  \A i \in Infohashes :
           \/ rel'[i].token = rel[i].token /\ rel'[i].lease = rel[i].lease
                /\ (rel'[i].status = "unmatched" =>
                      rel[i].status = "unmatched" \/ rel[i].token = 0)
           \/ rel'[i].token = rel[i].token /\ rel'[i].status # "unmatched"
           \/ /\ rel'[i].token = rel[i].token + 1 /\ rel[i].status = "unmatched"
              /\ rel[i].lease # NULL => rel[i].lease <= clock
              /\ rel'[i].lease \in Int
<1>0. TypeOK
  BY DEF FenceInv
<1> SUFFICES ASSUME NEW i \in Infohashes
             PROVE  \/ rel'[i].token = rel[i].token /\ rel'[i].lease = rel[i].lease
                         /\ (rel'[i].status = "unmatched" =>
                               rel[i].status = "unmatched" \/ rel[i].token = 0)
                    \/ rel'[i].token = rel[i].token /\ rel'[i].status # "unmatched"
                    \/ /\ rel'[i].token = rel[i].token + 1 /\ rel[i].status = "unmatched"
                       /\ rel[i].lease # NULL => rel[i].lease <= clock
                       /\ rel'[i].lease \in Int
  OBVIOUS
<1>1. CASE UNCHANGED rel
  BY <1>1
<1>2. ASSUME NEW t \in Txs, ClaimCommit(t)
      PROVE  \/ rel'[i] = rel[i]
             \/ rel'[i].token = rel[i].token /\ rel'[i].status # "unmatched"
             \/ /\ rel'[i].token = rel[i].token + 1 /\ rel[i].status = "unmatched"
                /\ rel[i].lease # NULL => rel[i].lease <= clock
                /\ rel'[i].lease \in Int
  <2>1. /\ TxIsSound(t) /\ tx[t].expires \in Int /\ tx[t].now \in Int /\ clock \in Int
        /\ rel[i] \in Row
    BY <1>0 DEF FenceInv, TypeOK, Tx
  <2>2. CASE i \in tx[t].leased
    <3>1. rel'[i] = Lease(rel[i], tx[t].expires)
      BY <1>2, <2>2 DEF ClaimCommit
    <3>2. rel'[i].token = rel[i].token + 1 /\ rel'[i].lease = tx[t].expires
      BY <2>1, <3>1 DEF Lease, Row
    <3>3. rel[i].status = "unmatched" /\ LeaseOver(rel[i], tx[t].now) /\ tx[t].now <= clock
      BY <2>1, <2>2 DEF TxIsSound
    <3>4. rel[i].lease # NULL => rel[i].lease <= clock
      BY <2>1, <3>3 DEF LeaseOver, Row
    <3>5. QED
      BY <2>1, <3>2, <3>3, <3>4
  <2>3. CASE i \in tx[t].swept \ tx[t].leased
    <3>1. rel'[i] = Exhaust(rel[i])
      BY <1>2, <2>3 DEF ClaimCommit
    <3>2. QED
      BY <2>1, <3>1 DEF Exhaust, Row
  <2>4. CASE i \notin tx[t].swept \cup tx[t].leased
    BY <1>2, <2>4 DEF ClaimCommit
  <2>5. QED
    BY <2>2, <2>3, <2>4
<1>3. ASSUME NEW t \in Txs, IngestCommit(t)
      PROVE  /\ rel'[i].token = rel[i].token /\ rel'[i].lease = rel[i].lease
             /\ rel'[i].status = "unmatched" =>
                  rel[i].status = "unmatched" \/ rel[i].token = 0
  <2> DEFINE j == tx[t].ih
  <2>1. rel \in [Infohashes -> Row] /\ rel[i] \in Row
    BY <1>0 DEF TypeOK
  <2>2. rel[i].status = "absent" => rel[i].token = 0
    BY DEF FenceInv, AbsentIsUnclaimed
  <2>3. CASE j # i
    BY <1>3, <2>1, <2>3 DEF IngestCommit
  <2>4. CASE /\ j = i /\ rel[i].status = "absent"
             /\ rel' = [rel EXCEPT ![i].status = "unmatched", ![i].published = tx[t].date]
    BY <2>1, <2>2, <2>4 DEF Row
  <2>5. CASE /\ j = i
             /\ rel' = [rel EXCEPT ![i].published = IF tx[t].date < @ THEN tx[t].date ELSE @]
    BY <2>1, <2>5 DEF Row
  <2>6. CASE rel' = rel
    BY <2>6
  <2>7. QED
    BY <1>3, <2>3, <2>4, <2>5, <2>6 DEF IngestCommit
<1>4. QED
  BY <1>1, <1>2, <1>3, OnlyCommitsWriteRows

(* A submit under way keeps its request; the others have just begun.        *)
LEMMA RunningSubmit ==
  ASSUME TypeOK, [Next]_vars, NEW u \in Txs, tx'[u].pc \in {"submit", "write"}
  PROVE  \/ /\ tx[u].pc \in {"submit", "write"} /\ tx'[u].ih = tx[u].ih
            /\ tx'[u].token = tx[u].token /\ tx'[u].now = tx[u].now
            /\ tx'[u].status = tx[u].status /\ tx'[u].ref = tx[u].ref
         \/ \E i \in Infohashes, s \in SubmitStatuses, r \in Refs \cup {NULL} :
              \E k \in Presentable(i) :
                /\ SubmitBegin(u, i, k, s, r)
                /\ tx'[u].now = clock /\ tx'[u].ih = i /\ tx'[u].token = k
                /\ tx'[u].status = s /\ tx'[u].ref = r
<1>1. CASE UNCHANGED tx
  BY <1>1
<1>2. CASE Restart
  BY <1>2 DEF Restart, Idle
<1>3. ASSUME NEW t \in Txs, Call(t) \/ ClaimStep(t) \/ SubmitStep(t) \/ IngestCommit(t) \/ Abort(t),
             u # t
      PROVE  tx'[u] = tx[u]
  BY <1>3 DEF TypeOK, Call, ClaimBegin, SubmitBegin, IngestLock, ClaimStep, ClaimSweep,
     ClaimSweepRow, ClaimSelect, ClaimLeaseRow, ClaimCommit, SubmitStep, SubmitLock,
     SubmitCommit, IngestCommit, Abort
<1>4. ASSUME tx'[u] = Idle
      PROVE  FALSE
  BY <1>4 DEF Idle
<1>5. CASE ClaimStep(u) \/ SubmitCommit(u) \/ IngestCommit(u) \/ Abort(u)
  <2>1. CASE tx'[u] = Idle
    BY <1>4, <2>1
  <2>2. CASE ClaimSweep(u) \/ ClaimSelect(u)
    BY <2>2 DEF ClaimSweep, ClaimSelect, TypeOK, Tx
  <2>3. CASE ClaimSweepRow(u)
    <3>1. tx[u].pc = "sweep" /\ tx'[u].pc = tx[u].pc
      BY <2>3 DEF ClaimSweepRow, TypeOK, Tx
    <3>2. QED
      BY <3>1
  <2>4. CASE ClaimLeaseRow(u)
    <3>1. tx[u].pc = "lease" /\ tx'[u].pc = tx[u].pc
      BY <2>4 DEF ClaimLeaseRow, TypeOK, Tx
    <3>2. QED
      BY <3>1
  <2>5. QED
    BY <1>5, <2>1, <2>2, <2>3, <2>4
       DEF ClaimStep, ClaimCommit, SubmitCommit, IngestCommit, Abort, TypeOK
<1>6. CASE SubmitLock(u)
  <2>1. tx[u].pc = "submit" /\ tx' = [tx EXCEPT ![u].pc = "write"]
    BY <1>4, <1>6 DEF SubmitLock, TypeOK
  <2>2. QED
    BY <2>1 DEF TypeOK, Tx
<1>7. CASE Call(u)
  <2>1. ASSUME NEW l \in Limits, NEW ls \in LeaseRequests, ClaimBegin(u, l, ls)
        PROVE  FALSE
    <3>1. tx'[u] = [Idle EXCEPT !.pc = "begun", !.now = clock, !.limit = ClampLimit(l),
                                !.expires = clock + LeaseSpan(ls)]
      BY <2>1 DEF ClaimBegin, TypeOK
    <3>2. tx'[u].pc = "begun"
      BY <3>1 DEF Idle
    <3>3. QED
      BY <3>2
  <2>2. ASSUME NEW i \in Infohashes, NEW d \in Dates, IngestLock(u, i, d)
        PROVE  FALSE
    <3>1. tx'[u] = [Idle EXCEPT !.pc = "ingest", !.ih = i, !.date = d]
      BY <2>2 DEF IngestLock, TypeOK
    <3>2. tx'[u].pc = "ingest"
      BY <3>1 DEF Idle
    <3>3. QED
      BY <3>2
  <2>3. ASSUME NEW i \in Infohashes, NEW s \in SubmitStatuses, NEW r \in Refs \cup {NULL},
               NEW k \in Presentable(i), SubmitBegin(u, i, k, s, r)
        PROVE  /\ tx'[u].now = clock /\ tx'[u].ih = i /\ tx'[u].token = k
               /\ tx'[u].status = s /\ tx'[u].ref = r
    <3>1. tx'[u] = [Idle EXCEPT !.pc = "submit", !.now = clock, !.ih = i, !.token = k,
                                !.status = s, !.ref = r]
      BY <2>3 DEF SubmitBegin, TypeOK
    <3>2. QED
      BY <3>1 DEF Idle
  <2>4. QED
    BY <1>7, <2>1, <2>2, <2>3 DEF Call
<1>8. QED
  BY <1>1, <1>2, <1>3, <1>5, <1>6, <1>7 DEF Next, vars, Tick, SubmitStep

(* A submit that starts now is later than the answers to older leases; one  *)
(* under way keeps its request and its clock reading.                       *)
LEMMA QuietStepKeepsSubmits ==
  ASSUME FenceInv, FenceInv', HistoryInv, [Next]_vars, UNCHANGED events
  PROVE  SubmitsAreLater'
<1> SUFFICES ASSUME NEW u \in Txs, tx'[u].pc \in {"submit", "write"},
                    NEW n \in 1..Len(events[tx'[u].ih]),
                    events[tx'[u].ih][n].token < tx'[u].token
             PROVE  events[tx'[u].ih][n].created < tx'[u].now
  BY DEF SubmitsAreLater
<1>0. TypeOK /\ TypeOK'
  BY DEF FenceInv
<1>1. \/ /\ tx[u].pc \in {"submit", "write"} /\ tx'[u].ih = tx[u].ih
         /\ tx'[u].token = tx[u].token /\ tx'[u].now = tx[u].now
      \/ /\ tx'[u].now = clock /\ tx'[u].ih \in Infohashes
         /\ tx'[u].token <= rel[tx'[u].ih].token
  <2>1. ASSUME NEW i \in Infohashes, NEW k \in Presentable(i)
        PROVE  k <= rel[i].token
    BY <1>0 DEF Presentable, FenceInv, GrantsAreFenced, TypeOK, Row
  <2>2. QED
    BY <1>0, <2>1, RunningSubmit
<1>2. CASE /\ tx[u].pc \in {"submit", "write"} /\ tx'[u].ih = tx[u].ih
           /\ tx'[u].token = tx[u].token /\ tx'[u].now = tx[u].now
  BY <1>2 DEF HistoryInv, SubmitsAreLater
<1>3. CASE /\ tx'[u].now = clock /\ tx'[u].ih \in Infohashes
           /\ tx'[u].token <= rel[tx'[u].ih].token
  <2>1. /\ events[tx'[u].ih][n].token \in Nat /\ rel[tx'[u].ih].token \in Nat
        /\ tx'[u].token \in Nat
    <3>1. events[tx'[u].ih][n].token \in Nat
      BY <1>0, <1>3, EventIsTyped
    <3>2. QED
      BY <1>0, <1>3, <3>1 DEF TypeOK, Row, Tx
  <2>2. QED
    BY <1>3, <2>1 DEF HistoryInv, EventsAreDated
<1>4. QED
  BY <1>1, <1>2, <1>3

(* The commit of a submit stamps its event with a reading that is before    *)
(* the lease's expiry and after every answer to an older lease.             *)
LEMMA SubmitCommitHistory ==
  ASSUME FenceInv, FenceInv', HistoryInv, NEW t \in Txs, SubmitCommit(t)
  PROVE  HistoryInv'
<1> DEFINE i == tx[t].ih
           e == [status |-> FinalStatus(rel[i], tx[t].status), ref |-> tx[t].ref,
                 created |-> tx[t].now, token |-> tx[t].token]
           n == Len(events[i]) + 1
<1>0. TypeOK /\ TypeOK' /\ TxIsSound(t) /\ clock' = clock
  BY DEF FenceInv, SubmitCommit
<1>1. /\ i \in Infohashes /\ rel[i].status = "unmatched"
      /\ rel[i].token = tx[t].token /\ rel[i].lease # NULL /\ rel[i].lease > tx[t].now
  BY <1>0 DEF SubmitCommit, TxIsSound, LeaseHeld
<1>2. e.created = tx[t].now /\ e.token = tx[t].token
  OBVIOUS
<1>3. events' = [events EXCEPT ![i] = Append(@, e)]
  BY DEF SubmitCommit
<1> HIDE DEF e
<1>4. /\ \A j \in Infohashes \ {i} : events'[j] = events[j]
      /\ events'[i] = Append(events[i], e) /\ events[i] \in Seq(Event)
  BY <1>0, <1>1, <1>3 DEF TypeOK
<1>5. /\ Len(events[i]) \in Nat /\ Len(events'[i]) = n
      /\ events'[i][n] = e
      /\ \A k \in 1..Len(events[i]) : events'[i][k] = events[i][k]
  BY <1>4
<1>6. /\ \A j \in Infohashes \ {i} : rel'[j] = rel[j]
      /\ rel'[i].token = rel[i].token
      /\ rel'[i].status = "unmatched" => rel'[i].lease = rel[i].lease
  <2>1. rel[i] \in Row /\ tx[t].ref \in Refs \cup {NULL} /\ tx[t].status \in SubmitStatuses
    BY <1>0, <1>1 DEF TypeOK, Tx, TxIsSound, SubmitCommit
  <2>2. /\ rel'[i] = Answer(rel[i], tx[t].status, tx[t].ref)
        /\ \A j \in Infohashes \ {i} : rel'[j] = rel[j]
    BY <1>0, <1>1 DEF SubmitCommit, TypeOK
  <2>3. QED
    BY <2>1, <2>2, AnswerFields DEF Terminal
<1>7. /\ tx[t].token \in Nat /\ tx[t].now \in Int /\ 0 < tx[t].token
  <2>1. rel[i].token > 0
    BY <1>1 DEF FenceInv, LeaseIffOpenClaim
  <2>2. QED
    BY <1>0, <1>1, <2>1 DEF TypeOK, Tx
<1>8. EventsAreDated'
  <2> SUFFICES ASSUME NEW j \in Infohashes, NEW k \in 1..Len(events'[j])
               PROVE  LET f == events'[j][k]
                      IN  /\ 0 < f.token /\ f.token <= rel'[j].token
                          /\ f.token < rel'[j].token => f.created < clock'
                          /\ f.token = rel'[j].token /\ rel'[j].status = "unmatched"
                               => f.created < rel'[j].lease
    BY DEF EventsAreDated
  <2>1. CASE j # i
    BY <1>0, <1>4, <1>6, <2>1 DEF HistoryInv, EventsAreDated
  <2>2. CASE j = i /\ k \in 1..Len(events[i])
    BY <1>0, <1>1, <1>5, <1>6, <2>2 DEF HistoryInv, EventsAreDated
  <2>3. CASE j = i /\ k = n
    BY <1>1, <1>2, <1>5, <1>6, <1>7, <2>3
  <2>4. QED
    BY <1>5, <2>1, <2>2, <2>3
<1>9. SubmitsAreLater'
  <2> SUFFICES ASSUME NEW u \in Txs, tx'[u].pc \in {"submit", "write"},
                      NEW k \in 1..Len(events'[tx'[u].ih]),
                      events'[tx'[u].ih][k].token < tx'[u].token
               PROVE  events'[tx'[u].ih][k].created < tx'[u].now
    BY DEF SubmitsAreLater
  <2>1. u # t
    BY <1>0 DEF SubmitCommit, TypeOK, Idle
  <2>2. tx'[u] = tx[u]
    BY <1>0, <2>1 DEF SubmitCommit, TypeOK
  <2>3. tx[u].ih \in Infohashes /\ tx[u].token <= rel[tx[u].ih].token /\ tx[u].token \in Nat
    BY <1>0, <2>2 DEF FenceInv, TxIsSound, TypeOK, Tx
  <2>4. CASE tx[u].ih # i
    BY <1>4, <2>2, <2>3, <2>4 DEF HistoryInv, SubmitsAreLater
  <2>5. CASE tx[u].ih = i /\ k \in 1..Len(events[i])
    BY <1>5, <2>2, <2>5 DEF HistoryInv, SubmitsAreLater
  <2>6. CASE tx[u].ih = i /\ k = n
    BY <1>1, <1>2, <1>5, <1>7, <2>2, <2>3, <2>6
  <2>7. CASE tx[u].ih = i
    <3>1. k \in 1..Len(events[i]) \/ k = n
      BY <1>5, <2>2, <2>7
    <3> QED
      BY <2>5, <2>6, <2>7, <3>1
  <2> QED
    BY <2>4, <2>7
<1>10. LeaseHistoryInOrder'
  <2> SUFFICES ASSUME NEW h \in Infohashes, NEW j \in 1..Len(events'[h]),
                      NEW k \in 1..Len(events'[h]),
                      j < k, events'[h][j].token # events'[h][k].token
               PROVE  /\ events'[h][j].token < events'[h][k].token
                      /\ events'[h][j].created < events'[h][k].created
    BY DEF LeaseHistoryInOrder
  <2>1. CASE h # i
    BY <1>4, <2>1 DEF HistoryInv, LeaseHistoryInOrder
  <2>2. CASE h = i /\ k \in 1..Len(events[i])
    <3>1. j \in 1..Len(events[i])
      BY <1>5, <2>2
    <3>2. QED
      BY <1>1, <1>5, <2>2, <3>1 DEF HistoryInv, LeaseHistoryInOrder
  <2>3. CASE h = i /\ k = n
    <3>1. j \in 1..Len(events[i]) /\ events'[i][j] = events[i][j] /\ events'[i][k] = e
      BY <1>5, <2>3
    <3>2. events[i][j].token \in Nat /\ events[i][j].token <= rel[i].token
      BY <1>0, <1>1, <3>1, EventIsTyped DEF HistoryInv, EventsAreDated
    <3>3. events[i][j].token < tx[t].token
      BY <1>1, <1>2, <1>7, <2>3, <3>1, <3>2
    <3>4. events[i][j].created < tx[t].now
      BY <3>1, <3>3 DEF HistoryInv, SubmitsAreLater, SubmitCommit
    <3>5. QED
      BY <1>2, <2>3, <3>1, <3>3, <3>4
  <2>4. QED
    BY <1>5, <2>1, <2>2, <2>3
<1>11. QED
  BY <1>8, <1>9, <1>10 DEF HistoryInv

(* Every step keeps the histories dated and in lease order. *)
LEMMA NextHistory ==
  FenceInv /\ FenceInv' /\ HistoryInv /\ [Next]_vars => HistoryInv'
<1> SUFFICES ASSUME FenceInv, FenceInv', HistoryInv, [Next]_vars PROVE HistoryInv'
  OBVIOUS
<1>1. CASE \E t \in Txs : SubmitCommit(t)
  BY <1>1, SubmitCommitHistory
<1>2. CASE ~ \E t \in Txs : SubmitCommit(t)
  <2>1. UNCHANGED events
    BY <1>2, OnlySubmitWritesEvents
  <2>2. clock <= clock'
    <3>1. clock' = clock \/ clock' = clock + 1
      BY DEF Next, vars, Call, ClaimStep, SubmitStep, ClaimBegin, ClaimSweep, ClaimSweepRow,
         ClaimSelect, ClaimLeaseRow, ClaimCommit, SubmitBegin, SubmitLock, SubmitCommit,
         IngestLock, IngestCommit, Abort, Restart, Tick
    <3>2. clock \in Nat
      BY DEF FenceInv, TypeOK
    <3>3. QED
      BY <3>1, <3>2
  <2>3. EventsAreDated'
    BY <1>2, <2>1, <2>2, QuietRows, QuietStepKeepsDates DEF HistoryInv
  <2>4. SubmitsAreLater'
    BY <2>1, QuietStepKeepsSubmits
  <2>5. LeaseHistoryInOrder'
    BY <2>1 DEF HistoryInv, LeaseHistoryInOrder
  <2>6. QED
    BY <2>3, <2>4, <2>5 DEF HistoryInv
<1>3. QED
  BY <1>1, <1>2

(* Empty histories are dated and in order. *)
LEMMA InitHistory == Init => HistoryInv
<1> SUFFICES ASSUME Init PROVE HistoryInv
  OBVIOUS
<1>1. \A i \in Infohashes : Len(events[i]) = 0
  BY DEF Init
<1>2. EventsAreDated /\ LeaseHistoryInOrder
  BY <1>1 DEF EventsAreDated, LeaseHistoryInOrder
<1>3. SubmitsAreLater
  BY DEF Init, Idle, SubmitsAreLater
<1>4. QED
  BY <1>2, <1>3 DEF HistoryInv

(* LeaseHistoryInOrder: across leases, created_at order is commit order,    *)
(* although every stamp is read before the row lock.                        *)
THEOREM LeaseHistory == Spec => []LeaseHistoryInOrder
<1>1. HistoryInv => LeaseHistoryInOrder
  BY DEF HistoryInv
<1>2. QED
  BY <1>1, FenceHolds, InitHistory, NextHistory, PTL DEF Spec
-----------------------------------------------------------------------------
(* The row and its history. *)

(* A submit's status and reference were validated before it began. *)
LEMMA NextRequests ==
  ASSUME TypeOK, RequestsAreValid, [Next]_vars
  PROVE  RequestsAreValid'
<1> SUFFICES ASSUME NEW u \in Txs, tx'[u].pc \in {"submit", "write"}
             PROVE  ValidSubmit(tx'[u].status, tx'[u].ref)
  BY DEF RequestsAreValid, ValidSubmit
<1>1. CASE tx[u].pc \in {"submit", "write"} /\ tx'[u].status = tx[u].status /\ tx'[u].ref = tx[u].ref
  BY <1>1 DEF RequestsAreValid
<1>2. ASSUME NEW i, NEW k, NEW s, NEW r, SubmitBegin(u, i, k, s, r),
             tx'[u].status = s, tx'[u].ref = r
      PROVE  ValidSubmit(tx'[u].status, tx'[u].ref)
  BY <1>2 DEF SubmitBegin
<1>3. QED
  BY <1>1, <1>2, RunningSubmit

(* Appending an event counts it if it failed. *)
LEMMA FailedCount ==
  ASSUME NEW h \in Seq(Event), NEW e \in Event
  PROVE  LET F == {k \in 1..Len(h) : Failed(h[k])}
             G == {k \in 1..Len(Append(h, e)) : Failed(Append(h, e)[k])}
         IN  Cardinality(G) = IF Failed(e) THEN Cardinality(F) + 1 ELSE Cardinality(F)
<1> DEFINE F == {k \in 1..Len(h) : Failed(h[k])}
           G == {k \in 1..Len(Append(h, e)) : Failed(Append(h, e)[k])}
           n == Len(h) + 1
<1>1. /\ Len(h) \in Nat /\ Len(Append(h, e)) = n /\ Append(h, e)[n] = e
      /\ \A k \in 1..Len(h) : Append(h, e)[k] = h[k]
  OBVIOUS
<1>2. IsFiniteSet(F) /\ n \notin F
  <2>1. IsFiniteSet(1..Len(h)) /\ F \subseteq 1..Len(h)
    BY <1>1, FS_Interval
  <2>2. QED
    BY <1>1, <2>1, FS_Subset
<1>3. G = IF Failed(e) THEN F \cup {n} ELSE F
  BY <1>1
<1>4. Cardinality(F \cup {n}) = Cardinality(F) + 1
  BY <1>2, FS_AddElement
<1>5. QED
  BY <1>3, <1>4

(* What a submit does to status, reference and attempts. *)
LEMMA AnswerCounts ==
  ASSUME NEW row \in Row, NEW s \in SubmitStatuses, NEW r \in Refs \cup {NULL},
         ValidSubmit(s, r)
  PROVE  /\ Answer(row, s, r).attempts =
              IF s = "unmatched" THEN row.attempts + 1 ELSE row.attempts
         /\ FinalStatus(row, s) \in {"unmatched", "exhausted"} <=> s = "unmatched"
         /\ \/ /\ FinalStatus(row, s) = "unmatched" /\ r = NULL
               /\ Answer(row, s, r).status = row.status
               /\ Answer(row, s, r).ref = row.ref
            \/ /\ FinalStatus(row, s) \in Terminal
               /\ Answer(row, s, r).status = FinalStatus(row, s)
               /\ Answer(row, s, r).ref = r
<1>1. /\ FinalStatus(row, s) \in Terminal \cup {"unmatched"}
      /\ FinalStatus(row, s) \in {"unmatched", "exhausted"} <=> s = "unmatched"
      /\ FinalStatus(row, s) = "unmatched" => r = NULL
  BY DEF FinalStatus, SubmitStatuses, Terminal, ValidSubmit
<1>2. CASE FinalStatus(row, s) = "unmatched"
  BY <1>1, <1>2 DEF Answer, Row
<1>3. CASE FinalStatus(row, s) # "unmatched"
  BY <1>1, <1>3 DEF Answer, Row
<1>4. QED
  BY <1>1, <1>2, <1>3

(* What the other steps do to a row: they settle only by exhausting an open *)
(* one, and open only an absent one.                                        *)
LEMMA QuietAnswers ==
  ASSUME FenceInv, [Next]_vars, ~ \E t \in Txs : SubmitCommit(t), NEW i \in Infohashes
  PROVE  /\ rel'[i].ref = rel[i].ref /\ rel'[i].attempts = rel[i].attempts
         /\ \/ rel'[i].status = rel[i].status
            \/ rel[i].status = "unmatched" /\ rel'[i].status = "exhausted"
            \/ rel[i].status = "absent" /\ rel'[i].status = "unmatched"
<1>0. TypeOK /\ rel \in [Infohashes -> Row] /\ rel[i] \in Row
  BY DEF FenceInv, TypeOK
<1>1. CASE UNCHANGED rel
  BY <1>1
<1>2. ASSUME NEW t \in Txs, ClaimCommit(t)
      PROVE  /\ rel'[i].ref = rel[i].ref /\ rel'[i].attempts = rel[i].attempts
             /\ \/ rel'[i].status = rel[i].status
                \/ rel[i].status = "unmatched" /\ rel'[i].status = "exhausted"
  <2>1. CASE i \in tx[t].leased
    <3>1. rel'[i] = Lease(rel[i], tx[t].expires)
      BY <1>2, <2>1 DEF ClaimCommit
    <3>2. QED
      BY <1>0, <3>1 DEF Lease, Row
  <2>2. CASE i \in tx[t].swept \ tx[t].leased
    <3>1. rel'[i] = Exhaust(rel[i]) /\ rel[i].status = "unmatched"
      BY <1>2, <2>2 DEF ClaimCommit, FenceInv, TxIsSound
    <3>2. QED
      BY <1>0, <3>1 DEF Exhaust, Row
  <2>3. CASE i \notin tx[t].swept \cup tx[t].leased
    BY <1>2, <2>3 DEF ClaimCommit
  <2>4. QED
    BY <2>1, <2>2, <2>3
<1>3. ASSUME NEW t \in Txs, IngestCommit(t)
      PROVE  /\ rel'[i].ref = rel[i].ref /\ rel'[i].attempts = rel[i].attempts
             /\ \/ rel'[i].status = rel[i].status
                \/ rel[i].status = "absent" /\ rel'[i].status = "unmatched"
  <2> DEFINE j == tx[t].ih
  <2>1. CASE j # i
    BY <1>0, <1>3, <2>1 DEF IngestCommit
  <2>2. CASE /\ j = i /\ rel[i].status = "absent"
             /\ rel' = [rel EXCEPT ![i].status = "unmatched", ![i].published = tx[t].date]
    BY <1>0, <2>2 DEF Row
  <2>3. CASE /\ j = i
             /\ rel' = [rel EXCEPT ![i].published = IF tx[t].date < @ THEN tx[t].date ELSE @]
    BY <1>0, <2>3 DEF Row
  <2>4. CASE rel' = rel
    BY <2>4
  <2>5. QED
    BY <1>3, <2>1, <2>2, <2>3, <2>4 DEF IngestCommit
<1>4. QED
  BY <1>1, <1>2, <1>3, OnlyCommitsWriteRows

(* Every step keeps the rows in line with their histories. *)
LEMMA NextRow == FenceInv /\ RowInv /\ [Next]_vars => RowInv'
<1> SUFFICES ASSUME FenceInv, RowInv, [Next]_vars PROVE RowInv'
  OBVIOUS
<1>0. TypeOK /\ RequestsAreValid /\ RowFollowsHistory
  BY DEF FenceInv, RowInv
<1>1. RequestsAreValid'
  BY <1>0, NextRequests
<1>2. CASE ~ \E t \in Txs : SubmitCommit(t)
  <2>1. UNCHANGED events
    BY <1>2, OnlySubmitWritesEvents
  <2>2. \A i \in Infohashes :
          /\ rel'[i].ref = rel[i].ref /\ rel'[i].attempts = rel[i].attempts
          /\ \/ rel'[i].status = rel[i].status
             \/ rel[i].status = "unmatched" /\ rel'[i].status = "exhausted"
             \/ rel[i].status = "absent" /\ rel'[i].status = "unmatched"
    BY <1>2, QuietAnswers
  <2>3. RowFollowsHistory'
    BY <1>0, <2>1, <2>2 DEF RowFollowsHistory, Terminal
  <2>4. QED
    BY <1>1, <2>3 DEF RowInv
<1>3. ASSUME NEW t \in Txs, SubmitCommit(t) PROVE RowFollowsHistory'
  <2> DEFINE f == FinalStatus(rel[tx[t].ih], tx[t].status)
  <2>1. TxIsSound(t) /\ tx[t].pc = "write"
    BY <1>3 DEF FenceInv, SubmitCommit
  <2>2. PICK i \in Infohashes : i = tx[t].ih
    BY <2>1 DEF TxIsSound
  <2>3. PICK e \in Event : e = [status |-> f, ref |-> tx[t].ref, created |-> tx[t].now,
                                token |-> tx[t].token]
    <3>1. f \in Statuses /\ tx[t].ref \in Refs \cup {NULL} /\ tx[t].now \in Int
          /\ tx[t].token \in Nat
      BY <1>0, <2>1 DEF TypeOK, Tx, TxIsSound, FinalStatus, SubmitStatuses, Statuses, Terminal
    <3> HIDE DEF f
    <3>2. QED
      BY <3>1 DEF Event
  <2>4. e.status = f /\ e.ref = tx[t].ref
    BY <2>3
  <2> HIDE DEF f
  <2>5. /\ events' = [events EXCEPT ![i] = Append(@, e)]
        /\ rel' = [rel EXCEPT ![i] = Answer(@, tx[t].status, tx[t].ref)]
    BY <1>3, <2>2, <2>3 DEF SubmitCommit, f
  <2>6. /\ \A j \in Infohashes \ {i} : events'[j] = events[j] /\ rel'[j] = rel[j]
        /\ events'[i] = Append(events[i], e) /\ events[i] \in Seq(Event)
        /\ rel'[i] = Answer(rel[i], tx[t].status, tx[t].ref) /\ rel[i] \in Row
    BY <1>0, <2>5 DEF TypeOK
  <2>7. /\ rel[i].status = "unmatched" /\ tx[t].status \in SubmitStatuses
        /\ tx[t].ref \in Refs \cup {NULL} /\ ValidSubmit(tx[t].status, tx[t].ref)
    BY <1>0, <2>1, <2>2 DEF TxIsSound, TypeOK, Tx, RequestsAreValid
  <2>8. /\ rel'[i].attempts =
             IF tx[t].status = "unmatched" THEN rel[i].attempts + 1 ELSE rel[i].attempts
        /\ f \in {"unmatched", "exhausted"} <=> tx[t].status = "unmatched"
        /\ \/ f = "unmatched" /\ tx[t].ref = NULL /\ rel'[i].status = "unmatched"
                /\ rel'[i].ref = rel[i].ref
           \/ f \in Terminal /\ rel'[i].status = f /\ rel'[i].ref = tx[t].ref
    BY <2>2, <2>6, <2>7, AnswerCounts DEF f
  <2>9. /\ Len(events[i]) \in Nat /\ Len(events'[i]) = Len(events[i]) + 1
        /\ events'[i][Len(events[i]) + 1] = e
        /\ \A k \in 1..Len(events[i]) : events'[i][k] = events[i][k]
    BY <2>6
  <2>10. /\ \A k \in 1..Len(events[i]) : events[i][k].status \notin Terminal
         /\ rel[i].ref = NULL
    <3>1. ~(events[i] # <<>> /\ events[i][Len(events[i])].status \in Terminal)
      BY <1>0, <2>7 DEF RowFollowsHistory, Terminal
    <3>2. rel[i].ref = NULL
      BY <1>0, <3>1 DEF RowFollowsHistory
    <3>3. ASSUME NEW k \in 1..Len(events[i]), events[i][k].status \in Terminal PROVE FALSE
      <4>1. k = Len(events[i])
        BY <1>0, <3>3 DEF RowFollowsHistory
      <4>2. events[i] # <<>>
        BY <2>6, <2>9, <3>3
      <4>3. QED
        BY <3>1, <3>3, <4>1, <4>2
    <3>4. QED
      BY <3>2, <3>3
  <2>11. rel'[i].attempts = Cardinality({k \in 1..Len(events'[i]) : Failed(events'[i][k])})
    <3>1. rel[i].attempts = Cardinality({k \in 1..Len(events[i]) : Failed(events[i][k])})
      BY <1>0 DEF RowFollowsHistory
    <3>2. Failed(e) <=> tx[t].status = "unmatched"
      BY <2>4, <2>8 DEF Failed
    <3>3. QED
      BY <2>6, <2>8, <3>1, <3>2, FailedCount
  <2>12. /\ \A k \in 1..Len(events'[i]) : events'[i][k].status \in Terminal => k = Len(events'[i])
         /\ IF events'[i] # <<>> /\ events'[i][Len(events'[i])].status \in Terminal
            THEN /\ rel'[i].status = events'[i][Len(events'[i])].status
                 /\ rel'[i].ref = events'[i][Len(events'[i])].ref
            ELSE rel'[i].status \notin {"matched", "suppressed"} /\ rel'[i].ref = NULL
    <3>1. \A k \in 1..Len(events'[i]) : events'[i][k].status \in Terminal => k = Len(events'[i])
      BY <2>9, <2>10
    <3>2. events'[i] # <<>> /\ events'[i][Len(events'[i])] = e
      BY <2>6, <2>9
    <3>3. QED
      BY <2>4, <2>8, <2>10, <3>1, <3>2 DEF Terminal
  <2>13. QED
    BY <1>0, <2>6, <2>11, <2>12 DEF RowFollowsHistory
<1>4. QED
  BY <1>1, <1>2, <1>3 DEF RowInv

(* No release, no history. *)
LEMMA InitRow == Init => RowInv
<1> SUFFICES ASSUME Init PROVE RowInv
  OBVIOUS
<1>1. RequestsAreValid
  BY DEF Init, Idle, RequestsAreValid
<1>2. ASSUME NEW i \in Infohashes
      PROVE  /\ events[i] = <<>> /\ rel[i].status = "absent" /\ rel[i].ref = NULL
             /\ rel[i].attempts = 0
  BY DEF Init, NoRow
<1>3. ASSUME NEW i \in Infohashes
      PROVE  {k \in 1..Len(events[i]) : Failed(events[i][k])} = {}
  BY <1>2
<1>4. RowFollowsHistory
  BY <1>2, <1>3, FS_EmptySet DEF RowFollowsHistory
<1>5. QED
  BY <1>1, <1>4 DEF RowInv

(* RowFollowsHistory: a release row is explained by its match_events, and a *)
(* claim that crashed, expired or lost its response costs no attempt         *)
(* (store.go:336).                                                          *)
THEOREM RowHistory == Spec => []RowFollowsHistory
<1>1. RowInv => RowFollowsHistory
  BY DEF RowInv
<1>2. QED
  BY <1>1, FenceHolds, InitRow, NextRow, PTL DEF Spec

-----------------------------------------------------------------------------
(* Queue implements LeaseQueue: every commit of a claim, a submit or an      *)
(* ingest is one step of the queue without clocks, locks and transactions,  *)
(* the passing of time only ends leases, and nothing else is visible.       *)

(* What a step of connection t does to the sets of a claim. *)
LEMMA ClaimedRows ==
  ASSUME TypeOK, NEW t \in Txs,
         Call(t) \/ ClaimStep(t) \/ SubmitStep(t) \/ IngestCommit(t) \/ Abort(t)
  PROVE  /\ \A u \in Txs \ {t} : tx'[u] = tx[u]
         /\ cap' = cap
         /\ \A i \in tx'[t].leased : /\ i \in tx[t].leased \/ Claimable(rel[i], tx[t].now)
                                     /\ UNCHANGED rel
         /\ \A i \in tx'[t].swept : /\ i \in tx[t].swept \/ Sweepable(rel[i], tx[t].now)
                                    /\ UNCHANGED rel
<1>1. \A u \in Txs \ {t} : tx'[u] = tx[u]
  BY DEF TypeOK, Call, ClaimBegin, SubmitBegin, IngestLock, ClaimStep, ClaimSweep,
     ClaimSweepRow, ClaimSelect, ClaimLeaseRow, ClaimCommit, SubmitStep, SubmitLock,
     SubmitCommit, IngestCommit, Abort
<1>2. cap' = cap
  BY DEF Call, ClaimBegin, SubmitBegin, IngestLock, ClaimStep, ClaimSweep,
     ClaimSweepRow, ClaimSelect, ClaimLeaseRow, ClaimCommit, SubmitStep, SubmitLock,
     SubmitCommit, IngestCommit, Abort
<1>3. CASE tx'[t].leased = {} /\ tx'[t].swept = {}
  BY <1>1, <1>2, <1>3
<1>4. CASE Call(t)
  <2> DEFINE f == Idle
  <2>1. f \in Tx /\ f.leased = {} /\ f.swept = {}
    BY IdleType DEF Idle
  <2>2. ASSUME NEW l \in Limits, NEW ls \in LeaseRequests, ClaimBegin(t, l, ls)
        PROVE  tx'[t].leased = {} /\ tx'[t].swept = {}
    <3>1. tx'[t] = [f EXCEPT !.pc = "begun", !.now = clock, !.limit = ClampLimit(l),
                             !.expires = clock + LeaseSpan(ls)]
      BY <2>2 DEF ClaimBegin, TypeOK
    <3> HIDE DEF f
    <3>2. QED
      BY <2>1, <3>1 DEF Tx
  <2>3. ASSUME NEW i, NEW k, NEW s, NEW r, SubmitBegin(t, i, k, s, r)
        PROVE  tx'[t].leased = {} /\ tx'[t].swept = {}
    <3>1. tx'[t] = [f EXCEPT !.pc = "submit", !.now = clock, !.ih = i,
                             !.token = k, !.status = s, !.ref = r]
      BY <2>3 DEF SubmitBegin, TypeOK
    <3> HIDE DEF f
    <3>2. QED
      BY <2>1, <3>1 DEF Tx
  <2>4. ASSUME NEW i, NEW d, IngestLock(t, i, d)
        PROVE  tx'[t].leased = {} /\ tx'[t].swept = {}
    <3>1. tx'[t] = [f EXCEPT !.pc = "ingest", !.ih = i, !.date = d]
      BY <2>4 DEF IngestLock, TypeOK
    <3> HIDE DEF f
    <3>2. QED
      BY <2>1, <3>1 DEF Tx
  <2>5. QED
    BY <1>3, <1>4, <2>2, <2>3, <2>4 DEF Call
<1>5. CASE ClaimCommit(t) \/ SubmitCommit(t) \/ IngestCommit(t) \/ Abort(t)
  <2>1. tx'[t] = Idle
    BY <1>5 DEF ClaimCommit, SubmitCommit, IngestCommit, Abort, TypeOK
  <2>2. tx'[t].leased = {} /\ tx'[t].swept = {}
    BY <2>1 DEF Idle
  <2>3. QED
    BY <1>3, <2>2
<1>6. CASE SubmitLock(t)
  <2>1. \/ tx'[t] = Idle
        \/ tx'[t] = [tx[t] EXCEPT !.pc = "write"]
    BY <1>6 DEF SubmitLock, TypeOK
  <2>2. tx'[t].leased \in {{}, tx[t].leased} /\ tx'[t].swept \in {{}, tx[t].swept}
    BY <2>1 DEF Idle, TypeOK, Tx
  <2>3. UNCHANGED rel
    BY <1>6 DEF SubmitLock
  <2>4. QED
    BY <1>1, <1>2, <2>2, <2>3
<1>7. CASE ClaimSweep(t) \/ ClaimSelect(t)
  <2>1. \A x \in Tx : \A p, C : LET y == [x EXCEPT !.pc = p, !.todo = C]
                               IN  y.leased = x.leased /\ y.swept = x.swept
    BY DEF Tx
  <2>2. tx'[t].leased = tx[t].leased /\ tx'[t].swept = tx[t].swept
    <3>1. CASE ClaimSweep(t)
      <4> DEFINE C == Snapshot({i \in Infohashes : Sweepable(rel[i], tx[t].now)})
      <4>1. tx'[t] = [tx[t] EXCEPT !.pc = "sweep", !.todo = C]
        BY <3>1 DEF ClaimSweep, TypeOK
      <4> HIDE DEF C
      <4>2. QED
        BY <2>1, <4>1 DEF TypeOK
    <3>2. CASE ClaimSelect(t)
      <4> DEFINE C == Snapshot({i \in Infohashes : Claimable(rel[i], tx[t].now)})
      <4>1. tx'[t] = [tx[t] EXCEPT !.pc = "lease", !.todo = C]
        BY <3>2 DEF ClaimSelect, TypeOK
      <4> HIDE DEF C
      <4>2. QED
        BY <2>1, <4>1 DEF TypeOK
    <3>3. QED
      BY <1>7, <3>1, <3>2
  <2>3. UNCHANGED rel
    BY <1>7 DEF ClaimSweep, ClaimSelect
  <2>4. QED
    BY <1>1, <1>2, <2>2, <2>3
<1>8. CASE ClaimSweepRow(t)
  <2>1. PICK c \in tx[t].todo :
          tx'[t] = [tx[t] EXCEPT !.todo = @ \ {c},
                                 !.swept = IF Sweepable(rel[c.ih], tx[t].now)
                                           THEN @ \cup {c.ih} ELSE @]
    BY <1>8 DEF ClaimSweepRow, TypeOK
  <2>2. /\ tx'[t].leased = tx[t].leased
        /\ tx'[t].swept = IF Sweepable(rel[c.ih], tx[t].now)
                          THEN tx[t].swept \cup {c.ih} ELSE tx[t].swept
    BY <2>1 DEF TypeOK, Tx
  <2>3. UNCHANGED rel
    BY <1>8 DEF ClaimSweepRow
  <2>4. QED
    BY <1>1, <1>2, <2>2, <2>3
<1>9. CASE ClaimLeaseRow(t)
  <2>1. PICK c \in tx[t].todo :
          tx'[t] = [tx[t] EXCEPT !.todo = @ \ {c},
                                 !.leased = IF Free(t, c.ih) /\ Claimable(rel[c.ih], tx[t].now)
                                            THEN @ \cup {c.ih} ELSE @]
    BY <1>9 DEF ClaimLeaseRow, TypeOK
  <2>2. /\ tx'[t].swept = tx[t].swept
        /\ tx'[t].leased = IF Free(t, c.ih) /\ Claimable(rel[c.ih], tx[t].now)
                           THEN tx[t].leased \cup {c.ih} ELSE tx[t].leased
    BY <2>1 DEF TypeOK, Tx
  <2>3. UNCHANGED rel
    BY <1>9 DEF ClaimLeaseRow
  <2>4. QED
    BY <1>1, <1>2, <2>2, <2>3
<1>10. QED
  BY <1>4, <1>5, <1>6, <1>7, <1>8, <1>9 DEF ClaimStep, SubmitStep

(* A commit writes only rows its transaction has locked. *)
LEMMA LockedRowsStay ==
  ASSUME FenceInv, [Next]_vars, NEW u \in Txs, NEW i \in Infohashes, lock[i] = u,
         tx'[u] # Idle
  PROVE  rel'[i] = rel[i]
<1>0. TypeOK /\ rel \in [Infohashes -> Row]
  BY DEF FenceInv, TypeOK
<1>1. CASE UNCHANGED rel
  BY <1>1
<1>2. ASSUME NEW t \in Txs, ClaimCommit(t) \/ SubmitCommit(t) \/ IngestCommit(t)
      PROVE  rel'[i] = rel[i]
  <2>1. t # u
    BY <1>0, <1>2 DEF TypeOK, ClaimCommit, SubmitCommit, IngestCommit
  <2>2. TxIsSound(t) /\ lock[i] # t
    BY <2>1 DEF FenceInv
  <2>3. CASE ClaimCommit(t)
    BY <2>2, <2>3 DEF ClaimCommit, TxIsSound
  <2>4. CASE SubmitCommit(t) \/ IngestCommit(t)
    <3>1. tx[t].ih # i
      BY <2>2, <2>4 DEF SubmitCommit, IngestCommit, TxIsSound
    <3>2. QED
      BY <1>0, <2>4, <3>1 DEF SubmitCommit, IngestCommit
  <2>5. QED
    BY <1>2, <2>3, <2>4
<1>3. QED
  BY <1>1, <1>2, OnlyCommitsWriteRows

(* A claim commits under the cap it judged its rows by. *)
LEMMA NextCap ==
  ASSUME FenceInv, ClaimsKeepTheCap, [Next]_vars
  PROVE  ClaimsKeepTheCap'
<1> SUFFICES ASSUME NEW u \in Txs
             PROVE  /\ \A i \in tx'[u].leased : rel'[i].attempts < cap'
                    /\ \A i \in tx'[u].swept : rel'[i].attempts >= cap'
  BY DEF ClaimsKeepTheCap
<1>0. TypeOK /\ TxIsSound(u) /\ tx[u] \in Tx
  BY DEF FenceInv, TypeOK
<1>1. CASE tx'[u] = Idle
  BY <1>1 DEF Idle
<1>2. ASSUME tx'[u] # Idle, tx'[u] = tx[u], cap' = cap
      PROVE  /\ \A i \in tx'[u].leased : rel'[i].attempts < cap'
             /\ \A i \in tx'[u].swept : rel'[i].attempts >= cap'
  <2>1. \A i \in tx[u].leased \cup tx[u].swept : i \in Infohashes /\ lock[i] = u
    BY <1>0 DEF TxIsSound, Tx
  <2>2. \A i \in tx[u].leased \cup tx[u].swept : rel'[i] = rel[i]
    BY <1>2, <2>1, LockedRowsStay
  <2>3. QED
    BY <1>2, <2>2 DEF ClaimsKeepTheCap
<1>3. CASE Restart
  BY <1>1, <1>3 DEF Restart
<1>4. CASE UNCHANGED vars \/ Tick
  BY <1>1, <1>2, <1>4 DEF vars, Tick
<1>5. ASSUME NEW t \in Txs,
             Call(t) \/ ClaimStep(t) \/ SubmitStep(t) \/ IngestCommit(t) \/ Abort(t)
      PROVE  /\ \A i \in tx'[u].leased : rel'[i].attempts < cap'
             /\ \A i \in tx'[u].swept : rel'[i].attempts >= cap'
  <2>1. CASE t = u
    BY <1>0, <1>5, <2>1, ClaimedRows DEF ClaimsKeepTheCap, Claimable, Sweepable
  <2>2. CASE t # u
    BY <1>0, <1>1, <1>2, <1>5, <2>2, ClaimedRows
  <2>3. QED
    BY <2>1, <2>2
<1>6. QED
  BY <1>3, <1>4, <1>5 DEF Next

(* AtomicInv holds in every reachable state. *)
THEOREM AtomicHolds == Spec => []AtomicInv
<1>1. Init => RequestsAreValid /\ ClaimsKeepTheCap
  BY DEF Init, Idle, RequestsAreValid, ClaimsKeepTheCap
<1>2. FenceInv /\ RequestsAreValid /\ ClaimsKeepTheCap /\ [Next]_vars =>
        RequestsAreValid' /\ ClaimsKeepTheCap'
  BY NextRequests, NextCap DEF FenceInv
<1>3. AtomicInv <=> FenceInv /\ RequestsAreValid /\ ClaimsKeepTheCap
  BY DEF AtomicInv
<1>4. QED
  BY <1>1, <1>2, <1>3, FenceHolds, PTL DEF Spec

-----------------------------------------------------------------------------
(* Steps of Queue as steps of LeaseQueue. *)

(* The book's view of a row. *)
LEMMA EntryFields ==
  ASSUME NEW row \in Row, NEW running \in BOOLEAN, NEW e,
         e = [status |-> row.status, ref |-> row.ref, attempts |-> row.attempts,
              token |-> row.token, running |-> running]
  PROVE  /\ e \in Leases!Entry
         /\ e.status = row.status /\ e.ref = row.ref /\ e.attempts = row.attempts
         /\ e.token = row.token /\ e.running = running
  BY DEF Row, Statuses, Terminal, Leases!Entry, Leases!Settled

(* The book before and after a step. *)
LEMMA BookFields ==
  ASSUME TypeOK, TypeOK', NEW i \in Infohashes
  PROVE  /\ Book[i] \in Leases!Entry
         /\ Book[i].status = rel[i].status /\ Book[i].ref = rel[i].ref
         /\ Book[i].attempts = rel[i].attempts /\ Book[i].token = rel[i].token
         /\ Book[i].running = Running(i)
         /\ Book'[i] \in Leases!Entry
         /\ Book'[i].status = rel'[i].status /\ Book'[i].ref = rel'[i].ref
         /\ Book'[i].attempts = rel'[i].attempts /\ Book'[i].token = rel'[i].token
         /\ Book'[i].running = Running(i)'
<1>1. rel[i] \in Row /\ rel'[i] \in Row
  BY DEF TypeOK
<1>2. Running(i) \in BOOLEAN /\ Running(i)' \in BOOLEAN
  BY DEF Running
<1>3. Book[i] = [status |-> rel[i].status, ref |-> rel[i].ref, attempts |-> rel[i].attempts,
                 token |-> rel[i].token, running |-> Running(i)]
  BY DEF Book
<1>4. Book'[i] = [status |-> rel'[i].status, ref |-> rel'[i].ref,
                  attempts |-> rel'[i].attempts, token |-> rel'[i].token,
                  running |-> Running(i)']
  BY DEF Book
<1>5. QED
  BY <1>1, <1>2, <1>3, <1>4, EntryFields

(* Entries of the book with the same fields are the same. *)
LEMMA SameEntry ==
  ASSUME NEW a \in Leases!Entry, NEW b \in Leases!Entry,
         a.status = b.status, a.ref = b.ref, a.attempts = b.attempts, a.token = b.token,
         a.running = b.running
  PROVE  a = b
  BY DEF Leases!Entry

(* A claim that commits leases releases that nobody holds and exhausts      *)
(* releases that failed too often, at one instant.                          *)
LEMMA ClaimIsAtomic ==
  ASSUME AtomicInv, TypeOK', NEW t \in Txs, ClaimCommit(t)
  PROVE  \E leased, swept \in SUBSET Infohashes, running \in BOOLEAN :
           Leases!Claim(leased, swept, running)
<1> DEFINE L == tx[t].leased
           S == tx[t].swept
           run == tx[t].expires > clock
<1>0. TypeOK /\ TxIsSound(t) /\ UNCHANGED <<clock, cap>>
  BY DEF AtomicInv, FenceInv, ClaimCommit
<1>1. /\ L \in SUBSET Infohashes /\ S \in SUBSET Infohashes
      /\ tx[t].now \in Int /\ clock \in Int /\ tx[t].now <= clock
      /\ tx[t].expires \in Int /\ NULL \notin Int
  BY <1>0, QueueAssumption DEF TypeOK, Tx, TxIsSound
<1>2. ASSUME NEW i \in L \cup S
      PROVE  rel[i].status = "unmatched" /\ ~Running(i)
  <2>1. rel[i].status = "unmatched" /\ LeaseOver(rel[i], tx[t].now) /\ rel[i] \in Row
    BY <1>0, <1>1 DEF TxIsSound, TypeOK
  <2>2. QED
    BY <1>1, <2>1 DEF LeaseOver, Running, Row
<1>3. L \subseteq Leases!Offered
  BY <1>0, <1>1, <1>2, BookFields DEF Leases!Offered, Leases!Idle, AtomicInv, ClaimsKeepTheCap
<1>4. S \subseteq Leases!Overdue
  BY <1>0, <1>1, <1>2, BookFields DEF Leases!Overdue, Leases!Idle, AtomicInv, ClaimsKeepTheCap
<1>5. ASSUME NEW i \in Infohashes
      PROVE  Book'[i] = IF i \in L THEN [Book[i] EXCEPT !.token = @ + 1, !.running = run]
                        ELSE IF i \in S THEN [Book[i] EXCEPT !.status = "exhausted"]
                        ELSE Book[i]
  <2>0. rel[i] \in Row
    BY <1>0 DEF TypeOK
  <2>1. /\ Book[i] \in Leases!Entry
        /\ Book[i].status = rel[i].status /\ Book[i].ref = rel[i].ref
        /\ Book[i].attempts = rel[i].attempts /\ Book[i].token = rel[i].token
        /\ Book[i].running = Running(i)
        /\ Book'[i] \in Leases!Entry
        /\ Book'[i].status = rel'[i].status /\ Book'[i].ref = rel'[i].ref
        /\ Book'[i].attempts = rel'[i].attempts /\ Book'[i].token = rel'[i].token
        /\ Book'[i].running = Running(i)'
    BY <1>0, BookFields
  <2>2. CASE i \in L
    <3>1. rel'[i] = Lease(rel[i], tx[t].expires)
      BY <2>2 DEF ClaimCommit
    <3>2. /\ rel'[i].status = rel[i].status /\ rel'[i].ref = rel[i].ref
          /\ rel'[i].attempts = rel[i].attempts /\ rel'[i].token = rel[i].token + 1
          /\ rel'[i].lease = tx[t].expires
      BY <2>0, <3>1 DEF Lease, Row
    <3>3. Running(i)' = run
      BY <1>0, <1>1, <3>2 DEF Running
    <3> DEFINE y == [Book[i] EXCEPT !.token = @ + 1, !.running = run]
    <3>4. /\ y \in Leases!Entry /\ y.status = Book[i].status /\ y.ref = Book[i].ref
          /\ y.attempts = Book[i].attempts /\ y.token = Book[i].token + 1
      <4> HIDE DEF run
      <4>1. run \in BOOLEAN
        BY DEF run
      <4>2. Book[i].token + 1 \in Nat
        BY <2>1 DEF Leases!Entry
      <4>3. y \in Leases!Entry
        BY <2>1, <4>1, <4>2 DEF Leases!Entry
      <4>4. QED
        BY <2>1, <4>1, <4>2, <4>3 DEF Leases!Entry
    <3>5. y.running = run
      BY <2>1 DEF Leases!Entry
    <3> HIDE DEF y, run
    <3>6. Book'[i] = y
      BY <2>1, <3>2, <3>3, <3>4, <3>5, SameEntry
    <3>7. QED
      BY <2>2, <3>6 DEF y
  <2>3. CASE i \in S \ L
    <3>1. rel'[i] = Exhaust(rel[i])
      BY <2>3 DEF ClaimCommit
    <3>2. /\ rel'[i].status = "exhausted" /\ rel'[i].ref = rel[i].ref
          /\ rel'[i].attempts = rel[i].attempts /\ rel'[i].token = rel[i].token
          /\ rel'[i].lease = NULL
      BY <2>0, <3>1 DEF Exhaust, Row
    <3>3. Running(i)' = Running(i)
      BY <1>2, <2>3, <3>2 DEF Running
    <3> DEFINE y == [Book[i] EXCEPT !.status = "exhausted"]
    <3>4. /\ y \in Leases!Entry /\ y.status = "exhausted" /\ y.ref = Book[i].ref
          /\ y.attempts = Book[i].attempts /\ y.token = Book[i].token
      BY <2>1 DEF Leases!Entry, Leases!Settled
    <3>5. y.running = Book[i].running
      BY <2>1 DEF Leases!Entry
    <3> HIDE DEF y
    <3>6. Book'[i] = y
      BY <2>1, <3>2, <3>3, <3>4, <3>5, SameEntry
    <3>7. QED
      BY <2>3, <3>6 DEF y
  <2>4. CASE i \notin L \cup S
    <3>1. rel'[i] = rel[i]
      BY <2>4 DEF ClaimCommit
    <3>2. Book'[i] = Book[i]
      BY <1>0, <3>1 DEF Book, Running
    <3>3. QED
      BY <2>4, <3>2
  <2>5. QED
    BY <2>2, <2>3, <2>4
<1>6. Book' = [i \in Infohashes |->
                 IF i \in L THEN [Book[i] EXCEPT !.token = @ + 1, !.running = run]
                 ELSE IF i \in S THEN [Book[i] EXCEPT !.status = "exhausted"]
                 ELSE Book[i]]
  <2>1. Book' = [i \in Infohashes |-> Book'[i]]
    BY DEF Book
  <2> HIDE DEF L, S, run
  <2>2. QED
    BY <1>5, <2>1
<1>7. Leases!Claim(L, S, run)
  BY <1>0, <1>3, <1>4, <1>6 DEF Leases!Claim
<1>8. run \in BOOLEAN
  OBVIOUS
<1>9. QED
  BY <1>1, <1>7, <1>8
(* A step that changes one entry of the book. *)
LEMMA OneEntry ==
  ASSUME NEW i \in Infohashes, NEW y, Book'[i] = y,
         \A j \in Infohashes \ {i} : Book'[j] = Book[j]
  PROVE  Book' = [Book EXCEPT ![i] = y]
<1>1. Book' = [j \in Infohashes |-> Book'[j]] /\ Book = [j \in Infohashes |-> Book[j]]
  BY DEF Book
<1>2. QED
  BY <1>1

(* A submit that commits answers with the newest token. *)
LEMMA SubmitIsAtomic ==
  ASSUME AtomicInv, TypeOK', NEW t \in Txs, SubmitCommit(t)
  PROVE  \E i \in Infohashes, status \in Leases!Answers, ref \in Refs \cup {NULL} :
           Leases!Submit(i, Book[i].token, status, ref)
<1>0. TypeOK /\ TxIsSound(t) /\ tx[t].pc = "write" /\ UNCHANGED <<clock, cap>>
  BY DEF AtomicInv, FenceInv, SubmitCommit
<1>1. PICK i \in Infohashes, s \in SubmitStatuses, r \in Refs \cup {NULL} :
        i = tx[t].ih /\ s = tx[t].status /\ r = tx[t].ref
  BY <1>0 DEF TxIsSound, TypeOK, Tx
<1>2. /\ ValidSubmit(s, r) /\ rel[i].status = "unmatched" /\ rel[i].lease # NULL
      /\ rel[i] \in Row
  BY <1>0, <1>1 DEF TxIsSound, LeaseHeld, AtomicInv, RequestsAreValid, TypeOK
<1>3. rel[i].token > 0
  BY <1>2 DEF AtomicInv, FenceInv, LeaseIffOpenClaim
<1>4. /\ rel'[i] = Answer(rel[i], s, r)
      /\ \A j \in Infohashes \ {i} : rel'[j] = rel[j]
  BY <1>0, <1>1 DEF SubmitCommit, TypeOK
<1>5. /\ Book[i] \in Leases!Entry
      /\ Book[i].status = rel[i].status /\ Book[i].ref = rel[i].ref
      /\ Book[i].attempts = rel[i].attempts /\ Book[i].token = rel[i].token
      /\ Book[i].running = Running(i)
      /\ Book'[i] \in Leases!Entry
      /\ Book'[i].status = rel'[i].status /\ Book'[i].ref = rel'[i].ref
      /\ Book'[i].attempts = rel'[i].attempts /\ Book'[i].token = rel'[i].token
      /\ Book'[i].running = Running(i)'
  BY <1>0, BookFields
<1>6. \A j \in Infohashes \ {i} : Book'[j] = Book[j]
  BY <1>0, <1>4 DEF Book, Running
<1> DEFINE n == IF s = "unmatched" THEN Book[i].attempts + 1 ELSE Book[i].attempts
<1>7. n \in Nat /\ cap \in Nat
  BY <1>0, <1>5 DEF Leases!Entry, TypeOK
<1>8. /\ rel'[i].token = rel[i].token /\ rel'[i].attempts = n
      /\ \/ /\ FinalStatus(rel[i], s) = "unmatched" /\ rel'[i].status = rel[i].status
            /\ rel'[i].ref = rel[i].ref /\ rel'[i].lease = rel[i].lease
         \/ /\ FinalStatus(rel[i], s) \in Terminal
            /\ rel'[i].status = FinalStatus(rel[i], s)
            /\ rel'[i].ref = r /\ rel'[i].lease = NULL
  BY <1>2, <1>4, <1>5, AnswerFields, AnswerCounts DEF Terminal
<1>9. Book'[i] = Leases!Answered(Book[i], s, r)
  <2>1. CASE s = "unmatched" /\ n < cap
    <3> DEFINE y == [Book[i] EXCEPT !.attempts = n]
    <3>1. FinalStatus(rel[i], s) = "unmatched"
      BY <1>5, <1>7, <2>1 DEF FinalStatus
    <3>2. /\ y \in Leases!Entry /\ y.status = Book[i].status /\ y.ref = Book[i].ref
          /\ y.attempts = n /\ y.token = Book[i].token
      <4> HIDE DEF n
      <4>1. QED
        BY <1>5, <1>7 DEF Leases!Entry
    <3>3. y.running = Book[i].running
      BY <1>5 DEF Leases!Entry
    <3>4. Leases!Answered(Book[i], s, r) = y
      BY <2>1 DEF Leases!Answered
    <3> HIDE DEF y, n
    <3>5. rel'[i].lease = rel[i].lease /\ rel'[i].status = rel[i].status /\ rel'[i].ref = rel[i].ref
      BY <1>8, <3>1 DEF Terminal
    <3>6. Running(i)' = Running(i)
      BY <1>0, <3>5 DEF Running
    <3>7. Book'[i] = y
      BY <1>5, <1>8, <3>2, <3>3, <3>5, <3>6, SameEntry
    <3>8. QED
      BY <3>4, <3>7
  <2>2. CASE ~(s = "unmatched" /\ n < cap)
    <3> DEFINE f == IF s = "unmatched" THEN "exhausted" ELSE s
               y == [Book[i] EXCEPT !.status = f, !.attempts = n, !.ref = r, !.running = FALSE]
    <3>1. FinalStatus(rel[i], s) = f /\ f \in Terminal
      BY <1>5, <1>7, <2>2 DEF FinalStatus, SubmitStatuses, Terminal
    <3>2. Leases!Answered(Book[i], s, r) = y
      BY <2>2 DEF Leases!Answered
    <3> HIDE DEF f, n
    <3>3. y \in Leases!Entry
      BY <1>5, <1>7, <3>1 DEF Leases!Entry, Leases!Settled, Terminal
    <3>4. y.status = f /\ y.ref = r /\ y.attempts = n /\ y.token = Book[i].token
      BY <1>5, <1>7, <3>1 DEF Leases!Entry
    <3>5. ~y.running
      BY <1>5 DEF Leases!Entry
    <3> HIDE DEF y
    <3>6. rel'[i].lease = NULL /\ rel'[i].status = f /\ rel'[i].ref = r
      BY <1>8, <3>1 DEF Terminal
    <3>7. ~Running(i)'
      BY <3>6 DEF Running
    <3>8. Book'[i] = y
      <4>1. Book'[i].running = y.running
        BY <1>5, <3>3, <3>5, <3>7 DEF Leases!Entry
      <4>2. QED
        BY <1>5, <1>8, <3>3, <3>4, <3>6, <4>1, SameEntry
    <3>9. QED
      BY <3>2, <3>8
  <2>3. QED
    BY <2>1, <2>2
<1>10. Book' = [Book EXCEPT ![i] = Leases!Answered(@, s, r)]
  BY <1>6, <1>9, OneEntry
<1>11. s \in Leases!Answers
  BY DEF SubmitStatuses, Leases!Answers
<1>12. Leases!Submit(i, Book[i].token, s, r)
  BY <1>0, <1>2, <1>3, <1>5, <1>10, <1>11
     DEF Leases!Submit, Leases!Accepted, ValidSubmit
<1>13. QED
  BY <1>11, <1>12

(* An ingest that commits brings a new release, or nothing the queue sees.  *)
LEMMA IngestIsAtomic ==
  ASSUME AtomicInv, TypeOK', NEW t \in Txs, IngestCommit(t)
  PROVE  (\E i \in Infohashes : Leases!Arrive(i)) \/ UNCHANGED <<cap, Book>>
<1>0. TypeOK /\ UNCHANGED <<clock, cap>> /\ rel \in [Infohashes -> Row] /\ TxIsSound(t)
  BY DEF AtomicInv, FenceInv, IngestCommit, TypeOK
<1>1. PICK i \in Infohashes : i = tx[t].ih
  BY <1>0 DEF IngestCommit, TxIsSound
<1>2. CASE rel' = rel
  BY <1>0, <1>2 DEF Book, Running
<1>3. CASE rel' = [rel EXCEPT ![i].published = IF tx[t].date < @ THEN tx[t].date ELSE @]
  <2>1. \A j \in Infohashes \ {i} : rel'[j] = rel[j]
    BY <1>0, <1>3
  <2>2. /\ rel'[i].status = rel[i].status /\ rel'[i].ref = rel[i].ref
        /\ rel'[i].attempts = rel[i].attempts /\ rel'[i].token = rel[i].token
        /\ rel'[i].lease = rel[i].lease
    BY <1>0, <1>3 DEF Row
  <2>3. \A j \in Infohashes : Book'[j] = Book[j]
    BY <1>0, <2>1, <2>2 DEF Book, Running
  <2>4. Book' = [j \in Infohashes |-> Book'[j]] /\ Book = [j \in Infohashes |-> Book[j]]
    BY DEF Book
  <2>5. QED
    BY <1>0, <2>3, <2>4
<1>4. CASE /\ rel[i].status = "absent"
           /\ rel' = [rel EXCEPT ![i].status = "unmatched", ![i].published = tx[t].date]
  <2>1. \A j \in Infohashes \ {i} : rel'[j] = rel[j]
    BY <1>0, <1>4
  <2>2. /\ rel'[i].status = "unmatched" /\ rel'[i].ref = rel[i].ref
        /\ rel'[i].attempts = rel[i].attempts /\ rel'[i].token = rel[i].token
        /\ rel'[i].lease = rel[i].lease
    BY <1>0, <1>4 DEF Row
  <2>3. \A j \in Infohashes \ {i} : Book'[j] = Book[j]
    BY <1>0, <2>1 DEF Book, Running
  <2>4. Running(i)' = Running(i)
    BY <1>0, <2>2 DEF Running
  <2> DEFINE y == [Book[i] EXCEPT !.status = "unmatched"]
  <2>5. Book[i] \in Leases!Entry
    BY <1>0, BookFields
  <2>6. /\ y \in Leases!Entry /\ y.status = "unmatched" /\ y.ref = Book[i].ref
        /\ y.attempts = Book[i].attempts /\ y.token = Book[i].token
    BY <2>5 DEF Leases!Entry, Leases!Settled
  <2>7. y.running = Book[i].running
    BY <2>5 DEF Leases!Entry
  <2> HIDE DEF y
  <2>8. Book'[i] = y
    BY <1>0, <2>2, <2>4, <2>6, <2>7, BookFields, SameEntry
  <2>9. Book' = [Book EXCEPT ![i] = y]
    BY <2>3, <2>8, OneEntry
  <2>10. Book \in [Infohashes -> Leases!Entry]
    <3>1. Book = [j \in Infohashes |-> Book[j]]
      BY DEF Book
    <3>2. QED
      BY <1>0, <3>1, BookFields
  <2>11. Book' = [Book EXCEPT ![i].status = "unmatched"]
    BY <2>9, <2>10 DEF y
  <2>12. Leases!Arrive(i)
    BY <1>0, <1>4, <2>11, BookFields DEF Leases!Arrive
  <2>13. QED
    BY <2>12
<1>5. QED
  BY <1>1, <1>2, <1>3, <1>4 DEF IngestCommit

(* The clock ends leases and starts none. *)
LEMMA TickIsAtomic ==
  ASSUME AtomicInv, TypeOK', Tick
  PROVE  \E over \in SUBSET Infohashes : Leases!RunOut(over)
<1> DEFINE O == {i \in Infohashes : ~Running(i)'}
<1>0. TypeOK /\ UNCHANGED <<rel, cap>> /\ clock \in Nat /\ clock' = clock + 1
  BY DEF AtomicInv, FenceInv, TypeOK, Tick
<1>1. ASSUME NEW i \in Infohashes
      PROVE  Book'[i] = IF i \in O THEN [Book[i] EXCEPT !.running = FALSE] ELSE Book[i]
  <2>1. /\ Book[i] \in Leases!Entry
        /\ Book[i].status = rel[i].status /\ Book[i].ref = rel[i].ref
        /\ Book[i].attempts = rel[i].attempts /\ Book[i].token = rel[i].token
        /\ Book[i].running = Running(i)
        /\ Book'[i] \in Leases!Entry
        /\ Book'[i].status = rel'[i].status /\ Book'[i].ref = rel'[i].ref
        /\ Book'[i].attempts = rel'[i].attempts /\ Book'[i].token = rel'[i].token
        /\ Book'[i].running = Running(i)'
    BY <1>0, BookFields
  <2>2. CASE i \in O
    <3> DEFINE y == [Book[i] EXCEPT !.running = FALSE]
    <3>1. /\ y \in Leases!Entry /\ y.status = Book[i].status /\ y.ref = Book[i].ref
          /\ y.attempts = Book[i].attempts /\ y.token = Book[i].token
      BY <2>1 DEF Leases!Entry
    <3>2. ~y.running
      BY <2>1 DEF Leases!Entry
    <3> HIDE DEF y
    <3>3. y.running = Book'[i].running
      BY <2>1, <2>2, <3>1, <3>2 DEF Leases!Entry
    <3>4. Book'[i] = y
      BY <1>0, <2>1, <3>1, <3>3, SameEntry
    <3>5. QED
      BY <2>2, <3>4 DEF y
  <2>3. CASE i \notin O
    <3>1. rel[i] \in Row /\ Running(i)'
      BY <1>0, <2>3 DEF TypeOK
    <3>2. Running(i)
      BY <1>0, <3>1 DEF Running, Row
    <3>3. Book'[i] = Book[i]
      BY <1>0, <2>1, <3>1, <3>2, SameEntry
    <3>4. QED
      BY <2>3, <3>3
  <2>4. QED
    BY <2>2, <2>3
<1>2. Book' = [i \in Infohashes |-> Book'[i]]
  BY DEF Book
<1> HIDE DEF O
<1>3. Book' = [i \in Infohashes |->
                 IF i \in O THEN [Book[i] EXCEPT !.running = FALSE] ELSE Book[i]]
  BY <1>1, <1>2
<1>4. Leases!RunOut(O) /\ O \in SUBSET Infohashes
  BY <1>0, <1>3 DEF Leases!RunOut, O
<1>5. QED
  BY <1>4

(* Every step of Queue is one of LeaseQueue, or invisible. *)
LEMMA NextIsAtomic ==
  ASSUME AtomicInv, TypeOK', [Next]_vars
  PROVE  [Leases!QueueNext]_<<cap, Book>>
<1>1. CASE UNCHANGED <<clock, cap, rel>>
  BY <1>1 DEF Book, Running
<1>2. CASE Tick
  BY <1>2, TickIsAtomic DEF Leases!QueueNext
<1>3. CASE Restart
  <2>1. cap' \in Caps /\ UNCHANGED Book
    BY <1>3 DEF Restart, Book, Running
  <2>2. QED
    BY <2>1 DEF Leases!QueueNext, Leases!Reconfigure
<1>4. ASSUME NEW t \in Txs, ClaimCommit(t) PROVE Leases!QueueNext
  BY <1>4, ClaimIsAtomic DEF Leases!QueueNext
<1>5. ASSUME NEW t \in Txs, SubmitCommit(t) PROVE Leases!QueueNext
  BY <1>5, SubmitIsAtomic DEF Leases!QueueNext
<1>6. ASSUME NEW t \in Txs, IngestCommit(t) PROVE [Leases!QueueNext]_<<cap, Book>>
  BY <1>6, IngestIsAtomic DEF Leases!QueueNext
<1>7. UNCHANGED <<clock, cap, rel>> \/ Tick \/ Restart
        \/ \E t \in Txs : ClaimCommit(t) \/ SubmitCommit(t) \/ IngestCommit(t)
  BY DEF Next, vars, Call, ClaimStep, SubmitStep, ClaimBegin, ClaimSweep, ClaimSweepRow,
     ClaimSelect, ClaimLeaseRow, SubmitBegin, SubmitLock, IngestLock, Abort
<1>8. QED
  BY <1>1, <1>2, <1>3, <1>4, <1>5, <1>6, <1>7

(* The work queue implements its abstract specification: every commit is    *)
(* one atomic step of LeaseQueue, although clocks are read early, rows are  *)
(* chosen from outdated snapshots and the cap changes over restarts.        *)
THEOREM QueueIsAtomic == Spec => ActsAtomically
<1>1. Init => Leases!QueueInit
  <2> SUFFICES ASSUME Init PROVE Leases!QueueInit
    OBVIOUS
  <2>1. ASSUME NEW i \in Infohashes PROVE Book[i] = Leases!NoEntry
    <3>1. /\ rel[i].status = "absent" /\ rel[i].ref = NULL /\ rel[i].attempts = 0
          /\ rel[i].token = 0 /\ rel[i].lease = NULL
      BY DEF Init, NoRow
    <3>2. Running(i) = FALSE
      BY <3>1 DEF Running
    <3>3. QED
      BY <3>1, <3>2 DEF Book, Leases!NoEntry
  <2>2. Book = [i \in Infohashes |-> Leases!NoEntry]
    <3>1. Book = [i \in Infohashes |-> Book[i]]
      BY DEF Book
    <3>2. QED
      BY <2>1, <3>1
  <2>3. QED
    BY <2>2 DEF Init, Leases!QueueInit
<1>2. AtomicInv => TypeOK
  BY DEF AtomicInv, FenceInv
<1>3. AtomicInv /\ TypeOK' /\ [Next]_vars => [Leases!QueueNext]_<<cap, Book>>
  BY NextIsAtomic
<1>4. QED
  BY <1>1, <1>2, <1>3, AtomicHolds, PTL
     DEF Spec, ActsAtomically, Leases!QueueSpec, Leases!queueVars
=============================================================================
