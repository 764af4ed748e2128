-------------------------- MODULE MatchLoopProofs --------------------------
(***************************************************************************)
(* Proofs about MatchLoop for every set of releases, executions and caps,   *)
(* every batch size and any number of faults.                               *)
(***************************************************************************)
EXTENDS MatchLoop, TLAPS

(* What a step of the queue leaves well typed. *)
LEMMA ClaimBook ==
  ASSUME TypeOK, NEW S, NEW O, NEW b \in BOOLEAN, Claim(S, O, b)
  PROVE  /\ book' \in [Infohashes -> Entry] /\ cap' \in Caps
         /\ S \subseteq Infohashes
         /\ \A i \in Infohashes :
              /\ book'[i].attempts = book[i].attempts
              /\ book'[i].token = IF i \in S THEN book[i].token + 1 ELSE book[i].token
              /\ book[i].status # "unmatched" => book'[i].status = book[i].status
              /\ book'[i].ref = book[i].ref
<1>1. \A i \in Infohashes : book[i] \in Entry
  BY DEF TypeOK
<1>2. ASSUME NEW e \in Entry
      PROVE  /\ [e EXCEPT !.token = @ + 1, !.running = b] \in Entry
             /\ [e EXCEPT !.status = "exhausted"] \in Entry
  <2>1. e.token + 1 \in Nat
    BY DEF Entry
  <2>2. "exhausted" \in Settled
    BY DEF Settled
  <2>3. QED
    BY <2>1, <2>2 DEF Entry
<1>3. book' \in [Infohashes -> Entry]
  BY <1>1, <1>2 DEF Claim
<1>4. S \subseteq Infohashes /\ cap' \in Caps
  BY DEF Claim, Offered, TypeOK
<1>5. ASSUME NEW i \in Infohashes
      PROVE  /\ book'[i].attempts = book[i].attempts
             /\ book'[i].token = IF i \in S THEN book[i].token + 1 ELSE book[i].token
             /\ book[i].status # "unmatched" => book'[i].status = book[i].status
             /\ book'[i].ref = book[i].ref
  BY <1>1, <1>5 DEF Claim, Offered, Overdue, Idle, Entry
<1>6. QED
  BY <1>3, <1>4, <1>5

(* An answer changes one open entry, by at most one attempt. *)
LEMMA SubmitBook ==
  ASSUME TypeOK, NEW i \in Infohashes, NEW k \in Nat, NEW s \in Answers,
         NEW r \in Refs \cup {NULL}, Submit(i, k, s, r)
  PROVE  /\ book' \in [Infohashes -> Entry] /\ cap' \in Caps
         /\ book[i].status = "unmatched" /\ book[i].token = k
         /\ \A j \in Infohashes : j # i => book'[j] = book[j]
         /\ book'[i].token = k
         /\ book'[i].attempts \in {book[i].attempts, book[i].attempts + 1}
         /\ s # "unmatched" => book'[i].status = s /\ book'[i].ref = r
<1>1. book[i] \in Entry /\ book \in [Infohashes -> Entry]
  BY DEF TypeOK
<1>2. book' = [book EXCEPT ![i] = Answered(book[i], s, r)] /\ cap' = cap
  BY DEF Submit
<1>3. /\ Answered(book[i], s, r) \in Entry
      /\ Answered(book[i], s, r).token = book[i].token
      /\ Answered(book[i], s, r).attempts \in {book[i].attempts, book[i].attempts + 1}
      /\ s # "unmatched" => /\ Answered(book[i], s, r).status = s
                            /\ Answered(book[i], s, r).ref = r
  <2> DEFINE n == IF s = "unmatched" THEN book[i].attempts + 1 ELSE book[i].attempts
             final == IF s = "unmatched" THEN "exhausted" ELSE s
             open == [book[i] EXCEPT !.attempts = n]
             closed == [book[i] EXCEPT !.status = final, !.attempts = n, !.ref = r,
                                       !.running = FALSE]
  <2>1. n \in Nat /\ n \in {book[i].attempts, book[i].attempts + 1}
    BY <1>1 DEF Entry
  <2>2. final \in Settled /\ (s # "unmatched" => final = s)
    BY DEF Settled, Answers
  <2>3. Answered(book[i], s, r) = IF s = "unmatched" /\ n < cap THEN open ELSE closed
    BY DEF Answered
  <2> HIDE DEF n, final
  <2>4. open \in Entry /\ open.token = book[i].token /\ open.attempts = n
    BY <1>1, <2>1 DEF Entry
  <2>5. /\ closed \in Entry /\ closed.token = book[i].token /\ closed.attempts = n
        /\ closed.status = final /\ closed.ref = r
    BY <1>1, <2>1, <2>2 DEF Entry
  <2> HIDE DEF open, closed
  <2>6. QED
    BY <2>1, <2>2, <2>3, <2>4, <2>5
<1>4. book[i].status = "unmatched" /\ book[i].token = k
  BY DEF Submit, Accepted
<1>5. QED
  BY <1>1, <1>2, <1>3, <1>4 DEF TypeOK
-----------------------------------------------------------------------------
(* A claim, heard or unheard, makes a newer token of every release it        *)
(* leases, so that what executions hold of them is no longer the newest.    *)
LEMMA ClaimKeepsItems ==
  ASSUME LoopInv, NEW S, NEW O, Claim(S, O, TRUE), UNCHANGED flow
  PROVE  OneAttemptPerClaim' /\ ItemsAreClaims'
<1>1. /\ S \subseteq Infohashes
      /\ \A i \in Infohashes :
           /\ book'[i].attempts = book[i].attempts
           /\ book'[i].token = IF i \in S THEN book[i].token + 1 ELSE book[i].token
  BY ClaimBook DEF LoopInv
<1>2. \A i \in Infohashes : book[i].attempts \in Nat /\ book[i].token \in Nat
  BY DEF LoopInv, TypeOK, Entry
<1>3. OneAttemptPerClaim'
  BY <1>1, <1>2 DEF LoopInv, OneAttemptPerClaim
<1>4. \A f \in Flows : flow[f].items \subseteq Item
  BY DEF LoopInv, TypeOK
<1>5. ItemsAreClaims'
  BY <1>1, <1>2, <1>4 DEF LoopInv, ItemsAreClaims, Item
<1>6. QED
  BY <1>3, <1>5

(* Settled releases stay settled, so that reports stand. *)
LEMMA ClaimKeepsReports ==
  ASSUME LoopInv, NEW S, NEW O, Claim(S, O, TRUE), UNCHANGED reports
  PROVE  AckedAnswerStands'
<1>1. \A i \in Infohashes :
        /\ book[i].status # "unmatched" => book'[i].status = book[i].status
        /\ book'[i].ref = book[i].ref
  BY ClaimBook DEF LoopInv
<1>2. \A r \in reports : r.ih \in Infohashes
  BY DEF LoopInv, TypeOK
<1>3. QED
  BY <1>1, <1>2 DEF LoopInv, AckedAnswerStands

(* A poll: the tokens of the new batch are newer than all that are held.    *)
LEMMA PollStep ==
  ASSUME LoopInv, NEW f \in Flows, Poll(f)
  PROVE  LoopInv'
<1>1. PICK S \in Batches :
        /\ Claim(S, Overdue, TRUE)
        /\ flow' = [flow EXCEPT ![f] = IF S = {} THEN NoFlow
                                       ELSE [pc |-> "match", items |-> Claimed(S)]]
  BY DEF Poll
<1>2. /\ book' \in [Infohashes -> Entry] /\ cap' \in Caps /\ S \subseteq Infohashes
      /\ \A i \in Infohashes :
           /\ book'[i].attempts = book[i].attempts
           /\ book'[i].token = IF i \in S THEN book[i].token + 1 ELSE book[i].token
  BY <1>1, ClaimBook DEF LoopInv
<1>3. \A i \in Infohashes : book[i].attempts \in Nat /\ book[i].token \in Nat
  BY DEF LoopInv, TypeOK, Entry
<1>4. Claimed(S) \subseteq Item
  BY <1>2, <1>3 DEF Claimed, Item
<1>5. flow \in [Flows -> [pc: {"idle", "match", "submit"}, items: SUBSET Item]]
  BY DEF LoopInv, TypeOK
<1>6. flow' \in [Flows -> [pc: {"idle", "match", "submit"}, items: SUBSET Item]]
  BY <1>1, <1>4, <1>5 DEF NoFlow
<1>7. TypeOK'
  BY <1>2, <1>6 DEF LoopInv, TypeOK, Poll
<1>8. OneAttemptPerClaim'
  BY <1>2, <1>3 DEF LoopInv, OneAttemptPerClaim
<1>9. ItemsAreClaims'
  <2> SUFFICES ASSUME NEW h \in Flows, NEW x \in flow'[h].items
               PROVE  /\ 0 < x.token /\ x.token <= book'[x.ih].token
                      /\ x.token = book'[x.ih].token => book'[x.ih].attempts < x.token
                      /\ \A g \in Flows : x \in flow'[g].items => g = h
    BY DEF ItemsAreClaims
  <2>1. flow'[f].items \subseteq Claimed(S) /\ \A g \in Flows \ {f} : flow'[g] = flow[g]
    BY <1>1, <1>5 DEF NoFlow
  <2>2. \A y \in Claimed(S) :
          /\ y.ih \in Infohashes /\ y.token = book[y.ih].token + 1
          /\ book'[y.ih].token = y.token
    BY <1>2 DEF Claimed
  <2>3. \A g \in Flows : \A y \in flow[g].items :
          y.ih \in Infohashes /\ y.token \in Nat /\ y.token <= book[y.ih].token
    BY <1>5 DEF LoopInv, ItemsAreClaims, Item
  <2>4. CASE h = f
    <3>1. x \in Claimed(S)
      BY <2>1, <2>4
    <3>2. \A g \in Flows \ {f} : x \notin flow'[g].items
      BY <3>1, <2>1, <2>2, <2>3, <1>3
    <3>3. book[x.ih].attempts <= book[x.ih].token
      BY <3>1, <2>2 DEF LoopInv, OneAttemptPerClaim
    <3>4. QED
      BY <3>1, <3>2, <3>3, <2>2, <2>4, <1>2, <1>3
  <2>5. CASE h # f
    <3>1. x \in flow[h].items
      BY <2>1, <2>5
    <3>2. x \notin flow'[f].items
      BY <3>1, <2>1, <2>2, <2>3, <1>3
    <3>3. \A g \in Flows : x \in flow'[g].items => g = h
      BY <3>1, <3>2, <2>1 DEF LoopInv, ItemsAreClaims
    <3>4. QED
      BY <3>1, <3>3, <2>3, <1>2, <1>3 DEF LoopInv, ItemsAreClaims
  <2>6. QED
    BY <2>4, <2>5
<1>10. AckedAnswerStands'
  BY <1>1, ClaimKeepsReports DEF Poll
<1>11. QED
  BY <1>7, <1>8, <1>9, <1>10 DEF LoopInv
(* A claim whose response is lost. *)
LEMMA PollLostStep ==
  ASSUME LoopInv, PollLost
  PROVE  LoopInv'
<1>1. PICK S \in Batches : Claim(S, Overdue, TRUE)
  BY DEF PollLost
<1>2. book' \in [Infohashes -> Entry] /\ cap' \in Caps
  BY <1>1, ClaimBook DEF LoopInv
<1>3. faults' \in 0..MaxFaults
  BY MatchLoopAssumption DEF LoopInv, TypeOK, PollLost, Fault
<1>4. TypeOK'
  BY <1>2, <1>3 DEF LoopInv, TypeOK, PollLost
<1>5. OneAttemptPerClaim' /\ ItemsAreClaims' /\ AckedAnswerStands'
  BY <1>1, ClaimKeepsItems, ClaimKeepsReports DEF PollLost
<1>6. QED
  BY <1>4, <1>5 DEF LoopInv

(* Executions that only lose items, and a queue in which neither tokens nor *)
(* attempts nor answers change.                                             *)
LEMMA QuietStep ==
  ASSUME LoopInv, TypeOK',
         \A f \in Flows : flow'[f].items \subseteq flow[f].items,
         \A i \in Infohashes :
           /\ book'[i].token = book[i].token /\ book'[i].attempts = book[i].attempts
           /\ book'[i].ref = book[i].ref
           /\ book[i].status \in Settled => book'[i].status = book[i].status,
         UNCHANGED reports
  PROVE  LoopInv'
<1>1. OneAttemptPerClaim'
  BY DEF LoopInv, OneAttemptPerClaim
<1>2. \A f \in Flows : flow[f].items \subseteq Item
  BY DEF LoopInv, TypeOK
<1>3. ItemsAreClaims'
  BY <1>2 DEF LoopInv, ItemsAreClaims, Item
<1>4. \A r \in reports : r.ih \in Infohashes /\ (r.status # "unmatched" => r.status \in Settled)
  BY DEF LoopInv, TypeOK, Answers, Settled
<1>5. AckedAnswerStands'
  BY <1>4 DEF LoopInv, AckedAnswerStands
<1>6. QED
  BY <1>1, <1>3, <1>5 DEF LoopInv

(* Matcher, conflicts, crashes and the end of an execution. *)
LEMMA FlowOnlyStep ==
  ASSUME LoopInv, NEW f \in Flows,
         \/ Match(f) \/ Omit(f) \/ Crash(f) \/ Done(f)
         \/ \E x \in flow[f].items : flow[f].pc = "submit" /\ SubmitConflict(f, x)
  PROVE  LoopInv'
<1> DEFINE Flow == [pc: {"idle", "match", "submit"}, items: SUBSET Item]
<1>1. flow \in [Flows -> Flow]
  BY DEF LoopInv, TypeOK
<1>2. /\ flow' \in [Flows -> Flow]
      /\ \A g \in Flows : flow'[g].items \subseteq flow[g].items
      /\ UNCHANGED <<cap, book, reports>>
  <2>1. CASE Match(f)
    BY <2>1, <1>1 DEF Match
  <2>2. CASE Omit(f)
    BY <2>2, <1>1 DEF Omit
  <2>3. CASE Crash(f)
    BY <2>3, <1>1 DEF Crash, NoFlow
  <2>4. CASE Done(f)
    BY <2>4, <1>1 DEF Done, NoFlow
  <2>5. CASE \E x \in flow[f].items : flow[f].pc = "submit" /\ SubmitConflict(f, x)
    BY <2>5, <1>1 DEF SubmitConflict, Drop
  <2>6. QED
    BY <2>1, <2>2, <2>3, <2>4, <2>5
<1>3. faults' \in 0..MaxFaults
  BY MatchLoopAssumption
     DEF LoopInv, TypeOK, Match, Omit, Crash, Done, SubmitConflict, Fault
<1>4. TypeOK'
  BY <1>2, <1>3 DEF LoopInv, TypeOK
<1>5. QED
  BY <1>2, <1>4, QuietStep

(* An answer that is stored spends the attempt of the claim it came with;   *)
(* no other execution holds that claim, and whether the node hears of it    *)
(* makes no difference to the queue.                                        *)
LEMMA StoredStep ==
  ASSUME LoopInv, NEW f \in Flows, NEW x \in flow[f].items, NEW s \in Answers,
         NEW r \in Refs \cup {NULL}, SubmitOk(f, x, s, r) \/ SubmitThrows(f, x, s, r)
  PROVE  LoopInv'
<1> DEFINE Flow == [pc: {"idle", "match", "submit"}, items: SUBSET Item]
<1>1. /\ flow \in [Flows -> Flow]
      /\ x \in Item /\ x.ih \in Infohashes /\ x.token \in Nat
  BY DEF LoopInv, TypeOK, Item
<1>2. /\ flow' \in [Flows -> Flow]
      /\ \A g \in Flows : flow'[g].items \subseteq flow[g].items
      /\ x \notin flow'[f].items
  BY <1>1 DEF SubmitOk, SubmitThrows, Drop
<1>3. faults' \in 0..MaxFaults
  BY MatchLoopAssumption DEF LoopInv, TypeOK, SubmitOk, SubmitThrows, Fault
<1>4. reports' \subseteq [ih: Infohashes, status: Answers, ref: Refs \cup {NULL}]
  BY <1>1 DEF LoopInv, TypeOK, SubmitOk, SubmitThrows
<1>5. CASE UNCHANGED queueVars /\ SubmitThrows(f, x, s, r)
  <2>1. TypeOK'
    BY <1>5, <1>2, <1>3, <1>4 DEF LoopInv, TypeOK, queueVars
  <2>2. QED
    BY <1>5, <1>2, <2>1, QuietStep DEF queueVars, SubmitThrows
<1>6. CASE Submit(x.ih, x.token, s, r)
  <2>1. /\ book' \in [Infohashes -> Entry] /\ cap' \in Caps
        /\ book[x.ih].status = "unmatched" /\ book[x.ih].token = x.token
        /\ \A j \in Infohashes : j # x.ih => book'[j] = book[j]
        /\ book'[x.ih].token = x.token
        /\ book'[x.ih].attempts \in {book[x.ih].attempts, book[x.ih].attempts + 1}
        /\ s # "unmatched" => book'[x.ih].status = s /\ book'[x.ih].ref = r
    BY <1>6, <1>1, SubmitBook DEF LoopInv
  <2>2. TypeOK'
    BY <2>1, <1>2, <1>3, <1>4 DEF TypeOK
  <2>3. book[x.ih].attempts < x.token /\ book[x.ih].attempts \in Nat
    BY <2>1, <1>1 DEF LoopInv, ItemsAreClaims, TypeOK, Entry
  <2>4. OneAttemptPerClaim'
    BY <2>1, <2>3, <1>1 DEF LoopInv, OneAttemptPerClaim
  <2>5. \A g \in Flows : x \notin flow'[g].items
    BY <1>2 DEF LoopInv, ItemsAreClaims
  <2>6. \A g \in Flows : \A y \in flow'[g].items : y \in Item /\ (y.ih = x.ih => y.token # x.token)
    BY <2>5, <1>2, <1>1 DEF Item
  <2>7. ItemsAreClaims'
    BY <2>1, <2>3, <2>6, <1>1, <1>2 DEF LoopInv, ItemsAreClaims, Item
  <2>8. AckedAnswerStands'
    BY <2>1 DEF LoopInv, TypeOK, AckedAnswerStands, SubmitOk, SubmitThrows
  <2>9. QED
    BY <2>2, <2>4, <2>7, <2>8 DEF LoopInv
<1>7. QED
  BY <1>5, <1>6 DEF SubmitOk, SubmitThrows

(* Time, posts and operators touch neither tokens nor attempts.             *)
LEMMA OutsideStep ==
  ASSUME LoopInv,
         \/ \E i \in Infohashes : LeaseEnds(i) \/ LeaseEndsEarly(i) \/ Post(i)
         \/ Operator
  PROVE  LoopInv'
<1>1. book \in [Infohashes -> Entry] /\ cap \in Caps
  BY DEF LoopInv, TypeOK
<1>2. \A e \in Entry : /\ [e EXCEPT !.running = FALSE] \in Entry
                       /\ [e EXCEPT !.status = "unmatched"] \in Entry
  BY DEF Entry
<1>3. /\ book' \in [Infohashes -> Entry] /\ cap' \in Caps
      /\ \A i \in Infohashes :
           /\ book'[i].token = book[i].token /\ book'[i].attempts = book[i].attempts
           /\ book'[i].ref = book[i].ref
           /\ book[i].status \in Settled => book'[i].status = book[i].status
      /\ UNCHANGED <<flow, reports>>
  <2>1. CASE \E i \in Infohashes : RunOut({i}) /\ UNCHANGED <<flow, reports>>
    <3>1. PICK i \in Infohashes :
            /\ book' = [j \in Infohashes |->
                          IF j \in {i} THEN [book[j] EXCEPT !.running = FALSE] ELSE book[j]]
            /\ UNCHANGED <<cap, flow, reports>>
      BY <2>1 DEF RunOut
    <3>2. \A j \in Infohashes :
            /\ book'[j] \in Entry
            /\ book'[j].token = book[j].token /\ book'[j].attempts = book[j].attempts
            /\ book'[j].status = book[j].status /\ book'[j].ref = book[j].ref
      BY <3>1, <1>1, <1>2 DEF Entry
    <3>3. QED
      BY <3>1, <3>2, <1>1
  <2>2. CASE \E i \in Infohashes : Post(i)
    <3>1. PICK i \in Infohashes :
            /\ book[i].status = "absent"
            /\ book' = [book EXCEPT ![i].status = "unmatched"]
            /\ UNCHANGED <<cap, flow, reports>>
      BY <2>2 DEF Post, Arrive
    <3>2. \A j \in Infohashes :
            /\ book'[j] \in Entry
            /\ book'[j].token = book[j].token /\ book'[j].attempts = book[j].attempts
            /\ j # i => book'[j].status = book[j].status
            /\ book'[j].ref = book[j].ref
      BY <3>1, <1>1, <1>2 DEF Entry
    <3>3. "absent" \notin Settled
      BY DEF Settled
    <3>4. QED
      BY <3>1, <3>2, <3>3, <1>1
  <2>3. CASE Operator
    BY <2>3, <1>1 DEF Operator, Reconfigure
  <2>4. QED
    BY <2>1, <2>2, <2>3 DEF LeaseEnds, LeaseEndsEarly
<1>4. faults' \in 0..MaxFaults
  <2>1. UNCHANGED faults \/ Fault
    BY DEF LeaseEnds, LeaseEndsEarly, Post, Operator
  <2>2. QED
    BY <2>1, MatchLoopAssumption DEF LoopInv, TypeOK, Fault
<1>5. TypeOK'
  BY <1>3, <1>4 DEF LoopInv, TypeOK
<1>6. QED
  BY <1>3, <1>5, QuietStep

-----------------------------------------------------------------------------
(* The invariant holds initially, *)
LEMMA InitLoop == Init => LoopInv
<1> SUFFICES ASSUME Init PROVE LoopInv
  OBVIOUS
<1>1. NoEntry \in Entry
  BY DEF NoEntry, Entry
<1>2. TypeOK
  BY <1>1, MatchLoopAssumption DEF Init, QueueInit, TypeOK, NoFlow
<1>3. QED
  BY <1>2 DEF LoopInv, Init, QueueInit, OneAttemptPerClaim, ItemsAreClaims,
              AckedAnswerStands, NoEntry, NoFlow

(* and every step keeps it. *)
LEMMA NextLoop == LoopInv /\ [Next]_vars => LoopInv'
<1> SUFFICES ASSUME LoopInv, [Next]_vars PROVE LoopInv'
  OBVIOUS
<1>1. CASE \E f \in Flows : Poll(f)
  BY <1>1, PollStep
<1>2. CASE PollLost
  BY <1>2, PollLostStep
<1>3. CASE \E f \in Flows : Match(f) \/ Omit(f) \/ Crash(f) \/ Done(f)
  BY <1>3, FlowOnlyStep
<1>4. CASE \E f \in Flows : SubmitOne(f)
  BY <1>4, FlowOnlyStep, StoredStep DEF SubmitOne
<1>5. CASE \E f \in Flows : SubmitFails(f)
  BY <1>5, StoredStep DEF SubmitFails
<1>6. CASE \/ \E i \in Infohashes : LeaseEnds(i) \/ LeaseEndsEarly(i) \/ Post(i)
           \/ Operator
  BY <1>6, OutsideStep
<1>7. CASE UNCHANGED vars
  BY <1>7 DEF vars, LoopInv, TypeOK, OneAttemptPerClaim, ItemsAreClaims, AckedAnswerStands
<1>8. QED
  BY <1>1, <1>2, <1>3, <1>4, <1>5, <1>6, <1>7 DEF Next, FlowStep

(* The claims in the executions' hands, the attempts and the reports hang    *)
(* together, whatever is lost or comes late: LoopInv is inductive.          *)
THEOREM LoopHolds == Spec => []LoopInv
BY InitLoop, NextLoop, PTL DEF Spec

(* A claim costs at most one attempt (store.go:336, 382), for every number   *)
(* of executions and faults.                                                *)
THEOREM OneAttempt == Spec => []OneAttemptPerClaim
<1>1. LoopInv => OneAttemptPerClaim
  BY DEF LoopInv
<1>2. QED
  BY <1>1, LoopHolds, PTL

(* What the node reported as stored stays the answer (Takuhai.node.ts:229).  *)
THEOREM AcknowledgedAnswers == Spec => []AckedAnswerStands
<1>1. LoopInv => AckedAnswerStands
  BY DEF LoopInv
<1>2. QED
  BY <1>1, LoopHolds, PTL
=============================================================================
