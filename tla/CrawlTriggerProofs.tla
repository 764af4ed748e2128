------------------------- MODULE CrawlTriggerProofs -------------------------
(***************************************************************************)
(* The trigger.  The windows of its passes do not overlap: TriggerInv is     *)
(* inductive, whatever the source lists, whichever pages are cached and     *)
(* whichever calls fail.  The watermark is complete up to the losses that   *)
(* WatermarkIsComplete names: CompleteInv is inductive where dates parse,   *)
(* however they are rounded and however long pages are cached.              *)
(***************************************************************************)
EXTENDS CrawlTrigger, CrawlProofs

-----------------------------------------------------------------------------
(* The trigger: what a response adds to a poll is in the window of the pass. *)

LEMMA AboveFloorIsFront ==
  ASSUME TypeOK
  PROVE  /\ AboveFloor \in Seq(Post)
         /\ \A k \in 1..Len(AboveFloor) : state.floor < AboveFloor[k].date
         /\ Len(AboveFloor) \in 0..Len(walk.posts)
         /\ \A k \in 1..Len(AboveFloor) : AboveFloor[k] = walk.posts[k]
         /\ Len(AboveFloor) < Len(walk.posts) => AtFloor(walk.posts[Len(AboveFloor) + 1])
<1> DEFINE s == walk.posts
           B == {k \in 1..Len(s) : AtFloor(s[k])}
           P(n) == /\ \A k \in 1..n : ~AtFloor(s[k])
                   /\ n < Len(s) => AtFloor(s[n + 1])
           n == CHOOSE n \in 0..Len(s) : P(n)
<1>1. s \in Seq(Post) /\ Len(s) \in Nat /\ state.floor \in Int
  BY DEF TypeOK, CrawlTypeOK, WalkIsTyped, Walk, State
<1>2. PICK m \in 0..Len(s) : (\A k \in 1..m : k \notin B) /\ (m < Len(s) => m + 1 \in B)
  <2>1. B \in SUBSET (1..Len(s))
    OBVIOUS
  <2> HIDE DEF B, s
  <2> QED
    BY <1>1, <2>1, FrontExists
<1>3. \A k \in 1..m : k \in 1..Len(s)
  BY <1>1, <1>2
<1>4. P(m)
  BY <1>2, <1>3
<1>5. n \in 0..Len(s) /\ P(n)
  <2> HIDE DEF P
  <2> QED
    BY <1>2, <1>4
<1>6. AboveFloor = SubSeq(s, 1, n)
  BY DEF AboveFloor
<1>7. (\A k \in 1..n : ~AtFloor(s[k])) /\ (n < Len(s) => AtFloor(s[n + 1]))
  BY <1>5
<1> HIDE DEF n, P
<1>8. 1 \in Nat \ {0} /\ n \in Int /\ n <= Len(s)
  BY <1>1, <1>5
<1>9. /\ AboveFloor \in Seq(Post)
      /\ Len(AboveFloor) = IF n < 1 THEN 0 ELSE n - 1 + 1
      /\ \A k \in 1..Len(AboveFloor) : AboveFloor[k] = s[1 + k - 1]
  <2> HIDE DEF s
  <2> QED
    BY <1>1, <1>6, <1>8, PartOf
<1>10. ASSUME NEW k \in 1..Len(AboveFloor)
       PROVE  state.floor < AboveFloor[k].date
  <2>1. k \in 1..n /\ k \in 1..Len(s) /\ 1 + k - 1 = k
    BY <1>1, <1>5, <1>9
  <2>2. AboveFloor[k] = s[k] /\ s[k] \in Post
    BY <1>1, <1>9, <2>1
  <2>3. ~(s[k].date <= state.floor) /\ s[k].date # ZeroDate
    BY <1>7, <2>1 DEF AtFloor
  <2> QED
    BY <1>1, <2>2, <2>3 DEF Post
<1>11. Len(AboveFloor) = n /\ Len(AboveFloor) \in 0..Len(s)
  BY <1>1, <1>5, <1>9
<1>12. ASSUME NEW k \in 1..Len(AboveFloor) PROVE AboveFloor[k] = s[k]
  <2>1. 1 + k - 1 = k
    OBVIOUS
  <2> QED
    BY <1>9, <2>1
<1> QED
  BY <1>7, <1>9, <1>10, <1>11, <1>12

(* The posts of this pass. *)
Own == {p \in Post : InWindowOfPass(p)}

LEMMA AcceptedIsOwn ==
  ASSUME TypeOK
  PROVE  Accepted \in Seq(Own)
<1> DEFINE s == AboveFloor
           K == {n \in 1..Len(s) : NotAfterStart(s[n])}
<1>1. s \in Seq(Post) /\ \A k \in 1..Len(s) : state.floor < s[k].date
  BY AboveFloorIsFront
<1>2. K \in SUBSET (1..Len(s)) /\ Accepted = Subsequence(s, K)
  BY DEF Accepted
<1> HIDE DEF s
<1>3. \A k \in K : s[k] \in Own
  BY <1>1 DEF Own, InWindowOfPass, NotAfterStart
<1> HIDE DEF K
<1>4. Subsequence(s, K) \in Seq({s[k] : k \in K})
  BY <1>1, <1>2, SubsequenceOf
<1>5. {s[k] : k \in K} \subseteq Own
  BY <1>3
<1>6. \A S, T : S \subseteq T => Seq(S) \subseteq Seq(T)
  OBVIOUS
<1> QED
  BY <1>2, <1>4, <1>5, <1>6

LEMMA Collected ==
  ASSUME TriggerInv
  PROVE  /\ poll.posts \in Seq(Own)
         /\ poll.posts \o Accepted \in Seq(Own)
<1>1. poll.posts \in Seq(Post) /\ \A n \in 1..Len(poll.posts) : InWindowOfPass(poll.posts[n])
  BY DEF TriggerInv, TypeOK, PassIsSound
<1>2. \A n \in 1..Len(poll.posts) : poll.posts[n] \in Own
  BY <1>1 DEF Own
<1>3. poll.posts \in Seq(Own)
  BY <1>1, <1>2
<1>4. Accepted \in Seq(Own)
  BY AcceptedIsOwn DEF TriggerInv
<1> QED
  BY <1>3, <1>4
-----------------------------------------------------------------------------
(* Every step keeps TriggerInv. *)

(* Steps of the engine and of the source. *)
LEMMA OutsideKeeps ==
  ASSUME TriggerInv, UNCHANGED <<state, poll, emitted, thrown, marks, origin, resets>>,
         hidden' \subseteq Post, CrawlTypeOK', clock <= clock'
  PROVE  TriggerInv'
<1>1. /\ state' = state /\ poll' = poll /\ emitted' = emitted /\ thrown' = thrown
      /\ marks' = marks /\ origin' = origin /\ resets' = resets
      /\ clock \in Nat /\ clock' \in Nat
  BY DEF TriggerInv, TypeOK, CrawlTypeOK
<1>2. TypeOK'
  BY <1>1 DEF TriggerInv, TypeOK
<1>3. EmittedIsSound'
  BY <1>1 DEF TriggerInv, EmittedIsSound
<1>4. PassIsSound'
  <2>1. PassIsSound /\ state \in State
    BY DEF TriggerInv, TypeOK
  <2>2. (\A n \in 1..Len(poll.posts) : InWindowOfPass(poll.posts[n]))'
    BY <1>1, <2>1 DEF PassIsSound, InWindowOfPass
  <2>3. /\ state'.lastSeen \in -1..clock' /\ state'.pending = state'.started
        /\ state'.started # None =>
             /\ state'.started \in 0..clock' /\ state'.lastSeen <= state'.started
             /\ state'.lastSeen # None => state'.lastSeen <= state'.floor
    BY <1>1, <2>1 DEF PassIsSound, State
  <2>4. poll'.pc # "idle" => state'.started # None
    BY <1>1, <2>1 DEF PassIsSound
  <2> QED
    BY <2>2, <2>3, <2>4 DEF PassIsSound
<1> QED
  BY <1>2, <1>3, <1>4 DEF TriggerInv

LEMMA HiddenArePosts ==
  ASSUME TypeOK, Engine
  PROVE  hidden' \subseteq Post
<1>1. hidden \subseteq Post /\ Wanted \subseteq Post
  BY DEF TypeOK, Wanted
<1>2. Concealed(Fetched(walk.page)) \subseteq Wanted
  BY DEF Concealed
<1>3. hidden' = hidden \/ hidden' = hidden \cup Concealed(Fetched(walk.page))
  BY DEF Engine, Fetch
<1> QED
  BY <1>1, <1>2, <1>3

LEMMA EngineKeeps ==
  ASSUME TriggerInv, Engine
  PROVE  TriggerInv'
<1>1. /\ TypeOK /\ CrawlTypeOK /\ clock \in Nat
      /\ UNCHANGED <<state, poll, emitted, thrown, marks, origin, resets>>
  BY DEF TriggerInv, TypeOK, CrawlTypeOK, Engine
<1>2. CrawlTypeOK' /\ clock' = clock
  BY <1>1, FetchPageIsTyped, FetchFailIsTyped DEF Engine, Fetch
<1>3. clock <= clock' /\ hidden' \subseteq Post
  BY <1>1, <1>2, HiddenArePosts
<1> QED
  BY <1>1, <1>2, <1>3, OutsideKeeps

LEMMA SourceKeeps ==
  ASSUME TriggerInv, Source
  PROVE  TriggerInv'
<1>1. /\ CrawlTypeOK /\ clock \in Nat /\ hidden' = hidden /\ hidden \subseteq Post
      /\ UNCHANGED <<state, poll, emitted, thrown, marks, origin, resets>>
  BY DEF TriggerInv, TypeOK, CrawlTypeOK, Source
<1>2. CrawlTypeOK' /\ clock' = clock + 1
  BY <1>1, PublishIsTyped, TickIsTyped DEF Source
<1>3. clock <= clock' /\ hidden' \subseteq Post
  BY <1>1, <1>2
<1> QED
  BY <1>1, <1>2, <1>3, OutsideKeeps

(* The state that a pass starts from, or goes on with. *)
LEMMA NoStateIsTyped ==
  /\ NoState \in State /\ [NoState EXCEPT !.applied = TRUE] \in State
  /\ NoState.lastSeen = None /\ NoState.started = None /\ NoState.pending = None
  /\ \A b \in BOOLEAN : LET s == [NoState EXCEPT !.applied = b]
                        IN  s.lastSeen = None /\ s.started = None /\ s.pending = None
<1>1. NoState \in State
  BY DEF NoState, State, Cursors, None
<1>2. [NoState EXCEPT !.applied = TRUE] \in State
  BY <1>1 DEF State
<1>3. NoState.lastSeen = None /\ NoState.started = None /\ NoState.pending = None
  BY DEF NoState
<1>4. \A b \in BOOLEAN : LET s == [NoState EXCEPT !.applied = b]
                         IN  s.lastSeen = None /\ s.started = None /\ s.pending = None
  BY <1>1, <1>3 DEF State
<1> QED
  BY <1>1, <1>2, <1>3, <1>4

LEMMA AfterReset ==
  ASSUME TypeOK, NEW on \in BOOLEAN
  PROVE  LET s == ApplyReset(state, on)
         IN  /\ s \in State
             /\ IF on /\ ~state.applied
                THEN s.lastSeen = None /\ s.started = None /\ s.pending = None
                ELSE /\ s.lastSeen = state.lastSeen /\ s.started = state.started
                     /\ s.pending = state.pending /\ s.floor = state.floor
                     /\ s.cursor = state.cursor
<1>0. state \in State
  BY DEF TypeOK, CrawlTypeOK
<1>1. CASE on /\ ~state.applied
  <2>1. ApplyReset(state, on) = [NoState EXCEPT !.applied = TRUE]
    BY <1>1 DEF ApplyReset
  <2> QED
    BY <1>1, <2>1, NoStateIsTyped
<1>2. CASE on /\ state.applied
  <2>1. ApplyReset(state, on) = state
    BY <1>2 DEF ApplyReset
  <2> QED
    BY <1>0, <1>2, <2>1
<1>3. CASE ~on
  <2>1. ApplyReset(state, on) = [state EXCEPT !.applied = FALSE]
    BY <1>3 DEF ApplyReset
  <2>2. [state EXCEPT !.applied = FALSE] \in State
    BY <1>0 DEF State
  <2>3. LET s == [state EXCEPT !.applied = FALSE]
        IN  /\ s.lastSeen = state.lastSeen /\ s.started = state.started
            /\ s.pending = state.pending /\ s.floor = state.floor
                     /\ s.cursor = state.cursor
    BY <1>0 DEF State
  <2> QED
    BY <1>3, <2>1, <2>2, <2>3
<1> QED
  BY <1>1, <1>2, <1>3

LEMMA AfterStart ==
  ASSUME NEW s \in State, clock \in Nat
  PROVE  LET t == StartPass(s)
         IN  /\ t \in State /\ t.lastSeen = s.lastSeen
             /\ IF s.started # None THEN t = s
                ELSE /\ t.started = clock /\ t.pending = clock
                     /\ t.cursor = NoCursor
                     /\ s.lastSeen # None => t.floor = s.lastSeen
                     /\ s.lastSeen = None => t.floor = clock - LookbackSpan
<1>1. CASE s.started # None
  <2>1. StartPass(s) = s
    BY <1>1 DEF StartPass
  <2> QED
    BY <1>1, <2>1
<1>2. CASE s.started = None
  <2> DEFINE f == IF s.lastSeen # None THEN s.lastSeen ELSE clock - LookbackSpan
             t == [s EXCEPT !.started = clock, !.pending = clock, !.cursor = NoCursor, !.floor = f]
  <2>1. StartPass(s) = t
    BY <1>2 DEF StartPass
  <2>a. s.lastSeen \in Int /\ clock - LookbackSpan \in Int
    BY TriggerAssumption DEF State
  <2>2. f \in Int /\ NoCursor \in Cursors
    BY <2>a DEF Cursors
  <2>3. /\ s.lastSeen # None => f = s.lastSeen
        /\ s.lastSeen = None => f = clock - LookbackSpan
    OBVIOUS
  <2> HIDE DEF f
  <2>b. clock \in Int
    OBVIOUS
  <2>4. t \in State
    BY <2>2, <2>b DEF State
  <2>5. /\ t.lastSeen = s.lastSeen /\ t.started = clock /\ t.pending = clock /\ t.floor = f
        /\ t.cursor = NoCursor
    BY DEF State
  <2> HIDE DEF t
  <2> QED
    BY <1>2, <2>1, <2>3, <2>4, <2>5
<1> QED
  BY <1>1, <1>2

Polls == [pc: {"idle", "call", "wait"}, posts: Seq(Post), pages: Nat]

LEMMA NoPollIsTyped ==
  /\ NoPoll \in Polls /\ [NoPoll EXCEPT !.pc = "call"] \in Polls
  /\ NoPoll.posts = <<>> /\ NoPoll.pc = "idle"
  /\ [NoPoll EXCEPT !.pc = "call"].posts = <<>>
<1>1. NoPoll \in Polls /\ NoPoll.posts = <<>> /\ NoPoll.pc = "idle"
  BY DEF NoPoll, Polls
<1> QED
  BY <1>1 DEF Polls

LEMMA PollBeginKeeps ==
  ASSUME TriggerInv, NEW on \in BOOLEAN, PollBegin(on)
  PROVE  TriggerInv'
<1> DEFINE s == ApplyReset(state, on)
<1>1. /\ TypeOK /\ PassIsSound /\ EmittedIsSound /\ clock \in Nat /\ resets \in 0..MaxResets
      /\ state \in State /\ emitted \subseteq [post: Post, pass: Nat, epoch: Nat]
  BY DEF TriggerInv, TypeOK, CrawlTypeOK
<1>2. /\ s \in State
      /\ IF on /\ ~state.applied
         THEN s.lastSeen = None /\ s.started = None /\ s.pending = None
         ELSE /\ s.lastSeen = state.lastSeen /\ s.started = state.started
              /\ s.pending = state.pending /\ s.floor = state.floor
  BY <1>1, AfterReset
<1>3. state' = StartPass(s)
  BY DEF PollBegin
<1> HIDE DEF s
<1>4. /\ state' \in State /\ state'.lastSeen = s.lastSeen
      /\ IF s.started # None THEN state' = s
         ELSE /\ state'.started = clock /\ state'.pending = clock
              /\ s.lastSeen # None => state'.floor = s.lastSeen
  BY <1>1, <1>2, <1>3, AfterStart
<1>5. /\ poll' \in Polls /\ poll'.posts = <<>>
      /\ UNCHANGED <<clock, listing, cache, failures, walk, emitted, thrown, hidden, marks>>
  BY NoPollIsTyped DEF PollBegin
<1>6. /\ resets' = IF on /\ ~state.applied THEN resets + 1 ELSE resets
      /\ resets' <= MaxResets
      /\ origin' \in {origin, state'.floor}
  BY DEF PollBegin
<1>7. resets' \in 0..MaxResets
  BY <1>1, <1>6, TriggerAssumption
<1>8. origin' \in Int
  <2>1. origin \in Int /\ state'.floor \in Int
    BY <1>1, <1>4 DEF TypeOK, CrawlTypeOK, State
  <2> QED
    BY <1>6, <2>1
<1>9. TypeOK'
  BY <1>1, <1>4, <1>5, <1>7, <1>8 DEF TypeOK, CrawlTypeOK, Polls
<1>10. /\ state.lastSeen \in -1..clock /\ state.pending = state.started
       /\ state.started # None =>
            /\ state.started \in 0..clock /\ state.lastSeen <= state.started
            /\ state.lastSeen # None => state.lastSeen <= state.floor
  BY <1>1 DEF PassIsSound
<1>11. /\ s.lastSeen \in -1..clock /\ s.pending = s.started
       /\ s.started # None =>
            /\ s.started \in 0..clock /\ s.lastSeen <= s.started
            /\ s.lastSeen # None => s.lastSeen <= s.floor
  <2>1. CASE on /\ ~state.applied
    BY <1>1, <1>2, <2>1 DEF None
  <2>2. CASE ~(on /\ ~state.applied)
    BY <1>2, <1>10, <2>2
  <2> QED
    BY <2>1, <2>2
<1>12. /\ state'.lastSeen \in -1..clock /\ state'.pending = state'.started
       /\ state'.started \in 0..clock /\ state'.lastSeen <= state'.started
       /\ state'.lastSeen # None => state'.lastSeen <= state'.floor
       /\ state'.started # None
  <2>1. CASE s.started # None
    BY <1>4, <1>11, <2>1
  <2>2. CASE s.started = None
    BY <1>1, <1>4, <1>11, <2>2 DEF None, State
  <2> QED
    BY <2>1, <2>2
<1>13. PassIsSound'
  <2>1. (\A n \in 1..Len(poll.posts) : InWindowOfPass(poll.posts[n]))'
    BY <1>5
  <2> QED
    BY <1>5, <1>12, <2>1 DEF PassIsSound
<1>14. EmittedIsSound'
  <2>1. ASSUME NEW e \in emitted
        PROVE  /\ e.epoch <= resets' /\ e.post.date <= e.pass
               /\ e.epoch = resets' => e.pass \in {state'.started} \cup 0..state'.lastSeen
    <3>1. e.epoch \in Nat /\ e.pass \in Nat
      BY <1>1
    <3>2. /\ e.epoch <= resets /\ e.post.date <= e.pass
          /\ e.epoch = resets => e.pass \in {state.started} \cup 0..state.lastSeen
      BY <1>1 DEF EmittedIsSound
    <3>3. CASE on /\ ~state.applied
      BY <1>1, <1>6, <3>1, <3>2, <3>3
    <3>4. CASE ~(on /\ ~state.applied)
      <4>1. state'.lastSeen = state.lastSeen
        BY <1>2, <1>4, <3>4
      <4>2. state.started # None => state'.started = state.started
        BY <1>2, <1>4, <3>4
      <4>3. e.pass # None
        BY <3>1 DEF None
      <4> QED
        BY <1>6, <3>2, <3>4, <4>1, <4>2, <4>3
    <3> QED
      BY <3>3, <3>4
  <2>2. \A d, e \in emitted : d.epoch = e.epoch /\ d.pass < e.pass => d.pass < e.post.date
    BY <1>1 DEF EmittedIsSound
  <2> QED
    BY <1>5, <2>1, <2>2 DEF EmittedIsSound
<1> QED
  BY <1>9, <1>13, <1>14 DEF TriggerInv

(* A request begins a walk behind the stored cursor. *)
LEMMA RequestBegins ==
  ASSUME TypeOK, Request
  PROVE  /\ WalkIsTyped(walk') /\ walk'.pc = "walk" /\ walk'.page = FirstPage(state.cursor)
         /\ walk'.skip = state.cursor[2] /\ walk'.posts = <<>> /\ walk'.cutoff = 0
<1> DEFINE n == Lesser(PageSize, BatchSize - Len(poll.posts))
<1>1. /\ CrawlTypeOK /\ state.cursor \in Cursors /\ Len(poll.posts) \in Nat
      /\ Begin(state.cursor, n, 0)
  BY DEF TypeOK, State, Request
<1>2. n \in Int /\ 0 \in Int /\ ~(0 > 0)
  BY <1>1, TriggerAssumption DEF Lesser
<1> HIDE DEF n
<1> QED
  BY <1>1, <1>2, BeginIsTyped

(* A request changes the walk and where the poll is. *)
LEMMA RequestKeeps ==
  ASSUME TriggerInv, Request
  PROVE  TriggerInv'
<1>1. /\ TypeOK /\ PassIsSound /\ EmittedIsSound /\ state \in State /\ poll \in Polls
      /\ poll.pc = "call" /\ CrawlTypeOK
  BY DEF TriggerInv, TypeOK, Polls, Request
<1>8. WalkIsTyped(walk')
  BY <1>1, RequestBegins
<1>9. poll' = [poll EXCEPT !.pc = "wait", !.pages = @ + 1]
  BY DEF Request
<1>10. poll' \in Polls /\ poll'.posts = poll.posts
  <2> DEFINE k == poll.pages + 1
  <2>1. poll' = [poll EXCEPT !.pc = "wait", !.pages = k] /\ k \in Nat
    BY <1>1, <1>9 DEF Polls
  <2> HIDE DEF k
  <2> QED
    BY <1>1, <2>1 DEF Polls
<1>11. UNCHANGED <<clock, listing, cache, failures, state, emitted, thrown, hidden, marks,
                    origin, resets>>
  BY DEF Request
<1>12. TypeOK'
  BY <1>1, <1>8, <1>10, <1>11 DEF TypeOK, CrawlTypeOK, WalkIsTyped, Polls
<1>13. PassIsSound'
  BY <1>1, <1>10, <1>11 DEF PassIsSound, InWindowOfPass
<1>14. EmittedIsSound'
  BY <1>1, <1>11 DEF EmittedIsSound
<1> QED
  BY <1>12, <1>13, <1>14 DEF TriggerInv

LEMMA PollThrowsKeeps ==
  ASSUME TriggerInv, PollThrows
  PROVE  TriggerInv'
<1>1. /\ TypeOK /\ PassIsSound /\ EmittedIsSound /\ poll.posts \in Seq(Post) /\ thrown \subseteq Post
  BY DEF TriggerInv, TypeOK
<1>2. /\ thrown' = thrown \cup {poll.posts[n] : n \in 1..Len(poll.posts)}
      /\ poll' = NoPoll /\ walk' = NoWalk
      /\ UNCHANGED <<clock, listing, cache, failures, state, emitted, hidden, marks, origin, resets>>
  BY DEF PollThrows
<1>3. thrown' \subseteq Post
  BY <1>1, <1>2
<1>4. poll' \in Polls /\ poll'.posts = <<>> /\ poll'.pc = "idle" /\ WalkIsTyped(walk')
  BY <1>2, NoPollIsTyped, NoWalkIsTyped
<1>5. TypeOK'
  BY <1>1, <1>2, <1>3, <1>4 DEF TypeOK, CrawlTypeOK, WalkIsTyped, Polls
<1>6. PassIsSound'
  BY <1>1, <1>2, <1>4 DEF PassIsSound
<1>7. EmittedIsSound'
  BY <1>1, <1>2 DEF EmittedIsSound
<1> QED
  BY <1>5, <1>6, <1>7 DEF TriggerInv

(* What a poll hands over is above what earlier passes emitted. *)
LEMMA EmitKeeps ==
  ASSUME TriggerInv, state.started # None, NEW posts \in Seq(Own), Emit(posts)
  PROVE  /\ emitted' \subseteq [post: Post, pass: Nat, epoch: Nat]
         /\ \A e \in emitted' :
              /\ e.epoch <= resets /\ e.post.date <= e.pass
              /\ e.epoch = resets => e.pass \in {state.started} \cup 0..state.lastSeen
         /\ \A d, e \in emitted' :
              d.epoch = e.epoch /\ d.pass < e.pass => d.pass < e.post.date
<1>1. /\ emitted \subseteq [post: Post, pass: Nat, epoch: Nat] /\ resets \in Nat
      /\ state \in State /\ EmittedIsSound /\ PassIsSound
  BY TriggerAssumption DEF TriggerInv, TypeOK
<1>2. /\ state.started \in Nat /\ state.lastSeen \in Int /\ state.floor \in Int
      /\ state.lastSeen <= state.started
      /\ state.lastSeen # None => state.lastSeen <= state.floor
  BY <1>1 DEF PassIsSound, State
<1> DEFINE rec(n) == [post |-> posts[n], pass |-> state.started, epoch |-> resets]
           N == {rec(n) : n \in 1..Len(posts)}
<1>3. emitted' = emitted \cup N
  BY DEF Emit
<1>4. ASSUME NEW e \in N
      PROVE  /\ e \in [post: Post, pass: Nat, epoch: Nat] /\ e.pass = state.started
             /\ e.epoch = resets /\ state.floor < e.post.date /\ e.post.date <= state.started
             /\ e.post.date \in Int
  <2>1. PICK n \in 1..Len(posts) : e = rec(n)
    OBVIOUS
  <2>2. posts[n] \in Own
    OBVIOUS
  <2>3. e.post = posts[n] /\ e.pass = state.started /\ e.epoch = resets
    BY <2>1
  <2>4. posts[n] \in Post /\ state.floor < posts[n].date /\ posts[n].date <= state.started
    BY <2>2 DEF Own, InWindowOfPass
  <2>5. e \in [post: Post, pass: Nat, epoch: Nat]
    BY <1>1, <1>2, <2>1, <2>4
  <2> QED
    BY <2>3, <2>4, <2>5 DEF Post, ZeroDate
<1> HIDE DEF N
<1>5. emitted' \subseteq [post: Post, pass: Nat, epoch: Nat]
  BY <1>1, <1>3, <1>4
<1>6. ASSUME NEW e \in emitted'
      PROVE  /\ e.epoch <= resets /\ e.post.date <= e.pass
             /\ e.epoch = resets => e.pass \in {state.started} \cup 0..state.lastSeen
  <2>1. CASE e \in emitted
    BY <1>1, <2>1 DEF EmittedIsSound
  <2>2. CASE e \in N
    BY <1>1, <1>4, <2>2
  <2> QED
    BY <1>3, <2>1, <2>2
<1>7. ASSUME NEW d \in emitted', NEW e \in emitted', d.epoch = e.epoch, d.pass < e.pass
      PROVE  d.pass < e.post.date
  <2>1. CASE d \in emitted /\ e \in emitted
    BY <1>1, <1>7, <2>1 DEF EmittedIsSound
  <2>2. CASE e \in N
    <3>1. e.epoch = resets /\ e.pass = state.started /\ state.floor < e.post.date
          /\ e.post.date \in Int
      BY <1>4, <2>2
    <3>2. d.pass \in Nat /\ d.pass # state.started
      BY <1>2, <1>5, <1>7, <3>1
    <3>3. d.pass \in 0..state.lastSeen
      BY <1>6, <1>7, <3>1, <3>2
    <3>4. state.lastSeen # None
      BY <1>2, <3>3 DEF None
    <3> QED
      BY <1>2, <3>1, <3>2, <3>3, <3>4
  <2>3. CASE d \in N /\ e \in emitted
    <3>1. d.epoch = resets /\ d.pass = state.started
      BY <1>4, <2>3
    <3>2. e.pass \in Nat /\ e.pass \in {state.started} \cup 0..state.lastSeen
      BY <1>1, <1>7, <2>3, <3>1 DEF EmittedIsSound
    <3>3. e.pass <= state.started
      BY <1>2, <3>2
    <3> QED
      BY <1>2, <1>7, <3>1, <3>2, <3>3
  <2> QED
    BY <1>3, <2>1, <2>2, <2>3
<1> QED
  BY <1>5, <1>6, <1>7

LEMMA AfterFinish ==
  ASSUME state \in State
  PROVE  LET t == FinishPass(state)
         IN  /\ t \in State /\ t.lastSeen = state.pending
             /\ t.started = None /\ t.pending = None
<1> DEFINE t == [state EXCEPT !.lastSeen = state.pending, !.cursor = NoCursor, !.floor = None,
                              !.started = None, !.pending = None]
<1>1. state.pending \in Int /\ None \in Int /\ NoCursor \in Cursors
  BY DEF State, None, Cursors
<1>2. t \in State
  BY <1>1 DEF State
<1>3. t.lastSeen = state.pending /\ t.started = None /\ t.pending = None
  BY DEF State
<1>4. FinishPass(state) = t
  BY DEF FinishPass
<1> HIDE DEF t
<1> QED
  BY <1>2, <1>3, <1>4

LEMMA ResponseKeeps ==
  ASSUME TriggerInv, Response
  PROVE  TriggerInv'
<1> DEFINE posts == poll.posts \o Accepted
           again == ~Finished /\ poll.pages < MaxPagesPerPoll /\ Len(posts) < BatchSize
<1>1. /\ TypeOK /\ PassIsSound /\ EmittedIsSound /\ state \in State /\ poll \in Polls
      /\ walk \in Walk /\ emitted \subseteq [post: Post, pass: Nat, epoch: Nat]
      /\ marks \subseteq Nat
  BY DEF TriggerInv, TypeOK, CrawlTypeOK, WalkIsTyped, Polls
<1>2. /\ poll.pc = "wait"
      /\ marks' = IF Finished THEN marks \cup {state.pending} ELSE marks
      /\ state' = IF Finished THEN FinishPass(state) ELSE [state EXCEPT !.cursor = walk.cursor]
      /\ poll' = IF again THEN [poll EXCEPT !.pc = "call", !.posts = posts] ELSE NoPoll
      /\ IF again THEN emitted' = emitted ELSE Emit(posts)
      /\ walk' = NoWalk
      /\ UNCHANGED <<clock, listing, cache, failures, thrown, hidden, origin, resets>>
  BY DEF Response
<1>3. posts \in Seq(Own)
  BY Collected
<1>4. again => ~Finished
  OBVIOUS
<1> HIDE DEF posts, again
<1>5. /\ state.started # None /\ state.started \in 0..clock /\ state.pending = state.started
      /\ state.lastSeen \in -1..clock /\ state.lastSeen <= state.started
      /\ state.lastSeen # None => state.lastSeen <= state.floor
  BY <1>1, <1>2 DEF PassIsSound
<1>6. clock \in Nat /\ WalkIsTyped(walk') /\ marks' \subseteq Nat
  <2>1. clock \in Nat /\ WalkIsTyped(walk')
    BY <1>1, <1>2, NoWalkIsTyped DEF TypeOK, CrawlTypeOK
  <2>2. state.pending \in Nat
    BY <1>5, <2>1
  <2> QED
    BY <1>1, <1>2, <2>1, <2>2
<1>7. posts \in Seq(Post) /\ \A n \in 1..Len(posts) : InWindowOfPass(posts[n])
  BY <1>3 DEF Own
<1>8. poll' \in Polls /\ (again => poll'.posts = posts) /\ (~again => poll' = NoPoll)
  <2>1. CASE again
    <3>1. poll' = [poll EXCEPT !.pc = "call", !.posts = posts]
      BY <1>2, <2>1
    <3> QED
      BY <1>1, <1>7, <2>1, <3>1 DEF Polls
  <2>2. CASE ~again
    BY <1>2, <2>2, NoPollIsTyped
  <2> QED
    BY <2>1, <2>2
<1>9. /\ emitted' \subseteq [post: Post, pass: Nat, epoch: Nat]
      /\ \A e \in emitted' :
           /\ e.epoch <= resets /\ e.post.date <= e.pass
           /\ e.epoch = resets => e.pass \in {state.started} \cup 0..state.lastSeen
      /\ \A d, e \in emitted' :
           d.epoch = e.epoch /\ d.pass < e.pass => d.pass < e.post.date
  <2>1. CASE again
    <3>1. emitted' = emitted
      BY <1>2, <2>1
    <3> QED
      BY <1>1, <3>1 DEF EmittedIsSound
  <2>2. CASE ~again
    <3>1. Emit(posts)
      BY <1>2, <2>2
    <3> QED
      BY <1>3, <1>5, <3>1, EmitKeeps
  <2> QED
    BY <2>1, <2>2
<1>10. CASE Finished
  <2>1. /\ state' \in State /\ state'.lastSeen = state.started
        /\ state'.started = None /\ state'.pending = None
    BY <1>1, <1>2, <1>5, <1>10, AfterFinish
  <2>2. poll' = NoPoll /\ poll'.posts = <<>> /\ poll'.pc = "idle"
    BY <1>4, <1>8, <1>10, NoPollIsTyped
  <2>3. TypeOK'
    BY <1>1, <1>2, <1>6, <1>8, <1>9, <2>1 DEF TypeOK, CrawlTypeOK, WalkIsTyped, Polls
  <2>4. PassIsSound'
    <3>1. state'.lastSeen \in -1..clock /\ clock' = clock
      BY <1>2, <1>5, <1>6, <2>1
    <3> QED
      BY <2>1, <2>2, <3>1 DEF PassIsSound
  <2>5. EmittedIsSound'
    <3>1. \A e \in emitted' : e.epoch = resets => e.pass \in 0..state'.lastSeen
      <4> SUFFICES ASSUME NEW e \in emitted', e.epoch = resets
                   PROVE  e.pass \in 0..state.started
        BY <2>1
      <4>1. e.pass \in {state.started} \cup 0..state.lastSeen
        BY <1>9
      <4> QED
        BY <1>5, <1>6, <4>1
    <3>2. resets' = resets
      BY <1>2
    <3> QED
      BY <1>9, <3>1, <3>2 DEF EmittedIsSound
  <2> QED
    BY <2>3, <2>4, <2>5 DEF TriggerInv
<1>11. CASE ~Finished
  <2>0. state' = [state EXCEPT !.cursor = walk.cursor] /\ walk.cursor \in Cursors
    BY <1>1, <1>2, <1>11 DEF Walk
  <2>1. /\ state' \in State /\ state'.lastSeen = state.lastSeen /\ state'.floor = state.floor
        /\ state'.started = state.started /\ state'.pending = state.pending
    BY <1>1, <2>0 DEF State
  <2>2. TypeOK'
    BY <1>1, <1>2, <1>6, <1>8, <1>9, <2>1 DEF TypeOK, CrawlTypeOK, WalkIsTyped, Polls
  <2>3. (\A n \in 1..Len(poll.posts) : InWindowOfPass(poll.posts[n]))'
    <3>1. CASE again
      BY <1>7, <1>8, <2>1, <3>1 DEF InWindowOfPass
    <3>2. CASE ~again
      BY <1>8, <3>2, NoPollIsTyped
    <3> QED
      BY <3>1, <3>2
  <2>4. clock' = clock /\ resets' = resets
    BY <1>2
  <2>5. PassIsSound'
    BY <1>5, <2>1, <2>3, <2>4 DEF PassIsSound
  <2>6. EmittedIsSound'
    BY <1>9, <2>1, <2>4 DEF EmittedIsSound
  <2> QED
    BY <2>2, <2>5, <2>6 DEF TriggerInv
<1> QED
  BY <1>10, <1>11

LEMMA InitTrigger ==
  ASSUME Init
  PROVE  TriggerInv
<1>1. /\ state = NoState /\ poll = NoPoll /\ emitted = {} /\ thrown = {} /\ origin = None
      /\ hidden = {} /\ marks = {} /\ resets = 0 /\ listing \in Listings /\ clock = Len(listing) /\ cache = {}
      /\ failures = 0 /\ walk = NoWalk
  BY DEF Init, CrawlInit
<1>2. listing \in Seq(Post \cup {Blank}) /\ clock \in Nat
  BY <1>1, CrawlAssumption DEF Post
<1>3. resets \in 0..MaxResets /\ origin \in Int /\ failures \in Nat
  BY <1>1, TriggerAssumption DEF None
<1>4. state \in State /\ poll \in Polls /\ WalkIsTyped(walk)
  BY <1>1, NoStateIsTyped, NoPollIsTyped, NoWalkIsTyped
<1>5. TypeOK
  BY <1>1, <1>2, <1>3, <1>4 DEF TypeOK, CrawlTypeOK, WalkIsTyped, Polls
<1>6. -1 \in -1..clock
  BY <1>2
<1>7. PassIsSound
  BY <1>1, <1>6, NoStateIsTyped, NoPollIsTyped DEF PassIsSound, None
<1>8. EmittedIsSound
  BY <1>1 DEF EmittedIsSound
<1> QED
  BY <1>5, <1>7, <1>8 DEF TriggerInv

LEMMA NextTrigger ==
  ASSUME TriggerInv, [Next]_vars
  PROVE  TriggerInv'
<1>1. CASE Poll
  BY <1>1, PollBeginKeeps DEF Poll
<1>2. CASE Request
  BY <1>2, RequestKeeps
<1>3. CASE Response
  BY <1>3, ResponseKeeps
<1>4. CASE PollThrows
  BY <1>4, PollThrowsKeeps
<1>5. CASE Engine
  BY <1>5, EngineKeeps
<1>6. CASE Source
  BY <1>6, SourceKeeps
<1>7. CASE UNCHANGED vars
  <2>1. /\ clock' = clock /\ listing' = listing /\ cache' = cache /\ failures' = failures
        /\ walk' = walk /\ hidden' = hidden
        /\ UNCHANGED <<state, poll, emitted, thrown, marks, origin, resets>>
    BY <1>7 DEF vars
  <2>2. CrawlTypeOK' /\ clock <= clock' /\ hidden' \subseteq Post
    BY <2>1 DEF TriggerInv, TypeOK, CrawlTypeOK
  <2> QED
    BY <2>1, <2>2, OutsideKeeps
<1> QED
  BY <1>1, <1>2, <1>3, <1>4, <1>5, <1>6, <1>7 DEF Next

(* The inductive invariant: the window of a pass begins at the watermark,   *)
(* ends where the pass began, and holds what was collected and emitted      *)
(* (TakuhaiCrawlerTrigger.node.ts:184-202).                                 *)
THEOREM TriggerHolds == Spec => []TriggerInv
<1>1. Init => TriggerInv
  BY InitTrigger
<1>2. TriggerInv /\ [Next]_vars => TriggerInv'
  BY NextTrigger
<1> QED
  BY <1>1, <1>2, PTL DEF Spec

(* Between two resets a post is emitted by one pass, for every listing, page *)
(* size, batch size and cache, whatever is listed meanwhile and whichever    *)
(* calls fail (TakuhaiCrawlerTrigger.node.ts:143-151).                      *)
THEOREM OnePass == Spec => []EmittedInOnePass
<1>1. TriggerInv => EmittedInOnePass
  <2> SUFFICES ASSUME TriggerInv, NEW d \in emitted, NEW e \in emitted,
                      d.post = e.post, d.epoch = e.epoch
               PROVE  d = e
    BY DEF EmittedInOnePass
  <2>1. /\ d \in [post: Post, pass: Nat, epoch: Nat] /\ e \in [post: Post, pass: Nat, epoch: Nat]
        /\ EmittedIsSound
    BY DEF TriggerInv, TypeOK
  <2>2. d.post.date \in Int /\ d.pass \in Nat /\ e.pass \in Nat
    BY <2>1 DEF Post, ZeroDate
  <2>3. d.post.date <= d.pass /\ e.post.date <= e.pass
    BY <2>1 DEF EmittedIsSound
  <2>4. ~(d.pass < e.pass) /\ ~(e.pass < d.pass)
    BY <2>1, <2>2, <2>3 DEF EmittedIsSound
  <2>5. d.pass = e.pass
    BY <2>2, <2>4
  <2> QED
    BY <2>1, <2>5
<1> QED
  BY <1>1, TriggerHolds, PTL

-----------------------------------------------------------------------------
(* What the passes bring: CompleteInv is inductive where dates parse.        *)

(* Rounding down keeps the order. *)
LEMMA RoundingIsMonotone ==
  ASSUME NEW a \in Nat, NEW b \in Nat, a <= b, NEW g \in Nat \ {0}
  PROVE  a - (a % g) <= b - (b % g)
<1> DEFINE i == a \div g
           j == b \div g
<1>1. /\ i \in Nat /\ a % g \in 0..(g - 1) /\ a = g * i + (a % g)
      /\ j \in Nat /\ b % g \in 0..(g - 1) /\ b = g * j + (b % g)
  OBVIOUS
<1> HIDE DEF i, j
<1>2. CASE i <= j
  <2>1. g * i <= g * j /\ g * i \in Nat /\ g * j \in Nat
    BY <1>1, <1>2
  <2> QED
    BY <1>1, <2>1
<1>3. CASE j + 1 <= i
  <2>1. g * (j + 1) <= g * i /\ g * (j + 1) = g * j + g /\ g * i \in Nat /\ g * j \in Nat
    BY <1>1, <1>3
  <2> QED
    BY <1>1, <2>1
<1> QED
  BY <1>1, <1>2, <1>3

LEMMA PrintedDates ==
  ASSUME NEW p \in Post, Printed(p)
  PROVE  /\ p.at \in Nat /\ p.date \in Nat /\ p.date <= p.at /\ p.date # ZeroDate
         /\ \A q \in Post : Printed(q) /\ p.at <= q.at => p.date <= q.date
<1>1. p.at \in Nat /\ Granule \in Nat \ {0}
  BY CrawlAssumption DEF Post
<1>2. p.date \in Nat /\ p.at % Granule \in 0..(Granule - 1)
  BY <1>1, Rounding DEF Printed
<1>3. p.date <= p.at
  BY <1>1, <1>2 DEF Printed
<1>4. \A q \in Post : Printed(q) /\ p.at <= q.at => p.date <= q.date
  <2> SUFFICES ASSUME NEW q \in Post, Printed(q), p.at <= q.at PROVE p.date <= q.date
    OBVIOUS
  <2>1. q.at \in Nat
    BY DEF Post
  <2> QED
    BY <1>1, <2>1, RoundingIsMonotone DEF Printed
<1> QED
  BY <1>1, <1>2, <1>3, <1>4 DEF ZeroDate

(* A page as it is listed now makes a sound entry. *)
LEMMA RowsAreSound ==
  ASSUME CrawlTypeOK, Tidy(listing, clock), NEW p \in Nat \ {0},
         NEW i \in 1..Len(Rows(p))
  PROVE  /\ Rows(p)[i].at <= clock
         /\ \A j \in 1..(i - 1) : Rows(p)[i].at < Rows(p)[j].at
         /\ Covers(listing, p, i, OlderThan(Rows(p)[i]), {})
         /\ \E q \in 1..Len(listing) : HasRow(listing[q]) /\ Rows(p)[i] = listing[q]
<1> DEFINE K == RowSlots(listing, p)
<1>1. listing \in Seq(Slots) /\ clock \in Nat /\ Len(listing) \in Nat
  BY DEF CrawlTypeOK, Slots
<1>2. /\ Len(Rows(p)) = Cardinality(K) /\ Cardinality(K) \in Nat
      /\ \A h \in 1..Len(Rows(p)) :
           \E n \in K : Rank(K, n) = h /\ Rows(p)[h] = listing[n]
  BY RowAt
<1>3. /\ K \in SUBSET (1..Len(listing))
      /\ \A n \in 1..Len(listing) :
           listing[n] \in Post => (n \in K <=> (p - 1) * PageRows < n /\ n <= p * PageRows)
      /\ \A n \in K : /\ listing[n] \in Post /\ HasRow(listing[n])
                      /\ (p - 1) * PageRows < n /\ n <= p * PageRows
  BY <1>1, RowIsSlot
<1>4. (p - 1) * PageRows \in Nat /\ p * PageRows \in Nat
  BY Borders
<1> HIDE DEF K
<1>5. /\ \A m, n \in Nat : m <= n => Rank(K, m) <= Rank(K, n)
      /\ \A m \in Nat, n \in K : m < n => Rank(K, m) < Rank(K, n)
      /\ \A n \in Nat : Rank(K, n) \in 0..Cardinality(K)
  BY <1>1, <1>3, Ranks
<1>6. PICK q \in K : Rank(K, q) = i /\ Rows(p)[i] = listing[q]
  BY <1>2
<1>7. q \in 1..Len(listing) /\ q \in Nat /\ listing[q] \in Post /\ HasRow(listing[q]) /\ i \in Nat
  BY <1>1, <1>2, <1>3, <1>6
<1>8. listing[q].at <= clock /\ \A m \in 1..(q - 1) : HasRow(listing[m]) => listing[q].at < listing[m].at
  BY <1>7 DEF Tidy
<1>9. ASSUME NEW j \in 1..(i - 1) PROVE Rows(p)[i].at < Rows(p)[j].at
  <2>1. j \in 1..Len(Rows(p)) /\ j < i
    BY <1>2
  <2>2. PICK r \in K : Rank(K, r) = j /\ Rows(p)[j] = listing[r]
    BY <1>2, <2>1
  <2>3. r \in 1..Len(listing) /\ r \in Nat /\ HasRow(listing[r])
    BY <1>1, <1>3, <2>2
  <2>4. ~(q <= r)
    BY <1>5, <1>6, <1>7, <2>1, <2>2, <2>3
  <2>5. r \in 1..(q - 1)
    BY <1>1, <1>7, <2>3, <2>4
  <2> QED
    BY <1>6, <1>8, <2>2, <2>3, <2>5
<1>10. Covers(listing, p, i, OlderThan(Rows(p)[i]), {})
  <2> SUFFICES ASSUME NEW n \in Behind(listing, p, i), listing[n] \in OlderThan(listing[q])
               PROVE  FALSE
    BY <1>6 DEF Covers
  <2>1. n \in 1..Len(listing) /\ n <= p * PageRows /\ Rank(K, n) <= i
    BY BehindIsRanked DEF K
  <2>2. listing[n] \in Post /\ listing[n].at < listing[q].at
    BY DEF OlderThan
  <2>3. listing[n].at \in Nat /\ listing[q].at \in Nat /\ n \in Nat
    BY <1>1, <1>7, <2>1, <2>2 DEF Post
  <2>4. ~(n <= q)
    <3> SUFFICES ASSUME n <= q PROVE FALSE
      OBVIOUS
    <3>1. n # q
      BY <2>2, <2>3
    <3>2. n \in 1..(q - 1)
      BY <1>7, <2>1, <2>3, <3>1
    <3>3. HasRow(listing[n])
      BY <2>2, CrawlAssumption DEF HasRow
    <3> QED
      BY <1>8, <2>2, <2>3, <3>2, <3>3
  <2>5. n \in K
    <3>1. (p - 1) * PageRows < n
      BY <1>3, <1>4, <1>6, <1>7, <2>3, <2>4
    <3> QED
      BY <1>3, <2>1, <2>2, <3>1
  <2>6. Rank(K, q) < Rank(K, n) /\ Rank(K, n) \in Nat
    BY <1>5, <1>7, <2>3, <2>4, <2>5
  <2> QED
    BY <1>6, <1>7, <2>1, <2>6
<1> QED
  BY <1>6, <1>7, <1>8, <1>9, <1>10

(* A fetched page is sound to be cached, and a cached one stays sound when   *)
(* a post is listed.                                                         *)
LEMMA FetchedIsSound ==
  ASSUME CrawlTypeOK, SourceIsSound, NEW e \in Entry, e.page \in Nat \ {0}, e.rows = Rows(e.page)
  PROVE  EntryIsSound(e)
<1> DEFINE p == e.page
           rows == Rows(p)
<1>0. rows \in Seq(Post) /\ Len(rows) \in Nat /\ listing \in Seq(Slots) /\ Tidy(listing, clock)
  BY RowsArePosts DEF CrawlTypeOK, Slots, SourceIsSound
<1>1. ASSUME NEW i \in 1..Len(rows)
      PROVE  /\ Printed(rows[i]) /\ rows[i].at <= clock
             /\ \A j \in 1..(i - 1) : rows[i].at < rows[j].at
             /\ Covers(listing, p, i, OlderThan(rows[i]), {})
  BY <1>0, RowsAreSound DEF SourceIsSound
<1>2. rows # <<>> => Covers(listing, p + 1, 0, OlderThan(rows[Len(rows)]), {})
  <2> SUFFICES ASSUME rows # <<>> PROVE Covers(listing, p + 1, 0, OlderThan(rows[Len(rows)]), {})
    OBVIOUS
  <2>1. Len(rows) \in 1..Len(rows)
    BY <1>0
  <2>2. Covers(listing, p, Len(rows), OlderThan(rows[Len(rows)]), {})
    BY <1>1, <2>1
  <2>3. Cardinality(RowSlots(listing, p)) = Len(rows)
    BY RowAt
  <2>4. Cardinality(RowSlots(listing, p)) <= Len(rows)
    BY <1>0, <2>3
  <2>5. OlderThan(rows[Len(rows)]) \in SUBSET Post
    BY DEF OlderThan
  <2> HIDE DEF p, rows
  <2> QED
    BY <1>0, <2>2, <2>4, <2>5, PageTurn DEF p
<1>3. p > 0
  OBVIOUS
<1> QED
  BY <1>1, <1>2, <1>3 DEF EntryIsSound

LEMMA EntryShifted ==
  ASSUME CrawlTypeOK, NEW e \in Entry, EntryIsSound(e),
         NEW x \in Post, x.at = clock + 1, listing' = <<x>> \o listing, clock' = clock + 1
  PROVE  EntryIsSound(e)'
<1>0. /\ e.rows \in Seq(Post) /\ Len(e.rows) \in Nat /\ listing \in Seq(Slots) /\ clock \in Nat
      /\ e.page \in Nat \ {0} /\ e.page + 1 \in Nat \ {0} /\ 0 \in Nat
  BY DEF CrawlTypeOK, Slots, Entry, EntryIsSound
<1>1. ASSUME NEW k \in 1..Len(e.rows)
      PROVE  /\ e.rows[k].at <= clock + 1 /\ OlderThan(e.rows[k]) \in SUBSET Post
             /\ x \notin OlderThan(e.rows[k]) /\ k \in Nat
  <2>a. e.rows[k] \in Post /\ e.rows[k].at <= clock
    BY <1>0 DEF EntryIsSound
  <2>1. e.rows[k].at \in Nat /\ e.rows[k].at <= clock
    BY <2>a DEF Post
  <2> QED
    BY <1>0, <2>1 DEF OlderThan
<1>2. ASSUME NEW k \in 1..Len(e.rows)
      PROVE  Covers(listing', e.page, k, OlderThan(e.rows[k]), {})
  <2>1. Covers(listing, e.page, k, OlderThan(e.rows[k]), {})
    BY DEF EntryIsSound
  <2> QED
    BY <1>0, <1>1, <2>1, CoversShifted
<1>3. e.rows # <<>> => Covers(listing', e.page + 1, 0, OlderThan(e.rows[Len(e.rows)]), {})
  <2> SUFFICES ASSUME e.rows # <<>>
               PROVE  Covers(listing', e.page + 1, 0, OlderThan(e.rows[Len(e.rows)]), {})
    OBVIOUS
  <2>1. Len(e.rows) \in 1..Len(e.rows)
    BY <1>0
  <2>2. Covers(listing, e.page + 1, 0, OlderThan(e.rows[Len(e.rows)]), {})
    BY DEF EntryIsSound
  <2> QED
    BY <1>0, <1>1, <2>1, <2>2, CoversShifted
<1>4. e.page > 0 /\ \A k \in 1..Len(e.rows) :
        Printed(e.rows[k]) /\ \A j \in 1..(k - 1) : e.rows[k].at < e.rows[j].at
  BY DEF EntryIsSound
<1> QED
  BY <1>1, <1>2, <1>3, <1>4 DEF EntryIsSound, Printed, OlderThan

(* A round on an outdated page: the walk has what is not older than a row    *)
(* that it takes, beside what the page conceals.                             *)
LEMMA OutdatedCovers ==
  ASSUME CrawlTypeOK, FetchPage, walk.cutoff = 0,
         NEW e \in Entry, EntryIsSound(e), e.page = walk.page, e.rows = Fetched(walk.page),
         NEW X \in SUBSET Post, NEW S, WalkCovers(listing, walk, X, S), NEW T, S \subseteq T,
         \A n \in 1..Len(listing) :
           /\ listing[n] \in X
           /\ e.rows # <<>> => e.rows[Len(e.rows)].at <= listing[n].at
           /\ \A i \in 1..Len(Rest(e.rows)) : listing[n] # Rest(e.rows)[i]
           => listing[n] \in T \cup Posts(walk)
  PROVE  WalkCovers(listing, walk', X, T)
<1> DEFINE p == walk.page
           rows == e.rows
           start == Start(rows)
           had == Len(walk.posts)
<1>1. /\ walk.pc = "walk" /\ p \in Nat \ {0} /\ rows \in Seq(Post) /\ UsePage(rows)
      /\ Len(rows) \in Nat
  BY FetchServes
<1>2. PICK k \in Nat : Outcome(rows, k)
  BY <1>1, PageOutcome
<1>3. /\ start + k <= Len(rows) /\ Len(walk'.posts) = had + k
      /\ \A i \in 1..had : walk'.posts[i] = walk.posts[i]
      /\ \A i \in 1..k : walk'.posts[had + i] = rows[start + i]
      /\ walk'.cutoff = walk.cutoff
      /\ \/ /\ walk'.pc = "done" /\ ~walk'.more
            /\ start + k < Len(rows) /\ OutOfWindow(rows[start + k + 1])
         \/ walk'.pc = "done" /\ ~walk'.more /\ rows = <<>>
         \/ /\ walk'.pc = "done" /\ walk'.more /\ k > 0
            /\ walk'.cursor = <<p, start + k>>
         \/ /\ walk'.pc = "done" /\ walk'.more /\ start + k = Len(rows)
            /\ walk'.cursor = <<p, 0>>
         \/ /\ walk'.pc = "walk" /\ start + k = Len(rows)
            /\ walk'.page = p + 1 /\ walk'.skip = 0
  BY <1>2 DEF Outcome
<1>4. /\ start \in 0..Len(rows) /\ start + Len(Rest(rows)) = Len(rows)
      /\ Len(Rest(rows)) \in Nat
      /\ \A i \in 1..Len(Rest(rows)) : Rest(rows)[i] = rows[start + i]
  BY <1>1, RestOfPage
<1>5. /\ walk.posts \in Seq(Post) /\ had \in Nat /\ listing \in Seq(Slots) /\ Len(listing) \in Nat
  BY DEF CrawlTypeOK, WalkIsTyped, Walk, Slots
<1>6. \A i \in 1..Len(rows) : rows[i].at \in Nat
  <2>1. \A i \in 1..Len(rows) : rows[i] \in Post
    BY <1>1
  <2> QED
    BY <2>1 DEF Post
<1>7. /\ \A i \in 1..Len(rows) : /\ \A j \in 1..(i - 1) : rows[i].at < rows[j].at
                                 /\ Covers(listing, p, i, OlderThan(rows[i]), {})
      /\ rows # <<>> => Covers(listing, p + 1, 0, OlderThan(rows[Len(rows)]), {})
  BY DEF EntryIsSound
<1>8. ~OutOfWindow(rows[start + k + 1]) \/ ~(start + k < Len(rows))
  <2> SUFFICES ASSUME start + k < Len(rows), OutOfWindow(rows[start + k + 1]) PROVE FALSE
    OBVIOUS
  <2>1. start + k + 1 \in 1..Len(rows)
    <3> HIDE DEF rows, start
    <3> QED
      BY <1>1, <1>4
  <2> DEFINE q == rows[start + k + 1]
  <2>2. q \in Post /\ q.date # ZeroDate /\ q.date < 0
    BY <1>1, <2>1 DEF OutOfWindow
  <2> HIDE DEF q
  <2> QED
    BY <2>2 DEF Post
<1>9. \A n \in 1..Len(listing) :
        /\ listing[n] \in X
        /\ rows # <<>> => rows[Len(rows)].at <= listing[n].at
        /\ \A i \in 1..Len(Rest(rows)) : listing[n] # Rest(rows)[i]
        => listing[n] \in T \cup Posts(walk)
  OBVIOUS
<1> HIDE DEF rows, start, p
<1>10. ASSUME NEW i \in 0..k, NEW n \in 1..Len(listing), listing[n] \in X,
              rows # <<>> => rows[Len(rows)].at <= listing[n].at,
              i > 0 => rows[start + i].at <= listing[n].at,
              i = 0 => start = Len(rows)
       PROVE  listing[n] \in T \cup Front(walk', had + i)
  <2>1. \A h \in 1..had : h \in 1..(had + i) /\ walk'.posts[h] = walk.posts[h]
    BY <1>3, <1>5
  <2>2. Posts(walk) = {walk.posts[h] : h \in 1..had}
    BY DEF Posts, Front
  <2>3. Front(walk', had + i) = {walk'.posts[h] : h \in 1..(had + i)}
    BY DEF Front
  <2>4. CASE listing[n] \in T \cup Posts(walk)
    <3> HIDE DEF had
    <3> QED
      BY <2>1, <2>2, <2>3, <2>4
  <2>5. CASE \E j \in 1..Len(Rest(rows)) : listing[n] = Rest(rows)[j]
    <3>1. PICK j \in 1..Len(Rest(rows)) : listing[n] = Rest(rows)[j]
      BY <2>5
    <3>2. /\ listing[n] = rows[start + j] /\ start + j \in 1..Len(rows) /\ j \in Nat
          /\ start + i \in Nat /\ start \in Nat /\ i \in Nat
      BY <1>1, <1>4, <3>1
    <3>3. j <= i
      <4> SUFFICES ASSUME i < j PROVE FALSE
        BY <3>2
      <4>1. i > 0
        BY <1>4, <1>10, <3>2
      <4>2. start + i \in 1..(start + j - 1) /\ start + i \in 1..Len(rows)
        BY <1>1, <3>2, <4>1
      <4>3. rows[start + j].at < rows[start + i].at
        BY <1>7, <3>2, <4>2
      <4>4. rows[start + i].at <= rows[start + j].at
        BY <1>10, <3>2, <4>1
      <4>5. rows[start + i].at \in Nat /\ rows[start + j].at \in Nat
        BY <1>6, <3>2, <4>2
      <4> QED
        BY <4>3, <4>4, <4>5
    <3>4. j \in 1..k /\ had + j \in 1..(had + i)
      BY <1>5, <3>2, <3>3
    <3>5. walk'.posts[had + j] = rows[start + j]
      BY <1>3, <3>4
    <3> HIDE DEF had
    <3> QED
      BY <2>3, <3>2, <3>4, <3>5
  <2>6. \/ listing[n] \in T \cup Posts(walk)
        \/ \E j \in 1..Len(Rest(rows)) : listing[n] = Rest(rows)[j]
    BY <1>9, <1>10
  <2> QED
    BY <2>4, <2>5, <2>6
<1>11. Front(walk', had + k) = Posts(walk') /\ k \in 0..k
  BY <1>3 DEF Posts
<1>12. ASSUME NEW i \in 1..Len(rows) PROVE rows[Len(rows)].at <= rows[i].at
  <2>1. rows[i].at \in Nat /\ Len(rows) \in 1..Len(rows)
    BY <1>1, <1>6
  <2>2. CASE i = Len(rows)
    BY <2>1, <2>2
  <2>3. CASE i # Len(rows)
    <3>1. i \in 1..(Len(rows) - 1)
      BY <1>1, <2>3
    <3>2. rows[Len(rows)].at < rows[i].at /\ rows[Len(rows)].at \in Nat
      BY <1>6, <1>7, <2>1, <3>1
    <3> QED
      BY <2>1, <3>2
  <2> QED
    BY <2>2, <2>3
<1>13. ASSUME NEW n \in 1..Len(listing), listing[n] \in X, rows # <<>>, NEW i \in 1..Len(rows),
              rows[i].at <= listing[n].at
       PROVE  rows[Len(rows)].at <= listing[n].at
  <2>1. listing[n].at \in Nat
    <3>1. listing[n] \in Post
      BY <1>13
    <3> QED
      BY <3>1 DEF Post
  <2>2. /\ rows[Len(rows)].at <= rows[i].at /\ rows[i].at \in Nat
        /\ rows[Len(rows)].at \in Nat
    <3>1. Len(rows) \in 1..Len(rows)
      BY <1>1
    <3> QED
      BY <1>6, <1>12, <3>1
  <2> QED
    BY <1>13, <2>1, <2>2
<1>14. ASSUME NEW q, NEW j, NEW r \in Post, Covers(listing, q, j, OlderThan(r), {}),
              NEW n \in Behind(listing, q, j), listing[n] \in X
       PROVE  n \in 1..Len(listing) /\ r.at <= listing[n].at
  <2>1. n \in 1..Len(listing) /\ listing[n] \notin OlderThan(r) /\ listing[n] \in Post
    BY <1>14 DEF Behind, Covers
  <2>2. listing[n].at \in Nat /\ r.at \in Nat /\ ~(listing[n].at < r.at)
    BY <2>1 DEF OlderThan, Post
  <2> QED
    BY <2>1, <2>2
<1>15. k > 0 => Covers(listing, p, start + k, X, T \cup Posts(walk'))
  <2> SUFFICES ASSUME k > 0, NEW n \in Behind(listing, p, start + k), listing[n] \in X
               PROVE  listing[n] \in T \cup Posts(walk')
    BY DEF Covers
  <2>1. start + k \in 1..Len(rows) /\ rows # <<>> /\ rows[start + k] \in Post
    <3>1. start + k \in 1..Len(rows)
      BY <1>1, <1>3, <1>4
    <3> QED
      BY <1>1, <3>1
  <2>2. Covers(listing, p, start + k, OlderThan(rows[start + k]), {})
    BY <1>7, <2>1
  <2>3. n \in 1..Len(listing) /\ rows[start + k].at <= listing[n].at
    BY <1>14, <2>1, <2>2
  <2>4. rows[Len(rows)].at <= listing[n].at
    BY <1>13, <2>1, <2>3
  <2> QED
    BY <1>10, <1>11, <2>3, <2>4
<1>16. start + k = Len(rows) => Covers(listing, p + 1, 0, X, T \cup Posts(walk'))
  <2> SUFFICES ASSUME start + k = Len(rows), NEW n \in Behind(listing, p + 1, 0), listing[n] \in X
               PROVE  listing[n] \in T \cup Posts(walk')
    BY DEF Covers
  <2>1. n \in 1..Len(listing)
    BY DEF Behind
  <2>2. rows # <<>> => rows[Len(rows)].at <= listing[n].at
    <3> SUFFICES ASSUME rows # <<>> PROVE rows[Len(rows)].at <= listing[n].at
      OBVIOUS
    <3>1. rows[Len(rows)] \in Post
      BY <1>1
    <3> QED
      BY <1>7, <1>14, <3>1
  <2>3. k > 0 => rows[start + k].at <= listing[n].at
    <3> SUFFICES ASSUME k > 0 PROVE rows[start + k].at <= listing[n].at
      OBVIOUS
    <3>1. rows # <<>>
      BY <1>1, <1>4
    <3> QED
      BY <2>2, <3>1
  <2>4. k = 0 => start = Len(rows)
    BY <1>4
  <2> QED
    BY <1>10, <1>11, <2>1, <2>2, <2>3, <2>4
<1>17. walk'.pc = "walk" => Covers(listing, walk'.page, walk'.skip, X, T \cup Posts(walk'))
  BY <1>3, <1>16
<1>18. walk'.pc = "done" /\ walk'.more => CursorCovers(listing, walk'.cursor, X, T \cup Posts(walk'))
  <2>1. ASSUME k > 0, walk'.cursor = <<p, start + k>>
        PROVE  CursorCovers(listing, walk'.cursor, X, T \cup Posts(walk'))
    <3>1. start + k # 0
      BY <1>4, <2>1
    <3>2. FirstPage(walk'.cursor) = p /\ walk'.cursor[2] = start + k
      BY <2>1, <3>1 DEF FirstPage
    <3> QED
      BY <1>15, <2>1, <3>2 DEF CursorCovers
  <2>2. ASSUME start + k = Len(rows), walk'.cursor = <<p, 0>>
        PROVE  CursorCovers(listing, walk'.cursor, X, T \cup Posts(walk'))
    <3>1. FirstPage(walk'.cursor) = p + 1 /\ walk'.cursor[2] = 0
      BY <2>2 DEF FirstPage
    <3> QED
      BY <1>16, <2>2, <3>1 DEF CursorCovers
  <2> QED
    BY <1>3, <2>1, <2>2
<1>19. ASSUME walk'.pc = "done", ~walk'.more, NEW n \in 1..Len(listing), listing[n] \in X
       PROVE  listing[n] \in T \cup Posts(walk')
  <2>1. rows = <<>>
    BY <1>3, <1>8, <1>19
  <2>2. Len(rows) = 0
    BY <2>1
  <2>3. k = 0 /\ start = Len(rows)
    BY <1>3, <1>4, <2>2
  <2> QED
    BY <1>10, <1>11, <1>19, <2>1, <2>3
<1>20. ASSUME NEW h \in 1..Len(walk'.posts), NEW n \in 1..Len(listing), listing[n] \in X,
              walk'.posts[h].at <= listing[n].at
       PROVE  listing[n] \in T \cup Front(walk', h)
  <2>1. CASE h \in 1..had
    <3>1. walk'.posts[h] = walk.posts[h]
      BY <1>3, <2>1
    <3>2. listing[n] \in S \cup Front(walk, h)
      BY <1>20, <2>1, <3>1 DEF WalkCovers
    <3>a. \A i \in 1..h : i \in 1..had
      BY <1>5, <2>1
    <3>3. \A i \in 1..h : walk'.posts[i] = walk.posts[i]
      BY <1>3, <3>a
    <3>4. Front(walk', h) = Front(walk, h)
      BY <3>3 DEF Front
    <3> QED
      BY <3>2, <3>4
  <2>2. CASE h \notin 1..had
    <3> DEFINE i == h - had
    <3>1. i \in 1..k /\ i \in 0..k /\ i > 0 /\ had + i = h
      BY <1>3, <1>5, <2>2
    <3>2. walk'.posts[h] = rows[start + i] /\ start + i \in 1..Len(rows)
      <4>1. walk'.posts[had + i] = rows[start + i]
        BY <1>3, <3>1
      <4>2. start + i \in 1..Len(rows)
        <5> HIDE DEF i, had
        <5> QED
          BY <1>1, <1>3, <1>4, <3>1
      <4> QED
        BY <3>1, <4>1, <4>2
    <3> HIDE DEF i
    <3>3. rows # <<>>
      <4>1. Len(rows) > 0
        BY <1>1, <3>2
      <4> QED
        BY <4>1
    <3>4. rows[start + i].at <= listing[n].at
      BY <1>20, <3>2
    <3>5. rows[Len(rows)].at <= listing[n].at
      BY <1>13, <1>20, <3>2, <3>3, <3>4
    <3>6. listing[n] \in T \cup Front(walk', had + i)
      BY <1>10, <1>20, <3>1, <3>4, <3>5
    <3> QED
      BY <3>1, <3>6
  <2> QED
    BY <2>1, <2>2
<1> QED
  BY <1>17, <1>18, <1>19, <1>20 DEF WalkCovers

LEMMA AcceptedHas ==
  ASSUME TypeOK, NEW k \in 1..Len(AboveFloor), NotAfterStart(AboveFloor[k])
  PROVE  \E i \in 1..Len(Accepted) : Accepted[i] = AboveFloor[k]
<1> DEFINE s == AboveFloor
           K == {n \in 1..Len(s) : NotAfterStart(s[n])}
<1>1. s \in Seq(Post)
  BY AboveFloorIsFront
<1>2. K \in SUBSET (1..Len(s)) /\ Accepted = Subsequence(s, K) /\ k \in K
  BY DEF Accepted
<1> HIDE DEF s, K
<1>3. /\ Len(Subsequence(s, K)) = Cardinality(K)
      /\ Rank(K, k) \in 1..Cardinality(K) /\ Subsequence(s, K)[Rank(K, k)] = s[k]
  BY <1>1, <1>2, SubsequenceAt
<1> QED
  BY <1>2, <1>3 DEF s

LEMMA CoversMore ==
  ASSUME NEW l, NEW c, NEW X, NEW S, NEW T, CursorCovers(l, c, X, S),
         \A n \in 1..Len(l) : l[n] \in X /\ l[n] \in S => l[n] \in T
  PROVE  CursorCovers(l, c, X, T)
<1>1. \A n \in Behind(l, FirstPage(c), c[2]) : n \in 1..Len(l)
  BY DEF Behind
<1> QED
  BY <1>1 DEF CursorCovers, Covers

LEMMA NoWalkCovers ==
  ASSUME NEW l, NEW w, w.posts = <<>>, w.pc \notin {"walk", "done"}, NEW X, NEW S
  PROVE  WalkCovers(l, w, X, S)
<1>1. 1..Len(w.posts) = {}
  BY NoPosts
<1> QED
  BY <1>1 DEF WalkCovers

LEMMA WantedArePosts == Wanted \subseteq Post
BY DEF Wanted

(* What the proofs below read of CompleteInv. *)
LEMMA CompleteFacts ==
  ASSUME CompleteInv
  PROVE  /\ TriggerInv /\ TypeOK /\ CrawlTypeOK /\ SourceIsSound /\ PassCovers
         /\ CacheIsSound /\ MarksAreSound /\ cache \subseteq Entry
         /\ WatermarkIsComplete /\ state \in State /\ walk \in Walk /\ clock \in Nat
         /\ listing \in Seq(Slots) /\ poll.posts \in Seq(Post) /\ WalkIsTyped(walk)
         /\ state.floor \in Int /\ state.started \in Int /\ state.lastSeen \in Int
         /\ origin \in Int /\ state.cursor \in Cursors
         /\ state.lastSeen \in -1..clock
         /\ state.started # None => state.started \in 0..clock
BY DEF CompleteInv, TriggerInv, TypeOK, CrawlTypeOK, WalkIsTyped, State, Slots, PassIsSound

LEMMA ListedArePrinted ==
  ASSUME CrawlTypeOK, SourceIsSound, NEW p \in Listed
  PROVE  p \in Post /\ Printed(p)
<1>1. PICK n \in 1..Len(listing) : p = listing[n] /\ p # Blank
  BY DEF Listed
<1> QED
  BY <1>1, ListedArePosts DEF SourceIsSound, HasRow

(* What was accounted for stays so. *)
LEMMA AccountedStays ==
  ASSUME NEW p, Accounted(p), Emitted \subseteq Emitted', thrown \subseteq thrown',
         hidden \subseteq hidden', marks \subseteq marks', origin' = origin
  PROVE  Accounted(p)'
BY DEF Accounted, RoundedAway

LEMMA SoundEntryStays ==
  ASSUME CrawlTypeOK, NEW e \in Entry, EntryIsSound(e), listing' = listing,
         clock' \in Nat, clock <= clock'
  PROVE  EntryIsSound(e)'
<1>0. e.rows \in Seq(Post) /\ clock \in Nat
  BY DEF Entry, CrawlTypeOK
<1>1. ASSUME NEW k \in 1..Len(e.rows) PROVE e.rows[k].at <= clock'
  <2>1. e.rows[k] \in Post /\ e.rows[k].at <= clock
    BY <1>0 DEF EntryIsSound
  <2> QED
    BY <1>0, <2>1 DEF Post
<1> QED
  BY <1>1 DEF EntryIsSound, Printed, OlderThan

LEMMA CompleteBegins ==
  ASSUME TidyListings, DatesParse, Init
  PROVE  CompleteInv
<1>1. /\ state = NoState /\ poll = NoPoll /\ emitted = {} /\ thrown = {} /\ origin = None
      /\ hidden = {} /\ marks = {}
      /\ listing \in Listings /\ clock = Len(listing) /\ cache = {} /\ walk = NoWalk
  BY DEF Init, CrawlInit
<1>2. TriggerInv
  BY InitTrigger
<1>3. walk.cutoff = 0 /\ walk.posts = <<>> /\ 1..Len(walk.posts) = {}
  <2>1. walk.cutoff = 0 /\ walk.posts = <<>>
    BY <1>1 DEF NoWalk
  <2> QED
    BY <2>1, NoPosts
<1>4. poll.posts = <<>>
  BY <1>1, NoPollIsTyped
<1>5. SourceIsSound
  BY <1>1, <1>3, <1>4 DEF SourceIsSound, TidyListings, DatesParse
<1>6. state.started = None /\ state.lastSeen = None /\ clock \in Nat
  BY <1>1, <1>2, NoStateIsTyped DEF TriggerInv, TypeOK, CrawlTypeOK
<1>7. PassCovers /\ CacheIsSound
  BY <1>1, <1>6 DEF PassCovers, CacheIsSound
<1>8. MarksAreSound
  BY <1>1, <1>6 DEF MarksAreSound, None
<1>9. WatermarkIsComplete
  <2> SUFFICES ASSUME NEW p \in Listed, p.at <= state.lastSeen PROVE FALSE
    BY DEF WatermarkIsComplete, Vouched
  <2>1. p.at \in Nat
    BY <1>2, ListedArePosts DEF TriggerInv, TypeOK, Post
  <2> QED
    BY <1>6, <2>1 DEF None
<1> QED
  BY <1>2, <1>5, <1>7, <1>8, <1>9 DEF CompleteInv

(* The rows a round is served are those of a sound entry: a cached one, or    *)
(* the one that would be made of the page as it is listed now.               *)
LEMMA ServedIsSound ==
  ASSUME CrawlTypeOK, SourceIsSound, CacheIsSound, FetchPage
  PROVE  \E e \in Entry : EntryIsSound(e) /\ e.page = walk.page /\ e.rows = Fetched(walk.page)
<1> DEFINE p == walk.page
<1>1. p \in Nat \ {0} /\ Rows(p) \in Seq(Post) /\ cache \subseteq Entry
  BY FetchServes DEF CrawlTypeOK
<1>2. CASE Fresh(p) = {}
  <2> DEFINE e == [page |-> p, rows |-> Rows(p), expires |-> 0]
  <2>1. e \in Entry /\ e.page = p /\ e.rows = Rows(p)
    BY <1>1 DEF Entry
  <2>2. Fetched(p) = Rows(p)
    BY <1>2 DEF Fetched
  <2> HIDE DEF e
  <2>3. EntryIsSound(e)
    BY <1>1, <2>1, FetchedIsSound
  <2> QED
    BY <2>1, <2>2, <2>3
<1>3. CASE Fresh(p) # {}
  <2> DEFINE e == CHOOSE e \in Fresh(p) : TRUE
  <2>1. e \in Fresh(p) /\ Fetched(p) = e.rows
    BY <1>3 DEF Fetched
  <2> HIDE DEF e
  <2>2. e \in cache /\ e.page = p
    BY <2>1 DEF Fresh
  <2> QED
    BY <1>1, <2>1, <2>2 DEF CacheIsSound
<1> QED
  BY <1>2, <1>3

LEMMA CacheStaysSound ==
  ASSUME CrawlTypeOK, SourceIsSound, CacheIsSound, FetchPage
  PROVE  CacheIsSound'
<1> DEFINE p == walk.page
           f == [page |-> p, rows |-> Rows(p), expires |-> clock + TTL]
<1>1. /\ p \in Nat \ {0} /\ Rows(p) \in Seq(Post) /\ cache \subseteq Entry /\ clock \in Nat
      /\ cache' = CacheAfter(p) /\ listing' = listing /\ clock' = clock
  BY FetchServes DEF CrawlTypeOK
<1>2. clock <= clock' /\ clock' \in Nat
  BY <1>1
<1>3. f \in Entry /\ f.page = p /\ f.rows = Rows(p)
  BY <1>1, CrawlAssumption DEF Entry
<1>4. cache' \subseteq cache \cup {f}
  BY <1>1 DEF CacheAfter
<1> HIDE DEF f
<1>5. EntryIsSound(f)
  BY <1>1, <1>3, FetchedIsSound
<1>6. ASSUME NEW e \in cache' PROVE EntryIsSound(e)'
  <2>1. e \in Entry /\ EntryIsSound(e)
    BY <1>1, <1>3, <1>4, <1>5 DEF CacheIsSound
  <2> QED
    BY <1>1, <1>2, <2>1, SoundEntryStays
<1> QED
  BY <1>6 DEF CacheIsSound

(* A round serves the page as it is listed, or what the outdated page keeps   *)
(* from the pass is put among the hidden.                                    *)
LEMMA FetchAccounts ==
  ASSUME CompleteInv, Fetch, state.started # None, UNCHANGED <<state, poll, emitted, thrown>>
  PROVE  WalkCovers(listing, walk', Wanted, Brought')
<1>1. /\ CrawlTypeOK /\ SourceIsSound /\ CacheIsSound /\ PassCovers /\ FetchPage
      /\ Tidy(listing, clock) /\ walk.cutoff = 0 /\ listing \in Seq(Slots)
  BY CompleteFacts DEF SourceIsSound, Fetch
<1>2. WalkCovers(listing, walk, Wanted, Brought) /\ Wanted \in SUBSET Post
  BY <1>1, WantedArePosts DEF PassCovers
<1>3. CASE Fetched(walk.page) = Rows(walk.page)
  <2>1. hidden' = hidden
    BY <1>3 DEF Fetch
  <2>2. Brought' = Brought
    BY <2>1 DEF Brought, Emitted
  <2> QED
    BY <1>1, <1>2, <1>3, <2>2, FetchCovers
<1>4. CASE Fetched(walk.page) # Rows(walk.page)
  <2>1. hidden' = hidden \cup Concealed(Fetched(walk.page))
    BY <1>4 DEF Fetch
  <2>2. PICK e \in Entry : /\ EntryIsSound(e) /\ e.page = walk.page
                           /\ e.rows = Fetched(walk.page)
    BY <1>1, ServedIsSound
  <2>3. Brought \subseteq Brought' /\ Concealed(e.rows) \subseteq Brought'
    BY <2>1, <2>2 DEF Brought, Emitted
  <2>4. ASSUME NEW n \in 1..Len(listing), listing[n] \in Wanted,
               e.rows # <<>> => e.rows[Len(e.rows)].at <= listing[n].at,
               \A i \in 1..Len(Rest(e.rows)) : listing[n] # Rest(e.rows)[i]
        PROVE  listing[n] \in Brought' \cup Posts(walk)
    <3>1. CASE listing[n] \in Brought \cup Posts(walk)
      BY <2>3, <3>1
    <3>2. CASE listing[n] \notin Brought \cup Posts(walk)
      <4>1. listing[n] # Blank
        BY <1>2, <2>4, CrawlAssumption
      <4>2. listing[n] \in Listed
        BY <4>1 DEF Listed
      <4>3. listing[n] \in Concealed(e.rows)
        BY <2>4, <3>2, <4>2 DEF Concealed
      <4> QED
        BY <2>3, <4>3
    <3> QED
      BY <3>1, <3>2
  <2> QED
    BY <1>1, <1>2, <2>2, <2>3, <2>4, OutdatedCovers
<1> QED
  BY <1>3, <1>4

LEMMA CompleteEngine ==
  ASSUME CompleteInv, Engine
  PROVE  CompleteInv'
<1>1. UNCHANGED <<state, poll, emitted, thrown, marks, origin, resets>>
  BY DEF Engine
<1>2. /\ TriggerInv /\ CrawlTypeOK /\ SourceIsSound /\ PassCovers /\ WatermarkIsComplete
      /\ CacheIsSound /\ MarksAreSound /\ cache \subseteq Entry /\ clock \in Nat
  BY CompleteFacts
<1>3. TriggerInv'
  BY <1>2, EngineKeeps
<1>4. Emitted' = Emitted /\ Wanted' = Wanted
  BY <1>1 DEF Emitted, Wanted
<1>5. listing' = listing /\ clock' = clock /\ Listed' = Listed
  BY DEF Engine, Fetch, FetchPage, FetchFail, Listed
<1>6. hidden \subseteq hidden' /\ Brought \subseteq Brought'
  <2>1. hidden \subseteq hidden'
    BY DEF Engine, Fetch
  <2> QED
    BY <1>1, <1>4, <2>1 DEF Brought
<1>7. \A p : Accounted(p) => Accounted(p)'
  BY <1>1, <1>4, <1>6, AccountedStays
<1>8. WatermarkIsComplete'
  <2>1. Vouched' = Vouched
    BY <1>1, <1>5 DEF Vouched
  <2> QED
    BY <1>2, <1>7, <2>1 DEF WatermarkIsComplete
<1>9. MarksAreSound'
  BY <1>1, <1>2, <1>5 DEF MarksAreSound
<1>10. walk.pc = "walk" /\ poll.pc = "wait"
  <2>1. walk.pc = "walk"
    BY DEF Engine, Fetch, FetchPage, FetchFail, Walked
  <2>2. walk # NoWalk
    BY <2>1 DEF NoWalk
  <2> QED
    BY <1>2, <2>1, <2>2 DEF SourceIsSound
<1>11. ASSUME state.started # None => WalkCovers(listing, walk', Wanted, Brought')
       PROVE  PassCovers'
  <2> SUFFICES ASSUME state.started # None PROVE PassCovers'
    BY <1>1 DEF PassCovers
  <2>1. /\ state.floor <= state.started
        /\ \A p \in Listed : origin < p.at /\ p.date <= state.floor => Accounted(p)
        /\ CursorCovers(listing, state.cursor, Wanted, Brought)
    BY <1>2 DEF PassCovers
  <2>2. CursorCovers(listing, state.cursor, Wanted, Brought')
    BY <1>6, <2>1, CoversMore
  <2>3. \A p \in Listed : origin < p.at /\ p.date <= state.floor => Accounted(p)'
    BY <1>7, <2>1
  <2> QED
    BY <1>1, <1>4, <1>5, <1>11, <2>1, <2>2, <2>3 DEF PassCovers
<1>12. CASE Fetch
  <2>0. FetchPage
    BY <1>12 DEF Fetch
  <2>1. ASSUME NEW h \in 1..Len(walk'.posts) PROVE Printed(walk'.posts[h])
    <3>1. PICK e \in Entry : EntryIsSound(e) /\ e.rows = Fetched(walk.page)
      BY <1>2, <2>0, ServedIsSound
    <3>2. \/ h \in 1..Len(walk.posts) /\ walk'.posts[h] = walk.posts[h]
          \/ \E i \in 1..Len(e.rows) : walk'.posts[h] = e.rows[i]
      BY <1>2, <2>0, <3>1, FetchBrings
    <3> QED
      BY <1>2, <3>1, <3>2 DEF SourceIsSound, EntryIsSound
  <2>2. walk'.cutoff = walk.cutoff
    <3>1. Fetched(walk.page) \in Seq(Post) /\ UsePage(Fetched(walk.page))
      BY <1>2, <2>0, FetchServes
    <3>2. PICK k \in Nat : Outcome(Fetched(walk.page), k)
      BY <1>2, <1>10, <3>1, PageOutcome
    <3> QED
      BY <3>2 DEF Outcome
  <2>3. SourceIsSound'
    <3>1. \A n \in 1..Len(listing') : HasRow(listing'[n]) => Printed(listing'[n])
      BY <1>2, <1>5 DEF SourceIsSound
    <3> QED
      BY <1>1, <1>2, <1>5, <1>10, <2>1, <2>2, <3>1 DEF SourceIsSound, Printed
  <2>4. state.started # None => WalkCovers(listing, walk', Wanted, Brought')
    BY <1>1, <1>12, FetchAccounts
  <2>5. PassCovers'
    BY <1>11, <2>4
  <2>6. CacheIsSound'
    BY <1>2, <2>0, CacheStaysSound
  <2> QED
    BY <1>3, <1>8, <1>9, <2>3, <2>5, <2>6 DEF CompleteInv
<1>13. CASE FetchFail
  <2>1. walk' = [NoWalk EXCEPT !.pc = "error"] /\ cache' = cache
    BY <1>13 DEF FetchFail
  <2>2. walk'.pc = "error" /\ walk'.posts = <<>> /\ walk'.cutoff = 0
    BY <2>1 DEF NoWalk
  <2>3. 1..Len(walk'.posts) = {}
    BY <2>2, NoPosts
  <2>4. SourceIsSound'
    <3>1. \A n \in 1..Len(listing') : HasRow(listing'[n]) => Printed(listing'[n])
      BY <1>2, <1>5 DEF SourceIsSound
    <3> QED
      BY <1>1, <1>2, <1>5, <1>10, <2>2, <2>3, <3>1 DEF SourceIsSound, Printed
  <2>5. WalkCovers(listing, walk', Wanted, Brought')
    BY <2>2, NoWalkCovers
  <2>6. PassCovers'
    BY <1>11, <2>5
  <2>7. CacheIsSound'
    <3>1. ASSUME NEW e \in cache PROVE EntryIsSound(e)'
      <4>1. e \in Entry /\ EntryIsSound(e)
        BY <1>2 DEF CacheIsSound
      <4>2. clock <= clock' /\ clock' \in Nat
        BY <1>2, <1>5
      <4> QED
        BY <1>2, <1>5, <4>1, <4>2, SoundEntryStays
    <3> QED
      BY <2>1, <3>1 DEF CacheIsSound
  <2> QED
    BY <1>3, <1>8, <1>9, <2>4, <2>6, <2>7 DEF CompleteInv
<1> QED
  BY <1>12, <1>13 DEF Engine

LEMMA CompleteSource ==
  ASSUME DatesParse, CompleteInv, Source
  PROVE  CompleteInv'
<1>1. /\ UNCHANGED <<state, poll, emitted, thrown, hidden, marks, origin, resets>>
      /\ Publish \/ Tick
  BY DEF Source
<1>2. /\ TriggerInv /\ TypeOK /\ CrawlTypeOK /\ SourceIsSound /\ PassCovers /\ WatermarkIsComplete
      /\ CacheIsSound /\ MarksAreSound /\ cache \subseteq Entry
      /\ Tidy(listing, clock) /\ listing \in Seq(Slots) /\ clock \in Nat
      /\ WalkIsTyped(walk) /\ state.cursor \in Cursors
      /\ state.floor \in Int /\ state.started \in Int /\ state.lastSeen \in -1..clock
      /\ state.started # None => state.started \in 0..clock
  BY CompleteFacts DEF SourceIsSound
<1>3. TriggerInv'
  BY <1>2, SourceKeeps
<1>4. Emitted' = Emitted /\ Brought' = Brought /\ Wanted' = Wanted
  <2>1. Emitted' = Emitted /\ Wanted' = Wanted
    BY <1>1 DEF Emitted, Wanted
  <2> QED
    BY <1>1, <2>1 DEF Brought
<1>a. \A p : Accounted(p) => Accounted(p)'
  BY <1>1, <1>4, AccountedStays
<1>5. Tidy(listing', clock') /\ UNCHANGED <<cache, failures, walk>>
  BY <1>1, <1>2, SourceStep
<1>b. clock' = clock + 1 /\ clock <= clock' /\ clock' \in Nat
  BY <1>1, <1>2 DEF Publish, Tick
<1>c. MarksAreSound'
  <2>1. origin \in -1..clock' /\ marks \subseteq 0..clock'
    BY <1>2, <1>b DEF MarksAreSound
  <2> QED
    BY <1>1, <1>2, <2>1 DEF MarksAreSound
<1>6. CASE listing' = listing
  <2>0. Listed' = Listed /\ Vouched' = Vouched
    BY <1>1, <1>6 DEF Listed, Vouched
  <2>1. SourceIsSound'
    BY <1>1, <1>2, <1>5, <1>6 DEF SourceIsSound, Printed
  <2>2. PassCovers'
    BY <1>1, <1>2, <1>4, <1>5, <1>6, <1>a, <2>0 DEF PassCovers
  <2>3. WatermarkIsComplete'
    BY <1>2, <1>a, <2>0 DEF WatermarkIsComplete
  <2>4. CacheIsSound'
    <3>1. ASSUME NEW e \in cache PROVE EntryIsSound(e)'
      BY <1>2, <1>6, <1>b, SoundEntryStays DEF CacheIsSound
    <3> QED
      BY <1>5, <3>1 DEF CacheIsSound
  <2> QED
    BY <1>3, <1>c, <2>1, <2>2, <2>3, <2>4 DEF CompleteInv
<1>7. CASE Publish
  <2>1. PICK x \in Post : listing' = <<x>> \o listing /\ x.at = clock + 1 /\ Printed(x)
    BY <1>2, <1>7, PublishedPost DEF DatesParse, Printed
  <2>2. /\ Len(listing) \in Nat /\ listing'[1] = x
        /\ \A n \in 1..Len(listing') :
             n # 1 => n - 1 \in 1..Len(listing) /\ listing'[n] = listing[n - 1]
    BY <1>2, <2>1, Shifted
  <2>3. \A p \in Listed' : p = x \/ p \in Listed
    BY <2>2 DEF Listed
  <2>4. \A n \in 1..Len(listing') : HasRow(listing'[n]) => Printed(listing'[n])
    BY <1>2, <2>1, <2>2 DEF SourceIsSound
  <2>5. SourceIsSound'
    BY <1>1, <1>2, <1>5, <2>4 DEF SourceIsSound, Printed
  <2>a. CacheIsSound'
    <3>1. ASSUME NEW e \in cache PROVE EntryIsSound(e)'
      BY <1>2, <1>b, <2>1, EntryShifted DEF CacheIsSound
    <3> QED
      BY <1>5, <3>1 DEF CacheIsSound
  <2>6. WatermarkIsComplete'
    <3> SUFFICES ASSUME NEW p \in Listed', origin < p.at, p.at <= state.lastSeen
                 PROVE  Accounted(p)'
      BY <1>1 DEF WatermarkIsComplete, Vouched
    <3>1. p # x
      BY <1>2, <2>1
    <3> QED
      BY <1>2, <1>a, <2>3, <3>1 DEF WatermarkIsComplete, Vouched
  <2>7. PassCovers'
    <3> SUFFICES ASSUME state.started # None PROVE PassCovers'
      BY <1>1 DEF PassCovers
    <3>1. /\ state.floor <= state.started /\ state.started \in 0..clock
          /\ \A p \in Listed : origin < p.at /\ p.date <= state.floor => Accounted(p)
          /\ CursorCovers(listing, state.cursor, Wanted, Brought)
          /\ WalkCovers(listing, walk, Wanted, Brought)
      BY <1>2 DEF PassCovers
    <3>2. x \notin Wanted
      BY <1>2, <2>1, <3>1 DEF Wanted
    <3>3. \A p \in Listed' : origin < p.at /\ p.date <= state.floor => Accounted(p)'
      <4> SUFFICES ASSUME NEW p \in Listed', origin < p.at, p.date <= state.floor
                   PROVE  Accounted(p)'
        OBVIOUS
      <4>1. CASE p = x
        <5>1. PICK m \in marks \cup {origin} : state.floor <= m
          BY <1>2 DEF MarksAreSound
        <5>2. m \in Int /\ m <= clock
          BY <1>2, <5>1 DEF MarksAreSound
        <5>3. x.date \in Nat
          BY <2>1, PrintedDates
        <5>4. x.date <= m /\ m < x.at
          BY <1>2, <2>1, <4>1, <5>1, <5>2, <5>3
        <5>5. RoundedAway(p)
          BY <4>1, <5>1, <5>4 DEF RoundedAway
        <5> QED
          BY <1>a, <5>5 DEF Accounted
      <4>2. CASE p # x
        BY <1>a, <2>3, <3>1, <4>2
      <4> QED
        BY <4>1, <4>2
    <3>4. CursorCovers(listing', state.cursor, Wanted, Brought)
      <4>1. FirstPage(state.cursor) \in Nat \ {0} /\ state.cursor[2] \in Nat
        BY <1>2, CursorsLead
      <4> QED
        BY <1>2, <2>1, <3>1, <3>2, <4>1, CoversShifted, WantedArePosts DEF CursorCovers
    <3>5. WalkCovers(listing', walk, Wanted, Brought)
      BY <1>2, <2>1, <3>1, <3>2, WalkCoversShifted, WantedArePosts
    <3> QED
      BY <1>1, <1>4, <1>5, <3>1, <3>3, <3>4, <3>5 DEF PassCovers
  <2> QED
    BY <1>3, <1>c, <2>5, <2>6, <2>7, <2>a DEF CompleteInv
<1> QED
  BY <1>1, <1>6, <1>7 DEF Tick

LEMMA CachedStay ==
  ASSUME CompleteInv, UNCHANGED <<clock, listing, cache>>
  PROVE  CacheIsSound'
<1>1. CrawlTypeOK /\ CacheIsSound /\ cache \subseteq Entry /\ clock \in Nat
  BY CompleteFacts
<1>2. clock <= clock' /\ clock' \in Nat /\ cache' = cache
  BY <1>1
<1>3. ASSUME NEW e \in cache PROVE EntryIsSound(e)'
  BY <1>1, <1>2, SoundEntryStays DEF CacheIsSound
<1> QED
  BY <1>2, <1>3 DEF CacheIsSound

LEMMA CompleteRequest ==
  ASSUME CompleteInv, Request
  PROVE  CompleteInv'
<1>1. /\ TriggerInv /\ TypeOK /\ SourceIsSound /\ PassCovers /\ WatermarkIsComplete
      /\ MarksAreSound
  BY CompleteFacts
<1>2. /\ UNCHANGED <<clock, listing, cache, failures, state, emitted, thrown, hidden, marks,
                    origin, resets>>
      /\ poll' = [poll EXCEPT !.pc = "wait", !.pages = @ + 1]
  BY DEF Request
<1>3. poll'.pc = "wait" /\ poll'.posts = poll.posts
  BY <1>1, <1>2 DEF TypeOK
<1>4. TriggerInv' /\ CacheIsSound' /\ MarksAreSound'
  BY <1>1, <1>2, RequestKeeps, CachedStay DEF MarksAreSound
<1>5. /\ walk'.pc = "walk" /\ walk'.page = FirstPage(state.cursor)
      /\ walk'.skip = state.cursor[2] /\ walk'.posts = <<>> /\ walk'.cutoff = 0
  BY <1>1, RequestBegins
<1>6. 1..Len(walk'.posts) = {}
  BY <1>5, NoPosts
<1>7. SourceIsSound'
  BY <1>1, <1>2, <1>3, <1>5, <1>6 DEF SourceIsSound, Printed
<1>8. Emitted' = Emitted /\ Brought' = Brought /\ Wanted' = Wanted
  BY <1>2, <1>3 DEF Emitted, Brought, Wanted
<1>a. \A p : Accounted(p) => Accounted(p)'
  BY <1>2, <1>8, AccountedStays
<1>9. state.started # None => WalkCovers(listing, walk', Wanted, Brought)
  BY <1>1, <1>5, BeginCovers DEF PassCovers
<1>b. Listed' = Listed /\ Vouched' = Vouched
  BY <1>2 DEF Listed, Vouched
<1>10. PassCovers'
  BY <1>1, <1>2, <1>8, <1>9, <1>a, <1>b DEF PassCovers
<1>11. WatermarkIsComplete'
  BY <1>1, <1>a, <1>b DEF WatermarkIsComplete
<1> QED
  BY <1>4, <1>7, <1>10, <1>11 DEF CompleteInv

LEMMA CompleteThrows ==
  ASSUME CompleteInv, PollThrows
  PROVE  CompleteInv'
<1>1. /\ TriggerInv /\ TypeOK /\ SourceIsSound /\ PassCovers /\ WatermarkIsComplete
      /\ MarksAreSound
  BY CompleteFacts
<1>2. /\ thrown' = thrown \cup {poll.posts[n] : n \in 1..Len(poll.posts)}
      /\ poll' = NoPoll /\ walk' = NoWalk
      /\ UNCHANGED <<clock, listing, cache, failures, state, emitted, hidden, marks, origin, resets>>
  BY DEF PollThrows
<1>3. poll'.pc = "idle" /\ poll'.posts = <<>> /\ 1..Len(poll'.posts) = {}
  <2>1. poll'.pc = "idle" /\ poll'.posts = <<>>
    BY <1>2, NoPollIsTyped
  <2> QED
    BY <2>1, NoPosts
<1>4. TriggerInv' /\ CacheIsSound' /\ MarksAreSound'
  BY <1>1, <1>2, PollThrowsKeeps, CachedStay DEF MarksAreSound
<1>5. walk'.pc = "idle" /\ walk'.posts = <<>> /\ walk'.cutoff = 0
  BY <1>2 DEF NoWalk
<1>6. 1..Len(walk'.posts) = {}
  BY <1>5, NoPosts
<1>7. SourceIsSound'
  BY <1>1, <1>2, <1>3, <1>5, <1>6 DEF SourceIsSound, Printed
<1>8. Emitted' = Emitted /\ Wanted' = Wanted /\ Brought' = Brought
  <2>1. Emitted' = Emitted /\ Wanted' = Wanted
    BY <1>2 DEF Emitted, Wanted
  <2>2. {poll'.posts[n] : n \in 1..Len(poll'.posts)} = {}
    BY <1>3
  <2>3. Brought' = Emitted' \cup thrown' \cup hidden'
    BY <2>2 DEF Brought
  <2> QED
    BY <1>2, <2>1, <2>3 DEF Brought
<1>a. \A p : Accounted(p) => Accounted(p)'
  BY <1>2, <1>8, AccountedStays
<1>9. WalkCovers(listing, walk', Wanted, Brought)
  BY <1>5, NoWalkCovers
<1>b. Listed' = Listed /\ Vouched' = Vouched
  BY <1>2 DEF Listed, Vouched
<1>10. PassCovers'
  BY <1>1, <1>2, <1>8, <1>9, <1>a, <1>b DEF PassCovers
<1>11. WatermarkIsComplete'
  BY <1>1, <1>a, <1>b DEF WatermarkIsComplete
<1> QED
  BY <1>4, <1>7, <1>10, <1>11 DEF CompleteInv

(* A pass that starts wants what is between its floor and its start, and     *)
(* nothing of it is behind it; the floor is the watermark, or opens a new    *)
(* stretch, or is below what was brought before a reset.                    *)
LEMMA CompletePollBegin ==
  ASSUME CompleteInv, NEW on \in BOOLEAN, PollBegin(on)
  PROVE  CompleteInv'
<1> DEFINE s == ApplyReset(state, on)
           reset == on /\ ~state.applied
<1>1. /\ TriggerInv /\ TypeOK /\ SourceIsSound /\ PassCovers /\ WatermarkIsComplete
      /\ clock \in Nat /\ listing \in Seq(Slots) /\ state.lastSeen \in Int
      /\ state.lastSeen \in -1..clock /\ CrawlTypeOK /\ origin \in Int /\ MarksAreSound
  BY CompleteFacts
<1>2. /\ poll.pc = "idle" /\ state' = StartPass(s) /\ poll' = [NoPoll EXCEPT !.pc = "call"]
      /\ origin' = IF s.started = None /\ state'.floor > state.lastSeen
                   THEN state'.floor ELSE origin
      /\ UNCHANGED <<clock, listing, cache, failures, walk, emitted, thrown, hidden, marks>>
  BY DEF PollBegin
<1>3. /\ s \in State
      /\ IF reset
         THEN s.lastSeen = None /\ s.started = None /\ s.pending = None
         ELSE /\ s.lastSeen = state.lastSeen /\ s.started = state.started
              /\ s.pending = state.pending /\ s.floor = state.floor
              /\ s.cursor = state.cursor
  BY <1>1, AfterReset
<1> HIDE DEF s, reset
<1>4. /\ state' \in State /\ state'.lastSeen = s.lastSeen
      /\ IF s.started # None THEN state' = s
         ELSE /\ state'.started = clock /\ state'.pending = clock
              /\ state'.cursor = NoCursor
              /\ s.lastSeen # None => state'.floor = s.lastSeen
              /\ s.lastSeen = None => state'.floor = clock - LookbackSpan
  BY <1>1, <1>2, <1>3, AfterStart
<1>5. TriggerInv' /\ CacheIsSound'
  BY <1>1, <1>2, PollBeginKeeps, CachedStay
<1>6. /\ poll'.pc = "call" /\ poll'.posts = <<>> /\ poll.posts = <<>>
      /\ walk = NoWalk /\ walk' = NoWalk
  BY <1>1, <1>2, NoPollIsTyped DEF SourceIsSound, NoPoll
<1>7. SourceIsSound'
  BY <1>1, <1>2, <1>6 DEF SourceIsSound, Printed
<1>8. Emitted' = Emitted /\ Brought' = Brought /\ Listed' = Listed
  BY <1>2, <1>6 DEF Emitted, Brought, Listed
<1>9. \A p \in Listed : p \in Post /\ Printed(p) /\ p.at \in Nat /\ p.date \in Nat
  BY <1>1, ListedArePrinted, PrintedDates
<1>10. state'.floor \in Int /\ state'.lastSeen \in Int
  BY <1>4 DEF State
<1>11. state'.lastSeen = IF reset THEN None ELSE state.lastSeen
  BY <1>3, <1>4
<1>12. \A p \in Listed : origin < p.at /\ p.at <= state.lastSeen => Accounted(p)
  BY <1>1 DEF WatermarkIsComplete, Vouched
<1>a. origin' = origin => \A p : Accounted(p) => Accounted(p)'
  BY <1>2, <1>8, AccountedStays
<1>13. \A p \in Listed : origin' < p.at /\ p.at <= state'.lastSeen => Accounted(p)'
  <2> SUFFICES ASSUME NEW p \in Listed, origin' < p.at, p.at <= state'.lastSeen
               PROVE  Accounted(p)'
    OBVIOUS
  <2>1. p.at \in Nat
    BY <1>9
  <2>2. ~reset /\ state'.lastSeen = state.lastSeen
    BY <1>11, <2>1 DEF None
  <2>3. CASE origin' = origin
    BY <1>12, <1>a, <2>2, <2>3
  <2>4. CASE s.started = None /\ state'.floor > state.lastSeen
    <3>1. origin' = state'.floor
      BY <1>2, <2>4
    <3>a. state'.floor < p.at /\ p.at <= state.lastSeen
      BY <2>2, <3>1
    <3> QED
      BY <1>1, <1>10, <2>1, <2>4, <3>a
  <2> QED
    BY <1>2, <2>3, <2>4
<1>14. WatermarkIsComplete'
  BY <1>2, <1>8, <1>13 DEF WatermarkIsComplete, Vouched
<1>15. WalkCovers(listing, walk', Wanted', Brought)
  <2>1. walk'.posts = <<>> /\ walk'.pc = "idle"
    BY <1>6 DEF NoWalk
  <2> QED
    BY <2>1, NoWalkCovers
<1>b. /\ origin \in -1..clock /\ marks \subseteq 0..clock
      /\ state.lastSeen \in marks \cup {None} /\ state'.lastSeen \in marks \cup {None}
      /\ state.started # None => \E m \in marks \cup {origin} : state.floor <= m
  BY <1>1, <1>11 DEF MarksAreSound
<1>16. CASE s.started = None
  <2>1. state'.started = clock /\ state'.cursor = NoCursor
    BY <1>4, <1>16
  <2>2. state'.floor <= clock
    <3>1. CASE s.lastSeen # None
      <4>1. state'.floor = s.lastSeen /\ s.lastSeen = state.lastSeen
        BY <1>3, <1>4, <1>16, <3>1
      <4> QED
        BY <1>1, <4>1
    <3>2. CASE s.lastSeen = None
      <4>1. state'.floor = clock - LookbackSpan
        BY <1>4, <1>16, <3>2
      <4> QED
        BY <1>1, <4>1, TriggerAssumption
    <3> QED
      BY <3>1, <3>2
  <2>3. CursorCovers(listing, state'.cursor, Wanted', Brought)
    <3>1. Wanted' \in SUBSET Post
      BY DEF Wanted
    <3> QED
      BY <1>1, <2>1, <3>1, NothingIsBehind
  <2>4. \A p \in Listed : origin' < p.at /\ p.date <= state'.floor => Accounted(p)'
    <3> SUFFICES ASSUME NEW p \in Listed, origin' < p.at, p.date <= state'.floor
                 PROVE  Accounted(p)'
      OBVIOUS
    <3>1. p.at \in Nat /\ p.date \in Nat
      BY <1>9
    <3>2. CASE state'.floor > state.lastSeen
      <4>1. origin' = state'.floor
        BY <1>2, <1>16, <3>2
      <4>2. RoundedAway(p)'
        BY <4>1 DEF RoundedAway
      <4> QED
        BY <4>2 DEF Accounted
    <3>3. CASE ~(state'.floor > state.lastSeen)
      <4>1. origin' = origin
        BY <1>2, <3>3
      <4>2. p.date <= state.lastSeen /\ state.lastSeen # None
        BY <1>1, <1>10, <3>1, <3>3 DEF None
      <4>3. CASE p.at <= state.lastSeen
        BY <1>12, <1>a, <4>1, <4>3
      <4>4. CASE state.lastSeen < p.at
        <5>1. RoundedAway(p)
          BY <1>b, <4>2, <4>4 DEF RoundedAway
        <5> QED
          BY <1>a, <4>1, <5>1 DEF Accounted
      <4> QED
        BY <1>1, <3>1, <4>3, <4>4
    <3> QED
      BY <3>2, <3>3
  <2>5. PassCovers'
    BY <1>2, <1>8, <1>15, <2>1, <2>2, <2>3, <2>4 DEF PassCovers
  <2>6. /\ origin' \in -1..clock
        /\ \E m \in marks \cup {origin'} : state'.floor <= m
    <3>1. CASE state'.floor > state.lastSeen
      <4>1. origin' = state'.floor
        BY <1>2, <1>16, <3>1
      <4>2. -1 <= state.lastSeen /\ state'.floor \in Int /\ state.lastSeen \in Int
        BY <1>1, <1>10
      <4>3. state'.floor \in -1..clock /\ state'.floor <= state'.floor
        BY <1>1, <2>2, <3>1, <4>2
      <4> QED
        BY <4>1, <4>3
    <3>2. CASE ~(state'.floor > state.lastSeen)
      <4>1. origin' = origin /\ state'.floor <= state.lastSeen
        BY <1>1, <1>2, <1>10, <3>2
      <4>2. CASE state.lastSeen \in marks
        BY <1>b, <4>1, <4>2
      <4>3. CASE state.lastSeen = None
        <5>1. state'.floor <= origin
          BY <1>1, <1>10, <1>b, <4>1, <4>3 DEF None
        <5> QED
          BY <1>b, <4>1, <5>1
      <4> QED
        BY <1>b, <4>2, <4>3
    <3> QED
      BY <3>1, <3>2
  <2>7. MarksAreSound'
    BY <1>2, <1>b, <2>6 DEF MarksAreSound
  <2> QED
    BY <1>5, <1>7, <1>14, <2>5, <2>7 DEF CompleteInv
<1>17. CASE s.started # None
  <2>1. /\ state'.started = state.started /\ state'.floor = state.floor
        /\ state'.cursor = state.cursor /\ origin' = origin
    BY <1>2, <1>3, <1>4, <1>17
  <2>2. Wanted' = Wanted
    BY <2>1 DEF Wanted
  <2>3. PassCovers'
    BY <1>1, <1>2, <1>8, <1>15, <1>a, <2>1, <2>2 DEF PassCovers
  <2>4. MarksAreSound'
    BY <1>2, <1>b, <2>1 DEF MarksAreSound
  <2> QED
    BY <1>5, <1>7, <1>14, <2>3, <2>4 DEF CompleteInv
<1> QED
  BY <1>16, <1>17


(* What a poll that goes on has collected, or one that ends hands over,      *)
(* stays brought.                                                           *)
LEMMA ResponseBrings ==
  ASSUME TypeOK, Response
  PROVE  /\ Emitted \subseteq Emitted' /\ Brought \subseteq Brought'
         /\ \A n \in 1..Len(Accepted) : Accepted[n] \in Brought'
         /\ Finished => Brought' = Emitted' \cup thrown' \cup hidden'
<1> DEFINE posts == poll.posts \o Accepted
           again == ~Finished /\ poll.pages < MaxPagesPerPoll /\ Len(posts) < BatchSize
<1>1. /\ poll' = IF again THEN [poll EXCEPT !.pc = "call", !.posts = posts] ELSE NoPoll
      /\ IF again THEN emitted' = emitted ELSE Emit(posts)
      /\ thrown' = thrown /\ hidden' = hidden
  BY DEF Response
<1>2. poll \in Polls /\ poll.posts \in Seq(Post) /\ Accepted \in Seq(Post)
  <2>1. Accepted \in Seq(Own) /\ \A S, T : S \subseteq T => Seq(S) \subseteq Seq(T)
    BY AcceptedIsOwn
  <2>2. Own \subseteq Post
    BY DEF Own
  <2> QED
    BY <2>1, <2>2 DEF TypeOK, Polls
<1>3. again => ~Finished
  OBVIOUS
<1>4. /\ \A n \in 1..Len(poll.posts) : \E i \in 1..Len(posts) : posts[i] = poll.posts[n]
      /\ \A n \in 1..Len(Accepted) : \E i \in 1..Len(posts) : posts[i] = Accepted[n]
  <2>1. /\ Len(posts) = Len(poll.posts) + Len(Accepted)
        /\ Len(poll.posts) \in Nat /\ Len(Accepted) \in Nat
    BY <1>2
  <2>2. ASSUME NEW n \in 1..Len(poll.posts) PROVE \E i \in 1..Len(posts) : posts[i] = poll.posts[n]
    <3>1. n \in 1..Len(posts)
      BY <2>1
    <3>2. posts[n] = poll.posts[n]
      BY <1>2, <2>1
    <3> QED
      BY <3>1, <3>2
  <2>3. ASSUME NEW n \in 1..Len(Accepted) PROVE \E i \in 1..Len(posts) : posts[i] = Accepted[n]
    <3>1. Len(poll.posts) + n \in 1..Len(posts)
      BY <2>1
    <3>2. posts[Len(poll.posts) + n] = Accepted[n]
      BY <1>2, <2>1
    <3> QED
      BY <3>1, <3>2
  <2> QED
    BY <2>2, <2>3
<1>5. again => posts \in Seq(Post)
  BY <1>2
<1> HIDE DEF posts, again
<1>6. CASE again
  <2>1. poll'.posts = posts /\ emitted' = emitted
    BY <1>1, <1>2, <1>5, <1>6 DEF Polls
  <2>2. Emitted' = Emitted
    BY <2>1 DEF Emitted
  <2>3. \A i \in 1..Len(posts) : posts[i] \in Brought'
    BY <2>1 DEF Brought
  <2>4. Brought \subseteq Brought'
    <3> SUFFICES ASSUME NEW p \in Brought PROVE p \in Brought'
      OBVIOUS
    <3>1. CASE p \in Emitted \cup thrown \cup hidden
      BY <1>1, <2>2, <3>1 DEF Brought
    <3>2. CASE p \notin Emitted \cup thrown \cup hidden
      <4>1. PICK n \in 1..Len(poll.posts) : p = poll.posts[n]
        BY <3>2 DEF Brought
      <4> QED
        BY <1>4, <2>3, <4>1
    <3> QED
      BY <3>1, <3>2
  <2> QED
    BY <1>3, <1>4, <1>6, <2>2, <2>3, <2>4
<1>7. CASE ~again
  <2>1. /\ poll' = NoPoll
        /\ emitted' = emitted \cup {[post |-> posts[n], pass |-> state.started,
                                     epoch |-> resets] : n \in 1..Len(posts)}
    BY <1>1, <1>7 DEF Emit
  <2>2. Emitted \subseteq Emitted'
    BY <2>1 DEF Emitted
  <2>3. ASSUME NEW i \in 1..Len(posts) PROVE posts[i] \in Emitted'
    <3> DEFINE e == [post |-> posts[i], pass |-> state.started, epoch |-> resets]
    <3>1. e \in emitted' /\ e.post = posts[i]
      BY <2>1
    <3> HIDE DEF e
    <3> QED
      BY <3>1 DEF Emitted
  <2>4. {poll'.posts[n] : n \in 1..Len(poll'.posts)} = {}
    <3>1. poll'.posts = <<>>
      BY <2>1, NoPollIsTyped
    <3>2. 1..Len(poll'.posts) = {}
      BY <3>1, NoPosts
    <3> QED
      BY <3>2
  <2>5. Brought' = Emitted' \cup thrown' \cup hidden'
    BY <2>4 DEF Brought
  <2>6. Brought \subseteq Brought'
    <3> SUFFICES ASSUME NEW p \in Brought PROVE p \in Brought'
      OBVIOUS
    <3>1. CASE p \in Emitted \cup thrown \cup hidden
      BY <1>1, <2>2, <2>5, <3>1
    <3>2. CASE p \notin Emitted \cup thrown \cup hidden
      BY <1>4, <2>3, <2>5, <3>2 DEF Brought
    <3> QED
      BY <3>1, <3>2
  <2> QED
    BY <1>4, <2>2, <2>3, <2>5, <2>6
<1> QED
  BY <1>6, <1>7

(* Of the posts a response brings in front of the floor, the wanted are      *)
(* accepted: a date is not after the instant it was printed for.             *)
LEMMA WantedAreAccepted ==
  ASSUME CompleteInv, Response, NEW k \in 1..Len(AboveFloor), walk.posts[k] \in Wanted
  PROVE  walk.posts[k] \in Brought'
<1>1. TypeOK /\ SourceIsSound /\ state.started \in Int
  BY CompleteFacts
<1>2. /\ AboveFloor[k] = walk.posts[k] /\ Len(AboveFloor) \in 0..Len(walk.posts)
      /\ Len(walk.posts) \in Nat
  BY <1>1, AboveFloorIsFront
<1>3. k \in 1..Len(walk.posts)
  BY <1>2
<1> DEFINE p == walk.posts[k]
<1>4. p \in Post /\ Printed(p) /\ p.at <= state.started
  BY <1>1, <1>3 DEF SourceIsSound, Wanted
<1> HIDE DEF p
<1>5. p.date <= state.started
  BY <1>1, <1>4, PrintedDates
<1>6. NotAfterStart(AboveFloor[k])
  BY <1>2, <1>5 DEF NotAfterStart, p
<1> QED
  BY <1>1, <1>2, <1>6, AcceptedHas, ResponseBrings

(* The last response of a pass brings what is still wanted: the walk ended    *)
(* at the archive's floor, or a post at the pass's floor has all wanted      *)
(* posts in front of it.                                                    *)
LEMMA LastResponse ==
  ASSUME CompleteInv, Response, Finished, state.started # None,
         NEW p \in Listed, p \in Wanted
  PROVE  p \in Brought'
<1>1. /\ TypeOK /\ SourceIsSound /\ PassCovers /\ walk \in Walk /\ state.floor \in Int
      /\ CrawlTypeOK
  BY CompleteFacts
<1>2. walk.pc = "done" /\ WalkCovers(listing, walk, Wanted, Brought)
  BY <1>1 DEF Response, PassCovers
<1>3. PICK n \in 1..Len(listing) : p = listing[n]
  BY DEF Listed
<1>4. Brought \subseteq Brought'
  BY <1>1, ResponseBrings
<1> DEFINE m == Len(AboveFloor)
<1>5. /\ m \in 0..Len(walk.posts) /\ Len(walk.posts) \in Nat
      /\ m < Len(walk.posts) => AtFloor(walk.posts[m + 1])
  BY <1>1, AboveFloorIsFront DEF Walk
<1>6. \A k \in 1..m : walk.posts[k] = p => p \in Brought'
  BY WantedAreAccepted
<1> HIDE DEF m
<1>7. CASE m < Len(walk.posts)
  <2> DEFINE k == m + 1
             q == walk.posts[k]
  <2>1. k \in 1..Len(walk.posts)
    BY <1>5, <1>7
  <2>2. AtFloor(walk.posts[k])
    BY <1>5, <1>7
  <2>3. \A i \in 1..k : i = k \/ i \in 1..m
    BY <1>5
  <2> HIDE DEF k
  <2>4. q \in Post /\ Printed(q) /\ AtFloor(q)
    BY <1>1, <2>1, <2>2 DEF SourceIsSound, Walk
  <2> HIDE DEF q
  <2>5. q.date <= state.floor /\ q.date \in Nat /\ q.at \in Nat
    BY <2>4, PrintedDates DEF AtFloor
  <2>6. p \in Post /\ Printed(p) /\ p.date \in Nat /\ p.at \in Nat /\ state.floor < p.date
    BY <1>1, ListedArePrinted, PrintedDates DEF Wanted
  <2>7. q.at <= p.at /\ q # p
    <3>1. q # p
      BY <1>1, <2>5, <2>6
    <3>2. p.at <= q.at => p.date <= q.date
      BY <2>4, <2>6, PrintedDates
    <3> QED
      BY <1>1, <2>5, <2>6, <3>1, <3>2
  <2>8. p \in Brought \cup Front(walk, k)
    BY <1>2, <1>3, <2>1, <2>7 DEF WalkCovers, q
  <2> QED
    BY <1>4, <1>6, <2>3, <2>7, <2>8 DEF Front, q
<1>8. CASE ~(m < Len(walk.posts))
  <2>1. m = Len(walk.posts) /\ ~walk.more
    BY <1>5, <1>8 DEF Finished, m
  <2>2. ~(walk.cutoff > 0)
    BY <1>1 DEF SourceIsSound
  <2>3. p \in Brought \cup Posts(walk)
    BY <1>2, <1>3, <2>1, <2>2 DEF WalkCovers
  <2> QED
    BY <1>4, <1>6, <2>1, <2>3 DEF Posts, Front
<1> QED
  BY <1>7, <1>8

LEMMA CompleteResponse ==
  ASSUME CompleteInv, Response
  PROVE  CompleteInv'
<1>1. /\ TriggerInv /\ TypeOK /\ SourceIsSound /\ PassCovers /\ WatermarkIsComplete
      /\ state \in State /\ walk \in Walk /\ state.floor \in Int /\ state.started \in Int
      /\ CrawlTypeOK /\ MarksAreSound /\ clock \in Nat
      /\ state.started # None => state.started \in 0..clock
  BY CompleteFacts
<1>2. /\ poll.pc = "wait" /\ walk.pc = "done" /\ walk' = NoWalk
      /\ state' = IF Finished THEN FinishPass(state) ELSE [state EXCEPT !.cursor = walk.cursor]
      /\ marks' = IF Finished THEN marks \cup {state.pending} ELSE marks
      /\ poll' = NoPoll \/ \E posts : poll' = [poll EXCEPT !.pc = "call", !.posts = posts]
      /\ UNCHANGED <<clock, listing, cache, failures, thrown, hidden, origin, resets>>
  BY DEF Response
<1>3. /\ Emitted \subseteq Emitted' /\ Brought \subseteq Brought'
      /\ Finished => Brought' = Emitted' \cup thrown' \cup hidden'
  BY <1>1, ResponseBrings
<1>4. TriggerInv' /\ CacheIsSound'
  BY <1>1, <1>2, ResponseKeeps, CachedStay
<1>5. walk'.pc = "idle" /\ walk'.posts = <<>> /\ walk'.cutoff = 0
  BY <1>2 DEF NoWalk
<1>6. 1..Len(walk'.posts) = {} /\ Listed' = Listed
  BY <1>2, <1>5, NoPosts DEF Listed
<1>7. poll'.pc = "idle" => poll'.posts = <<>>
  <2>1. CASE poll' = NoPoll
    BY <2>1, NoPollIsTyped
  <2>2. CASE poll' # NoPoll
    <3>1. PICK posts : poll' = [poll EXCEPT !.pc = "call", !.posts = posts]
      BY <1>2, <2>2
    <3>2. poll'.pc = "call"
      BY <1>1, <3>1 DEF TypeOK
    <3> QED
      BY <3>2
  <2> QED
    BY <2>1, <2>2
<1>8. SourceIsSound'
  BY <1>1, <1>2, <1>5, <1>6, <1>7 DEF SourceIsSound, Printed
<1>9. /\ state.started # None /\ state.pending = state.started
  BY <1>1, <1>2 DEF TriggerInv, PassIsSound
<1>10. /\ state.floor <= state.started
       /\ \A p \in Listed : origin < p.at /\ p.date <= state.floor => Accounted(p)
       /\ WalkCovers(listing, walk, Wanted, Brought)
  BY <1>1, <1>9 DEF PassCovers
<1>a. \A p : Accounted(p) => Accounted(p)'
  <2>1. marks \subseteq marks'
    BY <1>2
  <2> QED
    BY <1>2, <1>3, <2>1, AccountedStays
<1>11. CASE Finished
  <2>1. state'.lastSeen = state.started /\ state'.started = None
    BY <1>1, <1>2, <1>9, <1>11, AfterFinish
  <2>2. PassCovers'
    BY <2>1 DEF PassCovers
  <2>a. MarksAreSound'
    <3>1. marks' = marks \cup {state.started} /\ state.started \in 0..clock
      BY <1>1, <1>2, <1>9, <1>11
    <3> QED
      BY <1>1, <1>2, <2>1, <3>1 DEF MarksAreSound
  <2>3. ASSUME NEW p \in Listed, origin < p.at, p.at <= state.started
        PROVE  Accounted(p)'
    <3>1. p \in Post /\ Printed(p) /\ p.date \in Nat
      BY <1>1, ListedArePrinted, PrintedDates
    <3>2. CASE p.date <= state.floor
      BY <1>10, <1>a, <2>3, <3>2
    <3>3. CASE ~(p.date <= state.floor)
      <4>1. state.floor < p.date
        BY <1>1, <3>1, <3>3
      <4>2. p \in Wanted
        BY <2>3, <3>1, <4>1 DEF Wanted
      <4> QED
        BY <1>3, <1>9, <1>11, <4>2, LastResponse DEF Accounted
    <3> QED
      BY <3>2, <3>3
  <2>4. WatermarkIsComplete'
    BY <1>2, <1>6, <2>1, <2>3 DEF WatermarkIsComplete, Vouched
  <2> QED
    BY <1>4, <1>8, <2>2, <2>4, <2>a DEF CompleteInv
<1>12. CASE ~Finished
  <2>1. /\ state'.lastSeen = state.lastSeen /\ state'.floor = state.floor
        /\ state'.started = state.started /\ state'.cursor = walk.cursor
    BY <1>1, <1>2, <1>12 DEF State
  <2>2. Wanted' = Wanted /\ Vouched' = Vouched
    BY <1>2, <1>6, <2>1 DEF Wanted, Vouched
  <2>3. WatermarkIsComplete'
    BY <1>1, <1>a, <2>2 DEF WatermarkIsComplete
  <2>a. MarksAreSound'
    BY <1>1, <1>2, <1>12, <2>1 DEF MarksAreSound
  <2>4. walk.more /\ Len(AboveFloor) = Len(walk.posts)
    <3>1. Len(AboveFloor) \in 0..Len(walk.posts) /\ Len(walk.posts) \in Nat
      BY <1>1, AboveFloorIsFront DEF Walk
    <3> QED
      BY <1>12, <3>1 DEF Finished
  <2>5. CursorCovers(listing, walk.cursor, Wanted, Brought')
    <3>1. CursorCovers(listing, walk.cursor, Wanted, Brought \cup Posts(walk))
      BY <1>2, <1>10, <2>4 DEF WalkCovers
    <3>2. ASSUME NEW p \in Wanted, p \in Brought \cup Posts(walk) PROVE p \in Brought'
      <4>1. CASE p \in Brought
        BY <1>3, <4>1
      <4>2. CASE p \in Posts(walk)
        <5>1. PICK k \in 1..Len(walk.posts) : p = walk.posts[k]
          BY <4>2 DEF Posts, Front
        <5> QED
          BY <2>4, <5>1, WantedAreAccepted
      <4> QED
        BY <3>2, <4>1, <4>2
    <3> QED
      BY <3>1, <3>2, CoversMore
  <2>6. WalkCovers(listing, walk', Wanted, Brought')
    BY <1>5, NoWalkCovers
  <2>7. \A p \in Listed : origin < p.at /\ p.date <= state.floor => Accounted(p)'
    BY <1>10, <1>a
  <2>8. PassCovers'
    BY <1>2, <1>6, <1>10, <2>1, <2>2, <2>5, <2>6, <2>7 DEF PassCovers
  <2> QED
    BY <1>4, <1>8, <2>3, <2>8, <2>a DEF CompleteInv
<1> QED
  BY <1>11, <1>12

LEMMA CompleteNext ==
  ASSUME DatesParse, CompleteInv, [Next]_vars
  PROVE  CompleteInv'
<1>1. CASE Poll
  BY <1>1, CompletePollBegin DEF Poll
<1>2. CASE Request
  BY <1>2, CompleteRequest
<1>3. CASE Response
  BY <1>3, CompleteResponse
<1>4. CASE PollThrows
  BY <1>4, CompleteThrows
<1>5. CASE Engine
  BY <1>5, CompleteEngine
<1>6. CASE Source
  BY <1>6, CompleteSource
<1>7. CASE UNCHANGED vars
  <2>1. /\ clock' = clock /\ listing' = listing /\ cache' = cache /\ failures' = failures
        /\ walk' = walk /\ state' = state /\ poll' = poll /\ emitted' = emitted
        /\ thrown' = thrown /\ hidden' = hidden /\ marks' = marks /\ origin' = origin
        /\ resets' = resets
    BY <1>7 DEF vars
  <2>2. TriggerInv' /\ CacheIsSound'
    BY <1>7, <2>1, NextTrigger, CachedStay DEF CompleteInv
  <2>3. /\ Emitted' = Emitted /\ Brought' = Brought /\ Wanted' = Wanted /\ Listed' = Listed
        /\ Vouched' = Vouched
    BY <2>1 DEF Emitted, Brought, Wanted, Listed, Vouched
  <2>4. \A p : Accounted(p) => Accounted(p)'
    BY <2>1, <2>3, AccountedStays
  <2>5. SourceIsSound' /\ MarksAreSound'
    BY <2>1 DEF CompleteInv, SourceIsSound, Printed, MarksAreSound
  <2>6. PassCovers'
    BY <2>1, <2>3, <2>4 DEF CompleteInv, PassCovers
  <2>7. WatermarkIsComplete'
    BY <2>3, <2>4 DEF CompleteInv, WatermarkIsComplete
  <2> QED
    BY <2>2, <2>5, <2>6, <2>7 DEF CompleteInv
<1> QED
  BY <1>1, <1>2, <1>3, <1>4, <1>5, <1>6, <1>7 DEF Next

(* Where dates parse the inductive invariant holds, for every rounding of    *)
(* dates and every lifetime of cached pages: of a pass, what is wanted and   *)
(* behind the stored cursor was brought or is known to be lost, a call       *)
(* continues from there, and no row of a cached page has a post behind its   *)
(* place that is older than it (TakuhaiCrawlerTrigger.node.ts:86-160,        *)
(* crawl.go:153-245, cache.go:46-70).                                       *)
THEOREM CompleteHolds == TidyListings /\ DatesParse => (Spec => []CompleteInv)
<1> SUFFICES ASSUME TidyListings, DatesParse PROVE Spec => []CompleteInv
  OBVIOUS
<1>1. Init => CompleteInv
  BY CompleteBegins
<1>2. CompleteInv /\ [Next]_vars => CompleteInv'
  BY CompleteNext
<1> QED
  BY <1>1, <1>2, PTL DEF Spec

(* The watermark is complete up to three losses: when it moves to the        *)
(* instant a pass began, every post listed up to it was emitted, was in the  *)
(* hands of a poll that threw, was kept from its pass by an outdated cached  *)
(* page, or bears a date rounded below an earlier watermark; for every page  *)
(* size, batch size, rounding and cache lifetime, whatever is listed while   *)
(* the pass runs and whenever the state is reset                             *)
(* (TakuhaiCrawlerTrigger.node.ts:143-160).                                 *)
THEOREM WatermarkHolds == TidyListings /\ DatesParse => (Spec => []WatermarkIsComplete)
<1> SUFFICES ASSUME TidyListings, DatesParse PROVE Spec => []WatermarkIsComplete
  OBVIOUS
<1>1. Spec => []CompleteInv
  BY CompleteHolds
<1>2. CompleteInv => WatermarkIsComplete
  BY DEF CompleteInv
<1> QED
  BY <1>1, <1>2, PTL
=============================================================================
