-------------------------- MODULE PageCacheProofs --------------------------
(***************************************************************************)
(* Proofs about PageCache for every number of walks and pages, every time   *)
(* to live, request timeout and rate limit.                                 *)
(***************************************************************************)
EXTENDS PageCache, FiniteSetTheorems, TLAPS

(* A walk that waits for nothing. *)
LEMMA IdleType ==
  /\ Idle \in Request /\ Idle.pc = "idle" /\ Idle.age = 0
<1>1. 0 \in Nat /\ 0 \in 0..Timeout
  BY PageCacheAssumption
<1>2. QED
  BY <1>1 DEF Idle, Request

(* The entries of the cache are no placeholders. *)
LEMMA EntryType ==
  /\ NULL \notin Entry /\ NULL \notin 0..Old
  /\ Old \in Nat /\ Timeout < Old /\ TTL + Timeout < Old
<1>1. Old \in Nat /\ Timeout < Old /\ TTL + Timeout < Old
  BY PageCacheAssumption DEF Old
<1>2. 0..TTL \subseteq Nat /\ 0..Old \subseteq Nat
  OBVIOUS
<1>3. Entry \subseteq [left: Nat, age: Nat]
  BY <1>2 DEF Entry
<1>4. QED
  BY <1>1, <1>2, <1>3, PageCacheAssumption

(* The request of one walk changes; the cache stays. *)
LEMMA RequestStep ==
  ASSUME CacheInv, NEW w \in Walks, NEW q \in Request, req' = [req EXCEPT ![w] = q],
         UNCHANGED <<items, newest, raced>>, limiter' \in 0..(MaxDebt + Interval),
         q.pc # "idle" => req[w].pc # "idle" /\ q.page = req[w].page,
         q.pc # "body" => q.age = 0,
         q.pc \in {"fetch", "body"} => q.age + q.left <= Timeout,
         q.pc = "body" => (req[w].pc = "body" /\ q.age = req[w].age) \/ q.age = 0
  PROVE  CacheInv'
<1>1. req \in [Walks -> Request]
  BY DEF CacheInv, TypeOK
<1>2. req'[w] = q /\ \A v \in Walks \ {w} : req'[v] = req[v]
  BY <1>1
<1>3. TypeOK'
  BY <1>1 DEF CacheInv, TypeOK
<1>4. \A v \in Walks : RequestIsSound(v)'
  BY <1>2 DEF CacheInv, RequestIsSound
<1>5. \A p \in Pages : EntryIsSound(p)'
  BY DEF CacheInv, EntryIsSound, Fresh
<1>6. ASSUME NEW p \in Pages PROVE FetchIsSound(p)'
  <2> SUFFICES ASSUME p \notin raced, NEW v \in Walks, v \in Fetching(p)'
               PROVE  /\ ~Fresh(p)
                      /\ \A u \in Fetching(p)' : u = v
                      /\ req'[v].pc = "body" /\ newest[p] # NULL => req'[v].age <= newest[p]
    BY DEF FetchIsSound, Fetching, Fresh
  <2>1. Fetching(p)' \subseteq Fetching(p)
    BY <1>2 DEF Fetching
  <2>2. ~Fresh(p) /\ \A u \in Fetching(p)' : u = v
    BY <2>1 DEF CacheInv, FetchIsSound
  <2>3. ASSUME req'[v].pc = "body", newest[p] # NULL PROVE req'[v].age <= newest[p]
    <3>1. newest[p] \in 0..Old
      BY <2>3 DEF CacheInv, TypeOK
    <3>2. req[v].pc = "body" => req[v].age <= newest[p]
      BY <2>1, <2>3 DEF CacheInv, FetchIsSound
    <3>3. CASE v = w
      BY <1>2, <2>3, <3>1, <3>2, <3>3
    <3>4. CASE v # w
      BY <1>2, <2>3, <3>2, <3>4
    <3>5. QED
      BY <3>3, <3>4
  <2>4. QED
    BY <2>2, <2>3
<1>7. NewestUnlessRaced'
  BY DEF CacheInv, NewestUnlessRaced, Fresh
<1>8. QED
  BY <1>3, <1>4, <1>5, <1>6, <1>7 DEF CacheInv

(* A hit: the copy the walk is given is not newer than the newest, and of a *)
(* page that was not raced it is the newest.                                *)
LEMMA HitStep ==
  ASSUME CacheInv, NEW w \in Walks, NEW p \in Pages, Hit(w, p)
  PROVE  CacheInv'
<1>1. /\ UNCHANGED <<items, limiter, req, raced>> /\ Fresh(p)
      /\ newest' = [newest EXCEPT ![p] = IF @ = NULL \/ items[p].age < @ THEN items[p].age ELSE @]
      /\ newest \in [Pages -> 0..Old \cup {NULL}]
      /\ items[p] \in Entry
  BY DEF Hit, Given, CacheInv, TypeOK, Fresh
<1>2. items[p].age \in 0..Old
  BY <1>1 DEF Entry
<1>3. newest' \in [Pages -> 0..Old \cup {NULL}]
  BY <1>1, <1>2
<1>4. \A q \in Pages \ {p} : newest'[q] = newest[q]
  BY <1>1
<1>5. p \notin raced => newest'[p] = items[p].age
  <2> SUFFICES ASSUME p \notin raced PROVE newest'[p] = items[p].age
    OBVIOUS
  <2>1. newest[p] = items[p].age
    BY <1>1 DEF CacheInv, NewestUnlessRaced
  <2>2. QED
    BY <1>1, <1>2, <2>1
<1>6. TypeOK'
  BY <1>1, <1>3 DEF CacheInv, TypeOK
<1>7. \A v \in Walks : RequestIsSound(v)'
  BY <1>1 DEF CacheInv, RequestIsSound
<1>8. \A q \in Pages : EntryIsSound(q)'
  BY <1>1 DEF CacheInv, EntryIsSound, Fresh
<1>9. ASSUME NEW q \in Pages PROVE FetchIsSound(q)'
  <2>1. CASE q = p
    BY <1>1, <2>1 DEF CacheInv, FetchIsSound, Fetching, Fresh
  <2>2. CASE q # p
    BY <1>1, <1>4, <2>2 DEF CacheInv, FetchIsSound, Fetching, Fresh
  <2>3. QED
    BY <2>1, <2>2
<1>10. NewestUnlessRaced'
  BY <1>1, <1>4, <1>5 DEF CacheInv, NewestUnlessRaced, Fresh
<1>11. QED
  BY <1>6, <1>7, <1>8, <1>9, <1>10 DEF CacheInv

(* A miss: a page is raced exactly while a second fetch of it was started    *)
(* under another.                                                           *)
LEMMA MissStep ==
  ASSUME CacheInv, NEW w \in Walks, NEW p \in Pages, Miss(w, p)
  PROVE  CacheInv'
<1> DEFINE f == Idle
           q == [f EXCEPT !.pc = "wait", !.page = p, !.left = limiter]
<1>1. f \in Request /\ f.age = 0 /\ limiter \in Nat
  BY IdleType, PageCacheAssumption DEF CacheInv, TypeOK
<1>2. req' = [req EXCEPT ![w] = q]
  BY DEF Miss
<1> HIDE DEF f
<1>3. q \in Request /\ q.pc = "wait" /\ q.page = p /\ q.age = 0
  BY <1>1 DEF Request
<1> HIDE DEF q
<1>4. /\ req \in [Walks -> Request] /\ req[w].pc = "idle" /\ ~Fresh(p)
      /\ raced' = IF Fetching(p) = {} THEN raced \ {p} ELSE raced \cup {p}
      /\ UNCHANGED <<items, newest>>
  BY DEF Miss, CacheInv, TypeOK
<1>5. req'[w] = q /\ \A v \in Walks \ {w} : req'[v] = req[v]
  BY <1>2, <1>4
<1>6. limiter' \in 0..(MaxDebt + Interval)
  BY <1>1, PageCacheAssumption DEF Miss
<1>7. TypeOK'
  BY <1>2, <1>3, <1>4, <1>6 DEF CacheInv, TypeOK
<1>8. \A v \in Walks : RequestIsSound(v)'
  BY <1>3, <1>5 DEF CacheInv, RequestIsSound
<1>9. \A x \in Pages : EntryIsSound(x)'
  BY <1>4 DEF CacheInv, EntryIsSound, Fresh
<1>10. ASSUME NEW x \in Pages PROVE FetchIsSound(x)'
  <2>1. CASE x = p
    <3> SUFFICES ASSUME Fetching(p) = {}
                 PROVE  FetchIsSound(p)'
      BY <1>4, <2>1 DEF FetchIsSound
    <3>1. Fetching(p)' = {w}
      BY <1>3, <1>5 DEF Fetching
    <3>2. QED
      BY <1>3, <1>4, <1>5, <3>1 DEF FetchIsSound, Fresh
  <2>2. CASE x # p
    <3>1. Fetching(x)' = Fetching(x) /\ w \notin Fetching(x)
      BY <1>3, <1>4, <1>5, <2>2 DEF Fetching
    <3>2. x \in raced' <=> x \in raced
      BY <1>4, <2>2
    <3>3. \A v \in Fetching(x) : req'[v] = req[v]
      BY <1>5, <3>1 DEF Fetching
    <3>4. QED
      BY <1>4, <3>1, <3>2, <3>3 DEF CacheInv, FetchIsSound, Fresh
  <2>3. QED
    BY <2>1, <2>2
<1>11. NewestUnlessRaced'
  BY <1>4 DEF CacheInv, NewestUnlessRaced, Fresh
<1>12. QED
  BY <1>7, <1>8, <1>9, <1>10, <1>11 DEF CacheInv

(* A request is sent, rendered, fails or is given up. *)
LEMMA FetchStep ==
  ASSUME CacheInv, NEW w \in Walks, Send(w) \/ CancelWait(w) \/ Render(w) \/ Fail(w)
  PROVE  CacheInv'
<1>1. /\ req \in [Walks -> Request] /\ req[w] \in Request /\ RequestIsSound(w)
      /\ limiter \in 0..(MaxDebt + Interval)
  BY DEF CacheInv, TypeOK
<1>2. CASE Send(w)
  <2> DEFINE q == [req[w] EXCEPT !.pc = "fetch", !.left = Timeout]
  <2>1. q \in Request /\ q.pc = "fetch" /\ q.left = Timeout /\ q.page = req[w].page
    BY <1>1, PageCacheAssumption DEF Request
  <2>2. q.age = req[w].age
    BY <1>1 DEF Request
  <2>3. req' = [req EXCEPT ![w] = q] /\ UNCHANGED <<items, limiter, newest, raced>>
    BY <1>1, <1>2 DEF Send
  <2> HIDE DEF q
  <2>4. req[w].pc = "wait" /\ req[w].age = 0
    BY <1>1, <1>2 DEF Send, RequestIsSound
  <2>5. q.age + q.left <= Timeout
    BY <2>1, <2>2, <2>4, PageCacheAssumption
  <2>6. QED
    BY <1>1, <2>1, <2>2, <2>3, <2>4, <2>5, RequestStep
<1>3. CASE Render(w)
  <2> DEFINE q == [req[w] EXCEPT !.pc = "body", !.age = 0]
  <2>1. 0 \in 0..Timeout
    BY PageCacheAssumption
  <2>2. q \in Request /\ q.pc = "body" /\ q.age = 0 /\ q.page = req[w].page
    BY <1>1, <2>1 DEF Request
  <2>3. q.left = req[w].left
    BY <1>1 DEF Request
  <2>4. req' = [req EXCEPT ![w] = q] /\ UNCHANGED <<items, limiter, newest, raced>>
    BY <1>1, <1>3 DEF Render
  <2> HIDE DEF q
  <2>5. req[w].pc = "fetch" /\ req[w].age = 0 /\ req[w].age + req[w].left <= Timeout
    BY <1>1, <1>3 DEF Render, RequestIsSound
  <2>6. QED
    BY <1>1, <2>2, <2>3, <2>4, <2>5, RequestStep
<1>4. CASE CancelWait(w)
  <2>1. limiter' \in 0..(MaxDebt + Interval)
    BY <1>1, <1>4, PageCacheAssumption DEF CancelWait, Request
  <2>2. req' = [req EXCEPT ![w] = Idle] /\ UNCHANGED <<items, newest, raced>>
    BY <1>4 DEF CancelWait
  <2>3. QED
    BY <2>1, <2>2, IdleType, RequestStep
<1>5. CASE Fail(w)
  <2>1. req' = [req EXCEPT ![w] = Idle] /\ UNCHANGED <<items, limiter, newest, raced>>
    BY <1>5 DEF Fail
  <2>2. QED
    BY <1>1, <2>1, IdleType, RequestStep
<1>6. QED
  BY <1>2, <1>3, <1>4, <1>5
(* A page arrives: every entry that was fresh stays, and the page is stored *)
(* with its age, which is the least any walk was given unless another fetch *)
(* of it overlapped.                                                        *)
LEMMA ReceiveStep ==
  ASSUME CacheInv, NEW w \in Walks, Receive(w)
  PROVE  CacheInv'
<1>1. /\ req \in [Walks -> Request] /\ req[w] \in Request /\ RequestIsSound(w)
      /\ items \in [Pages -> Entry \cup {NULL}] /\ req[w].pc = "body"
      /\ newest \in [Pages -> 0..Old \cup {NULL}]
      /\ UNCHANGED <<limiter, raced>>
  BY DEF Receive, CacheInv, TypeOK
<1>2. PICK p \in Pages, a \in 0..Timeout : p = req[w].page /\ a = req[w].age
  BY <1>1 DEF RequestIsSound, Request
<1>3. a \in 0..Old /\ a <= Timeout
  BY EntryType, PageCacheAssumption
<1>4. /\ items' = IF TTL = 0 THEN items ELSE [Swept EXCEPT ![p] = [left |-> TTL, age |-> a]]
      /\ newest' = [newest EXCEPT ![p] = IF @ = NULL \/ a < @ THEN a ELSE @]
      /\ req' = [req EXCEPT ![w] = Idle]
  BY <1>2 DEF Receive, Put, Given
<1>5. req'[w] = Idle /\ \A v \in Walks \ {w} : req'[v] = req[v]
  BY <1>1, <1>4
<1>6. \A x \in Pages \ {p} : /\ newest'[x] = newest[x]
                             /\ Fresh(x)' => items'[x] = items[x] /\ Fresh(x)
  BY <1>1, <1>2, <1>4 DEF Swept, Fresh
<1>7. Fresh(p)' => items'[p].left = TTL /\ items'[p].age = a
  <2>1. CASE TTL = 0
    <3>1. \A e \in Entry : ~(e.left > 0)
      BY <2>1 DEF Entry
    <3>2. QED
      BY <1>1, <1>2, <1>4, <2>1, <3>1 DEF Fresh
  <2>2. CASE TTL # 0
    BY <1>2, <1>4, <2>2 DEF Swept
  <2>3. QED
    BY <2>1, <2>2
<1>8. p \notin raced => newest'[p] = a
  <2> SUFFICES ASSUME p \notin raced PROVE newest'[p] = a
    OBVIOUS
  <2>1. w \in Fetching(p)
    BY <1>1, <1>2 DEF Fetching
  <2>2. newest[p] # NULL => a <= newest[p] /\ newest[p] \in 0..Old
    BY <1>1, <1>2, <2>1 DEF CacheInv, FetchIsSound
  <2>3. newest'[p] = IF newest[p] = NULL \/ a < newest[p] THEN a ELSE newest[p]
    BY <1>1, <1>2, <1>4
  <2>4. QED
    BY <1>3, <2>2, <2>3
<1>9. TypeOK'
  <2>1. req' \in [Walks -> Request]
    BY <1>1, <1>4, IdleType
  <2>2. newest' \in [Pages -> 0..Old \cup {NULL}]
    BY <1>1, <1>2, <1>3, <1>4
  <2>3. [left |-> TTL, age |-> a] \in Entry
    BY <1>3, PageCacheAssumption DEF Entry
  <2>4. items' \in [Pages -> Entry \cup {NULL}]
    BY <1>1, <1>2, <1>4, <2>3 DEF Swept
  <2>5. QED
    BY <1>1, <2>1, <2>2, <2>4 DEF CacheInv, TypeOK
<1>10. \A v \in Walks : RequestIsSound(v)'
  BY <1>5, IdleType DEF CacheInv, RequestIsSound
<1>11. ASSUME NEW x \in Pages PROVE EntryIsSound(x)'
  <2>1. CASE x = p
    BY <1>3, <1>7, <2>1, PageCacheAssumption DEF EntryIsSound
  <2>2. CASE x # p
    BY <1>6, <2>2 DEF CacheInv, EntryIsSound
  <2>3. QED
    BY <2>1, <2>2
<1>12. ASSUME NEW x \in Pages PROVE FetchIsSound(x)'
  <2>1. Fetching(x)' \subseteq Fetching(x) \ {w}
    BY <1>5, IdleType DEF Fetching
  <2>2. CASE x = p
    <3>1. w \in Fetching(p)
      BY <1>1, <1>2 DEF Fetching
    <3>2. x \notin raced => Fetching(x)' = {}
      BY <2>1, <2>2, <3>1 DEF CacheInv, FetchIsSound
    <3>3. QED
      BY <1>1, <3>2 DEF FetchIsSound
  <2>3. CASE x # p
    <3>1. \A v \in Fetching(x)' : req'[v] = req[v]
      BY <1>5, <2>1 DEF Fetching
    <3>2. QED
      BY <1>1, <1>6, <2>1, <2>3, <3>1 DEF CacheInv, FetchIsSound
  <2>4. QED
    BY <2>2, <2>3
<1>13. NewestUnlessRaced'
  BY <1>1, <1>6, <1>7, <1>8 DEF CacheInv, NewestUnlessRaced
<1>14. QED
  BY <1>9, <1>10, <1>11, <1>12, <1>13 DEF CacheInv

(* Time passes: entries lose what they age, and a body ages with the copies *)
(* it is compared to.                                                       *)
LEMMA TickStep ==
  ASSUME CacheInv, Tick
  PROVE  CacheInv'
<1>1. /\ req \in [Walks -> Request] /\ items \in [Pages -> Entry \cup {NULL}]
      /\ newest \in [Pages -> 0..Old \cup {NULL}] /\ raced' = raced /\ raced \subseteq Pages
      /\ limiter \in 0..(MaxDebt + Interval)
  BY DEF Tick, CacheInv, TypeOK
<1>2. \A a \in 0..Old : Older(a) \in 0..Old /\ (a < Old => Older(a) = a + 1)
  BY EntryType DEF Older
<1>3. ASSUME NEW w \in Walks
      PROVE  /\ req'[w] \in Request
             /\ req'[w].pc = req[w].pc /\ req'[w].page = req[w].page
             /\ req[w].pc # "idle" => req'[w].left = req[w].left - 1
             /\ req'[w].age = IF req[w].pc = "body" THEN req[w].age + 1 ELSE req[w].age
  <2> DEFINE l == IF req[w].pc = "idle" THEN req[w].left ELSE req[w].left - 1
             a == IF req[w].pc = "body" THEN req[w].age + 1 ELSE req[w].age
  <2>1. req[w] \in Request /\ RequestIsSound(w)
    BY <1>1 DEF CacheInv
  <2>2. req[w].pc # "idle" => req[w].left > 0
    BY <2>1 DEF Tick, Due, Request
  <2>3. l \in Nat /\ a \in 0..Timeout
    BY <2>1, <2>2, PageCacheAssumption DEF RequestIsSound, Request
  <2>4. req'[w] = [req[w] EXCEPT !.left = l, !.age = a]
    BY DEF Tick, Running
  <2> HIDE DEF l, a
  <2>5. req'[w] \in Request /\ req'[w].left = l /\ req'[w].age = a
    BY <2>1, <2>3, <2>4 DEF Request
  <2>6. req'[w].pc = req[w].pc /\ req'[w].page = req[w].page
    BY <2>1, <2>3, <2>4 DEF Request
  <2>7. QED
    BY <2>5, <2>6 DEF l, a
<1>4. ASSUME NEW p \in Pages
      PROVE  /\ items'[p] \in Entry \cup {NULL}
             /\ Fresh(p)' => /\ Fresh(p) /\ items'[p].left = items[p].left - 1
                             /\ items'[p].age = Older(items[p].age)
  <2>1. CASE items[p] = NULL
    BY <2>1 DEF Tick, Fresh
  <2>2. CASE items[p] # NULL
    <3> DEFINE l == IF items[p].left > 0 THEN items[p].left - 1 ELSE 0
               a == Older(items[p].age)
    <3>1. items[p] \in Entry
      BY <1>1, <2>2
    <3>2. l \in 0..TTL /\ a \in 0..Old
      BY <1>2, <3>1, PageCacheAssumption DEF Entry
    <3>3. items'[p] = [left |-> l, age |-> a]
      BY <2>2 DEF Tick
    <3>4. l > 0 => items[p].left > 0 /\ l = items[p].left - 1
      BY <3>1 DEF Entry
    <3> HIDE DEF l
    <3>5. items'[p] \in Entry /\ items'[p].left = l /\ items'[p].age = a
      BY <3>2, <3>3 DEF Entry
    <3>6. QED
      BY <2>2, <3>4, <3>5 DEF Fresh
  <2>3. QED
    BY <2>1, <2>2
<1>5. \A p \in Pages : newest'[p] = IF newest[p] = NULL THEN NULL ELSE Older(newest[p])
  BY DEF Tick
<1>6. TypeOK'
  <2>1. req' \in [Walks -> Request]
    BY <1>3 DEF Tick
  <2>2. items' \in [Pages -> Entry \cup {NULL}]
    BY <1>4 DEF Tick
  <2>3. newest' \in [Pages -> 0..Old \cup {NULL}]
    BY <1>1, <1>2 DEF Tick
  <2>4. limiter' \in 0..(MaxDebt + Interval)
    BY <1>1, PageCacheAssumption DEF Tick
  <2>5. QED
    BY <1>1, <2>1, <2>2, <2>3, <2>4 DEF TypeOK
<1>7. ASSUME NEW w \in Walks PROVE RequestIsSound(w)'
  <2>1. req[w] \in Request /\ RequestIsSound(w)
    BY <1>1 DEF CacheInv
  <2>2. req[w].age \in 0..Timeout /\ req[w].left \in Nat
    BY <2>1 DEF Request
  <2>3. QED
    BY <1>3, <2>1, <2>2, PageCacheAssumption DEF RequestIsSound
<1>8. ASSUME NEW p \in Pages PROVE EntryIsSound(p)'
  <2> SUFFICES ASSUME Fresh(p)' PROVE items'[p].age + items'[p].left <= TTL + Timeout
    BY DEF EntryIsSound
  <2>1. /\ Fresh(p) /\ items'[p].left = items[p].left - 1
        /\ items'[p].age = Older(items[p].age) /\ items[p] \in Entry
    BY <1>1, <1>4 DEF Fresh
  <2>2. /\ items[p].age \in 0..Old /\ items[p].left \in 0..TTL /\ items[p].left > 0
        /\ items[p].age + items[p].left <= TTL + Timeout
    BY <2>1 DEF CacheInv, EntryIsSound, Fresh, Entry
  <2>3. items'[p].age = items[p].age + 1
    BY <1>2, <2>1, <2>2, EntryType, PageCacheAssumption
  <2>4. QED
    BY <2>1, <2>2, <2>3, PageCacheAssumption
<1>9. ASSUME NEW p \in Pages PROVE FetchIsSound(p)'
  <2> SUFFICES ASSUME p \notin raced, NEW w \in Walks, w \in Fetching(p)'
               PROVE  /\ ~Fresh(p)'
                      /\ \A v \in Fetching(p)' : v = w
                      /\ req'[w].pc = "body" /\ newest'[p] # NULL => req'[w].age <= newest'[p]
    BY <1>1 DEF FetchIsSound, Fetching
  <2>1. Fetching(p)' = Fetching(p)
    BY <1>3 DEF Fetching
  <2>2. ~Fresh(p)' /\ \A v \in Fetching(p)' : v = w
    BY <1>4, <2>1 DEF CacheInv, FetchIsSound
  <2>3. ASSUME req'[w].pc = "body", newest'[p] # NULL PROVE req'[w].age <= newest'[p]
    <3>1. req[w].pc = "body" /\ newest[p] # NULL /\ newest[p] \in 0..Old
      BY <1>1, <1>3, <1>5, <2>3
    <3>2. req[w].age <= newest[p] /\ req[w].age \in 0..Timeout
      BY <1>1, <2>1, <3>1 DEF CacheInv, FetchIsSound, Request
    <3>3. req'[w].age = req[w].age + 1 /\ req'[w].age \in 0..Timeout
      BY <1>3, <3>1 DEF Request
    <3>4. newest'[p] = Older(newest[p])
      BY <1>5, <3>1
    <3>5. QED
      BY <3>1, <3>2, <3>3, <3>4, EntryType, PageCacheAssumption DEF Older
  <2>4. QED
    BY <2>2, <2>3
<1>10. NewestUnlessRaced'
  <2> SUFFICES ASSUME NEW p \in Pages \ raced, Fresh(p)' PROVE items'[p].age = newest'[p]
    BY <1>1 DEF NewestUnlessRaced
  <2>1. Fresh(p) /\ items'[p].age = Older(items[p].age) /\ items[p] \in Entry
    BY <1>1, <1>4 DEF Fresh
  <2>2. items[p].age = newest[p] /\ newest[p] # NULL
    BY <2>1, EntryType DEF CacheInv, NewestUnlessRaced, Entry
  <2>3. QED
    BY <1>5, <2>1, <2>2
<1>11. QED
  BY <1>6, <1>7, <1>8, <1>9, <1>10 DEF CacheInv

-----------------------------------------------------------------------------
(* An empty cache. *)
LEMMA InitCache == Init => CacheInv
<1> SUFFICES ASSUME Init PROVE CacheInv
  OBVIOUS
<1>1. TypeOK
  BY IdleType, PageCacheAssumption DEF Init, TypeOK
<1>2. \A w \in Walks : RequestIsSound(w)
  BY IdleType DEF Init, RequestIsSound
<1>3. \A p \in Pages : ~Fresh(p) /\ Fetching(p) = {}
  BY IdleType DEF Init, Fresh, Fetching
<1>4. QED
  BY <1>1, <1>2, <1>3 DEF CacheInv, EntryIsSound, FetchIsSound, NewestUnlessRaced

(* Every step keeps the invariant. *)
LEMMA NextCache == CacheInv /\ [Next]_vars => CacheInv'
<1> SUFFICES ASSUME CacheInv, [Next]_vars PROVE CacheInv'
  OBVIOUS
<1>1. CASE UNCHANGED vars
  BY <1>1 DEF vars, CacheInv, TypeOK, RequestIsSound, EntryIsSound, FetchIsSound,
              NewestUnlessRaced, Fresh, Fetching
<1>2. QED
  BY <1>1, HitStep, MissStep, FetchStep, ReceiveStep, TickStep DEF Next

(* Every reachable state satisfies the inductive invariant. *)
THEOREM CacheHolds == Spec => []CacheInv
  BY InitCache, NextCache, PTL DEF Spec

(* Cached bytes are handed out for less than a TTL and one request timeout  *)
(* after the source rendered them (cache.go:83).                            *)
THEOREM RecentHits == Spec => []HitsAreRecent
<1>1. CacheInv => HitsAreRecent
  <2> SUFFICES ASSUME CacheInv, NEW p \in Pages, Fresh(p)
               PROVE  items[p].age < TTL + Timeout
    BY DEF HitsAreRecent
  <2>1. items[p] \in Entry /\ items[p].left > 0
    BY DEF CacheInv, TypeOK, Fresh
  <2>2. items[p].age + items[p].left <= TTL + Timeout
    BY DEF CacheInv, EntryIsSound
  <2>3. QED
    BY <2>1, <2>2, PageCacheAssumption DEF Entry
<1>2. QED
  BY <1>1, CacheHolds, PTL

(* A page goes back in time only when two fetches of it overlapped           *)
(* (cache.go:54).                                                           *)
THEOREM NewestCopy == Spec => []NewestUnlessRaced
<1>1. CacheInv => NewestUnlessRaced
  BY DEF CacheInv
<1>2. QED
  BY <1>1, CacheHolds, PTL
-----------------------------------------------------------------------------
(* The size of the cache. *)

(* Quotient and remainder. *)
LEMMA Division ==
  ASSUME NEW a \in Nat, NEW b \in Nat \ {0}
  PROVE  /\ a \div b \in Nat
         /\ (a \div b) * b <= a /\ a < (a \div b) * b + b
<1>1. a \div b \in Nat /\ a % b \in 0..(b - 1) /\ a = b * (a \div b) + (a % b)
  OBVIOUS
<1>2. b * (a \div b) = (a \div b) * b
  BY <1>1
<1>3. QED
  BY <1>1, <1>2

(* Multiplication keeps the order. *)
LEMMA Monotone ==
  ASSUME NEW a \in Nat, NEW b \in Nat, NEW c \in Nat, a <= b
  PROVE  a * c <= b * c /\ a * c \in Nat /\ (b + 1) * c = b * c + c
  OBVIOUS

(* Things that lie at least i apart below m: a quotient by i belongs to one *)
(* of them only.                                                            *)
LEMMA SpacedAreFew ==
  ASSUME NEW S, NEW i \in Nat \ {0}, NEW m \in Nat, NEW f \in [S -> Nat],
         \A x \in S : f[x] < m,
         \A x, y \in S : x # y => f[x] - f[y] >= i \/ f[y] - f[x] >= i
  PROVE  IsFiniteSet(S) /\ Cardinality(S) * i < m + i
<1>1. CASE S = {}
  <2>1. IsFiniteSet(S) /\ Cardinality(S) = 0
    BY <1>1, FS_EmptySet
  <2>2. QED
    BY <2>1
<1>2. CASE S # {}
  <2> DEFINE n == (m - 1) \div i
             g == [x \in S |-> f[x] \div i]
  <2>1. m - 1 \in Nat
    BY <1>2
  <2>2. n \in Nat /\ n * i <= m - 1 /\ m - 1 < n * i + i
    BY <2>1, Division
  <2>3. ASSUME NEW x \in S
        PROVE  g[x] \in Nat /\ g[x] * i <= f[x] /\ f[x] < g[x] * i + i
    BY Division
  <2> HIDE DEF n
  <2>4. ASSUME NEW x \in S PROVE g[x] \in 0..n
    <3>1. f[x] \in Nat /\ f[x] <= m - 1
      OBVIOUS
    <3> HIDE DEF g
    <3>2. CASE n + 1 <= g[x]
      <4>1. (n + 1) * i <= g[x] * i /\ (n + 1) * i = n * i + i
        BY <2>2, <2>3, <3>2, Monotone
      <4>2. g[x] * i \in Nat /\ n * i \in Nat
        BY <2>2, <2>3, Monotone
      <4>3. QED
        BY <2>1, <2>2, <2>3, <3>1, <4>1, <4>2
    <3>3. QED
      BY <2>2, <2>3, <3>2
  <2>5. ASSUME NEW x \in S, NEW y \in S, g[x] = g[y] PROVE x = y
    <3> HIDE DEF g
    <3>1. g[x] * i \in Nat
      BY <2>3, Monotone
    <3>2. QED
      BY <2>3, <2>5, <3>1
  <2>6. g \in Injection(S, 0..n)
    BY <2>4, <2>5 DEF Injection, IsInjective
  <2>7. IsFiniteSet(0..n) /\ Cardinality(0..n) = n + 1
    BY <2>2, FS_Interval
  <2> HIDE DEF g
  <2>8. IsFiniteSet(S) /\ Cardinality(S) <= n + 1
    BY <2>6, <2>7, FS_Injection
  <2>9. Cardinality(S) \in Nat
    BY <2>8, FS_CardinalityType
  <2>10. Cardinality(S) * i <= (n + 1) * i /\ (n + 1) * i = n * i + i /\ n * i \in Nat
    BY <2>2, <2>8, <2>9, Monotone
  <2>11. Cardinality(S) * i \in Nat
    BY <2>9, Monotone
  <2>12. QED
    BY <2>1, <2>2, <2>8, <2>10, <2>11
<1>3. QED
  BY <1>1, <1>2
(* The instants the spacing is about are numbers. *)
LEMMA TokenType ==
  ASSUME CacheInv
  PROVE  /\ limiter \in Nat
         /\ \A w \in Active : /\ w \in Walks /\ req[w] \in Request /\ Token(w) \in Int
                              /\ req[w].pc \in {"fetch", "body"} => Token(w) \in 0..Timeout
         /\ \A p \in Cached : p \in Pages /\ items[p] \in Entry /\ items[p].left \in 1..TTL
<1>1. limiter \in Nat
  BY PageCacheAssumption DEF CacheInv, TypeOK
<1>2. ASSUME NEW w \in Active
      PROVE  /\ w \in Walks /\ req[w] \in Request /\ Token(w) \in Int
             /\ req[w].pc \in {"fetch", "body"} => Token(w) \in 0..Timeout
  <2>1. w \in Walks /\ req[w] \in Request /\ RequestIsSound(w)
    BY DEF Active, CacheInv, TypeOK
  <2>2. req[w].left \in Nat /\ req[w].age \in Nat
    BY <2>1 DEF Request
  <2>3. QED
    BY <2>1, <2>2, PageCacheAssumption DEF Token, RequestIsSound
<1>3. ASSUME NEW p \in Cached
      PROVE  p \in Pages /\ items[p] \in Entry /\ items[p].left \in 1..TTL
  BY DEF Cached, Fresh, CacheInv, TypeOK, Entry
<1>4. QED
  BY <1>1, <1>2, <1>3

(* The cache is left alone, no request is new and none has another token;   *)
(* the limiter goes on, or takes back the last token, of a request that     *)
(* ended.                                                                   *)
LEMMA SpacedStep ==
  ASSUME BoundInv, CacheInv', UNCHANGED items, Active' \subseteq Active,
         \A v \in Active' : Token(v)' = Token(v),
         \/ limiter' = limiter
         \/ /\ limiter' = limiter - Interval
            /\ \E w \in Active \ Active' : Token(w) = Interval - limiter
  PROVE  BoundInv'
<1>1. PICK held \in [Pages -> 0..(TTL + Timeout)] : TokensAreSpaced(held)
  BY DEF BoundInv
<1>2. CacheInv /\ Interval \in Nat /\ limiter \in Nat /\ limiter' \in Nat
  BY TokenType, PageCacheAssumption DEF BoundInv, CacheInv, TypeOK
<1>3. Cached' = Cached
  BY DEF Cached, Fresh
<1>4. \A p \in Cached : held[p] \in Int
  BY <1>1, <1>2, TokenType, PageCacheAssumption
<1>5. /\ \A p \in Cached : held[p] >= Interval - limiter'
      /\ \A v \in Active' : Token(v) >= Interval - limiter'
  <2>1. CASE limiter' = limiter
    BY <1>1, <2>1 DEF TokensAreSpaced
  <2>2. CASE /\ limiter' = limiter - Interval
             /\ \E w \in Active \ Active' : Token(w) = Interval - limiter
    <3>1. PICK w \in Active \ Active' : Token(w) = Interval - limiter
      BY <2>2
    <3>2. ASSUME NEW p \in Cached PROVE held[p] >= Interval - limiter'
      <4>1. held[p] >= Interval - limiter /\ Apart(held[p], Token(w)) /\ held[p] \in Int
        BY <1>1, <1>4, <3>1 DEF TokensAreSpaced
      <4>2. QED
        BY <1>2, <2>2, <3>1, <4>1 DEF Apart
    <3>3. ASSUME NEW v \in Active' PROVE Token(v) >= Interval - limiter'
      <4>1. v \in Active /\ v # w /\ Token(v) \in Int
        BY <1>2, <3>1, TokenType
      <4>2. Token(v) >= Interval - limiter /\ Apart(Token(v), Token(w))
        BY <1>1, <3>1, <4>1 DEF TokensAreSpaced
      <4>3. QED
        BY <1>2, <2>2, <3>1, <4>1, <4>2 DEF Apart
    <3>4. QED
      BY <3>2, <3>3
  <2>3. QED
    BY <2>1, <2>2
<1>6. TokensAreSpaced(held)'
  <2>1. \A p \in Cached' :
          /\ TTL - items'[p].left <= held[p] /\ held[p] <= TTL - items'[p].left + Timeout
          /\ held[p] >= Interval - limiter'
    BY <1>1, <1>3, <1>5 DEF TokensAreSpaced
  <2>2. \A p, q \in Cached' : p # q => Apart(held[p], held[q])
    BY <1>1, <1>3 DEF TokensAreSpaced
  <2>3. \A p \in Cached', w \in Active' : Apart(held[p], Token(w)')
    BY <1>1, <1>3 DEF TokensAreSpaced
  <2>4. \A v, w \in Active' : v # w => Apart(Token(v)', Token(w)')
    BY <1>1 DEF TokensAreSpaced
  <2>5. \A w \in Active' : Token(w)' >= Interval - limiter'
    BY <1>5
  <2>6. QED
    BY <2>1, <2>2, <2>3, <2>4, <2>5 DEF TokensAreSpaced, Apart
<1>7. EntriesBounded'
  BY DEF BoundInv, EntriesBounded
<1>8. QED
  BY <1>6, <1>7 DEF BoundInv

(* A miss takes the limiter's next token. *)
LEMMA MissIsSpaced ==
  ASSUME BoundInv, CacheInv', NEW w \in Walks, NEW x \in Pages, Miss(w, x)
  PROVE  BoundInv'
<1>1. PICK held \in [Pages -> 0..(TTL + Timeout)] : TokensAreSpaced(held)
  BY DEF BoundInv
<1>2. CacheInv /\ Interval \in Nat /\ limiter \in Nat /\ limiter' = limiter + Interval
  BY TokenType, PageCacheAssumption DEF BoundInv, Miss
<1>3. Cached' = Cached /\ items' = items
  BY DEF Cached, Fresh, Miss
<1>4. \A p \in Cached : held[p] \in Int
  BY <1>1, <1>2, TokenType, PageCacheAssumption
<1>5. req'[w].pc = "wait" /\ req'[w].left = limiter /\ \A v \in Walks \ {w} : req'[v] = req[v]
  <2> DEFINE f == Idle
  <2>1. f \in Request
    BY IdleType
  <2>2. req' = [req EXCEPT ![w] = [f EXCEPT !.pc = "wait", !.page = x, !.left = limiter]]
        /\ req \in [Walks -> Request]
    BY <1>2 DEF Miss, CacheInv, TypeOK
  <2> HIDE DEF f
  <2>3. QED
    BY <2>1, <2>2 DEF Request
<1>6. w \notin Active /\ Active' = Active \cup {w}
  BY <1>5 DEF Active, Miss
<1>7. Token(w)' = 0 - limiter
  BY <1>5 DEF Token
<1>8. \A v \in Active : v # w /\ Token(v)' = Token(v) /\ Token(v) \in Int
  BY <1>2, <1>5, <1>6, TokenType DEF Active, Token
<1>9. /\ \A p \in Cached : held[p] >= Interval - limiter
      /\ \A v \in Active : Token(v) >= Interval - limiter
  BY <1>1 DEF TokensAreSpaced
<1>10. /\ \A p \in Cached : Apart(held[p], Token(w)')
       /\ \A v \in Active : Apart(Token(v), Token(w)') /\ Apart(Token(w)', Token(v))
  BY <1>2, <1>4, <1>7, <1>8, <1>9 DEF Apart
<1>11. TokensAreSpaced(held)'
  <2>1. \A p \in Cached' :
          /\ TTL - items'[p].left <= held[p] /\ held[p] <= TTL - items'[p].left + Timeout
          /\ held[p] >= Interval - limiter'
    <3>1. \A p \in Cached : held[p] >= Interval - limiter'
      BY <1>2, <1>4, <1>9
    <3>2. QED
      BY <1>1, <1>3, <3>1 DEF TokensAreSpaced
  <2>2. \A p, q \in Cached' : p # q => Apart(held[p], held[q])
    BY <1>1, <1>3 DEF TokensAreSpaced
  <2>3. \A p \in Cached', v \in Active' : Apart(held[p], Token(v)')
    BY <1>1, <1>3, <1>6, <1>8, <1>10 DEF TokensAreSpaced
  <2>4. \A u, v \in Active' : u # v => Apart(Token(u)', Token(v)')
    BY <1>1, <1>6, <1>8, <1>10 DEF TokensAreSpaced
  <2>5. \A v \in Active' : Token(v)' >= Interval - limiter'
    BY <1>2, <1>6, <1>7, <1>8, <1>9
  <2>6. QED
    BY <2>1, <2>2, <2>3, <2>4, <2>5 DEF TokensAreSpaced, Apart
<1>12. EntriesBounded'
  BY <1>3 DEF BoundInv, EntriesBounded
<1>13. QED
  BY <1>3, <1>11, <1>12 DEF BoundInv
(* A hit or a step of one request: its token stays what it was. *)
LEMMA FetchIsSpaced ==
  ASSUME BoundInv, CacheInv', NEW w \in Walks,
         (\E p \in Pages : Hit(w, p)) \/ Send(w) \/ CancelWait(w) \/ Render(w) \/ Fail(w)
  PROVE  BoundInv'
<1>1. CacheInv /\ req \in [Walks -> Request] /\ req[w] \in Request /\ RequestIsSound(w)
  BY DEF BoundInv, CacheInv, TypeOK
<1>2. Interval \in Nat /\ Timeout \in Nat /\ limiter \in Nat /\ req[w].left \in Nat
  BY <1>1, TokenType, PageCacheAssumption DEF Request
<1>3. CASE \E p \in Pages : Hit(w, p)
  <2>1. UNCHANGED <<items, limiter, req>>
    BY <1>3 DEF Hit
  <2>2. Active' = Active /\ \A v \in Active' : Token(v)' = Token(v)
    BY <2>1 DEF Active, Token
  <2>3. QED
    BY <2>1, <2>2, SpacedStep
<1>4. CASE Send(w)
  <2> DEFINE q == [req[w] EXCEPT !.pc = "fetch", !.left = Timeout]
  <2>1. q.pc = "fetch" /\ q.left = Timeout
    BY <1>1 DEF Request
  <2>2. req' = [req EXCEPT ![w] = q] /\ UNCHANGED <<items, limiter>>
    BY <1>1, <1>4 DEF Send
  <2> HIDE DEF q
  <2>3. req'[w] = q /\ \A v \in Walks \ {w} : req'[v] = req[v]
    BY <1>1, <2>2
  <2>4. req[w].pc = "wait" /\ req[w].left = 0
    BY <1>4 DEF Send
  <2>5. Active' = Active
    BY <2>1, <2>3, <2>4 DEF Active
  <2>6. Token(w) = 0 /\ Token(w)' = 0
    BY <1>2, <2>1, <2>3, <2>4 DEF Token
  <2>7. \A v \in Active' : Token(v)' = Token(v)
    BY <2>3, <2>6 DEF Active, Token
  <2>8. QED
    BY <2>2, <2>5, <2>7, SpacedStep
<1>5. CASE Render(w)
  <2> DEFINE q == [req[w] EXCEPT !.pc = "body", !.age = 0]
  <2>1. q.pc = "body" /\ q.left = req[w].left
    BY <1>1 DEF Request
  <2>2. req' = [req EXCEPT ![w] = q] /\ UNCHANGED <<items, limiter>>
    BY <1>1, <1>5 DEF Render
  <2> HIDE DEF q
  <2>3. req'[w] = q /\ \A v \in Walks \ {w} : req'[v] = req[v]
    BY <1>1, <2>2
  <2>4. req[w].pc = "fetch"
    BY <1>5 DEF Render
  <2>5. Active' = Active
    BY <2>1, <2>3, <2>4 DEF Active
  <2>6. \A v \in Active' : Token(v)' = Token(v)
    BY <2>1, <2>3, <2>4 DEF Active, Token
  <2>7. QED
    BY <2>2, <2>5, <2>6, SpacedStep
<1>6. CASE CancelWait(w) \/ Fail(w)
  <2>1. req' = [req EXCEPT ![w] = Idle] /\ items' = items /\ w \in Active
    BY <1>6 DEF CancelWait, Fail, Active
  <2>2. req'[w].pc = "idle" /\ \A v \in Walks \ {w} : req'[v] = req[v]
    BY <1>1, <2>1, IdleType
  <2>3. Active' = Active \ {w} /\ \A v \in Active' : Token(v)' = Token(v)
    BY <2>2 DEF Active, Token
  <2>4. \/ limiter' = limiter
        \/ limiter' = limiter - Interval /\ Token(w) = Interval - limiter
    BY <1>2, <1>6 DEF CancelWait, Fail, Token
  <2>5. QED
    BY <2>1, <2>3, <2>4, SpacedStep
<1>7. QED
  BY <1>3, <1>4, <1>5, <1>6

(* Time passes for tokens and for what they are compared to. *)
LEMMA TickIsSpaced ==
  ASSUME BoundInv, CacheInv', Tick
  PROVE  BoundInv'
<1>1. PICK held \in [Pages -> 0..(TTL + Timeout)] : TokensAreSpaced(held)
  BY DEF BoundInv
<1>2. /\ CacheInv /\ Interval \in Nat /\ limiter \in Nat /\ limiter' \in Nat
      /\ limiter' >= limiter - 1 /\ (limiter' # limiter - 1 => limiter = 0 /\ limiter' = 0)
  BY TokenType, PageCacheAssumption DEF BoundInv, Tick
<1>3. /\ req \in [Walks -> Request] /\ items \in [Pages -> Entry \cup {NULL}]
      /\ TTL \in Nat /\ Timeout \in Nat
  BY <1>2, PageCacheAssumption DEF CacheInv, TypeOK
<1>4. ASSUME NEW w \in Walks
      PROVE  /\ req'[w].pc = req[w].pc
             /\ req[w].pc # "idle" => req'[w].left = req[w].left - 1
  <2> DEFINE l == IF req[w].pc = "idle" THEN req[w].left ELSE req[w].left - 1
             a == IF req[w].pc = "body" THEN req[w].age + 1 ELSE req[w].age
  <2>1. req[w] \in Request
    BY <1>3
  <2>2. req'[w] = [req[w] EXCEPT !.left = l, !.age = a]
    BY DEF Tick, Running
  <2> HIDE DEF l, a
  <2>3. req'[w].pc = req[w].pc /\ req'[w].left = l
    BY <2>1, <2>2 DEF Request
  <2>4. QED
    BY <2>3 DEF l
<1>5. Active' = Active
  BY <1>4 DEF Active
<1>6. ASSUME NEW w \in Active PROVE Token(w)' = Token(w) + 1 /\ Token(w) \in Int
  <2>1. w \in Walks /\ req[w] \in Request /\ req[w].pc # "idle" /\ Token(w) \in Int
    BY <1>2, TokenType DEF Active
  <2>2. req'[w].pc = req[w].pc /\ req'[w].left = req[w].left - 1 /\ req[w].left \in Nat
    BY <1>4, <2>1 DEF Request
  <2>3. QED
    BY <1>3, <2>1, <2>2 DEF Token
<1>7. ASSUME NEW p \in Cached'
      PROVE  p \in Cached /\ items'[p].left = items[p].left - 1 /\ items[p].left \in 1..TTL
             /\ items'[p].left \in 1..TTL
  <2>1. p \in Pages /\ items'[p] # NULL /\ items'[p].left > 0
    BY DEF Cached, Fresh
  <2>2. items[p] # NULL /\ items[p] \in Entry
    BY <1>3, <2>1 DEF Tick
  <2> DEFINE l == IF items[p].left > 0 THEN items[p].left - 1 ELSE 0
  <2>3. items'[p] = [left |-> l, age |-> Older(items[p].age)]
    BY <2>1, <2>2 DEF Tick
  <2>4. items'[p].left = l
    BY <2>3
  <2>5. items[p].left \in 0..TTL
    BY <2>2 DEF Entry
  <2>6. items[p].left > 0 /\ l = items[p].left - 1
    BY <2>1, <2>4, <2>5
  <2>7. QED
    BY <1>3, <2>1, <2>2, <2>4, <2>5, <2>6 DEF Cached, Fresh
<1>8. ASSUME NEW p \in Cached
      PROVE  /\ held[p] \in Int /\ held[p] >= Interval - limiter
             /\ TTL - items[p].left <= held[p] /\ held[p] <= TTL - items[p].left + Timeout
  BY <1>1, <1>2, <1>3, TokenType DEF TokensAreSpaced
<1>9. \A p \in Cached' : held[p] + 1 \in 0..(TTL + Timeout)
  BY <1>3, <1>7, <1>8
<1>10. PICK h \in [Pages -> 0..(TTL + Timeout)] : \A p \in Cached' : h[p] = held[p] + 1
  <2> DEFINE g == [p \in Pages |-> IF p \in Cached' THEN held[p] + 1 ELSE 0]
  <2>1. 0 \in 0..(TTL + Timeout)
    BY <1>3
  <2>2. g \in [Pages -> 0..(TTL + Timeout)]
    BY <1>9, <2>1
  <2>3. \A p \in Cached' : g[p] = held[p] + 1
    BY DEF Cached
  <2>4. QED
    BY <2>2, <2>3
<1>11. ASSUME NEW p \in Cached'
      PROVE  /\ h[p] = held[p] + 1
             /\ TTL - items'[p].left <= h[p] /\ h[p] <= TTL - items'[p].left + Timeout
             /\ h[p] >= Interval - limiter'
  <2>1. p \in Cached /\ h[p] = held[p] + 1
    BY <1>7, <1>10
  <2>2. QED
    BY <1>2, <1>3, <1>7, <1>8, <2>1
<1>12. TokensAreSpaced(h)'
  <2>1. \A p \in Cached' :
          /\ TTL - items'[p].left <= h[p] /\ h[p] <= TTL - items'[p].left + Timeout
          /\ h[p] >= Interval - limiter'
    BY <1>11
  <2>2. ASSUME NEW p \in Cached', NEW q \in Cached', p # q PROVE Apart(h[p], h[q])
    <3>1. p \in Cached /\ q \in Cached
      BY <1>7
    <3>2. Apart(held[p], held[q])
      BY <1>1, <2>2, <3>1 DEF TokensAreSpaced
    <3>3. QED
      BY <1>2, <1>8, <1>11, <3>1, <3>2 DEF Apart
  <2>3. ASSUME NEW p \in Cached', NEW w \in Active' PROVE Apart(h[p], Token(w)')
    <3>1. p \in Cached /\ w \in Active
      BY <1>5, <1>7
    <3>2. Apart(held[p], Token(w))
      BY <1>1, <3>1 DEF TokensAreSpaced
    <3>3. QED
      BY <1>2, <1>6, <1>8, <1>11, <3>1, <3>2 DEF Apart
  <2>4. ASSUME NEW v \in Active', NEW w \in Active', v # w PROVE Apart(Token(v)', Token(w)')
    <3>1. v \in Active /\ w \in Active
      BY <1>5
    <3>2. Apart(Token(v), Token(w))
      BY <1>1, <2>4, <3>1 DEF TokensAreSpaced
    <3>3. QED
      BY <1>2, <1>6, <3>1, <3>2 DEF Apart
  <2>5. ASSUME NEW w \in Active' PROVE Token(w)' >= Interval - limiter'
    <3>1. w \in Active /\ Token(w) >= Interval - limiter
      BY <1>1, <1>5 DEF TokensAreSpaced
    <3>2. QED
      BY <1>2, <1>6, <3>1
  <2>6. QED
    BY <2>1, <2>2, <2>3, <2>4, <2>5 DEF TokensAreSpaced, Apart
<1>13. \A p \in Pages : items'[p] = NULL <=> items[p] = NULL
  <2>1. ASSUME NEW p \in Pages, items[p] # NULL PROVE items'[p] # NULL
    <3>1. items[p] \in Entry
      BY <1>3, <2>1
    <3> DEFINE l == IF items[p].left > 0 THEN items[p].left - 1 ELSE 0
               a == Older(items[p].age)
    <3>2. l \in Nat /\ a \in Nat
      BY <1>3, <3>1, EntryType DEF Entry, Older
    <3>3. items'[p] = [left |-> l, age |-> a]
      BY <2>1 DEF Tick
    <3> HIDE DEF l, a
    <3>4. items'[p] \in [left: Nat, age: Nat]
      BY <3>2, <3>3
    <3>5. QED
      BY <3>4, PageCacheAssumption
  <2>2. QED
    BY <2>1 DEF Tick
<1>14. EntriesBounded'
  <2>1. {p \in Pages : items'[p] # NULL} = {p \in Pages : items[p] # NULL}
    BY <1>13
  <2>2. QED
    BY <2>1 DEF BoundInv, EntriesBounded
<1>15. QED
  BY <1>10, <1>12, <1>13, <1>14 DEF BoundInv
(* Entries with time left are as few as their tokens are. *)
LEMMA CachedAreFew ==
  ASSUME NEW C \in SUBSET Pages, NEW held \in [Pages -> 0..(TTL + Timeout)], Interval > 0,
         \A p \in C : held[p] < TTL + Timeout,
         \A p, q \in C : p # q => Apart(held[p], held[q])
  PROVE  Cardinality(C) * Interval < TTL + Timeout + Interval
<1> DEFINE f == [p \in C |-> held[p]]
<1>1. Interval \in Nat \ {0} /\ TTL + Timeout \in Nat
  BY PageCacheAssumption
<1>2. f \in [C -> Nat] /\ \A p \in C : f[p] < TTL + Timeout
  OBVIOUS
<1>3. \A p, q \in C : p # q => f[p] - f[q] >= Interval \/ f[q] - f[p] >= Interval
  BY DEF Apart
<1> HIDE DEF f
<1>4. QED
  BY <1>1, <1>2, <1>3, SpacedAreFew

(* A page is stored under the token of its fetch, and only fresh entries    *)
(* stay beside it.                                                          *)
LEMMA ReceiveIsSpaced ==
  ASSUME BoundInv, CacheInv', NEW w \in Walks, Receive(w)
  PROVE  BoundInv'
<1>1. PICK held \in [Pages -> 0..(TTL + Timeout)] : TokensAreSpaced(held)
  BY DEF BoundInv
<1>2. /\ CacheInv /\ Interval \in Nat /\ limiter \in Nat /\ limiter' = limiter
      /\ TTL \in Nat /\ Timeout \in Nat
  BY TokenType, PageCacheAssumption DEF BoundInv, Receive
<1>3. /\ req \in [Walks -> Request] /\ items \in [Pages -> Entry \cup {NULL}]
      /\ req[w] \in Request /\ RequestIsSound(w) /\ req[w].pc = "body" /\ w \in Active
  BY <1>2 DEF CacheInv, TypeOK, Receive, Active
<1>4. PICK x \in Pages, a \in 0..Timeout : x = req[w].page /\ a = req[w].age
  BY <1>3 DEF RequestIsSound, Request
<1>5. /\ items' = IF TTL = 0 THEN items ELSE [Swept EXCEPT ![x] = [left |-> TTL, age |-> a]]
      /\ req' = [req EXCEPT ![w] = Idle]
  BY <1>4 DEF Receive, Put
<1>6. req'[w].pc = "idle" /\ \A v \in Walks \ {w} : req'[v] = req[v]
  BY <1>3, <1>5, IdleType
<1>7. Active' = Active \ {w} /\ \A v \in Active' : Token(v)' = Token(v)
  BY <1>6 DEF Active, Token
<1>8. Token(w) \in 0..Timeout /\ Token(w) >= Interval - limiter
  BY <1>1, <1>2, <1>3, TokenType DEF TokensAreSpaced
<1>9. CASE TTL = 0
  BY <1>5, <1>7, <1>9, <1>2, SpacedStep
<1>10. CASE TTL # 0
  <2>1. /\ \A p \in Pages \ {x} : items'[p] = IF p \in Cached THEN items[p] ELSE NULL
        /\ items'[x] = [left |-> TTL, age |-> a]
    BY <1>4, <1>5, <1>10 DEF Swept, Cached
  <2>2. items'[x].left = TTL /\ items'[x] # NULL
    <3>1. items'[x] \in [left: Nat, age: Nat] /\ items'[x].left = TTL
      BY <1>2, <1>4, <2>1
    <3>2. QED
      BY <3>1, PageCacheAssumption
  <2>3. Cached' = Cached \cup {x}
    BY <1>2, <1>10, <2>1, <2>2 DEF Cached, Fresh
  <2>4. {p \in Pages : items'[p] # NULL} = Cached'
    BY <2>1, <2>2, <2>3 DEF Cached, Fresh
  <2>5. PICK h \in [Pages -> 0..(TTL + Timeout)] :
          h[x] = Token(w) /\ \A p \in Pages \ {x} : h[p] = held[p]
    <3>1. Token(w) \in 0..(TTL + Timeout)
      BY <1>2, <1>8
    <3>2. [held EXCEPT ![x] = Token(w)] \in [Pages -> 0..(TTL + Timeout)]
      BY <3>1
    <3>3. QED
      BY <3>2
  <2>6. \A p \in Cached' : p = x \/ (p \in Cached /\ h[p] = held[p] /\ items'[p] = items[p])
    BY <2>1, <2>3, <2>5 DEF Cached
  <2>7. TokensAreSpaced(h)'
    <3>1. ASSUME NEW p \in Cached'
          PROVE  /\ TTL - items'[p].left <= h[p] /\ h[p] <= TTL - items'[p].left + Timeout
                 /\ h[p] >= Interval - limiter'
      <4>1. CASE p = x
        BY <1>2, <1>8, <2>2, <2>5, <4>1
      <4>2. CASE p # x
        BY <1>1, <1>2, <2>6, <4>2 DEF TokensAreSpaced
      <4>3. QED
        BY <4>1, <4>2
    <3>2. ASSUME NEW p \in Cached' \ {x} PROVE Apart(h[p], h[x]) /\ Apart(h[x], h[p])
      <4>1. p \in Cached /\ h[p] = held[p] /\ h[x] = Token(w)
        BY <2>5, <2>6
      <4>2. Apart(held[p], Token(w))
        BY <1>1, <1>3, <4>1 DEF TokensAreSpaced
      <4>3. QED
        BY <4>1, <4>2 DEF Apart
    <3>3. \A p, q \in Cached' : p # q => Apart(h[p], h[q])
      BY <1>1, <2>6, <3>2 DEF TokensAreSpaced
    <3>4. ASSUME NEW p \in Cached', NEW v \in Active' PROVE Apart(h[p], Token(v)')
      <4>1. v \in Active /\ v # w /\ Token(v)' = Token(v)
        BY <1>7
      <4>2. CASE p = x
        BY <1>1, <1>3, <2>5, <4>1, <4>2 DEF TokensAreSpaced
      <4>3. CASE p # x
        BY <1>1, <2>6, <4>1, <4>3 DEF TokensAreSpaced
      <4>4. QED
        BY <4>2, <4>3
    <3>5. /\ \A v \in Active' : Token(v)' >= Interval - limiter'
          /\ \A u, v \in Active' : u # v => Apart(Token(u)', Token(v)')
      BY <1>1, <1>2, <1>7 DEF TokensAreSpaced
    <3>6. QED
      BY <3>1, <3>3, <3>4, <3>5 DEF TokensAreSpaced, Apart
  <2>8. EntriesBounded'
    <3>1. ASSUME NEW p \in Cached' PROVE h[p] < TTL + Timeout
      <4>1. items'[p].left \in 1..TTL
        BY <1>2, <1>10, <2>2, <2>6, TokenType
      <4>2. p \in Pages /\ h[p] \in 0..(TTL + Timeout) /\ h[p] <= TTL - items'[p].left + Timeout
        BY <2>7 DEF TokensAreSpaced, Cached
      <4>3. QED
        BY <1>2, <4>1, <4>2
    <3>2. \A p, q \in Cached' : p # q => Apart(h[p], h[q])
      BY <2>7 DEF TokensAreSpaced, Apart
    <3>3. Interval > 0 => Cardinality(Cached') * Interval < TTL + Timeout + Interval
      <4>1. Cached' \in SUBSET Pages
        BY DEF Cached
      <4>2. QED
        BY <3>1, <3>2, <4>1, CachedAreFew
    <3>4. QED
      BY <2>4, <3>3 DEF EntriesBounded
  <2>9. QED
    BY <1>10, <2>7, <2>8 DEF BoundInv
<1>11. QED
  BY <1>9, <1>10

(* Nothing is stored, nothing is reserved. *)
LEMMA InitBound == Init => BoundInv
<1> SUFFICES ASSUME Init PROVE BoundInv
  OBVIOUS
<1>1. CacheInv
  BY InitCache
<1>2. Cached = {} /\ Active = {} /\ \A p \in Pages : items[p] = NULL
  BY IdleType DEF Init, Cached, Fresh, Active
<1>3. EntriesBounded
  <2>1. {p \in Pages : items[p] # NULL} = {}
    BY <1>2
  <2>2. Cardinality({}) = 0
    BY FS_EmptySet
  <2>3. Interval > 0 => 0 * Interval < TTL + Timeout + Interval
    BY PageCacheAssumption
  <2>4. QED
    BY <2>1, <2>2, <2>3 DEF EntriesBounded
<1>4. 0 \in 0..(TTL + Timeout)
  BY PageCacheAssumption
<1>5. [p \in Pages |-> 0] \in [Pages -> 0..(TTL + Timeout)]
  BY <1>4
<1>6. TokensAreSpaced([p \in Pages |-> 0])
  BY <1>2 DEF TokensAreSpaced
<1>7. QED
  BY <1>1, <1>2, <1>3, <1>5, <1>6 DEF BoundInv

LEMMA NextBound == BoundInv /\ [Next]_vars => BoundInv'
<1> SUFFICES ASSUME BoundInv, [Next]_vars PROVE BoundInv'
  OBVIOUS
<1>1. CacheInv'
  BY NextCache DEF BoundInv
<1>2. CASE UNCHANGED vars
  <2>1. UNCHANGED <<items, limiter, req>>
    BY <1>2 DEF vars
  <2>2. Active' = Active /\ \A v \in Active' : Token(v)' = Token(v)
    BY <2>1 DEF Active, Token
  <2>3. QED
    BY <1>1, <2>1, <2>2, SpacedStep
<1>3. QED
  BY <1>1, <1>2, MissIsSpaced, FetchIsSpaced, ReceiveIsSpaced, TickIsSpaced DEF Next

(* The tokens of cached pages and of requests are spaced in every reachable *)
(* state.                                                                   *)
THEOREM BoundHolds == Spec => []BoundInv
  BY InitBound, NextBound, PTL DEF Spec

(* The map, which has no limit of its own, never has more entries than the  *)
(* limiter gave tokens in a TTL and a request timeout (cache.go:23), for    *)
(* any number of pages and concurrent walks.                                *)
THEOREM FewEntries == Spec => []EntriesBounded
<1>1. BoundInv => EntriesBounded
  BY DEF BoundInv
<1>2. QED
  BY <1>1, BoundHolds, PTL
=============================================================================
