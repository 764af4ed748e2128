----------------------------- MODULE PageCache -----------------------------
(***************************************************************************)
(* The fetching side of the DMHY crawler: concurrent POST /crawl requests   *)
(* share one TTL cache of pages (sources/dmhy/cache.go) over one            *)
(* rate-limited HTTP client (pkg/crawl/server.go HTTPFetcher).  The cache   *)
(* lock is held for a lookup and for a store, never for the fetch between.  *)
(*                                                                          *)
(* Time is kept as distances from now (time left, age), so nothing bounds   *)
(* how long the system runs.  Timers fire on time: the clock does not pass  *)
(* an instant at which a request is due.                                    *)
(***************************************************************************)
EXTENDS Integers, FiniteSets

CONSTANTS
  Walks,      \* concurrent /crawl requests, each fetching one page at a time
  Pages,
  TTL,        \* --cache-ttl; 0 turns the cache off
  Interval,   \* time between two tokens of the limiter; 0 turns it off
  Timeout,    \* http.Client.Timeout
  MaxDebt,    \* bound: no new reservation when the next token is this far off
  NULL

ASSUME PageCacheAssumption ==
  /\ TTL \in Nat /\ Interval \in Nat /\ Timeout \in Nat /\ MaxDebt \in Nat
  /\ NULL \notin [left: Nat, age: Nat] \cup Nat

VARIABLES
  items,     \* pageCache.items: time to expiry, and age of the bytes
  limiter,   \* time until a token is free
  req,       \* what each walk is waiting for
  newest,    \* age of the newest bytes of a page any walk was given, or NULL
  raced      \* pages with fetches that overlapped

vars == <<items, limiter, req, newest, raced>>

(* Ages beyond every bound that is stated are not told apart. *)
Old == TTL + Timeout + 1

Older(a) == IF a < Old THEN a + 1 ELSE Old

Idle == [pc |-> "idle", page |-> NULL, left |-> 0, age |-> 0]

Entry == [left: 0..TTL, age: 0..Old]

Request == [pc: {"idle", "wait", "fetch", "body"}, page: Pages \cup {NULL},
            left: Nat, age: 0..Timeout]

(* The cache, the limiter and the fetches under way. *)
TypeOK ==
  /\ items \in [Pages -> Entry \cup {NULL}]
  /\ limiter \in 0..(MaxDebt + Interval)
  /\ req \in [Walks -> Request]
  /\ newest \in [Pages -> 0..Old \cup {NULL}]
  /\ raced \subseteq Pages

Init ==
  /\ items = [p \in Pages |-> NULL]
  /\ limiter = 0
  /\ req = [w \in Walks |-> Idle]
  /\ newest = [p \in Pages |-> NULL]
  /\ raced = {}

-----------------------------------------------------------------------------
(* pageCache *)

Fresh(p) == items[p] # NULL /\ items[p].left > 0

(* The walk is given bytes of this age. *)
Given(p, age) ==
  newest' = [newest EXCEPT ![p] = IF @ = NULL \/ age < @ THEN age ELSE @]

\* Mutant: a hit keeps the entry alive.
Hit_Slides(w, p) ==
  /\ req[w].pc = "idle" /\ Fresh(p)
  /\ Given(p, items[p].age)
  /\ items' = [items EXCEPT ![p].left = TTL]
  /\ UNCHANGED <<limiter, req, raced>>

Hit(w, p) ==
  /\ req[w].pc = "idle" /\ Fresh(p)
  /\ Given(p, items[p].age)
  /\ UNCHANGED <<items, limiter, req, raced>>

\* Mutant: expired entries are left in the map.
Swept_Nothing == items

(* put drops every expired entry first. *)
Swept == [p \in Pages |-> IF Fresh(p) THEN items[p] ELSE NULL]

\* Mutant: a store renews an entry and keeps its bytes.
Put_Renews(p, age) ==
  [items EXCEPT ![p] = [left |-> TTL, age |-> IF @ = NULL THEN age ELSE @.age]]

Put(p, age) ==
  IF TTL = 0 THEN items
  ELSE [Swept EXCEPT ![p] = [left |-> TTL, age |-> age]]

-----------------------------------------------------------------------------
(* HTTPFetcher.FetchPage *)

Fetching(p) == {w \in Walks : req[w].pc # "idle" /\ req[w].page = p}

(* The page is not in the cache: reserve the next token of the limiter. *)
Miss(w, p) ==
  /\ req[w].pc = "idle" /\ ~Fresh(p)
  /\ limiter < MaxDebt
  /\ req' = [req EXCEPT ![w] = [Idle EXCEPT !.pc = "wait", !.page = p, !.left = limiter]]
  /\ limiter' = limiter + Interval
  /\ raced' = IF Fetching(p) = {} THEN raced \ {p} ELSE raced \cup {p}
  /\ UNCHANGED <<items, newest>>

(* limiter.Wait returned: send the request. *)
Send(w) ==
  /\ req[w].pc = "wait" /\ req[w].left = 0
  /\ req' = [req EXCEPT ![w].pc = "fetch", ![w].left = Timeout]
  /\ UNCHANGED <<items, limiter, newest, raced>>

(* The caller went away during limiter.Wait: the token is given back only   *)
(* if nobody reserved one behind it.                                        *)
CancelWait(w) ==
  /\ req[w].pc = "wait"
  /\ req' = [req EXCEPT ![w] = Idle]
  /\ limiter' = IF req[w].left + Interval = limiter THEN req[w].left ELSE limiter
  /\ UNCHANGED <<items, newest, raced>>

(* The source renders the page. *)
Render(w) ==
  /\ req[w].pc = "fetch"
  /\ req' = [req EXCEPT ![w].pc = "body", ![w].age = 0]
  /\ UNCHANGED <<items, limiter, newest, raced>>

(* The body of a 200 was read: store it and use it. *)
Receive(w) ==
  /\ req[w].pc = "body"
  /\ items' = Put(req[w].page, req[w].age)
  /\ Given(req[w].page, req[w].age)
  /\ req' = [req EXCEPT ![w] = Idle]
  /\ UNCHANGED <<limiter, raced>>

(* A transport error, another status, a body that breaks off, the client's  *)
(* timeout or a caller that went away: nothing is stored.                   *)
Fail(w) ==
  /\ req[w].pc \in {"fetch", "body"}
  /\ req' = [req EXCEPT ![w] = Idle]
  /\ UNCHANGED <<items, limiter, newest, raced>>

TimeOut(w) == req[w].left = 0 /\ Fail(w)

-----------------------------------------------------------------------------
Due(w) == req[w].pc # "idle" /\ req[w].left = 0

\* Mutant: http.Client without a timeout.
Running_NoTimeout(r) ==
  [r EXCEPT !.left = IF r.pc = "wait" THEN @ - 1 ELSE @,
            !.age = IF r.pc = "body" /\ @ < Timeout THEN @ + 1 ELSE @]

(* A request one instant later. *)
Running(r) ==
  [r EXCEPT !.left = IF r.pc = "idle" THEN @ ELSE @ - 1,
            !.age = IF r.pc = "body" THEN @ + 1 ELSE @]

Tick ==
  /\ \A w \in Walks : ~Due(w)
  /\ limiter' = IF limiter > 0 THEN limiter - 1 ELSE 0
  /\ req' = [w \in Walks |-> Running(req[w])]
  /\ items' = [p \in Pages |->
                 IF items[p] = NULL THEN NULL
                 ELSE [left |-> IF items[p].left > 0 THEN items[p].left - 1 ELSE 0,
                       age |-> Older(items[p].age)]]
  /\ newest' = [p \in Pages |-> IF newest[p] = NULL THEN NULL ELSE Older(newest[p])]
  /\ UNCHANGED raced

Next ==
  \/ \E w \in Walks : \/ \E p \in Pages : Hit(w, p) \/ Miss(w, p)
                      \/ Send(w) \/ CancelWait(w) \/ Render(w) \/ Receive(w) \/ Fail(w)
  \/ Tick

Spec == Init /\ [][Next]_vars

(* Time passes, a walk goes on when its token is there, and the client's    *)
(* timeout fires.  Nothing promises that the source answers.                *)
FairSpec ==
  /\ Spec
  /\ WF_vars(Tick)
  /\ \A w \in Walks : WF_vars(Send(w)) /\ WF_vars(TimeOut(w))

-----------------------------------------------------------------------------
(* Properties. *)

(* What the cache hands out was rendered by the source less than a TTL and  *)
(* one request timeout ago: the expiry counts from the store, the bytes may *)
(* be a whole timeout older (cache.go:83).                                  *)
HitsAreRecent == \A p \in Pages : Fresh(p) => items[p].age < TTL + Timeout

(* A page does not go back in time unless two fetches of it overlapped: the *)
(* cached bytes are the newest any walk was given (cache.go:54: of two      *)
(* requests that miss at once the slower one stores last, and older bytes   *)
(* if it was rendered first).                                               *)
NewestUnlessRaced ==
  \A p \in Pages \ raced : Fresh(p) => items[p].age = newest[p]

(* The map is bounded by the limiter although nothing limits it: at most    *)
(* one page for every token of a TTL and a request timeout (cache.go:23,     *)
(* whose "rate limit x ttl" leaves out the time a fetch takes).             *)
EntriesBounded ==
  Interval > 0 =>
    Cardinality({p \in Pages : items[p] # NULL}) * Interval
      < TTL + Timeout + Interval

(* Every fetch comes to an end, whether or not the source answers           *)
(* (server.go:168), however many others wait for the limiter or give up.    *)
EveryFetchReturns == \A w \in Walks : req[w].pc # "idle" ~> req[w].pc = "idle"
-----------------------------------------------------------------------------
(* The inductive invariant behind HitsAreRecent and NewestUnlessRaced. *)

(* A body is read within the client's timeout, counted from the request.    *)
RequestIsSound(w) ==
  /\ req[w].pc # "idle" => req[w].page \in Pages
  /\ req[w].pc # "body" => req[w].age = 0
  /\ req[w].pc \in {"fetch", "body"} => req[w].age + req[w].left <= Timeout

(* The bytes were at most a timeout old when the entry was stored.          *)
EntryIsSound(p) == Fresh(p) => items[p].age + items[p].left <= TTL + Timeout

(* While the only fetch of a page runs, the cache has no fresh copy, and the *)
(* page it brings was rendered after every copy a walk was given.           *)
FetchIsSound(p) ==
  p \notin raced =>
    \A w \in Fetching(p) :
      /\ ~Fresh(p)
      /\ \A v \in Fetching(p) : v = w
      /\ req[w].pc = "body" /\ newest[p] # NULL => req[w].age <= newest[p]

CacheInv ==
  /\ TypeOK
  /\ \A w \in Walks : RequestIsSound(w)
  /\ \A p \in Pages : EntryIsSound(p) /\ FetchIsSound(p)
  /\ NewestUnlessRaced
-----------------------------------------------------------------------------
(* The inductive invariant behind EntriesBounded. *)

Active == {w \in Walks : req[w].pc # "idle"}

Cached == {p \in Pages : Fresh(p)}

(* How long ago a request got its token; below 0 it will. *)
Token(w) == IF req[w].pc = "wait" THEN 0 - req[w].left ELSE Timeout - req[w].left

Apart(a, b) == a - b >= Interval \/ b - a >= Interval

(* With held[p] as the time since the token of a cached page's fetch: it was *)
(* stored within a timeout of it, no two tokens of pages and requests are    *)
(* closer than Interval, and none is closer to the limiter's next.           *)
TokensAreSpaced(held) ==
  /\ \A p \in Cached :
       /\ TTL - items[p].left <= held[p] /\ held[p] <= TTL - items[p].left + Timeout
       /\ held[p] >= Interval - limiter
  /\ \A w \in Active : Token(w) >= Interval - limiter
  /\ \A p, q \in Cached : p # q => Apart(held[p], held[q])
  /\ \A p \in Cached, w \in Active : Apart(held[p], Token(w))
  /\ \A v, w \in Active : v # w => Apart(Token(v), Token(w))

BoundInv ==
  /\ CacheInv /\ EntriesBounded
  /\ TTL = 0 => \A p \in Pages : items[p] = NULL
  /\ \E held \in [Pages -> 0..(TTL + Timeout)] : TokensAreSpaced(held)
=============================================================================
