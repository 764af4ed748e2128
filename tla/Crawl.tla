------------------------------- MODULE Crawl -------------------------------
(***************************************************************************)
(* The crawl engine behind POST /crawl (pkg/crawl/crawl.go): one call walks *)
(* the pages of a source listing from an opaque (page, offset) cursor until *)
(* its budget fills, the lookback window ends or a run of empty pages is    *)
(* taken for the floor of the archive.  The listing moves under the walk: a *)
(* new post shifts every older one down, across page borders.  DMHY pages   *)
(* come through a TTL cache (sources/dmhy/cache.go).                        *)
(*                                                                          *)
(* The engine keeps nothing between calls; its clients are the modules      *)
(* Backfill and CrawlTrigger.                                               *)
(***************************************************************************)
EXTENDS Integers, Sequences, FiniteSets

CONSTANTS
  Listings,      \* listings a run starts from, newest first; a blank slot
                 \*   takes room on its page but parses to no row
  PageRows,      \* slots of a source page
  Threshold,     \* consecutive empty pages that mean the floor
  MaxPageSize,   \* clampPageSize's upper limit
  TTL,           \* lifetime of a cached page; 0 turns the cache off
  Granule,       \* the source prints dates rounded down to this
  DateParses,    \* {TRUE}: a new post's date always parses; {FALSE}: never
  MaxClock,      \* bound: last instant of the model
  MaxFailures,   \* bound: failed fetches
  Blank

(* time.Time{}: what an unparseable date becomes, before any other date. *)
ZeroDate == -1

(* A post: when the source listed it, and the date the crawler reports. *)
Post == [at: Nat, date: Nat \cup {ZeroDate}]

ASSUME CrawlAssumption ==
  /\ PageRows \in Nat \ {0} /\ Threshold \in Nat \ {0}
  /\ MaxPageSize \in Nat \ {0} /\ Granule \in Nat \ {0}
  /\ TTL \in Nat /\ MaxClock \in Nat /\ MaxFailures \in Nat
  /\ DateParses \subseteq BOOLEAN
  /\ Listings \subseteq Seq(Post \cup {Blank})
  /\ Blank \notin Post

VARIABLES
  clock,
  listing,    \* what the source shows now
  cache,      \* pageCache.items: entries [page, rows, expires]
  failures,   \* failed fetches so far
  walk        \* the call under way, or its outcome

crawlVars == <<clock, listing, cache, failures, walk>>

NoCursor == <<0, 0>>

Cursors == {NoCursor} \cup (Nat \ {0}) \X Nat

Entry == [page: Nat, rows: Seq(Post), expires: Nat]

Walk == [pc: {"idle", "walk", "done", "error"}, page: Nat, skip: Nat, empty: Nat,
         posts: Seq(Post), size: Nat, cutoff: Int, cursor: Cursors, more: BOOLEAN]

NoWalk == [pc |-> "idle", page |-> 0, skip |-> 0, empty |-> 0, posts |-> <<>>,
           size |-> 0, cutoff |-> 0, cursor |-> NoCursor, more |-> FALSE]

(* A walk has room for another post until it ends. *)
WalkIsTyped(w) == /\ w \in Walk /\ Len(w.posts) <= w.size
                  /\ w.pc = "walk" => w.page > 0 /\ Len(w.posts) < w.size

(* The source, the cache and the call under way. *)
CrawlTypeOK ==
  /\ clock \in Nat /\ failures \in Nat
  /\ listing \in Seq(Post \cup {Blank})
  /\ cache \subseteq Entry
  /\ WalkIsTyped(walk)

CrawlInit ==
  /\ listing \in Listings
  /\ clock = Len(listing)
  /\ cache = {}
  /\ failures = 0
  /\ walk = NoWalk

Lesser(a, b) == IF a < b THEN a ELSE b

HasRow(s) == s # Blank

(* What s has at the places in K: its n-th element is at the n-th of them.  *)
Subsequence(s, K) ==
  [n \in 1..Cardinality(K) |-> s[CHOOSE k \in K : Cardinality({j \in K : j <= k}) = n]]

(* The slots of a page that parse to a row, and what the source serves for  *)
(* the page.                                                                *)
RowSlots(l, p) == {n \in 1..Len(l) :
                     (p - 1) * PageRows < n /\ n <= p * PageRows /\ HasRow(l[n])}

Rows(p) == Subsequence(listing, RowSlots(listing, p))

-----------------------------------------------------------------------------
(* pageCache.wrap *)

Fresh(p) == {e \in cache : e.page = p /\ clock < e.expires}

Fetched(p) == IF Fresh(p) # {} THEN (CHOOSE e \in Fresh(p) : TRUE).rows ELSE Rows(p)

(* A hit changes nothing; a fetch sweeps the expired entries and is stored. *)
CacheAfter(p) ==
  IF TTL = 0 \/ Fresh(p) # {} THEN cache
  ELSE {e \in cache : clock < e.expires /\ e.page # p}
         \cup {[page |-> p, rows |-> Rows(p), expires |-> clock + TTL]}

-----------------------------------------------------------------------------
(* Crawl *)

ClampPageSize(n) == IF n < 1 THEN 1 ELSE Lesser(n, MaxPageSize)

\* Mutant: a page-end cursor is resumed on its own page.
FirstPage_SamePage(cursor) == IF cursor[1] = 0 THEN 1 ELSE cursor[1]

FirstPage(cursor) == IF cursor[2] = 0 THEN cursor[1] + 1 ELSE cursor[1]

Begin(cursor, n, lookback) ==
  walk' = [NoWalk EXCEPT !.pc = "walk", !.page = FirstPage(cursor),
                         !.skip = cursor[2], !.size = ClampPageSize(n),
                         !.cutoff = IF lookback > 0 THEN clock - lookback ELSE 0]

Walked == walk.pc = "walk"

OutOfWindow(post) == post.date # ZeroDate /\ post.date < walk.cutoff

(* Where the call goes on in the rows of a fetched page, those from there   *)
(* on, and how many of them precede the first one out of the window.        *)
Start(rows) == Lesser(walk.skip, Len(rows))

Rest(rows) == SubSeq(rows, Start(rows) + 1, Len(rows))

InWindow(rest) == CHOOSE n \in 0..Len(rest) :
                    /\ \A k \in 1..n : ~OutOfWindow(rest[k])
                    /\ n < Len(rest) => OutOfWindow(rest[n + 1])

Room == walk.size - Len(walk.posts)

Answer(posts, cursor, more) ==
  walk' = [walk EXCEPT !.pc = "done", !.posts = posts, !.cursor = cursor, !.more = more]

Advance(posts, empty) ==
  walk' = [walk EXCEPT !.page = @ + 1, !.skip = 0, !.empty = empty, !.posts = posts]

FloorReached(empty) == empty >= Threshold

EmptyPage ==
  IF FloorReached(walk.empty + 1) THEN Answer(walk.posts, NoCursor, FALSE)
  ELSE Advance(walk.posts, walk.empty + 1)

LookbackBoundary(rest, n) ==
  /\ n < Len(rest) /\ n <= Room
  /\ Answer(walk.posts \o SubSeq(rest, 1, n), NoCursor, FALSE)

\* Mutant: the offset counts the rows of this call, not those of the page.
MidPage_LostOffset(start, rest, n) ==
  /\ Room < n
  /\ Answer(walk.posts \o SubSeq(rest, 1, Room), <<walk.page, Room>>, TRUE)

(* The budget is full and the page has more: resume behind the row. *)
MidPage(start, rest, n) ==
  /\ Room < n
  /\ Answer(walk.posts \o SubSeq(rest, 1, Room), <<walk.page, start + Room>>, TRUE)

\* Mutant: park (page+1, 0), which resumes on page+2.
PageEnd_NextPage(rest, n) ==
  /\ Room = n /\ n = Len(rest)
  /\ Answer(walk.posts \o rest, <<walk.page + 1, 0>>, TRUE)

(* The budget is full with the last row of the page; the next page is not   *)
(* looked at.                                                               *)
PageEnd(rest, n) ==
  /\ Room = n /\ n = Len(rest)
  /\ Answer(walk.posts \o rest, <<walk.page, 0>>, TRUE)

PageExhausted(rest, n) ==
  /\ n = Len(rest) /\ n < Room
  /\ Advance(walk.posts \o rest, 0)

(* What one round of the loop does with the rows of its page. *)
UsePage(rows) ==
  LET rest == Rest(rows)
      n    == InWindow(rest)
  IN  \/ rows = <<>> /\ EmptyPage
      \/ rows # <<>> /\ \/ LookbackBoundary(rest, n)
                        \/ MidPage(Start(rows), rest, n)
                        \/ PageEnd(rest, n)
                        \/ PageExhausted(rest, n)

(* One round of the loop: fetch a page, parse it, use it. *)
FetchPage ==
  /\ Walked
  /\ \E rows \in {Fetched(walk.page)} : UsePage(rows)
  /\ cache' = CacheAfter(walk.page)
  /\ UNCHANGED <<clock, listing, failures>>

(* A fetch or parse error, a cancelled request or a lost response: the      *)
(* caller gets no posts and no cursor.                                      *)
FetchFail ==
  /\ Walked
  /\ failures < MaxFailures
  /\ failures' = failures + 1
  /\ walk' = [NoWalk EXCEPT !.pc = "error"]
  /\ UNCHANGED <<clock, listing, cache>>

-----------------------------------------------------------------------------
(* The source: a post is listed at an instant of its own, on top. *)

Publish ==
  /\ clock < MaxClock
  /\ clock' = clock + 1
  /\ \E parsed \in DateParses :
       listing' = <<[at |-> clock',
                     date |-> IF parsed THEN clock' - (clock' % Granule)
                              ELSE ZeroDate]>> \o listing
  /\ UNCHANGED <<cache, failures, walk>>

Tick ==
  /\ clock < MaxClock
  /\ clock' = clock + 1
  /\ UNCHANGED <<listing, cache, failures, walk>>

Listed == {listing[n] : n \in 1..Len(listing)} \ {Blank}

-----------------------------------------------------------------------------
(* Where a walk is in a listing l, for the proofs about its clients. *)

(* The slots behind the first k rows of page p. *)
Behind(l, p, k) ==
  {n \in 1..Len(l) :
     n <= p * PageRows /\ Cardinality({m \in RowSlots(l, p) : m <= n}) <= k}

(* The posts of X behind that place are in S. *)
Covers(l, p, k, X, S) == \A n \in Behind(l, p, k) : l[n] \in X => l[n] \in S

CursorCovers(l, c, X, S) == Covers(l, FirstPage(c), c[2], X, S)

Front(w, n) == {w.posts[k] : k \in 1..n}

Posts(w) == Front(w, Len(w.posts))

(* The walk w has brought the posts of X that are behind it, beside those in *)
(* S, and those in front of each of its posts before that post; at its end,  *)
(* all that its window does not exclude.                                     *)
WalkCovers(l, w, X, S) ==
  /\ w.pc = "walk" => Covers(l, w.page, w.skip, X, S \cup Posts(w))
  /\ w.pc = "done" /\ w.more => CursorCovers(l, w.cursor, X, S \cup Posts(w))
  /\ w.pc = "done" /\ ~w.more =>
       \A n \in 1..Len(l) : l[n] \in X =>
          \/ l[n] \in S \cup Posts(w)
          \/ w.cutoff > 0 /\ l[n].at < w.cutoff + Granule - 1
  /\ \A k \in 1..Len(w.posts), n \in 1..Len(l) :
       l[n] \in X /\ w.posts[k].at <= l[n].at => l[n] \in S \cup Front(w, k)

(* The rows of a listing are posts of the past, newest first, their dates are *)
(* rounded down by less than a granule, and no stretch of a page's length     *)
(* above a row is without one.                                               *)
Tidy(l, now) ==
  \A n \in 1..Len(l) : HasRow(l[n]) =>
    /\ l[n].at <= now
    /\ l[n].date # ZeroDate => l[n].at < l[n].date + Granule
    /\ \A m \in 1..(n - 1) : HasRow(l[m]) => l[n].at < l[m].at
    /\ n > PageRows => \E m \in (n - PageRows)..(n - 1) : HasRow(l[m])

TidyListings == \A l \in Listings : Tidy(l, Len(l))

(* What a walk has to know of the source to pass nothing: no cached pages,   *)
(* and listings that are tidy to begin with.                                 *)
SteadySource == TTL = 0 /\ TidyListings
=============================================================================
