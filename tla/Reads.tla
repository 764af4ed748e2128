------------------------------- MODULE Reads -------------------------------
(***************************************************************************)
(* The read side (internal/store/postgres/store.go ListReleases, GetRelease, *)
(* CatalogStats and QueueStats, internal/cursor, the collector of           *)
(* internal/metrics): a consumer pages through the matched releases with a  *)
(* cursor, follows new matches by polling with `since`, or reads one        *)
(* release in full, and the gauges are scraped, while submits, ingests and  *)
(* the sweeps of claims commit.  Leases and tokens are left to module Queue: *)
(* here any number of submits of a release may be under way, each with its  *)
(* own clock reading.  Readers do not disturb one another: a behaviour has  *)
(* one, in one role.                                                        *)
(***************************************************************************)
EXTENDS Integers, Sequences, FiniteSets, Functions

CONSTANTS
  Infohashes,   \* integers, for ORDER BY infohash
  Refs, Dates,
  QueryRefs,    \* refs a browsing consumer asks for
  Sinces,       \* values of `since` of a browsing consumer
  Limits,       \* values of `limit`
  DefaultLimit, MaxLimit,
  MaxClock,     \* bound: last instant of the model
  Scope,        \* bound: by role of the reader, the releases that change, and the
                \* QueueMaxAttempts of the processes, restarts included
  NULL

Roles == {"browse", "follow", "inspect"}

ASSUME ReadsAssumption ==
  /\ Infohashes \subseteq Int /\ Dates \subseteq Int
  /\ QueryRefs \subseteq Refs /\ Sinces \subseteq Int /\ Limits \subseteq Int
  /\ DefaultLimit \in Nat \ {0} /\ MaxLimit \in Nat \ {0}
  /\ MaxClock \in Nat
  /\ \A r \in Roles : Scope[r].releases \subseteq Infohashes /\ Scope[r].caps \subseteq Nat \ {0}
  /\ IsFiniteSet(Infohashes)

VARIABLES
  clock,
  row,       \* committed rows of `releases`
  events,    \* rows of `match_events`, in id order
  submits,   \* clock readings of the submits under way on a release
  role,      \* what the reader does: browse, follow new matches, or inspect
  reader,    \* its walk through a listing
  feed,      \* what it followed with `since` so far
  detail,    \* its GetRelease: row and events, or NULL
  scrape     \* its scrape of /metrics

vars == <<clock, row, events, submits, role, reader, feed, detail, scrape>>

Statuses == {"absent", "unmatched", "matched", "suppressed", "exhausted"}

Row == [status: Statuses, ref: Refs \cup {NULL}, attempts: Nat, published: Int,
        matchedAt: Int \cup {NULL}]

(* One who follows asks for what was matched after its mark. *)
Query == IF role = "follow" THEN [ref: {NULL}, since: {feed.mark}]
         ELSE [ref: QueryRefs \cup {NULL}, since: Sinces \cup {NULL}]

Cursor == [ref: Refs \cup {NULL}, path: {"catalog", "delta"}, key: Int,
           ih: Infohashes]

Walk == [pc: {"idle", "list", "done"},
         query: [ref: Refs \cup {NULL}, since: Int \cup {NULL}],
         started: Int, limit: Nat, cursor: Cursor \cup {NULL},
         page: SUBSET Infohashes, got: SUBSET Infohashes, twice: SUBSET Infohashes,
         expected: SUBSET Infohashes, moved: SUBSET Infohashes]

Event == [status: Statuses \ {"absent"}, at: Int]

Histories == Seq(Event)

Detail == [ih: Infohashes, row: Row, snapshot: Histories, events: Histories,
           complete: BOOLEAN]

CatalogGauges == [infohashes: Nat, refs: Nat]

QueueGauges == [Statuses \ {"absent"} -> Nat]

ASSUME NullAssumption ==
  NULL \notin Int \cup Refs \cup Cursor \cup Detail \cup CatalogGauges \cup QueueGauges

(* The tables, and what the consumer holds. *)
TypeOK ==
  /\ clock \in 0..MaxClock
  /\ row \in [Infohashes -> Row]
  /\ events \in [Infohashes -> Histories]
  /\ submits \in [Infohashes -> SUBSET Int]
  /\ role \in Roles
  /\ reader \in Walk
  /\ feed \in [mark: Int, known: SUBSET Infohashes]
  /\ detail \in Detail \cup {NULL}
  /\ scrape \in [step: 0..2, catalog: CatalogGauges \cup {NULL},
                 queue: QueueGauges \cup {NULL}]

NoRow == [status |-> "absent", ref |-> NULL, attempts |-> 0, published |-> 0,
          matchedAt |-> NULL]

NoWalk == [pc |-> "idle", query |-> [ref |-> NULL, since |-> NULL], started |-> 0,
           limit |-> 0, cursor |-> NULL, page |-> {}, got |-> {}, twice |-> {},
           expected |-> {}, moved |-> {}]

NoScrape == [step |-> 0, catalog |-> NULL, queue |-> NULL]

Init ==
  /\ clock = 0
  /\ row = [i \in Infohashes |-> NoRow]
  /\ events = [i \in Infohashes |-> <<>>]
  /\ submits = [i \in Infohashes |-> {}]
  /\ reader = NoWalk
  /\ role \in Roles
  /\ feed = [mark |-> -1, known |-> {}]
  /\ detail = NULL
  /\ scrape = NoScrape

-----------------------------------------------------------------------------
(* Writers. *)

Earlier(d, e) == IF d < e THEN d ELSE e

(* recomputeRepresentative: the date of the earliest raw item. *)
Merged(r, d) == [r EXCEPT !.published = Earlier(@, d)]

New(d) == [NoRow EXCEPT !.status = "unmatched", !.published = d]

Ingest(i, d) ==
  /\ row' = [row EXCEPT ![i] = IF row[i].status = "absent" THEN New(d) ELSE Merged(row[i], d)]
  /\ row' # row
  /\ reader' = [reader EXCEPT !.moved = IF reader.pc = "list" THEN @ \cup {i} ELSE @]
  /\ UNCHANGED <<clock, events, submits, role, feed, detail, scrape>>

(* Submit reads the clock, then waits for its row ... *)
SubmitBegin(i) ==
  /\ row[i].status = "unmatched" /\ clock \notin submits[i]
  /\ submits' = [submits EXCEPT ![i] = @ \cup {clock}]
  /\ UNCHANGED <<clock, row, events, role, reader, feed, detail, scrape>>

FinalStatus(r, s, cap) ==
  IF s = "unmatched" /\ r.attempts + 1 >= cap THEN "exhausted" ELSE s

Attempts(r, s) == IF s = "unmatched" THEN r.attempts + 1 ELSE r.attempts

Answered(r, s, cap, ref, at) ==
  [r EXCEPT !.status = FinalStatus(r, s, cap), !.attempts = Attempts(r, s), !.ref = ref,
            !.matchedAt = IF s = "matched" THEN at ELSE @]

(* The submits that the release in its new state leaves under way: once it  *)
(* is settled, each one that still waits for the row is refused.            *)
StillOpen(r, readings) == IF r.status = "unmatched" THEN readings ELSE {}

(* ... and commits row and event together, stamped with that reading, which *)
(* another submit may have as well.                                         *)
SubmitCommit(i, at, s, cap, ref) ==
  /\ at \in submits[i] /\ row[i].status = "unmatched"
  /\ ref # NULL <=> s = "matched"
  /\ row' = [row EXCEPT ![i] = Answered(row[i], s, cap, ref, at)]
  /\ events' = [events EXCEPT ![i] = Append(@, [status |-> FinalStatus(row[i], s, cap), at |-> at])]
  /\ \E left \in {submits[i], submits[i] \ {at}} :
       submits' = [submits EXCEPT ![i] = StillOpen(row'[i], left)]
  /\ UNCHANGED <<clock, role, reader, feed, detail, scrape>>

(* Or it is refused for its lease, or fails, and leaves nothing. *)
SubmitFails(i, at) ==
  /\ at \in submits[i]
  /\ submits' = [submits EXCEPT ![i] = @ \ {at}]
  /\ UNCHANGED <<clock, row, events, role, reader, feed, detail, scrape>>

(* A claim exhausts what failed often enough under its process's cap, and   *)
(* writes no event.                                                         *)
Sweep(i, cap) ==
  /\ row[i].status = "unmatched" /\ row[i].attempts >= cap
  /\ row' = [row EXCEPT ![i].status = "exhausted"]
  /\ submits' = [submits EXCEPT ![i] = StillOpen(row'[i], @)]
  /\ UNCHANGED <<clock, events, role, reader, feed, detail, scrape>>

Tick ==
  /\ clock < MaxClock
  /\ clock' = clock + 1
  /\ UNCHANGED <<row, events, submits, role, reader, feed, detail, scrape>>

-----------------------------------------------------------------------------
(* ListReleases. *)

ClampLimit(n) == IF n <= 0 THEN DefaultLimit
                 ELSE IF n > MaxLimit THEN MaxLimit ELSE n

Path(q) == IF q.since = NULL THEN "catalog" ELSE "delta"

Key(i, path) == IF path = "catalog" THEN row[i].published ELSE row[i].matchedAt

\* Mutant: `since` is compared with published_at.
Selected_ByPublished(i, q) ==
  /\ row[i].status = "matched"
  /\ q.ref = NULL \/ row[i].ref = q.ref
  /\ q.since = NULL \/ row[i].published > q.since

(* The WHERE clause without the cursor. *)
Selected(i, q) ==
  /\ row[i].status = "matched"
  /\ q.ref = NULL \/ row[i].ref = q.ref
  /\ q.since = NULL \/ row[i].matchedAt > q.since

\* Mutant: the seek includes the row of the cursor.
Behind_Inclusive(i, c) ==
  \/ Key(i, c.path) < c.key
  \/ Key(i, c.path) = c.key /\ i <= c.ih

(* (key, infohash) < (cursor.Key, cursor.Infohash) *)
Behind(i, c) ==
  \/ Key(i, c.path) < c.key
  \/ Key(i, c.path) = c.key /\ i < c.ih

Before(i, j, path) == \/ Key(i, path) > Key(j, path)
                      \/ Key(i, path) = Key(j, path) /\ i > j

(* The first n rows of S in the order of the path: fewer than n in front. *)
First(S, n, path) == {i \in S : Cardinality({j \in S : Before(j, i, path)}) < n}

Last(S, path) == CHOOSE i \in S : \A j \in S : j = i \/ Before(j, i, path)

\* Mutant: a cursor is good for any query.
Decodes_Anywhere(c, q) == TRUE

(* cursor.Decode: the cursor was issued for this ref and this path. *)
Decodes(c, q) == c # NULL => c.ref = q.ref /\ c.path = Path(q)

\* Mutant: a full page is taken for proof of more.
HasMore_FullPage(S, n) == Cardinality(S) >= n

(* One row more than the limit is fetched. *)
HasMore(S, n) == Cardinality(S) > n

(* The follower's side: it knows the matches it received, and submits that   *)
(* were under way when one of its polls began are excused; when a poll ends *)
(* without a cursor, the next one asks for everything from the instant this *)
(* one began.                                                               *)
Follow(walk, page, more) ==
  [mark  |-> IF more THEN feed.mark ELSE walk.started - 1,
   known |-> feed.known \cup page
               \cup IF walk.cursor # NULL THEN {}
                    ELSE {i \in Infohashes : submits[i] # {}}]

(* One call: ErrInvalidCursor leaves the walk as it was. *)
List(q, walk) ==
  /\ Decodes(walk.cursor, q)
  /\ LET path == Path(q)
         hits == {i \in Infohashes :
                    Selected(i, q) /\ (walk.cursor = NULL \/ Behind(i, walk.cursor))}
         page == First(hits, walk.limit, path)
         last == Last(page, path)
         more == HasMore(hits, walk.limit)
     IN  /\ reader' = [walk EXCEPT
           !.pc = IF more THEN "list" ELSE "done",
           !.query = q,
           !.limit = IF more THEN @ ELSE 0,
           !.started = IF more THEN @ ELSE 0,
           !.cursor = IF more /\ page # {}
                      THEN [ref |-> q.ref, path |-> path, key |-> Key(last, path), ih |-> last]
                      ELSE NULL,
           !.page = page,
           !.got = @ \cup page,
           !.twice = @ \cup (walk.got \cap page)]
         /\ feed' = IF role = "follow" THEN Follow(walk, page, more) ELSE feed
  /\ UNCHANGED <<clock, row, events, submits, role, detail, scrape>>

ListFirst ==
  /\ role \in {"browse", "follow"} /\ reader.pc # "list"
  /\ \E q \in Query, n \in Limits :
       List(q, [NoWalk EXCEPT !.limit = ClampLimit(n), !.started = clock,
                  !.expected = {i \in Infohashes : row[i].status = "matched"}])

(* The consumer sends the cursor back with its limit, possibly with another *)
(* ref or on the other path.                                                *)
ListNext ==
  /\ reader.pc = "list"
  /\ \E q \in Query :
       /\ q.since = NULL \/ reader.query.since \in {NULL, q.since}
       /\ List(q, reader)

-----------------------------------------------------------------------------
(* GetRelease: a REPEATABLE READ transaction, its snapshot taken by the     *)
(* first statement.                                                         *)

GetRow(i) ==
  /\ role = "inspect" /\ detail = NULL /\ scrape = NoScrape
  /\ row[i].status # "absent"
  /\ detail' = [ih |-> i, row |-> row[i], snapshot |-> events[i],
                events |-> <<>>, complete |-> FALSE]
  /\ UNCHANGED <<clock, row, events, submits, role, reader, feed, scrape>>

\* Mutant: READ COMMITTED, every statement sees what is committed by then.
ReadEvents_Latest(d) == events[d.ih]

ReadEvents(d) == d.snapshot

(* ORDER BY created_at, id: the places of h in the order they are listed.   *)
(* created_at was read before the row lock, so this need not be id order.   *)
Listings(h) ==
  {p \in Bijection(1..Len(h), 1..Len(h)) :
     \A m, n \in 1..Len(h) : m < n =>
       \/ h[p[m]].at < h[p[n]].at
       \/ h[p[m]].at = h[p[n]].at /\ p[m] < p[n]}

Listed(h, p) == [n \in 1..Len(h) |-> h[p[n]]]

GetEvents ==
  /\ detail # NULL /\ ~detail.complete
  /\ \E p \in Listings(ReadEvents(detail)) :
       detail' = [detail EXCEPT !.events = Listed(ReadEvents(detail), p), !.complete = TRUE]
  /\ UNCHANGED <<clock, row, events, submits, role, reader, feed, scrape>>

GetDone ==
  /\ detail # NULL /\ detail.complete
  /\ detail' = NULL
  /\ UNCHANGED <<clock, row, events, submits, role, reader, feed, scrape>>

-----------------------------------------------------------------------------
(* queueCollector.Collect: two statements, either of which may fail. *)

CatalogStats ==
  [infohashes |-> Cardinality({i \in Infohashes : row[i].status # "absent"}),
   refs |-> Cardinality({row[i].ref : i \in Infohashes} \ {NULL})]

QueueStats ==
  [s \in Statuses \ {"absent"} |-> Cardinality({i \in Infohashes : row[i].status = s})]

\* Mutant: the queue is read first.
Collect_QueueFirst == <<"queue", "catalog">>

Collect == <<"catalog", "queue">>

ScrapeStep ==
  /\ role = "inspect" /\ detail = NULL /\ scrape.step < 2
  /\ LET part == Collect[scrape.step + 1]
     IN  scrape' \in IF part = "catalog"
                     THEN {[scrape EXCEPT !.step = @ + 1, !.catalog = g] : g \in {NULL, CatalogStats}}
                     ELSE {[scrape EXCEPT !.step = @ + 1, !.queue = g] : g \in {NULL, QueueStats}}
  /\ UNCHANGED <<clock, row, events, submits, role, reader, feed, detail>>

ScrapeDone ==
  /\ scrape.step = 2
  /\ scrape' = NoScrape
  /\ UNCHANGED <<clock, row, events, submits, role, reader, feed, detail>>

Submit(i, at) ==
  \/ \E s \in {"matched", "unmatched", "suppressed"}, cap \in Scope[role].caps,
        ref \in Refs \cup {NULL} : SubmitCommit(i, at, s, cap, ref)
  \/ SubmitFails(i, at)

Next ==
  \/ \E i \in Scope[role].releases : \/ \E d \in Dates : Ingest(i, d)
                                     \/ SubmitBegin(i)
                                     \/ \E at \in submits[i] : Submit(i, at)
                                     \/ \E cap \in Scope[role].caps : Sweep(i, cap)
                                     \/ GetRow(i)
  \/ ListFirst \/ ListNext
  \/ GetEvents \/ GetDone
  \/ ScrapeStep \/ ScrapeDone
  \/ Tick

Spec == Init /\ [][Next]_vars

(* The consumer asks for the next page as long as there is a cursor. *)
FairSpec == Spec /\ WF_vars(ListNext)

-----------------------------------------------------------------------------
(* Properties. *)

(* No release is skipped: at the end of a walk every release that was       *)
(* matched when it began and belongs to the query was on some page, although *)
(* releases are matched and merged between the pages, which moves rows of   *)
(* the catalog path (cursor.go:72).                                         *)
NoSkip ==
  reader.pc = "done" =>
    \A i \in reader.expected : Selected(i, reader.query) => i \in reader.got

(* No release is on two pages of a walk unless an ingest moved it to an     *)
(* earlier date in between (cursor.go:72).                                  *)
OnceUnlessMoved == reader.twice \subseteq reader.moved

(* A next_cursor leads on: the page behind it is never empty, since nothing *)
(* behind a cursor leaves the listing or moves in front of it               *)
(* (store.go:518).                                                          *)
CursorLeadsOn ==
  [][reader.pc = "list" /\ reader'.pc \in {"list", "done"}
       /\ (reader'.query # reader.query \/ reader'.cursor # reader.cursor)
     => reader'.page # {}]_vars

(* A consumer that polls with `since` set to the instant its last poll began *)
(* has received every match that was committed before the poll, unless the  *)
(* submit was under way when an earlier poll began: then first_matched_at,  *)
(* which is read before the row lock, may lie before that poll, and the     *)
(* match is never listed (store.go:305, 354).                               *)
FeedMissesOnlyLate ==
  role = "follow" /\ reader.pc = "done" => reader.expected \subseteq feed.known

(* The gauges of one scrape do not contradict each other, although releases *)
(* arrive and are matched between its two statements: no more infohashes    *)
(* than the queue has items, no more refs than matched ones                 *)
(* (metrics.go:321).                                                        *)
GaugesAgree ==
  scrape.catalog # NULL /\ scrape.queue # NULL =>
    LET q == scrape.queue
    IN  /\ scrape.catalog.infohashes <=
             q["unmatched"] + q["matched"] + q["suppressed"] + q["exhausted"]
        /\ scrape.catalog.refs <= q["matched"]

Failed(s) == s \in {"unmatched", "exhausted"}

(* The row says what its history says, in whatever order it is listed:      *)
(* attempts are its failures, an answer that is no mere failure is the only *)
(* one and gives the status (and first_matched_at), and only `exhausted`    *)
(* needs no event.                                                          *)
Follows(r, h) ==
  /\ r.attempts = Cardinality({n \in 1..Len(h) : Failed(h[n].status)})
  /\ \A m, n \in 1..Len(h) : h[m].status # "unmatched" /\ h[n].status # "unmatched" => m = n
  /\ \A n \in 1..Len(h) : h[n].status # "unmatched" => r.status = h[n].status
  /\ \A n \in 1..Len(h) : h[n].status = "matched" => r.matchedAt = h[n].at
  /\ r.status \in {"matched", "suppressed"} => \E n \in 1..Len(h) : h[n].status = r.status

(* The release detail is of one moment: the row returned is the one that    *)
(* the history returned with it led to, whatever submits and sweeps commit  *)
(* between the statements.  The events are ordered by the stamps of submits *)
(* that may have overlapped, so nothing is said of the last one             *)
(* (store.go:590, 635).                                                     *)
DetailIsConsistent ==
  detail # NULL /\ detail.complete => Follows(detail.row, detail.events)

(* A walk ends: every page makes its cursor smaller, whatever is matched or *)
(* merged meanwhile.                                                        *)
WalkEnds == reader.pc = "list" ~> reader.pc = "done"

-----------------------------------------------------------------------------
(* What the proofs carry. *)

RowIsSound(i) ==
  /\ Follows(row[i], events[i])
  /\ row[i].status = "absent" => events[i] = <<>>
  /\ row[i].ref # NULL => row[i].status = "matched"
  /\ row[i].status = "matched" => row[i].matchedAt # NULL
  /\ \A at \in submits[i] : at <= clock

DetailIsSound == detail # NULL => Follows(detail.row, detail.snapshot)

(* The rows counted by the first statement are still there. *)
ScrapeIsSound ==
  /\ scrape.step = 0 => scrape.catalog = NULL
  /\ scrape.step <= 1 => scrape.queue = NULL
  /\ scrape.catalog # NULL =>
       /\ scrape.catalog.infohashes <= Cardinality({i \in Infohashes : row[i].status # "absent"})
       /\ scrape.catalog.refs <= Cardinality({i \in Infohashes : row[i].status = "matched"})

(* The walk and its cursor: what was expected is got or behind the cursor,  *)
(* what was got is not behind it unless it moved, and something is.         *)
WalkIsSound ==
  /\ \A i \in reader.got \cup reader.expected : row[i].status = "matched"
  /\ reader.pc = "list" =>
       /\ reader.cursor # NULL /\ reader.limit >= 1
       /\ reader.cursor.ref = reader.query.ref /\ reader.cursor.path = Path(reader.query)
       /\ \A i \in reader.expected :
            Selected(i, reader.query) => i \in reader.got \/ Behind(i, reader.cursor)
       /\ \A i \in reader.got : Behind(i, reader.cursor) => i \in reader.moved
       /\ \E i \in Infohashes : Selected(i, reader.query) /\ Behind(i, reader.cursor)

(* Matches stamped before t are in K, and submits under way are known.      *)
KnownBefore(t, K) ==
  \A i \in Infohashes : /\ row[i].status = "matched" /\ row[i].matchedAt < t => i \in K
                        /\ \A at \in submits[i] : at < t => i \in feed.known

FeedIsSound ==
  role = "follow" =>
    /\ feed.mark < clock
    /\ KnownBefore(feed.mark + 1, feed.known)
    /\ reader.pc = "list" =>
         /\ reader.query = [ref |-> NULL, since |-> feed.mark]
         /\ reader.started <= clock
         /\ reader.got \subseteq feed.known
         /\ KnownBefore(reader.started, feed.known \cup reader.expected)

(* The inductive invariant. *)
ReadsInv ==
  /\ TypeOK
  /\ \A i \in Infohashes : RowIsSound(i)
  /\ DetailIsSound /\ DetailIsConsistent
  /\ ScrapeIsSound /\ GaugesAgree
  /\ WalkIsSound /\ NoSkip /\ OnceUnlessMoved
  /\ FeedIsSound /\ FeedMissesOnlyLate
=============================================================================
