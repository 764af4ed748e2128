# Verification of takuhai

TLA+ models, TLC runs and TLAPS proofs for takuhai: a service that ingests
crawled torrent posts into Postgres, hands unmatched releases to matchers under
fenced leases, and is fed by crawlers and n8n nodes. Line numbers below are
those of the sources; `store.go` is `internal/store/postgres/store.go`,
`crawl.go` is `pkg/crawl/crawl.go`, "the trigger" is
`integrations/n8n/src/nodes/TakuhaiCrawlerTrigger/TakuhaiCrawlerTrigger.node.ts`.

## 1. Inventory

| component | state | operations | hard behaviour | what makes it correct |
|---|---|---|---|---|
| work queue (`store.go` Claim, Submit, QueueStats) | `releases` rows (match status, ref, attempts, lease, token), `match_events` | claim with exhaustion sweep, submit, stats | concurrent READ COMMITTED transactions, the clock is read before the lock, late and repeated submits, lost claim responses, restarts with another cap, lock cycles | one lease at a time; only the newest token writes; a settled release stays settled; attempts are exactly the failures |
| ingest (`store.go` IngestN; `rest/ingest.go`) | `releases`, `raw_items`, id sequence | batch handler, upsert, recompute, conflict rollback | batches that overlap on releases and on keys, a batch that fails half way and is sent again | no orphans; the row is the summary of its items; what was acknowledged is stored |
| read side (`store.go` List/Get/Resolve/CatalogStats; `cursor`) | none of its own; cursor and `since` mark are the consumer's | keyset pagination, delta polling, lookups | rows that appear or move between two pages, matches stamped before they commit, commits between two statements | nothing is skipped, only moved rows repeat, a detail is of one moment |
| dispatch, REST, MCP | none | decode, forward, error codes | none beyond those they forward to | statuses are validated, errors keep their class |
| crawl engine (`crawl.go`, `server.go`) | none between calls; the cursor is the client's | one bounded page walk | the listing shifts between page fetches, empty pages, failing fetches, unparsed dates | no gap, exact resume, never parks in an empty run, always ends |
| page fetcher (`server.go` HTTPFetcher) and DMHY page cache (`sources/dmhy/cache.go`) | limiter, page entries with an expiry | get, fetch, put with a sweep | concurrent misses of one page, slow or silent sources, pages of different ages in one walk | staleness and size are bounded, every fetch returns |
| DMHY and Nyaa sources | none | page or feed to posts | malformed rows | rows in order, bad dates tolerated |
| n8n crawler trigger | workflow static data: cursor, floor, watermark, pending watermark, reset flag | poll | a pass over many polls and calls, a throw in the middle of a poll, resets | everything up to the watermark was emitted, by one pass |
| n8n crawler action | none | one call | the loop of its user | see the engine |
| n8n queue nodes | none | claim trigger, submit items | one submit of several failing, leases that run out in the workflow | every claimed item is answered or claimed again |
| process lifecycle, configuration, migrations, command lines | the process, its listener and pool; applied migrations and their lock | boot, migrate, serve, drain, exit; `parse` | replicas that start together, a signal against a dying listener, a drain deadline over open streams and transactions | migrated once, served at head, no silent loss, always stops |
| infohash normalisation (`internal/infohash`) | none | magnet or text to canonical infohash | spellings, hybrids | one torrent has one key |
| health, metrics | counters, gauges computed at scrape | ping, scrape | a scrape of two statements | gauges do not contradict each other |

How they interact: crawlers answer `POST /crawl` to the n8n nodes, which send
what they emit to `POST /ingest`; matchers (workflows on the n8n queue nodes)
`POST /queue/claim` and `/submit`; ingest and queue share the rows of
`releases`, and Postgres row locks are their only synchronisation; MCP and the
REST reads only read. The hazards of this design are listed line by line in
`PROJECT.json`.

## 2. Modules

| module | models | composed with |
|---|---|---|
| `LeaseQueue` | what the work queue promises, with one atomic claim and one atomic submit and without clocks | abstract specification of `Queue`, extended by `MatchLoop` |
| `Queue` | rows, row locks and transactions of the work queue | implements `LeaseQueue` (`ActsAtomically`) |
| `QueueProofs` | the theorems about `Queue`, and that it implements `LeaseQueue` | extends `Queue` |
| `CrawlProofs` | the theorems about a walk and about `Backfill` | extends `Backfill`, extended by `CrawlTriggerProofs` |
| `MatchLoopProofs`, `IngestProofs`, `ReadsProofs`, `CrawlTriggerProofs`, `PageCacheProofs`, `ServiceProofs` | the theorems about the module they are named after | each extends its module |
| `MatchLoop` | the n8n queue nodes: overlapping executions that claim, match and submit | extends `LeaseQueue` |
| `Infohash` | the canonical infohash of a magnet or a text | extended by `Catalog` |
| `Catalog` | what ingest promises: a post is stored in one step, a release row is the summary of its raw items | abstract specification of `Ingest` |
| `Ingest` | handlers, statements and locks of ingest | extends `Catalog` and implements it (`AtomicPosts`) |
| `Reads` | ListReleases, the cursor, GetRelease and the scraped gauges while submits and ingests commit | on its own |
| `Crawl` | one call of the crawl engine, the page cache, the moving listing; no Next of its own | extended by its two clients |
| `Backfill` | a loop that threads `next_cursor` (the crawler action node) | extends `Crawl` |
| `CrawlTrigger` | the polling trigger with its static data | extends `Crawl` |
| `PageCache` | concurrent fetches through cache, rate limiter and HTTP client | the cache as one walk sees it is in `Crawl` |
| `Service` | the processes of takuhai and of the two crawlers, with the requests they serve | on its own |

The `MC*` modules hold values for constants and a symmetry set; `MCQueueClaims` also
a start state, and a history variable (`alone`) that watches which transactions had
company and takes part in no guard. Operators whose name has an underscore
(`Sweepable_IgnoresLease`) are faulty variants of the definition that follows them:
each property fails for at least one of them, which `PROJECT.json` records under
"mutants".

### Queue

* `rel`, `events` are the committed rows; `lock[i]` the transaction that holds
  row i; `tx[t]` the transaction open on connection t, with the `now` its
  handler read before `BEGIN` (store.go:187, 305) and what its statements have
  collected; `grants` the claim responses that reached a matcher. A grant is
  kept for ever: a matcher may answer arbitrarily late, or twice.
* `ClaimBegin` clamps limit and lease, the lease in int64 arithmetic
  (`LeaseSpan`: `DurationHalf` stands for 2^63 nanoseconds, so a large
  `lease_seconds` wraps and may even give a lease in the past).
  `ClaimSweep`/`ClaimSweepRow` are the exhaustion UPDATE: it takes a snapshot,
  then waits for each row and rechecks it. `ClaimSelect`/`ClaimLeaseRow` are
  the SELECT ... FOR UPDATE SKIP LOCKED, in order, up to the limit, rechecking
  the rows it locks. `ClaimCommit` makes both updates visible and delivers or
  loses the response, all of it or nothing.
* `SubmitBegin`, `SubmitLock` (row lock and the three rejections),
  `SubmitCommit` (row update and event). `IngestLock`/`IngestCommit` are the
  part of IngestN that competes for the row: it creates the row or moves
  `published_at`; it never changes match state.
* `Abort` is the deferred Rollback, `Restart` ends the process with every open
  transaction and may change `QueueMaxAttempts`. Nothing is volatile but the
  transactions.
* A row lock that is waited for is granted in the order of the wait queue; a
  closed set of waiting transactions is broken by Postgres' detector
  (`DeadlockVictim`, external).

Left out: columns that are written and never read by a decision (`claimed_at`,
`updated_at`, `first_matched_at`, confidence, reason, title, magnet), and the
raw items a claim response carries. One clock stands for the clocks of all
replicas. A candidate that FOR UPDATE loses to its recheck is passed over, and the
walk goes on with the next one until the limit is reached. An ingest takes its row
when it is free: what it waits for, and that it gets it, is in `Ingest`.

### LeaseQueue and MatchLoop

An entry of `book` has no expiry but `running`: a lease runs out at some moment.
Under the mapping of `Queue`, `running` is "the committed lease ends after the clock".
Two things of the code show in the abstract queue. A claim may give a lease that
does not run at all (an overflowing `lease_seconds`, or a claim that committed
after its own lease). And an answer is accepted even if its lease has run out, as
long as nobody claimed again, because Submit judges the expiry by the clock it
read before it waited for the row.

`flow[f]` is a workflow execution: the trigger's poll (TakuhaiTrigger.node.ts poll)
starts it with a claimed batch, the matcher in between is external, the Takuhai node
submits item by item. A 409 is a result like any other (Takuhai.node.ts submitOne);
any other error ends the loop over the bodies of that input item, and with
continueOnFail the next input items are still submitted. `reports` are the answers,
with their reference, the node returned as `ok: true`. The matcher is taken to name
a release once: the node submits every body it is given, and since `unmatched` keeps
its lease (store.go:373), a second one under the same token would be charged as
well. `LeaseEndsEarly` is a lease that runs out under an execution that still holds
its item. Lost responses, crashes, omitted items and early ends are faults, of which
there are `MaxFaults`.

### Infohash, Catalog and Ingest

A magnet is the sequence of its urns, a text a spelling of a torrent's infohash:
hex in lower case, other hex, base32, or neither. `NormalizeInfohash` takes the
first v1 urn, ignores v2 ones, and gives the lower-case hex spelling or NULL
(ErrSkipInfohash). Two spellings of one torrent have the same `torrent`; the digits
are not computed.

`call[c]` is a request: its batch, the position in it and the statement it is
at. `Upsert` waits for whoever holds or is inserting the release, `InsertRaw`
for whoever is inserting the key, then finds it taken or not; `Commit` is the
four outcomes of IngestN (new, updated, duplicate, conflict with rollback), with
what they add to summary and metrics (`news`); `CommitUnheard` is a commit whose
answer is lost; `Fail` is any error, with the rest of the batch unprocessed;
`Finish` the 200. Ids come from a sequence that is not rolled back.
`ResolveMagnets` and `GetMagnet` are the lookups, one statement each. The check
for an empty `source` (a 400 before anything is stored) is not distinguished from
a batch over the limit.

### Crawl, Backfill, CrawlTrigger

`listing` is what the site shows, newest first, in slots; `Publish` puts a post on
top, which shifts every other across page borders. A slot may be `Blank`: it takes
room and parses to no row. A post has the instant `at` of its listing and the `date`
the crawler reports: the same, rounded down to `Granule`, or `ZeroDate`, which is
below every floor, when it did not parse. `walk` is the call under way: `FetchPage`
is one round of the loop with its five ways to end, `FetchFail` an error, a
cancellation or a lost response. `cache` holds pages with the expiry they were
stored with; one request is under way at a time (several are in `PageCache`).

A lookback of `Backfill` is weeks, days and a rest, as its text says (`Meant`);
`ParseLookback` is what int64 nanoseconds make of it, with `SpanHalf` for 2^63, so
that a large one turns negative (no limit) and a larger one small again. A malformed
one is a 400 (`Refused`) before anything is fetched. `Backfill` has the posts listed
when the pass began (`expected`) and those received (`got`). `CrawlTrigger` has the
static data (`state`), the poll under way and what was emitted by which pass;
`thrown` are the posts a poll had collected when it threw, `hidden` those that are
wanted and listed but kept from the pass by a cached page that is not what the
source shows any more (`Fetch`), `marks` the watermarks so far, and `origin` is
where the stretch begins that the watermark vouches for: the floor of the first
pass, or of a pass after a reset that looks back to less than the watermark the
reset forgot. The names of `Backfill`'s specification have the module's
(`BackfillInit`, `BackfillNext`, `BackfillSpec`), so that one module can extend both
clients. n8n is external: polls of one node do not overlap, and what a poll wrote to
the static data stays written if it throws.

Deletion of posts at the source (rows shift up, which opens a gap no
cursor of this kind can see) is not modelled. Posts are listed at distinct
instants.

### Reads

`row` and `events` are committed rows, `submits[i]` the clock readings of the
submits of i that are under way, any number of them: an event is stamped with the
reading of its submit, in whatever order they commit. `Sweep` is the exhaustion by a
claim, which writes no event, under any of the caps that the processes had. Readers
do not disturb one another, so a behaviour has one reader in one `role`.

* browse: `List` is one call of ListReleases: validation of the cursor against
  ref and path, WHERE, seek, order, one row more than the limit. The consumer may
  send the cursor with another query, which is refused and leaves its walk as it
  was. `reader` has besides the walk the releases that were matched when it began
  (`expected`), those returned so far, those returned twice, and those an ingest
  moved during the walk.
* follow: the consumer polls on the delta path with `since` just before the instant its
  last finished poll began (`feed.mark`), the most careful choice it has.
* inspect: GetRelease is two statements in one snapshot (raw items of the detail are
  left out), the second of which lists the events by stamp and then by id
  (`Listings`), which need not be the order they were written in; `ScrapeStep` is
  one of the two statements of the metrics collector, either of which may fail.

`Scope` gives, by role, the releases that change and the caps: a bound of the runs, and
arbitrary in the proofs. Leases and tokens, which make some of these submits fail, are
in `Queue`.

### PageCache

`req[w]` is what a `/crawl` request waits for: a token of the limiter, the
response, or its body. The cache lock is held for `Hit` and for the store in
`Receive`, never between. `Miss` reserves the next token, `CancelWait` gives it
back only if nobody reserved one behind it (the limiter of golang.org/x/time).
`Render` is the moment the source makes the bytes: their age counts from there,
the expiry of the entry from the store. Times are distances from now, so the runs
are not bounded in time. `newest` and `raced` are history: the newest bytes given
out, and the pages whose fetches overlapped.

### Service

`proc[p]` is a process: where `main` is (`pc`), its serve goroutine (`serve`),
whether a signal came, whether something failed that the exit code should tell,
whether the drain deadline passed. `req[r]` is a request in a handler: between two
transactions, in one, or an MCP event stream. `applied` and `lock` are the
database's: they survive a process. `Leave` is the end of a process, which breaks
its connections, rolls its transactions back and frees its session lock.

takuhai: `TakuhaiBoot`, `MigrateLock`, `MigrateApply` one by one, `MigrateDone`,
`Listen` (synchronous bind), `ServeStart` in a goroutine, then the select:
`SelectSignal` and `SelectError` both may be ready. `DrainDone` or `DrainTimeout`
(srv.Close cancels the handlers, which end by themselves), `AwaitServe`
(`<-serveErr`), `ClosePool` (the deferred `st.Close`, which waits for connections).
The crawlers bind in the goroutine, have neither database nor pool, and return
the error of a drain that timed out. `parse` works off its files, with or without
`--keep-going`. External: net/http, the pool, goose, the supervisor.

## 3. Runs

| run | bounds | shows |
|---|---|---|
| `queue_fencing` | 1 release, 2 connections, caps {1, 2}, clock to 2, no claim once a token is 2, leases of 2 and of 7 (wraps to -1) | `FenceInv` (types, unique tokens, a lease exactly on a claimed open release), exclusive leases, fencing, protection of a running lease, finality, history order, the row and its attempts follow the history, implements LeaseQueue |
| `queue_claims` | 2 releases that start over the cap, 2 connections, limits 0 and 5 (default 1, clamped 2), fairness | every call returns, through lock cycles; a claim nothing overlapped takes the newest, as many as it may |
| `ingest` | 2 handlers, batches of 3 posts that share a key and a torrent in opposite orders, magnets in hex, HEX, base32, hybrid and v2 only, no new request once 5 ids were given out, fairness | rows are the summaries of their items and none is orphaned, acked is stored, new is reported once, every spelling finds its magnet, implements Catalog (a retry of a stored post changes nothing), every request is answered |
| `backfill` | pages of 3, 4 listings (full, an empty page, a hole and an unparsed date, no rows), page sizes 0, 2, 5, lookbacks none, 1w1d, malformed, and two that wrap (to a negative and to a short one), 2 failures, clock to 9, no cache, fairness | no gap, no repeat, every pass ends |
| `backfill_cache` | the same with a cache that keeps pages, no lookback | **violation**: finding 1 |
| `trigger` | pages of 2, 4 posts or one above an empty archive, up to 3 new ones, dates rounded to 2, pages cached for 2, a lookback of 2, polls of 2 calls, 1 failure, 1 reset that may leave a gap, fairness | the watermark is complete but for posts of a poll that threw, posts an outdated cached page hid and posts dated before an earlier watermark; a post is emitted by one pass; passes end |
| `trigger_failure` | the same listings, exact dates, no cache, clock to 5, no reset | **violation**: finding 2 |
| `trigger_zerodate` | the same listings, no cache, no failure; new posts have no date | **violation**: finding 3 |
| `match_loop` | 2 releases, 2 refs, 2 executions, batches of 2, caps {1, 2}, 3 faults, fairness | at most one attempt per claim, reported answers stand with their ref, every release is settled |
| `reads` | 2 refs, 2 dates, clock to 1, overlapping submits, fairness; to browse 3 releases, pages of 1 and 2, both paths; to follow or inspect 2 releases, caps {1, 2} with sweeps | no skip, repeats by merges only, polling misses only late commits, cursors lead on, walks end, the row of a detail is the one its history led to, gauges agree with each other |
| `service` | 2 processes (two replicas, or one of each crawler), 2 clients, requests of up to 2 units, 2 migrations, 2 files, any number of kills and restarts, fairness | served at head with every migration applied once, drops are explained, failures are reported, stops |
| `page_cache` | 2 requests, 3 pages, TTL 2, timeout 2, a token every 2 instants, no new reservation when the next token is 4 away, fairness | hits are recent, a page goes back only in a race, the map is bounded, every fetch returns |

Why the bounds are enough to be interesting. Queue: all rows are independent but for
the limit, the order and lock cycles, which have runs of their own; on one release,
two connections with two tokens have every overlap of two claims, two submits, a
claim and a submit, an ingest and either, and a clock to 2 lets a lease of 2 run out
while a transaction with an older `now` is open. `queue_claims` starts from a state
`OverCapInit` that is reachable (claim, one failure, expiry, restart with a lower
cap) to save the way there. Ingest: two shared rows and two shared keys taken in
opposite orders are the smallest cycle candidates. Backfill and trigger: a listing
of six slots is two or three pages, a walk crosses borders at both ends of a page,
and the remaining publications shift rows across at least one border during the
walk. One post at most is published over the listing with an empty page, for the
reason the first observation of section 4 gives. `MaxPagesPerPoll` is 2 instead of
25, so that a poll ends by it. The trigger's TTL of 2 lets a page outlive a
publication and expire within a pass, and its granule of 2 puts a post in the
granule an earlier pass began in: all three losses that `WatermarkIsComplete`
accounts for happen, and without any one of them in `Accounted` TLC refutes the
property. MatchLoop: three faults lose a claim, break a batch off and end a lease
early in one behaviour, with two executions holding the same release under different
tokens. Reads: with three releases and pages of one there are cursors between equal
dates, and merges and matches fall before, between and behind two pages; two
instants and two caps are enough for histories that are listed in another order than
they were written, and for a release that is swept after an answered failure.
Backfill's lookbacks reach past both ends of the wrapped range (`SpanHalf` 16).
Service: with two migrations a process can be killed between them and another go on,
with two clients a drain has one request and one stream. PageCache: at these times
the bound on the map is two entries, one page less than there are, and two requests
are enough for a race. Every module states its types as `TypeOK`; those of the
modules with proofs are part of their inductive invariants. `MaxClock`,
`MaxFailures`, `MaxResets`, `MaxToken`, `MaxId`, `MaxFaults` and `MaxDebt` are the
only caps; they sit in guards.

Deadlock checking is off for `ingest` only: no request starts after `MaxId`, and
a finished client really may be silent.

Fairness. Queue and Ingest: SF for a transaction's statements, since a lock that is
released again and again is granted to the head of its queue; WF for the deadlock
detector; none for clients, ticks, cancellations or restarts. Crawl clients: WF for
the caller's loop (n8n's schedule), for the receipt of an answered call and for the
engine, whose fetches have timeouts (`server.go`); failures are transient, at most
`MaxFailures`. No fairness for the source. MatchLoop: WF for polls (n8n's schedule),
for the steps of an execution, and for the expiry of a lease nobody works on (time
passes); none for posts, operators or any fault. Reads: WF for the consumer's next
page while it has a cursor, none for writers. Service: WF for main, for the serve
goroutine, for the statements of handlers and migrations (they return, with a result
or an error) and for the timer of the drain; none for signals, faults, restarts or
the end of a stream. A migration that waits for the session lock is not promised it:
the holder may be killed and start again for ever, but then the signal cancels the
wait (`MigrateFail` is part of `Migrate`). PageCache: WF for time, for a request
whose token is there and for the client's timeout; none for the source's answers.

## 4. Findings

Where the code does something other than its documents say, the run shows it as
a counterexample and `PROJECT.json` quotes both.

1. `backfill_cache`: a repeated call can combine a refetched page with an older
   cached page behind it; the row that moved between them is in neither.
2. `trigger_failure`: the trigger stores the cursor of each call before its posts
   are emitted; a later call of the poll that throws loses them.
3. `trigger_zerodate`: a date that does not parse reaches the trigger as year 1,
   below every floor: the pass ends there and the watermark moves past the rest.

Observations, which have no run of their own:

* "once it reaches the threshold the archive floor is positively confirmed"
  (crawl.go:188) holds of a listing that stands still. Posts that are listed between
  two fetches push a hole along with the walk, which meets the same slots twice: with
  a hole of five slots, pages of three and `Threshold = 2` (the second listing of
  `MCBackfill`), `NoGap` fails with `MaxClock = 11`, that is after three new posts. It
  takes rows in a row that do not parse, as many as a page has at least; where no hole
  is that long, one empty page is the floor whatever is listed (proved:
  `PassLeavesNoGap`);
* `match_events` are stamped before the row lock: two submits under one lease can
  be stored in the order opposite to `created_at`, so that the order
  `created_at, id` (docs/design.md:102) ends with a failure although the release
  was settled. `DetailIsConsistent` therefore says nothing of the last event that
  GetRelease returns. Across leases the order is right (proved: `LeaseHistory`);
* DMHY dates have minute resolution (html.go:194), Nyaa's have seconds, and the watermark
  has milliseconds: a post listed later in the minute a pass began in is below the next
  floor and is never emitted (`RoundedAway`);
* a pass over a cached first page, which DMHY has for ten minutes by default, moves the
  watermark past posts the page does not show (`Concealed`);
* `has_more` is true when the budget fills with the last row of a page, without
  knowledge of the next page (crawl.go:241), against the comment at crawl.go:130;
* a repost whose date did not parse carries year 1, and `min(published_at)`
  (store.go:168) moves the release to the far end of every list for good;
* after a restart that lowered the cap, releases over it are neither available nor
  leased in QueueStats until a claim sweeps them;
* the bound on the page cache, "rate limit x ttl" (cache.go:23), leaves out the
  time a fetch takes (`EntriesBounded` has the one that holds), and "fetched at most
  once within ttl" (cache.go:10) does not hold for misses that overlap;
* a lookback of more than 584 years wraps to a short window instead of an error;
* the MCP tool resolve_magnets looks infohashes up as they are spelled, the REST
  routes normalise them first;
* a crawler whose listener died just before a signal may exit with 0: only takuhai
  reads the error again after the drain (`FailureIsReported` says so).

`WatermarkIsComplete` shows that, where dates parse, these two and the posts of a poll
that threw (finding 2) are the only losses: whatever else was listed up to the watermark
was emitted. Run `trigger` has rounded dates and cached pages, and all three occur.

## 5. Proofs

The theorems hold for every value of the constants, all bounds included: any
number of releases, connections, executions, pages, processes, and any batches,
limits, caps and times. What they take for granted are the named `ASSUME`s of the
modules: sets of numbers are numbers, sizes and caps are positive where the code
clamps them or has a default, NULL is none of the values, `Reads` has finitely many
releases (a table has), a listing is a sequence of posts and blanks. TLC evaluates
them on every run. The theorems about `NoGap` and
`NoRepeat` (`SteadySource`) and about `WatermarkIsComplete` (`TidyListings`, `DatesParse`)
have hypotheses besides, which are discussed with them.

Each module keeps its inductive invariant at its end, as a conjunction of named
parts, and TLC checked each of them as an invariant before it was proved. A proof
has one lemma per action, lemmas for the record that an action writes, and lemmas
for the operators (counting, sequences) the invariant is stated with.

**Queue** (`QueueProofs`)

* `TypeCorrect`: `Spec => []TypeOK`, one lemma per operation.
* `FenceHolds`: `FenceInv` is inductive. `NoOverlappingLeases` is not: it says
  nothing about a transaction that has checked a row and not written it yet. The
  strengthening has three ideas. `TxIsSound`: rows a transaction is about to
  write are locked by it, so what it checked still holds at the commit, and its
  `now` is not after the clock. `GrantsAreFenced`: a grant has the row's token,
  and then its expiry as long as the release is open, or an older token, and
  then it has expired. `LeaseIffOpenClaim`: there is a lease exactly on an open
  release with a token. A step of one connection cannot disturb the soundness of
  another since it writes only rows it has locked (`OthersStaySound`); a lease
  is given only where `LeaseOver` holds at a `now` not after the clock, so the
  older grants have expired (`LeasedGrantsAreOver`).
* from it `NoDoubleLease`, `TokenUniqueness`, `NoActiveLeaseIsDead` (the
  `ErrNoActiveLease` branch cannot be taken), and the action properties
  `Fencing`, `LeaseProtection`, `Finality`.
* `LeaseHistory` with `HistoryInv`: answers to older leases are older than the
  clock, answers to the running lease are older than its expiry, and a submit
  under way read its clock after every answer to an older lease.
* `RowHistory` with `RowInv`: a row and its history are written by one commit, and
  what a submit writes was validated before its transaction began. The number of
  failures in a history is a cardinality; that appending adds one or none to it is a
  lemma.

**Queue implements LeaseQueue** (`QueueProofs`): `QueueIsAtomic`. A commit
of a claim is `Leases!Claim` on the rows it leased and swept, that of a submit
`Leases!Submit`, that of an ingest a post or nothing, a tick may let leases run out,
everything else stutters. Beside `FenceInv` the step needs `ClaimsKeepTheCap`: the
rows a claim chose were judged by the cap that is still in force, and nobody
answered them since (`AtomicHolds`).

**MatchLoop** (`MatchLoopProofs`): `OneAttempt`, `AcknowledgedAnswers` from `LoopHolds`.
Neither is inductive without `ItemsAreClaims`: an item in an execution's hands has a
token the queue gave out, no other execution has the same item, and while its token
is the newest the attempt of that claim is not spent.

**Ingest** (`IngestProofs`): `RowsSummarise`, `AcknowledgedIsStored`, `ReportedOnce`,
`LookupFinds` from `IngestHolds`. `IngestInv` says what a row means without the
`CHOOSE`s of `Summary` (`Represents`), so that adding one item needs no induction, and
that a handler between two statements owns what it read: the row from the upsert on
(`HoldsRow`), the key from the insert on, with an id above those of the torrent
(`HoldsKey`). The id matters: magnet and size are COALESCEd, that is those of the
item with the least id. `StoredSoFar` carries `AckedIsStored` through a batch.
`IngestIsAtomic`: a commit of a new or updated post is `StorePost` of `Catalog`,
every other step leaves its tables alone.

**Reads** (`ReadsProofs`): `ReadsHold`, and from it `NothingSkipped`, `ListedOnce`,
`CursorLeads`, `FeedIsComplete`, `GaugesHold`, `DetailHolds`. `WalkIsSound` is the
argument of keyset pagination: what the walk expects is received or behind the
cursor, what was received is not behind it unless it moved, and something selected
is behind it. It is kept because a matched row never leaves the listing, keeps its
`first_matched_at`, and an ingest can only move it further back. A page is the rows
with fewer than `limit` before them; that it has `limit` elements, a last one, and
everything else behind that one are lemmas by least counterexample. For the
follower, `KnownBefore` says that matches stamped before its mark are known or were
being submitted. For a scrape, the rows the first statement counted can only have
become more, and at most one ref comes from each matched row (a surjection). For a
detail, `Follows` relates a row to the set of its events, not to their order:
attempts are the number of failures, an answer that is no mere failure is the only
one and gives the status, and only `exhausted` needs no event, because of the sweep.
It is kept by any submit of any stamp and by a sweep under any cap, the snapshot has
it, and a listing of the snapshot is a permutation of it, under which `Follows` does
not change.

**Crawl and Backfill** (`CrawlProofs`): `PassLeavesNoGap`, `PassRepeatsNoPost` from
`BackfillHolds`. A place in a listing is a page and a number of its rows; the slots
`Behind` it are those up to the end of that page with no more rows of the page before
them. `Covers` says that the posts of a set that are behind a place were brought, and
the argument is that every step keeps this:

* a new post shifts each row by one slot, to the same page with no lower a rank or
  to the next page, and so never from beyond a place to behind it (`CoversShifted`); a
  walk may see a row twice but passes none;
* a round of the loop takes the rows of its page from the place on, and ends behind
  the last one it took (`PageOutcome` has the five outcomes as one, `PagePart`,
  `PageTurn`), mid-page as at a page's end. A cursor is a place, (page, 0) meaning the
  start of the next page;
* it ends for good at an empty page, behind which no row can be (`FloorIsEmpty`), or
  at a post out of its window, and what is not in front of that is older still
  (`BoundaryIsOld`). A date is rounded down, hence the `Granule - 1` of `NoGap`.

`ParseLookback` is the remainder modulo 2^64 of what was meant; up to twice the range
of a Duration it is that or negative (`LookbackParsed`). For `NoRepeat`, `Within` is
the converse of `Covers`: what was received is behind the cursor, so that rows from
there on are others.

Both have a hypothesis, `SteadySource`: no page cache, and a start from listings that
are `Tidy`: newest first, dates not rounded by more than a granule, and no hole of a
page's length above a row. It says nothing of what is published, fetched, failed or
asked for. None of it can be dropped: with a cache `NoGap` is false (finding 1), with
a long hole as well (the first observation), and order is what a window rests on. TLC
checks `NoGap` also for a listing with a long hole and one new post.

**CrawlTrigger** (`CrawlTriggerProofs`): `OnePass` from `TriggerHolds`. The window of a
pass is half open: it begins at the watermark, which is where the pass before
began, and ends where this one began (`PassIsSound`). What was emitted since the
last reset is of this pass or not above the watermark (`EmittedIsSound`). The proof
needs of the engine only that a walk yields posts, so it holds with any cache and any
listing. `Rows` and `Accepted` take a subsequence by the rank of its places, which is
provable where `SelectSeq` is not.

`WatermarkHolds` from `CompleteHolds`, on the engine's lemmas. `CompleteInv` says of a
pass under way that the posts between its floor and its start (`Wanted`) that are
behind the stored cursor were emitted, are in the hands of the poll, were in those of
a poll that threw, or were hidden (`Brought`), that the walk continues from there, and
that what is dated up to the floor is `Accounted` for (`PassCovers`). The pass ends at the
archive's floor, or at a post at or below its own: then the walk has brought every newer
post in front of that one, the last conjunct of `WalkCovers`. A reset in the middle of a
pass starts a pass with nothing behind it, from a floor that is either below the watermark
or a new `origin`.

* Rounding: a window is of dates, the watermark of instants. A floor is never above all
  of the marks (`MarksAreSound`), so a post at or below it by date and above it by instant
  is `RoundedAway`.
* Caching: an outdated page is taken at the place where it was. `CacheIsSound` says that a
  page still has no post behind the place of one of its rows that is older than this
  row: rows shift away from a place, never back. So what the walk passes without having
  brought it is not older than the rows it took, and those posts are `Concealed`.

The hypotheses are `TidyListings` (as above, but with any cache) and `DatesParse`: dates
parse, and are rounded down to any granule. Without the latter the watermark is not
complete (finding 3). `MCCrawlTrigger` has TLC evaluate both (`TheoremsApply`), so the
`trigger` run is an instance of the theorem.

**PageCache** (`PageCacheProofs`): `RecentHits`, `NewestCopy` from `CacheHolds`. Age and
time left of an entry have the bound TTL + Timeout together (`EntryIsSound`), because
age and time left of a request have the bound Timeout (`RequestIsSound`). While a page
has only one fetch, the cache has no fresh copy of it (`FetchIsSound`).
`FewEntries` from `BoundHolds`: every entry of the map was paid for by a token of the
limiter. The invariant asks for an assignment of ages to the entries' tokens, each within
a timeout before its entry was stored, such that no two tokens, of entries or of requests
under way, are closer than `Interval` (`TokensAreSpaced`); the entries left by a sweep
then have as many different multiples of `Interval` in a span of TTL + Timeout.

**Service** (`ServiceProofs`): `SchemaAtHead`, `ReportedFailures`, `ExplainedDrops` from
`ServiceHolds`. `MigrationsAreSound`: a process that applies migrations holds the
session lock and has left exactly what is not applied, and a process past `Migrate` has
nothing left. `ProcessIsSound` relates what `main` knows to where it is,
`HandlerIsSound` which processes may still have handlers.

Only model-checked, and why:

* all liveness (`EveryCallReturns`, `EveryRequestAnswered`, `EveryReleaseSettled`,
  `PassEnds`, `BackfillEnds`, `WalkEnds`, `EveryFetchReturns`, `Stops`): fairness
  and ENABLED are out of the prover's reach;
* `LoneClaimTakesNewest`: it speaks of a history variable of its run.

What bytes base32 or int64 arithmetic yield is not computed digit by digit anywhere.

## 6. Not modelled

* The texts: JSON forms, error wording, log lines, tool schemas and descriptions
  (dispatch, rest/handler, mcp.go, the md files), the table `WireCode`.
* The parsers of DMHY pages and Nyaa feeds (regular expressions, HTML, RSS): the
  models start from rows in page order, slots without a row, and dates that parse,
  are rounded or do not parse.
* QueueStats' split of open releases into available and leased: the gauges of `Reads`
  count by status.
* Counters and histograms of `metrics.go` other than the gauges and the count of
  new posts: they only grow and nothing reads them.
* `internal/conformance` and the other test harnesses, the n8n credentials and node
  descriptions, `file://` fetching.
* Columns nothing decides on (claimed_at, updated_at, confidence, reason, url).

## 7. Plan

Modules were written in this order: Queue (the core), Ingest and Catalog, Crawl
with its two clients, LeaseQueue and MatchLoop, Reads, Service, PageCache, Infohash.
All are done, with the runs above. Proved are all safety properties that the passing runs
check but `LoneClaimTakesNewest`, and both refinements; the liveness properties stay with
TLC. What is left would extend the model: posts deleted at the source, and a bound on
the length of holes in terms of `Threshold` when few posts are listed during a walk, under
which `NoGap` should hold as well.
