------------------------------ MODULE Ingest -------------------------------
(***************************************************************************)
(* POST /ingest (internal/rest/ingest.go) over IngestN                      *)
(* (internal/store/postgres/store.go): batches are worked off post by post, *)
(* every post in a transaction of its own, by concurrent handlers.  The     *)
(* upsert of the release row serialises posts of one infohash; the unique   *)
(* index on (source, source_id) serialises posts of one key.                *)
(***************************************************************************)
EXTENDS Catalog, Sequences

CONSTANTS
  Conns,      \* handlers, each on a connection of its own
  Batches,    \* request bodies: sequences of posts
  MaxBatch,   \* maxBatchPosts
  MaxId       \* bound: no request starts once this many ids were handed out

ASSUME IngestAssumption ==
  /\ Batches \subseteq Seq(Posts)
  /\ MaxBatch \in Nat /\ MaxId \in Nat
  /\ NULL \notin Conns

VARIABLES
  rowLock,   \* releases rows and keys under insertion: owner or NULL
  keyLock,   \* uncommitted raw_items keys: owner or NULL
  nextId,    \* the raw_items id sequence; an abort does not roll it back
  call,      \* the request each handler works on
  acked,     \* batches whose 200 reached the client
  news       \* posts of each release counted as "new"

vars == <<rel, raw, rowLock, keyLock, nextId, call, acked, news>>

Idle == [pc |-> "idle", batch |-> <<>>, pos |-> 1, created |-> FALSE, id |-> NULL]

Calls == [pc: {"idle", "upsert", "raw", "commit"}, batch: Batches \cup {<<>>},
          pos: Nat, created: BOOLEAN, id: Nat \cup {NULL}]

Summaries == [title: Keys, published: Dates, sources: SUBSET {k[1] : k \in Keys},
              size: Sizes \cup {NULL}, magnet: Magnets]

RawItems == [ih: Infohashes, date: Dates, size: Sizes, magnet: Magnets, id: Nat]

Urns == UNION {{p.magnet[n] : n \in 1..Len(p.magnet)} : p \in Posts}

(* A magnet is a sequence of urns, a date a number of seconds, and NULL no  *)
(* row, infohash, id or magnet.  A post may lack a size.                    *)
ASSUME PostsAssumption ==
  /\ Dates \subseteq Int /\ Magnets \subseteq Seq(Urns)
  /\ NULL \notin Nat /\ NULL \notin Magnets
  /\ NULL \notin RawItems /\ NULL \notin Summaries
  /\ \A u \in Urns : /\ u.enc \in {"hex", "HEX", "base32", "other"}
                     /\ Text("hex", u.torrent) # NULL

(* The tables, their locks and the requests under way. *)
TypeOK ==
  /\ rel \in [Infohashes -> Summaries \cup {NULL}]
  /\ raw \in [Keys -> RawItems \cup {NULL}]
  /\ rowLock \in [Infohashes -> Conns \cup {NULL}]
  /\ keyLock \in [Keys -> Conns \cup {NULL}]
  /\ nextId \in Nat
  /\ call \in [Conns -> Calls]
  /\ acked \subseteq Batches
  /\ news \in [Infohashes -> Nat]

Init ==
  /\ CatalogInit
  /\ rowLock = [i \in Infohashes |-> NULL]
  /\ keyLock = [k \in Keys |-> NULL]
  /\ nextId = 1
  /\ call = [c \in Conns |-> Idle]
  /\ acked = {}
  /\ news = [i \in Infohashes |-> 0]

Post(c) == call[c].batch[call[c].pos]

AtPost(c, pc) == call[c].pc = pc /\ call[c].pos <= Len(call[c].batch)

Release(c) ==
  /\ rowLock' = [i \in Infohashes |-> IF rowLock[i] = c THEN NULL ELSE rowLock[i]]
  /\ keyLock' = [k \in Keys |-> IF keyLock[k] = c THEN NULL ELSE keyLock[k]]

NextPost(c) ==
  call' = [call EXCEPT ![c] = [Idle EXCEPT !.pc = "upsert", !.batch = call[c].batch,
                                           !.pos = call[c].pos + 1]]

(* A batch over the limit is answered 400 and changes nothing. *)
Receive(c, b) ==
  /\ call[c].pc = "idle"
  /\ Len(b) <= MaxBatch
  /\ nextId <= MaxId
  /\ call' = [call EXCEPT ![c] = [Idle EXCEPT !.pc = "upsert", !.batch = b]]
  /\ UNCHANGED <<rel, raw, rowLock, keyLock, nextId, acked, news>>

(* No v1 infohash in the magnet: skipped.  IngestN answers a key that is not *)
(* canonical as a duplicate.                                                *)
Skip(c) ==
  /\ AtPost(c, "upsert") /\ ~IsCanonicalInfohash(Ih(Post(c)))
  /\ NextPost(c)
  /\ UNCHANGED <<rel, raw, rowLock, keyLock, nextId, acked, news>>

\* Mutant: SELECT before INSERT, the row is not locked.
Upsert_Unlocked(c) ==
  /\ AtPost(c, "upsert") /\ IsCanonicalInfohash(Ih(Post(c)))
  /\ call' = [call EXCEPT ![c].pc = "raw", ![c].created = rel[Ih(Post(c))] = NULL]
  /\ UNCHANGED <<rel, raw, rowLock, keyLock, nextId, acked, news>>

(* INSERT INTO releases ... ON CONFLICT DO UPDATE: waits for whoever holds  *)
(* the row or is inserting it, then locks it.                               *)
Upsert(c) ==
  /\ AtPost(c, "upsert") /\ IsCanonicalInfohash(Ih(Post(c)))
  /\ LET i == Ih(Post(c))
     IN  /\ rowLock[i] \in {NULL, c}
         /\ rowLock' = [rowLock EXCEPT ![i] = c]
         /\ call' = [call EXCEPT ![c].pc = "raw", ![c].created = rel[i] = NULL]
  /\ UNCHANGED <<rel, raw, keyLock, nextId, acked, news>>

\* Mutant: ON CONFLICT DO NOTHING that does not wait for an uncommitted key.
InsertRaw_NoWait(c) ==
  /\ AtPost(c, "raw")
  /\ LET k == Post(c).key
         inserted == raw[k] = NULL /\ keyLock[k] \in {NULL, c}
     IN  /\ keyLock' = IF inserted THEN [keyLock EXCEPT ![k] = c] ELSE keyLock
         /\ nextId' = IF inserted THEN nextId + 1 ELSE nextId
         /\ call' = [call EXCEPT ![c].pc = "commit",
                                 ![c].id = IF inserted THEN nextId ELSE NULL]
  /\ UNCHANGED <<rel, raw, rowLock, acked, news>>

(* INSERT INTO raw_items ... ON CONFLICT DO NOTHING: waits for an           *)
(* uncommitted insert of the same key, then inserts or finds it taken.      *)
InsertRaw(c) ==
  /\ AtPost(c, "raw")
  /\ LET k == Post(c).key
         inserted == raw[k] = NULL
     IN  /\ keyLock[k] \in {NULL, c}
         /\ keyLock' = IF inserted THEN [keyLock EXCEPT ![k] = c] ELSE keyLock
         /\ nextId' = IF inserted THEN nextId + 1 ELSE nextId
         /\ call' = [call EXCEPT ![c].pc = "commit",
                                 ![c].id = IF inserted THEN nextId ELSE NULL]
  /\ UNCHANGED <<rel, raw, rowLock, acked, news>>

Seed(p) == [title |-> p.key, published |-> p.date, sources |-> {p.key[1]},
            size |-> p.size, magnet |-> p.magnet]

\* Mutant: published_at of the newest item instead of the oldest.
Recompute_LatestDate(r, i, p) ==
  LET K == Linked(r, i)
  IN  [title |-> LatestKey(r, K),
       published |-> Max({r[k].date : k \in K}),
       sources |-> {k[1] : k \in K},
       size |-> IF rel[i].size # NULL THEN rel[i].size ELSE p.size,
       magnet |-> rel[i].magnet]

(* recomputeRepresentative after post p was added to the items of i. *)
Recompute(r, i, p) ==
  LET K == Linked(r, i)
  IN  [title |-> LatestKey(r, K),
       published |-> Min({r[k].date : k \in K}),
       sources |-> {k[1] : k \in K},
       size |-> IF rel[i].size # NULL THEN rel[i].size ELSE p.size,
       magnet |-> rel[i].magnet]

Item(c) == [ih |-> Ih(Post(c)), date |-> Post(c).date, size |-> Post(c).size,
            magnet |-> Post(c).magnet, id |-> call[c].id]

\* Mutant: commit even though the post turned out to be another release's.
Store_Conflict(c) ==
  LET p == Post(c)
  IN  IF call[c].id = NULL
      THEN /\ rel' = [rel EXCEPT ![Ih(p)] = IF call[c].created THEN Seed(p) ELSE @]
           /\ raw' = raw
      ELSE /\ raw' = [raw EXCEPT ![p.key] = Item(c)]
           /\ rel' = [rel EXCEPT ![Ih(p)] = IF call[c].created THEN Seed(p)
                                            ELSE Recompute(raw', Ih(p), p)]

(* New or Updated: the item and the row.  Duplicate: a no-op.  Conflict (a   *)
(* row was created for a key that already belongs to another): roll back.   *)
Store(c) ==
  LET p == Post(c)
  IN  IF call[c].id = NULL
      THEN UNCHANGED catalogVars
      ELSE /\ raw' = [raw EXCEPT ![p.key] = Item(c)]
           /\ rel' = [rel EXCEPT ![Ih(p)] = IF call[c].created THEN Seed(p)
                                            ELSE Recompute(raw', Ih(p), p)]

\* Mutant: whatever is not a duplicate counts as new.
Commit_CountsUpdates(c) ==
  /\ AtPost(c, "commit")
  /\ Store(c)
  /\ news' = [news EXCEPT ![Ih(Post(c))] = IF call[c].id # NULL THEN @ + 1 ELSE @]
  /\ Release(c)
  /\ NextPost(c)
  /\ UNCHANGED <<nextId, acked>>

(* Commit, and the outcome goes into the summary and the metrics. *)
Commit(c) ==
  /\ AtPost(c, "commit")
  /\ Store(c)
  /\ news' = [news EXCEPT ![Ih(Post(c))] =
                IF call[c].created /\ call[c].id # NULL THEN @ + 1 ELSE @]
  /\ Release(c)
  /\ NextPost(c)
  /\ UNCHANGED <<nextId, acked>>

(* The database commits and the connection breaks before it says so: an     *)
(* error to the handler, which gives up on a batch that went further.       *)
CommitUnheard(c) ==
  /\ AtPost(c, "commit")
  /\ Store(c)
  /\ Release(c)
  /\ call' = [call EXCEPT ![c] = Idle]
  /\ UNCHANGED <<nextId, acked, news>>

\* Mutant: an error return without the deferred Rollback.
Fail_KeepsLocks(c) ==
  /\ call[c].pc # "idle"
  /\ call' = [call EXCEPT ![c] = Idle]
  /\ UNCHANGED <<rel, raw, rowLock, keyLock, nextId, acked, news>>

(* A statement, a commit or the stats query fails, or the request is        *)
(* cancelled: the open transaction rolls back, the posts committed before   *)
(* stay, the client gets a 500 or nothing and may send the batch again.     *)
Fail(c) ==
  /\ call[c].pc # "idle"
  /\ Release(c)
  /\ call' = [call EXCEPT ![c] = Idle]
  /\ UNCHANGED <<rel, raw, nextId, acked, news>>

(* 200 with the summary. *)
Finish(c) ==
  /\ call[c].pc = "upsert" /\ call[c].pos > Len(call[c].batch)
  /\ acked' = acked \cup {call[c].batch}
  /\ call' = [call EXCEPT ![c] = Idle]
  /\ UNCHANGED <<rel, raw, rowLock, keyLock, nextId, news>>

Step(c) == Skip(c) \/ Upsert(c) \/ InsertRaw(c) \/ Commit(c) \/ Finish(c)

Next == \E c \in Conns : \/ \E b \in Batches : Receive(c, b)
                         \/ Step(c)
                         \/ Fail(c)
                         \/ CommitUnheard(c)

Spec == Init /\ [][Next]_vars

(* Handlers run; Postgres grants row and index locks in turn.  Nothing      *)
(* promises failures or requests.                                           *)
Fairness == \A c \in Conns : SF_vars(Step(c))

FairSpec == Spec /\ Fairness

-----------------------------------------------------------------------------
(* Magnet lookups: one statement. *)

ResolveMagnets(S) == [i \in {j \in S \cap Infohashes : rel[j] # NULL} |-> rel[i].magnet]

(* GET /magnets/{infohash}; NULL is a 400 or a 404. *)
GetMagnet(text) ==
  LET ih == NormalizeInfohash(<<[kind |-> "bare", enc |-> text.enc, torrent |-> text.torrent]>>)
      found == ResolveMagnets({ih})
  IN  IF ih \in DOMAIN found THEN found[ih] ELSE NULL

-----------------------------------------------------------------------------
(* Properties. *)

(* The releases are exactly the summaries of the raw items after every      *)
(* commit: title of the latest, earliest date, all sources, first known     *)
(* size (store.go:158), whatever the order in which concurrent batches      *)
(* arrive, and a rolled back conflict or failure leaves no release without  *)
(* evidence in the queue (store.go:109) and no item without its release.    *)
RowIsSummary ==
  \A i \in Infohashes :
    rel[i] = IF Linked(raw, i) = {} THEN NULL ELSE Summary(raw, i)

(* The first v1 urn of a magnet is legible. *)
NamesTorrent(m) ==
  \E n \in 1..Len(m) : /\ m[n].kind = "btih" /\ m[n].enc # "other"
                       /\ \A k \in 1..(n - 1) : m[k].kind # "btih"

(* A batch answered 200 is stored: every post of it whose magnet names a v1 *)
(* torrent, in hex of either case or base32, alone or in a hybrid, has its  *)
(* key in raw_items, although it may have been passed over because another  *)
(* transaction was inserting the same key (ingest.go:145, 161).             *)
AckedIsStored ==
  \A b \in acked : \A n \in 1..Len(b) :
    NamesTorrent(b[n].magnet) => raw[b[n].key] # NULL

(* Whatever is stored is found under every spelling of its infohash, and    *)
(* the magnet that is handed out is one of that torrent, although it came   *)
(* with another post and in another spelling (magnets.go:32, store.go:175). *)
LookupFindsTorrent ==
  \A k \in Keys, enc \in {"hex", "HEX", "base32"} :
    raw[k] # NULL =>
      LET found == GetMagnet(Text(enc, raw[k].ih.torrent))
      IN  found # NULL /\ NormalizeInfohash(found) = raw[k].ih

(* A release is reported as new once at most and only if it is there,       *)
(* however many handlers bring posts of it at once, and whichever are sent  *)
(* again: the new_count of the batches and the "new" counter never exceed   *)
(* the releases (ingest.go:172, store.go:133).                              *)
NewIsReportedOnce ==
  \A i \in Infohashes : news[i] <= IF rel[i] = NULL THEN 0 ELSE 1

(* Every commit is one StorePost of the atomic catalog: concurrent batches, *)
(* failures and retries are equivalent to storing posts one at a time.      *)
AtomicPosts == CatalogSpec

(* Every request is answered: handlers waiting for the row or the key of    *)
(* one another never form a cycle.                                          *)
EveryRequestAnswered == \A c \in Conns : call[c].pc # "idle" ~> call[c].pc = "idle"

-----------------------------------------------------------------------------
(* What the proofs carry. *)

(* Row s says of the items of i in table r what Summary computes. *)
Represents(s, r, i) ==
  LET K == Linked(r, i)
  IN  /\ s.title \in K
      /\ \A j \in K : \/ r[j].date < r[s.title].date
                      \/ r[j].date = r[s.title].date /\ r[j].id <= r[s.title].id
      /\ \E k \in K : s.published = r[k].date
      /\ \A k \in K : s.published <= r[k].date
      /\ s.sources = {k[1] : k \in K}
      /\ \/ s.size = NULL /\ \A k \in K : r[k].size = NULL
         \/ \E k \in K : /\ s.size # NULL /\ s.size = r[k].size
                         /\ \A j \in K : r[j].size # NULL => r[k].id <= r[j].id
      /\ \E k \in K : /\ s.magnet = r[k].magnet
                      /\ \A j \in K : r[k].id <= r[j].id

RowIsSound(i) ==
  \/ rel[i] = NULL /\ Linked(raw, i) = {}
  \/ rel[i] # NULL /\ Represents(rel[i], raw, i)

ItemIsSound(k) ==
  raw[k] # NULL =>
    /\ raw[k].id < nextId
    /\ IsCanonicalInfohash(raw[k].ih)
    /\ raw[k].ih = NormalizeInfohash(raw[k].magnet)

(* Items of one torrent have ids of their own. *)
IdsDiffer ==
  \A k, j \in Keys : /\ raw[k] # NULL /\ raw[j] # NULL
                     /\ raw[k].ih = raw[j].ih /\ raw[k].id = raw[j].id
                     => k = j

(* From the upsert on a handler owns the row and what it read of it stands. *)
HoldsRow(c) ==
  call[c].pc \in {"raw", "commit"} =>
    /\ call[c].pos <= Len(call[c].batch)
    /\ IsCanonicalInfohash(Ih(Post(c)))
    /\ rowLock[Ih(Post(c))] = c
    /\ call[c].created <=> rel[Ih(Post(c))] = NULL

(* From the insert on it owns the key, with an id above those of the        *)
(* torrent, or the key is taken.                                            *)
HoldsKey(c) ==
  call[c].pc = "commit" =>
    IF call[c].id = NULL THEN raw[Post(c).key] # NULL
    ELSE /\ keyLock[Post(c).key] = c
         /\ raw[Post(c).key] = NULL
         /\ call[c].id < nextId
         /\ \A k \in Linked(raw, Ih(Post(c))) : raw[k].id < call[c].id

(* What it has left behind is stored. *)
StoredSoFar(c) ==
  /\ call[c].pos >= 1
  /\ call[c].pc # "idle" => call[c].batch \in Batches
  /\ \A n \in 1..(call[c].pos - 1) :
       n <= Len(call[c].batch) /\ NamesTorrent(call[c].batch[n].magnet)
         => raw[call[c].batch[n].key] # NULL

(* The inductive invariant: rows summarise items, open transactions own     *)
(* what they read, and nothing counted or acknowledged is missing.          *)
IngestInv ==
  /\ TypeOK
  /\ \A i \in Infohashes : RowIsSound(i)
  /\ \A k \in Keys : ItemIsSound(k)
  /\ IdsDiffer
  /\ \A c \in Conns : HoldsRow(c) /\ HoldsKey(c) /\ StoredSoFar(c)
  /\ AckedIsStored
  /\ NewIsReportedOnce
=============================================================================
