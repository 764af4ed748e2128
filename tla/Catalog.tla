------------------------------ MODULE Catalog ------------------------------
(***************************************************************************)
(* What ingest promises: a post is stored in one step, at most once per     *)
(* (source, source_id), and a release row is nothing but a summary of the   *)
(* raw items linked to it.  Module Ingest implements this with concurrent   *)
(* statement-level transactions.                                           *)
(***************************************************************************)
EXTENDS Infohash, FiniteSets

CONSTANT
  Posts    \* crawled posts: [key: <<source, source_id>>, magnet, date, size]

VARIABLES
  rel,     \* releases: infohash -> summary, or NULL
  raw      \* raw_items: key -> [ih, date, size, magnet, id], or NULL; size and
           \*   magnet of the post, which only the release row keeps

catalogVars == <<rel, raw>>

Keys == {p.key : p \in Posts}
Ih(p) == NormalizeInfohash(p.magnet)

Infohashes == {Ih(p) : p \in Posts} \ {NULL}
Dates == {p.date : p \in Posts}
Sizes == {p.size : p \in Posts}
Magnets == {p.magnet : p \in Posts}

Linked(r, i) == {k \in Keys : r[k] # NULL /\ r[k].ih = i}

(* ORDER BY published_at DESC, id DESC LIMIT 1 *)
LatestKey(r, K) ==
  CHOOSE k \in K : \A j \in K : \/ r[j].date < r[k].date
                                \/ r[j].date = r[k].date /\ r[j].id <= r[k].id

(* The size of the earliest inserted item that has one. *)
FirstSize(r, K) ==
  LET sized == {k \in K : r[k].size # NULL}
  IN  IF sized = {} THEN NULL
      ELSE r[CHOOSE k \in sized : \A j \in sized : r[k].id <= r[j].id].size

(* The magnet of the item inserted first; every post that is stored has one. *)
FirstMagnet(r, K) == r[CHOOSE k \in K : \A j \in K : r[k].id <= r[j].id].magnet

(* The release row the raw items of an infohash stand for. *)
Summary(r, i) ==
  LET K == Linked(r, i)
  IN  [title |-> LatestKey(r, K),
       published |-> Min({r[k].date : k \in K}),
       sources |-> {k[1] : k \in K},
       size |-> FirstSize(r, K),
       magnet |-> FirstMagnet(r, K)]

CatalogInit ==
  /\ rel = [i \in Infohashes |-> NULL]
  /\ raw = [k \in Keys |-> NULL]

(* The database chooses the id: some number above those of the torrent. *)
StorePost(p) ==
  /\ IsCanonicalInfohash(Ih(p))
  /\ raw[p.key] = NULL /\ raw'[p.key] # NULL
  /\ LET id == raw'[p.key].id
     IN  /\ id \in Nat /\ \A k \in Linked(raw, Ih(p)) : raw[k].id < id
         /\ raw' = [raw EXCEPT ![p.key] = [ih |-> Ih(p), date |-> p.date, size |-> p.size,
                                           magnet |-> p.magnet, id |-> id]]
  /\ rel' = [rel EXCEPT ![Ih(p)] = Summary(raw', Ih(p))]

CatalogNext == \E p \in Posts : StorePost(p)

CatalogSpec == CatalogInit /\ [][CatalogNext]_catalogVars
=============================================================================
