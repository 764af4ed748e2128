---------------------------- MODULE IngestProofs ----------------------------
(***************************************************************************)
(* Proofs about module Ingest: the inductive invariant IngestInv, what      *)
(* follows from it of the release rows, of acknowledged batches, of the     *)
(* "new" count and of the magnet lookup, and the refinement of Catalog.     *)
(***************************************************************************)
EXTENDS Ingest, TLAPS

-----------------------------------------------------------------------------
(* Infohashes. *)

(* A set of integers with a least member has that member for its Min. *)
LEMMA MinIsLeast ==
  ASSUME NEW S \in SUBSET Int, NEW m \in S, \A x \in S : m <= x
  PROVE  Min(S) = m
<1>1. PICK n \in S : n = Min(S) /\ \A x \in S : n <= x
  BY DEF Min
<1>2. m <= n /\ n <= m /\ m \in Int /\ n \in Int
  BY <1>1
<1> QED
  BY <1>1, <1>2

(* A magnet whose first v1 urn is legible has a canonical infohash: the     *)
(* hex form of that urn's torrent.                                          *)
LEMMA LegibleIsCanonical ==
  ASSUME NEW p \in Posts, NamesTorrent(p.magnet)
  PROVE  IsCanonicalInfohash(Ih(p))
<1> DEFINE m == p.magnet
           v1 == {n \in 1..Len(m) : m[n].kind = "btih"}
<1>1. m \in Seq(Urns) /\ Len(m) \in Nat
  BY PostsAssumption DEF Magnets
<1>2. PICK n \in 1..Len(m) : /\ m[n].kind = "btih" /\ m[n].enc # "other"
                             /\ \A k \in 1..(n - 1) : m[k].kind # "btih"
  BY DEF NamesTorrent
<1>3. m[n] \in Urns
  BY <1>1
<1>4. n \in v1 /\ v1 \in SUBSET Int /\ \A k \in v1 : n <= k
  BY <1>1, <1>2
<1>5. Min(v1) = n
  BY <1>4, MinIsLeast
<1>6. Ih(p) = CanonicalBtih(m[n])
  BY <1>4, <1>5 DEF Ih, NormalizeInfohash
<1>7. Ih(p) = Text("hex", m[n].torrent)
  BY <1>2, <1>3, <1>6, PostsAssumption DEF CanonicalBtih
<1> QED
  BY <1>3, <1>7, PostsAssumption DEF IsCanonicalInfohash, Text

(* An infohash of the catalog is the hex text of its torrent. *)
LEMMA InfohashIsHex ==
  ASSUME NEW i \in Infohashes
  PROVE  i = Text("hex", i.torrent) /\ IsCanonicalInfohash(i)
<1>1. PICK p \in Posts : i = Ih(p) /\ i # NULL
  BY DEF Infohashes
<1>2. \E u : i = CanonicalBtih(u)
  BY <1>1 DEF Ih, NormalizeInfohash
<1>3. \E u : i = Text("hex", u.torrent)
  BY <1>1, <1>2 DEF CanonicalBtih
<1> QED
  BY <1>1, <1>3 DEF Text, IsCanonicalInfohash

(* A lookup by any spelling reads the row of the hex form. *)
LEMMA SpellingIsHex ==
  ASSUME NEW t, NEW enc \in {"hex", "HEX", "base32"}
  PROVE  NormalizeInfohash(<<[kind |-> "bare", enc |-> enc, torrent |-> t]>>) = Text("hex", t)
<1> DEFINE u == [kind |-> "bare", enc |-> enc, torrent |-> t]
           m == <<u>>
<1>1. Len(m) = 1 /\ m[1] = u /\ m # <<>>
  OBVIOUS
<1>2. u.kind = "bare" /\ u.enc = enc /\ u.torrent = t
  OBVIOUS
<1> HIDE DEF m, u
<1>3. {n \in 1..Len(m) : m[n].kind = "btih"} = {}
  BY <1>1, <1>2
<1>4. NormalizeInfohash(m) = CanonicalBtih(u)
  BY <1>1, <1>2, <1>3 DEF NormalizeInfohash
<1>5. CanonicalBtih(u) = Text("hex", t)
  BY <1>2 DEF CanonicalBtih
<1> QED
  BY <1>4, <1>5 DEF m, u
-----------------------------------------------------------------------------
(* Rows and items. *)

Raw == [Keys -> RawItems \cup {NULL}]

ItemOf(p, id) == [ih |-> Ih(p), date |-> p.date, size |-> p.size, magnet |-> p.magnet, id |-> id]

(* Table q is table r with post p inserted. *)
Stores(r, p, id, q) ==
  /\ Ih(p) # NULL /\ r[p.key] = NULL
  /\ q = [r EXCEPT ![p.key] = ItemOf(p, id)]

(* What is known of the items of a torrent. *)
LEMMA LinkedItems ==
  ASSUME NEW r \in Raw, NEW i, NEW k \in Linked(r, i)
  PROVE  /\ k \in Keys /\ r[k] \in RawItems /\ r[k] # NULL /\ r[k].ih = i
         /\ r[k].date \in Int /\ r[k].date \in Dates /\ r[k].id \in Nat
         /\ r[k].magnet \in Magnets /\ r[k].size \in Sizes
<1>1. k \in Keys /\ r[k] \in RawItems /\ r[k] # NULL /\ r[k].ih = i
  BY DEF Raw, Linked
<1> QED
  BY <1>1, PostsAssumption DEF RawItems

(* The title that Represents describes is the key LatestKey chooses. *)
LEMMA TitleIsLatest ==
  ASSUME NEW r \in Raw, NEW i, NEW t \in Linked(r, i),
         \A k, j \in Linked(r, i) : r[k].id = r[j].id => k = j,
         \A j \in Linked(r, i) : \/ r[j].date < r[t].date
                                 \/ r[j].date = r[t].date /\ r[j].id <= r[t].id
  PROVE  LatestKey(r, Linked(r, i)) = t
<1> DEFINE K == Linked(r, i)
<1>0. \A k \in K : r[k].date \in Int /\ r[k].id \in Nat
  BY LinkedItems
<1> HIDE DEF K
<1>1. PICK k \in K : /\ k = LatestKey(r, K)
                     /\ \A j \in K : \/ r[j].date < r[k].date
                                     \/ r[j].date = r[k].date /\ r[j].id <= r[k].id
  BY DEF LatestKey, K
<1>2. r[k].id = r[t].id
  BY <1>0, <1>1 DEF K
<1> QED
  BY <1>1, <1>2 DEF K

(* A member that is least by id is the one a CHOOSE by least id finds. *)
LEMMA FirstIsUnique ==
  ASSUME NEW r \in Raw, NEW i, NEW S \in SUBSET Linked(r, i), NEW f \in S,
         \A k, j \in Linked(r, i) : r[k].id = r[j].id => k = j,
         \A j \in S : r[f].id <= r[j].id
  PROVE  (CHOOSE k \in S : \A j \in S : r[k].id <= r[j].id) = f
<1>0. \A k \in S : r[k].id \in Nat
  BY LinkedItems
<1>1. PICK k \in S : /\ k = (CHOOSE n \in S : \A j \in S : r[n].id <= r[j].id)
                     /\ \A j \in S : r[k].id <= r[j].id
  OBVIOUS
<1>2. r[k].id = r[f].id
  BY <1>0, <1>1
<1> QED
  BY <1>1, <1>2

(* A row that represents the items of a torrent is their Summary. *)
LEMMA RepresentsIsSummary ==
  ASSUME NEW r \in Raw, NEW i, NEW s \in Summaries, Represents(s, r, i),
         \A k, j \in Linked(r, i) : r[k].id = r[j].id => k = j
  PROVE  s = Summary(r, i)
<1> DEFINE K == Linked(r, i)
           sized == {k \in K : r[k].size # NULL}
<1>1. s.title = LatestKey(r, K)
  BY TitleIsLatest DEF Represents
<1>2. s.published = Min({r[k].date : k \in K})
  <2>1. {r[k].date : k \in K} \in SUBSET Int
    BY LinkedItems
  <2>2. s.published \in {r[k].date : k \in K} /\ \A x \in {r[k].date : k \in K} : s.published <= x
    BY DEF Represents
  <2> QED
    BY <2>1, <2>2, MinIsLeast
<1>3. s.sources = {k[1] : k \in K}
  BY DEF Represents
<1>4. s.size = FirstSize(r, K)
  <2>1. CASE s.size = NULL /\ \A k \in K : r[k].size = NULL
    BY <2>1 DEF FirstSize
  <2>2. CASE \E k \in K : /\ s.size # NULL /\ s.size = r[k].size
                          /\ \A j \in K : r[j].size # NULL => r[k].id <= r[j].id
    <3>1. PICK k \in sized : /\ s.size = r[k].size
                             /\ \A j \in sized : r[k].id <= r[j].id
      BY <2>2
    <3>2. (CHOOSE n \in sized : \A j \in sized : r[n].id <= r[j].id) = k
      BY <3>1, FirstIsUnique
    <3> QED
      BY <3>1, <3>2 DEF FirstSize
  <2> QED
    BY <2>1, <2>2 DEF Represents
<1>5. s.magnet = FirstMagnet(r, K)
  <2>1. PICK k \in K : s.magnet = r[k].magnet /\ \A j \in K : r[k].id <= r[j].id
    BY DEF Represents
  <2>2. (CHOOSE n \in K : \A j \in K : r[n].id <= r[j].id) = k
    BY <2>1, FirstIsUnique
  <2> QED
    BY <2>1, <2>2 DEF FirstMagnet
<1>6. s = [title |-> s.title, published |-> s.published, sources |-> s.sources,
           size |-> s.size, magnet |-> s.magnet]
  BY DEF Summaries
<1> HIDE DEF K
<1> QED
  BY <1>1, <1>2, <1>3, <1>4, <1>5, <1>6 DEF Summary, K
(* Storing a post adds its key to the items of its torrent and leaves those *)
(* of the others alone.                                                     *)
LEMMA StoringLinks ==
  ASSUME NEW r \in Raw, NEW p \in Posts, NEW id \in Nat, NEW q,
         Stores(r, p, id, q)
  PROVE  /\ q \in Raw
         /\ Linked(q, Ih(p)) = Linked(r, Ih(p)) \cup {p.key}
         /\ p.key \notin Linked(r, Ih(p))
         /\ \A i : i # Ih(p) => Linked(q, i) = Linked(r, i)
         /\ \A k \in Keys : k # p.key => q[k] = r[k]
         /\ q[p.key] = ItemOf(p, id)
<1>1. p.key \in Keys /\ Ih(p) \in Infohashes /\ p.date \in Dates /\ p.size \in Sizes
      /\ p.magnet \in Magnets
  BY DEF Keys, Infohashes, Dates, Sizes, Magnets, Stores
<1> DEFINE t == ItemOf(p, id)
<1>2. t \in RawItems /\ t.ih = Ih(p)
  BY <1>1 DEF RawItems, ItemOf
<1>3. t # NULL
  BY <1>2, PostsAssumption
<1> HIDE DEF t
<1>4. q = [r EXCEPT ![p.key] = t] /\ r[p.key] = NULL
  BY DEF t, Stores
<1>5. q \in Raw /\ q[p.key] = t /\ \A k \in Keys : k # p.key => q[k] = r[k]
  BY <1>1, <1>2, <1>4 DEF Raw
<1> QED
  BY <1>1, <1>2, <1>3, <1>4, <1>5 DEF Linked, t

(* The row seeded from the first post of a torrent represents it. *)
LEMMA SeedRepresents ==
  ASSUME NEW r \in Raw, NEW p \in Posts, NEW id \in Nat, NEW q,
         Stores(r, p, id, q),
         Linked(r, Ih(p)) = {}
  PROVE  Seed(p) \in Summaries /\ Represents(Seed(p), q, Ih(p))
<1>1. p.key \in Keys /\ p.date \in Dates /\ p.size \in Sizes /\ p.magnet \in Magnets
      /\ p.date \in Int
  BY PostsAssumption DEF Keys, Dates, Sizes, Magnets
<1> DEFINE s == Seed(p)
<1>2. s \in Summaries
  BY <1>1 DEF Summaries, Seed
<1>3. s.title = p.key /\ s.published = p.date /\ s.sources = {p.key[1]}
      /\ s.size = p.size /\ s.magnet = p.magnet
  BY DEF Seed
<1>4. Linked(q, Ih(p)) = {p.key}
  BY StoringLinks
<1>5. q[p.key].date = p.date /\ q[p.key].size = p.size /\ q[p.key].magnet = p.magnet
      /\ q[p.key].id = id
  <2>1. q[p.key] = ItemOf(p, id)
    BY StoringLinks
  <2> QED
    BY <2>1 DEF ItemOf
<1> HIDE DEF s
<1>6. Represents(s, q, Ih(p))
  BY <1>1, <1>3, <1>4, <1>5 DEF Represents
<1> QED
  BY <1>2, <1>6 DEF s

(* A row recomputed after one more post, with an id above the others,       *)
(* represents the torrent if it did before.                                 *)
LEMMA RecomputedRepresents ==
  ASSUME NEW r \in Raw, NEW p \in Posts, NEW id \in Nat, NEW q,
         Stores(r, p, id, q),
         \A k \in Linked(r, Ih(p)) : r[k].id < id,
         NEW s \in Summaries, Represents(s, r, Ih(p)),
         NEW t,
         t = [title |-> LatestKey(q, Linked(q, Ih(p))),
              published |-> Min({q[k].date : k \in Linked(q, Ih(p))}),
              sources |-> {k[1] : k \in Linked(q, Ih(p))},
              size |-> IF s.size # NULL THEN s.size ELSE p.size,
              magnet |-> s.magnet]
  PROVE  t \in Summaries /\ Represents(t, q, Ih(p))
<1> DEFINE i == Ih(p)
           L == Linked(r, i)
           K == Linked(q, i)
           x == p.key
<1>1. /\ q \in Raw /\ K = L \cup {x} /\ x \notin L /\ x \in Keys
      /\ \A k \in L : q[k] = r[k]
  <2>1. p.key \in Keys /\ L \subseteq Keys
    BY DEF Keys, Linked
  <2> QED
    BY <2>1, StoringLinks
<1>2. q[x].date = p.date /\ q[x].size = p.size /\ q[x].magnet = p.magnet /\ q[x].id = id
  <2>1. q[x] = ItemOf(p, id)
    BY StoringLinks
  <2> QED
    BY <2>1 DEF ItemOf
<1>3. \A k \in K : q[k].date \in Int /\ q[k].date \in Dates /\ q[k].id \in Nat /\ k \in Keys
                   /\ q[k].size \in Sizes
  BY <1>1, LinkedItems
<1>4. \A k \in L : q[k].id < q[x].id
  BY <1>1, <1>2
<1>5. /\ s.title \in L
      /\ \A j \in L : \/ q[j].date < q[s.title].date
                      \/ q[j].date = q[s.title].date /\ q[j].id <= q[s.title].id
      /\ \E k \in L : s.published = q[k].date
      /\ \A k \in L : s.published <= q[k].date
      /\ \/ s.size = NULL /\ \A k \in L : q[k].size = NULL
         \/ \E k \in L : /\ s.size # NULL /\ s.size = q[k].size
                         /\ \A j \in L : q[j].size # NULL => q[k].id <= q[j].id
      /\ \E k \in L : /\ s.magnet = q[k].magnet
                      /\ \A j \in L : q[k].id <= q[j].id
  BY <1>1 DEF Represents
<1>6. /\ t.title = LatestKey(q, K) /\ t.published = Min({q[k].date : k \in K})
      /\ t.sources = {k[1] : k \in K} /\ t.magnet = s.magnet
      /\ t.size = IF s.size # NULL THEN s.size ELSE p.size
      /\ t = [title |-> t.title, published |-> t.published, sources |-> t.sources,
              size |-> t.size, magnet |-> t.magnet]
  OBVIOUS
<1> HIDE DEF K, L, i, x
<1>7. /\ t.title \in K
      /\ \A j \in K : \/ q[j].date < q[t.title].date
                      \/ q[j].date = q[t.title].date /\ q[j].id <= q[t.title].id
  <2> DEFINE Latest(k) == \A j \in K : \/ q[j].date < q[k].date
                                       \/ q[j].date = q[k].date /\ q[j].id <= q[k].id
  <2>1. CASE q[x].date < q[s.title].date
    <3>1. s.title \in K /\ Latest(s.title)
      BY <1>1, <1>5, <2>1
    <3> HIDE DEF Latest
    <3>2. LatestKey(q, K) = CHOOSE k \in K : Latest(k)
      BY DEF LatestKey, Latest
    <3>3. LatestKey(q, K) \in K /\ Latest(LatestKey(q, K))
      BY <3>1, <3>2
    <3> QED
      BY <1>6, <3>3 DEF Latest
  <2>2. CASE ~(q[x].date < q[s.title].date)
    <3>1. x \in K /\ Latest(x)
      BY <1>1, <1>3, <1>4, <1>5, <2>2
    <3> HIDE DEF Latest
    <3>2. LatestKey(q, K) = CHOOSE k \in K : Latest(k)
      BY DEF LatestKey, Latest
    <3>3. LatestKey(q, K) \in K /\ Latest(LatestKey(q, K))
      BY <3>1, <3>2
    <3> QED
      BY <1>6, <3>3 DEF Latest
  <2> QED
    BY <2>1, <2>2
<1>8. /\ \E k \in K : t.published = q[k].date
      /\ \A k \in K : t.published <= q[k].date
  <2> DEFINE D == {q[k].date : k \in K}
  <2>1. D \in SUBSET Int
    BY <1>3
  <2>2. PICK d \in D : \A y \in D : d <= y
    <3>1. CASE s.published <= q[x].date
      BY <1>1, <1>3, <1>5, <3>1
    <3>2. CASE ~(s.published <= q[x].date)
      <4>1. \A k \in L : q[x].date <= q[k].date
        BY <1>1, <1>3, <1>5, <3>2
      <4>2. q[x].date \in D /\ q[x].date <= q[x].date
        BY <1>1, <1>3
      <4> QED
        BY <1>1, <4>1, <4>2
    <3> QED
      BY <3>1, <3>2
  <2>3. t.published = d
    BY <1>6, <2>1, <2>2, MinIsLeast
  <2> QED
    BY <2>2, <2>3
<1>9. \/ t.size = NULL /\ \A k \in K : q[k].size = NULL
      \/ \E k \in K : /\ t.size # NULL /\ t.size = q[k].size
                      /\ \A j \in K : q[j].size # NULL => q[k].id <= q[j].id
  <2>1. CASE s.size # NULL
    <3>1. PICK k \in L : s.size = q[k].size /\ \A j \in L : q[j].size # NULL => q[k].id <= q[j].id
      BY <1>5, <2>1
    <3>2. q[k].id <= q[x].id
      BY <1>1, <1>3, <1>4
    <3> QED
      BY <1>1, <1>6, <2>1, <3>1, <3>2
  <2>2. CASE s.size = NULL /\ p.size # NULL
    <3>1. \A j \in L : q[j].size = NULL
      BY <1>5, <2>2
    <3>2. q[x].id <= q[x].id
      BY <1>1, <1>3
    <3> QED
      BY <1>1, <1>2, <1>6, <2>2, <3>1, <3>2
  <2>3. CASE s.size = NULL /\ p.size = NULL
    BY <1>1, <1>2, <1>5, <1>6, <2>3
  <2> QED
    BY <2>1, <2>2, <2>3
<1>10. \E k \in K : /\ t.magnet = q[k].magnet
                    /\ \A j \in K : q[k].id <= q[j].id
  <2>1. PICK k \in L : s.magnet = q[k].magnet /\ \A j \in L : q[k].id <= q[j].id
    BY <1>5
  <2>2. q[k].id <= q[x].id
    BY <1>1, <1>3, <1>4
  <2> QED
    BY <1>1, <1>6, <2>1, <2>2
<1>11. Represents(t, q, Ih(p))
  BY <1>6, <1>7, <1>8, <1>9, <1>10 DEF Represents, K, i
<1>12. t \in Summaries
  <2>1. t.title \in Keys /\ t.published \in Dates /\ t.magnet \in Magnets
    BY <1>3, <1>6, <1>7, <1>8 DEF Summaries
  <2>2. t.sources \in SUBSET {k[1] : k \in Keys}
    BY <1>3, <1>6
  <2>3. t.size \in Sizes \cup {NULL}
    BY <1>3, <1>9
  <2> QED
    BY <1>6, <2>1, <2>2, <2>3 DEF Summaries
<1> QED
  BY <1>11, <1>12
-----------------------------------------------------------------------------
(* The inductive invariant. *)

(* The post a handler works on is one of the crawled posts. *)
LEMMA PostIsPosted ==
  ASSUME TypeOK, NEW c \in Conns, StoredSoFar(c), call[c].pos <= Len(call[c].batch)
  PROVE  Post(c) \in Posts /\ Post(c).key \in Keys
<1>1. call[c].batch \in Seq(Posts) /\ call[c].pos \in Nat
  <2>1. call[c].batch \in Batches \cup {<<>>} /\ call[c].pos \in Nat
    BY DEF TypeOK, Calls
  <2>2. <<>> \in Seq(Posts)
    OBVIOUS
  <2> QED
    BY <2>1, <2>2, IngestAssumption
<1>2. call[c].pos \in 1..Len(call[c].batch)
  BY <1>1 DEF StoredSoFar
<1> QED
  BY <1>1, <1>2 DEF Post, Keys

(* What a commit does to the tables: nothing, or one more post and its row. *)
LEMMA StoreOutcome ==
  ASSUME IngestInv, NEW c \in Conns, AtPost(c, "commit"), Store(c)
  PROVE  /\ Post(c) \in Posts /\ Post(c).key \in Keys
         /\ Ih(Post(c)) \in Infohashes
         /\ \/ /\ call[c].id = NULL /\ UNCHANGED <<rel, raw>>
               /\ raw[Post(c).key] # NULL
            \/ /\ call[c].id \in Nat /\ call[c].id < nextId
               /\ Stores(raw, Post(c), call[c].id, raw')
               /\ \E t \in Summaries : /\ Represents(t, raw', Ih(Post(c)))
                                       /\ rel' = [rel EXCEPT ![Ih(Post(c))] = t]
<1>1. Post(c) \in Posts /\ Post(c).key \in Keys
  BY PostIsPosted DEF IngestInv, AtPost
<1>2. /\ call[c].pc = "commit" /\ call[c] \in Calls /\ raw \in Raw
      /\ HoldsRow(c) /\ HoldsKey(c)
  BY DEF IngestInv, TypeOK, AtPost, Raw
<1>3. Ih(Post(c)) \in Infohashes
  BY <1>1, <1>2 DEF HoldsRow, IsCanonicalInfohash, Infohashes
<1>4. CASE call[c].id = NULL
  BY <1>1, <1>2, <1>3, <1>4 DEF Store, HoldsKey, catalogVars
<1>5. CASE call[c].id # NULL
  <2>1. PICK p \in Posts : p = Post(c)
    BY <1>1
  <2>2. PICK id \in Nat : id = call[c].id
    BY <1>2, <1>5 DEF Calls
  <2>3. raw' = [raw EXCEPT ![p.key] = ItemOf(p, id)]
    BY <1>5, <2>1, <2>2 DEF Store, Item, ItemOf
  <2>4. /\ raw[p.key] = NULL /\ id < nextId /\ Ih(p) # NULL
        /\ \A k \in Linked(raw, Ih(p)) : raw[k].id < id
    BY <1>2, <1>3, <1>5, <2>1, <2>2 DEF HoldsKey, Infohashes
  <2>5. Stores(raw, p, id, raw')
    BY <2>3, <2>4 DEF Stores
  <2>6. call[c].created <=> rel[Ih(p)] = NULL
    BY <1>2, <2>1 DEF HoldsRow
  <2>7. RowIsSound(Ih(p)) /\ rel[Ih(p)] \in Summaries \cup {NULL}
    BY <1>3, <2>1 DEF IngestInv, TypeOK
  <2>8. \E t \in Summaries : Represents(t, raw', Ih(p)) /\ rel' = [rel EXCEPT ![Ih(p)] = t]
    <3>1. CASE call[c].created
      <4>1. rel' = [rel EXCEPT ![Ih(p)] = Seed(p)]
        BY <1>5, <2>1, <3>1 DEF Store
      <4>2. Linked(raw, Ih(p)) = {}
        BY <2>6, <2>7, <3>1 DEF RowIsSound
      <4> QED
        BY <1>2, <2>5, <4>1, <4>2, SeedRepresents
    <3>2. CASE ~call[c].created
      <4>1. rel[Ih(p)] \in Summaries /\ Represents(rel[Ih(p)], raw, Ih(p))
        BY <2>6, <2>7, <3>2 DEF RowIsSound
      <4>2. PICK s \in Summaries : s = rel[Ih(p)]
        BY <4>1
      <4> DEFINE t == Recompute(raw', Ih(p), p)
      <4>3. rel' = [rel EXCEPT ![Ih(p)] = t]
        BY <1>5, <2>1, <3>2 DEF Store
      <4>4. t = [title |-> LatestKey(raw', Linked(raw', Ih(p))),
                 published |-> Min({raw'[k].date : k \in Linked(raw', Ih(p))}),
                 sources |-> {k[1] : k \in Linked(raw', Ih(p))},
                 size |-> IF s.size # NULL THEN s.size ELSE p.size,
                 magnet |-> s.magnet]
        BY <4>2 DEF Recompute
      <4> HIDE DEF t
      <4>5. t \in Summaries /\ Represents(t, raw', Ih(p))
        BY <1>2, <2>4, <2>5, <4>1, <4>2, <4>4, RecomputedRepresents
      <4> QED
        BY <4>3, <4>5
    <3> QED
      BY <3>1, <3>2
  <2> QED
    BY <1>1, <1>3, <2>1, <2>2, <2>4, <2>5, <2>8
<1> QED
  BY <1>4, <1>5

(* A commit keeps the tables sound and forgets no item. *)
LEMMA StoreKeepsTables ==
  ASSUME IngestInv, NEW c \in Conns, AtPost(c, "commit"), Store(c), nextId' = nextId
  PROVE  /\ raw' \in [Keys -> RawItems \cup {NULL}]
         /\ rel' \in [Infohashes -> Summaries \cup {NULL}]
         /\ \A i \in Infohashes : RowIsSound(i)'
         /\ \A k \in Keys : ItemIsSound(k)'
         /\ IdsDiffer'
         /\ \A k \in Keys : raw[k] # NULL => raw'[k] = raw[k]
         /\ raw'[Post(c).key] # NULL
         /\ \A i \in Infohashes : rel[i] # NULL => rel'[i] # NULL
<1>0. /\ raw \in Raw /\ rel \in [Infohashes -> Summaries \cup {NULL}]
      /\ \A i \in Infohashes : RowIsSound(i)
      /\ \A k \in Keys : ItemIsSound(k)
      /\ IdsDiffer
  BY DEF IngestInv, TypeOK, Raw
<1>1. CASE UNCHANGED <<rel, raw>> /\ raw[Post(c).key] # NULL
  <2>1. raw' = raw /\ rel' = rel
    BY <1>1
  <2> QED
    BY <1>0, <1>1, <2>1 DEF RowIsSound, ItemIsSound, IdsDiffer, Raw, Represents, Linked
<1>2. ASSUME NEW p \in Posts, p = Post(c), Ih(p) \in Infohashes, p.key \in Keys,
             NEW id \in Nat, id = call[c].id, id < nextId, Stores(raw, p, id, raw'),
             NEW t \in Summaries, Represents(t, raw', Ih(p)),
             rel' = [rel EXCEPT ![Ih(p)] = t], call[c].id # NULL
      PROVE  /\ raw' \in [Keys -> RawItems \cup {NULL}]
             /\ rel' \in [Infohashes -> Summaries \cup {NULL}]
             /\ \A i \in Infohashes : RowIsSound(i)'
             /\ \A k \in Keys : ItemIsSound(k)'
             /\ IdsDiffer'
             /\ \A k \in Keys : raw[k] # NULL => raw'[k] = raw[k]
             /\ raw'[Post(c).key] # NULL
             /\ \A i \in Infohashes : rel[i] # NULL => rel'[i] # NULL
  <2>1. /\ raw' \in Raw
        /\ \A i : i # Ih(p) => Linked(raw', i) = Linked(raw, i)
        /\ \A k \in Keys : k # p.key => raw'[k] = raw[k]
        /\ raw'[p.key] = ItemOf(p, id)
    BY <1>0, <1>2, StoringLinks
  <2>7. raw[p.key] = NULL
    BY <1>2 DEF Stores
  <2>2. /\ raw'[p.key] # NULL /\ raw'[p.key].ih = Ih(p)
        /\ raw'[p.key].id = id /\ raw'[p.key].magnet = p.magnet
    <3>1. raw'[p.key] # NULL
      <4>1. p.key \in Linked(raw', Ih(p))
        BY <1>0, <1>2, StoringLinks
      <4> QED
        BY <4>1 DEF Linked
    <3> QED
      BY <2>1, <3>1 DEF ItemOf
  <2>3. t # NULL /\ rel'[Ih(p)] = t /\ \A i \in Infohashes : i # Ih(p) => rel'[i] = rel[i]
    BY <1>0, <1>2, PostsAssumption
  <2>4. \A i \in Infohashes : RowIsSound(i)'
    <3> SUFFICES ASSUME NEW i \in Infohashes
                 PROVE  RowIsSound(i)'
      OBVIOUS
    <3>1. CASE i = Ih(p)
      BY <1>2, <2>3, <3>1 DEF RowIsSound
    <3>2. CASE i # Ih(p)
      <4>1. Linked(raw', i) = Linked(raw, i) /\ rel'[i] = rel[i] /\ RowIsSound(i)
        BY <1>0, <2>1, <2>3, <3>2
      <4>2. \A k \in Linked(raw, i) : raw'[k] = raw[k]
        BY <2>1, <2>7 DEF Linked
      <4>3. Represents(rel[i], raw, i) => Represents(rel[i], raw', i)
        BY <4>1, <4>2 DEF Represents
      <4> QED
        BY <4>1, <4>3 DEF RowIsSound
    <3> QED
      BY <3>1, <3>2
  <2>5. \A k \in Keys : ItemIsSound(k)'
    <3> SUFFICES ASSUME NEW k \in Keys
                 PROVE  ItemIsSound(k)'
      OBVIOUS
    <3>1. CASE k = p.key
      <4>1. IsCanonicalInfohash(Ih(p))
        BY <1>2, InfohashIsHex
      <4> QED
        BY <1>2, <2>2, <3>1, <4>1 DEF ItemIsSound, Ih
    <3>2. CASE k # p.key
      BY <1>0, <2>1, <3>2 DEF ItemIsSound
    <3> QED
      BY <3>1, <3>2
  <2>6. IdsDiffer'
    <3>1. \A k \in Linked(raw, Ih(p)) : raw[k].id < id /\ raw[k].id \in Nat
      BY <1>0, <1>2, LinkedItems DEF IngestInv, HoldsKey, AtPost
    <3>2. \A k \in Keys : k # p.key /\ raw'[k] # NULL /\ raw'[k].ih = Ih(p)
                            => raw'[k].id < id /\ raw'[k].id \in Nat
      BY <2>1, <3>1 DEF Linked
    <3>3. \A k \in Keys : k # p.key /\ raw'[k] # NULL /\ raw'[k].ih = Ih(p) => raw'[k].id # id
      BY <3>2
    <3> QED
      BY <1>0, <2>1, <2>2, <3>3 DEF IdsDiffer
  <2> QED
    BY <1>0, <1>2, <2>1, <2>2, <2>3, <2>4, <2>5, <2>6, <2>7 DEF Raw
<1> QED
  BY <1>1, <1>2, StoreOutcome, PostsAssumption
(* A commit leaves what the other handlers hold as it is. *)
LEMMA StoreKeepsOthers ==
  ASSUME IngestInv, NEW c \in Conns, AtPost(c, "commit"), Store(c), Release(c),
         nextId' = nextId, NEW d \in Conns, d # c, call'[d] = call[d]
  PROVE  HoldsRow(d)' /\ HoldsKey(d)' /\ StoredSoFar(d)'
<1>0. /\ HoldsRow(c) /\ HoldsKey(c) /\ HoldsRow(d) /\ HoldsKey(d) /\ StoredSoFar(d)
      /\ raw \in Raw /\ TypeOK /\ call[c].pc = "commit"
  BY DEF IngestInv, TypeOK, Raw, AtPost
<1>1. Post(d)' = Post(d)
  BY DEF Post
<1>2. \A k \in Keys : raw[k] # NULL => raw'[k] # NULL
  BY StoreKeepsTables
<1>3. StoredSoFar(d)'
  <2> SUFFICES ASSUME NEW n \in 1..(call[d].pos - 1), n <= Len(call[d].batch),
                      NamesTorrent(call[d].batch[n].magnet)
               PROVE  raw'[call[d].batch[n].key] # NULL
    BY <1>0 DEF StoredSoFar
  <2>1. call[d].batch[n] \in Posts
    <3>1. call[d].batch \in Batches \cup {<<>>} /\ call[d].pos \in Nat
      BY <1>0 DEF TypeOK, Calls
    <3>2. call[d].batch \in Seq(Posts)
      <4>1. <<>> \in Seq(Posts)
        OBVIOUS
      <4> QED
        BY <3>1, <4>1, IngestAssumption
    <3> QED
      BY <3>1, <3>2
  <2>2. raw[call[d].batch[n].key] # NULL
    BY <1>0 DEF StoredSoFar
  <2> QED
    BY <1>2, <2>1, <2>2 DEF Keys
<1>4. CASE call[d].pc \notin {"raw", "commit"}
  BY <1>3, <1>4 DEF HoldsRow, HoldsKey
<1>5. CASE call[d].pc \in {"raw", "commit"}
  <2>1. /\ Post(d) \in Posts /\ Post(d).key \in Keys /\ Ih(Post(d)) \in Infohashes
        /\ IsCanonicalInfohash(Ih(Post(d)))
        /\ rowLock[Ih(Post(d))] = d /\ call[d].pos <= Len(call[d].batch)
        /\ call[d].created <=> rel[Ih(Post(d))] = NULL
    BY <1>0, <1>5, PostIsPosted DEF HoldsRow, IsCanonicalInfohash, Infohashes
  <2>2. /\ Ih(Post(c)) \in Infohashes /\ rowLock[Ih(Post(c))] = c /\ Ih(Post(c)) # Ih(Post(d))
        /\ Post(c) \in Posts
    BY <1>0, <2>1, StoreOutcome DEF HoldsRow
  <2>3. rowLock'[Ih(Post(d))] = d
    BY <2>1 DEF Release
  <2>4. call[d].pc = "commit" /\ call[d].id # NULL =>
          keyLock'[Post(d).key] = d /\ keyLock[Post(d).key] = d
    BY <1>0, <2>1 DEF Release, HoldsKey
  <2>5. CASE UNCHANGED <<rel, raw>>
    <3>1. raw' = raw /\ rel' = rel
      BY <2>5
    <3>2. HoldsRow(d)'
      BY <1>1, <2>1, <2>3, <3>1 DEF HoldsRow
    <3>3. HoldsKey(d)'
      BY <1>0, <1>1, <2>4, <3>1 DEF HoldsKey, Linked
    <3> QED
      BY <1>3, <3>2, <3>3
  <2>6. CASE /\ call[c].id \in Nat
             /\ Stores(raw, Post(c), call[c].id, raw')
             /\ \E t \in Summaries : rel' = [rel EXCEPT ![Ih(Post(c))] = t]
    <3>1. /\ Linked(raw', Ih(Post(d))) = Linked(raw, Ih(Post(d)))
          /\ \A k \in Keys : k # Post(c).key => raw'[k] = raw[k]
          /\ raw[Post(c).key] = NULL
      <4>1. PICK p \in Posts, id \in Nat : p = Post(c) /\ id = call[c].id
        BY <2>2, <2>6
      <4>2. Stores(raw, p, id, raw')
        BY <2>6, <4>1
      <4>3. raw[p.key] = NULL
        BY <4>2 DEF Stores
      <4> QED
        BY <1>0, <2>2, <4>1, <4>2, <4>3, StoringLinks
    <3>2. rel'[Ih(Post(d))] = rel[Ih(Post(d))]
      BY <1>0, <2>1, <2>2, <2>6 DEF TypeOK
    <3>3. HoldsRow(d)'
      BY <1>1, <2>1, <2>3, <3>2 DEF HoldsRow
    <3>4. HoldsKey(d)'
      <4>1. CASE call[d].pc = "commit" /\ call[d].id = NULL
        BY <1>0, <1>1, <1>2, <2>1, <4>1 DEF HoldsKey
      <4>2. CASE call[d].pc = "commit" /\ call[d].id # NULL
        <5>1. keyLock[Post(c).key] = c
          BY <1>0, <2>6, PostsAssumption DEF HoldsKey
        <5>2. Post(d).key # Post(c).key
          BY <2>4, <4>2, <5>1
        <5>3. raw'[Post(d).key] = NULL
          BY <1>0, <2>1, <3>1, <4>2, <5>2 DEF HoldsKey
        <5>4. \A k \in Linked(raw, Ih(Post(d))) : raw'[k] = raw[k] /\ raw[k].id < call[d].id
          BY <1>0, <3>1, <4>2 DEF Linked, HoldsKey
        <5>5. call[d].id < nextId'
          BY <1>0, <4>2 DEF HoldsKey
        <5> QED
          BY <1>1, <2>4, <3>1, <4>2, <5>3, <5>4, <5>5 DEF HoldsKey
      <4> QED
        BY <4>1, <4>2 DEF HoldsKey
    <3> QED
      BY <1>3, <3>3, <3>4
  <2> QED
    BY <2>5, <2>6, StoreOutcome
<1> QED
  BY <1>4, <1>5
(* A batch under way is a sequence of posts, and so is one acknowledged. *)
LEMMA BatchIsPosts ==
  ASSUME TypeOK
  PROVE  /\ \A c \in Conns : call[c].batch \in Seq(Posts) /\ call[c].pos \in Nat
         /\ \A b \in acked : b \in Seq(Posts)
<1>1. \A c \in Conns : call[c].batch \in Batches \cup {<<>>} /\ call[c].pos \in Nat
  BY DEF TypeOK, Calls
<1>2. <<>> \in Seq(Posts)
  OBVIOUS
<1> QED
  BY <1>1, <1>2, IngestAssumption DEF TypeOK

(* Between requests a handler is free. *)
LEMMA IdleIsFree ==
  /\ Idle \in Calls /\ Idle.pc = "idle" /\ Idle.batch = <<>> /\ Idle.pos = 1
  /\ Idle.created = FALSE /\ Idle.id = NULL
<1> QED
  BY DEF Idle, Calls

(* While the tables stand and ids only grow, what is said of them stands. *)
LEMMA TablesStand ==
  ASSUME IngestInv, rel' = rel, raw' = raw, nextId' \in Nat, nextId <= nextId'
  PROVE  /\ \A i \in Infohashes : RowIsSound(i)'
         /\ \A k \in Keys : ItemIsSound(k)'
         /\ IdsDiffer'
<1>0. /\ \A i \in Infohashes : RowIsSound(i)
      /\ \A k \in Keys : ItemIsSound(k)
      /\ IdsDiffer /\ TypeOK
  BY DEF IngestInv
<1>1. \A i \in Infohashes : RowIsSound(i)'
  BY <1>0 DEF RowIsSound, Represents, Linked
<1>2. \A k \in Keys : ItemIsSound(k)'
  <2> SUFFICES ASSUME NEW k \in Keys, raw[k] # NULL
               PROVE  raw[k].id < nextId'
    BY <1>0 DEF ItemIsSound
  <2>1. raw[k].id \in Nat /\ nextId \in Nat /\ raw[k].id < nextId
    BY <1>0 DEF TypeOK, RawItems, ItemIsSound
  <2> QED
    BY <2>1
<1> QED
  BY <1>0, <1>1, <1>2 DEF IdsDiffer

(* While the tables stand, a handler that keeps its locks keeps what it     *)
(* holds.                                                                   *)
LEMMA OthersStand ==
  ASSUME IngestInv, rel' = rel, raw' = raw, nextId' \in Nat, nextId <= nextId',
         NEW d \in Conns, call'[d] = call[d],
         \A i \in Infohashes : rowLock[i] = d => rowLock'[i] = d,
         \A k \in Keys : keyLock[k] = d => keyLock'[k] = d
  PROVE  HoldsRow(d)' /\ HoldsKey(d)' /\ StoredSoFar(d)'
<1>0. HoldsRow(d) /\ HoldsKey(d) /\ StoredSoFar(d) /\ TypeOK
  BY DEF IngestInv
<1>1. Post(d)' = Post(d)
  BY DEF Post
<1>2. StoredSoFar(d)'
  BY <1>0 DEF StoredSoFar
<1>3. CASE call[d].pc \notin {"raw", "commit"}
  BY <1>2, <1>3 DEF HoldsRow, HoldsKey
<1>4. CASE call[d].pc \in {"raw", "commit"}
  <2>1. /\ Post(d).key \in Keys /\ Ih(Post(d)) \in Infohashes
    BY <1>0, <1>4, PostIsPosted DEF HoldsRow, IsCanonicalInfohash, Infohashes
  <2>2. HoldsRow(d)'
    BY <1>0, <1>1, <1>4, <2>1 DEF HoldsRow
  <2>3. HoldsKey(d)'
    <3>1. CASE call[d].pc # "commit" \/ call[d].id = NULL
      BY <1>0, <1>1, <3>1 DEF HoldsKey
    <3>2. CASE call[d].pc = "commit" /\ call[d].id # NULL
      <4>1. /\ keyLock[Post(d).key] = d /\ raw[Post(d).key] = NULL /\ call[d].id < nextId
            /\ \A k \in Linked(raw, Ih(Post(d))) : raw[k].id < call[d].id
        BY <1>0, <3>2 DEF HoldsKey
      <4>2. call[d].id \in Nat /\ nextId \in Nat
        BY <1>0, <3>2 DEF TypeOK, Calls
      <4>3. call[d].id < nextId'
        BY <4>1, <4>2
      <4> QED
        BY <1>1, <2>1, <3>2, <4>1, <4>3 DEF HoldsKey, Linked
    <3> QED
      BY <3>1, <3>2
  <2> QED
    BY <1>2, <2>2, <2>3
<1> QED
  BY <1>3, <1>4

(* What is acknowledged stays stored while no item goes. *)
LEMMA AckedStands ==
  ASSUME IngestInv, acked' = acked, \A k \in Keys : raw[k] # NULL => raw'[k] # NULL
  PROVE  AckedIsStored'
<1> SUFFICES ASSUME NEW b \in acked, NEW n \in 1..Len(b), NamesTorrent(b[n].magnet)
             PROVE  raw'[b[n].key] # NULL
  BY DEF AckedIsStored
<1>1. b[n] \in Posts
  BY BatchIsPosts DEF IngestInv
<1>2. raw[b[n].key] # NULL
  BY DEF IngestInv, AckedIsStored
<1> QED
  BY <1>1, <1>2 DEF Keys

LEMMA InitIngest == Init => IngestInv
<1> SUFFICES ASSUME Init PROVE IngestInv
  OBVIOUS
<1>1. /\ \A i \in Infohashes : rel[i] = NULL /\ news[i] = 0
      /\ \A k \in Keys : raw[k] = NULL
      /\ \A c \in Conns : call[c] = Idle
      /\ acked = {} /\ nextId = 1
  BY DEF Init, CatalogInit
<1>2. TypeOK
  BY IdleIsFree DEF Init, CatalogInit, TypeOK
<1>3. \A i \in Infohashes : RowIsSound(i)
  BY <1>1 DEF RowIsSound, Linked
<1>4. \A c \in Conns : HoldsRow(c) /\ HoldsKey(c) /\ StoredSoFar(c)
  <2>1. \A c \in Conns : call[c].pc = "idle" /\ call[c].pos = 1
    BY <1>1, IdleIsFree
  <2> QED
    BY <2>1 DEF HoldsRow, HoldsKey, StoredSoFar
<1> QED
  BY <1>1, <1>2, <1>3, <1>4 DEF IngestInv, ItemIsSound, IdsDiffer, AckedIsStored, NewIsReportedOnce

(* A step that leaves the tables alone, moves handler c, and takes no lock  *)
(* of another keeps the invariant, if what c holds afterwards is sound.     *)
LEMMA QuietStep ==
  ASSUME IngestInv, rel' = rel, raw' = raw, nextId' \in Nat, nextId <= nextId', news' = news,
         NEW c \in Conns, NEW f \in Calls, call' = [call EXCEPT ![c] = f],
         rowLock' \in [Infohashes -> Conns \cup {NULL}],
         keyLock' \in [Keys -> Conns \cup {NULL}],
         \A d \in Conns : \A i \in Infohashes : d # c /\ rowLock[i] = d => rowLock'[i] = d,
         \A d \in Conns : \A k \in Keys : d # c /\ keyLock[k] = d => keyLock'[k] = d,
         HoldsRow(c)' /\ HoldsKey(c)' /\ StoredSoFar(c)',
         acked' \subseteq Batches, AckedIsStored'
  PROVE  IngestInv'
<1>0. TypeOK /\ NewIsReportedOnce
  BY DEF IngestInv
<1>1. TypeOK'
  BY <1>0 DEF TypeOK
<1>2. \A d \in Conns : d # c => call'[d] = call[d]
  BY <1>0 DEF TypeOK
<1>3. \A d \in Conns : HoldsRow(d)' /\ HoldsKey(d)' /\ StoredSoFar(d)'
  <2> SUFFICES ASSUME NEW d \in Conns, d # c
               PROVE  HoldsRow(d)' /\ HoldsKey(d)' /\ StoredSoFar(d)'
    OBVIOUS
  <2> QED
    BY <1>2, OthersStand
<1>4. NewIsReportedOnce'
  BY <1>0 DEF NewIsReportedOnce
<1> QED
  BY <1>1, <1>3, <1>4, TablesStand DEF IngestInv
(* The record of a handler that goes on to post n of batch b. *)
LEMMA AtUpsert ==
  ASSUME NEW b \in Batches \cup {<<>>}, NEW n \in Nat
  PROVE  LET f == [Idle EXCEPT !.pc = "upsert", !.batch = b, !.pos = n]
         IN  f \in Calls /\ f.pc = "upsert" /\ f.batch = b /\ f.pos = n
<1> QED
  BY IdleIsFree DEF Calls

LEMMA ReceiveKeeps ==
  ASSUME IngestInv, NEW c \in Conns, NEW b \in Batches, Receive(c, b)
  PROVE  IngestInv'
<1> DEFINE f == [Idle EXCEPT !.pc = "upsert", !.batch = b]
<1>1. f \in Calls /\ f.pc = "upsert" /\ f.pos = 1 /\ f.batch = b
  BY DEF Idle, Calls
<1>2. call' = [call EXCEPT ![c] = f]
  BY DEF Receive
<1> HIDE DEF f
<1>3. TypeOK /\ AckedIsStored
  BY DEF IngestInv
<1>4. call'[c] = f
  BY <1>2, <1>3 DEF TypeOK
<1>5. HoldsRow(c)' /\ HoldsKey(c)' /\ StoredSoFar(c)'
  BY <1>1, <1>4 DEF HoldsRow, HoldsKey, StoredSoFar
<1>6. AckedIsStored'
  BY <1>3 DEF Receive, AckedIsStored
<1>7. nextId' \in Nat /\ nextId <= nextId' /\ acked' \subseteq Batches
      /\ rel' = rel /\ raw' = raw /\ news' = news /\ rowLock' = rowLock /\ keyLock' = keyLock
      /\ rowLock \in [Infohashes -> Conns \cup {NULL}]
      /\ keyLock \in [Keys -> Conns \cup {NULL}]
  BY <1>3 DEF Receive, TypeOK
<1> QED
  BY <1>1, <1>2, <1>5, <1>6, <1>7, QuietStep

(* Handler c behind one more post that is stored or names no torrent. *)
LEMMA MovedOn ==
  ASSUME IngestInv, NEW c \in Conns, NextPost(c), call[c].pc # "idle",
         call[c].pos <= Len(call[c].batch),
         \A k \in Keys : raw[k] # NULL => raw'[k] # NULL,
         NamesTorrent(Post(c).magnet) => raw'[Post(c).key] # NULL
  PROVE  /\ HoldsRow(c)' /\ HoldsKey(c)' /\ StoredSoFar(c)'
         /\ \E f \in Calls : call' = [call EXCEPT ![c] = f]
<1>0. TypeOK /\ StoredSoFar(c)
  BY DEF IngestInv
<1>1. PICK b \in Batches \cup {<<>>}, n \in Nat : b = call[c].batch /\ n = call[c].pos
  BY <1>0 DEF TypeOK, Calls
<1>2. n >= 1 /\ n <= Len(b) /\ b \in Seq(Posts)
  BY <1>0, <1>1, BatchIsPosts DEF StoredSoFar
<1> DEFINE f == [Idle EXCEPT !.pc = "upsert", !.batch = b, !.pos = n + 1]
<1>3. call' = [call EXCEPT ![c] = f]
  BY <1>1 DEF NextPost
<1>4. f \in Calls /\ f.pc = "upsert" /\ f.batch = b /\ f.pos = n + 1
  <2>1. n + 1 \in Nat
    OBVIOUS
  <2> QED
    BY <2>1, AtUpsert
<1> HIDE DEF f
<1>5. call'[c] = f
  BY <1>0, <1>3 DEF TypeOK
<1>6. HoldsRow(c)' /\ HoldsKey(c)'
  BY <1>4, <1>5 DEF HoldsRow, HoldsKey
<1>7. StoredSoFar(c)'
  <2>0. call'[c].batch = b /\ b \in Batches /\ call'[c].pos = n + 1 /\ n + 1 >= 1
        /\ 1..(call'[c].pos - 1) = 1..n
    BY <1>0, <1>1, <1>2, <1>4, <1>5 DEF StoredSoFar
  <2> SUFFICES ASSUME NEW m \in 1..n, m <= Len(b), NamesTorrent(b[m].magnet)
               PROVE  raw'[b[m].key] # NULL
    BY <2>0 DEF StoredSoFar
  <2>1. CASE m = n
    BY <1>1, <2>1 DEF Post
  <2>2. CASE m # n
    <3>1. m \in 1..(n - 1) /\ b[m] \in Posts
      BY <1>2, <2>2
    <3>2. raw[b[m].key] # NULL
      BY <1>0, <1>1, <3>1 DEF StoredSoFar
    <3> QED
      BY <3>1, <3>2 DEF Keys
  <2> QED
    BY <2>1, <2>2
<1> QED
  BY <1>3, <1>4, <1>6, <1>7

LEMMA SkipKeeps ==
  ASSUME IngestInv, NEW c \in Conns, Skip(c)
  PROVE  IngestInv'
<1>1. /\ rel' = rel /\ raw' = raw /\ news' = news /\ rowLock' = rowLock /\ keyLock' = keyLock
      /\ nextId' = nextId /\ acked' = acked
      /\ NextPost(c) /\ call[c].pc # "idle" /\ call[c].pos <= Len(call[c].batch)
      /\ ~IsCanonicalInfohash(Ih(Post(c)))
  BY DEF Skip, AtPost
<1>2. TypeOK /\ AckedIsStored /\ StoredSoFar(c)
  BY DEF IngestInv
<1>3. Post(c) \in Posts
  BY <1>1, <1>2, PostIsPosted
<1>4. ~NamesTorrent(Post(c).magnet)
  BY <1>1, <1>3, LegibleIsCanonical
<1>5. /\ HoldsRow(c)' /\ HoldsKey(c)' /\ StoredSoFar(c)'
      /\ \E f \in Calls : call' = [call EXCEPT ![c] = f]
  BY <1>1, <1>4, MovedOn
<1>6. AckedIsStored'
  BY <1>1, <1>2 DEF AckedIsStored
<1>7. nextId' \in Nat /\ nextId <= nextId' /\ acked' \subseteq Batches
      /\ rowLock \in [Infohashes -> Conns \cup {NULL}]
      /\ keyLock \in [Keys -> Conns \cup {NULL}]
  BY <1>1, <1>2 DEF TypeOK
<1> QED
  BY <1>1, <1>5, <1>6, <1>7, QuietStep

LEMMA UpsertKeeps ==
  ASSUME IngestInv, NEW c \in Conns, Upsert(c)
  PROVE  IngestInv'
<1>1. /\ rel' = rel /\ raw' = raw /\ news' = news /\ keyLock' = keyLock
      /\ nextId' = nextId /\ acked' = acked
      /\ call[c].pc = "upsert" /\ call[c].pos <= Len(call[c].batch)
      /\ IsCanonicalInfohash(Ih(Post(c)))
      /\ rowLock[Ih(Post(c))] \in {NULL, c}
      /\ rowLock' = [rowLock EXCEPT ![Ih(Post(c))] = c]
      /\ call' = [call EXCEPT ![c].pc = "raw", ![c].created = rel[Ih(Post(c))] = NULL]
  BY DEF Upsert, AtPost
<1>2. TypeOK /\ AckedIsStored /\ StoredSoFar(c)
  BY DEF IngestInv
<1>3. Post(c) \in Posts /\ Ih(Post(c)) \in Infohashes
  BY <1>1, <1>2, PostIsPosted DEF Infohashes, IsCanonicalInfohash
<1> DEFINE f == [call[c] EXCEPT !.pc = "raw", !.created = (rel[Ih(Post(c))] = NULL)]
<1>4. call[c] \in Calls /\ (rel[Ih(Post(c))] = NULL) \in BOOLEAN
  BY <1>2 DEF TypeOK
<1>5. f \in Calls
  BY <1>4 DEF Calls
<1>6. f.pc = "raw" /\ f.batch = call[c].batch /\ f.pos = call[c].pos
  BY <1>4 DEF Calls
<1>7. f.created = (rel[Ih(Post(c))] = NULL)
  BY <1>4 DEF Calls
<1>8. call' = [call EXCEPT ![c] = f]
  BY <1>1, <1>2 DEF TypeOK
<1>9. PICK g \in Calls : g = f
  BY <1>5
<1> HIDE DEF f
<1>10. call'[c] = g /\ Post(c)' = Post(c)
  BY <1>2, <1>6, <1>8, <1>9 DEF TypeOK, Post
<1>11. HoldsRow(c)'
  <2>1. rowLock'[Ih(Post(c))] = c
    BY <1>1, <1>2, <1>3 DEF TypeOK
  <2>2. call'[c].created <=> rel[Ih(Post(c))] = NULL
    BY <1>7, <1>9, <1>10
  <2> QED
    BY <1>1, <1>6, <1>9, <1>10, <2>1, <2>2 DEF HoldsRow
<1>12. HoldsKey(c)' /\ StoredSoFar(c)'
  BY <1>1, <1>2, <1>6, <1>9, <1>10 DEF HoldsKey, StoredSoFar
<1>13. AckedIsStored'
  BY <1>1, <1>2 DEF AckedIsStored
<1>14. nextId' \in Nat /\ nextId <= nextId' /\ acked' \subseteq Batches
      /\ rowLock' \in [Infohashes -> Conns \cup {NULL}]
      /\ keyLock \in [Keys -> Conns \cup {NULL}]
  BY <1>1, <1>2, <1>3 DEF TypeOK
<1>15. \A d \in Conns : \A i \in Infohashes : d # c /\ rowLock[i] = d => rowLock'[i] = d
  BY <1>1, <1>2, IngestAssumption DEF TypeOK
<1> QED
  BY <1>1, <1>8, <1>9, <1>11, <1>12, <1>13, <1>14, <1>15, QuietStep
LEMMA InsertRawKeeps ==
  ASSUME IngestInv, NEW c \in Conns, InsertRaw(c)
  PROVE  IngestInv'
<1>1. /\ rel' = rel /\ raw' = raw /\ news' = news /\ rowLock' = rowLock /\ acked' = acked
      /\ call[c].pc = "raw" /\ call[c].pos <= Len(call[c].batch)
      /\ keyLock[Post(c).key] \in {NULL, c}
      /\ keyLock' = IF raw[Post(c).key] = NULL THEN [keyLock EXCEPT ![Post(c).key] = c]
                    ELSE keyLock
      /\ nextId' = IF raw[Post(c).key] = NULL THEN nextId + 1 ELSE nextId
      /\ call' = [call EXCEPT ![c].pc = "commit",
                              ![c].id = IF raw[Post(c).key] = NULL THEN nextId ELSE NULL]
  BY DEF InsertRaw, AtPost
<1>2. TypeOK /\ AckedIsStored /\ StoredSoFar(c) /\ HoldsRow(c)
      /\ \A k \in Keys : ItemIsSound(k)
  BY DEF IngestInv
<1>3. Post(c) \in Posts /\ Post(c).key \in Keys /\ nextId \in Nat
  BY <1>1, <1>2, PostIsPosted DEF TypeOK
<1>4. PICK id \in Nat \cup {NULL} : id = IF raw[Post(c).key] = NULL THEN nextId ELSE NULL
  BY <1>3
<1> DEFINE f == [call[c] EXCEPT !.pc = "commit", !.id = id]
<1>5. call[c] \in Calls
  BY <1>2 DEF TypeOK
<1>6. f \in Calls /\ f.pc = "commit" /\ f.id = id
      /\ f.batch = call[c].batch /\ f.pos = call[c].pos
  BY <1>5 DEF Calls
<1>7. f.created = call[c].created
  BY <1>5 DEF Calls
<1>8. call' = [call EXCEPT ![c] = f]
  BY <1>1, <1>2, <1>4 DEF TypeOK
<1> HIDE DEF f
<1>9. call'[c] = f /\ Post(c)' = Post(c)
  BY <1>2, <1>6, <1>8 DEF TypeOK, Post
<1>10. nextId' \in Nat /\ nextId <= nextId' /\ acked' \subseteq Batches
       /\ rowLock' \in [Infohashes -> Conns \cup {NULL}]
       /\ keyLock' \in [Keys -> Conns \cup {NULL}]
  BY <1>1, <1>2, <1>3 DEF TypeOK
<1>11. HoldsRow(c)'
  <2>1. call'[c].created <=> rel[Ih(Post(c))] = NULL
    BY <1>1, <1>2, <1>7, <1>9 DEF HoldsRow
  <2> QED
    BY <1>1, <1>2, <1>6, <1>9, <2>1 DEF HoldsRow
<1>12. StoredSoFar(c)'
  BY <1>1, <1>2, <1>6, <1>9 DEF StoredSoFar
<1>13. HoldsKey(c)'
  <2>1. CASE raw[Post(c).key] # NULL
    BY <1>1, <1>4, <1>6, <1>9, <2>1 DEF HoldsKey
  <2>2. CASE raw[Post(c).key] = NULL
    <3>1. id = nextId /\ id # NULL /\ id < nextId' /\ keyLock'[Post(c).key] = c
      BY <1>1, <1>2, <1>3, <1>4, <2>2, PostsAssumption DEF TypeOK
    <3>2. \A k \in Linked(raw, Ih(Post(c))) : raw[k].id < id
      BY <1>2, <3>1 DEF Linked, ItemIsSound
    <3>3. Linked(raw, Ih(Post(c)))' = Linked(raw, Ih(Post(c)))
      BY <1>1, <1>9 DEF Linked
    <3> QED
      BY <1>1, <1>6, <1>9, <2>2, <3>1, <3>2, <3>3 DEF HoldsKey
  <2> QED
    BY <2>1, <2>2
<1>14. AckedIsStored'
  BY <1>1, <1>2 DEF AckedIsStored
<1>15. \A d \in Conns : \A k \in Keys : d # c /\ keyLock[k] = d => keyLock'[k] = d
  BY <1>1, <1>2, IngestAssumption DEF TypeOK
<1> QED
  BY <1>1, <1>6, <1>8, <1>10, <1>11, <1>12, <1>13, <1>14, <1>15, QuietStep

(* Letting go of its locks, a handler takes none of another. *)
LEMMA ReleaseIsOwn ==
  ASSUME TypeOK, NEW c \in Conns, Release(c)
  PROVE  /\ rowLock' \in [Infohashes -> Conns \cup {NULL}]
         /\ keyLock' \in [Keys -> Conns \cup {NULL}]
         /\ \A d \in Conns : \A i \in Infohashes : d # c /\ rowLock[i] = d => rowLock'[i] = d
         /\ \A d \in Conns : \A k \in Keys : d # c /\ keyLock[k] = d => keyLock'[k] = d
<1> QED
  BY DEF TypeOK, Release

LEMMA FailKeeps ==
  ASSUME IngestInv, NEW c \in Conns, Fail(c)
  PROVE  IngestInv'
<1>1. /\ rel' = rel /\ raw' = raw /\ news' = news /\ nextId' = nextId /\ acked' = acked
      /\ Release(c) /\ call' = [call EXCEPT ![c] = Idle]
  BY DEF Fail
<1>2. TypeOK /\ AckedIsStored
  BY DEF IngestInv
<1>3. PICK f \in Calls : f = Idle /\ f.pc = "idle" /\ f.pos = 1
  BY IdleIsFree
<1>4. call'[c] = f /\ call' = [call EXCEPT ![c] = f]
  BY <1>1, <1>2, <1>3 DEF TypeOK
<1>5. HoldsRow(c)' /\ HoldsKey(c)' /\ StoredSoFar(c)'
  BY <1>3, <1>4 DEF HoldsRow, HoldsKey, StoredSoFar
<1>6. nextId' \in Nat /\ nextId <= nextId' /\ acked' \subseteq Batches
  BY <1>1, <1>2 DEF TypeOK
<1>7. AckedIsStored'
  BY <1>1, <1>2 DEF AckedIsStored
<1> QED
  BY <1>1, <1>2, <1>4, <1>5, <1>6, <1>7, QuietStep, ReleaseIsOwn

LEMMA FinishKeeps ==
  ASSUME IngestInv, NEW c \in Conns, Finish(c)
  PROVE  IngestInv'
<1>1. /\ rel' = rel /\ raw' = raw /\ news' = news /\ nextId' = nextId
      /\ rowLock' = rowLock /\ keyLock' = keyLock
      /\ acked' = acked \cup {call[c].batch} /\ call' = [call EXCEPT ![c] = Idle]
      /\ call[c].pc = "upsert" /\ call[c].pos > Len(call[c].batch)
  BY DEF Finish
<1>2. TypeOK /\ AckedIsStored /\ StoredSoFar(c)
  BY DEF IngestInv
<1>3. PICK f \in Calls : f = Idle /\ f.pc = "idle" /\ f.pos = 1
  BY IdleIsFree
<1>4. call'[c] = f /\ call' = [call EXCEPT ![c] = f]
  BY <1>1, <1>2, <1>3 DEF TypeOK
<1>5. HoldsRow(c)' /\ HoldsKey(c)' /\ StoredSoFar(c)'
  BY <1>3, <1>4 DEF HoldsRow, HoldsKey, StoredSoFar
<1>6. nextId' \in Nat /\ nextId <= nextId'
      /\ rowLock' \in [Infohashes -> Conns \cup {NULL}]
      /\ keyLock' \in [Keys -> Conns \cup {NULL}]
  BY <1>1, <1>2 DEF TypeOK
<1>7. AckedIsStored'
  <2> SUFFICES ASSUME NEW b, b = call[c].batch, NEW n \in 1..Len(b),
                      NamesTorrent(b[n].magnet)
               PROVE  raw[b[n].key] # NULL
    BY <1>1, <1>2 DEF AckedIsStored
  <2>1. call[c].pos \in Nat /\ b \in Seq(Posts)
    BY <1>2, BatchIsPosts
  <2>2. n \in 1..(call[c].pos - 1) /\ n <= Len(b)
    BY <1>1, <2>1
  <2> QED
    BY <1>2, <2>2 DEF StoredSoFar
<1>8. acked' \subseteq Batches
  BY <1>1, <1>2 DEF StoredSoFar, TypeOK
<1> QED
  BY <1>1, <1>4, <1>5, <1>6, <1>7, <1>8, QuietStep
(* A commit, heard of or not: the tables, the other handlers and the        *)
(* acknowledged batches are as they should be.                              *)
LEMMA StoreKeeps ==
  ASSUME IngestInv, NEW c \in Conns, AtPost(c, "commit"), Store(c), Release(c),
         nextId' = nextId, acked' = acked, news' \in [Infohashes -> Nat],
         NEW f \in Calls, call' = [call EXCEPT ![c] = f],
         HoldsRow(c)' /\ HoldsKey(c)' /\ StoredSoFar(c)', NewIsReportedOnce'
  PROVE  IngestInv'
<1>0. TypeOK
  BY DEF IngestInv
<1>1. /\ raw' \in [Keys -> RawItems \cup {NULL}]
      /\ rel' \in [Infohashes -> Summaries \cup {NULL}]
      /\ \A i \in Infohashes : RowIsSound(i)'
      /\ \A k \in Keys : ItemIsSound(k)'
      /\ IdsDiffer'
      /\ \A k \in Keys : raw[k] # NULL => raw'[k] # NULL
  BY StoreKeepsTables
<1>2. TypeOK'
  BY <1>0, <1>1, ReleaseIsOwn DEF TypeOK
<1>3. \A d \in Conns : HoldsRow(d)' /\ HoldsKey(d)' /\ StoredSoFar(d)'
  <2> SUFFICES ASSUME NEW d \in Conns, d # c
               PROVE  HoldsRow(d)' /\ HoldsKey(d)' /\ StoredSoFar(d)'
    OBVIOUS
  <2>1. call'[d] = call[d]
    BY <1>0 DEF TypeOK
  <2> QED
    BY <2>1, StoreKeepsOthers
<1>4. AckedIsStored'
  BY <1>1, AckedStands
<1> QED
  BY <1>1, <1>2, <1>3, <1>4 DEF IngestInv

(* A release that is there already was not created: the count of "new"     *)
(* grows with the release.                                                 *)
LEMMA CountedOnce ==
  ASSUME IngestInv, NEW c \in Conns, AtPost(c, "commit"), Store(c), nextId' = nextId,
         \/ news' = news
         \/ news' = [news EXCEPT ![Ih(Post(c))] =
                       IF call[c].created /\ call[c].id # NULL THEN @ + 1 ELSE @]
  PROVE  news' \in [Infohashes -> Nat] /\ NewIsReportedOnce'
<1>0. TypeOK /\ NewIsReportedOnce /\ HoldsRow(c) /\ call[c].pc = "commit"
  BY DEF IngestInv, AtPost
<1>1. PICK i \in Infohashes : i = Ih(Post(c))
  BY StoreOutcome
<1>2. \A j \in Infohashes : /\ news[j] \in Nat /\ news[j] <= IF rel[j] = NULL THEN 0 ELSE 1
                            /\ rel[j] # NULL => rel'[j] # NULL
  BY <1>0, StoreKeepsTables DEF TypeOK, NewIsReportedOnce
<1>3. \A j \in Infohashes : news[j] <= IF rel'[j] = NULL THEN 0 ELSE 1
  BY <1>2
<1>4. CASE news' = news
  BY <1>0, <1>3, <1>4 DEF TypeOK, NewIsReportedOnce
<1>5. CASE ~(call[c].created /\ call[c].id # NULL)
  <2>1. news' = news
    BY <1>0, <1>5 DEF TypeOK
  <2> QED
    BY <1>4, <2>1
<1>6. CASE /\ call[c].created /\ call[c].id # NULL
           /\ news' = [news EXCEPT ![i] = @ + 1]
  <2>1. rel[i] = NULL
    BY <1>0, <1>1, <1>6 DEF HoldsRow
  <2>2. news[i] = 0
    BY <1>2, <2>1
  <2>3. rel'[i] # NULL
    <3>1. PICK t \in Summaries : rel' = [rel EXCEPT ![i] = t]
      BY <1>1, <1>6, StoreOutcome
    <3> QED
      BY <1>0, <3>1, PostsAssumption DEF TypeOK
  <2>4. news'[i] = 1 /\ \A j \in Infohashes : j # i => news'[j] = news[j]
    BY <1>0, <1>6, <2>2 DEF TypeOK
  <2>5. news' \in [Infohashes -> Nat]
    BY <1>0, <1>6 DEF TypeOK
  <2> QED
    BY <1>3, <2>3, <2>4, <2>5 DEF NewIsReportedOnce
<1> QED
  BY <1>1, <1>4, <1>5, <1>6

LEMMA CommitKeeps ==
  ASSUME IngestInv, NEW c \in Conns, Commit(c)
  PROVE  IngestInv'
<1>1. /\ AtPost(c, "commit") /\ Store(c) /\ Release(c) /\ NextPost(c)
      /\ nextId' = nextId /\ acked' = acked
      /\ news' = [news EXCEPT ![Ih(Post(c))] =
                    IF call[c].created /\ call[c].id # NULL THEN @ + 1 ELSE @]
  BY DEF Commit
<1>2. call[c].pc # "idle" /\ call[c].pos <= Len(call[c].batch)
  BY <1>1 DEF AtPost
<1>3. /\ \A k \in Keys : raw[k] # NULL => raw'[k] # NULL
      /\ raw'[Post(c).key] # NULL
  BY <1>1, StoreKeepsTables
<1>4. /\ HoldsRow(c)' /\ HoldsKey(c)' /\ StoredSoFar(c)'
      /\ \E f \in Calls : call' = [call EXCEPT ![c] = f]
  BY <1>1, <1>2, <1>3, MovedOn
<1>5. news' \in [Infohashes -> Nat] /\ NewIsReportedOnce'
  BY <1>1, CountedOnce
<1> QED
  BY <1>1, <1>4, <1>5, StoreKeeps

LEMMA CommitUnheardKeeps ==
  ASSUME IngestInv, NEW c \in Conns, CommitUnheard(c)
  PROVE  IngestInv'
<1>1. /\ AtPost(c, "commit") /\ Store(c) /\ Release(c)
      /\ call' = [call EXCEPT ![c] = Idle]
      /\ nextId' = nextId /\ acked' = acked /\ news' = news
  BY DEF CommitUnheard
<1>2. TypeOK
  BY DEF IngestInv
<1>3. PICK f \in Calls : f = Idle /\ f.pc = "idle" /\ f.pos = 1
  BY IdleIsFree
<1>4. call'[c] = f /\ call' = [call EXCEPT ![c] = f]
  BY <1>1, <1>2, <1>3 DEF TypeOK
<1>5. HoldsRow(c)' /\ HoldsKey(c)' /\ StoredSoFar(c)'
  BY <1>3, <1>4 DEF HoldsRow, HoldsKey, StoredSoFar
<1>6. news' \in [Infohashes -> Nat] /\ NewIsReportedOnce'
  BY <1>1, CountedOnce
<1> QED
  BY <1>1, <1>4, <1>5, <1>6, StoreKeeps

LEMMA NextIngest == IngestInv /\ [Next]_vars => IngestInv'
<1> SUFFICES ASSUME IngestInv, [Next]_vars
             PROVE  IngestInv'
  OBVIOUS
<1>1. ASSUME NEW c \in Conns, NEW b \in Batches, Receive(c, b)
      PROVE  IngestInv'
  BY <1>1, ReceiveKeeps
<1>2. ASSUME NEW c \in Conns, Step(c)
      PROVE  IngestInv'
  BY <1>2, SkipKeeps, UpsertKeeps, InsertRawKeeps, CommitKeeps, FinishKeeps DEF Step
<1>3. ASSUME NEW c \in Conns, Fail(c)
      PROVE  IngestInv'
  BY <1>3, FailKeeps
<1>4. ASSUME NEW c \in Conns, CommitUnheard(c)
      PROVE  IngestInv'
  BY <1>4, CommitUnheardKeeps
<1>5. CASE UNCHANGED vars
  BY <1>5 DEF vars, IngestInv, TypeOK, RowIsSound, Represents, Linked, ItemIsSound, IdsDiffer,
     HoldsRow, HoldsKey, StoredSoFar, Post, AckedIsStored, NewIsReportedOnce
<1> QED
  BY <1>1, <1>2, <1>3, <1>4, <1>5 DEF Next
-----------------------------------------------------------------------------
(* The theorems. *)

(* IngestInv holds throughout IngestN and the handlers over it: rows        *)
(* represent the committed items, and a transaction between its upsert and  *)
(* its commit owns what it has read (store.go:109-190).                     *)
THEOREM IngestHolds == Spec => []IngestInv
<1> QED
  BY InitIngest, NextIngest, PTL DEF Spec

(* The invariant makes every row the Summary of its items. *)
LEMMA RowsAreSummaries == IngestInv => RowIsSummary
<1> SUFFICES ASSUME IngestInv, NEW i \in Infohashes
             PROVE  rel[i] = IF Linked(raw, i) = {} THEN NULL ELSE Summary(raw, i)
  BY DEF RowIsSummary
<1>1. RowIsSound(i) /\ raw \in Raw /\ rel[i] \in Summaries \cup {NULL} /\ IdsDiffer
  BY DEF IngestInv, TypeOK, Raw
<1>2. CASE rel[i] = NULL /\ Linked(raw, i) = {}
  BY <1>2
<1>3. CASE rel[i] # NULL /\ Represents(rel[i], raw, i)
  <2>1. PICK s \in Summaries : s = rel[i]
    BY <1>1, <1>3
  <2>2. \A k, j \in Linked(raw, i) : raw[k].id = raw[j].id => k = j
    BY <1>1 DEF IdsDiffer, Linked
  <2>3. s = Summary(raw, i)
    BY <1>1, <1>3, <2>1, <2>2, RepresentsIsSummary
  <2>4. Linked(raw, i) # {}
    BY <1>3 DEF Represents
  <2> QED
    BY <2>1, <2>3, <2>4
<1> QED
  BY <1>1, <1>2, <1>3 DEF RowIsSound

(* After every commit a release row is what recomputing it from its raw     *)
(* items would give, and there is none without items (store.go:109, 158).   *)
THEOREM RowsSummarise == Spec => []RowIsSummary
<1> QED
  BY IngestHolds, RowsAreSummaries, PTL

(* Every torrent of a batch answered 200 is stored, whatever else was being *)
(* inserted at the time (ingest.go:145, 161).                               *)
THEOREM AcknowledgedIsStored == Spec => []AckedIsStored
<1>1. IngestInv => AckedIsStored
  BY DEF IngestInv
<1> QED
  BY <1>1, IngestHolds, PTL

(* No release is counted as new twice, or without being there               *)
(* (ingest.go:172, store.go:133).                                           *)
THEOREM ReportedOnce == Spec => []NewIsReportedOnce
<1>1. IngestInv => NewIsReportedOnce
  BY DEF IngestInv
<1> QED
  BY <1>1, IngestHolds, PTL

(* A stored post is found under every spelling of its infohash, and what is *)
(* handed out is a magnet of that torrent (magnets.go:32, store.go:175).    *)
THEOREM LookupFinds == Spec => []LookupFindsTorrent
<1>1. IngestInv => LookupFindsTorrent
  <2> SUFFICES ASSUME IngestInv, NEW k \in Keys, NEW enc \in {"hex", "HEX", "base32"},
                      raw[k] # NULL
               PROVE  LET found == GetMagnet(Text(enc, raw[k].ih.torrent))
                      IN  found # NULL /\ NormalizeInfohash(found) = raw[k].ih
    BY DEF LookupFindsTorrent
  <2>1. /\ raw \in Raw /\ rel \in [Infohashes -> Summaries \cup {NULL}]
        /\ \A j \in Keys : ItemIsSound(j)
        /\ \A i \in Infohashes : RowIsSound(i)
    BY DEF IngestInv, TypeOK, Raw
  <2>2. PICK i \in Infohashes : i = raw[k].ih
    BY <2>1 DEF Raw, RawItems
  <2>3. i = Text("hex", i.torrent)
    BY InfohashIsHex
  <2>4. k \in Linked(raw, i)
    BY <2>2 DEF Linked
  <2>5. rel[i] # NULL /\ Represents(rel[i], raw, i)
    BY <2>1, <2>4 DEF RowIsSound
  <2>6. PICK j \in Linked(raw, i) : rel[i].magnet = raw[j].magnet
    BY <2>5 DEF Represents
  <2>7. raw[j].ih = i /\ raw[j].magnet \in Magnets /\ NormalizeInfohash(raw[j].magnet) = i
    BY <2>1, <2>6, LinkedItems DEF ItemIsSound
  <2>8. GetMagnet(Text(enc, i.torrent)) = rel[i].magnet
    <3>1. Text(enc, i.torrent).enc = enc /\ Text(enc, i.torrent).torrent = i.torrent
      BY DEF Text
    <3>2. NormalizeInfohash(<<[kind |-> "bare", enc |-> enc, torrent |-> i.torrent]>>) = i
      BY <2>3, SpellingIsHex
    <3>3. /\ i \in DOMAIN ResolveMagnets({i})
          /\ ResolveMagnets({i})[i] = rel[i].magnet
      BY <2>5 DEF ResolveMagnets
    <3> QED
      BY <3>1, <3>2, <3>3 DEF GetMagnet
  <2> QED
    BY <2>2, <2>6, <2>7, <2>8, PostsAssumption
<1> QED
  BY <1>1, IngestHolds, PTL

(* Every step of the concurrent handlers is one StorePost of the atomic     *)
(* catalog or leaves its tables alone: IngestN implements Catalog           *)
(* (store.go:101-190).                                                      *)
THEOREM IngestIsAtomic == Spec => AtomicPosts
<1>1. Init => CatalogInit
  BY DEF Init
<1>2. ASSUME IngestInv, IngestInv', [Next]_vars
      PROVE  [CatalogNext]_catalogVars
  <2>1. ASSUME NEW c \in Conns, AtPost(c, "commit"), Store(c)
        PROVE  [CatalogNext]_catalogVars
    <3>1. CASE UNCHANGED <<rel, raw>>
      BY <3>1 DEF catalogVars
    <3>2. CASE /\ call[c].id \in Nat /\ Post(c) \in Posts /\ Ih(Post(c)) \in Infohashes
               /\ Stores(raw, Post(c), call[c].id, raw')
               /\ \E t \in Summaries : rel' = [rel EXCEPT ![Ih(Post(c))] = t]
      <4>1. PICK p \in Posts, id \in Nat, t \in Summaries :
              /\ p = Post(c) /\ id = call[c].id
              /\ rel' = [rel EXCEPT ![Ih(p)] = t]
        BY <3>2
      <4>2. Stores(raw, p, id, raw') /\ Ih(p) \in Infohashes /\ raw \in Raw
            /\ rel \in [Infohashes -> Summaries \cup {NULL}]
        BY <1>2, <3>2, <4>1 DEF IngestInv, TypeOK, Raw
      <4>3. /\ raw'[p.key] = ItemOf(p, id) /\ p.key \in Linked(raw', Ih(p))
        BY <4>2, StoringLinks
      <4>4. raw'[p.key].id = id /\ raw'[p.key] # NULL
        BY <4>3 DEF ItemOf, Linked
      <4>5. raw[p.key] = NULL /\ raw' = [raw EXCEPT ![p.key] = ItemOf(p, id)]
        BY <4>2 DEF Stores
      <4>6. IsCanonicalInfohash(Ih(p))
        BY <4>2, InfohashIsHex
      <4>7. \A k \in Linked(raw, Ih(p)) : raw[k].id < id
        BY <1>2, <2>1, <4>1, PostsAssumption DEF IngestInv, HoldsKey, AtPost
      <4>8. rel' = [rel EXCEPT ![Ih(p)] = Summary(raw', Ih(p))]
        <5>1. RowIsSummary'
          BY <1>2, RowsAreSummaries, PTL
        <5>2. rel'[Ih(p)] = Summary(raw', Ih(p))
          BY <4>2, <4>3, <5>1 DEF RowIsSummary
        <5>3. rel'[Ih(p)] = t
          BY <4>1, <4>2
        <5> QED
          BY <4>1, <5>2, <5>3
      <4>9. StorePost(p)
        BY <4>4, <4>5, <4>6, <4>7, <4>8 DEF StorePost, ItemOf
      <4> QED
        BY <4>9 DEF CatalogNext
    <3> QED
      BY <1>2, <2>1, <3>1, <3>2, StoreOutcome
  <2>2. CASE UNCHANGED <<rel, raw>>
    BY <2>2 DEF catalogVars
  <2>3. UNCHANGED vars => UNCHANGED <<rel, raw>>
    BY DEF vars
  <2>4. ASSUME NEW c \in Conns,
               \/ \E b \in Batches : Receive(c, b)
               \/ Skip(c) \/ Upsert(c) \/ InsertRaw(c) \/ Finish(c) \/ Fail(c)
        PROVE  UNCHANGED <<rel, raw>>
    BY <2>4 DEF Receive, Skip, Upsert, InsertRaw, Finish, Fail
  <2>5. ASSUME NEW c \in Conns, Commit(c) \/ CommitUnheard(c)
        PROVE  AtPost(c, "commit") /\ Store(c)
    BY <2>5 DEF Commit, CommitUnheard
  <2> QED
    BY <1>2, <2>1, <2>2, <2>3, <2>4, <2>5 DEF Next, Step
<1> QED
  BY <1>1, <1>2, IngestHolds, PTL DEF Spec, AtomicPosts, CatalogSpec
=============================================================================
