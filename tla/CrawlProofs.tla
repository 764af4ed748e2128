---------------------------- MODULE CrawlProofs ----------------------------
(***************************************************************************)
(* A walk over a moving listing passes no post (pkg/crawl/crawl.go), and    *)
(* what that means for the backfill loop: no gap, and no post twice on a    *)
(* listing that stands still.                                               *)
(***************************************************************************)
EXTENDS Backfill, FiniteSetTheorems, SequenceTheorems, NaturalsInduction, TLAPS

(* A set of numbers that is not empty has a least one. *)
LEMMA HasLeast ==
  ASSUME NEW T \in SUBSET Nat, T # {}
  PROVE  \E m \in T : \A y \in T : m <= y
<1> DEFINE R == OpToRel(<, Nat)
<1>1. IsWellFoundedOn(R, Nat)
  BY NatLessThanWellFounded
<1>2. \A x, y \in Nat : y < x => <<y, x>> \in R
  BY DEF OpToRel
<1> HIDE DEF R
<1>3. PICK x \in T : \A y \in T : ~(<<y, x>> \in R)
  BY <1>1, WFMin
<1>4. \A y \in T : ~(y < x)
  BY <1>2, <1>3
<1> QED
  BY <1>4

(* Between 0 and all of them, the count of the places takes every value,    *)
(* and each first at a place of K.                                          *)
LEMMA RankIsMet ==
  ASSUME NEW N \in Nat, NEW K \in SUBSET (1..N), NEW k \in 1..Cardinality(K)
  PROVE  \E n \in K : Cardinality({j \in K : j <= n}) = k
<1> DEFINE T(n) == {j \in K : j <= n}
           S == {n \in Nat : n <= N /\ Cardinality(T(n)) >= k}
<1>1. IsFiniteSet(1..N)
  BY FS_Interval
<1>2. IsFiniteSet(K)
  BY <1>1, FS_Subset
<1>3. ASSUME NEW n PROVE IsFiniteSet(T(n)) /\ Cardinality(T(n)) \in Nat
  <2>1. IsFiniteSet(T(n))
    BY <1>2, FS_Subset
  <2> QED
    BY <2>1, FS_CardinalityType
<1>0. \A j \in K : j \in Nat /\ 1 <= j /\ j <= N
  OBVIOUS
<1>4. T(N) = K
  BY <1>0
<1>5. Cardinality(K) \in Nat
  BY <1>2, FS_CardinalityType
<1>6. N \in S
  <2>0. Cardinality(K) >= k
    BY <1>5
  <2>1. Cardinality(T(N)) >= k
    BY <1>4, <2>0
  <2> HIDE DEF T
  <2> QED
    BY <2>1
<1>7. PICK n \in S : \A m \in S : n <= m
  <2> HIDE DEF S
  <2>1. S \in SUBSET Nat /\ S # {}
    BY <1>6 DEF S
  <2> QED
    BY <2>1, HasLeast
<1>8. T(0) = {}
  <2>1. \A j \in K : ~(j <= 0)
    BY <1>0
  <2> QED
    BY <2>1
<1>9. Cardinality(T(0)) = 0
  BY <1>8, FS_EmptySet
<1>10. n \in Nat /\ n <= N /\ Cardinality(T(n)) >= k /\ n # 0
  BY <1>9
<1>11. n - 1 \in Nat /\ n - 1 \notin S /\ Cardinality(T(n - 1)) \in Nat /\ Cardinality(T(n)) \in Nat
  <2>1. n - 1 \in Nat /\ ~(n <= n - 1)
    BY <1>10
  <2>2. n - 1 \notin S
    BY <1>7, <2>1
  <2> QED
    BY <1>3, <2>1, <2>2
<1>12. Cardinality(T(n - 1)) < k
  BY <1>10, <1>11
<1>13. n \in K
  <2> SUFFICES ASSUME n \notin K PROVE FALSE
    OBVIOUS
  <2>0. \A j \in K : j <= n <=> j <= n - 1
    BY <1>0, <1>10
  <2>1. T(n) = T(n - 1)
    BY <2>0
  <2> QED
    BY <1>10, <1>11, <1>12, <2>1
<1>14. T(n) = T(n - 1) \cup {n} /\ n \notin T(n - 1)
  <2>1. \A j \in K : (j <= n <=> j <= n - 1 \/ j = n)
    BY <1>0, <1>10
  <2>2. ~(n <= n - 1)
    BY <1>10
  <2> QED
    BY <1>13, <2>1, <2>2
<1>15. IsFiniteSet(T(n - 1))
  BY <1>3
<1> HIDE DEF T
<1>16. Cardinality(T(n)) = Cardinality(T(n - 1)) + 1
  BY <1>14, <1>15, FS_AddElement
<1>17. Cardinality(T(n)) = k
  BY <1>10, <1>11, <1>12, <1>16
<1> QED
  BY <1>13, <1>17 DEF T

(* A subsequence has what the sequence has at the places. *)
LEMMA SubsequenceOf ==
  ASSUME NEW S, NEW s \in Seq(S), NEW K \in SUBSET (1..Len(s))
  PROVE  Subsequence(s, K) \in Seq({s[k] : k \in K})
<1> DEFINE E == {s[k] : k \in K}
           Rank(n) == CHOOSE k \in K : Cardinality({j \in K : j <= k}) = n
<1>1. IsFiniteSet(1..Len(s)) /\ Len(s) \in Nat
  BY FS_Interval
<1>2. Cardinality(K) \in Nat
  BY <1>1, FS_Subset, FS_CardinalityType
<1>3. ASSUME NEW n \in 1..Cardinality(K) PROVE s[Rank(n)] \in E
  <2>1. \E k \in K : Cardinality({j \in K : j <= k}) = n
    BY <1>1, RankIsMet
  <2>2. Rank(n) \in K
    BY <2>1
  <2> HIDE DEF Rank
  <2> QED
    BY <2>2
<1>4. Subsequence(s, K) = [n \in 1..Cardinality(K) |-> s[Rank(n)]]
  BY DEF Subsequence
<1> HIDE DEF E, Rank
<1>5. Subsequence(s, K) \in Seq(E)
  BY <1>2, <1>3, <1>4
<1> QED
  BY <1>5 DEF E

(* A sequence has a longest front part without bad elements. *)
LEMMA FrontExists ==
  ASSUME NEW N \in Nat, NEW B \in SUBSET (1..N)
  PROVE  \E n \in 0..N : /\ \A k \in 1..n : k \notin B
                         /\ n < N => n + 1 \in B
<1>1. CASE B = {}
  <2>1. N \in 0..N /\ ~(N < N)
    OBVIOUS
  <2> QED
    BY <1>1, <2>1
<1>2. CASE B # {}
  <2>1. PICK m \in B : \A j \in B : m <= j
    BY <1>2, HasLeast
  <2>2. m - 1 \in 0..N /\ m \in Nat /\ (m - 1) + 1 = m
    BY <2>1
  <2>3. \A k \in 1..(m - 1) : k \notin B
    BY <2>1, <2>2
  <2> QED
    BY <2>1, <2>2, <2>3
<1> QED
  BY <1>1, <1>2

LEMMA PartOf ==
  ASSUME NEW S, NEW s \in Seq(S), NEW m \in Nat \ {0}, NEW n \in Int, n <= Len(s)
  PROVE  /\ SubSeq(s, m, n) \in Seq(S)
         /\ Len(SubSeq(s, m, n)) = IF n < m THEN 0 ELSE n - m + 1
         /\ \A k \in 1..Len(SubSeq(s, m, n)) : SubSeq(s, m, n)[k] = s[m + k - 1]
<1>1. CASE n < m
  <2>1. SubSeq(s, m, n) = <<>>
    BY <1>1
  <2> QED
    BY <1>1, <2>1
<1>2. CASE n >= m
  <2>1. m \in 1..(Len(s) + 1) /\ n \in (m - 1)..Len(s) /\ Len(s) \in Nat
    BY <1>2
  <2>2. /\ SubSeq(s, m, n) \in Seq(S) /\ Len(SubSeq(s, m, n)) = n - m + 1
        /\ \A k \in 1..(n - m + 1) : SubSeq(s, m, n)[k] = s[m + k - 1]
    BY <2>1, SubSeqProperties
  <2> QED
    BY <1>2, <2>2
<1> QED
  BY <1>1, <1>2
-----------------------------------------------------------------------------
(* The engine: what a walk collects are posts, never more than it may. *)

LEMMA RowsArePosts ==
  ASSUME CrawlTypeOK, NEW p \in Nat \ {0}
  PROVE  Rows(p) \in Seq(Post)
<1> DEFINE K == RowSlots(listing, p)
<1>1. listing \in Seq(Post \cup {Blank})
  BY DEF CrawlTypeOK
<1>2. K \in SUBSET (1..Len(listing)) /\ \A k \in K : listing[k] \in Post
  BY <1>1 DEF RowSlots, HasRow
<1>3. Rows(p) = Subsequence(listing, K)
  BY DEF Rows
<1> HIDE DEF K
<1>4. Subsequence(listing, K) \in Seq({listing[k] : k \in K})
  BY <1>1, <1>2, SubsequenceOf
<1>5. {listing[k] : k \in K} \subseteq Post
  BY <1>2
<1>6. \A S, T : S \subseteq T => Seq(S) \subseteq Seq(T)
  OBVIOUS
<1> QED
  BY <1>3, <1>4, <1>5, <1>6

LEMMA FetchedArePosts ==
  ASSUME CrawlTypeOK, NEW p \in Nat \ {0}
  PROVE  Fetched(p) \in Seq(Post) /\ CacheAfter(p) \subseteq Entry
<1>1. cache \subseteq Entry /\ clock \in Nat /\ TTL \in Nat
  BY CrawlAssumption DEF CrawlTypeOK, WalkIsTyped, Entry
<1>2. Rows(p) \in Seq(Post)
  BY RowsArePosts
<1>3. Fetched(p) \in Seq(Post)
  <2>1. CASE Fresh(p) = {}
    BY <1>2, <2>1 DEF Fetched
  <2>2. CASE Fresh(p) # {}
    <3> DEFINE e == CHOOSE e \in Fresh(p) : TRUE
    <3>1. e \in Fresh(p)
      BY <2>2
    <3>2. e \in Entry
      BY <1>1, <3>1 DEF Fresh
    <3>3. Fetched(p) = e.rows
      BY <2>2 DEF Fetched
    <3> HIDE DEF e
    <3> QED
      BY <3>2, <3>3 DEF Entry
  <2> QED
    BY <2>1, <2>2
<1>4. [page |-> p, rows |-> Rows(p), expires |-> clock + TTL] \in Entry
  BY <1>1, <1>2 DEF Entry
<1>5. CacheAfter(p) \subseteq cache \cup {[page |-> p, rows |-> Rows(p), expires |-> clock + TTL]}
  BY DEF CacheAfter
<1> QED
  BY <1>1, <1>3, <1>4, <1>5

LEMMA AnswerIsTyped ==
  ASSUME CrawlTypeOK, NEW posts \in Seq(Post), Len(posts) <= walk.size,
         NEW cursor \in Cursors, NEW more \in BOOLEAN, Answer(posts, cursor, more)
  PROVE  WalkIsTyped(walk')
<1>1. walk \in Walk
  BY DEF CrawlTypeOK, WalkIsTyped
<1>2. walk' = [walk EXCEPT !.pc = "done", !.posts = posts, !.cursor = cursor, !.more = more]
  BY DEF Answer
<1>3. walk' \in Walk
  BY <1>1, <1>2 DEF Walk
<1>4. walk'.pc = "done" /\ walk'.posts = posts /\ walk'.size = walk.size
  BY <1>1, <1>2 DEF Walk
<1> QED
  BY <1>3, <1>4 DEF WalkIsTyped

LEMMA AdvanceIsTyped ==
  ASSUME CrawlTypeOK, NEW posts \in Seq(Post), Len(posts) < walk.size,
         NEW empty \in Nat, Advance(posts, empty), walk.page > 0
  PROVE  WalkIsTyped(walk')
<1>1. walk \in Walk
  BY DEF CrawlTypeOK, WalkIsTyped
<1>2. walk' = [walk EXCEPT !.page = @ + 1, !.skip = 0, !.empty = empty, !.posts = posts]
  BY DEF Advance
<1>a. walk.page + 1 \in Nat /\ 0 \in Nat
  BY <1>1 DEF Walk
<1>3. walk' \in Walk
  <2> DEFINE n == walk.page + 1
  <2>1. walk' = [walk EXCEPT !.page = n, !.skip = 0, !.empty = empty, !.posts = posts]
    BY <1>2
  <2>2. n \in Nat
    BY <1>a
  <2> HIDE DEF n
  <2> QED
    BY <1>1, <1>a, <2>1, <2>2 DEF Walk
<1>4. walk'.page = walk.page + 1 /\ walk'.posts = posts /\ walk'.size = walk.size
      /\ walk.page \in Nat
  BY <1>1, <1>2 DEF Walk
<1>5. Len(posts) \in Nat /\ walk.size \in Nat
  BY <1>1 DEF Walk
<1> QED
  BY <1>3, <1>4, <1>5 DEF WalkIsTyped

LEMMA InWindowIsPart ==
  ASSUME NEW rest \in Seq(Post)
  PROVE  /\ InWindow(rest) \in 0..Len(rest)
         /\ InWindow(rest) < Len(rest) => OutOfWindow(rest[InWindow(rest) + 1])
<1> DEFINE B == {k \in 1..Len(rest) : OutOfWindow(rest[k])}
           P(n) == /\ \A k \in 1..n : ~OutOfWindow(rest[k])
                   /\ n < Len(rest) => OutOfWindow(rest[n + 1])
<1>1. Len(rest) \in Nat /\ B \in SUBSET (1..Len(rest))
  OBVIOUS
<1>2. PICK n \in 0..Len(rest) : (\A k \in 1..n : k \notin B) /\ (n < Len(rest) => n + 1 \in B)
  <2> HIDE DEF B
  <2> QED
    BY <1>1, FrontExists
<1>3. \A k \in 1..n : k \in 1..Len(rest)
  BY <1>1, <1>2
<1>4. P(n)
  BY <1>2, <1>3
<1>5. InWindow(rest) = CHOOSE k \in 0..Len(rest) : P(k)
  BY DEF InWindow
<1> HIDE DEF P
<1>6. InWindow(rest) \in 0..Len(rest) /\ P(InWindow(rest))
  BY <1>2, <1>4, <1>5
<1> QED
  BY <1>6 DEF P

LEMMA PageIsTyped ==
  ASSUME CrawlTypeOK, NEW rows \in Seq(Post), walk.pc = "walk", UsePage(rows)
  PROVE  WalkIsTyped(walk')
<1> DEFINE rest == Rest(rows)
           start == Start(rows)
           n == InWindow(rest)
<1>1. /\ walk.posts \in Seq(Post) /\ Len(walk.posts) < walk.size /\ walk.size \in Nat
      /\ Len(walk.posts) \in Nat /\ walk.page \in Nat /\ walk.page > 0 /\ walk.empty \in Nat
      /\ walk.skip \in Nat /\ Len(rows) \in Nat
  BY DEF CrawlTypeOK, WalkIsTyped, Walk
<1>2. start \in Nat
  BY <1>1 DEF Start, Lesser
<1>3. rest \in Seq(Post) /\ Len(rest) \in Nat
  <2>1. start + 1 \in Nat \ {0} /\ Len(rows) \in Int /\ Len(rows) <= Len(rows)
    BY <1>1, <1>2
  <2>2. rest = SubSeq(rows, start + 1, Len(rows))
    BY DEF Rest
  <2> HIDE DEF rest, start
  <2>3. rest \in Seq(Post)
    BY <2>1, <2>2, PartOf
  <2> QED
    BY <2>3
<1>4. \/ rows = <<>> /\ EmptyPage
      \/ LookbackBoundary(rest, n) \/ MidPage(start, rest, n)
      \/ PageEnd(rest, n) \/ PageExhausted(rest, n)
  BY DEF UsePage
<1>5. n \in 0..Len(rest)
  <2> HIDE DEF rest
  <2> QED
    BY <1>3, InWindowIsPart
<1>6. Room \in Nat /\ Room = walk.size - Len(walk.posts)
  BY <1>1 DEF Room
<1> HIDE DEF rest, start, n
<1>7. NoCursor \in Cursors /\ \A k \in Nat : <<walk.page, k>> \in Cursors
  BY <1>1 DEF Cursors
<1>8. ASSUME NEW k \in 0..Len(rest), k <= Room
      PROVE  /\ walk.posts \o SubSeq(rest, 1, k) \in Seq(Post)
             /\ Len(walk.posts \o SubSeq(rest, 1, k)) <= walk.size
  <2>1. 1 \in Nat \ {0} /\ k \in Int /\ k <= Len(rest)
    BY <1>3
  <2>2. /\ SubSeq(rest, 1, k) \in Seq(Post)
        /\ Len(SubSeq(rest, 1, k)) = IF k < 1 THEN 0 ELSE k - 1 + 1
    BY <1>3, <2>1, PartOf
  <2> DEFINE part == SubSeq(rest, 1, k)
  <2>3. part \in Seq(Post) /\ Len(part) = k
    BY <2>2
  <2> HIDE DEF part
  <2>a. walk.posts \in Seq(Post)
    BY <1>1
  <2>b. walk.posts \o part \in Seq(Post) /\ Len(walk.posts \o part) = Len(walk.posts) + Len(part)
    BY <2>3, <2>a
  <2>4. walk.posts \o part \in Seq(Post) /\ Len(walk.posts \o part) = Len(walk.posts) + k
    BY <2>3, <2>b
  <2>5. Len(walk.posts \o part) <= walk.size
    BY <1>1, <1>6, <1>8, <2>4
  <2> QED
    BY <2>4, <2>5 DEF part
<1>9. ASSUME Len(rest) <= Room
      PROVE  walk.posts \o rest \in Seq(Post) /\ Len(walk.posts \o rest) <= walk.size
  <2>1. walk.posts \o rest \in Seq(Post) /\ Len(walk.posts \o rest) = Len(walk.posts) + Len(rest)
    BY <1>1, <1>3
  <2> QED
    BY <1>1, <1>3, <1>6, <1>9, <2>1
<1>10. CASE EmptyPage
  <2>1. CASE FloorReached(walk.empty + 1)
    <3>1. Answer(walk.posts, NoCursor, FALSE)
      BY <1>10, <2>1 DEF EmptyPage
    <3>2. Len(walk.posts) <= walk.size /\ walk.posts \in Seq(Post) /\ FALSE \in BOOLEAN
      BY <1>1
    <3> QED
      BY <1>7, <3>1, <3>2, AnswerIsTyped
  <2>2. CASE ~FloorReached(walk.empty + 1)
    <3>1. Advance(walk.posts, walk.empty + 1) /\ walk.empty + 1 \in Nat
      BY <1>1, <1>10, <2>2 DEF EmptyPage
    <3> QED
      BY <1>1, <3>1, AdvanceIsTyped
  <2> QED
    BY <2>1, <2>2
<1>11. CASE LookbackBoundary(rest, n)
  <2>1. n <= Room /\ Answer(walk.posts \o SubSeq(rest, 1, n), NoCursor, FALSE)
    BY <1>11 DEF LookbackBoundary
  <2> QED
    BY <1>5, <1>7, <1>8, <2>1, AnswerIsTyped
<1>12. CASE MidPage(start, rest, n)
  <2>0. start + Room \in Nat
    BY <1>2, <1>6
  <2>1. /\ Room < n
        /\ Answer(walk.posts \o SubSeq(rest, 1, Room), <<walk.page, start + Room>>, TRUE)
    BY <1>12 DEF MidPage
  <2>2. Room \in 0..Len(rest) /\ Room <= Room
    BY <1>3, <1>5, <1>6, <2>1
  <2>3. <<walk.page, start + Room>> \in Cursors
    BY <1>7, <2>0
  <2> QED
    BY <1>8, <2>1, <2>2, <2>3, AnswerIsTyped
<1>13. CASE PageEnd(rest, n)
  <2>1. /\ Room = n /\ n = Len(rest)
        /\ Answer(walk.posts \o rest, <<walk.page, 0>>, TRUE)
    BY <1>13 DEF PageEnd
  <2>2. Len(rest) <= Room /\ <<walk.page, 0>> \in Cursors
    BY <1>3, <1>7, <2>1
  <2> QED
    BY <1>9, <2>1, <2>2, AnswerIsTyped
<1>14. CASE PageExhausted(rest, n)
  <2>1. Len(rest) < Room /\ Advance(walk.posts \o rest, 0)
    BY <1>3, <1>6, <1>14 DEF PageExhausted
  <2>2. Len(walk.posts \o rest) = Len(walk.posts) + Len(rest) /\ walk.posts \o rest \in Seq(Post)
    BY <1>1, <1>3
  <2>3. Len(walk.posts \o rest) < walk.size
    BY <1>1, <1>3, <1>6, <2>1, <2>2
  <2> QED
    BY <1>1, <2>1, <2>2, <2>3, AdvanceIsTyped
<1> QED
  BY <1>4, <1>10, <1>11, <1>12, <1>13, <1>14

LEMMA NoWalkIsTyped ==
  /\ WalkIsTyped(NoWalk)
  /\ WalkIsTyped([NoWalk EXCEPT !.pc = "error"])
<1>0. NoWalk \in Walk
  BY DEF NoWalk, Walk, Cursors
<1>1. NoWalk \in Walk /\ [NoWalk EXCEPT !.pc = "error"] \in Walk
  BY <1>0 DEF Walk
<1>2. /\ NoWalk.pc = "idle" /\ NoWalk.posts = <<>> /\ NoWalk.size = 0
      /\ [NoWalk EXCEPT !.pc = "error"].pc = "error"
      /\ [NoWalk EXCEPT !.pc = "error"].posts = <<>> /\ [NoWalk EXCEPT !.pc = "error"].size = 0
  BY DEF NoWalk
<1>3. Len(<<>>) <= 0
  OBVIOUS
<1> QED
  BY <1>1, <1>2, <1>3 DEF WalkIsTyped

LEMMA Rounding ==
  ASSUME NEW a \in Nat, NEW b \in Nat \ {0}
  PROVE  a - (a % b) \in Nat
<1>1. a % b \in 0..(b - 1)
  OBVIOUS
<1>2. CASE a < b
  <2>1. a % b = a
    BY <1>2
  <2> QED
    BY <2>1
<1>3. CASE a >= b
  BY <1>1, <1>3
<1> QED
  BY <1>2, <1>3

-----------------------------------------------------------------------------
(* The steps of the engine and of the source keep CrawlTypeOK. *)

LEMMA FetchPageIsTyped ==
  ASSUME CrawlTypeOK, FetchPage
  PROVE  CrawlTypeOK' /\ clock' = clock
<1>1. /\ walk.pc = "walk" /\ UsePage(Fetched(walk.page))
      /\ cache' = CacheAfter(walk.page) /\ clock' = clock /\ listing' = listing
      /\ failures' = failures
  BY DEF FetchPage, Walked
<1>2. walk.page \in Nat \ {0}
  BY <1>1 DEF CrawlTypeOK, WalkIsTyped, Walk
<1>3. Fetched(walk.page) \in Seq(Post) /\ cache' \subseteq Entry
  BY <1>1, <1>2, FetchedArePosts
<1>4. WalkIsTyped(walk')
  BY <1>1, <1>3, PageIsTyped
<1> QED
  BY <1>1, <1>3, <1>4 DEF CrawlTypeOK

LEMMA FetchFailIsTyped ==
  ASSUME CrawlTypeOK, FetchFail
  PROVE  CrawlTypeOK' /\ clock' = clock
<1>1. /\ failures' = failures + 1 /\ walk' = [NoWalk EXCEPT !.pc = "error"]
      /\ clock' = clock /\ listing' = listing /\ cache' = cache
  BY DEF FetchFail
<1>2. failures' \in Nat /\ WalkIsTyped(walk')
  BY <1>1, NoWalkIsTyped DEF CrawlTypeOK
<1> QED
  BY <1>1, <1>2 DEF CrawlTypeOK

(* What Publish puts on top. *)
LEMMA PublishedPost ==
  ASSUME CrawlTypeOK, Publish
  PROVE  \E x \in Post : /\ listing' = <<x>> \o listing /\ x.at = clock + 1
                         /\ x.date # ZeroDate => x.at < x.date + Granule
                         /\ DateParses \subseteq {TRUE} => x.date = x.at - (x.at % Granule)
<1>1. clock' = clock + 1 /\ clock' \in Nat /\ Granule \in Nat \ {0} /\ DateParses \subseteq BOOLEAN
  BY CrawlAssumption DEF Publish, CrawlTypeOK
<1>2. PICK parsed \in DateParses :
        listing' = <<[at |-> clock', date |-> IF parsed THEN clock' - (clock' % Granule)
                                              ELSE ZeroDate]>> \o listing
  BY DEF Publish
<1> DEFINE d == IF parsed THEN clock' - (clock' % Granule) ELSE ZeroDate
           p == [at |-> clock', date |-> d]
<1>3. clock' - (clock' % Granule) \in Nat /\ clock' % Granule \in 0..(Granule - 1)
  BY <1>1, Rounding
<1>4. d \in Nat \cup {ZeroDate} /\ (d # ZeroDate => clock' < d + Granule)
  BY <1>1, <1>3 DEF ZeroDate
<1>5. DateParses \subseteq {TRUE} => d = clock' - (clock' % Granule)
  BY <1>2
<1>6. listing' = <<p>> \o listing
  BY <1>2
<1> HIDE DEF d
<1>7. p \in Post /\ p.at = clock + 1 /\ p.at = clock' /\ p.date = d
  BY <1>1, <1>4 DEF Post
<1> HIDE DEF p
<1> QED
  BY <1>4, <1>5, <1>6, <1>7

LEMMA PublishIsTyped ==
  ASSUME CrawlTypeOK, Publish
  PROVE  CrawlTypeOK' /\ clock' = clock + 1
<1>1. /\ clock' = clock + 1 /\ cache' = cache /\ failures' = failures /\ walk' = walk
  BY DEF Publish
<1>2. PICK x \in Post : listing' = <<x>> \o listing
  BY PublishedPost
<1>3. clock' \in Nat /\ listing' \in Seq(Post \cup {Blank})
  BY <1>1, <1>2 DEF CrawlTypeOK
<1> QED
  BY <1>1, <1>3 DEF CrawlTypeOK

LEMMA TickIsTyped ==
  ASSUME CrawlTypeOK, Tick
  PROVE  CrawlTypeOK' /\ clock' = clock + 1
<1>1. clock' = clock + 1 /\ UNCHANGED <<listing, cache, failures, walk>>
  BY DEF Tick
<1>2. clock' \in Nat
  BY <1>1 DEF CrawlTypeOK
<1> QED
  BY <1>1, <1>2 DEF CrawlTypeOK

(* A call begins behind its cursor, with nothing brought. *)
LEMMA BeginIsTyped ==
  ASSUME CrawlTypeOK, NEW cursor \in Cursors, NEW n \in Int, NEW lookback \in Int,
         Begin(cursor, n, lookback)
  PROVE  /\ WalkIsTyped(walk') /\ walk'.pc = "walk" /\ walk'.page = FirstPage(cursor)
         /\ walk'.skip = cursor[2] /\ walk'.posts = <<>>
         /\ walk'.cutoff = IF lookback > 0 THEN clock - lookback ELSE 0
<1> DEFINE pg == FirstPage(cursor)
           sk == cursor[2]
           sz == ClampPageSize(n)
           ct == IF lookback > 0 THEN clock - lookback ELSE 0
           w == [NoWalk EXCEPT !.pc = "walk", !.page = pg, !.skip = sk, !.size = sz, !.cutoff = ct]
<1>1. walk' = w
  BY DEF Begin
<1>2. pg \in Nat /\ pg > 0 /\ sk \in Nat
  BY DEF FirstPage, Cursors, NoCursor
<1>3. sz \in Nat /\ sz > 0
  BY CrawlAssumption DEF ClampPageSize, Lesser
<1>4. ct \in Int
  BY DEF CrawlTypeOK
<1> HIDE DEF pg, sk, sz, ct
<1>5. NoWalk \in Walk /\ NoWalk.posts = <<>>
  BY NoWalkIsTyped DEF WalkIsTyped, NoWalk
<1>6. w \in Walk
  <2>1. "walk" \in {"idle", "walk", "done", "error"}
    OBVIOUS
  <2> QED
    BY <1>2, <1>3, <1>4, <1>5, <2>1 DEF Walk
<1>7. /\ w.posts = <<>> /\ w.size = sz /\ w.page = pg /\ w.pc = "walk" /\ w.skip = sk
      /\ w.cutoff = ct
  BY <1>5 DEF Walk
<1> HIDE DEF w
<1>8. Len(<<>>) = 0
  OBVIOUS
<1>9. WalkIsTyped(walk')
  BY <1>1, <1>2, <1>3, <1>6, <1>7, <1>8 DEF WalkIsTyped
<1> QED
  BY <1>1, <1>7, <1>9 DEF pg, sk, ct
-----------------------------------------------------------------------------
(* Places in a listing. *)

(* How many of the places K are not behind n. *)
Rank(K, n) == Cardinality({j \in K : j <= n})

LEMMA Ranks ==
  ASSUME NEW N \in Nat, NEW K \in SUBSET (1..N)
  PROVE  /\ IsFiniteSet(K) /\ Cardinality(K) \in Nat
         /\ \A n \in Nat : Rank(K, n) \in 0..Cardinality(K)
         /\ \A m, n \in Nat : m <= n => Rank(K, m) <= Rank(K, n)
         /\ \A m \in Nat, n \in K : m < n => Rank(K, m) < Rank(K, n)
<1> DEFINE T(n) == {j \in K : j <= n}
<1>0. IsFiniteSet(1..N)
  BY FS_Interval
<1>1. IsFiniteSet(K)
  BY <1>0, FS_Subset
<1>2. \A j \in K : j \in Nat
  OBVIOUS
<1>3. Cardinality(K) \in Nat
  BY <1>1, FS_CardinalityType
<1>4. ASSUME NEW n \in Nat
      PROVE  IsFiniteSet(T(n)) /\ Cardinality(T(n)) \in Nat /\ Cardinality(T(n)) <= Cardinality(K)
  <2>1. T(n) \subseteq K
    OBVIOUS
  <2> HIDE DEF T
  <2>2. IsFiniteSet(T(n)) /\ Cardinality(T(n)) <= Cardinality(K)
    BY <1>1, <2>1, FS_Subset
  <2> QED
    BY <2>2, FS_CardinalityType
<1>5. ASSUME NEW m \in Nat, NEW n \in Nat, m <= n
      PROVE  Cardinality(T(m)) <= Cardinality(T(n))
  <2>0. \A j \in K : j <= m => j <= n
    BY <1>2, <1>5
  <2>1. T(m) \subseteq T(n)
    BY <2>0
  <2> HIDE DEF T
  <2> QED
    BY <1>4, <2>1, FS_Subset
<1>6. ASSUME NEW m \in Nat, NEW n \in K, m < n
      PROVE  Cardinality(T(m)) < Cardinality(T(n))
  <2>0. (\A j \in K : j <= m => j <= n) /\ n <= n /\ ~(n <= m) /\ n \in Nat
    BY <1>2, <1>6
  <2>1. T(m) \cup {n} \subseteq T(n) /\ n \notin T(m) /\ n \in Nat
    BY <2>0
  <2> HIDE DEF T
  <2>2. IsFiniteSet(T(m)) /\ Cardinality(T(m)) \in Nat /\ IsFiniteSet(T(n)) /\ Cardinality(T(n)) \in Nat
    BY <1>4, <2>1
  <2>3. IsFiniteSet(T(m) \cup {n}) /\ Cardinality(T(m) \cup {n}) = Cardinality(T(m)) + 1
    BY <2>1, <2>2, FS_AddElement
  <2>4. Cardinality(T(m) \cup {n}) <= Cardinality(T(n))
    BY <2>1, <2>2, FS_Subset
  <2> QED
    BY <2>2, <2>3, <2>4
<1>7. \A n : Rank(K, n) = Cardinality(T(n))
  BY DEF Rank
<1> HIDE DEF T
<1>8. \A n \in Nat : Rank(K, n) \in 0..Cardinality(K)
  BY <1>3, <1>4, <1>7
<1>9. \A m, n \in Nat : m <= n => Rank(K, m) <= Rank(K, n)
  BY <1>5, <1>7
<1>10. \A m \in Nat, n \in K : m < n => Rank(K, m) < Rank(K, n)
  BY <1>6, <1>7
<1> QED
  BY <1>1, <1>3, <1>8, <1>9, <1>10

(* A place of K is met at its rank, and each rank is met. *)
LEMMA SubsequenceAt ==
  ASSUME NEW S, NEW s \in Seq(S), NEW K \in SUBSET (1..Len(s))
  PROVE  /\ Len(Subsequence(s, K)) = Cardinality(K)
         /\ \A n \in K : /\ Rank(K, n) \in 1..Cardinality(K)
                         /\ Subsequence(s, K)[Rank(K, n)] = s[n]
         /\ \A i \in 1..Cardinality(K) : \E n \in K : Rank(K, n) = i
<1> DEFINE At(i) == CHOOSE k \in K : Cardinality({j \in K : j <= k}) = i
<1>1. Len(s) \in Nat /\ \A n \in K : n \in Nat /\ 0 < n
  OBVIOUS
<1>2. /\ Cardinality(K) \in Nat
      /\ \A n \in Nat : Rank(K, n) \in 0..Cardinality(K)
      /\ \A m \in Nat, n \in K : m < n => Rank(K, m) < Rank(K, n)
  BY <1>1, Ranks
<1>3. \A i \in 1..Cardinality(K) : \E n \in K : Rank(K, n) = i
  BY <1>1, RankIsMet DEF Rank
<1>4. ASSUME NEW n \in K
      PROVE  Rank(K, n) \in 1..Cardinality(K) /\ At(Rank(K, n)) = n
  <2>1. Rank(K, 0) < Rank(K, n) /\ Rank(K, 0) \in 0..Cardinality(K) /\ Rank(K, n) \in 0..Cardinality(K)
    BY <1>1, <1>2
  <2>2. Rank(K, n) \in 1..Cardinality(K)
    BY <1>2, <2>1
  <2> DEFINE m == At(Rank(K, n))
  <2>3. m \in K /\ Rank(K, m) = Rank(K, n)
    BY DEF Rank
  <2> HIDE DEF m
  <2>4. ~(m < n) /\ ~(n < m)
    <3>1. m \in Nat /\ n \in Nat /\ Rank(K, n) \in Nat
      BY <1>1, <1>2, <2>3
    <3>2. m < n => Rank(K, n) < Rank(K, n)
      BY <1>2, <2>3, <3>1
    <3>3. n < m => Rank(K, n) < Rank(K, n)
      BY <1>2, <2>3, <3>1
    <3> QED
      BY <3>1, <3>2, <3>3
  <2>5. m = n
    BY <1>1, <2>3, <2>4
  <2> QED
    BY <2>2, <2>5 DEF m
<1>5. Subsequence(s, K) = [i \in 1..Cardinality(K) |-> s[At(i)]]
  BY DEF Subsequence
<1> HIDE DEF At
<1>6. Len(Subsequence(s, K)) = Cardinality(K)
  BY <1>2, <1>5
<1>7. ASSUME NEW n \in K PROVE Subsequence(s, K)[Rank(K, n)] = s[n]
  BY <1>4, <1>5
<1> QED
  BY <1>3, <1>4, <1>6, <1>7
Slots == Post \cup {Blank}

LEMMA Borders ==
  ASSUME NEW p \in Nat \ {0}
  PROVE  /\ PageRows \in Nat \ {0} /\ p * PageRows \in Nat /\ (p - 1) * PageRows \in Nat
         /\ p * PageRows = (p - 1) * PageRows + PageRows
         /\ (p + 1) * PageRows = p * PageRows + PageRows
<1>1. PageRows \in Nat \ {0}
  BY CrawlAssumption
<1>2. \A a, b \in Nat : a * b \in Nat
  OBVIOUS
<1>3. \A a, b \in Nat : (a + 1) * b = a * b + b
  OBVIOUS
<1>4. p - 1 \in Nat /\ (p - 1) + 1 = p
  OBVIOUS
<1> QED
  BY <1>1, <1>2, <1>3, <1>4

LEMMA RowIsSlot ==
  ASSUME NEW l \in Seq(Slots), NEW p \in Nat \ {0}
  PROVE  /\ RowSlots(l, p) \in SUBSET (1..Len(l)) /\ Len(l) \in Nat
         /\ \A n \in 1..Len(l) :
              l[n] \in Post => (n \in RowSlots(l, p)
                                  <=> (p - 1) * PageRows < n /\ n <= p * PageRows)
         /\ \A n \in RowSlots(l, p) : /\ l[n] \in Post /\ HasRow(l[n])
                                      /\ (p - 1) * PageRows < n /\ n <= p * PageRows
<1>1. Blank \notin Post
  BY CrawlAssumption DEF Post
<1>2. \A n \in 1..Len(l) : HasRow(l[n]) <=> l[n] \in Post
  BY <1>1 DEF HasRow, Slots
<1> QED
  BY <1>2 DEF RowSlots

(* In front of a page, none of its rows was met. *)
LEMMA RankInFront ==
  ASSUME NEW l \in Seq(Slots), NEW p \in Nat \ {0}, NEW n \in Nat, n <= (p - 1) * PageRows
  PROVE  Rank(RowSlots(l, p), n) = 0
<1> DEFINE K == RowSlots(l, p)
<1>1. \A j \in K : j \in Nat /\ (p - 1) * PageRows < j
  BY RowIsSlot
<1>2. (p - 1) * PageRows \in Nat
  BY Borders
<1> HIDE DEF K
<1>3. \A j \in K : ~(j <= n)
  BY <1>1, <1>2
<1>4. {j \in K : j <= n} = {}
  BY <1>3
<1>5. Rank(K, n) = 0
  BY <1>4, FS_EmptySet DEF Rank
<1> QED
  BY <1>5 DEF K

LEMMA BehindIsRanked ==
  ASSUME NEW l, NEW p, NEW k, NEW n
  PROVE  n \in Behind(l, p, k) <=>
           n \in 1..Len(l) /\ n <= p * PageRows /\ Rank(RowSlots(l, p), n) <= k
BY DEF Behind, Rank

(* A walk that begins has passed nothing. *)
LEMMA NothingIsBehind ==
  ASSUME NEW l \in Seq(Slots), NEW X \in SUBSET Post, NEW S
  PROVE  CursorCovers(l, NoCursor, X, S)
<1> SUFFICES ASSUME NEW n \in Behind(l, 1, 0), l[n] \in X PROVE FALSE
  BY DEF CursorCovers, Covers, FirstPage, NoCursor
<1> DEFINE K == RowSlots(l, 1)
<1>1. n \in 1..Len(l) /\ n <= 1 * PageRows /\ Rank(K, n) <= 0
  BY BehindIsRanked
<1>2. 1 \in Nat \ {0} /\ (1 - 1) * PageRows = 0
  BY CrawlAssumption
<1>3. K \in SUBSET (1..Len(l)) /\ Len(l) \in Nat /\ n \in K
  <2>1. (1 - 1) * PageRows < n /\ l[n] \in Post
    BY <1>1, <1>2
  <2> QED
    BY <1>1, <1>2, <2>1, RowIsSlot
<1> HIDE DEF K
<1>4. Rank(K, n) \in 1..Cardinality(K)
  BY <1>3, SubsequenceAt
<1> QED
  BY <1>1, <1>4

(* A page all of whose rows are behind is left for the next. *)
LEMMA PageTurn ==
  ASSUME NEW l \in Seq(Slots), NEW p \in Nat \ {0}, NEW k \in Nat,
         Cardinality(RowSlots(l, p)) <= k, NEW X \in SUBSET Post, NEW S, Covers(l, p, k, X, S)
  PROVE  Covers(l, p + 1, 0, X, S)
<1> SUFFICES ASSUME NEW n \in Behind(l, p + 1, 0), l[n] \in X PROVE l[n] \in S
  BY DEF Covers
<1> DEFINE K == RowSlots(l, p)
           J == RowSlots(l, p + 1)
<1>1. n \in 1..Len(l) /\ n <= (p + 1) * PageRows /\ Rank(J, n) <= 0
  BY BehindIsRanked
<1>2. p + 1 \in Nat \ {0} /\ (p + 1) - 1 = p /\ p * PageRows \in Nat
  BY Borders
<1>3. /\ K \in SUBSET (1..Len(l)) /\ J \in SUBSET (1..Len(l)) /\ Len(l) \in Nat
      /\ n \in J <=> p * PageRows < n /\ n <= (p + 1) * PageRows
  BY <1>1, <1>2, RowIsSlot
<1>4. n <= p * PageRows
  <2> SUFFICES ASSUME p * PageRows < n PROVE FALSE
    BY <1>1, <1>2
  <2>1. n \in J
    BY <1>1, <1>3
  <2> HIDE DEF J
  <2>2. Rank(J, n) \in 1..Cardinality(J)
    BY <1>3, <2>1, SubsequenceAt
  <2> QED
    BY <1>1, <2>2
<1>5. Rank(K, n) <= k
  <2> HIDE DEF K
  <2>a. n \in Nat
    BY <1>1
  <2>1. n \in Nat /\ Rank(K, n) \in 0..Cardinality(K) /\ Cardinality(K) \in Nat
    BY <1>3, <2>a, Ranks
  <2>2. Cardinality(K) <= k
    BY DEF K
  <2> QED
    BY <2>1, <2>2
<1>6. n \in Behind(l, p, k)
  BY <1>1, <1>4, <1>5, BehindIsRanked
<1> QED
  BY <1>6 DEF Covers

(* What is behind a place after the last row is behind the last row. *)
LEMMA BehindAll ==
  ASSUME NEW l \in Seq(Slots), NEW p \in Nat \ {0}, NEW k \in Nat, NEW n \in Behind(l, p, k)
  PROVE  n \in Behind(l, p, Lesser(k, Cardinality(RowSlots(l, p))))
<1> DEFINE K == RowSlots(l, p)
<1>1. n \in 1..Len(l) /\ n <= p * PageRows /\ Rank(K, n) <= k
  BY BehindIsRanked
<1>2. K \in SUBSET (1..Len(l)) /\ Len(l) \in Nat
  BY RowIsSlot
<1>3. Rank(K, n) <= Lesser(k, Cardinality(K))
  <2> HIDE DEF K
  <2>a. n \in Nat
    BY <1>1
  <2>1. n \in Nat /\ Rank(K, n) \in 0..Cardinality(K) /\ Cardinality(K) \in Nat
    BY <1>2, <2>a, Ranks
  <2> QED
    BY <1>1, <2>1 DEF Lesser
<1> QED
  BY <1>1, <1>3, BehindIsRanked

(* The rows of a page, from its place on, bring a walk on. *)
LEMMA PagePart ==
  ASSUME NEW l \in Seq(Slots), NEW p \in Nat \ {0}, NEW k \in Nat, NEW X \in SUBSET Post,
         NEW S, Covers(l, p, k, X, S), NEW j \in Nat, NEW T, S \subseteq T,
         \A n \in RowSlots(l, p) :
           /\ Lesser(k, Cardinality(RowSlots(l, p))) < Rank(RowSlots(l, p), n)
           /\ Rank(RowSlots(l, p), n) <= j
           => l[n] \in T
  PROVE  Covers(l, p, j, X, T)
<1> SUFFICES ASSUME NEW n \in Behind(l, p, j), l[n] \in X PROVE l[n] \in T
  BY DEF Covers
<1> DEFINE K == RowSlots(l, p)
<1>1. n \in 1..Len(l) /\ n <= p * PageRows /\ Rank(K, n) <= j
  BY BehindIsRanked
<1>2. /\ K \in SUBSET (1..Len(l)) /\ Len(l) \in Nat /\ n \in Nat
      /\ n \in K <=> (p - 1) * PageRows < n /\ n <= p * PageRows
  BY <1>1, RowIsSlot
<1>3. Rank(K, n) \in 0..Cardinality(K) /\ Cardinality(K) \in Nat
  <2> HIDE DEF K
  <2> QED
    BY <1>2, Ranks
<1>4. CASE Rank(K, n) <= k
  <2>1. n \in Behind(l, p, k)
    BY <1>1, <1>4, BehindIsRanked
  <2> QED
    BY <2>1 DEF Covers
<1>5. CASE ~(Rank(K, n) <= k)
  <2>1. n \in K
    <3>1. ~(n <= (p - 1) * PageRows)
      <4>1. n <= (p - 1) * PageRows => Rank(K, n) = 0
        BY <1>2, RankInFront
      <4> HIDE DEF K
      <4> QED
        BY <1>5, <4>1
    <3> QED
      BY <1>1, <1>2, <3>1, Borders
  <2>2. Lesser(k, Cardinality(K)) < Rank(K, n)
    BY <1>3, <1>5 DEF Lesser
  <2> QED
    BY <1>1, <2>1, <2>2
<1> QED
  BY <1>4, <1>5
-----------------------------------------------------------------------------
(* A tidy listing. *)

(* A row that is not older is not behind. *)
LEMMA NewerIsInFront ==
  ASSUME NEW l \in Seq(Slots), NEW now \in Nat, Tidy(l, now),
         NEW m \in 1..Len(l), NEW n \in 1..Len(l), l[m] \in Post, l[n] \in Post,
         l[m].at <= l[n].at
  PROVE  n <= m
<1>1. Blank \notin Post
  BY CrawlAssumption DEF Post
<1> SUFFICES ASSUME m < n PROVE FALSE
  OBVIOUS
<1>2. m \in 1..(n - 1) /\ HasRow(l[m]) /\ HasRow(l[n])
  BY <1>1 DEF HasRow
<1>3. l[n].at < l[m].at
  BY <1>2 DEF Tidy
<1>4. l[n].at \in Nat /\ l[m].at \in Nat
  BY DEF Post
<1> QED
  BY <1>3, <1>4

(* Where a row is behind, everything that is not older is. *)
LEMMA CoversNewer ==
  ASSUME NEW l \in Seq(Slots), NEW now \in Nat, Tidy(l, now), NEW p \in Nat \ {0},
         NEW q \in RowSlots(l, p), NEW X \in SUBSET Post, NEW S,
         Covers(l, p, Rank(RowSlots(l, p), q), X, S),
         NEW n \in 1..Len(l), l[n] \in X, l[q].at <= l[n].at
  PROVE  l[n] \in S
<1> DEFINE K == RowSlots(l, p)
<1>1. /\ K \in SUBSET (1..Len(l)) /\ Len(l) \in Nat /\ q \in 1..Len(l) /\ l[q] \in Post
      /\ q <= p * PageRows /\ l[n] \in Post /\ p * PageRows \in Nat
  BY RowIsSlot, Borders
<1>2. n <= q
  BY <1>1, NewerIsInFront
<1>3. n \in Nat /\ q \in Nat /\ n <= p * PageRows
  BY <1>1, <1>2
<1>4. Rank(K, n) <= Rank(K, q)
  <2> HIDE DEF K
  <2> QED
    BY <1>1, <1>2, <1>3, Ranks
<1>5. n \in Behind(l, p, Rank(K, q))
  BY <1>3, <1>4, BehindIsRanked
<1> QED
  BY <1>5 DEF Covers

(* Behind the first row that is out of the window, so is all that was not    *)
(* brought.                                                                  *)
LEMMA BoundaryIsOld ==
  ASSUME NEW l \in Seq(Slots), NEW now \in Nat, Tidy(l, now), NEW p \in Nat \ {0},
         NEW q \in RowSlots(l, p), NEW cutoff \in Int,
         l[q].date # ZeroDate, l[q].date < cutoff,
         NEW X \in SUBSET Post, NEW S, NEW j \in Nat, Rank(RowSlots(l, p), q) = j + 1,
         Covers(l, p, j, X, S), NEW n \in 1..Len(l), l[n] \in X
  PROVE  l[n] \in S \/ (cutoff > 0 /\ l[n].at < cutoff + Granule - 1)
<1> DEFINE K == RowSlots(l, p)
<1>1. /\ K \in SUBSET (1..Len(l)) /\ Len(l) \in Nat /\ q \in 1..Len(l) /\ l[q] \in Post
      /\ HasRow(l[q]) /\ q <= p * PageRows /\ l[n] \in Post /\ p * PageRows \in Nat
  BY RowIsSlot, Borders
<1>2. /\ l[q].at \in Nat /\ l[q].date \in Nat /\ l[n].at \in Nat /\ Granule \in Nat
      /\ n \in Nat /\ q \in Nat
  BY <1>1, CrawlAssumption DEF Post
<1>3. CASE n < q
  <2>1. Rank(K, n) < Rank(K, q) /\ Rank(K, n) \in Nat
    <3>1. q \in K
      OBVIOUS
    <3> HIDE DEF K
    <3>2. Rank(K, n) \in 0..Cardinality(K) /\ Rank(K, n) < Rank(K, q)
      BY <1>1, <1>2, <1>3, <3>1, Ranks
    <3> QED
      BY <3>2
  <2>2. Rank(K, n) <= j
    <3>1. Rank(K, q) = j + 1
      OBVIOUS
    <3> HIDE DEF K
    <3> QED
      BY <2>1, <3>1
  <2>3. n <= p * PageRows
    BY <1>1, <1>2, <1>3
  <2>4. n \in Behind(l, p, j)
    BY <2>2, <2>3, BehindIsRanked
  <2>5. l[n] \in S
    BY <2>4 DEF Covers
  <2> QED
    BY <2>5
<1>4. CASE ~(n < q)
  <2>1. l[n].at <= l[q].at
    <3> SUFFICES ASSUME ~(l[n].at <= l[q].at) PROVE FALSE
      OBVIOUS
    <3>1. l[q].at <= l[n].at /\ l[n].at # l[q].at
      BY <1>2
    <3>2. n <= q
      BY <1>1, <3>1, NewerIsInFront
    <3>3. n = q
      BY <1>2, <1>4, <3>2
    <3> QED
      BY <3>1, <3>3
  <2>2. l[q].at < l[q].date + Granule
    BY <1>1 DEF Tidy
  <2>a. \A a, b, d \in Nat, g \in Nat, c \in Int :
          a <= b /\ b < d + g /\ d < c => c > 0 /\ a < c + g - 1
    OBVIOUS
  <2>b. l[q].date < cutoff
    OBVIOUS
  <2>3. cutoff > 0 /\ l[n].at < cutoff + Granule - 1
    BY <1>2, <2>1, <2>2, <2>a, <2>b
  <2> QED
    BY <2>3
<1> QED
  BY <1>3, <1>4

(* Behind an empty page there is nothing. *)
LEMMA FloorIsEmpty ==
  ASSUME NEW l \in Seq(Slots), NEW now \in Nat, Tidy(l, now), NEW p \in Nat \ {0},
         RowSlots(l, p) = {}, NEW n \in 1..Len(l), HasRow(l[n])
  PROVE  n <= (p - 1) * PageRows
<1> DEFINE a == (p - 1) * PageRows
           T == {m \in 1..Len(l) : a < m /\ HasRow(l[m])}
<1>1. /\ a \in Nat /\ PageRows \in Nat \ {0} /\ p * PageRows = a + PageRows
  BY Borders
<1>0. Len(l) \in Nat
  OBVIOUS
<1>2. \A m \in 1..Len(l) : HasRow(l[m]) /\ a < m => a + PageRows < m
  <2> SUFFICES ASSUME NEW m \in 1..Len(l), HasRow(l[m]), a < m, ~(a + PageRows < m) PROVE FALSE
    OBVIOUS
  <2>1. m <= p * PageRows
    <3> HIDE DEF a
    <3> QED
      BY <1>0, <1>1
  <2>2. m \in RowSlots(l, p)
    BY <2>1 DEF RowSlots
  <2> QED
    BY <2>2
<1> HIDE DEF a
<1> SUFFICES ASSUME a < n PROVE FALSE
  BY <1>0, <1>1 DEF a
<1>3. T \in SUBSET Nat /\ T # {}
  OBVIOUS
<1>4. PICK m \in T : \A y \in T : m <= y
  <2> HIDE DEF T
  <2> QED
    BY <1>3, HasLeast
<1>5. m \in 1..Len(l) /\ HasRow(l[m]) /\ a + PageRows < m
  BY <1>2, <1>4
<1>6. m > PageRows
  BY <1>1, <1>5
<1>7. PICK k \in (m - PageRows)..(m - 1) : HasRow(l[k])
  BY <1>5, <1>6 DEF Tidy
<1>8. k \in 1..Len(l) /\ a < k /\ k < m
  BY <1>0, <1>1, <1>5, <1>7
<1>9. k \in T
  BY <1>7, <1>8
<1> QED
  BY <1>1, <1>4, <1>5, <1>8, <1>9
-----------------------------------------------------------------------------
(* A new post on top. *)

LEMMA Shifted ==
  ASSUME NEW l \in Seq(Slots), NEW x \in Post
  PROVE  LET t == <<x>> \o l
         IN  /\ t \in Seq(Slots) /\ Len(l) \in Nat /\ Len(t) = Len(l) + 1 /\ t[1] = x
             /\ \A n \in 1..Len(t) : n # 1 => n - 1 \in 1..Len(l) /\ t[n] = l[n - 1]
             /\ \A n \in 1..Len(l) : n + 1 \in 1..Len(t) /\ t[n + 1] = l[n]
<1>1. x \in Slots
  BY DEF Slots
<1> QED
  BY <1>1

(* A place moves towards the rows that are behind it, never over one. *)
LEMMA CoversShifted ==
  ASSUME NEW l \in Seq(Slots), NEW x \in Post, NEW p \in Nat \ {0}, NEW k \in Nat,
         NEW X \in SUBSET Post, x \notin X, NEW S, Covers(l, p, k, X, S)
  PROVE  Covers(<<x>> \o l, p, k, X, S)
<1> DEFINE t == <<x>> \o l
           K == RowSlots(l, p)
           J == RowSlots(t, p)
<1> SUFFICES ASSUME NEW n \in Behind(t, p, k), t[n] \in X PROVE t[n] \in S
  BY DEF Covers
<1>1. /\ t \in Seq(Slots) /\ Len(l) \in Nat /\ Len(t) = Len(l) + 1 /\ t[1] = x
      /\ \A i \in 1..Len(t) : i # 1 => i - 1 \in 1..Len(l) /\ t[i] = l[i - 1]
      /\ \A i \in 1..Len(l) : i + 1 \in 1..Len(t) /\ t[i + 1] = l[i]
  BY Shifted
<1> HIDE DEF t
<1>2. n \in 1..Len(t) /\ n <= p * PageRows /\ Rank(J, n) <= k
  BY BehindIsRanked
<1>3. n - 1 \in 1..Len(l) /\ t[n] = l[n - 1] /\ n - 1 \in Nat /\ n \in Nat
  BY <1>1, <1>2
<1>4. p * PageRows \in Nat /\ (p - 1) * PageRows \in Nat
  BY Borders
<1>5. /\ K \in SUBSET (1..Len(l)) /\ J \in SUBSET (1..Len(t)) /\ Len(t) \in Nat
      /\ \A i \in K : l[i] \in Post /\ (p - 1) * PageRows < i /\ i <= p * PageRows
      /\ \A i \in 1..Len(t) : t[i] \in Post =>
           (i \in J <=> (p - 1) * PageRows < i /\ i <= p * PageRows)
  BY <1>1, RowIsSlot
<1> DEFINE A == {i \in K : i <= n - 1}
           B == {i \in J : i <= n}
           f == [i \in A |-> i + 1]
<1>6. \A i \in A : i + 1 \in B /\ i \in Nat
  <2> SUFFICES ASSUME NEW i \in K, i <= n - 1 PROVE i + 1 \in J /\ i + 1 <= n /\ i \in Nat
    OBVIOUS
  <2>1. i \in 1..Len(l) /\ i \in Nat /\ i + 1 \in 1..Len(t) /\ t[i + 1] = l[i] /\ t[i + 1] \in Post
    BY <1>1, <1>5
  <2>2. (p - 1) * PageRows < i + 1 /\ i + 1 <= n /\ i + 1 <= p * PageRows
    BY <1>2, <1>3, <1>4, <1>5, <2>1
  <2> QED
    BY <1>5, <2>1, <2>2
<1>7. IsFiniteSet(K) /\ IsFiniteSet(J)
  <2> HIDE DEF K, J
  <2> QED
    BY <1>1, <1>5, Ranks
<1>8. IsFiniteSet(A) /\ IsFiniteSet(B)
  <2>1. A \subseteq K /\ B \subseteq J
    OBVIOUS
  <2> HIDE DEF A, B, K, J
  <2> QED
    BY <1>7, <2>1, FS_Subset
<1> HIDE DEF A, B
<1>9. f \in Injection(A, B)
  BY <1>6 DEF Injection, IsInjective
<1>10. Cardinality(A) <= Cardinality(B) /\ Cardinality(A) \in Nat /\ Cardinality(B) \in Nat
  <2> HIDE DEF f
  <2>1. Cardinality(A) <= Cardinality(B)
    BY <1>8, <1>9, FS_Injection
  <2> QED
    BY <1>8, <2>1, FS_CardinalityType
<1>11. Rank(K, n - 1) = Cardinality(A) /\ Rank(J, n) = Cardinality(B)
  BY DEF Rank, A, B
<1>12. Rank(K, n - 1) <= k
  BY <1>2, <1>10, <1>11
<1>13. n - 1 \in Behind(l, p, k)
  <2>1. n - 1 <= p * PageRows
    BY <1>2, <1>3, <1>4
  <2> QED
    BY <1>3, <1>12, <2>1, BehindIsRanked
<1> QED
  BY <1>3, <1>13 DEF Covers

LEMMA CursorsLead ==
  ASSUME NEW c \in Cursors
  PROVE  FirstPage(c) \in Nat \ {0} /\ c[2] \in Nat
BY DEF Cursors, FirstPage, NoCursor

LEMMA WalkCoversShifted ==
  ASSUME NEW l \in Seq(Slots), NEW x \in Post, NEW w, WalkIsTyped(w),
         NEW X \in SUBSET Post, x \notin X, NEW S, WalkCovers(l, w, X, S)
  PROVE  WalkCovers(<<x>> \o l, w, X, S)
<1> DEFINE t == <<x>> \o l
<1>1. /\ Len(l) \in Nat /\ Len(t) = Len(l) + 1 /\ t[1] = x
      /\ \A i \in 1..Len(t) : i # 1 => i - 1 \in 1..Len(l) /\ t[i] = l[i - 1]
  BY Shifted
<1>2. /\ w.pc = "walk" => w.page \in Nat \ {0}
      /\ w.skip \in Nat /\ FirstPage(w.cursor) \in Nat \ {0} /\ w.cursor[2] \in Nat
  <2>1. w \in Walk /\ (w.pc = "walk" => w.page > 0)
    BY DEF WalkIsTyped
  <2>2. w.cursor \in Cursors /\ w.skip \in Nat /\ w.page \in Nat
    BY <2>1 DEF Walk
  <2>3. w.pc = "walk" => w.page \in Nat \ {0}
    BY <2>1, <2>2
  <2> QED
    BY <2>2, <2>3, CursorsLead
<1>3. ASSUME NEW n \in 1..Len(t), t[n] \in X
      PROVE  n - 1 \in 1..Len(l) /\ t[n] = l[n - 1]
  BY <1>1, <1>3
<1>4. w.pc = "walk" => Covers(t, w.page, w.skip, X, S \cup Posts(w))
  BY <1>2, CoversShifted DEF WalkCovers
<1>5. w.pc = "done" /\ w.more => CursorCovers(t, w.cursor, X, S \cup Posts(w))
  BY <1>2, CoversShifted DEF WalkCovers, CursorCovers
<1> HIDE DEF t
<1>6. w.pc = "done" /\ ~w.more =>
        \A n \in 1..Len(t) : t[n] \in X =>
          \/ t[n] \in S \cup Posts(w)
          \/ w.cutoff > 0 /\ t[n].at < w.cutoff + Granule - 1
  <2> SUFFICES ASSUME w.pc = "done", ~w.more, NEW n \in 1..Len(t), t[n] \in X
               PROVE  \/ t[n] \in S \cup Posts(w)
                      \/ w.cutoff > 0 /\ t[n].at < w.cutoff + Granule - 1
    OBVIOUS
  <2>1. n - 1 \in 1..Len(l) /\ t[n] = l[n - 1]
    BY <1>3
  <2> QED
    BY <2>1 DEF WalkCovers
<1>7. \A k \in 1..Len(w.posts), n \in 1..Len(t) :
        t[n] \in X /\ w.posts[k].at <= t[n].at => t[n] \in S \cup Front(w, k)
  <2> SUFFICES ASSUME NEW k \in 1..Len(w.posts), NEW n \in 1..Len(t),
                      t[n] \in X, w.posts[k].at <= t[n].at
               PROVE  t[n] \in S \cup Front(w, k)
    OBVIOUS
  <2>1. n - 1 \in 1..Len(l) /\ t[n] = l[n - 1]
    BY <1>3
  <2> QED
    BY <2>1 DEF WalkCovers
<1>8. WalkCovers(t, w, X, S)
  BY <1>4, <1>5, <1>6, <1>7 DEF WalkCovers
<1> QED
  BY <1>8 DEF t
LEMMA TidyShifted ==
  ASSUME NEW l \in Seq(Slots), NEW now \in Nat, Tidy(l, now), NEW x \in Post, x.at = now + 1,
         x.date # ZeroDate => x.at < x.date + Granule
  PROVE  Tidy(<<x>> \o l, now + 1)
<1> DEFINE t == <<x>> \o l
<1>1. /\ Len(l) \in Nat /\ Len(t) = Len(l) + 1 /\ t[1] = x
      /\ \A i \in 1..Len(t) : i # 1 => i - 1 \in 1..Len(l) /\ t[i] = l[i - 1]
      /\ \A i \in 1..Len(l) : i + 1 \in 1..Len(t) /\ t[i + 1] = l[i]
  BY Shifted
<1>2. Blank \notin Post /\ PageRows \in Nat \ {0}
  BY CrawlAssumption DEF Post
<1>3. HasRow(x)
  BY <1>2 DEF HasRow
<1>4. \A n \in 1..Len(l) : HasRow(l[n]) => l[n].at \in Nat
  BY DEF HasRow, Slots, Post
<1> HIDE DEF t
<1> SUFFICES ASSUME NEW n \in 1..Len(t), HasRow(t[n])
             PROVE  /\ t[n].at <= now + 1
                    /\ t[n].date # ZeroDate => t[n].at < t[n].date + Granule
                    /\ \A m \in 1..(n - 1) : HasRow(t[m]) => t[n].at < t[m].at
                    /\ n > PageRows => \E m \in (n - PageRows)..(n - 1) : HasRow(t[m])
  BY DEF Tidy, t
<1>5. CASE n = 1
  <2>1. t[n] = x /\ 1..(n - 1) = {} /\ ~(n > PageRows)
    BY <1>1, <1>2, <1>5
  <2> QED
    BY <2>1
<1>6. CASE n # 1
  <2>1. /\ n - 1 \in 1..Len(l) /\ t[n] = l[n - 1] /\ HasRow(l[n - 1])
        /\ l[n - 1].at <= now /\ l[n - 1].at \in Nat
        /\ l[n - 1].date # ZeroDate => l[n - 1].at < l[n - 1].date + Granule
        /\ \A m \in 1..((n - 1) - 1) : HasRow(l[m]) => l[n - 1].at < l[m].at
        /\ n - 1 > PageRows => \E m \in ((n - 1) - PageRows)..((n - 1) - 1) : HasRow(l[m])
    <3>1. n - 1 \in 1..Len(l) /\ t[n] = l[n - 1] /\ HasRow(l[n - 1])
      BY <1>1, <1>6
    <3>2. l[n - 1].at \in Nat
      BY <1>4, <3>1
    <3> DEFINE i == n - 1
    <3>3. i \in 1..Len(l) /\ HasRow(l[i])
      BY <3>1
    <3>4. /\ l[i].at <= now
          /\ l[i].date # ZeroDate => l[i].at < l[i].date + Granule
          /\ \A m \in 1..(i - 1) : HasRow(l[m]) => l[i].at < l[m].at
          /\ i > PageRows => \E m \in (i - PageRows)..(i - 1) : HasRow(l[m])
      <4> HIDE DEF i
      <4> QED
        BY <3>3 DEF Tidy
    <3> QED
      BY <3>1, <3>2, <3>4
  <2>2. t[n].at <= now + 1
    BY <2>1
  <2>3. ASSUME NEW m \in 1..(n - 1), HasRow(t[m]) PROVE t[n].at < t[m].at
    <3>1. CASE m = 1
      BY <1>1, <2>1, <3>1
    <3>2. CASE m # 1
      <4>1. m \in 1..Len(t) /\ m - 1 \in 1..((n - 1) - 1)
        BY <1>1, <3>2
      <4>2. t[m] = l[m - 1]
        BY <1>1, <3>2, <4>1
      <4> QED
        BY <2>1, <2>3, <4>1, <4>2
    <3> QED
      BY <3>1, <3>2
  <2>4. ASSUME n > PageRows PROVE \E m \in (n - PageRows)..(n - 1) : HasRow(t[m])
    <3>1. CASE n - 1 > PageRows
      <4>1. PICK m \in ((n - 1) - PageRows)..((n - 1) - 1) : HasRow(l[m])
        BY <2>1, <3>1
      <4>2. m \in 1..Len(l) /\ m + 1 \in (n - PageRows)..(n - 1)
        BY <1>1, <1>2, <2>1, <3>1, <4>1
      <4>3. HasRow(t[m + 1])
        BY <1>1, <4>1, <4>2
      <4> QED
        BY <4>2, <4>3
    <3>2. CASE ~(n - 1 > PageRows)
      <4>1. 1 \in (n - PageRows)..(n - 1)
        BY <1>1, <1>2, <1>6, <2>4, <3>2
      <4> QED
        BY <1>1, <1>3, <4>1
    <3> QED
      BY <3>1, <3>2
  <2> QED
    BY <2>1, <2>2, <2>3, <2>4
<1> QED
  BY <1>5, <1>6

LEMMA TidyLater ==
  ASSUME NEW l \in Seq(Slots), NEW now \in Nat, Tidy(l, now)
  PROVE  Tidy(l, now + 1)
<1>1. \A n \in 1..Len(l) : HasRow(l[n]) => l[n].at \in Nat
  BY DEF HasRow, Slots, Post
<1>2. \A n \in 1..Len(l) : HasRow(l[n]) => l[n].at <= now + 1
  BY <1>1 DEF Tidy
<1> QED
  BY <1>2 DEF Tidy

(* What the source does keeps the listing tidy, and every place where it was. *)
LEMMA SourceStep ==
  ASSUME CrawlTypeOK, Tidy(listing, clock), Publish \/ Tick
  PROVE  /\ Tidy(listing', clock') /\ UNCHANGED <<cache, failures, walk>>
         /\ \/ listing' = listing
            \/ \E x \in Post : listing' = <<x>> \o listing /\ x.at = clock + 1
<1>1. clock \in Nat /\ listing \in Seq(Slots)
  BY DEF CrawlTypeOK, Slots
<1>2. CASE Publish
  <2>1. PICK x \in Post : /\ listing' = <<x>> \o listing /\ x.at = clock + 1
                          /\ x.date # ZeroDate => x.at < x.date + Granule
    BY <1>2, PublishedPost
  <2>2. clock' = clock + 1 /\ UNCHANGED <<cache, failures, walk>>
    BY <1>2 DEF Publish
  <2>3. Tidy(<<x>> \o listing, clock + 1)
    BY <1>1, <2>1, TidyShifted
  <2> QED
    BY <2>1, <2>2, <2>3
<1>3. CASE Tick
  <2>1. clock' = clock + 1 /\ listing' = listing /\ UNCHANGED <<cache, failures, walk>>
    BY <1>3 DEF Tick
  <2>2. Tidy(listing, clock + 1)
    BY <1>1, TidyLater
  <2> QED
    BY <2>1, <2>2
<1> QED
  BY <1>2, <1>3
-----------------------------------------------------------------------------
(* One round of the loop. *)

LEMMA Joined ==
  ASSUME NEW s \in Seq(Post), NEW t \in Seq(Post), NEW k \in Nat, k <= Len(t)
  PROVE  LET u == s \o SubSeq(t, 1, k)
         IN  /\ Len(u) = Len(s) + k
             /\ \A i \in 1..Len(s) : u[i] = s[i]
             /\ \A i \in 1..k : u[Len(s) + i] = t[i]
<1> DEFINE v == SubSeq(t, 1, k)
<1>1. 1 \in Nat \ {0} /\ k \in Int /\ Len(s) \in Nat
  OBVIOUS
<1>2. /\ v \in Seq(Post) /\ Len(v) = IF k < 1 THEN 0 ELSE k - 1 + 1
      /\ \A i \in 1..Len(v) : v[i] = t[1 + i - 1]
  BY <1>1, PartOf
<1>3. Len(v) = k /\ \A i \in 1..k : v[i] = t[i]
  <2>1. Len(v) = k
    BY <1>2
  <2>2. ASSUME NEW i \in 1..k PROVE v[i] = t[i]
    <3>1. 1 + i - 1 = i
      OBVIOUS
    <3> QED
      BY <1>2, <2>1, <3>1
  <2> QED
    BY <2>1, <2>2
<1> HIDE DEF v
<1>4. /\ Len(s \o v) = Len(s) + Len(v)
      /\ \A i \in 1..Len(s) : (s \o v)[i] = s[i]
      /\ \A i \in 1..Len(v) : (s \o v)[Len(s) + i] = v[i]
  BY <1>1, <1>2
<1>5. /\ Len(s \o v) = Len(s) + k
      /\ \A i \in 1..Len(s) : (s \o v)[i] = s[i]
      /\ \A i \in 1..k : (s \o v)[Len(s) + i] = t[i]
  BY <1>3, <1>4
<1> QED
  BY <1>5 DEF v

LEMMA JoinedAll ==
  ASSUME NEW s \in Seq(Post), NEW t \in Seq(Post)
  PROVE  /\ Len(s \o t) = Len(s) + Len(t)
         /\ \A i \in 1..Len(s) : (s \o t)[i] = s[i]
         /\ \A i \in 1..Len(t) : (s \o t)[Len(s) + i] = t[i]
OBVIOUS

LEMMA RestOfPage ==
  ASSUME CrawlTypeOK, NEW rows \in Seq(Post)
  PROVE  /\ Start(rows) \in 0..Len(rows) /\ Rest(rows) \in Seq(Post)
         /\ Start(rows) + Len(Rest(rows)) = Len(rows)
         /\ \A i \in 1..Len(Rest(rows)) : Rest(rows)[i] = rows[Start(rows) + i]
<1> DEFINE a == Start(rows)
           t == SubSeq(rows, a + 1, Len(rows))
<1>1. Len(rows) \in Nat /\ walk.skip \in Nat
  BY DEF CrawlTypeOK, WalkIsTyped, Walk
<1>2. a \in Nat /\ a <= Len(rows)
  BY <1>1 DEF Start, Lesser
<1>3. Rest(rows) = t
  BY DEF Rest
<1> HIDE DEF a
<1>4. a + 1 \in Nat \ {0} /\ Len(rows) \in Int /\ Len(rows) <= Len(rows)
  BY <1>1, <1>2
<1>5. /\ t \in Seq(Post)
      /\ Len(t) = IF Len(rows) < a + 1 THEN 0 ELSE Len(rows) - (a + 1) + 1
      /\ \A k \in 1..Len(t) : t[k] = rows[(a + 1) + k - 1]
  BY <1>4, PartOf
<1>6. a + Len(t) = Len(rows)
  BY <1>1, <1>2, <1>5
<1>7. ASSUME NEW i \in 1..Len(t) PROVE t[i] = rows[a + i]
  <2>1. (a + 1) + i - 1 = a + i
    BY <1>2
  <2> QED
    BY <1>5, <2>1
<1> HIDE DEF t
<1>8. a \in 0..Len(rows)
  BY <1>1, <1>2
<1> QED
  BY <1>3, <1>5, <1>6, <1>7, <1>8 DEF a

(* What a round brings, and where it leaves the walk. *)
Outcome(rows, k) ==
  LET start == Start(rows)
      had   == Len(walk.posts)
  IN  /\ start + k <= Len(rows)
      /\ Len(walk'.posts) = had + k
      /\ \A i \in 1..had : walk'.posts[i] = walk.posts[i]
      /\ \A i \in 1..k : walk'.posts[had + i] = rows[start + i]
      /\ walk'.cutoff = walk.cutoff
      /\ \/ /\ walk'.pc = "done" /\ ~walk'.more
            /\ start + k < Len(rows) /\ OutOfWindow(rows[start + k + 1])
         \/ walk'.pc = "done" /\ ~walk'.more /\ rows = <<>>
         \/ /\ walk'.pc = "done" /\ walk'.more /\ k > 0
            /\ walk'.cursor = <<walk.page, start + k>>
         \/ /\ walk'.pc = "done" /\ walk'.more /\ start + k = Len(rows)
            /\ walk'.cursor = <<walk.page, 0>>
         \/ /\ walk'.pc = "walk" /\ start + k = Len(rows)
            /\ walk'.page = walk.page + 1 /\ walk'.skip = 0

LEMMA PageOutcome ==
  ASSUME CrawlTypeOK, walk.pc = "walk", NEW rows \in Seq(Post), UsePage(rows)
  PROVE  \E k \in Nat : Outcome(rows, k)
<1> DEFINE rest == Rest(rows)
           start == Start(rows)
           n == InWindow(rest)
<1>1. /\ walk.posts \in Seq(Post) /\ Len(walk.posts) < walk.size /\ walk.size \in Nat
      /\ Len(walk.posts) \in Nat /\ walk \in Walk /\ Len(rows) \in Nat
  BY DEF CrawlTypeOK, WalkIsTyped, Walk
<1>2. /\ start \in 0..Len(rows) /\ rest \in Seq(Post) /\ Len(rest) \in Nat
      /\ start + Len(rest) = Len(rows)
      /\ \A i \in 1..Len(rest) : rest[i] = rows[start + i]
  <2>1. /\ start \in 0..Len(rows) /\ rest \in Seq(Post)
        /\ start + Len(rest) = Len(rows)
        /\ \A i \in 1..Len(rest) : rest[i] = rows[start + i]
    BY RestOfPage
  <2> HIDE DEF rest, start
  <2> QED
    BY <2>1
<1>3. \/ rows = <<>> /\ EmptyPage
      \/ LookbackBoundary(rest, n) \/ MidPage(start, rest, n)
      \/ PageEnd(rest, n) \/ PageExhausted(rest, n)
  BY DEF UsePage
<1>4. n \in 0..Len(rest) /\ (n < Len(rest) => OutOfWindow(rest[n + 1]))
  <2> HIDE DEF rest
  <2> QED
    BY <1>2, InWindowIsPart
<1>5. Room \in Nat /\ Room > 0
  BY <1>1 DEF Room
<1>a. start = Start(rows)
  OBVIOUS
<1> HIDE DEF rest, start, n
<1>6. ASSUME NEW posts, NEW cursor, NEW more, Answer(posts, cursor, more)
      PROVE  /\ walk'.pc = "done" /\ walk'.posts = posts /\ walk'.cursor = cursor
             /\ walk'.more = more /\ walk'.cutoff = walk.cutoff
  BY <1>1, <1>6 DEF Answer, Walk
<1>7. ASSUME NEW posts, NEW empty, Advance(posts, empty)
      PROVE  /\ walk'.pc = "walk" /\ walk'.posts = posts /\ walk'.page = walk.page + 1
             /\ walk'.skip = 0 /\ walk'.cutoff = walk.cutoff
  BY <1>1, <1>7 DEF Advance, Walk
<1>8. CASE rows = <<>> /\ EmptyPage
  <2>0. Len(rows) = 0 /\ start = 0
    BY <1>2, <1>8
  <2>1. \/ Answer(walk.posts, NoCursor, FALSE)
        \/ Advance(walk.posts, walk.empty + 1)
    BY <1>8 DEF EmptyPage
  <2>2. /\ walk'.posts = walk.posts /\ walk'.cutoff = walk.cutoff
        /\ \/ walk'.pc = "done" /\ ~walk'.more
           \/ walk'.pc = "walk" /\ walk'.page = walk.page + 1 /\ walk'.skip = 0
    BY <1>6, <1>7, <2>1
  <2>3. 1..0 = {} /\ Len(walk.posts) + 0 = Len(walk.posts) /\ start + 0 = Len(rows)
        /\ start + 0 <= Len(rows)
    BY <1>1, <2>0
  <2>4. Outcome(rows, 0)
    BY <1>8, <1>a, <2>2, <2>3 DEF Outcome
  <2> QED
    BY <2>4
<1>9. ASSUME NEW k \in Nat, k <= Len(rest)
      PROVE  /\ start + k <= Len(rows)
             /\ Len(walk.posts \o SubSeq(rest, 1, k)) = Len(walk.posts) + k
             /\ \A i \in 1..Len(walk.posts) :
                  (walk.posts \o SubSeq(rest, 1, k))[i] = walk.posts[i]
             /\ \A i \in 1..k :
                  (walk.posts \o SubSeq(rest, 1, k))[Len(walk.posts) + i] = rows[start + i]
  <2>1. start + k <= Len(rows) /\ \A i \in 1..k : i \in 1..Len(rest)
    BY <1>2, <1>9
  <2> DEFINE u == walk.posts \o SubSeq(rest, 1, k)
  <2>2. /\ Len(u) = Len(walk.posts) + k
        /\ \A i \in 1..Len(walk.posts) : u[i] = walk.posts[i]
        /\ \A i \in 1..k : u[Len(walk.posts) + i] = rest[i]
    BY <1>1, <1>2, <1>9, Joined
  <2> HIDE DEF u
  <2>3. \A i \in 1..k : u[Len(walk.posts) + i] = rows[start + i]
    BY <1>2, <2>1, <2>2
  <2> QED
    BY <2>1, <2>2, <2>3 DEF u
<1>10. /\ Len(walk.posts \o rest) = Len(walk.posts) + Len(rest)
       /\ \A i \in 1..Len(walk.posts) : (walk.posts \o rest)[i] = walk.posts[i]
       /\ \A i \in 1..Len(rest) : (walk.posts \o rest)[Len(walk.posts) + i] = rows[start + i]
  <2>1. /\ Len(walk.posts \o rest) = Len(walk.posts) + Len(rest)
        /\ \A i \in 1..Len(walk.posts) : (walk.posts \o rest)[i] = walk.posts[i]
        /\ \A i \in 1..Len(rest) : (walk.posts \o rest)[Len(walk.posts) + i] = rest[i]
    BY <1>1, <1>2, JoinedAll
  <2> QED
    BY <1>2, <2>1
<1>11. CASE LookbackBoundary(rest, n)
  <2>1. n < Len(rest) /\ Answer(walk.posts \o SubSeq(rest, 1, n), NoCursor, FALSE)
    BY <1>11 DEF LookbackBoundary
  <2>2. n \in Nat /\ n <= Len(rest) /\ start + n < Len(rows) /\ n + 1 \in 1..Len(rest)
        /\ start + (n + 1) = start + n + 1
    BY <1>2, <1>4, <2>1
  <2>3. OutOfWindow(rows[start + n + 1])
    BY <1>2, <1>4, <2>1, <2>2
  <2>4. /\ walk'.pc = "done" /\ walk'.posts = walk.posts \o SubSeq(rest, 1, n)
        /\ ~walk'.more /\ walk'.cutoff = walk.cutoff
    BY <1>6, <2>1
  <2>5. Outcome(rows, n)
    BY <1>9, <1>a, <2>2, <2>3, <2>4 DEF Outcome
  <2> QED
    BY <2>2, <2>5
<1>12. CASE MidPage(start, rest, n)
  <2>1. Room < n /\ Answer(walk.posts \o SubSeq(rest, 1, Room), <<walk.page, start + Room>>, TRUE)
    BY <1>12 DEF MidPage
  <2>2. Room <= Len(rest)
    BY <1>2, <1>4, <1>5, <2>1
  <2>4. /\ walk'.pc = "done" /\ walk'.posts = walk.posts \o SubSeq(rest, 1, Room)
        /\ walk'.cursor = <<walk.page, start + Room>> /\ walk'.more /\ walk'.cutoff = walk.cutoff
    BY <1>6, <2>1
  <2> DEFINE r == Room
  <2>5. r \in Nat /\ r > 0 /\ r <= Len(rest)
    BY <1>5, <2>2
  <2>6. /\ walk'.pc = "done" /\ walk'.posts = walk.posts \o SubSeq(rest, 1, r)
        /\ walk'.cursor = <<walk.page, start + r>> /\ walk'.more /\ walk'.cutoff = walk.cutoff
    BY <2>4
  <2> HIDE DEF r
  <2>7. Outcome(rows, r)
    BY <1>9, <1>a, <2>5, <2>6 DEF Outcome
  <2> QED
    BY <2>5, <2>7
<1>13. CASE PageEnd(rest, n) \/ PageExhausted(rest, n)
  <2>1. \/ Answer(walk.posts \o rest, <<walk.page, 0>>, TRUE)
        \/ Advance(walk.posts \o rest, 0)
    BY <1>13 DEF PageEnd, PageExhausted
  <2>2. /\ walk'.posts = walk.posts \o rest /\ walk'.cutoff = walk.cutoff
        /\ \/ walk'.pc = "done" /\ walk'.more /\ walk'.cursor = <<walk.page, 0>>
           \/ walk'.pc = "walk" /\ walk'.page = walk.page + 1 /\ walk'.skip = 0
    BY <1>6, <1>7, <2>1
  <2> DEFINE r == Len(rest)
  <2>3. /\ r \in Nat /\ start + r = Len(rows) /\ start + r <= Len(rows)
    BY <1>1, <1>2
  <2>4. /\ Len(walk'.posts) = Len(walk.posts) + r
        /\ \A i \in 1..Len(walk.posts) : walk'.posts[i] = walk.posts[i]
        /\ \A i \in 1..r : walk'.posts[Len(walk.posts) + i] = rows[start + i]
    BY <1>10, <2>2
  <2> HIDE DEF r
  <2>5. Outcome(rows, r)
    BY <1>a, <2>2, <2>3, <2>4 DEF Outcome
  <2> QED
    BY <2>3, <2>5
<1> QED
  BY <1>3, <1>8, <1>11, <1>12, <1>13
(* A round uses the rows that it is served. *)
LEMMA FetchServes ==
  ASSUME CrawlTypeOK, FetchPage
  PROVE  /\ walk.pc = "walk" /\ walk.page \in Nat \ {0}
         /\ Fetched(walk.page) \in Seq(Post) /\ Rows(walk.page) \in Seq(Post)
         /\ UsePage(Fetched(walk.page)) /\ cache' = CacheAfter(walk.page)
         /\ listing' = listing /\ clock' = clock
<1>1. /\ walk.pc = "walk" /\ UsePage(Fetched(walk.page))
      /\ cache' = CacheAfter(walk.page) /\ clock' = clock /\ listing' = listing
  BY DEF FetchPage, Walked
<1>2. walk.page \in Nat \ {0}
  BY <1>1 DEF CrawlTypeOK, WalkIsTyped, Walk
<1> QED
  BY <1>1, <1>2, FetchedArePosts, RowsArePosts

(* Without a cache a round uses the page as it is listed now. *)
LEMMA FetchedNow ==
  ASSUME CrawlTypeOK, TTL = 0, cache = {}, FetchPage
  PROVE  /\ walk.pc = "walk" /\ walk.page \in Nat \ {0} /\ Rows(walk.page) \in Seq(Post)
         /\ UsePage(Rows(walk.page)) /\ cache' = {} /\ listing' = listing /\ clock' = clock
         /\ Fetched(walk.page) = Rows(walk.page)
<1>1. Fresh(walk.page) = {}
  BY DEF Fresh
<1>2. Fetched(walk.page) = Rows(walk.page) /\ CacheAfter(walk.page) = {}
  BY <1>1 DEF Fetched, CacheAfter
<1> QED
  BY <1>2, FetchServes

LEMMA RowAt ==
  ASSUME CrawlTypeOK, NEW p \in Nat \ {0}
  PROVE  LET K == RowSlots(listing, p)
         IN  /\ Len(Rows(p)) = Cardinality(K) /\ Cardinality(K) \in Nat
             /\ \A n \in K : Rank(K, n) \in 1..Cardinality(K) /\ Rows(p)[Rank(K, n)] = listing[n]
             /\ \A i \in 1..Len(Rows(p)) :
                  \E n \in K : Rank(K, n) = i /\ Rows(p)[i] = listing[n]
<1> DEFINE K == RowSlots(listing, p)
<1>1. listing \in Seq(Slots)
  BY DEF CrawlTypeOK, Slots
<1>2. K \in SUBSET (1..Len(listing)) /\ Len(listing) \in Nat
  BY <1>1, RowIsSlot
<1>3. Rows(p) = Subsequence(listing, K)
  BY DEF Rows
<1> HIDE DEF K
<1>4. /\ Len(Subsequence(listing, K)) = Cardinality(K)
      /\ \A n \in K : /\ Rank(K, n) \in 1..Cardinality(K)
                      /\ Subsequence(listing, K)[Rank(K, n)] = listing[n]
      /\ \A i \in 1..Cardinality(K) : \E n \in K : Rank(K, n) = i
  BY <1>1, <1>2, SubsequenceAt
<1>5. Cardinality(K) \in Nat
  BY <1>2, Ranks
<1> QED
  BY <1>3, <1>4, <1>5 DEF K

(* A walk passes nothing: what it promises of the places behind it, of the   *)
(* order of its posts and of its end holds after the round.                  *)
LEMMA FetchCovers ==
  ASSUME CrawlTypeOK, Fetched(walk.page) = Rows(walk.page), Tidy(listing, clock), FetchPage,
         NEW X \in SUBSET Post, NEW S, WalkCovers(listing, walk, X, S)
  PROVE  WalkCovers(listing, walk', X, S)
<1> DEFINE p == walk.page
           K == RowSlots(listing, p)
           rows == Rows(p)
           start == Start(rows)
           had == Len(walk.posts)
<1>1. /\ walk.pc = "walk" /\ p \in Nat \ {0} /\ rows \in Seq(Post) /\ UsePage(rows)
  BY FetchServes
<1>2. PICK k \in Nat : Outcome(rows, k)
  BY <1>1, PageOutcome
<1>3. /\ start + k <= Len(rows) /\ Len(walk'.posts) = had + k
      /\ \A i \in 1..had : walk'.posts[i] = walk.posts[i]
      /\ \A i \in 1..k : walk'.posts[had + i] = rows[start + i]
      /\ walk'.cutoff = walk.cutoff
      /\ \/ /\ walk'.pc = "done" /\ ~walk'.more
            /\ start + k < Len(rows) /\ OutOfWindow(rows[start + k + 1])
         \/ walk'.pc = "done" /\ ~walk'.more /\ rows = <<>>
         \/ /\ walk'.pc = "done" /\ walk'.more /\ k > 0
            /\ walk'.cursor = <<p, start + k>>
         \/ /\ walk'.pc = "done" /\ walk'.more /\ start + k = Len(rows)
            /\ walk'.cursor = <<p, 0>>
         \/ /\ walk'.pc = "walk" /\ start + k = Len(rows)
            /\ walk'.page = p + 1 /\ walk'.skip = 0
  BY <1>2 DEF Outcome
<1>4. /\ Len(rows) = Cardinality(K) /\ Cardinality(K) \in Nat
      /\ \A n \in K : Rank(K, n) \in 1..Cardinality(K) /\ rows[Rank(K, n)] = listing[n]
      /\ \A i \in 1..Len(rows) : \E n \in K : Rank(K, n) = i /\ rows[i] = listing[n]
  BY <1>1, RowAt
<1>5. /\ walk.skip \in Nat /\ walk.posts \in Seq(Post) /\ had \in Nat /\ walk.cutoff \in Int
      /\ listing \in Seq(Slots) /\ clock \in Nat
  BY DEF CrawlTypeOK, WalkIsTyped, Walk, Slots
<1>6. start = Lesser(walk.skip, Cardinality(K)) /\ start \in Nat
  <2>1. start = Lesser(walk.skip, Len(rows))
    BY DEF Start
  <2> HIDE DEF K, rows, start
  <2> QED
    BY <1>4, <1>5, <2>1 DEF Lesser
<1>7. Covers(listing, p, walk.skip, X, S \cup Posts(walk))
  BY <1>1 DEF WalkCovers
<1> HIDE DEF rows, start
<1>8. ASSUME NEW i \in 0..k
      PROVE  Covers(listing, p, start + i, X, S \cup Front(walk', had + i))
  <2> DEFINE T == S \cup Front(walk', had + i)
  <2>1. start + i \in Nat /\ i \in Nat
    BY <1>6
  <2>2. S \cup Posts(walk) \subseteq T
    <3>1. \A h \in 1..had : h \in 1..(had + i) /\ walk'.posts[h] = walk.posts[h]
      BY <1>3, <1>5, <2>1
    <3>2. Posts(walk) = {walk.posts[h] : h \in 1..had}
      BY DEF Posts, Front
    <3>3. Front(walk', had + i) = {walk'.posts[h] : h \in 1..(had + i)}
      BY DEF Front
    <3> HIDE DEF had
    <3> QED
      BY <3>1, <3>2, <3>3
  <2>3. ASSUME NEW n \in K, Lesser(walk.skip, Cardinality(K)) < Rank(K, n), Rank(K, n) <= start + i
        PROVE  listing[n] \in T
    <3> DEFINE h == Rank(K, n) - start
    <3>1. Rank(K, n) \in Nat
      BY <1>4
    <3>2. h \in 1..i /\ h \in 1..k /\ start + h = Rank(K, n)
      <4> HIDE DEF K
      <4> QED
        BY <1>6, <2>1, <2>3, <3>1
    <3>3. walk'.posts[had + h] = listing[n]
      <4>1. walk'.posts[had + h] = rows[start + h]
        BY <1>3, <3>2
      <4> QED
        BY <1>4, <3>2, <4>1
    <3>4. had + h \in 1..(had + i)
      BY <1>5, <2>1, <3>2
    <3> HIDE DEF h, had
    <3> QED
      BY <3>3, <3>4 DEF Front
  <2>4. /\ p \in Nat \ {0} /\ walk.skip \in Nat /\ listing \in Seq(Slots)
        /\ Covers(listing, p, walk.skip, X, S \cup Posts(walk))
    BY <1>1, <1>5, <1>7
  <2> HIDE DEF T, p
  <2>5. Covers(listing, p, start + i, X, T)
    BY <2>1, <2>2, <2>3, <2>4, PagePart DEF K
  <2> QED
    BY <2>5 DEF T
<1>9. Front(walk', had + k) = Posts(walk')
  BY <1>3 DEF Posts
<1>10. Covers(listing, p, start + k, X, S \cup Posts(walk'))
  <2>1. k \in 0..k
    OBVIOUS
  <2> QED
    BY <1>8, <1>9, <2>1
<1>11. start + k = Len(rows) => Covers(listing, p + 1, 0, X, S \cup Posts(walk'))
  <2> SUFFICES ASSUME start + k = Len(rows)
               PROVE  Covers(listing, p + 1, 0, X, S \cup Posts(walk'))
    OBVIOUS
  <2>1. Cardinality(RowSlots(listing, p)) <= start + k /\ start + k \in Nat
    BY <1>4, <1>6
  <2> HIDE DEF p
  <2> QED
    BY <1>1, <1>5, <1>10, <2>1, PageTurn
<1>12. walk'.pc = "walk" => Covers(listing, walk'.page, walk'.skip, X, S \cup Posts(walk'))
  BY <1>3, <1>11
<1>13. walk'.pc = "done" /\ walk'.more => CursorCovers(listing, walk'.cursor, X, S \cup Posts(walk'))
  <2>1. ASSUME k > 0, walk'.cursor = <<p, start + k>>
        PROVE  CursorCovers(listing, walk'.cursor, X, S \cup Posts(walk'))
    <3>1. start + k # 0
      BY <1>6, <2>1
    <3>2. FirstPage(walk'.cursor) = p /\ walk'.cursor[2] = start + k
      BY <2>1, <3>1 DEF FirstPage
    <3> QED
      BY <1>10, <3>2 DEF CursorCovers
  <2>2. ASSUME start + k = Len(rows), walk'.cursor = <<p, 0>>
        PROVE  CursorCovers(listing, walk'.cursor, X, S \cup Posts(walk'))
    <3>1. FirstPage(walk'.cursor) = p + 1 /\ walk'.cursor[2] = 0
      BY <2>2 DEF FirstPage
    <3> QED
      BY <1>11, <2>2, <3>1 DEF CursorCovers
  <2> QED
    BY <1>3, <2>1, <2>2
<1>14. ASSUME walk'.pc = "done", ~walk'.more, NEW n \in 1..Len(listing), listing[n] \in X
       PROVE  \/ listing[n] \in S \cup Posts(walk')
              \/ walk'.cutoff > 0 /\ listing[n].at < walk'.cutoff + Granule - 1
  <2>1. CASE start + k < Len(rows) /\ OutOfWindow(rows[start + k + 1])
    <3>1. start + k + 1 \in 1..Len(rows) /\ start + k \in Nat
      BY <1>4, <1>6, <2>1
    <3>2. PICK q \in K : Rank(K, q) = start + k + 1 /\ rows[start + k + 1] = listing[q]
      BY <1>4, <3>1
    <3>3. listing[q].date # ZeroDate /\ listing[q].date < walk.cutoff
      BY <2>1, <3>2 DEF OutOfWindow
    <3> HIDE DEF p
    <3>4. \/ listing[n] \in S \cup Posts(walk')
          \/ walk.cutoff > 0 /\ listing[n].at < walk.cutoff + Granule - 1
      BY <1>1, <1>5, <1>10, <1>14, <3>1, <3>2, <3>3, BoundaryIsOld DEF K
    <3> QED
      BY <1>3, <3>4
  <2>2. CASE rows = <<>>
    <3>1. Cardinality(K) = 0 /\ IsFiniteSet(K)
      <4>1. K \in SUBSET (1..Len(listing)) /\ Len(listing) \in Nat
        BY <1>1, <1>5, RowIsSlot
      <4> HIDE DEF K
      <4> QED
        BY <1>4, <2>2, <4>1, Ranks
    <3>2. K = {}
      <4> HIDE DEF K
      <4> QED
        BY <3>1, FS_EmptySet
    <3>3. HasRow(listing[n])
      BY <1>14, CrawlAssumption DEF HasRow, Post
    <3>4. n <= (p - 1) * PageRows
      BY <1>1, <1>5, <3>2, <3>3, FloorIsEmpty
    <3>5. n \in Nat /\ n <= p * PageRows /\ Rank(K, n) = 0
      <4>1. n \in Nat
        BY <1>5
      <4>2. Rank(K, n) = 0
        BY <1>1, <1>5, <3>4, <4>1, RankInFront
      <4>3. /\ PageRows \in Nat /\ p * PageRows \in Nat /\ (p - 1) * PageRows \in Nat
            /\ p * PageRows = (p - 1) * PageRows + PageRows
        BY <1>1, Borders
      <4>4. n <= p * PageRows
        BY <3>4, <4>1, <4>3
      <4> QED
        BY <4>1, <4>2, <4>4
    <3>6. n \in Behind(listing, p, start + k)
      <4>1. Rank(K, n) <= start + k
        BY <1>6, <3>5
      <4> QED
        BY <3>5, <4>1, BehindIsRanked
    <3> QED
      BY <1>10, <1>14, <3>6 DEF Covers
  <2> QED
    BY <1>3, <1>14, <2>1, <2>2
<1>15. ASSUME NEW h \in 1..Len(walk'.posts), NEW n \in 1..Len(listing), listing[n] \in X,
              walk'.posts[h].at <= listing[n].at
       PROVE  listing[n] \in S \cup Front(walk', h)
  <2>1. CASE h \in 1..had
    <3>1. walk'.posts[h] = walk.posts[h]
      BY <1>3, <2>1
    <3>2. listing[n] \in S \cup Front(walk, h)
      BY <1>15, <2>1, <3>1 DEF WalkCovers
    <3>a. \A i \in 1..h : i \in 1..had
      BY <1>5, <2>1
    <3>3. \A i \in 1..h : walk'.posts[i] = walk.posts[i]
      BY <1>3, <3>a
    <3>4. Front(walk', h) = Front(walk, h)
      BY <3>3 DEF Front
    <3> QED
      BY <3>2, <3>4
  <2>2. CASE h \notin 1..had
    <3> DEFINE i == h - had
    <3>1. i \in 1..k /\ i \in 0..k /\ had + i = h
      BY <1>3, <1>5, <2>2
    <3>2. walk'.posts[h] = rows[start + i] /\ start + i \in 1..Len(rows)
      <4>1. walk'.posts[had + i] = rows[start + i]
        BY <1>3, <3>1
      <4>2. start + i \in 1..Len(rows)
        <5> HIDE DEF i, had
        <5> QED
          BY <1>3, <1>4, <1>6, <3>1
      <4> QED
        BY <3>1, <4>1, <4>2
    <3> HIDE DEF i
    <3>3. PICK q \in K : Rank(K, q) = start + i /\ rows[start + i] = listing[q]
      BY <1>4, <3>2
    <3>4. Covers(listing, p, start + i, X, S \cup Front(walk', h))
      BY <1>8, <3>1
    <3>5. listing[q].at <= listing[n].at
      BY <1>15, <3>2, <3>3
    <3> HIDE DEF p
    <3>6. Covers(listing, p, Rank(RowSlots(listing, p), q), X, S \cup Front(walk', h))
      BY <3>3, <3>4 DEF K
    <3>7. q \in RowSlots(listing, p) /\ listing[n] \in X
      BY <1>15, <3>3 DEF K
    <3> QED
      BY <1>1, <1>5, <3>5, <3>6, <3>7, CoversNewer
  <2> QED
    BY <2>1, <2>2
<1> QED
  BY <1>12, <1>13, <1>14, <1>15 DEF WalkCovers
(* What a round adds was served. *)
LEMMA FetchBrings ==
  ASSUME CrawlTypeOK, FetchPage, NEW h \in 1..Len(walk'.posts)
  PROVE  \/ h \in 1..Len(walk.posts) /\ walk'.posts[h] = walk.posts[h]
         \/ \E i \in 1..Len(Fetched(walk.page)) : walk'.posts[h] = Fetched(walk.page)[i]
<1> DEFINE rows == Fetched(walk.page)
           had == Len(walk.posts)
<1>1. walk.pc = "walk" /\ rows \in Seq(Post) /\ UsePage(rows)
  BY FetchServes
<1>2. PICK k \in Nat : Outcome(rows, k)
  BY <1>1, PageOutcome
<1>3. /\ Start(rows) + k <= Len(rows) /\ Len(walk'.posts) = had + k
      /\ \A i \in 1..had : walk'.posts[i] = walk.posts[i]
      /\ \A i \in 1..k : walk'.posts[had + i] = rows[Start(rows) + i]
  BY <1>2 DEF Outcome
<1>4. had \in Nat /\ Start(rows) \in 0..Len(rows)
  BY <1>1, RestOfPage DEF CrawlTypeOK, WalkIsTyped, Walk
<1>5. CASE h \in 1..had
  BY <1>3, <1>5
<1>6. CASE h \notin 1..had
  <2> DEFINE i == h - had
  <2>1. i \in 1..k /\ had + i = h
    BY <1>3, <1>4, <1>6
  <2>2. walk'.posts[h] = rows[Start(rows) + i]
    BY <1>3, <2>1
  <2>3. Start(rows) + i \in 1..Len(rows)
    <3>1. Len(rows) \in Nat
      BY <1>1
    <3> HIDE DEF rows, i
    <3> QED
      BY <1>3, <1>4, <2>1, <3>1
  <2> QED
    BY <2>2, <2>3
<1> QED
  BY <1>5, <1>6

(* In a tidy listing a post is in one place. *)
LEMMA OnePlace ==
  ASSUME NEW l \in Seq(Slots), NEW now \in Nat, Tidy(l, now),
         NEW m \in 1..Len(l), NEW n \in 1..Len(l), l[m] = l[n], l[m] \in Post
  PROVE  m = n
<1>1. l[m].at <= l[n].at /\ l[n].at <= l[m].at /\ l[n] \in Post
  BY DEF Post
<1>2. n <= m /\ m <= n
  BY <1>1, NewerIsInFront
<1> QED
  BY <1>2

LEMMA WithinTurn ==
  ASSUME NEW l \in Seq(Slots), NEW p \in Nat \ {0}, NEW k \in Nat, NEW S, Within(l, p, k, S)
  PROVE  Within(l, p + 1, 0, S)
<1> SUFFICES ASSUME NEW n \in Behind(l, p, k) PROVE n \in Behind(l, p + 1, 0)
  BY DEF Within
<1>1. n \in 1..Len(l) /\ n <= p * PageRows /\ n \in Nat
  <2>1. n \in 1..Len(l) /\ n <= p * PageRows
    BY BehindIsRanked
  <2> QED
    BY <2>1
<1>2. /\ PageRows \in Nat /\ p * PageRows \in Nat /\ (p + 1) * PageRows = p * PageRows + PageRows
  BY Borders
<1>3. p + 1 \in Nat \ {0} /\ n <= ((p + 1) - 1) * PageRows /\ n <= (p + 1) * PageRows
  <2>1. p + 1 \in Nat \ {0} /\ (p + 1) - 1 = p
    OBVIOUS
  <2>2. n <= (p + 1) * PageRows
    BY <1>1, <1>2
  <2> QED
    BY <1>1, <2>1, <2>2
<1>4. Rank(RowSlots(l, p + 1), n) = 0
  BY <1>1, <1>3, RankInFront
<1>5. Rank(RowSlots(l, p + 1), n) <= 0
  BY <1>4
<1> QED
  BY <1>1, <1>3, <1>5, BehindIsRanked

Distinct(s) == \A m, n \in 1..Len(s) : s[m] = s[n] => m = n

(* A round brings nothing from behind the place of the walk. *)
LEMMA FetchRepeatsNothing ==
  ASSUME CrawlTypeOK, TTL = 0, cache = {}, Tidy(listing, clock), FetchPage, NEW G,
         Within(listing, walk.page, walk.skip, G \cup Posts(walk)),
         Posts(walk) \cap G = {}, Distinct(walk.posts)
  PROVE  /\ walk'.pc = "walk" =>
              Within(listing, walk'.page, walk'.skip, G \cup Posts(walk'))
         /\ walk'.pc = "done" /\ walk'.more =>
              Within(listing, FirstPage(walk'.cursor), walk'.cursor[2], G \cup Posts(walk'))
         /\ Posts(walk') \cap G = {} /\ Distinct(walk'.posts)
<1> DEFINE p == walk.page
           K == RowSlots(listing, p)
           rows == Rows(p)
           start == Start(rows)
           had == Len(walk.posts)
           G0 == G \cup Posts(walk)
<1>1. /\ walk.pc = "walk" /\ p \in Nat \ {0} /\ rows \in Seq(Post) /\ UsePage(rows)
  BY FetchedNow
<1>2. PICK k \in Nat : Outcome(rows, k)
  BY <1>1, PageOutcome
<1>3. /\ start + k <= Len(rows) /\ Len(walk'.posts) = had + k
      /\ \A i \in 1..had : walk'.posts[i] = walk.posts[i]
      /\ \A i \in 1..k : walk'.posts[had + i] = rows[start + i]
      /\ walk'.pc = "walk" =>
           start + k = Len(rows) /\ walk'.page = p + 1 /\ walk'.skip = 0
      /\ walk'.pc = "done" /\ walk'.more =>
           \/ k > 0 /\ walk'.cursor = <<p, start + k>>
           \/ start + k = Len(rows) /\ walk'.cursor = <<p, 0>>
  BY <1>2 DEF Outcome
<1>4. /\ Len(rows) = Cardinality(K) /\ Cardinality(K) \in Nat
      /\ \A i \in 1..Len(rows) : \E n \in K : Rank(K, n) = i /\ rows[i] = listing[n]
  BY <1>1, RowAt
<1>5. /\ walk.skip \in Nat /\ walk.posts \in Seq(Post) /\ had \in Nat
      /\ listing \in Seq(Slots) /\ clock \in Nat
  BY DEF CrawlTypeOK, WalkIsTyped, Walk, Slots
<1>6. start = Lesser(walk.skip, Cardinality(K)) /\ start \in Nat
  <2>1. start = Lesser(walk.skip, Len(rows))
    BY DEF Start
  <2> HIDE DEF K, rows, start
  <2> QED
    BY <1>4, <1>5, <2>1 DEF Lesser
<1>7. \A n \in K : n \in 1..Len(listing) /\ listing[n] \in Post /\ n <= p * PageRows
  BY <1>1, <1>5, RowIsSlot
<1> HIDE DEF rows, start
<1>8. ASSUME NEW x \in G0
      PROVE  \E n \in 1..Len(listing) : /\ listing[n] = x /\ n <= p * PageRows
                                        /\ Rank(K, n) <= start
  <2>1. PICK n \in Behind(listing, p, walk.skip) : listing[n] = x
    BY DEF Within
  <2> HIDE DEF p
  <2>2. n \in Behind(listing, p, start)
    BY <1>1, <1>5, <1>6, BehindAll DEF K
  <2>3. n \in 1..Len(listing) /\ n <= p * PageRows /\ Rank(K, n) <= start
    BY <2>2, BehindIsRanked DEF K
  <2> QED
    BY <2>1, <2>3
<1>9. ASSUME NEW i \in 1..k
      PROVE  \E q \in K : walk'.posts[had + i] = listing[q] /\ Rank(K, q) = start + i
  <2>1. start + i \in 1..Len(rows)
    BY <1>3, <1>4, <1>6
  <2> QED
    BY <1>3, <1>4, <2>1
<1>10. ASSUME NEW i \in 1..k PROVE walk'.posts[had + i] \notin G0
  <2> SUFFICES ASSUME walk'.posts[had + i] \in G0 PROVE FALSE
    OBVIOUS
  <2>1. PICK q \in K : walk'.posts[had + i] = listing[q] /\ Rank(K, q) = start + i
    BY <1>9
  <2>2. PICK n \in 1..Len(listing) : listing[n] = listing[q] /\ Rank(K, n) <= start
    BY <1>8, <2>1
  <2>3. n = q
    BY <1>5, <1>7, <2>2, OnePlace
  <2> HIDE DEF K
  <2> QED
    BY <1>6, <2>1, <2>2, <2>3
<1>11. ASSUME NEW h \in 1..(had + k)
       PROVE  \/ h \in 1..had /\ walk'.posts[h] = walk.posts[h] /\ walk.posts[h] \in Posts(walk)
              \/ \E i \in 1..k : h = had + i
  <2>1. CASE h \in 1..had
    <3>1. walk.posts[h] \in Posts(walk)
      BY <2>1 DEF Posts, Front
    <3> QED
      BY <1>3, <2>1, <3>1
  <2>2. CASE h \notin 1..had
    <3>1. h - had \in 1..k /\ h = had + (h - had)
      BY <1>5, <2>2
    <3> QED
      BY <3>1
  <2> QED
    BY <2>1, <2>2
<1>12. Posts(walk') = {walk'.posts[h] : h \in 1..(had + k)}
  BY <1>3 DEF Posts, Front
<1>13. Within(listing, p, start + k, G \cup Posts(walk'))
  <2> SUFFICES ASSUME NEW x \in G \cup Posts(walk')
               PROVE  \E n \in Behind(listing, p, start + k) : listing[n] = x
    BY DEF Within
  <2>1. x \in G0 \/ \E i \in 1..k : x = walk'.posts[had + i]
    BY <1>11, <1>12
  <2>2. CASE x \in G0
    <3>1. PICK n \in 1..Len(listing) : /\ listing[n] = x /\ n <= p * PageRows
                                       /\ Rank(K, n) <= start
      BY <1>8, <2>2
    <3>2. Rank(K, n) \in Nat
      <4>1. K \in SUBSET (1..Len(listing)) /\ Len(listing) \in Nat /\ n \in Nat
        BY <1>5, <1>7
      <4> HIDE DEF K
      <4>2. Rank(K, n) \in 0..Cardinality(K)
        BY <4>1, Ranks
      <4> QED
        BY <4>2
    <3>3. Rank(K, n) <= start + k
      <4> HIDE DEF K
      <4> QED
        BY <1>6, <3>1, <3>2
    <3>4. n \in Behind(listing, p, start + k)
      BY <3>1, <3>3, BehindIsRanked
    <3> QED
      BY <3>1, <3>4
  <2>3. CASE \E i \in 1..k : x = walk'.posts[had + i]
    <3>1. PICK i \in 1..k : x = walk'.posts[had + i]
      BY <2>3
    <3>2. PICK q \in K : walk'.posts[had + i] = listing[q] /\ Rank(K, q) = start + i
      BY <1>9
    <3>3. Rank(K, q) <= start + k
      <4> HIDE DEF K
      <4> QED
        BY <1>6, <3>2
    <3>4. q \in Behind(listing, p, start + k)
      BY <1>7, <3>3, BehindIsRanked
    <3> QED
      BY <3>1, <3>2, <3>4
  <2> QED
    BY <2>1, <2>2, <2>3
<1>14. Within(listing, p + 1, 0, G \cup Posts(walk'))
  <2>1. start + k \in Nat
    BY <1>6
  <2> HIDE DEF p
  <2> QED
    BY <1>1, <1>5, <1>13, <2>1, WithinTurn
<1>15. walk'.pc = "done" /\ walk'.more =>
         Within(listing, FirstPage(walk'.cursor), walk'.cursor[2], G \cup Posts(walk'))
  <2>1. ASSUME k > 0, walk'.cursor = <<p, start + k>>
        PROVE  FirstPage(walk'.cursor) = p /\ walk'.cursor[2] = start + k
    <3>1. start + k # 0
      BY <1>6, <2>1
    <3> QED
      BY <2>1, <3>1 DEF FirstPage
  <2>2. ASSUME walk'.cursor = <<p, 0>>
        PROVE  FirstPage(walk'.cursor) = p + 1 /\ walk'.cursor[2] = 0
    BY <2>2 DEF FirstPage
  <2> QED
    BY <1>3, <1>13, <1>14, <2>1, <2>2
<1>16. Posts(walk') \cap G = {}
  <2> SUFFICES ASSUME NEW x \in Posts(walk'), x \in G PROVE FALSE
    OBVIOUS
  <2>1. x \in Posts(walk) \/ \E i \in 1..k : x = walk'.posts[had + i]
    BY <1>11, <1>12
  <2> QED
    BY <1>10, <2>1
<1>17. Distinct(walk'.posts)
  <2> SUFFICES ASSUME NEW m \in 1..(had + k), NEW n \in 1..(had + k),
                      walk'.posts[m] = walk'.posts[n]
               PROVE  m = n
    BY <1>3 DEF Distinct
  <2>1. CASE m \in 1..had /\ n \in 1..had
    BY <1>3, <2>1 DEF Distinct
  <2>2. CASE m \in 1..had /\ n \notin 1..had
    <3>1. PICK i \in 1..k : n = had + i
      BY <1>11, <2>2
    <3>2. walk'.posts[m] \in Posts(walk)
      BY <1>3, <2>2 DEF Posts, Front
    <3> QED
      BY <1>10, <3>1, <3>2
  <2>3. CASE m \notin 1..had /\ n \in 1..had
    <3>1. PICK i \in 1..k : m = had + i
      BY <1>11, <2>3
    <3>2. walk'.posts[n] \in Posts(walk)
      BY <1>3, <2>3 DEF Posts, Front
    <3> QED
      BY <1>10, <3>1, <3>2
  <2>4. CASE m \notin 1..had /\ n \notin 1..had
    <3>1. PICK i \in 1..k : m = had + i
      BY <1>11, <2>4
    <3>2. PICK j \in 1..k : n = had + j
      BY <1>11, <2>4
    <3>3. PICK q \in K : walk'.posts[m] = listing[q] /\ Rank(K, q) = start + i
      BY <1>9, <3>1
    <3>4. PICK r \in K : walk'.posts[n] = listing[r] /\ Rank(K, r) = start + j
      BY <1>9, <3>2
    <3>5. q = r
      BY <1>5, <1>7, <3>3, <3>4, OnePlace
    <3>6. start + i = start + j
      BY <3>3, <3>4, <3>5
    <3>7. i = j
      BY <1>6, <3>6
    <3> QED
      BY <3>1, <3>2, <3>7
  <2> QED
    BY <2>1, <2>2, <2>3, <2>4
<1> QED
  BY <1>3, <1>14, <1>15, <1>16, <1>17
-----------------------------------------------------------------------------
(* The backfill loop. *)

LEMMA LookbackParsed ==
  ASSUME NEW l \in Lookbacks
  PROVE  /\ Meant(l) \in Int /\ ParseLookback(l) \in Int
         /\ ~Malformed(l) /\ Meant(l) < 2 * SpanHalf /\ ParseLookback(l) > 0
              => ParseLookback(l) = Meant(l)
<1> DEFINE M == Meant(l)
           H == SpanHalf
<1>1. l \in [weeks: Nat, days: Nat, rest: Int] /\ Week \in Nat /\ Day \in Nat /\ H \in Nat \ {0}
  BY BackfillAssumption
<1>2. \A a, b \in Nat : a * b \in Nat
  OBVIOUS
<1>3. l.weeks * Week \in Nat /\ l.days * Day \in Nat /\ l.rest \in Int
  BY <1>1, <1>2
<1>4. M \in Int /\ (~Malformed(l) => M >= 0)
  BY <1>3 DEF Meant, Malformed
<1>5. ParseLookback(l) = ((M + H) % (2 * H)) - H
  BY DEF ParseLookback
<1> HIDE DEF M, H
<1>6. 2 * H \in Nat \ {0} /\ (M + H) % (2 * H) \in 0..(2 * H - 1)
  <2>1. 2 * H \in Nat \ {0} /\ M + H \in Int
    BY <1>1, <1>4
  <2>2. \A a \in Int, b \in Nat \ {0} : a % b \in 0..(b - 1)
    OBVIOUS
  <2> QED
    BY <2>1, <2>2
<1>7. ParseLookback(l) \in Int
  BY <1>1, <1>5, <1>6
<1>8. ASSUME M >= 0, M < 2 * H, ParseLookback(l) > 0 PROVE ParseLookback(l) = M
  <2>1. CASE M < H
    <3>1. M + H \in Nat /\ M + H < 2 * H
      BY <1>1, <1>4, <1>8, <2>1
    <3>2. \A a \in Nat, b \in Nat \ {0} : a < b => a % b = a
      OBVIOUS
    <3>3. (M + H) % (2 * H) = M + H
      BY <1>6, <3>1, <3>2
    <3> QED
      BY <1>1, <1>4, <1>5, <3>3
  <2>2. CASE M >= H
    <3>1. M + H \in Nat /\ 2 * H <= M + H /\ M + H < 2 * H + 2 * H
      BY <1>1, <1>4, <1>8, <2>2
    <3>2. \A a \in Nat, b \in Nat \ {0} : b <= a /\ a < b + b => a % b = a - b
      OBVIOUS
    <3>3. (M + H) % (2 * H) = (M + H) - 2 * H
      BY <1>6, <3>1, <3>2
    <3> QED
      BY <1>1, <1>4, <1>5, <1>8, <3>3
  <2> QED
    BY <1>1, <1>4, <2>1, <2>2
<1> QED
  BY <1>4, <1>7, <1>8 DEF M, H

Passes == [pc: {"run", "refused", "done"}, cursor: Cursors, lookback: Lookbacks, called: Nat]

LEMMA ListedArePosts ==
  ASSUME CrawlTypeOK
  PROVE  /\ Listed \subseteq Post
         /\ \A x \in Listed : \E n \in 1..Len(listing) : listing[n] = x /\ HasRow(listing[n])
         /\ \A n \in 1..Len(listing) : listing[n] \in Post => listing[n] \in Listed
<1>1. listing \in Seq(Post \cup {Blank}) /\ Blank \notin Post
  BY CrawlAssumption DEF CrawlTypeOK, Post
<1> QED
  BY <1>1 DEF Listed, HasRow

(* What is listed when a pass begins is what it is to bring. *)
LEMMA PassBegins ==
  ASSUME CrawlTypeOK, Tidy(listing, clock)
  PROVE  /\ \A x \in Listed : x.at <= clock
         /\ CursorCovers(listing, NoCursor, Listed, {})
         /\ Within(listing, FirstPage(NoCursor), NoCursor[2], {})
<1>1. \A x \in Listed : x.at <= clock
  BY ListedArePosts DEF Tidy
<1>2. CursorCovers(listing, NoCursor, Listed, {})
  <2>1. listing \in Seq(Slots) /\ Listed \in SUBSET Post
    BY ListedArePosts DEF CrawlTypeOK, Slots
  <2> QED
    BY <2>1, NothingIsBehind
<1>3. Within(listing, FirstPage(NoCursor), NoCursor[2], {})
  BY DEF Within
<1> QED
  BY <1>1, <1>2, <1>3

LEMMA NewPassIsTyped ==
  ASSUME NEW l \in Lookbacks
  PROVE  /\ NewPass(l) \in Passes /\ NewPass(l).pc = "run" /\ NewPass(l).cursor = NoCursor
BY DEF NewPass, Passes, Cursors

LEMMA BackfillBegins ==
  ASSUME SteadySource, BackfillInit
  PROVE  BackfillInv
<1>1. /\ listing \in Listings /\ clock = Len(listing) /\ cache = {} /\ failures = 0
      /\ walk = NoWalk /\ expected = Listed /\ got = {} /\ moved = FALSE
  BY DEF BackfillInit, CrawlInit
<1>2. PICK l \in Lookbacks : pass = NewPass(l)
  BY DEF BackfillInit
<1>3. Tidy(listing, clock)
  BY <1>1 DEF SteadySource, TidyListings
<1>4. CrawlTypeOK
  <2>1. listing \in Seq(Post \cup {Blank}) /\ clock \in Nat
    BY <1>1, CrawlAssumption DEF Post
  <2> QED
    BY <1>1, <2>1, NoWalkIsTyped DEF CrawlTypeOK
<1>5. pass \in Passes /\ pass.pc = "run" /\ pass.cursor = NoCursor
  BY <1>2, NewPassIsTyped
<1>6. BackfillTypeOK
  BY <1>1, <1>4, <1>5, ListedArePosts DEF BackfillTypeOK, Passes
<1>7. walk.pc = "idle"
  BY <1>1 DEF NoWalk
<1>8. LoopCovers
  BY <1>1, <1>3, <1>4, <1>5, <1>7, PassBegins DEF LoopCovers, Calling
<1>9. PassRepeatsNothing
  BY <1>1, <1>3, <1>4, <1>5, <1>7, PassBegins DEF PassRepeatsNothing, Calling
<1>10. NoGap
  BY <1>5 DEF NoGap
<1> QED
  BY <1>1, <1>3, <1>6, <1>8, <1>9, <1>10 DEF BackfillInv
LEMMA RefusedKeeps ==
  ASSUME BackfillInv, Refused
  PROVE  BackfillInv'
<1>1. /\ pass.pc = "run" /\ Malformed(pass.lookback)
      /\ pass' = [pass EXCEPT !.pc = "refused"]
      /\ UNCHANGED <<clock, listing, cache, failures, walk, expected, got, moved>>
  BY DEF Refused, crawlVars
<1>2. BackfillTypeOK /\ CrawlTypeOK /\ pass \in Passes /\ LoopCovers /\ PassRepeatsNothing
  BY DEF BackfillInv, BackfillTypeOK, Passes
<1>3. pass' \in Passes /\ pass'.pc = "refused"
  BY <1>1, <1>2 DEF Passes
<1>4. ~Calling
  BY <1>1, <1>2 DEF LoopCovers
<1>5. BackfillTypeOK'
  BY <1>1, <1>2, <1>3 DEF BackfillTypeOK, CrawlTypeOK, Passes
<1>6. LoopCovers'
  BY <1>1, <1>2, <1>3, <1>4 DEF LoopCovers, Calling, Listed
<1>7. PassRepeatsNothing'
  BY <1>1, <1>2, <1>3, <1>4 DEF PassRepeatsNothing, Calling
<1>8. NoGap'
  BY <1>3 DEF NoGap
<1> QED
  BY <1>1, <1>5, <1>6, <1>7, <1>8 DEF BackfillInv

LEMMA AgainKeeps ==
  ASSUME BackfillInv, Again
  PROVE  BackfillInv'
<1>1. /\ pass.pc \in {"done", "refused"} /\ expected' = Listed /\ got' = {} /\ moved' = FALSE
      /\ UNCHANGED <<clock, listing, cache, failures, walk>>
  BY DEF Again, crawlVars
<1>2. PICK l \in Lookbacks : pass' = NewPass(l)
  BY DEF Again
<1>3. CrawlTypeOK /\ pass \in Passes /\ LoopCovers /\ Tidy(listing, clock) /\ cache = {}
  BY DEF BackfillInv, BackfillTypeOK, Passes
<1>4. pass' \in Passes /\ pass'.pc = "run" /\ pass'.cursor = NoCursor
  BY <1>2, NewPassIsTyped
<1>5. ~Calling
  BY <1>1, <1>3 DEF LoopCovers
<1>6. CrawlTypeOK' /\ Listed' = Listed
  BY <1>1, <1>3 DEF CrawlTypeOK, Listed
<1>7. BackfillTypeOK'
  BY <1>1, <1>3, <1>4, <1>6, ListedArePosts DEF BackfillTypeOK, Passes
<1>8. walk'.pc \notin {"walk", "done"}
  BY <1>1, <1>5 DEF Calling
<1>9. LoopCovers'
  BY <1>1, <1>3, <1>4, <1>6, <1>8, PassBegins DEF LoopCovers, Calling
<1>10. PassRepeatsNothing'
  BY <1>1, <1>3, <1>4, <1>8, PassBegins DEF PassRepeatsNothing, Calling
<1>11. NoGap'
  BY <1>4 DEF NoGap
<1> QED
  BY <1>1, <1>3, <1>7, <1>9, <1>10, <1>11 DEF BackfillInv

LEMMA NoPosts ==
  ASSUME NEW w, w.posts = <<>>
  PROVE  Posts(w) = {} /\ Len(w.posts) = 0 /\ 1..Len(w.posts) = {}
<1>1. Len(w.posts) = 0 /\ 1..0 = {}
  OBVIOUS
<1> QED
  BY <1>1 DEF Posts, Front

(* A call continues behind the cursor. *)
LEMMA BeginCovers ==
  ASSUME NEW l, NEW c, NEW w, w.pc = "walk", w.page = FirstPage(c), w.skip = c[2],
         w.posts = <<>>, NEW X, NEW S, CursorCovers(l, c, X, S)
  PROVE  WalkCovers(l, w, X, S)
<1>1. Posts(w) = {} /\ 1..Len(w.posts) = {}
  BY NoPosts
<1>2. S \cup Posts(w) = S
  BY <1>1
<1> QED
  BY <1>1, <1>2 DEF WalkCovers, CursorCovers

LEMMA CallKeeps ==
  ASSUME BackfillInv, Call
  PROVE  BackfillInv'
<1> DEFINE d == ParseLookback(pass.lookback)
<1>1. /\ pass.pc = "run" /\ ~Malformed(pass.lookback)
      /\ pass' = [pass EXCEPT !.called = clock]
      /\ UNCHANGED <<clock, listing, cache, failures, expected, got, moved>>
  BY DEF Call
<1>2. PICK n \in PageSizes : Begin(pass.cursor, n, d)
  BY DEF Call
<1>3. CrawlTypeOK /\ pass \in Passes /\ LoopCovers /\ PassRepeatsNothing /\ clock \in Nat
      /\ expected \subseteq Post
  BY DEF BackfillInv, BackfillTypeOK, Passes, CrawlTypeOK
<1>4. pass.cursor \in Cursors /\ pass.lookback \in Lookbacks /\ d \in Int
  BY <1>3, LookbackParsed DEF Passes
<1>5. n \in Int
  BY BackfillAssumption
<1> HIDE DEF d
<1>6. /\ WalkIsTyped(walk') /\ walk'.pc = "walk" /\ walk'.page = FirstPage(pass.cursor)
      /\ walk'.skip = pass.cursor[2] /\ walk'.posts = <<>>
      /\ walk'.cutoff = IF d > 0 THEN clock - d ELSE 0
  BY <1>2, <1>3, <1>4, <1>5, BeginIsTyped
<1>7. /\ pass' \in Passes /\ pass'.pc = "run" /\ pass'.cursor = pass.cursor
      /\ pass'.lookback = pass.lookback /\ pass'.called = clock
  BY <1>1, <1>3 DEF Passes
<1>8. BackfillTypeOK'
  <2>1. CrawlTypeOK'
    BY <1>1, <1>3, <1>6 DEF CrawlTypeOK
  <2> QED
    BY <1>1, <1>7, <2>1 DEF BackfillInv, BackfillTypeOK, Passes
<1>9. WalkCovers(listing, walk', expected, got)
  <2>1. CursorCovers(listing, pass.cursor, expected, got)
    BY <1>1, <1>3 DEF LoopCovers
  <2> QED
    BY <1>6, <2>1, BeginCovers
<1>10. LoopCovers'
  <2>1. /\ expected' \subseteq Listed' /\ \A p \in expected' : p.at <= clock'
        /\ pass'.pc = "run" => CursorCovers(listing', pass'.cursor, expected', got')
    BY <1>1, <1>3, <1>7 DEF LoopCovers, Listed
  <2>2. walk'.cutoff = LET e == ParseLookback(pass'.lookback)
                       IN  IF e > 0 THEN pass'.called - e ELSE 0
    BY <1>6, <1>7 DEF d
  <2>3. ~Malformed(pass'.lookback) /\ WalkCovers(listing', walk', expected', got')
    BY <1>1, <1>7, <1>9
  <2> QED
    BY <1>7, <2>1, <2>2, <2>3 DEF LoopCovers
<1>11. PassRepeatsNothing'
  <2> SUFFICES ASSUME ~moved PROVE PassRepeatsNothing'
    BY <1>1 DEF PassRepeatsNothing
  <2>1. Posts(walk') = {} /\ 1..Len(walk'.posts) = {}
    BY <1>6, NoPosts
  <2>2. Within(listing, FirstPage(pass.cursor), pass.cursor[2], got)
    BY <1>1, <1>3 DEF PassRepeatsNothing
  <2>3. got \cup Posts(walk') = got
    BY <2>1
  <2> QED
    BY <1>1, <1>6, <1>7, <2>1, <2>2, <2>3 DEF PassRepeatsNothing
<1>12. NoGap'
  BY <1>7 DEF NoGap
<1> QED
  BY <1>1, <1>8, <1>10, <1>11, <1>12 DEF BackfillInv

LEMMA ReceiveKeeps ==
  ASSUME BackfillInv, Receive
  PROVE  BackfillInv'
<1>1. /\ walk.pc = "done" /\ got' = got \cup Posts(walk) /\ walk' = NoWalk
      /\ pass' = [pass EXCEPT !.pc = IF walk.more THEN "run" ELSE "done", !.cursor = walk.cursor]
      /\ UNCHANGED <<clock, listing, cache, failures, expected, moved>>
  BY DEF Receive, Posts, Front
<1>2. /\ CrawlTypeOK /\ pass \in Passes /\ LoopCovers /\ PassRepeatsNothing /\ clock \in Nat
      /\ expected \subseteq Post /\ got \subseteq Post /\ walk \in Walk
  BY DEF BackfillInv, BackfillTypeOK, Passes, CrawlTypeOK, WalkIsTyped
<1>3. walk.cursor \in Cursors /\ walk.more \in BOOLEAN /\ Posts(walk) \subseteq Post
  BY <1>2 DEF Walk, Posts, Front
<1>4. /\ pass' \in Passes /\ pass'.cursor = walk.cursor /\ pass'.lookback = pass.lookback
      /\ pass'.called = pass.called /\ pass'.pc = IF walk.more THEN "run" ELSE "done"
  <2>1. CASE walk.more
    <3>1. pass' = [pass EXCEPT !.pc = "run", !.cursor = walk.cursor]
      BY <1>1, <2>1
    <3> QED
      BY <1>2, <1>3, <2>1, <3>1 DEF Passes
  <2>2. CASE ~walk.more
    <3>1. pass' = [pass EXCEPT !.pc = "done", !.cursor = walk.cursor]
      BY <1>1, <2>2
    <3> QED
      BY <1>2, <1>3, <2>2, <3>1 DEF Passes
  <2> QED
    BY <2>1, <2>2
<1>5. walk'.pc = "idle" /\ WalkIsTyped(walk')
  BY <1>1, NoWalkIsTyped DEF NoWalk
<1>6. BackfillTypeOK'
  <2>1. CrawlTypeOK'
    BY <1>1, <1>2, <1>5 DEF CrawlTypeOK
  <2>2. got' \subseteq Post
    BY <1>1, <1>2, <1>3
  <2> QED
    BY <1>1, <1>4, <2>1, <2>2 DEF BackfillInv, BackfillTypeOK, Passes
<1>7. /\ ~Malformed(pass.lookback) /\ WalkCovers(listing, walk, expected, got)
      /\ walk.cutoff = LET d == ParseLookback(pass.lookback)
                       IN  IF d > 0 THEN pass.called - d ELSE 0
      /\ expected \subseteq Listed /\ \A p \in expected : p.at <= clock
  BY <1>1, <1>2 DEF LoopCovers, Calling
<1>8. walk.more => CursorCovers(listing, walk.cursor, expected, got')
  BY <1>1, <1>7 DEF WalkCovers
<1>9. LoopCovers'
  <2>1. expected' \subseteq Listed' /\ \A p \in expected' : p.at <= clock'
    BY <1>1, <1>7 DEF Listed
  <2>2. pass'.pc = "run" => CursorCovers(listing', pass'.cursor, expected', got')
    BY <1>1, <1>4, <1>8
  <2> QED
    BY <1>5, <2>1, <2>2 DEF LoopCovers, Calling
<1>10. PassRepeatsNothing'
  <2> SUFFICES ASSUME ~moved PROVE PassRepeatsNothing'
    BY <1>1 DEF PassRepeatsNothing
  <2>1. walk.more => Within(listing, FirstPage(walk.cursor), walk.cursor[2], got')
    BY <1>1, <1>2 DEF PassRepeatsNothing
  <2> QED
    BY <1>1, <1>4, <1>5, <2>1 DEF PassRepeatsNothing, Calling
<1>11. NoGap'
  <2> SUFFICES ASSUME pass'.pc = "done", Meant(pass'.lookback) < 2 * SpanHalf, NEW p \in expected',
                      p \notin got'
               PROVE  /\ Meant(pass'.lookback) > 0
                      /\ p.at < pass'.called - Meant(pass'.lookback) + Granule - 1
    BY DEF NoGap
  <2>1. ~walk.more /\ p \in expected
    BY <1>1, <1>4
  <2>2. PICK n \in 1..Len(listing) : listing[n] = p
    BY <1>2, <1>7, <2>1, ListedArePosts
  <2>3. walk.cutoff > 0 /\ p.at < walk.cutoff + Granule - 1
    BY <1>1, <1>7, <2>1, <2>2 DEF WalkCovers
  <2>4. pass.lookback \in Lookbacks /\ Meant(pass.lookback) < 2 * SpanHalf
    BY <1>2, <1>4 DEF Passes
  <2>5. ParseLookback(pass.lookback) \in Int /\ Meant(pass.lookback) \in Int
    BY <2>4, LookbackParsed
  <2>6. ParseLookback(pass.lookback) > 0 /\ walk.cutoff = pass.called - ParseLookback(pass.lookback)
    BY <1>7, <2>3
  <2>7. ParseLookback(pass.lookback) = Meant(pass.lookback)
    BY <1>7, <2>4, <2>6, LookbackParsed
  <2> QED
    BY <1>4, <2>3, <2>6, <2>7
<1> QED
  BY <1>1, <1>6, <1>9, <1>10, <1>11 DEF BackfillInv
LEMMA BackfillEngineKeeps ==
  ASSUME SteadySource, BackfillInv, BackfillEngine
  PROVE  BackfillInv'
<1>0. TTL = 0 /\ UNCHANGED <<pass, expected, got, moved>>
  BY DEF SteadySource, BackfillEngine
<1>1. /\ CrawlTypeOK /\ pass \in Passes /\ LoopCovers /\ PassRepeatsNothing /\ NoGap
      /\ expected \subseteq Post /\ cache = {} /\ Tidy(listing, clock)
  BY DEF BackfillInv, BackfillTypeOK, Passes
<1>2. CASE FetchPage
  <2>1. CrawlTypeOK'
    BY <1>1, <1>2, FetchPageIsTyped
  <2>2. walk.pc = "walk" /\ cache' = {} /\ listing' = listing /\ clock' = clock
    BY <1>0, <1>1, <1>2, FetchedNow
  <2>3. /\ pass.pc = "run" /\ ~Malformed(pass.lookback)
        /\ walk.cutoff = LET d == ParseLookback(pass.lookback)
                         IN  IF d > 0 THEN pass.called - d ELSE 0
        /\ WalkCovers(listing, walk, expected, got)
    BY <1>1, <2>2 DEF LoopCovers, Calling
  <2>4. WalkCovers(listing, walk', expected, got)
    BY <1>0, <1>1, <1>2, <2>3, FetchCovers, FetchedNow
  <2>5. walk'.cutoff = walk.cutoff
    <3>1. /\ walk.page \in Nat \ {0} /\ Rows(walk.page) \in Seq(Post)
          /\ UsePage(Rows(walk.page))
      BY <1>0, <1>1, <1>2, FetchedNow
    <3>2. PICK k \in Nat : Outcome(Rows(walk.page), k)
      BY <1>1, <2>2, <3>1, PageOutcome
    <3> QED
      BY <3>2 DEF Outcome
  <2>6. BackfillTypeOK'
    BY <1>0, <2>1 DEF BackfillInv, BackfillTypeOK
  <2>7. LoopCovers'
    <3>1. /\ expected' \subseteq Listed' /\ \A p \in expected' : p.at <= clock'
          /\ pass'.pc = "run" => CursorCovers(listing', pass'.cursor, expected', got')
      BY <1>0, <1>1, <2>2 DEF LoopCovers, Listed
    <3>2. /\ pass'.pc = "run" /\ ~Malformed(pass'.lookback)
          /\ walk'.cutoff = LET d == ParseLookback(pass'.lookback)
                            IN  IF d > 0 THEN pass'.called - d ELSE 0
          /\ WalkCovers(listing', walk', expected', got')
      BY <1>0, <2>2, <2>3, <2>4, <2>5
    <3> QED
      BY <3>1, <3>2 DEF LoopCovers
  <2>8. PassRepeatsNothing'
    <3> SUFFICES ASSUME ~moved PROVE PassRepeatsNothing'
      BY <1>0 DEF PassRepeatsNothing
    <3>1. /\ Within(listing, walk.page, walk.skip, got \cup Posts(walk))
          /\ Posts(walk) \cap got = {} /\ Distinct(walk.posts)
          /\ Within(listing, FirstPage(pass.cursor), pass.cursor[2], got)
      BY <1>1, <2>2, <2>3 DEF PassRepeatsNothing, Calling, Distinct
    <3>2. /\ walk'.pc = "walk" => Within(listing, walk'.page, walk'.skip, got \cup Posts(walk'))
          /\ walk'.pc = "done" /\ walk'.more =>
               Within(listing, FirstPage(walk'.cursor), walk'.cursor[2], got \cup Posts(walk'))
          /\ Posts(walk') \cap got = {} /\ Distinct(walk'.posts)
      BY <1>0, <1>1, <1>2, <3>1, FetchRepeatsNothing
    <3> QED
      BY <1>0, <2>2, <3>1, <3>2 DEF PassRepeatsNothing, Distinct
  <2>9. NoGap'
    BY <1>0, <1>1 DEF NoGap
  <2> QED
    BY <1>0, <1>1, <2>2, <2>6, <2>7, <2>8, <2>9 DEF BackfillInv
<1>3. CASE FetchFail
  <2>1. CrawlTypeOK'
    BY <1>1, <1>3, FetchFailIsTyped
  <2>2. /\ walk' = [NoWalk EXCEPT !.pc = "error"]
        /\ cache' = cache /\ listing' = listing /\ clock' = clock
    BY <1>3 DEF FetchFail
  <2>3. walk'.pc = "error"
    BY <2>2 DEF NoWalk
  <2>4. BackfillTypeOK'
    BY <1>0, <2>1 DEF BackfillInv, BackfillTypeOK
  <2>5. LoopCovers'
    BY <1>0, <1>1, <2>2, <2>3 DEF LoopCovers, Calling, Listed
  <2>6. PassRepeatsNothing'
    BY <1>0, <1>1, <2>2, <2>3 DEF PassRepeatsNothing, Calling
  <2>7. NoGap'
    BY <1>0, <1>1 DEF NoGap
  <2> QED
    BY <1>0, <1>1, <2>2, <2>4, <2>5, <2>6, <2>7 DEF BackfillInv
<1> QED
  BY <1>2, <1>3 DEF BackfillEngine

LEMMA BackfillSourceKeeps ==
  ASSUME BackfillInv, BackfillSource
  PROVE  BackfillInv'
<1>1. /\ CrawlTypeOK /\ pass \in Passes /\ LoopCovers /\ PassRepeatsNothing /\ NoGap
      /\ expected \subseteq Post /\ cache = {} /\ Tidy(listing, clock) /\ clock \in Nat
      /\ WalkIsTyped(walk) /\ listing \in Seq(Slots)
  BY DEF BackfillInv, BackfillTypeOK, Passes, CrawlTypeOK, Slots
<1>2. /\ Publish \/ Tick
      /\ pass' = pass /\ expected' = expected /\ got' = got /\ moved' \in BOOLEAN
      /\ Publish \/ moved' = moved
      /\ Publish => moved' = TRUE
  <2>1. CASE Publish /\ moved' = TRUE /\ UNCHANGED <<pass, expected, got>>
    BY <2>1
  <2>2. CASE Tick /\ UNCHANGED <<pass, expected, got, moved>>
    <3>1. ~Publish \/ moved' = TRUE
      <4>1. Tick => listing' = listing
        BY DEF Tick
      <4>2. Publish => listing' # listing
        <5> SUFFICES ASSUME Publish PROVE listing' # listing
          OBVIOUS
        <5>1. PICK x \in Post : listing' = <<x>> \o listing
          BY <1>1, PublishedPost
        <5>2. Len(listing') = Len(listing) + 1 /\ Len(listing) \in Nat
          BY <1>1, <5>1, Shifted
        <5> QED
          BY <5>2
      <4> QED
        BY <2>2, <4>1, <4>2
    <3> QED
      BY <2>2, <3>1 DEF BackfillInv, BackfillTypeOK
  <2> QED
    BY <2>1, <2>2 DEF BackfillSource
<1>3. /\ CrawlTypeOK' /\ clock' = clock + 1
  BY <1>1, <1>2, PublishIsTyped, TickIsTyped
<1>4. /\ Tidy(listing', clock') /\ UNCHANGED <<cache, failures, walk>>
      /\ \/ listing' = listing
         \/ \E x \in Post : listing' = <<x>> \o listing /\ x.at = clock + 1
  BY <1>1, <1>2, SourceStep
<1>5. BackfillTypeOK'
  BY <1>2, <1>3 DEF BackfillInv, BackfillTypeOK
<1>6. /\ \A p \in expected : p.at <= clock'
      /\ expected \subseteq Listed'
      /\ pass.pc = "run" => CursorCovers(listing', pass.cursor, expected, got)
      /\ Calling => WalkCovers(listing', walk, expected, got)
  <2>0. /\ \A p \in expected : p.at <= clock /\ p.at \in Nat
        /\ expected \subseteq Listed
        /\ pass.pc = "run" => CursorCovers(listing, pass.cursor, expected, got)
        /\ Calling => WalkCovers(listing, walk, expected, got)
    BY <1>1 DEF LoopCovers, Post
  <2>1. \A p \in expected : p.at <= clock'
    BY <1>1, <1>3, <2>0
  <2>2. CASE listing' = listing
    BY <2>0, <2>1, <2>2 DEF Listed
  <2>3. CASE \E x \in Post : listing' = <<x>> \o listing /\ x.at = clock + 1
    <3>1. PICK x \in Post : listing' = <<x>> \o listing /\ x.at = clock + 1
      BY <2>3
    <3>2. x \notin expected
      BY <1>1, <2>0, <3>1
    <3>3. expected \subseteq Listed'
      <4>1. \A n \in 1..Len(listing) : n + 1 \in 1..Len(listing') /\ listing'[n + 1] = listing[n]
        BY <1>1, <3>1, Shifted
      <4>2. Listed \subseteq Listed'
        BY <4>1 DEF Listed
      <4> QED
        BY <2>0, <4>2
    <3>4. pass.pc = "run" => CursorCovers(listing', pass.cursor, expected, got)
      <4>1. FirstPage(pass.cursor) \in Nat \ {0} /\ pass.cursor[2] \in Nat
        BY <1>1, CursorsLead DEF Passes
      <4> QED
        BY <1>1, <2>0, <3>1, <3>2, <4>1, CoversShifted DEF CursorCovers
    <3>5. Calling => WalkCovers(listing', walk, expected, got)
      BY <1>1, <2>0, <3>1, <3>2, WalkCoversShifted
    <3> QED
      BY <2>1, <3>3, <3>4, <3>5
  <2> QED
    BY <1>4, <2>2, <2>3
<1>7. LoopCovers'
  BY <1>1, <1>2, <1>4, <1>6 DEF LoopCovers, Calling
<1>8. PassRepeatsNothing'
  <2>1. CASE moved' = TRUE
    BY <2>1 DEF PassRepeatsNothing
  <2>2. CASE Tick /\ moved' = moved
    <3>1. listing' = listing
      BY <2>2 DEF Tick
    <3> QED
      BY <1>1, <1>2, <1>4, <2>2, <3>1 DEF PassRepeatsNothing, Calling
  <2> QED
    BY <1>2, <2>1, <2>2
<1>9. NoGap'
  BY <1>1, <1>2 DEF NoGap
<1> QED
  BY <1>1, <1>4, <1>5, <1>7, <1>8, <1>9 DEF BackfillInv

LEMMA BackfillNextHolds ==
  ASSUME SteadySource, BackfillInv, [BackfillNext]_backfillVars
  PROVE  BackfillInv'
<1>1. CASE UNCHANGED backfillVars
  <2>1. UNCHANGED <<clock, listing, cache, failures, walk, pass, expected, got, moved>>
    BY <1>1 DEF backfillVars
  <2>2. BackfillTypeOK'
    BY <2>1 DEF BackfillInv, BackfillTypeOK, CrawlTypeOK
  <2>3. LoopCovers' /\ PassRepeatsNothing' /\ NoGap'
    BY <2>1 DEF BackfillInv, LoopCovers, PassRepeatsNothing, NoGap, Listed, Calling
  <2> QED
    BY <2>1, <2>2, <2>3 DEF BackfillInv
<1> QED
  BY <1>1, RefusedKeeps, CallKeeps, ReceiveKeeps, AgainKeeps, BackfillEngineKeeps,
     BackfillSourceKeeps DEF BackfillNext

(* The inductive invariant: all that a pass expects is still listed, what is *)
(* behind its cursor was received, and the call under way has brought what   *)
(* is behind it in turn, on a listing that shifts by one row at any moment   *)
(* (crawl.go:166-266).                                                       *)
THEOREM BackfillHolds == SteadySource => (BackfillSpec => []BackfillInv)
<1> SUFFICES ASSUME SteadySource PROVE BackfillSpec => []BackfillInv
  OBVIOUS
<1>1. BackfillInit => BackfillInv
  BY BackfillBegins
<1>2. BackfillInv /\ [BackfillNext]_backfillVars => BackfillInv'
  BY BackfillNextHolds
<1> QED
  BY <1>1, <1>2, PTL DEF BackfillSpec

(* No gap, for every page size, budget, lookback, number of failures and     *)
(* stream of new posts: on an uncached source whose listing is tidy, a pass  *)
(* that ends has received every post it was to bring (crawl.go:175).         *)
THEOREM PassLeavesNoGap == SteadySource => (BackfillSpec => []NoGap)
<1> SUFFICES ASSUME SteadySource PROVE BackfillSpec => []NoGap
  OBVIOUS
<1>1. BackfillInv => NoGap
  BY DEF BackfillInv
<1>2. BackfillSpec => []BackfillInv
  BY BackfillHolds
<1> QED
  BY <1>1, <1>2, PTL

(* On a listing that stands still no post is received twice: the place       *)
(* behind a cursor is exact, mid-page and at a page's end (crawl.go:228,     *)
(* 235).                                                                     *)
THEOREM PassRepeatsNoPost == SteadySource => (BackfillSpec => NoRepeat)
<1> SUFFICES ASSUME SteadySource PROVE BackfillSpec => NoRepeat
  OBVIOUS
<1>1. BackfillInv =>
        [walk.pc = "done" /\ walk'.pc = "idle" /\ ~moved =>
           /\ \A n \in 1..Len(walk.posts) : walk.posts[n] \notin got
           /\ \A m, n \in 1..Len(walk.posts) :
                walk.posts[m] = walk.posts[n] => m = n]_backfillVars
  <2> SUFFICES ASSUME BackfillInv, walk.pc = "done", ~moved
               PROVE  /\ \A n \in 1..Len(walk.posts) : walk.posts[n] \notin got
                      /\ \A m, n \in 1..Len(walk.posts) :
                           walk.posts[m] = walk.posts[n] => m = n
    OBVIOUS
  <2>1. /\ Posts(walk) \cap got = {}
        /\ \A m, n \in 1..Len(walk.posts) : walk.posts[m] = walk.posts[n] => m = n
    BY DEF BackfillInv, PassRepeatsNothing, Calling
  <2>2. \A n \in 1..Len(walk.posts) : walk.posts[n] \in Posts(walk)
    BY DEF Posts, Front
  <2> QED
    BY <2>1, <2>2
<1>2. BackfillSpec => []BackfillInv
  BY BackfillHolds
<1> QED
  BY <1>1, <1>2, PTL DEF NoRepeat
=============================================================================
