----------------------------- MODULE ReadsProofs ----------------------------
(***************************************************************************)
(* Proofs about module Reads: the inductive invariant ReadsInv, and what    *)
(* follows from it of walks through a listing, of following new matches, of *)
(* the release detail and of the gauges.                                    *)
(***************************************************************************)
EXTENDS Reads, FiniteSetTheorems, NaturalsInduction, TLAPS

-----------------------------------------------------------------------------
(* Pages: the first rows of a set in the order of a listing. *)

(* A set of numbers that is not empty has a least one. *)
LEMMA HasLeast ==
  ASSUME NEW T \in SUBSET Nat, T # {}
  PROVE  \E m \in T : \A y \in T : m <= y
<1> DEFINE R == OpToRel(<, Nat)
<1>1. IsWellFoundedOn(R, Nat)
  BY NatLessThanWellFounded
<1>2. \A x, y \in Nat : y < x => <<y, x>> \in R
  BY DEF OpToRel
<1> HIDE DEF R
<1>3. PICK x \in T : \A y \in T : ~(<<y, x>> \in R)
  BY <1>1, WFMin
<1>4. \A y \in T : ~(y < x)
  BY <1>2, <1>3
<1> QED
  BY <1>4

(* The listing order is strict and total where keys are numbers. *)
LEMMA BeforeOrders ==
  ASSUME NEW path, NEW S \in SUBSET Infohashes, \A i \in S : Key(i, path) \in Int
  PROVE  /\ \A i \in S : ~Before(i, i, path)
         /\ \A i, j \in S : i = j \/ Before(i, j, path) \/ Before(j, i, path)
         /\ \A i, j, k \in S : Before(i, j, path) /\ Before(j, k, path) => Before(i, k, path)
<1>1. S \subseteq Int
  BY ReadsAssumption
<1> QED
  BY <1>1 DEF Before

(* Being in front of another makes for fewer in front. *)
LEMMA FrontShrinks ==
  ASSUME NEW path, NEW S \in SUBSET Infohashes, \A i \in S : Key(i, path) \in Int,
         NEW i \in S, NEW j \in S, Before(j, i, path)
  PROVE  /\ Cardinality({k \in S : Before(k, j, path)}) <
              Cardinality({k \in S : Before(k, i, path)})
         /\ Cardinality({k \in S : Before(i, k, path)}) <
              Cardinality({k \in S : Before(j, k, path)})
<1> DEFINE F(n) == {k \in S : Before(k, n, path)}
           G(n) == {k \in S : Before(n, k, path)}
<1>1. IsFiniteSet(S)
  BY FS_Subset, ReadsAssumption
<1>2. /\ F(j) \in SUBSET F(i) /\ j \in F(i) /\ j \notin F(j)
      /\ G(i) \in SUBSET G(j) /\ i \in G(j) /\ i \notin G(i)
  BY BeforeOrders
<1>3. IsFiniteSet(F(i)) /\ IsFiniteSet(F(j)) /\ IsFiniteSet(G(i)) /\ IsFiniteSet(G(j))
  BY <1>1, FS_Subset
<1> HIDE DEF F, G
<1>4. /\ Cardinality(F(i)) \in Nat /\ Cardinality(F(j)) \in Nat
      /\ Cardinality(G(i)) \in Nat /\ Cardinality(G(j)) \in Nat
  BY <1>3, FS_CardinalityType
<1>5. /\ Cardinality(F(j)) <= Cardinality(F(i)) /\ Cardinality(F(j)) # Cardinality(F(i))
  BY <1>2, <1>3, FS_Subset
<1>6. /\ Cardinality(G(i)) <= Cardinality(G(j)) /\ Cardinality(G(i)) # Cardinality(G(j))
  BY <1>2, <1>3, FS_Subset
<1> QED
  BY <1>4, <1>5, <1>6 DEF F, G

(* A set of rows that is not empty has a first and a last one. *)
LEMMA HasEnds ==
  ASSUME NEW path, NEW S \in SUBSET Infohashes, \A i \in S : Key(i, path) \in Int, S # {}
  PROVE  /\ \E f \in S : \A j \in S : ~Before(j, f, path)
         /\ \E l \in S : \A j \in S : j = l \/ Before(j, l, path)
<1> DEFINE F(n) == {k \in S : Before(k, n, path)}
           G(n) == {k \in S : Before(n, k, path)}
<1>1. \A n \in S : Cardinality(F(n)) \in Nat /\ Cardinality(G(n)) \in Nat
  <2>1. IsFiniteSet(S)
    BY FS_Subset, ReadsAssumption
  <2> TAKE n \in S
  <2>2. IsFiniteSet(F(n)) /\ IsFiniteSet(G(n))
    BY <2>1, FS_Subset
  <2> QED
    BY <2>2, FS_CardinalityType
<1>2. \A i, j \in S : Before(j, i, path) => /\ Cardinality(F(j)) < Cardinality(F(i))
                                            /\ Cardinality(G(i)) < Cardinality(G(j))
  BY FrontShrinks
<1> HIDE DEF F, G
<1>3. \E f \in S : \A j \in S : ~Before(j, f, path)
  <2> DEFINE T == {Cardinality(F(n)) : n \in S}
  <2>1. T \in SUBSET Nat /\ T # {}
    BY <1>1
  <2>2. PICK m \in T : \A y \in T : m <= y
    BY <2>1, HasLeast
  <2>3. PICK f \in S : Cardinality(F(f)) = m
    BY <2>2
  <2>4. \A j \in S : Cardinality(F(f)) <= Cardinality(F(j))
    BY <2>2, <2>3
  <2>5. \A j \in S : ~Before(j, f, path)
    BY <1>1, <1>2, <2>4
  <2> QED
    BY <2>5
<1>4. \E l \in S : \A j \in S : j = l \/ Before(j, l, path)
  <2> DEFINE T == {Cardinality(G(n)) : n \in S}
  <2>1. T \in SUBSET Nat /\ T # {}
    BY <1>1
  <2>2. PICK m \in T : \A y \in T : m <= y
    BY <2>1, HasLeast
  <2>3. PICK l \in S : Cardinality(G(l)) = m
    BY <2>2
  <2>4. \A j \in S : Cardinality(G(l)) <= Cardinality(G(j))
    BY <2>2, <2>3
  <2>5. \A j \in S : ~Before(l, j, path)
    BY <1>1, <1>2, <2>4
  <2> QED
    BY <2>5, BeforeOrders
<1> QED
  BY <1>3, <1>4

(* A page has the rows in front of all that are left out; it is everything  *)
(* when everything fits, and leaves something out when it does not.         *)
LEMMA PageIsFirst ==
  ASSUME NEW path, NEW S \in SUBSET Infohashes, \A i \in S : Key(i, path) \in Int,
         NEW n \in Nat, n >= 1
  PROVE  /\ First(S, n, path) \in SUBSET S
         /\ \A i \in First(S, n, path), j \in S \ First(S, n, path) : Before(i, j, path)
         /\ Cardinality(S) <= n => First(S, n, path) = S
         /\ Cardinality(S) > n => S \ First(S, n, path) # {}
         /\ S # {} => First(S, n, path) # {}
<1> DEFINE F(k) == {j \in S : Before(j, k, path)}
           P == First(S, n, path)
<1>1. IsFiniteSet(S) /\ Cardinality(S) \in Nat
  <2>1. IsFiniteSet(S)
    BY FS_Subset, ReadsAssumption
  <2> QED
    BY <2>1, FS_CardinalityType
<1>2. P = {i \in S : Cardinality(F(i)) < n}
  BY DEF First
<1>3. \A i \in S : /\ IsFiniteSet(F(i)) /\ Cardinality(F(i)) \in Nat
                   /\ Cardinality(F(i)) < Cardinality(S)
  <2> TAKE i \in S
  <2>1. F(i) \in SUBSET S /\ i \notin F(i)
    BY BeforeOrders
  <2>2. IsFiniteSet(F(i)) /\ Cardinality(F(i)) <= Cardinality(S)
        /\ Cardinality(F(i)) # Cardinality(S)
    BY <1>1, <2>1, FS_Subset
  <2>3. Cardinality(F(i)) \in Nat
    BY <2>2, FS_CardinalityType
  <2> QED
    BY <1>1, <2>2, <2>3
<1>4. \A i, j \in S : Before(j, i, path) => Cardinality(F(j)) < Cardinality(F(i))
  BY FrontShrinks
<1>5. \A i \in P, j \in S \ P : Before(i, j, path)
  <2> SUFFICES ASSUME NEW i \in P, NEW j \in S \ P, ~Before(i, j, path)
               PROVE  FALSE
    OBVIOUS
  <2>1. i \in S /\ j \in S /\ i # j /\ Cardinality(F(i)) < n /\ ~(Cardinality(F(j)) < n)
    BY <1>2
  <2>2. Before(j, i, path)
    BY <2>1, BeforeOrders
  <2>3. Cardinality(F(j)) < Cardinality(F(i))
    BY <1>4, <2>1, <2>2
  <2> HIDE DEF F
  <2> QED
    BY <1>3, <2>1, <2>3
<1>6. Cardinality(S) <= n => P = S
  <2> HIDE DEF F, P
  <2> QED
    BY <1>1, <1>2, <1>3
<1>7. Cardinality(S) > n => S \ P # {}
  <2> SUFFICES ASSUME Cardinality(S) > n
               PROVE  S \ P # {}
    OBVIOUS
  <2>1. S # {}
    BY FS_EmptySet
  <2>2. PICK l \in S : \A j \in S : j = l \/ Before(j, l, path)
    BY <2>1, HasEnds
  <2>3. F(l) = S \ {l}
    BY <2>2, BeforeOrders
  <2>4. Cardinality(F(l)) = Cardinality(S) - 1
    BY <1>1, <2>3, FS_RemoveElement
  <2> HIDE DEF F, P
  <2> QED
    BY <1>1, <1>2, <2>2, <2>4
<1>8. S # {} => P # {}
  <2> SUFFICES ASSUME S # {}
               PROVE  P # {}
    OBVIOUS
  <2>1. PICK f \in S : \A j \in S : ~Before(j, f, path)
    BY HasEnds
  <2>2. F(f) = {}
    BY <2>1
  <2>3. Cardinality(F(f)) = 0
    BY <2>2, FS_EmptySet
  <2> HIDE DEF F, P
  <2> QED
    BY <1>2, <2>1, <2>3
<1> QED
  BY <1>2, <1>5, <1>6, <1>7, <1>8

(* The last row of a page is behind the others. *)
LEMMA LastIsBehind ==
  ASSUME NEW path, NEW S \in SUBSET Infohashes, \A i \in S : Key(i, path) \in Int, S # {}
  PROVE  Last(S, path) \in S /\ \A j \in S : j = Last(S, path) \/ Before(j, Last(S, path), path)
<1>1. \E l \in S : \A j \in S : j = l \/ Before(j, l, path)
  BY HasEnds
<1> QED
  BY <1>1 DEF Last
-----------------------------------------------------------------------------
(* Rows and histories. *)

Answers == {"matched", "unmatched", "suppressed"}

LEMMA NewIsRow ==
  ASSUME NEW d \in Int
  PROVE  /\ NoRow \in Row /\ New(d) \in Row
         /\ NoRow.status = "absent" /\ NoRow.ref = NULL /\ NoRow.attempts = 0
         /\ New(d).status = "unmatched" /\ New(d).ref = NULL /\ New(d).attempts = 0
<1>1. NoRow \in Row /\ NoRow.status = "absent" /\ NoRow.ref = NULL /\ NoRow.attempts = 0
  BY DEF NoRow, Row, Statuses
<1>2. "unmatched" \in Statuses
  BY DEF Statuses
<1> DEFINE r == NoRow
           n == [r EXCEPT !.status = "unmatched", !.published = d]
<1>3. New(d) = n
  BY DEF New
<1> HIDE DEF r
<1>4. n \in Row /\ n.status = "unmatched" /\ n.ref = r.ref /\ n.attempts = r.attempts
  BY <1>1, <1>2 DEF Row, r
<1> HIDE DEF n
<1> QED
  BY <1>1, <1>3, <1>4 DEF r

LEMMA MergedIsRow ==
  ASSUME NEW r \in Row, NEW d \in Int
  PROVE  /\ Merged(r, d) \in Row /\ Merged(r, d).published <= r.published
         /\ Merged(r, d).status = r.status /\ Merged(r, d).ref = r.ref
         /\ Merged(r, d).attempts = r.attempts /\ Merged(r, d).matchedAt = r.matchedAt
<1>1. Earlier(r.published, d) \in Int /\ Earlier(r.published, d) <= r.published
  BY DEF Earlier, Row
<1> DEFINE e == Earlier(r.published, d)
           m == [r EXCEPT !.published = e]
<1>2. Merged(r, d) = m
  BY DEF Merged
<1> HIDE DEF e
<1>3. m \in Row /\ m.published = e /\ m.status = r.status /\ m.ref = r.ref
      /\ m.attempts = r.attempts /\ m.matchedAt = r.matchedAt
  BY <1>1 DEF Row, e
<1> HIDE DEF m
<1> QED
  BY <1>1, <1>2, <1>3 DEF e

LEMMA AnsweredIsRow ==
  ASSUME NEW r \in Row, NEW s \in Answers, NEW cap \in Nat, NEW ref \in Refs \cup {NULL},
         NEW at \in Int
  PROVE  LET a == Answered(r, s, cap, ref, at)
         IN  /\ a \in Row /\ a.status = FinalStatus(r, s, cap) /\ a.attempts = Attempts(r, s)
             /\ a.ref = ref /\ a.published = r.published
             /\ a.matchedAt = IF s = "matched" THEN at ELSE r.matchedAt
<1> DEFINE f == FinalStatus(r, s, cap)
           n == Attempts(r, s)
           t == IF s = "matched" THEN at ELSE r.matchedAt
           a == [r EXCEPT !.status = f, !.attempts = n, !.ref = ref, !.matchedAt = t]
<1>1. f \in Statuses /\ n \in Nat /\ t \in Int \cup {NULL}
  BY DEF FinalStatus, Attempts, Row, Answers, Statuses
<1>2. Answered(r, s, cap, ref, at) = a
  BY DEF Answered
<1> HIDE DEF f, n, t
<1>3. /\ a \in Row /\ a.status = f /\ a.attempts = n
      /\ a.ref = ref /\ a.published = r.published /\ a.matchedAt = t
  BY <1>1 DEF Row
<1> HIDE DEF a
<1> QED
  BY <1>2, <1>3 DEF f, n, t

(* What an answer makes of the status of an open release. *)
LEMMA FinalStatuses ==
  ASSUME NEW r \in Row, NEW s \in Answers, NEW cap \in Nat
  PROVE  /\ FinalStatus(r, s, cap) \in Statuses \ {"absent"}
         /\ FinalStatus(r, s, cap) = "matched" <=> s = "matched"
         /\ Failed(FinalStatus(r, s, cap)) <=> s = "unmatched"
         /\ Attempts(r, s) = IF Failed(FinalStatus(r, s, cap)) THEN r.attempts + 1 ELSE r.attempts
<1> QED
  BY DEF FinalStatus, Attempts, Failed, Statuses, Answers

(* One more event counts one more failure if it is one. *)
LEMMA FailureCount ==
  ASSUME NEW h \in Histories, NEW e \in Event
  PROVE  LET F == {k \in 1..Len(h) : Failed(h[k].status)}
             G == {k \in 1..Len(Append(h, e)) : Failed(Append(h, e)[k].status)}
         IN  Cardinality(G) = IF Failed(e.status) THEN Cardinality(F) + 1 ELSE Cardinality(F)
<1> DEFINE F == {k \in 1..Len(h) : Failed(h[k].status)}
           G == {k \in 1..Len(Append(h, e)) : Failed(Append(h, e)[k].status)}
           n == Len(h) + 1
<1>1. /\ Len(h) \in Nat /\ Len(Append(h, e)) = n /\ Append(h, e)[n] = e
      /\ \A k \in 1..Len(h) : Append(h, e)[k] = h[k]
  BY DEF Histories
<1>2. IsFiniteSet(F) /\ n \notin F
  <2>1. IsFiniteSet(1..Len(h)) /\ F \subseteq 1..Len(h)
    BY <1>1, FS_Interval
  <2>2. QED
    BY <1>1, <2>1, FS_Subset
<1>3. G = IF Failed(e.status) THEN F \cup {n} ELSE F
  BY <1>1
<1>4. Cardinality(F \cup {n}) = Cardinality(F) + 1
  BY <1>2, FS_AddElement
<1> QED
  BY <1>3, <1>4

(* An open row that is answered follows the history with the answer.        *)
LEMMA AnsweredFollows ==
  ASSUME NEW r \in Row, NEW h \in Histories, Follows(r, h), r.status = "unmatched",
         NEW s \in Answers, NEW cap \in Nat, NEW ref \in Refs \cup {NULL}, NEW at \in Int,
         NEW e \in Event, e.status = FinalStatus(r, s, cap), e.at = at
  PROVE  /\ Append(h, e) \in Histories
         /\ Follows(Answered(r, s, cap, ref, at), Append(h, e))
<1> DEFINE f == FinalStatus(r, s, cap)
           g == Append(h, e)
           a == Answered(r, s, cap, ref, at)
           n == Len(h) + 1
<1>1. /\ f \in Statuses \ {"absent"} /\ (f = "matched" <=> s = "matched")
      /\ Attempts(r, s) = IF Failed(f) THEN r.attempts + 1 ELSE r.attempts
  BY FinalStatuses
<1>2. /\ a.status = f /\ a.attempts = Attempts(r, s)
      /\ a.matchedAt = IF s = "matched" THEN at ELSE r.matchedAt
  BY AnsweredIsRow
<1>3. e \in Event /\ e.status = f /\ e.at = at
  OBVIOUS
<1> HIDE DEF f, a
<1>4. /\ g \in Histories /\ Len(h) \in Nat /\ Len(g) = n /\ g[n] = e
      /\ \A k \in 1..Len(h) : g[k] = h[k]
  BY <1>3 DEF Histories
<1>5. Cardinality({k \in 1..Len(g) : Failed(g[k].status)}) =
        IF Failed(e.status) THEN Cardinality({k \in 1..Len(h) : Failed(h[k].status)}) + 1
        ELSE Cardinality({k \in 1..Len(h) : Failed(h[k].status)})
  BY <1>3, FailureCount
<1>6. r.attempts = Cardinality({k \in 1..Len(h) : Failed(h[k].status)})
  BY DEF Follows
<1>7. \A k \in 1..Len(h) : h[k].status = "unmatched"
  BY DEF Follows
<1> HIDE DEF g
<1>8. a.attempts = Cardinality({k \in 1..Len(g) : Failed(g[k].status)})
  BY <1>1, <1>2, <1>3, <1>5, <1>6
<1>9. \A k \in 1..Len(g) : k = n \/ g[k].status = "unmatched"
  BY <1>4, <1>7
<1>10. n \in 1..Len(g) /\ g[n].status = f /\ g[n].at = at
  BY <1>3, <1>4
<1>11. Follows(a, g)
  BY <1>1, <1>2, <1>8, <1>9, <1>10 DEF Follows
<1> QED
  BY <1>4, <1>11 DEF g, a

(* A swept row follows its history: no event is needed.                     *)
LEMMA SweptFollows ==
  ASSUME NEW r \in Row, NEW h \in Histories, Follows(r, h), r.status = "unmatched"
  PROVE  LET x == [r EXCEPT !.status = "exhausted"]
         IN  /\ x \in Row /\ Follows(x, h) /\ x.status = "exhausted" /\ x.ref = r.ref
             /\ x.matchedAt = r.matchedAt /\ x.published = r.published
<1> DEFINE x == [r EXCEPT !.status = "exhausted"]
<1>1. /\ x \in Row /\ x.status = "exhausted" /\ x.ref = r.ref /\ x.attempts = r.attempts
      /\ x.matchedAt = r.matchedAt /\ x.published = r.published
  BY DEF Row, Statuses
<1> HIDE DEF x
<1>2. \A k \in 1..Len(h) : h[k].status = "unmatched"
  BY DEF Follows
<1>3. Follows(x, h)
  BY <1>1, <1>2 DEF Follows
<1> QED
  BY <1>1, <1>3 DEF x

(* A merged or a new row follows what its predecessor followed. *)
LEMMA IngestedFollows ==
  ASSUME NEW r \in Row, NEW h \in Histories, Follows(r, h), NEW d \in Int
  PROVE  /\ Follows(Merged(r, d), h)
         /\ h = <<>> => Follows(New(d), h)
<1>1. Follows(Merged(r, d), h)
  BY MergedIsRow DEF Follows
<1>2. ASSUME h = <<>>
      PROVE  Follows(New(d), h)
  <2>1. 1..Len(h) = {}
    BY <1>2
  <2>2. {n \in 1..Len(h) : Failed(h[n].status)} = {}
    BY <2>1
  <2>3. Cardinality({n \in 1..Len(h) : Failed(h[n].status)}) = 0
    BY <2>2, FS_EmptySet
  <2> QED
    BY <2>1, <2>3, NewIsRow DEF Follows
<1> QED
  BY <1>1, <1>2

(* What a row follows, it follows in whatever order the events are listed.  *)
LEMMA ListedFollows ==
  ASSUME NEW r, NEW h \in Histories, Follows(r, h),
         NEW p \in Bijection(1..Len(h), 1..Len(h))
  PROVE  Listed(h, p) \in Histories /\ Follows(r, Listed(h, p))
<1> DEFINE N == 1..Len(h)
           g == Listed(h, p)
           F == {n \in N : Failed(h[n].status)}
           G == {n \in N : Failed(g[n].status)}
           b == [n \in G |-> p[n]]
<1>1. /\ p \in [N -> N] /\ \A k \in N : \E n \in N : p[n] = k
      /\ \A m, n \in N : p[m] = p[n] => m = n
  BY DEF Bijection, Injection, Surjection, IsInjective
<1>2. /\ Len(h) \in Nat /\ \A n \in N : h[n] \in Event
  BY DEF Histories
<1>3. \A n \in N : g[n] = h[p[n]] /\ g[n] \in Event
  BY <1>1, <1>2 DEF Listed
<1>4. g \in Histories /\ Len(g) = Len(h)
  <2>1. g \in [1..Len(h) -> Event]
    BY <1>1, <1>2 DEF Listed
  <2> HIDE DEF g
  <2> QED
    BY <1>2, <2>1 DEF Histories
<1> HIDE DEF g
<1>5. Cardinality(F) = Cardinality(G)
  <2>1. IsFiniteSet(G)
    <3>1. IsFiniteSet(N)
      BY <1>2, FS_Interval
    <3> QED
      BY <3>1, FS_Subset
  <2>2. b \in Bijection(G, F)
    <3>1. b \in [G -> F] /\ \A m, n \in G : b[m] = b[n] => m = n
      BY <1>1, <1>3
    <3>2. \A k \in F : \E n \in G : b[n] = k
      BY <1>1, <1>3
    <3> HIDE DEF b, F, G
    <3> QED
      BY <3>1, <3>2 DEF Bijection, Injection, Surjection, IsInjective
  <2> QED
    BY <2>1, <2>2, FS_Bijection DEF ExistsBijection
<1>6. Follows(r, g)
  <2>1. r.attempts = Cardinality({n \in 1..Len(g) : Failed(g[n].status)})
    BY <1>4, <1>5 DEF Follows
  <2> HIDE DEF N, F, G
  <2>a. /\ \A m, n \in N : h[m].status # "unmatched" /\ h[n].status # "unmatched" => m = n
        /\ \A n \in N : h[n].status # "unmatched" => r.status = h[n].status
        /\ \A n \in N : h[n].status = "matched" => r.matchedAt = h[n].at
        /\ r.status \in {"matched", "suppressed"} => \E n \in N : h[n].status = r.status
    BY DEF Follows, N
  <2>2. /\ \A m, n \in N : g[m].status # "unmatched" /\ g[n].status # "unmatched" => m = n
        /\ \A n \in N : g[n].status # "unmatched" => r.status = g[n].status
        /\ \A n \in N : g[n].status = "matched" => r.matchedAt = g[n].at
    BY <1>1, <1>3, <2>a
  <2>3. r.status \in {"matched", "suppressed"} => \E n \in N : g[n].status = r.status
    BY <1>1, <1>3, <2>a
  <2> QED
    BY <1>4, <2>1, <2>2, <2>3 DEF Follows, N
<1> QED
  BY <1>4, <1>6 DEF g
-----------------------------------------------------------------------------
(* What the writers do, as the readers see it. *)

(* A matched release stays as it was matched, its date only moves back, and *)
(* the walk under way is told; a match carries the stamp of its submit.     *)
RowsMove ==
  \A i \in Infohashes :
    /\ row[i].status # "absent" => row'[i].status # "absent"
    /\ row[i].status = "matched" =>
         /\ row'[i].status = "matched" /\ row'[i].ref = row[i].ref
         /\ row'[i].matchedAt = row[i].matchedAt
         /\ row'[i].published <= row[i].published
         /\ row'[i].published # row[i].published /\ reader.pc = "list" => i \in reader'.moved
    /\ row'[i].status = "matched" =>
         \/ row[i].status = "matched"
         \/ row'[i].matchedAt \in submits[i]
    /\ submits'[i] \subseteq submits[i] \cup {clock}

Writes ==
  /\ RowsMove
  /\ clock <= clock'
  /\ \/ reader' = reader
     \/ \E M \in SUBSET Infohashes : /\ reader.moved \subseteq M
                                     /\ reader' = [reader EXCEPT !.moved = M]
  /\ UNCHANGED <<role, feed, detail, scrape>>

(* The fields a writer leaves alone. *)
LEMMA WalkApart ==
  ASSUME reader \in Walk, Writes
  PROVE  /\ reader' \in Walk /\ reader.moved \subseteq reader'.moved
         /\ reader'.pc = reader.pc /\ reader'.query = reader.query
         /\ reader'.started = reader.started /\ reader'.limit = reader.limit
         /\ reader'.cursor = reader.cursor /\ reader'.page = reader.page
         /\ reader'.got = reader.got /\ reader'.twice = reader.twice
         /\ reader'.expected = reader.expected
<1>1. CASE reader' = reader
  BY <1>1
<1>2. CASE reader' # reader
  <2>1. PICK M \in SUBSET Infohashes : /\ reader.moved \subseteq M
                                       /\ reader' = [reader EXCEPT !.moved = M]
    BY <1>2 DEF Writes
  <2> QED
    BY <2>1 DEF Walk
<1> QED
  BY <1>1, <1>2

(* The keys of matched releases are numbers. *)
LEMMA KeysAreNumbers ==
  ASSUME ReadsInv, NEW i \in Infohashes, row[i].status = "matched",
         NEW path \in {"catalog", "delta"}
  PROVE  /\ Key(i, path) \in Int /\ row[i].matchedAt \in Int /\ row[i].published \in Int
         /\ row[i] \in Row /\ i \in Int
<1>1. row[i] \in Row /\ RowIsSound(i)
  BY DEF ReadsInv, TypeOK
<1> QED
  BY <1>1, ReadsAssumption DEF Row, RowIsSound, Key

(* Readers' invariants survive a writer. *)
LEMMA WalkSurvives ==
  ASSUME ReadsInv, Writes, row' \in [Infohashes -> Row]
  PROVE  WalkIsSound' /\ NoSkip' /\ OnceUnlessMoved'
<1>0. reader \in Walk /\ WalkIsSound /\ NoSkip /\ OnceUnlessMoved /\ RowsMove
  BY DEF ReadsInv, TypeOK, Writes
<1>1. \A i \in reader.got \cup reader.expected : i \in Infohashes /\ row[i].status = "matched"
  BY <1>0 DEF WalkIsSound, Walk
<1>2. \A i \in Infohashes : row[i].status = "matched" => Selected(i, reader.query)' = Selected(i, reader.query)
  BY <1>0, WalkApart DEF RowsMove, Selected
<1>3. \A i \in reader.got \cup reader.expected : row'[i].status = "matched"
  BY <1>0, <1>1 DEF RowsMove
<1>4. NoSkip'
  BY <1>0, <1>1, <1>2, WalkApart DEF NoSkip
<1>5. OnceUnlessMoved'
  BY <1>0, WalkApart DEF OnceUnlessMoved
<1>6. CASE reader.pc # "list"
  BY <1>0, <1>3, <1>4, <1>5, <1>6, WalkApart DEF WalkIsSound
<1>7. CASE reader.pc = "list"
  <2> DEFINE c == reader.cursor
  <2>1. c \in Cursor /\ c.path \in {"catalog", "delta"} /\ c.key \in Int /\ c.ih \in Int
    BY <1>0, <1>7, ReadsAssumption DEF WalkIsSound, Walk, Cursor
  <2>2. PICK d : d = c /\ d.path \in {"catalog", "delta"} /\ d.key \in Int /\ d.ih \in Int
    BY <2>1
  <2>3. \A i \in Infohashes : row[i].status = "matched" /\ Behind(i, d) => Behind(i, d)'
    <3> SUFFICES ASSUME NEW i \in Infohashes, row[i].status = "matched", Behind(i, d)
                 PROVE  Behind(i, d)'
      OBVIOUS
    <3>1. row[i].matchedAt \in Int /\ row[i].published \in Int /\ i \in Int
          /\ row'[i].published \in Int
      BY KeysAreNumbers DEF Row
    <3>2. row'[i].matchedAt = row[i].matchedAt /\ row'[i].published <= row[i].published
      BY <1>0 DEF RowsMove
    <3> QED
      BY <2>2, <3>1, <3>2 DEF Behind, Key
  <2>4. \A i \in Infohashes : row[i].status = "matched" /\ Behind(i, d)' => Behind(i, d) \/ i \in reader'.moved
    <3> SUFFICES ASSUME NEW i \in Infohashes, row[i].status = "matched", Behind(i, d)',
                        i \notin reader'.moved
                 PROVE  Behind(i, d)
      OBVIOUS
    <3>1. row'[i].matchedAt = row[i].matchedAt /\ row'[i].published = row[i].published
      BY <1>0, <1>7 DEF RowsMove
    <3> QED
      BY <3>1 DEF Behind, Key
  <2>5. /\ reader'.cursor = d /\ d # NULL /\ reader'.limit >= 1 /\ d.ref = reader'.query.ref
    BY <1>0, <1>7, <2>1, <2>2, WalkApart DEF WalkIsSound
  <2>6. d.path = Path(reader.query) /\ Path(reader.query)' = Path(reader.query)
    BY <1>0, <1>7, <2>2, WalkApart DEF WalkIsSound, Path
  <2>7. \A i \in reader.expected : Selected(i, reader.query)' => i \in reader.got \/ Behind(i, d)'
    BY <1>0, <1>1, <1>2, <1>7, <2>2, <2>3 DEF WalkIsSound
  <2>8. \A i \in reader.got : Behind(i, d)' => i \in reader'.moved
    <3>1. \A i \in reader.got : Behind(i, d) => i \in reader.moved
      BY <1>0, <1>7, <2>2 DEF WalkIsSound
    <3> QED
      BY <1>1, <2>4, <3>1, WalkApart, <1>0
  <2>9. \E i \in Infohashes : Selected(i, reader.query)' /\ Behind(i, d)'
    <3>1. PICK i \in Infohashes : Selected(i, reader.query) /\ Behind(i, d)
      BY <1>0, <1>7, <2>2 DEF WalkIsSound
    <3>2. row[i].status = "matched"
      BY <3>1 DEF Selected
    <3> QED
      BY <1>2, <2>3, <3>1, <3>2
  <2> HIDE DEF c
  <2>10. WalkIsSound'
    BY <1>0, <1>3, <2>5, <2>6, <2>7, <2>8, <2>9, WalkApart DEF WalkIsSound
  <2> QED
    BY <1>4, <1>5, <2>10
<1> QED
  BY <1>6, <1>7
LEMMA FeedSurvives ==
  ASSUME ReadsInv, Writes, TypeOK'
  PROVE  FeedIsSound' /\ FeedMissesOnlyLate'
<1>0. /\ reader \in Walk /\ FeedIsSound /\ FeedMissesOnlyLate /\ RowsMove
      /\ role' = role /\ feed' = feed /\ clock <= clock' /\ clock \in Int /\ clock' \in Int
      /\ feed.mark \in Int /\ reader.started \in Int
      /\ feed.known \subseteq Infohashes /\ reader.expected \subseteq Infohashes
  BY DEF ReadsInv, TypeOK, Writes, Walk
<1>1. FeedMissesOnlyLate'
  BY <1>0, WalkApart DEF FeedMissesOnlyLate
<1>2. ASSUME NEW t \in Int, t <= clock, NEW K, feed.known \subseteq K, KnownBefore(t, K)
      PROVE  KnownBefore(t, K)'
  BY <1>0, <1>2 DEF KnownBefore, RowsMove
<1>3. CASE role # "follow"
  BY <1>0, <1>1, <1>3 DEF FeedIsSound
<1>4. CASE role = "follow"
  <2>1. feed.mark < clock /\ KnownBefore(feed.mark + 1, feed.known)
    BY <1>0, <1>4 DEF FeedIsSound
  <2>2. PICK t \in Int, K \in SUBSET Infohashes : t = feed.mark + 1 /\ K = feed.known
    BY <1>0
  <2>3. KnownBefore(t, K)'
    BY <1>0, <1>2, <2>1, <2>2
  <2>4. KnownBefore(feed.mark + 1, feed.known)'
    BY <1>0, <2>2, <2>3 DEF KnownBefore
  <2>5. CASE reader.pc # "list"
    BY <1>0, <1>1, <2>1, <2>4, <2>5, WalkApart DEF FeedIsSound
  <2>6. CASE reader.pc = "list"
    <3>1. /\ reader.query = [ref |-> NULL, since |-> feed.mark]
          /\ reader.started <= clock
          /\ reader.got \subseteq feed.known
          /\ KnownBefore(reader.started, feed.known \cup reader.expected)
      BY <1>0, <1>4, <2>6 DEF FeedIsSound
    <3>2. PICK u \in Int, L \in SUBSET Infohashes :
            u = reader.started /\ L = feed.known \cup reader.expected
      BY <1>0
    <3>3. KnownBefore(u, L)'
      BY <1>0, <1>2, <3>1, <3>2
    <3>4. KnownBefore(reader.started, feed.known \cup reader.expected)'
      BY <1>0, <3>2, <3>3, WalkApart DEF KnownBefore
    <3>5. feed.mark < clock'
      BY <1>0, <2>1
    <3>6. reader.started <= clock'
      BY <1>0, <3>1
    <3> QED
      BY <1>0, <1>1, <2>4, <3>1, <3>4, <3>5, <3>6, WalkApart DEF FeedIsSound
  <2> QED
    BY <2>5, <2>6
<1> QED
  BY <1>3, <1>4

LEMMA InspectionSurvives ==
  ASSUME ReadsInv, Writes
  PROVE  DetailIsSound' /\ DetailIsConsistent' /\ ScrapeIsSound' /\ GaugesAgree'
<1>0. /\ DetailIsSound /\ DetailIsConsistent /\ ScrapeIsSound /\ GaugesAgree /\ RowsMove
      /\ detail' = detail /\ scrape' = scrape
      /\ scrape.catalog \in CatalogGauges \cup {NULL}
  BY DEF ReadsInv, TypeOK, Writes
<1>1. DetailIsSound' /\ DetailIsConsistent' /\ GaugesAgree'
  BY <1>0 DEF DetailIsSound, DetailIsConsistent, GaugesAgree, Follows
<1> DEFINE A == {i \in Infohashes : row[i].status # "absent"}
           B == {i \in Infohashes : row'[i].status # "absent"}
           C == {i \in Infohashes : row[i].status = "matched"}
           D == {i \in Infohashes : row'[i].status = "matched"}
<1>2. A \in SUBSET B /\ C \in SUBSET D
  BY <1>0 DEF RowsMove
<1>3. IsFiniteSet(A) /\ IsFiniteSet(B) /\ IsFiniteSet(C) /\ IsFiniteSet(D)
  BY FS_Subset, ReadsAssumption
<1>4. Cardinality(A) \in Nat /\ Cardinality(B) \in Nat /\ Cardinality(C) \in Nat
      /\ Cardinality(D) \in Nat
  BY <1>3, FS_CardinalityType
<1>5. Cardinality(A) <= Cardinality(B) /\ Cardinality(C) <= Cardinality(D)
  BY <1>2, <1>3, FS_Subset
<1>6. ScrapeIsSound'
  <2>1. scrape.catalog # NULL =>
          /\ scrape.catalog.infohashes \in Nat /\ scrape.catalog.refs \in Nat
          /\ scrape.catalog.infohashes <= Cardinality(A) /\ scrape.catalog.refs <= Cardinality(C)
    BY <1>0 DEF ScrapeIsSound, CatalogGauges
  <2> HIDE DEF A, B, C, D
  <2>2. scrape.catalog # NULL =>
          /\ scrape.catalog.infohashes <= Cardinality(B) /\ scrape.catalog.refs <= Cardinality(D)
    BY <1>4, <1>5, <2>1
  <2> QED
    BY <1>0, <2>2 DEF ScrapeIsSound, B, D
<1> QED
  BY <1>1, <1>6

LEMMA WritesKeep ==
  ASSUME ReadsInv, Writes, TypeOK', \A i \in Infohashes : RowIsSound(i)'
  PROVE  ReadsInv'
<1>1. row' \in [Infohashes -> Row]
  BY DEF TypeOK
<1> QED
  BY <1>1, WalkSurvives, FeedSurvives, InspectionSurvives DEF ReadsInv

-----------------------------------------------------------------------------
(* The writers. *)

LEMMA IngestKeeps ==
  ASSUME ReadsInv, NEW i \in Infohashes, NEW d \in Dates, Ingest(i, d)
  PROVE  ReadsInv'
<1>0. TypeOK /\ (\A j \in Infohashes : RowIsSound(j)) /\ d \in Int /\ row[i] \in Row
      /\ reader \in Walk
  BY ReadsAssumption DEF ReadsInv, TypeOK
<1>1. PICK r \in Row : r = IF row[i].status = "absent" THEN New(d) ELSE Merged(row[i], d)
  BY <1>0, NewIsRow, MergedIsRow
<1>2. row' = [row EXCEPT ![i] = r]
  BY <1>1 DEF Ingest
<1>3. row'[i] = r /\ (\A j \in Infohashes : j # i => row'[j] = row[j])
      /\ row' \in [Infohashes -> Row]
  BY <1>0, <1>2 DEF TypeOK
<1>4. /\ clock' = clock /\ events' = events /\ submits' = submits
      /\ UNCHANGED <<role, feed, detail, scrape>>
  BY DEF Ingest
<1>5. PICK M \in SUBSET Infohashes : /\ reader.moved \subseteq M
                                     /\ reader.pc = "list" => i \in M
                                     /\ reader' = [reader EXCEPT !.moved = M]
  <2>1. reader.moved \in SUBSET Infohashes
    BY <1>0 DEF Walk
  <2> QED
    BY <2>1 DEF Ingest
<1>6. reader' \in Walk /\ reader'.moved = M
  BY <1>0, <1>5 DEF Walk
<1>7. /\ row[i].status = "absent" => r.status = "unmatched" /\ r.ref = NULL
      /\ row[i].status # "absent" => /\ r.status = row[i].status /\ r.ref = row[i].ref
                                     /\ r.matchedAt = row[i].matchedAt
                                     /\ r.published <= row[i].published
  BY <1>0, <1>1, NewIsRow, MergedIsRow
<1>8. TypeOK'
  BY <1>0, <1>3, <1>4, <1>6 DEF TypeOK
<1>9. RowsMove
  <2>1. \A j \in Infohashes : row[j].published <= row[j].published
    BY <1>0 DEF TypeOK, Row
  <2> QED
    BY <1>3, <1>4, <1>5, <1>6, <1>7, <2>1 DEF RowsMove
<1>10. Writes
  <2>1. clock <= clock'
    BY <1>0, <1>4 DEF TypeOK
  <2> QED
    BY <1>4, <1>5, <1>9, <2>1 DEF Writes
<1>11. \A j \in Infohashes : RowIsSound(j)'
  <2> SUFFICES ASSUME NEW j \in Infohashes
               PROVE  RowIsSound(j)'
    OBVIOUS
  <2>1. RowIsSound(j)
    BY <1>0
  <2>2. CASE j # i
    BY <1>3, <1>4, <2>1, <2>2 DEF RowIsSound
  <2>3. CASE j = i
    <3>1. events[i] \in Histories /\ Follows(row[i], events[i])
      BY <1>0, <2>1, <2>3 DEF TypeOK, RowIsSound
    <3>2. Follows(r, events[i])
      BY <1>0, <1>1, <2>1, <2>3, <3>1, IngestedFollows DEF RowIsSound
    <3>3. Follows(row'[i], events'[i])
      BY <1>3, <1>4, <3>2
    <3>4. /\ r.ref # NULL => r.status = "matched"
          /\ r.status = "matched" => r.matchedAt # NULL
          /\ r.status # "absent" /\ \A at \in submits[i] : at <= clock
      BY <1>7, <2>1, <2>3 DEF RowIsSound
    <3> QED
      BY <1>3, <1>4, <2>3, <3>3, <3>4 DEF RowIsSound
  <2> QED
    BY <2>2, <2>3
<1> QED
  BY <1>8, <1>10, <1>11, WritesKeep
(* A step that only begins or ends submits. *)
LEMMA SubmitsMove ==
  ASSUME ReadsInv, TypeOK', UNCHANGED <<clock, row, events, role, reader, feed, detail, scrape>>,
         \A j \in Infohashes : submits'[j] \subseteq submits[j] \cup {clock}
  PROVE  ReadsInv'
<1>0. TypeOK /\ (\A j \in Infohashes : RowIsSound(j)) /\ clock \in Int
  BY DEF ReadsInv, TypeOK
<1>1. \A j \in Infohashes : row[j].published <= row[j].published
  BY <1>0 DEF TypeOK, Row
<1>2. RowsMove
  BY <1>1 DEF RowsMove
<1>3. Writes
  BY <1>0, <1>2 DEF Writes
<1>4. \A j \in Infohashes : RowIsSound(j)'
  <2> SUFFICES ASSUME NEW j \in Infohashes
               PROVE  RowIsSound(j)'
    OBVIOUS
  <2>1. RowIsSound(j) /\ clock <= clock
    BY <1>0
  <2>2. \A at \in submits'[j] : at <= clock
    BY <2>1 DEF RowIsSound
  <2> QED
    BY <2>1, <2>2 DEF RowIsSound
<1> QED
  BY <1>3, <1>4, WritesKeep

LEMMA SubmitBeginKeeps ==
  ASSUME ReadsInv, NEW i \in Infohashes, SubmitBegin(i)
  PROVE  ReadsInv'
<1>0. TypeOK /\ (\A j \in Infohashes : RowIsSound(j)) /\ clock \in Int
  BY DEF ReadsInv, TypeOK
<1>1. /\ submits' = [submits EXCEPT ![i] = submits[i] \cup {clock}]
      /\ clock' = clock /\ row' = row /\ events' = events /\ reader' = reader
      /\ role' = role /\ feed' = feed /\ detail' = detail /\ scrape' = scrape
  BY DEF SubmitBegin
<1>2. \A j \in Infohashes : submits'[j] \subseteq submits[j] \cup {clock}
  BY <1>0, <1>1 DEF TypeOK
<1>3. TypeOK'
  <2>1. submits[i] \cup {clock} \in SUBSET Int
    BY <1>0 DEF TypeOK
  <2>2. submits' \in [Infohashes -> SUBSET Int]
    BY <1>0, <1>1, <2>1 DEF TypeOK
  <2> QED
    BY <1>0, <1>1, <2>2 DEF TypeOK
<1> QED
  BY <1>0, <1>1, <1>2, <1>3, SubmitsMove

(* Refused, or failed: its reading is gone. *)
LEMMA SubmitFailsKeeps ==
  ASSUME ReadsInv, NEW i \in Infohashes, NEW at \in submits[i], SubmitFails(i, at)
  PROVE  ReadsInv'
<1>0. TypeOK /\ (\A j \in Infohashes : RowIsSound(j)) /\ clock \in Int
  BY DEF ReadsInv, TypeOK
<1>1. /\ submits' = [submits EXCEPT ![i] = submits[i] \ {at}]
      /\ clock' = clock /\ row' = row /\ events' = events /\ reader' = reader
      /\ role' = role /\ feed' = feed /\ detail' = detail /\ scrape' = scrape
  BY DEF SubmitFails
<1>2. \A j \in Infohashes : submits'[j] \subseteq submits[j] \cup {clock}
  BY <1>0, <1>1 DEF TypeOK
<1>3. TypeOK'
  <2>1. submits[i] \ {at} \in SUBSET Int
    BY <1>0 DEF TypeOK
  <2>2. submits' \in [Infohashes -> SUBSET Int]
    BY <1>0, <1>1, <2>1 DEF TypeOK
  <2> QED
    BY <1>0, <1>1, <2>2 DEF TypeOK
<1> QED
  BY <1>0, <1>1, <1>2, <1>3, SubmitsMove

(* A row that was open becomes r, with history h and submits left.          *)
LEMMA SettleKeeps ==
  ASSUME ReadsInv, NEW i \in Infohashes, row[i].status = "unmatched",
         NEW r \in Row, NEW h \in Histories, NEW left \in SUBSET submits[i],
         Follows(r, h), r.status # "absent",
         r.ref # NULL => r.status = "matched",
         r.status = "matched" => r.matchedAt \in submits[i],
         row' = [row EXCEPT ![i] = r], events' = [events EXCEPT ![i] = h],
         submits' = [submits EXCEPT ![i] = left],
         UNCHANGED <<clock, role, reader, feed, detail, scrape>>
  PROVE  ReadsInv'
<1>0. TypeOK /\ (\A j \in Infohashes : RowIsSound(j)) /\ clock \in Int
      /\ submits[i] \in SUBSET Int /\ left \in SUBSET Int
  BY DEF ReadsInv, TypeOK
<1>1. /\ row'[i] = r /\ events'[i] = h /\ submits'[i] = left
      /\ \A j \in Infohashes : j # i => /\ row'[j] = row[j] /\ events'[j] = events[j]
                                        /\ submits'[j] = submits[j]
  BY <1>0 DEF TypeOK
<1>2. TypeOK'
  BY <1>0 DEF TypeOK
<1>3. RowsMove
  <2>1. \A j \in Infohashes : row[j].published <= row[j].published
    BY <1>0 DEF TypeOK, Row
  <2> QED
    BY <1>1, <2>1 DEF RowsMove
<1>4. Writes
  BY <1>0, <1>3 DEF Writes
<1>5. \A j \in Infohashes : RowIsSound(j)'
  <2> SUFFICES ASSUME NEW j \in Infohashes
               PROVE  RowIsSound(j)'
    OBVIOUS
  <2>1. CASE j # i
    BY <1>0, <1>1, <2>1 DEF RowIsSound
  <2>2. CASE j = i
    <3>1. Follows(row'[i], events'[i])
      BY <1>1
    <3>2. r.status = "matched" => r.matchedAt # NULL
      BY <1>0, NullAssumption
    <3>3. \A at \in left : at <= clock
      BY <1>0 DEF RowIsSound
    <3> QED
      BY <1>1, <2>2, <3>1, <3>2, <3>3 DEF RowIsSound
  <2> QED
    BY <2>1, <2>2
<1> QED
  BY <1>2, <1>4, <1>5, WritesKeep

LEMMA SubmitCommitKeeps ==
  ASSUME ReadsInv, NEW i \in Infohashes, NEW at \in submits[i], NEW s \in Answers,
         NEW cap \in Nat, NEW ref \in Refs \cup {NULL}, SubmitCommit(i, at, s, cap, ref)
  PROVE  ReadsInv'
<1>0. TypeOK /\ RowIsSound(i) /\ row[i] \in Row /\ events[i] \in Histories /\ at \in Int
      /\ row[i].status = "unmatched" /\ (ref # NULL <=> s = "matched")
  BY DEF ReadsInv, TypeOK, SubmitCommit
<1>1. PICK a \in Row : /\ a = Answered(row[i], s, cap, ref, at)
                       /\ a.status = FinalStatus(row[i], s, cap) /\ a.ref = ref
                       /\ a.matchedAt = IF s = "matched" THEN at ELSE row[i].matchedAt
  BY <1>0, AnsweredIsRow
<1>2. PICK e \in Event : /\ e = [status |-> FinalStatus(row[i], s, cap), at |-> at]
                         /\ e.status = FinalStatus(row[i], s, cap) /\ e.at = at
  <2>1. FinalStatus(row[i], s, cap) \in Statuses \ {"absent"}
    BY <1>0, FinalStatuses
  <2> DEFINE f == FinalStatus(row[i], s, cap)
             x == [status |-> f, at |-> at]
  <2>2. at \in Int /\ f \in Statuses \ {"absent"}
    BY <1>0, <2>1
  <2> HIDE DEF f
  <2>3. x \in Event /\ x.status = f /\ x.at = at
    BY <2>2 DEF Event
  <2> HIDE DEF x
  <2>4. \E y \in Event : y = x /\ y.status = f /\ y.at = at
    BY <2>3
  <2> QED
    BY <2>4 DEF x, f
<1>3. PICK h \in Histories : h = Append(events[i], e) /\ Follows(a, h)
  <2>1. Follows(row[i], events[i])
    BY <1>0 DEF RowIsSound
  <2>2. e \in Event /\ e.status = FinalStatus(row[i], s, cap) /\ e.at = at
    BY <1>2
  <2>3. /\ Append(events[i], e) \in Histories
        /\ Follows(Answered(row[i], s, cap, ref, at), Append(events[i], e))
    BY <1>0, <2>1, <2>2, AnsweredFollows
  <2> QED
    BY <1>1, <2>3
<1>4. /\ row' = [row EXCEPT ![i] = a] /\ events' = [events EXCEPT ![i] = h]
      /\ UNCHANGED <<clock, role, reader, feed, detail, scrape>>
  BY <1>1, <1>2, <1>3 DEF SubmitCommit
<1>5. PICK left \in SUBSET submits[i] : submits' = [submits EXCEPT ![i] = left]
  <2>1. PICK b \in {submits[i], submits[i] \ {at}} :
          submits' = [submits EXCEPT ![i] = StillOpen(row'[i], b)]
    BY DEF SubmitCommit
  <2>2. StillOpen(row'[i], b) \in SUBSET submits[i]
    BY DEF StillOpen
  <2> QED
    BY <2>1, <2>2
<1>6. a.status # "absent" /\ (a.status = "matched" <=> s = "matched")
  BY <1>0, <1>1, FinalStatuses
<1>7. /\ a.ref # NULL => a.status = "matched"
      /\ a.status = "matched" => a.matchedAt \in submits[i]
  BY <1>0, <1>1, <1>6
<1> QED
  BY <1>0, <1>3, <1>4, <1>5, <1>6, <1>7, SettleKeeps

LEMMA SweepKeeps ==
  ASSUME ReadsInv, NEW i \in Infohashes, NEW cap, Sweep(i, cap)
  PROVE  ReadsInv'
<1>0. TypeOK /\ RowIsSound(i) /\ row[i] \in Row /\ events[i] \in Histories
      /\ row[i].status = "unmatched"
  BY DEF ReadsInv, TypeOK, Sweep
<1>1. PICK x \in Row : /\ x = [row[i] EXCEPT !.status = "exhausted"] /\ x.status = "exhausted"
                       /\ x.ref = row[i].ref /\ Follows(x, events[i])
  BY <1>0, SweptFollows DEF RowIsSound
<1>2. /\ row' = [row EXCEPT ![i] = x] /\ events' = [events EXCEPT ![i] = events[i]]
      /\ UNCHANGED <<clock, role, reader, feed, detail, scrape>>
  BY <1>0, <1>1 DEF Sweep, TypeOK
<1>3. PICK left \in SUBSET submits[i] : submits' = [submits EXCEPT ![i] = left]
  BY DEF Sweep, StillOpen
<1>4. x.ref = NULL
  BY <1>0, <1>1 DEF RowIsSound
<1> QED
  BY <1>0, <1>1, <1>2, <1>3, <1>4, SettleKeeps

LEMMA TickKeeps ==
  ASSUME ReadsInv, Tick
  PROVE  ReadsInv'
<1>0. TypeOK /\ (\A j \in Infohashes : RowIsSound(j)) /\ clock \in Int
  BY DEF ReadsInv, TypeOK
<1>1. /\ clock < MaxClock /\ clock' = clock + 1
      /\ row' = row /\ events' = events /\ submits' = submits /\ reader' = reader
      /\ role' = role /\ feed' = feed /\ detail' = detail /\ scrape' = scrape
  BY DEF Tick
<1>2. TypeOK'
  BY <1>0, <1>1, ReadsAssumption DEF TypeOK
<1>3. \A j \in Infohashes : row[j].published <= row[j].published
  BY <1>0 DEF TypeOK, Row
<1>4. RowsMove
  BY <1>1, <1>3 DEF RowsMove
<1>5. Writes
  BY <1>0, <1>1, <1>4 DEF Writes
<1>6. \A j \in Infohashes : RowIsSound(j)'
  <2> SUFFICES ASSUME NEW j \in Infohashes
               PROVE  RowIsSound(j)'
    OBVIOUS
  <2>1. RowIsSound(j) /\ submits[j] \in SUBSET Int
    BY <1>0 DEF TypeOK
  <2>2. \A at \in submits[j] : at <= clock + 1
    BY <1>0, <2>1 DEF RowIsSound
  <2> QED
    BY <1>1, <2>1, <2>2 DEF RowIsSound
<1> QED
  BY <1>2, <1>5, <1>6, WritesKeep
-----------------------------------------------------------------------------
(* ListReleases. *)

(* The rows a call finds. *)
Hits(q, w) ==
  {i \in Infohashes : Selected(i, q) /\ (w.cursor = NULL \/ Behind(i, w.cursor))}

(* A walk that may ask for its next page, the first one included. *)
Ready(q, w) ==
  /\ q \in [ref: Refs \cup {NULL}, since: Int \cup {NULL}]
  /\ w \in Walk /\ w.limit >= 1
  /\ w.cursor # NULL => w.cursor.path = Path(q)
  /\ \A i \in w.got \cup w.expected : row[i].status = "matched"
  /\ \A i \in w.expected : Selected(i, q) => i \in w.got \/ i \in Hits(q, w)
  /\ \A i \in w.got : w.cursor = NULL \/ Behind(i, w.cursor) => i \in w.moved
  /\ w.twice \subseteq w.moved

(* A row is behind the cursor of a page's last row exactly if it comes      *)
(* after that row.                                                          *)
LEMMA BehindIsAfter ==
  ASSUME NEW c, NEW path, NEW l \in Infohashes, NEW i \in Infohashes,
         c.path = path, c.key = Key(l, path), c.ih = l,
         Key(l, path) \in Int, Key(i, path) \in Int
  PROVE  Behind(i, c) <=> Before(l, i, path)
<1>1. l \in Int /\ i \in Int
  BY ReadsAssumption
<1> QED
  BY <1>1 DEF Behind, Before

(* What a call leaves in the hands of the reader. *)
LEMMA ListOutcome ==
  ASSUME ReadsInv, NEW q, NEW w, Ready(q, w), List(q, w)
  PROVE  /\ reader' \in Walk /\ reader'.query = q
         /\ reader'.expected = w.expected /\ reader'.moved = w.moved
         /\ reader'.page \in SUBSET Hits(q, w)
         /\ reader'.got = w.got \cup reader'.page
         /\ reader'.twice = w.twice \cup (w.got \cap reader'.page)
         /\ Hits(q, w) # {} => reader'.page # {}
         /\ reader'.pc \in {"list", "done"}
         /\ reader'.pc = "done" => reader'.page = Hits(q, w)
         /\ reader'.pc = "list" =>
              /\ reader'.cursor \in Cursor /\ reader'.cursor # NULL
              /\ reader'.cursor.ref = q.ref /\ reader'.cursor.path = Path(q)
              /\ reader'.limit = w.limit /\ reader'.started = w.started
              /\ \A i \in Hits(q, w) : i \in reader'.page <=> ~Behind(i, reader'.cursor)
              /\ Hits(q, w) \ reader'.page # {}
              /\ \A i \in Infohashes :
                   row[i].status = "matched" /\ Behind(i, reader'.cursor)
                     => w.cursor = NULL \/ Behind(i, w.cursor)
         /\ feed' = IF role = "follow" THEN Follow(w, reader'.page, reader'.pc = "list") ELSE feed
         /\ UNCHANGED <<clock, row, events, submits, role, detail, scrape>>
<1> DEFINE path == Path(q)
           S == Hits(q, w)
           P == First(S, w.limit, path)
           l == Last(P, path)
           more == HasMore(S, w.limit)
           c == [ref |-> q.ref, path |-> path, key |-> Key(l, path), ih |-> l]
           d == IF more /\ P # {} THEN c ELSE NULL
<1>1. /\ w \in Walk /\ w.limit \in Nat /\ w.limit >= 1 /\ path \in {"catalog", "delta"}
      /\ q \in [ref: Refs \cup {NULL}, since: Int \cup {NULL}]
  BY DEF Ready, Walk, Path
<1>2. S \in SUBSET Infohashes /\ \A i \in S : row[i].status = "matched" /\ Key(i, path) \in Int
  <2>1. S \in SUBSET Infohashes /\ \A i \in S : row[i].status = "matched"
    BY DEF Hits, Selected
  <2> HIDE DEF S, path
  <2> QED
    BY <1>1, <2>1, KeysAreNumbers
<1>3. /\ P \in SUBSET S
      /\ \A i \in P, j \in S \ P : Before(i, j, path)
      /\ Cardinality(S) <= w.limit => P = S
      /\ Cardinality(S) > w.limit => S \ P # {}
      /\ S # {} => P # {}
  <2> HIDE DEF S, path
  <2> QED
    BY <1>1, <1>2, PageIsFirst
<1>4. more => S \ P # {} /\ P # {}
  BY <1>3 DEF HasMore
<1>5. ~more => P = S
  <2>1. Cardinality(S) \in Nat
    <3>1. IsFiniteSet(S)
      BY <1>2, FS_Subset, ReadsAssumption
    <3> QED
      BY <3>1, FS_CardinalityType
  <2> QED
    BY <1>1, <1>3, <2>1 DEF HasMore
<1>6. P # {} => l \in P /\ \A j \in P : j = l \/ Before(j, l, path)
  <2>1. P \in SUBSET Infohashes /\ \A i \in P : Key(i, path) \in Int
    BY <1>2, <1>3
  <2> HIDE DEF P, path
  <2> QED
    BY <2>1, LastIsBehind
<1>7. /\ reader' = [w EXCEPT !.pc = IF more THEN "list" ELSE "done",
                             !.query = q,
                             !.limit = IF more THEN @ ELSE 0,
                             !.started = IF more THEN @ ELSE 0,
                             !.cursor = d,
                             !.page = P,
                             !.got = @ \cup P,
                             !.twice = @ \cup (w.got \cap P)]
      /\ feed' = IF role = "follow" THEN Follow(w, P, more) ELSE feed
      /\ UNCHANGED <<clock, row, events, submits, role, detail, scrape>>
  BY DEF List, Hits
<1>8. more => d = c /\ c \in Cursor /\ c # NULL /\ l \in Infohashes /\ Key(l, path) \in Int
              /\ c.ref = q.ref /\ c.path = path /\ c.key = Key(l, path) /\ c.ih = l
  <2> SUFFICES ASSUME more
               PROVE  d = c /\ c \in Cursor /\ c # NULL /\ l \in Infohashes /\ Key(l, path) \in Int
                      /\ c.ref = q.ref /\ c.path = path /\ c.key = Key(l, path) /\ c.ih = l
    OBVIOUS
  <2>1. d = c
    BY <1>4
  <2>2. l \in Infohashes /\ Key(l, path) \in Int
    BY <1>2, <1>3, <1>4, <1>6
  <2>3. q.ref \in Refs \cup {NULL}
    BY <1>1
  <2>4. c \in Cursor /\ c.ref = q.ref /\ c.path = path /\ c.key = Key(l, path) /\ c.ih = l
    <3> HIDE DEF l, path
    <3> QED
      BY <1>1, <2>2, <2>3 DEF Cursor
  <2> QED
    BY <2>1, <2>2, <2>4, NullAssumption
<1>9. d \in Cursor \cup {NULL}
  <2> HIDE DEF c, more, P
  <2> QED
    BY <1>4, <1>8
<1> HIDE DEF d, more, P, S, c, l, path
<1>10. PICK n \in Nat, t \in Int, x \in {"list", "done"} :
         /\ n = IF more THEN w.limit ELSE 0
         /\ t = IF more THEN w.started ELSE 0
         /\ x = IF more THEN "list" ELSE "done"
  BY <1>1 DEF Walk
<1>11. reader' = [w EXCEPT !.pc = x, !.query = q, !.limit = n, !.started = t, !.cursor = d,
                           !.page = P, !.got = w.got \cup P, !.twice = w.twice \cup (w.got \cap P)]
  BY <1>7, <1>10
<1>12. /\ reader' \in Walk /\ reader'.query = q /\ reader'.pc = x
       /\ reader'.expected = w.expected /\ reader'.moved = w.moved
       /\ reader'.page = P /\ reader'.got = w.got \cup P
       /\ reader'.twice = w.twice \cup (w.got \cap P)
       /\ reader'.cursor = d /\ reader'.limit = n /\ reader'.started = t
  <2>1. P \in SUBSET Infohashes
    BY <1>2, <1>3
  <2> QED
    BY <1>1, <1>9, <1>10, <1>11, <2>1 DEF Walk
<1>13. more => /\ \A i \in S : i \in P <=> ~Behind(i, c)
               /\ \A i \in Infohashes :
                    row[i].status = "matched" /\ Behind(i, c)
                      => w.cursor = NULL \/ Behind(i, w.cursor)
  <2> SUFFICES ASSUME more
               PROVE  /\ \A i \in S : i \in P <=> ~Behind(i, c)
                      /\ \A i \in Infohashes :
                           row[i].status = "matched" /\ Behind(i, c)
                             => w.cursor = NULL \/ Behind(i, w.cursor)
    OBVIOUS
  <2>1. \A i \in Infohashes : row[i].status = "matched" => (Behind(i, c) <=> Before(l, i, path))
                                                           /\ Key(i, path) \in Int
    <3> TAKE i \in Infohashes
    <3> SUFFICES ASSUME row[i].status = "matched"
                 PROVE  (Behind(i, c) <=> Before(l, i, path)) /\ Key(i, path) \in Int
      OBVIOUS
    <3>1. Key(i, path) \in Int
      BY <1>1, KeysAreNumbers
    <3> QED
      BY <1>8, <3>1, BehindIsAfter
  <2>2. \A i \in S : i \in P <=> ~Before(l, i, path)
    BY <1>2, <1>3, <1>4, <1>6, BeforeOrders
  <2>3. \A i \in S : i \in P <=> ~Behind(i, c)
    BY <1>2, <2>1, <2>2
  <2>4. ASSUME NEW i \in Infohashes, row[i].status = "matched", Behind(i, c), w.cursor # NULL
        PROVE  Behind(i, w.cursor)
    <3>1. w.cursor \in Cursor /\ w.cursor.path = path
      BY <1>1, <2>4 DEF Walk, Ready, path
    <3>2. w.cursor.key \in Int /\ w.cursor.ih \in Int /\ i \in Int /\ l \in Int
      BY <1>8, <3>1, ReadsAssumption DEF Cursor
    <3>3. Before(l, i, path) /\ Key(i, path) \in Int
      BY <2>1, <2>4
    <3>4. Behind(l, w.cursor)
      BY <1>3, <1>4, <1>6, <2>4 DEF S, Hits
    <3> QED
      BY <1>8, <3>1, <3>2, <3>3, <3>4 DEF Behind, Before
  <2> QED
    BY <2>3, <2>4
<1>14. (reader'.pc = "list") <=> more
  BY <1>10, <1>12
<1>15. feed' = IF role = "follow" THEN Follow(w, reader'.page, reader'.pc = "list") ELSE feed
  BY <1>7, <1>12, <1>14 DEF Follow
<1> QED
  BY <1>3, <1>4, <1>5, <1>7, <1>8, <1>10, <1>12, <1>13, <1>14, <1>15 DEF S, path
LEMMA ListKeepsWalk ==
  ASSUME ReadsInv, NEW q, NEW w, Ready(q, w), List(q, w)
  PROVE  WalkIsSound' /\ NoSkip' /\ OnceUnlessMoved'
<1>0. /\ reader' \in Walk /\ reader'.query = q
      /\ reader'.expected = w.expected /\ reader'.moved = w.moved
      /\ reader'.page \in SUBSET Hits(q, w)
      /\ reader'.got = w.got \cup reader'.page
      /\ reader'.twice = w.twice \cup (w.got \cap reader'.page)
      /\ reader'.pc = "done" => reader'.page = Hits(q, w)
      /\ row' = row
  BY ListOutcome
<1>1. \A i \in Hits(q, w) : i \in Infohashes /\ row[i].status = "matched" /\ Selected(i, q)
  BY DEF Hits, Selected
<1>2. \A i : Selected(i, reader.query)' <=> Selected(i, q)
  BY <1>0 DEF Selected
<1>3. \A i \in (reader.got \cup reader.expected)' : row'[i].status = "matched"
  BY <1>0, <1>1 DEF Ready
<1>4. NoSkip'
  BY <1>0, <1>2 DEF NoSkip, Ready
<1>5. OnceUnlessMoved'
  BY <1>0 DEF OnceUnlessMoved, Ready, Hits
<1>6. CASE reader'.pc # "list"
  BY <1>3, <1>4, <1>5, <1>6 DEF WalkIsSound
<1>7. CASE reader'.pc = "list"
  <2>1. PICK c : c = reader'.cursor
    OBVIOUS
  <2>2. /\ c # NULL /\ c.ref = q.ref /\ c.path = Path(q) /\ reader'.limit = w.limit
        /\ \A i \in Hits(q, w) : i \in reader'.page <=> ~Behind(i, c)
        /\ Hits(q, w) \ reader'.page # {}
        /\ \A i \in Infohashes : row[i].status = "matched" /\ Behind(i, c)
                                   => w.cursor = NULL \/ Behind(i, w.cursor)
    BY <1>7, <2>1, ListOutcome
  <2>3. \A i : Behind(i, reader.cursor)' <=> Behind(i, c)
    BY <1>0, <2>1 DEF Behind, Key
  <2>4. \A i \in w.expected : Selected(i, q) => i \in reader'.got \/ Behind(i, c)
    BY <1>0, <2>2 DEF Ready
  <2>5. \A i \in reader'.got : Behind(i, c) => i \in w.moved
    <3> SUFFICES ASSUME NEW i \in reader'.got, Behind(i, c)
                 PROVE  i \in w.moved
      OBVIOUS
    <3>1. i \notin reader'.page
      BY <1>0, <2>2
    <3>2. i \in w.got /\ i \in Infohashes /\ row[i].status = "matched"
      BY <1>0, <3>1 DEF Ready, Walk
    <3>3. w.cursor = NULL \/ Behind(i, w.cursor)
      BY <2>2, <3>2
    <3> QED
      BY <3>2, <3>3 DEF Ready
  <2> QED
    BY <1>0, <1>1, <1>2, <1>3, <1>4, <1>5, <2>1, <2>2, <2>3, <2>4, <2>5
       DEF WalkIsSound, Ready, Path
<1> QED
  BY <1>6, <1>7
(* The poll of a follower, as its next call finds it. *)
FollowReady(q, w) ==
  role = "follow" =>
    /\ q = [ref |-> NULL, since |-> feed.mark]
    /\ w.started <= clock
    /\ w.got \subseteq feed.known
    /\ \A i \in Infohashes :
         /\ row[i].status = "matched" /\ row[i].matchedAt < w.started
              => i \in feed.known \cup w.expected
         /\ \A at \in submits[i] : at < w.started => i \in feed.known \/ w.cursor = NULL

LEMMA ListKeepsFeed ==
  ASSUME ReadsInv, NEW q, NEW w, Ready(q, w), FollowReady(q, w), List(q, w)
  PROVE  /\ FeedIsSound' /\ FeedMissesOnlyLate'
         /\ feed' \in [mark: Int, known: SUBSET Infohashes]
<1>0. /\ reader' \in Walk /\ reader'.query = q
      /\ reader'.expected = w.expected
      /\ reader'.page \in SUBSET Hits(q, w)
      /\ reader'.got = w.got \cup reader'.page
      /\ reader'.pc = "list" => reader'.started = w.started
      /\ reader'.pc = "done" => reader'.page = Hits(q, w)
      /\ reader'.pc \in {"list", "done"}
      /\ row' = row /\ submits' = submits /\ clock' = clock /\ role' = role
      /\ feed' = IF role = "follow" THEN Follow(w, reader'.page, reader'.pc = "list") ELSE feed
  BY ListOutcome
<1>1. /\ feed \in [mark: Int, known: SUBSET Infohashes] /\ FeedIsSound
      /\ clock \in Int /\ w \in Walk /\ w.started \in Int
      /\ Hits(q, w) \in SUBSET Infohashes
      /\ w.expected \in SUBSET Infohashes
  BY DEF ReadsInv, TypeOK, Ready, Walk, Hits
<1>2. CASE role # "follow"
  BY <1>0, <1>1, <1>2 DEF FeedIsSound, FeedMissesOnlyLate
<1>3. CASE role = "follow"
  <2>1. PICK K \in SUBSET Infohashes, m \in Int :
          /\ K = feed.known \cup reader'.page
                   \cup IF w.cursor # NULL THEN {} ELSE {i \in Infohashes : submits[i] # {}}
          /\ m = IF reader'.pc = "list" THEN feed.mark ELSE w.started - 1
          /\ feed' = [mark |-> m, known |-> K]
    <3> DEFINE A == feed.known \cup reader'.page
                      \cup IF w.cursor # NULL THEN {} ELSE {i \in Infohashes : submits[i] # {}}
               b == IF reader'.pc = "list" THEN feed.mark ELSE w.started - 1
    <3>1. A \in SUBSET Infohashes /\ b \in Int
      BY <1>0, <1>1
    <3>2. feed' = [mark |-> b, known |-> A]
      BY <1>0, <1>3 DEF Follow
    <3> QED
      BY <3>1, <3>2
  <2>2. feed'.mark = m /\ feed'.known = K /\ feed' \in [mark: Int, known: SUBSET Infohashes]
    BY <2>1
  <2>3. /\ q = [ref |-> NULL, since |-> feed.mark]
        /\ w.started <= clock /\ w.got \subseteq feed.known
        /\ \A i \in Infohashes :
             /\ row[i].status = "matched" /\ row[i].matchedAt < w.started
                  => i \in feed.known \cup w.expected
             /\ \A at \in submits[i] : at < w.started => i \in feed.known \/ w.cursor = NULL
    BY <1>3 DEF FollowReady
  <2>4. feed.mark < clock /\ KnownBefore(feed.mark + 1, feed.known)
    BY <1>1, <1>3 DEF FeedIsSound
  <2>5. feed.known \subseteq K /\ reader'.page \subseteq K
        /\ (w.cursor = NULL => \A i \in Infohashes : submits[i] # {} => i \in K)
    BY <2>1
  <2>6. \A i \in Infohashes : row[i].status = "matched" => row[i].matchedAt \in Int
    BY KeysAreNumbers
  <2>8. \A i \in Infohashes : \A at \in submits[i] : at < w.started => i \in K
    BY <2>3, <2>5
  <2>9. CASE reader'.pc = "list"
    <3>1. m = feed.mark
      BY <2>1, <2>9
    <3>2. KnownBefore(feed.mark + 1, feed.known)'
      BY <1>0, <2>2, <2>4, <2>5, <3>1 DEF KnownBefore
    <3>3. KnownBefore(reader.started, feed.known \cup reader.expected)'
      BY <1>0, <2>2, <2>3, <2>5, <2>8, <2>9 DEF KnownBefore
    <3>4. reader'.got \subseteq K
      BY <1>0, <2>3, <2>5
    <3> QED
      BY <1>0, <2>2, <2>3, <2>4, <2>9, <3>1, <3>2, <3>3, <3>4 DEF FeedIsSound, FeedMissesOnlyLate
  <2>10. CASE reader'.pc = "done"
    <3>1. m = w.started - 1 /\ reader'.page = Hits(q, w)
      BY <1>0, <2>1, <2>10
    <3>2. w.expected \subseteq K
      <4> SUFFICES ASSUME NEW i \in w.expected
                   PROVE  i \in K
        OBVIOUS
      <4>1. i \in Infohashes /\ row[i].status = "matched" /\ row[i].matchedAt \in Int
        BY <1>1, <2>6 DEF Ready
      <4>2. CASE row[i].matchedAt < feed.mark + 1
        BY <2>4, <2>5, <4>1, <4>2 DEF KnownBefore
      <4>3. CASE ~(row[i].matchedAt < feed.mark + 1)
        <5>1. q.ref = NULL /\ q.since = feed.mark /\ feed.mark \in Int
          BY <1>1, <2>3
        <5>2. row[i].matchedAt > feed.mark
          BY <4>1, <4>3, <5>1
        <5>3. Selected(i, q)
          BY <4>1, <5>1, <5>2 DEF Selected
        <5> QED
          BY <2>3, <2>5, <3>1, <5>3 DEF Ready
      <4> QED
        BY <4>2, <4>3
    <3>3. m + 1 = w.started /\ m < clock
      BY <1>1, <2>3, <3>1
    <3>4. KnownBefore(feed.mark + 1, feed.known)'
      BY <1>0, <2>2, <2>3, <2>5, <2>8, <3>2, <3>3 DEF KnownBefore
    <3> QED
      BY <1>0, <2>2, <2>10, <3>2, <3>3, <3>4 DEF FeedIsSound, FeedMissesOnlyLate
  <2> QED
    BY <1>0, <2>9, <2>10
<1> QED
  BY <1>2, <1>3

LEMMA ListKeeps ==
  ASSUME ReadsInv, NEW q, NEW w, Ready(q, w), FollowReady(q, w), List(q, w)
  PROVE  ReadsInv'
<1>1. /\ reader' \in Walk
      /\ clock' = clock /\ row' = row /\ events' = events /\ submits' = submits
      /\ role' = role /\ detail' = detail /\ scrape' = scrape
  BY ListOutcome
<1>2. TypeOK'
  BY <1>1, ListKeepsFeed DEF ReadsInv, TypeOK
<1>3. \A i \in Infohashes : RowIsSound(i)'
  BY <1>1 DEF ReadsInv, RowIsSound
<1>4. DetailIsSound' /\ DetailIsConsistent' /\ ScrapeIsSound' /\ GaugesAgree'
  BY <1>1 DEF ReadsInv, DetailIsSound, DetailIsConsistent, ScrapeIsSound, GaugesAgree, Follows
<1> QED
  BY <1>2, <1>3, <1>4, ListKeepsWalk, ListKeepsFeed DEF ReadsInv
LEMMA NoWalkIsFree ==
  /\ NoWalk \in Walk /\ NoWalk.pc = "idle" /\ NoWalk.cursor = NULL
  /\ NoWalk.got = {} /\ NoWalk.twice = {} /\ NoWalk.expected = {} /\ NoWalk.moved = {}
<1> QED
  BY DEF NoWalk, Walk

(* A query of either role is one a listing knows. *)
LEMMA QueryType ==
  ASSUME ReadsInv, NEW q \in Query
  PROVE  /\ q \in [ref: Refs \cup {NULL}, since: Int \cup {NULL}]
         /\ role = "follow" => q = [ref |-> NULL, since |-> feed.mark]
<1>1. feed.mark \in Int
  BY DEF ReadsInv, TypeOK
<1>2. CASE role = "follow"
  BY <1>1, <1>2 DEF Query
<1>3. CASE role # "follow"
  BY <1>3, ReadsAssumption DEF Query
<1> QED
  BY <1>2, <1>3

LEMMA ListFirstKeeps ==
  ASSUME ReadsInv, ListFirst
  PROVE  ReadsInv'
<1> DEFINE M == {i \in Infohashes : row[i].status = "matched"}
           z == NoWalk
<1>1. PICK q \in Query, n \in Limits :
        List(q, [NoWalk EXCEPT !.limit = ClampLimit(n), !.started = clock, !.expected = M])
  BY DEF ListFirst
<1>2. ClampLimit(n) \in Nat /\ ClampLimit(n) >= 1
  BY ReadsAssumption DEF ClampLimit
<1>3. PICK k \in Nat : k = ClampLimit(n) /\ k >= 1
  BY <1>2
<1>4. clock \in Int /\ M \in SUBSET Infohashes
  BY DEF ReadsInv, TypeOK
<1> DEFINE w == [z EXCEPT !.limit = k, !.started = clock, !.expected = M]
<1>5. List(q, w)
  BY <1>1, <1>3
<1> HIDE DEF z, M
<1>6. /\ w \in Walk /\ w.limit = k /\ w.started = clock /\ w.expected = M
      /\ w.cursor = NULL /\ w.got = {} /\ w.twice = {} /\ w.moved = {}
  BY <1>4, NoWalkIsFree DEF Walk, z
<1> HIDE DEF w
<1>7. q \in [ref: Refs \cup {NULL}, since: Int \cup {NULL}]
      /\ (role = "follow" => q = [ref |-> NULL, since |-> feed.mark])
  BY QueryType
<1>8. Ready(q, w)
  BY <1>3, <1>6, <1>7 DEF Ready, Hits, M
<1>9. clock <= clock
  BY <1>4
<1>10. FollowReady(q, w)
  BY <1>6, <1>7, <1>9 DEF FollowReady, M
<1> QED
  BY <1>5, <1>8, <1>10, ListKeeps

(* The reader resumes its own query: a cursor decodes for no other.         *)
LEMMA NextIsReady ==
  ASSUME ReadsInv, reader.pc = "list", NEW q \in Query,
         q.since = NULL \/ reader.query.since \in {NULL, q.since},
         Decodes(reader.cursor, q)
  PROVE  q = reader.query /\ Ready(q, reader) /\ FollowReady(q, reader)
<1>0. reader \in Walk /\ WalkIsSound /\ OnceUnlessMoved /\ FeedIsSound
  BY DEF ReadsInv, TypeOK
<1>1. /\ reader.cursor # NULL /\ reader.limit >= 1
      /\ reader.cursor.ref = reader.query.ref /\ reader.cursor.path = Path(reader.query)
      /\ \A i \in reader.expected :
           Selected(i, reader.query) => i \in reader.got \/ Behind(i, reader.cursor)
      /\ \A i \in reader.got : Behind(i, reader.cursor) => i \in reader.moved
  BY <1>0 DEF WalkIsSound
<1>2. reader.query \in [ref: Refs \cup {NULL}, since: Int \cup {NULL}]
  BY <1>0 DEF Walk
<1>3. q.ref = reader.query.ref /\ Path(q) = Path(reader.query)
  BY <1>1 DEF Decodes
<1>4. q.since = reader.query.since
  BY <1>3 DEF Path
<1>5. q = reader.query
  BY <1>2, <1>3, <1>4, QueryType
<1>6. Ready(q, reader)
  <2>1. \A i \in reader.got \cup reader.expected : row[i].status = "matched"
    BY <1>0 DEF WalkIsSound
  <2>2. \A i \in reader.expected : Selected(i, q) => i \in reader.got \/ i \in Hits(q, reader)
    BY <1>0, <1>1, <1>5 DEF Hits, Walk
  <2> QED
    BY <1>0, <1>1, <1>2, <1>5, <2>1, <2>2 DEF Ready, OnceUnlessMoved
<1>7. FollowReady(q, reader)
  <2>1. CASE role # "follow"
    BY <2>1 DEF FollowReady
  <2>2. CASE role = "follow"
    BY <1>0, <1>5, <2>2 DEF FollowReady, FeedIsSound, KnownBefore
  <2> QED
    BY <2>1, <2>2
<1> QED
  BY <1>5, <1>6, <1>7

LEMMA ListNextKeeps ==
  ASSUME ReadsInv, ListNext
  PROVE  ReadsInv' /\ reader'.page # {}
<1>1. PICK q \in Query : /\ q.since = NULL \/ reader.query.since \in {NULL, q.since}
                         /\ List(q, reader)
  BY DEF ListNext
<1>2. reader.pc = "list" /\ Decodes(reader.cursor, q)
  BY <1>1 DEF ListNext, List
<1>3. q = reader.query /\ Ready(q, reader) /\ FollowReady(q, reader)
  BY <1>1, <1>2, NextIsReady
<1>4. Hits(q, reader) # {}
  BY <1>2, <1>3 DEF ReadsInv, WalkIsSound, Hits
<1>5. reader'.page # {}
  BY <1>1, <1>3, <1>4, ListOutcome
<1> QED
  BY <1>1, <1>3, <1>5, ListKeeps
-----------------------------------------------------------------------------
(* GetRelease and the collector. *)

Scrape == [step: 0..2, catalog: CatalogGauges \cup {NULL}, queue: QueueGauges \cup {NULL}]

LEMMA InspectionKeeps ==
  ASSUME ReadsInv, UNCHANGED <<clock, row, events, submits, role, reader, feed>>,
         detail' \in Detail \cup {NULL}, scrape' \in Scrape,
         DetailIsSound', DetailIsConsistent', ScrapeIsSound', GaugesAgree'
  PROVE  ReadsInv'
<1>1. /\ clock' = clock /\ row' = row /\ events' = events /\ submits' = submits
      /\ role' = role /\ reader' = reader /\ feed' = feed
  OBVIOUS
<1>2. TypeOK'
  BY <1>1 DEF ReadsInv, TypeOK, Scrape
<1>3. \A i \in Infohashes : RowIsSound(i)'
  BY <1>1 DEF ReadsInv, RowIsSound
<1>4. WalkIsSound' /\ NoSkip' /\ OnceUnlessMoved'
  BY <1>1 DEF ReadsInv, WalkIsSound, NoSkip, OnceUnlessMoved, Selected, Behind, Key, Path
<1>5. FeedIsSound' /\ FeedMissesOnlyLate'
  BY <1>1 DEF ReadsInv, FeedIsSound, FeedMissesOnlyLate, KnownBefore
<1> QED
  BY <1>2, <1>3, <1>4, <1>5 DEF ReadsInv

(* A step of GetRelease leaves the scrape alone. *)
LEMMA DetailKeeps ==
  ASSUME ReadsInv, UNCHANGED <<clock, row, events, submits, role, reader, feed, scrape>>,
         detail' \in Detail \cup {NULL}, DetailIsSound', DetailIsConsistent'
  PROVE  ReadsInv'
<1>1. scrape' = scrape /\ row' = row /\ scrape \in Scrape
  BY DEF ReadsInv, TypeOK, Scrape
<1>2. ScrapeIsSound' /\ GaugesAgree'
  BY <1>1 DEF ReadsInv, ScrapeIsSound, GaugesAgree
<1> QED
  BY <1>1, <1>2, InspectionKeeps

LEMMA GetRowKeeps ==
  ASSUME ReadsInv, NEW i \in Infohashes, GetRow(i)
  PROVE  ReadsInv'
<1>1. /\ row[i] \in Row /\ events[i] \in Histories /\ Follows(row[i], events[i])
      /\ <<>> \in Histories
  BY DEF ReadsInv, TypeOK, RowIsSound, Histories
<1> DEFINE t == [ih |-> i, row |-> row[i], snapshot |-> events[i], events |-> <<>>,
                 complete |-> FALSE]
<1>a. t \in Detail
  BY <1>1 DEF Detail
<1>b. t.row = row[i] /\ t.snapshot = events[i]
  OBVIOUS
<1>c. t.complete = FALSE
  OBVIOUS
<1>d. GetRow(i) => detail' = t
  BY DEF GetRow
<1> HIDE DEF t
<1>2. PICK d \in Detail : d = t /\ d.row = row[i] /\ d.snapshot = events[i] /\ ~d.complete
  BY <1>a, <1>b, <1>c
<1>3. detail' = d /\ row[i].status # "absent"
  BY <1>2, <1>d DEF GetRow
<1>4. DetailIsSound' /\ DetailIsConsistent'
  BY <1>1, <1>2, <1>3 DEF DetailIsSound, DetailIsConsistent
<1>5. UNCHANGED <<clock, row, events, submits, role, reader, feed, scrape>>
  BY DEF GetRow
<1> QED
  BY <1>3, <1>4, <1>5, DetailKeeps

LEMMA GetEventsKeeps ==
  ASSUME ReadsInv, GetEvents
  PROVE  ReadsInv'
<1>1. /\ detail \in Detail /\ detail # NULL /\ DetailIsSound /\ detail.snapshot \in Histories
  BY DEF ReadsInv, TypeOK, GetEvents, Detail
<1>2. PICK p \in Bijection(1..Len(detail.snapshot), 1..Len(detail.snapshot)) :
        detail' = [detail EXCEPT !.events = Listed(detail.snapshot, p), !.complete = TRUE]
  BY DEF GetEvents, ReadEvents, Listings
<1>4. Follows(detail.row, detail.snapshot)
  BY <1>1 DEF DetailIsSound
<1>a. PICK g \in Histories : g = Listed(detail.snapshot, p) /\ Follows(detail.row, g)
  BY <1>1, <1>4, ListedFollows
<1>3. /\ detail' \in Detail /\ detail'.row = detail.row
      /\ detail'.snapshot = detail.snapshot /\ detail'.events = g
  BY <1>1, <1>2, <1>a DEF Detail
<1>5. DetailIsSound'
  BY <1>3, <1>4 DEF DetailIsSound
<1>6. DetailIsConsistent'
  BY <1>3, <1>a DEF DetailIsConsistent
<1>7. UNCHANGED <<clock, row, events, submits, role, reader, feed, scrape>>
  BY DEF GetEvents
<1> QED
  BY <1>3, <1>5, <1>6, <1>7, DetailKeeps

LEMMA GetDoneKeeps ==
  ASSUME ReadsInv, GetDone
  PROVE  ReadsInv'
<1>1. detail' = NULL /\ UNCHANGED <<clock, row, events, submits, role, reader, feed, scrape>>
  BY DEF GetDone
<1>2. DetailIsSound' /\ DetailIsConsistent'
  BY <1>1 DEF DetailIsSound, DetailIsConsistent
<1> QED
  BY <1>1, <1>2, DetailKeeps

(* The first statement counts what there is, and no more refs than matches. *)
LEMMA CatalogCounts ==
  ASSUME ReadsInv
  PROVE  /\ CatalogStats \in CatalogGauges
         /\ CatalogStats.infohashes = Cardinality({i \in Infohashes : row[i].status # "absent"})
         /\ CatalogStats.refs <= Cardinality({i \in Infohashes : row[i].status = "matched"})
<1> DEFINE A == {i \in Infohashes : row[i].status # "absent"}
           M == {i \in Infohashes : row[i].status = "matched"}
           N == {i \in Infohashes : row[i].ref # NULL}
           R == {row[i].ref : i \in Infohashes} \ {NULL}
           f == [i \in N |-> row[i].ref]
<1>1. IsFiniteSet(A) /\ IsFiniteSet(M) /\ IsFiniteSet(N)
  BY FS_Subset, ReadsAssumption
<1>2. N \in SUBSET M
  BY DEF ReadsInv, RowIsSound
<1>3. f \in Surjection(N, R)
  BY DEF Surjection
<1>4. IsFiniteSet(R) /\ Cardinality(R) <= Cardinality(N)
  BY <1>1, <1>3, FS_Surjection
<1>5. Cardinality(N) <= Cardinality(M)
  BY <1>1, <1>2, FS_Subset
<1>6. Cardinality(A) \in Nat /\ Cardinality(M) \in Nat /\ Cardinality(N) \in Nat
      /\ Cardinality(R) \in Nat
  BY <1>1, <1>4, FS_CardinalityType
<1>7. CatalogStats = [infohashes |-> Cardinality(A), refs |-> Cardinality(R)]
  BY DEF CatalogStats
<1> HIDE DEF A, M, N, R
<1>8. Cardinality(R) <= Cardinality(M)
  BY <1>4, <1>5, <1>6
<1> QED
  BY <1>6, <1>7, <1>8 DEF CatalogGauges, A, M

LEMMA DisjointCount ==
  ASSUME NEW S, NEW T, IsFiniteSet(S), IsFiniteSet(T), S \cap T = {}
  PROVE  IsFiniteSet(S \cup T) /\ Cardinality(S \cup T) = Cardinality(S) + Cardinality(T)
<1>1. Cardinality(S \cap T) = 0 /\ Cardinality(S) \in Nat /\ Cardinality(T) \in Nat
  BY FS_EmptySet, FS_CardinalityType
<1>2. /\ IsFiniteSet(S \cup T)
      /\ Cardinality(S \cup T) = Cardinality(S) + Cardinality(T) - Cardinality(S \cap T)
  BY FS_Union
<1> QED
  BY <1>1, <1>2

(* The second statement counts every row once. *)
LEMMA QueueCounts ==
  ASSUME ReadsInv
  PROVE  /\ QueueStats \in QueueGauges
         /\ QueueStats["matched"] = Cardinality({i \in Infohashes : row[i].status = "matched"})
         /\ QueueStats["unmatched"] + QueueStats["matched"] + QueueStats["suppressed"]
              + QueueStats["exhausted"]
              = Cardinality({i \in Infohashes : row[i].status # "absent"})
<1> DEFINE I(s) == {i \in Infohashes : row[i].status = s}
           A == {i \in Infohashes : row[i].status # "absent"}
           U == I("unmatched") \cup I("matched")
           V == U \cup I("suppressed")
           W == V \cup I("exhausted")
<1>1. \A s : IsFiniteSet(I(s)) /\ Cardinality(I(s)) \in Nat
  <2> TAKE s
  <2>1. IsFiniteSet(I(s))
    BY FS_Subset, ReadsAssumption
  <2> QED
    BY <2>1, FS_CardinalityType
<1>2. A = W
  BY DEF ReadsInv, TypeOK, Row, Statuses
<1>3. /\ I("unmatched") \cap I("matched") = {} /\ U \cap I("suppressed") = {}
      /\ V \cap I("exhausted") = {}
  OBVIOUS
<1>4. \A s \in Statuses \ {"absent"} : QueueStats[s] = Cardinality(I(s))
  BY DEF QueueStats
<1>5. QueueStats \in QueueGauges
  <2> HIDE DEF I
  <2>1. QueueStats = [s \in Statuses \ {"absent"} |-> Cardinality(I(s))]
    BY DEF QueueStats, I
  <2> QED
    BY <1>1, <2>1 DEF QueueGauges
<1> HIDE DEF I
<1>6. IsFiniteSet(U) /\ Cardinality(U) = Cardinality(I("unmatched")) + Cardinality(I("matched"))
  BY <1>1, <1>3, DisjointCount
<1> HIDE DEF U
<1>7. IsFiniteSet(V) /\ Cardinality(V) = Cardinality(U) + Cardinality(I("suppressed"))
  BY <1>1, <1>3, <1>6, DisjointCount
<1> HIDE DEF V
<1>8. Cardinality(W) = Cardinality(V) + Cardinality(I("exhausted"))
  BY <1>1, <1>3, <1>7, DisjointCount
<1>9. /\ QueueStats["unmatched"] = Cardinality(I("unmatched"))
      /\ QueueStats["matched"] = Cardinality(I("matched"))
      /\ QueueStats["suppressed"] = Cardinality(I("suppressed"))
      /\ QueueStats["exhausted"] = Cardinality(I("exhausted"))
  BY <1>4 DEF Statuses
<1>10. Cardinality(A) = Cardinality(W)
  BY <1>2
<1> HIDE DEF A, W
<1> QED
  BY <1>1, <1>5, <1>6, <1>7, <1>8, <1>9, <1>10 DEF A, I
(* A scrape with its next part filled in. *)
LEMMA ScrapeRecord ==
  ASSUME NEW S, NEW C, NEW Q, NEW s \in [step: S, catalog: C, queue: Q], NEW n \in S
  PROVE  /\ \A g \in C : LET t == [s EXCEPT !.step = n, !.catalog = g]
                          IN  /\ t \in [step: S, catalog: C, queue: Q]
                              /\ t.step = n /\ t.catalog = g /\ t.queue = s.queue
         /\ \A g \in Q : LET t == [s EXCEPT !.step = n, !.queue = g]
                          IN  /\ t \in [step: S, catalog: C, queue: Q]
                              /\ t.step = n /\ t.queue = g /\ t.catalog = s.catalog
OBVIOUS

(* The catalog's statement, which may fail. *)
LEMMA ScrapeCatalogKeeps ==
  ASSUME ReadsInv, ScrapeStep, scrape.step = 0
  PROVE  ReadsInv'
<1>1. /\ scrape \in Scrape /\ ScrapeIsSound
      /\ scrape.catalog = NULL /\ scrape.queue = NULL
  BY DEF ReadsInv, TypeOK, Scrape, ScrapeIsSound
<1>2. PICK g \in {NULL, CatalogStats} : scrape' = [scrape EXCEPT !.step = @ + 1, !.catalog = g]
  BY DEF ScrapeStep, Collect
<1>3. g \in CatalogGauges \cup {NULL}
  BY CatalogCounts
<1>4. /\ scrape' \in Scrape /\ scrape'.step = 1 /\ scrape'.catalog = g
      /\ scrape'.queue = NULL
  <2> DEFINE C == CatalogGauges \cup {NULL}
             Q == QueueGauges \cup {NULL}
  <2>1. scrape' = [scrape EXCEPT !.step = 1, !.catalog = g] /\ g \in C
    BY <1>2, <1>3
  <2>2. scrape \in [step: 0..2, catalog: C, queue: Q]
    BY <1>1 DEF Scrape
  <2>a. Scrape = [step: 0..2, catalog: C, queue: Q]
    BY DEF Scrape
  <2>b. 1 \in 0..2
    OBVIOUS
  <2> HIDE DEF C, Q
  <2>3. /\ scrape' \in [step: 0..2, catalog: C, queue: Q]
        /\ scrape'.step = 1 /\ scrape'.catalog = g /\ scrape'.queue = scrape.queue
    BY <2>1, <2>2, <2>b, ScrapeRecord
  <2> QED
    BY <1>1, <2>a, <2>3
<1>5. /\ row' = row /\ detail' = detail /\ detail \in Detail \cup {NULL}
      /\ UNCHANGED <<clock, row, events, submits, role, reader, feed>>
  BY DEF ScrapeStep, ReadsInv, TypeOK
<1>6. DetailIsSound' /\ DetailIsConsistent'
  BY <1>5 DEF ReadsInv, DetailIsSound, DetailIsConsistent
<1>7. GaugesAgree'
  BY <1>4 DEF GaugesAgree
<1>8. g # NULL =>
        /\ g.infohashes <= Cardinality({i \in Infohashes : row[i].status # "absent"})
        /\ g.refs <= Cardinality({i \in Infohashes : row[i].status = "matched"})
  <2>1. CatalogStats.infohashes \in Nat
    BY CatalogCounts DEF CatalogGauges
  <2> QED
    BY <2>1, CatalogCounts
<1>9. ScrapeIsSound'
  BY <1>4, <1>5, <1>8 DEF ScrapeIsSound
<1> QED
  BY <1>4, <1>5, <1>6, <1>7, <1>9, InspectionKeeps

(* The queue's, which may fail too: what the catalog counted is still there. *)
LEMMA ScrapeQueueKeeps ==
  ASSUME ReadsInv, ScrapeStep, scrape.step = 1
  PROVE  ReadsInv'
<1>1. /\ scrape \in Scrape /\ ScrapeIsSound /\ scrape.queue = NULL
  BY DEF ReadsInv, TypeOK, Scrape, ScrapeIsSound
<1>2. PICK g \in {NULL, QueueStats} : scrape' = [scrape EXCEPT !.step = @ + 1, !.queue = g]
  BY DEF ScrapeStep, Collect
<1>3. g \in QueueGauges \cup {NULL}
  BY QueueCounts
<1>4. /\ scrape' \in Scrape /\ scrape'.step = 2 /\ scrape'.catalog = scrape.catalog
      /\ scrape'.queue = g
  <2> DEFINE C == CatalogGauges \cup {NULL}
             Q == QueueGauges \cup {NULL}
  <2>1. scrape' = [scrape EXCEPT !.step = 2, !.queue = g] /\ g \in Q
    BY <1>2, <1>3
  <2>2. scrape \in [step: 0..2, catalog: C, queue: Q]
    BY <1>1 DEF Scrape
  <2>a. Scrape = [step: 0..2, catalog: C, queue: Q]
    BY DEF Scrape
  <2>b. 2 \in 0..2
    OBVIOUS
  <2> HIDE DEF C, Q
  <2>3. /\ scrape' \in [step: 0..2, catalog: C, queue: Q]
        /\ scrape'.step = 2 /\ scrape'.queue = g /\ scrape'.catalog = scrape.catalog
    BY <2>1, <2>2, <2>b, ScrapeRecord
  <2> QED
    BY <1>1, <2>a, <2>3
<1>5. /\ row' = row /\ detail' = detail /\ detail \in Detail \cup {NULL}
      /\ UNCHANGED <<clock, row, events, submits, role, reader, feed>>
  BY DEF ScrapeStep, ReadsInv, TypeOK
<1>6. DetailIsSound' /\ DetailIsConsistent'
  BY <1>5 DEF ReadsInv, DetailIsSound, DetailIsConsistent
<1>7. ScrapeIsSound'
  BY <1>1, <1>4, <1>5 DEF ScrapeIsSound
<1>8. GaugesAgree'
  <2> SUFFICES ASSUME scrape.catalog # NULL, g # NULL
               PROVE  /\ scrape.catalog.infohashes <=
                           g["unmatched"] + g["matched"] + g["suppressed"] + g["exhausted"]
                      /\ scrape.catalog.refs <= g["matched"]
    BY <1>4 DEF GaugesAgree
  <2>1. g = QueueStats
    OBVIOUS
  <2> QED
    BY <1>1, <2>1, QueueCounts DEF ScrapeIsSound
<1> QED
  BY <1>4, <1>5, <1>6, <1>7, <1>8, InspectionKeeps

LEMMA NoScrapeIsSound ==
  /\ NoScrape \in Scrape /\ NoScrape.step = 0
  /\ NoScrape.catalog = NULL /\ NoScrape.queue = NULL
BY DEF NoScrape, Scrape

LEMMA ScrapeDoneKeeps ==
  ASSUME ReadsInv, ScrapeDone
  PROVE  ReadsInv'
<1>1. scrape' = NoScrape
  BY DEF ScrapeDone
<1>2. /\ detail' = detail /\ detail \in Detail \cup {NULL}
      /\ UNCHANGED <<clock, row, events, submits, role, reader, feed>>
  BY DEF ScrapeDone, ReadsInv, TypeOK
<1>3. DetailIsSound' /\ DetailIsConsistent'
  BY <1>2 DEF ReadsInv, DetailIsSound, DetailIsConsistent
<1>4. ScrapeIsSound' /\ GaugesAgree' /\ scrape' \in Scrape
  BY <1>1, NoScrapeIsSound DEF ScrapeIsSound, GaugesAgree
<1> QED
  BY <1>2, <1>3, <1>4, InspectionKeeps

(* Before anything happened. *)
LEMMA InitReads ==
  ASSUME Init
  PROVE  ReadsInv
<1>1. /\ NoRow \in Row /\ NoRow.status = "absent" /\ NoRow.ref = NULL /\ NoRow.attempts = 0
  BY DEF NoRow, Row, Statuses
<1>2. /\ NoWalk \in Walk /\ NoWalk.pc = "idle"
      /\ NoWalk.got = {} /\ NoWalk.twice = {} /\ NoWalk.expected = {}
  BY DEF NoWalk, Walk
<1>3. feed \in [mark: Int, known: SUBSET Infohashes] /\ feed.mark = -1 /\ clock = 0
  BY DEF Init
<1>4. \A i \in Infohashes : row[i] = NoRow /\ events[i] = <<>> /\ submits[i] = {}
  BY DEF Init
<1>5. reader = NoWalk /\ scrape = NoScrape /\ detail = NULL
  BY DEF Init
<1>6. TypeOK
  <2>1. row \in [Infohashes -> Row] /\ submits \in [Infohashes -> SUBSET Int]
    BY <1>1 DEF Init
  <2>2. <<>> \in Histories /\ events \in [Infohashes -> Histories]
    BY DEF Init, Histories
  <2>3. clock \in 0..MaxClock /\ role \in Roles
    BY ReadsAssumption DEF Init
  <2>4. scrape \in Scrape
    BY <1>5, NoScrapeIsSound
  <2> QED
    BY <1>2, <1>3, <1>5, <2>1, <2>2, <2>3, <2>4 DEF TypeOK, Scrape
<1>7. \A i \in Infohashes : RowIsSound(i)
  <2>1. Cardinality({n \in 1..Len(<<>>) : Failed(<<>>[n].status)}) = 0
    <3>1. {n \in 1..Len(<<>>) : Failed(<<>>[n].status)} = {}
      OBVIOUS
    <3> QED
      BY <3>1, FS_EmptySet
  <2>2. Follows(NoRow, <<>>)
    BY <1>1, <2>1 DEF Follows
  <2> QED
    BY <1>1, <1>4, <2>2 DEF RowIsSound
<1>8. DetailIsSound /\ DetailIsConsistent /\ ScrapeIsSound /\ GaugesAgree
  BY <1>5, NoScrapeIsSound DEF DetailIsSound, DetailIsConsistent, ScrapeIsSound, GaugesAgree
<1>9. WalkIsSound /\ NoSkip /\ OnceUnlessMoved /\ FeedMissesOnlyLate
  BY <1>2, <1>5 DEF WalkIsSound, NoSkip, OnceUnlessMoved, FeedMissesOnlyLate
<1>10. FeedIsSound
  BY <1>1, <1>2, <1>3, <1>4, <1>5 DEF FeedIsSound, KnownBefore
<1> QED
  BY <1>6, <1>7, <1>8, <1>9, <1>10 DEF ReadsInv

(* Every step. *)
LEMMA NextReads ==
  ASSUME ReadsInv, [Next]_vars
  PROVE  ReadsInv'
<1>1. CASE Next
  <2>0. /\ Scope[role].releases \subseteq Infohashes
        /\ Scope[role].caps \subseteq Nat
    BY ReadsAssumption DEF ReadsInv, TypeOK
  <2>1. ASSUME NEW i \in Infohashes, NEW d \in Dates, Ingest(i, d)
        PROVE  ReadsInv'
    BY <2>1, IngestKeeps
  <2>2. ASSUME NEW i \in Infohashes, SubmitBegin(i)
        PROVE  ReadsInv'
    BY <2>2, SubmitBeginKeeps
  <2>3. ASSUME NEW i \in Infohashes, NEW at \in submits[i], Submit(i, at)
        PROVE  ReadsInv'
    <3>1. ASSUME NEW s \in {"matched", "unmatched", "suppressed"}, NEW cap \in Scope[role].caps,
                 NEW ref \in Refs \cup {NULL}, SubmitCommit(i, at, s, cap, ref)
          PROVE  ReadsInv'
      BY <2>0, <3>1, SubmitCommitKeeps DEF Answers
    <3>2. CASE SubmitFails(i, at)
      BY <3>2, SubmitFailsKeeps
    <3> QED
      BY <2>3, <3>1, <3>2 DEF Submit
  <2>12. ASSUME NEW i \in Infohashes, NEW cap \in Scope[role].caps, Sweep(i, cap)
         PROVE  ReadsInv'
    BY <2>12, SweepKeeps
  <2>4. ASSUME NEW i \in Infohashes, GetRow(i)
        PROVE  ReadsInv'
    BY <2>4, GetRowKeeps
  <2>5. CASE ListFirst
    BY <2>5, ListFirstKeeps
  <2>6. CASE ListNext
    BY <2>6, ListNextKeeps
  <2>7. CASE GetEvents
    BY <2>7, GetEventsKeeps
  <2>8. CASE GetDone
    BY <2>8, GetDoneKeeps
  <2>9. CASE ScrapeStep
    <3>1. scrape.step = 0 \/ scrape.step = 1
      BY <2>9 DEF ScrapeStep, ReadsInv, TypeOK
    <3> QED
      BY <2>9, <3>1, ScrapeCatalogKeeps, ScrapeQueueKeeps
  <2>10. CASE ScrapeDone
    BY <2>10, ScrapeDoneKeeps
  <2>11. CASE Tick
    BY <2>11, TickKeeps
  <2> QED
    BY <1>1, <2>0, <2>1, <2>2, <2>3, <2>4, <2>5, <2>6, <2>7, <2>8, <2>9, <2>10, <2>11, <2>12 DEF Next
<1>2. CASE UNCHANGED vars
  <2>1. /\ scrape' = scrape /\ row' = row /\ detail' = detail
        /\ detail \in Detail \cup {NULL}
        /\ UNCHANGED <<clock, row, events, submits, role, reader, feed, scrape>>
    BY <1>2 DEF vars, ReadsInv, TypeOK
  <2>2. DetailIsSound' /\ DetailIsConsistent'
    BY <2>1 DEF ReadsInv, DetailIsSound, DetailIsConsistent
  <2> QED
    BY <2>1, <2>2, DetailKeeps
<1> QED
  BY <1>1, <1>2

(* The invariant of the read side: whatever commits between two statements  *)
(* of a reader, rows, histories, walk, feed, detail and gauges stay in step *)
(* (store.go:277, 452, 577, metrics.go:321).                                *)
THEOREM ReadsHold == Spec => []ReadsInv
<1>1. Init => ReadsInv
  BY InitReads
<1>2. ReadsInv /\ [Next]_vars => ReadsInv'
  BY NextReads
<1> QED
  BY <1>1, <1>2, PTL DEF Spec

(* Paging through the catalog or the delta skips no release that was        *)
(* matched when the walk began (cursor.go:72, store.go:487).                *)
THEOREM NothingSkipped == Spec => []NoSkip
<1>1. ReadsInv => NoSkip
  BY DEF ReadsInv
<1> QED
  BY <1>1, ReadsHold, PTL

(* A release is on two pages of one walk only if an ingest moved it         *)
(* (cursor.go:72).                                                          *)
THEOREM ListedOnce == Spec => []OnceUnlessMoved
<1>1. ReadsInv => OnceUnlessMoved
  BY DEF ReadsInv
<1> QED
  BY <1>1, ReadsHold, PTL

(* One who polls with `since` misses only what was being submitted while an *)
(* earlier poll began (store.go:305, 354).                                  *)
THEOREM FeedIsComplete == Spec => []FeedMissesOnlyLate
<1>1. ReadsInv => FeedMissesOnlyLate
  BY DEF ReadsInv
<1> QED
  BY <1>1, ReadsHold, PTL

(* The gauges of one scrape agree although the statements are apart         *)
(* (metrics.go:321).                                                        *)
THEOREM GaugesHold == Spec => []GaugesAgree
<1>1. ReadsInv => GaugesAgree
  BY DEF ReadsInv
<1> QED
  BY <1>1, ReadsHold, PTL

(* GetRelease returns a row with the history that led to it, in whatever    *)
(* order the stamps of overlapping submits put it (store.go:590, 635).      *)
THEOREM DetailHolds == Spec => []DetailIsConsistent
<1>1. ReadsInv => DetailIsConsistent
  BY DEF ReadsInv
<1> QED
  BY <1>1, ReadsHold, PTL

(* The page behind a next_cursor is never empty (store.go:518). *)
THEOREM CursorLeads == Spec => CursorLeadsOn
<1>1. ASSUME ReadsInv, [Next]_vars
      PROVE  [reader.pc = "list" /\ reader'.pc \in {"list", "done"}
                /\ (reader'.query # reader.query \/ reader'.cursor # reader.cursor)
              => reader'.page # {}]_vars
  <2> SUFFICES ASSUME Next, reader.pc = "list",
                      reader'.query # reader.query \/ reader'.cursor # reader.cursor
               PROVE  reader'.page # {}
    BY <1>1
  <2>0. Scope[role].releases \subseteq Infohashes
    BY <1>1, ReadsAssumption DEF ReadsInv, TypeOK
  <2>1. CASE ListNext
    BY <1>1, <2>1, ListNextKeeps
  <2>2. CASE ListFirst
    BY <2>2 DEF ListFirst
  <2>3. ASSUME NEW i \in Infohashes, NEW d \in Dates, Ingest(i, d)
        PROVE  reader'.query = reader.query /\ reader'.cursor = reader.cursor
    BY <1>1, <2>3 DEF Ingest, ReadsInv, TypeOK, Walk
  <2>4. CASE ~ListNext /\ ~ListFirst /\ ~\E i \in Infohashes, d \in Dates : Ingest(i, d)
    <3>1. reader' = reader
      BY <2>0, <2>4 DEF Next, SubmitBegin, Submit, SubmitCommit, SubmitFails, Sweep, GetRow, GetEvents, GetDone, ScrapeStep,
                  ScrapeDone, Tick
    <3> QED
      BY <3>1
  <2> QED
    BY <2>1, <2>2, <2>3, <2>4
<1> QED
  BY <1>1, ReadsHold, PTL DEF Spec, CursorLeadsOn
=============================================================================
