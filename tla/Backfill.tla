------------------------------ MODULE Backfill -----------------------------
(***************************************************************************)
(* A backfill loop over POST /crawl (integrations/n8n/README.md; the        *)
(* Takuhai Crawler action node): call, keep the posts, stop when has_more   *)
(* is false, else call again with next_cursor; a failed call is repeated    *)
(* with the cursor it had.                                                  *)
(***************************************************************************)
EXTENDS Crawl

CONSTANTS
  PageSizes,    \* page_size of a request
  Lookbacks,    \* lookback of a pass: [weeks, days, rest], a rest below 0
                \*   stands for text that does not parse
  Week, Day,    \* in instants of the model
  SpanHalf      \* time.Duration holds -SpanHalf .. SpanHalf - 1

ASSUME BackfillAssumption ==
  /\ PageSizes \subseteq Int
  /\ Lookbacks \subseteq [weeks: Nat, days: Nat, rest: Int]
  /\ Week \in Nat \ {0} /\ Day \in Nat \ {0} /\ SpanHalf \in Nat \ {0}

VARIABLES
  pass,      \* [pc, cursor, lookback, called]: instant of the last call
  expected,  \* posts listed when the pass began
  got,       \* posts received
  moved      \* has the listing moved since the pass began

backfillVars == <<clock, listing, cache, failures, walk, pass, expected, got, moved>>

(* The engine, the pass and what it received. *)
BackfillTypeOK ==
  /\ CrawlTypeOK
  /\ pass \in [pc: {"run", "refused", "done"}, cursor: Cursors, lookback: Lookbacks,
              called: Nat]
  /\ expected \subseteq Post /\ got \subseteq Post /\ moved \in BOOLEAN

NewPass(l) == [pc |-> "run", cursor |-> NoCursor, lookback |-> l, called |-> 0]

BackfillInit ==
  /\ CrawlInit
  /\ \E l \in Lookbacks : pass = NewPass(l)
  /\ expected = Listed
  /\ got = {}
  /\ moved = FALSE

Malformed(l) == l.rest < 0

(* What the text says. *)
Meant(l) == l.weeks * Week + l.days * Day + l.rest

\* Mutant: weeks are taken for days.
ParseLookback_Days(l) ==
  ((l.weeks * Day + l.days * Day + l.rest + SpanHalf) % (2 * SpanHalf)) - SpanHalf

(* What int64 nanoseconds make of it. *)
ParseLookback(l) == ((Meant(l) + SpanHalf) % (2 * SpanHalf)) - SpanHalf

(* A malformed lookback is a 400 before anything is fetched. *)
Refused ==
  /\ pass.pc = "run" /\ Malformed(pass.lookback)
  /\ pass' = [pass EXCEPT !.pc = "refused"]
  /\ UNCHANGED <<crawlVars, expected, got, moved>>

Call ==
  /\ pass.pc = "run" /\ walk.pc \in {"idle", "error"} /\ ~Malformed(pass.lookback)
  /\ \E n \in PageSizes : Begin(pass.cursor, n, ParseLookback(pass.lookback))
  /\ pass' = [pass EXCEPT !.called = clock]
  /\ UNCHANGED <<clock, listing, cache, failures, expected, got, moved>>

Receive ==
  /\ walk.pc = "done"
  /\ got' = got \cup {walk.posts[n] : n \in 1..Len(walk.posts)}
  /\ pass' = [pass EXCEPT !.pc = IF walk.more THEN "run" ELSE "done",
                          !.cursor = walk.cursor]
  /\ walk' = NoWalk
  /\ UNCHANGED <<clock, listing, cache, failures, expected, moved>>

(* A finished pass is followed by another one, which finds the cache warm. *)
Again ==
  /\ pass.pc \in {"done", "refused"}
  /\ \E l \in Lookbacks : pass' = NewPass(l)
  /\ expected' = Listed
  /\ got' = {}
  /\ moved' = FALSE
  /\ UNCHANGED crawlVars

BackfillEngine == (FetchPage \/ FetchFail) /\ UNCHANGED <<pass, expected, got, moved>>

BackfillSource ==
  \/ Publish /\ moved' = TRUE /\ UNCHANGED <<pass, expected, got>>
  \/ Tick /\ UNCHANGED <<pass, expected, got, moved>>

BackfillNext == Refused \/ Call \/ Receive \/ Again \/ BackfillEngine \/ BackfillSource

BackfillSpec == BackfillInit /\ [][BackfillNext]_backfillVars

(* The loop calls, a call that is answered is received, a page that is      *)
(* fetched arrives or fails, and failures are transient (MaxFailures).      *)
FairBackfill ==
  /\ BackfillSpec
  /\ WF_backfillVars(Refused \/ Call) /\ WF_backfillVars(Receive)
  /\ WF_backfillVars(BackfillEngine)

-----------------------------------------------------------------------------
(* Properties. *)

(* No gap: when a pass ends, every post that was listed when it began and is *)
(* in the window its lookback asks for was received, a post whose date did   *)
(* not parse included, whatever was published in between, however rows       *)
(* shifted across pages between two fetches and whichever calls failed and   *)
(* were repeated (crawl.go:175 "leaving no permanent gap").  A lookback that *)
(* overflows (duration.go:34) turns negative, which means no limit; twice as *)
(* long it wraps to a short one, and there the promise ends.  It also needs  *)
(* that holes as long as a page meet few new posts: posts that are listed    *)
(* between two fetches push a hole along with the walk, so that Threshold    *)
(* empty pages may be the same slots.                                        *)
NoGap ==
  pass.pc = "done" /\ Meant(pass.lookback) < 2 * SpanHalf =>
    \A p \in expected :
      \/ p \in got
      \/ /\ Meant(pass.lookback) > 0
         /\ p.at < pass.called - Meant(pass.lookback) + Granule - 1

(* On a listing that does not move, no post is received twice: the resume   *)
(* point is exact, mid-page and at a page's end (crawl.go:228, 235).         *)
NoRepeat ==
  [][walk.pc = "done" /\ walk'.pc = "idle" /\ ~moved =>
       /\ \A n \in 1..Len(walk.posts) : walk.posts[n] \notin got
       /\ \A m, n \in 1..Len(walk.posts) :
            walk.posts[m] = walk.posts[n] => m = n]_backfillVars

(* Every pass ends: the floor or the boundary is reached although the       *)
(* listing grows at the other end and calls fail in between.                *)
BackfillEnds == pass.pc = "run" ~> pass.pc \in {"done", "refused"}

-----------------------------------------------------------------------------
(* What the proofs of NoGap and NoRepeat carry. *)

Calling == walk.pc \in {"walk", "done"}

(* Everything the pass expects is still listed; what is behind its cursor    *)
(* was received, and a call continues from there.                            *)
LoopCovers ==
  /\ expected \subseteq Listed /\ \A p \in expected : p.at <= clock
  /\ pass.pc = "run" => CursorCovers(listing, pass.cursor, expected, got)
  /\ Calling => /\ pass.pc = "run" /\ ~Malformed(pass.lookback)
                /\ walk.cutoff = LET d == ParseLookback(pass.lookback)
                                 IN  IF d > 0 THEN pass.called - d ELSE 0
                /\ WalkCovers(listing, walk, expected, got)

(* The posts of S are behind the place. *)
Within(l, p, k, S) == \A x \in S : \E n \in Behind(l, p, k) : l[n] = x

(* On a listing that has not moved, nothing was received from beyond the     *)
(* cursor, and a call has brought nothing that was.                          *)
PassRepeatsNothing ==
  ~moved =>
    /\ pass.pc = "run" => Within(listing, FirstPage(pass.cursor), pass.cursor[2], got)
    /\ walk.pc = "walk" => Within(listing, walk.page, walk.skip, got \cup Posts(walk))
    /\ walk.pc = "done" /\ walk.more =>
         Within(listing, FirstPage(walk.cursor), walk.cursor[2], got \cup Posts(walk))
    /\ Calling => /\ Posts(walk) \cap got = {}
                  /\ \A m, n \in 1..Len(walk.posts) : walk.posts[m] = walk.posts[n] => m = n

BackfillInv ==
  /\ BackfillTypeOK /\ cache = {} /\ Tidy(listing, clock)
  /\ LoopCovers /\ PassRepeatsNothing /\ NoGap
=============================================================================
