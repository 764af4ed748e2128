---------------------------- MODULE CrawlTrigger ---------------------------
(***************************************************************************)
(* The polling trigger of integrations/n8n (TakuhaiCrawlerTrigger.node.ts)  *)
(* over the crawl engine: n8n keeps a watermark, a pass emits the posts     *)
(* between the watermark and the instant the pass began, in batches over    *)
(* several polls and calls, and then moves the watermark to that instant.   *)
(*                                                                          *)
(* External: n8n hands the node one live state object and runs its polls    *)
(* one at a time; what a poll wrote to it before it threw stays written.    *)
(***************************************************************************)
EXTENDS Crawl

CONSTANTS
  BatchSize, PageSize, LookbackSpan,   \* node parameters
  MaxPagesPerPoll,
  MaxResets      \* bound: times the resetState option is switched on

ASSUME TriggerAssumption ==
  /\ BatchSize \in Nat \ {0} /\ PageSize \in Nat \ {0}
  /\ LookbackSpan \in Nat \ {0} /\ MaxPagesPerPoll \in Nat \ {0}
  /\ MaxResets \in Nat

VARIABLES
  state,    \* the workflow static data
  poll,     \* the poll under way: [pc, posts, pages]
  emitted,  \* posts handed to the workflow, by which pass, after how many resets
  thrown,   \* posts collected by polls that threw
  hidden,   \* posts of a pass that an outdated cached page kept from it
  marks,    \* the watermarks so far
  origin,   \* where the stretch begins that the watermark vouches for
  resets    \* times the state was reset

vars == <<clock, listing, cache, failures, walk, state, poll, emitted, thrown, hidden, marks,
          origin, resets>>

None == -1

NoState == [cursor |-> NoCursor, floor |-> None, lastSeen |-> None,
            started |-> None, pending |-> None, applied |-> FALSE]

NoPoll == [pc |-> "idle", posts |-> <<>>, pages |-> 0]

State == [cursor: Cursors, floor: Int, lastSeen: Int, started: Int, pending: Int,
          applied: BOOLEAN]

(* The engine, the trigger's state, its poll and what it emitted.            *)
TypeOK ==
  /\ CrawlTypeOK
  /\ state \in State
  /\ poll \in [pc: {"idle", "call", "wait"}, posts: Seq(Post), pages: Nat]
  /\ emitted \subseteq [post: Post, pass: Nat, epoch: Nat]
  /\ thrown \subseteq Post /\ hidden \subseteq Post /\ marks \subseteq Nat
  /\ origin \in Int /\ resets \in 0..MaxResets

Init ==
  /\ CrawlInit
  /\ state = NoState
  /\ poll = NoPoll
  /\ emitted = {}
  /\ thrown = {}
  /\ hidden = {}
  /\ marks = {}
  /\ origin = None
  /\ resets = 0

\* Mutant: every poll begins the pass again.
StartPass_EveryPoll(s) ==
  [s EXCEPT !.started = clock, !.pending = clock, !.cursor = NoCursor,
            !.floor = IF s.lastSeen # None THEN s.lastSeen
                      ELSE clock - LookbackSpan]

(* startPassIfNeeded *)
StartPass(s) ==
  IF s.started # None THEN s
  ELSE [s EXCEPT !.started = clock, !.pending = clock, !.cursor = NoCursor,
                 !.floor = IF s.lastSeen # None THEN s.lastSeen
                           ELSE clock - LookbackSpan]

\* Mutant: the watermark is the instant the pass ended.
FinishPass_Now(s) ==
  [s EXCEPT !.lastSeen = clock, !.cursor = NoCursor, !.floor = None,
            !.started = None, !.pending = None]

FinishPass(s) ==
  [s EXCEPT !.lastSeen = s.pending, !.cursor = NoCursor, !.floor = None,
            !.started = None, !.pending = None]

(* The resetState option acts once each time it is switched on. *)
ApplyReset(s, on) ==
  IF on /\ ~s.applied THEN [NoState EXCEPT !.applied = TRUE]
  ELSE IF on THEN s
  ELSE [s EXCEPT !.applied = FALSE]

(* The first pass opens the stretch, and so does a pass after a reset that   *)
(* looks back to less than the watermark it forgot.                         *)
PollBegin(on) ==
  /\ poll.pc = "idle"
  /\ state' = StartPass(ApplyReset(state, on))
  /\ poll' = [NoPoll EXCEPT !.pc = "call"]
  /\ origin' = IF /\ ApplyReset(state, on).started = None
                  /\ state'.floor > state.lastSeen
               THEN state'.floor ELSE origin
  /\ resets' = IF on /\ ~state.applied THEN resets + 1 ELSE resets
  /\ resets' <= MaxResets
  /\ UNCHANGED <<clock, listing, cache, failures, walk, emitted, thrown, hidden, marks>>

(* One HTTP request of the poll's loop. *)
Request ==
  /\ poll.pc = "call"
  /\ Begin(state.cursor, Lesser(PageSize, BatchSize - Len(poll.posts)), 0)
  /\ poll' = [poll EXCEPT !.pc = "wait", !.pages = @ + 1]
  /\ UNCHANGED <<clock, listing, cache, failures, state, emitted, thrown, hidden, marks, origin, resets>>

(* A date that did not parse is the year 1, which is below every floor. *)
AtFloor(p) == p.date = ZeroDate \/ p.date <= state.floor

(* The posts of the response in front of the first one at the floor. *)
AboveFloor ==
  LET n == CHOOSE n \in 0..Len(walk.posts) :
             /\ \A k \in 1..n : ~AtFloor(walk.posts[k])
             /\ n < Len(walk.posts) => AtFloor(walk.posts[n + 1])
  IN  SubSeq(walk.posts, 1, n)

\* Mutant: posts listed after the pass began are emitted as well.
NotAfterStart_Any(p) == TRUE

NotAfterStart(p) == p.date <= state.started

(* Those of them that are the pass's own. *)
Accepted == Subsequence(AboveFloor, {n \in 1..Len(AboveFloor) : NotAfterStart(AboveFloor[n])})

Finished == Len(AboveFloor) < Len(walk.posts) \/ ~walk.more

Emit(posts) ==
  emitted' = emitted \cup {[post |-> posts[n], pass |-> state.started,
                              epoch |-> resets] : n \in 1..Len(posts)}

(* The response is filtered; the pass is finished, or its cursor is stored  *)
(* and the poll goes on or ends with what it has.                           *)
Response ==
  /\ poll.pc = "wait" /\ walk.pc = "done"
  /\ LET posts == poll.posts \o Accepted
         again == ~Finished /\ poll.pages < MaxPagesPerPoll /\ Len(posts) < BatchSize
     IN  /\ state' = IF Finished THEN FinishPass(state)
                     ELSE [state EXCEPT !.cursor = walk.cursor]
         /\ marks' = IF Finished THEN marks \cup {state.pending} ELSE marks
         /\ poll' = IF again THEN [poll EXCEPT !.pc = "call", !.posts = posts] ELSE NoPoll
         /\ IF again THEN emitted' = emitted ELSE Emit(posts)
  /\ walk' = NoWalk
  /\ UNCHANGED <<clock, listing, cache, failures, thrown, hidden, origin, resets>>

(* httpRequest throws, and with it the poll. *)
PollThrows ==
  /\ poll.pc = "wait" /\ walk.pc = "error"
  /\ thrown' = thrown \cup {poll.posts[n] : n \in 1..Len(poll.posts)}
  /\ poll' = NoPoll
  /\ walk' = NoWalk
  /\ UNCHANGED <<clock, listing, cache, failures, state, emitted, hidden, marks, origin, resets>>

Emitted == {e.post : e \in emitted}

(* What the pass is to bring, and what was brought so far or is known lost. *)
Wanted == {p \in Post : state.floor < p.date /\ p.at <= state.started}

Brought == Emitted \cup thrown \cup hidden \cup {poll.posts[n] : n \in 1..Len(poll.posts)}

(* What the rows of an outdated page keep from the pass: posts not older than *)
(* the last of them that are not on the page as it was, nor brought before.  *)
Concealed(rows) ==
  {p \in Listed : /\ p \in Wanted
                  /\ rows # <<>> => rows[Len(rows)].at <= p.at
                  /\ p \notin Brought \cup Posts(walk)
                  /\ \A k \in 1..Len(Rest(rows)) : p # Rest(rows)[k]}

(* A round of the engine, on the page as listed now or on an outdated copy.  *)
Fetch ==
  /\ FetchPage
  /\ hidden' = IF Fetched(walk.page) = Rows(walk.page) THEN hidden
               ELSE hidden \cup Concealed(Fetched(walk.page))

Engine == /\ Fetch \/ (FetchFail /\ hidden' = hidden)
          /\ UNCHANGED <<state, poll, emitted, thrown, marks, origin, resets>>

Source == /\ Publish \/ Tick
          /\ UNCHANGED <<state, poll, emitted, thrown, hidden, marks, origin, resets>>

Poll == \E on \in BOOLEAN : PollBegin(on)

Next == Poll \/ Request \/ Response \/ PollThrows \/ Engine \/ Source

Spec == Init /\ [][Next]_vars

(* n8n polls on a schedule, a poll runs to its end, and failures are        *)
(* transient (MaxFailures).                                                 *)
FairSpec == /\ Spec
            /\ WF_vars(Poll) /\ WF_vars(Request) /\ WF_vars(Response)
            /\ WF_vars(PollThrows) /\ WF_vars(Engine)

-----------------------------------------------------------------------------
(* Properties. *)

(* The posts the watermark vouches for: listed since the floor the passes    *)
(* began from, and not after the watermark.                                 *)
Vouched == {p \in Listed : origin < p.at /\ p.at <= state.lastSeen}

(* The source rounds a date down below a watermark that the post was listed  *)
(* after: no later pass takes it.                                           *)
RoundedAway(p) == \E m \in marks \cup {origin} : p.date <= m /\ m < p.at

Accounted(p) == p \in Emitted \cup thrown \cup hidden \/ RoundedAway(p)

(* The watermark is complete up to three losses: whatever was listed up to   *)
(* it was emitted, or was in the hands of a poll that threw, or was kept     *)
(* from its pass by an outdated cached page, or bears a date from before an  *)
(* earlier watermark than it was listed after.  A pass takes several polls,  *)
(* rows shift under its cursor, pages are cached and dates rounded, and the  *)
(* state may be reset in the middle of it (TakuhaiCrawlerTrigger.node.ts:    *)
(* 143-160).  Dates parse (DateParses); NoPostLost is about those that do    *)
(* not.                                                                     *)
WatermarkIsComplete == \A p \in Vouched : Accounted(p)

(* Between two resets a post is emitted by one pass only: the windows of     *)
(* two passes do not overlap, whatever was listed while they ran.            *)
EmittedInOnePass ==
  \A d, e \in emitted : d.post = e.post /\ d.epoch = e.epoch => d = e

(* Every pass ends, and with it the watermark moves on. *)
PassEnds == state.started # None ~> state.started = None

(* The watermark is complete: everything listed up to it was emitted.       *)
NoPostLost == Vouched \subseteq Emitted

-----------------------------------------------------------------------------
(* What the proof of EmittedInOnePass carries. *)

InWindowOfPass(p) == state.floor < p.date /\ p.date <= state.started

(* The window of a pass begins at the watermark and ends at its start, and  *)
(* what its poll has collected is in it.                                    *)
PassIsSound ==
  /\ state.lastSeen \in -1..clock
  /\ state.pending = state.started
  /\ state.started # None =>
       /\ state.started \in 0..clock /\ state.lastSeen <= state.started
       /\ state.lastSeen # None => state.lastSeen <= state.floor
  /\ poll.pc # "idle" => state.started # None
  /\ \A n \in 1..Len(poll.posts) : InWindowOfPass(poll.posts[n])

(* What was emitted since the last reset is of this pass or not above the   *)
(* watermark, and a later pass emitted only what is above an earlier one.   *)
EmittedIsSound ==
  /\ \A e \in emitted : /\ e.epoch <= resets /\ e.post.date <= e.pass
                        /\ e.epoch = resets => e.pass \in {state.started} \cup 0..state.lastSeen
  /\ \A d, e \in emitted : d.epoch = e.epoch /\ d.pass < e.pass => d.pass < e.post.date

TriggerInv == TypeOK /\ PassIsSound /\ EmittedIsSound

-----------------------------------------------------------------------------
(* What the proof of WatermarkIsComplete carries. *)

(* A date that the source printed: the instant of the listing, rounded down. *)
Printed(p) == p.date = p.at - (p.at % Granule)

(* Every date parses. *)
DatesParse ==
  /\ DateParses \subseteq {TRUE}
  /\ \A l \in Listings : \A n \in 1..Len(l) : HasRow(l[n]) => Printed(l[n])

(* The listing is as the theorem has it, and so is what a walk brings; a     *)
(* walk belongs to a request, and collected posts to a poll.                 *)
SourceIsSound ==
  /\ Tidy(listing, clock)
  /\ \A n \in 1..Len(listing) : HasRow(listing[n]) => Printed(listing[n])
  /\ \A k \in 1..Len(walk.posts) : Printed(walk.posts[k])
  /\ walk.cutoff = 0
  /\ poll.pc # "wait" => walk = NoWalk
  /\ poll.pc = "idle" => poll.posts = <<>>

(* A cached page is newest first, and although rows have shifted since, no    *)
(* post behind the place of one of its rows is older than that row.           *)
OlderThan(p) == {q \in Post : q.at < p.at}

EntryIsSound(e) ==
  /\ e.page > 0
  /\ \A k \in 1..Len(e.rows) : /\ Printed(e.rows[k]) /\ e.rows[k].at <= clock
                               /\ \A j \in 1..(k - 1) : e.rows[k].at < e.rows[j].at
                               /\ Covers(listing, e.page, k, OlderThan(e.rows[k]), {})
  /\ e.rows # <<>> => Covers(listing, e.page + 1, 0, OlderThan(e.rows[Len(e.rows)]), {})

CacheIsSound == \A e \in cache : EntryIsSound(e)

(* The watermark and the floor are among the bounds of the windows so far.    *)
MarksAreSound ==
  /\ origin \in -1..clock /\ marks \subseteq 0..clock
  /\ state.lastSeen \in marks \cup {None}
  /\ state.started # None => \E m \in marks \cup {origin} : state.floor <= m

(* Of a pass under way, what is wanted and behind the stored cursor was      *)
(* brought, the walk continues from there, and up to the floor all is done.  *)
PassCovers ==
  state.started # None =>
    /\ state.floor <= state.started
    /\ \A p \in Listed : origin < p.at /\ p.date <= state.floor => Accounted(p)
    /\ CursorCovers(listing, state.cursor, Wanted, Brought)
    /\ WalkCovers(listing, walk, Wanted, Brought)

CompleteInv ==
  /\ TriggerInv /\ SourceIsSound /\ CacheIsSound /\ MarksAreSound
  /\ PassCovers /\ WatermarkIsComplete
=============================================================================
