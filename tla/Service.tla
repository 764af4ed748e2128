------------------------------ MODULE Service ------------------------------
(***************************************************************************)
(* The life of the three programs: takuhai (cmd/takuhai/main.go) and the    *)
(* crawlers takuhai-dmhy and takuhai-nyaa.  A process reads its             *)
(* configuration, takuhai migrates the shared database, the HTTP server     *)
(* accepts requests, and on a signal it is drained against a deadline.      *)
(* Processes die and are started again at any time.                        *)
(*                                                                          *)
(* External: net/http (Serve, Shutdown, Close), the connection pool, goose  *)
(* and its session lock, the supervisor that starts processes.              *)
(***************************************************************************)
EXTENDS Integers, FiniteSets, FiniteSetsExt

CONSTANTS
  Procs,      \* places a process runs in
  Kinds,      \* assignments of programs to places
  Reqs,       \* HTTP clients, one request at a time
  MaxUnits,   \* transactions (or page fetches) of a request
  Head,       \* newest migration
  Files,      \* arguments of takuhai-dmhy parse
  NULL

ASSUME ServiceAssumption ==
  /\ Kinds \subseteq [Procs -> {"takuhai", "dmhy", "nyaa"}]
  /\ MaxUnits \in Nat \ {0} /\ Head \in Nat /\ Files \subseteq Nat /\ IsFiniteSet(Files)
  /\ NULL \notin Procs \cup {"ok", "error", "dropped", "killed"}

VARIABLES
  kind,      \* the program of each place
  proc,      \* its process
  req,       \* the handler that serves each client
  applied,   \* how often each migration was applied
  lock       \* holder of the migrations' session lock

vars == <<kind, proc, req, applied, lock>>

Migrations == 1..Head

(* pc: where main is; serve: the goroutine in Serve; failed: something went *)
(* wrong that the exit code should tell; forced: the drain deadline passed. *)
NewProc == [pc |-> "boot", signal |-> FALSE, serve |-> "off", failed |-> FALSE,
            forced |-> FALSE, todo |-> {}, keep |-> FALSE, code |-> NULL]

(* cut: the connection was closed under the handler. *)
Free == [pc |-> "free", at |-> NULL, left |-> 0, cut |-> FALSE, last |-> NULL]

Codes == {NULL, "ok", "error", "killed"}

Process ==
  [pc: {"boot", "migrate", "apply", "listen", "select", "drain", "await", "close",
        "parse", "exited"},
   signal: BOOLEAN, serve: {"off", "starting", "up", "closed", "failed"},
   failed: BOOLEAN, forced: BOOLEAN, todo: SUBSET (Migrations \cup Files),
   keep: BOOLEAN, code: Codes]

Handler ==
  [pc: {"free", "run", "tx", "stream"}, at: Procs \cup {NULL}, left: 0..MaxUnits,
   cut: BOOLEAN, last: {NULL, "ok", "error", "dropped"}]

(* Processes, handlers, and the database's migrations. *)
TypeOK ==
  /\ kind \in Kinds
  /\ proc \in [Procs -> Process]
  /\ req \in [Reqs -> Handler]
  /\ applied \in [Migrations -> Nat]
  /\ lock \in Procs \cup {NULL}

Init ==
  /\ kind \in Kinds
  /\ proc = [p \in Procs |-> NewProc]
  /\ req = [r \in Reqs |-> Free]
  /\ applied = [n \in Migrations |-> 0]
  /\ lock = NULL

Active(p) == {r \in Reqs : req[r].at = p}

Crawler(p) == kind[p] # "takuhai"

(* The process ends: connections break, transactions roll back and the      *)
(* session lock is free.                                                    *)
Leave(p, state, code) ==
  /\ proc' = [proc EXCEPT ![p] = [state EXCEPT !.pc = "exited", !.code = code]]
  /\ req' = [r \in Reqs |-> IF r \in Active(p) THEN [Free EXCEPT !.last = "dropped"]
                            ELSE req[r]]
  /\ lock' = IF lock = p THEN NULL ELSE lock
  /\ UNCHANGED <<kind, applied>>

Goto(p, state) ==
  /\ proc' = [proc EXCEPT ![p] = state]
  /\ UNCHANGED <<kind, req, applied, lock>>

Failed(p) == [proc[p] EXCEPT !.failed = TRUE]

-----------------------------------------------------------------------------
(* run: flags and environment. *)

Rejected(p) == proc[p].pc = "boot" /\ Leave(p, Failed(p), "error")

Version(p) == proc[p].pc = "boot" /\ Leave(p, proc[p], "ok")

TakuhaiBoot(p) ==
  /\ proc[p].pc = "boot" /\ kind[p] = "takuhai"
  /\ Goto(p, [proc[p] EXCEPT !.pc = "migrate"])

NyaaBoot(p) ==
  /\ proc[p].pc = "boot" /\ kind[p] = "nyaa"
  /\ Goto(p, [proc[p] EXCEPT !.pc = "select", !.serve = "starting"])

DmhyBoot(p) ==
  /\ proc[p].pc = "boot" /\ kind[p] = "dmhy"
  /\ \/ Goto(p, [proc[p] EXCEPT !.pc = "select", !.serve = "starting"])
     \/ \E k \in BOOLEAN :
          Goto(p, [proc[p] EXCEPT !.pc = "parse", !.todo = Files, !.keep = k])

-----------------------------------------------------------------------------
(* takuhai-dmhy parse *)

ParseFile(p) ==
  /\ proc[p].pc = "parse" /\ proc[p].todo # {}
  /\ Goto(p, [proc[p] EXCEPT !.todo = @ \ {Min(@)}])

(* A file cannot be read or parsed. *)
ParseFails(p) ==
  /\ proc[p].pc = "parse" /\ proc[p].todo # {}
  /\ IF proc[p].keep THEN Goto(p, [Failed(p) EXCEPT !.todo = @ \ {Min(@)}])
     ELSE Leave(p, Failed(p), "error")

WriteFails(p) ==
  /\ proc[p].pc = "parse" /\ proc[p].todo # {}
  /\ Leave(p, Failed(p), "error")

ParseDone(p) ==
  /\ proc[p].pc = "parse" /\ proc[p].todo = {}
  /\ Leave(p, proc[p], IF proc[p].failed THEN "error" ELSE "ok")

-----------------------------------------------------------------------------
(* runMigrations *)

\* Mutant: no session locker.
MigrateLock_Unlocked(p) ==
  /\ proc[p].pc = "migrate"
  /\ proc' = [proc EXCEPT ![p].pc = "apply",
                          ![p].todo = {n \in Migrations : applied[n] = 0}]
  /\ UNCHANGED <<kind, req, applied, lock>>

(* The pending migrations are looked up under the session lock. *)
MigrateLock(p) ==
  /\ proc[p].pc = "migrate" /\ lock = NULL
  /\ lock' = p
  /\ proc' = [proc EXCEPT ![p].pc = "apply",
                          ![p].todo = {n \in Migrations : applied[n] = 0}]
  /\ UNCHANGED <<kind, req, applied>>

(* Each migration in a transaction of its own. *)
MigrateApply(p) ==
  /\ proc[p].pc = "apply" /\ proc[p].todo # {}
  /\ applied' = [applied EXCEPT ![Min(proc[p].todo)] = @ + 1]
  /\ proc' = [proc EXCEPT ![p].todo = @ \ {Min(@)}]
  /\ UNCHANGED <<kind, req, lock>>

MigrateDone(p) ==
  /\ proc[p].pc = "apply" /\ proc[p].todo = {}
  /\ lock' = IF lock = p THEN NULL ELSE lock
  /\ proc' = [proc EXCEPT ![p].pc = "listen"]
  /\ UNCHANGED <<kind, req, applied>>

\* Mutant: the service starts although the migrations failed.
MigrateFail_Serves(p) ==
  /\ proc[p].pc \in {"migrate", "apply"}
  /\ lock' = IF lock = p THEN NULL ELSE lock
  /\ proc' = [proc EXCEPT ![p].pc = "listen", ![p].todo = {}]
  /\ UNCHANGED <<kind, req, applied>>

(* A statement fails, or a signal cancels the context. *)
MigrateFail(p) ==
  /\ proc[p].pc \in {"migrate", "apply"}
  /\ Leave(p, Failed(p), "error")

-----------------------------------------------------------------------------
(* runHTTP, ServeCmd.Run *)

(* takuhai opens its pool and binds before it serves. *)
Listen(p) ==
  /\ proc[p].pc = "listen"
  /\ \/ Goto(p, [proc[p] EXCEPT !.pc = "select", !.serve = "starting"])
     \/ Goto(p, [Failed(p) EXCEPT !.pc = "close", !.code = "error"])

(* The goroutine: Serve refuses to start behind Shutdown; a crawler binds   *)
(* only here.                                                               *)
ServeStart(p) ==
  /\ proc[p].pc # "exited" /\ proc[p].serve = "starting"
  /\ \/ Goto(p, [proc[p] EXCEPT !.serve = IF proc[p].pc = "select" THEN "up" ELSE "closed"])
     \/ Crawler(p) /\ Goto(p, [Failed(p) EXCEPT !.serve = "failed"])

(* The listener dies on its own. *)
ServeDies(p) ==
  /\ proc[p].serve = "up" /\ proc[p].pc = "select"
  /\ Goto(p, [Failed(p) EXCEPT !.serve = "failed"])

(* ctx.Done: Shutdown closes the listener, and Serve returns.               *)
SelectSignal(p) ==
  /\ proc[p].pc = "select" /\ proc[p].signal
  /\ Goto(p, [proc[p] EXCEPT !.pc = "drain", !.serve = IF @ = "up" THEN "closed" ELSE @])

(* The serve loop's error: a crawler returns at once. *)
SelectError(p) ==
  /\ proc[p].pc = "select" /\ proc[p].serve = "failed"
  /\ IF Crawler(p) THEN Leave(p, proc[p], "error")
     ELSE Goto(p, [proc[p] EXCEPT !.pc = "close", !.code = "error"])

\* Mutant: Shutdown does not wait for active connections.
DrainDone_NoWait(p) ==
  /\ proc[p].pc = "drain"
  /\ IF Crawler(p) THEN Leave(p, proc[p], "ok")
     ELSE Goto(p, [proc[p] EXCEPT !.pc = "await"])

(* Shutdown returns once no handler is active. *)
DrainDone(p) ==
  /\ proc[p].pc = "drain" /\ Active(p) = {}
  /\ IF Crawler(p) THEN Leave(p, proc[p], "ok")
     ELSE Goto(p, [proc[p] EXCEPT !.pc = "await"])

\* Mutant: Shutdown without a deadline.
DrainTimeout_Never(p) == FALSE /\ UNCHANGED vars

(* drainTimeout: takuhai closes the connections, which cancels the handlers; *)
(* a crawler returns the error and dies with them.                          *)
DrainTimeout(p) ==
  /\ proc[p].pc = "drain" /\ Active(p) # {}
  /\ IF Crawler(p) THEN Leave(p, [proc[p] EXCEPT !.forced = TRUE], "error")
     ELSE /\ proc' = [proc EXCEPT ![p].pc = "await", ![p].forced = TRUE]
          /\ req' = [r \in Reqs |-> IF r \in Active(p) THEN [req[r] EXCEPT !.cut = TRUE]
                                    ELSE req[r]]
          /\ UNCHANGED <<kind, applied, lock>>

\* Mutant: the serve loop's last error is not read.
AwaitServe_Ignored(p) ==
  /\ proc[p].pc = "await"
  /\ Goto(p, [proc[p] EXCEPT !.pc = "close", !.code = "ok"])

(* <-serveErr *)
AwaitServe(p) ==
  /\ proc[p].pc = "await" /\ proc[p].serve \in {"closed", "failed"}
  /\ Goto(p, [proc[p] EXCEPT !.pc = "close",
                             !.code = IF proc[p].serve = "failed" THEN "error" ELSE "ok"])

(* The deferred st.Close waits for every connection to come back. *)
ClosePool(p) ==
  /\ proc[p].pc = "close"
  /\ \A r \in Active(p) : req[r].pc # "tx"
  /\ Leave(p, proc[p], proc[p].code)

-----------------------------------------------------------------------------
(* Handlers. *)

PoolOpen(p) == proc[p].pc \in {"select", "drain", "await"}

Accept(p, r) ==
  /\ proc[p].pc = "select" /\ proc[p].serve = "up" /\ req[r].pc = "free"
  /\ \/ \E n \in 1..MaxUnits :
          req' = [req EXCEPT ![r] = [Free EXCEPT !.pc = "run", !.at = p, !.left = n]]
     \/ /\ ~Crawler(p)
        /\ req' = [req EXCEPT ![r] = [Free EXCEPT !.pc = "stream", !.at = p]]
  /\ UNCHANGED <<kind, proc, applied, lock>>

(* The handler is done; its answer reaches the client unless the connection *)
(* was closed.                                                              *)
End(r, result) ==
  req' = [req EXCEPT ![r] = [Free EXCEPT !.last = IF req[r].cut THEN "dropped" ELSE result]]

(* A transaction on a pooled connection. *)
Acquire(r) ==
  /\ req[r].pc = "run" /\ req[r].left > 0 /\ ~req[r].cut
  /\ ~Crawler(req[r].at) /\ PoolOpen(req[r].at)
  /\ req' = [req EXCEPT ![r].pc = "tx"]

Commit(r) ==
  /\ req[r].pc = "tx"
  /\ req' = [req EXCEPT ![r].pc = "run", ![r].left = @ - 1]

(* A statement fails, or the request was cancelled: 500. *)
Abort(r) == req[r].pc = "tx" /\ End(r, "error")

(* The pool is closed, or the request was cancelled between two units. *)
Refuse(r) ==
  /\ req[r].pc = "run" /\ req[r].left > 0
  /\ req[r].cut \/ (~Crawler(req[r].at) /\ ~PoolOpen(req[r].at))
  /\ End(r, "error")

(* A crawler fetches a page. *)
Fetch(r) ==
  /\ req[r].pc = "run" /\ req[r].left > 0 /\ Crawler(req[r].at)
  /\ \/ req' = [req EXCEPT ![r].left = @ - 1]
     \/ End(r, "error")

Reply(r) == req[r].pc = "run" /\ req[r].left = 0 /\ End(r, "ok")

Work(r) ==
  /\ Acquire(r) \/ Commit(r) \/ Abort(r) \/ Refuse(r) \/ Fetch(r) \/ Reply(r)
  /\ UNCHANGED <<kind, proc, applied, lock>>

(* The MCP event stream ends when its connection is closed, by the          *)
(* consumer, or idle for mcpSessionTimeout.                                 *)
StreamEnd(r) ==
  /\ req[r].pc = "stream"
  /\ End(r, "ok")
  /\ UNCHANGED <<kind, proc, applied, lock>>

-----------------------------------------------------------------------------
(* The outside. *)

(* SIGINT or SIGTERM behind NotifyContext; before it, it is a Kill. *)
Signal(p) ==
  /\ proc[p].pc \notin {"boot", "parse", "exited"} /\ ~proc[p].signal
  /\ Goto(p, [proc[p] EXCEPT !.signal = TRUE])

Kill(p) == proc[p].pc # "exited" /\ Leave(p, proc[p], "killed")

Start(p) == proc[p].pc = "exited" /\ Goto(p, NewProc)

Boot(p) == Rejected(p) \/ Version(p) \/ TakuhaiBoot(p) \/ DmhyBoot(p) \/ NyaaBoot(p)

Parse(p) == ParseFile(p) \/ ParseFails(p) \/ WriteFails(p) \/ ParseDone(p)

Migrate(p) == MigrateLock(p) \/ MigrateApply(p) \/ MigrateDone(p) \/ MigrateFail(p)

Main(p) == \/ Listen(p) \/ SelectSignal(p) \/ SelectError(p) \/ DrainDone(p)
           \/ AwaitServe(p) \/ ClosePool(p)

Next ==
  \/ \E p \in Procs : \/ Boot(p) \/ Parse(p) \/ Migrate(p) \/ Main(p)
                      \/ ServeStart(p) \/ ServeDies(p) \/ DrainTimeout(p)
                      \/ Signal(p) \/ Kill(p) \/ Start(p)
                      \/ \E r \in Reqs : Accept(p, r)
  \/ \E r \in Reqs : Work(r) \/ StreamEnd(r)

Spec == Init /\ [][Next]_vars

(* The goroutines run, statements return, and the drain's timer fires.      *)
(* Streams may stay open; nothing promises signals, faults or restarts.     *)
FairSpec ==
  /\ Spec
  /\ \A p \in Procs : /\ WF_vars(Migrate(p)) /\ WF_vars(Main(p))
                      /\ WF_vars(ServeStart(p)) /\ WF_vars(DrainTimeout(p))
  /\ \A r \in Reqs : WF_vars(Work(r))

-----------------------------------------------------------------------------
(* Properties. *)

(* A request meets the schema at head and every migration applied once,     *)
(* however many replicas start together, or after one was killed half way   *)
(* (main.go:95 "we never serve against an unmigrated database",             *)
(* migrations.go:22 "serializes concurrent runners").                       *)
ServesAtHead ==
  (\E r \in Reqs : req[r].pc = "tx") => \A n \in Migrations : applied[n] = 1

(* A signal alone costs no request: a client loses its answer only when the *)
(* drain deadline passed, the listener had died or the process was killed   *)
(* (main.go:178).                                                           *)
DropsAreExplained ==
  [][\A r \in Reqs :
       req[r].at # NULL /\ req'[r].last = "dropped" =>
         LET p == req[r].at
         IN  proc'[p].forced \/ proc'[p].serve = "failed" \/ proc'[p].code = "killed"]_vars

(* Whatever failed shows in the exit code: takuhai reports a listener that  *)
(* died even when a signal won the select, parse reports every file it      *)
(* could not read (parse.go:48).  Only a crawler that is told to stop loses *)
(* the error of its listener.                                               *)
FailureIsReported ==
  \A p \in Procs :
    proc[p].pc = "exited" /\ proc[p].code = "ok" /\ proc[p].failed =>
      Crawler(p) /\ proc[p].serve = "failed" /\ proc[p].signal

(* A process that is told to stop, or whose listener died, stops, with an   *)
(* event stream open, requests in flight or a migration waiting for its     *)
(* lock (main.go:218).                                                      *)
Stops ==
  \A p \in Procs :
    proc[p].signal \/ proc[p].serve = "failed" ~> proc[p].pc = "exited"
-----------------------------------------------------------------------------
(* The inductive invariant behind the safety properties. *)

Serving == {"select", "drain", "await", "close"}

(* Where main can be in each program, and what it knows of a failure by the  *)
(* time it reports it.                                                      *)
ProcessIsSound(crawler, s) ==
  /\ crawler => s.pc \in {"boot", "select", "drain", "parse", "exited"}
  /\ ~crawler => s.pc # "parse"
  /\ s.pc \in {"boot", "migrate", "apply", "listen"} => ~s.failed /\ s.serve = "off"
  /\ s.pc = "drain" => s.signal
  /\ s.failed /\ s.pc \notin {"parse", "exited"} =>
       s.serve = "failed" \/ (s.pc = "close" /\ s.code = "error")
  /\ s.pc = "close" /\ s.code = "ok" => ~s.failed
  /\ s.pc = "exited" /\ s.code = "ok" /\ s.failed =>
       crawler /\ s.serve = "failed" /\ s.signal

(* A handler runs in a process that serves; behind the drain there are only *)
(* handlers of a drain that timed out or of a server that died.             *)
HandlerIsSound(r) ==
  /\ req[r].pc = "free" <=> req[r].at = NULL
  /\ req[r].at # NULL =>
       LET s == proc[req[r].at]
       IN  /\ s.pc \in Serving
           /\ s.pc \in {"await", "close"} => s.forced \/ s.serve = "failed"
           /\ req[r].cut => s.forced
           /\ req[r].last = NULL
           /\ req[r].pc = "tx" => ~Crawler(req[r].at) /\ req[r].left > 0

(* What a migrating process has left to do is what is not applied, since it *)
(* alone holds the lock.                                                    *)
MigrationsAreSound ==
  /\ \A n \in Migrations : applied[n] \in {0, 1}
  /\ \A p \in Procs :
       proc[p].pc = "apply" =>
         lock = p /\ proc[p].todo = {n \in Migrations : applied[n] = 0}
  /\ \A p \in Procs :
       ~Crawler(p) /\ proc[p].pc \in Serving \cup {"listen"} =>
         \A n \in Migrations : applied[n] = 1

ServiceInv ==
  /\ TypeOK
  /\ \A p \in Procs : ProcessIsSound(Crawler(p), proc[p])
  /\ \A r \in Reqs : HandlerIsSound(r)
  /\ MigrationsAreSound
=============================================================================
