--------------------------- MODULE ServiceProofs ---------------------------
(***************************************************************************)
(* Proofs about Service for every number of places, clients, migrations,    *)
(* files and transactions of a request.                                     *)
(***************************************************************************)
EXTENDS Service, TLAPS, WellFoundedInduction

(* A set of migrations or files has a least element. *)
LEMMA LeastNumber ==
  ASSUME NEW T \in SUBSET Nat, T # {}
  PROVE  Min(T) \in T
<1> DEFINE R == OpToRel(<, Nat)
<1>1. IsWellFoundedOn(R, Nat)
  BY NatLessThanWellFounded
<1>2. \E x \in T : \A y \in T : ~(<<y, x>> \in R)
  <2> HIDE DEF R
  <2> QED
    BY <1>1, WFMin
<1>3. \A x, y \in Nat : y < x => <<y, x>> \in R
  BY DEF OpToRel
<1> HIDE DEF R
<1>4. PICK x \in T : \A y \in T : ~(<<y, x>> \in R)
  BY <1>2
<1>5. \A y \in T : ~(y < x)
  BY <1>3, <1>4
<1>6. \E m \in T : \A y \in T : m <= y
  BY <1>5
<1>7. QED
  BY <1>6 DEF Min

(* Nobody is served. *)
LEMMA FreeType ==
  /\ Free \in Handler /\ Free.pc = "free" /\ Free.at = NULL
  /\ ~Free.cut /\ Free.last = NULL
  /\ \A last \in {NULL, "ok", "error", "dropped"} :
       [Free EXCEPT !.last = last] \in Handler
<1>1. 0 \in 0..MaxUnits
  BY ServiceAssumption
<1>2. Free \in Handler /\ Free.pc = "free" /\ Free.at = NULL /\ Free.last = NULL
  BY <1>1 DEF Free, Handler
<1>3. ~Free.cut
  BY DEF Free
<1>4. \A h \in Handler, last \in {NULL, "ok", "error", "dropped"} :
        [h EXCEPT !.last = last] \in Handler
  BY DEF Handler
<1>5. QED
  BY <1>2, <1>3, <1>4

(* The state of one process changes and nothing else. *)
LEMMA GotoStep ==
  ASSUME ServiceInv, NEW p \in Procs, NEW s \in Process, Goto(p, s),
         ProcessIsSound(Crawler(p), s),
         \A r \in Active(p) :
           /\ s.pc \in Serving
           /\ s.pc \in {"await", "close"} => s.forced \/ s.serve = "failed"
           /\ proc[p].forced => s.forced,
         s.pc = "apply" => proc[p].pc = "apply" /\ s.todo = proc[p].todo,
         ~Crawler(p) /\ s.pc \in Serving \cup {"listen"} =>
           proc[p].pc \in Serving \cup {"listen"}
  PROVE  ServiceInv'
<1>1. /\ proc \in [Procs -> Process] /\ proc' = [proc EXCEPT ![p] = s]
      /\ UNCHANGED <<kind, req, applied, lock>>
  BY DEF Goto, ServiceInv, TypeOK
<1>2. proc'[p] = s /\ \A q \in Procs \ {p} : proc'[q] = proc[q]
  BY <1>1
<1>3. \A q \in Procs : Crawler(q)' = Crawler(q)
  BY <1>1 DEF Crawler
<1>4. TypeOK'
  BY <1>1 DEF ServiceInv, TypeOK
<1>5. \A q \in Procs : ProcessIsSound(Crawler(q), proc[q])'
  BY <1>1, <1>2, <1>3 DEF ServiceInv, ProcessIsSound
<1>6. ASSUME NEW r \in Reqs PROVE HandlerIsSound(r)'
  <2>1. HandlerIsSound(r) /\ req'[r] = req[r] /\ req[r] \in Handler
    BY <1>1 DEF ServiceInv, TypeOK
  <2>2. CASE req[r].at = p
    BY <2>1, <2>2, <1>2, <1>3 DEF HandlerIsSound, Active
  <2>3. CASE req[r].at # p
    BY <2>1, <2>3, <1>2, <1>3 DEF HandlerIsSound, Handler
  <2>4. QED
    BY <2>2, <2>3
<1>7. MigrationsAreSound'
  BY <1>1, <1>2, <1>3 DEF ServiceInv, MigrationsAreSound
<1>8. QED
  BY <1>4, <1>5, <1>6, <1>7 DEF ServiceInv

(* A process ends, with a code that tells its failure. *)
LEMMA LeaveStep ==
  ASSUME ServiceInv, NEW p \in Procs, NEW s \in Process, NEW code \in Codes,
         Leave(p, s, code),
         code = "ok" /\ s.failed => Crawler(p) /\ s.serve = "failed" /\ s.signal
  PROVE  ServiceInv'
<1> DEFINE e == [s EXCEPT !.pc = "exited", !.code = code]
<1>1. /\ proc \in [Procs -> Process] /\ proc' = [proc EXCEPT ![p] = e]
      /\ UNCHANGED <<kind, applied>>
      /\ lock' = IF lock = p THEN NULL ELSE lock
      /\ req' = [r \in Reqs |-> IF r \in Active(p) THEN [Free EXCEPT !.last = "dropped"]
                                ELSE req[r]]
  BY DEF Leave, ServiceInv, TypeOK
<1>2. /\ e \in Process /\ e.pc = "exited" /\ e.code = code
      /\ e.failed = s.failed /\ e.serve = s.serve /\ e.signal = s.signal
  <2>1. e \in Process
    BY DEF Process
  <2>2. e.pc = "exited" /\ e.code = code /\ e.serve = s.serve
    BY DEF Process
  <2>3. e.failed = s.failed /\ e.signal = s.signal
    BY DEF Process
  <2> HIDE DEF e
  <2>4. QED
    BY <2>1, <2>2, <2>3
<1> HIDE DEF e
<1>3. proc'[p] = e /\ \A q \in Procs \ {p} : proc'[q] = proc[q]
  BY <1>1
<1>4. \A q \in Procs : Crawler(q)' = Crawler(q)
  BY <1>1 DEF Crawler
<1>5. [Free EXCEPT !.last = "dropped"] \in Handler
  BY FreeType
<1>6. req' \in [Reqs -> Handler]
  BY <1>1, <1>5 DEF ServiceInv, TypeOK
<1>7. TypeOK'
  BY <1>1, <1>2, <1>6 DEF ServiceInv, TypeOK
<1>8. \A q \in Procs : ProcessIsSound(Crawler(q), proc[q])'
  BY <1>2, <1>3, <1>4 DEF ServiceInv, ProcessIsSound
<1>9. ASSUME NEW r \in Reqs PROVE HandlerIsSound(r)'
  <2>1. HandlerIsSound(r) /\ req[r] \in Handler
    BY DEF ServiceInv, TypeOK
  <2>2. CASE req[r].at = p
    <3>1. req'[r] = [Free EXCEPT !.last = "dropped"]
      BY <1>1, <2>2 DEF Active
    <3>2. req'[r].pc = "free" /\ req'[r].at = NULL
      BY <3>1 DEF Free
    <3>3. QED
      BY <3>2 DEF HandlerIsSound
  <2>3. CASE req[r].at # p
    BY <1>1, <1>3, <1>4, <2>1, <2>3 DEF HandlerIsSound, Handler, Active
  <2>4. QED
    BY <2>2, <2>3
<1>10. MigrationsAreSound'
  BY <1>1, <1>2, <1>3, <1>4 DEF ServiceInv, MigrationsAreSound, Serving
<1>11. QED
  BY <1>7, <1>8, <1>9, <1>10 DEF ServiceInv
(* Only a process that serves has handlers. *)
LEMMA ActiveServes ==
  ASSUME ServiceInv, NEW p \in Procs
  PROVE  /\ proc[p] \in Process /\ ProcessIsSound(Crawler(p), proc[p])
         /\ \A r \in Active(p) :
              /\ proc[p].pc \in Serving
              /\ proc[p].pc \in {"await", "close"} =>
                   proc[p].forced \/ proc[p].serve = "failed"
         /\ proc[p].pc \notin Serving => Active(p) = {}
<1>1. proc[p] \in Process /\ ProcessIsSound(Crawler(p), proc[p])
  BY DEF ServiceInv, TypeOK
<1>2. p # NULL
  BY ServiceAssumption
<1>3. QED
  BY <1>1, <1>2 DEF ServiceInv, HandlerIsSound, Active

(* A failure is recorded in the state of the process. *)
LEMMA FailedFields ==
  ASSUME ServiceInv, NEW p \in Procs
  PROVE  /\ Failed(p) \in Process /\ Failed(p).failed
         /\ Failed(p).pc = proc[p].pc /\ Failed(p).serve = proc[p].serve
         /\ Failed(p).forced = proc[p].forced /\ Failed(p).signal = proc[p].signal
         /\ Failed(p).code = proc[p].code
<1> DEFINE f == Failed(p)
<1>1. proc[p] \in Process
  BY DEF ServiceInv, TypeOK
<1>2. f \in Process
  BY <1>1 DEF Process, Failed
<1>3. f.failed
  BY <1>1 DEF Process, Failed
<1>4. f.pc = proc[p].pc /\ f.serve = proc[p].serve /\ f.code = proc[p].code
  BY <1>1 DEF Process, Failed
<1>5. f.forced = proc[p].forced /\ f.signal = proc[p].signal
  BY <1>1 DEF Process, Failed
<1> HIDE DEF f
<1>6. QED
  BY <1>2, <1>3, <1>4, <1>5 DEF f

(* Flags, environment, and the way to the next stage. *)
LEMMA BootStep ==
  ASSUME ServiceInv, NEW p \in Procs, Boot(p)
  PROVE  ServiceInv'
<1>1. /\ proc[p] \in Process /\ ProcessIsSound(Crawler(p), proc[p])
      /\ proc[p].pc = "boot" /\ ~proc[p].failed /\ Active(p) = {}
      /\ {"ok", "error"} \subseteq Codes
  BY ActiveServes DEF Boot, Rejected, Version, TakuhaiBoot, DmhyBoot, NyaaBoot,
                      ProcessIsSound, Serving, Codes
<1>2. CASE Rejected(p)
  BY <1>1, <1>2, FailedFields, LeaveStep DEF Rejected
<1>3. CASE Version(p)
  BY <1>1, <1>3, LeaveStep DEF Version
<1>4. CASE TakuhaiBoot(p)
  <2> DEFINE s == [proc[p] EXCEPT !.pc = "migrate"]
  <2>1. s \in Process /\ s.pc = "migrate" /\ s.failed = proc[p].failed /\ s.serve = proc[p].serve
    BY <1>1 DEF Process
  <2>2. ~Crawler(p) /\ Goto(p, s)
    BY <1>4 DEF TakuhaiBoot, Crawler
  <2> HIDE DEF s
  <2>3. ProcessIsSound(Crawler(p), s)
    BY <1>1, <2>1, <2>2 DEF ProcessIsSound
  <2>4. QED
    BY <1>1, <2>1, <2>2, <2>3, GotoStep DEF Serving
<1>5. ASSUME Crawler(p), Goto(p, [proc[p] EXCEPT !.pc = "select", !.serve = "starting"])
      PROVE  ServiceInv'
  <2> DEFINE s == [proc[p] EXCEPT !.pc = "select", !.serve = "starting"]
  <2>1. s \in Process /\ s.pc = "select" /\ s.failed = proc[p].failed
    BY <1>1 DEF Process
  <2>2. Goto(p, s)
    BY <1>5
  <2> HIDE DEF s
  <2>3. ProcessIsSound(Crawler(p), s)
    BY <1>1, <1>5, <2>1 DEF ProcessIsSound
  <2>4. QED
    BY <1>1, <1>5, <2>1, <2>2, <2>3, GotoStep
<1>6. ASSUME Crawler(p), NEW k \in BOOLEAN,
             Goto(p, [proc[p] EXCEPT !.pc = "parse", !.todo = Files, !.keep = k])
      PROVE  ServiceInv'
  <2> DEFINE s == [proc[p] EXCEPT !.pc = "parse", !.todo = Files, !.keep = k]
  <2>1. s \in Process /\ s.pc = "parse" /\ s.failed = proc[p].failed
    BY <1>1 DEF Process
  <2>2. Goto(p, s)
    BY <1>6
  <2> HIDE DEF s
  <2>3. ProcessIsSound(Crawler(p), s)
    BY <1>1, <1>6, <2>1 DEF ProcessIsSound
  <2>4. QED
    BY <1>1, <1>6, <2>1, <2>2, <2>3, GotoStep
<1>7. QED
  BY <1>2, <1>3, <1>4, <1>5, <1>6 DEF Boot, DmhyBoot, NyaaBoot, Crawler

(* parse: the failure of a file is kept until the end. *)
LEMMA ParseStep ==
  ASSUME ServiceInv, NEW p \in Procs, Parse(p)
  PROVE  ServiceInv'
<1>1. /\ proc[p] \in Process /\ ProcessIsSound(Crawler(p), proc[p]) /\ Crawler(p)
      /\ proc[p].pc = "parse" /\ Active(p) = {}
      /\ {"ok", "error"} \subseteq Codes
  BY ActiveServes DEF Parse, ParseFile, ParseFails, WriteFails, ParseDone,
                      ProcessIsSound, Serving, Codes
<1>2. ASSUME NEW x \in {proc[p], Failed(p)}, Goto(p, [x EXCEPT !.todo = @ \ {Min(@)}])
      PROVE  ServiceInv'
  <2> DEFINE s == [x EXCEPT !.todo = @ \ {Min(@)}]
  <2>1. x \in Process /\ x.pc = "parse"
    BY <1>1, FailedFields
  <2>2. s \in Process /\ s.pc = "parse"
    BY <2>1 DEF Process
  <2>3. Goto(p, s)
    BY <1>2
  <2> HIDE DEF s
  <2>4. ProcessIsSound(Crawler(p), s)
    BY <1>1, <2>2 DEF ProcessIsSound
  <2>5. QED
    BY <1>1, <2>2, <2>3, <2>4, GotoStep
<1>3. CASE ParseFile(p)
  BY <1>2, <1>3 DEF ParseFile
<1>4. CASE ParseFails(p)
  BY <1>1, <1>2, <1>4, FailedFields, LeaveStep DEF ParseFails
<1>5. CASE WriteFails(p)
  BY <1>1, <1>5, FailedFields, LeaveStep DEF WriteFails
<1>6. CASE ParseDone(p)
  BY <1>1, <1>6, LeaveStep DEF ParseDone
<1>7. QED
  BY <1>3, <1>4, <1>5, <1>6 DEF Parse
-----------------------------------------------------------------------------
(* A step of the migrations: state, lock and applied migrations change       *)
(* together, for a process without handlers.                                *)
LEMMA MigrateFrame ==
  ASSUME ServiceInv, NEW p \in Procs, NEW s \in Process,
         proc' = [proc EXCEPT ![p] = s], UNCHANGED <<kind, req>>,
         proc[p].pc \notin Serving, ProcessIsSound(Crawler(p), s),
         applied' \in [Migrations -> Nat], lock' \in Procs \cup {NULL},
         MigrationsAreSound'
  PROVE  ServiceInv'
<1>1. proc \in [Procs -> Process] /\ Active(p) = {}
  BY ActiveServes DEF ServiceInv, TypeOK
<1>2. proc'[p] = s /\ \A q \in Procs \ {p} : proc'[q] = proc[q]
  BY <1>1
<1>3. \A q \in Procs : Crawler(q)' = Crawler(q)
  BY DEF Crawler
<1>4. TypeOK'
  BY <1>1 DEF ServiceInv, TypeOK
<1>5. \A q \in Procs : ProcessIsSound(Crawler(q), proc[q])'
  BY <1>2, <1>3 DEF ServiceInv, ProcessIsSound
<1>6. ASSUME NEW r \in Reqs PROVE HandlerIsSound(r)'
  <2>1. HandlerIsSound(r) /\ req'[r] = req[r] /\ req[r] \in Handler /\ req[r].at # p
    BY <1>1 DEF ServiceInv, TypeOK, Active
  <2>2. QED
    BY <2>1, <1>2, <1>3 DEF HandlerIsSound, Handler
<1>7. QED
  BY <1>4, <1>5, <1>6 DEF ServiceInv

(* runMigrations: only the holder of the lock applies, and it applies what  *)
(* nobody applied before.                                                   *)
LEMMA MigrateStep ==
  ASSUME ServiceInv, NEW p \in Procs, Migrate(p)
  PROVE  ServiceInv'
<1>1. /\ proc[p] \in Process /\ ProcessIsSound(Crawler(p), proc[p])
      /\ proc[p].pc \in {"migrate", "apply"} /\ proc[p].pc \notin Serving
      /\ ~Crawler(p) /\ p # NULL
  BY ActiveServes, ServiceAssumption
     DEF Migrate, MigrateLock, MigrateApply, MigrateDone, MigrateFail, Serving, ProcessIsSound
<1>2. /\ proc \in [Procs -> Process] /\ applied \in [Migrations -> Nat]
      /\ lock \in Procs \cup {NULL} /\ MigrationsAreSound
  BY DEF ServiceInv, TypeOK
<1>3. CASE MigrateLock(p)
  <2> DEFINE T == {n \in Migrations : applied[n] = 0}
             s == [proc[p] EXCEPT !.pc = "apply", !.todo = T]
  <2>1. s \in Process /\ s.pc = "apply" /\ s.todo = T /\ s.failed = proc[p].failed
    BY <1>1 DEF Process
  <2>2. s.serve = proc[p].serve
    BY <1>1 DEF Process
  <2>3. proc' = [proc EXCEPT ![p] = s]
    BY <1>2, <1>3 DEF MigrateLock
  <2> HIDE DEF s
  <2>4. ProcessIsSound(Crawler(p), s)
    BY <1>1, <2>1, <2>2 DEF ProcessIsSound
  <2>5. /\ lock = NULL /\ lock' = p /\ applied' = applied /\ UNCHANGED <<kind, req>>
    BY <1>3 DEF MigrateLock
  <2>6. proc'[p] = s /\ \A q \in Procs \ {p} : proc'[q] = proc[q] /\ proc[q].pc # "apply"
    BY <1>2, <2>3, <2>5, ServiceAssumption DEF MigrationsAreSound
  <2>7. \A q \in Procs : Crawler(q)' = Crawler(q)
    BY <2>5 DEF Crawler
  <2>8. MigrationsAreSound'
    BY <1>2, <2>1, <2>5, <2>6, <2>7 DEF MigrationsAreSound, Serving
  <2>9. QED
    BY <1>1, <1>2, <2>1, <2>3, <2>4, <2>5, <2>8, MigrateFrame
<1>4. CASE MigrateApply(p)
  <2> DEFINE m == Min(proc[p].todo)
             s == [proc[p] EXCEPT !.todo = @ \ {m}]
  <2>1. /\ proc[p].pc = "apply" /\ lock = p
        /\ proc[p].todo = {n \in Migrations : applied[n] = 0} /\ proc[p].todo # {}
    BY <1>2, <1>4 DEF MigrateApply, MigrationsAreSound
  <2>2. m \in proc[p].todo
    <3>1. Migrations \subseteq Nat
      BY ServiceAssumption DEF Migrations
    <3>2. proc[p].todo \in SUBSET Nat
      BY <2>1, <3>1
    <3>3. QED
      BY <2>1, <3>2, LeastNumber
  <2>3. s \in Process /\ s.pc = "apply" /\ s.todo = proc[p].todo \ {m}
    BY <1>1, <2>1 DEF Process
  <2>4. s.failed = proc[p].failed /\ s.serve = proc[p].serve
    BY <1>1 DEF Process
  <2>5. /\ proc' = [proc EXCEPT ![p] = s]
        /\ applied' = [applied EXCEPT ![m] = @ + 1]
        /\ UNCHANGED <<kind, req, lock>>
    BY <1>2, <1>4 DEF MigrateApply
  <2> HIDE DEF s, m
  <2>6. ProcessIsSound(Crawler(p), s)
    BY <1>1, <2>3, <2>4 DEF ProcessIsSound
  <2>7. m \in Migrations /\ applied[m] = 0
    BY <2>1, <2>2
  <2>8. applied' \in [Migrations -> Nat] /\ \A n \in Migrations \ {m} : applied'[n] = applied[n]
    BY <1>2, <2>5, <2>7
  <2>9. applied'[m] = 1
    BY <1>2, <2>5, <2>7
  <2>10. \A q \in Procs : Crawler(q)' = Crawler(q)
    BY <2>5 DEF Crawler
  <2>11. \A q \in Procs \ {p} : proc'[q] = proc[q] /\ proc[q].pc # "apply"
    BY <1>2, <2>1, <2>5 DEF MigrationsAreSound
  <2>12. s.todo = {n \in Migrations : applied'[n] = 0}
    BY <2>1, <2>3, <2>7, <2>8, <2>9
  <2>13. proc'[p] = s
    BY <1>2, <2>5
  <2>14. MigrationsAreSound'
    BY <1>2, <2>1, <2>3, <2>5, <2>7, <2>8, <2>9, <2>10, <2>11, <2>12, <2>13
       DEF MigrationsAreSound, Serving
  <2>15. QED
    BY <1>1, <1>2, <2>3, <2>5, <2>6, <2>8, <2>14, MigrateFrame
<1>5. CASE MigrateDone(p)
  <2> DEFINE s == [proc[p] EXCEPT !.pc = "listen"]
  <2>1. /\ proc[p].pc = "apply" /\ lock = p /\ proc[p].todo = {}
        /\ proc[p].todo = {n \in Migrations : applied[n] = 0}
    BY <1>2, <1>5 DEF MigrateDone, MigrationsAreSound
  <2>2. s \in Process /\ s.pc = "listen"
    BY <1>1 DEF Process
  <2>3. s.failed = proc[p].failed /\ s.serve = proc[p].serve
    BY <1>1 DEF Process
  <2>4. /\ proc' = [proc EXCEPT ![p] = s]
        /\ lock' = NULL /\ UNCHANGED <<kind, req, applied>>
    BY <1>2, <1>5, <2>1 DEF MigrateDone
  <2> HIDE DEF s
  <2>5. ProcessIsSound(Crawler(p), s)
    BY <1>1, <2>2, <2>3 DEF ProcessIsSound
  <2>6. \A n \in Migrations : applied[n] = 1
    BY <2>1, <1>2 DEF MigrationsAreSound
  <2>7. MigrationsAreSound'
    BY <1>1, <1>2, <2>1, <2>2, <2>4, <2>6 DEF MigrationsAreSound, Crawler
  <2>8. QED
    BY <1>1, <1>2, <2>2, <2>4, <2>5, <2>7, MigrateFrame
<1>6. CASE MigrateFail(p)
  BY <1>6, FailedFields, LeaveStep DEF MigrateFail, Codes
<1>7. QED
  BY <1>3, <1>4, <1>5, <1>6 DEF Migrate
-----------------------------------------------------------------------------
(* Main and the serve goroutine move on within their places. *)
LEMMA MainStep ==
  ASSUME ServiceInv, NEW p \in Procs, Main(p)
  PROVE  ServiceInv'
<1>1. /\ proc[p] \in Process /\ ProcessIsSound(Crawler(p), proc[p])
      /\ \A r \in Active(p) :
           /\ proc[p].pc \in Serving
           /\ proc[p].pc \in {"await", "close"} =>
                proc[p].forced \/ proc[p].serve = "failed"
      /\ proc[p].pc \notin Serving => Active(p) = {}
      /\ Codes = {NULL, "ok", "error", "killed"} /\ proc[p].code \in Codes
  BY ActiveServes DEF Codes, Process
<1>2. CASE Listen(p)
  <2>1. ~Crawler(p) /\ proc[p].pc = "listen" /\ Active(p) = {}
    BY <1>1, <1>2 DEF Listen, ProcessIsSound, Serving
  <2>2. CASE Goto(p, [proc[p] EXCEPT !.pc = "select", !.serve = "starting"])
    <3> DEFINE s == [proc[p] EXCEPT !.pc = "select", !.serve = "starting"]
    <3>1. s \in Process /\ s.pc = "select" /\ s.failed = proc[p].failed
      BY <1>1 DEF Process
    <3>2. Goto(p, s)
      BY <2>2
    <3>3. ~proc[p].failed
      BY <1>1, <2>1 DEF ProcessIsSound
    <3> HIDE DEF s
    <3>4. ProcessIsSound(Crawler(p), s)
      BY <1>1, <2>1, <3>1, <3>3 DEF ProcessIsSound
    <3>5. QED
      BY <2>1, <3>1, <3>2, <3>4, GotoStep
  <2>3. CASE Goto(p, [Failed(p) EXCEPT !.pc = "close", !.code = "error"])
    <3> DEFINE f == Failed(p)
               s == [f EXCEPT !.pc = "close", !.code = "error"]
    <3>1. f \in Process
      BY FailedFields
    <3>2. Goto(p, s)
      BY <2>3
    <3> HIDE DEF f
    <3>3. s \in Process /\ s.pc = "close" /\ s.code = "error"
      BY <3>1, <1>1 DEF Process
    <3> HIDE DEF s
    <3>4. ProcessIsSound(Crawler(p), s)
      BY <2>1, <3>3 DEF ProcessIsSound
    <3>5. QED
      BY <2>1, <3>2, <3>3, <3>4, GotoStep
  <2>4. QED
    BY <1>2, <2>2, <2>3 DEF Listen
<1>3. CASE SelectSignal(p)
  <2> DEFINE v == IF proc[p].serve = "up" THEN "closed" ELSE proc[p].serve
             s == [proc[p] EXCEPT !.pc = "drain", !.serve = v]
  <2>1. s \in Process /\ s.pc = "drain" /\ s.serve = v
    BY <1>1 DEF Process
  <2>2. s.failed = proc[p].failed /\ s.signal = proc[p].signal /\ s.forced = proc[p].forced
    BY <1>1 DEF Process
  <2>3. Goto(p, s) /\ proc[p].pc = "select" /\ proc[p].signal
    BY <1>3 DEF SelectSignal
  <2> HIDE DEF s
  <2>4. ProcessIsSound(Crawler(p), s)
    BY <1>1, <2>1, <2>2, <2>3 DEF ProcessIsSound
  <2>5. QED
    BY <1>1, <2>1, <2>2, <2>3, <2>4, GotoStep DEF Serving
<1>4. CASE SelectError(p)
  <2>1. CASE Crawler(p)
    BY <1>1, <1>4, <2>1, LeaveStep DEF SelectError
  <2>2. CASE ~Crawler(p)
    <3> DEFINE s == [proc[p] EXCEPT !.pc = "close", !.code = "error"]
    <3>1. s \in Process /\ s.pc = "close" /\ s.code = "error" /\ s.serve = proc[p].serve
      BY <1>1 DEF Process
    <3>2. s.forced = proc[p].forced
      BY <1>1 DEF Process
    <3>3. Goto(p, s) /\ proc[p].pc = "select" /\ proc[p].serve = "failed"
      BY <1>4, <2>2 DEF SelectError
    <3> HIDE DEF s
    <3>4. ProcessIsSound(Crawler(p), s)
      BY <2>2, <3>1 DEF ProcessIsSound
    <3>5. QED
      BY <3>1, <3>2, <3>3, <3>4, GotoStep DEF Serving
  <2>3. QED
    BY <2>1, <2>2
<1>5. CASE DrainDone(p)
  <2>1. CASE Crawler(p)
    <3>1. /\ Leave(p, proc[p], "ok") /\ proc[p].pc = "drain" /\ proc[p].signal
          /\ proc[p].failed => proc[p].serve = "failed"
      BY <1>1, <1>5, <2>1 DEF DrainDone, ProcessIsSound
    <3>2. QED
      BY <1>1, <2>1, <3>1, LeaveStep
  <2>2. CASE ~Crawler(p)
    <3> DEFINE s == [proc[p] EXCEPT !.pc = "await"]
    <3>1. s \in Process /\ s.pc = "await" /\ s.serve = proc[p].serve
      BY <1>1 DEF Process
    <3>2. s.failed = proc[p].failed
      BY <1>1 DEF Process
    <3>3. Goto(p, s) /\ proc[p].pc = "drain" /\ Active(p) = {}
      BY <1>5, <2>2 DEF DrainDone
    <3> HIDE DEF s
    <3>4. ProcessIsSound(Crawler(p), s)
      BY <1>1, <2>2, <3>1, <3>2, <3>3 DEF ProcessIsSound
    <3>5. QED
      BY <3>1, <3>3, <3>4, GotoStep DEF Serving
  <2>3. QED
    BY <2>1, <2>2
<1>6. CASE AwaitServe(p)
  <2> DEFINE c == IF proc[p].serve = "failed" THEN "error" ELSE "ok"
             s == [proc[p] EXCEPT !.pc = "close", !.code = c]
  <2>1. s \in Process /\ s.pc = "close" /\ s.code = c /\ s.serve = proc[p].serve
    BY <1>1 DEF Process
  <2>2. s.failed = proc[p].failed /\ s.forced = proc[p].forced
    BY <1>1 DEF Process
  <2>3. Goto(p, s) /\ proc[p].pc = "await"
    BY <1>6 DEF AwaitServe
  <2> HIDE DEF s
  <2>4. ProcessIsSound(Crawler(p), s)
    BY <1>1, <2>1, <2>2, <2>3 DEF ProcessIsSound
  <2>5. QED
    BY <1>1, <2>1, <2>2, <2>3, <2>4, GotoStep DEF Serving
<1>7. CASE ClosePool(p)
  <2>1. Leave(p, proc[p], proc[p].code) /\ (proc[p].code = "ok" => ~proc[p].failed)
    BY <1>1, <1>7 DEF ClosePool, ProcessIsSound
  <2>2. QED
    BY <1>1, <2>1, LeaveStep
<1>8. QED
  BY <1>2, <1>3, <1>4, <1>5, <1>6, <1>7 DEF Main

(* The serve goroutine starts, refuses to start or dies. *)
LEMMA ServeStep ==
  ASSUME ServiceInv, NEW p \in Procs, ServeStart(p) \/ ServeDies(p)
  PROVE  ServiceInv'
<1>1. /\ proc[p] \in Process /\ ProcessIsSound(Crawler(p), proc[p])
      /\ \A r \in Active(p) :
           /\ proc[p].pc \in Serving
           /\ proc[p].pc \in {"await", "close"} =>
                proc[p].forced \/ proc[p].serve = "failed"
      /\ proc[p].pc # "exited" /\ proc[p].serve # "failed" /\ proc[p].serve # "off"
  BY ActiveServes DEF ServeStart, ServeDies
<1>2. ASSUME Goto(p, [proc[p] EXCEPT !.serve = IF proc[p].pc = "select" THEN "up" ELSE "closed"])
      PROVE  ServiceInv'
  <2> DEFINE v == IF proc[p].pc = "select" THEN "up" ELSE "closed"
             s == [proc[p] EXCEPT !.serve = v]
  <2>1. s \in Process /\ s.pc = proc[p].pc /\ s.code = proc[p].code /\ s.todo = proc[p].todo
    BY <1>1 DEF Process
  <2>2. s.failed = proc[p].failed /\ s.forced = proc[p].forced /\ s.signal = proc[p].signal
    BY <1>1 DEF Process
  <2>3. Goto(p, s)
    BY <1>2
  <2> HIDE DEF s
  <2>4. ProcessIsSound(Crawler(p), s)
    BY <1>1, <2>1, <2>2 DEF ProcessIsSound
  <2>5. QED
    BY <1>1, <2>1, <2>2, <2>3, <2>4, GotoStep
<1>3. ASSUME Goto(p, [Failed(p) EXCEPT !.serve = "failed"]),
             Crawler(p) \/ proc[p].pc = "select"
      PROVE  ServiceInv'
  <2> DEFINE f == Failed(p)
             s == [f EXCEPT !.serve = "failed"]
  <2>1. /\ f \in Process /\ f.pc = proc[p].pc /\ f.forced = proc[p].forced
        /\ f.signal = proc[p].signal
    BY FailedFields
  <2>2. Goto(p, s)
    BY <1>3
  <2>3. proc[p].pc = "boot" => Active(p) = {}
    BY ActiveServes DEF Serving
  <2> HIDE DEF f
  <2>4. s \in Process /\ s.pc = proc[p].pc /\ s.serve = "failed"
    BY <2>1 DEF Process
  <2>5. s.forced = proc[p].forced /\ s.signal = proc[p].signal
    BY <2>1 DEF Process
  <2> HIDE DEF s
  <2>6. proc[p].pc \notin {"boot", "close", "apply"}
    BY <1>1, <1>3 DEF ProcessIsSound
  <2>7. ProcessIsSound(Crawler(p), s)
    BY <1>1, <2>4, <2>5, <2>6 DEF ProcessIsSound
  <2>8. QED
    BY <1>1, <2>2, <2>4, <2>5, <2>6, <2>7, GotoStep
<1>4. QED
  BY <1>2, <1>3 DEF ServeStart, ServeDies
(* The drain deadline. *)
LEMMA DrainTimeoutStep ==
  ASSUME ServiceInv, NEW p \in Procs, DrainTimeout(p)
  PROVE  ServiceInv'
<1>1. /\ proc \in [Procs -> Process] /\ proc[p] \in Process /\ p # NULL
      /\ ProcessIsSound(Crawler(p), proc[p]) /\ proc[p].pc = "drain"
  BY ActiveServes, ServiceAssumption DEF DrainTimeout, ServiceInv, TypeOK
<1>2. CASE Crawler(p)
  <2> DEFINE s == [proc[p] EXCEPT !.forced = TRUE]
  <2>1. s \in Process
    BY <1>1 DEF Process
  <2>2. Leave(p, s, "error")
    BY <1>2 DEF DrainTimeout
  <2> HIDE DEF s
  <2>3. QED
    BY <2>1, <2>2, LeaveStep DEF Codes
<1>3. CASE ~Crawler(p)
  <2> DEFINE s == [proc[p] EXCEPT !.pc = "await", !.forced = TRUE]
  <2>1. s \in Process /\ s.pc = "await" /\ s.serve = proc[p].serve /\ s.forced
    BY <1>1 DEF Process
  <2>2. s.failed = proc[p].failed
    BY <1>1 DEF Process
  <2>3. /\ proc' = [proc EXCEPT ![p] = s]
        /\ req' = [r \in Reqs |-> IF r \in Active(p) THEN [req[r] EXCEPT !.cut = TRUE]
                                  ELSE req[r]]
        /\ UNCHANGED <<kind, applied, lock>>
    BY <1>1, <1>3 DEF DrainTimeout
  <2> HIDE DEF s
  <2>4. ProcessIsSound(Crawler(p), s)
    BY <1>1, <1>3, <2>1, <2>2 DEF ProcessIsSound
  <2>5. proc'[p] = s /\ \A q \in Procs \ {p} : proc'[q] = proc[q]
    BY <1>1, <2>3
  <2>6. \A q \in Procs : Crawler(q)' = Crawler(q)
    BY <2>3 DEF Crawler
  <2>7. ASSUME NEW r \in Reqs
        PROVE  /\ req'[r] \in Handler /\ req'[r].pc = req[r].pc /\ req'[r].at = req[r].at
               /\ req'[r].last = req[r].last /\ req'[r].left = req[r].left
               /\ req[r].at # p => req'[r] = req[r]
    <3>1. req[r] \in Handler
      BY DEF ServiceInv, TypeOK
    <3> DEFINE h == [req[r] EXCEPT !.cut = TRUE]
    <3>2. /\ h \in Handler /\ h.pc = req[r].pc /\ h.at = req[r].at
          /\ h.last = req[r].last /\ h.left = req[r].left
      BY <3>1 DEF Handler
    <3>3. req'[r] = IF r \in Active(p) THEN h ELSE req[r]
      BY <2>3
    <3> HIDE DEF h
    <3>4. QED
      BY <3>1, <3>2, <3>3 DEF Active
  <2>8. TypeOK'
    <3>1. req' \in [Reqs -> Handler]
      BY <2>3, <2>7
    <3>2. QED
      BY <1>1, <2>1, <2>3, <3>1 DEF ServiceInv, TypeOK
  <2>9. \A q \in Procs : ProcessIsSound(Crawler(q), proc[q])'
    BY <2>4, <2>5, <2>6 DEF ServiceInv, ProcessIsSound
  <2>10. ASSUME NEW r \in Reqs PROVE HandlerIsSound(r)'
    <3>1. HandlerIsSound(r) /\ req[r] \in Handler
      BY DEF ServiceInv, TypeOK
    <3>2. CASE req[r].at = p
      BY <1>1, <1>3, <2>1, <2>5, <2>6, <2>7, <3>1, <3>2 DEF HandlerIsSound, Serving
    <3>3. CASE req[r].at # p
      BY <2>5, <2>6, <2>7, <3>1, <3>3 DEF HandlerIsSound, Handler
    <3>4. QED
      BY <3>2, <3>3
  <2>11. MigrationsAreSound'
    BY <1>1, <2>1, <2>3, <2>5, <2>6 DEF ServiceInv, MigrationsAreSound, Serving
  <2>12. QED
    BY <2>8, <2>9, <2>10, <2>11 DEF ServiceInv
<1>4. QED
  BY <1>2, <1>3

(* Signals, kills and restarts. *)
LEMMA OutsideStep ==
  ASSUME ServiceInv, NEW p \in Procs, Signal(p) \/ Kill(p) \/ Start(p)
  PROVE  ServiceInv'
<1>1. /\ proc[p] \in Process /\ ProcessIsSound(Crawler(p), proc[p])
      /\ \A r \in Active(p) :
           /\ proc[p].pc \in Serving
           /\ proc[p].pc \in {"await", "close"} =>
                proc[p].forced \/ proc[p].serve = "failed"
      /\ proc[p].pc \notin Serving => Active(p) = {}
  BY ActiveServes
<1>2. CASE Signal(p)
  <2> DEFINE s == [proc[p] EXCEPT !.signal = TRUE]
  <2>1. s \in Process /\ s.pc = proc[p].pc /\ s.code = proc[p].code /\ s.todo = proc[p].todo
    BY <1>1 DEF Process
  <2>2. s.failed = proc[p].failed /\ s.forced = proc[p].forced /\ s.serve = proc[p].serve
    BY <1>1 DEF Process
  <2>3. s.signal /\ Goto(p, s) /\ proc[p].pc # "exited"
    BY <1>1, <1>2 DEF Signal, Process
  <2> HIDE DEF s
  <2>4. ProcessIsSound(Crawler(p), s)
    BY <1>1, <2>1, <2>2, <2>3 DEF ProcessIsSound
  <2>5. QED
    BY <1>1, <2>1, <2>2, <2>3, <2>4, GotoStep
<1>3. CASE Kill(p)
  BY <1>1, <1>3, LeaveStep DEF Kill, Codes
<1>4. CASE Start(p)
  <2>1. NewProc \in Process
    BY DEF NewProc, Process, Codes
  <2>2. NewProc.pc = "boot" /\ ~NewProc.failed /\ NewProc.serve = "off"
    BY DEF NewProc
  <2>3. ProcessIsSound(Crawler(p), NewProc)
    BY <2>2 DEF ProcessIsSound
  <2>4. Goto(p, NewProc) /\ Active(p) = {}
    BY <1>1, <1>4 DEF Start, Serving
  <2>5. QED
    BY <2>1, <2>2, <2>3, <2>4, GotoStep DEF Serving
<1>5. QED
  BY <1>2, <1>3, <1>4

-----------------------------------------------------------------------------
(* One handler changes and nothing else. *)
LEMMA HandlerFrame ==
  ASSUME ServiceInv, NEW r \in Reqs, NEW h \in Handler, req' = [req EXCEPT ![r] = h],
         UNCHANGED <<kind, proc, applied, lock>>,
         h.pc = "free" <=> h.at = NULL,
         h.at # NULL =>
           /\ proc[h.at].pc \in Serving
           /\ proc[h.at].pc \in {"await", "close"} =>
                proc[h.at].forced \/ proc[h.at].serve = "failed"
           /\ h.cut => proc[h.at].forced
           /\ h.last = NULL
           /\ h.pc = "tx" => ~Crawler(h.at) /\ h.left > 0
  PROVE  ServiceInv'
<1>1. req \in [Reqs -> Handler]
  BY DEF ServiceInv, TypeOK
<1>2. req'[r] = h /\ \A q \in Reqs \ {r} : req'[q] = req[q]
  BY <1>1
<1>3. TypeOK'
  BY <1>1 DEF ServiceInv, TypeOK
<1>4. \A p \in Procs : ProcessIsSound(Crawler(p), proc[p])'
  BY DEF ServiceInv, ProcessIsSound, Crawler
<1>5. \A q \in Reqs : HandlerIsSound(q)'
  BY <1>2 DEF ServiceInv, HandlerIsSound, Crawler
<1>6. MigrationsAreSound'
  BY DEF ServiceInv, MigrationsAreSound, Crawler
<1>7. QED
  BY <1>3, <1>4, <1>5, <1>6 DEF ServiceInv

(* A handler that ends leaves its client free. *)
LEMMA EndStep ==
  ASSUME ServiceInv, NEW r \in Reqs, NEW result \in {"ok", "error"}, End(r, result),
         UNCHANGED <<kind, proc, applied, lock>>
  PROVE  ServiceInv'
<1> DEFINE last == IF req[r].cut THEN "dropped" ELSE result
           h == [Free EXCEPT !.last = last]
<1>1. h \in Handler
  BY FreeType
<1>2. h.pc = "free" /\ h.at = NULL
  BY DEF Free
<1>3. req' = [req EXCEPT ![r] = h]
  BY DEF End
<1> HIDE DEF h
<1>4. QED
  BY <1>1, <1>2, <1>3, HandlerFrame
(* A request is accepted. *)
LEMMA AcceptStep ==
  ASSUME ServiceInv, NEW p \in Procs, NEW r \in Reqs, Accept(p, r)
  PROVE  ServiceInv'
<1>1. proc[p].pc = "select" /\ UNCHANGED <<kind, proc, applied, lock>> /\ p # NULL
  BY ServiceAssumption DEF Accept
<1>2. ASSUME NEW n \in 1..MaxUnits,
             req' = [req EXCEPT ![r] = [Free EXCEPT !.pc = "run", !.at = p, !.left = n]]
      PROVE  ServiceInv'
  <2> DEFINE f == Free
             h == [f EXCEPT !.pc = "run", !.at = p, !.left = n]
  <2>1. f \in Handler /\ ~f.cut /\ f.last = NULL
    BY FreeType
  <2>2. n \in 0..MaxUnits
    BY ServiceAssumption
  <2>3. req' = [req EXCEPT ![r] = h]
    BY <1>2
  <2> HIDE DEF f
  <2>4. h \in Handler /\ h.pc = "run" /\ h.at = p /\ h.last = NULL
    BY <2>1, <2>2 DEF Handler
  <2>5. ~h.cut
    BY <2>1 DEF Handler
  <2> HIDE DEF h
  <2>6. QED
    BY <1>1, <2>3, <2>4, <2>5, HandlerFrame DEF Serving
<1>3. ASSUME req' = [req EXCEPT ![r] = [Free EXCEPT !.pc = "stream", !.at = p]]
      PROVE  ServiceInv'
  <2> DEFINE f == Free
             h == [f EXCEPT !.pc = "stream", !.at = p]
  <2>1. f \in Handler /\ ~f.cut /\ f.last = NULL
    BY FreeType
  <2>2. 0 \in 0..MaxUnits
    BY ServiceAssumption
  <2>3. req' = [req EXCEPT ![r] = h]
    BY <1>3
  <2> HIDE DEF f
  <2>4. h \in Handler /\ h.pc = "stream" /\ h.at = p /\ h.last = NULL
    BY <2>1, <2>2 DEF Handler
  <2>5. ~h.cut
    BY <2>1 DEF Handler
  <2> HIDE DEF h
  <2>6. QED
    BY <1>1, <2>3, <2>4, <2>5, HandlerFrame DEF Serving
<1>4. QED
  BY <1>2, <1>3 DEF Accept

(* The statements of a handler; a transaction is had from takuhai's pool     *)
(* only.                                                                    *)
LEMMA WorkStep ==
  ASSUME ServiceInv, NEW r \in Reqs, Work(r) \/ StreamEnd(r)
  PROVE  ServiceInv'
<1>1. /\ req \in [Reqs -> Handler] /\ req[r] \in Handler /\ HandlerIsSound(r)
      /\ UNCHANGED <<kind, proc, applied, lock>>
  BY DEF ServiceInv, TypeOK, Work, StreamEnd
<1>2. CASE Acquire(r)
  <2> DEFINE h == [req[r] EXCEPT !.pc = "tx"]
  <2>1. h \in Handler /\ h.pc = "tx" /\ h.at = req[r].at /\ h.last = req[r].last
    BY <1>1 DEF Handler
  <2>2. h.cut = req[r].cut /\ h.left = req[r].left
    BY <1>1 DEF Handler
  <2>3. /\ req' = [req EXCEPT ![r] = h] /\ req[r].pc = "run" /\ ~Crawler(req[r].at)
        /\ req[r].left > 0
    BY <1>1, <1>2 DEF Acquire
  <2> HIDE DEF h
  <2>4. QED
    BY <1>1, <2>1, <2>2, <2>3, HandlerFrame DEF HandlerIsSound
<1>3. ASSUME req[r].pc \in {"run", "tx"}, req[r].left > 0,
             req' = [req EXCEPT ![r].pc = "run", ![r].left = @ - 1]
      PROVE  ServiceInv'
  <2> DEFINE h == [req[r] EXCEPT !.pc = "run", !.left = @ - 1]
  <2>1. req[r].left - 1 \in 0..MaxUnits
    BY <1>1, <1>3, ServiceAssumption DEF Handler
  <2>2. h \in Handler /\ h.pc = "run" /\ h.at = req[r].at /\ h.last = req[r].last
    BY <1>1, <2>1 DEF Handler
  <2>3. h.cut = req[r].cut
    BY <1>1, <2>1 DEF Handler
  <2>4. req' = [req EXCEPT ![r] = h]
    BY <1>1, <1>3
  <2> HIDE DEF h
  <2>5. /\ req[r].at # NULL /\ proc[req[r].at].pc \in Serving
        /\ proc[req[r].at].pc \in {"await", "close"} =>
             proc[req[r].at].forced \/ proc[req[r].at].serve = "failed"
        /\ req[r].cut => proc[req[r].at].forced
        /\ req[r].last = NULL
    BY <1>1, <1>3 DEF HandlerIsSound
  <2>6. QED
    BY <1>1, <2>2, <2>3, <2>4, <2>5, HandlerFrame
<1>4. CASE Commit(r)
  <2>1. req[r].pc = "tx" /\ req[r].left > 0
    BY <1>1, <1>4 DEF Commit, HandlerIsSound
  <2>2. QED
    BY <1>3, <1>4, <2>1 DEF Commit
<1>5. CASE Fetch(r)
  <2>1. CASE req' = [req EXCEPT ![r].left = @ - 1]
    <3>1. req' = [req EXCEPT ![r].pc = "run", ![r].left = @ - 1]
      BY <1>1, <1>5, <2>1 DEF Fetch, Handler
    <3>2. QED
      BY <1>3, <1>5, <3>1 DEF Fetch
  <2>2. CASE End(r, "error")
    BY <1>1, <2>2, EndStep
  <2>3. QED
    BY <1>5, <2>1, <2>2 DEF Fetch
<1>6. CASE Abort(r) \/ Refuse(r)
  BY <1>1, <1>6, EndStep DEF Abort, Refuse
<1>7. CASE Reply(r)
  BY <1>1, <1>7, EndStep DEF Reply
<1>8. CASE StreamEnd(r)
  BY <1>1, <1>8, EndStep DEF StreamEnd
<1>9. QED
  BY <1>2, <1>4, <1>5, <1>6, <1>7, <1>8 DEF Work
-----------------------------------------------------------------------------
(* Nothing runs yet. *)
LEMMA InitService == Init => ServiceInv
<1> SUFFICES ASSUME Init PROVE ServiceInv
  OBVIOUS
<1>1. NewProc \in Process
  BY DEF NewProc, Process, Codes
<1>2. NewProc.pc = "boot" /\ ~NewProc.failed /\ NewProc.serve = "off"
  BY DEF NewProc
<1>3. /\ \A p \in Procs : proc[p] = NewProc
      /\ \A r \in Reqs : req[r] = Free
      /\ \A n \in Migrations : applied[n] = 0
  BY DEF Init
<1>4. TypeOK
  BY <1>1, FreeType DEF Init, TypeOK
<1>5. \A p \in Procs : ProcessIsSound(Crawler(p), proc[p])
  BY <1>2, <1>3 DEF ProcessIsSound
<1>6. \A r \in Reqs : HandlerIsSound(r)
  BY <1>3, FreeType DEF HandlerIsSound
<1>7. MigrationsAreSound
  BY <1>2, <1>3 DEF MigrationsAreSound, Serving
<1>8. QED
  BY <1>4, <1>5, <1>6, <1>7 DEF ServiceInv

(* Every step keeps the invariant. *)
LEMMA NextService == ServiceInv /\ [Next]_vars => ServiceInv'
<1> SUFFICES ASSUME ServiceInv, [Next]_vars PROVE ServiceInv'
  OBVIOUS
<1>1. ASSUME NEW p \in Procs,
             \/ Boot(p) \/ Parse(p) \/ Migrate(p) \/ Main(p)
             \/ ServeStart(p) \/ ServeDies(p) \/ DrainTimeout(p)
             \/ Signal(p) \/ Kill(p) \/ Start(p)
      PROVE  ServiceInv'
  BY <1>1, BootStep, ParseStep, MigrateStep, MainStep, ServeStep, DrainTimeoutStep, OutsideStep
<1>2. ASSUME NEW p \in Procs, NEW r \in Reqs, Accept(p, r) PROVE ServiceInv'
  BY <1>2, AcceptStep
<1>3. ASSUME NEW r \in Reqs, Work(r) \/ StreamEnd(r) PROVE ServiceInv'
  BY <1>3, WorkStep
<1>4. CASE UNCHANGED vars
  BY <1>4 DEF vars, ServiceInv, TypeOK, ProcessIsSound, HandlerIsSound, MigrationsAreSound,
              Crawler
<1>5. QED
  BY <1>1, <1>2, <1>3, <1>4 DEF Next

(* Every reachable state satisfies the inductive invariant. *)
THEOREM ServiceHolds == Spec => []ServiceInv
  BY InitService, NextService, PTL DEF Spec

(* No transaction of a handler meets a database whose migrations are not    *)
(* all applied, exactly once each (main.go:95, migrations.go:22).           *)
THEOREM SchemaAtHead == Spec => []ServesAtHead
<1>1. ServiceInv => ServesAtHead
  <2> SUFFICES ASSUME ServiceInv, NEW r \in Reqs, req[r].pc = "tx", NEW n \in Migrations
               PROVE  applied[n] = 1
    BY DEF ServesAtHead
  <2>1. req[r] \in Handler /\ HandlerIsSound(r)
    BY DEF ServiceInv, TypeOK
  <2>2. /\ req[r].at \in Procs /\ ~Crawler(req[r].at)
        /\ proc[req[r].at].pc \in Serving
    BY <2>1 DEF HandlerIsSound, Handler
  <2>3. QED
    BY <2>2 DEF ServiceInv, MigrationsAreSound
<1>2. QED
  BY <1>1, ServiceHolds, PTL

(* The exit code of a process tells every failure it met, except that of a  *)
(* crawler's listener behind a signal (main.go:218, parse.go:48).           *)
THEOREM ReportedFailures == Spec => []FailureIsReported
<1>1. ServiceInv => FailureIsReported
  BY DEF ServiceInv, ProcessIsSound, FailureIsReported
<1>2. QED
  BY <1>1, ServiceHolds, PTL
-----------------------------------------------------------------------------
(* A client that is served was not told anything yet. *)
LEMMA ServedClient ==
  ASSUME ServiceInv, NEW r \in Reqs, req[r].at # NULL
  PROVE  /\ req[r] \in Handler /\ req[r].at \in Procs /\ req[r].pc # "free"
         /\ req[r].last # "dropped" /\ proc[req[r].at].pc \in Serving
         /\ proc[req[r].at].pc = "close" =>
              proc[req[r].at].forced \/ proc[req[r].at].serve = "failed"
         /\ req[r].cut => proc[req[r].at].forced
<1>1. req[r] \in Handler /\ HandlerIsSound(r) /\ NULL # "dropped"
  BY ServiceAssumption DEF ServiceInv, TypeOK
<1>2. QED
  BY <1>1 DEF HandlerIsSound, Handler

(* A process that ends drops its own clients, and its last state says why.  *)
LEMMA LeaveDrops ==
  ASSUME ServiceInv, NEW p \in Procs, NEW s \in Process, NEW code \in Codes,
         Leave(p, s, code),
         NEW r \in Reqs, req[r].at # NULL, req'[r].last = "dropped"
  PROVE  /\ req[r].at = p /\ proc'[p].forced = s.forced
         /\ proc'[p].serve = s.serve /\ proc'[p].code = code
<1> DEFINE e == [s EXCEPT !.pc = "exited", !.code = code]
<1>1. e.forced = s.forced
  BY DEF Process
<1>2. e.serve = s.serve /\ e.code = code
  BY DEF Process
<1>3. proc' = [proc EXCEPT ![p] = e] /\ proc \in [Procs -> Process]
  BY DEF Leave, ServiceInv, TypeOK
<1> HIDE DEF e
<1>4. proc'[p] = e
  BY <1>3
<1>5. req[r].at = p
  <2> SUFFICES ASSUME req[r].at # p PROVE FALSE
    OBVIOUS
  <2>1. req'[r] = req[r]
    BY DEF Leave, Active
  <2>2. QED
    BY <2>1, ServedClient
<1>6. QED
  BY <1>1, <1>2, <1>4, <1>5

(* Main's steps drop a client only behind a dead listener or the deadline.  *)
LEMMA MainDrops ==
  ASSUME ServiceInv, NEW p \in Procs,
         Boot(p) \/ Parse(p) \/ Migrate(p) \/ Main(p) \/ ServeStart(p) \/ ServeDies(p)
           \/ Signal(p) \/ Start(p),
         NEW r \in Reqs, req[r].at # NULL, req'[r].last = "dropped"
  PROVE  req[r].at = p /\ (proc'[p].forced \/ proc'[p].serve = "failed")
<1>1. req' # req
  BY ServedClient
<1>2. proc[p] \in Process /\ proc[p].code \in Codes
  BY ActiveServes DEF Process
<1>3. {"ok", "error"} \subseteq Codes /\ Failed(p) \in Process
  BY FailedFields DEF Codes
<1>4. ASSUME proc[p].pc \notin Serving, NEW s \in Process, NEW code \in Codes, Leave(p, s, code)
      PROVE  FALSE
  BY <1>4, LeaveDrops, ServedClient
<1>5. CASE Boot(p)
  <2>1. proc[p].pc \notin Serving
    BY <1>5 DEF Boot, Rejected, Version, TakuhaiBoot, NyaaBoot, DmhyBoot, Serving
  <2>2. QED
    BY <1>1, <1>2, <1>3, <1>4, <1>5, <2>1
       DEF Boot, Rejected, Version, TakuhaiBoot, NyaaBoot, DmhyBoot, Goto
<1>6. CASE Parse(p)
  <2>1. proc[p].pc \notin Serving
    BY <1>6 DEF Parse, ParseFile, ParseFails, WriteFails, ParseDone, Serving
  <2>2. QED
    BY <1>1, <1>2, <1>3, <1>4, <1>6, <2>1
       DEF Parse, ParseFile, ParseFails, WriteFails, ParseDone, Goto
<1>7. CASE Migrate(p)
  <2>1. proc[p].pc \notin Serving
    BY <1>7 DEF Migrate, MigrateLock, MigrateApply, MigrateDone, MigrateFail, Serving
  <2>2. QED
    BY <1>1, <1>3, <1>4, <1>7, <2>1
       DEF Migrate, MigrateLock, MigrateApply, MigrateDone, MigrateFail
<1>8. CASE Main(p)
  <2>1. CASE SelectError(p)
    <3>1. Leave(p, proc[p], "error") /\ proc[p].serve = "failed"
      BY <1>1, <2>1 DEF SelectError, Goto
    <3>2. QED
      BY <1>2, <1>3, <3>1, LeaveDrops
  <2>2. CASE DrainDone(p)
    <3>1. Leave(p, proc[p], "ok") /\ Active(p) = {}
      BY <1>1, <2>2 DEF DrainDone, Goto
    <3>2. req[r].at = p
      BY <1>2, <1>3, <3>1, LeaveDrops
    <3>3. QED
      BY <3>1, <3>2 DEF Active
  <2>3. CASE ClosePool(p)
    <3>1. Leave(p, proc[p], proc[p].code) /\ proc[p].pc = "close"
      BY <2>3 DEF ClosePool
    <3>2. QED
      BY <1>2, <3>1, LeaveDrops, ServedClient
  <2>4. QED
    BY <1>1, <1>8, <2>1, <2>2, <2>3 DEF Main, Listen, SelectSignal, AwaitServe, Goto
<1>9. QED
  BY <1>1, <1>5, <1>6, <1>7, <1>8 DEF ServeStart, ServeDies, Signal, Start, Goto

(* The drain's deadline cuts the connections; a crawler ends there.         *)
LEMMA TimeoutDrops ==
  ASSUME ServiceInv, NEW p \in Procs, DrainTimeout(p),
         NEW r \in Reqs, req[r].at # NULL, req'[r].last = "dropped"
  PROVE  req[r].at = p /\ proc'[p].forced
<1>1. proc[p] \in Process
  BY ActiveServes
<1>2. CASE Crawler(p)
  <2> DEFINE s == [proc[p] EXCEPT !.forced = TRUE]
  <2>1. s \in Process
    BY <1>1 DEF Process
  <2>2. s.forced
    BY <1>1 DEF Process
  <2>3. Leave(p, s, "error")
    BY <1>2 DEF DrainTimeout
  <2> HIDE DEF s
  <2>4. QED
    BY <2>1, <2>2, <2>3, LeaveDrops DEF Codes
<1>3. CASE ~Crawler(p)
  <2> DEFINE h == [req[r] EXCEPT !.cut = TRUE]
  <2>1. h.last = req[r].last
    BY ServedClient DEF Handler
  <2>2. req'[r] \in {h, req[r]}
    BY <1>3 DEF DrainTimeout
  <2> HIDE DEF h
  <2>3. QED
    BY <2>1, <2>2, ServedClient
<1>4. QED
  BY <1>2, <1>3

(* The end of a handler reaches its client unless the connection was cut.   *)
LEMMA WorkDrops ==
  ASSUME ServiceInv, NEW q \in Reqs, Work(q) \/ StreamEnd(q),
         NEW r \in Reqs, req[r].at # NULL, req'[r].last = "dropped"
  PROVE  proc'[req[r].at].forced
<1>1. /\ req \in [Reqs -> Handler] /\ proc' = proc
      /\ req[r] \in Handler /\ req[r].last # "dropped"
      /\ req[r].cut => proc[req[r].at].forced
  BY ServedClient DEF ServiceInv, TypeOK, Work, StreamEnd
<1>2. ASSUME NEW result \in {"ok", "error"}, End(q, result)
      PROVE  proc'[req[r].at].forced
  <2> DEFINE last == IF req[q].cut THEN "dropped" ELSE result
             f == Free
             h == [f EXCEPT !.last = last]
  <2>1. f \in Handler
    BY FreeType
  <2>2. req' = [req EXCEPT ![q] = h]
    BY <1>2 DEF End
  <2> HIDE DEF f
  <2>3. h.last = last
    BY <2>1 DEF Handler
  <2> HIDE DEF h
  <2>4. q = r
    BY <1>1, <2>2
  <2>5. req'[r] = h
    BY <1>1, <2>2, <2>4
  <2>6. QED
    BY <1>1, <2>3, <2>4, <2>5
<1>3. CASE Acquire(q) \/ Commit(q) \/ req' = [req EXCEPT ![q].left = @ - 1]
  <2>1. req'[r].last = req[r].last
    <3>1. CASE q # r
      BY <1>1, <1>3, <3>1 DEF Acquire, Commit
    <3>2. CASE q = r
      <4>1. \/ req'[r] = [req[r] EXCEPT !.pc = "tx"]
            \/ req'[r] = [req[r] EXCEPT !.pc = "run", !.left = @ - 1]
            \/ req'[r] = [req[r] EXCEPT !.left = @ - 1]
        BY <1>1, <1>3, <3>2 DEF Acquire, Commit
      <4>2. QED
        BY <1>1, <4>1 DEF Handler
    <3>3. QED
      BY <3>1, <3>2
  <2>2. QED
    BY <1>1, <2>1
<1>4. QED
  BY <1>2, <1>3 DEF Work, StreamEnd, Abort, Refuse, Fetch, Reply

(* A client loses its answer only with a drain that timed out, a listener    *)
(* that died or a process that was killed, never by a signal alone           *)
(* (main.go:178).                                                           *)
THEOREM ExplainedDrops == Spec => DropsAreExplained
<1>1. ASSUME ServiceInv, [Next]_vars, NEW r \in Reqs, req[r].at # NULL, req'[r].last = "dropped"
      PROVE  \/ proc'[req[r].at].forced \/ proc'[req[r].at].serve = "failed"
             \/ proc'[req[r].at].code = "killed"
  <2>1. ASSUME NEW p \in Procs, Kill(p) PROVE proc'[req[r].at].code = "killed"
    <3>1. proc[p] \in Process /\ "killed" \in Codes /\ Leave(p, proc[p], "killed")
      BY <1>1, <2>1, ActiveServes DEF Kill, Codes
    <3>2. QED
      BY <1>1, <3>1, LeaveDrops
  <2>2. ASSUME NEW p \in Procs, NEW q \in Reqs, Accept(p, q) PROVE FALSE
    <3>1. req[q].pc = "free" /\ req[r].pc # "free" /\ req \in [Reqs -> Handler]
      BY <1>1, <2>2, ServedClient DEF Accept, ServiceInv, TypeOK
    <3>2. req'[r] = req[r]
      BY <2>2, <3>1 DEF Accept
    <3>3. QED
      BY <1>1, <3>2, ServedClient
  <2>3. CASE UNCHANGED vars
    BY <1>1, <2>3, ServedClient DEF vars
  <2>4. QED
    BY <1>1, <2>1, <2>2, <2>3, MainDrops, TimeoutDrops, WorkDrops DEF Next
<1>2. ServiceInv /\ [Next]_vars =>
        [\A r \in Reqs :
           req[r].at # NULL /\ req'[r].last = "dropped" =>
             LET p == req[r].at
             IN  proc'[p].forced \/ proc'[p].serve = "failed" \/ proc'[p].code = "killed"]_vars
  BY <1>1
<1>3. QED
  BY <1>2, ServiceHolds, PTL DEF Spec, DropsAreExplained
=============================================================================
