---------------------------- MODULE LibraryQueue ----------------------------
(***************************************************************************)
(* The durable automatic-update queue of the Library add-on: the scheduler *)
(* (autoUpdateScheduler.js) that elects one tab with a lease, the snapshot *)
(* builder, the worker (autoUpdateQueueWorker.js) and the repository they  *)
(* write through (autoUpdateQueueRepository.js).                           *)
(*                                                                         *)
(* Every run() of a scheduler, and every command of the user, is a process *)
(* whose step is a storage call and the code up to the next one; another   *)
(* process, the clock or the end of a tab may come in between.  Instants   *)
(* are abstracted to what they decide: whether a lease or a claim is live, *)
(* whether a retry is due, whether the site is blocked, and the local day. *)
(* A heartbeat then changes nothing: what it prevents, a lease or a claim  *)
(* that runs out under its holder, is a step of its own.  Statistics, the  *)
(* order of the rows, nextRunAt and the migration of the queue's           *)
(* predecessor are left out, and so are the HTTP retries inside one check, *)
(* which count as attempts of their own; whether a record is still in the  *)
(* Library and enabled is decided anew at every look at it.                *)
(***************************************************************************)
EXTENDS Integers, FiniteSets

CONSTANTS
  Tabs,         \* the owners of leases and claims
  Nobody,       \* the owner of what a closed tab left behind
  Runs,         \* the processes
  TabOf,        \* the tab each of them belongs to
  Threads,      \* the records of the Library
  MaxDay,       \* bound: local days
  MaxCycles,    \* bound: cycles made
  Scenes        \* what a behaviour may be given

\* A scene: the processes that run, the records there are, config.checksPerDay,
\* MAX_DURABLE_RETRY_ATTEMPTS, and the bounds: local days, cycles made, tabs
\* closed while they work, leases and claims that run out under their holder,
\* what the user asks for and how often.
ASSUME LibraryAssumption ==
  /\ TabOf \in [Runs -> Tabs]
  /\ Nobody \notin Tabs \cup Runs
  /\ IsFiniteSet(Threads) /\ IsFiniteSet(Runs)
  /\ MaxDay \in Nat \ {0} /\ MaxCycles \in Nat
  /\ \A s \in Scenes :
       /\ s.runs \subseteq Runs /\ s.threads \subseteq Threads
       /\ s.cap \in Nat \ {0} /\ s.attempts \in Nat \ {0}
       /\ s.days \in 1 .. MaxDay /\ s.cycles \in 0 .. MaxCycles
       /\ {s.closings, s.freezes, s.asks} \subseteq Nat
       /\ s.commands \subseteq {"stop", "pause", "restart", "save", "unblock"}

VARIABLES
  lease,       \* meta row auto-update:lease
  cycle,       \* the row "active" of update-cycles
  allowance,   \* the row daily-allowance-v1 of update-cycles
  rows,        \* update-queue: a row per cycle and thread
  today,
  controller,  \* of each tab: the run the scheduler knows
  generation,  \* of each tab
  pc,          \* where each process is
  aborted,     \* its signal
  mine,        \* its copy of the cycle
  item,        \* the row it works on, as it read it, and the day it did
  outcome,     \* what its request brought, or the command it executes
  ticket,      \* the generation in the lease it is about to put
  draft,       \* the cycle putCycle is about to write
  scene,       \* one of Scenes, for the whole behaviour
  made, closed, frozen, commands,
  committed,   \* results in the Library, by cycle and thread
  asked        \* requests made and not refunded, by day, cycle and thread

store == <<lease, cycle, allowance, rows>>
scheduler == <<controller, generation, aborted>>
local == <<mine, item, outcome, ticket>>
bounds == <<scene, made, closed, frozen, commands>>
ghosts == <<committed, asked>>
vars == <<store, today, scheduler, pc, local, draft, bounds, ghosts>>

Cycles == 1 .. MaxCycles
RowKeys == Cycles \X Threads
Unfinished == {"pending", "processing", "retry"}
\* A row settled as completed because its record is gone or disabled is "skipped".
Finished == {"completed", "skipped", "failed"}

Fresh(id, status, total) ==
  [id |-> id, status |-> status, total |-> total, day |-> 0, used |-> 0, blocked |-> FALSE]
NoCycle == Fresh(0, "none", 0)
NoLease == [owner |-> Nobody, generation |-> 0, live |-> FALSE]
NewRow(status) ==
  [status |-> status, attempts |-> 0, day |-> 0, by |-> Nobody, live |-> FALSE, due |-> FALSE]
NoItem == [thread |-> Nobody, row |-> NewRow("absent"), day |-> 0]
NoDraft == [cycle |-> NoCycle, refund |-> FALSE, then |-> "idle"]

Init ==
  /\ lease = NoLease
  /\ cycle = NoCycle
  /\ allowance = [id |-> 0, day |-> 0, used |-> 0]
  /\ rows = [k \in RowKeys |-> NewRow("absent")]
  /\ today = 1
  /\ controller = [t \in Tabs |-> Nobody]
  /\ generation = [t \in Tabs |-> 0]
  /\ pc = [p \in Runs |-> "idle"]
  /\ aborted = [p \in Runs |-> FALSE]
  /\ mine = [p \in Runs |-> NoCycle]
  /\ item = [p \in Runs |-> NoItem]
  /\ outcome = [p \in Runs |-> "none"]
  /\ ticket = [p \in Runs |-> 0]
  /\ draft = [p \in Runs |-> NoDraft]
  /\ scene \in Scenes
  /\ made = 0 /\ closed = 0 /\ frozen = 0 /\ commands = 0
  /\ committed = {} /\ asked = {}

-----------------------------------------------------------------------------
(* Ownership, and the steps every process is made of.                      *)

\* stillOwn(): against the scheduler's generation, whichever run asks.
StillOwn(p) ==
  lease.owner = TabOf[p] /\ lease.live /\ lease.generation = generation[TabOf[p]]
Owned(p) == ~aborted[p] /\ StillOwn(p)

KeyOf(p) == <<mine[p].id, item[p].thread>>
RowOf(p) == rows[KeyOf(p)]
OwnsRow(p) == RowOf(p).status = "processing" /\ RowOf(p).by = TabOf[p] /\ RowOf(p).live
OwnsClaim(p) == Owned(p) /\ OwnsRow(p)

At(p, place) == pc[p] = place
Goto(p, place) == pc' = [pc EXCEPT ![p] = place]

\* A step that decides where to go on and changes nothing else.
Decide(p, place) ==
  /\ Goto(p, place)
  /\ UNCHANGED <<store, today, scheduler, local, draft, bounds, ghosts>>

\* The last step of a run or command.
Finish(p) ==
  /\ Goto(p, "idle")
  /\ controller' = [controller EXCEPT ![TabOf[p]] = IF @ = p THEN Nobody ELSE @]
  /\ mine' = [mine EXCEPT ![p] = NoCycle]
  /\ item' = [item EXCEPT ![p] = NoItem]
  /\ outcome' = [outcome EXCEPT ![p] = "none"]
  /\ ticket' = [ticket EXCEPT ![p] = 0]
  /\ draft' = [draft EXCEPT ![p] = NoDraft]
  /\ aborted' = [aborted EXCEPT ![p] = FALSE]
  /\ UNCHANGED generation

\* putCycle() is called with c; the process goes on at place once it is written.
Put(p, c, refund, place) ==
  /\ Goto(p, "account")
  /\ draft' = [draft EXCEPT ![p] = [cycle |-> c, refund |-> refund, then |-> place]]

Save(p, c, place) ==
  /\ Put(p, c, FALSE, place)
  /\ UNCHANGED <<store, today, scheduler, local, bounds, ghosts>>

SaveStatus(p, status, place) == Save(p, [mine[p] EXCEPT !.status = status], place)

Larger(m, n) == IF m > n THEN m ELSE n

\* Faulty variant: a write for another day starts a new allowance.
AccountedByCycle(c, refund) ==
  [c EXCEPT !.day = today, !.used = IF c.day = today THEN c.used ELSE 0]

\* The first half of putCycle(): the cycle with the usage the ledger allows.
Accounted(c, refund) ==
  LET day == Larger(today, Larger(c.day, allowance.day))
      floor == IF refund /\ allowance.id = c.id /\ c.day = day /\ allowance.used > 0
               THEN allowance.used - 1 ELSE allowance.used
      used == IF c.day = day THEN c.used ELSE 0
  IN  [c EXCEPT !.day = day, !.used = IF allowance.day = day THEN Larger(floor, used) ELSE used]

Account(p) ==
  /\ At(p, "account")
  /\ Goto(p, "write")
  /\ draft' = [draft EXCEPT ![p].cycle = Accounted(@, draft[p].refund)]
  /\ UNCHANGED <<store, today, scheduler, local, bounds, ghosts>>

\* The second half: both rows in one transaction.
Write(p) ==
  LET c == draft[p].cycle
  IN  /\ At(p, "write")
      /\ cycle' = c
      /\ allowance' = [id |-> c.id, day |-> c.day, used |-> c.used]
      /\ IF draft[p].then = "idle" THEN Finish(p)
         ELSE /\ Goto(p, draft[p].then)
              /\ mine' = [mine EXCEPT ![p] = c]
              /\ draft' = [draft EXCEPT ![p] = NoDraft]
              /\ UNCHANGED <<scheduler, item, outcome, ticket>>
      /\ UNCHANGED <<lease, rows, today, bounds, ghosts>>

-----------------------------------------------------------------------------
(* The scheduler: run(), runCycle(), claimLease(), releaseLease().         *)

BudgetLeft(c) == c.day # today \/ c.used < scene.cap

\* generation += 1: only its identity matters, so a small number that no
\* lease refers to, stored or about to be put, stands for the next one.
NextGeneration(t) ==
  CHOOSE g \in 1 .. Cardinality(Runs) + 3 :
    g \notin {lease.generation, generation[t]} \cup {ticket[p] : p \in Runs}

StartRun(p) ==
  LET t == TabOf[p]
  IN  /\ controller[t] = Nobody
      /\ BudgetLeft(cycle) /\ BudgetLeft(allowance)
      /\ controller' = [controller EXCEPT ![t] = p]
      /\ generation' = [generation EXCEPT ![t] = NextGeneration(t)]
      /\ outcome' = [outcome EXCEPT ![p] = "none"]
      /\ mine' = [mine EXCEPT ![p] = NoCycle]
      /\ Goto(p, "lease")
      /\ UNCHANGED <<store, today, aborted, item, ticket, draft, bounds, ghosts>>

Begin(p) == p \in scene.runs /\ At(p, "idle") /\ StartRun(p)

ReadLease(p) ==
  /\ At(p, "lease")
  /\ IF lease.live /\ lease.owner # TabOf[p]
     THEN Finish(p) /\ UNCHANGED <<store, today, bounds, ghosts>>
     ELSE /\ ticket' = [ticket EXCEPT ![p] = generation[TabOf[p]]]
          /\ Goto(p, "claim")
          /\ UNCHANGED <<store, today, scheduler, mine, item, outcome, draft, bounds, ghosts>>

PutLease(p, place, next) ==
  /\ At(p, place)
  /\ lease' = [owner |-> TabOf[p], generation |-> ticket[p], live |-> TRUE]
  /\ ticket' = [ticket EXCEPT ![p] = 0]
  /\ Goto(p, next)
  /\ UNCHANGED <<cycle, allowance, rows, today, scheduler, mine, item, outcome, draft,
                 bounds, ghosts>>

VerifyLease(p) ==
  /\ At(p, "verify")
  /\ IF StillOwn(p) THEN Decide(p, "read")
     ELSE Finish(p) /\ UNCHANGED <<store, today, bounds, ghosts>>

\* A completed cycle is due, or the user asked for another, or it is not.
ReadCycle(p) ==
  /\ At(p, "read")
  /\ \/ cycle.status = "completed" /\ Decide(p, "release")
     \/ cycle.status \in {"none", "completed", "preparing"} /\ Decide(p, "active")
     \/ cycle.status = "paused" /\ Save(p, [cycle EXCEPT !.status = "running"], "work")
     \/ cycle.status \in {"running", "recovering", "waiting"} /\ Decide(p, "work")

Release(p) ==
  /\ At(p, "release")
  /\ IF StillOwn(p) THEN Decide(p, "drop")
     ELSE Finish(p) /\ UNCHANGED <<store, today, bounds, ghosts>>

Drop(p) ==
  /\ At(p, "drop")
  /\ lease' = NoLease
  /\ Finish(p)
  /\ UNCHANGED <<cycle, allowance, rows, today, bounds, ghosts>>

-----------------------------------------------------------------------------
(* discardCycle() and the snapshot builder.                                *)

\* What follows a discard depends on who asked for it.
Discard(p, purpose) ==
  /\ Goto(p, "discard")
  /\ outcome' = [outcome EXCEPT ![p] = purpose]
  /\ UNCHANGED <<store, today, scheduler, item, ticket, draft, bounds, ghosts>>

DiscardRead(p) ==
  /\ At(p, "discard")
  /\ IF cycle.id # 0 /\ cycle.id = mine[p].id THEN Save(p, cycle, "delete")
     ELSE IF outcome[p] = "restart" THEN Finish(p) /\ UNCHANGED <<store, today, bounds, ghosts>>
     ELSE Decide(p, "release")

DiscardRows(p) ==
  /\ At(p, "delete")
  /\ rows' = [k \in RowKeys |-> IF k[1] = mine[p].id THEN NewRow("absent") ELSE rows[k]]
  /\ Goto(p, "forget")
  /\ UNCHANGED <<lease, cycle, allowance, today, scheduler, local, draft, bounds, ghosts>>

DiscardMaster(p) ==
  /\ At(p, "forget")
  /\ cycle' = NoCycle
  /\ Goto(p, CASE outcome[p] = "cleanup" -> "release"
               [] outcome[p] = "restart" -> "rerun"
               [] OTHER -> "begin")
  /\ UNCHANGED <<lease, allowance, rows, today, scheduler, local, draft, bounds, ghosts>>

ReadActive(p) ==
  /\ At(p, "active")
  /\ \/ cycle.status \notin {"none", "preparing", "completed"} /\ Decide(p, "release")
     \/ cycle.status = "none" /\ Decide(p, "begin")
     \/ /\ cycle.status \in {"preparing", "completed"}
        /\ mine' = [mine EXCEPT ![p] = cycle]
        /\ Discard(p, "snapshot")

\* Faulty variant: the master is published before its rows are written.
BeginCycleRunning(p) ==
  /\ At(p, "begin")
  /\ IF made = scene.cycles THEN Decide(p, "release")
     ELSE /\ made' = made + 1
          /\ Put(p, Fresh(made + 1, "running", Cardinality(scene.threads)), FALSE, "rows")
          /\ UNCHANGED <<store, today, scheduler, local, scene, closed, frozen, commands,
                         ghosts>>

BeginCycle(p) ==
  /\ At(p, "begin")
  /\ IF made = scene.cycles THEN Decide(p, "release")
     ELSE /\ made' = made + 1
          /\ Put(p, Fresh(made + 1, "preparing", 0), FALSE, "rows")
          /\ UNCHANGED <<store, today, scheduler, local, scene, closed, frozen, commands,
                         ghosts>>

\* One page of the records that are enabled, and its batch of rows.
WriteRows(p) ==
  LET id == mine[p].id
  IN  /\ At(p, "rows")
      /\ \/ aborted[p] /\ Discard(p, "cleanup") /\ UNCHANGED mine
         \/ /\ ~aborted[p]
            /\ \E enabled \in SUBSET scene.threads :
                 /\ rows' = [k \in RowKeys |-> IF k \in {id} \X enabled THEN NewRow("pending")
                                                ELSE rows[k]]
                 /\ Put(p, Fresh(id, "preparing", Cardinality(enabled)), FALSE, "counted")
            /\ UNCHANGED <<lease, cycle, allowance, today, scheduler, local, bounds, ghosts>>

RowsWith(id, statuses) == {th \in Threads : rows[<<id, th>>].status \in statuses}

\* verifyPreparedCycle() and the publication.
Publish(p) ==
  LET id == mine[p].id
      present == Cardinality(RowsWith(id, Unfinished \cup Finished))
  IN  /\ At(p, "counted")
      /\ IF present = mine[p].total
         THEN Save(p, Fresh(id, "running", present), "published")
         ELSE Discard(p, "cleanup") /\ UNCHANGED mine

\* A fresh cycle has no nextRunAt yet and is put again with one.
Schedule(p) == At(p, "published") /\ Save(p, mine[p], "work")

-----------------------------------------------------------------------------
(* The worker, up to its loop.                                             *)

StartWorker(p) ==
  /\ At(p, "work")
  /\ IF cycle.status \in {"none", "paused", "completed"} \/ cycle.blocked
     THEN Decide(p, "release")
     ELSE /\ mine' = [mine EXCEPT ![p] = cycle]
          /\ Goto(p, "own")
          /\ UNCHANGED <<store, today, scheduler, item, outcome, ticket, draft, bounds, ghosts>>

OwnFirst(p) ==
  /\ At(p, "own")
  /\ IF Owned(p) THEN SaveStatus(p, "recovering", "recover") ELSE Decide(p, "release")

SetRows(id, ths, change(_)) ==
  rows' = [k \in RowKeys |-> IF k \in {id} \X ths THEN change(rows[k]) ELSE rows[k]]

Recovered(row) == [row EXCEPT !.status = "retry", !.by = Nobody, !.live = FALSE, !.due = TRUE]

\* Faulty variant: only what this tab claimed is recovered.
RecoverOwn(p) ==
  LET stale == {th \in RowsWith(mine[p].id, {"processing"}) :
                  ~rows[<<mine[p].id, th>>].live /\ rows[<<mine[p].id, th>>].by = TabOf[p]}
  IN  /\ At(p, "recover")
      /\ SetRows(mine[p].id, stale, Recovered)
      /\ Goto(p, "repair")
      /\ UNCHANGED <<lease, cycle, allowance, today, scheduler, local, draft, bounds, ghosts>>

\* recoverStaleProcessing(): a claim that ran out; every claimed row has an attempt.
Recover(p) ==
  LET stale == {th \in RowsWith(mine[p].id, {"processing"}) : ~rows[<<mine[p].id, th>>].live}
  IN  /\ At(p, "recover")
      /\ SetRows(mine[p].id, stale, Recovered)
      /\ Goto(p, "repair")
      /\ UNCHANGED <<lease, cycle, allowance, today, scheduler, local, draft, bounds, ghosts>>

\* Faulty variant: recovered rows are retried without limit.
RepairNever(p) ==
  /\ At(p, "repair")
  /\ IF Owned(p) THEN Decide(p, "roll") ELSE Decide(p, "release")

Repair(p) ==
  LET spent == {th \in RowsWith(mine[p].id, {"retry"}) :
                  rows[<<mine[p].id, th>>].attempts >= scene.attempts}
      Fail(row) == [row EXCEPT !.status = "failed", !.due = FALSE]
  IN  /\ At(p, "repair")
      /\ IF ~Owned(p) THEN Decide(p, "release")
         ELSE IF spent = {} THEN Decide(p, "roll")
         ELSE /\ SetRows(mine[p].id, spent, Fail)
              /\ Put(p, mine[p], FALSE, "roll")
              /\ UNCHANGED <<lease, cycle, allowance, today, scheduler, local, bounds, ghosts>>

\* rolloverDailyAllowance()
RollOver(c) == [c EXCEPT !.day = today, !.used = 0]

Roll(p) ==
  /\ At(p, "roll")
  /\ IF mine[p].day # today THEN Save(p, RollOver(mine[p]), "resume") ELSE Decide(p, "resume")

ResumeCycle(p) == At(p, "resume") /\ SaveStatus(p, "running", "loop")

-----------------------------------------------------------------------------
(* One pass of the worker's loop.                                          *)

Interrupted(p) == IF aborted[p] THEN "paused" ELSE "waiting"

Loop(p) ==
  /\ At(p, "loop")
  /\ IF Owned(p) THEN Decide(p, "next") ELSE SaveStatus(p, Interrupted(p), "release")

Actionable(id) ==
  LET pending == RowsWith(id, {"pending"})
  IN  IF pending # {} THEN pending
      ELSE {th \in RowsWith(id, {"retry"}) : rows[<<id, th>>].due}

Take(p, th) ==
  item' = [item EXCEPT ![p] = [thread |-> th, row |-> rows[<<mine[p].id, th>>], day |-> today]]

\* getNextActionableItem(), and the record as getRecord() finds it.
NextItem(p) ==
  /\ At(p, "next")
  /\ \/ Actionable(mine[p].id) = {} /\ Decide(p, "count")
     \/ \E th \in Actionable(mine[p].id) :
          /\ Take(p, th)
          /\ \/ Goto(p, "skip") /\ UNCHANGED draft
             \/ mine[p].day # today /\ Put(p, RollOver(mine[p]), FALSE, "allow")
             \/ mine[p].day = today /\ Goto(p, "allow") /\ UNCHANGED draft
          /\ UNCHANGED <<store, today, scheduler, mine, outcome, ticket, bounds, ghosts>>

\* Faulty variant: rows that somebody still processes are not counted.
CountWaiting(p) ==
  /\ At(p, "count")
  /\ SaveStatus(p, IF RowsWith(mine[p].id, {"pending", "retry"}) = {} THEN "completed"
                   ELSE "waiting", "release")

\* Faulty variant: the run waits in its loop for the rows it cannot take.
CountAndStay(p) ==
  /\ At(p, "count")
  /\ IF RowsWith(mine[p].id, Unfinished) = {} THEN SaveStatus(p, "completed", "release")
     ELSE SaveStatus(p, "waiting", "loop")

Count(p) ==
  /\ At(p, "count")
  /\ SaveStatus(p, IF RowsWith(mine[p].id, Unfinished) = {} THEN "completed" ELSE "waiting",
                "release")

\* claimQueueItem(): the row as it was read, not as it is.
Claimed(p, day) ==
  [item[p].row EXCEPT !.status = "processing", !.attempts = @ + 1, !.day = day,
                      !.by = TabOf[p], !.live = TRUE, !.due = FALSE]

PutRow(p, row) == rows' = [rows EXCEPT ![KeyOf(p)] = row]

Consumes(p) == item[p].row.day # item[p].day

\* settleSkipped(): the record is gone or disabled, no request is made and the
\* row keeps its day.
Skip(p) ==
  /\ At(p, "skip")
  /\ PutRow(p, Claimed(p, item[p].row.day))
  /\ item' = [item EXCEPT ![p].day = item[p].row.day]
  /\ outcome' = [outcome EXCEPT ![p] = "skip"]
  /\ Goto(p, "settle")
  /\ UNCHANGED <<lease, cycle, allowance, today, scheduler, mine, ticket, draft, bounds, ghosts>>

Claim(p) ==
  /\ At(p, "allow")
  /\ IF Consumes(p) /\ mine[p].used >= scene.cap THEN SaveStatus(p, "waiting", "release")
     ELSE /\ PutRow(p, Claimed(p, item[p].day))
          /\ Put(p, [mine[p] EXCEPT !.used = @ + (IF Consumes(p) THEN 1 ELSE 0)], FALSE, "guard")
          /\ UNCHANGED <<lease, cycle, allowance, today, scheduler, local, bounds, ghosts>>

Outcome(p, o, place) ==
  /\ outcome' = [outcome EXCEPT ![p] = o]
  /\ Goto(p, place)
  /\ UNCHANGED <<store, today, scheduler, mine, item, ticket, draft, bounds>>

\* checkRecords() asks the request gate, which asks ownsClaim(), before a request.
Ask(p) ==
  /\ At(p, "guard")
  /\ OwnsClaim(p)
  /\ Goto(p, "wait")
  /\ asked' = asked \cup {<<item[p].day, mine[p].id, item[p].thread>>}
  /\ UNCHANGED <<store, today, scheduler, local, draft, bounds, committed>>

\* The gate defers the check: not owned, blocked, or no lock.
Defer(p) == At(p, "guard") /\ Outcome(p, "deferred", "after") /\ UNCHANGED ghosts

Answer(p, o) == At(p, "wait") /\ Outcome(p, o, "after") /\ UNCHANGED ghosts

AfterRequest(p) ==
  /\ At(p, "after")
  /\ IF ~OwnsClaim(p) THEN SaveStatus(p, Interrupted(p), "release")
     ELSE \/ Outcome(p, "skip", "settle") /\ UNCHANGED ghosts
          \/ outcome[p] \in {"deferred", "blocked"} /\ Decide(p, "settle")
          \/ outcome[p] \in {"ok", "fail", "gone"} /\ Decide(p, "commit")

\* commitResults() up to the write of the record.
Commit(p) ==
  /\ At(p, "commit")
  /\ IF OwnsClaim(p) THEN Decide(p, "put") ELSE SaveStatus(p, "paused", "release")

\* The record is written, or has been removed, or its write is rejected.
PutResult(p) ==
  /\ At(p, "put")
  /\ \/ /\ committed' = committed \cup
                          (IF outcome[p] = "ok" THEN {KeyOf(p)} ELSE {})
        /\ Goto(p, "committed")
        /\ UNCHANGED <<store, today, scheduler, local, draft, bounds, asked>>
     \/ outcome[p] = "ok" /\ Outcome(p, "uncommitted", "committed") /\ UNCHANGED ghosts

AfterCommit(p) ==
  /\ At(p, "committed")
  /\ IF Owned(p) THEN Decide(p, "settle") ELSE SaveStatus(p, "paused", "release")

\* settleQueueItem() first reads the row again.
Settle(p) ==
  /\ At(p, "settle")
  /\ IF OwnsRow(p) THEN Decide(p, "settled") ELSE Decide(p, "release")

\* Faulty variant: a result that could not be stored counts as done.
SettlementLost(it, o) ==
  LET free == [it.row EXCEPT !.attempts = @ + 1, !.day = it.day, !.by = Nobody, !.live = FALSE,
                             !.due = FALSE]
  IN  [free EXCEPT !.status = IF o = "skip" THEN "skipped" ELSE IF o = "gone" THEN "failed"
                              ELSE IF o = "fail" THEN "retry" ELSE "completed"]

\* The row a settlement writes: over the row as it was claimed.
Settlement(it, o) ==
  LET free == [it.row EXCEPT !.attempts = @ + 1, !.day = it.day, !.by = Nobody, !.live = FALSE,
                             !.due = FALSE]
  IN  CASE o = "skip" -> [free EXCEPT !.status = "skipped"]
        [] o \in {"deferred", "blocked"} -> it.row
        [] o = "uncommitted" -> [free EXCEPT !.status = "retry"]
        [] o = "ok" -> [free EXCEPT !.status = "completed"]
        [] o = "gone" \/ (o = "fail" /\ free.attempts >= scene.attempts)
             -> [free EXCEPT !.status = "failed"]
        [] OTHER -> [free EXCEPT !.status = "retry"]

\* Faulty variant: a refund is not bounded below.
RefundedBelow(p) ==
  [mine[p] EXCEPT !.status = "waiting", !.used = IF Consumes(p) THEN @ - 1 ELSE @]

Refunded(p) ==
  [mine[p] EXCEPT !.status = "waiting",
                  !.used = IF Consumes(p) /\ @ > 0 THEN @ - 1 ELSE @]

PutSettlement(p) ==
  LET o == outcome[p]
  IN  /\ At(p, "settled")
      /\ PutRow(p, Settlement(item[p], o))
      /\ \/ o = "skip" /\ Put(p, mine[p], FALSE, "loop") /\ UNCHANGED asked
         \/ /\ o \in {"deferred", "blocked"}
            /\ \E blocked \in {TRUE, mine[p].blocked \/ o = "blocked"} :
                 Put(p, [Refunded(p) EXCEPT !.blocked = blocked], Consumes(p), "release")
            /\ asked' = asked \ (IF Consumes(p)
                                 THEN {<<item[p].day, mine[p].id, item[p].thread>>} ELSE {})
         \/ /\ o = "uncommitted"
            /\ Put(p, [mine[p] EXCEPT !.status = "waiting"], FALSE, "release")
            /\ UNCHANGED asked
         \/ o \in {"ok", "fail", "gone"} /\ Put(p, mine[p], FALSE, "renew") /\ UNCHANGED asked
      /\ UNCHANGED <<lease, cycle, allowance, today, scheduler, local, bounds, committed>>

\* renewOwnership() after an item, and the wait before the next.
Renew(p) ==
  /\ At(p, "renew")
  /\ IF ~StillOwn(p) THEN Decide(p, "loop")
     ELSE /\ ticket' = [ticket EXCEPT ![p] = generation[TabOf[p]]]
          /\ Goto(p, "extend")
          /\ UNCHANGED <<store, today, scheduler, mine, item, outcome, draft, bounds, ghosts>>

-----------------------------------------------------------------------------
(* What the user or the page asks of a scheduler.                          *)

\* stop() aborts the run at once and then looks for the lease.  The dialog
\* offers Pause while a run is active.
Command(p, what) ==
  /\ p \in scene.runs /\ At(p, "idle")
  /\ commands < scene.asks
  /\ what = "pause" => controller[TabOf[p]] # Nobody
  /\ commands' = commands + 1
  /\ outcome' = [outcome EXCEPT ![p] = what]
  /\ IF what \in {"save", "unblock"}
     THEN Goto(p, what) /\ UNCHANGED <<controller, aborted>>
     ELSE /\ Goto(p, "stop")
          /\ controller' = [controller EXCEPT ![TabOf[p]] = Nobody]
          /\ aborted' = [q \in Runs |-> aborted[q] \/ controller[TabOf[p]] = q]
  /\ UNCHANGED <<store, today, generation, mine, item, ticket, draft, scene, made, closed, frozen,
                 ghosts>>

StopLease(p) ==
  /\ At(p, "stop")
  /\ Decide(p, IF lease.owner = TabOf[p] THEN "unlease" ELSE "stopped")

DeleteLease(p) ==
  /\ At(p, "unlease")
  /\ lease' = NoLease
  /\ Goto(p, "stopped")
  /\ UNCHANGED <<cycle, allowance, rows, today, scheduler, local, draft, bounds, ghosts>>

\* pause() and restartCycle() go on with the stored cycle.
Stopped(p) ==
  /\ At(p, "stopped")
  /\ IF outcome[p] = "stop" \/ (outcome[p] = "pause" /\ cycle.status \in {"none", "completed"})
     THEN Finish(p) /\ UNCHANGED <<store, today, bounds, ghosts>>
     ELSE IF outcome[p] = "pause" THEN Save(p, [cycle EXCEPT !.status = "paused"], "idle")
     ELSE IF cycle.id = 0 THEN Decide(p, "rerun")
     ELSE mine' = [mine EXCEPT ![p] = cycle] /\ Discard(p, "restart")

Rerun(p) ==
  /\ At(p, "rerun")
  /\ IF controller[TabOf[p]] = Nobody /\ BudgetLeft(cycle) /\ BudgetLeft(allowance)
     THEN StartRun(p)
     ELSE Finish(p) /\ UNCHANGED <<store, today, bounds, ghosts>>

\* start({reschedule}) writes the cycle again, or an empty completed one.
SaveSettings(p) ==
  /\ At(p, "save")
  /\ IF ~BudgetLeft(cycle) \/ ~BudgetLeft(allowance) \/ (cycle.id = 0 /\ made = scene.cycles)
     THEN Finish(p) /\ UNCHANGED <<store, today, bounds, ghosts>>
     ELSE IF cycle.id # 0 THEN Save(p, cycle, "idle")
     ELSE /\ made' = made + 1
          /\ Put(p, [Fresh(made + 1, "completed", 0) EXCEPT !.day = today], FALSE, "idle")
          /\ UNCHANGED <<store, today, scheduler, local, scene, closed, frozen, commands,
                         ghosts>>

\* clearSiteBlock()
Unblock(p) ==
  /\ At(p, "unblock")
  /\ IF cycle.blocked THEN Save(p, [cycle EXCEPT !.blocked = FALSE], "idle")
     ELSE Finish(p) /\ UNCHANGED <<store, today, bounds, ghosts>>

-----------------------------------------------------------------------------
(* Time and the end of a tab.                                              *)

NextDay ==
  /\ today < scene.days
  /\ today' = today + 1
  /\ UNCHANGED <<store, scheduler, pc, local, draft, bounds, ghosts>>

\* A lease or claim whose holder works on runs out only when the tab is frozen.
Freeze(held) ==
  /\ held => frozen < scene.freezes
  /\ frozen' = IF held THEN frozen + 1 ELSE frozen

LeaseExpires ==
  /\ lease.live
  /\ Freeze(\E p \in Runs : TabOf[p] = lease.owner /\ pc[p] # "idle")
  /\ lease' = [lease EXCEPT !.live = FALSE]
  /\ UNCHANGED <<cycle, allowance, rows, today, scheduler, pc, local, draft, scene, made,
                 closed, commands, ghosts>>

ClaimExpires(k) ==
  /\ rows[k].live
  /\ Freeze(\E p \in Runs : TabOf[p] = rows[k].by /\ pc[p] # "idle" /\ KeyOf(p) = k)
  /\ rows' = [rows EXCEPT ![k].live = FALSE]
  /\ UNCHANGED <<lease, cycle, allowance, today, scheduler, pc, local, draft, scene, made,
                 closed, commands, ghosts>>

RetryDue(k) ==
  /\ rows[k].status = "retry" /\ ~rows[k].due
  /\ rows' = [rows EXCEPT ![k].due = TRUE]
  /\ UNCHANGED <<lease, cycle, allowance, today, scheduler, pc, local, draft, bounds, ghosts>>

\* blockedUntil passes, in every copy of the cycle.
BlockEnds ==
  /\ cycle.blocked
  /\ cycle' = [cycle EXCEPT !.blocked = FALSE]
  /\ mine' = [p \in Runs |-> [mine[p] EXCEPT !.blocked = FALSE]]
  /\ draft' = [p \in Runs |-> [draft[p] EXCEPT !.cycle.blocked = FALSE]]
  /\ UNCHANGED <<lease, allowance, rows, today, scheduler, pc, item, outcome, ticket,
                 bounds, ghosts>>

\* A tab is closed or reloaded between two storage calls; its scheduler comes
\* back under a new owner.
CloseTab(t) ==
  LET dead == {p \in Runs : TabOf[p] = t}
      Reset(f, v) == [p \in Runs |-> IF p \in dead THEN v ELSE f[p]]
  IN  /\ closed < scene.closings
      /\ \E p \in dead : pc[p] # "idle"
      /\ closed' = closed + 1
      /\ lease' = IF lease.owner = t THEN [lease EXCEPT !.owner = Nobody] ELSE lease
      /\ rows' = [k \in RowKeys |-> IF rows[k].by = t THEN [rows[k] EXCEPT !.by = Nobody]
                                     ELSE rows[k]]
      /\ controller' = [controller EXCEPT ![t] = Nobody]
      /\ pc' = Reset(pc, "idle")
      /\ aborted' = Reset(aborted, FALSE)
      /\ mine' = Reset(mine, NoCycle)
      /\ item' = Reset(item, NoItem)
      /\ outcome' = Reset(outcome, "none")
      /\ ticket' = Reset(ticket, 0)
      /\ draft' = Reset(draft, NoDraft)
      /\ UNCHANGED <<cycle, allowance, today, generation, scene, made, frozen, commands, ghosts>>

-----------------------------------------------------------------------------
Scheduling(p) ==
  \/ ReadLease(p) \/ PutLease(p, "claim", "verify") \/ VerifyLease(p) \/ ReadCycle(p)
  \/ Release(p) \/ Drop(p)

Snapshot(p) ==
  \/ DiscardRead(p) \/ DiscardRows(p) \/ DiscardMaster(p)
  \/ ReadActive(p) \/ BeginCycle(p) \/ WriteRows(p) \/ Publish(p) \/ Schedule(p)

Working(p) ==
  \/ StartWorker(p) \/ OwnFirst(p) \/ Recover(p) \/ Repair(p) \/ Roll(p) \/ ResumeCycle(p)
  \/ Loop(p) \/ NextItem(p) \/ Count(p) \/ Skip(p) \/ Claim(p) \/ AfterRequest(p) \/ Commit(p)
  \/ PutResult(p) \/ AfterCommit(p) \/ Settle(p) \/ PutSettlement(p)
  \/ Renew(p) \/ PutLease(p, "extend", "loop")

Commanding(p) ==
  \/ StopLease(p) \/ DeleteLease(p) \/ Stopped(p) \/ Rerun(p) \/ SaveSettings(p) \/ Unblock(p)

Steps(p) == Account(p) \/ Write(p) \/ Scheduling(p) \/ Snapshot(p) \/ Working(p) \/ Commanding(p)

Final == {"ok", "fail", "gone"}

Next ==
  \/ \E p \in Runs :
       \/ Begin(p) \/ Steps(p) \/ Ask(p) \/ Defer(p)
       \/ \E o \in Final \cup {"blocked", "deferred"} : Answer(p, o)
       \/ \E what \in scene.commands : Command(p, what)
  \/ NextDay \/ LeaseExpires \/ BlockEnds
  \/ \E k \in RowKeys : ClaimExpires(k) \/ RetryDue(k)
  \/ \E t \in Tabs : CloseTab(t)

Spec == Init /\ [][Next]_vars

\* A storage call returns, a request ends at its timeout at the latest, the
\* timer of the scheduler is always armed again, and time passes; and the site
\* does not refuse every request for ever.
Fairness ==
  /\ \A p \in Runs :
       /\ WF_vars(Begin(p)) /\ WF_vars(Steps(p)) /\ WF_vars(Ask(p) \/ Defer(p))
       /\ SF_vars(Ask(p)) /\ SF_vars(\E o \in Final : Answer(p, o))
  /\ WF_vars(NextDay) /\ WF_vars(LeaseExpires) /\ WF_vars(BlockEnds)
  /\ \A k \in RowKeys : WF_vars(ClaimExpires(k)) /\ WF_vars(RetryDue(k))

FairSpec == Spec /\ Fairness

-----------------------------------------------------------------------------
(* Properties.                                                             *)

Places == {"idle", "lease", "claim", "verify", "read", "release", "drop", "account", "write",
           "discard", "delete", "forget", "active", "begin", "rows", "counted", "published",
           "work", "own", "recover", "repair", "roll", "resume", "loop", "next", "count",
           "skip", "allow", "guard", "wait", "after", "commit", "put", "committed", "settle",
           "settled", "renew", "extend", "stop", "unlease", "stopped", "rerun", "save",
           "unblock"}
Statuses == {"none", "preparing", "running", "paused", "waiting", "recovering", "completed"}
CycleSet == [id : 0 .. MaxCycles, status : Statuses, total : Nat, day : 0 .. MaxDay,
             used : Nat, blocked : BOOLEAN]
RowSet == [status : Unfinished \cup Finished \cup {"absent"}, attempts : Nat, day : 0 .. MaxDay,
           by : Tabs \cup {Nobody}, live : BOOLEAN, due : BOOLEAN]
Outcomes == {"none", "skip", "deferred", "blocked", "ok", "fail", "gone", "uncommitted",
             "snapshot", "cleanup", "restart", "stop", "pause", "save", "unblock"}

StoreType ==
  /\ lease \in [owner : Tabs \cup {Nobody}, generation : Nat, live : BOOLEAN]
  /\ cycle \in CycleSet
  /\ allowance \in [id : 0 .. MaxCycles, day : 0 .. MaxDay, used : Nat]
  /\ rows \in [RowKeys -> RowSet]

SchedulerType ==
  /\ controller \in [Tabs -> Runs \cup {Nobody}] /\ generation \in [Tabs -> Nat]
  /\ aborted \in [Runs -> BOOLEAN]

ProcessType ==
  /\ pc \in [Runs -> Places]
  /\ mine \in [Runs -> CycleSet]
  /\ item \in [Runs -> [thread : Threads \cup {Nobody}, row : RowSet, day : 0 .. MaxDay]]
  /\ outcome \in [Runs -> Outcomes] /\ ticket \in [Runs -> Nat]
  /\ draft \in [Runs -> [cycle : CycleSet, refund : BOOLEAN, then : Places]]

BoundType ==
  /\ today \in 1 .. MaxDay
  /\ scene \in Scenes
  /\ made \in 0 .. scene.cycles
  /\ closed \in 0 .. scene.closings /\ frozen \in 0 .. scene.freezes
  /\ commands \in 0 .. scene.asks

GhostType ==
  /\ committed \subseteq RowKeys
  /\ asked \subseteq (0 .. MaxDay) \X Cycles \X Threads

\* Every variable has its type.
TypeOK == StoreType /\ SchedulerType /\ ProcessType /\ BoundType /\ GhostType

\* A cycle that is called completed has no unfinished row, whatever tab closed
\* over a row and whoever recovered it.
CompletedIsDone == cycle.status = "completed" => RowsWith(cycle.id, Unfinished) = {}

\* A cycle that can be worked on has all the rows it was published with.
PublishedComplete ==
  cycle.status \in {"running", "recovering", "waiting", "paused"} =>
    Cardinality(RowsWith(cycle.id, Unfinished \cup Finished)) = cycle.total

\* A row is completed only after its result is in the Library: the order that
\* lets a crash repeat a check and never lose one.
ResultBeforeCompletion ==
  \A k \in RowKeys : rows[k].status = "completed" => k \in committed

\* The requests of a day stay within its allowance over restarts, new
\* snapshots and refunds, but for one row for each tab that closed between a
\* claim and its entry in the ledger.
AllowanceHolds ==
  \A d \in 1 .. MaxDay : Cardinality({a \in asked : a[1] = d}) <= scene.cap + closed

\* No row is tried more often than MAX_DURABLE_RETRY_ATTEMPTS, closings included.
AttemptsBounded ==
  \A k \in RowKeys : rows[k].attempts <= scene.attempts

\* A completed cycle has no unfinished row, and one that can be worked on has
\* all its rows.  (Not with a command beside the run: see PartialNotConsumed.)
CyclesAreWhole == scene.asks = 0 => CompletedIsDone /\ PublishedComplete

\* A day's requests stay within its allowance, and a row's within its attempts,
\* as long as the user asks for nothing meanwhile.
LimitsHold == scene.asks = 0 => AllowanceHolds /\ AttemptsBounded

\* A run always ends, and the scheduler can start the next: no answer, loss of
\* ownership or row of a closed tab keeps it in its loop.
RunsEnd == \A p \in Runs : pc[p] # "idle" ~> pc[p] = "idle"

\* A cycle is completed in the end, over closed tabs, blocks and retries, unless
\* it is dropped, or the last modelled day's allowance is spent.
CycleFinishes ==
  \A c \in Cycles :
    cycle.id = c ~> \/ cycle.id # c \/ cycle.status = "completed"
                   \/ (today = scene.days /\ ~(BudgetLeft(cycle) /\ BudgetLeft(allowance)))

WorkerPlaces == {"recover", "repair", "roll", "resume", "loop", "next", "count", "skip",
                 "allow", "guard", "wait", "after", "commit", "put", "committed", "settle",
                 "settled", "renew", "extend"}

\* "It cannot be consumed as a runnable cycle": no worker goes through the rows
\* of a snapshot that was never published.
PartialNotConsumed ==
  \A p \in Runs :
    pc[p] \in WorkerPlaces /\ ~aborted[p] =>
      Cardinality(RowsWith(mine[p].id, Unfinished \cup Finished)) = mine[p].total
=============================================================================
