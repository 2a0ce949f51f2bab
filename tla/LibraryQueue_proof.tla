-------------------------- MODULE LibraryQueue_proof --------------------------
(* Theorems about the automatic-update queue, for any number of tabs, runs *)
(* and commands, records, days, cycles and attempts.                       *)
EXTENDS LibraryQueue, FiniteSetTheorems, TLAPS

\* Where a process works on a cycle, and on a row of it.
MinePlaces == {"rows", "counted", "published", "own", "recover", "repair", "roll", "resume",
               "loop", "next", "count", "skip", "allow", "guard", "wait", "after", "commit",
               "put", "committed", "settle", "settled", "renew", "extend"}
ItemPlaces == {"skip", "allow", "guard", "wait", "after", "commit", "put", "committed",
               "settle", "settled"}

\* Only the absence of a cycle has no number.
Real(c) == c.status # "none" => c.id # 0

Fits(p, place) ==
  /\ place \in MinePlaces => mine[p].id # 0
  /\ place \in ItemPlaces => item[p].thread \in Threads

PlaceInv(p) ==
  /\ Fits(p, pc[p])
  /\ Real(draft[p].cycle)
  /\ draft[p].then \in MinePlaces => draft[p].cycle.id # 0
  /\ draft[p].then \in ItemPlaces => item[p].thread \in Threads

LocalInv == ProcessType /\ \A p \in Runs : PlaceInv(p)

IInv == TypeOK /\ Real(cycle) /\ \A p \in Runs : PlaceInv(p)

-----------------------------
(* A part of the type invariant whose variables stay is kept.              *)

LEMMA StoreStays == StoreType /\ UNCHANGED store => StoreType'
  BY DEF StoreType, store

LEMMA SchedulerStays == SchedulerType /\ UNCHANGED scheduler => SchedulerType'
  BY DEF SchedulerType, scheduler

LEMMA BoundStays == BoundType /\ UNCHANGED <<today, bounds>> => BoundType'
  BY DEF BoundType, bounds

LEMMA GhostStays == GhostType /\ UNCHANGED ghosts => GhostType'
  BY DEF GhostType, ghosts

LEMMA LocalStays == LocalInv /\ UNCHANGED <<pc, local, draft>> => LocalInv'
  BY DEF LocalInv, ProcessType, PlaceInv, Fits, local

LEMMA SceneBounds ==
  ASSUME NEW s \in Scenes
  PROVE  /\ s.runs \subseteq Runs /\ s.threads \subseteq Threads
         /\ s.cap \in Nat /\ s.attempts \in Nat
         /\ s.days \in 1 .. MaxDay /\ s.cycles \in 0 .. MaxCycles
         /\ s.closings \in Nat /\ s.freezes \in Nat /\ s.asks \in Nat
         /\ IsFiniteSet(s.threads)
         /\ s.commands \subseteq {"stop", "pause", "restart", "save", "unblock"}
  <1>1. IsFiniteSet(s.threads)
    BY LibraryAssumption, FS_Subset
  <1>. QED
    BY <1>1, LibraryAssumption

-----------------------------
(* The local state of one process.                                         *)

\* The other processes keep their local state.
LEMMA OthersKeep ==
  ASSUME NEW q \in Runs, PlaceInv(q), pc'[q] = pc[q], mine'[q] = mine[q],
         item'[q] = item[q], draft'[q] = draft[q]
  PROVE  PlaceInv(q)'
  BY DEF PlaceInv, Fits

\* A process only goes on.
LEMMA GoesOn ==
  ASSUME LocalInv, NEW p \in Runs, NEW place \in Places, Fits(p, place), Goto(p, place),
         UNCHANGED <<local, draft>>
  PROVE  LocalInv'
  <1>1. ProcessType'
    BY DEF LocalInv, ProcessType, Goto, local
  <1>2. ASSUME NEW q \in Runs PROVE PlaceInv(q)'
    <2>1. CASE q = p
      BY <2>1 DEF LocalInv, ProcessType, Goto, local, PlaceInv, Fits
    <2>2. CASE q # p
      BY <2>2, OthersKeep DEF LocalInv, ProcessType, Goto, local
    <2>. QED BY <2>1, <2>2
  <1>. QED BY <1>1, <1>2 DEF LocalInv

\* A process goes on with another copy of the cycle.
LEMMA Copies ==
  ASSUME LocalInv, NEW p \in Runs, NEW place \in Places, NEW c \in CycleSet, Goto(p, place),
         mine' = [mine EXCEPT ![p] = c], place \in MinePlaces => c.id # 0,
         place \notin ItemPlaces, UNCHANGED <<item, outcome, ticket, draft>>
  PROVE  LocalInv'
  <1>1. ProcessType'
    BY DEF LocalInv, ProcessType, Goto
  <1>2. ASSUME NEW q \in Runs PROVE PlaceInv(q)'
    <2>1. CASE q = p
      BY <2>1 DEF LocalInv, ProcessType, Goto, PlaceInv, Fits
    <2>2. CASE q # p
      BY <2>2, OthersKeep DEF LocalInv, ProcessType, Goto
    <2>. QED BY <2>1, <2>2
  <1>. QED BY <1>1, <1>2 DEF LocalInv

\* A process goes on with an outcome, or a purpose.
LEMMA Tells ==
  ASSUME LocalInv, NEW p \in Runs, NEW place \in Places, NEW o \in Outcomes,
         Fits(p, place), Goto(p, place), outcome' = [outcome EXCEPT ![p] = o],
         UNCHANGED <<mine, item, ticket, draft>>
  PROVE  LocalInv'
  <1>1. ProcessType'
    BY DEF LocalInv, ProcessType, Goto
  <1>2. ASSUME NEW q \in Runs PROVE PlaceInv(q)'
    <2>1. CASE q = p
      BY <2>1 DEF LocalInv, ProcessType, Goto, PlaceInv, Fits
    <2>2. CASE q # p
      BY <2>2, OthersKeep DEF LocalInv, ProcessType, Goto
    <2>. QED BY <2>1, <2>2
  <1>. QED BY <1>1, <1>2 DEF LocalInv

\* A process goes on with another ticket.
LEMMA Tickets ==
  ASSUME LocalInv, NEW p \in Runs, NEW place \in Places, NEW g \in Nat,
         Fits(p, place), Goto(p, place), ticket' = [ticket EXCEPT ![p] = g],
         UNCHANGED <<mine, item, outcome, draft>>
  PROVE  LocalInv'
  <1>1. ProcessType'
    BY DEF LocalInv, ProcessType, Goto
  <1>2. ASSUME NEW q \in Runs PROVE PlaceInv(q)'
    <2>1. CASE q = p
      BY <2>1 DEF LocalInv, ProcessType, Goto, PlaceInv, Fits
    <2>2. CASE q # p
      BY <2>2, OthersKeep DEF LocalInv, ProcessType, Goto
    <2>. QED BY <2>1, <2>2
  <1>. QED BY <1>1, <1>2 DEF LocalInv

\* A process calls putCycle().
LEMMA Puts ==
  ASSUME LocalInv, NEW p \in Runs, NEW place \in Places, NEW c \in CycleSet,
         NEW refund \in BOOLEAN, Real(c), place \in MinePlaces => c.id # 0,
         place \in ItemPlaces => item[p].thread \in Threads,
         Put(p, c, refund, place), UNCHANGED local
  PROVE  LocalInv'
  <1>. DEFINE d == [cycle |-> c, refund |-> refund, then |-> place]
  <1>0. d \in [cycle : CycleSet, refund : BOOLEAN, then : Places]
    OBVIOUS
  <1>1. d.cycle = c /\ d.then = place
    OBVIOUS
  <1>2. draft' = [draft EXCEPT ![p] = d] /\ pc' = [pc EXCEPT ![p] = "account"]
    BY DEF Put, Goto
  <1>. HIDE DEF d
  <1>3. ProcessType'
    BY <1>0, <1>2 DEF LocalInv, ProcessType, local, Places
  <1>4. ASSUME NEW q \in Runs PROVE PlaceInv(q)'
    <2>1. CASE q = p
      BY <2>1, <1>1, <1>2 DEF LocalInv, ProcessType, local, PlaceInv, Fits, MinePlaces, ItemPlaces
    <2>2. CASE q # p
      BY <2>2, <1>2, OthersKeep DEF LocalInv, ProcessType, local
    <2>. QED BY <2>1, <2>2
  <1>. QED BY <1>3, <1>4 DEF LocalInv

\* A run or a command ends.
LEMMA Ends ==
  ASSUME LocalInv, SchedulerType, NEW p \in Runs, Finish(p)
  PROVE  LocalInv' /\ SchedulerType'
  <1>1. /\ NoCycle \in CycleSet /\ NoItem \in [thread : Threads \cup {Nobody}, row : RowSet, day : 0 .. MaxDay]
        /\ NoDraft \in [cycle : CycleSet, refund : BOOLEAN, then : Places]
        /\ NoDraft.cycle.status = "none" /\ NoDraft.then = "idle"
    BY LibraryAssumption
    DEF NoCycle, NoItem, NoDraft, Fresh, CycleSet, Statuses, NewRow, RowSet, Places
  <1>2. ProcessType'
    BY <1>1 DEF LocalInv, ProcessType, Finish, Goto, Places, Outcomes
  <1>3. SchedulerType'
    BY LibraryAssumption DEF SchedulerType, Finish
  <1>4. ASSUME NEW q \in Runs PROVE PlaceInv(q)'
    <2>1. CASE q = p
      BY <2>1, <1>1 DEF LocalInv, ProcessType, Finish, Goto, PlaceInv, Fits, Real, MinePlaces,
        ItemPlaces
    <2>2. CASE q # p
      BY <2>2, OthersKeep DEF LocalInv, ProcessType, Finish, Goto
    <2>. QED BY <2>1, <2>2
  <1>. QED BY <1>2, <1>3, <1>4 DEF LocalInv

-----------------------------
(* Whole steps that recur.                                                 *)

LEMMA Parts ==
  IInv <=> /\ StoreType /\ SchedulerType /\ BoundType /\ GhostType
           /\ LocalInv /\ Real(cycle)
  BY DEF IInv, TypeOK, LocalInv

LEMMA DecideKeeps ==
  ASSUME IInv, NEW p \in Runs, NEW place \in Places, Fits(p, place), Decide(p, place)
  PROVE  IInv'
  <1>1. Goto(p, place) /\ UNCHANGED <<store, today, scheduler, local, draft, bounds, ghosts>>
    BY DEF Decide
  <1>2. cycle' = cycle
    BY <1>1 DEF store
  <1>3. LocalInv'
    BY <1>1, Parts, GoesOn
  <1>. QED
    BY <1>1, <1>2, <1>3, Parts, StoreStays, SchedulerStays, BoundStays, GhostStays DEF Real, IInv, TypeOK, LocalInv

LEMMA FinishKeeps ==
  ASSUME IInv, NEW p \in Runs, Finish(p), UNCHANGED <<store, today, bounds, ghosts>>
  PROVE  IInv'
  <1>1. cycle' = cycle
    BY DEF store
  <1>2. LocalInv' /\ SchedulerType'
    BY Parts, Ends
  <1>. QED
    BY <1>1, <1>2, Parts, StoreStays, BoundStays, GhostStays DEF Real, IInv, TypeOK, LocalInv

\* putCycle() is called, after the rows have been written or not.
LEMMA PutKeeps ==
  ASSUME IInv, NEW p \in Runs, NEW place \in Places, NEW c \in CycleSet,
         NEW refund \in BOOLEAN, Real(c), place \in MinePlaces => c.id # 0,
         place \in ItemPlaces => item[p].thread \in Threads, Put(p, c, refund, place),
         rows' \in [RowKeys -> RowSet], GhostType', BoundType',
         UNCHANGED <<lease, cycle, allowance, scheduler, local>>
  PROVE  IInv'
  <1>1. LocalInv'
    BY Parts, Puts
  <1>2. StoreType'
    BY DEF IInv, TypeOK, StoreType
  <1>. QED
    BY <1>1, <1>2, Parts, SchedulerStays DEF Real, IInv, TypeOK, LocalInv

LEMMA SaveKeeps ==
  ASSUME IInv, NEW p \in Runs, NEW place \in Places, NEW c \in CycleSet, Real(c),
         place \in MinePlaces => c.id # 0, place \notin ItemPlaces, Save(p, c, place)
  PROVE  IInv'
  <1>1. Put(p, c, FALSE, place) /\ UNCHANGED <<store, today, scheduler, local, bounds, ghosts>>
    BY DEF Save
  <1>2. GhostType' /\ BoundType'
    BY <1>1, Parts, GhostStays, BoundStays
  <1>3. rows' \in [RowKeys -> RowSet] /\ UNCHANGED <<lease, cycle, allowance, scheduler, local>>
    BY <1>1 DEF store, IInv, TypeOK, StoreType
  <1>. QED
    BY <1>1, <1>2, <1>3, PutKeeps

LEMMA SaveStatusKeeps ==
  ASSUME IInv, NEW p \in Runs, NEW place \in Places, NEW status \in Statuses,
         mine[p].id # 0, place \notin ItemPlaces, SaveStatus(p, status, place)
  PROVE  IInv'
  <1>. DEFINE c == [mine[p] EXCEPT !.status = status]
  <1>1. mine[p] \in CycleSet
    BY DEF IInv, TypeOK, ProcessType
  <1>2. c \in CycleSet /\ c.id # 0
    BY <1>1 DEF CycleSet
  <1>3. Save(p, c, place)
    BY DEF SaveStatus
  <1>. HIDE DEF c
  <1>. QED
    BY <1>2, <1>3, SaveKeeps DEF Real

\* A step that goes on with an outcome and changes nothing else.
LEMMA OutcomeKeeps ==
  ASSUME IInv, NEW p \in Runs, NEW place \in Places, NEW o \in Outcomes, Fits(p, place),
         Outcome(p, o, place), UNCHANGED ghosts
  PROVE  IInv'
  <1>1. /\ Goto(p, place) /\ outcome' = [outcome EXCEPT ![p] = o]
        /\ UNCHANGED <<store, today, scheduler, mine, item, ticket, draft, bounds, ghosts>>
    BY DEF Outcome
  <1>2. LocalInv'
    BY <1>1, Parts, Tells
  <1>3. cycle' = cycle
    BY <1>1 DEF store
  <1>. QED
    BY <1>1, <1>2, <1>3, Parts, StoreStays, SchedulerStays, BoundStays, GhostStays
    DEF Real, IInv, TypeOK, LocalInv

LEMMA DiscardKeeps ==
  ASSUME IInv, NEW p \in Runs, NEW purpose \in Outcomes, NEW c \in CycleSet,
         Discard(p, purpose), mine' = [mine EXCEPT ![p] = c]
  PROVE  IInv'
  <1>. DEFINE o == [outcome EXCEPT ![p] = purpose]
  <1>1. /\ Goto(p, "discard") /\ outcome' = o
        /\ UNCHANGED <<store, today, scheduler, item, ticket, draft, bounds, ghosts>>
    BY DEF Discard
  <1>2. ProcessType'
    BY <1>1 DEF IInv, TypeOK, ProcessType, Goto, Places
  <1>3. ASSUME NEW q \in Runs PROVE PlaceInv(q)'
    <2>1. CASE q = p
      BY <2>1, <1>1 DEF IInv, TypeOK, ProcessType, Goto, PlaceInv, Fits, MinePlaces, ItemPlaces
    <2>2. CASE q # p
      BY <2>2, <1>1, OthersKeep DEF IInv, TypeOK, ProcessType, Goto
    <2>. QED BY <2>1, <2>2
  <1>4. cycle' = cycle
    BY <1>1 DEF store
  <1>. QED
    BY <1>1, <1>2, <1>3, <1>4, Parts, StoreStays, SchedulerStays, BoundStays, GhostStays
    DEF Real, IInv, TypeOK, LocalInv

\* Discarding leaves mine as it is.
LEMMA DiscardSameKeeps ==
  ASSUME IInv, NEW p \in Runs, NEW purpose \in Outcomes, Discard(p, purpose), UNCHANGED mine
  PROVE  IInv'
  <1>1. mine[p] \in CycleSet /\ mine' = [mine EXCEPT ![p] = mine[p]]
    BY DEF IInv, TypeOK, ProcessType
  <1>. QED
    BY <1>1, DiscardKeeps

-----------------------------
(* The number a scheduler gives its next run.                              *)

LEMMA NextFree ==
  ASSUME TypeOK, NEW t \in Tabs
  PROVE  NextGeneration(t) \in Nat
  <1>. DEFINE tickets == {ticket[p] : p \in Runs}
             used == {lease.generation, generation[t]} \cup tickets
             n == Cardinality(Runs)
  <1>1. IsFiniteSet(Runs) /\ n \in Nat
    BY LibraryAssumption, FS_CardinalityType
  <1>2. IsFiniteSet(tickets) /\ Cardinality(tickets) \in Nat /\ Cardinality(tickets) <= n
    <2>1. ticket \in Surjection(Runs, tickets)
      BY DEF TypeOK, ProcessType, Surjection
    <2>. HIDE DEF tickets
    <2>2. IsFiniteSet(tickets) /\ Cardinality(tickets) <= n
      BY <2>1, <1>1, FS_Surjection
    <2>. QED BY <2>2, FS_CardinalityType
  <1>. HIDE DEF tickets, n
  <1>. DEFINE more == tickets \cup {lease.generation}
  <1>3. IsFiniteSet(more) /\ Cardinality(more) \in Nat /\ Cardinality(more) <= n + 1
    <2>1. /\ IsFiniteSet(more)
          /\ Cardinality(more) = IF lease.generation \in tickets THEN Cardinality(tickets)
                                 ELSE Cardinality(tickets) + 1
      BY <1>2, FS_AddElement
    <2>. HIDE DEF more
    <2>. QED BY <2>1, <1>1, <1>2
  <1>4. IsFiniteSet(used) /\ Cardinality(used) \in Nat /\ Cardinality(used) <= n + 2
    <2>. HIDE DEF more
    <2>1. /\ IsFiniteSet(more \cup {generation[t]})
          /\ Cardinality(more \cup {generation[t]}) =
               IF generation[t] \in more THEN Cardinality(more) ELSE Cardinality(more) + 1
      BY <1>3, FS_AddElement
    <2>2. used = more \cup {generation[t]}
      BY DEF more
    <2>. HIDE DEF used
    <2>. QED BY <2>1, <2>2, <1>1, <1>3
  <1>5. IsFiniteSet(1 .. n + 3) /\ Cardinality(1 .. n + 3) = n + 3
    BY <1>1, FS_Interval
  <1>6. \E g \in 1 .. n + 3 : g \notin used
    <2>1. SUFFICES ASSUME 1 .. n + 3 \subseteq used PROVE FALSE
      OBVIOUS
    <2>. HIDE DEF used
    <2>2. Cardinality(1 .. n + 3) <= Cardinality(used)
      BY <2>1, <1>4, FS_Subset
    <2>. QED
      BY <2>2, <1>1, <1>4, <1>5
  <1>. HIDE DEF used
  <1>7. NextGeneration(t) = CHOOSE g \in 1 .. n + 3 : g \notin used
    BY DEF NextGeneration, used, tickets, n
  <1>. QED
    BY <1>1, <1>6, <1>7

-----------------------------
(* What the operators on cycles and rows return.                           *)

LEMMA AccountedType ==
  ASSUME TypeOK, NEW c \in CycleSet, NEW refund \in BOOLEAN
  PROVE  /\ Accounted(c, refund) \in CycleSet
         /\ Accounted(c, refund).id = c.id /\ Accounted(c, refund).status = c.status
  <1>1. /\ MaxDay \in Nat /\ today \in 0 .. MaxDay
        /\ allowance \in [id : 0 .. MaxCycles, day : 0 .. MaxDay, used : Nat]
    BY LibraryAssumption DEF TypeOK, BoundType, StoreType
  <1>2. Larger(today, Larger(c.day, allowance.day)) \in 0 .. MaxDay
    BY <1>1 DEF Larger, CycleSet
  <1>. DEFINE day == Larger(today, Larger(c.day, allowance.day))
              floor == IF refund /\ allowance.id = c.id /\ c.day = day /\ allowance.used > 0
                       THEN allowance.used - 1 ELSE allowance.used
              used == IF c.day = day THEN c.used ELSE 0
              total == IF allowance.day = day THEN Larger(floor, used) ELSE used
  <1>3. day \in 0 .. MaxDay
    BY <1>2
  <1>4. floor \in Nat
    BY <1>1
  <1>5. used \in Nat
    BY DEF CycleSet
  <1>6. Accounted(c, refund) = [c EXCEPT !.day = day, !.used = total]
    BY DEF Accounted
  <1>. HIDE DEF day, floor, used
  <1>7. total \in Nat
    BY <1>4, <1>5 DEF Larger
  <1>. HIDE DEF total
  <1>. QED
    BY <1>3, <1>6, <1>7 DEF CycleSet

LEMMA SettlementType ==
  ASSUME NEW it \in [thread : Threads \cup {Nobody}, row : RowSet, day : 0 .. MaxDay], NEW o
  PROVE  Settlement(it, o) \in RowSet
  <1>. DEFINE free == [it.row EXCEPT !.attempts = @ + 1, !.day = it.day, !.by = Nobody,
                                     !.live = FALSE, !.due = FALSE]
  <1>1. free \in RowSet
    <2>. DEFINE row == it.row
                n == row.attempts + 1
                day == it.day
    <2>1. row \in RowSet /\ n \in Nat /\ day \in 0 .. MaxDay
      BY DEF RowSet
    <2>2. free = [row EXCEPT !.attempts = n, !.day = day, !.by = Nobody, !.live = FALSE, !.due = FALSE]
      OBVIOUS
    <2>. HIDE DEF free, row, n, day
    <2>. QED BY <2>1, <2>2 DEF RowSet
  <1>2. Settlement(it, o) = CASE o = "skip" -> [free EXCEPT !.status = "skipped"]
        [] o \in {"deferred", "blocked"} -> it.row
        [] o = "uncommitted" -> [free EXCEPT !.status = "retry"]
        [] o = "ok" -> [free EXCEPT !.status = "completed"]
        [] o = "gone" \/ (o = "fail" /\ free.attempts >= scene.attempts)
             -> [free EXCEPT !.status = "failed"]
        [] OTHER -> [free EXCEPT !.status = "retry"]
    BY DEF Settlement
  <1>. HIDE DEF free
  <1>3. \A st \in {"skipped", "retry", "completed", "failed"} : [free EXCEPT !.status = st] \in RowSet
    BY <1>1 DEF RowSet, Unfinished, Finished
  <1>4. it.row \in RowSet
    OBVIOUS
  <1>. QED
    BY <1>2, <1>3, <1>4

LEMMA ClaimedType ==
  ASSUME TypeOK, NEW p \in Runs, NEW day \in 0 .. MaxDay
  PROVE  Claimed(p, day) \in RowSet
  <1>. DEFINE row == item[p].row
              n == row.attempts + 1
              t == TabOf[p]
  <1>1. row \in RowSet /\ t \in Tabs
    BY LibraryAssumption DEF TypeOK, ProcessType
  <1>2. n \in Nat
    BY <1>1 DEF RowSet
  <1>3. Claimed(p, day) = [row EXCEPT !.status = "processing", !.attempts = n, !.day = day,
                                      !.by = t, !.live = TRUE, !.due = FALSE]
    BY DEF Claimed
  <1>. HIDE DEF row, n, t
  <1>. QED
    BY <1>1, <1>2, <1>3 DEF RowSet, Unfinished

LEMMA RollOverType ==
  ASSUME TypeOK, NEW c \in CycleSet
  PROVE  RollOver(c) \in CycleSet /\ RollOver(c).id = c.id
  <1>1. today \in 0 .. MaxDay
    BY LibraryAssumption DEF TypeOK, BoundType
  <1>. QED
    BY <1>1 DEF RollOver, CycleSet

LEMMA RefundedType ==
  ASSUME TypeOK, NEW p \in Runs
  PROVE  Refunded(p) \in CycleSet /\ Refunded(p).id = mine[p].id
  <1>. DEFINE c == mine[p]
              n == IF Consumes(p) /\ c.used > 0 THEN c.used - 1 ELSE c.used
  <1>1. c \in CycleSet
    BY DEF TypeOK, ProcessType
  <1>2. n \in Nat
    BY <1>1 DEF CycleSet
  <1>3. Refunded(p) = [c EXCEPT !.status = "waiting", !.used = n]
    BY DEF Refunded
  <1>4. c.id = mine[p].id
    OBVIOUS
  <1>. HIDE DEF c, n
  <1>. QED
    BY <1>1, <1>2, <1>3, <1>4 DEF CycleSet, Statuses

LEMMA FreshType ==
  ASSUME NEW id \in 0 .. MaxCycles, NEW status \in Statuses, NEW total \in Nat
  PROVE  /\ Fresh(id, status, total) \in CycleSet
         /\ Fresh(id, status, total).id = id /\ Fresh(id, status, total).status = status
  BY LibraryAssumption DEF Fresh, CycleSet

LEMMA NewRowType ==
  ASSUME NEW status \in {"absent", "pending"}
  PROVE  NewRow(status) \in RowSet
  BY LibraryAssumption DEF NewRow, RowSet, Unfinished

\* The rows with some status are among the records.
LEMMA RowsWithCount ==
  ASSUME NEW id, NEW statuses
  PROVE  Cardinality(RowsWith(id, statuses)) \in Nat /\ RowsWith(id, statuses) \subseteq Threads
  <1>1. RowsWith(id, statuses) \subseteq Threads
    BY DEF RowsWith
  <1>. QED
    BY <1>1, LibraryAssumption, FS_Subset, FS_CardinalityType

-----------------------------
(* putCycle().                                                             *)

LEMMA AccountKeeps ==
  ASSUME IInv, NEW p \in Runs, Account(p)
  PROVE  IInv'
  <1>. DEFINE c == Accounted(draft[p].cycle, draft[p].refund)
              d == [draft[p] EXCEPT !.cycle = c]
  <1>1. draft[p] \in [cycle : CycleSet, refund : BOOLEAN, then : Places]
    BY DEF IInv, TypeOK, ProcessType
  <1>2. c \in CycleSet /\ c.id = draft[p].cycle.id /\ c.status = draft[p].cycle.status
    BY <1>1, AccountedType DEF IInv
  <1>3. /\ pc[p] = "account" /\ Goto(p, "write") /\ draft' = [draft EXCEPT ![p] = d]
        /\ UNCHANGED <<store, today, scheduler, local, bounds, ghosts>>
    BY DEF Account, At
  <1>. HIDE DEF c
  <1>4. d \in [cycle : CycleSet, refund : BOOLEAN, then : Places] /\ d.cycle = c /\ d.then = draft[p].then
    BY <1>1, <1>2
  <1>. HIDE DEF d
  <1>5. ProcessType'
    BY <1>3, <1>4 DEF IInv, TypeOK, ProcessType, Goto, local, Places
  <1>6. ASSUME NEW q \in Runs PROVE PlaceInv(q)'
    <2>1. CASE q = p
      BY <2>1, <1>2, <1>3, <1>4 DEF IInv, TypeOK, ProcessType, Goto, local, PlaceInv, Fits, Real,
        MinePlaces, ItemPlaces
    <2>2. CASE q # p
      BY <2>2, <1>3, OthersKeep DEF IInv, TypeOK, ProcessType, Goto, local
    <2>. QED BY <2>1, <2>2
  <1>7. cycle' = cycle
    BY <1>3 DEF store
  <1>. QED
    BY <1>3, <1>5, <1>6, <1>7, Parts, StoreStays, SchedulerStays, BoundStays, GhostStays
    DEF Real, IInv, TypeOK, LocalInv

LEMMA WriteKeeps ==
  ASSUME IInv, NEW p \in Runs, Write(p)
  PROVE  IInv'
  <1>. DEFINE c == draft[p].cycle
  <1>1. c \in CycleSet /\ draft[p].then \in Places /\ Real(c)
    BY DEF IInv, TypeOK, ProcessType, PlaceInv
  <1>2. cycle' = c /\ allowance' = [id |-> c.id, day |-> c.day, used |-> c.used]
    BY DEF Write
  <1>3. UNCHANGED <<lease, rows, today, bounds, ghosts>>
    BY DEF Write
  <1>4. StoreType'
    BY <1>1, <1>2, <1>3 DEF IInv, TypeOK, StoreType, CycleSet
  <1>5. LocalInv' /\ SchedulerType'
    <2>1. CASE draft[p].then = "idle"
      BY <2>1, Parts, Ends DEF Write
    <2>2. CASE draft[p].then # "idle"
      <3>1. /\ Goto(p, draft[p].then) /\ mine' = [mine EXCEPT ![p] = c]
            /\ draft' = [draft EXCEPT ![p] = NoDraft]
            /\ UNCHANGED <<scheduler, item, outcome, ticket>>
        BY <2>2 DEF Write
      <3>2. /\ NoDraft \in [cycle : CycleSet, refund : BOOLEAN, then : Places]
            /\ NoDraft.cycle.status = "none" /\ NoDraft.then = "idle"
        BY LibraryAssumption DEF NoDraft, NoCycle, Fresh, CycleSet, Statuses, Places
      <3>3. ProcessType'
        BY <1>1, <3>1, <3>2 DEF IInv, TypeOK, ProcessType, Goto
      <3>4. ASSUME NEW q \in Runs PROVE PlaceInv(q)'
        <4>1. CASE q = p
          BY <4>1, <1>1, <3>1, <3>2 DEF IInv, TypeOK, ProcessType, Goto, PlaceInv, Fits, Real,
            MinePlaces, ItemPlaces
        <4>2. CASE q # p
          BY <4>2, <3>1, OthersKeep DEF IInv, TypeOK, ProcessType, Goto
        <4>. QED BY <4>1, <4>2
      <3>. QED
        BY <3>1, <3>3, <3>4, SchedulerStays, Parts DEF LocalInv
    <2>. QED BY <2>1, <2>2
  <1>6. BoundType' /\ GhostType'
    BY <1>3, Parts, BoundStays, GhostStays
  <1>. QED
    BY <1>1, <1>2, <1>4, <1>5, <1>6 DEF Real, IInv, TypeOK, LocalInv

-----------------------------
(* The scheduler.                                                          *)

LEMMA StartRunKeeps ==
  ASSUME IInv, NEW p \in Runs, StartRun(p)
  PROVE  IInv'
  <1>. DEFINE t == TabOf[p]
              g == NextGeneration(t)
  <1>1. t \in Tabs /\ g \in Nat
    BY LibraryAssumption, NextFree DEF IInv
  <1>2. NoCycle \in CycleSet
    BY LibraryAssumption DEF NoCycle, Fresh, CycleSet, Statuses
  <1>3. /\ controller' = [controller EXCEPT ![t] = p]
        /\ generation' = [generation EXCEPT ![t] = g]
        /\ outcome' = [outcome EXCEPT ![p] = "none"]
        /\ mine' = [mine EXCEPT ![p] = NoCycle]
        /\ Goto(p, "lease")
        /\ UNCHANGED <<store, today, aborted, item, ticket, draft, bounds, ghosts>>
    BY DEF StartRun
  <1>. HIDE DEF t, g
  <1>4. SchedulerType'
    BY <1>1, <1>3 DEF IInv, TypeOK, SchedulerType
  <1>5. ProcessType'
    BY <1>2, <1>3 DEF IInv, TypeOK, ProcessType, Goto, Places, Outcomes
  <1>6. ASSUME NEW q \in Runs PROVE PlaceInv(q)'
    <2>1. CASE q = p
      BY <2>1, <1>3 DEF IInv, TypeOK, ProcessType, Goto, PlaceInv, Fits, MinePlaces, ItemPlaces
    <2>2. CASE q # p
      BY <2>2, <1>3, OthersKeep DEF IInv, TypeOK, ProcessType, Goto
    <2>. QED BY <2>1, <2>2
  <1>7. cycle' = cycle
    BY <1>3 DEF store
  <1>. QED
    BY <1>3, <1>4, <1>5, <1>6, <1>7, Parts, StoreStays, BoundStays, GhostStays
    DEF Real, IInv, TypeOK, LocalInv

LEMMA BeginKeeps ==
  ASSUME IInv, NEW p \in Runs, Begin(p)
  PROVE  IInv'
  BY StartRunKeeps DEF Begin

\* A lease that is written by a process, or deleted.
LEMMA LeaseKeeps ==
  ASSUME IInv, LocalInv', SchedulerType',
         lease' \in [owner : Tabs \cup {Nobody}, generation : Nat, live : BOOLEAN],
         UNCHANGED <<cycle, allowance, rows, today, bounds, ghosts>>
  PROVE  IInv'
  <1>1. StoreType'
    BY DEF IInv, TypeOK, StoreType
  <1>2. BoundType' /\ GhostType'
    BY Parts, BoundStays, GhostStays
  <1>. QED
    BY <1>1, <1>2 DEF Real, IInv, TypeOK, LocalInv

LEMMA ReadLeaseKeeps ==
  ASSUME IInv, NEW p \in Runs, ReadLease(p)
  PROVE  IInv'
  <1>1. CASE lease.live /\ lease.owner # TabOf[p]
    BY <1>1, FinishKeeps DEF ReadLease
  <1>2. CASE ~(lease.live /\ lease.owner # TabOf[p])
    <2>. DEFINE g == generation[TabOf[p]]
    <2>1. /\ ticket' = [ticket EXCEPT ![p] = g] /\ Goto(p, "claim")
          /\ UNCHANGED <<store, today, scheduler, mine, item, outcome, draft, bounds, ghosts>>
      BY <1>2 DEF ReadLease
    <2>2. g \in Nat
      BY LibraryAssumption DEF IInv, TypeOK, SchedulerType
    <2>3. "claim" \in Places /\ Fits(p, "claim")
      BY DEF Places, Fits, MinePlaces, ItemPlaces
    <2>. HIDE DEF g
    <2>4. LocalInv'
      BY <2>1, <2>2, <2>3, Parts, Tickets
    <2>5. cycle' = cycle
      BY <2>1 DEF store
    <2>. QED
      BY <2>1, <2>4, <2>5, Parts, StoreStays, SchedulerStays, BoundStays, GhostStays
      DEF Real, IInv, TypeOK, LocalInv
  <1>. QED BY <1>1, <1>2

LEMMA PutLeaseKeeps ==
  ASSUME IInv, NEW p \in Runs, NEW place \in Places, NEW next \in Places, Fits(p, next),
         PutLease(p, place, next)
  PROVE  IInv'
  <1>1. /\ lease' = [owner |-> TabOf[p], generation |-> ticket[p], live |-> TRUE]
        /\ ticket' = [ticket EXCEPT ![p] = 0] /\ Goto(p, next)
        /\ UNCHANGED <<cycle, allowance, rows, today, scheduler, mine, item, outcome, draft,
                       bounds, ghosts>>
    BY DEF PutLease
  <1>2. TabOf[p] \in Tabs /\ ticket[p] \in Nat
    BY LibraryAssumption DEF IInv, TypeOK, ProcessType
  <1>3. lease' \in [owner : Tabs \cup {Nobody}, generation : Nat, live : BOOLEAN]
    BY <1>1, <1>2
  <1>4. LocalInv'
    BY <1>1, Parts, Tickets
  <1>5. SchedulerType'
    BY <1>1, Parts, SchedulerStays
  <1>. QED
    BY <1>1, <1>3, <1>4, <1>5, LeaseKeeps

LEMMA VerifyLeaseKeeps ==
  ASSUME IInv, NEW p \in Runs, VerifyLease(p)
  PROVE  IInv'
  <1>1. "read" \in Places /\ Fits(p, "read")
    BY DEF Places, Fits, MinePlaces, ItemPlaces
  <1>. QED
    BY <1>1, DecideKeeps, FinishKeeps DEF VerifyLease

LEMMA ReadCycleKeeps ==
  ASSUME IInv, NEW p \in Runs, ReadCycle(p)
  PROVE  IInv'
  <1>1. \A place \in {"release", "active", "work"} : place \in Places /\ Fits(p, place)
    BY DEF Places, Fits, MinePlaces, ItemPlaces
  <1>2. CASE cycle.status = "paused" /\ Save(p, [cycle EXCEPT !.status = "running"], "work")
    <2>. DEFINE c == [cycle EXCEPT !.status = "running"]
    <2>1. c \in CycleSet /\ Real(c)
      BY <1>2 DEF IInv, TypeOK, StoreType, CycleSet, Statuses, Real
    <2>2. Save(p, c, "work")
      BY <1>2
    <2>. HIDE DEF c
    <2>. QED
      BY <2>1, <2>2, SaveKeeps DEF Places, MinePlaces, ItemPlaces
  <1>3. CASE ~(cycle.status = "paused" /\ Save(p, [cycle EXCEPT !.status = "running"], "work"))
    <2>1. Decide(p, "release") \/ Decide(p, "active") \/ Decide(p, "work")
      BY <1>3 DEF ReadCycle
    <2>. QED
      BY <2>1, <1>1, DecideKeeps
  <1>. QED BY <1>2, <1>3

LEMMA ReleaseKeeps ==
  ASSUME IInv, NEW p \in Runs, Release(p)
  PROVE  IInv'
  <1>1. "drop" \in Places /\ Fits(p, "drop")
    BY DEF Places, Fits, MinePlaces, ItemPlaces
  <1>. QED
    BY <1>1, DecideKeeps, FinishKeeps DEF Release

LEMMA DropKeeps ==
  ASSUME IInv, NEW p \in Runs, Drop(p)
  PROVE  IInv'
  <1>1. LocalInv' /\ SchedulerType'
    BY Parts, Ends DEF Drop
  <1>2. lease' \in [owner : Tabs \cup {Nobody}, generation : Nat, live : BOOLEAN]
    BY DEF Drop, NoLease
  <1>3. UNCHANGED <<cycle, allowance, rows, today, bounds, ghosts>>
    BY DEF Drop
  <1>. QED
    BY <1>1, <1>2, <1>3, LeaseKeeps

LEMMA SchedulingKeeps ==
  ASSUME IInv, NEW p \in Runs, Scheduling(p)
  PROVE  IInv'
  <1>1. {"claim", "verify"} \subseteq Places /\ Fits(p, "verify")
    BY DEF Places, Fits, MinePlaces, ItemPlaces
  <1>. QED
    BY <1>1, ReadLeaseKeeps, PutLeaseKeeps, VerifyLeaseKeeps, ReadCycleKeeps, ReleaseKeeps,
       DropKeeps DEF Scheduling

-----------------------------
(* discardCycle() and the snapshot builder.                                *)

LEMMA DiscardReadKeeps ==
  ASSUME IInv, NEW p \in Runs, DiscardRead(p)
  PROVE  IInv'
  <1>1. "release" \in Places /\ Fits(p, "release")
    BY DEF Places, Fits, MinePlaces, ItemPlaces
  <1>2. cycle \in CycleSet /\ Real(cycle) /\ "delete" \in Places \ (MinePlaces \cup ItemPlaces)
    BY DEF IInv, TypeOK, StoreType, Places, MinePlaces, ItemPlaces
  <1>. QED
    BY <1>1, <1>2, SaveKeeps, FinishKeeps, DecideKeeps DEF DiscardRead

\* A step that goes on after it has written rows.
LEMMA RowsKeep ==
  ASSUME IInv, LocalInv', rows' \in [RowKeys -> RowSet],
         UNCHANGED <<lease, cycle, allowance, today, scheduler, bounds, ghosts>>
  PROVE  IInv'
  <1>1. StoreType'
    BY DEF IInv, TypeOK, StoreType
  <1>. QED
    BY <1>1, Parts, SchedulerStays, BoundStays, GhostStays DEF Real, IInv, TypeOK, LocalInv

LEMMA DiscardRowsKeeps ==
  ASSUME IInv, NEW p \in Runs, DiscardRows(p)
  PROVE  IInv'
  <1>1. /\ rows' = [k \in RowKeys |-> IF k[1] = mine[p].id THEN NewRow("absent") ELSE rows[k]]
        /\ Goto(p, "forget")
        /\ UNCHANGED <<lease, cycle, allowance, today, scheduler, local, draft, bounds, ghosts>>
    BY DEF DiscardRows
  <1>2. rows' \in [RowKeys -> RowSet]
    BY <1>1, NewRowType DEF IInv, TypeOK, StoreType
  <1>3. "forget" \in Places /\ Fits(p, "forget")
    BY DEF Places, Fits, MinePlaces, ItemPlaces
  <1>4. LocalInv'
    BY <1>1, <1>3, Parts, GoesOn
  <1>. QED
    BY <1>1, <1>2, <1>4, RowsKeep

LEMMA DiscardMasterKeeps ==
  ASSUME IInv, NEW p \in Runs, DiscardMaster(p)
  PROVE  IInv'
  <1>1. PICK place \in {"release", "rerun", "begin"} : Goto(p, place)
    BY DEF DiscardMaster
  <1>2. /\ cycle' = NoCycle
        /\ UNCHANGED <<lease, allowance, rows, today, scheduler, local, draft, bounds, ghosts>>
    BY DEF DiscardMaster
  <1>3. NoCycle \in CycleSet /\ NoCycle.status = "none"
    BY LibraryAssumption DEF NoCycle, Fresh, CycleSet, Statuses
  <1>4. StoreType'
    BY <1>2, <1>3 DEF IInv, TypeOK, StoreType
  <1>5. place \in Places /\ Fits(p, place)
    BY DEF Places, Fits, MinePlaces, ItemPlaces
  <1>6. LocalInv'
    BY <1>1, <1>2, <1>5, Parts, GoesOn
  <1>. QED
    BY <1>2, <1>3, <1>4, <1>6, Parts, SchedulerStays, BoundStays, GhostStays
    DEF Real, IInv, TypeOK, LocalInv

LEMMA ReadActiveKeeps ==
  ASSUME IInv, NEW p \in Runs, ReadActive(p)
  PROVE  IInv'
  <1>1. \A place \in {"release", "begin"} : place \in Places /\ Fits(p, place)
    BY DEF Places, Fits, MinePlaces, ItemPlaces
  <1>2. cycle \in CycleSet /\ "snapshot" \in Outcomes
    BY DEF IInv, TypeOK, StoreType, Outcomes
  <1>. QED
    BY <1>1, <1>2, DecideKeeps, DiscardKeeps DEF ReadActive

LEMMA BeginCycleKeeps ==
  ASSUME IInv, NEW p \in Runs, BeginCycle(p)
  PROVE  IInv'
  <1>1. CASE made = scene.cycles
    <2>1. "release" \in Places /\ Fits(p, "release")
      BY DEF Places, Fits, MinePlaces, ItemPlaces
    <2>. QED
      BY <1>1, <2>1, DecideKeeps DEF BeginCycle
  <1>2. CASE made # scene.cycles
    <2>. DEFINE c == Fresh(made + 1, "preparing", 0)
    <2>1. /\ made' = made + 1 /\ Put(p, c, FALSE, "rows")
          /\ UNCHANGED <<store, today, scheduler, local, scene, closed, frozen, commands, ghosts>>
      BY <1>2 DEF BeginCycle
    <2>2. scene \in Scenes /\ scene.cycles \in 0 .. MaxCycles /\ made \in 0 .. scene.cycles /\ MaxCycles \in Nat
      BY SceneBounds, LibraryAssumption DEF IInv, TypeOK, BoundType
    <2>3. made + 1 \in 1 .. MaxCycles /\ made + 1 \in 0 .. scene.cycles
      BY <1>2, <2>2
    <2>4. c \in CycleSet /\ c.id # 0
      BY <2>2, <2>3, FreshType DEF Statuses
    <2>5. BoundType'
      BY <2>1, <2>3 DEF IInv, TypeOK, BoundType
    <2>6. GhostType'
      BY <2>1, Parts, GhostStays
    <2>7. rows' \in [RowKeys -> RowSet] /\ UNCHANGED <<lease, cycle, allowance, scheduler, local>>
      BY <2>1 DEF store, IInv, TypeOK, StoreType
    <2>8. "rows" \in Places \ ItemPlaces
      BY DEF Places, ItemPlaces
    <2>. HIDE DEF c
    <2>. QED
      BY <2>1, <2>4, <2>5, <2>6, <2>7, <2>8, PutKeeps DEF Real
  <1>. QED BY <1>1, <1>2

LEMMA WriteRowsKeeps ==
  ASSUME IInv, NEW p \in Runs, WriteRows(p)
  PROVE  IInv'
  <1>1. CASE Discard(p, "cleanup") /\ UNCHANGED mine
    BY <1>1, DiscardSameKeeps DEF Outcomes
  <1>2. CASE ~(Discard(p, "cleanup") /\ UNCHANGED mine)
    <2>. DEFINE id == mine[p].id
    <2>1. PICK enabled \in SUBSET scene.threads :
            /\ rows' = [k \in RowKeys |-> IF k \in {id} \X enabled THEN NewRow("pending")
                                          ELSE rows[k]]
            /\ Put(p, Fresh(id, "preparing", Cardinality(enabled)), FALSE, "counted")
      BY <1>2 DEF WriteRows
    <2>2. /\ pc[p] = "rows"
          /\ UNCHANGED <<lease, cycle, allowance, today, scheduler, local, bounds, ghosts>>
      BY <1>2 DEF WriteRows, At
    <2>3. Cardinality(enabled) \in Nat
      BY SceneBounds, FS_Subset, FS_CardinalityType DEF IInv, TypeOK, BoundType
    <2>4. id \in 0 .. MaxCycles /\ id # 0
      BY <2>2 DEF IInv, TypeOK, ProcessType, CycleSet, PlaceInv, Fits, MinePlaces
    <2>. DEFINE c == Fresh(id, "preparing", Cardinality(enabled))
    <2>5. c \in CycleSet /\ c.id # 0
      BY <2>3, <2>4, FreshType DEF Statuses
    <2>6. rows' \in [RowKeys -> RowSet]
      BY <2>1, NewRowType DEF IInv, TypeOK, StoreType
    <2>7. BoundType' /\ GhostType'
      BY <2>2, Parts, BoundStays, GhostStays
    <2>8. "counted" \in Places \ ItemPlaces
      BY DEF Places, ItemPlaces
    <2>. HIDE DEF c
    <2>. QED
      BY <2>1, <2>2, <2>5, <2>6, <2>7, <2>8, PutKeeps DEF Real, c
  <1>. QED BY <1>1, <1>2

LEMMA PublishKeeps ==
  ASSUME IInv, NEW p \in Runs, Publish(p)
  PROVE  IInv'
  <1>. DEFINE present == Cardinality(RowsWith(mine[p].id, Unfinished \cup Finished))
              c == Fresh(mine[p].id, "running", present)
  <1>1. pc[p] = "counted"
    BY DEF Publish, At
  <1>2. mine[p].id \in 0 .. MaxCycles /\ mine[p].id # 0
    BY <1>1 DEF IInv, TypeOK, ProcessType, CycleSet, PlaceInv, Fits, MinePlaces
  <1>3. c \in CycleSet /\ c.id # 0
    BY <1>2, RowsWithCount, FreshType DEF Statuses
  <1>4. Save(p, c, "published") \/ (Discard(p, "cleanup") /\ UNCHANGED mine)
    BY DEF Publish
  <1>. HIDE DEF c
  <1>5. CASE Save(p, c, "published")
    BY <1>3, <1>5, SaveKeeps DEF Real, Places, ItemPlaces
  <1>6. CASE Discard(p, "cleanup") /\ UNCHANGED mine
    BY <1>6, DiscardSameKeeps DEF Outcomes
  <1>. QED BY <1>4, <1>5, <1>6

LEMMA ScheduleKeeps ==
  ASSUME IInv, NEW p \in Runs, Schedule(p)
  PROVE  IInv'
  <1>1. pc[p] = "published" /\ Save(p, mine[p], "work")
    BY DEF Schedule, At
  <1>2. mine[p] \in CycleSet /\ mine[p].id # 0
    BY <1>1 DEF IInv, TypeOK, ProcessType, PlaceInv, Fits, MinePlaces
  <1>. QED
    BY <1>1, <1>2, SaveKeeps DEF Real, Places, ItemPlaces

LEMMA SnapshotKeeps ==
  ASSUME IInv, NEW p \in Runs, Snapshot(p)
  PROVE  IInv'
  BY DiscardReadKeeps, DiscardRowsKeeps, DiscardMasterKeeps, ReadActiveKeeps, BeginCycleKeeps,
     WriteRowsKeeps, PublishKeeps, ScheduleKeeps DEF Snapshot

-----------------------------
(* The worker.                                                             *)

LEMMA MineAt ==
  ASSUME IInv, NEW p \in Runs, pc[p] \in MinePlaces
  PROVE  mine[p] \in CycleSet /\ mine[p].id \in Cycles
  BY DEF IInv, TypeOK, ProcessType, CycleSet, PlaceInv, Fits, Cycles

LEMMA ReleaseFits == \A p \in Runs : "release" \in Places /\ Fits(p, "release")
  BY DEF Places, Fits, MinePlaces, ItemPlaces

LEMMA InterruptedType == \A p \in Runs : Interrupted(p) \in Statuses
  BY DEF Interrupted, Statuses

\* From a step of the worker to another that needs no row.
LEMMA WorkerGoesOn ==
  ASSUME IInv, NEW p \in Runs, pc[p] \in MinePlaces, NEW place \in Places,
         place \notin ItemPlaces, Decide(p, place)
  PROVE  IInv'
  <1>1. Fits(p, place)
    BY DEF IInv, PlaceInv, Fits
  <1>. QED
    BY <1>1, DecideKeeps

LEMMA WorkerSaves ==
  ASSUME IInv, NEW p \in Runs, pc[p] \in MinePlaces, NEW place \in Places,
         place \notin ItemPlaces, NEW status \in Statuses, SaveStatus(p, status, place)
  PROVE  IInv'
  <1>1. mine[p].id # 0
    BY MineAt DEF Cycles
  <1>. QED
    BY <1>1, SaveStatusKeeps

LEMMA StartWorkerKeeps ==
  ASSUME IInv, NEW p \in Runs, StartWorker(p)
  PROVE  IInv'
  <1>1. CASE cycle.status \in {"none", "paused", "completed"} \/ cycle.blocked
    BY <1>1, ReleaseFits, DecideKeeps DEF StartWorker
  <1>2. CASE ~(cycle.status \in {"none", "paused", "completed"} \/ cycle.blocked)
    <2>1. /\ mine' = [mine EXCEPT ![p] = cycle] /\ Goto(p, "own")
          /\ UNCHANGED <<store, today, scheduler, item, outcome, ticket, draft, bounds, ghosts>>
      BY <1>2 DEF StartWorker
    <2>2. cycle \in CycleSet /\ cycle.id # 0
      BY <1>2 DEF IInv, TypeOK, StoreType, Real
    <2>3. LocalInv'
      BY <2>1, <2>2, Parts, Copies DEF Places, ItemPlaces
    <2>4. cycle' = cycle
      BY <2>1 DEF store
    <2>. QED
      BY <2>1, <2>3, <2>4, Parts, StoreStays, SchedulerStays, BoundStays, GhostStays
      DEF Real, IInv, TypeOK, LocalInv
  <1>. QED BY <1>1, <1>2

LEMMA OwnFirstKeeps ==
  ASSUME IInv, NEW p \in Runs, OwnFirst(p)
  PROVE  IInv'
  <1>1. pc[p] = "own" /\ (SaveStatus(p, "recovering", "recover") \/ Decide(p, "release"))
    BY DEF OwnFirst, At
  <1>2. "own" \in MinePlaces /\ {"recover", "release"} \subseteq Places \ ItemPlaces /\ "recovering" \in Statuses
    BY DEF MinePlaces, ItemPlaces, Places, Statuses
  <1>. QED
    BY <1>1, <1>2, WorkerGoesOn, WorkerSaves

LEMMA RecoverKeeps ==
  ASSUME IInv, NEW p \in Runs, Recover(p)
  PROVE  IInv'
  <1>. DEFINE stale == {th \in RowsWith(mine[p].id, {"processing"}) : ~rows[<<mine[p].id, th>>].live}
  <1>1. /\ pc[p] = "recover"
        /\ rows' = [k \in RowKeys |-> IF k \in {mine[p].id} \X stale THEN Recovered(rows[k])
                                      ELSE rows[k]]
        /\ Goto(p, "repair")
        /\ UNCHANGED <<lease, cycle, allowance, today, scheduler, local, draft, bounds, ghosts>>
    BY DEF Recover, SetRows, At
  <1>2. \A row \in RowSet : Recovered(row) \in RowSet
    BY DEF Recovered, RowSet, Unfinished
  <1>3. rows \in [RowKeys -> RowSet]
    BY DEF IInv, TypeOK, StoreType
  <1>4. "repair" \in Places /\ Fits(p, "repair")
    BY <1>1 DEF IInv, PlaceInv, Fits, Places, MinePlaces, ItemPlaces
  <1>. HIDE DEF stale
  <1>5. rows' \in [RowKeys -> RowSet]
    BY <1>1, <1>2, <1>3
  <1>6. LocalInv'
    BY <1>1, <1>4, Parts, GoesOn
  <1>. QED
    BY <1>1, <1>5, <1>6, RowsKeep

LEMMA RepairKeeps ==
  ASSUME IInv, NEW p \in Runs, Repair(p)
  PROVE  IInv'
  <1>. DEFINE spent == {th \in RowsWith(mine[p].id, {"retry"}) :
                          rows[<<mine[p].id, th>>].attempts >= scene.attempts}
              Fail(row) == [row EXCEPT !.status = "failed", !.due = FALSE]
  <1>1. pc[p] = "repair" /\ "repair" \in MinePlaces
    BY DEF Repair, At, MinePlaces
  <1>2. {"release", "roll"} \subseteq Places \ ItemPlaces
    BY DEF Places, ItemPlaces
  <1>3. CASE Decide(p, "release") \/ Decide(p, "roll")
    BY <1>1, <1>2, <1>3, WorkerGoesOn
  <1>4. CASE ~(Decide(p, "release") \/ Decide(p, "roll"))
    <2>1. /\ rows' = [k \in RowKeys |-> IF k \in {mine[p].id} \X spent THEN Fail(rows[k])
                                        ELSE rows[k]]
          /\ Put(p, mine[p], FALSE, "roll")
          /\ UNCHANGED <<lease, cycle, allowance, today, scheduler, local, bounds, ghosts>>
      BY <1>4 DEF Repair, SetRows
    <2>2. \A row \in RowSet : Fail(row) \in RowSet
      BY DEF RowSet, Finished
    <2>3. rows \in [RowKeys -> RowSet]
      BY DEF IInv, TypeOK, StoreType
    <2>. HIDE DEF spent, Fail
    <2>4. rows' \in [RowKeys -> RowSet]
      BY <2>1, <2>2, <2>3
    <2>5. mine[p] \in CycleSet /\ mine[p].id # 0
      BY <1>1, MineAt DEF Cycles
    <2>6. BoundType' /\ GhostType'
      BY <2>1, Parts, BoundStays, GhostStays
    <2>. QED
      BY <1>2, <2>1, <2>4, <2>5, <2>6, PutKeeps DEF Real
  <1>. QED BY <1>3, <1>4

LEMMA RollKeeps ==
  ASSUME IInv, NEW p \in Runs, Roll(p)
  PROVE  IInv'
  <1>1. pc[p] = "roll" /\ (Save(p, RollOver(mine[p]), "resume") \/ Decide(p, "resume"))
    BY DEF Roll, At
  <1>2. "roll" \in MinePlaces /\ "resume" \in Places \ ItemPlaces
    BY DEF MinePlaces, ItemPlaces, Places
  <1>3. RollOver(mine[p]) \in CycleSet /\ RollOver(mine[p]).id # 0
    BY <1>1, <1>2, MineAt, RollOverType DEF IInv, Cycles
  <1>4. CASE Save(p, RollOver(mine[p]), "resume")
    BY <1>2, <1>3, <1>4, SaveKeeps DEF Real
  <1>5. CASE Decide(p, "resume")
    BY <1>1, <1>2, <1>5, WorkerGoesOn
  <1>. QED BY <1>1, <1>4, <1>5

LEMMA ResumeCycleKeeps ==
  ASSUME IInv, NEW p \in Runs, ResumeCycle(p)
  PROVE  IInv'
  <1>1. pc[p] = "resume" /\ SaveStatus(p, "running", "loop")
    BY DEF ResumeCycle, At
  <1>2. "resume" \in MinePlaces /\ "loop" \in Places \ ItemPlaces /\ "running" \in Statuses
    BY DEF MinePlaces, ItemPlaces, Places, Statuses
  <1>. QED
    BY <1>1, <1>2, WorkerSaves

LEMMA LoopKeeps ==
  ASSUME IInv, NEW p \in Runs, Loop(p)
  PROVE  IInv'
  <1>1. pc[p] = "loop" /\ (Decide(p, "next") \/ SaveStatus(p, Interrupted(p), "release"))
    BY DEF Loop, At
  <1>2. "loop" \in MinePlaces /\ {"next", "release"} \subseteq Places \ ItemPlaces
    BY DEF MinePlaces, ItemPlaces, Places
  <1>. QED
    BY <1>1, <1>2, InterruptedType, WorkerGoesOn, WorkerSaves

LEMMA CountKeeps ==
  ASSUME IInv, NEW p \in Runs, Count(p)
  PROVE  IInv'
  <1>1. pc[p] = "count" /\ \E st \in {"completed", "waiting"} : SaveStatus(p, st, "release")
    BY DEF Count, At
  <1>2. "count" \in MinePlaces /\ "release" \in Places \ ItemPlaces /\ {"completed", "waiting"} \subseteq Statuses
    BY DEF MinePlaces, ItemPlaces, Places, Statuses
  <1>. QED
    BY <1>1, <1>2, WorkerSaves

-----------------------------
(* One pass of the worker's loop.                                          *)

LEMMA ItemAt ==
  ASSUME IInv, NEW p \in Runs, pc[p] \in ItemPlaces
  PROVE  /\ pc[p] \in MinePlaces /\ item[p].thread \in Threads /\ KeyOf(p) \in RowKeys
         /\ item[p].day \in 0 .. MaxDay /\ item[p].row \in RowSet
         /\ \A place \in Places : Fits(p, place)
  <1>1. pc[p] \in MinePlaces /\ Fits(p, pc[p])
    BY DEF IInv, PlaceInv, ItemPlaces, MinePlaces
  <1>2. item[p] \in [thread : Threads \cup {Nobody}, row : RowSet, day : 0 .. MaxDay]
    BY DEF IInv, TypeOK, ProcessType
  <1>. QED
    BY <1>1, <1>2, MineAt DEF Fits, KeyOf, RowKeys

LEMMA Actionables ==
  ASSUME IInv, NEW p \in Runs, pc[p] = "next", NEW th \in Actionable(mine[p].id)
  PROVE  /\ th \in Threads /\ rows[<<mine[p].id, th>>] \in RowSet
         /\ rows[<<mine[p].id, th>>].status \in {"pending", "retry"}
  <1>1. th \in Threads
    BY DEF Actionable, RowsWith
  <1>2. <<mine[p].id, th>> \in RowKeys
    BY <1>1, MineAt DEF MinePlaces, RowKeys
  <1>3. rows[<<mine[p].id, th>>].status \in {"pending", "retry"}
    BY DEF Actionable, RowsWith
  <1>. QED
    BY <1>1, <1>2, <1>3 DEF IInv, TypeOK, StoreType

LEMMA NextItemKeeps ==
  ASSUME IInv, NEW p \in Runs, NextItem(p)
  PROVE  IInv'
  <1>1. pc[p] = "next" /\ mine[p] \in CycleSet /\ mine[p].id # 0
    BY MineAt DEF NextItem, At, MinePlaces, Cycles
  <1>2. CASE Decide(p, "count")
    <2>1. "next" \in MinePlaces /\ "count" \in Places \ ItemPlaces
      BY DEF MinePlaces, ItemPlaces, Places
    <2>. QED BY <1>1, <1>2, <2>1, WorkerGoesOn
  <1>3. CASE ~Decide(p, "count")
    <2>1. PICK th \in Actionable(mine[p].id) :
            /\ Take(p, th)
            /\ \/ Goto(p, "skip") /\ UNCHANGED draft
               \/ Put(p, RollOver(mine[p]), FALSE, "allow")
               \/ Goto(p, "allow") /\ UNCHANGED draft
            /\ UNCHANGED <<store, today, scheduler, mine, outcome, ticket, bounds, ghosts>>
      BY <1>3 DEF NextItem
    <2>. DEFINE it == [thread |-> th, row |-> rows[<<mine[p].id, th>>], day |-> today]
    <2>2. it \in [thread : Threads \cup {Nobody}, row : RowSet, day : 0 .. MaxDay] /\ it.thread \in Threads
      <3>1. today \in 0 .. MaxDay
        BY LibraryAssumption DEF IInv, TypeOK, BoundType
      <3>. QED BY <1>1, <3>1, Actionables
    <2>3. item' = [item EXCEPT ![p] = it]
      BY <2>1 DEF Take
    <2>. HIDE DEF it
    <2>. DEFINE d == [cycle |-> RollOver(mine[p]), refund |-> FALSE, then |-> "allow"]
    <2>4. RollOver(mine[p]) \in CycleSet /\ RollOver(mine[p]).id # 0
      BY <1>1, RollOverType DEF IInv
    <2>5. d \in [cycle : CycleSet, refund : BOOLEAN, then : Places] /\ d.then = "allow" /\ d.cycle.id # 0
      BY <2>4 DEF Places
    <2>6. \/ pc' = [pc EXCEPT ![p] = "skip"] /\ draft' = draft
          \/ pc' = [pc EXCEPT ![p] = "account"] /\ draft' = [draft EXCEPT ![p] = d]
          \/ pc' = [pc EXCEPT ![p] = "allow"] /\ draft' = draft
      BY <2>1 DEF Put, Goto
    <2>. HIDE DEF d
    <2>7. ProcessType'
      <3>. USE DEF IInv, TypeOK, ProcessType
      <3>1. pc' \in [Runs -> Places]
        BY <2>6 DEF Places
      <3>2. item' \in [Runs -> [thread : Threads \cup {Nobody}, row : RowSet, day : 0 .. MaxDay]]
        BY <2>2, <2>3
      <3>3. draft' \in [Runs -> [cycle : CycleSet, refund : BOOLEAN, then : Places]]
        BY <2>5, <2>6
      <3>. QED
        BY <2>1, <3>1, <3>2, <3>3
    <2>8. ASSUME NEW q \in Runs PROVE PlaceInv(q)'
      <3>1. CASE q = p
        BY <3>1, <1>1, <2>1, <2>2, <2>3, <2>5, <2>6 DEF IInv, TypeOK, ProcessType, PlaceInv, Fits, Real,
          MinePlaces, ItemPlaces
      <3>2. CASE q # p
        BY <3>2, <2>1, <2>3, <2>6, OthersKeep DEF IInv, TypeOK, ProcessType
      <3>. QED BY <3>1, <3>2
    <2>9. cycle' = cycle
      BY <2>1 DEF store
    <2>. QED
      BY <2>1, <2>7, <2>8, <2>9, Parts, StoreStays, SchedulerStays, BoundStays, GhostStays
      DEF Real, IInv, TypeOK, LocalInv
  <1>. QED BY <1>2, <1>3

LEMMA SkipKeeps ==
  ASSUME IInv, NEW p \in Runs, Skip(p)
  PROVE  IInv'
  <1>. DEFINE day == item[p].row.day
              it == [item[p] EXCEPT !.day = day]
  <1>1. /\ pc[p] = "skip" /\ rows' = [rows EXCEPT ![KeyOf(p)] = Claimed(p, day)]
        /\ item' = [item EXCEPT ![p] = it]
        /\ outcome' = [outcome EXCEPT ![p] = "skip"] /\ pc' = [pc EXCEPT ![p] = "settle"]
        /\ UNCHANGED <<lease, cycle, allowance, today, scheduler, mine, ticket, draft, bounds, ghosts>>
    BY DEF Skip, At, PutRow, Goto
  <1>2. "skip" \in ItemPlaces
    BY DEF ItemPlaces
  <1>3. item[p] \in [thread : Threads \cup {Nobody}, row : RowSet, day : 0 .. MaxDay]
    BY DEF IInv, TypeOK, ProcessType
  <1>4. day \in 0 .. MaxDay
    BY <1>3 DEF RowSet
  <1>5. /\ it \in [thread : Threads \cup {Nobody}, row : RowSet, day : 0 .. MaxDay]
        /\ it.thread = item[p].thread /\ it.thread \in Threads
    BY <1>1, <1>2, <1>3, <1>4, ItemAt
  <1>6. Claimed(p, day) \in RowSet
    BY <1>4, ClaimedType DEF IInv
  <1>. HIDE DEF it, day
  <1>7. rows' \in [RowKeys -> RowSet]
    BY <1>1, <1>6 DEF IInv, TypeOK, StoreType
  <1>8. ProcessType'
    BY <1>1, <1>5 DEF IInv, TypeOK, ProcessType, Places, Outcomes
  <1>9. ASSUME NEW q \in Runs PROVE PlaceInv(q)'
    <2>1. CASE q = p
      BY <2>1, <1>1, <1>5 DEF IInv, TypeOK, ProcessType, PlaceInv, Fits, MinePlaces
    <2>2. CASE q # p
      BY <2>2, <1>1, OthersKeep DEF IInv, TypeOK, ProcessType
    <2>. QED BY <2>1, <2>2
  <1>. QED
    BY <1>1, <1>7, <1>8, <1>9, RowsKeep DEF LocalInv

LEMMA ClaimKeeps ==
  ASSUME IInv, NEW p \in Runs, Claim(p)
  PROVE  IInv'
  <1>1. pc[p] = "allow" /\ "allow" \in MinePlaces \cap ItemPlaces
    BY DEF Claim, At, MinePlaces, ItemPlaces
  <1>2. CASE SaveStatus(p, "waiting", "release")
    BY <1>1, <1>2, ReleaseFits, WorkerSaves DEF Statuses, ItemPlaces
  <1>3. CASE ~SaveStatus(p, "waiting", "release")
    <2>. DEFINE n == mine[p].used + (IF Consumes(p) THEN 1 ELSE 0)
                c == [mine[p] EXCEPT !.used = n]
    <2>1. /\ rows' = [rows EXCEPT ![KeyOf(p)] = Claimed(p, item[p].day)]
          /\ Put(p, c, FALSE, "guard")
          /\ UNCHANGED <<lease, cycle, allowance, today, scheduler, local, bounds, ghosts>>
      BY <1>3 DEF Claim, PutRow
    <2>2. mine[p] \in CycleSet /\ mine[p].id # 0 /\ n \in Nat
      BY <1>1, MineAt DEF Cycles, CycleSet
    <2>. HIDE DEF n
    <2>3. c \in CycleSet /\ c.id # 0
      BY <2>2 DEF CycleSet
    <2>. HIDE DEF c
    <2>4. Claimed(p, item[p].day) \in RowSet
      BY <1>1, ItemAt, ClaimedType DEF IInv
    <2>5. rows' \in [RowKeys -> RowSet]
      BY <2>1, <2>4 DEF IInv, TypeOK, StoreType
    <2>6. BoundType' /\ GhostType'
      BY <2>1, Parts, BoundStays, GhostStays
    <2>7. item[p].thread \in Threads /\ "guard" \in Places
      BY <1>1, ItemAt DEF Places
    <2>. QED
      BY <2>1, <2>3, <2>5, <2>6, <2>7, PutKeeps DEF Real
  <1>. QED BY <1>2, <1>3

\* From a step with a row in hand to another that needs it.
LEMMA ItemGoesOn ==
  ASSUME IInv, NEW p \in Runs, pc[p] \in ItemPlaces, NEW place \in Places, Decide(p, place)
  PROVE  IInv'
  BY ItemAt, DecideKeeps

LEMMA ItemTells ==
  ASSUME IInv, NEW p \in Runs, pc[p] \in ItemPlaces, NEW place \in Places, NEW o \in Outcomes,
         Outcome(p, o, place), UNCHANGED ghosts
  PROVE  IInv'
  BY ItemAt, OutcomeKeeps

LEMMA AskKeeps ==
  ASSUME IInv, NEW p \in Runs, Ask(p)
  PROVE  IInv'
  <1>1. /\ pc[p] = "guard" /\ Goto(p, "wait")
        /\ asked' = asked \cup {<<item[p].day, mine[p].id, item[p].thread>>}
        /\ UNCHANGED <<store, today, scheduler, local, draft, bounds, committed>>
    BY DEF Ask, At
  <1>2. /\ mine[p].id \in Cycles /\ item[p].thread \in Threads /\ item[p].day \in 0 .. MaxDay
        /\ Fits(p, "wait") /\ "wait" \in Places
    BY <1>1, ItemAt, MineAt DEF ItemPlaces, Places
  <1>3. GhostType'
    BY <1>1, <1>2 DEF IInv, TypeOK, GhostType
  <1>4. LocalInv'
    BY <1>1, <1>2, Parts, GoesOn
  <1>5. cycle' = cycle
    BY <1>1 DEF store
  <1>. QED
    BY <1>1, <1>3, <1>4, <1>5, Parts, StoreStays, SchedulerStays, BoundStays
    DEF Real, IInv, TypeOK, LocalInv

LEMMA DeferKeeps ==
  ASSUME IInv, NEW p \in Runs, Defer(p)
  PROVE  IInv'
  <1>1. pc[p] = "guard" /\ Outcome(p, "deferred", "after") /\ UNCHANGED ghosts
    BY DEF Defer, At
  <1>. QED
    BY <1>1, ItemTells DEF ItemPlaces, Places, Outcomes

LEMMA AnswerKeeps ==
  ASSUME IInv, NEW p \in Runs, NEW o \in Final \cup {"blocked", "deferred"}, Answer(p, o)
  PROVE  IInv'
  <1>1. pc[p] = "wait" /\ Outcome(p, o, "after") /\ UNCHANGED ghosts
    BY DEF Answer, At
  <1>. QED
    BY <1>1, ItemTells DEF ItemPlaces, Places, Outcomes, Final

\* The places a step with a row goes on to.
LEMMA ItemNext ==
  /\ {"after", "commit", "put", "committed", "settle", "settled"} \subseteq ItemPlaces
  /\ {"settle", "commit", "put", "settled", "release"} \subseteq Places
  /\ "release" \notin ItemPlaces /\ "paused" \in Statuses
  BY DEF ItemPlaces, Places, Statuses

LEMMA AfterRequestKeeps ==
  ASSUME IInv, NEW p \in Runs, AfterRequest(p)
  PROVE  IInv'
  <1>1. pc[p] = "after" /\ pc[p] \in ItemPlaces
    BY ItemNext DEF AfterRequest, At
  <1>2. \/ SaveStatus(p, Interrupted(p), "release")
        \/ Outcome(p, "skip", "settle") /\ UNCHANGED ghosts
        \/ Decide(p, "settle")
        \/ Decide(p, "commit")
    BY DEF AfterRequest
  <1>3. CASE SaveStatus(p, Interrupted(p), "release")
    BY <1>1, <1>3, ItemAt, ItemNext, InterruptedType, WorkerSaves
  <1>4. CASE Outcome(p, "skip", "settle") /\ UNCHANGED ghosts
    BY <1>1, <1>4, ItemNext, ItemTells DEF Outcomes
  <1>5. CASE Decide(p, "settle")
    BY <1>1, <1>5, ItemNext, ItemGoesOn
  <1>6. CASE Decide(p, "commit")
    BY <1>1, <1>6, ItemNext, ItemGoesOn
  <1>. QED BY <1>2, <1>3, <1>4, <1>5, <1>6

LEMMA CommitKeeps ==
  ASSUME IInv, NEW p \in Runs, Commit(p)
  PROVE  IInv'
  <1>1. pc[p] = "commit" /\ (Decide(p, "put") \/ SaveStatus(p, "paused", "release"))
    BY DEF Commit, At
  <1>. QED
    BY <1>1, ItemAt, ItemNext, ItemGoesOn, WorkerSaves

LEMMA PutResultKeeps ==
  ASSUME IInv, NEW p \in Runs, PutResult(p)
  PROVE  IInv'
  <1>1. pc[p] = "put" /\ pc[p] \in ItemPlaces /\ "committed" \in Places
    BY ItemNext DEF PutResult, At, Places
  <1>2. CASE Outcome(p, "uncommitted", "committed") /\ UNCHANGED ghosts
    BY <1>1, <1>2, ItemTells DEF Outcomes
  <1>3. CASE ~(Outcome(p, "uncommitted", "committed") /\ UNCHANGED ghosts)
    <2>1. /\ committed' = committed \cup (IF outcome[p] = "ok" THEN {KeyOf(p)} ELSE {})
          /\ Goto(p, "committed")
          /\ UNCHANGED <<store, today, scheduler, local, draft, bounds, asked>>
      BY <1>3 DEF PutResult
    <2>2. GhostType'
      BY <1>1, <2>1, ItemAt DEF IInv, TypeOK, GhostType
    <2>3. LocalInv'
      BY <1>1, <2>1, ItemAt, Parts, GoesOn
    <2>4. cycle' = cycle
      BY <2>1 DEF store
    <2>. QED
      BY <2>1, <2>2, <2>3, <2>4, Parts, StoreStays, SchedulerStays, BoundStays
      DEF Real, IInv, TypeOK, LocalInv
  <1>. QED BY <1>2, <1>3

LEMMA AfterCommitKeeps ==
  ASSUME IInv, NEW p \in Runs, AfterCommit(p)
  PROVE  IInv'
  <1>1. pc[p] = "committed" /\ (Decide(p, "settle") \/ SaveStatus(p, "paused", "release"))
    BY DEF AfterCommit, At
  <1>. QED
    BY <1>1, ItemAt, ItemNext, ItemGoesOn, WorkerSaves

LEMMA SettleKeeps ==
  ASSUME IInv, NEW p \in Runs, Settle(p)
  PROVE  IInv'
  <1>1. pc[p] = "settle" /\ (Decide(p, "settled") \/ Decide(p, "release"))
    BY DEF Settle, At
  <1>. QED
    BY <1>1, ItemNext, ItemGoesOn

LEMMA PutSettlementKeeps ==
  ASSUME IInv, NEW p \in Runs, PutSettlement(p)
  PROVE  IInv'
  <1>1. pc[p] = "settled" /\ pc[p] \in ItemPlaces
    BY ItemNext DEF PutSettlement, At
  <1>2. mine[p] \in CycleSet /\ mine[p].id # 0
    BY <1>1, ItemAt, MineAt DEF Cycles
  <1>3. /\ rows' = [rows EXCEPT ![KeyOf(p)] = Settlement(item[p], outcome[p])]
        /\ UNCHANGED <<lease, cycle, allowance, today, scheduler, local, bounds, committed>>
    BY DEF PutSettlement, PutRow
  <1>4. Settlement(item[p], outcome[p]) \in RowSet
    BY SettlementType DEF IInv, TypeOK, ProcessType
  <1>5. rows' \in [RowKeys -> RowSet]
    BY <1>3, <1>4 DEF IInv, TypeOK, StoreType
  <1>6. BoundType'
    BY <1>3, Parts, BoundStays
  <1>7. asked' \subseteq asked
    BY DEF PutSettlement
  <1>8. GhostType'
    BY <1>3, <1>7 DEF IInv, TypeOK, GhostType
  <1>9. {"loop", "release", "renew"} \subseteq Places \ ItemPlaces
    BY DEF Places, ItemPlaces
  <1>10. CASE \E place \in {"loop", "renew"} : Put(p, mine[p], FALSE, place)
    BY <1>2, <1>3, <1>5, <1>6, <1>8, <1>9, <1>10, PutKeeps DEF Real
  <1>11. CASE Put(p, [mine[p] EXCEPT !.status = "waiting"], FALSE, "release")
    <2>. DEFINE c == [mine[p] EXCEPT !.status = "waiting"]
    <2>1. c \in CycleSet /\ c.id # 0
      BY <1>2 DEF CycleSet, Statuses
    <2>2. Put(p, c, FALSE, "release")
      BY <1>11
    <2>. HIDE DEF c
    <2>. QED
      BY <1>3, <1>5, <1>6, <1>8, <1>9, <2>1, <2>2, PutKeeps DEF Real
  <1>12. CASE \E blocked \in {TRUE, mine[p].blocked \/ outcome[p] = "blocked"} :
                Put(p, [Refunded(p) EXCEPT !.blocked = blocked], Consumes(p), "release")
    <2>1. PICK blocked \in BOOLEAN :
            Put(p, [Refunded(p) EXCEPT !.blocked = blocked], Consumes(p), "release")
      BY <1>12
    <2>. DEFINE refund == Consumes(p)
                c == [Refunded(p) EXCEPT !.blocked = blocked]
    <2>2. refund \in BOOLEAN
      BY DEF Consumes
    <2>3. Refunded(p) \in CycleSet /\ Refunded(p).id # 0
      BY <1>2, RefundedType DEF IInv
    <2>4. c \in CycleSet /\ c.id # 0
      BY <2>3 DEF CycleSet
    <2>5. Put(p, c, refund, "release")
      BY <2>1
    <2>. HIDE DEF c, refund
    <2>. QED
      BY <1>3, <1>5, <1>6, <1>8, <1>9, <2>2, <2>4, <2>5, PutKeeps DEF Real
  <1>. QED
    BY <1>10, <1>11, <1>12 DEF PutSettlement

LEMMA RenewKeeps ==
  ASSUME IInv, NEW p \in Runs, Renew(p)
  PROVE  IInv'
  <1>1. pc[p] = "renew" /\ pc[p] \in MinePlaces /\ {"loop", "extend"} \subseteq Places \ ItemPlaces
    BY DEF Renew, At, MinePlaces, Places, ItemPlaces
  <1>2. CASE Decide(p, "loop")
    BY <1>1, <1>2, WorkerGoesOn
  <1>3. CASE ~Decide(p, "loop")
    <2>. DEFINE g == generation[TabOf[p]]
    <2>1. /\ ticket' = [ticket EXCEPT ![p] = g] /\ Goto(p, "extend")
          /\ UNCHANGED <<store, today, scheduler, mine, item, outcome, draft, bounds, ghosts>>
      BY <1>3 DEF Renew
    <2>2. g \in Nat
      BY LibraryAssumption DEF IInv, TypeOK, SchedulerType
    <2>3. Fits(p, "extend")
      BY <1>1 DEF IInv, PlaceInv, Fits
    <2>. HIDE DEF g
    <2>4. LocalInv'
      BY <1>1, <2>1, <2>2, <2>3, Parts, Tickets
    <2>5. cycle' = cycle
      BY <2>1 DEF store
    <2>. QED
      BY <2>1, <2>4, <2>5, Parts, StoreStays, SchedulerStays, BoundStays, GhostStays
      DEF Real, IInv, TypeOK, LocalInv
  <1>. QED BY <1>2, <1>3

LEMMA ExtendKeeps ==
  ASSUME IInv, NEW p \in Runs, PutLease(p, "extend", "loop")
  PROVE  IInv'
  <1>1. pc[p] = "extend" /\ pc[p] \in MinePlaces /\ {"loop", "extend"} \subseteq Places \ ItemPlaces
    BY DEF PutLease, At, MinePlaces, Places, ItemPlaces
  <1>2. Fits(p, "loop")
    BY <1>1 DEF IInv, PlaceInv, Fits
  <1>. QED
    BY <1>1, <1>2, PutLeaseKeeps

LEMMA WorkingKeeps ==
  ASSUME IInv, NEW p \in Runs, Working(p)
  PROVE  IInv'
  BY StartWorkerKeeps, OwnFirstKeeps, RecoverKeeps, RepairKeeps, RollKeeps, ResumeCycleKeeps,
     LoopKeeps, NextItemKeeps, CountKeeps, SkipKeeps, ClaimKeeps, AfterRequestKeeps, CommitKeeps,
     PutResultKeeps, AfterCommitKeeps, SettleKeeps, PutSettlementKeeps, RenewKeeps, ExtendKeeps
  DEF Working

-----------------------------
(* What the user or the page asks.                                         *)

LEMMA CommandKeeps ==
  ASSUME IInv, NEW p \in Runs, NEW what \in scene.commands, Command(p, what)
  PROVE  IInv'
  <1>1. what \in {"stop", "pause", "restart", "save", "unblock"} /\ scene.asks \in Nat
    BY SceneBounds DEF IInv, TypeOK, BoundType
  <1>2. /\ commands < scene.asks /\ commands' = commands + 1
        /\ outcome' = [outcome EXCEPT ![p] = what]
        /\ UNCHANGED <<store, today, generation, mine, item, ticket, draft, scene, made, closed,
                       frozen, ghosts>>
    BY DEF Command
  <1>3. BoundType'
    BY <1>1, <1>2 DEF IInv, TypeOK, BoundType
  <1>4. PICK place \in {"save", "unblock", "stop"} : Goto(p, place)
    BY <1>1 DEF Command
  <1>5. LocalInv'
    <2>1. place \in Places /\ Fits(p, place) /\ what \in Outcomes
      BY <1>1 DEF Places, Fits, MinePlaces, ItemPlaces, Outcomes
    <2>. QED
      BY <1>2, <1>4, <2>1, Parts, Tells
  <1>6. SchedulerType'
    <2>1. CASE UNCHANGED <<controller, aborted>>
      BY <1>2, <2>1 DEF IInv, TypeOK, SchedulerType
    <2>2. CASE /\ controller' = [controller EXCEPT ![TabOf[p]] = Nobody]
               /\ aborted' = [q \in Runs |-> aborted[q] \/ controller[TabOf[p]] = q]
      <3>1. controller' \in [Tabs -> Runs \cup {Nobody}]
        BY <2>2 DEF IInv, TypeOK, SchedulerType
      <3>2. aborted' \in [Runs -> BOOLEAN]
        BY <2>2, Zenon DEF IInv, TypeOK, SchedulerType
      <3>. QED
        BY <1>2, <3>1, <3>2 DEF IInv, TypeOK, SchedulerType
    <2>. QED BY <2>1, <2>2 DEF Command
  <1>7. cycle' = cycle
    BY <1>2 DEF store
  <1>. QED
    BY <1>2, <1>3, <1>5, <1>6, <1>7, Parts, StoreStays, GhostStays DEF Real, IInv, TypeOK, LocalInv

LEMMA StopLeaseKeeps ==
  ASSUME IInv, NEW p \in Runs, StopLease(p)
  PROVE  IInv'
  <1>1. PICK place \in {"unlease", "stopped"} : Decide(p, place)
    BY DEF StopLease
  <1>2. place \in Places /\ Fits(p, place)
    BY DEF Places, Fits, MinePlaces, ItemPlaces
  <1>. QED
    BY <1>1, <1>2, DecideKeeps

LEMMA DeleteLeaseKeeps ==
  ASSUME IInv, NEW p \in Runs, DeleteLease(p)
  PROVE  IInv'
  <1>1. /\ lease' = NoLease /\ Goto(p, "stopped")
        /\ UNCHANGED <<cycle, allowance, rows, today, scheduler, local, draft, bounds, ghosts>>
    BY DEF DeleteLease
  <1>2. "stopped" \in Places /\ Fits(p, "stopped")
    BY DEF Places, Fits, MinePlaces, ItemPlaces
  <1>3. LocalInv' /\ SchedulerType'
    BY <1>1, <1>2, Parts, GoesOn, SchedulerStays
  <1>4. lease' \in [owner : Tabs \cup {Nobody}, generation : Nat, live : BOOLEAN]
    BY <1>1 DEF NoLease
  <1>. QED
    BY <1>1, <1>3, <1>4, LeaseKeeps

LEMMA StoppedKeeps ==
  ASSUME IInv, NEW p \in Runs, Stopped(p)
  PROVE  IInv'
  <1>1. cycle \in CycleSet /\ Real(cycle) /\ "restart" \in Outcomes
    BY DEF IInv, TypeOK, StoreType, Outcomes
  <1>2. CASE Finish(p) /\ UNCHANGED <<store, today, bounds, ghosts>>
    BY <1>2, FinishKeeps
  <1>3. CASE cycle.status # "none" /\ Save(p, [cycle EXCEPT !.status = "paused"], "idle")
    <2>. DEFINE c == [cycle EXCEPT !.status = "paused"]
    <2>1. c \in CycleSet /\ Real(c)
      BY <1>1, <1>3 DEF CycleSet, Statuses, Real
    <2>2. Save(p, c, "idle")
      BY <1>3
    <2>. HIDE DEF c
    <2>. QED
      BY <2>1, <2>2, SaveKeeps DEF Places, MinePlaces, ItemPlaces
  <1>4. CASE Decide(p, "rerun")
    BY <1>4, DecideKeeps DEF Places, Fits, MinePlaces, ItemPlaces
  <1>5. CASE mine' = [mine EXCEPT ![p] = cycle] /\ Discard(p, "restart")
    BY <1>1, <1>5, DiscardKeeps
  <1>. QED
    BY <1>2, <1>3, <1>4, <1>5 DEF Stopped

LEMMA RerunKeeps ==
  ASSUME IInv, NEW p \in Runs, Rerun(p)
  PROVE  IInv'
  BY StartRunKeeps, FinishKeeps DEF Rerun

LEMMA SaveSettingsKeeps ==
  ASSUME IInv, NEW p \in Runs, SaveSettings(p)
  PROVE  IInv'
  <1>1. "idle" \in Places \ (MinePlaces \cup ItemPlaces)
    BY DEF Places, MinePlaces, ItemPlaces
  <1>2. CASE Finish(p) /\ UNCHANGED <<store, today, bounds, ghosts>>
    BY <1>2, FinishKeeps
  <1>3. CASE Save(p, cycle, "idle")
    <2>1. cycle \in CycleSet /\ Real(cycle)
      BY DEF IInv, TypeOK, StoreType
    <2>. QED
      BY <1>1, <1>3, <2>1, SaveKeeps
  <1>4. CASE ~(Finish(p) /\ UNCHANGED <<store, today, bounds, ghosts>>) /\ ~Save(p, cycle, "idle")
    <2>. DEFINE c == [Fresh(made + 1, "completed", 0) EXCEPT !.day = today]
    <2>1. /\ cycle.id = 0 /\ made # scene.cycles /\ made' = made + 1 /\ Put(p, c, FALSE, "idle")
          /\ UNCHANGED <<store, today, scheduler, local, scene, closed, frozen, commands, ghosts>>
      BY <1>4 DEF SaveSettings
    <2>2. /\ scene.cycles \in 0 .. MaxCycles /\ made \in 0 .. scene.cycles
          /\ MaxCycles \in Nat /\ today \in 0 .. MaxDay
      BY SceneBounds, LibraryAssumption DEF IInv, TypeOK, BoundType
    <2>3. made + 1 \in 1 .. MaxCycles /\ made + 1 \in 0 .. scene.cycles
      BY <2>1, <2>2
    <2>4. c \in CycleSet /\ c.id # 0
      <3>1. Fresh(made + 1, "completed", 0) \in CycleSet /\ Fresh(made + 1, "completed", 0).id = made + 1
        BY <2>2, <2>3, FreshType DEF Statuses
      <3>. QED
        BY <2>2, <2>3, <3>1 DEF CycleSet
    <2>5. BoundType'
      BY <2>1, <2>3 DEF IInv, TypeOK, BoundType
    <2>6. GhostType'
      BY <2>1, Parts, GhostStays
    <2>7. rows' \in [RowKeys -> RowSet] /\ UNCHANGED <<lease, cycle, allowance, scheduler, local>>
      BY <2>1 DEF store, IInv, TypeOK, StoreType
    <2>. HIDE DEF c
    <2>. QED
      BY <1>1, <2>1, <2>4, <2>5, <2>6, <2>7, PutKeeps DEF Real
  <1>. QED
    BY <1>2, <1>3, <1>4

LEMMA UnblockKeeps ==
  ASSUME IInv, NEW p \in Runs, Unblock(p)
  PROVE  IInv'
  <1>1. CASE Finish(p) /\ UNCHANGED <<store, today, bounds, ghosts>>
    BY <1>1, FinishKeeps
  <1>2. CASE Save(p, [cycle EXCEPT !.blocked = FALSE], "idle")
    <2>. DEFINE c == [cycle EXCEPT !.blocked = FALSE]
    <2>1. c \in CycleSet /\ Real(c)
      BY DEF IInv, TypeOK, StoreType, CycleSet, Real
    <2>2. Save(p, c, "idle")
      BY <1>2
    <2>. HIDE DEF c
    <2>. QED
      BY <2>1, <2>2, SaveKeeps DEF Places, MinePlaces, ItemPlaces
  <1>. QED
    BY <1>1, <1>2 DEF Unblock

LEMMA CommandingKeeps ==
  ASSUME IInv, NEW p \in Runs, Commanding(p)
  PROVE  IInv'
  BY StopLeaseKeeps, DeleteLeaseKeeps, StoppedKeeps, RerunKeeps, SaveSettingsKeeps, UnblockKeeps
  DEF Commanding

-----------------------------
(* Time and the end of a tab.                                              *)

\* Days, leases and claims: the processes keep their local state.
LEMMA ClockKeeps ==
  ASSUME IInv, StoreType', BoundType',
         UNCHANGED <<cycle, scheduler, pc, local, draft, ghosts>>
  PROVE  IInv'
  BY Parts, LocalStays, SchedulerStays, GhostStays DEF Real, IInv, TypeOK, LocalInv

LEMMA NextDayKeeps ==
  ASSUME IInv, NextDay
  PROVE  IInv'
  <1>1. scene.days \in 1 .. MaxDay /\ MaxDay \in Nat
    BY SceneBounds, LibraryAssumption DEF IInv, TypeOK, BoundType
  <1>2. BoundType'
    BY <1>1 DEF NextDay, IInv, TypeOK, BoundType, bounds
  <1>3. StoreType' /\ UNCHANGED <<cycle, scheduler, pc, local, draft, ghosts>>
    BY Parts, StoreStays DEF NextDay, store
  <1>. QED
    BY <1>2, <1>3, ClockKeeps

LEMMA FreezeKeeps ==
  ASSUME IInv, NEW held \in BOOLEAN, Freeze(held), UNCHANGED <<today, scene, made, closed, commands>>
  PROVE  BoundType'
  BY SceneBounds DEF Freeze, IInv, TypeOK, BoundType

LEMMA LeaseExpiresKeeps ==
  ASSUME IInv, LeaseExpires
  PROVE  IInv'
  <1>. DEFINE held == \E p \in Runs : TabOf[p] = lease.owner /\ pc[p] # "idle"
  <1>1. /\ Freeze(held) /\ lease' = [lease EXCEPT !.live = FALSE]
        /\ UNCHANGED <<cycle, allowance, rows, today, scheduler, pc, local, draft, scene, made,
                       closed, commands, ghosts>>
    BY DEF LeaseExpires
  <1>2. held \in BOOLEAN
    OBVIOUS
  <1>. HIDE DEF held
  <1>3. BoundType'
    BY <1>1, <1>2, FreezeKeeps
  <1>4. StoreType'
    BY <1>1 DEF IInv, TypeOK, StoreType
  <1>. QED
    BY <1>1, <1>3, <1>4, ClockKeeps

LEMMA ClaimExpiresKeeps ==
  ASSUME IInv, NEW k \in RowKeys, ClaimExpires(k)
  PROVE  IInv'
  <1>. DEFINE held == \E p \in Runs : TabOf[p] = rows[k].by /\ pc[p] # "idle" /\ KeyOf(p) = k
              row == [rows[k] EXCEPT !.live = FALSE]
  <1>1. /\ Freeze(held) /\ rows' = [rows EXCEPT ![k] = row]
        /\ UNCHANGED <<lease, cycle, allowance, today, scheduler, pc, local, draft, scene, made,
                       closed, commands, ghosts>>
    BY DEF ClaimExpires
  <1>2. held \in BOOLEAN
    OBVIOUS
  <1>3. row \in RowSet
    BY DEF IInv, TypeOK, StoreType, RowSet
  <1>. HIDE DEF held, row
  <1>4. BoundType'
    BY <1>1, <1>2, FreezeKeeps
  <1>5. StoreType'
    BY <1>1, <1>3 DEF IInv, TypeOK, StoreType
  <1>. QED
    BY <1>1, <1>4, <1>5, ClockKeeps

LEMMA RetryDueKeeps ==
  ASSUME IInv, NEW k \in RowKeys, RetryDue(k)
  PROVE  IInv'
  <1>. DEFINE row == [rows[k] EXCEPT !.due = TRUE]
  <1>1. /\ rows' = [rows EXCEPT ![k] = row]
        /\ UNCHANGED <<lease, cycle, allowance, today, scheduler, pc, local, draft, bounds, ghosts>>
    BY DEF RetryDue
  <1>2. row \in RowSet
    BY DEF IInv, TypeOK, StoreType, RowSet
  <1>. HIDE DEF row
  <1>3. StoreType' /\ BoundType'
    BY <1>1, <1>2, Parts, BoundStays DEF StoreType
  <1>. QED
    BY <1>1, <1>3, ClockKeeps

LEMMA BlockEndsKeeps ==
  ASSUME IInv, BlockEnds
  PROVE  IInv'
  <1>. DEFINE Open(c) == [c EXCEPT !.blocked = FALSE]
              OpenDraft(d) == [d EXCEPT !.cycle = Open(d.cycle)]
  <1>1. /\ cycle' = Open(cycle) /\ mine' = [p \in Runs |-> Open(mine[p])]
        /\ draft' = [p \in Runs |-> OpenDraft(draft[p])]
        /\ UNCHANGED <<lease, allowance, rows, today, scheduler, pc, item, outcome, ticket,
                       bounds, ghosts>>
    BY DEF BlockEnds
  <1>2. \A c \in CycleSet : Open(c) \in CycleSet /\ Open(c).id = c.id /\ Open(c).status = c.status
    BY DEF CycleSet
  <1>. HIDE DEF Open
  <1>3. \A d \in [cycle : CycleSet, refund : BOOLEAN, then : Places] :
          /\ OpenDraft(d) \in [cycle : CycleSet, refund : BOOLEAN, then : Places]
          /\ OpenDraft(d).cycle = Open(d.cycle) /\ OpenDraft(d).then = d.then
    BY <1>2
  <1>. HIDE DEF OpenDraft
  <1>4. StoreType' /\ Real(cycle)'
    BY <1>1, <1>2 DEF IInv, TypeOK, StoreType, Real
  <1>5. ProcessType'
    BY <1>1, <1>2, <1>3 DEF IInv, TypeOK, ProcessType
  <1>6. ASSUME NEW q \in Runs PROVE PlaceInv(q)'
    <2>1. /\ mine[q] \in CycleSet /\ draft[q] \in [cycle : CycleSet, refund : BOOLEAN, then : Places]
          /\ PlaceInv(q) /\ draft[q].cycle \in CycleSet
      BY DEF IInv, TypeOK, ProcessType
    <2>2. mine'[q].id = mine[q].id /\ draft'[q].then = draft[q].then /\ draft'[q].cycle = Open(draft[q].cycle)
      BY <1>1, <1>2, <1>3, <2>1
    <2>. QED
      BY <1>1, <1>2, <2>1, <2>2 DEF PlaceInv, Fits, Real
  <1>. QED
    BY <1>1, <1>4, <1>5, <1>6, Parts, SchedulerStays, BoundStays, GhostStays DEF IInv, TypeOK

LEMMA CloseTabKeeps ==
  ASSUME IInv, NEW t \in Tabs, CloseTab(t)
  PROVE  IInv'
  <1>. DEFINE dead == {p \in Runs : TabOf[p] = t}
              Free(row) == [row EXCEPT !.by = Nobody]
  <1>1. /\ closed < scene.closings /\ closed' = closed + 1
        /\ lease' = IF lease.owner = t THEN [lease EXCEPT !.owner = Nobody] ELSE lease
        /\ rows' = [k \in RowKeys |-> IF rows[k].by = t THEN Free(rows[k]) ELSE rows[k]]
        /\ controller' = [controller EXCEPT ![t] = Nobody]
        /\ aborted' = [p \in Runs |-> IF p \in dead THEN FALSE ELSE aborted[p]]
        /\ UNCHANGED <<cycle, allowance, today, generation, scene, made, frozen, commands, ghosts>>
    BY DEF CloseTab
  <1>2. /\ pc' = [p \in Runs |-> IF p \in dead THEN "idle" ELSE pc[p]]
        /\ mine' = [p \in Runs |-> IF p \in dead THEN NoCycle ELSE mine[p]]
        /\ item' = [p \in Runs |-> IF p \in dead THEN NoItem ELSE item[p]]
        /\ outcome' = [p \in Runs |-> IF p \in dead THEN "none" ELSE outcome[p]]
        /\ ticket' = [p \in Runs |-> IF p \in dead THEN 0 ELSE ticket[p]]
        /\ draft' = [p \in Runs |-> IF p \in dead THEN NoDraft ELSE draft[p]]
    BY DEF CloseTab
  <1>. HIDE DEF dead
  <1>3. \A row \in RowSet : Free(row) \in RowSet
    BY DEF RowSet
  <1>. HIDE DEF Free
  <1>4. BoundType'
    BY <1>1, SceneBounds DEF IInv, TypeOK, BoundType
  <1>5. StoreType'
    <2>1. lease' \in [owner : Tabs \cup {Nobody}, generation : Nat, live : BOOLEAN]
      BY <1>1 DEF IInv, TypeOK, StoreType
    <2>2. rows' \in [RowKeys -> RowSet]
      BY <1>1, <1>3 DEF IInv, TypeOK, StoreType
    <2>. QED BY <1>1, <2>1, <2>2 DEF IInv, TypeOK, StoreType
  <1>6. SchedulerType'
    <2>1. controller' \in [Tabs -> Runs \cup {Nobody}]
      BY <1>1 DEF IInv, TypeOK, SchedulerType
    <2>2. aborted' \in [Runs -> BOOLEAN]
      BY <1>1 DEF IInv, TypeOK, SchedulerType
    <2>. QED BY <1>1, <2>1, <2>2 DEF IInv, TypeOK, SchedulerType
  <1>7. GhostType'
    BY <1>1, Parts, GhostStays
  <1>8. /\ NoCycle \in CycleSet /\ NoItem \in [thread : Threads \cup {Nobody}, row : RowSet, day : 0 .. MaxDay]
        /\ NoDraft \in [cycle : CycleSet, refund : BOOLEAN, then : Places]
        /\ NoDraft.cycle.status = "none" /\ NoDraft.then = "idle"
    BY LibraryAssumption
    DEF NoCycle, NoItem, NoDraft, Fresh, CycleSet, Statuses, NewRow, RowSet, Places
  <1>9. ProcessType'
    <2>. USE DEF IInv, TypeOK, ProcessType
    <2>1. pc' \in [Runs -> Places]
      BY <1>2 DEF Places
    <2>2. outcome' \in [Runs -> Outcomes]
      BY <1>2 DEF Outcomes
    <2>3. mine' \in [Runs -> CycleSet] /\ ticket' \in [Runs -> Nat]
      BY <1>2, <1>8
    <2>4. item' \in [Runs -> [thread : Threads \cup {Nobody}, row : RowSet, day : 0 .. MaxDay]]
      BY <1>2, <1>8
    <2>5. draft' \in [Runs -> [cycle : CycleSet, refund : BOOLEAN, then : Places]]
      BY <1>2, <1>8
    <2>. QED BY <2>1, <2>2, <2>3, <2>4, <2>5
  <1>10. ASSUME NEW q \in Runs PROVE PlaceInv(q)'
    <2>1. CASE q \in dead
      BY <2>1, <1>2, <1>8 DEF PlaceInv, Fits, Real, MinePlaces, ItemPlaces
    <2>2. CASE q \notin dead
      BY <2>2, <1>2, OthersKeep DEF IInv
    <2>. QED BY <2>1, <2>2
  <1>. QED
    BY <1>1, <1>4, <1>5, <1>6, <1>7, <1>9, <1>10 DEF Real, IInv, TypeOK

-----------------------------
(* Types and places.                                                       *)

LEMMA InitInv == Init => IInv
  <1>. SUFFICES ASSUME Init PROVE IInv
    OBVIOUS
  <1>1. /\ NoCycle \in CycleSet /\ NoItem \in [thread : Threads \cup {Nobody}, row : RowSet, day : 0 .. MaxDay]
        /\ NoDraft \in [cycle : CycleSet, refund : BOOLEAN, then : Places]
        /\ NoDraft.cycle.status = "none" /\ NoDraft.then = "idle" /\ NoCycle.status = "none"
    BY LibraryAssumption
    DEF NoCycle, NoItem, NoDraft, Fresh, CycleSet, Statuses, NewRow, RowSet, Places
  <1>2. StoreType
    BY <1>1, LibraryAssumption, NewRowType DEF Init, StoreType, NoLease
  <1>3. SchedulerType
    BY DEF Init, SchedulerType
  <1>4. ProcessType
    <2>1. pc \in [Runs -> Places] /\ outcome \in [Runs -> Outcomes]
      BY DEF Init, Places, Outcomes
    <2>. QED BY <1>1, <2>1 DEF Init, ProcessType
  <1>5. BoundType
    BY SceneBounds, LibraryAssumption DEF Init, BoundType
  <1>6. GhostType
    BY DEF Init, GhostType
  <1>7. \A p \in Runs : PlaceInv(p)
    BY <1>1 DEF Init, PlaceInv, Fits, Real, MinePlaces, ItemPlaces
  <1>. QED
    BY <1>1, <1>2, <1>3, <1>4, <1>5, <1>6, <1>7 DEF Init, IInv, TypeOK, Real

LEMMA NextInv == IInv /\ [Next]_vars => IInv'
  <1>. SUFFICES ASSUME IInv, [Next]_vars PROVE IInv'
    OBVIOUS
  <1>1. ASSUME NEW p \in Runs, Begin(p) \/ Steps(p) \/ Ask(p) \/ Defer(p) PROVE IInv'
    BY <1>1, BeginKeeps, AccountKeeps, WriteKeeps, SchedulingKeeps, SnapshotKeeps, WorkingKeeps,
       CommandingKeeps, AskKeeps, DeferKeeps DEF Steps
  <1>2. ASSUME NEW p \in Runs, NEW o \in Final \cup {"blocked", "deferred"}, Answer(p, o) PROVE IInv'
    BY <1>2, AnswerKeeps
  <1>3. ASSUME NEW p \in Runs, NEW what \in scene.commands, Command(p, what) PROVE IInv'
    BY <1>3, CommandKeeps
  <1>4. ASSUME NextDay \/ LeaseExpires \/ BlockEnds PROVE IInv'
    BY <1>4, NextDayKeeps, LeaseExpiresKeeps, BlockEndsKeeps
  <1>5. ASSUME NEW k \in RowKeys, ClaimExpires(k) \/ RetryDue(k) PROVE IInv'
    BY <1>5, ClaimExpiresKeeps, RetryDueKeeps
  <1>6. ASSUME NEW t \in Tabs, CloseTab(t) PROVE IInv'
    BY <1>6, CloseTabKeeps
  <1>7. CASE UNCHANGED vars
    <2>1. UNCHANGED <<store, today, scheduler, pc, local, draft, bounds, ghosts>>
      BY <1>7 DEF vars
    <2>2. StoreType' /\ BoundType' /\ cycle' = cycle
      BY <2>1, Parts, StoreStays, BoundStays DEF store
    <2>. QED BY <2>1, <2>2, ClockKeeps
  <1>. QED
    BY <1>1, <1>2, <1>3, <1>4, <1>5, <1>6, <1>7 DEF Next

LEMMA Always == Spec => []IInv
  BY InitInv, NextInv, PTL DEF Spec

(* Every state is well typed: a generation, a ticket, a row and a cycle are  *)
(* only ever taken from the cycle and the row that are really in hand.       *)
THEOREM TypeCorrect == Spec => []TypeOK
  <1>1. IInv => TypeOK
    BY DEF IInv
  <1>. QED
    BY <1>1, Always, PTL

-----------------------------
(* Results.                                                                *)

\* Between the write of a result and the row that records it.
ResultPlaces == {"committed", "settle", "settled"}

\* A row is taken unfinished; nothing is written between a result and its row.
ResultInv(p) ==
  /\ item[p].row.status # "completed"
  /\ draft[p].then \notin ResultPlaces
  /\ pc[p] \in ResultPlaces /\ outcome[p] = "ok" => KeyOf(p) \in committed

RInv == ResultBeforeCompletion /\ \A p \in Runs : ResultInv(p)

NoneCompleted == \A k \in RowKeys : rows'[k].status = "completed" => rows[k].status = "completed"
OthersRest(p) == \A q \in Runs : q # p => outcome'[q] = outcome[q] /\ mine'[q].id = mine[q].id

\* A process whose result is left alone keeps what is true of it.
LEMMA ResultStays ==
  ASSUME NEW q \in Runs, ResultInv(q), pc'[q] = pc[q], mine'[q].id = mine[q].id,
         outcome'[q] = outcome[q], item'[q] = item[q], draft'[q].then = draft[q].then,
         committed \subseteq committed'
  PROVE  ResultInv(q)'
  BY DEF ResultInv, KeyOf

\* A process goes on, or starts to write the cycle, away from a result.
LEMMA MoveResults ==
  ASSUME IInv, RInv, NEW p \in Runs, NEW place, place \notin ResultPlaces,
         \/ Goto(p, place) /\ UNCHANGED draft
         \/ \E c, refund : Put(p, c, refund, place),
         UNCHANGED item, OthersRest(p), NoneCompleted, committed' = committed
  PROVE  RInv'
  <1>1. ResultBeforeCompletion'
    BY DEF RInv, ResultBeforeCompletion, NoneCompleted
  <1>2. ASSUME NEW q \in Runs PROVE ResultInv(q)'
    <2>. USE DEF IInv, TypeOK, ProcessType, RInv
    <2>1. CASE q # p
      <3>1. pc'[q] = pc[q] /\ draft'[q] = draft[q]
        BY <2>1 DEF Goto, Put
      <3>. QED
        BY <2>1, <3>1, ResultStays DEF OthersRest
    <2>2. CASE q = p
      <3>1. pc'[p] \in {place, "account"} /\ draft'[p].then \in {place, draft[p].then}
        BY DEF Goto, Put
      <3>. QED
        BY <2>2, <3>1 DEF ResultInv, ResultPlaces
    <2>. QED BY <2>1, <2>2
  <1>. QED
    BY <1>1, <1>2 DEF RInv

LEMMA SameRows == UNCHANGED rows => NoneCompleted
  BY DEF NoneCompleted

LEMMA DecideResults ==
  ASSUME IInv, RInv, NEW p \in Runs, NEW place, place \notin ResultPlaces, Decide(p, place)
  PROVE  RInv'
  <1>1. Goto(p, place) /\ UNCHANGED <<rows, outcome, mine, item, draft, committed>>
    BY DEF Decide, store, local, ghosts
  <1>. QED
    BY <1>1, SameRows, MoveResults DEF OthersRest

LEMMA SaveResults ==
  ASSUME IInv, RInv, NEW p \in Runs, NEW c, NEW place, place \notin ResultPlaces,
         Save(p, c, place)
  PROVE  RInv'
  <1>1. Put(p, c, FALSE, place) /\ UNCHANGED <<rows, outcome, mine, item, committed>>
    BY DEF Save, store, local, ghosts
  <1>. QED
    BY <1>1, SameRows, MoveResults DEF OthersRest

LEMMA DiscardResults ==
  ASSUME IInv, RInv, NEW p \in Runs, NEW purpose, Discard(p, purpose),
         mine' = mine \/ mine' = [mine EXCEPT ![p] = cycle]
  PROVE  RInv'
  <1>1. Goto(p, "discard") /\ UNCHANGED <<rows, item, draft, committed>>
    BY DEF Discard, store, ghosts
  <1>2. OthersRest(p)
    BY DEF Discard, OthersRest, IInv, TypeOK, ProcessType
  <1>. QED
    BY <1>1, <1>2, SameRows, MoveResults DEF ResultPlaces

LEMMA FinishResults ==
  ASSUME IInv, RInv, NEW p \in Runs, Finish(p), UNCHANGED <<rows, committed>>
  PROVE  RInv'
  <1>1. ResultBeforeCompletion'
    BY DEF RInv, ResultBeforeCompletion
  <1>2. ASSUME NEW q \in Runs PROVE ResultInv(q)'
    <2>. USE DEF IInv, TypeOK, ProcessType, RInv, Finish, Goto
    <2>1. CASE q # p
      BY <2>1, ResultStays
    <2>2. CASE q = p
      <3>1. pc'[p] = "idle" /\ item'[p] = NoItem /\ draft'[p] = NoDraft
        OBVIOUS
      <3>. QED
        BY <2>2, <3>1 DEF ResultInv, ResultPlaces, NoItem, NewRow, NoDraft
    <2>. QED BY <2>1, <2>2
  <1>. QED
    BY <1>1, <1>2 DEF RInv

-----------------------------
(* Results are safe in the scheduler, the snapshot and the commands.       *)

LEMMA SomePlaces ==
  {"idle", "lease", "claim", "verify", "read", "release", "drop", "account", "write", "discard",
   "delete", "forget", "active", "begin", "rows", "counted", "published", "work", "own",
   "recover", "repair", "roll", "resume", "loop", "next", "count", "skip", "allow", "guard",
   "wait", "after", "commit", "put", "renew", "extend", "stop", "unlease", "stopped", "rerun",
   "save", "unblock"} \cap ResultPlaces = {}
  BY DEF ResultPlaces

LEMMA AccountResults ==
  ASSUME IInv, RInv, NEW p \in Runs, Account(p)
  PROVE  RInv'
  <1>. DEFINE d == [draft[p] EXCEPT !.cycle = Accounted(draft[p].cycle, draft[p].refund)]
  <1>1. /\ Goto(p, "write") /\ draft' = [draft EXCEPT ![p] = d]
        /\ UNCHANGED <<rows, mine, item, outcome, committed>>
    BY DEF Account, store, local, ghosts
  <1>2. d.then = draft[p].then
    BY DEF IInv, TypeOK, ProcessType
  <1>. HIDE DEF d
  <1>3. ResultBeforeCompletion'
    BY <1>1 DEF RInv, ResultBeforeCompletion
  <1>4. ASSUME NEW q \in Runs PROVE ResultInv(q)'
    <2>. USE DEF IInv, TypeOK, ProcessType, RInv, Goto
    <2>1. CASE q # p
      BY <1>1, <2>1, ResultStays
    <2>2. CASE q = p
      BY <1>1, <1>2, <2>2 DEF ResultInv, ResultPlaces
    <2>. QED BY <2>1, <2>2
  <1>. QED
    BY <1>3, <1>4 DEF RInv

LEMMA WriteResults ==
  ASSUME IInv, RInv, NEW p \in Runs, Write(p)
  PROVE  RInv'
  <1>1. UNCHANGED <<rows, committed>>
    BY DEF Write, ghosts
  <1>2. CASE draft[p].then = "idle"
    BY <1>1, <1>2, FinishResults DEF Write
  <1>3. CASE draft[p].then # "idle"
    <2>1. /\ Goto(p, draft[p].then) /\ mine' = [mine EXCEPT ![p] = draft[p].cycle]
          /\ draft' = [draft EXCEPT ![p] = NoDraft] /\ UNCHANGED <<item, outcome>>
      BY <1>3 DEF Write
    <2>2. ResultBeforeCompletion'
      BY <1>1 DEF RInv, ResultBeforeCompletion
    <2>3. ASSUME NEW q \in Runs PROVE ResultInv(q)'
      <3>. USE DEF IInv, TypeOK, ProcessType, RInv, Goto
      <3>1. CASE q # p
        BY <1>1, <2>1, <3>1, ResultStays
      <3>2. CASE q = p
        BY <1>1, <2>1, <3>2 DEF ResultInv, ResultPlaces, NoDraft
      <3>. QED BY <3>1, <3>2
    <2>. QED
      BY <2>2, <2>3 DEF RInv
  <1>. QED BY <1>2, <1>3

LEMMA StartRunResults ==
  ASSUME IInv, RInv, NEW p \in Runs, StartRun(p)
  PROVE  RInv'
  <1>1. /\ Goto(p, "lease") /\ outcome' = [outcome EXCEPT ![p] = "none"]
        /\ mine' = [mine EXCEPT ![p] = NoCycle]
        /\ UNCHANGED <<rows, item, draft, committed>>
    BY DEF StartRun, store, ghosts
  <1>2. OthersRest(p)
    BY <1>1 DEF OthersRest, IInv, TypeOK, ProcessType
  <1>. QED
    BY <1>1, <1>2, SameRows, SomePlaces, MoveResults

LEMMA SchedulingResults ==
  ASSUME IInv, RInv, NEW p \in Runs, Scheduling(p)
  PROVE  RInv'
  <1>1. CASE ReadLease(p) /\ Goto(p, "claim")
    <2>1. UNCHANGED <<rows, mine, item, outcome, draft, committed>> \/ Finish(p)
      BY <1>1 DEF ReadLease, store, ghosts
    <2>2. UNCHANGED <<rows, committed>>
      BY <1>1 DEF ReadLease, store, ghosts
    <2>. QED
      BY <1>1, <2>1, <2>2, SameRows, SomePlaces, MoveResults, FinishResults DEF OthersRest
  <1>2. CASE ReadLease(p) /\ ~Goto(p, "claim")
    <2>1. Finish(p) /\ UNCHANGED <<rows, committed>>
      BY <1>2 DEF ReadLease, store, ghosts
    <2>. QED BY <2>1, FinishResults
  <1>3. CASE PutLease(p, "claim", "verify")
    <2>1. Goto(p, "verify") /\ UNCHANGED <<rows, mine, item, outcome, draft, committed>>
      BY <1>3 DEF PutLease, ghosts
    <2>. QED
      BY <2>1, SameRows, SomePlaces, MoveResults DEF OthersRest
  <1>4. CASE VerifyLease(p) \/ Release(p)
    <2>1. \/ \E place \in {"read", "drop"} : Decide(p, place)
          \/ Finish(p) /\ UNCHANGED <<rows, committed>>
      BY <1>4 DEF VerifyLease, Release, store, ghosts
    <2>. QED
      BY <2>1, SomePlaces, DecideResults, FinishResults
  <1>5. CASE ReadCycle(p)
    <2>1. \/ \E place \in {"release", "active", "work"} : Decide(p, place)
          \/ Save(p, [cycle EXCEPT !.status = "running"], "work")
      BY <1>5 DEF ReadCycle
    <2>. QED
      BY <2>1, SomePlaces, DecideResults, SaveResults
  <1>6. CASE Drop(p)
    BY <1>6, FinishResults DEF Drop, ghosts
  <1>. QED
    BY <1>1, <1>2, <1>3, <1>4, <1>5, <1>6 DEF Scheduling

LEMMA SnapshotResults ==
  ASSUME IInv, RInv, NEW p \in Runs, Snapshot(p)
  PROVE  RInv'
  <1>1. CASE DiscardRead(p)
    <2>1. \/ Save(p, cycle, "delete") \/ Decide(p, "release")
          \/ Finish(p) /\ UNCHANGED <<rows, committed>>
      BY <1>1 DEF DiscardRead, store, ghosts
    <2>. QED
      BY <2>1, SomePlaces, SaveResults, DecideResults, FinishResults
  <1>2. CASE DiscardRows(p)
    <2>1. /\ rows' = [k \in RowKeys |-> IF k[1] = mine[p].id THEN NewRow("absent") ELSE rows[k]]
          /\ Goto(p, "forget") /\ UNCHANGED <<mine, item, outcome, draft, committed>>
      BY <1>2 DEF DiscardRows, local, ghosts
    <2>2. NoneCompleted
      BY <2>1 DEF NoneCompleted, NewRow
    <2>. QED
      BY <2>1, <2>2, SomePlaces, MoveResults DEF OthersRest
  <1>3. CASE DiscardMaster(p)
    <2>1. PICK place \in {"release", "rerun", "begin"} : Goto(p, place)
      BY <1>3 DEF DiscardMaster
    <2>2. UNCHANGED <<rows, mine, item, outcome, draft, committed>>
      BY <1>3 DEF DiscardMaster, local, ghosts
    <2>. QED
      BY <2>1, <2>2, SameRows, SomePlaces, MoveResults DEF OthersRest
  <1>4. CASE ReadActive(p)
    <2>1. \/ \E place \in {"release", "begin"} : Decide(p, place)
          \/ mine' = [mine EXCEPT ![p] = cycle] /\ Discard(p, "snapshot")
      BY <1>4 DEF ReadActive
    <2>. QED
      BY <2>1, SomePlaces, DecideResults, DiscardResults
  <1>5. CASE BeginCycle(p)
    <2>1. CASE Decide(p, "release")
      BY <2>1, SomePlaces, DecideResults
    <2>2. CASE ~Decide(p, "release")
      <3>1. /\ Put(p, Fresh(made + 1, "preparing", 0), FALSE, "rows")
            /\ UNCHANGED <<rows, mine, item, outcome, committed>>
        BY <1>5, <2>2 DEF BeginCycle, store, local, ghosts
      <3>. QED
        BY <3>1, SameRows, SomePlaces, MoveResults DEF OthersRest
    <2>. QED BY <2>1, <2>2
  <1>6. CASE WriteRows(p)
    <2>1. CASE Discard(p, "cleanup") /\ UNCHANGED mine
      BY <2>1, DiscardResults
    <2>2. CASE ~(Discard(p, "cleanup") /\ UNCHANGED mine)
      <3>1. PICK enabled \in SUBSET scene.threads :
              /\ rows' = [k \in RowKeys |-> IF k \in {mine[p].id} \X enabled
                                            THEN NewRow("pending") ELSE rows[k]]
              /\ Put(p, Fresh(mine[p].id, "preparing", Cardinality(enabled)), FALSE, "counted")
        BY <1>6, <2>2 DEF WriteRows
      <3>2. UNCHANGED <<mine, item, outcome, committed>>
        BY <1>6, <2>2 DEF WriteRows, local, ghosts
      <3>3. NoneCompleted
        BY <3>1 DEF NoneCompleted, NewRow
      <3>. QED
        BY <3>1, <3>2, <3>3, SomePlaces, MoveResults DEF OthersRest
    <2>. QED BY <2>1, <2>2
  <1>7. CASE Publish(p)
    <2>1. \/ \E c : Save(p, c, "published")
          \/ Discard(p, "cleanup") /\ UNCHANGED mine
      BY <1>7 DEF Publish
    <2>. QED
      BY <2>1, SomePlaces, SaveResults, DiscardResults
  <1>8. CASE Schedule(p)
    BY <1>8, SomePlaces, SaveResults DEF Schedule
  <1>. QED
    BY <1>1, <1>2, <1>3, <1>4, <1>5, <1>6, <1>7, <1>8 DEF Snapshot

LEMMA CommandingResults ==
  ASSUME IInv, RInv, NEW p \in Runs, Commanding(p)
  PROVE  RInv'
  <1>1. CASE StopLease(p)
    <2>1. \E place \in {"unlease", "stopped"} : Decide(p, place)
      BY <1>1 DEF StopLease
    <2>. QED
      BY <2>1, SomePlaces, DecideResults
  <1>2. CASE DeleteLease(p)
    <2>1. Goto(p, "stopped") /\ UNCHANGED <<rows, mine, item, outcome, draft, committed>>
      BY <1>2 DEF DeleteLease, local, ghosts
    <2>. QED
      BY <2>1, SameRows, SomePlaces, MoveResults DEF OthersRest
  <1>3. CASE Stopped(p)
    <2>1. \/ Finish(p) /\ UNCHANGED <<rows, committed>>
          \/ \E c : Save(p, c, "idle")
          \/ Decide(p, "rerun")
          \/ mine' = [mine EXCEPT ![p] = cycle] /\ Discard(p, "restart")
      BY <1>3 DEF Stopped, store, ghosts
    <2>. QED
      BY <2>1, SomePlaces, FinishResults, SaveResults, DecideResults, DiscardResults
  <1>4. CASE Rerun(p)
    <2>1. StartRun(p) \/ (Finish(p) /\ UNCHANGED <<rows, committed>>)
      BY <1>4 DEF Rerun, store, ghosts
    <2>. QED
      BY <2>1, StartRunResults, FinishResults
  <1>5. CASE SaveSettings(p)
    <2>1. CASE Finish(p) /\ UNCHANGED <<store, today, bounds, ghosts>>
      BY <2>1, FinishResults DEF store, ghosts
    <2>2. CASE Save(p, cycle, "idle")
      BY <2>2, SomePlaces, SaveResults
    <2>3. CASE /\ ~(Finish(p) /\ UNCHANGED <<store, today, bounds, ghosts>>)
               /\ ~Save(p, cycle, "idle")
      <3>1. \E c : Put(p, c, FALSE, "idle") /\ UNCHANGED <<rows, mine, item, outcome, committed>>
        BY <1>5, <2>3 DEF SaveSettings, store, local, ghosts
      <3>. QED
        BY <3>1, SameRows, SomePlaces, MoveResults DEF OthersRest
    <2>. QED BY <2>1, <2>2, <2>3
  <1>6. CASE Unblock(p)
    <2>1. \/ \E c : Save(p, c, "idle")
          \/ Finish(p) /\ UNCHANGED <<rows, committed>>
      BY <1>6 DEF Unblock, store, ghosts
    <2>. QED
      BY <2>1, SomePlaces, FinishResults, SaveResults
  <1>. QED
    BY <1>1, <1>2, <1>3, <1>4, <1>5, <1>6 DEF Commanding

LEMMA CommandResults ==
  ASSUME IInv, RInv, NEW p \in Runs, NEW what \in scene.commands, Command(p, what)
  PROVE  RInv'
  <1>1. PICK place \in {"save", "unblock", "stop"} : Goto(p, place)
    BY SceneBounds DEF Command, IInv, TypeOK, BoundType
  <1>2. outcome' = [outcome EXCEPT ![p] = what] /\ UNCHANGED <<rows, mine, item, draft, committed>>
    BY DEF Command, store, ghosts
  <1>3. OthersRest(p)
    BY <1>2 DEF OthersRest, IInv, TypeOK, ProcessType
  <1>. QED
    BY <1>1, <1>2, <1>3, SameRows, SomePlaces, MoveResults

-----------------------------
(* Results are safe in the worker.                                         *)

\* A step of the worker up to its request.
LEMMA RecoverResults ==
  ASSUME IInv, RInv, NEW p \in Runs, Recover(p)
  PROVE  RInv'
  <1>. DEFINE stale == {th \in RowsWith(mine[p].id, {"processing"}) : ~rows[<<mine[p].id, th>>].live}
  <1>1. /\ rows' = [k \in RowKeys |-> IF k \in {mine[p].id} \X stale THEN Recovered(rows[k])
                                      ELSE rows[k]]
        /\ Goto(p, "repair") /\ UNCHANGED <<mine, item, outcome, draft, committed>>
    BY DEF Recover, SetRows, local, ghosts
  <1>. HIDE DEF stale
  <1>2. \A row \in RowSet : Recovered(row).status = "retry"
    BY DEF Recovered, RowSet
  <1>3. rows \in [RowKeys -> RowSet]
    BY DEF IInv, TypeOK, StoreType
  <1>4. NoneCompleted
    BY <1>1, <1>2, <1>3 DEF NoneCompleted
  <1>. QED
    BY <1>1, <1>4, SomePlaces, MoveResults DEF OthersRest

LEMMA RepairResults ==
  ASSUME IInv, RInv, NEW p \in Runs, Repair(p)
  PROVE  RInv'
  <1>. DEFINE spent == {th \in RowsWith(mine[p].id, {"retry"}) :
                          rows[<<mine[p].id, th>>].attempts >= scene.attempts}
              Fail(row) == [row EXCEPT !.status = "failed", !.due = FALSE]
  <1>1. CASE \E place \in {"release", "roll"} : Decide(p, place)
    BY <1>1, SomePlaces, DecideResults
  <1>2. CASE ~\E place \in {"release", "roll"} : Decide(p, place)
    <2>1. /\ rows' = [k \in RowKeys |-> IF k \in {mine[p].id} \X spent THEN Fail(rows[k])
                                        ELSE rows[k]]
          /\ Put(p, mine[p], FALSE, "roll") /\ UNCHANGED <<mine, item, outcome, committed>>
      BY <1>2 DEF Repair, SetRows, local, ghosts
    <2>. HIDE DEF spent
    <2>2. NoneCompleted
      <3>1. ASSUME NEW row \in RowSet PROVE Fail(row).status = "failed"
        BY DEF RowSet
      <3>2. ASSUME NEW k \in RowKeys PROVE rows'[k] = rows[k] \/ rows'[k].status = "failed"
        <4>1. rows[k] \in RowSet
          BY DEF IInv, TypeOK, StoreType
        <4>. HIDE DEF Fail
        <4>. QED
          BY <2>1, <3>1, <4>1
      <3>. QED
        BY <3>2 DEF NoneCompleted
    <2>. QED
      BY <2>1, <2>2, SomePlaces, MoveResults DEF OthersRest
  <1>. QED BY <1>1, <1>2

\* A row is taken as it is found: unfinished.
LEMMA NextItemResults ==
  ASSUME IInv, RInv, NEW p \in Runs, NextItem(p)
  PROVE  RInv'
  <1>1. CASE Decide(p, "count")
    BY <1>1, SomePlaces, DecideResults
  <1>2. CASE ~Decide(p, "count")
    <2>1. PICK th \in Actionable(mine[p].id) :
            /\ Take(p, th)
            /\ \/ Goto(p, "skip") /\ UNCHANGED draft
               \/ Put(p, RollOver(mine[p]), FALSE, "allow")
               \/ Goto(p, "allow") /\ UNCHANGED draft
            /\ UNCHANGED <<store, today, scheduler, mine, outcome, ticket, bounds, ghosts>>
      BY <1>2 DEF NextItem
    <2>2. UNCHANGED <<rows, mine, outcome, committed>>
      BY <2>1 DEF store, ghosts
    <2>3. ResultBeforeCompletion'
      BY <2>2 DEF RInv, ResultBeforeCompletion
    <2>4. rows[<<mine[p].id, th>>].status # "completed"
      BY Actionables DEF NextItem, At
    <2>5. ASSUME NEW q \in Runs PROVE ResultInv(q)'
      <3>. USE DEF IInv, TypeOK, ProcessType, RInv, Goto
      <3>1. CASE q # p
        BY <2>1, <2>2, <3>1, ResultStays DEF Take, Put
      <3>2. CASE q = p
        <4>1. pc'[p] \in {"skip", "account", "allow"} /\ draft'[p].then \in {draft[p].then, "allow"}
          BY <2>1 DEF Put
        <4>2. item'[p].row = rows[<<mine[p].id, th>>]
          BY <2>1 DEF Take
        <4>. QED
          BY <2>4, <3>2, <4>1, <4>2 DEF ResultInv, ResultPlaces
      <3>. QED BY <3>1, <3>2
    <2>. QED
      BY <2>3, <2>5 DEF RInv
  <1>. QED BY <1>1, <1>2

LEMMA SkipResults ==
  ASSUME IInv, RInv, NEW p \in Runs, Skip(p)
  PROVE  RInv'
  <1>. DEFINE row == Claimed(p, item[p].row.day)
              it == [item[p] EXCEPT !.day = item[p].row.day]
  <1>1. /\ rows' = [rows EXCEPT ![KeyOf(p)] = row]
        /\ item' = [item EXCEPT ![p] = it]
        /\ outcome' = [outcome EXCEPT ![p] = "skip"] /\ Goto(p, "settle")
        /\ UNCHANGED <<mine, draft, committed>>
    BY DEF Skip, PutRow, ghosts
  <1>2. row.status = "processing" /\ it.row = item[p].row
    BY DEF Claimed, IInv, TypeOK, ProcessType, RowSet
  <1>. HIDE DEF row, it
  <1>3. ResultBeforeCompletion'
    BY <1>1, <1>2 DEF RInv, ResultBeforeCompletion, IInv, TypeOK, StoreType
  <1>4. ASSUME NEW q \in Runs PROVE ResultInv(q)'
    <2>. USE DEF IInv, TypeOK, ProcessType, RInv, Goto
    <2>1. CASE q # p
      BY <1>1, <2>1, ResultStays
    <2>2. CASE q = p
      BY <1>1, <1>2, <2>2 DEF ResultInv
    <2>. QED BY <2>1, <2>2
  <1>. QED
    BY <1>3, <1>4 DEF RInv

LEMMA ClaimResults ==
  ASSUME IInv, RInv, NEW p \in Runs, Claim(p)
  PROVE  RInv'
  <1>1. CASE SaveStatus(p, "waiting", "release")
    BY <1>1, SomePlaces, SaveResults DEF SaveStatus
  <1>2. CASE ~SaveStatus(p, "waiting", "release")
    <2>. DEFINE row == Claimed(p, item[p].day)
                c == [mine[p] EXCEPT !.used = @ + (IF Consumes(p) THEN 1 ELSE 0)]
    <2>1. /\ rows' = [rows EXCEPT ![KeyOf(p)] = row] /\ Put(p, c, FALSE, "guard")
          /\ UNCHANGED <<mine, item, outcome, committed>>
      BY <1>2 DEF Claim, PutRow, local, ghosts
    <2>2. row.status = "processing"
      BY DEF Claimed, IInv, TypeOK, ProcessType, RowSet
    <2>. HIDE DEF row, c
    <2>3. NoneCompleted
      BY <2>1, <2>2 DEF NoneCompleted, IInv, TypeOK, StoreType
    <2>. QED
      BY <2>1, <2>3, SomePlaces, MoveResults DEF OthersRest
  <1>. QED BY <1>1, <1>2

\* A step with an outcome that is not a result, or away from where it counts.
LEMMA OutcomeResults ==
  ASSUME IInv, RInv, NEW p \in Runs, NEW o, NEW place, Outcome(p, o, place), UNCHANGED ghosts,
         o # "ok" \/ place \notin ResultPlaces
  PROVE  RInv'
  <1>1. /\ outcome' = [outcome EXCEPT ![p] = o] /\ Goto(p, place)
        /\ UNCHANGED <<rows, mine, item, draft, committed>>
    BY DEF Outcome, store, ghosts
  <1>2. ResultBeforeCompletion'
    BY <1>1 DEF RInv, ResultBeforeCompletion
  <1>3. ASSUME NEW q \in Runs PROVE ResultInv(q)'
    <2>. USE DEF IInv, TypeOK, ProcessType, RInv, Goto
    <2>1. CASE q # p
      BY <1>1, <2>1, ResultStays
    <2>2. CASE q = p
      BY <1>1, <2>2 DEF ResultInv
    <2>. QED BY <2>1, <2>2
  <1>. QED
    BY <1>2, <1>3 DEF RInv

\* A result goes on to its row.
LEMMA ResultGoesOn ==
  ASSUME IInv, RInv, NEW p \in Runs, pc[p] \in ResultPlaces, NEW place, Decide(p, place)
  PROVE  RInv'
  <1>1. Goto(p, place) /\ UNCHANGED <<rows, outcome, mine, item, draft, committed>>
    BY DEF Decide, store, local, ghosts
  <1>2. ResultBeforeCompletion'
    BY <1>1 DEF RInv, ResultBeforeCompletion
  <1>3. ASSUME NEW q \in Runs PROVE ResultInv(q)'
    <2>. USE DEF IInv, TypeOK, ProcessType, RInv, Goto
    <2>1. CASE q # p
      BY <1>1, <2>1, ResultStays
    <2>2. CASE q = p
      BY <1>1, <2>2 DEF ResultInv, KeyOf
    <2>. QED BY <2>1, <2>2
  <1>. QED
    BY <1>2, <1>3 DEF RInv

LEMMA AfterRequestResults ==
  ASSUME IInv, RInv, NEW p \in Runs, AfterRequest(p)
  PROVE  RInv'
  <1>1. CASE SaveStatus(p, Interrupted(p), "release")
    BY <1>1, SomePlaces, SaveResults DEF SaveStatus
  <1>2. CASE Outcome(p, "skip", "settle") /\ UNCHANGED ghosts
    BY <1>2, OutcomeResults
  <1>3. CASE outcome[p] \in {"deferred", "blocked"} /\ Decide(p, "settle")
    <2>1. Goto(p, "settle") /\ UNCHANGED <<rows, outcome, mine, item, draft, committed>>
      BY <1>3 DEF Decide, store, local, ghosts
    <2>2. ResultBeforeCompletion'
      BY <2>1 DEF RInv, ResultBeforeCompletion
    <2>3. ASSUME NEW q \in Runs PROVE ResultInv(q)'
      <3>. USE DEF IInv, TypeOK, ProcessType, RInv, Goto
      <3>1. CASE q # p
        BY <2>1, <3>1, ResultStays
      <3>2. CASE q = p
        BY <1>3, <2>1, <3>2 DEF ResultInv
      <3>. QED BY <3>1, <3>2
    <2>. QED
      BY <2>2, <2>3 DEF RInv
  <1>4. CASE Decide(p, "commit")
    BY <1>4, SomePlaces, DecideResults
  <1>. QED
    BY <1>1, <1>2, <1>3, <1>4 DEF AfterRequest

LEMMA PutResultResults ==
  ASSUME IInv, RInv, NEW p \in Runs, PutResult(p)
  PROVE  RInv'
  <1>1. CASE Outcome(p, "uncommitted", "committed") /\ UNCHANGED ghosts
    BY <1>1, OutcomeResults
  <1>2. CASE ~(Outcome(p, "uncommitted", "committed") /\ UNCHANGED ghosts)
    <2>1. /\ committed' = committed \cup (IF outcome[p] = "ok" THEN {KeyOf(p)} ELSE {})
          /\ Goto(p, "committed") /\ UNCHANGED <<rows, mine, item, outcome, draft>>
      BY <1>2 DEF PutResult, store, local
    <2>2. ResultBeforeCompletion'
      BY <2>1 DEF RInv, ResultBeforeCompletion
    <2>3. ASSUME NEW q \in Runs PROVE ResultInv(q)'
      <3>. USE DEF IInv, TypeOK, ProcessType, RInv, Goto
      <3>1. CASE q # p
        BY <2>1, <3>1, ResultStays
      <3>2. CASE q = p
        BY <2>1, <3>2 DEF ResultInv, KeyOf
      <3>. QED BY <3>1, <3>2
    <2>. QED
      BY <2>2, <2>3 DEF RInv
  <1>. QED BY <1>1, <1>2

\* Only a check that succeeded completes a row.
LEMMA CompletesOnOk ==
  ASSUME NEW it \in [thread : Threads \cup {Nobody}, row : RowSet, day : 0 .. MaxDay],
         it.row.status # "completed", NEW o, Settlement(it, o).status = "completed"
  PROVE  o = "ok"
  <1>. DEFINE free == [it.row EXCEPT !.attempts = @ + 1, !.day = it.day, !.by = Nobody,
                                     !.live = FALSE, !.due = FALSE]
  <1>1. \A st : [free EXCEPT !.status = st].status = st
    BY DEF RowSet
  <1>2. Settlement(it, o) = CASE o = "skip" -> [free EXCEPT !.status = "skipped"]
        [] o \in {"deferred", "blocked"} -> it.row
        [] o = "uncommitted" -> [free EXCEPT !.status = "retry"]
        [] o = "ok" -> [free EXCEPT !.status = "completed"]
        [] o = "gone" \/ (o = "fail" /\ free.attempts >= scene.attempts)
             -> [free EXCEPT !.status = "failed"]
        [] OTHER -> [free EXCEPT !.status = "retry"]
    BY DEF Settlement
  <1>. HIDE DEF free
  <1>. QED
    BY <1>1, <1>2

LEMMA PutSettlementResults ==
  ASSUME IInv, RInv, NEW p \in Runs, PutSettlement(p)
  PROVE  RInv'
  <1>. DEFINE row == Settlement(item[p], outcome[p])
  <1>1. /\ pc[p] = "settled" /\ rows' = [rows EXCEPT ![KeyOf(p)] = row]
        /\ UNCHANGED <<mine, item, outcome, committed>>
    BY DEF PutSettlement, PutRow, At, local
  <1>2. row.status = "completed" => KeyOf(p) \in committed
    BY <1>1, CompletesOnOk DEF RInv, ResultInv, ResultPlaces, IInv, TypeOK, ProcessType
  <1>. HIDE DEF row
  <1>3. ResultBeforeCompletion'
    BY <1>1, <1>2 DEF RInv, ResultBeforeCompletion, IInv, TypeOK, StoreType
  <1>4. PICK place \in {"loop", "release", "renew"} : \E c, refund : Put(p, c, refund, place)
    BY DEF PutSettlement
  <1>5. ASSUME NEW q \in Runs PROVE ResultInv(q)'
    <2>. USE DEF IInv, TypeOK, ProcessType, RInv, Put, Goto
    <2>1. CASE q # p
      BY <1>1, <1>4, <2>1, ResultStays
    <2>2. CASE q = p
      <3>1. pc'[p] = "account" /\ draft'[p].then = place
        BY <1>4
      <3>. QED
        BY <1>1, <2>2, <3>1 DEF ResultInv, ResultPlaces
    <2>. QED BY <2>1, <2>2
  <1>. QED
    BY <1>3, <1>5 DEF RInv

\* The steps of the worker that only decide, or only write the cycle.
LEMMA PlainWork ==
  ASSUME IInv, RInv, NEW p \in Runs,
         \/ OwnFirst(p) \/ Roll(p) \/ ResumeCycle(p) \/ Loop(p) \/ Count(p) \/ Commit(p)
  PROVE  RInv'
  <1>1. \/ \E place \in {"release", "resume", "next", "put"} : Decide(p, place)
        \/ \E place \in {"recover", "resume", "loop", "release"} : \E c : Save(p, c, place)
    BY DEF OwnFirst, Roll, ResumeCycle, Loop, Count, Commit, SaveStatus
  <1>. QED
    BY <1>1, SomePlaces, DecideResults, SaveResults

LEMMA WorkingResults ==
  ASSUME IInv, RInv, NEW p \in Runs, Working(p)
  PROVE  RInv'
  <1>1. CASE StartWorker(p)
    <2>1. CASE Decide(p, "release")
      BY <2>1, SomePlaces, DecideResults
    <2>2. CASE ~Decide(p, "release")
      <3>1. /\ mine' = [mine EXCEPT ![p] = cycle] /\ Goto(p, "own")
            /\ UNCHANGED <<rows, item, outcome, draft, committed>>
        BY <1>1, <2>2 DEF StartWorker, store, ghosts
      <3>2. OthersRest(p)
        BY <3>1 DEF OthersRest, IInv, TypeOK, ProcessType
      <3>. QED
        BY <3>1, <3>2, SameRows, SomePlaces, MoveResults
    <2>. QED BY <2>1, <2>2
  <1>2. CASE AfterCommit(p) \/ Settle(p)
    <2>1. pc[p] \in ResultPlaces
      BY <1>2 DEF AfterCommit, Settle, At, ResultPlaces
    <2>2. (\E place : Decide(p, place)) \/ (\E c : Save(p, c, "release"))
      BY <1>2 DEF AfterCommit, Settle, SaveStatus
    <2>. QED
      BY <2>1, <2>2, SomePlaces, ResultGoesOn, SaveResults
  <1>3. CASE Renew(p)
    <2>1. CASE Decide(p, "loop")
      BY <2>1, SomePlaces, DecideResults
    <2>2. CASE ~Decide(p, "loop")
      <3>1. Goto(p, "extend") /\ UNCHANGED <<rows, mine, item, outcome, draft, committed>>
        BY <1>3, <2>2 DEF Renew, store, ghosts
      <3>. QED
        BY <3>1, SameRows, SomePlaces, MoveResults DEF OthersRest
    <2>. QED BY <2>1, <2>2
  <1>4. CASE PutLease(p, "extend", "loop")
    <2>1. Goto(p, "loop") /\ UNCHANGED <<rows, mine, item, outcome, draft, committed>>
      BY <1>4 DEF PutLease, ghosts
    <2>. QED
      BY <2>1, SameRows, SomePlaces, MoveResults DEF OthersRest
  <1>. QED
    BY <1>1, <1>2, <1>3, <1>4, PlainWork, RecoverResults, RepairResults, NextItemResults,
       SkipResults, ClaimResults, AfterRequestResults, PutResultResults, PutSettlementResults
    DEF Working

LEMMA AskResults ==
  ASSUME IInv, RInv, NEW p \in Runs, Ask(p)
  PROVE  RInv'
  <1>1. Goto(p, "wait") /\ UNCHANGED <<rows, mine, item, outcome, draft, committed>>
    BY DEF Ask, store, local
  <1>. QED
    BY <1>1, SameRows, SomePlaces, MoveResults DEF OthersRest

-----------------------------
(* Results are safe from time and from the end of a tab.                   *)

LEMMA ClockResults ==
  ASSUME IInv, RInv, UNCHANGED <<pc, local, draft, committed>>, NoneCompleted
  PROVE  RInv'
  BY DEF RInv, ResultBeforeCompletion, NoneCompleted, ResultInv, KeyOf, local

LEMMA TimeResults ==
  ASSUME IInv, RInv,
         \/ NextDay \/ LeaseExpires \/ UNCHANGED vars
         \/ \E k \in RowKeys : ClaimExpires(k) \/ RetryDue(k)
  PROVE  RInv'
  <1>1. CASE NextDay \/ LeaseExpires \/ UNCHANGED vars
    <2>1. UNCHANGED <<rows, pc, local, draft, committed>>
      BY <1>1 DEF NextDay, LeaseExpires, vars, store, ghosts
    <2>. QED BY <2>1, SameRows, ClockResults
  <1>2. CASE \E k \in RowKeys : ClaimExpires(k) \/ RetryDue(k)
    <2>1. PICK k \in RowKeys : ClaimExpires(k) \/ RetryDue(k)
      BY <1>2
    <2>2. UNCHANGED <<pc, local, draft, committed>>
      BY <2>1 DEF ClaimExpires, RetryDue, ghosts
    <2>3. rows[k] \in RowSet /\ rows \in [RowKeys -> RowSet]
      BY DEF IInv, TypeOK, StoreType
    <2>4. \E row : rows' = [rows EXCEPT ![k] = row] /\ row.status = rows[k].status
      <3>1. /\ [rows[k] EXCEPT !.live = FALSE].status = rows[k].status
            /\ [rows[k] EXCEPT !.due = TRUE].status = rows[k].status
        BY <2>3 DEF RowSet
      <3>2. \/ rows' = [rows EXCEPT ![k] = [rows[k] EXCEPT !.live = FALSE]]
            \/ rows' = [rows EXCEPT ![k] = [rows[k] EXCEPT !.due = TRUE]]
        BY <2>1 DEF ClaimExpires, RetryDue
      <3>. QED BY <3>1, <3>2
    <2>5. NoneCompleted
      BY <2>3, <2>4 DEF NoneCompleted
    <2>. QED BY <2>2, <2>5, ClockResults
  <1>. QED BY <1>1, <1>2

LEMMA BlockEndsResults ==
  ASSUME IInv, RInv, BlockEnds
  PROVE  RInv'
  <1>1. /\ UNCHANGED <<rows, pc, item, outcome, committed>>
        /\ mine' = [p \in Runs |-> [mine[p] EXCEPT !.blocked = FALSE]]
        /\ draft' = [p \in Runs |-> [draft[p] EXCEPT !.cycle.blocked = FALSE]]
    BY DEF BlockEnds, ghosts
  <1>2. ResultBeforeCompletion'
    BY <1>1 DEF RInv, ResultBeforeCompletion
  <1>3. ASSUME NEW q \in Runs PROVE ResultInv(q)'
    <2>1. mine'[q].id = mine[q].id
      BY <1>1 DEF IInv, TypeOK, ProcessType, CycleSet
    <2>2. draft'[q].then = draft[q].then
      BY <1>1 DEF IInv, TypeOK, ProcessType
    <2>. QED
      BY <1>1, <2>1, <2>2, ResultStays DEF RInv
  <1>. QED
    BY <1>2, <1>3 DEF RInv

LEMMA CloseTabResults ==
  ASSUME IInv, RInv, NEW t \in Tabs, CloseTab(t)
  PROVE  RInv'
  <1>. DEFINE dead == {p \in Runs : TabOf[p] = t}
  <1>1. /\ rows' = [k \in RowKeys |-> IF rows[k].by = t THEN [rows[k] EXCEPT !.by = Nobody]
                                      ELSE rows[k]]
        /\ pc' = [p \in Runs |-> IF p \in dead THEN "idle" ELSE pc[p]]
        /\ mine' = [p \in Runs |-> IF p \in dead THEN NoCycle ELSE mine[p]]
        /\ item' = [p \in Runs |-> IF p \in dead THEN NoItem ELSE item[p]]
        /\ outcome' = [p \in Runs |-> IF p \in dead THEN "none" ELSE outcome[p]]
        /\ draft' = [p \in Runs |-> IF p \in dead THEN NoDraft ELSE draft[p]]
        /\ committed' = committed
    BY DEF CloseTab, ghosts
  <1>. HIDE DEF dead
  <1>2. ResultBeforeCompletion'
    <2>1. NoneCompleted
      BY <1>1 DEF NoneCompleted, IInv, TypeOK, StoreType, RowSet
    <2>. QED
      BY <1>1, <2>1 DEF RInv, ResultBeforeCompletion, NoneCompleted
  <1>3. ASSUME NEW q \in Runs PROVE ResultInv(q)'
    <2>1. CASE q \in dead
      BY <1>1, <2>1 DEF ResultInv, ResultPlaces, NoItem, NewRow, NoDraft
    <2>2. CASE q \notin dead
      BY <1>1, <2>2, ResultStays DEF RInv
    <2>. QED BY <2>1, <2>2
  <1>. QED
    BY <1>2, <1>3 DEF RInv

LEMMA InitResults == Init => RInv
  BY DEF Init, RInv, ResultBeforeCompletion, ResultInv, ResultPlaces, NewRow, NoItem, NoDraft

LEMMA NextResults == IInv /\ RInv /\ [Next]_vars => RInv'
  <1>. SUFFICES ASSUME IInv, RInv, [Next]_vars PROVE RInv'
    OBVIOUS
  <1>1. ASSUME NEW p \in Runs, Begin(p) \/ Steps(p) \/ Ask(p) PROVE RInv'
    BY <1>1, StartRunResults, AccountResults, WriteResults, SchedulingResults, SnapshotResults,
       WorkingResults, CommandingResults, AskResults DEF Begin, Steps
  <1>2. ASSUME NEW p \in Runs, Defer(p) PROVE RInv'
    BY <1>2, SomePlaces, OutcomeResults DEF Defer
  <1>3. ASSUME NEW p \in Runs, NEW o \in Final \cup {"blocked", "deferred"}, Answer(p, o) PROVE RInv'
    BY <1>3, SomePlaces, OutcomeResults DEF Answer
  <1>4. ASSUME NEW p \in Runs, NEW what \in scene.commands, Command(p, what) PROVE RInv'
    BY <1>4, CommandResults
  <1>5. ASSUME \/ NextDay \/ LeaseExpires \/ UNCHANGED vars
               \/ \E k \in RowKeys : ClaimExpires(k) \/ RetryDue(k)
        PROVE  RInv'
    BY <1>5, TimeResults
  <1>6. ASSUME NEW t \in Tabs, CloseTab(t) PROVE RInv'
    BY <1>6, CloseTabResults
  <1>. QED
    BY <1>1, <1>2, <1>3, <1>4, <1>5, <1>6, BlockEndsResults DEF Next

(* A row is completed only after its result is in the Library, whoever ran,  *)
(* closed, froze, paused, stopped or discarded in between.                   *)
THEOREM ResultsFirst == Spec => []ResultBeforeCompletion
  <1>1. Init => IInv /\ RInv
    BY InitInv, InitResults
  <1>2. IInv /\ RInv /\ [Next]_vars => (IInv /\ RInv)'
    BY NextInv, NextResults
  <1>3. IInv /\ RInv => ResultBeforeCompletion
    BY DEF RInv
  <1>. QED
    BY <1>1, <1>2, <1>3, PTL DEF Spec

-----------------------------
(* One scheduler, and no command beside its runs.                          *)

OneScheduler == \A t, u \in Tabs : t = u

Saving == {"account", "write"}
CommandPlaces == {"stop", "unlease", "stopped", "rerun", "save", "unblock"}
\* Where a process goes on after it has written the cycle.
Thens == {"rows", "counted", "published", "work", "delete", "recover", "roll", "resume",
          "release", "allow", "guard", "loop", "renew"}
\* Where its copy of the cycle is the stored one.
HoldPlaces == MinePlaces \cup {"discard", "delete"}

\* The scheduler knows the run that is active, and nobody interrupts it.
Quiet(p) ==
  /\ ~aborted[p] /\ outcome[p] # "restart" /\ pc[p] \notin CommandPlaces
  /\ pc[p] # "idle" => controller[TabOf[p]] = p
  /\ pc[p] \in Saving => draft[p].then \in Thens
  /\ pc[p] \in HoldPlaces => mine[p] = cycle

Solo == \A p \in Runs : Quiet(p)
Core == IInv /\ scene.asks = 0 /\ Solo

Others(p) == Runs \ {p}

\* Only one run is active.
LEMMA OthersIdle ==
  ASSUME OneScheduler, Core, NEW p \in Runs, pc[p] # "idle"
  PROVE  \A q \in Others(p) : pc[q] = "idle"
  BY LibraryAssumption DEF OneScheduler, Core, Solo, Quiet, Others

\* The active run goes on, and holds the stored cycle where it has to.
LEMMA SoloMoves ==
  ASSUME OneScheduler, Core, NEW p \in Runs, pc[p] # "idle", NEW place, Goto(p, place),
         place \notin CommandPlaces \cup Saving, place \in HoldPlaces => mine'[p] = cycle',
         UNCHANGED <<controller, aborted>>, outcome'[p] # "restart",
         \A q \in Others(p) : outcome'[q] = outcome[q]
  PROVE  Solo'
  <1>1. ASSUME NEW q \in Runs PROVE Quiet(q)'
    <2>1. CASE q # p
      <3>1. pc[q] = "idle" /\ pc'[q] = pc[q] /\ outcome'[q] = outcome[q]
        BY <2>1, OthersIdle DEF Core, IInv, TypeOK, ProcessType, Goto, Others
      <3>. QED
        BY <3>1 DEF Core, Solo, Quiet, Saving, HoldPlaces, MinePlaces
    <2>2. CASE q = p
      BY <2>2 DEF Core, Solo, Quiet, IInv, TypeOK, ProcessType, Goto
    <2>. QED BY <2>1, <2>2
  <1>. QED BY <1>1 DEF Solo

\* It calls putCycle().
LEMMA SoloPuts ==
  ASSUME OneScheduler, Core, NEW p \in Runs, pc[p] # "idle", NEW c, NEW refund,
         NEW place \in Thens, Put(p, c, refund, place),
         UNCHANGED <<controller, aborted, outcome>>
  PROVE  Solo'
  <1>1. ASSUME NEW q \in Runs PROVE Quiet(q)'
    <2>1. CASE q # p
      <3>1. pc[q] = "idle" /\ pc'[q] = pc[q]
        BY <2>1, OthersIdle DEF Core, IInv, TypeOK, ProcessType, Put, Goto, Others
      <3>. QED
        BY <3>1 DEF Core, Solo, Quiet, Saving, HoldPlaces, MinePlaces
    <2>2. CASE q = p
      <3>1. pc'[p] = "account" /\ draft'[p].then = place
        BY DEF Core, IInv, TypeOK, ProcessType, Put, Goto
      <3>. QED
        BY <2>2, <3>1 DEF Core, Solo, Quiet, HoldPlaces, MinePlaces, CommandPlaces
    <2>. QED BY <2>1, <2>2
  <1>. QED BY <1>1 DEF Solo

LEMMA SoloSaves ==
  ASSUME OneScheduler, Core, NEW p \in Runs, pc[p] # "idle", NEW c, NEW place \in Thens,
         Save(p, c, place)
  PROVE  Solo'
  BY SoloPuts DEF Save, scheduler, local

LEMMA SoloDecides ==
  ASSUME OneScheduler, Core, NEW p \in Runs, pc[p] # "idle", NEW place, Decide(p, place),
         place \notin CommandPlaces \cup Saving, place \in HoldPlaces => pc[p] \in HoldPlaces
  PROVE  Solo'
  <1>1. mine' = mine /\ cycle' = cycle
    BY DEF Decide, local, store
  <1>. QED
    BY <1>1, SoloMoves DEF Decide, scheduler, local, Core, Solo, Quiet

LEMMA SoloEnds ==
  ASSUME OneScheduler, Core, NEW p \in Runs, pc[p] # "idle", Finish(p)
  PROVE  Solo'
  <1>1. ASSUME NEW q \in Runs PROVE Quiet(q)'
    <2>1. CASE q # p
      <3>1. pc[q] = "idle" /\ pc'[q] = pc[q]
        BY <2>1, OthersIdle DEF Core, IInv, TypeOK, ProcessType, Finish, Goto, Others
      <3>. QED
        BY <2>1, <3>1 DEF Core, Solo, Quiet, Finish, IInv, TypeOK, SchedulerType, ProcessType, Saving, HoldPlaces, MinePlaces
    <2>2. CASE q = p
      BY <2>2 DEF Core, Quiet, Finish, Goto, IInv, TypeOK, SchedulerType, ProcessType, Saving, HoldPlaces, MinePlaces, CommandPlaces
    <2>. QED BY <2>1, <2>2
  <1>. QED BY <1>1 DEF Solo

LEMMA SoloWrites ==
  ASSUME OneScheduler, Core, NEW p \in Runs, Write(p)
  PROVE  Solo'
  <1>1. pc[p] = "write" /\ draft[p].then \in Thens /\ draft[p].then # "idle"
    BY DEF Write, At, Core, Solo, Quiet, Saving, Thens
  <1>2. /\ Goto(p, draft[p].then) /\ mine' = [mine EXCEPT ![p] = draft[p].cycle]
        /\ cycle' = draft[p].cycle /\ UNCHANGED <<controller, aborted, outcome>>
    BY <1>1 DEF Write, scheduler
  <1>3. mine'[p] = cycle' /\ outcome'[p] # "restart"
    BY <1>2 DEF Core, Solo, Quiet, IInv, TypeOK, ProcessType
  <1>4. draft[p].then \notin CommandPlaces \cup Saving
    BY <1>1 DEF Thens, CommandPlaces, Saving
  <1>. QED
    BY <1>1, <1>2, <1>3, <1>4, SoloMoves

LEMMA SoloScheduling ==
  ASSUME OneScheduler, Core, NEW p \in Runs, Scheduling(p)
  PROVE  Solo'
  <1>. USE DEF Saving, CommandPlaces, HoldPlaces, MinePlaces, Thens
  <1>1. pc[p] # "idle" /\ outcome[p] # "restart"
    BY DEF Scheduling, ReadLease, PutLease, VerifyLease, ReadCycle, Release, Drop, At, Core, Solo, Quiet
  <1>2. CASE ReadLease(p) \/ VerifyLease(p) \/ Release(p) \/ Drop(p)
    <2>1. \/ Finish(p)
          \/ \E place \in {"read", "drop"} : Decide(p, place)
          \/ Goto(p, "claim") /\ UNCHANGED <<controller, aborted, outcome>>
      BY <1>2 DEF ReadLease, VerifyLease, Release, Drop, scheduler
    <2>. QED
      BY <1>1, <2>1, SoloEnds, SoloDecides, SoloMoves
  <1>3. CASE PutLease(p, "claim", "verify")
    <2>1. Goto(p, "verify") /\ UNCHANGED <<controller, aborted, outcome>>
      BY <1>3 DEF PutLease, scheduler
    <2>. QED
      BY <1>1, <2>1, SoloMoves
  <1>4. CASE ReadCycle(p)
    <2>1. \/ \E place \in {"release", "active", "work"} : Decide(p, place)
          \/ Save(p, [cycle EXCEPT !.status = "running"], "work")
      BY <1>4 DEF ReadCycle
    <2>. QED
      BY <1>1, <2>1, SoloDecides, SoloSaves
  <1>. QED
    BY <1>2, <1>3, <1>4 DEF Scheduling

LEMMA SoloDiscards ==
  ASSUME OneScheduler, Core, NEW p \in Runs, pc[p] # "idle", NEW purpose, purpose # "restart",
         Discard(p, purpose), mine'[p] = cycle
  PROVE  Solo'
  <1>1. /\ Goto(p, "discard") /\ outcome' = [outcome EXCEPT ![p] = purpose]
        /\ UNCHANGED <<controller, aborted, cycle>>
    BY DEF Discard, scheduler, store
  <1>2. outcome'[p] = purpose /\ \A q \in Others(p) : outcome'[q] = outcome[q]
    BY <1>1 DEF Core, IInv, TypeOK, ProcessType, Others
  <1>. QED
    BY <1>1, <1>2, SoloMoves DEF CommandPlaces, Saving

LEMMA SoloSnapshot ==
  ASSUME OneScheduler, Core, NEW p \in Runs, Snapshot(p)
  PROVE  Solo'
  <1>. USE DEF Saving, CommandPlaces, HoldPlaces, MinePlaces, Thens
  <1>1. /\ pc[p] # "idle" /\ outcome[p] # "restart" /\ ~aborted[p]
        /\ pc[p] \in HoldPlaces => mine[p] = cycle
    BY DEF Snapshot, DiscardRead, DiscardRows, DiscardMaster, ReadActive, BeginCycle, WriteRows,
      Publish, Schedule, At, Core, Solo, Quiet
  <1>2. CASE DiscardRead(p) \/ Schedule(p)
    <2>1. \/ Decide(p, "release")
          \/ \E place \in {"delete", "work"} : \E c : Save(p, c, place)
      BY <1>1, <1>2 DEF DiscardRead, Schedule
    <2>. QED
      BY <1>1, <2>1, SoloDecides, SoloSaves
  <1>3. CASE DiscardRows(p) \/ DiscardMaster(p)
    <2>1. /\ \E place \in {"forget", "release", "begin"} : Goto(p, place)
          /\ UNCHANGED <<controller, aborted, outcome>>
      BY <1>1, <1>3 DEF DiscardRows, DiscardMaster, scheduler, local
    <2>. QED
      BY <1>1, <2>1, SoloMoves
  <1>4. CASE ReadActive(p)
    <2>1. \/ \E place \in {"release", "begin"} : Decide(p, place)
          \/ mine' = [mine EXCEPT ![p] = cycle] /\ Discard(p, "snapshot")
      BY <1>4 DEF ReadActive
    <2>2. mine' = [mine EXCEPT ![p] = cycle] => mine'[p] = cycle
      BY DEF Core, IInv, TypeOK, ProcessType
    <2>. QED
      BY <1>1, <2>1, <2>2, SoloDecides, SoloDiscards
  <1>5. CASE BeginCycle(p) \/ WriteRows(p)
    <2>1. \/ Decide(p, "release")
          \/ /\ \E place \in {"rows", "counted"} : \E c, refund : Put(p, c, refund, place)
             /\ UNCHANGED <<controller, aborted, outcome>>
      BY <1>1, <1>5 DEF BeginCycle, WriteRows, scheduler, local
    <2>. QED
      BY <1>1, <2>1, SoloDecides, SoloPuts
  <1>6. CASE Publish(p)
    <2>1. (\E c : Save(p, c, "published")) \/ (Discard(p, "cleanup") /\ mine' = mine)
      BY <1>6 DEF Publish
    <2>2. mine[p] = cycle
      BY <1>1, <1>6 DEF Publish, At
    <2>. QED
      BY <1>1, <2>1, <2>2, SoloSaves, SoloDiscards
  <1>. QED
    BY <1>2, <1>3, <1>4, <1>5, <1>6 DEF Snapshot

\* Every place of the worker after the first holds the stored cycle.
LEMMA SoloWorking ==
  ASSUME OneScheduler, Core, NEW p \in Runs, Working(p)
  PROVE  Solo'
  <1>. USE DEF Saving, CommandPlaces, Thens
  <1>0. {"own", "recover", "repair", "roll", "resume", "loop", "next", "count", "skip", "allow",
         "guard", "wait", "after", "commit", "put", "committed", "settle", "settled", "renew",
         "extend"} \subseteq HoldPlaces
    BY DEF HoldPlaces, MinePlaces
  <1>1. /\ outcome[p] # "restart"
        /\ pc[p] \in HoldPlaces => mine[p] = cycle
        /\ outcome \in [Runs -> Outcomes]
    BY DEF Core, Solo, Quiet, IInv, TypeOK, ProcessType
  <1>2. CASE StartWorker(p)
    <2>1. \/ Decide(p, "release")
          \/ /\ mine' = [mine EXCEPT ![p] = cycle] /\ Goto(p, "own")
             /\ UNCHANGED <<controller, aborted, outcome, cycle>>
      BY <1>2 DEF StartWorker, scheduler, store
    <2>2. mine' = [mine EXCEPT ![p] = cycle] => mine'[p] = cycle
      BY DEF Core, IInv, TypeOK, ProcessType
    <2>3. pc[p] # "idle" /\ "release" \notin HoldPlaces
      BY <1>2 DEF StartWorker, At, HoldPlaces, MinePlaces
    <2>. QED
      BY <1>1, <2>1, <2>2, <2>3, SoloDecides, SoloMoves
  <1>3. CASE Working(p) /\ ~StartWorker(p)
    <2>0. pc[p] # "idle" /\ pc[p] \in HoldPlaces /\ mine[p] = cycle
      BY <1>0, <1>1, <1>3 DEF Working, OwnFirst, Recover, Repair, Roll, ResumeCycle, Loop, NextItem,
        Count, Skip, Claim, AfterRequest, Commit, PutResult, AfterCommit, Settle,
        PutSettlement, Renew, PutLease, At
    <2>1. CASE \/ OwnFirst(p) \/ Roll(p) \/ ResumeCycle(p) \/ Loop(p) \/ Count(p) \/ Commit(p)
               \/ AfterCommit(p) \/ Settle(p)
      <3>1. \/ \E place \in {"release", "resume", "next", "put", "settle", "settled"} : Decide(p, place)
            \/ \E place \in {"recover", "resume", "loop", "release"} : \E c : Save(p, c, place)
        BY <2>1 DEF OwnFirst, Roll, ResumeCycle, Loop, Count, Commit, AfterCommit, Settle, SaveStatus
      <3>. QED
        BY <2>0, <3>1, SoloDecides, SoloSaves
    <2>2. CASE Recover(p) \/ PutLease(p, "extend", "loop")
      <3>1. /\ \E place \in {"repair", "loop"} : Goto(p, place)
            /\ UNCHANGED <<controller, aborted, outcome, mine, cycle>>
        BY <2>2 DEF Recover, PutLease, scheduler, local
      <3>. QED
        BY <1>1, <2>0, <3>1, SoloMoves
    <2>3. CASE Repair(p)
      <3>1. \/ \E place \in {"release", "roll"} : Decide(p, place)
            \/ /\ \E c, refund : Put(p, c, refund, "roll")
               /\ UNCHANGED <<controller, aborted, outcome>>
        BY <2>3 DEF Repair, scheduler, local
      <3>. QED
        BY <2>0, <3>1, SoloDecides, SoloPuts
    <2>4. CASE NextItem(p)
      <3>1. \/ Decide(p, "count")
            \/ /\ \/ \E place \in {"skip", "allow"} : Goto(p, place)
                  \/ \E c, refund : Put(p, c, refund, "allow")
               /\ UNCHANGED <<controller, aborted, outcome, mine, cycle>>
        BY <2>4 DEF NextItem, scheduler, store
      <3>. QED
        BY <1>1, <2>0, <3>1, SoloDecides, SoloPuts, SoloMoves
    <2>5. CASE Skip(p)
      <3>1. /\ outcome' = [outcome EXCEPT ![p] = "skip"] /\ Goto(p, "settle")
            /\ UNCHANGED <<controller, aborted, mine, cycle>>
        BY <2>5 DEF Skip, scheduler
      <3>2. outcome'[p] = "skip" /\ \A q \in Others(p) : outcome'[q] = outcome[q]
        BY <1>1, <3>1 DEF Others
      <3>. QED
        BY <2>0, <3>1, <3>2, SoloMoves
    <2>6. CASE Claim(p)
      <3>1. \/ \E c : Save(p, c, "release")
            \/ /\ \E c, refund : Put(p, c, refund, "guard")
               /\ UNCHANGED <<controller, aborted, outcome>>
        BY <2>6 DEF Claim, scheduler, local, SaveStatus
      <3>. QED
        BY <2>0, <3>1, SoloSaves, SoloPuts
    <2>7. CASE AfterRequest(p) \/ PutResult(p)
      <3>1. \/ \E c : Save(p, c, "release")
            \/ \E place \in {"settle", "commit"} : Decide(p, place)
            \/ /\ \E place \in {"settle", "committed"} : Goto(p, place)
               /\ outcome' = outcome \/ \E o \in {"skip", "uncommitted"} : outcome' = [outcome EXCEPT ![p] = o]
               /\ UNCHANGED <<controller, aborted, mine, cycle>>
        BY <2>7 DEF AfterRequest, PutResult, Outcome, SaveStatus, scheduler, local, store
      <3>2. ASSUME outcome' = outcome \/ \E o \in {"skip", "uncommitted"} : outcome' = [outcome EXCEPT ![p] = o]
            PROVE  outcome'[p] # "restart" /\ \A q \in Others(p) : outcome'[q] = outcome[q]
        BY <1>1, <3>2 DEF Others
      <3>. QED
        BY <2>0, <3>1, <3>2, SoloSaves, SoloDecides, SoloMoves
    <2>8. CASE PutSettlement(p)
      <3>1. /\ \E place \in {"loop", "release", "renew"} : \E c, refund : Put(p, c, refund, place)
            /\ UNCHANGED <<controller, aborted, outcome>>
        BY <2>8 DEF PutSettlement, scheduler, local
      <3>. QED
        BY <2>0, <3>1, SoloPuts
    <2>9. CASE Renew(p)
      <3>1. \/ Decide(p, "loop")
            \/ Goto(p, "extend") /\ UNCHANGED <<controller, aborted, outcome, mine, cycle>>
        BY <2>9 DEF Renew, scheduler, store
      <3>. QED
        BY <1>1, <2>0, <3>1, SoloDecides, SoloMoves
    <2>. QED
      BY <1>3, <2>1, <2>2, <2>3, <2>4, <2>5, <2>6, <2>7, <2>8, <2>9 DEF Working
  <1>. QED
    BY <1>2, <1>3

LEMMA SoloAccounts ==
  ASSUME OneScheduler, Core, NEW p \in Runs, Account(p)
  PROVE  Solo'
  <1>. DEFINE d == [draft[p] EXCEPT !.cycle = Accounted(draft[p].cycle, draft[p].refund)]
  <1>1. /\ pc[p] = "account" /\ Goto(p, "write") /\ draft' = [draft EXCEPT ![p] = d]
        /\ UNCHANGED <<controller, aborted, outcome>>
    BY DEF Account, At, scheduler, local
  <1>2. d.then = draft[p].then
    BY DEF Core, IInv, TypeOK, ProcessType
  <1>. HIDE DEF d
  <1>3. ASSUME NEW q \in Runs PROVE Quiet(q)'
    <2>1. CASE q # p
      <3>1. pc[q] = "idle" /\ pc'[q] = pc[q]
        BY <1>1, <2>1, OthersIdle DEF Core, IInv, TypeOK, ProcessType, Goto, Others
      <3>. QED
        BY <1>1, <3>1 DEF Core, Solo, Quiet, Saving, HoldPlaces, MinePlaces
    <2>2. CASE q = p
      <3>1. pc'[p] = "write" /\ draft'[p].then = draft[p].then
        BY <1>1, <1>2 DEF Core, IInv, TypeOK, ProcessType, Goto
      <3>. QED
        BY <1>1, <2>2, <3>1 DEF Core, Solo, Quiet, Saving, HoldPlaces, MinePlaces, CommandPlaces
    <2>. QED BY <2>1, <2>2
  <1>. QED BY <1>3 DEF Solo

LEMMA SoloBegins ==
  ASSUME OneScheduler, Core, NEW p \in Runs, Begin(p)
  PROVE  Solo'
  <1>1. \A q \in Runs : pc[q] = "idle"
    BY LibraryAssumption DEF Begin, StartRun, OneScheduler, Core, Solo, Quiet
  <1>2. /\ controller' = [controller EXCEPT ![TabOf[p]] = p]
        /\ outcome' = [outcome EXCEPT ![p] = "none"] /\ Goto(p, "lease") /\ aborted' = aborted
    BY DEF Begin, StartRun
  <1>3. ASSUME NEW q \in Runs PROVE Quiet(q)'
    BY <1>1, <1>2, <1>3, LibraryAssumption DEF Core, Solo, Quiet, Goto, IInv, TypeOK,
      ProcessType, SchedulerType, Saving, HoldPlaces, MinePlaces, CommandPlaces
  <1>. QED BY <1>3 DEF Solo

\* Asking, being put off and being answered only lead on.
LEMMA SoloAsks ==
  ASSUME OneScheduler, Core, NEW p \in Runs,
         Ask(p) \/ Defer(p) \/ \E o \in Final \cup {"blocked", "deferred"} : Answer(p, o)
  PROVE  Solo'
  <1>1. /\ pc[p] \in {"guard", "wait"} /\ UNCHANGED <<controller, aborted, mine, cycle>>
        /\ \E place \in {"wait", "after"} : Goto(p, place)
        /\ \/ outcome' = outcome
           \/ \E o \in Final \cup {"blocked", "deferred"} : outcome' = [outcome EXCEPT ![p] = o]
    BY DEF Ask, Defer, Answer, Outcome, At, scheduler, local, store
  <1>2. mine'[p] = cycle' /\ outcome'[p] # "restart" /\ \A q \in Others(p) : outcome'[q] = outcome[q]
    BY <1>1 DEF Core, Solo, Quiet, HoldPlaces, MinePlaces, Others, Final, IInv, TypeOK, ProcessType
  <1>. QED
    BY <1>1, <1>2, SoloMoves DEF Saving, CommandPlaces

LEMMA NoCommands ==
  ASSUME Core, NEW p \in Runs
  PROVE  ~Commanding(p) /\ \A what : ~Command(p, what)
  <1>1. ~(commands < scene.asks)
    BY DEF Core, IInv, TypeOK, BoundType
  <1>2. \A what : ~Command(p, what)
    BY <1>1 DEF Command
  <1>3. ~Commanding(p)
    BY DEF Core, Solo, Quiet, CommandPlaces, Commanding, StopLease, DeleteLease, Stopped, Rerun,
      SaveSettings, Unblock, At
  <1>. QED BY <1>2, <1>3

\* Time changes no process.
LEMMA SoloTime ==
  ASSUME OneScheduler, Core,
         \/ NextDay \/ LeaseExpires \/ UNCHANGED vars
         \/ \E k \in RowKeys : ClaimExpires(k) \/ RetryDue(k)
  PROVE  Solo'
  <1>1. UNCHANGED <<controller, aborted, outcome, pc, draft, mine, cycle>>
    BY DEF NextDay, LeaseExpires, vars, ClaimExpires, RetryDue, store, scheduler, local
  <1>. QED
    BY <1>1 DEF Core, Solo, Quiet

LEMMA SoloUnblocks ==
  ASSUME OneScheduler, Core, BlockEnds
  PROVE  Solo'
  <1>1. /\ UNCHANGED <<controller, aborted, outcome, pc>>
        /\ mine' = [p \in Runs |-> [mine[p] EXCEPT !.blocked = FALSE]]
        /\ draft' = [p \in Runs |-> [draft[p] EXCEPT !.cycle.blocked = FALSE]]
        /\ cycle' = [cycle EXCEPT !.blocked = FALSE]
    BY DEF BlockEnds, scheduler
  <1>2. ASSUME NEW q \in Runs PROVE Quiet(q)'
    <2>1. draft'[q].then = draft[q].then
      BY <1>1 DEF Core, IInv, TypeOK, ProcessType
    <2>2. mine[q] = cycle => mine'[q] = cycle'
      BY <1>1
    <2>. QED
      BY <1>1, <2>1, <2>2 DEF Core, Solo, Quiet
  <1>. QED BY <1>2 DEF Solo

LEMMA SoloCloses ==
  ASSUME OneScheduler, Core, NEW t \in Tabs, CloseTab(t)
  PROVE  Solo' /\ \A p \in Runs : pc'[p] = "idle"
  <1>1. \A p \in Runs : TabOf[p] = t
    BY LibraryAssumption DEF OneScheduler
  <1>2. \A p \in Runs : pc'[p] = "idle" /\ aborted'[p] = FALSE /\ outcome'[p] = "none"
    BY <1>1 DEF CloseTab
  <1>. QED
    BY <1>2 DEF Solo, Quiet, Saving, HoldPlaces, MinePlaces, CommandPlaces

\* A behaviour keeps its scene.
LEMMA SceneStays == IInv /\ [Next]_vars => scene' = scene
  <1>. USE DEF store, local, scheduler, ghosts, bounds
  <1>1. ASSUME NEW p \in Runs, Steps(p) PROVE scene' = scene
    BY <1>1 DEF Steps, Scheduling, Snapshot, Working, Commanding, Account, Write, ReadLease, PutLease,
      VerifyLease, ReadCycle, Release, Drop, Decide, Save, SaveStatus, DiscardRead, DiscardRows, DiscardMaster,
      ReadActive, Discard, BeginCycle, WriteRows, Publish, Schedule, StartWorker, OwnFirst, Recover, Repair, Roll,
      ResumeCycle, Loop, NextItem, Count, Skip, Claim, AfterRequest, Outcome, Commit, PutResult, AfterCommit,
      Settle, PutSettlement, Renew, StopLease, DeleteLease, Stopped, Rerun, StartRun, SaveSettings, Unblock
  <1>. QED
    BY <1>1 DEF Next, Begin, StartRun, Ask, Defer, Answer, Outcome, Command, NextDay, LeaseExpires,
      BlockEnds, ClaimExpires, RetryDue, CloseTab, vars

LEMMA SoloNext ==
  ASSUME OneScheduler, Core, [Next]_vars
  PROVE  Core'
  <1>1. ASSUME NEW p \in Runs, Steps(p) PROVE Solo'
    BY <1>1, SoloAccounts, SoloWrites, SoloScheduling, SoloSnapshot, SoloWorking, NoCommands DEF Steps
  <1>2. Solo'
    BY <1>1, SoloBegins, SoloAsks, NoCommands, SoloTime, SoloUnblocks, SoloCloses DEF Next
  <1>. QED
    BY <1>2, SceneStays, NextInv DEF Core

-----------------------------
(* Cycles are whole.                                                       *)

LivePlaces == MinePlaces \ {"rows", "counted"}
LoopPlaces == ItemPlaces \cup {"roll", "resume", "loop", "next", "count", "renew", "extend"}
Live == {"running", "recovering", "waiting", "paused"}

\* What a process is about to do, and with which cycle.
Going(p) == IF pc[p] \in Saving THEN draft[p].then ELSE pc[p]
Hand(p) == IF pc[p] \in Saving THEN draft[p].cycle ELSE cycle

With(rs, id, statuses) == {th \in Threads : rs[<<id, th>>].status \in statuses}

\* The rows rs of cycle c are what its status says.
Whole(rs, c) ==
  /\ c.status \in Live => Cardinality(With(rs, c.id, Unfinished \cup Finished)) = c.total
  /\ c.status = "completed" => With(rs, c.id, Unfinished) = {}

\* The rows rs have been tried at most n times, and can be claimed once more if new.
Tried(rs, n) ==
  \A k \in RowKeys :
    /\ rs[k].attempts <= n
    /\ rs[k].status = "pending" => rs[k].attempts < n

\* A process with the item it can go on at place with the cycle c.
Ready(rs, it, n, place, c) ==
  /\ place \in {"rows", "counted"} => c.status = "preparing"
  /\ place \in {"discard", "delete"} => c.status \in {"preparing", "completed"}
  /\ place \in LivePlaces \cup {"work"} => c.status \in Live
  /\ place \in ItemPlaces =>
       /\ rs[<<c.id, it.thread>>].status # "absent"
       /\ it.row.status \in {"pending", "retry"}
       /\ it.row.attempts < n
  /\ place \in LoopPlaces =>
       \A th \in Threads : (rs[<<c.id, th>>].status = "retry" => rs[<<c.id, th>>].attempts < n)

Fine(p) ==
  Whole(rows, Hand(p)) /\ Ready(rows, item[p], scene.attempts, Going(p), Hand(p))

WInv == Whole(rows, cycle) /\ Tried(rows, scene.attempts) /\ \A p \in Runs : Fine(p)

LEMMA Attempts == IInv => scene.attempts \in Nat \ {0}
  BY LibraryAssumption DEF IInv, TypeOK, BoundType

\* Nothing is asked of a process anywhere else.
LEMMA Elsewhere ==
  ASSUME NEW rs, NEW it, NEW n, NEW place, place \notin HoldPlaces \cup {"work"}, NEW c
  PROVE  Ready(rs, it, n, place, c)
  BY DEF Ready, HoldPlaces, LivePlaces, LoopPlaces, ItemPlaces, MinePlaces

\* Only the number, the status and the total of a cycle matter.
LEMMA SameCycle ==
  ASSUME NEW c, NEW d, c.id = d.id, c.status = d.status, c.total = d.total, NEW rs
  PROVE  /\ Whole(rs, c) => Whole(rs, d)
         /\ \A it, n, place : Ready(rs, it, n, place, c) => Ready(rs, it, n, place, d)
  BY DEF Whole, Ready

LEMMA LiveStays ==
  ASSUME NEW c, NEW d, c.id = d.id, c.status \in Live, d.status \in Live, c.total = d.total,
         NEW rs, Whole(rs, c)
  PROVE  Whole(rs, d)
  BY DEF Whole, Live

\* The active process goes on to a place.
LEMMA WholeMoves ==
  ASSUME OneScheduler, Core, NEW p \in Runs, pc[p] # "idle", NEW place, place \notin Saving,
         Goto(p, place), scene' = scene, Whole(rows', cycle'), Tried(rows', scene.attempts),
         Ready(rows', item'[p], scene.attempts, place, cycle')
  PROVE  WInv'
  <1>1. ASSUME NEW q \in Runs PROVE Fine(q)'
    <2>1. CASE q # p
      <3>1. pc'[q] = "idle"
        BY <2>1, OthersIdle DEF Core, IInv, TypeOK, ProcessType, Goto, Others
      <3>2. Going(q)' = "idle" /\ Hand(q)' = cycle'
        BY <3>1 DEF Going, Hand, Saving
      <3>3. "idle" \notin HoldPlaces \cup {"work"}
        BY DEF HoldPlaces, MinePlaces
      <3>4. Ready(rows', item'[q], scene'.attempts, "idle", cycle')
        BY <3>3, Elsewhere
      <3>. QED
        BY <3>2, <3>4 DEF Fine
    <2>2. CASE q = p
      <3>1. pc'[p] = place
        BY DEF Core, IInv, TypeOK, ProcessType, Goto
      <3>2. Going(p)' = place /\ Hand(p)' = cycle'
        BY <3>1 DEF Going, Hand
      <3>. QED
        BY <2>2, <3>2 DEF Fine
    <2>. QED BY <2>1, <2>2
  <1>. QED BY <1>1 DEF WInv

\* It calls putCycle() with c.
LEMMA WholePuts ==
  ASSUME OneScheduler, Core, NEW p \in Runs, pc[p] # "idle", NEW c, NEW refund, NEW place,
         Put(p, c, refund, place), scene' = scene, cycle' = cycle,
         Whole(rows', cycle), Whole(rows', c), Tried(rows', scene.attempts),
         Ready(rows', item'[p], scene.attempts, place, c)
  PROVE  WInv'
  <1>1. ASSUME NEW q \in Runs PROVE Fine(q)'
    <2>1. CASE q # p
      <3>1. pc'[q] = "idle"
        BY <2>1, OthersIdle DEF Core, IInv, TypeOK, ProcessType, Put, Goto, Others
      <3>2. Going(q)' = "idle" /\ Hand(q)' = cycle'
        BY <3>1 DEF Going, Hand, Saving
      <3>3. "idle" \notin HoldPlaces \cup {"work"}
        BY DEF HoldPlaces, MinePlaces
      <3>4. Ready(rows', item'[q], scene'.attempts, "idle", cycle')
        BY <3>3, Elsewhere
      <3>. QED
        BY <3>2, <3>4 DEF Fine
    <2>2. CASE q = p
      <3>1. pc'[p] = "account" /\ draft'[p].then = place /\ draft'[p].cycle = c
        BY DEF Core, IInv, TypeOK, ProcessType, Put, Goto
      <3>2. Going(p)' = place /\ Hand(p)' = c
        BY <3>1 DEF Going, Hand, Saving
      <3>. QED
        BY <2>2, <3>2 DEF Fine
    <2>. QED BY <2>1, <2>2
  <1>. QED BY <1>1 DEF WInv

\* What holds of the process that is not writing the cycle.
LEMMA Here ==
  ASSUME Core, WInv, NEW p \in Runs, pc[p] \notin Saving
  PROVE  /\ Whole(rows, cycle) /\ Tried(rows, scene.attempts)
         /\ Ready(rows, item[p], scene.attempts, pc[p], cycle)
         /\ pc[p] \in HoldPlaces => mine[p] = cycle
  BY DEF Core, Solo, Quiet, WInv, Fine, Going, Hand

LEMMA WholeSaves ==
  ASSUME OneScheduler, Core, WInv, NEW p \in Runs, pc[p] # "idle", NEW c, NEW place,
         Save(p, c, place), Whole(rows, c), Ready(rows, item[p], scene.attempts, place, c)
  PROVE  WInv'
  <1>1. Put(p, c, FALSE, place) /\ UNCHANGED <<rows, cycle, item, scene>>
    BY DEF Save, store, local, bounds
  <1>. QED
    BY <1>1, WholePuts DEF WInv

LEMMA WholeDecides ==
  ASSUME OneScheduler, Core, WInv, NEW p \in Runs, pc[p] # "idle", NEW place,
         place \notin Saving, Decide(p, place), Ready(rows, item[p], scene.attempts, place, cycle)
  PROVE  WInv'
  <1>1. Goto(p, place) /\ UNCHANGED <<rows, cycle, item, scene>>
    BY DEF Decide, store, local, bounds
  <1>. QED
    BY <1>1, WholeMoves DEF WInv

LEMMA WholeEnds ==
  ASSUME OneScheduler, Core, WInv, NEW p \in Runs, pc[p] # "idle", Finish(p),
         UNCHANGED <<rows, cycle, scene>>
  PROVE  WInv'
  <1>1. Ready(rows, item'[p], scene.attempts, "idle", cycle)
    BY Elsewhere DEF HoldPlaces, MinePlaces
  <1>. QED
    BY <1>1, WholeMoves DEF WInv, Finish, Saving

LEMMA WholeAccounts ==
  ASSUME OneScheduler, Core, WInv, NEW p \in Runs, Account(p)
  PROVE  WInv'
  <1>. DEFINE c == Accounted(draft[p].cycle, draft[p].refund)
              d == [draft[p] EXCEPT !.cycle = c]
  <1>1. /\ pc[p] = "account" /\ Goto(p, "write") /\ draft' = [draft EXCEPT ![p] = d]
        /\ UNCHANGED <<rows, cycle, item, scene>>
    BY DEF Account, At, store, local, bounds
  <1>2. c.id = draft[p].cycle.id /\ c.status = draft[p].cycle.status /\ c.total = draft[p].cycle.total
    BY DEF Accounted, Core, IInv, TypeOK, ProcessType, CycleSet
  <1>3. d.cycle = c /\ d.then = draft[p].then
    BY DEF Core, IInv, TypeOK, ProcessType
  <1>. HIDE DEF c, d
  <1>4. Whole(rows, draft[p].cycle) /\ Ready(rows, item[p], scene.attempts, draft[p].then, draft[p].cycle)
    BY <1>1 DEF WInv, Fine, Going, Hand, Saving
  <1>5. Whole(rows, c) /\ Ready(rows, item[p], scene.attempts, draft[p].then, c)
    BY <1>2, <1>4, SameCycle
  <1>6. ASSUME NEW q \in Runs PROVE Fine(q)'
    <2>1. CASE q # p
      <3>1. pc'[q] = pc[q] /\ draft'[q] = draft[q]
        BY <1>1, <2>1 DEF Core, IInv, TypeOK, ProcessType, Goto
      <3>2. Going(q)' = Going(q) /\ Hand(q)' = Hand(q)
        BY <1>1, <3>1 DEF Going, Hand
      <3>. QED
        BY <1>1, <3>2 DEF WInv, Fine
    <2>2. CASE q = p
      <3>1. pc'[p] = "write" /\ draft'[p] = d
        BY <1>1 DEF Core, IInv, TypeOK, ProcessType, Goto
      <3>2. Going(p)' = draft[p].then /\ Hand(p)' = c
        BY <1>3, <3>1 DEF Going, Hand, Saving
      <3>. QED
        BY <1>1, <1>5, <2>2, <3>2 DEF Fine
    <2>. QED BY <2>1, <2>2
  <1>. QED BY <1>1, <1>6 DEF WInv

LEMMA WholeWrites ==
  ASSUME OneScheduler, Core, WInv, NEW p \in Runs, Write(p)
  PROVE  WInv'
  <1>1. pc[p] = "write" /\ draft[p].then \in Thens /\ draft[p].then # "idle"
    BY DEF Write, At, Core, Solo, Quiet, Saving, Thens
  <1>2. Goto(p, draft[p].then) /\ cycle' = draft[p].cycle /\ UNCHANGED <<rows, item, scene>>
    BY <1>1 DEF Write, bounds
  <1>3. Whole(rows, draft[p].cycle) /\ Ready(rows, item[p], scene.attempts, draft[p].then, draft[p].cycle)
    BY <1>1 DEF WInv, Fine, Going, Hand, Saving
  <1>4. draft[p].then \notin Saving
    BY <1>1 DEF Thens, Saving
  <1>. QED
    BY <1>1, <1>2, <1>3, <1>4, WholeMoves DEF WInv

LEMMA WholeScheduling ==
  ASSUME OneScheduler, Core, WInv, NEW p \in Runs, Scheduling(p)
  PROVE  WInv'
  <1>. USE DEF Saving
  <1>0. ASSUME NEW rs, NEW it, NEW n, NEW c,
               NEW place \in {"claim", "verify", "read", "drop", "release", "active", "idle"}
        PROVE  Ready(rs, it, n, place, c)
    BY Elsewhere DEF HoldPlaces, MinePlaces
  <1>1. pc[p] # "idle"
    BY DEF Scheduling, ReadLease, PutLease, VerifyLease, ReadCycle, Release, Drop, At
  <1>2. CASE ReadLease(p) \/ VerifyLease(p) \/ Release(p) \/ Drop(p)
    <2>1. \/ Finish(p) /\ UNCHANGED <<rows, cycle, scene>>
          \/ \E place \in {"read", "drop"} : Decide(p, place)
          \/ Goto(p, "claim") /\ UNCHANGED <<rows, cycle, item, scene>>
      BY <1>2 DEF ReadLease, VerifyLease, Release, Drop, store, bounds
    <2>. QED
      BY <1>0, <1>1, <2>1, WholeEnds, WholeDecides, WholeMoves DEF WInv
  <1>3. CASE PutLease(p, "claim", "verify")
    <2>1. Goto(p, "verify") /\ UNCHANGED <<rows, cycle, item, scene>>
      BY <1>3 DEF PutLease, bounds
    <2>. QED
      BY <1>0, <1>1, <2>1, WholeMoves DEF WInv
  <1>4. CASE ReadCycle(p)
    <2>. DEFINE c == [cycle EXCEPT !.status = "running"]
    <2>1. CASE cycle.status = "paused" /\ Save(p, c, "work")
      <3>1. c.id = cycle.id /\ c.status = "running" /\ c.total = cycle.total
        BY DEF Core, IInv, TypeOK, StoreType, CycleSet
      <3>2. Whole(rows, c)
        BY <2>1, <3>1, LiveStays DEF WInv, Live
      <3>3. Ready(rows, item[p], scene.attempts, "work", c)
        BY <3>1 DEF Ready, LivePlaces, LoopPlaces, ItemPlaces, Live
      <3>. HIDE DEF c
      <3>. QED
        BY <1>1, <2>1, <3>2, <3>3, WholeSaves
    <2>2. CASE \E place \in {"release", "active"} : Decide(p, place)
      BY <1>0, <1>1, <2>2, WholeDecides
    <2>3. CASE cycle.status \in {"running", "recovering", "waiting"} /\ Decide(p, "work")
      <3>1. Ready(rows, item[p], scene.attempts, "work", cycle)
        BY <2>3 DEF Ready, LivePlaces, LoopPlaces, ItemPlaces, Live
      <3>. QED
        BY <1>1, <2>3, <3>1, WholeDecides
    <2>. QED
      BY <1>4, <2>1, <2>2, <2>3 DEF ReadCycle
  <1>. QED
    BY <1>2, <1>3, <1>4 DEF Scheduling

LEMMA WholeDiscards ==
  ASSUME OneScheduler, Core, WInv, NEW p \in Runs, pc[p] # "idle", NEW purpose,
         Discard(p, purpose), cycle.status \in {"preparing", "completed"}
  PROVE  WInv'
  <1>1. Goto(p, "discard") /\ UNCHANGED <<rows, cycle, item, scene>>
    BY DEF Discard, store, bounds
  <1>2. Ready(rows, item[p], scene.attempts, "discard", cycle)
    BY DEF Ready, LivePlaces, LoopPlaces, ItemPlaces, MinePlaces
  <1>. QED
    BY <1>1, <1>2, WholeMoves DEF WInv, Saving

LEMMA WholeDiscardRows ==
  ASSUME OneScheduler, Core, WInv, NEW p \in Runs, DiscardRows(p)
  PROVE  WInv'
  <1>. DEFINE id == mine[p].id
              absent == NewRow("absent")
  <1>1. /\ pc[p] = "delete" /\ Goto(p, "forget") /\ UNCHANGED <<cycle, item, scene>>
        /\ rows' = [k \in RowKeys |-> IF k[1] = id THEN absent ELSE rows[k]]
    BY DEF DiscardRows, At, local, bounds
  <1>2. absent.status = "absent" /\ absent.attempts = 0
    BY DEF NewRow
  <1>3. mine[p] = cycle /\ Ready(rows, item[p], scene.attempts, "delete", cycle)
    BY <1>1, Here DEF Saving, HoldPlaces
  <1>4. cycle.status \in {"preparing", "completed"} /\ id = cycle.id
    BY <1>3 DEF Ready
  <1>5. cycle.id \in Cycles
    BY <1>4 DEF Core, IInv, TypeOK, StoreType, CycleSet, Real, Cycles
  <1>. HIDE DEF id, absent
  <1>6. Whole(rows', cycle')
    <2>1. With(rows', cycle.id, Unfinished) = {}
      BY <1>1, <1>2, <1>4, <1>5 DEF With, RowKeys, Unfinished
    <2>. QED
      BY <1>1, <1>4, <2>1 DEF Whole, Live
  <1>7. Tried(rows', scene.attempts)
    BY <1>1, <1>2, Attempts DEF Core, WInv, Tried
  <1>8. Ready(rows', item'[p], scene.attempts, "forget", cycle')
    BY Elsewhere DEF HoldPlaces, MinePlaces
  <1>. QED
    BY <1>1, <1>6, <1>7, <1>8, WholeMoves DEF Saving

LEMMA WholeWriteRows ==
  ASSUME OneScheduler, Core, WInv, NEW p \in Runs, WriteRows(p)
  PROVE  WInv'
  <1>. DEFINE id == mine[p].id
              fresh == NewRow("pending")
  <1>1. pc[p] = "rows" /\ ~aborted[p]
    BY DEF WriteRows, At, Core, Solo, Quiet
  <1>2. PICK enabled \in SUBSET scene.threads :
          /\ rows' = [k \in RowKeys |-> IF k \in {id} \X enabled THEN fresh ELSE rows[k]]
          /\ Put(p, Fresh(id, "preparing", Cardinality(enabled)), FALSE, "counted")
    BY <1>1 DEF WriteRows
  <1>3. UNCHANGED <<cycle, item, scene>>
    BY <1>1 DEF WriteRows, local, bounds
  <1>. DEFINE c == Fresh(id, "preparing", Cardinality(enabled))
  <1>4. c.status = "preparing"
    BY DEF Fresh
  <1>5. fresh.status = "pending" /\ fresh.attempts = 0
    BY DEF NewRow
  <1>6. cycle.status = "preparing"
    BY <1>1, Here DEF Saving, Ready
  <1>. HIDE DEF c, id, fresh
  <1>7. Whole(rows', cycle) /\ Whole(rows', c)
    BY <1>4, <1>6 DEF Whole, Live
  <1>8. Tried(rows', scene.attempts)
    BY <1>2, <1>5, Attempts DEF Core, WInv, Tried
  <1>9. Ready(rows', item'[p], scene.attempts, "counted", c)
    BY <1>4 DEF Ready, LivePlaces, LoopPlaces, ItemPlaces
  <1>10. Put(p, c, FALSE, "counted")
    BY <1>2 DEF c, id
  <1>. QED
    BY <1>1, <1>3, <1>7, <1>8, <1>9, <1>10, WholePuts

LEMMA WholePublish ==
  ASSUME OneScheduler, Core, WInv, NEW p \in Runs, Publish(p)
  PROVE  WInv'
  <1>. DEFINE id == mine[p].id
              present == Cardinality(RowsWith(id, Unfinished \cup Finished))
              c == Fresh(id, "running", present)
  <1>1. pc[p] = "counted" /\ (Save(p, c, "published") \/ Discard(p, "cleanup"))
    BY DEF Publish, At
  <1>2. c.status = "running" /\ c.total = present /\ c.id = id
    BY DEF Fresh
  <1>3. present = Cardinality(With(rows, id, Unfinished \cup Finished))
    BY DEF RowsWith, With
  <1>4. cycle.status = "preparing"
    BY <1>1, Here DEF Saving, Ready
  <1>. HIDE DEF c, id, present
  <1>5. Whole(rows, c)
    BY <1>2, <1>3 DEF Whole
  <1>6. Ready(rows, item[p], scene.attempts, "published", c)
    BY <1>2 DEF Ready, LivePlaces, LoopPlaces, ItemPlaces, Live
  <1>. QED
    BY <1>1, <1>4, <1>5, <1>6, WholeSaves, WholeDiscards

LEMMA WholeSnapshot ==
  ASSUME OneScheduler, Core, WInv, NEW p \in Runs, Snapshot(p)
  PROVE  WInv'
  <1>. USE DEF Saving
  <1>0. ASSUME NEW rs, NEW it, NEW n, NEW c, NEW place \in {"forget", "begin", "release"}
        PROVE  Ready(rs, it, n, place, c)
    BY Elsewhere DEF HoldPlaces, MinePlaces
  <1>1. CASE DiscardRead(p)
    <2>1. pc[p] = "discard" /\ (Decide(p, "release") \/ Save(p, cycle, "delete"))
      BY <1>1 DEF DiscardRead, At, Core, Solo, Quiet
    <2>2. Ready(rows, item[p], scene.attempts, "delete", cycle) /\ Whole(rows, cycle)
      BY <2>1, Here DEF Ready, LivePlaces, LoopPlaces, ItemPlaces, MinePlaces
    <2>. QED
      BY <1>0, <2>1, <2>2, WholeDecides, WholeSaves
  <1>2. CASE DiscardMaster(p)
    <2>1. PICK place \in {"release", "rerun", "begin"} : Goto(p, place)
      BY <1>2 DEF DiscardMaster
    <2>2. pc[p] = "forget" /\ cycle' = NoCycle /\ UNCHANGED <<rows, item, scene>>
      BY <1>2 DEF DiscardMaster, At, local, bounds
    <2>3. Whole(rows, cycle')
      BY <2>2 DEF Whole, NoCycle, Fresh, Live
    <2>4. Ready(rows, item[p], scene.attempts, place, cycle')
      BY Elsewhere DEF HoldPlaces, MinePlaces
    <2>. QED
      BY <2>1, <2>2, <2>3, <2>4, WholeMoves DEF WInv
  <1>3. CASE ReadActive(p)
    <2>1. /\ pc[p] = "active"
          /\ \/ \E place \in {"release", "begin"} : Decide(p, place)
             \/ cycle.status \in {"preparing", "completed"} /\ Discard(p, "snapshot")
      BY <1>3 DEF ReadActive, At
    <2>. QED
      BY <1>0, <2>1, WholeDecides, WholeDiscards
  <1>4. CASE BeginCycle(p)
    <2>. DEFINE c == Fresh(made + 1, "preparing", 0)
    <2>1. /\ pc[p] = "begin"
          /\ \/ Decide(p, "release")
             \/ Put(p, c, FALSE, "rows") /\ UNCHANGED <<rows, cycle, item, scene>>
      BY <1>4 DEF BeginCycle, At, store, local
    <2>2. c.status = "preparing"
      BY DEF Fresh
    <2>. HIDE DEF c
    <2>3. Whole(rows, c) /\ Ready(rows, item[p], scene.attempts, "rows", c)
      BY <2>2 DEF Whole, Ready, Live, LivePlaces, LoopPlaces, ItemPlaces
    <2>. QED
      BY <1>0, <2>1, <2>3, WholeDecides, WholePuts DEF WInv
  <1>5. CASE Schedule(p)
    <2>1. pc[p] = "published" /\ Save(p, mine[p], "work")
      BY <1>5 DEF Schedule, At
    <2>2. mine[p] = cycle /\ Whole(rows, cycle) /\ cycle.status \in Live
      BY <2>1, Here DEF Ready, HoldPlaces, MinePlaces, LivePlaces
    <2>3. Ready(rows, item[p], scene.attempts, "work", cycle)
      BY <2>2 DEF Ready, LivePlaces, LoopPlaces, ItemPlaces
    <2>. QED
      BY <2>1, <2>2, <2>3, WholeSaves
  <1>. QED
    BY <1>1, <1>2, <1>3, <1>4, <1>5, WholeDiscardRows, WholeWriteRows, WholePublish DEF Snapshot

\* What holds of a worker, and of a run that is about to become one.
LEMMA AtWork ==
  ASSUME Core, WInv, NEW p \in Runs, pc[p] \in LivePlaces
  PROVE  /\ pc[p] # "idle" /\ mine[p] = cycle
         /\ cycle.status \in Live /\ cycle \in CycleSet /\ cycle.id \in Cycles
         /\ Whole(rows, cycle) /\ Tried(rows, scene.attempts)
         /\ Ready(rows, item[p], scene.attempts, pc[p], cycle)
  <1>1. pc[p] # "idle" /\ pc[p] \notin Saving /\ pc[p] \in HoldPlaces
    BY DEF LivePlaces, MinePlaces, HoldPlaces, Saving
  <1>2. cycle.status \in Live
    BY <1>1, Here DEF Ready
  <1>3. cycle \in CycleSet /\ cycle.id \in Cycles
    BY <1>2 DEF Core, IInv, TypeOK, StoreType, CycleSet, Real, Live, Cycles
  <1>. QED
    BY <1>1, <1>2, <1>3, Here

\* A worker keeps what it needs where it needs no more than before.
LEMMA ReadyOn ==
  ASSUME NEW rs, NEW it, NEW n, NEW from, NEW c, Ready(rs, it, n, from, c),
         NEW d, d.id = c.id, d.status \in Live,
         NEW place, place \notin {"rows", "counted", "discard", "delete"},
         place \in ItemPlaces => from \in ItemPlaces,
         place \in LoopPlaces => from \in LoopPlaces
  PROVE  Ready(rs, it, n, place, d)
  BY DEF Ready

LEMMA WorkGoes ==
  ASSUME OneScheduler, Core, WInv, NEW p \in Runs, pc[p] \in LivePlaces,
         NEW place, place \notin {"rows", "counted", "discard", "delete"} \cup Saving,
         place \in ItemPlaces => pc[p] \in ItemPlaces,
         place \in LoopPlaces => pc[p] \in LoopPlaces,
         Goto(p, place), UNCHANGED <<rows, cycle, item, scene>>
  PROVE  WInv'
  <1>1. Ready(rows, item[p], scene.attempts, place, cycle)
    BY AtWork, ReadyOn
  <1>. QED
    BY <1>1, AtWork, WholeMoves

LEMMA WorkDecides ==
  ASSUME OneScheduler, Core, WInv, NEW p \in Runs, pc[p] \in LivePlaces,
         NEW place, place \notin {"rows", "counted", "discard", "delete"} \cup Saving,
         place \in ItemPlaces => pc[p] \in ItemPlaces,
         place \in LoopPlaces => pc[p] \in LoopPlaces, Decide(p, place)
  PROVE  WInv'
  BY WorkGoes DEF Decide, store, local, bounds

LEMMA WorkSaves ==
  ASSUME OneScheduler, Core, WInv, NEW p \in Runs, pc[p] \in LivePlaces,
         NEW c, c.id = cycle.id, c.total = cycle.total, c.status \in Live,
         NEW place, place \notin {"rows", "counted", "discard", "delete"},
         place \in ItemPlaces => pc[p] \in ItemPlaces,
         place \in LoopPlaces => pc[p] \in LoopPlaces, Save(p, c, place)
  PROVE  WInv'
  <1>1. Whole(rows, c)
    BY AtWork, LiveStays
  <1>2. Ready(rows, item[p], scene.attempts, place, c)
    BY AtWork, ReadyOn
  <1>. QED
    BY <1>1, <1>2, AtWork, WholeSaves

LEMMA WorkSavesStatus ==
  ASSUME OneScheduler, Core, WInv, NEW p \in Runs, pc[p] \in LivePlaces,
         NEW status \in Live,
         NEW place, place \notin {"rows", "counted", "discard", "delete"} \cup ItemPlaces,
         place \in LoopPlaces => pc[p] \in LoopPlaces, SaveStatus(p, status, place)
  PROVE  WInv'
  <1>. DEFINE c == [mine[p] EXCEPT !.status = status]
  <1>1. c.id = cycle.id /\ c.total = cycle.total /\ c.status = status
    BY AtWork DEF CycleSet
  <1>2. Save(p, c, place)
    BY DEF SaveStatus
  <1>. HIDE DEF c
  <1>. QED
    BY <1>1, <1>2, WorkSaves

\* A worker never adds a row or removes one.
LEMMA WholeRows ==
  ASSUME Core, rows' \in [RowKeys -> RowSet], Whole(rows, cycle), cycle.status \in Live,
         cycle.id \in Cycles,
         \A k \in RowKeys : rows'[k].status = "absent" <=> rows[k].status = "absent",
         NEW c, c.id = cycle.id, c.total = cycle.total, c.status \in Live
  PROVE  Whole(rows', c)
  <1>1. \A k \in RowKeys : rows'[k].status \in Unfinished \cup Finished <=>
                           rows[k].status \in Unfinished \cup Finished
    BY DEF Core, IInv, TypeOK, StoreType, RowSet, Unfinished, Finished
  <1>2. With(rows', cycle.id, Unfinished \cup Finished) = With(rows, cycle.id, Unfinished \cup Finished)
    BY <1>1 DEF With, RowKeys
  <1>. QED
    BY <1>2 DEF Whole, Live

LEMMA WholeRecover ==
  ASSUME OneScheduler, Core, Core', WInv, NEW p \in Runs, Recover(p)
  PROVE  WInv'
  <1>. DEFINE id == mine[p].id
              stale == {th \in RowsWith(id, {"processing"}) : ~rows[<<id, th>>].live}
  <1>1. /\ pc[p] = "recover" /\ Goto(p, "repair") /\ UNCHANGED <<cycle, item, scene>>
        /\ rows' = [k \in RowKeys |-> IF k \in {id} \X stale THEN Recovered(rows[k]) ELSE rows[k]]
    BY DEF Recover, SetRows, At, local, bounds
  <1>2. \A k \in RowKeys : Recovered(rows[k]).status = "retry" /\ Recovered(rows[k]).attempts = rows[k].attempts
    BY DEF Recovered, Core, IInv, TypeOK, StoreType, RowSet
  <1>3. \A th \in stale : rows[<<id, th>>].status = "processing"
    BY DEF RowsWith
  <1>. HIDE DEF id, stale
  <1>4. \A k \in RowKeys : /\ rows'[k].status = "absent" <=> rows[k].status = "absent"
                           /\ rows'[k].attempts = rows[k].attempts
                           /\ rows'[k].status = "pending" => rows[k].status = "pending"
    BY <1>1, <1>2, <1>3 DEF RowKeys
  <1>5. pc[p] \in LivePlaces
    BY <1>1 DEF LivePlaces, MinePlaces
  <1>6. Whole(rows', cycle')
    BY <1>1, <1>4, <1>5, AtWork, WholeRows DEF Core, IInv, TypeOK, StoreType
  <1>7. Tried(rows', scene.attempts)
    BY <1>4 DEF WInv, Tried
  <1>8. Ready(rows', item'[p], scene.attempts, "repair", cycle')
    BY <1>1, <1>5, AtWork DEF Ready, LoopPlaces, ItemPlaces
  <1>. QED
    BY <1>1, <1>5, <1>6, <1>7, <1>8, AtWork, WholeMoves DEF Saving

LEMMA WholeRepair ==
  ASSUME OneScheduler, Core, Core', WInv, NEW p \in Runs, Repair(p)
  PROVE  WInv'
  <1>. DEFINE id == mine[p].id
              n == scene.attempts
              spent == {th \in RowsWith(id, {"retry"}) : rows[<<id, th>>].attempts >= n}
              Fail(row) == [row EXCEPT !.status = "failed", !.due = FALSE]
  <1>1. pc[p] = "repair" /\ pc[p] \in LivePlaces
    BY DEF Repair, At, LivePlaces, MinePlaces
  <1>2. CASE Decide(p, "release")
    BY <1>1, <1>2, WorkDecides DEF LoopPlaces, ItemPlaces, Saving
  <1>3. CASE spent = {} /\ Decide(p, "roll")
    <2>1. \A th \in Threads : rows[<<cycle.id, th>>].status = "retry" => rows[<<cycle.id, th>>].attempts < n
      <3>1. id = cycle.id /\ cycle.id \in Cycles
        BY <1>1, AtWork
      <3>2. \A th \in Threads : rows[<<id, th>>].attempts \in Nat
        BY <3>1 DEF Core, IInv, TypeOK, StoreType, RowSet, RowKeys
      <3>3. n \in Nat
        BY Attempts DEF Core
      <3>. HIDE DEF n
      <3>. QED
        BY <1>3, <3>1, <3>2, <3>3 DEF RowsWith
    <2>2. Ready(rows, item[p], n, "roll", cycle)
      BY <1>1, <2>1, AtWork DEF Ready, ItemPlaces
    <2>. QED
      BY <1>1, <1>3, <2>2, AtWork, WholeDecides DEF Saving
  <1>4. CASE /\ rows' = [k \in RowKeys |-> IF k \in {id} \X spent THEN Fail(rows[k]) ELSE rows[k]]
             /\ Put(p, mine[p], FALSE, "roll") /\ UNCHANGED <<cycle, item, scene>>
    <2>1. \A k \in RowKeys : Fail(rows[k]).status = "failed" /\ Fail(rows[k]).attempts = rows[k].attempts
      BY DEF Core, IInv, TypeOK, StoreType, RowSet
    <2>2. id = cycle.id /\ cycle.id \in Cycles
      BY <1>1, AtWork
    <2>3. n \in Nat /\ rows \in [RowKeys -> RowSet] /\ rows' \in [RowKeys -> RowSet]
      BY Attempts DEF Core, IInv, TypeOK, StoreType
    <2>4. \A k \in RowKeys : rows[k].attempts \in Nat
      BY <2>3 DEF RowSet
    <2>5. \A th \in spent : rows[<<id, th>>].status = "retry"
      BY DEF RowsWith
    <2>6. \A th \in Threads \ spent : rows[<<id, th>>].status = "retry" => rows[<<id, th>>].attempts < n
      BY <2>2, <2>3, <2>4 DEF RowsWith, RowKeys
    <2>. HIDE DEF id, n, spent, Fail
    <2>7. \A k \in RowKeys : /\ rows'[k].status = "absent" <=> rows[k].status = "absent"
                             /\ rows'[k].attempts = rows[k].attempts
                             /\ rows'[k].status = "pending" => rows[k].status = "pending"
      BY <1>4, <2>1, <2>5 DEF RowKeys
    <2>8. \A th \in Threads : rows'[<<id, th>>].status = "retry" => rows'[<<id, th>>].attempts < n
      BY <1>4, <2>1, <2>2, <2>6 DEF RowKeys
    <2>9. Whole(rows', cycle)
      BY <1>1, <2>3, <2>7, AtWork, WholeRows
    <2>10. Tried(rows', scene.attempts)
      BY <2>7 DEF WInv, Tried
    <2>11. Ready(rows', item'[p], scene.attempts, "roll", cycle)
      BY <1>1, <2>2, <2>8, AtWork DEF Ready, ItemPlaces, n
    <2>. QED
      BY <1>1, <1>4, <2>9, <2>10, <2>11, AtWork, WholePuts
  <1>. QED
    BY <1>2, <1>3, <1>4 DEF Repair, SetRows, local, bounds

LEMMA WholeNextItem ==
  ASSUME OneScheduler, Core, WInv, NEW p \in Runs, NextItem(p)
  PROVE  WInv'
  <1>1. pc[p] = "next" /\ pc[p] \in LivePlaces /\ pc[p] \in LoopPlaces
    BY DEF NextItem, At, LivePlaces, MinePlaces, LoopPlaces
  <1>2. CASE Decide(p, "count")
    BY <1>1, <1>2, WorkDecides DEF ItemPlaces, Saving
  <1>3. CASE ~Decide(p, "count")
    <2>1. PICK th \in Actionable(mine[p].id) :
            /\ Take(p, th)
            /\ \/ \E place \in {"skip", "allow"} : Goto(p, place)
               \/ Put(p, RollOver(mine[p]), FALSE, "allow")
            /\ UNCHANGED <<rows, cycle, scene>>
      BY <1>3 DEF NextItem, store, bounds
    <2>. DEFINE it == [thread |-> th, row |-> rows[<<mine[p].id, th>>], day |-> today]
                n == scene.attempts
                c == RollOver(mine[p])
    <2>2. item'[p] = it /\ it.thread = th /\ it.row = rows[<<cycle.id, th>>]
      BY <1>1, <2>1, AtWork DEF Take, Core, IInv, TypeOK, ProcessType
    <2>3. th \in Threads /\ it.row.status \in {"pending", "retry"}
      BY <1>1, <2>1, Actionables DEF Core
    <2>4. c.id = cycle.id /\ c.total = cycle.total /\ c.status = cycle.status
      BY <1>1, AtWork DEF RollOver, CycleSet
    <2>5. it.row.attempts < n
      <3>1. /\ <<cycle.id, th>> \in RowKeys
            /\ Tried(rows, n) /\ Ready(rows, item[p], n, "next", cycle)
        BY <1>1, <2>3, AtWork DEF RowKeys
      <3>2. rows[<<cycle.id, th>>].status = "pending" => rows[<<cycle.id, th>>].attempts < n
        BY <3>1 DEF Tried
      <3>3. rows[<<cycle.id, th>>].status = "retry" => rows[<<cycle.id, th>>].attempts < n
        BY <2>3, <3>1 DEF Ready, LoopPlaces
      <3>. QED
        BY <2>2, <2>3, <3>2, <3>3
    <2>. HIDE DEF it, c, n
    <2>6. ASSUME NEW d, d.id = cycle.id, d.status \in Live, NEW place \in {"skip", "allow"}
          PROVE  Ready(rows, it, n, place, d)
      <3>1. Ready(rows, item[p], n, "next", cycle)
        BY <1>1, AtWork DEF n
      <3>2. \A t \in Threads : rows[<<cycle.id, t>>].status = "retry" => rows[<<cycle.id, t>>].attempts < n
        BY <3>1 DEF Ready, LoopPlaces
      <3>3. rows[<<cycle.id, th>>].status # "absent"
        BY <2>2, <2>3
      <3>. QED
        BY <2>2, <2>3, <2>5, <2>6, <3>2, <3>3 DEF Ready
    <2>7. Whole(rows, c) /\ c.status \in Live
      BY <1>1, <2>4, AtWork, SameCycle
    <2>8. CASE \E place \in {"skip", "allow"} : Goto(p, place)
      <3>1. PICK place \in {"skip", "allow"} : Goto(p, place)
        BY <2>8
      <3>2. Ready(rows, it, n, place, cycle)
        BY <1>1, <2>6, AtWork
      <3>. QED
        BY <1>1, <2>1, <2>2, <3>1, <3>2, AtWork, WholeMoves DEF Saving, n
    <2>9. CASE Put(p, c, FALSE, "allow")
      <3>1. Ready(rows, it, n, "allow", c)
        BY <2>4, <2>6, <2>7
      <3>. QED
        BY <1>1, <2>1, <2>2, <2>7, <2>9, <3>1, AtWork, WholePuts DEF n
    <2>. QED
      BY <2>1, <2>8, <2>9 DEF c
  <1>. QED BY <1>2, <1>3

\* A worker writes the row of its item.
LEMMA ItemRow ==
  ASSUME Core, Core', WInv, NEW p \in Runs, pc[p] \in ItemPlaces, NEW row,
         rows' = [rows EXCEPT ![KeyOf(p)] = row], row.status # "absent",
         row.attempts <= scene.attempts, row.status = "pending" => row.attempts < scene.attempts
  PROVE  /\ \A c : c.id = cycle.id /\ c.total = cycle.total /\ c.status \in Live => Whole(rows', c)
         /\ Tried(rows', scene.attempts)
         /\ \A it, place, c :
              /\ it.thread = item[p].thread /\ it.row = item[p].row
              /\ c.id = cycle.id /\ c.status \in Live
              /\ place \notin {"rows", "counted", "discard", "delete"}
              /\ place \in LoopPlaces /\ row.status = "retry" => row.attempts < scene.attempts
              => Ready(rows', it, scene.attempts, place, c)
  <1>. DEFINE n == scene.attempts
  <1>1. pc[p] \in LivePlaces /\ pc[p] \in LoopPlaces
    BY DEF LivePlaces, MinePlaces, ItemPlaces, LoopPlaces
  <1>2. /\ KeyOf(p) \in RowKeys /\ KeyOf(p) = <<cycle.id, item[p].thread>> /\ item[p].thread \in Threads
        /\ cycle.id \in Cycles
    BY <1>1, AtWork, ItemAt DEF KeyOf, Core
  <1>3. Ready(rows, item[p], n, pc[p], cycle) /\ Tried(rows, n)
    BY <1>1, AtWork
  <1>4. /\ rows[KeyOf(p)].status # "absent"
        /\ item[p].row.status \in {"pending", "retry"} /\ item[p].row.attempts < n
        /\ \A th \in Threads : rows[<<cycle.id, th>>].status = "retry" => rows[<<cycle.id, th>>].attempts < n
    BY <1>1, <1>2, <1>3 DEF Ready
  <1>5. rows \in [RowKeys -> RowSet] /\ rows' \in [RowKeys -> RowSet]
    BY DEF Core, IInv, TypeOK, StoreType
  <1>6. rows'[KeyOf(p)] = row /\ \A k \in RowKeys : k # KeyOf(p) => rows'[k] = rows[k]
    BY <1>2, <1>5
  <1>. HIDE DEF n
  <1>7. \A k \in RowKeys : rows'[k].status = "absent" <=> rows[k].status = "absent"
    BY <1>4, <1>6
  <1>8. \A c : c.id = cycle.id /\ c.total = cycle.total /\ c.status \in Live => Whole(rows', c)
    BY <1>1, <1>5, <1>7, AtWork, WholeRows
  <1>9. Tried(rows', n)
    BY <1>3, <1>6 DEF Tried, n
  <1>10. ASSUME NEW it, NEW place, NEW c, it.thread = item[p].thread, it.row = item[p].row,
                c.id = cycle.id, c.status \in Live,
                place \notin {"rows", "counted", "discard", "delete"},
                place \in LoopPlaces /\ row.status = "retry" => row.attempts < n
         PROVE  Ready(rows', it, n, place, c)
    <2>1. rows'[<<cycle.id, it.thread>>].status # "absent"
      BY <1>2, <1>6, <1>10
    <2>2. ASSUME place \in LoopPlaces, NEW th \in Threads, rows'[<<cycle.id, th>>].status = "retry"
          PROVE  rows'[<<cycle.id, th>>].attempts < n
      <3>1. <<cycle.id, th>> \in RowKeys
        BY <1>2 DEF RowKeys
      <3>2. CASE <<cycle.id, th>> = KeyOf(p)
        BY <1>6, <1>10, <2>2, <3>2
      <3>3. CASE <<cycle.id, th>> # KeyOf(p)
        BY <1>4, <1>6, <2>2, <3>1, <3>3
      <3>. QED BY <3>2, <3>3
    <2>. QED
      BY <1>4, <1>10, <2>1, <2>2 DEF Ready
  <1>. QED
    BY <1>8, <1>9, <1>10 DEF n

\* A claim has one attempt more, and there was one left.
LEMMA ClaimedRow ==
  ASSUME Core, WInv, NEW p \in Runs, pc[p] \in ItemPlaces, NEW day
  PROVE  /\ Claimed(p, day).status = "processing" /\ Claimed(p, day).attempts <= scene.attempts
         /\ Claimed(p, day).day = day
  <1>1. item[p].row \in RowSet /\ pc[p] \in LivePlaces
    BY ItemAt DEF Core, LivePlaces, MinePlaces, ItemPlaces
  <1>2. item[p].row.attempts < scene.attempts /\ item[p].row.attempts \in Nat /\ scene.attempts \in Nat
    BY <1>1, AtWork, Attempts DEF Ready, Core, RowSet
  <1>3. /\ Claimed(p, day).attempts = item[p].row.attempts + 1 /\ Claimed(p, day).status = "processing"
        /\ Claimed(p, day).day = day
    BY <1>1 DEF Claimed, RowSet
  <1>. QED
    BY <1>2, <1>3

LEMMA WholeSkip ==
  ASSUME OneScheduler, Core, Core', WInv, NEW p \in Runs, Skip(p)
  PROVE  WInv'
  <1>. DEFINE row == Claimed(p, item[p].row.day)
              it == [item[p] EXCEPT !.day = item[p].row.day]
  <1>1. /\ pc[p] = "skip" /\ rows' = [rows EXCEPT ![KeyOf(p)] = row] /\ item' = [item EXCEPT ![p] = it]
        /\ Goto(p, "settle") /\ UNCHANGED <<cycle, scene>>
    BY DEF Skip, PutRow, At, bounds
  <1>2. pc[p] \in ItemPlaces /\ pc[p] \in LivePlaces
    BY <1>1 DEF ItemPlaces, LivePlaces, MinePlaces
  <1>3. row.status = "processing" /\ row.attempts <= scene.attempts
    BY <1>2, ClaimedRow
  <1>4. item'[p] = it /\ it.thread = item[p].thread /\ it.row = item[p].row
    BY <1>1 DEF Core, IInv, TypeOK, ProcessType
  <1>. HIDE DEF row, it
  <1>5. Whole(rows', cycle) /\ Tried(rows', scene.attempts)
    BY <1>1, <1>2, <1>3, AtWork, ItemRow
  <1>6. Ready(rows', it, scene.attempts, "settle", cycle)
    BY <1>1, <1>2, <1>3, <1>4, AtWork, ItemRow
  <1>. QED
    BY <1>1, <1>2, <1>4, <1>5, <1>6, AtWork, WholeMoves DEF Saving

LEMMA WholeClaim ==
  ASSUME OneScheduler, Core, Core', WInv, NEW p \in Runs, Claim(p)
  PROVE  WInv'
  <1>1. pc[p] = "allow" /\ pc[p] \in ItemPlaces /\ pc[p] \in LivePlaces
    BY DEF Claim, At, ItemPlaces, LivePlaces, MinePlaces
  <1>2. CASE SaveStatus(p, "waiting", "release")
    BY <1>1, <1>2, WorkSavesStatus DEF Live, LoopPlaces, ItemPlaces
  <1>3. CASE ~SaveStatus(p, "waiting", "release")
    <2>. DEFINE row == Claimed(p, item[p].day)
                c == [mine[p] EXCEPT !.used = @ + (IF Consumes(p) THEN 1 ELSE 0)]
    <2>1. /\ rows' = [rows EXCEPT ![KeyOf(p)] = row] /\ Put(p, c, FALSE, "guard")
          /\ UNCHANGED <<cycle, item, scene>>
      BY <1>3 DEF Claim, PutRow, local, bounds
    <2>2. row.status = "processing" /\ row.attempts <= scene.attempts
      BY <1>1, ClaimedRow
    <2>3. c.id = cycle.id /\ c.total = cycle.total /\ c.status = cycle.status
      BY <1>1, AtWork DEF CycleSet
    <2>. HIDE DEF row, c
    <2>4. Whole(rows', cycle) /\ Whole(rows', c) /\ Tried(rows', scene.attempts)
      BY <1>1, <2>1, <2>2, <2>3, AtWork, ItemRow
    <2>5. Ready(rows', item[p], scene.attempts, "guard", c)
      BY <1>1, <2>1, <2>2, <2>3, AtWork, ItemRow
    <2>. QED
      BY <1>1, <2>1, <2>4, <2>5, AtWork, WholePuts
  <1>. QED BY <1>2, <1>3

\* A request, its answer and its result only lead on.
LEMMA WholeRequests ==
  ASSUME OneScheduler, Core, WInv, NEW p \in Runs,
         \/ Ask(p) \/ Defer(p) \/ (\E o \in Final \cup {"blocked", "deferred"} : Answer(p, o))
         \/ AfterRequest(p) \/ Commit(p) \/ PutResult(p) \/ AfterCommit(p) \/ Settle(p)
  PROVE  WInv'
  <1>. USE DEF Saving
  <1>1. pc[p] \in ItemPlaces /\ pc[p] \in LivePlaces /\ pc[p] \in LoopPlaces
    BY DEF Ask, Defer, Answer, AfterRequest, Commit, PutResult, AfterCommit, Settle, At, ItemPlaces,
      LivePlaces, MinePlaces, LoopPlaces
  <1>2. {Interrupted(p), "paused"} \subseteq Live
    BY DEF Interrupted, Live
  <1>3. \/ \E status \in {Interrupted(p), "paused"} : SaveStatus(p, status, "release")
        \/ Decide(p, "release")
        \/ /\ \E place \in ItemPlaces : Goto(p, place)
           /\ UNCHANGED <<rows, cycle, item, scene>>
    BY DEF Ask, Defer, Answer, AfterRequest, Commit, PutResult, AfterCommit, Settle, Outcome, Decide,
      ItemPlaces, store, local, bounds
  <1>4. "release" \notin ItemPlaces \cup LoopPlaces
    BY DEF ItemPlaces, LoopPlaces
  <1>5. ItemPlaces \cap ({"rows", "counted", "discard", "delete"} \cup Saving) = {}
    BY DEF ItemPlaces
  <1>. QED
    BY <1>1, <1>2, <1>3, <1>4, <1>5, WorkSavesStatus, WorkDecides, WorkGoes

\* The row a settlement writes has an attempt left if it is to be tried again,
\* but for a result that could not be stored.
LEMMA SettledRow ==
  ASSUME NEW it \in [thread : Threads \cup {Nobody}, row : RowSet, day : 0 .. MaxDay],
         scene.attempts \in Nat, it.row.status \in {"pending", "retry"},
         it.row.attempts < scene.attempts,
         NEW o \in {"skip", "deferred", "blocked", "uncommitted"} \cup Final
  PROVE  /\ Settlement(it, o).status # "absent"
         /\ Settlement(it, o).attempts <= scene.attempts
         /\ Settlement(it, o).status = "pending" => Settlement(it, o).attempts < scene.attempts
         /\ Settlement(it, o).status = "retry" /\ o # "uncommitted"
              => Settlement(it, o).attempts < scene.attempts
         /\ o \in {"deferred", "blocked"} => Settlement(it, o) = it.row
         /\ o \notin {"deferred", "blocked"} => Settlement(it, o).day = it.day
  <1>. DEFINE free == [it.row EXCEPT !.attempts = @ + 1, !.day = it.day, !.by = Nobody,
                                     !.live = FALSE, !.due = FALSE]
  <1>1. free.attempts = it.row.attempts + 1 /\ free.day = it.day
    BY DEF RowSet
  <1>2. \A st : /\ [free EXCEPT !.status = st].status = st
                /\ [free EXCEPT !.status = st].attempts = free.attempts
                /\ [free EXCEPT !.status = st].day = free.day
    BY DEF RowSet
  <1>3. Settlement(it, o) = CASE o = "skip" -> [free EXCEPT !.status = "skipped"]
        [] o \in {"deferred", "blocked"} -> it.row
        [] o = "uncommitted" -> [free EXCEPT !.status = "retry"]
        [] o = "ok" -> [free EXCEPT !.status = "completed"]
        [] o = "gone" \/ (o = "fail" /\ free.attempts >= scene.attempts)
             -> [free EXCEPT !.status = "failed"]
        [] OTHER -> [free EXCEPT !.status = "retry"]
    BY DEF Settlement
  <1>4. it.row.attempts \in Nat
    BY DEF RowSet
  <1>. HIDE DEF free
  <1>5. CASE o \in {"deferred", "blocked"}
    BY <1>3, <1>4, <1>5
  <1>6. CASE o \in {"skip", "uncommitted", "ok", "gone", "fail"}
    BY <1>1, <1>2, <1>3, <1>4, <1>6
  <1>. QED BY <1>5, <1>6 DEF Final

LEMMA WholeSettlement ==
  ASSUME OneScheduler, Core, Core', WInv, NEW p \in Runs, PutSettlement(p)
  PROVE  WInv'
  <1>. DEFINE o == outcome[p]
              row == Settlement(item[p], o)
  <1>1. pc[p] = "settled" /\ pc[p] \in ItemPlaces /\ pc[p] \in LivePlaces
    BY DEF PutSettlement, At, ItemPlaces, LivePlaces, MinePlaces
  <1>2. rows' = [rows EXCEPT ![KeyOf(p)] = row] /\ UNCHANGED <<cycle, item, scene>>
    BY DEF PutSettlement, PutRow, local, bounds
  <1>3. o \in {"skip", "deferred", "blocked", "uncommitted"} \cup Final
    BY DEF PutSettlement, Final
  <1>4. /\ row.status # "absent" /\ row.attempts <= scene.attempts
        /\ row.status = "pending" => row.attempts < scene.attempts
        /\ row.status = "retry" /\ o # "uncommitted" => row.attempts < scene.attempts
    <2>1. item[p] \in [thread : Threads \cup {Nobody}, row : RowSet, day : 0 .. MaxDay]
      BY DEF Core, IInv, TypeOK, ProcessType
    <2>2. item[p].row.status \in {"pending", "retry"} /\ item[p].row.attempts < scene.attempts
      BY <1>1, AtWork DEF Ready
    <2>. QED
      BY <1>3, <2>1, <2>2, Attempts, SettledRow DEF Core
  <1>5. ASSUME NEW c, c.id = cycle.id, c.total = cycle.total, c.status \in Live, NEW refund,
               NEW place \in {"loop", "release", "renew"}, Put(p, c, refund, place),
               place \in {"loop", "renew"} => o # "uncommitted"
        PROVE  WInv'
    <2>. HIDE DEF row, o
    <2>1. Whole(rows', cycle) /\ Whole(rows', c) /\ Tried(rows', scene.attempts)
      BY <1>1, <1>2, <1>4, <1>5, AtWork, ItemRow
    <2>2. place \in LoopPlaces => place \in {"loop", "renew"}
      BY DEF LoopPlaces, ItemPlaces
    <2>3. Ready(rows', item[p], scene.attempts, place, c)
      BY <1>1, <1>2, <1>4, <1>5, <2>2, AtWork, ItemRow
    <2>. QED
      BY <1>1, <1>2, <1>5, <2>1, <2>3, AtWork, WholePuts
  <1>6. CASE \E place \in {"loop", "renew"} : o # "uncommitted" /\ Put(p, mine[p], FALSE, place)
    BY <1>1, <1>5, <1>6, AtWork
  <1>7. CASE Put(p, [mine[p] EXCEPT !.status = "waiting"], FALSE, "release")
    <2>. DEFINE c == [mine[p] EXCEPT !.status = "waiting"]
    <2>1. c.id = cycle.id /\ c.total = cycle.total /\ c.status \in Live
      BY <1>1, AtWork DEF CycleSet, Live
    <2>2. Put(p, c, FALSE, "release")
      BY <1>7
    <2>. HIDE DEF c
    <2>. QED
      BY <2>1, <2>2, <1>5
  <1>8. CASE \E blocked \in {TRUE, mine[p].blocked \/ o = "blocked"} :
               Put(p, [Refunded(p) EXCEPT !.blocked = blocked], Consumes(p), "release")
    <2>1. PICK blocked \in BOOLEAN :
            Put(p, [Refunded(p) EXCEPT !.blocked = blocked], Consumes(p), "release")
      BY <1>8
    <2>. DEFINE c == [Refunded(p) EXCEPT !.blocked = blocked]
    <2>2. c.id = cycle.id /\ c.total = cycle.total /\ c.status \in Live
      BY <1>1, AtWork DEF Refunded, CycleSet, Live
    <2>3. Put(p, c, Consumes(p), "release")
      BY <2>1
    <2>. HIDE DEF c
    <2>. QED
      BY <2>2, <2>3, <1>5
  <1>. QED
    BY <1>6, <1>7, <1>8 DEF PutSettlement

LEMMA WholeWorking ==
  ASSUME OneScheduler, Core, Core', WInv, NEW p \in Runs, Working(p)
  PROVE  WInv'
  <1>. USE DEF Saving
  <1>1. CASE StartWorker(p)
    <2>1. /\ pc[p] = "work"
          /\ \/ Decide(p, "release")
             \/ Goto(p, "own") /\ UNCHANGED <<rows, cycle, item, scene>>
      BY <1>1 DEF StartWorker, At, store, bounds
    <2>2. Ready(rows, item[p], scene.attempts, "own", cycle)
      BY <2>1, Here DEF Ready, LivePlaces, MinePlaces, LoopPlaces, ItemPlaces
    <2>3. Ready(rows, item[p], scene.attempts, "release", cycle)
      BY Elsewhere DEF HoldPlaces, MinePlaces
    <2>. QED
      BY <2>1, <2>2, <2>3, WholeDecides, WholeMoves DEF WInv
  <1>2. CASE OwnFirst(p) \/ ResumeCycle(p) \/ Loop(p) \/ Renew(p) \/ PutLease(p, "extend", "loop")
    <2>1. /\ pc[p] \in {"own", "resume", "loop", "renew", "extend"}
          /\ \/ /\ pc[p] = "own"
                /\ SaveStatus(p, "recovering", "recover") \/ Decide(p, "release")
             \/ /\ pc[p] # "own"
                /\ \/ SaveStatus(p, "running", "loop") \/ SaveStatus(p, Interrupted(p), "release")
                   \/ Decide(p, "next") \/ Decide(p, "loop")
                   \/ /\ \E place \in {"extend", "loop"} : Goto(p, place)
                      /\ UNCHANGED <<rows, cycle, item, scene>>
      BY <1>2 DEF OwnFirst, ResumeCycle, Loop, Renew, PutLease, At, store, bounds
    <2>2. pc[p] \in LivePlaces /\ (pc[p] # "own" => pc[p] \in LoopPlaces)
      BY <2>1 DEF LivePlaces, MinePlaces, LoopPlaces
    <2>3. {"recovering", "running", Interrupted(p)} \subseteq Live
      BY DEF Live, Interrupted
    <2>4. /\ {"recover", "release"} \cap (ItemPlaces \cup LoopPlaces) = {}
          /\ {"loop", "next", "extend"} \cap ItemPlaces = {}
      BY DEF ItemPlaces, LoopPlaces
    <2>. QED
      BY <2>1, <2>2, <2>3, <2>4, WorkSavesStatus, WorkDecides, WorkGoes
  <1>3. CASE Roll(p)
    <2>. DEFINE c == RollOver(mine[p])
    <2>1. pc[p] = "roll" /\ (Save(p, c, "resume") \/ Decide(p, "resume"))
      BY <1>3 DEF Roll, At
    <2>2. pc[p] \in LivePlaces /\ pc[p] \in LoopPlaces /\ "resume" \notin ItemPlaces
      BY <2>1 DEF LivePlaces, MinePlaces, LoopPlaces, ItemPlaces
    <2>3. c.id = cycle.id /\ c.total = cycle.total /\ c.status \in Live
      BY <2>2, AtWork DEF RollOver, CycleSet
    <2>. HIDE DEF c
    <2>. QED
      BY <2>1, <2>2, <2>3, WorkSaves, WorkDecides
  <1>4. CASE Count(p)
    <2>1. pc[p] = "count" /\ pc[p] \in LivePlaces
      BY <1>4 DEF Count, At, LivePlaces, MinePlaces
    <2>2. CASE SaveStatus(p, "waiting", "release")
      BY <2>1, <2>2, WorkSavesStatus DEF Live, ItemPlaces, LoopPlaces
    <2>3. CASE RowsWith(mine[p].id, Unfinished) = {} /\ SaveStatus(p, "completed", "release")
      <3>. DEFINE c == [mine[p] EXCEPT !.status = "completed"]
      <3>1. c.id = cycle.id /\ c.status = "completed" /\ Save(p, c, "release")
        BY <2>1, <2>3, AtWork DEF CycleSet, SaveStatus
      <3>2. With(rows, cycle.id, Unfinished) = {}
        BY <2>1, <2>3, AtWork DEF With, RowsWith
      <3>. HIDE DEF c
      <3>3. Whole(rows, c)
        BY <3>1, <3>2 DEF Whole, Live
      <3>4. Ready(rows, item[p], scene.attempts, "release", c)
        BY Elsewhere DEF HoldPlaces, MinePlaces
      <3>. QED
        BY <2>1, <3>1, <3>3, <3>4, AtWork, WholeSaves
    <2>. QED
      BY <1>4, <2>2, <2>3 DEF Count
  <1>. QED
    BY <1>1, <1>2, <1>3, <1>4, WholeRecover, WholeRepair, WholeNextItem, WholeSkip, WholeClaim,
       WholeRequests, WholeSettlement DEF Working

\* Everybody waits for a turn.
LEMMA WholeIdle ==
  ASSUME \A q \in Runs : pc'[q] \notin HoldPlaces \cup Saving \cup {"work"},
         Whole(rows', cycle'), Tried(rows', scene'.attempts)
  PROVE  WInv'
  <1>1. ASSUME NEW q \in Runs PROVE Fine(q)'
    <2>1. Going(q)' = pc'[q] /\ Hand(q)' = cycle'
      BY DEF Going, Hand
    <2>2. Ready(rows', item'[q], scene'.attempts, pc'[q], cycle')
      BY Elsewhere
    <2>. QED
      BY <2>1, <2>2 DEF Fine
  <1>. QED BY <1>1 DEF WInv

LEMMA WholeBegins ==
  ASSUME OneScheduler, Core, WInv, NEW p \in Runs, Begin(p)
  PROVE  WInv'
  <1>1. \A q \in Runs : pc[q] = "idle"
    BY LibraryAssumption DEF Begin, StartRun, OneScheduler, Core, Solo, Quiet
  <1>2. Goto(p, "lease") /\ UNCHANGED <<rows, cycle, scene>>
    BY DEF Begin, StartRun, store, bounds
  <1>3. \A q \in Runs : pc'[q] \in {"idle", "lease"}
    BY <1>1, <1>2 DEF Goto, Core, IInv, TypeOK, ProcessType
  <1>4. {"idle", "lease"} \cap (HoldPlaces \cup Saving \cup {"work"}) = {}
    BY DEF HoldPlaces, MinePlaces, Saving
  <1>. QED
    BY <1>2, <1>3, <1>4, WholeIdle DEF WInv

\* Rows of the same status and attempts are as whole and as ready.
LEMMA SameRowsWhole ==
  ASSUME NEW rs, NEW ss,
         \A k \in RowKeys : rs[k].status = ss[k].status /\ rs[k].attempts = ss[k].attempts,
         NEW c \in CycleSet, Real(c)
  PROVE  /\ Whole(rs, c) => Whole(ss, c)
         /\ \A it, n, place : /\ place \in ItemPlaces => it.thread \in Threads
                              /\ Ready(rs, it, n, place, c)
                              => Ready(ss, it, n, place, c)
  <1>1. c.status # "none" => c.id \in Cycles
    BY DEF CycleSet, Real, Cycles
  <1>2. c.id \in Cycles => \A statuses : With(rs, c.id, statuses) = With(ss, c.id, statuses)
    BY DEF With, RowKeys
  <1>3. Whole(rs, c) => Whole(ss, c)
    BY <1>1, <1>2 DEF Whole, Live
  <1>4. ASSUME NEW it, NEW n, NEW place, Ready(rs, it, n, place, c),
               place \in ItemPlaces => it.thread \in Threads
        PROVE  Ready(ss, it, n, place, c)
    <2>1. place \in LoopPlaces => c.id \in Cycles
      BY <1>1, <1>4 DEF Ready, LoopPlaces, LivePlaces, ItemPlaces, MinePlaces, Live
    <2>2. ItemPlaces \subseteq LoopPlaces
      BY DEF LoopPlaces
    <2>3. \A th \in Threads : c.id \in Cycles => <<c.id, th>> \in RowKeys
      BY DEF RowKeys
    <2>. QED
      BY <1>4, <2>1, <2>2, <2>3 DEF Ready
  <1>. QED BY <1>3, <1>4

\* Time and the end of a tab leave the rows what they are.
LEMMA SameTried ==
  ASSUME WInv, scene' = scene,
         \A k \in RowKeys : rows'[k].status = rows[k].status /\ rows'[k].attempts = rows[k].attempts
  PROVE  Tried(rows', scene'.attempts)
  BY DEF WInv, Tried

LEMMA WholeTime ==
  ASSUME Core, WInv, UNCHANGED <<pc, item, scene>>,
         \A k \in RowKeys : rows'[k].status = rows[k].status /\ rows'[k].attempts = rows[k].attempts,
         cycle'.id = cycle.id, cycle'.status = cycle.status, cycle'.total = cycle.total,
         \A q \in Runs :
           /\ draft'[q].then = draft[q].then
           /\ draft'[q].cycle.id = draft[q].cycle.id
           /\ draft'[q].cycle.status = draft[q].cycle.status
           /\ draft'[q].cycle.total = draft[q].cycle.total
  PROVE  WInv'
  <1>1. cycle \in CycleSet /\ Real(cycle)
    BY DEF Core, IInv, TypeOK, StoreType
  <1>2. Whole(rows', cycle)
    BY <1>1, SameRowsWhole DEF WInv
  <1>3. Whole(rows', cycle')
    BY <1>2, SameCycle
  <1>4. ASSUME NEW q \in Runs PROVE Fine(q)'
    <2>. DEFINE c == Hand(q)
                place == Going(q)
    <2>1. c \in CycleSet /\ Real(c) /\ (place \in ItemPlaces => item[q].thread \in Threads)
      BY <1>1 DEF Hand, Going, Core, IInv, TypeOK, ProcessType, PlaceInv, Fits
    <2>2. Whole(rows, c) /\ Ready(rows, item[q], scene.attempts, place, c)
      BY DEF WInv, Fine
    <2>. HIDE DEF c, place
    <2>3. Whole(rows', c) /\ Ready(rows', item[q], scene.attempts, place, c)
      BY <2>1, <2>2, SameRowsWhole
    <2>4. PICK d : d = Hand(q)'
      OBVIOUS
    <2>5. d.id = c.id /\ d.status = c.status /\ d.total = c.total
      BY <2>4 DEF Hand, c
    <2>6. Going(q)' = place
      BY DEF Going, place
    <2>7. Whole(rows', d) /\ Ready(rows', item[q], scene.attempts, place, d)
      BY <2>3, <2>5, SameCycle
    <2>. QED
      BY <2>4, <2>6, <2>7 DEF Fine
  <1>. QED
    BY <1>3, <1>4, SameTried DEF WInv

LEMMA WholeClock ==
  ASSUME OneScheduler, Core, WInv,
         \/ NextDay \/ LeaseExpires \/ BlockEnds \/ UNCHANGED vars
         \/ \E k \in RowKeys : ClaimExpires(k) \/ RetryDue(k)
  PROVE  WInv'
  <1>1. CASE NextDay \/ LeaseExpires \/ UNCHANGED vars
    <2>1. UNCHANGED <<pc, item, scene, rows, cycle, draft>>
      BY <1>1 DEF NextDay, LeaseExpires, vars, store, local, bounds
    <2>. QED
      BY <2>1, WholeTime
  <1>2. CASE \E k \in RowKeys : ClaimExpires(k) \/ RetryDue(k)
    <2>1. PICK k \in RowKeys : ClaimExpires(k) \/ RetryDue(k)
      BY <1>2
    <2>2. UNCHANGED <<pc, item, scene, cycle, draft>>
      BY <2>1 DEF ClaimExpires, RetryDue, local, bounds
    <2>3. rows[k] \in RowSet /\ rows \in [RowKeys -> RowSet]
      BY DEF Core, IInv, TypeOK, StoreType
    <2>4. \E row : /\ rows' = [rows EXCEPT ![k] = row]
                   /\ row.status = rows[k].status /\ row.attempts = rows[k].attempts
      <3>1. /\ [rows[k] EXCEPT !.live = FALSE].status = rows[k].status
            /\ [rows[k] EXCEPT !.live = FALSE].attempts = rows[k].attempts
            /\ [rows[k] EXCEPT !.due = TRUE].status = rows[k].status
            /\ [rows[k] EXCEPT !.due = TRUE].attempts = rows[k].attempts
        BY <2>3 DEF RowSet
      <3>2. \/ rows' = [rows EXCEPT ![k] = [rows[k] EXCEPT !.live = FALSE]]
            \/ rows' = [rows EXCEPT ![k] = [rows[k] EXCEPT !.due = TRUE]]
        BY <2>1 DEF ClaimExpires, RetryDue
      <3>. QED BY <3>1, <3>2
    <2>5. \A j \in RowKeys : rows'[j].status = rows[j].status /\ rows'[j].attempts = rows[j].attempts
      BY <2>3, <2>4
    <2>. QED
      BY <2>2, <2>5, WholeTime
  <1>3. CASE BlockEnds
    <2>1. /\ UNCHANGED <<pc, item, scene, rows>> /\ cycle' = [cycle EXCEPT !.blocked = FALSE]
          /\ draft' = [q \in Runs |-> [draft[q] EXCEPT !.cycle.blocked = FALSE]]
      BY <1>3 DEF BlockEnds, bounds
    <2>2. cycle'.id = cycle.id /\ cycle'.status = cycle.status /\ cycle'.total = cycle.total
      BY <2>1 DEF Core, IInv, TypeOK, StoreType, CycleSet
    <2>3. ASSUME NEW q \in Runs
          PROVE  /\ draft'[q].then = draft[q].then /\ draft'[q].cycle.id = draft[q].cycle.id
                 /\ draft'[q].cycle.status = draft[q].cycle.status
                 /\ draft'[q].cycle.total = draft[q].cycle.total
      BY <2>1 DEF Core, IInv, TypeOK, ProcessType, CycleSet
    <2>. QED
      BY <2>1, <2>2, <2>3, WholeTime
  <1>. QED BY <1>1, <1>2, <1>3

LEMMA WholeCloses ==
  ASSUME OneScheduler, Core, WInv, NEW t \in Tabs, CloseTab(t)
  PROVE  WInv'
  <1>1. \A q \in Runs : pc'[q] = "idle"
    BY SoloCloses
  <1>2. /\ rows' = [k \in RowKeys |-> IF rows[k].by = t THEN [rows[k] EXCEPT !.by = Nobody] ELSE rows[k]]
        /\ UNCHANGED <<cycle, scene>>
    BY DEF CloseTab
  <1>3. \A k \in RowKeys : rows'[k].status = rows[k].status /\ rows'[k].attempts = rows[k].attempts
    BY <1>2 DEF Core, IInv, TypeOK, StoreType, RowSet
  <1>4. cycle \in CycleSet /\ Real(cycle) /\ Whole(rows, cycle)
    BY DEF Core, IInv, TypeOK, StoreType, WInv
  <1>5. Whole(rows', cycle')
    BY <1>2, <1>3, <1>4, SameRowsWhole
  <1>6. "idle" \notin HoldPlaces \cup Saving \cup {"work"}
    BY DEF HoldPlaces, MinePlaces, Saving
  <1>. QED
    BY <1>1, <1>2, <1>3, <1>5, <1>6, SameTried, WholeIdle

LEMMA WholeNext ==
  ASSUME OneScheduler, Core, Core', WInv, [Next]_vars
  PROVE  WInv'
  <1>1. ASSUME NEW p \in Runs, Steps(p) PROVE WInv'
    BY <1>1, WholeAccounts, WholeWrites, WholeScheduling, WholeSnapshot, WholeWorking, NoCommands DEF Steps
  <1>. QED
    BY <1>1, WholeBegins, WholeRequests, NoCommands, WholeClock, WholeCloses DEF Next

LEMMA QuietInit ==
  ASSUME Init, scene.asks = 0
  PROVE  Core /\ WInv
  <1>1. IInv
    BY InitInv
  <1>2. \A q \in Runs : pc[q] = "idle"
    BY DEF Init
  <1>3. Solo
    BY DEF Init, Solo, Quiet, Saving, HoldPlaces, MinePlaces, CommandPlaces
  <1>4. Whole(rows, cycle)
    BY DEF Init, Whole, NoCycle, Fresh, Live
  <1>5. Tried(rows, scene.attempts)
    BY <1>1, Attempts DEF Init, Tried, NewRow
  <1>6. ASSUME NEW q \in Runs PROVE Fine(q)
    <2>1. Going(q) = "idle" /\ Hand(q) = cycle
      BY <1>2 DEF Going, Hand, Saving
    <2>2. "idle" \notin HoldPlaces \cup {"work"}
      BY DEF HoldPlaces, MinePlaces
    <2>3. Ready(rows, item[q], scene.attempts, "idle", cycle)
      BY <2>2, Elsewhere
    <2>. QED
      BY <1>4, <2>1, <2>3 DEF Fine
  <1>. QED
    BY <1>1, <1>3, <1>4, <1>5, <1>6 DEF Core, WInv

\* What is true of a scene without commands.
QuietInv == scene.asks = 0 => Core /\ WInv

(* However often a tab is closed or frozen over a row, and whoever recovers  *)
(* it: a cycle that is called completed has no unfinished row, and one that  *)
(* can be worked on has all the rows it was published with.                  *)
THEOREM CyclesWhole ==
  ASSUME OneScheduler
  PROVE  Spec => []CyclesAreWhole
  <1>1. Init => IInv /\ QuietInv
    BY InitInv, QuietInit DEF QuietInv
  <1>2. IInv /\ QuietInv /\ [Next]_vars => (IInv /\ QuietInv)'
    BY NextInv, SceneStays, SoloNext, WholeNext DEF QuietInv
  <1>3. IInv /\ QuietInv => CyclesAreWhole
    <2>1. ASSUME Whole(rows, cycle) PROVE CompletedIsDone /\ PublishedComplete
      BY <2>1 DEF Whole, CompletedIsDone, PublishedComplete, With, RowsWith, Live
    <2>. QED
      BY <2>1 DEF QuietInv, WInv, CyclesAreWhole
  <1>. QED
    BY <1>1, <1>2, <1>3, PTL DEF Spec

-----------------------------
(* The ledger: what is charged to a day, and what the cycle and the row of *)
(* the allowance say of it.                                                *)

Days == 1 .. MaxDay
ClaimedPlaces == ItemPlaces \ {"skip", "allow"}

\* The day its row had that a process may still give back to it.
InHand(p) ==
  IF Going(p) \in ItemPlaces THEN {<<item[p].row.day, <<Hand(p).id, item[p].thread>>>>} ELSE {}
Held == UNION {InHand(p) : p \in Runs}

\* The rows that are charged to day d: a request was made for them on it, they
\* were claimed on it, or they are about to be given back to it.
Charges(as, rs, hs, d) ==
  {k \in RowKeys : <<d, k[1], k[2]>> \in as \/ rs[k].day = d \/ <<d, k>> \in hs}
Tally == [d \in Days |-> Cardinality(Charges(asked, rows, Held, d))]

\* No more than n rows are charged to day d, but for one for each closed tab.
Under(tally, extra, n, d) == d \in Days => tally[d] <= n + extra
Within(n, d) == Under(Tally, closed, n, d)

\* What a ledger row or a cycle says of its day covers the rows charged to it.
Balanced(c, owed) ==
  /\ c.day <= today /\ c.used <= scene.cap
  /\ Within(c.used + owed, c.day)
  /\ \A d \in Days : d > c.day => Within(0, d)

\* A claim is written before its entry in the ledger.
Owes(p) == pc[p] \in Saving /\ draft[p].then = "guard"
Debt == IF \E p \in Runs : Owes(p) THEN 1 ELSE 0
Less(n) == IF n > 0 THEN n - 1 ELSE n

\* putCycle() is called with a cycle whose account covers its day in the end.
Accountable(p) ==
  LET c == draft[p].cycle
  IN  /\ c.day <= today /\ c.used <= scene.cap
      /\ draft[p].then = "guard" => /\ c.day = allowance.day /\ ~draft[p].refund
                                    /\ Within(c.used, c.day)
      /\ draft[p].refund => Within(Less(allowance.used), allowance.day)

\* An item is taken on the day of the cycle, or on one nothing is charged to yet.
Dated(p) ==
  /\ pc[p] \in Saving /\ draft[p].then = "allow" =>
       /\ allowance.day < item[p].day
       /\ item[p].day <= draft[p].cycle.day
  /\ pc[p] = "allow" =>
       /\ item[p].day <= cycle.day
       /\ item[p].day # cycle.day => Within(0, item[p].day)

\* A claimed row is charged to the day of its item.  If the cycle went on to
\* another day, the claim can be refunded there.
Charged(p) ==
  Going(p) \in ClaimedPlaces =>
    /\ rows[<<Hand(p).id, item[p].thread>>].day = item[p].day
    /\ Consumes(p) /\ item[p].day # Hand(p).day => Within(Less(Hand(p).used), Hand(p).day)

Ledger(p) ==
  /\ pc[p] = "account" => Accountable(p)
  /\ pc[p] = "write" => Balanced(draft[p].cycle, 0)
  /\ Dated(p) /\ Charged(p)

\* Both rows of putCycle() are written in one transaction.
Linked == cycle.id # 0 => allowance.day = cycle.day /\ allowance.used = cycle.used

LInv ==
  /\ Linked /\ Balanced(allowance, Debt)
  /\ \A d \in Days : Within(scene.cap, d)
  /\ \A p \in Runs : Ledger(p)

LEMMA RowKeysFinite == IsFiniteSet(RowKeys)
  <1>1. IsFiniteSet(Cycles)
    BY LibraryAssumption, FS_Interval DEF Cycles
  <1>. QED
    BY <1>1, LibraryAssumption, FS_Product DEF RowKeys

LEMMA ChargesCount ==
  ASSUME NEW as, NEW rs, NEW hs, NEW d
  PROVE  /\ IsFiniteSet(Charges(as, rs, hs, d)) /\ Cardinality(Charges(as, rs, hs, d)) \in Nat
  <1>1. Charges(as, rs, hs, d) \subseteq RowKeys
    BY DEF Charges
  <1>. QED
    BY <1>1, RowKeysFinite, FS_Subset, FS_CardinalityType

LEMMA TallyType == Tally \in [Days -> Nat] /\ Tally' \in [Days -> Nat]
  BY ChargesCount DEF Tally

LEMMA DebtType == Debt \in {0, 1} /\ Debt' \in {0, 1}
  BY DEF Debt

\* The numbers the ledger compares.
LEMMA Numbers ==
  ASSUME Core
  PROVE  /\ today \in Days /\ closed \in Nat /\ scene.cap \in Nat \ {0}
         /\ allowance.day \in 0 .. MaxDay /\ allowance.used \in Nat
         /\ cycle.day \in 0 .. MaxDay /\ cycle.used \in Nat /\ MaxDay \in Nat
         /\ \A p \in Runs : /\ item[p].day \in 0 .. MaxDay
                            /\ mine[p].day \in 0 .. MaxDay /\ mine[p].used \in Nat
                            /\ draft[p].cycle.day \in 0 .. MaxDay /\ draft[p].cycle.used \in Nat
                            /\ Hand(p).day \in 0 .. MaxDay /\ Hand(p).used \in Nat
  <1>1. /\ today \in Days /\ MaxDay \in Nat
    BY LibraryAssumption DEF Core, IInv, TypeOK, BoundType, Days
  <1>2. closed \in Nat /\ scene.cap \in Nat \ {0}
    BY LibraryAssumption DEF Core, IInv, TypeOK, BoundType
  <1>3. /\ allowance.day \in 0 .. MaxDay /\ allowance.used \in Nat
        /\ cycle.day \in 0 .. MaxDay /\ cycle.used \in Nat
    BY DEF Core, IInv, TypeOK, StoreType, CycleSet
  <1>4. \A p \in Runs : /\ item[p].day \in 0 .. MaxDay
                        /\ mine[p].day \in 0 .. MaxDay /\ mine[p].used \in Nat
                        /\ draft[p].cycle.day \in 0 .. MaxDay /\ draft[p].cycle.used \in Nat
    BY DEF Core, IInv, TypeOK, ProcessType, CycleSet
  <1>. QED
    BY <1>1, <1>2, <1>3, <1>4 DEF Hand

LEMMA NumbersNext ==
  ASSUME Core'
  PROVE  today' \in Days /\ closed' \in Nat
  BY LibraryAssumption DEF Core, IInv, TypeOK, BoundType, Days

LEMMA Chain ==
  \A x, y, n, D, E, c, e \in Nat : x <= n + D + c /\ y <= x /\ E + e >= D + c => y <= n + E + e
  OBVIOUS

\* Only the active process holds an item.
LEMMA HeldByOne ==
  ASSUME NEW p \in Runs, \A q \in Others(p) : pc[q] = "idle"
  PROVE  Held = InHand(p)
  <1>1. \A q \in Others(p) : InHand(q) = {}
    BY DEF InHand, Going, Saving, ItemPlaces
  <1>. QED
    BY <1>1 DEF Held, Others

LEMMA DebtOfOne ==
  ASSUME NEW p \in Runs, \A q \in Others(p) : pc[q] = "idle"
  PROVE  Debt = IF Owes(p) THEN 1 ELSE 0
  <1>1. \A q \in Others(p) : ~Owes(q)
    BY DEF Owes, Saving
  <1>. QED
    BY <1>1 DEF Debt, Others

LEMMA HeldNext ==
  ASSUME NEW p \in Runs, \A q \in Others(p) : pc'[q] = "idle"
  PROVE  Held' = InHand(p)'
  <1>1. \A q \in Others(p) : InHand(q)' = {}
    BY DEF InHand, Going, Saving, ItemPlaces
  <1>. QED
    BY <1>1 DEF Held, Others

LEMMA DebtNext ==
  ASSUME NEW p \in Runs, \A q \in Others(p) : pc'[q] = "idle"
  PROVE  Debt' = IF Owes(p)' THEN 1 ELSE 0
  <1>1. \A q \in Others(p) : ~Owes(q)'
    BY DEF Owes, Saving
  <1>. QED
    BY <1>1 DEF Debt, Others

\* An idle process has nothing to account for.
LEMMA IdleLedger ==
  ASSUME NEW q \in Runs, pc'[q] \notin Saving \cup ItemPlaces
  PROVE  Ledger(q)'
  BY DEF Ledger, Dated, Charged, Going, Saving, ItemPlaces, ClaimedPlaces

\* Fewer rows are charged to a day.
LEMMA TallyFallsAt ==
  ASSUME NEW d \in Days, Charges(asked', rows', Held', d) \subseteq Charges(asked, rows, Held, d)
  PROVE  Tally'[d] <= Tally[d]
  <1>1. PICK S : S = Charges(asked, rows, Held, d)
    OBVIOUS
  <1>2. PICK T : T = Charges(asked', rows', Held', d)
    OBVIOUS
  <1>3. IsFiniteSet(S) /\ T \subseteq S
    BY <1>1, <1>2, ChargesCount
  <1>4. Cardinality(T) <= Cardinality(S)
    BY <1>3, FS_Subset
  <1>. QED
    BY <1>1, <1>2, <1>4 DEF Tally

LEMMA TallyFalls ==
  ASSUME \A d \in Days : Charges(asked', rows', Held', d) \subseteq Charges(asked, rows, Held, d)
  PROVE  \A d \in Days : Tally'[d] <= Tally[d]
  BY TallyFallsAt

\* Fewer charges, or a closed tab for the one that is owed, keep every account.
LEMMA LedgerKeeps ==
  ASSUME Core, Core', LInv, UNCHANGED <<allowance, scene>>, Linked', today' >= today,
         closed' >= closed, Debt' + closed' >= Debt + closed,
         \A d \in Days : Tally'[d] <= Tally[d],
         \A q \in Runs : Ledger(q)'
  PROVE  LInv'
  <1>1. Tally \in [Days -> Nat] /\ Tally' \in [Days -> Nat]
    BY TallyType
  <1>2. Debt \in {0, 1} /\ Debt' \in {0, 1}
    BY DebtType
  <1>n. /\ closed \in Nat /\ closed' \in Nat /\ today \in Nat /\ today' \in Nat
        /\ scene.cap \in Nat /\ allowance.day \in Nat /\ allowance.used \in Nat
    BY Numbers, NumbersNext DEF Days
  <1>3. \A d \in Days : Within(scene.cap, d)'
    BY <1>1, <1>n DEF LInv, Within, Under
  <1>4. Balanced(allowance, Debt)'
    <2>1. Within(allowance.used + Debt, allowance.day)'
      <3>1. allowance'.used = allowance.used /\ allowance'.day = allowance.day
        OBVIOUS
      <3>2. PICK n : n = allowance.used /\ n \in Nat
        BY <1>n
      <3>3. PICK d : d = allowance.day
        OBVIOUS
      <3>4. ASSUME d \in Days PROVE Tally'[d] <= n + Debt' + closed'
        <4>1. Tally[d] <= n + Debt + closed
          BY <3>2, <3>3, <3>4 DEF LInv, Balanced, Within, Under
        <4>2. Tally[d] \in Nat /\ Tally'[d] \in Nat /\ Tally'[d] <= Tally[d]
          BY <1>1, <3>4
        <4>3. PICK D, E : D = Debt /\ E = Debt' /\ D \in Nat /\ E \in Nat /\ E + closed' >= D + closed
          BY <1>2
        <4>4. PICK x, y, c, e : /\ x = Tally[d] /\ y = Tally'[d] /\ c = closed /\ e = closed'
                                /\ {x, y, c, e} \subseteq Nat
          BY <1>n, <4>2
        <4>5. y <= n + E + e
          BY <3>2, <4>1, <4>2, <4>3, <4>4, Chain
        <4>. QED
          BY <4>3, <4>4, <4>5
      <3>. QED
        BY <3>1, <3>2, <3>3, <3>4 DEF Within, Under
    <2>2. \A d \in Days : d > allowance'.day => Within(0, d)'
      BY <1>1, <1>2, <1>n DEF LInv, Balanced, Within, Under
    <2>. QED
      BY <2>1, <2>2, <1>n DEF LInv, Balanced
  <1>. QED
    BY <1>3, <1>4 DEF LInv

\* The active process goes on, away from the ledger or to it.
LEMMA LedgerMoves ==
  ASSUME OneScheduler, Core, Core', LInv, NEW p \in Runs, pc[p] # "idle", pc[p] \notin Saving,
         UNCHANGED <<allowance, scene, today, closed>>, Linked',
         \A q \in Others(p) : pc'[q] = "idle",
         \A d \in Days : Charges(asked', rows', InHand(p)', d) \subseteq Charges(asked, rows, InHand(p), d),
         Ledger(p)'
  PROVE  LInv'
  <1>1. Held = InHand(p) /\ Debt = 0
    BY OthersIdle, HeldByOne, DebtOfOne DEF Owes
  <1>2. Held' = InHand(p)'
    BY HeldNext
  <1>3. \A d \in Days : Tally'[d] <= Tally[d]
    BY <1>1, <1>2, TallyFalls
  <1>4. \A q \in Runs : Ledger(q)'
    <2>1. ASSUME NEW q \in Others(p) PROVE Ledger(q)'
      <3>1. q \in Runs /\ pc'[q] \notin Saving \cup ItemPlaces
        BY DEF Others, Saving, ItemPlaces
      <3>. QED BY <3>1, IdleLedger
    <2>. QED
      BY <2>1 DEF Others
  <1>5. Debt' \in {0, 1}
    BY DebtType
  <1>6. today' >= today /\ closed' >= closed /\ Debt' + closed' >= Debt + closed
    BY <1>1, <1>5, Numbers DEF Days
  <1>. QED
    BY <1>3, <1>4, <1>6, LedgerKeeps

\* The day of a row stays, or its row goes.
DaysStay == \A k \in RowKeys : rows'[k].day \in {rows[k].day, 0}

LEMMA OthersStayIdle ==
  ASSUME OneScheduler, Core, NEW p \in Runs, pc[p] # "idle",
         \/ \E place : Goto(p, place)
         \/ \E c, refund, place : Put(p, c, refund, place)
  PROVE  \A q \in Others(p) : pc'[q] = "idle"
  <1>1. \A q \in Others(p) : pc'[q] = pc[q]
    BY DEF Others, Goto, Put, Core, IInv, TypeOK, ProcessType
  <1>. QED
    BY <1>1, OthersIdle

\* It goes on to where it has no item and writes nothing.
LEMMA LedgerLeaves ==
  ASSUME OneScheduler, Core, Core', LInv, NEW p \in Runs, pc[p] # "idle", pc[p] \notin Saving,
         NEW place, place \notin Saving \cup ItemPlaces, Goto(p, place),
         UNCHANGED <<allowance, scene, today, closed, asked>>, Linked', DaysStay
  PROVE  LInv'
  <1>1. pc'[p] = place
    BY DEF Goto, Core, IInv, TypeOK, ProcessType
  <1>2. InHand(p)' = {}
    BY <1>1 DEF InHand, Going
  <1>3. Ledger(p)'
    BY <1>1, IdleLedger
  <1>4. \A d \in Days : Charges(asked', rows', InHand(p)', d) \subseteq Charges(asked, rows, InHand(p), d)
    BY <1>2 DEF Charges, DaysStay, Days
  <1>. QED
    BY <1>3, <1>4, OthersStayIdle, LedgerMoves

LEMMA LedgerDecides ==
  ASSUME OneScheduler, Core, Core', LInv, NEW p \in Runs, pc[p] # "idle", pc[p] \notin Saving,
         NEW place, place \notin Saving \cup ItemPlaces, Decide(p, place)
  PROVE  LInv'
  <1>1. Goto(p, place) /\ UNCHANGED <<allowance, cycle, rows, scene, today, closed, asked>>
    BY DEF Decide, store, bounds, ghosts
  <1>. QED
    BY <1>1, LedgerLeaves DEF LInv, Linked, DaysStay

LEMMA LedgerEnds ==
  ASSUME OneScheduler, Core, Core', LInv, NEW p \in Runs, pc[p] # "idle", pc[p] \notin Saving,
         Finish(p), UNCHANGED <<allowance, cycle, rows, scene, today, closed, asked>>
  PROVE  LInv'
  <1>1. Goto(p, "idle")
    BY DEF Finish
  <1>. QED
    BY <1>1, LedgerLeaves DEF LInv, Linked, DaysStay, Saving, ItemPlaces

\* It calls putCycle() for a cycle of the day, away from an item.
LEMMA LedgerPuts ==
  ASSUME OneScheduler, Core, Core', LInv, NEW p \in Runs, pc[p] # "idle", pc[p] \notin Saving,
         NEW c, NEW refund, NEW place, place \notin ItemPlaces, Put(p, c, refund, place),
         c.day <= today, c.used <= scene.cap, refund => Within(Less(allowance.used), allowance.day)',
         UNCHANGED <<allowance, cycle, scene, today, closed>>,
         \A d \in Days : Charges(asked', rows', {}, d) \subseteq Charges(asked, rows, InHand(p), d)
  PROVE  LInv'
  <1>1. /\ pc'[p] = "account" /\ draft'[p].then = place /\ draft'[p].cycle = c
        /\ draft'[p].refund = refund
    BY DEF Put, Goto, Core, IInv, TypeOK, ProcessType
  <1>2. InHand(p)' = {} /\ Going(p)' = place
    BY <1>1 DEF InHand, Going, Saving
  <1>3. Ledger(p)'
    BY <1>1, <1>2 DEF Ledger, Accountable, Dated, Charged, ClaimedPlaces, ItemPlaces
  <1>4. Linked'
    BY DEF LInv, Linked
  <1>. QED
    BY <1>2, <1>3, <1>4, OthersStayIdle, LedgerMoves

LEMMA LedgerSaves ==
  ASSUME OneScheduler, Core, Core', LInv, NEW p \in Runs, pc[p] # "idle", pc[p] \notin Saving,
         NEW c, NEW place, place \notin ItemPlaces, Save(p, c, place),
         c.day <= today, c.used <= scene.cap
  PROVE  LInv'
  <1>1. /\ Put(p, c, FALSE, place)
        /\ UNCHANGED <<allowance, cycle, rows, scene, today, closed, asked>>
    BY DEF Save, store, bounds, ghosts
  <1>2. \A d \in Days : Charges(asked', rows', {}, d) \subseteq Charges(asked, rows, InHand(p), d)
    BY <1>1 DEF Charges
  <1>. QED
    BY <1>1, <1>2, LedgerPuts

\* The stored cycle, and its copies, are within the allowance.
LEMMA CycleWithin ==
  ASSUME Core, LInv
  PROVE  cycle.id # 0 =>
           /\ cycle.day <= today /\ cycle.used <= scene.cap
           /\ cycle.day = allowance.day /\ cycle.used = allowance.used
  BY DEF LInv, Linked, Balanced

LEMMA LedgerSavesStatus ==
  ASSUME OneScheduler, Core, Core', WInv, LInv, NEW p \in Runs, pc[p] \in LivePlaces,
         NEW status, NEW place, place \notin ItemPlaces, SaveStatus(p, status, place)
  PROVE  LInv'
  <1>. DEFINE c == [mine[p] EXCEPT !.status = status]
  <1>1. /\ pc[p] # "idle" /\ pc[p] \notin Saving /\ mine[p] = cycle /\ cycle.id # 0
    BY AtWork DEF LivePlaces, MinePlaces, Saving, Cycles
  <1>2. c.day = cycle.day /\ c.used = cycle.used /\ Save(p, c, place)
    BY <1>1 DEF SaveStatus, Core, IInv, TypeOK, StoreType, CycleSet
  <1>. HIDE DEF c
  <1>. QED
    BY <1>1, <1>2, CycleWithin, LedgerSaves

\* What a day is within, it stays within.
LEMMA WithinKeeps ==
  ASSUME Core, Core', closed' >= closed, \A d \in Days : Tally'[d] <= Tally[d]
  PROVE  \A n, m \in Nat : n <= m => \A d : Within(n, d) => Under(Tally', closed', m, d)
  <1>1. ASSUME NEW n \in Nat, NEW m \in Nat, n <= m, NEW d \in Days, Tally[d] <= n + closed
        PROVE  Tally'[d] <= m + closed'
    <2>1. PICK x, y, c, e : /\ x = Tally[d] /\ y = Tally'[d] /\ c = closed /\ e = closed'
                            /\ x \in Nat /\ y \in Nat /\ c \in Nat /\ e \in Nat
      BY <1>1, TallyType, Numbers, NumbersNext
    <2>2. x <= n + c /\ y <= x /\ e >= c
      BY <1>1, <2>1
    <2>3. y <= m + e
      BY <1>1, <2>1, <2>2
    <2>. QED
      BY <2>1, <2>3
  <1>. QED
    BY <1>1 DEF Within, Under

\* The usage putCycle() writes: no less than the ledger's, but for what is refunded.
LEMMA AccountedUse ==
  ASSUME NEW c \in CycleSet, NEW refund \in BOOLEAN, NEW cap \in Nat,
         today \in Nat, allowance.day \in Nat, allowance.used \in Nat,
         c.day <= today, allowance.day <= today, c.used <= cap, allowance.used <= cap
  PROVE  LET a == Accounted(c, refund)
         IN  /\ a.id = c.id /\ a.day = today /\ a.used \in Nat /\ a.used <= cap
             /\ allowance.day = today =>
                  /\ a.used >= IF refund THEN Less(allowance.used) ELSE allowance.used
                  /\ c.day = today => a.used >= c.used
  <1>. DEFINE a == Accounted(c, refund)
              floor == IF refund /\ allowance.id = c.id /\ c.day = today /\ allowance.used > 0
                       THEN allowance.used - 1 ELSE allowance.used
              used == IF c.day = today THEN c.used ELSE 0
  <1>1. c.day \in Nat /\ c.used \in Nat
    BY LibraryAssumption DEF CycleSet
  <1>2. Larger(today, Larger(c.day, allowance.day)) = today
    BY <1>1 DEF Larger
  <1>3. a = [c EXCEPT !.day = today,
                      !.used = IF allowance.day = today THEN Larger(floor, used) ELSE used]
    BY <1>2 DEF Accounted
  <1>4. /\ a.id = c.id /\ a.day = today
        /\ a.used = IF allowance.day = today THEN Larger(floor, used) ELSE used
    BY <1>3 DEF CycleSet
  <1>5. /\ floor \in Nat /\ floor <= cap
        /\ floor >= IF refund THEN Less(allowance.used) ELSE allowance.used
    BY DEF Less
  <1>6. used \in Nat /\ used <= cap /\ (c.day = today => used = c.used)
    BY <1>1
  <1>. HIDE DEF a, floor, used
  <1>7. Larger(floor, used) \in Nat /\ Larger(floor, used) <= cap
    BY <1>5, <1>6 DEF Larger
  <1>8. Larger(floor, used) >= floor /\ Larger(floor, used) >= used
    BY <1>5, <1>6 DEF Larger
  <1>9. allowance.day = today =>
          /\ a.used >= IF refund THEN Less(allowance.used) ELSE allowance.used
          /\ c.day = today => a.used >= c.used
    <2>1. Less(allowance.used) \in Nat
      BY DEF Less
    <2>. QED
      BY <1>1, <1>4, <1>5, <1>6, <1>7, <1>8, <2>1
  <1>. QED
    BY <1>4, <1>6, <1>7, <1>9 DEF a

\* The active process has the ledger in order, and the others nothing to account for.
LEMMA LedgerOfAll ==
  ASSUME NEW p \in Runs, \A q \in Others(p) : pc'[q] = "idle", Ledger(p)'
  PROVE  \A q \in Runs : Ledger(q)'
  <1>1. ASSUME NEW q \in Others(p) PROVE Ledger(q)'
    <2>1. q \in Runs /\ pc'[q] \notin Saving \cup ItemPlaces
      BY DEF Others, Saving, ItemPlaces
    <2>. QED BY <2>1, IdleLedger
  <1>. QED
    BY <1>1 DEF Others

\* putCycle() is called: the cycle is accounted for.
LEMMA LedgerAccounts ==
  ASSUME OneScheduler, Core, Core', LInv, NEW p \in Runs, Account(p)
  PROVE  LInv'
  <1>. DEFINE c == draft[p].cycle
              a == Accounted(c, draft[p].refund)
  <1>1. /\ pc[p] = "account" /\ pc'[p] = "write"
        /\ UNCHANGED <<allowance, cycle, rows, scene, today, closed, asked, item>>
    BY DEF Account, At, Goto, store, local, bounds, ghosts, Core, IInv, TypeOK, ProcessType
  <1>2. draft'[p].cycle = a /\ draft'[p].then = draft[p].then /\ draft'[p].refund = draft[p].refund
    BY DEF Account, Core, IInv, TypeOK, ProcessType
  <1>3. \A q \in Others(p) : pc[q] = "idle" /\ pc'[q] = "idle"
    BY <1>1, OthersIdle DEF Account, Goto, Others, Core, IInv, TypeOK, ProcessType
  <1>4. c \in CycleSet /\ draft[p].refund \in BOOLEAN /\ draft[p].then \in Thens
    BY <1>1 DEF Core, IInv, TypeOK, ProcessType, Solo, Quiet, Saving
  <1>5. /\ Accountable(p) /\ Dated(p) /\ Charged(p)
        /\ Balanced(allowance, Debt) /\ Linked
    BY <1>1 DEF LInv, Ledger
  <1>6. /\ today \in Days /\ today \in Nat /\ scene.cap \in Nat /\ closed \in Nat
        /\ allowance.day \in Nat /\ allowance.used \in Nat /\ allowance.day <= today
        /\ allowance.used <= scene.cap /\ c.day \in Nat /\ c.used \in Nat
        /\ c.day <= today /\ c.used <= scene.cap
    BY <1>5, Numbers DEF Days, Accountable, Balanced
  <1>. HIDE DEF a
  <1>7. /\ a.id = c.id /\ a.day = today /\ a.used \in Nat /\ a.used <= scene.cap
        /\ allowance.day = today =>
             /\ a.used >= IF draft[p].refund THEN Less(allowance.used) ELSE allowance.used
             /\ c.day = today => a.used >= c.used
    BY <1>4, <1>6, AccountedUse DEF a
  <1>8. /\ Going(p) = draft[p].then /\ Going(p)' = draft[p].then
        /\ Hand(p) = c /\ Hand(p)' = a
    BY <1>1, <1>2 DEF Going, Hand, Saving
  <1>9. Held' = Held /\ Debt' = Debt
    <2>1. InHand(p)' = InHand(p)
      BY <1>1, <1>7, <1>8 DEF InHand
    <2>2. Owes(p)' <=> Owes(p)
      BY <1>1, <1>2 DEF Owes, Saving
    <2>. QED
      BY <1>3, <2>1, <2>2, HeldByOne, HeldNext, DebtOfOne, DebtNext
  <1>10. \A d \in Days : Tally'[d] <= Tally[d]
    BY <1>1, <1>9, TallyFalls
  <1>11. \A n, m \in Nat : n <= m => \A d : Within(n, d) => Under(Tally', closed', m, d)
    BY <1>1, <1>6, <1>10, WithinKeeps
  <1>12. \A d \in Days : d > allowance.day => Within(0, d)
    BY <1>5 DEF Balanced
  <1>13. Under(Tally', closed', a.used, today)
    <2>1. CASE allowance.day # today
      BY <1>6, <1>7, <1>11, <1>12, <2>1
    <2>2. CASE allowance.day = today /\ draft[p].refund
      <3>1. Within(Less(allowance.used), today) /\ Less(allowance.used) \in Nat
        BY <1>5, <1>6, <2>2 DEF Accountable, Less
      <3>. QED
        BY <1>7, <1>11, <2>2, <3>1
    <2>3. CASE allowance.day = today /\ draft[p].then = "guard"
      <3>1. Within(c.used, c.day) /\ c.day = today
        BY <1>5, <2>3 DEF Accountable
      <3>. QED
        BY <1>6, <1>7, <1>11, <2>3, <3>1
    <2>4. CASE allowance.day = today /\ ~draft[p].refund /\ draft[p].then # "guard"
      <3>1. Debt = 0
        BY <1>3, <2>4, DebtOfOne DEF Owes
      <3>2. Within(allowance.used, today)
        BY <1>5, <1>6, <2>4, <3>1 DEF Balanced
      <3>. QED
        BY <1>6, <1>7, <1>11, <2>4, <3>2
    <2>. QED BY <1>4, <2>1, <2>2, <2>3, <2>4
  <1>14. Balanced(draft[p].cycle, 0)'
    <2>1. \A d \in Days : d > today => Under(Tally', closed', 0, d)
      <3>1. \A d \in Days : d > today => d > allowance.day
        BY <1>6 DEF Days
      <3>. QED
        BY <1>11, <1>12, <3>1
    <2>2. a.day <= today' /\ a.used <= scene'.cap /\ a.used + 0 = a.used
      BY <1>1, <1>6, <1>7
    <2>. QED
      BY <1>1, <1>2, <1>7, <1>13, <2>1, <2>2 DEF Balanced, Within
  <1>15. Dated(p)'
    <2>1. item[p].day \in Nat
      BY Numbers
    <2>2. draft[p].then = "allow" => allowance.day < item[p].day /\ item[p].day <= c.day
      BY <1>1, <1>5 DEF Dated, Saving
    <2>. QED
      BY <1>1, <1>2, <1>6, <1>7, <2>1, <2>2 DEF Dated, Saving
  <1>16. Charged(p)'
    <2>1. ASSUME Going(p) \in ClaimedPlaces, Consumes(p), item[p].day # a.day
          PROVE  Under(Tally', closed', Less(a.used), a.day)
      <3>1. Less(a.used) \in Nat /\ Less(c.used) \in Nat
        BY <1>6, <1>7 DEF Less
      <3>2. CASE allowance.day # today
        BY <1>6, <1>7, <1>11, <1>12, <3>1, <3>2
      <3>3. CASE allowance.day = today
        <4>1. draft[p].then = "guard"
          BY <1>4, <1>8, <2>1 DEF ClaimedPlaces, ItemPlaces, Thens
        <4>2. c.day = today
          BY <1>5, <3>3, <4>1 DEF Accountable
        <4>3. Within(Less(c.used), today)
          BY <1>5, <1>7, <1>8, <2>1, <4>2 DEF Charged
        <4>4. Less(c.used) <= Less(a.used)
          BY <1>6, <1>7, <3>3, <4>2 DEF Less
        <4>. QED
          BY <1>7, <1>11, <3>1, <4>3, <4>4
      <3>. QED BY <3>2, <3>3
    <2>2. Going(p) \in ClaimedPlaces => rows[<<a.id, item[p].thread>>].day = item[p].day
      BY <1>5, <1>7, <1>8 DEF Charged
    <2>3. Consumes(p)' <=> Consumes(p)
      BY <1>1 DEF Consumes
    <2>. QED
      BY <1>1, <1>8, <2>1, <2>2, <2>3 DEF Charged, Within
  <1>17. Ledger(p)'
    BY <1>1, <1>14, <1>15, <1>16 DEF Ledger
  <1>18. Linked'
    BY <1>1, <1>5 DEF Linked
  <1>19. today' >= today /\ closed' >= closed /\ Debt' + closed' >= Debt + closed
    BY <1>1, <1>6, <1>9, DebtType
  <1>20. \A q \in Runs : Ledger(q)'
    BY <1>3, <1>17, LedgerOfAll
  <1>. QED
    BY <1>1, <1>10, <1>18, <1>19, <1>20, LedgerKeeps

\* Both rows are written.
LEMMA LedgerWrites ==
  ASSUME OneScheduler, Core, Core', LInv, NEW p \in Runs, Write(p)
  PROVE  LInv'
  <1>. DEFINE c == draft[p].cycle
              place == draft[p].then
  <1>1. pc[p] = "write" /\ place \in Thens
    BY DEF Write, At, Core, Solo, Quiet, Saving
  <1>2. /\ pc'[p] = place /\ cycle' = c /\ allowance' = [id |-> c.id, day |-> c.day, used |-> c.used]
        /\ UNCHANGED <<rows, scene, today, closed, asked, item>>
    BY <1>1 DEF Write, Goto, Thens, bounds, ghosts, Core, IInv, TypeOK, ProcessType
  <1>3. \A q \in Others(p) : pc[q] = "idle" /\ pc'[q] = "idle"
    <2>1. \A q \in Others(p) : pc'[q] = pc[q]
      BY <1>1 DEF Write, Goto, Others, Thens, Core, IInv, TypeOK, ProcessType
    <2>. QED
      BY <1>1, <2>1, OthersIdle
  <1>4. Balanced(c, 0) /\ Dated(p) /\ Charged(p) /\ Balanced(allowance, Debt)
    BY <1>1 DEF LInv, Ledger
  <1>5. place \notin Saving
    BY <1>1 DEF Thens, Saving
  <1>6. Going(p) = place /\ Going(p)' = place /\ Hand(p) = c /\ Hand(p)' = c
    BY <1>1, <1>2, <1>5 DEF Going, Hand, Saving
  <1>7. Held' = Held
    <2>1. InHand(p)' = InHand(p)
      BY <1>2, <1>6 DEF InHand
    <2>. QED
      BY <1>3, <2>1, HeldByOne, HeldNext
  <1>8. Debt' = 0
    BY <1>2, <1>3, <1>5, DebtNext DEF Owes
  <1>9. Tally' = Tally
    BY <1>2, <1>7 DEF Tally
  <1>10. \A n, d : Within(n, d) => Within(n, d)'
    BY <1>2, <1>9 DEF Within, Under
  <1>11. Balanced(allowance, Debt)'
    <2>1. /\ allowance'.day = c.day /\ allowance'.used = c.used
      BY <1>2
    <2>2. PICK n, e : n = c.used /\ e = c.day
      OBVIOUS
    <2>3. /\ e <= today /\ n <= scene.cap /\ Within(n + 0, e)
          /\ \A d \in Days : d > e => Within(0, d)
      BY <1>4, <2>2 DEF Balanced
    <2>4. Within(n + 0, e)' /\ \A d \in Days : d > e => Within(0, d)'
      BY <1>10, <2>3
    <2>. QED
      BY <1>2, <1>8, <2>1, <2>2, <2>3, <2>4 DEF Balanced
  <1>12. Dated(p)'
    <2>1. ASSUME place = "allow" PROVE item[p].day <= c.day /\ Within(0, item[p].day)
      <3>1. allowance.day < item[p].day /\ item[p].day <= c.day
        BY <1>1, <1>4, <2>1 DEF Dated, Saving
      <3>2. item[p].day \in Nat /\ allowance.day \in Nat /\ today \in Days
        BY Numbers
      <3>3. item[p].day \in Days => Within(0, item[p].day)
        BY <1>4, <3>1, <3>2 DEF Balanced
      <3>. QED
        BY <3>1, <3>3 DEF Within, Under
    <2>. QED
      BY <1>2, <1>5, <1>10, <2>1 DEF Dated
  <1>13. Charged(p)'
    <2>1. Consumes(p)' <=> Consumes(p)
      BY <1>2 DEF Consumes
    <2>2. place \in ClaimedPlaces =>
            /\ rows[<<c.id, item[p].thread>>].day = item[p].day
            /\ Consumes(p) /\ item[p].day # c.day => Within(Less(c.used), c.day)
      BY <1>4, <1>6 DEF Charged
    <2>3. PICK n, e : n = Less(c.used) /\ e = c.day
      OBVIOUS
    <2>4. Within(n, e) => Within(n, e)'
      BY <1>10
    <2>5. Hand(p)'.used = c.used /\ Hand(p)'.day = c.day /\ Hand(p)'.id = c.id
      BY <1>6
    <2>. QED
      BY <1>2, <1>6, <2>1, <2>2, <2>3, <2>4, <2>5 DEF Charged, Less
  <1>14. Ledger(p)'
    BY <1>2, <1>5, <1>12, <1>13 DEF Ledger, Saving
  <1>15. \A q \in Runs : Ledger(q)'
    BY <1>3, <1>14, LedgerOfAll
  <1>16. \A d \in Days : Within(scene.cap, d)'
    BY <1>2, <1>10 DEF LInv
  <1>17. Linked'
    BY <1>2 DEF Linked
  <1>. QED
    BY <1>11, <1>15, <1>16, <1>17 DEF LInv

\* Nobody is at work after the step.
LEMMA LedgerRests ==
  ASSUME Core, Core', LInv, \A q \in Runs : pc'[q] \notin Saving \cup ItemPlaces,
         UNCHANGED <<allowance, cycle, scene, today, asked>>, DaysStay,
         closed' >= closed, closed' >= Debt + closed
  PROVE  LInv'
  <1>1. Held' = {}
    <2>1. \A q \in Runs : InHand(q)' = {}
      BY DEF InHand, Going
    <2>. QED
      BY <2>1 DEF Held
  <1>2. \A d \in Days : Tally'[d] <= Tally[d]
    <2>1. \A d \in Days : Charges(asked', rows', Held', d) \subseteq Charges(asked, rows, Held, d)
      BY <1>1 DEF Charges, DaysStay, Days
    <2>. QED
      BY <2>1, TallyFalls
  <1>3. Debt' = 0
    BY DEF Debt, Owes
  <1>4. \A q \in Runs : Ledger(q)'
    BY IdleLedger
  <1>5. Linked'
    BY DEF LInv, Linked
  <1>6. today' >= today /\ Debt' + closed' >= Debt + closed
    BY <1>3, Numbers, NumbersNext DEF Days
  <1>. QED
    BY <1>2, <1>4, <1>5, <1>6, LedgerKeeps

LEMMA LedgerBegins ==
  ASSUME OneScheduler, Core, Core', LInv, NEW p \in Runs, Begin(p)
  PROVE  LInv'
  <1>1. \A q \in Runs : pc[q] = "idle"
    BY LibraryAssumption DEF Begin, StartRun, OneScheduler, Core, Solo, Quiet
  <1>2. Goto(p, "lease") /\ UNCHANGED <<allowance, cycle, rows, scene, today, closed, asked>>
    BY DEF Begin, StartRun, store, bounds, ghosts
  <1>3. \A q \in Runs : pc'[q] \in {"idle", "lease"}
    BY <1>1, <1>2 DEF Goto, Core, IInv, TypeOK, ProcessType
  <1>4. {"idle", "lease"} \cap (Saving \cup ItemPlaces) = {}
    BY DEF ItemPlaces, Saving
  <1>5. Debt = 0
    BY <1>1 DEF Debt, Owes, Saving
  <1>6. closed' >= closed /\ closed' >= Debt + closed
    BY <1>2, <1>5, Numbers
  <1>. QED
    BY <1>2, <1>3, <1>4, <1>6, LedgerRests DEF DaysStay

\* A tab closes: the claim it made need not be in the ledger.
LEMMA LedgerCloses ==
  ASSUME OneScheduler, Core, Core', LInv, NEW t \in Tabs, CloseTab(t)
  PROVE  LInv'
  <1>1. \A q \in Runs : pc'[q] = "idle"
    BY SoloCloses
  <1>2. /\ rows' = [k \in RowKeys |-> IF rows[k].by = t THEN [rows[k] EXCEPT !.by = Nobody] ELSE rows[k]]
        /\ UNCHANGED <<allowance, cycle, scene, today, asked>> /\ closed' = closed + 1
    BY DEF CloseTab, ghosts
  <1>3. DaysStay
    BY <1>2 DEF DaysStay, Core, IInv, TypeOK, StoreType, RowSet
  <1>4. "idle" \notin Saving \cup ItemPlaces
    BY DEF Saving, ItemPlaces
  <1>5. closed' >= closed /\ closed' >= Debt + closed
    BY <1>2, DebtType, Numbers
  <1>. QED
    BY <1>1, <1>2, <1>3, <1>4, <1>5, LedgerRests

\* Time passes.
LEMMA LedgerTime ==
  ASSUME Core, Core', LInv, UNCHANGED <<pc, item, scene, allowance, asked, closed>>, today' >= today,
         \A k \in RowKeys : rows'[k].day = rows[k].day,
         cycle'.id = cycle.id, cycle'.day = cycle.day, cycle'.used = cycle.used,
         \A q \in Runs :
           /\ draft'[q].then = draft[q].then /\ draft'[q].refund = draft[q].refund
           /\ draft'[q].cycle.id = draft[q].cycle.id
           /\ draft'[q].cycle.day = draft[q].cycle.day
           /\ draft'[q].cycle.used = draft[q].cycle.used
  PROVE  LInv'
  <1>1. ASSUME NEW q \in Runs
        PROVE  /\ Going(q)' = Going(q) /\ Hand(q)'.id = Hand(q).id
               /\ Hand(q)'.day = Hand(q).day /\ Hand(q)'.used = Hand(q).used
    BY DEF Going, Hand
  <1>2. Held' = Held
    <2>1. \A q \in Runs : InHand(q)' = InHand(q)
      BY <1>1 DEF InHand
    <2>. QED
      BY <2>1 DEF Held
  <1>3. \A q \in Runs : Owes(q)' <=> Owes(q)
    BY DEF Owes
  <1>4. Debt' = Debt
    BY <1>3 DEF Debt
  <1>5. \A d \in Days : Charges(asked', rows', Held', d) = Charges(asked, rows, Held, d)
    BY <1>2 DEF Charges
  <1>6. Tally' = Tally
    BY <1>5 DEF Tally
  <1>7. \A n, d : Within(n, d) => Within(n, d)'
    BY <1>6 DEF Within, Under
  <1>8. ASSUME NEW q \in Runs PROVE Ledger(q)'
    <2>0. /\ today \in Nat /\ today' \in Nat /\ draft[q].cycle.day \in Nat
      BY Numbers, NumbersNext DEF Days
    <2>1. PICK c, e : c = draft[q].cycle /\ e = draft'[q].cycle
      OBVIOUS
    <2>2. e.day = c.day /\ e.used = c.used
      BY <2>1
    <2>3. Accountable(q) => Accountable(q)'
      BY <1>7, <2>0, <2>1, <2>2 DEF Accountable, Less
    <2>4. Balanced(draft[q].cycle, 0) => Balanced(draft[q].cycle, 0)'
      BY <1>7, <2>0, <2>1, <2>2 DEF Balanced
    <2>5. Dated(q) => Dated(q)'
      BY <1>7 DEF Dated
    <2>6. Charged(q) => Charged(q)'
      <3>1. PICK h, g : h = Hand(q) /\ g = Hand(q)'
        OBVIOUS
      <3>2. g.id = h.id /\ g.day = h.day /\ g.used = h.used /\ Going(q)' = Going(q)
        BY <1>1, <3>1
      <3>3. Going(q) \in ItemPlaces => h.id \in Cycles /\ item[q].thread \in Threads
        BY <3>1 DEF Core, IInv, TypeOK, StoreType, ProcessType, PlaceInv, Fits, Hand, Going, CycleSet, Cycles, ItemPlaces, MinePlaces, Saving, Solo, Quiet, HoldPlaces
      <3>4. Going(q) \in ClaimedPlaces => rows'[<<h.id, item[q].thread>>].day = rows[<<h.id, item[q].thread>>].day
        BY <3>3 DEF RowKeys, ClaimedPlaces
      <3>5. Consumes(q)' <=> Consumes(q)
        BY DEF Consumes
      <3>. QED
        BY <1>7, <3>1, <3>2, <3>4, <3>5 DEF Charged, Less
    <2>. QED
      BY <2>3, <2>4, <2>5, <2>6 DEF LInv, Ledger
  <1>9. Linked'
    BY DEF LInv, Linked
  <1>10. closed' >= closed /\ Debt' + closed' >= Debt + closed /\ \A d \in Days : Tally'[d] <= Tally[d]
    BY <1>4, <1>6, TallyType, DebtType, Numbers
  <1>. QED
    BY <1>8, <1>9, <1>10, LedgerKeeps

LEMMA LedgerClock ==
  ASSUME OneScheduler, Core, Core', LInv,
         \/ NextDay \/ LeaseExpires \/ BlockEnds \/ UNCHANGED vars
         \/ \E k \in RowKeys : ClaimExpires(k) \/ RetryDue(k)
  PROVE  LInv'
  <1>0. today \in Nat /\ rows \in [RowKeys -> RowSet]
    BY Numbers DEF Days, Core, IInv, TypeOK, StoreType
  <1>1. CASE NextDay \/ LeaseExpires \/ UNCHANGED vars
    <2>1. UNCHANGED <<pc, item, scene, allowance, asked, closed, rows, cycle, draft>>
      BY <1>1 DEF NextDay, LeaseExpires, vars, store, local, bounds, ghosts
    <2>2. today' = today + 1 \/ today' = today
      BY <1>1 DEF NextDay, LeaseExpires, vars
    <2>3. today' >= today
      BY <1>0, <2>2
    <2>. QED
      BY <2>1, <2>3, LedgerTime
  <1>2. CASE \E k \in RowKeys : ClaimExpires(k) \/ RetryDue(k)
    <2>1. PICK k \in RowKeys : ClaimExpires(k) \/ RetryDue(k)
      BY <1>2
    <2>2. UNCHANGED <<pc, item, scene, allowance, asked, closed, today, cycle, draft>>
      BY <2>1 DEF ClaimExpires, RetryDue, local, bounds, ghosts
    <2>3. \E row : rows' = [rows EXCEPT ![k] = row] /\ row.day = rows[k].day
      <3>1. /\ [rows[k] EXCEPT !.live = FALSE].day = rows[k].day
            /\ [rows[k] EXCEPT !.due = TRUE].day = rows[k].day
        BY <1>0 DEF RowSet
      <3>2. \/ rows' = [rows EXCEPT ![k] = [rows[k] EXCEPT !.live = FALSE]]
            \/ rows' = [rows EXCEPT ![k] = [rows[k] EXCEPT !.due = TRUE]]
        BY <2>1 DEF ClaimExpires, RetryDue
      <3>. QED BY <3>1, <3>2
    <2>4. \A j \in RowKeys : rows'[j].day = rows[j].day
      BY <1>0, <2>3
    <2>5. today' >= today
      BY <1>0, <2>2
    <2>. QED
      BY <2>2, <2>4, <2>5, LedgerTime
  <1>3. CASE BlockEnds
    <2>1. /\ UNCHANGED <<pc, item, scene, allowance, asked, closed, today, rows>>
          /\ cycle' = [cycle EXCEPT !.blocked = FALSE]
          /\ draft' = [q \in Runs |-> [draft[q] EXCEPT !.cycle.blocked = FALSE]]
      BY <1>3 DEF BlockEnds, bounds, ghosts
    <2>2. cycle'.id = cycle.id /\ cycle'.day = cycle.day /\ cycle'.used = cycle.used
      BY <2>1 DEF Core, IInv, TypeOK, StoreType, CycleSet
    <2>3. ASSUME NEW q \in Runs
          PROVE  /\ draft'[q].then = draft[q].then /\ draft'[q].refund = draft[q].refund
                 /\ draft'[q].cycle.id = draft[q].cycle.id
                 /\ draft'[q].cycle.day = draft[q].cycle.day
                 /\ draft'[q].cycle.used = draft[q].cycle.used
      BY <2>1 DEF Core, IInv, TypeOK, ProcessType, CycleSet
    <2>4. today' >= today
      BY <1>0, <2>1
    <2>. QED
      BY <2>1, <2>2, <2>3, <2>4, LedgerTime
  <1>. QED BY <1>1, <1>2, <1>3

LEMMA LedgerScheduling ==
  ASSUME OneScheduler, Core, Core', LInv, NEW p \in Runs, Scheduling(p)
  PROVE  LInv'
  <1>. USE DEF Saving, ItemPlaces
  <1>1. pc[p] # "idle" /\ pc[p] \notin Saving
    BY DEF Scheduling, ReadLease, PutLease, VerifyLease, ReadCycle, Release, Drop, At
  <1>2. CASE ReadLease(p) \/ VerifyLease(p) \/ Release(p) \/ Drop(p) \/ PutLease(p, "claim", "verify")
    <2>1. \/ Finish(p) /\ UNCHANGED <<allowance, cycle, rows, scene, today, closed, asked>>
          \/ \E place \in {"read", "drop"} : Decide(p, place)
          \/ /\ \E place \in {"claim", "verify"} : Goto(p, place)
             /\ UNCHANGED <<allowance, cycle, rows, scene, today, closed, asked>>
      BY <1>2 DEF ReadLease, VerifyLease, Release, Drop, PutLease, store, bounds, ghosts
    <2>. QED
      BY <1>1, <2>1, LedgerEnds, LedgerDecides, LedgerLeaves DEF LInv, Linked, DaysStay
  <1>3. CASE ReadCycle(p)
    <2>. DEFINE c == [cycle EXCEPT !.status = "running"]
    <2>1. CASE cycle.status = "paused" /\ Save(p, c, "work")
      <3>1. c.day = cycle.day /\ c.used = cycle.used /\ cycle.id # 0
        BY <2>1 DEF Core, IInv, TypeOK, StoreType, CycleSet, Real
      <3>. HIDE DEF c
      <3>. QED
        BY <1>1, <2>1, <3>1, CycleWithin, LedgerSaves
    <2>2. CASE \E place \in {"release", "active", "work"} : Decide(p, place)
      BY <1>1, <2>2, LedgerDecides
    <2>. QED
      BY <1>3, <2>1, <2>2 DEF ReadCycle
  <1>. QED
    BY <1>2, <1>3 DEF Scheduling

LEMMA LedgerSnapshot ==
  ASSUME OneScheduler, Core, Core', WInv, LInv, NEW p \in Runs, Snapshot(p)
  PROVE  LInv'
  <1>. USE DEF Saving, ItemPlaces
  <1>1. pc[p] # "idle" /\ pc[p] \notin Saving
    BY DEF Snapshot, DiscardRead, DiscardRows, DiscardMaster, ReadActive, BeginCycle, WriteRows, Publish, Schedule, At
  <1>2. ASSUME NEW id, NEW status, NEW total
        PROVE  Fresh(id, status, total).day = 0 /\ Fresh(id, status, total).used = 0
    BY DEF Fresh
  <1>3. today \in Nat /\ scene.cap \in Nat
    BY Numbers DEF Days
  <1>4. ASSUME NEW purpose, Discard(p, purpose) PROVE LInv'
    <2>1. Goto(p, "discard") /\ UNCHANGED <<allowance, cycle, rows, scene, today, closed, asked>>
      BY <1>4 DEF Discard, store, bounds, ghosts
    <2>. QED
      BY <1>1, <2>1, LedgerLeaves DEF LInv, Linked, DaysStay
  <1>5. CASE DiscardRead(p)
    <2>1. \/ Finish(p) /\ UNCHANGED <<allowance, cycle, rows, scene, today, closed, asked>>
          \/ Decide(p, "release")
          \/ cycle.id # 0 /\ Save(p, cycle, "delete")
      BY <1>5 DEF DiscardRead, store, bounds, ghosts
    <2>. QED
      BY <1>1, <2>1, CycleWithin, LedgerEnds, LedgerDecides, LedgerSaves
  <1>6. CASE DiscardRows(p)
    <2>1. /\ Goto(p, "forget") /\ UNCHANGED <<allowance, cycle, scene, today, closed, asked>>
          /\ rows' = [k \in RowKeys |-> IF k[1] = mine[p].id THEN NewRow("absent") ELSE rows[k]]
      BY <1>6 DEF DiscardRows, bounds, ghosts
    <2>2. DaysStay
      BY <2>1 DEF DaysStay, NewRow
    <2>. QED
      BY <1>1, <2>1, <2>2, LedgerLeaves DEF LInv, Linked
  <1>7. CASE DiscardMaster(p)
    <2>1. /\ \E place \in {"release", "rerun", "begin"} : Goto(p, place)
          /\ cycle' = NoCycle /\ UNCHANGED <<allowance, rows, scene, today, closed, asked>>
      BY <1>7 DEF DiscardMaster, bounds, ghosts
    <2>2. Linked'
      BY <2>1 DEF Linked, NoCycle, Fresh
    <2>. QED
      BY <1>1, <2>1, <2>2, LedgerLeaves DEF DaysStay
  <1>8. CASE ReadActive(p)
    BY <1>1, <1>4, <1>8, LedgerDecides DEF ReadActive
  <1>9. CASE BeginCycle(p)
    <2>1. CASE Decide(p, "release")
      BY <1>1, <2>1, LedgerDecides
    <2>2. CASE /\ Put(p, Fresh(made + 1, "preparing", 0), FALSE, "rows")
               /\ UNCHANGED <<allowance, cycle, rows, scene, today, closed, asked>>
      <3>1. \A d \in Days : Charges(asked', rows', {}, d) \subseteq Charges(asked, rows, InHand(p), d)
        BY <2>2 DEF Charges
      <3>2. PICK c : c = Fresh(made + 1, "preparing", 0)
        OBVIOUS
      <3>3. c.day <= today /\ c.used <= scene.cap
        BY <1>2, <1>3, <3>2
      <3>. QED
        BY <1>1, <2>2, <3>1, <3>2, <3>3, LedgerPuts
    <2>. QED
      BY <1>9, <2>1, <2>2 DEF BeginCycle, store, ghosts
  <1>10. CASE WriteRows(p)
    <2>1. CASE Discard(p, "cleanup")
      BY <1>4, <2>1
    <2>2. CASE ~Discard(p, "cleanup")
      <3>. DEFINE id == mine[p].id
      <3>1. PICK enabled \in SUBSET scene.threads :
              /\ rows' = [k \in RowKeys |-> IF k \in {id} \X enabled THEN NewRow("pending") ELSE rows[k]]
              /\ Put(p, Fresh(id, "preparing", Cardinality(enabled)), FALSE, "counted")
              /\ UNCHANGED <<allowance, cycle, scene, today, closed, asked>>
        BY <1>10, <2>2 DEF WriteRows, bounds, ghosts
      <3>2. DaysStay
        BY <3>1 DEF DaysStay, NewRow
      <3>3. \A d \in Days : Charges(asked', rows', {}, d) \subseteq Charges(asked, rows, InHand(p), d)
        BY <3>1, <3>2 DEF Charges, DaysStay, Days
      <3>4. PICK c : c = Fresh(id, "preparing", Cardinality(enabled))
        OBVIOUS
      <3>5. c.day <= today /\ c.used <= scene.cap
        BY <1>2, <1>3, <3>4
      <3>. QED
        BY <1>1, <3>1, <3>3, <3>4, <3>5, LedgerPuts
    <2>. QED BY <2>1, <2>2
  <1>11. CASE Publish(p)
    <2>1. \/ Discard(p, "cleanup")
          \/ \E id, total : Save(p, Fresh(id, "running", total), "published")
      BY <1>11 DEF Publish
    <2>. QED
      BY <1>1, <1>2, <1>3, <1>4, <2>1, LedgerSaves
  <1>12. CASE Schedule(p)
    <2>1. pc[p] \in LivePlaces /\ Save(p, mine[p], "work")
      BY <1>12 DEF Schedule, At, LivePlaces, MinePlaces
    <2>2. mine[p] = cycle /\ cycle.id # 0
      BY <2>1, AtWork DEF Cycles
    <2>. QED
      BY <1>1, <2>1, <2>2, CycleWithin, LedgerSaves
  <1>. QED
    BY <1>5, <1>6, <1>7, <1>8, <1>9, <1>10, <1>11, <1>12 DEF Snapshot

\* The worker away from an item.
LEMMA LedgerLoop ==
  ASSUME OneScheduler, Core, Core', WInv, LInv, NEW p \in Runs,
         \/ StartWorker(p) \/ OwnFirst(p) \/ Recover(p) \/ Repair(p) \/ Roll(p) \/ ResumeCycle(p)
         \/ Loop(p) \/ Count(p) \/ Renew(p) \/ PutLease(p, "extend", "loop")
  PROVE  LInv'
  <1>. USE DEF Saving, ItemPlaces
  <1>0. today \in Nat /\ scene.cap \in Nat /\ rows \in [RowKeys -> RowSet]
    BY Numbers DEF Days, Core, IInv, TypeOK, StoreType
  <1>1. CASE StartWorker(p)
    <2>1. /\ pc[p] = "work"
          /\ \/ Decide(p, "release")
             \/ Goto(p, "own") /\ UNCHANGED <<allowance, cycle, rows, scene, today, closed, asked>>
      BY <1>1 DEF StartWorker, At, store, bounds, ghosts
    <2>. QED
      BY <2>1, LedgerDecides, LedgerLeaves DEF LInv, Linked, DaysStay
  <1>2. CASE OwnFirst(p) \/ ResumeCycle(p) \/ Loop(p) \/ Count(p) \/ Renew(p) \/ PutLease(p, "extend", "loop")
    <2>1. /\ pc[p] \in {"own", "resume", "loop", "count", "renew", "extend"}
          /\ \/ \E status, place : place \notin ItemPlaces /\ SaveStatus(p, status, place)
             \/ \E place \in {"release", "next", "loop"} : Decide(p, place)
             \/ /\ \E place \in {"extend", "loop"} : Goto(p, place)
                /\ UNCHANGED <<allowance, cycle, rows, scene, today, closed, asked>>
      BY <1>2 DEF OwnFirst, ResumeCycle, Loop, Count, Renew, PutLease, At, store, bounds, ghosts
    <2>2. pc[p] \in LivePlaces /\ pc[p] # "idle" /\ pc[p] \notin Saving
      BY <2>1 DEF LivePlaces, MinePlaces
    <2>. QED
      BY <2>1, <2>2, LedgerSavesStatus, LedgerDecides, LedgerLeaves DEF LInv, Linked, DaysStay
  <1>3. CASE Recover(p)
    <2>. DEFINE id == mine[p].id
                stale == {th \in RowsWith(id, {"processing"}) : ~rows[<<id, th>>].live}
    <2>1. /\ pc[p] = "recover" /\ Goto(p, "repair")
          /\ UNCHANGED <<allowance, cycle, scene, today, closed, asked>>
          /\ rows' = [k \in RowKeys |-> IF k \in {id} \X stale THEN Recovered(rows[k]) ELSE rows[k]]
      BY <1>3 DEF Recover, SetRows, At, bounds, ghosts
    <2>2. \A k \in RowKeys : Recovered(rows[k]).day = rows[k].day
      BY <1>0 DEF Recovered, RowSet
    <2>. HIDE DEF id, stale
    <2>3. DaysStay
      BY <2>1, <2>2 DEF DaysStay
    <2>. QED
      BY <2>1, <2>3, LedgerLeaves DEF LInv, Linked
  <1>4. CASE Repair(p)
    <2>. DEFINE id == mine[p].id
                spent == {th \in RowsWith(id, {"retry"}) : rows[<<id, th>>].attempts >= scene.attempts}
                Fail(row) == [row EXCEPT !.status = "failed", !.due = FALSE]
    <2>1. /\ pc[p] = "repair"
          /\ \/ \E place \in {"release", "roll"} : Decide(p, place)
             \/ /\ rows' = [k \in RowKeys |-> IF k \in {id} \X spent THEN Fail(rows[k]) ELSE rows[k]]
                /\ Put(p, mine[p], FALSE, "roll")
                /\ UNCHANGED <<allowance, cycle, scene, today, closed, asked>>
      BY <1>4 DEF Repair, SetRows, At, bounds, ghosts
    <2>2. \A k \in RowKeys : Fail(rows[k]).day = rows[k].day
      BY <1>0 DEF RowSet
    <2>3. pc[p] \in LivePlaces
      BY <2>1 DEF LivePlaces, MinePlaces
    <2>. HIDE DEF id, spent, Fail
    <2>4. CASE \E place \in {"release", "roll"} : Decide(p, place)
      BY <2>1, <2>4, LedgerDecides
    <2>5. CASE ~\E place \in {"release", "roll"} : Decide(p, place)
      <3>1. \A k \in RowKeys : rows'[k].day = rows[k].day
        BY <2>1, <2>2, <2>5
      <3>2. \A d \in Days : Charges(asked', rows', {}, d) \subseteq Charges(asked, rows, InHand(p), d)
        BY <2>1, <2>5, <3>1 DEF Charges
      <3>3. mine[p].day <= today /\ mine[p].used <= scene.cap
        BY <2>3, AtWork, CycleWithin DEF Cycles
      <3>. QED
        BY <2>1, <2>5, <3>2, <3>3, LedgerPuts
    <2>. QED BY <2>4, <2>5
  <1>5. CASE Roll(p)
    <2>. DEFINE c == RollOver(mine[p])
    <2>1. pc[p] = "roll" /\ (Save(p, c, "resume") \/ Decide(p, "resume"))
      BY <1>5 DEF Roll, At
    <2>2. pc[p] \in LivePlaces
      BY <2>1 DEF LivePlaces, MinePlaces
    <2>3. c.day <= today /\ c.used <= scene.cap
      BY <1>0, <2>2, AtWork DEF RollOver, CycleSet
    <2>. HIDE DEF c
    <2>. QED
      BY <2>1, <2>3, LedgerSaves, LedgerDecides
  <1>. QED
    BY <1>1, <1>2, <1>3, <1>4, <1>5

\* An item is taken: what it had may be given back to it.
LEMMA LedgerNextItem ==
  ASSUME OneScheduler, Core, Core', WInv, LInv, NEW p \in Runs, NextItem(p)
  PROVE  LInv'
  <1>1. pc[p] = "next" /\ pc[p] \in LivePlaces
    BY DEF NextItem, At, LivePlaces, MinePlaces
  <1>2. CASE Decide(p, "count")
    BY <1>1, <1>2, LedgerDecides DEF Saving, ItemPlaces
  <1>3. CASE ~Decide(p, "count")
    <2>1. PICK th \in Actionable(mine[p].id) :
            /\ Take(p, th)
            /\ \/ Goto(p, "skip")
               \/ mine[p].day # today /\ Put(p, RollOver(mine[p]), FALSE, "allow")
               \/ mine[p].day = today /\ Goto(p, "allow")
            /\ UNCHANGED <<allowance, cycle, rows, scene, today, closed, asked>>
      BY <1>3 DEF NextItem, store, bounds, ghosts
    <2>. DEFINE k == <<cycle.id, th>>
                c == RollOver(mine[p])
    <2>2. /\ mine[p] = cycle /\ cycle.id \in Cycles /\ th \in Threads /\ k \in RowKeys
      BY <1>1, <2>1, AtWork, Actionables DEF Core, RowKeys
    <2>3. item'[p].thread = th /\ item'[p].row = rows[k] /\ item'[p].day = today
      BY <2>1, <2>2 DEF Take, Core, IInv, TypeOK, ProcessType
    <2>4. c.id = cycle.id /\ c.day = today /\ c.used = 0
      BY <1>1, AtWork DEF RollOver, CycleSet
    <2>. HIDE DEF c
    <2>5. \A q \in Others(p) : pc'[q] = "idle"
      BY <1>1, <2>1, OthersStayIdle
    <2>6. /\ today \in Nat /\ today \in Days /\ scene.cap \in Nat /\ allowance.day \in Nat
          /\ allowance.day <= today /\ cycle.day = allowance.day
      BY <2>2, Numbers, CycleWithin DEF Days, LInv, Balanced, Cycles
    <2>7. /\ Going(p)' \in {"skip", "allow"} /\ Hand(p)'.id = cycle.id
          /\ Ledger(p)'
      <3>1. CASE Goto(p, "skip")
        <4>1. pc'[p] = "skip" /\ pc'[p] \notin Saving
          BY <3>1 DEF Goto, Core, IInv, TypeOK, ProcessType, Saving
        <4>2. Going(p)' = "skip" /\ Hand(p)' = cycle
          BY <2>1, <4>1 DEF Going, Hand
        <4>. QED
          BY <4>1, <4>2 DEF Ledger, Dated, Charged, ClaimedPlaces
      <3>2. CASE mine[p].day = today /\ Goto(p, "allow")
        <4>1. pc'[p] = "allow" /\ pc'[p] \notin Saving
          BY <3>2 DEF Goto, Core, IInv, TypeOK, ProcessType, Saving
        <4>2. Going(p)' = "allow" /\ Hand(p)' = cycle
          BY <2>1, <4>1 DEF Going, Hand
        <4>3. Dated(p)'
          BY <2>1, <2>2, <2>3, <2>6, <3>2, <4>1 DEF Dated
        <4>. QED
          BY <4>1, <4>2, <4>3 DEF Ledger, Charged, ClaimedPlaces
      <3>3. CASE mine[p].day # today /\ Put(p, c, FALSE, "allow")
        <4>1. /\ pc'[p] = "account" /\ draft'[p].then = "allow" /\ draft'[p].cycle = c
              /\ draft'[p].refund = FALSE
          BY <3>3 DEF Put, Goto, Core, IInv, TypeOK, ProcessType
        <4>2. Going(p)' = "allow" /\ Hand(p)' = c
          BY <4>1 DEF Going, Hand, Saving
        <4>3. Accountable(p)'
          BY <2>1, <2>4, <2>6, <4>1 DEF Accountable
        <4>4. Dated(p)'
          BY <2>1, <2>2, <2>3, <2>4, <2>6, <3>3, <4>1 DEF Dated
        <4>. QED
          BY <2>4, <4>1, <4>2, <4>3, <4>4 DEF Ledger, Charged, ClaimedPlaces
      <3>. QED
        BY <2>1, <3>1, <3>2, <3>3 DEF c
    <2>8. InHand(p)' = {<<rows[k].day, k>>}
      BY <2>3, <2>7 DEF InHand, ItemPlaces
    <2>9. \A d \in Days : Charges(asked', rows', InHand(p)', d) \subseteq Charges(asked, rows, InHand(p), d)
      BY <2>1, <2>8 DEF Charges
    <2>10. Linked'
      BY <2>1 DEF LInv, Linked
    <2>. QED
      BY <1>1, <2>1, <2>5, <2>7, <2>9, <2>10, LedgerMoves DEF Saving
  <1>. QED BY <1>2, <1>3

\* A worker with its item.
LEMMA WithItem ==
  ASSUME Core, WInv, NEW p \in Runs, pc[p] \in ItemPlaces
  PROVE  /\ pc[p] \in LivePlaces /\ pc[p] # "idle" /\ pc[p] \notin Saving
         /\ mine[p] = cycle /\ cycle.id \in Cycles /\ cycle.id # 0 /\ cycle \in CycleSet
         /\ item[p].thread \in Threads /\ item[p].row \in RowSet
         /\ KeyOf(p) = <<cycle.id, item[p].thread>> /\ KeyOf(p) \in RowKeys
         /\ Going(p) = pc[p] /\ Hand(p) = cycle
         /\ InHand(p) = {<<item[p].row.day, KeyOf(p)>>}
  <1>1. pc[p] \in LivePlaces /\ pc[p] \notin Saving
    BY DEF LivePlaces, MinePlaces, ItemPlaces, Saving
  <1>2. /\ pc[p] # "idle" /\ mine[p] = cycle /\ cycle.id \in Cycles /\ cycle.id # 0 /\ cycle \in CycleSet
    BY <1>1, AtWork DEF Cycles
  <1>3. item[p].thread \in Threads /\ item[p].row \in RowSet
    BY ItemAt DEF Core
  <1>4. KeyOf(p) = <<cycle.id, item[p].thread>> /\ KeyOf(p) \in RowKeys
    BY <1>2, <1>3 DEF KeyOf, RowKeys
  <1>5. Going(p) = pc[p] /\ Hand(p) = cycle
    BY <1>1 DEF Going, Hand
  <1>. QED
    BY <1>1, <1>2, <1>3, <1>4, <1>5 DEF InHand

\* It writes the row of its item for a day the row is charged to.
LEMMA ChargesOfItem ==
  ASSUME Core, WInv, NEW p \in Runs, pc[p] \in ItemPlaces, NEW row,
         rows' = [rows EXCEPT ![KeyOf(p)] = row], row.day \in {rows[KeyOf(p)].day, item[p].row.day},
         asked' \subseteq asked, NEW hs \in SUBSET InHand(p)
  PROVE  \A d \in Days : Charges(asked', rows', hs, d) \subseteq Charges(asked, rows, InHand(p), d)
  <1>1. rows \in [RowKeys -> RowSet]
    BY DEF Core, IInv, TypeOK, StoreType
  <1>2. /\ KeyOf(p) \in RowKeys /\ InHand(p) = {<<item[p].row.day, KeyOf(p)>>}
    BY WithItem
  <1>3. \A k \in RowKeys : rows'[k].day = rows[k].day \/ <<rows'[k].day, k>> \in InHand(p)
    BY <1>1, <1>2
  <1>. QED
    BY <1>3 DEF Charges

LEMMA LedgerSkip ==
  ASSUME OneScheduler, Core, Core', WInv, LInv, NEW p \in Runs, Skip(p)
  PROVE  LInv'
  <1>. DEFINE row == Claimed(p, item[p].row.day)
              it == [item[p] EXCEPT !.day = item[p].row.day]
  <1>1. /\ pc[p] = "skip" /\ rows' = [rows EXCEPT ![KeyOf(p)] = row] /\ item' = [item EXCEPT ![p] = it]
        /\ Goto(p, "settle") /\ UNCHANGED <<allowance, cycle, scene, today, closed, asked>>
    BY DEF Skip, PutRow, At, bounds, ghosts
  <1>2. pc[p] \in ItemPlaces
    BY <1>1 DEF ItemPlaces
  <1>3. row.day = item[p].row.day
    BY <1>2, ClaimedRow
  <1>4. item'[p] = it /\ it.thread = item[p].thread /\ it.row = item[p].row /\ it.day = item[p].row.day
    BY <1>1 DEF Core, IInv, TypeOK, ProcessType
  <1>. HIDE DEF row, it
  <1>5. pc'[p] = "settle" /\ pc'[p] \notin Saving
    BY <1>1 DEF Goto, Core, IInv, TypeOK, ProcessType, Saving
  <1>6. Going(p)' = "settle" /\ Hand(p)' = cycle
    BY <1>1, <1>5 DEF Going, Hand
  <1>7. InHand(p)' = InHand(p)
    BY <1>2, <1>4, <1>6, WithItem DEF InHand, ItemPlaces
  <1>8. \A d \in Days : Charges(asked', rows', InHand(p)', d) \subseteq Charges(asked, rows, InHand(p), d)
    BY <1>1, <1>2, <1>3, <1>7, ChargesOfItem
  <1>9. rows'[KeyOf(p)] = row /\ KeyOf(p) = <<cycle.id, item[p].thread>>
    BY <1>1, <1>2, WithItem DEF Core, IInv, TypeOK, StoreType
  <1>10. Charged(p)'
    BY <1>3, <1>4, <1>6, <1>9 DEF Charged, Consumes
  <1>11. Ledger(p)'
    BY <1>5, <1>10 DEF Ledger, Dated
  <1>12. Linked'
    BY <1>1 DEF LInv, Linked
  <1>. QED
    BY <1>1, <1>2, <1>8, <1>11, <1>12, WithItem, OthersStayIdle, LedgerMoves

\* It keeps its claim on the way from the request to the settlement.
LEMMA LedgerGoesOn ==
  ASSUME OneScheduler, Core, Core', WInv, LInv, NEW p \in Runs, pc[p] \in ClaimedPlaces,
         NEW place \in ClaimedPlaces, Goto(p, place),
         UNCHANGED <<allowance, cycle, rows, item, scene, today, closed>>,
         asked' \subseteq asked \cup {<<item[p].day, mine[p].id, item[p].thread>>}
  PROVE  LInv'
  <1>1. pc[p] \in ItemPlaces /\ place \in ItemPlaces /\ place \notin Saving /\ place # "allow"
    BY DEF ClaimedPlaces, ItemPlaces, Saving
  <1>2. pc'[p] = place
    BY DEF Goto, Core, IInv, TypeOK, ProcessType
  <1>3. Going(p)' = place /\ Hand(p)' = cycle
    BY <1>1, <1>2 DEF Going, Hand
  <1>4. InHand(p)' = InHand(p)
    BY <1>1, <1>3, WithItem DEF InHand
  <1>5. Charged(p) /\ Going(p) \in ClaimedPlaces /\ Hand(p) = cycle
    BY <1>1, WithItem DEF LInv, Ledger
  <1>6. rows[KeyOf(p)].day = item[p].day /\ KeyOf(p) = <<mine[p].id, item[p].thread>>
    BY <1>1, <1>5, WithItem DEF Charged
  <1>7. \A d \in Days : Charges(asked', rows', InHand(p)', d) \subseteq Charges(asked, rows, InHand(p), d)
    <2>1. ASSUME NEW d, NEW k \in RowKeys, <<d, k[1], k[2]>> \in asked', <<d, k[1], k[2]>> \notin asked
          PROVE  rows[k].day = d
      <3>1. d = item[p].day /\ k[1] = mine[p].id /\ k[2] = item[p].thread
        BY <2>1
      <3>2. k = <<k[1], k[2]>>
        BY DEF RowKeys
      <3>. QED
        BY <1>6, <3>1, <3>2
    <2>. QED
      BY <1>4, <2>1 DEF Charges
  <1>9. \A d \in Days : Tally'[d] <= Tally[d]
    BY <1>1, <1>4, <1>7, WithItem, OthersIdle, OthersStayIdle, HeldByOne, HeldNext, TallyFalls
  <1>10. Charged(p)'
    <2>1. \A n, m \in Nat : n <= m => \A d : Within(n, d) => Under(Tally', closed', m, d)
      BY <1>9, Numbers, WithinKeeps
    <2>2. cycle.used \in Nat /\ Less(cycle.used) \in Nat
      BY Numbers DEF Less
    <2>3. Within(Less(cycle.used), cycle.day) => Under(Tally', closed', Less(cycle.used), cycle.day)
      BY <2>1, <2>2
    <2>4. Consumes(p)' <=> Consumes(p)
      BY DEF Consumes
    <2>5. Hand(p)'.used = cycle.used /\ Hand(p)'.day = cycle.day /\ Hand(p)'.id = cycle.id
      BY <1>3
    <2>. QED
      BY <1>3, <1>5, <2>3, <2>4, <2>5 DEF Charged, Within, Less
  <1>11. Ledger(p)'
    BY <1>1, <1>2, <1>10 DEF Ledger, Dated, Saving
  <1>12. Linked'
    BY DEF LInv, Linked
  <1>. QED
    BY <1>1, <1>7, <1>11, <1>12, WithItem, OthersStayIdle, LedgerMoves

LEMMA LedgerRequests ==
  ASSUME OneScheduler, Core, Core', WInv, LInv, NEW p \in Runs,
         \/ Ask(p) \/ Defer(p) \/ (\E o \in Final \cup {"blocked", "deferred"} : Answer(p, o))
         \/ AfterRequest(p) \/ Commit(p) \/ PutResult(p) \/ AfterCommit(p) \/ Settle(p)
  PROVE  LInv'
  <1>1. pc[p] \in ClaimedPlaces /\ pc[p] \in ItemPlaces
    BY DEF Ask, Defer, Answer, AfterRequest, Commit, PutResult, AfterCommit, Settle, At, ItemPlaces, ClaimedPlaces
  <1>2. \/ \E status : SaveStatus(p, status, "release")
        \/ Decide(p, "release")
        \/ /\ \E place \in ClaimedPlaces : Goto(p, place)
           /\ UNCHANGED <<allowance, cycle, rows, item, scene, today, closed>>
           /\ asked' \subseteq asked \cup {<<item[p].day, mine[p].id, item[p].thread>>}
    BY DEF Ask, Defer, Answer, AfterRequest, Commit, PutResult, AfterCommit, Settle, Outcome, Decide,
      ItemPlaces, ClaimedPlaces, store, local, bounds, ghosts
  <1>3. "release" \notin ItemPlaces \cup Saving
    BY DEF ItemPlaces, Saving
  <1>. QED
    BY <1>1, <1>2, <1>3, WithItem, LedgerSavesStatus, LedgerDecides, LedgerGoesOn

\* One charge of a day is taken back.
LEMMA TallyFallsByOne ==
  ASSUME NEW d \in Days, NEW k \in Charges(asked, rows, Held, d),
         Charges(asked', rows', Held', d) \subseteq Charges(asked, rows, Held, d) \ {k}
  PROVE  Tally'[d] + 1 <= Tally[d]
  <1>1. PICK S : S = Charges(asked, rows, Held, d)
    OBVIOUS
  <1>2. PICK T : T = Charges(asked', rows', Held', d)
    OBVIOUS
  <1>3. IsFiniteSet(S) /\ k \in S /\ T \subseteq S \ {k}
    BY <1>1, <1>2, ChargesCount
  <1>4. IsFiniteSet(S \ {k}) /\ Cardinality(S \ {k}) = Cardinality(S) - 1
    BY <1>3, FS_RemoveElement
  <1>5. Cardinality(T) <= Cardinality(S \ {k})
    BY <1>3, <1>4, FS_Subset
  <1>6. Cardinality(S) \in Nat /\ Cardinality(T) \in Nat
    BY <1>1, <1>2, ChargesCount
  <1>7. Tally[d] = Cardinality(S) /\ Tally'[d] = Cardinality(T)
    BY <1>1, <1>2 DEF Tally
  <1>8. Cardinality(T) + 1 <= Cardinality(S)
    BY <1>4, <1>5, <1>6
  <1>. QED
    BY <1>7, <1>8

\* At most one more row is charged to a day.
LEMMA TallyRisesByOne ==
  ASSUME NEW d \in Days, NEW k,
         Charges(asked', rows', Held', d) \subseteq Charges(asked, rows, Held, d) \cup {k}
  PROVE  Tally'[d] <= Tally[d] + 1
  <1>1. PICK S : S = Charges(asked, rows, Held, d)
    OBVIOUS
  <1>2. PICK T : T = Charges(asked', rows', Held', d)
    OBVIOUS
  <1>3. IsFiniteSet(S) /\ T \subseteq S \cup {k}
    BY <1>1, <1>2, ChargesCount
  <1>4. /\ IsFiniteSet(S \cup {k})
        /\ Cardinality(S \cup {k}) = IF k \in S THEN Cardinality(S) ELSE Cardinality(S) + 1
    BY <1>3, FS_AddElement
  <1>5. Cardinality(T) <= Cardinality(S \cup {k})
    BY <1>3, <1>4, FS_Subset
  <1>6. Cardinality(S) \in Nat /\ Cardinality(T) \in Nat
    BY <1>1, <1>2, ChargesCount
  <1>7. Tally[d] = Cardinality(S) /\ Tally'[d] = Cardinality(T)
    BY <1>1, <1>2 DEF Tally
  <1>8. Cardinality(T) <= Cardinality(S) + 1
    BY <1>4, <1>5, <1>6
  <1>. QED
    BY <1>7, <1>8

\* A refund leaves the ledger within its day less one.
LEMMA RefundWithin ==
  ASSUME OneScheduler, Core, Core', WInv, LInv, NEW p \in Runs, pc[p] = "settled",
         rows' = [rows EXCEPT ![KeyOf(p)] = item[p].row], Consumes(p),
         asked' = asked \ {<<item[p].day, mine[p].id, item[p].thread>>},
         UNCHANGED <<allowance, closed>>, Held' = {}
  PROVE  Within(Less(allowance.used), allowance.day)'
  <1>. DEFINE k == KeyOf(p)
              day == item[p].day
  <1>1. pc[p] \in ItemPlaces /\ pc[p] \in ClaimedPlaces
    BY DEF ItemPlaces, ClaimedPlaces
  <1>2. /\ k \in RowKeys /\ k = <<mine[p].id, item[p].thread>> /\ k[1] = mine[p].id /\ k[2] = item[p].thread
        /\ InHand(p) = {<<item[p].row.day, k>>} /\ cycle.id # 0 /\ Hand(p) = cycle /\ Going(p) = pc[p]
        /\ mine[p] = cycle
    BY <1>1, WithItem
  <1>3. Held = InHand(p) /\ Debt = 0
    BY <1>1, WithItem, OthersIdle, HeldByOne, DebtOfOne DEF Owes
  <1>4. rows[k].day = day /\ (day # cycle.day => Within(Less(cycle.used), cycle.day))
    BY <1>1, <1>2 DEF LInv, Ledger, Charged
  <1>5. /\ Balanced(allowance, 0) /\ cycle.day = allowance.day /\ cycle.used = allowance.used
    BY <1>2, <1>3 DEF LInv, Linked
  <1>6. rows \in [RowKeys -> RowSet] /\ item[p].row.day # day
    BY DEF Core, IInv, TypeOK, StoreType, Consumes
  <1>7. \A d \in Days : Charges(asked', rows', Held', d) \subseteq Charges(asked, rows, Held, d)
    BY <1>2, <1>3, <1>6 DEF Charges
  <1>8. day \in Days => /\ k \in Charges(asked, rows, Held, day)
                        /\ Charges(asked', rows', Held', day) \subseteq Charges(asked, rows, Held, day) \ {k}
    BY <1>2, <1>4, <1>6, <1>7 DEF Charges
  <1>9. /\ closed \in Nat /\ allowance.used \in Nat /\ Less(allowance.used) \in Nat
    BY Numbers DEF Less
  <1>10. CASE day = cycle.day /\ day \in Days
    <2>1. Tally'[day] + 1 <= Tally[day]
      BY <1>8, <1>10, TallyFallsByOne
    <2>2. Tally[day] <= allowance.used + closed
      BY <1>5, <1>9, <1>10 DEF Balanced, Within, Under
    <2>3. Tally[day] \in Nat /\ Tally'[day] \in Nat
      BY <1>10, TallyType
    <2>4. Tally'[day] <= Less(allowance.used) + closed
      BY <1>9, <2>1, <2>2, <2>3 DEF Less
    <2>5. Under(Tally', closed', Less(allowance.used), allowance.day)
      BY <1>5, <1>10, <2>4 DEF Under
    <2>. QED
      BY <2>5 DEF Within, Less
  <1>11. CASE day = cycle.day /\ day \notin Days
    BY <1>5, <1>11 DEF Within, Under
  <1>12. CASE day # cycle.day
    <2>1. Within(Less(allowance.used), allowance.day)
      BY <1>4, <1>5, <1>12
    <2>2. closed' >= closed
      BY <1>9
    <2>3. \A d \in Days : Tally'[d] <= Tally[d]
      BY <1>7, TallyFalls
    <2>4. \A n, m \in Nat : n <= m => \A d : Within(n, d) => Under(Tally', closed', m, d)
      BY <2>2, <2>3, WithinKeeps
    <2>5. Under(Tally', closed', Less(allowance.used), allowance.day)
      BY <1>9, <2>1, <2>4
    <2>. QED
      BY <2>5 DEF Within, Less
  <1>. QED BY <1>10, <1>11, <1>12

LEMMA LedgerSettlement ==
  ASSUME OneScheduler, Core, Core', WInv, LInv, NEW p \in Runs, PutSettlement(p)
  PROVE  LInv'
  <1>. DEFINE o == outcome[p]
              row == Settlement(item[p], o)
  <1>1. pc[p] = "settled" /\ pc[p] \in ItemPlaces /\ pc[p] \in ClaimedPlaces
    BY DEF PutSettlement, At, ItemPlaces, ClaimedPlaces
  <1>2. rows' = [rows EXCEPT ![KeyOf(p)] = row] /\ UNCHANGED <<allowance, cycle, scene, today, closed>>
    BY DEF PutSettlement, PutRow, bounds
  <1>3. o \in {"skip", "deferred", "blocked", "uncommitted"} \cup Final
    BY DEF PutSettlement, Final
  <1>4. /\ o \in {"deferred", "blocked"} => row = item[p].row
        /\ o \notin {"deferred", "blocked"} => row.day = item[p].day
    <2>1. item[p] \in [thread : Threads \cup {Nobody}, row : RowSet, day : 0 .. MaxDay]
      BY DEF Core, IInv, TypeOK, ProcessType
    <2>2. item[p].row.status \in {"pending", "retry"} /\ item[p].row.attempts < scene.attempts
      BY <1>1, WithItem, AtWork DEF Ready
    <2>. QED
      BY <1>3, <2>1, <2>2, Attempts, SettledRow DEF Core
  <1>5. row.day \in {rows[KeyOf(p)].day, item[p].row.day}
    <2>1. rows[KeyOf(p)].day = item[p].day
      BY <1>1, WithItem DEF LInv, Ledger, Charged
    <2>. QED
      BY <1>4, <2>1
  <1>. HIDE DEF row, o
  <1>6. ASSUME NEW c, c.day = cycle.day, c.used <= scene.cap, NEW refund,
               NEW place \in {"loop", "release", "renew"}, Put(p, c, refund, place),
               asked' \subseteq asked, refund => Within(Less(allowance.used), allowance.day)'
        PROVE  LInv'
    <2>1. \A d \in Days : Charges(asked', rows', {}, d) \subseteq Charges(asked, rows, InHand(p), d)
      BY <1>1, <1>2, <1>5, <1>6, ChargesOfItem
    <2>2. c.day <= today
      BY <1>1, <1>6, WithItem, CycleWithin
    <2>3. place \notin ItemPlaces
      BY DEF ItemPlaces
    <2>. QED
      BY <1>1, <1>2, <1>6, <2>1, <2>2, <2>3, WithItem, LedgerPuts
  <1>7. CASE /\ \E place \in {"loop", "renew"} : Put(p, mine[p], FALSE, place)
             /\ asked' = asked
    BY <1>1, <1>6, <1>7, WithItem, CycleWithin
  <1>8. CASE Put(p, [mine[p] EXCEPT !.status = "waiting"], FALSE, "release") /\ asked' = asked
    <2>. DEFINE c == [mine[p] EXCEPT !.status = "waiting"]
    <2>1. c.day = cycle.day /\ c.used = cycle.used /\ cycle.used <= scene.cap
      BY <1>1, WithItem, CycleWithin DEF CycleSet
    <2>2. Put(p, c, FALSE, "release")
      BY <1>8
    <2>. HIDE DEF c
    <2>. QED
      BY <1>6, <1>8, <2>1, <2>2
  <1>9. CASE /\ o \in {"deferred", "blocked"}
             /\ \E blocked \in {TRUE, mine[p].blocked \/ o = "blocked"} :
                  Put(p, [Refunded(p) EXCEPT !.blocked = blocked], Consumes(p), "release")
             /\ asked' = asked \ (IF Consumes(p)
                                  THEN {<<item[p].day, mine[p].id, item[p].thread>>} ELSE {})
    <2>1. PICK blocked \in {TRUE, mine[p].blocked \/ o = "blocked"} :
            Put(p, [Refunded(p) EXCEPT !.blocked = blocked], Consumes(p), "release")
      BY <1>9
    <2>. DEFINE c == [Refunded(p) EXCEPT !.blocked = blocked]
    <2>2. c.day = cycle.day /\ c.used <= scene.cap
      <3>1. mine[p] = cycle /\ cycle \in CycleSet /\ cycle.used <= scene.cap
        BY <1>1, WithItem, CycleWithin
      <3>2. cycle.used \in Nat /\ scene.cap \in Nat
        BY Numbers
      <3>3. c.day = cycle.day /\ (c.used = cycle.used \/ (cycle.used > 0 /\ c.used = cycle.used - 1))
        BY <3>1 DEF Refunded, CycleSet
      <3>. HIDE DEF c
      <3>. QED
        BY <3>1, <3>2, <3>3
    <2>3. Put(p, c, Consumes(p), "release")
      BY <2>1
    <2>. HIDE DEF c
    <2>4. Consumes(p) => Within(Less(allowance.used), allowance.day)'
      <3>1. pc'[p] = "account" /\ draft'[p].then = "release"
        BY <2>3 DEF Put, Goto, Core, IInv, TypeOK, ProcessType
      <3>2. \A q \in Others(p) : pc'[q] = "idle"
        BY <1>1, <2>3, WithItem, OthersStayIdle
      <3>3. Going(p)' = "release"
        BY <3>1 DEF Going, Saving
      <3>4. InHand(p)' = {}
        BY <3>3 DEF InHand, ItemPlaces
      <3>5. Held' = {}
        BY <3>2, <3>4, HeldNext
      <3>6. rows' = [rows EXCEPT ![KeyOf(p)] = item[p].row]
        BY <1>2, <1>4, <1>9
      <3>. QED
        BY <1>1, <1>2, <1>9, <3>5, <3>6, RefundWithin
    <2>5. asked' \subseteq asked
      BY <1>9
    <2>. QED
      BY <1>6, <2>2, <2>3, <2>4, <2>5
  <1>. QED
    BY <1>7, <1>8, <1>9 DEF PutSettlement, o

\* A row is claimed before the claim is in the ledger.
LEMMA LedgerClaim ==
  ASSUME OneScheduler, Core, Core', WInv, LInv, NEW p \in Runs, Claim(p)
  PROVE  LInv'
  <1>1. pc[p] = "allow" /\ pc[p] \in ItemPlaces
    BY DEF Claim, At, ItemPlaces
  <1>2. CASE SaveStatus(p, "waiting", "release")
    BY <1>1, <1>2, WithItem, LedgerSavesStatus DEF ItemPlaces
  <1>3. CASE ~SaveStatus(p, "waiting", "release")
    <2>. DEFINE row == Claimed(p, item[p].day)
                c == [mine[p] EXCEPT !.used = @ + (IF Consumes(p) THEN 1 ELSE 0)]
                k == KeyOf(p)
                e == item[p].day
                u == cycle.used
    <2>1. /\ rows' = [rows EXCEPT ![k] = row] /\ Put(p, c, FALSE, "guard")
          /\ UNCHANGED <<allowance, cycle, item, scene, today, closed, asked>>
          /\ Consumes(p) => ~(u >= scene.cap)
      BY <1>1, <1>3, WithItem DEF Claim, PutRow, local, bounds, ghosts
    <2>2. row.day = e
      BY <1>1, ClaimedRow
    <2>3. /\ mine[p] = cycle /\ k \in RowKeys /\ k = <<cycle.id, item[p].thread>>
          /\ InHand(p) = {<<item[p].row.day, k>>} /\ cycle.id # 0
      BY <1>1, WithItem
    <2>4. /\ c.id = cycle.id /\ c.day = cycle.day /\ (Consumes(p) => c.used = u + 1)
          /\ ~Consumes(p) => c.used = u
      BY <1>1, <2>3, WithItem DEF CycleSet
    <2>5. /\ closed \in Nat /\ scene.cap \in Nat \ {0} /\ u \in Nat /\ e \in Nat
          /\ cycle.day \in Nat /\ cycle.day = allowance.day /\ u = allowance.used
          /\ cycle.day <= today /\ u <= scene.cap
      BY <2>3, Numbers, CycleWithin
    <2>6. Held = InHand(p) /\ Debt = 0
      BY <1>1, WithItem, OthersIdle, HeldByOne, DebtOfOne DEF Owes
    <2>7. /\ Within(u, cycle.day) /\ \A d \in Days : d > cycle.day => Within(0, d)
          /\ \A d \in Days : Within(scene.cap, d)
      BY <2>5, <2>6 DEF LInv, Balanced
    <2>8. e <= cycle.day /\ (e # cycle.day => Within(0, e))
      BY <1>1 DEF LInv, Ledger, Dated
    <2>9. /\ pc'[p] = "account" /\ draft'[p].then = "guard" /\ draft'[p].cycle = c
          /\ draft'[p].refund = FALSE /\ \A q \in Others(p) : pc'[q] = "idle"
      BY <1>1, <2>1, WithItem, OthersStayIdle DEF Put, Goto, Core, IInv, TypeOK, ProcessType
    <2>. HIDE DEF c, row
    <2>10. Going(p)' = "guard" /\ Hand(p)' = c
      BY <2>9 DEF Going, Hand, Saving
    <2>11. Held' = Held /\ Debt' = 1
      <3>1. InHand(p)' = InHand(p)
        BY <2>1, <2>3, <2>4, <2>10 DEF InHand, ItemPlaces
      <3>. QED
        BY <2>6, <2>9, <3>1, HeldNext, DebtNext DEF Owes, Saving
    <2>. HIDE DEF k, e, u
    <2>12. /\ rows \in [RowKeys -> RowSet] /\ rows'[k] = row /\ \A j \in RowKeys : j # k => rows'[j] = rows[j]
      BY <2>1, <2>3 DEF Core, IInv, TypeOK, StoreType
    <2>13. ASSUME NEW d \in Days, d # e \/ ~Consumes(p)
           PROVE  Charges(asked', rows', Held', d) \subseteq Charges(asked, rows, Held, d)
      <3>1. row.day = d => <<d, k>> \in Held
        BY <2>2, <2>3, <2>6, <2>13 DEF Consumes, e
      <3>. QED
        BY <2>1, <2>11, <2>12, <3>1 DEF Charges
    <2>14. ASSUME NEW d \in Days
           PROVE  Charges(asked', rows', Held', d) \subseteq Charges(asked, rows, Held, d) \cup {k}
      BY <2>1, <2>11, <2>12 DEF Charges
    <2>15. ASSUME NEW d \in Days
           PROVE  /\ Tally[d] \in Nat /\ Tally'[d] \in Nat /\ Tally'[d] <= Tally[d] + 1
                  /\ d # e \/ ~Consumes(p) => Tally'[d] <= Tally[d]
      BY <2>13, <2>14, TallyType, TallyRisesByOne, TallyFallsAt
    <2>16. ASSUME NEW d \in Days PROVE Tally'[d] <= scene.cap + closed
      <3>1. CASE d # e \/ ~Consumes(p)
        <4>1. Tally[d] <= scene.cap + closed
          BY <2>7 DEF Within, Under
        <4>. QED
          BY <2>5, <2>15, <3>1, <4>1
      <3>2. CASE d = e /\ Consumes(p) /\ e = cycle.day
        <4>1. Tally[d] <= u + closed /\ u < scene.cap
          BY <2>1, <2>5, <2>7, <3>2 DEF Within, Under, u
        <4>. QED
          BY <2>5, <2>15, <4>1
      <3>3. CASE d = e /\ e # cycle.day
        <4>1. Tally[d] <= 0 + closed
          BY <2>8, <3>3 DEF Within, Under
        <4>. QED
          BY <2>5, <2>15, <4>1
      <3>. QED BY <3>1, <3>2, <3>3
    <2>17. cycle.day \in Days => Tally'[cycle.day] <= c.used + closed /\ Tally'[cycle.day] <= u + 1 + closed
      <3>1. ASSUME cycle.day \in Days
            PROVE  Tally'[cycle.day] <= c.used + closed /\ Tally'[cycle.day] <= u + 1 + closed
        <4>1. Tally[cycle.day] <= u + closed
          BY <2>7, <3>1 DEF Within, Under
        <4>. QED
          BY <2>4, <2>5, <2>15, <3>1, <4>1
      <3>. QED BY <3>1
    <2>18. Balanced(allowance, Debt)'
      <3>1. ASSUME NEW d \in Days, d > cycle.day PROVE Tally'[d] <= 0 + closed
        <4>1. Tally[d] <= 0 + closed /\ d # e
          BY <2>5, <2>7, <2>8, <3>1 DEF Within, Under
        <4>. QED
          BY <2>5, <2>15, <4>1
      <3>2. allowance' = allowance /\ allowance.day = cycle.day /\ allowance.used = u
        BY <2>1, <2>5
      <3>3. Within(allowance.used + Debt, allowance.day)'
        BY <2>1, <2>11, <2>17, <3>2 DEF Within, Under
      <3>4. \A d \in Days : d > allowance'.day => Within(0, d)'
        BY <2>1, <3>1, <3>2 DEF Within, Under
      <3>. QED
        BY <2>1, <2>5, <3>2, <3>3, <3>4 DEF Balanced
    <2>19. Accountable(p)'
      <3>1. c.used <= scene.cap
        BY <2>1, <2>4, <2>5 DEF u
      <3>2. Under(Tally', closed', c.used, c.day)
        BY <2>1, <2>4, <2>17 DEF Under
      <3>. QED
        BY <2>1, <2>4, <2>5, <2>9, <3>1, <3>2 DEF Accountable, Within
    <2>20. Charged(p)'
      <3>1. Consumes(p)' <=> Consumes(p)
        BY <2>1 DEF Consumes
      <3>2. ASSUME Consumes(p), e # cycle.day PROVE Under(Tally', closed', Less(c.used), c.day)
        <4>1. Less(c.used) = u
          BY <2>4, <2>5, <3>2 DEF Less
        <4>2. ASSUME cycle.day \in Days PROVE Tally'[cycle.day] <= u + closed
          <5>1. Tally[cycle.day] <= u + closed
            BY <2>7, <4>2 DEF Within, Under
          <5>. QED
            BY <2>5, <2>15, <3>2, <4>2, <5>1
        <4>. QED
          BY <2>1, <2>4, <4>1, <4>2 DEF Under
      <3>3. rows'[<<c.id, item[p].thread>>].day = e
        BY <2>2, <2>3, <2>4, <2>12
      <3>. QED
        BY <2>1, <2>4, <2>10, <3>1, <3>2, <3>3 DEF Charged, Within, e
    <2>21. Ledger(p)'
      BY <2>9, <2>19, <2>20 DEF Ledger, Dated
    <2>22. \A q \in Runs : Ledger(q)'
      BY <2>9, <2>21, LedgerOfAll
    <2>23. \A d \in Days : Within(scene.cap, d)'
      BY <2>1, <2>16 DEF Within, Under
    <2>24. Linked'
      BY <2>1 DEF LInv, Linked
    <2>. QED
      BY <2>18, <2>22, <2>23, <2>24 DEF LInv
  <1>. QED BY <1>2, <1>3

LEMMA LedgerNext ==
  ASSUME OneScheduler, Core, Core', WInv, LInv, [Next]_vars
  PROVE  LInv'
  <1>1. ASSUME NEW p \in Runs, Working(p) PROVE LInv'
    BY <1>1, LedgerLoop, LedgerNextItem, LedgerSkip, LedgerClaim, LedgerRequests, LedgerSettlement DEF Working
  <1>2. ASSUME NEW p \in Runs, Steps(p) PROVE LInv'
    BY <1>1, <1>2, LedgerAccounts, LedgerWrites, LedgerScheduling, LedgerSnapshot, NoCommands DEF Steps
  <1>. QED
    BY <1>2, LedgerBegins, LedgerRequests, NoCommands, LedgerClock, LedgerCloses DEF Next

LEMMA LedgerInit ==
  ASSUME Init, Core
  PROVE  LInv
  <1>1. \A q \in Runs : pc[q] = "idle"
    BY DEF Init
  <1>2. /\ asked = {} /\ closed = 0 /\ cycle.id = 0 /\ allowance.day = 0 /\ allowance.used = 0
        /\ \A k \in RowKeys : rows[k].day = 0
    BY DEF Init, NoCycle, Fresh, NewRow
  <1>3. Held = {}
    <2>1. \A q \in Runs : InHand(q) = {}
      BY <1>1 DEF InHand, Going, Saving, ItemPlaces
    <2>. QED
      BY <2>1 DEF Held
  <1>4. Debt = 0
    BY <1>1 DEF Debt, Owes, Saving
  <1>5. \A d \in Days : Tally[d] = 0
    <2>1. \A d \in Days : Charges(asked, rows, Held, d) = {}
      BY <1>2, <1>3, LibraryAssumption DEF Charges, Days
    <2>. QED
      BY <2>1, FS_EmptySet DEF Tally
  <1>6. \A n \in Nat : \A d : Within(n, d)
    BY <1>2, <1>5 DEF Within, Under
  <1>7. today \in Nat /\ scene.cap \in Nat
    BY Numbers DEF Days
  <1>8. Balanced(allowance, Debt)
    BY <1>2, <1>4, <1>6, <1>7 DEF Balanced
  <1>9. \A q \in Runs : Ledger(q)
    BY <1>1 DEF Ledger, Dated, Charged, Going, Saving, ItemPlaces, ClaimedPlaces
  <1>10. Linked
    BY <1>2 DEF Linked
  <1>. QED
    BY <1>6, <1>7, <1>8, <1>9, <1>10 DEF LInv

\* Every request of a day is for a row charged to it.
LEMMA RequestsCharged ==
  ASSUME Core, NEW d \in Days
  PROVE  /\ Cardinality({a \in asked : a[1] = d}) \in Nat
         /\ Cardinality({a \in asked : a[1] = d}) <= Tally[d]
  <1>. DEFINE S == {a \in asked : a[1] = d}
              T == {k \in RowKeys : <<d, k[1], k[2]>> \in asked}
              f == [k \in T |-> <<d, k[1], k[2]>>]
  <1>1. T \subseteq Charges(asked, rows, Held, d) /\ T \subseteq RowKeys
    BY DEF Charges
  <1>2. IsFiniteSet(T)
    BY <1>1, RowKeysFinite, FS_Subset
  <1>3. f \in Surjection(T, S)
    <2>1. f \in [T -> S]
      OBVIOUS
    <2>2. ASSUME NEW a \in S PROVE \E k \in T : f[k] = a
      <3>1. a \in (0 .. MaxDay) \X Cycles \X Threads
        BY DEF Core, IInv, TypeOK, GhostType
      <3>2. a = <<d, a[2], a[3]>> /\ <<a[2], a[3]>> \in RowKeys
        BY <3>1 DEF RowKeys
      <3>3. <<a[2], a[3]>> \in T
        BY <3>2
      <3>. QED
        BY <3>2, <3>3
    <2>. QED
      BY <2>1, <2>2 DEF Surjection
  <1>. HIDE DEF S, T, f
  <1>4. IsFiniteSet(S) /\ Cardinality(S) <= Cardinality(T)
    BY <1>2, <1>3, FS_Surjection
  <1>5. PICK C : C = Charges(asked, rows, Held, d)
    OBVIOUS
  <1>6. Cardinality(T) <= Cardinality(C) /\ Cardinality(C) \in Nat
    BY <1>1, <1>5, ChargesCount, FS_Subset
  <1>7. Cardinality(S) \in Nat /\ Cardinality(T) \in Nat
    BY <1>2, <1>4, FS_CardinalityType
  <1>8. Cardinality(S) <= Cardinality(C)
    BY <1>4, <1>6, <1>7
  <1>9. Tally[d] = Cardinality(C)
    BY <1>5 DEF Tally
  <1>. QED
    BY <1>7, <1>8, <1>9 DEF S

LEMMA LimitsFollow ==
  ASSUME Core, WInv, LInv
  PROVE  AllowanceHolds /\ AttemptsBounded
  <1>1. ASSUME NEW d \in Days PROVE Cardinality({a \in asked : a[1] = d}) <= scene.cap + closed
    <2>1. PICK n, m : n = Cardinality({a \in asked : a[1] = d}) /\ m = Tally[d]
      OBVIOUS
    <2>2. n <= m /\ n \in Nat
      BY <2>1, RequestsCharged
    <2>3. m <= scene.cap + closed /\ m \in Nat /\ scene.cap \in Nat /\ closed \in Nat
      BY <2>1, TallyType, Numbers DEF LInv, Within, Under
    <2>4. n <= scene.cap + closed
      BY <2>2, <2>3
    <2>. QED
      BY <2>1, <2>4
  <1>. QED
    BY <1>1 DEF AllowanceHolds, Days, WInv, Tried, AttemptsBounded

QuietLedger == scene.asks = 0 => LInv

(* Over restarts, new snapshots, closed tabs and refunds, a day's requests   *)
(* stay within its allowance, but for one for each tab closed between a      *)
(* claim and its entry in the ledger, and a row's attempts within theirs.    *)
THEOREM LimitsKept ==
  ASSUME OneScheduler
  PROVE  Spec => []LimitsHold
  <1>1. Init => IInv /\ QuietInv /\ QuietLedger
    BY InitInv, QuietInit, LedgerInit DEF QuietInv, QuietLedger
  <1>2. IInv /\ QuietInv /\ QuietLedger /\ [Next]_vars => (IInv /\ QuietInv /\ QuietLedger)'
    BY NextInv, SceneStays, SoloNext, WholeNext, LedgerNext DEF QuietInv, QuietLedger
  <1>3. IInv /\ QuietInv /\ QuietLedger => LimitsHold
    BY LimitsFollow DEF QuietInv, QuietLedger, LimitsHold
  <1>. QED
    BY <1>1, <1>2, <1>3, PTL DEF Spec
=============================================================================
