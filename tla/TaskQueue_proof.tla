--------------------------- MODULE TaskQueue_proof ---------------------------
(* The task queue, for any number of tasks and route changes, any keys,    *)
(* policies and capacity: what it promises its callers, and that it is the *)
(* serial queue of SerialTasks.                                            *)
EXTENDS TaskQueue, FiniteSetTheorems, WellFoundedInduction, TLAPS

InFlight == IF running = None THEN {} ELSE {running.task}

\* An entry is recognised by its task, and no entry that waits is in flight.
EntriesInv ==
  /\ \A e, f \in pending : e.task = f.task => e = f
  /\ running # None => running.task \notin TasksOf(pending)

\* The timer is only set for a queue at rest, and a disposed queue is empty.
RestInv ==
  /\ timer => running = None
  /\ disposed => pending = {}

\* A body that goes on after its race is decided has been told to stop.
RaceInv ==
  running # None /\ raced # "none" /\ running.task \in bodies => running.task \in told

IInv ==
  /\ TypeOK /\ NothingForgotten /\ LosersAreTold
  /\ EntriesInv /\ RestInv /\ RaceInv

-----------------------------
(* The oldest entry.                                                       *)

LEMMA EntryIsSome == None \notin Entries
BY DEF None, Entries

LEMMA LeastOfNaturals ==
  ASSUME NEW S, S \subseteq Nat, S # {}
  PROVE  \E x \in S : \A y \in S : x <= y
<1> DEFINE R == OpToRel(<, Nat)
<1>1. PICK x \in S : \A y \in S : <<y, x>> \notin R
  <2>1. IsWellFoundedOn(R, Nat)
    BY NatLessThanWellFounded
  <2> HIDE DEF R
  <2>2. QED
    BY <2>1, WFMin
<1>2. ASSUME NEW y \in S PROVE x <= y
  <2>1. <<y, x>> \notin R
    BY <1>1
  <2>2. ~ (y < x)
    BY <2>1 DEF OpToRel
  <2>3. QED
    BY <2>2
<1>3. QED
  BY <1>2

LEMMA OldestIsFirst ==
  ASSUME TypeOK, pending # {}
  PROVE  Oldest \in pending /\ \A f \in pending : Oldest.task <= f.task
<1>1. TasksOf(pending) \subseteq Nat /\ TasksOf(pending) # {}
  BY DEF TypeOK, TasksOf, Entries, Tasks
<1>2. PICK n \in TasksOf(pending) : \A m \in TasksOf(pending) : n <= m
  BY <1>1, LeastOfNaturals
<1>3. \E e \in pending : \A f \in pending : e.task <= f.task
  BY <1>2 DEF TasksOf
<1>4. QED
  BY <1>3 DEF Oldest

-----------------------------
(* The parts of the handlers.                                              *)

LEMMA Capacity == MaxPending \in Nat /\ 0 < MaxPending
BY QueueAssumption

LEMMA AbortTells ==
  ASSUME IInv, AbortRunning
  PROVE  /\ told \subseteq told' /\ told' \subseteq Tasks
         /\ running # None => running.task \in told'
         /\ raced' \in {"none", "value", "error", "abort"}
BY DEF IInv, TypeOK, AbortRunning, Entries

\* What cancels entries that wait keeps everything that is in flight.
LEMMA CancelKeeps ==
  ASSUME IInv, NEW kept, kept \subseteq pending, pending' = kept,
         SettleAs(TasksOf(pending) \ TasksOf(kept), "cancelled"),
         running' = running, policy' = policy
  PROVE  /\ pending' \subseteq Entries /\ IsFiniteSet(pending')
         /\ Cardinality(pending') <= MaxPending
         /\ outcome' \in [Tasks -> {"new", "accepted", "refused", "completed", "failed",
                                     "cancelled"}]
         /\ {t \in Tasks : outcome'[t] = "accepted"} = TasksOf(pending') \cup InFlight
         /\ EntriesInv'
<1>1. IsFiniteSet(kept) /\ Cardinality(kept) <= Cardinality(pending)
  BY FS_Subset DEF IInv, TypeOK
<1>2. Cardinality(kept) <= MaxPending
  BY <1>1, FS_CardinalityType, Capacity DEF IInv, TypeOK
<1>3. EntriesInv'
  BY DEF IInv, EntriesInv, TasksOf
<1>4. {t \in Tasks : outcome'[t] = "accepted"} = TasksOf(kept) \cup InFlight
  <2>1. TasksOf(pending) \subseteq Tasks /\ InFlight \subseteq Tasks
    BY DEF IInv, TypeOK, TasksOf, InFlight, Entries
  <2>2. InFlight \cap TasksOf(pending) = {}
    BY DEF IInv, EntriesInv, InFlight
  <2>3. TasksOf(kept) \subseteq TasksOf(pending)
    BY DEF TasksOf
  <2>4. {t \in Tasks : outcome[t] = "accepted"} = TasksOf(pending) \cup InFlight
    BY DEF IInv, NothingForgotten, InFlight
  <2>5. QED
    BY <2>1, <2>2, <2>3, <2>4 DEF SettleAs
<1>5. outcome' \in [Tasks -> {"new", "accepted", "refused", "completed", "failed",
                             "cancelled"}]
  BY DEF IInv, TypeOK, SettleAs
<1>6. QED
  BY <1>1, <1>2, <1>3, <1>4, <1>5 DEF IInv, TypeOK
-----------------------------
(* Every step keeps the invariant.                                         *)

LEMMA InitHolds == Init => IInv
<1> SUFFICES ASSUME Init PROVE IInv
  OBVIOUS
<1>1. TypeOK
  <2>1. IsFiniteSet(pending) /\ Cardinality(pending) <= MaxPending
    BY Capacity, FS_EmptySet DEF Init
  <2>2. outcome \in [Tasks -> {"new", "accepted", "refused", "completed", "failed", "cancelled"}]
    BY DEF Init
  <2>3. {timer, paused, disposed, waiting, stopped} \subseteq BOOLEAN
    BY DEF Init
  <2>4. QED
    BY <2>1, <2>2, <2>3 DEF Init, TypeOK
<1>2. NothingForgotten /\ LosersAreTold /\ EntriesInv /\ RestInv /\ RaceInv
  BY DEF Init, NothingForgotten, LosersAreTold, EntriesInv, RestInv, RaceInv, TasksOf
<1>3. QED
  BY <1>1, <1>2 DEF IInv

LEMMA EnqueueKeeps ==
  ASSUME IInv, NEW t \in Tasks, outcome[t] = "new", NEW e \in Entries, e.task = t,
         NEW kept, kept \subseteq pending, Cardinality(kept) < MaxPending, ~disposed,
         Enqueue(t, e, kept, TasksOf(pending \ kept)),
         UNCHANGED <<told, raced>> \/ AbortRunning
  PROVE  IInv'
<1>1. /\ told \subseteq told' /\ told' \subseteq Tasks
      /\ raced' \in {"none", "value", "error", "abort"}
  BY AbortTells DEF IInv, TypeOK
<1>2. /\ pending' = kept \cup {e} /\ IsFiniteSet(kept \cup {e})
      /\ Cardinality(kept \cup {e}) <= MaxPending
  <2>1. IsFiniteSet(kept)
    BY FS_Subset DEF IInv, TypeOK
  <2>2. Cardinality(kept) \in Nat
    BY <2>1, FS_CardinalityType
  <2>3. /\ IsFiniteSet(kept \cup {e})
        /\ Cardinality(kept \cup {e}) = IF e \in kept THEN Cardinality(kept)
                                        ELSE Cardinality(kept) + 1
    BY <2>1, FS_AddElement
  <2>4. QED
    BY <2>2, <2>3, Capacity DEF Enqueue
<1>3. {u \in Tasks : outcome[u] = "accepted"} = TasksOf(pending) \cup InFlight
  BY DEF IInv, NothingForgotten, InFlight
<1>4. t \notin TasksOf(pending) \cup InFlight
  BY <1>3
<1>5. TypeOK'
  BY <1>1, <1>2 DEF IInv, TypeOK, Enqueue, Schedule, routeVars
<1>6. EntriesInv'
  BY <1>2, <1>4 DEF IInv, EntriesInv, Enqueue, TasksOf, InFlight
<1>7. NothingForgotten'
  <2>1. TasksOf(pending) \subseteq Tasks /\ InFlight \subseteq Tasks
    BY DEF IInv, TypeOK, TasksOf, InFlight, Entries
  <2>2. InFlight \cap TasksOf(pending) = {}
    BY DEF IInv, EntriesInv, InFlight
  <2>3. TasksOf(kept) = TasksOf(pending) \ TasksOf(pending \ kept)
    BY DEF IInv, EntriesInv, TasksOf
  <2>4. TasksOf(pending') = TasksOf(kept) \cup {t}
    BY <1>2 DEF TasksOf
  <2>5. {u \in Tasks : outcome'[u] = "accepted"} = TasksOf(pending') \cup InFlight
    <3> DEFINE dropped == TasksOf(pending \ kept)
    <3>1. dropped \subseteq TasksOf(pending)
      BY DEF TasksOf
    <3>2. outcome' = [u \in Tasks |-> IF u = t THEN "accepted"
                                     ELSE IF u \in dropped THEN "cancelled" ELSE outcome[u]]
      BY DEF Enqueue
    <3> HIDE DEF dropped
    <3>3. ASSUME NEW u \in Tasks
          PROVE  outcome'[u] = "accepted" <=> u = t \/ (u \notin dropped /\ outcome[u] = "accepted")
      BY <3>2
    <3>4. {u \in Tasks : outcome'[u] = "accepted"}
            = {t} \cup ({u \in Tasks : outcome[u] = "accepted"} \ dropped)
      BY <3>3
    <3>5. QED
      BY <3>1, <3>4, <1>3, <2>2, <2>3, <2>4 DEF dropped
  <2>6. InFlight = IF running' = None THEN {} ELSE {running'.task}
    BY DEF Enqueue, InFlight
  <2>7. pending' # {} /\ ~paused' => timer' \/ running' # None
    BY DEF Enqueue, Schedule
  <2>8. QED
    BY <2>5, <2>6, <2>7 DEF NothingForgotten
<1>8. LosersAreTold'
  BY <1>1 DEF IInv, LosersAreTold, Enqueue, Stale, SignalAborted, routeVars
<1>9. RestInv' /\ RaceInv'
  BY <1>1, AbortTells DEF IInv, RestInv, RaceInv, Enqueue, Schedule
<1>10. QED
  BY <1>5, <1>6, <1>7, <1>8, <1>9 DEF IInv

LEMMA RefuseKeeps ==
  ASSUME IInv, NEW t \in Tasks, outcome[t] = "new", Refuse(t),
         UNCHANGED <<told, raced>> \/ AbortRunning
  PROVE  IInv'
<1>1. /\ told \subseteq told' /\ told' \subseteq Tasks
      /\ raced' \in {"none", "value", "error", "abort"}
  BY AbortTells DEF IInv, TypeOK
<1>2. TypeOK'
  BY <1>1 DEF IInv, TypeOK, Refuse, routeVars
<1>3. NothingForgotten'
  <2>1. {u \in Tasks : outcome'[u] = "accepted"} = {u \in Tasks : outcome[u] = "accepted"}
    BY DEF IInv, TypeOK, Refuse
  <2>2. QED
    BY <2>1 DEF IInv, NothingForgotten, Refuse, TasksOf
<1>4. LosersAreTold'
  BY <1>1 DEF IInv, LosersAreTold, Refuse, Stale, SignalAborted, routeVars
<1>5. EntriesInv' /\ RestInv' /\ RaceInv'
  BY <1>1, AbortTells DEF IInv, EntriesInv, RestInv, RaceInv, Refuse, TasksOf
<1>6. QED
  BY <1>2, <1>3, <1>4, <1>5 DEF IInv

LEMMA OverflowKeeps ==
  ASSUME IInv, NEW t \in Tasks, outcome[t] = "new", NEW e \in Entries, e.task = t, ~disposed,
         Overflow(t, e, pending), UNCHANGED <<told, raced>> \/ AbortRunning
  PROVE  IInv'
<1>1. IsFiniteSet(pending) /\ Cardinality(pending) \in Nat /\ Cardinality(pending) <= MaxPending
  BY FS_CardinalityType DEF IInv, TypeOK
<1>2. CASE Cardinality(pending) < MaxPending
  <2>1. Enqueue(t, e, pending, TasksOf(pending \ pending))
    BY <1>2 DEF Overflow, TasksOf
  <2>2. QED
    BY <1>2, <2>1, EnqueueKeeps
<1>3. CASE ~(Cardinality(pending) < MaxPending) /\ OverflowPolicy = "drop-oldest"
  <2>1. pending # {}
    BY <1>3, FS_EmptySet, Capacity
  <2>2. Oldest \in pending
    BY <2>1, OldestIsFirst DEF IInv
  <2>3. Cardinality(pending \ {Oldest}) < MaxPending
    <3>1. Cardinality(pending \ {Oldest}) = Cardinality(pending) - 1
      BY <1>1, <2>2, FS_RemoveElement
    <3>2. QED
      BY <1>1, <3>1, Capacity
  <2>4. Enqueue(t, e, pending \ {Oldest}, TasksOf(pending \ (pending \ {Oldest})))
    BY <1>3, <2>2 DEF Overflow, TasksOf
  <2>5. QED
    BY <2>3, <2>4, EnqueueKeeps
<1>4. CASE ~(Cardinality(pending) < MaxPending) /\ OverflowPolicy # "drop-oldest"
  BY <1>4, RefuseKeeps DEF Overflow
<1>5. QED
  BY <1>2, <1>3, <1>4

LEMMA AddKeeps ==
  ASSUME IInv, NEW t \in Tasks, NEW k \in Keys, NEW g \in {generation, route},
         NEW routed \in BOOLEAN, Add(t, k, g, routed)
  PROVE  IInv'
<1> DEFINE e == [task |-> t, key |-> k, generation |-> g, routed |-> routed]
<1>1. outcome[t] = "new"
  BY DEF Add
<1>2. e \in Entries /\ e.task = t
  BY DEF IInv, TypeOK, Entries
<1>3. CASE Refuse(t) /\ UNCHANGED <<told, raced>>
  BY <1>1, <1>3, RefuseKeeps
<1>4. CASE /\ ~disposed /\ Duplicates(k) # {} /\ UNCHANGED <<told, raced>>
           /\ Enqueue(t, e, Without(k), TasksOf(Duplicates(k)))
  <2>1. Duplicates(k) = pending \ Without(k)
    BY DEF Duplicates, Without
  <2>2. PICK f \in Duplicates(k) : TRUE
    BY <1>4
  <2>3. Cardinality(Without(k)) < MaxPending
    <3>1. IsFiniteSet(pending) /\ f \in pending /\ Cardinality(pending) <= MaxPending
      BY <2>2 DEF Duplicates, IInv, TypeOK
    <3>2. Without(k) \in SUBSET (pending \ {f})
      BY <2>2 DEF Duplicates, Without
    <3>3. IsFiniteSet(pending \ {f}) /\ Cardinality(pending \ {f}) = Cardinality(pending) - 1
      BY <3>1, FS_RemoveElement
    <3>4. /\ IsFiniteSet(Without(k)) /\ Cardinality(Without(k)) <= Cardinality(pending \ {f})
      BY <3>2, <3>3, FS_Subset
    <3>5. QED
      BY <3>1, <3>3, <3>4, FS_CardinalityType, Capacity
  <2>4. Without(k) \subseteq pending
    BY DEF Without
  <2>5. Enqueue(t, e, Without(k), TasksOf(pending \ Without(k)))
    BY <1>4, <2>1
  <2> HIDE DEF e
  <2>6. QED
    BY <1>1, <1>2, <1>4, <2>3, <2>4, <2>5, EnqueueKeeps
<1>5. CASE /\ ~disposed /\ Overflow(t, e, pending)
           /\ UNCHANGED <<told, raced>> \/ AbortRunning
  <2> HIDE DEF e
  <2>1. QED
    BY <1>1, <1>2, <1>5, OverflowKeeps
<1>6. QED
  <2> DEFINE
        r == \/ disposed
             \/ g # generation
             \/ (Duplicates(k) # {} \/ RunsKey(k)) /\ DuplicatePolicy = "drop-new"
             \/ Duplicates(k) = {} /\ RunsKey(k) /\ DuplicatePolicy = "replace-pending"
  <2>1. CASE r
    BY <2>1, <1>3 DEF Add
  <2>2. CASE ~r /\ Duplicates(k) # {}
    <3>1. Enqueue(t, e, Without(k), TasksOf(Duplicates(k))) /\ UNCHANGED <<told, raced>>
      BY <2>2 DEF Add
    <3>2. QED
      BY <2>2, <3>1, <1>4
  <2>3. CASE ~r /\ Duplicates(k) = {}
    <3>1. Overflow(t, e, pending) /\ (UNCHANGED <<told, raced>> \/ AbortRunning)
      BY <2>3 DEF Add
    <3>2. QED
      BY <2>3, <3>1, <1>5
  <2>4. QED
    BY <2>1, <2>2, <2>3
\* A task starts when the queue is at rest, and is told at once if it is too late.
LEMMA StartKeeps ==
  ASSUME IInv, timer, pending # {}, ~paused, ~disposed, Fire
  PROVE  IInv'
<1> DEFINE e == Oldest
<1>1. e \in pending /\ e \in Entries /\ running = None
  BY OldestIsFirst DEF IInv, TypeOK, RestInv
<1>2. pending' = pending \ {e}
  BY DEF Fire
<1>3. CASE Stale(e)
  <2>1. TasksOf(pending) \ TasksOf(pending \ {e}) = {e.task}
    BY <1>1 DEF IInv, EntriesInv, TasksOf
  <2>2. SettleAs({e.task}, "cancelled") /\ timer' = (pending' # {})
        /\ UNCHANGED <<running, raced, bodies, told, waiting, policy, paused, disposed, generation, routeVars>>
    BY <1>1, <1>3 DEF Fire
  <2> HIDE DEF e
  <2>3. /\ pending' \subseteq Entries /\ IsFiniteSet(pending')
        /\ Cardinality(pending') <= MaxPending
        /\ outcome' \in [Tasks -> {"new", "accepted", "refused", "completed", "failed", "cancelled"}]
        /\ {t \in Tasks : outcome'[t] = "accepted"} = TasksOf(pending') \cup InFlight
        /\ EntriesInv'
    BY <1>2, <2>1, <2>2, CancelKeeps
  <2>4. TypeOK'
    BY <2>2, <2>3 DEF IInv, TypeOK, routeVars
  <2>5. NothingForgotten' /\ LosersAreTold' /\ RestInv' /\ RaceInv'
    BY <1>1, <2>2, <2>3 DEF IInv, NothingForgotten, LosersAreTold, RestInv, RaceInv, InFlight,
                            Stale, SignalAborted, routeVars
  <2>6. QED
    BY <2>3, <2>4, <2>5 DEF IInv
<1>4. CASE ~Stale(e)
  <2>1. /\ running' = e /\ timer' = FALSE /\ raced' = "none"
        /\ bodies' = bodies \cup {e.task}
        /\ told' = IF SignalAborted(e) THEN told \cup {e.task} ELSE told
        /\ UNCHANGED <<outcome, waiting, policy, paused, disposed, generation, routeVars>>
    BY <1>1, <1>4 DEF Fire
  <2> HIDE DEF e
  <2>2. IsFiniteSet(pending') /\ Cardinality(pending') <= MaxPending
    <3>1. /\ IsFiniteSet(pending) /\ Cardinality(pending) \in Nat
          /\ Cardinality(pending) <= MaxPending
      BY FS_CardinalityType DEF IInv, TypeOK
    <3>2. IsFiniteSet(pending') /\ Cardinality(pending') = Cardinality(pending) - 1
      BY <1>1, <1>2, <3>1, FS_RemoveElement
    <3>3. QED
      BY <3>1, <3>2, Capacity
  <2>3. TypeOK'
    BY <1>1, <1>2, <2>1, <2>2 DEF IInv, TypeOK, routeVars, Entries
  <2>4. EntriesInv'
    BY <1>1, <1>2, <2>1 DEF IInv, EntriesInv, TasksOf
  <2>5. NothingForgotten'
    <3>1. TasksOf(pending) = TasksOf(pending') \cup {e.task}
      BY <1>1, <1>2 DEF TasksOf
    <3>2. running' # None
      BY <1>1, <2>1, EntryIsSome
    <3>3. QED
      BY <1>1, <2>1, <3>1, <3>2 DEF IInv, NothingForgotten
  <2>6. LosersAreTold'
    <3>1. \A t \in bodies' : running'.task # t => t \in told'
      BY <1>1, <2>1 DEF IInv, LosersAreTold
    <3>2. running'.generation = generation' /\ ~disposed' /\ ~Stale(running)'
      BY <1>4, <2>1 DEF Stale
    <3>3. SignalAborted(running)' => running'.task \in told'
      BY <2>1 DEF SignalAborted, routeVars
    <3>4. running' # None
      BY <1>1, <2>1, EntryIsSome
    <3>5. QED
      BY <3>1, <3>2, <3>3, <3>4 DEF LosersAreTold
  <2>7. RestInv' /\ RaceInv'
    BY <1>1, <1>2, <2>1 DEF IInv, RestInv, RaceInv
  <2>8. QED
    BY <2>3, <2>4, <2>5, <2>6, <2>7 DEF IInv
<1>5. QED
  BY <1>3, <1>4

LEMMA FireKeeps ==
  ASSUME IInv, Fire
  PROVE  IInv'
<1>1. CASE pending = {} \/ paused \/ disposed
  <2>1. /\ timer' = FALSE /\ waiting' \in BOOLEAN
        /\ UNCHANGED <<pending, running, raced, taskVars, policy, paused, disposed, generation,
                       routeVars>>
    BY <1>1 DEF Fire, NotifyIdle
  <2>2. TypeOK'
    BY <2>1 DEF IInv, TypeOK, taskVars, routeVars
  <2>3. /\ NothingForgotten' /\ LosersAreTold' /\ EntriesInv' /\ RestInv' /\ RaceInv'
    BY <1>1, <2>1 DEF IInv, NothingForgotten, LosersAreTold, EntriesInv, RestInv, RaceInv,
                      Stale, SignalAborted, taskVars, routeVars, TasksOf
  <2>4. QED
    BY <2>2, <2>3 DEF IInv
<1>2. CASE ~(pending = {} \/ paused \/ disposed)
  BY <1>2, StartKeeps DEF Fire
<1>3. QED
  BY <1>1, <1>2

LEMMA BodyEndsKeeps ==
  ASSUME IInv, NEW t \in Tasks, NEW result \in {"value", "error", "abort"}, BodyEnds(t, result)
  PROVE  IInv'
<1>1. TypeOK'
  BY DEF IInv, TypeOK, BodyEnds, routeVars
<1>2. NothingForgotten' /\ EntriesInv' /\ RestInv'
  BY DEF IInv, NothingForgotten, EntriesInv, RestInv, BodyEnds, TasksOf
<1>3. LosersAreTold' /\ RaceInv'
  BY DEF IInv, LosersAreTold, RaceInv, BodyEnds, Stale, SignalAborted, routeVars
<1>4. QED
  BY <1>1, <1>2, <1>3 DEF IInv

LEMMA TimeoutKeeps ==
  ASSUME IInv, Timeout
  PROVE  IInv'
<1>1. TypeOK'
  BY DEF IInv, TypeOK, Timeout, routeVars, Entries
<1>2. NothingForgotten' /\ EntriesInv' /\ RestInv'
  BY DEF IInv, NothingForgotten, EntriesInv, RestInv, Timeout, TasksOf
<1>3. LosersAreTold' /\ RaceInv'
  BY DEF IInv, LosersAreTold, RaceInv, Timeout, Stale, SignalAborted, routeVars
<1>4. QED
  BY <1>1, <1>2, <1>3 DEF IInv

LEMMA SettleKeeps ==
  ASSUME IInv, Settle
  PROVE  IInv'
<1>1. PICK result \in {"completed", "failed", "cancelled"} : SettleAs({running.task}, result)
  BY DEF Settle
<1>2. {t \in Tasks : outcome'[t] = "accepted"} = TasksOf(pending)
  <2>1. running.task \notin TasksOf(pending)
    BY DEF Settle, IInv, EntriesInv
  <2>2. {t \in Tasks : outcome[t] = "accepted"} = TasksOf(pending) \cup {running.task}
    BY DEF Settle, IInv, NothingForgotten
  <2>3. QED
    BY <1>1, <2>1, <2>2 DEF SettleAs
<1>3. TypeOK'
  <2>1. outcome' \in [Tasks -> {"new", "accepted", "refused", "completed", "failed", "cancelled"}]
    BY <1>1 DEF SettleAs, IInv, TypeOK
  <2>2. QED
    BY <2>1 DEF IInv, TypeOK, Settle, Schedule, NotifyIdle, routeVars
<1>4. NothingForgotten'
  <2>1. pending # {} => ~disposed
    BY DEF IInv, RestInv
  <2>2. QED
    BY <1>2, <2>1 DEF NothingForgotten, Settle, Schedule, TasksOf
<1>5. LosersAreTold'
  BY DEF IInv, LosersAreTold, RaceInv, Settle
<1>6. EntriesInv' /\ RestInv' /\ RaceInv'
  BY DEF IInv, EntriesInv, RestInv, RaceInv, Settle
<1>7. QED
  BY <1>3, <1>4, <1>5, <1>6 DEF IInv
LEMMA SetGenerationKeeps ==
  ASSUME IInv, NEW g \in Nat, SetGeneration(g)
  PROVE  IInv'
<1> DEFINE kept == {e \in pending : e.generation = g}
<1>1. /\ kept \subseteq pending /\ pending' = kept /\ generation' = g
      /\ SettleAs(TasksOf(pending) \ TasksOf(kept), "cancelled") /\ Schedule(kept, running)
      /\ UNCHANGED <<policy, running, paused, disposed, waiting, bodies, routeVars>>
  BY DEF SetGeneration
<1>2. UNCHANGED <<told, raced>> \/ AbortRunning
  BY DEF SetGeneration
<1>3. /\ told \subseteq told' /\ told' \subseteq Tasks
      /\ raced' \in {"none", "value", "error", "abort"}
  BY <1>2, AbortTells DEF IInv, TypeOK
<1>4. running # None /\ running.generation # g => running.task \in told'
  BY AbortTells DEF SetGeneration
<1> HIDE DEF kept
<1>5. /\ pending' \subseteq Entries /\ IsFiniteSet(pending')
      /\ Cardinality(pending') <= MaxPending
      /\ outcome' \in [Tasks -> {"new", "accepted", "refused", "completed", "failed", "cancelled"}]
      /\ {t \in Tasks : outcome'[t] = "accepted"} = TasksOf(pending') \cup InFlight
      /\ EntriesInv'
  BY <1>1, CancelKeeps
<1>6. TypeOK'
  BY <1>1, <1>3, <1>5 DEF IInv, TypeOK, Schedule, routeVars
<1>7. NothingForgotten' /\ RestInv'
  BY <1>1, <1>5 DEF IInv, NothingForgotten, RestInv, Schedule, InFlight
<1>8. LosersAreTold'
  BY <1>1, <1>3, <1>4 DEF IInv, LosersAreTold, Stale, SignalAborted, routeVars
<1>9. RaceInv'
  BY <1>1, <1>2, <1>3, AbortTells DEF IInv, RaceInv
<1>10. QED
  BY <1>5, <1>6, <1>7, <1>8, <1>9 DEF IInv

\* cancelPending(), clear() and dispose() empty the queue.
LEMMA EmptyingKeeps ==
  ASSUME IInv, pending' = {}, SettleAs(TasksOf(pending), "cancelled"), NotifyIdle({}, running),
         UNCHANGED <<told, raced>> \/ AbortRunning, timer' \in BOOLEAN, timer' => timer,
         disposed' \in BOOLEAN, disposed' => AbortRunning \/ disposed,
         UNCHANGED <<policy, running, paused, generation, bodies, routeVars>>
  PROVE  IInv'
<1>1. /\ told \subseteq told' /\ told' \subseteq Tasks
      /\ raced' \in {"none", "value", "error", "abort"}
  BY AbortTells DEF IInv, TypeOK
<1>2. TasksOf(pending) \ TasksOf({}) = TasksOf(pending)
  BY DEF TasksOf
<1>3. /\ pending' \subseteq Entries /\ IsFiniteSet(pending')
      /\ Cardinality(pending') <= MaxPending
      /\ outcome' \in [Tasks -> {"new", "accepted", "refused", "completed", "failed", "cancelled"}]
      /\ {t \in Tasks : outcome'[t] = "accepted"} = TasksOf(pending') \cup InFlight
      /\ EntriesInv'
  BY <1>2, CancelKeeps
<1>4. TypeOK'
  BY <1>1, <1>3 DEF IInv, TypeOK, NotifyIdle, routeVars
<1>5. NothingForgotten'
  BY <1>3 DEF NothingForgotten, InFlight
<1>6. RestInv'
  BY DEF IInv, RestInv
<1>7. LosersAreTold'
  BY <1>1, AbortTells DEF IInv, LosersAreTold, Stale, SignalAborted, routeVars
<1>8. RaceInv'
  BY <1>1, AbortTells DEF IInv, RaceInv
<1>9. QED
  BY <1>3, <1>4, <1>5, <1>6, <1>7, <1>8 DEF IInv

\* Only the right of the task in flight to go on changes, if that.
LEMMA RouteKeeps ==
  ASSUME IInv, UNCHANGED <<policy, pending, running, timer, paused, disposed, generation,
                           waiting, outcome, bodies>>,
         UNCHANGED <<told, raced>> \/ AbortRunning,
         route' \in Nat, stopped' \in BOOLEAN,
         running # None /\ SignalAborted(running)' => SignalAborted(running) \/ AbortRunning
  PROVE  IInv'
<1>1. /\ told \subseteq told' /\ told' \subseteq Tasks
      /\ raced' \in {"none", "value", "error", "abort"}
  BY AbortTells DEF IInv, TypeOK
<1>2. TypeOK'
  BY <1>1 DEF IInv, TypeOK
<1>3. NothingForgotten' /\ EntriesInv' /\ RestInv'
  BY DEF IInv, NothingForgotten, EntriesInv, RestInv, TasksOf
<1>4. LosersAreTold'
  BY <1>1, AbortTells DEF IInv, LosersAreTold, Stale
<1>5. RaceInv'
  BY <1>1, AbortTells DEF IInv, RaceInv
<1>6. QED
  BY <1>2, <1>3, <1>4, <1>5 DEF IInv

LEMMA RouteEndsTells ==
  ASSUME IInv, BeginRoute \/ StopRoute
  PROVE  IInv'
<1>1. route' \in Nat /\ stopped' \in BOOLEAN /\ RouteEnds
      /\ UNCHANGED <<policy, pending, running, timer, paused, disposed, generation, waiting,
                     outcome, bodies>>
  <2>1. route' \in Nat /\ stopped' \in BOOLEAN
        /\ UNCHANGED <<policy, pending, running, timer, paused, disposed, generation, waiting,
                       outcome, bodies>>
    <3>1. route \in Nat /\ stopped \in BOOLEAN
      BY DEF IInv, TypeOK
    <3>2. CASE BeginRoute
      <4>1. route' = route + 1 /\ stopped' = FALSE
        BY <3>2 DEF BeginRoute
      <4>2. route' \in Nat
        BY <3>1, <4>1
      <4>3. stopped' \in BOOLEAN
        BY <4>1, Zenon
      <4>4. QED
        BY <3>2, <4>2, <4>3 DEF BeginRoute
    <3>3. CASE StopRoute
      BY <3>1, <3>3 DEF StopRoute
    <3>4. QED
      BY <3>2, <3>3
  <2>2. RouteEnds
    BY DEF BeginRoute, StopRoute
  <2>3. QED
    BY <2>1, <2>2
<1>2. UNCHANGED <<told, raced>> \/ AbortRunning
  BY <1>1 DEF RouteEnds
<1>3. ASSUME running # None, SignalAborted(running)', ~SignalAborted(running)
      PROVE  AbortRunning
  <2>1. running.routed /\ running.generation \in Nat /\ route \in Nat /\ stopped \in BOOLEAN
    BY <1>1, <1>3 DEF IInv, TypeOK, Entries, SignalAborted
  <2>2. running.generation = route
    BY <1>1, <1>3, <2>1 DEF SignalAborted, BeginRoute, StopRoute
  <2>3. QED
    BY <1>1, <1>3, <2>1, <2>2 DEF RouteEnds
<1>4. QED
  BY <1>1, <1>2, <1>3, RouteKeeps

LEMMA PauseKeeps ==
  ASSUME IInv, Pause \/ Resume \/ WhenIdle
  PROVE  IInv'
<1>1. /\ timer' \in BOOLEAN /\ paused' \in BOOLEAN /\ waiting' \in BOOLEAN
      /\ UNCHANGED <<policy, pending, running, raced, disposed, generation, taskVars, routeVars>>
  BY DEF IInv, TypeOK, Pause, Resume, WhenIdle
<1>2. TypeOK'
  BY <1>1 DEF IInv, TypeOK, taskVars, routeVars
<1>3. NothingForgotten' /\ RestInv'
  BY <1>1 DEF IInv, NothingForgotten, RestInv, Pause, Resume, WhenIdle, taskVars, TasksOf
<1>4. LosersAreTold' /\ EntriesInv' /\ RaceInv'
  BY <1>1 DEF IInv, LosersAreTold, EntriesInv, RaceInv, Stale, SignalAborted, taskVars, routeVars,
              TasksOf
<1>5. QED
  BY <1>2, <1>3, <1>4 DEF IInv

LEMMA CancelRunningKeeps ==
  ASSUME IInv, CancelRunning
  PROVE  IInv'
<1>1. SignalAborted(running)' = SignalAborted(running)
  BY DEF CancelRunning, SignalAborted, routeVars
<1>2. route' \in Nat /\ stopped' \in BOOLEAN
  BY DEF IInv, TypeOK, CancelRunning, routeVars
<1>3. QED
  BY <1>1, <1>2, RouteKeeps DEF CancelRunning

LEMMA ClearKeeps ==
  ASSUME IInv, CancelPending \/ Clear \/ Dispose
  PROVE  IInv'
<1>1. CASE CancelPending
  BY <1>1, EmptyingKeeps DEF CancelPending, IInv, TypeOK
<1>2. CASE Clear
  BY <1>2, EmptyingKeeps DEF Clear, ClearAll, IInv, TypeOK
<1>3. CASE Dispose
  BY <1>3, EmptyingKeeps DEF Dispose, ClearAll
<1>4. QED
  BY <1>1, <1>2, <1>3

LEMMA StepKeeps == IInv /\ [Next]_vars => IInv'
<1> SUFFICES ASSUME IInv, [Next]_vars PROVE IInv'
  OBVIOUS
<1>1. ASSUME NEW t \in Tasks, NEW k \in Keys, NEW g \in {generation, route},
             NEW routed \in BOOLEAN, Add(t, k, g, routed)
      PROVE  IInv'
  BY <1>1, AddKeeps
<1>2. CASE Fire
  BY <1>2, FireKeeps
<1>3. ASSUME NEW t \in Tasks, NEW result \in {"value", "error", "abort"}, BodyEnds(t, result)
      PROVE  IInv'
  BY <1>3, BodyEndsKeeps
<1>4. CASE Timeout \/ Settle
  BY <1>4, TimeoutKeeps, SettleKeeps
<1>5. CASE SetGeneration(route)
  BY <1>5, SetGenerationKeeps DEF IInv, TypeOK
<1>6. CASE Pause \/ Resume \/ WhenIdle
  BY <1>6, PauseKeeps
<1>7. CASE CancelPending \/ CancelRunning \/ Clear \/ Dispose
  BY <1>7, ClearKeeps, CancelRunningKeeps
<1>8. CASE BeginRoute \/ StopRoute
  BY <1>8, RouteEndsTells
<1>9. CASE UNCHANGED vars
  BY <1>9 DEF vars, queueVars, taskVars, routeVars, IInv, TypeOK, NothingForgotten, LosersAreTold,
              EntriesInv, RestInv, RaceInv, Stale, SignalAborted, TasksOf
<1>10. QED
  BY <1>1, <1>2, <1>3, <1>4, <1>5, <1>6, <1>7, <1>8, <1>9 DEF Next

LEMMA InvariantHolds == Spec => []IInv
<1>1. QED
  BY InitHolds, StepKeeps, PTL DEF Spec
-----------------------------
(* Theorems.                                                               *)

\* Every variable has its type, in particular no more than MaxPending tasks wait.
THEOREM TypeCorrect == Spec => []TypeOK
<1>1. IInv => TypeOK
  BY DEF IInv
<1>2. QED
  BY <1>1, InvariantHolds, PTL

\* No promise of add() is forgotten and no queued task is left without a timer:
\* whatever replaces, drops, purges or clears a task settles it (taskQueue.js).
THEOREM NoPromiseForgotten == Spec => []NothingForgotten
<1>1. IInv => NothingForgotten
  BY DEF IInv
<1>2. QED
  BY <1>1, InvariantHolds, PTL

\* Every task body that has lost the right to run sees its signal aborted, and so
\* does the task in flight when the queue, its generation or its route ends.
THEOREM LosersTold == Spec => []LosersAreTold
<1>1. IInv => LosersAreTold
  BY DEF IInv
<1>2. QED
  BY <1>1, InvariantHolds, PTL

-----------------------------
(* The queue is the serial queue of SerialTasks.                           *)

Current == IF running = None THEN 0 ELSE running.task

LEMMA CurrentIsTask ==
  ASSUME IInv
  PROVE  Current = 0 <=> running = None
BY DEF IInv, TypeOK, Entries, Tasks, Current

LEMMA QueuedAre ==
  ASSUME IInv
  PROVE  /\ Serial!Tasks = Tasks
         /\ Serial!Queued = TasksOf(pending)
<1>1. Serial!Tasks = Tasks
  BY DEF Serial!Tasks, Tasks
<1>2. Serial!Queued = {t \in Tasks : outcome[t] = "accepted"} \ InFlight
  BY <1>1 DEF Serial!Queued, InFlight, IInv, TypeOK, Entries, Tasks
<1>3. TasksOf(pending) \cap InFlight = {}
  BY DEF IInv, EntriesInv, InFlight
<1>4. {t \in Tasks : outcome[t] = "accepted"} = TasksOf(pending) \cup InFlight
  BY DEF IInv, NothingForgotten, InFlight
<1>5. QED
  BY <1>1, <1>2, <1>3, <1>4

LEMMA CancelIsAbstract ==
  ASSUME IInv, NEW ts, ts \subseteq TasksOf(pending), SettleAs(ts, "cancelled"),
         running' = running
  PROVE  Serial!Next
<1>1. ts \in SUBSET Serial!Queued
  BY QueuedAre
<1>2. outcome' = Serial!Become(ts, "cancelled")
  BY QueuedAre DEF SettleAs, Serial!Become
<1>3. QED
  BY <1>1, <1>2 DEF Serial!Next, Serial!Cancel

LEMMA AddIsAbstract ==
  ASSUME IInv, NEW t \in Tasks, NEW k \in Keys, NEW g \in {generation, route},
         NEW routed \in BOOLEAN, Add(t, k, g, routed)
  PROVE  Serial!Next
<1> DEFINE e == [task |-> t, key |-> k, generation |-> g, routed |-> routed]
<1>1. outcome[t] = "new" /\ \A s \in 1 .. t - 1 : outcome[s] # "new"
  BY DEF Add
<1>2. ASSUME Refuse(t) PROVE Serial!Add(t)
  BY <1>1, <1>2 DEF Serial!Add, Refuse
<1>3. ASSUME NEW kept, NEW ts, ts \subseteq TasksOf(pending), Enqueue(t, e, kept, ts)
      PROVE  Serial!Add(t)
  <2>1. ts \in SUBSET Serial!Queued
    BY <1>3, QueuedAre
  <2>2. outcome' = [u \in Tasks |-> IF u = t THEN "accepted"
                                   ELSE IF u \in ts THEN "cancelled" ELSE outcome[u]]
    BY <1>3 DEF Enqueue
  <2>3. outcome' = [Serial!Become(ts, "cancelled") EXCEPT ![t] = "accepted"]
    BY <2>2, QueuedAre DEF Serial!Become
  <2>4. running' = running
    BY <1>3 DEF Enqueue
  <2>5. QED
    BY <1>1, <2>1, <2>3, <2>4 DEF Serial!Add
<1>4. Refuse(t) \/ \E kept, ts : ts \subseteq TasksOf(pending) /\ Enqueue(t, e, kept, ts)
  <2>1. TasksOf(Duplicates(k)) \subseteq TasksOf(pending)
    BY DEF TasksOf, Duplicates
  <2>2. ASSUME Overflow(t, e, pending)
        PROVE  Refuse(t) \/ \E kept, ts : ts \subseteq TasksOf(pending) /\ Enqueue(t, e, kept, ts)
    <3>1. CASE Cardinality(pending) < MaxPending
      BY <2>2, <3>1 DEF Overflow
    <3>2. CASE ~(Cardinality(pending) < MaxPending)
      <4>1. pending # {} /\ Oldest \in pending
        BY <3>2, Capacity, FS_EmptySet, OldestIsFirst DEF IInv
      <4>2. {Oldest.task} \subseteq TasksOf(pending)
        BY <4>1 DEF TasksOf
      <4>3. QED
        BY <2>2, <3>2, <4>2 DEF Overflow
    <3>3. QED
      BY <3>1, <3>2
  <2>3. \/ Refuse(t)
        \/ Enqueue(t, e, Without(k), TasksOf(Duplicates(k)))
        \/ Overflow(t, e, pending)
    BY DEF Add
  <2> HIDE DEF e
  <2>4. QED
    BY <2>1, <2>2, <2>3
<1>5. QED
  BY <1>2, <1>3, <1>4, QueuedAre DEF Serial!Next

LEMMA FireIsAbstract ==
  ASSUME IInv, Fire
  PROVE  Serial!Next \/ UNCHANGED Serial!vars
<1>1. CASE pending = {} \/ paused \/ disposed
  BY <1>1 DEF Fire, taskVars, Serial!vars
<1>2. CASE ~(pending = {} \/ paused \/ disposed)
  <2> DEFINE e == Oldest
  <2>1. /\ e \in pending /\ \A f \in pending : e.task <= f.task
        /\ running = None /\ e \in Entries
    BY <1>2, OldestIsFirst DEF IInv, TypeOK, RestInv, Fire
  <2>2. e.task \in TasksOf(pending)
    BY <2>1 DEF TasksOf
  <2>3. CASE Stale(e)
    <3>1. SettleAs({e.task}, "cancelled") /\ running' = running
      BY <1>2, <2>3 DEF Fire
    <3>2. QED
      BY <2>2, <3>1, CancelIsAbstract
  <2>4. CASE ~Stale(e)
    <3>1. running' = e /\ outcome' = outcome
      BY <1>2, <2>4 DEF Fire
    <3> HIDE DEF e
    <3>2. e # None
      BY <2>1, EntryIsSome
    <3>3. Serial!Start(e.task)
      <4>1. \A s \in TasksOf(pending) : e.task <= s
        BY <2>1 DEF TasksOf
      <4>2. e.task \in Serial!Queued /\ \A s \in Serial!Queued : e.task <= s
        BY <2>2, <4>1, QueuedAre
      <4>3. QED
        BY <2>1, <3>1, <3>2, <4>2 DEF Serial!Start
    <3>4. e.task \in Serial!Tasks
      BY <2>1, QueuedAre DEF Entries
    <3>5. QED
      BY <3>3, <3>4 DEF Serial!Next
  <2>5. QED
    BY <2>3, <2>4
<1>3. QED
  BY <1>1, <1>2

LEMMA SettleIsAbstract ==
  ASSUME IInv, Settle
  PROVE  Serial!Next
<1>1. PICK result \in {"completed", "failed", "cancelled"} : SettleAs({running.task}, result)
  BY DEF Settle
<1>2. running # None /\ running' = None
  BY DEF Settle
<1>3. Current # 0 /\ Current = running.task
  BY <1>2, CurrentIsTask DEF Current
<1>4. outcome' = Serial!Become({Current}, result)
  BY <1>1, <1>3, QueuedAre DEF SettleAs, Serial!Become
<1>5. Serial!End
  BY <1>2, <1>3, <1>4 DEF Serial!End, Current
<1>6. QED
  BY <1>5 DEF Serial!Next

LEMMA StepIsAbstract == IInv /\ [Next]_vars => [Serial!Next]_(Serial!vars)
<1> SUFFICES ASSUME IInv, [Next]_vars PROVE Serial!Next \/ UNCHANGED Serial!vars
  OBVIOUS
<1>1. ASSUME NEW t \in Tasks, NEW k \in Keys, NEW g \in {generation, route},
             NEW routed \in BOOLEAN, Add(t, k, g, routed)
      PROVE  Serial!Next
  BY <1>1, AddIsAbstract
<1>2. CASE Fire
  BY <1>2, FireIsAbstract
<1>3. ASSUME NEW t \in Tasks, NEW result \in {"value", "error", "abort"}, BodyEnds(t, result)
      PROVE  UNCHANGED <<outcome, running>>
  BY <1>3 DEF BodyEnds
<1>4. CASE Timeout
  BY <1>4 DEF Timeout, Serial!vars
<1>5. CASE Settle
  BY <1>5, SettleIsAbstract
<1>6. CASE SetGeneration(route)
  <2>1. TasksOf(pending) \ TasksOf({e \in pending : e.generation = route})
          \subseteq TasksOf(pending)
    OBVIOUS
  <2>2. QED
    BY <1>6, <2>1, CancelIsAbstract DEF SetGeneration
<1>7. CASE Pause \/ Resume \/ WhenIdle
  BY <1>7 DEF Pause, Resume, WhenIdle, taskVars, Serial!vars
<1>8. CASE CancelPending \/ Clear \/ Dispose
  <2>1. SettleAs(TasksOf(pending), "cancelled") /\ running' = running
    BY <1>8 DEF CancelPending, Clear, ClearAll, Dispose
  <2>2. QED
    BY <2>1, CancelIsAbstract
<1>9. CASE CancelRunning \/ BeginRoute \/ StopRoute
  BY <1>9 DEF CancelRunning, BeginRoute, StopRoute, Serial!vars
<1>10. CASE UNCHANGED vars
  BY <1>10 DEF vars, queueVars, taskVars, Serial!vars
<1>11. QED
  BY <1>1, <1>2, <1>3, <1>4, <1>5, <1>6, <1>7, <1>8, <1>9, <1>10 DEF Next, Serial!vars

LEMMA InitIsAbstract == Init => Serial!Init
BY DEF Init, Serial!Init, Serial!Tasks, Tasks

\* The queue of taskQueue.js, whatever its policies, is seen by its callers as a
\* queue that runs one task at a time in the order of add(), each settling once.
THEOREM QueueIsSerial == Spec => ImplementsSerialTasks
<1>1. QED
  BY InitIsAbstract, StepIsAbstract, InvariantHolds, PTL
     DEF Spec, ImplementsSerialTasks, Serial!Spec
=============================================================================
