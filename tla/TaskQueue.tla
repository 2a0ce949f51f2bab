------------------------------ MODULE TaskQueue ------------------------------
(***************************************************************************)
(* core/taskQueue.js: the sequential queue of asynchronous tasks, with the *)
(* route signal of core/routeState.js that its tasks are bound to.         *)
(*                                                                         *)
(* Everything runs on one thread: an API call, a timer, the end of a task  *)
(* body and the continuation of the race in processNext are one step each, *)
(* in any order.  processing is TRUE exactly while running is set, so the  *)
(* model has only the latter.                                              *)
(***************************************************************************)
EXTENDS Naturals, FiniteSets

CONSTANTS
  TaskCount,       \* the task functions handed to add(), each once
  Keys,
  Policies,        \* pairs of duplicatePolicy and overflowPolicy
  MaxPending,
  HasTimeout,      \* timeoutMs > 0
  MaxRoute         \* bound: route changes

ASSUME QueueAssumption ==
  /\ Policies \subseteq {"drop-new", "drop-old", "replace-pending"}
                   \X {"drop-oldest", "drop-new", "reject"}
  /\ TaskCount \in Nat
  /\ MaxPending \in Nat \ {0}
  /\ HasTimeout \in BOOLEAN
  /\ MaxRoute \in Nat

VARIABLES
  policy,     \* the policies createTaskQueue() was given
  pending,    \* the entries of the Map; it keeps the order in which they were added
  running,    \* the entry in flight, or None
  raced,      \* what settled the race first
  timer,      \* the timeout that will call processNext is set
  paused,
  disposed,
  generation, \* currentGeneration
  waiting,    \* somebody awaits whenIdle()
  outcome,    \* what the promise of each task settled to
  bodies,     \* task functions that have started and not ended
  told,       \* tasks whose signal is aborted
  route,      \* the generation of the current route
  stopped     \* its signal is aborted without a new route

queueVars == <<policy, pending, running, raced, timer, paused, disposed, generation, waiting>>
taskVars == <<outcome, bodies, told>>
routeVars == <<route, stopped>>
vars == <<queueVars, taskVars, routeVars>>

\* A task is its place in the order of the calls of add().
Tasks == 1 .. TaskCount

Entries == [task : Tasks, key : Keys, generation : Nat, routed : BOOLEAN]
None == <<>>

DuplicatePolicy == policy[1]
OverflowPolicy == policy[2]

Init ==
  /\ policy \in Policies
  /\ pending = {}
  /\ running = None
  /\ raced = "none"
  /\ timer = FALSE /\ paused = FALSE /\ disposed = FALSE
  /\ generation = 0
  /\ waiting = FALSE
  /\ outcome = [t \in Tasks |-> "new"]
  /\ bodies = {}
  /\ told = {}
  /\ route = 0
  /\ stopped = FALSE

-----------------------------------------------------------------------------
SignalAborted(e) ==
  e.routed /\ (e.generation < route \/ (e.generation = route /\ stopped))

TasksOf(entries) == {e.task : e \in entries}

\* Faulty variant: the last entry of the Map instead of the first.
Newest == CHOOSE e \in pending : \A f \in pending : f.task <= e.task

\* Tasks are numbered in the order in which they are added.
Oldest == CHOOSE e \in pending : \A f \in pending : e.task <= f.task

SettleAs(ts, result) ==
  outcome' = [t \in Tasks |-> IF t \in ts THEN result ELSE outcome[t]]

\* schedule(), given the queue as the caller leaves it.
Schedule(entries, entry) ==
  timer' = (timer \/ (~disposed /\ ~paused /\ entry = None /\ entries # {}))

\* notifyIdle()
NotifyIdle(entries, entry) ==
  waiting' = (waiting /\ (entries # {} \/ entry # None))

\* Faulty variant: what is aborted is remembered by key.
AbortByKey ==
  IF running = None \/ running.key \in told
  THEN UNCHANGED <<told, raced>>
  ELSE /\ told' = told \cup {running.key}
       /\ raced' = IF raced = "none" THEN "abort" ELSE raced

\* Faulty variant: the race is lost and the signal is not aborted.
AbortSilently ==
  /\ raced' = IF running # None /\ raced = "none" THEN "abort" ELSE raced
  /\ UNCHANGED told

\* controller.abort(): a signal aborted before aborted listened to it stays mute.
AbortRunning ==
  IF running = None \/ running.task \in told
  THEN UNCHANGED <<told, raced>>
  ELSE /\ told' = told \cup {running.task}
       /\ raced' = IF raced = "none" THEN "abort" ELSE raced

-----------------------------------------------------------------------------
(* add()                                                                   *)

Duplicates(k) == {e \in pending : e.key = k}
Without(k) == pending \ Duplicates(k)

Refuse(t) ==
  /\ outcome' = [outcome EXCEPT ![t] = "refused"]
  /\ UNCHANGED <<policy, pending, timer, paused, disposed, generation, waiting, running,
                 bodies, routeVars>>

\* Faulty variant: the pending duplicate is replaced and its promise forgotten.
EnqueueForgets(t, e, kept, dropped) ==
  /\ outcome' = [outcome EXCEPT ![t] = "accepted"]
  /\ pending' = kept \union {e}
  /\ Schedule(pending', running)
  /\ UNCHANGED <<policy, running, paused, disposed, generation, waiting, bodies, routeVars>>

Enqueue(t, e, kept, dropped) ==
  /\ outcome' = [u \in Tasks |-> IF u = t THEN "accepted"
                                 ELSE IF u \in dropped THEN "cancelled" ELSE outcome[u]]
  /\ pending' = kept \union {e}
  /\ Schedule(pending', running)
  /\ UNCHANGED <<policy, running, paused, disposed, generation, waiting, bodies, routeVars>>

RunsKey(k) == running # None /\ running.key = k

\* Faulty variant: a full queue still accepts.
OverflowNever(t, e, kept) == Enqueue(t, e, kept, {})

Overflow(t, e, kept) ==
  IF Cardinality(kept) < MaxPending THEN Enqueue(t, e, kept, {})
  ELSE IF OverflowPolicy = "drop-oldest"
       THEN Enqueue(t, e, kept \ {Oldest}, {Oldest.task})
       ELSE Refuse(t)

Add(t, k, g, routed) ==
  LET e == [task |-> t, key |-> k, generation |-> g, routed |-> routed]
      queued == Duplicates(k) # {}
  IN  /\ outcome[t] = "new" /\ \A s \in 1 .. t - 1 : outcome[s] # "new"
      /\ IF \/ disposed
            \/ g # generation
            \/ (queued \/ RunsKey(k)) /\ DuplicatePolicy = "drop-new"
            \/ ~queued /\ RunsKey(k) /\ DuplicatePolicy = "replace-pending"
         THEN Refuse(t) /\ UNCHANGED <<told, raced>>
         ELSE IF queued
         THEN Enqueue(t, e, Without(k), TasksOf(Duplicates(k))) /\ UNCHANGED <<told, raced>>
         ELSE /\ Overflow(t, e, pending)
              /\ IF RunsKey(k) THEN AbortRunning ELSE UNCHANGED <<told, raced>>

-----------------------------------------------------------------------------
(* processNext()                                                           *)

\* setGeneration() purges these; the check is the second line of defence.
Stale(e) == e.generation # generation

Fire ==
  /\ timer
  /\ IF pending = {} \/ paused \/ disposed
     THEN /\ timer' = FALSE
          /\ NotifyIdle(pending, running)
          /\ UNCHANGED <<pending, running, raced, taskVars>>
     ELSE LET e == Oldest
          IN  /\ pending' = pending \ {e}
              /\ IF Stale(e)
                 THEN /\ SettleAs({e.task}, "cancelled")
                      /\ timer' = (pending' # {})
                      /\ UNCHANGED <<running, raced, bodies, told>>
                 ELSE /\ running' = e
                      /\ timer' = FALSE
                      /\ raced' = "none"
                      /\ bodies' = bodies \cup {e.task}
                      /\ told' = IF SignalAborted(e) THEN told \cup {e.task} ELSE told
                      /\ UNCHANGED outcome
              /\ UNCHANGED waiting
  /\ UNCHANGED <<policy, paused, disposed, generation, routeVars>>

\* A task function returns, throws, or throws an AbortError.
BodyEnds(t, result) ==
  /\ t \in bodies
  /\ bodies' = bodies \ {t}
  /\ raced' = IF running # None /\ running.task = t /\ raced = "none" THEN result ELSE raced
  /\ UNCHANGED <<policy, pending, running, timer, paused, disposed, generation, waiting,
                 outcome, told, routeVars>>

\* Faulty variant: the timeout aborts the signal and leaves the race alone.
TimeoutAbortsOnly ==
  /\ HasTimeout
  /\ running # None
  /\ raced = "none"
  /\ told' = told \cup {running.task}
  /\ UNCHANGED raced
  /\ UNCHANGED <<policy, pending, running, timer, paused, disposed, generation, waiting,
                 outcome, bodies, routeVars>>

Timeout ==
  /\ HasTimeout
  /\ running # None
  /\ raced = "none"
  /\ told' = told \cup {running.task}
  /\ raced' = "abort"
  /\ UNCHANGED <<policy, pending, running, timer, paused, disposed, generation, waiting,
                 outcome, bodies, routeVars>>

\* Faulty variant: the end of a task schedules nothing.
SettleQuietly ==
  /\ running # None
  /\ raced # "none"
  /\ SettleAs({running.task}, "completed")
  /\ running' = None
  /\ raced' = "none"
  /\ NotifyIdle(pending, None)
  /\ UNCHANGED <<policy, pending, timer, paused, disposed, generation, bodies, told, routeVars>>

Settle ==
  /\ running # None
  /\ raced # "none"
  /\ SettleAs({running.task},
              IF running.task \in told \/ raced = "abort" THEN "cancelled"
              ELSE IF raced = "value" THEN "completed" ELSE "failed")
  /\ running' = None
  /\ raced' = "none"
  /\ Schedule(pending, None)
  /\ NotifyIdle(pending, None)
  /\ UNCHANGED <<policy, pending, paused, disposed, generation, bodies, told, routeVars>>

-----------------------------------------------------------------------------
(* The rest of the interface.                                              *)

SetGeneration(g) ==
  LET kept == {e \in pending : e.generation = g}
  IN  /\ g # generation
      /\ generation' = g
      /\ pending' = kept
      /\ SettleAs(TasksOf(pending) \ TasksOf(kept), "cancelled")
      /\ IF running # None /\ running.generation # g THEN AbortRunning
         ELSE UNCHANGED <<told, raced>>
      /\ Schedule(kept, running)
      /\ UNCHANGED <<policy, running, paused, disposed, waiting, bodies, routeVars>>

Pause ==
  /\ ~paused
  /\ paused' = TRUE
  /\ timer' = FALSE
  /\ UNCHANGED <<policy, pending, running, raced, disposed, generation, waiting, taskVars, routeVars>>

Resume ==
  /\ paused
  /\ ~disposed
  /\ paused' = FALSE
  /\ timer' = (running = None /\ pending # {})
  /\ UNCHANGED <<policy, pending, running, raced, disposed, generation, waiting, taskVars, routeVars>>

CancelPending ==
  /\ pending # {}
  /\ pending' = {}
  /\ SettleAs(TasksOf(pending), "cancelled")
  /\ NotifyIdle({}, running)
  /\ UNCHANGED <<policy, running, raced, timer, paused, disposed, generation, bodies, told, routeVars>>

CancelRunning ==
  /\ running # None
  /\ AbortRunning
  /\ UNCHANGED <<policy, pending, running, timer, paused, disposed, generation, waiting,
                 outcome, bodies, routeVars>>

\* Faulty variant: clear() forgets the task in flight.
ClearPendingOnly ==
  /\ timer' = FALSE
  /\ pending' = {}
  /\ SettleAs(TasksOf(pending), "cancelled")
  /\ NotifyIdle({}, running)
  /\ UNCHANGED <<told, raced>>

ClearAll ==
  /\ timer' = FALSE
  /\ pending' = {}
  /\ SettleAs(TasksOf(pending), "cancelled")
  /\ NotifyIdle({}, running)
  /\ AbortRunning

Clear ==
  /\ ClearAll
  /\ UNCHANGED <<policy, running, paused, disposed, generation, bodies, routeVars>>

Dispose ==
  /\ ~disposed
  /\ disposed' = TRUE
  /\ ClearAll
  /\ UNCHANGED <<policy, running, paused, generation, bodies, routeVars>>

WhenIdle ==
  /\ running # None \/ pending # {}
  /\ waiting' = TRUE
  /\ UNCHANGED <<policy, pending, running, raced, timer, paused, disposed, generation,
                 taskVars, routeVars>>

\* beginRoute() and abortCurrentRoute(): a running task of that route is told.
RouteEnds ==
  IF running # None /\ running.routed /\ running.generation = route
  THEN AbortRunning ELSE UNCHANGED <<told, raced>>

BeginRoute ==
  /\ route < MaxRoute
  /\ route' = route + 1
  /\ stopped' = FALSE
  /\ RouteEnds
  /\ UNCHANGED <<policy, pending, running, timer, paused, disposed, generation, waiting,
                 outcome, bodies>>

StopRoute ==
  /\ ~stopped
  /\ stopped' = TRUE
  /\ RouteEnds
  /\ UNCHANGED <<policy, pending, running, timer, paused, disposed, generation, waiting,
                 outcome, bodies, route>>

-----------------------------------------------------------------------------
Next ==
  \/ \E t \in Tasks, k \in Keys, g \in {generation, route}, routed \in BOOLEAN :
       Add(t, k, g, routed)
  \/ Fire
  \/ \E t \in Tasks, result \in {"value", "error", "abort"} : BodyEnds(t, result)
  \/ Timeout
  \/ Settle
  \/ SetGeneration(route)
  \/ Pause \/ Resume
  \/ CancelPending \/ CancelRunning \/ Clear \/ Dispose
  \/ WhenIdle
  \/ BeginRoute \/ StopRoute

Spec == Init /\ [][Next]_vars

\* Timers fire and promise continuations run; no task function owes an end.
FairSpec == Spec /\ WF_vars(Fire) /\ WF_vars(Timeout) /\ WF_vars(Settle)

-----------------------------------------------------------------------------
(* Properties.                                                             *)

\* Every variable has its type.
TypeOK ==
  /\ policy \in Policies
  /\ pending \subseteq Entries /\ IsFiniteSet(pending) /\ Cardinality(pending) <= MaxPending
  /\ running \in Entries \cup {None}
  /\ raced \in {"none", "value", "error", "abort"}
  /\ {timer, paused, disposed, waiting, stopped} \subseteq BOOLEAN
  /\ {generation, route} \subseteq Nat
  /\ outcome \in [Tasks -> {"new", "accepted", "refused", "completed", "failed",
                            "cancelled"}]
  /\ bodies \subseteq Tasks /\ told \subseteq Tasks

\* No promise is forgotten: a task waits for its result exactly while it is
\* queued or in flight, whatever replaces, drops, purges or clears it; and the
\* queue never sits on work: unless it is paused, a queued entry has a timer or
\* a task in flight ahead of it.
NothingForgotten ==
  /\ {t \in Tasks : outcome[t] = "accepted"}
       = TasksOf(pending) \cup (IF running = None THEN {} ELSE {running.task})
  /\ pending # {} /\ ~paused => timer \/ running # None

\* Whoever loses the right to run has been told to stop: a task body that goes on
\* beside the one in flight, and the task in flight when the queue is disposed
\* of, a new generation begins or its route ends, even before it started.
LosersAreTold ==
  /\ \A t \in bodies : (running = None \/ running.task # t) => t \in told
  /\ running # None /\ (disposed \/ Stale(running) \/ SignalAborted(running))
       => running.task \in told

\* Every accepted task settles, whatever its function does, when the queue has
\* a timeout and does not stay paused.
AcceptedSettles ==
  \A t \in Tasks : outcome[t] = "accepted" ~> outcome[t] # "accepted" \/ paused

\* What the callers see is a queue of tasks that run one at a time, in the order
\* in which they were added, each of which settles once.
Serial == INSTANCE SerialTasks WITH current <- IF running = None THEN 0 ELSE running.task
ImplementsSerialTasks == Serial!Spec

-----------------------------------------------------------------------------
\* What a small instance gives Policies: every policy, in three pairs.
SomePolicies ==
  {<<"replace-pending", "drop-oldest">>, <<"drop-old", "reject">>,
   <<"drop-new", "drop-new">>}
=============================================================================
