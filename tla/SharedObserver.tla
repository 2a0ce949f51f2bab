--------------------------- MODULE SharedObserver ---------------------------
(* The one MutationObserver of a page, which serves the callbacks of all     *)
(* features, and the registry of resources that takes them down.  A callback *)
(* is run while the observer's tick goes through the registered ones, and    *)
(* may register or remove others, itself included, and throw; what it throws *)
(* goes to the health log (HealthLog).                                       *)
(*                                                                           *)
(* A registration has a number of its own, so that one that is removed and   *)
(* made again is another one: the Map keeps them in the order of insertion.  *)
EXTENDS Naturals, Sequences, FiniteSets, SequencesExt, FiniteSetsExt

CONSTANTS
  Ids,        \* the callbacks
  MaxSerial,  \* bound: registrations
  MaxChanges, \* bound: changes of the document
  MaxFaults,  \* bound: filters, callbacks and cleanups that throw
  MaxProfiles \* bound: times the profile is switched

VARIABLES
  callbacks, \* the registrations, in order: id and number
  resources, \* the ids that have a resource
  observing, \* the MutationObserver runs
  records,   \* the changes it has not yet delivered
  tick,      \* the tick under way: its changes, how far it is, and whether it is profiled
  profiled, profile, \* the profile: is on; runs in all, and by callback
  serial, changes, faults, switches,
  owed,      \* ghost: the changes since a registration was made, by number
  seen       \* ghost: the changes its filter has been asked about

vars == <<callbacks, resources, observing, records, tick, profiled, profile, serial, changes, faults,
          switches, owed, seen>>
observerVars == <<callbacks, resources, observing, records, serial>>
profileVars == <<profiled, profile, switches>>

Serials == 1 .. MaxSerial
Idle == [on |-> FALSE, changes |-> {}, at |-> 0, profiled |-> FALSE]
Unread == [total |-> 0, per |-> [i \in Ids |-> 0]]

Init ==
  /\ callbacks = <<>> /\ resources = {} /\ observing = FALSE /\ records = {}
  /\ tick = Idle
  /\ profiled = FALSE /\ profile = Unread
  /\ serial = 0 /\ changes = 0 /\ faults = 0 /\ switches = 0
  /\ owed = [n \in Serials |-> {}] /\ seen = [n \in Serials |-> {}]

Registered(cs) == {cs[i].id : i \in DOMAIN cs}
Without(cs, id) == SelectSeq(cs, LAMBDA c : c.id # id)

-----------------------------------------------------------------------------
(* The registrations.  The operators say what becomes of the observer, for a *)
(* call from outside and for one that a callback makes.                      *)

\* addObserverCallback(): nothing, if the id is taken.
Added(o, id) ==
  IF id \in Registered(o.callbacks) THEN o
  ELSE [o EXCEPT !.callbacks = Append(@, [id |-> id, serial |-> o.serial + 1]),
                 !.resources = @ \cup {id}, !.observing = TRUE, !.serial = @ + 1]

\* Faulty variant: it is stopped while others need it.
StoppedAnyway(o) == [o EXCEPT !.observing = FALSE, !.records = {}]

\* stopObserver(): what it has not delivered is dropped.
Stopped(o) ==
  IF o.observing /\ o.callbacks = <<>> THEN [o EXCEPT !.observing = FALSE, !.records = {}] ELSE o

\* Faulty variant: the resource stays.
RemovedOnly(o, id) == Stopped([o EXCEPT !.callbacks = Without(@, id)])

\* removeObserverCallback(), and the cleanup of its resource.
Removed(o, id) ==
  Stopped([o EXCEPT !.callbacks = Without(@, id), !.resources = @ \ {id}])

\* removeAllObserverCallbacks() of the teardown.
RemovedAll(o) == Stopped([o EXCEPT !.callbacks = <<>>, !.resources = @ \ Registered(o.callbacks)])

Observer ==
  [callbacks |-> callbacks, resources |-> resources, observing |-> observing, records |-> records,
   serial |-> serial]
Becomes(o) ==
  /\ o.serial <= MaxSerial
  /\ callbacks' = o.callbacks /\ resources' = o.resources /\ observing' = o.observing
  /\ records' = o.records /\ serial' = o.serial

\* Whether the end of the observing also ends the window of the profile.
Flushes(o) == {FALSE, profiled /\ observing /\ ~o.observing}

\* What a call does to it.
Calls(o) == {o} \cup {Added(o, id) : id \in Ids} \cup {Removed(o, id) : id \in Ids}

Features ==
  /\ ~tick.on
  /\ \E o \in Calls(Observer) \ {Observer} :
       /\ Becomes(o)
       /\ \E flushed \in Flushes(o) : profile' = IF flushed THEN Unread ELSE profile
  /\ UNCHANGED <<tick, profiled, switches, changes, faults, owed, seen>>

Teardown ==
  /\ ~tick.on /\ callbacks # <<>>
  /\ Becomes(RemovedAll(Observer))
  /\ \E flushed \in {FALSE, profiled} : profile' = IF flushed THEN Unread ELSE profile
  /\ UNCHANGED <<tick, profiled, switches, changes, faults, owed, seen>>

-----------------------------------------------------------------------------
(* The site, and the console.                                                *)

\* The document changes, between two ticks or by a callback's own work.
Change ==
  /\ changes < MaxChanges /\ changes' = changes + 1
  /\ records' = IF observing THEN records \cup {changes'} ELSE records
  /\ owed' = [n \in Serials |-> IF \E i \in DOMAIN callbacks : callbacks[i].serial = n
                                THEN owed[n] \cup {changes'} ELSE owed[n]]
  /\ UNCHANGED <<callbacks, resources, observing, tick, profileVars, serial, faults, seen>>

\* setObserverProfilingEnabled()
Profile ==
  /\ ~tick.on /\ switches < MaxProfiles /\ switches' = switches + 1
  /\ profiled' = ~profiled
  /\ profile' = IF profiled' THEN Unread ELSE profile
  /\ UNCHANGED <<observerVars, tick, changes, faults, owed, seen>>

-----------------------------------------------------------------------------
(* masterCallback()                                                          *)

TickBegins ==
  /\ ~tick.on /\ observing /\ records # {}
  /\ tick' = [on |-> TRUE, changes |-> records, at |-> 0, profiled |-> profiled]
  /\ records' = {}
  /\ UNCHANGED <<callbacks, resources, observing, profileVars, serial, changes, faults, owed, seen>>

\* The registrations the iteration has not come to: one that is removed is
\* passed over, one that is new is still reached.
Due == {i \in DOMAIN callbacks : callbacks[i].serial > tick.at}

Turn(i) == tick' = [tick EXCEPT !.at = callbacks[i].serial]
Asked(i) == seen' = [seen EXCEPT ![callbacks[i].serial] = @ \cup tick.changes]
Throws == faults < MaxFaults /\ faults' = faults + 1

\* Faulty variant: a filter that throws ends the tick for the others.
AfterThrowNobody(i) == tick' = [tick EXCEPT !.at = MaxSerial]

AfterThrow(i) == Turn(i)

\* Its filter says no, or throws.
FilteredOut(i) ==
  /\ Asked(i)
  /\ \/ Turn(i) /\ UNCHANGED faults
     \/ AfterThrow(i) /\ Throws
  /\ UNCHANGED <<observerVars, profileVars, changes, owed>>

\* Its run is counted where the profile's window had it: a window that its own
\* call has ended no longer knows the callback, only the run.
Counted(id, flushed) ==
  IF ~tick.profiled THEN IF flushed THEN Unread ELSE profile
  ELSE IF flushed THEN [Unread EXCEPT !.total = 1]
  ELSE [profile EXCEPT !.total = @ + 1, !.per[id] = @ + 1]

\* The callback, with the calls it makes, and whether it throws after them.
Run(i) ==
  /\ Turn(i) /\ Asked(i)
  /\ \E o \in Calls(Observer) :
       /\ Becomes(o)
       /\ \E flushed \in Flushes(o) : profile' = Counted(callbacks[i].id, flushed)
  /\ Throws \/ UNCHANGED faults
  /\ UNCHANGED <<profiled, switches, changes, owed>>

OneTurn ==
  /\ tick.on /\ Due # {}
  /\ LET i == Min(Due) IN FilteredOut(i) \/ Run(i)

\* The profile is begun anew when its window is over.
TickEnds ==
  /\ tick.on /\ Due = {} /\ tick' = Idle
  /\ profile' \in {profile} \cup (IF tick.profiled THEN {Unread} ELSE {})
  /\ UNCHANGED <<observerVars, profiled, switches, changes, faults, owed, seen>>

Next == Features \/ Teardown \/ Change \/ Profile \/ TickBegins \/ OneTurn \/ TickEnds

Spec == Init /\ [][Next]_vars

-----------------------------------------------------------------------------
(* Properties.                                                               *)

\* Every variable has its type, and the profile counts no run twice.
TypeOK ==
  /\ \A i \in DOMAIN callbacks : callbacks[i] \in [id : Ids, serial : Serials]
  /\ resources \subseteq Ids /\ observing \in BOOLEAN /\ records \subseteq 1 .. MaxChanges
  /\ tick \in [on : BOOLEAN, changes : SUBSET (1 .. MaxChanges), at : 0 .. MaxSerial,
               profiled : BOOLEAN]
  /\ profiled \in BOOLEAN
  /\ profile.total >= MapThenSumSet(LAMBDA i : profile.per[i], Ids)

\* The observer runs for whoever needs it, and only then, and every callback
\* has the resource that takes it down, whichever side removed it.
ObserverServes ==
  /\ observing <=> callbacks # <<>>
  /\ resources = Registered(callbacks)

\* No callback misses a change that was made while it was registered: neither
\* because another one was removed in the same tick, or threw, nor because the
\* observer was stopped and started again.
NothingMissed ==
  ~tick.on /\ records = {} =>
    \A i \in DOMAIN callbacks : owed[callbacks[i].serial] \subseteq seen[callbacks[i].serial]
=============================================================================
