--------------------------- MODULE LibraryRecords ---------------------------
(* One thread's record of the Library add-on and its histories               *)
(* (library/service.js), written by several tabs.  Every operation reads the *)
(* whole record -- often from the tab's entry cache -- and puts the whole    *)
(* record back after more calls of the core; a change has its event in a     *)
(* history, stored before the record.  After the record each history is cut  *)
(* to its newest events.                                                     *)
EXTENDS Integers, FiniteSets

CONSTANTS Tabs,
          HistoryLimit, \* HISTORY_LIMIT_PER_THREAD
          MaxOps,       \* bound: operations
          MaxVersion,   \* bound: versions of the thread on the site
          MaxFaults     \* bound: refused calls, lost answers, closed tabs

VARIABLES
  record,   \* the stored record, or Gone
  cache,    \* each tab's entryCache, Gone when it has none
  events,   \* the update and activity events: the operations that stored them
  ops,      \* the operations so far, numbered as they read the record
  faults,
  edited,   \* history: the last operation whose personal edit was stored
  seen,     \* history: versions the user has acknowledged
  logged,   \* history: operations whose event has been stored
  undone,   \* history: those whose event was taken back, by them or another
  unsure    \* history: operations told of a failure although they stored

vars == <<record, cache, events, ops, faults, edited, seen, logged, undone, unsure>>
history == <<edited, seen, logged, undone, unsure>>

Kinds == {"save", "check", "status", "edit", "acknowledge", "import"}
Ids == 1..MaxOps
Version == 0..MaxVersion
Gone == [version |-> -1, status |-> 0, note |-> 0, update |-> "unchecked"]
Record == [version : Version, status : 0..MaxOps, note : 0..MaxOps,
           update : {"unchecked", "changed", "acknowledged"}] \union {Gone}

\* was: the record it goes on from.  now: the version it has observed.
\* prior: its event was there already.
Op == [kind : Kinds, tab : Tabs, was : Record, now : Version, prior : BOOLEAN,
       step : {"look", "event", "facts", "record", "prune", "mark", "done"}]

TypeOK ==
  /\ record \in Record /\ cache \in [Tabs -> Record] /\ events \subseteq logged
  /\ DOMAIN ops \in {1..n : n \in 0..MaxOps} /\ \A i \in DOMAIN ops : ops[i] \in Op
  /\ faults \in 0..MaxFaults /\ logged \subseteq DOMAIN ops

Init ==
  /\ record \in {Gone} \union {[Gone EXCEPT !.version = 0, !.update = u] : u \in {"unchecked", "acknowledged"}}
  /\ cache = [t \in Tabs |-> Gone] /\ events = {} /\ ops = [i \in {} |-> Gone] /\ faults = 0
  /\ edited = 0 /\ seen = {v \in Version : v = record.version /\ record.update = "acknowledged"}
  /\ logged = {} /\ undone = {} /\ unsure = {}

Goes(i, step) == ops' = [ops EXCEPT ![i].step = step]
Fault == faults < MaxFaults /\ faults' = faults + 1

\* getEntry() may answer from the cache; checks, acknowledgements and imports
\* read the stored record.
Known(kind, tab) ==
  IF kind \in {"save", "status", "edit"} /\ cache[tab] # Gone THEN cache[tab] ELSE record

\* Acknowledgements of a thread wait for each other in a tab.
Turns(kind, tab) ==
  kind = "acknowledge" =>
    \A j \in DOMAIN ops : ~(ops[j].kind = kind /\ ops[j].tab = tab /\ ops[j].step = "record")

\* Faulty variant: whether there is a record is not asked.
AfterAnyRead(kind, was, now) == {"record"}

\* What an operation does once it knows the record.  With the version as it was
\* the title and the like may have changed, which has an event, or tags and the
\* like, which has none.  An edit has one when it says that a version was played.
After(kind, was, now) ==
  CASE kind = "import" \/ (kind = "save" /\ was = Gone) -> {"record"}
    [] kind \notin {"import", "save"} /\ was = Gone -> {"done"}
    [] kind \in {"save", "check"} /\ was # Gone ->
         {"look"} \union IF now # was.version THEN {}
                        ELSE {"facts", IF kind = "check" THEN "mark" ELSE "done"}
    [] kind = "status" /\ was # Gone -> {"event"}
    [] kind = "edit" /\ was # Gone -> {"event", "record"}
    [] kind = "acknowledge" /\ was # Gone -> {IF was.update = "changed" THEN "record" ELSE "done"}

\* The page a save or a check has read may be an old one by now.  A check that
\* has failed goes on as one that has found no other version.
Read(kind, tab) ==
  /\ Turns(kind, tab)
  /\ LET was == Known(kind, tab)
     IN  /\ \E i \in Ids, now \in IF kind \in {"save", "check"} THEN Version ELSE {0} :
              \E step \in After(kind, was, now) :
                /\ DOMAIN ops = 1..(i - 1)
                /\ ops' = [j \in 1..i |-> IF j < i THEN ops[j] ELSE
                             [kind |-> kind, tab |-> tab, step |-> step, was |-> was, now |-> now,
                              prior |-> FALSE]]
         /\ cache' = [cache EXCEPT ![tab] = was]
  /\ UNCHANGED <<record, events, faults, history>>

\* deleteEntry(): the histories stay.
Remove(tab) ==
  /\ record' = Gone /\ cache' = [cache EXCEPT ![tab] = Gone] /\ edited' = 0
  /\ UNCHANGED <<events, ops, faults, seen, logged, undone, unsure>>

Observes(i) == ops[i].kind \in {"save", "check"}
Change(i) == <<ops[i].was.version, ops[i].now>>
NewVersion(i) == Observes(i) /\ ops[i].now # ops[i].was.version

\* The identifier of an update event is made of the change, that of an activity
\* event of the command.
Same(i) == {j \in events : j = i \/ (Observes(i) /\ Observes(j) /\ Change(i) = Change(j))}

\* An event is not stored when it is there.
LookForEvent(i) ==
  /\ ops[i].step = "look"
  /\ ops' = [ops EXCEPT ![i].prior = Same(i) # {},
                        ![i].step = IF Same(i) = {} THEN "event" ELSE "record"]
  /\ UNCHANGED <<record, cache, events, faults, history>>

EventStored(i) == events' = (events \ Same(i)) \union {i} /\ logged' = logged \union {i}

StoreEvent(i) ==
  /\ ops[i].step = "event" /\ Goes(i, "record") /\ EventStored(i)
  /\ UNCHANGED <<record, cache, faults, edited, seen, undone, unsure>>

\* Refused, or stored and not answered.
EventRefused(i) ==
  /\ ops[i].step = "event" /\ Fault /\ Goes(i, "done")
  /\ EventStored(i) \/ UNCHANGED <<events, logged>>
  /\ UNCHANGED <<record, cache, edited, seen, undone, unsure>>

\* Faulty variant: the mark of an update is not renewed.
UpdateKept(op) == op.was.update

UpdateAfter(op) == IF op.was = Gone THEN "unchecked" ELSE "changed"

\* The record an operation puts: what it read with its own change.
Written(i) ==
  LET op == ops[i] IN
  CASE Observes(i) -> IF op.now = op.was.version THEN op.was
                      ELSE [op.was EXCEPT !.version = op.now, !.update = UpdateAfter(op)]
    [] op.kind = "status" -> [op.was EXCEPT !.status = i]
    [] op.kind = "edit" -> [op.was EXCEPT !.note = i]
    [] op.kind = "acknowledge" -> [op.was EXCEPT !.update = "acknowledged"]
    [] op.kind = "import" -> [Gone EXCEPT !.version = 0]

Puts(i) == ops[i].step \in {"facts", "record", "mark"}

Stored(i) ==
  /\ record' = Written(i)
  /\ edited' = IF ops[i].kind = "edit" THEN i ELSE IF ops[i].kind = "import" THEN 0 ELSE edited
  /\ seen' = IF ops[i].kind = "acknowledge" THEN seen \union {ops[i].was.version} ELSE seen

\* An operation with an event of its own.
HasEvent(i) == ops[i].step = "record" /\ i \in logged

\* A check puts the record once more, with its result.
Last(i) == IF ops[i].kind = "check" /\ ops[i].step # "mark" THEN "mark" ELSE "done"

Put(i) ==
  /\ Puts(i) /\ Stored(i)
  /\ cache' = [cache EXCEPT ![ops[i].tab] = Written(i)]
  /\ Goes(i, IF HasEvent(i) THEN "prune" ELSE Last(i))
  /\ UNCHANGED <<events, faults, logged, undone, unsure>>

\* Its own event is taken back when the record was not stored.
TakeBack(i) ==
  /\ Goes(i, "done")
  /\ IF HasEvent(i) THEN events' = events \ Same(i) /\ undone' = undone \union Same(i)
     ELSE UNCHANGED <<events, undone>>

\* Faulty variant: the cached copy is changed although the write was refused.
Remembers(i) == cache' = [cache EXCEPT ![ops[i].tab] = Written(i)]

Forgets(i) == UNCHANGED cache

PutRefused(i) ==
  /\ Puts(i) /\ Fault /\ TakeBack(i) /\ Forgets(i)
  /\ UNCHANGED <<record, edited, seen, logged, unsure>>

\* The call is stored after the add-on has stopped waiting for its answer.
PutUnanswered(i) ==
  /\ Puts(i) /\ Fault /\ TakeBack(i) /\ Stored(i)
  /\ unsure' = unsure \union {i}
  /\ UNCHANGED <<cache, logged>>

\* A check whose lease is lost is cancelled between its steps.
Cancel(i) ==
  /\ ops[i].kind = "check" /\ ops[i].step \notin {"prune", "done"}
  /\ Fault /\ TakeBack(i)
  /\ UNCHANGED <<record, cache, edited, seen, logged, unsure>>

-----------------------------------------------------------------------------
(* pruneThreadHistory(): lists one event more than a history may have, and    *)
(* removes that one, until there is none.  Events are listed newest first.    *)

Newer(some, i) == {j \in some : j > i /\ Observes(j) = Observes(i)}

\* Faulty variant: the history is cut one event too short.
SurplusEarly(j) == Cardinality(Newer(events, j)) >= HistoryLimit - 1

Surplus(j) == Cardinality(Newer(events, j)) >= HistoryLimit

Prune(i) ==
  /\ ops[i].step = "prune"
  /\ \E j \in events :
       /\ Observes(j) = Observes(i) /\ Surplus(j)
       /\ \A k \in Newer(events, j) : ~Surplus(k)
       /\ events' = events \ {j}
  /\ UNCHANGED <<record, cache, ops, faults, history>>

Pruned(i) ==
  /\ ops[i].step = "prune" /\ \A j \in events : Observes(j) = Observes(i) => ~Surplus(j)
  /\ Goes(i, Last(i))
  /\ UNCHANGED <<record, cache, events, faults, history>>

\* A removal that is refused ends it, a listing that is ends the operation.
PruneRefused(i) ==
  /\ ops[i].step = "prune" /\ Fault
  /\ \E step \in {Last(i), "done"} : Goes(i, step)
  /\ UNCHANGED <<record, cache, events, history>>

-----------------------------------------------------------------------------
Expire(tab) ==
  /\ cache[tab] # Gone /\ cache' = [cache EXCEPT ![tab] = Gone]
  /\ UNCHANGED <<record, events, ops, faults, history>>

Close(tab) ==
  /\ Fault /\ cache' = [cache EXCEPT ![tab] = Gone]
  /\ \E i \in DOMAIN ops : ops[i].tab = tab /\ ops[i].step # "done"
  /\ ops' = [i \in DOMAIN ops |-> IF ops[i].tab = tab THEN [ops[i] EXCEPT !.step = "done"]
                                  ELSE ops[i]]
  /\ UNCHANGED <<record, events, history>>

Next ==
  \/ \E tab \in Tabs :
       \/ \E kind \in Kinds : Read(kind, tab)
       \/ Remove(tab) \/ Expire(tab) \/ Close(tab)
  \/ \E i \in DOMAIN ops :
       \/ LookForEvent(i) \/ StoreEvent(i) \/ EventRefused(i) \/ Put(i)
       \/ PutRefused(i) \/ PutUnanswered(i) \/ Cancel(i)
       \/ Prune(i) \/ Pruned(i) \/ PruneRefused(i)

Spec == Init /\ [][Next]_vars

(******************************** Properties *******************************)
\* HistoryLimit newer events of the same history have been stored.
Outdated(i) == Cardinality(Newer(logged, i)) >= HistoryLimit

\* What the record says has happened is in the histories: a status set by a
\* command has the command's event, and a change announced as new has its
\* event, although tabs close and calls are refused between the two writes and
\* stale records are put back.  An event is only missing when HistoryLimit newer
\* ones have been stored since.  Left out are a put whose answer was lost
\* and a change whose event was taken back for another operation, see README.
HistoryBacksRecord ==
  /\ LET i == record.status
     IN  i \notin {0} \union events \union unsure => Outdated(i)
  /\ record.update = "changed" =>
       \E i \in logged : /\ NewVersion(i) /\ ops[i].now = record.version
                         /\ i \in events \union undone \/ Outdated(i)

\* An update counts as acknowledged only in a version the user has
\* acknowledged, whatever was observed, put back or imported meanwhile.
AcknowledgedWasSeen == record.update = "acknowledged" => record.version \in seen

\* "Added background thread observation while preserving personal fields"
\* (addons/library-addon/CHANGELOG.md:130): the last personal edit that was
\* stored is in the record until the next one.
EditsSurvive == record # Gone => record.note = edited
=============================================================================
