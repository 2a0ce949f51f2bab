---------------------------- MODULE FilterPresets ----------------------------
(* The saved filters of the Latest Filters add-on in one tab: the list it     *)
(* shows, its queue of writes, and the two places a list may be stored in,    *)
(* the add-on's own storage (GM) and, where that is missing or refuses, the   *)
(* core's.  A change of the page ends the context of every operation that     *)
(* has begun and loads the list again; another tab has a list of its own and  *)
(* writes it whole.                                                           *)
(*                                                                            *)
(* A filter is known by the number of the call that made it; names that       *)
(* differ in case are one name, and the order of the list is left out.        *)
EXTENDS Naturals, Sequences, FiniteSets

CONSTANTS
  Names, Urls,
  MaxCalls,  \* bound: calls of the user
  MaxPages,  \* bound: changes of the page
  MaxFaults  \* bound: reads and writes that fail, and writes of another tab

VARIABLES
  own,      \* the userscript manager gives the add-on its own storage
  stored,   \* the list in each place
  shown,    \* state.presets
  queue,    \* presetWriteQueue: the commits that wait for their turn
  writing,  \* the commit whose write is under way, or none
  asking,   \* the question the user is asked before an update or a removal
  loading,  \* the refresh that reads the list, or none
  calls, pages, faults,
  wish,     \* ghost: the list the user has been told of, call by call
  crossed   \* ghost: a read missed a write, a call failed, or another tab wrote

vars == <<own, stored, shown, queue, writing, asking, loading, calls, pages, faults, wish, crossed>>

Places == {"own", "core"}
Place == IF own THEN "own" ELSE "core"
Filters == [id : 1 .. MaxCalls, name : Names, url : Urls]

None == [step |-> "none"]

Init ==
  /\ own \in BOOLEAN
  /\ stored = [p \in Places |-> {}]
  /\ shown = {} /\ wish = {}
  /\ queue = <<>> /\ writing = None /\ asking = None /\ loading = None
  /\ calls = 0 /\ pages = 0 /\ faults = 0 /\ crossed = FALSE

Fault == faults < MaxFaults /\ faults' = faults + 1 /\ crossed' = TRUE

\* Faulty variant: the name is not looked for in the list.
SavedAgain(list, c) == list \cup {[id |-> c.id, name |-> c.name, url |-> c.url]}

\* change() of each call, on the list as it is at its turn.
Saved(list, c) ==
  IF \E f \in list : f.name = c.name
  THEN {IF f.name = c.name THEN [f EXCEPT !.url = c.url] ELSE f : f \in list}
  ELSE list \cup {[id |-> c.id, name |-> c.name, url |-> c.url]}
Updated(list, c) == {IF f.id = c.of THEN [f EXCEPT !.url = c.url] ELSE f : f \in list}
Deleted(list, c) == {f \in list : f.id # c.of}

Changed(list, c) ==
  CASE c.op = "save" -> Saved(list, c)
    [] c.op = "update" -> Updated(list, c)
    [] OTHER -> Deleted(list, c)

-----------------------------------------------------------------------------
(* Calls of the user, in the dialog or on its question.                       *)

Call(op, of, name, url) ==
  [op |-> op, id |-> calls + 1, of |-> of, name |-> name, url |-> url, current |-> TRUE]

Counted == calls < MaxCalls /\ calls' = calls + 1

\* saveCurrentFilter()
Save(n, u) ==
  /\ Counted
  /\ queue' = Append(queue, Call("save", 0, n, u))
  /\ UNCHANGED <<own, stored, shown, writing, asking, loading, pages, faults, wish, crossed>>

\* updatePresetFromCurrent() and deletePreset(), to the question.
Ask(f, op, u) ==
  /\ asking = None /\ Counted
  /\ asking' = [step |-> "asked", call |-> Call(op, f.id, f.name, u)]
  /\ UNCHANGED <<own, stored, shown, queue, writing, loading, pages, faults, wish, crossed>>

Answered ==
  /\ asking # None /\ asking' = None
  /\ queue' \in {queue} \cup (IF asking.call.current THEN {Append(queue, asking.call)} ELSE {})
  /\ UNCHANGED <<own, stored, shown, writing, loading, calls, pages, faults, wish, crossed>>

-----------------------------------------------------------------------------
(* commitPresets(): one write after the other.                                *)

\* Faulty variant: its context is not asked for when its turn comes.
GoesAnyway(c) == TRUE

Goes(c) == c.current

Turn ==
  /\ queue # <<>> /\ writing = None
  /\ queue' = Tail(queue)
  /\ writing' = IF Goes(Head(queue))
                THEN [step |-> Place, call |-> Head(queue), list |-> Changed(shown, Head(queue))]
                ELSE None
  /\ UNCHANGED <<own, stored, shown, asking, loading, calls, pages, faults, wish, crossed>>

\* A list that a refresh has read before this write is older than the write.
Crosses == loading # None /\ loading.step = "read"

\* setPresets(): the write takes effect.
Put ==
  /\ writing.step \in Places
  /\ stored' = [stored EXCEPT ![writing.step] = writing.list]
  /\ writing' = [writing EXCEPT !.step = "done"]
  /\ crossed' = (crossed \/ Crosses)
  /\ UNCHANGED <<own, shown, queue, asking, loading, calls, pages, faults, wish>>

\* The add-on's own storage throws: the core's is taken; the core refuses, or
\* does not answer in time: nobody looks at its answer.
PutFails ==
  /\ writing.step \in Places
  /\ writing' = [writing EXCEPT !.step = IF @ = "own" THEN "core" ELSE "done"]
  /\ Fault
  /\ UNCHANGED <<own, stored, shown, queue, asking, loading, calls, pages, wish>>

\* The answer: a commit whose context is over leaves the list as it was, the
\* others show it and report.
WriteEnds ==
  /\ writing.step = "done" /\ writing' = None
  /\ IF writing.call.current
     THEN shown' = writing.list /\ wish' = Changed(wish, writing.call)
     ELSE UNCHANGED <<shown, wish>>
  /\ UNCHANGED <<own, stored, queue, asking, loading, calls, pages, faults, crossed>>

-----------------------------------------------------------------------------
(* refreshApp() and loadRuntimeData().                                        *)

Over(c) == [c EXCEPT !.current = FALSE]

\* The page changes: every context is over, what is under way is cancelled,
\* and the list is to be loaded.  A write that was sent goes on.
PageChanges ==
  /\ pages < MaxPages /\ pages' = pages + 1
  /\ queue' = [i \in DOMAIN queue |-> Over(queue[i])]
  /\ writing' = IF writing = None THEN None ELSE [writing EXCEPT !.call = Over(@)]
  /\ asking' = IF asking = None THEN None ELSE [asking EXCEPT !.call = Over(@)]
  /\ loading' = [step |-> "asked"]
  /\ UNCHANGED <<own, stored, shown, calls, faults, wish, crossed>>

\* getPresets(): the core answers what is stored while a write of it waits for
\* its commit; the userscript manager takes its calls in order.
Read ==
  /\ loading.step = "asked"
  /\ own => writing.step # "own"
  /\ loading' = [step |-> "read", list |-> stored[Place]]
  /\ crossed' = (crossed \/ (writing # None /\ writing.step \in Places))
  /\ UNCHANGED <<own, stored, shown, queue, writing, asking, calls, pages, faults, wish>>

\* The read fails: the list is empty.
ReadFails ==
  /\ loading.step = "asked"
  /\ loading' = [step |-> "read", list |-> {}]
  /\ Fault
  /\ UNCHANGED <<own, stored, shown, queue, writing, asking, calls, pages, wish>>

\* Faulty variant: the refresh keeps the list it has.
LoadedNothing == shown

Loaded == loading.list

\* What a cancelled write has stored becomes known now.
Load ==
  /\ loading.step = "read" /\ loading' = None
  /\ shown' = Loaded
  /\ wish' = IF crossed THEN wish ELSE loading.list
  /\ crossed' = (crossed \/ writing.step \in Places)
  /\ UNCHANGED <<own, stored, queue, writing, asking, calls, pages, faults>>

\* Another tab writes its list, which does not know of this one's.
OtherTab ==
  /\ Fault
  /\ \E f \in SUBSET shown : stored' = [stored EXCEPT ![Place] = f]
  /\ UNCHANGED <<own, shown, queue, writing, asking, loading, calls, pages, wish>>

Next ==
  \/ \E n \in Names, u \in Urls : Save(n, u)
  \/ \E f \in shown, op \in {"update", "delete"}, u \in Urls : Ask(f, op, u)
  \/ Answered \/ Turn \/ Put \/ PutFails \/ WriteEnds
  \/ PageChanges \/ Read \/ ReadFails \/ Load \/ OtherTab

Spec == Init /\ [][Next]_vars

-----------------------------------------------------------------------------
(* Properties.                                                                *)

Calls == [op : {"save", "update", "delete"}, id : 1 .. MaxCalls, of : 0 .. MaxCalls,
          name : Names, url : Urls, current : BOOLEAN]

\* Every variable has its type.
TypeOK ==
  /\ own \in BOOLEAN /\ crossed \in BOOLEAN
  /\ \A p \in Places : stored[p] \subseteq Filters
  /\ shown \subseteq Filters /\ wish \subseteq Filters
  /\ \A i \in DOMAIN queue : queue[i] \in Calls
  /\ writing.step \in Places \cup {"none", "done"}
  /\ asking.step \in {"none", "asked"} /\ loading.step \in {"none", "asked", "read"}
  /\ calls \in 0 .. MaxCalls /\ pages \in 0 .. MaxPages /\ faults \in 0 .. MaxFaults

\* However calls, page changes and writes follow each other, no list has two
\* filters of one name, which the dialog could not tell apart.
NoNameTwice ==
  \A list \in {shown, stored["own"], stored["core"]} :
    \A f, g \in list : f.name = g.name => f = g

\* While no write is under way, the list that is stored is the list the user
\* has been told of, and the one that is shown, unless a call has failed, a
\* read has crossed a write, or another tab has written: these are all the
\* ways to lose a filter.
NothingIsLost ==
  ~crossed /\ writing = None /\ loading = None => stored[Place] = wish /\ shown = wish
=============================================================================
