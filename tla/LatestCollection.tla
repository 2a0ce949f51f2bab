--------------------------- MODULE LatestCollection ---------------------------
(* "Library only" on the latest page (app/latestCollectionController.js,       *)
(* app/latestNativeView.js): the page's own request for a listing is answered  *)
(* with the records of the Library.  They are read page by page, kept while    *)
(* nothing changes, and the page is told when it shows an older listing.       *)
EXTENDS Keyset, FiniteSets

CONSTANTS Ids,        \* positive integers
          MaxKey,     \* bound: the last modification time
          PageRows,   \* rows a read of the collection asks for
          Batch,      \* entries one transaction reads
          Retries,    \* a preparation that was overtaken is repeated twice
          MaxWrites,  \* bound: records written
          MaxTurns    \* bound: requests, switches and faults

VARIABLES
  key,      \* id -> its record's modification time; 0 is no record
  plain,    \* records an older release wrote, missing from the index
  owed,     \* ids this tab wrote and has not announced
  coverage, \* what the service knows of the index
  counted,
  cache,    \* the controller's collection, or Nothing
  load,     \* the read of a collection in progress
  view,     \* the page's view: "off", "normal" or "library"
  request,  \* the page's newest request
  dirty, hint,
  shown,    \* what the page shows
  listing,  \* the Library's listing it shows, if it does
  touched,  \* history: ids written unannounced since a read began
  missed,   \* history: the same, of the listing shown
  writes, turns

vars == <<key, plain, owed, coverage, counted, cache, load, view, request, dirty, hint, shown,
          listing, touched, missed, writes, turns>>
library == <<key, plain, owed>>
service == <<coverage, counted>>
page == <<shown, listing, missed>>
bounds == <<writes, turns>>

Nothing == {}
NoCollection == [i \in Ids |-> 0]
NoLoad == [phase |-> "none", own |-> FALSE, cursor |-> Start, items |-> NoCollection]
NoRequest == [phase |-> "none", tries |-> 0]

Records == {i \in Ids : key[i] > 0}
Indexed == {[id |-> i, key |-> key[i]] : i \in Records \ plain}
Turn == turns < MaxTurns /\ turns' = turns + 1

Init ==
  /\ key \in [Ids -> 0..1] /\ plain \in SUBSET Records
  /\ owed = {} /\ coverage = "unknown" /\ counted = 0
  /\ cache = Nothing /\ load = NoLoad
  /\ view = "normal" /\ request = NoRequest /\ dirty = FALSE /\ hint = FALSE
  /\ shown = "normal" /\ listing = Nothing
  /\ touched = {} /\ missed = {} /\ writes = 0 /\ turns = 0

(******************************* The records *******************************)
\* This tab writes or removes a record; the service answers afterwards.
Write(i) ==
  /\ writes < MaxWrites /\ writes' = writes + 1
  /\ \E k \in 0..MaxKey : k # key[i] /\ key' = [key EXCEPT ![i] = k]
  /\ plain' = plain \ {i} /\ owed' = owed \union {i}
  /\ UNCHANGED <<service, cache, load, view, request, dirty, hint, page, touched, turns>>

\* Faulty variant: a read in progress goes on.
ForgetCache == cache' = Nothing /\ UNCHANGED <<load, touched>>

\* cancelData(): a read that finds itself overtaken has no effect.
CancelData == cache' = Nothing /\ load' = NoLoad /\ touched' = {}

Announce(i) ==
  /\ i \in owed /\ owed' = owed \ {i}
  /\ coverage' = "unknown" /\ counted' = 0
  /\ CancelData
  /\ hint' = (hint \/ view = "library")
  /\ request' = IF request.phase = "waiting" THEN [request EXCEPT !.phase = "overtaken"] ELSE request
  /\ UNCHANGED <<key, plain, view, dirty, page, bounds>>

\* Another tab writes, or the answer to a write of this one is lost.
WriteUnseen(i) ==
  /\ writes < MaxWrites /\ writes' = writes + 1
  /\ \E k \in 0..MaxKey : k # key[i] /\ key' = [key EXCEPT ![i] = k]
  /\ plain' = plain \ {i} /\ touched' = touched \union {i} /\ missed' = missed \union {i}
  /\ UNCHANGED <<owed, service, cache, load, view, request, dirty, hint, shown, listing, turns>>

\* The coalesced hint of changed() reaches the view.
Invalidate ==
  /\ hint /\ hint' = FALSE
  /\ dirty' = (dirty \/ view = "library")
  /\ UNCHANGED <<library, service, cache, load, view, request, page, touched, bounds>>

(********************************* The view ********************************)
\* cancel(): the newest request is dropped; the read it started sees that.
Dropped == load' = [load EXCEPT !.own = FALSE]

Shows(what) == shown' = what /\ listing' = Nothing /\ missed' = {}

Toggle ==
  /\ view # "off" /\ Turn
  /\ view' = (IF view = "library" THEN "normal" ELSE "library")
  /\ request' = [NoRequest EXCEPT !.phase = "redraw"] /\ CancelData
  /\ UNCHANGED <<library, service, dirty, hint, page, writes>>

\* The page asks for a listing.
Ask ==
  /\ view # "off" /\ Turn
  /\ dirty' = FALSE
  /\ request' = [NoRequest EXCEPT !.phase = IF view = "library" THEN "asked" ELSE "network"]
  /\ Dropped
  /\ UNCHANGED <<library, service, cache, view, hint, page, touched, writes>>

\* No answer in time: an error is shown.
TimesOut ==
  /\ request.phase \in {"asked", "waiting", "overtaken"} /\ Turn
  /\ request' = NoRequest /\ Dropped /\ Shows("timeout")
  /\ UNCHANGED <<library, service, cache, view, dirty, hint, touched, writes>>

\* The page does not redraw after a switch: the mode is given up.
NoRedraw ==
  /\ request.phase = "redraw" /\ request' = NoRequest
  /\ IF view = "library" THEN view' = "normal" /\ CancelData
     ELSE UNCHANGED <<view, cache, load, touched>>
  /\ UNCHANGED <<library, service, dirty, hint, page, bounds>>

\* The route, the add-on or a frozen page ends the mode.
Leave ==
  /\ view # "off" /\ Turn
  /\ view' \in {"off", "normal"}
  /\ request' = NoRequest /\ hint' = FALSE /\ CancelData /\ Shows("normal")
  /\ UNCHANGED <<library, service, dirty, writes>>

Mount ==
  /\ view = "off" /\ view' = "normal" /\ dirty' = FALSE
  /\ UNCHANGED <<library, service, cache, load, request, hint, page, touched, bounds>>

(******************************** The query ********************************)
\* query(): the collection is read unless it is at hand or being read.
Query ==
  /\ request.phase = "asked"
  /\ request' = [request EXCEPT !.phase = IF cache = Nothing THEN "waiting" ELSE "prepared"]
  /\ IF cache = Nothing /\ load.phase = "none"
     THEN load' = [NoLoad EXCEPT !.phase = "catalogs", !.own = TRUE] /\ touched' = {}
     ELSE UNCHANGED <<load, touched>>
  /\ UNCHANGED <<library, service, cache, view, dirty, hint, page, bounds>>

\* A query that was overtaken is repeated.
Repeat ==
  /\ request.phase = "overtaken"
  /\ IF request.tries < Retries
     THEN request' = [phase |-> "asked", tries |-> request.tries + 1] /\ UNCHANGED page
     ELSE request' = NoRequest /\ Shows("overtaken")
  /\ UNCHANGED <<library, service, cache, load, view, dirty, hint, touched, bounds>>

\* The read ends with an error, which the query that waits for it answers.
Fails(reason) ==
  /\ load' = NoLoad
  /\ IF request.phase = "waiting" THEN request' = NoRequest /\ Shows(reason)
     ELSE UNCHANGED <<request, page>>

\* A read whose request was dropped ends at its next step.
Cancelled ==
  /\ load.phase # "none" /\ ~load.own
  /\ Fails("cancelled")
  /\ UNCHANGED <<library, service, cache, view, dirty, hint, touched, bounds>>

Reading(phase) == load.phase = phase /\ load.own

LoadFails ==
  /\ load.phase # "none" /\ load.own /\ Turn
  /\ Fails("failed")
  /\ UNCHANGED <<library, service, cache, view, dirty, hint, touched, writes>>

Catalogs ==
  /\ Reading("catalogs")
  /\ load' = [load EXCEPT !.phase = "page"]
  /\ UNCHANGED <<library, service, cache, view, request, dirty, hint, page, touched, bounds>>

\* queryEntriesPage() counts all records and those in the index, and keeps it.
CountAll ==
  /\ Reading("page") /\ coverage = "unknown"
  /\ coverage' = "counting" /\ counted' = Cardinality(Records)
  /\ UNCHANGED <<library, cache, load, view, request, dirty, hint, page, touched, bounds>>

CountIndex ==
  /\ coverage = "counting" /\ counted' = 0
  /\ coverage' = IF counted = Cardinality(Records \ plain) THEN "complete" ELSE "incomplete"
  /\ UNCHANGED <<library, cache, load, view, request, dirty, hint, page, touched, bounds>>

Added(items) == [i \in Ids |-> LET at == {n \in DOMAIN items : items[n].id = i} IN
                               IF at = {} THEN load.items[i] ELSE items[Max(at)].key]

Completed(items) ==
  /\ cache' = {Added(items)} /\ load' = NoLoad
  /\ request' = IF request.phase = "waiting" THEN [request EXCEPT !.phase = "prepared"] ELSE request
  /\ UNCHANGED page

\* One page of the collection: the rows, and one more entry that says whether
\* there is a next page.  The cursor is the last row's.
ReadRows ==
  /\ Reading("page") /\ coverage = "complete"
  /\ LET found == ReadPage(Indexed, load.cursor, Batch)
         rows == SubSeq(found.items, 1, IF Len(found.items) > PageRows THEN PageRows
                                       ELSE Len(found.items))
     IN  IF Len(found.items) > PageRows
         THEN /\ load' = [load EXCEPT !.items = Added(rows), !.cursor = Cursor(Last(rows))]
              /\ UNCHANGED <<cache, request, page>>
         ELSE Completed(rows)
  /\ UNCHANGED <<library, service, view, dirty, hint, touched, bounds>>

\* Without a complete index the first rows come sorted in memory and without a
\* cursor; that there are more is an error.
ReadSorted ==
  /\ Reading("page") /\ coverage = "incomplete"
  /\ IF Cardinality(Records) > PageRows
     THEN Fails("invalid_cursor") /\ UNCHANGED cache
     ELSE Completed(SetToSeq({[id |-> i, key |-> key[i]] : i \in Records}))
  /\ UNCHANGED <<library, service, view, dirty, hint, touched, bounds>>

\* The prepared listing takes the place of the answer from the network.
Send ==
  /\ request.phase = "prepared" /\ cache # Nothing
  /\ request' = [request EXCEPT !.phase = "sent"]
  /\ shown' = "library" /\ listing' = cache /\ missed' = touched
  /\ UNCHANGED <<library, service, cache, load, view, dirty, hint, touched, bounds>>

\* The records changed after the collection was read.
Stale ==
  /\ request.phase = "prepared" /\ cache = Nothing
  /\ request' = [request EXCEPT !.phase = "overtaken"]
  /\ UNCHANGED <<library, service, cache, load, view, dirty, hint, page, touched, bounds>>

Answered ==
  /\ request.phase \in {"sent", "network"} /\ request' = NoRequest
  /\ IF request.phase = "network" THEN Shows("normal") ELSE UNCHANGED page
  /\ UNCHANGED <<library, service, cache, load, view, dirty, hint, touched, bounds>>

Next ==
  \/ \E i \in Ids : Write(i) \/ Announce(i) \/ WriteUnseen(i)
  \/ Invalidate \/ Toggle \/ Ask \/ TimesOut \/ NoRedraw \/ Leave \/ Mount
  \/ Query \/ Repeat \/ Cancelled \/ LoadFails \/ Catalogs \/ CountAll \/ CountIndex
  \/ ReadRows \/ ReadSorted \/ Send \/ Stale \/ Answered

Spec == Init /\ [][Next]_vars

(******************************** Properties *******************************)
Messages == {"normal", "library", "timeout", "overtaken", "cancelled", "failed", "invalid_cursor"}
Collections == [Ids -> 0..MaxKey]

TypeOK ==
  /\ key \in Collections /\ plain \subseteq Records /\ owed \subseteq Ids
  /\ coverage \in {"unknown", "counting", "complete", "incomplete"} /\ counted \in 0..Cardinality(Ids)
  /\ cache \subseteq Collections /\ listing \subseteq Collections
  /\ load.phase \in {"none", "catalogs", "page"} /\ load.items \in Collections
  /\ view \in {"off", "normal", "library"}
  /\ request.phase \in {"none", "redraw", "asked", "waiting", "overtaken", "prepared", "sent", "network"}
  /\ dirty \in BOOLEAN /\ hint \in BOOLEAN
  /\ shown \in Messages /\ touched \subseteq Ids /\ missed \subseteq Ids
  /\ writes \in 0..MaxWrites /\ turns \in 0..MaxTurns

\* The collection holds every record as it is, although it was read in several
\* pages while records were written, removed and moved to the front: all but
\* the records written by others since the read began, and those whose own
\* write is about to be announced.  (A record that is not in the index may be
\* missed: the two counts that tell so are made one after the other.)
CollectionIsCurrent ==
  \A c \in cache : \A i \in Ids \ (owed \union touched \union plain) : c[i] = key[i]

\* A listing that is older than the Library says so, once it is shown and the
\* change was announced.
OldListingSaysSo ==
  view = "library" /\ request.phase = "none" /\ ~dirty /\ ~hint =>
    \A c \in listing : \A i \in Ids \ (owed \union missed \union plain) : c[i] = key[i]

\* No query is answered with the cancellation of an older one.
\* (docs/architecture/library-latest-only-baseline.md: "Old preparation
\* generations cannot send or paint after another query".)
OldPreparationSilent == shown # "cancelled"
=============================================================================
