---------------------------- MODULE LibraryManager ----------------------------
(* The manager dialog of the Library add-on (ui/manager): the rows it has     *)
(* loaded, and the rating and the note of one of them, which the user edits   *)
(* in place.  A rating is stored after a pause or when its field is left, one *)
(* commit after the other; a note after a pause or with "Done".  Both put the *)
(* whole record as they have read it, often in the cache of the entries.      *)
(* Every reload of the rows ends the rating work that is under way.           *)
(*                                                                            *)
(* A rating is known by the edit that typed it, 0 being the one that was      *)
(* there.  The other tabs and lost answers are in LibraryRecords.             *)
EXTENDS Integers, Sequences

CONSTANTS
  MaxEdits,   \* bound: ratings typed or cancelled
  MaxCommits, \* bound: commits of the rating
  MaxNotes,   \* bound: notes typed
  MaxReloads, \* bound: reloads of the rows
  MaxTurns,   \* bound: all of these together
  MaxFaults   \* bound: refused writes and closings

VARIABLES
  open,     \* the dialog is there and its events are bound
  table,    \* its table has rows
  record,   \* the stored record: its rating and its note
  cache,    \* the record in entryCache, or NoEntry
  draft,    \* ratingDraftById of the row
  kept,     \* ratingCommittedById of the row
  revision, \* ratingRevisionById of the row
  timer,    \* ratingSaveTimers has the row
  commits,  \* commits of the rating, in the order they were asked for
  chain,    \* the commit in ratingCommitChains, 0 for none
  text,     \* noteDraftById of the row
  pause,    \* noteSaveTimers has the row
  saves,    \* saves of the note that are under way: the text, and the record they go on from
  filter,   \* what the user wants listed
  loads,    \* reloads that have not ended: their filter, the rating they read, and
            \* whether their dialog is gone
  shown,    \* the filter whose rows are in the table
  reloads, faults,
  stored,   \* ghost: the ratings commits have stored, and the first one
  last,     \* ghost: the one stored last
  escaped,  \* ghost: typed ratings the user took back before they were stored
  put,      \* ghost: the revision of the last commit that was stored
  typed,    \* ghost: the note the user typed last
  dropped,  \* ghost: a note was refused, or its pause was cut short
  crossed   \* ghost: a write has read the record while another was under way

vars == <<open, table, record, cache, draft, kept, revision, timer, commits, chain, text, pause, saves,
          filter, loads, shown, reloads, faults, stored, last, escaped, put, typed, dropped, crossed>>
ratingVars == <<draft, kept, revision, timer, commits, chain, stored, last, escaped, put>>
noteVars == <<text, pause, saves, typed, dropped>>
listVars == <<filter, loads, shown, reloads>>
entryVars == <<record, cache, crossed>>

Blank == -1
None == -2
NoEntry == [rating |-> None, note |-> 0]

Init ==
  /\ open = FALSE /\ table = FALSE
  /\ record = [rating |-> 0, note |-> 0] /\ cache = NoEntry
  /\ draft = None /\ kept = None /\ revision = 0
  /\ timer = FALSE /\ commits = <<>> /\ chain = 0
  /\ text = 0 /\ pause = FALSE /\ saves = <<>>
  /\ filter = 0 /\ loads = <<>> /\ shown = 0
  /\ reloads = 0 /\ faults = 0
  /\ stored = {0} /\ last = 0 /\ escaped = {} /\ put = 0
  /\ typed = 0 /\ dropped = FALSE /\ crossed = FALSE

Fault == faults < MaxFaults /\ faults' = faults + 1
Room == revision + Len(commits) + typed + reloads < MaxTurns

\* The commits are told that their generation is over.
Outdated(cs) == [i \in DOMAIN cs |-> [cs[i] EXCEPT !.stale = TRUE]]

\* reloadRows(), to its first await.
Reload(cs, f) ==
  /\ reloads < MaxReloads /\ Room /\ reloads' = reloads + 1
  /\ commits' = Outdated(cs) /\ timer' = FALSE /\ chain' = 0
  /\ loads' = Append(loads, [filter |-> f, rating |-> None, gone |-> FALSE])
  /\ filter' = f /\ UNCHANGED shown

-----------------------------------------------------------------------------
\* open(), and refreshFromStorage() when the dialog is open.
Open ==
  /\ open' = TRUE /\ table' = (open /\ table)
  /\ draft' = None /\ kept' = None
  /\ Reload(commits, filter)
  /\ UNCHANGED <<revision, faults, stored, last, escaped, put, noteVars, entryVars>>

\* The function bindManagerEvents() returns: the pauses are cut short.
Close ==
  /\ open /\ Fault
  /\ open' = FALSE /\ table' = FALSE
  /\ loads' = [i \in DOMAIN loads |-> [loads[i] EXCEPT !.gone = TRUE]]
  /\ commits' = Outdated(commits) /\ timer' = FALSE /\ chain' = 0
  /\ pause' = FALSE /\ dropped' = (dropped \/ pause)
  /\ UNCHANGED <<draft, kept, revision, stored, last, escaped, put, text, saves, typed, filter,
                 shown, reloads, entryVars>>

\* Search, filter, sort, page, a menu, a selection: all reload the rows.
Look ==
  /\ open
  /\ \E f \in {filter, filter + 1} : Reload(commits, f)
  /\ UNCHANGED <<open, table, draft, kept, revision, faults, stored, last, escaped, put, noteVars, entryVars>>

\* The page of rows has been read.  Rows listed without the index are kept in
\* the cache.
LoadRead(i) ==
  /\ loads[i].rating = None
  /\ loads' = [loads EXCEPT ![i].rating = record.rating]
  /\ cache' \in {cache, record}
  /\ UNCHANGED <<open, table, record, crossed, ratingVars, noteVars, filter, shown, reloads, faults>>

Without(s, i) == SubSeq(s, 1, i - 1) \o SubSeq(s, i + 1, Len(s))

\* renderRows(): a row that has no draft yet gets its rating as one.
LoadShown(i) ==
  /\ loads[i].rating # None
  /\ loads' = Without(loads, i)
  /\ kept' = IF kept = None THEN loads[i].rating ELSE kept
  /\ draft' = IF draft = None THEN loads[i].rating ELSE draft
  /\ IF loads[i].gone THEN UNCHANGED <<shown, table>>
     ELSE shown' = loads[i].filter /\ table' = TRUE
  /\ UNCHANGED <<open, revision, timer, commits, chain, stored, last, escaped, put, noteVars, filter,
                 reloads, faults, entryVars>>

-----------------------------------------------------------------------------
(* ratingHandlers.js, and applyPersonalActivity() of service.js               *)

Type ==
  /\ table /\ revision < MaxEdits /\ Room
  /\ revision' = revision + 1 /\ draft' = revision' /\ timer' = TRUE
  /\ UNCHANGED <<open, table, kept, commits, chain, stored, last, escaped, put, noteVars, listVars,
                 entryVars, faults>>

\* commit(): after the pause, with Enter, and whenever the field is left.
Commit ==
  /\ table /\ Len(commits) < MaxCommits /\ Room
  /\ timer' = FALSE
  /\ commits' = Append(commits,
       [value |-> IF draft = None THEN Blank ELSE draft, revision |-> revision,
        stale |-> FALSE, after |-> chain, step |-> "wait", was |-> NoEntry])
  /\ chain' = Len(commits')
  /\ UNCHANGED <<open, table, draft, kept, revision, stored, last, escaped, put, noteVars, listVars,
                 entryVars, faults>>

\* rating-cancel
Escape ==
  /\ table /\ revision < MaxEdits
  /\ revision' = revision + 1
  /\ draft' = IF kept = None THEN Blank ELSE kept
  /\ escaped' = escaped \cup ({draft} \ ({Blank, None} \cup stored))
  /\ Reload(commits, filter)
  /\ UNCHANGED <<open, table, kept, stored, last, put, noteVars, entryVars, faults>>

Goes(i, step) == commits' = [commits EXCEPT ![i].step = step]
Over(i) == commits[i].stale
steady == <<open, table, revision, timer, chain, escaped, noteVars>>

\* getEntry()
Known == IF cache = NoEntry THEN record ELSE cache

\* A write that has read the record and has no answer yet.
UnderWay ==
  \/ \E i \in DOMAIN commits : commits[i].step \in {"apply", "stored"}
  \/ \E i \in DOMAIN saves : saves[i].was # NoEntry

\* Its turn in the chain, then the entry is read.
Turn(i) ==
  LET c == commits[i]
  IN  /\ c.step = "wait" /\ (c.after # 0 => commits[c.after].step = "done")
      /\ Goes(i, IF Over(i) THEN "done" ELSE "read")
      /\ UNCHANGED <<steady, draft, kept, stored, last, put, listVars, entryVars, faults>>

\* Faulty variant: nothing asks for the revision.
SupersededNever(c) == FALSE

\* The user has typed or cancelled since.  The revision of a row nobody has
\* typed in is 0 for the commit and undefined for its question.
Superseded(c) == c.revision = 0 \/ c.revision # revision

\* The entry is there; applyPersonalActivity() gets it once more, from the cache.
EntryRead(i) ==
  /\ commits[i].step = "read"
  /\ cache' = Known
  /\ IF Over(i) \/ Superseded(commits[i])
     THEN Goes(i, IF Over(i) THEN "done" ELSE "failed") /\ UNCHANGED crossed
     ELSE /\ commits' = [commits EXCEPT ![i].step = "apply", ![i].was = Known]
          /\ crossed' = (crossed \/ UnderWay)
  /\ UNCHANGED <<steady, draft, kept, stored, last, put, listVars, record, faults>>

\* mergePersonalState() keeps the rating when the new one is blank, and a
\* record that stays the same is not put.
Unchanged(c) == c.value \in {Blank, c.was.rating}
Rated(c) == [c.was EXCEPT !.rating = c.value]

\* The last check and the put: stored, or refused.
Apply(i) ==
  LET c == commits[i]
  IN  /\ c.step = "apply"
      /\ \/ /\ Superseded(c) /\ Goes(i, "failed") /\ UNCHANGED <<record, stored, last, put, faults>>
         \/ /\ ~Superseded(c) /\ Goes(i, "failed") /\ Fault /\ UNCHANGED <<record, stored, last, put>>
         \/ /\ ~Superseded(c) /\ Goes(i, "stored") /\ UNCHANGED faults
            /\ IF Unchanged(c) THEN UNCHANGED <<record, stored, last, put>>
               ELSE /\ record' = Rated(c) /\ stored' = stored \cup {c.value}
                    /\ last' = c.value /\ put' = c.revision
      /\ UNCHANGED <<steady, draft, kept, listVars, cache, crossed>>

\* putEntry(): "Cache the canonical value we submitted"
Remembered(c) == IF Unchanged(c) THEN cache ELSE Rated(c)

Stored(i) ==
  /\ commits[i].step = "stored" /\ Goes(i, "done")
  /\ cache' = Remembered(commits[i])
  /\ IF ~Over(i) /\ commits[i].revision = revision
     THEN kept' = commits[i].value /\ draft' = commits[i].value
     ELSE UNCHANGED <<kept, draft>>
  /\ UNCHANGED <<steady, stored, last, put, listVars, record, crossed, faults>>

\* A failure takes the draft back, tells the user and reloads.
Failed(i) ==
  /\ commits[i].step = "failed"
  /\ IF Over(i)
     THEN Goes(i, "done") /\ UNCHANGED draft
     ELSE Goes(i, "told") /\ draft' = IF kept = None THEN Blank ELSE kept
  /\ UNCHANGED <<steady, kept, stored, last, put, listVars, entryVars, faults>>

Told(i) ==
  /\ commits[i].step = "told"
  /\ LET cs == [commits EXCEPT ![i].step = "done"]
     IN  IF open THEN Reload(cs, filter)
         ELSE commits' = cs /\ UNCHANGED <<timer, chain, listVars>>
  /\ UNCHANGED <<open, table, draft, kept, revision, stored, last, escaped, put, noteVars, entryVars, faults>>

-----------------------------------------------------------------------------
(* noteHandlers.js, and patchEntry() of service.js                            *)

TypeNote ==
  /\ table /\ typed < MaxNotes /\ Room
  /\ typed' = typed + 1 /\ text' = typed' /\ pause' = TRUE
  /\ UNCHANGED <<open, table, ratingVars, listVars, entryVars, saves, dropped, faults>>

\* After the pause, or with "Done" while the pause lasts: saveNoteNow().
SaveNote ==
  /\ open /\ pause
  /\ pause' = FALSE /\ saves' = Append(saves, [text |-> text, was |-> NoEntry])
  /\ UNCHANGED <<open, table, ratingVars, listVars, entryVars, text, typed, dropped, faults>>

NoteRead(i) ==
  /\ saves[i].was = NoEntry /\ (i > 1 => saves[i - 1].was # NoEntry)
  /\ saves' = [saves EXCEPT ![i].was = Known]
  /\ cache' = Known /\ crossed' = (crossed \/ UnderWay)
  /\ UNCHANGED <<open, table, ratingVars, listVars, record, text, pause, typed, dropped, faults>>

\* Faulty variant: the note is put without the rest of the record.
NotingAlone(s) == [NoEntry EXCEPT !.note = s.text]

Noting(s) == [s.was EXCEPT !.note = s.text]

\* The whole record is put.  Puts are served in their order.
NotePut ==
  /\ saves # <<>> /\ Head(saves).was # NoEntry /\ saves' = Tail(saves)
  /\ \/ /\ record' = Noting(Head(saves)) /\ cache' = record'
        /\ UNCHANGED <<dropped, faults>>
     \/ Fault /\ dropped' = TRUE /\ UNCHANGED <<record, cache>>
  /\ UNCHANGED <<open, table, ratingVars, listVars, crossed, text, pause, typed>>

Expire ==
  /\ cache # NoEntry /\ cache' = NoEntry
  /\ UNCHANGED <<open, table, ratingVars, noteVars, listVars, record, crossed, faults>>

-----------------------------------------------------------------------------
Next ==
  \/ Open \/ Close \/ Look
  \/ \E i \in DOMAIN loads : LoadRead(i) \/ LoadShown(i)
  \/ Type \/ Commit \/ Escape
  \/ \E i \in DOMAIN commits :
       Turn(i) \/ EntryRead(i) \/ Apply(i) \/ Stored(i) \/ Failed(i) \/ Told(i)
  \/ TypeNote \/ SaveNote \/ NotePut \/ Expire
  \/ \E i \in DOMAIN saves : NoteRead(i)

Spec == Init /\ [][Next]_vars

-----------------------------------------------------------------------------
(* Properties.                                                                *)

Ratings == Blank .. MaxEdits
Entries == [rating : Ratings \cup {None}, note : 0 .. MaxNotes]
Commits == [value : Ratings, revision : 0 .. MaxEdits, stale : BOOLEAN, after : 0 .. MaxCommits,
            step : {"wait", "read", "apply", "stored", "failed", "told", "done"}, was : Entries]

\* Every variable has its type.
TypeOK ==
  /\ open \in BOOLEAN /\ table \in BOOLEAN /\ timer \in BOOLEAN /\ pause \in BOOLEAN
  /\ dropped \in BOOLEAN /\ crossed \in BOOLEAN
  /\ record \in Entries /\ cache \in Entries /\ {draft, kept} \subseteq Ratings \cup {None}
  /\ {revision, put} \subseteq 0 .. MaxEdits
  /\ \A i \in DOMAIN commits : commits[i] \in Commits
  /\ chain \in 0 .. Len(commits)
  /\ {text, typed} \subseteq 0 .. MaxNotes
  /\ {filter, shown} \subseteq 0 .. MaxReloads /\ reloads \in 0 .. MaxReloads
  /\ faults \in 0 .. MaxFaults /\ stored \subseteq Ratings /\ last \in stored /\ escaped \subseteq Ratings

\* Whatever reloads come in between, no commit from before an edit stores its
\* rating after one that was asked for since, and a rating that the user took
\* back with Escape before it was stored never comes into the record, not even
\* with the note.
RatingsInOrder ==
  [][put' >= put /\ (record'.rating # record.rating => record'.rating \notin escaped)]_vars

\* As long as no write of the dialog has read the record while another was under
\* way, none undoes another although each puts the whole record: the rating is
\* the last one a commit has stored, and the note that was typed is there once
\* its pause is over, unless its save was refused or the dialog was closed first.
\* "Cache the canonical value we submitted so an immediate read cannot return the
\* pre-commit record" (service.js:168)
EditsKeepEachOther ==
  ~crossed => /\ record.rating = last
              /\ ~pause /\ saves = <<>> /\ ~dropped => record.note = typed

\* "latest rating wins": when no timer and no commit is left and the dialog is
\* still open, the rating that shows is the one that is stored.
LatestRatingWins ==
  open /\ ~timer /\ draft # None /\ (\A i \in DOMAIN commits : commits[i].step = "done")
    => draft = record.rating

\* The table ends with the rows the user wants.
ListingSettles == open /\ loads = <<>> => shown = filter
=============================================================================
