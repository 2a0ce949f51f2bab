---------------------------- MODULE LibraryImport ----------------------------
(***************************************************************************)
(* Importing a file into the library: the preview and its plan             *)
(* (library/importWorkflow.js, libraryDocument.js, service.js), the        *)
(* batches with their retries and the fall back to single records          *)
(* (api/library/client.js), and the dialog that shows the progress and     *)
(* carries the cancel (ui/application).  Meanwhile other tabs write.       *)
(*                                                                         *)
(* A record is the time it was modified, 0 when there is none.  Invalid    *)
(* and repeated records of a file are left out with the preview.  An event *)
(* of a history is its section, its thread and its time.                   *)
(***************************************************************************)
EXTENDS Naturals, Sequences, FiniteSets, SequencesExt

CONSTANTS
  Ids,        \* threads
  Events,     \* events of their histories
  HistoryLimit, \* HISTORY_LIMIT_PER_THREAD
  BatchSize,  \* records that fit in a batch
  Retries,    \* LIBRARY_IMPORT_MAX_RETRIES
  MaxTime,    \* bound: times of modification
  MaxRuns,    \* bound: imports of the file
  MaxFaults,  \* bound: calls that are refused or not answered
  MaxTurns    \* bound: writes of other tabs, cancels

VARIABLES
  file,      \* what the file has: its records and its events
  policy,    \* conflictPolicy
  library, histories,
  phase,
  plan,      \* the planned writes: threads, and the histories
  at, one,   \* records done with, and those of a batch written one by one
  section,   \* sectionName
  cut,       \* threads whose history in the section is still to be cut
  tries,
  progress,  \* the dialog: whether it is open (active), and its cancelled
  afterClose,\* cancelledAfterClose
  result,    \* what is reported
  runs, faults, turns,
  written,   \* history: threads this import has stored
  unsure,    \* history: threads stored by a call that was not answered
  touched,   \* history: threads other tabs have written since the preview
  logged     \* history: the events there have been

vars == <<file, policy, library, histories, phase, plan, at, one, section, cut, tries, progress,
          afterClose, result, runs, faults, turns, written, unsure, touched, logged>>
told == <<written, unsure, touched>>
log == <<histories, section, cut, logged>>

Phases == {"idle", "preview", "confirm", "opening", "records", "single", "history", "cut", "finish"}
Sections == {"updates", "activity"}
Policies == {"skip", "newer", "replace"}
NoPlan == [records |-> <<>>, histories |-> {}]
NoResult == [counted |-> {}, failed |-> FALSE, cancelled |-> FALSE, complete |-> FALSE]
Closed == [open |-> FALSE, cancelled |-> FALSE]

TypeOK ==
  /\ file \in [records : [Ids -> 0..MaxTime], histories : SUBSET Events] /\ policy \in Policies
  /\ library \in [Ids -> 0..MaxTime] /\ phase \in Phases
  /\ histories \subseteq logged /\ logged \subseteq Events /\ section \in Sections /\ cut \subseteq Ids
  /\ plan.histories \subseteq Events /\ at \in 0..Len(plan.records) /\ one \in 0..BatchSize
  /\ progress \in [open : BOOLEAN, cancelled : BOOLEAN] /\ afterClose \in BOOLEAN
  /\ tries \in 0..Retries /\ runs \in 0..MaxRuns /\ faults \in 0..MaxFaults
  /\ result.counted \subseteq Ids /\ written \subseteq Ids /\ unsure \subseteq written

Init ==
  /\ file \in [records : [Ids -> 0..MaxTime], histories : {{}, Events}] /\ policy \in Policies
  /\ library \in [Ids -> {0, 1}] /\ histories = {}
  /\ logged = {} /\ section = "updates" /\ cut = {}
  /\ phase = "idle" /\ plan = NoPlan /\ at = 0 /\ one = 0 /\ tries = 0
  /\ progress = Closed /\ afterClose = FALSE /\ result = NoResult
  /\ runs = 0 /\ faults = 0 /\ turns = 0 /\ written = {} /\ unsure = {} /\ touched = {}

Turn == turns < MaxTurns /\ turns' = turns + 1
Fault == faults < MaxFaults /\ faults' = faults + 1

\* isOperationCancelled()
Cancelled == (progress.open /\ progress.cancelled) \/ afterClose

-----------------------------------------------------------------------------
(* handleImportFile()                                                      *)

ChooseFile ==
  /\ phase = "idle" /\ runs < MaxRuns /\ runs' = runs + 1 /\ phase' = "preview"
  /\ result' = NoResult /\ written' = {} /\ unsure' = {} /\ touched' = {}
  /\ UNCHANGED <<file, policy, library, log, plan, at, one, tries, progress, afterClose, faults, turns>>

\* previewLibraryImport(): which records of the file are written.
Planned(id) ==
  /\ file.records[id] # 0
  /\ \/ library[id] = 0 \/ policy = "replace"
     \/ policy = "newer" /\ file.records[id] > library[id]

Preview ==
  /\ phase = "preview" /\ phase' = "confirm"
  /\ plan' = [records |-> SetToSeq({id \in Ids : Planned(id)}),
              histories |-> file.histories \ histories]
  /\ touched' = {}
  /\ UNCHANGED <<file, policy, library, log, at, one, tries, progress, afterClose, result,
                 runs, faults, turns, written, unsure>>

Confirm ==
  /\ phase = "confirm"
  /\ \/ /\ phase' = "opening" /\ afterClose' = FALSE
        /\ progress' = [open |-> TRUE, cancelled |-> FALSE]
     \/ phase' = "idle" /\ UNCHANGED <<progress, afterClose>>
  /\ UNCHANGED <<file, policy, library, log, plan, at, one, tries, result, runs, faults, turns, told>>

\* openOperationProgress(); without a dialog the import goes on.
OpenProgress ==
  /\ phase = "opening" /\ phase' = "records" /\ at' = 0 /\ one' = 0 /\ tries' = 0
  /\ \/ UNCHANGED <<progress, faults>>
     \/ Fault /\ progress' = Closed
  /\ UNCHANGED <<file, policy, library, log, plan, afterClose, result, runs, turns, told>>

-----------------------------------------------------------------------------
(* executeLibraryImport()                                                  *)

Batch ==
  SubSeq(plan.records, at + 1,
         IF at + BatchSize < Len(plan.records) THEN at + BatchSize ELSE Len(plan.records))
Stored(ids) == [id \in Ids |-> IF id \in ids THEN file.records[id] ELSE library[id]]
Elements(seq) == {seq[i] : i \in DOMAIN seq}
Count(ids) == result' = [result EXCEPT !.counted = @ \union ids]

End(cancelled) ==
  /\ phase' = "finish" /\ result' = [result EXCEPT !.cancelled = cancelled]

\* Asked before every call.
StopRecords ==
  /\ phase = "records" /\ Batch # <<>> /\ Cancelled /\ End(TRUE)
  /\ UNCHANGED <<file, policy, library, log, plan, at, one, tries, progress, afterClose,
                 runs, faults, turns, told>>

StoreBatch ==
  /\ phase = "records" /\ Batch # <<>> /\ ~Cancelled
  /\ library' = Stored(Elements(Batch)) /\ written' = written \union Elements(Batch)
  /\ Count(Elements(Batch)) /\ at' = at + Len(Batch) /\ tries' = 0
  /\ UNCHANGED <<file, policy, log, phase, plan, one, progress, afterClose, runs, faults,
                 turns, unsure, touched>>

\* A call that is refused for a while or not answered in time is repeated,
\* then its records are written one by one.  The core may have stored them.
BatchRefused ==
  /\ phase = "records" /\ Batch # <<>> /\ ~Cancelled /\ Fault
  /\ \/ UNCHANGED <<library, written, unsure>>
     \/ /\ library' = Stored(Elements(Batch)) /\ written' = written \union Elements(Batch)
        /\ unsure' = unsure \union Elements(Batch)
  /\ \/ tries < Retries /\ tries' = tries + 1 /\ UNCHANGED <<phase, one>>
     \/ tries' = 0 /\ phase' = "single" /\ one' = 0
  /\ UNCHANGED <<file, policy, log, plan, at, progress, afterClose, result, runs, turns, touched>>

\* saveImportBatchIndividually()
Next1 == one + 1
PassOne ==
  IF Next1 = Len(Batch) THEN at' = at + Next1 /\ one' = 0 /\ phase' = "records"
  ELSE one' = Next1 /\ UNCHANGED <<at, phase>>

\* Faulty variant: what was written before the cancel is not counted.
SingleForgotten ==
  /\ phase' = "finish" /\ at' = at /\ one' = 0
  /\ result' = [result EXCEPT !.cancelled = TRUE, !.counted = @ \ Elements(Batch)]

SingleStopped ==
  /\ phase' = "finish" /\ at' = at /\ one' = 0 /\ result' = [result EXCEPT !.cancelled = TRUE]

\* What was written before the cancel is counted.
StopSingle ==
  /\ phase = "single" /\ Cancelled /\ SingleStopped
  /\ UNCHANGED <<file, policy, library, log, plan, tries, progress, afterClose, runs, faults,
                 turns, told>>

StoreOne ==
  /\ phase = "single" /\ ~Cancelled
  /\ LET id == Batch[Next1]
     IN  /\ library' = Stored({id}) /\ written' = written \union {id} /\ Count({id})
         /\ unsure' = unsure \ {id}
  /\ PassOne
  /\ UNCHANGED <<file, policy, log, plan, tries, progress, afterClose, runs, faults, turns, touched>>

OneRefused ==
  /\ phase = "single" /\ ~Cancelled /\ Fault
  /\ result' = [result EXCEPT !.failed = TRUE]
  /\ LET id == Batch[Next1]
     IN  \/ UNCHANGED <<library, written, unsure>>
         \/ library' = Stored({id}) /\ written' = written \union {id} /\ unsure' = unsure \union {id}
  /\ PassOne
  /\ UNCHANGED <<file, policy, log, plan, tries, progress, afterClose, runs, turns, touched>>

\* Faulty variant: failed records do not hold the histories back.
PartialUnseen == FALSE

\* The histories follow when no record has failed and nothing is cancelled.
Partial == result.failed

EndRecords ==
  /\ phase = "records" /\ Batch = <<>>
  /\ IF at > 0 /\ Cancelled THEN End(TRUE)
     ELSE IF Partial THEN End(FALSE)
     ELSE phase' = "history" /\ UNCHANGED result
  /\ section' = "updates"
  /\ UNCHANGED <<file, policy, library, histories, cut, logged, plan, at, one, tries, progress, afterClose,
                 runs, faults, turns, told>>

(* The sections of the histories, one after the other.                     *)

\* The events of the section that are to be stored.
InSection == {e \in plan.histories : e.section = section}
Logs(events) == histories' = histories \union events /\ logged' = logged \union events

\* Between the batches of a section.
StopHistory ==
  /\ phase = "history" /\ Cancelled /\ End(TRUE)
  /\ \E some \in SUBSET InSection : some # InSection /\ Logs(some)
  /\ UNCHANGED <<file, policy, library, plan, at, one, section, cut, tries, progress, afterClose,
                 runs, faults, turns, told>>

StoreHistory ==
  /\ phase = "history" /\ (InSection = {} \/ ~Cancelled) /\ Logs(InSection)
  /\ phase' = "cut" /\ cut' = {e.id : e \in InSection}
  /\ UNCHANGED <<file, policy, library, plan, at, one, section, tries, progress, afterClose, result,
                 runs, faults, turns, told>>

HistoryRefused ==
  /\ phase = "history" /\ InSection # {} /\ ~Cancelled /\ Fault /\ End(FALSE)
  /\ \E some \in SUBSET InSection : Logs(some)
  /\ UNCHANGED <<file, policy, library, plan, at, one, section, cut, tries, progress, afterClose,
                 runs, turns, told>>

Newer(some, e) == {n \in some : n.section = e.section /\ n.id = e.id /\ n.time > e.time}

\* Faulty variant: the history is cut one event too short.
SurplusEarly(some, e) == Cardinality(Newer(some, e)) >= HistoryLimit - 1

Surplus(some, e) == Cardinality(Newer(some, e)) >= HistoryLimit
Overflow(id) == {e \in histories : e.section = section /\ e.id = id /\ Surplus(histories, e)}

\* pruneThreadHistory() of a thread the section has brought events of.  (That it
\* removes them one by one, as other tabs do, is in LibraryRecords.)
CutHistory(id) ==
  /\ phase = "cut" /\ id \in cut /\ cut' = cut \ {id} /\ histories' = histories \ Overflow(id)
  /\ UNCHANGED <<file, policy, library, phase, plan, at, one, section, tries, progress, afterClose,
                 result, runs, faults, turns, logged, told>>

\* A removal that is refused ends it, a listing that is ends the import without
\* a report, its dialog left as it is.
CutRefused(id) ==
  /\ phase = "cut" /\ id \in cut /\ Fault /\ histories' \in {histories \ some : some \in SUBSET Overflow(id)}
  /\ \/ cut' = cut \ {id} /\ UNCHANGED <<phase, plan, at>>
     \/ cut' = {} /\ phase' = "idle" /\ plan' = NoPlan /\ at' = 0
  /\ UNCHANGED <<file, policy, library, one, section, tries, progress, afterClose, result, runs, turns,
                 logged, told>>

Complete == phase' = "finish" /\ result' = [result EXCEPT !.complete = TRUE]

EndSection ==
  /\ phase = "cut" /\ cut = {}
  /\ IF section = "updates" THEN section' = "activity" /\ phase' = "history" /\ UNCHANGED result
     ELSE Complete /\ UNCHANGED section
  /\ UNCHANGED <<file, policy, library, histories, plan, at, one, cut, tries, progress, afterClose,
                 runs, faults, turns, logged, told>>

\* finishOperationProgress(), and the report.
Finish ==
  /\ phase = "finish" /\ phase' = "idle" /\ progress' = Closed /\ plan' = NoPlan /\ at' = 0
  /\ UNCHANGED <<file, policy, library, log, one, tries, afterClose, result, runs, faults, turns, told>>

-----------------------------------------------------------------------------
(* What happens meanwhile.                                                 *)

\* The button of the dialog, or the core closes the dialog.
PressCancel ==
  /\ phase # "opening" /\ progress.open /\ ~progress.cancelled /\ Turn
  /\ progress' = [progress EXCEPT !.cancelled = TRUE]
  /\ UNCHANGED <<file, policy, library, log, phase, plan, at, one, tries, afterClose, result,
                 runs, faults, told>>

\* cancelActiveImport(), when the add-on is disabled: only an import that has
\* begun to open its dialog is reached.
Disable ==
  /\ progress.open /\ Turn
  /\ progress' = Closed /\ afterClose' = TRUE
  /\ UNCHANGED <<file, policy, library, log, phase, plan, at, one, tries, result, runs, faults, told>>

\* Another tab saves or removes a record.
OtherTabWrites(id) ==
  /\ Turn /\ touched' = touched \union {id}
  /\ library' \in {[library EXCEPT ![id] = time] : time \in {0, MaxTime} \ {library[id]}}
  /\ UNCHANGED <<file, policy, log, phase, plan, at, one, tries, progress, afterClose, result,
                 runs, faults, written, unsure>>

\* Another tab logs an event, and cuts the history or has not yet.  (That it may
\* take its own event back is in LibraryRecords.)
OtherTabLogs(e) ==
  /\ Turn /\ logged' = logged \union {e}
  /\ LET more == histories \union {e}
         old == {n \in more : n.section = e.section /\ n.id = e.id /\ Surplus(more, n)}
     IN  histories' \in {more, more \ old}
  /\ UNCHANGED <<file, policy, library, phase, plan, at, one, section, cut, tries, progress, afterClose,
                 result, runs, faults, told>>

Next ==
  \/ ChooseFile \/ Preview \/ Confirm \/ OpenProgress
  \/ StopRecords \/ StoreBatch \/ BatchRefused \/ StopSingle \/ StoreOne \/ OneRefused
  \/ EndRecords \/ StopHistory \/ StoreHistory \/ HistoryRefused \/ EndSection \/ Finish
  \/ PressCancel \/ Disable \/ \E e \in Events : OtherTabLogs(e)
  \/ \E id \in Ids : CutHistory(id) \/ CutRefused(id) \/ OtherTabWrites(id)

Spec == Init /\ [][Next]_vars

(******************************** Properties *******************************)
\* "Count work that was actually written, even when a cancel arrived while it
\* ran" (importWorkflow.js:300): through retries, single writes and cancels the
\* report counts exactly the records that were stored, those of an unanswered
\* call apart.
ReportIsTrue ==
  /\ result.counted \subseteq written
  /\ written \ unsure \subseteq result.counted

\* HistoryLimit newer events of the same history have been stored.
Outdated(e) == Cardinality(Newer(logged, e)) >= HistoryLimit

\* An import reported as complete has written every record of the file the
\* policy admits, unless another tab has written there since; a cancelled or
\* partial import can thus be completed by importing the file again.  Of its
\* events those are there that HistoryLimit newer ones have not pushed out.
CompleteIsWhole ==
  result.complete =>
    /\ \A id \in Ids \ touched : file.records[id] # 0 =>
         CASE policy = "replace" -> library[id] = file.records[id]
           [] policy = "newer" -> library[id] >= file.records[id]
           [] OTHER -> library[id] # 0
    /\ \A e \in file.histories : e \in histories \/ Outdated(e)

\* An event goes from a history only for HistoryLimit newer ones, whichever tab
\* cuts the history and however the import ends.
OnlyOldEventsGo == \A e \in logged : e \in histories \/ Outdated(e)

\* "Existing records only update when incoming updatedAt is newer."
\* (importExportWorkflow.js:83)
OnlyNewerReplaces ==
  [][policy = "newer" =>
       \A id \in written' \ written : library[id] = 0 \/ library'[id] > library[id]]_vars
=============================================================================
