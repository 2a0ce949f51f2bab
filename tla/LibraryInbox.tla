----------------------------- MODULE LibraryInbox -----------------------------
(* The Library's inbox of updates (ui/updateInbox/updateInboxController.js)    *)
(* and the bounded reads of changed records behind it (library/service.js):    *)
(* "Acknowledge all" collects the changed records page by page, then           *)
(* acknowledges them one by one, while they are written by others and the      *)
(* inbox is closed and opened again.                                           *)
EXTENDS Keyset, FiniteSets

CONSTANTS Ids,       \* positive integers
          MaxKey,    \* bound: the last modification time
          PageRows,  \* changed records a page may hold
          Batch,     \* entries one transaction reads
          ScanLimit, \* entries a page may look at
          AckLimit,  \* records "Acknowledge all" takes
          MaxWrites, \* bound: records written by others
          MaxTurns   \* bound: clicks and faults

VARIABLES
  key,      \* id -> recordModifiedAt; 0 is no record
  changed,  \* ids whose updateState is "changed"
  op,       \* the acknowledgement in progress
  late,     \* ids whose write was under way when the inbox was closed
  result,   \* what the last one reported
  standing, \* history: ids changed since it began and left alone by others
  writes, turns

vars == <<key, changed, op, late, result, standing, writes, turns>>
records == <<key, changed>>
bounds == <<writes, turns>>

NoOp == [phase |-> "none", cursor |-> Start, from |-> Start, scanned |-> 0, matches |-> <<>>,
         ids |-> <<>>, more |-> FALSE, failed |-> FALSE]
Entries == {[id |-> i, key |-> key[i]] : i \in {j \in Ids : key[j] > 0}}
Turn == turns < MaxTurns /\ turns' = turns + 1
Taken(s) == IF Len(s) > PageRows THEN SubSeq(s, 1, PageRows) ELSE s
Least(m, n) == IF m < n THEN m ELSE n

Init ==
  /\ key \in [Ids -> 0..2] /\ changed = {i \in Ids : key[i] > 0}
  /\ op = NoOp /\ late = {} /\ result = "none" /\ standing = {}
  /\ writes = 0 /\ turns = 0

\* Others find, acknowledge, edit and remove.
Others(i) ==
  /\ writes < MaxWrites /\ writes' = writes + 1
  /\ \E k \in 0..MaxKey :
       /\ k # key[i] /\ key' = [key EXCEPT ![i] = k]
       /\ changed' \in IF k = 0 THEN {changed \ {i}} ELSE {changed \union {i}, changed \ {i}}
  /\ standing' = standing \ {i}
  /\ UNCHANGED <<op, late, result, turns>>

(****************************** Acknowledge all ****************************)
AcknowledgeAll ==
  /\ op.phase = "none" /\ Turn
  /\ op' = [NoOp EXCEPT !.phase = "scan"] /\ standing' = changed /\ result' = "none"
  /\ UNCHANGED <<records, late, writes>>

\* A single record.
Acknowledge(i) ==
  /\ op.phase = "none" /\ Turn
  /\ op' = [NoOp EXCEPT !.phase = "read", !.ids = <<i>>, !.more = TRUE] /\ result' = "none"
  /\ UNCHANGED <<records, late, standing, writes>>

\* queryChangedEntriesPage(): one transaction of its loop.
ScanBatch ==
  /\ op.phase = "scan"
  /\ Len(op.matches) <= PageRows /\ op.scanned < ScanLimit /\ ~op.more
  /\ LET found == ReadPage(Entries, op.from, Least(Batch, ScanLimit - op.scanned))
         hits == SelectSeq(found.items, LAMBDA e : e.id \in changed)
         over == Len(op.matches) + Len(hits) > PageRows
     IN  op' = [op EXCEPT !.matches = IF over THEN SubSeq(@ \o hits, 1, PageRows + 1) ELSE @ \o hits,
                          !.scanned = @ + Len(found.items),
                          !.from = IF found.items = <<>> THEN @ ELSE found.nextCursor,
                          !.more = ~found.hasMore]
  /\ UNCHANGED <<records, late, result, standing, bounds>>

\* Faulty variant: the next page starts behind the entry that showed there is one.
BehindExtra ==
  IF Len(op.matches) > PageRows THEN Cursor(Last(op.matches))
  ELSE IF ~op.more /\ op.scanned >= ScanLimit THEN op.from ELSE Start

\* The page's cursor is its last row's, or where the scan was cut off.
NextPage ==
  IF Len(op.matches) > PageRows THEN Cursor(op.matches[PageRows])
  ELSE IF ~op.more /\ op.scanned >= ScanLimit THEN op.from ELSE Start

\* The page is complete; the ids are collected until there is no next one.
PageDone ==
  /\ op.phase = "scan" /\ (Len(op.matches) > PageRows \/ op.scanned >= ScanLimit \/ op.more)
  /\ LET rows == Taken(op.matches)
         ids == op.ids \o [n \in DOMAIN rows |-> rows[n].id]
         on == NextPage # Start
     IN  op' = [NoOp EXCEPT !.ids = ids, !.cursor = NextPage, !.from = NextPage, !.more = FALSE,
                            !.phase = IF on /\ Len(ids) < AckLimit THEN "scan" ELSE "collected"]
  /\ UNCHANGED <<records, late, result, standing, bounds>>

\* more now says that not everything was collected.
Collected ==
  /\ op.phase = "collected"
  /\ op' = [NoOp EXCEPT !.ids = op.ids, !.more = op.cursor # Start,
                        !.phase = IF op.ids = <<>> THEN "end" ELSE "read"]
  /\ UNCHANGED <<records, late, result, standing, bounds>>

ScanFails ==
  /\ op.phase = "scan" /\ Turn
  /\ op' = NoOp /\ result' = "failed"
  /\ UNCHANGED <<records, late, standing, writes>>

\* acknowledgeCurrentUpdate(): the record is read afresh; one that is gone or
\* not changed any more is skipped.
Rest == [op EXCEPT !.ids = Tail(@), !.phase = IF Len(op.ids) = 1 THEN "end" ELSE "read"]

ReadFresh ==
  /\ op.phase = "read"
  /\ op' = IF Head(op.ids) \in changed THEN [op EXCEPT !.phase = "write"] ELSE Rest
  /\ UNCHANGED <<records, late, result, standing, bounds>>

Put(i) ==
  /\ \E k \in 1..MaxKey : key' = [key EXCEPT ![i] = k]
  /\ changed' = changed \ {i}

WriteAck ==
  /\ op.phase = "write" /\ Put(Head(op.ids)) /\ op' = Rest
  /\ UNCHANGED <<late, result, standing, bounds>>

\* The write is refused, or is stored although its answer was lost.
WriteFails ==
  /\ op.phase = "write" /\ Turn
  /\ op' = [Rest EXCEPT !.failed = TRUE]
  /\ UNCHANGED records \/ Put(Head(op.ids))
  /\ UNCHANGED <<late, result, standing, writes>>

Reports ==
  /\ op.phase = "end" /\ op' = NoOp
  /\ result' = IF op.failed THEN "failed" ELSE IF op.more THEN "more" ELSE "all"
  /\ UNCHANGED <<records, late, standing, bounds>>

\* Closing cancels; a write that was sent is not taken back.
Close ==
  /\ op.phase # "none" /\ Turn
  /\ op' = NoOp
  /\ late' = IF op.phase = "write" THEN late \union {Head(op.ids)} ELSE late
  /\ result' = "none"
  /\ UNCHANGED <<records, standing, writes>>

LateWrite(i) ==
  /\ i \in late /\ late' = late \ {i} /\ Put(i)
  /\ UNCHANGED <<op, result, standing, bounds>>

Next ==
  \/ \E i \in Ids : Others(i) \/ Acknowledge(i) \/ LateWrite(i)
  \/ AcknowledgeAll \/ ScanBatch \/ PageDone \/ Collected \/ ScanFails
  \/ ReadFresh \/ WriteAck \/ WriteFails \/ Reports \/ Close

Spec == Init /\ [][Next]_vars

(******************************** Properties *******************************)
TypeOK ==
  /\ key \in [Ids -> 0..MaxKey] /\ changed \subseteq Ids /\ late \subseteq Ids
  /\ op.phase \in {"none", "scan", "collected", "read", "write", "end"}
  /\ op.ids \in Seq(Ids) /\ Len(op.matches) <= PageRows + 1
  /\ result \in {"none", "all", "more", "failed"} /\ standing \subseteq Ids
  /\ writes \in 0..MaxWrites /\ turns \in 0..MaxTurns

\* "Acknowledge all" without a failure and without "more remain" leaves no
\* record that was changed when it began, although pages end in the middle of a
\* scan, equal times are cut by a page's end, and others move the records
\* around: only one that others wrote since may be changed.
NothingLeftChanged == result = "all" => standing \intersect changed = {}
=============================================================================
