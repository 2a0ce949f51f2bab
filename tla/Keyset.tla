-------------------------------- MODULE Keyset --------------------------------
(* Reading an IndexedDB index page by page (services/addons/idbStore.js).      *)
(* Entries are records with the key of the index and an id; they are read from *)
(* the greatest key downwards, equal keys by id, and each page starts behind   *)
(* the last entry of the page before.                                          *)
EXTENDS Integers, Sequences, SequencesExt, FiniteSetsExt

Start == [key |-> 0, id |-> 0]   \* no cursor

Ahead(e, f) == e.key > f.key \/ (e.key = f.key /\ e.id > f.id)

\* Faulty variant: only the keys are compared.
AfterKey(e, boundary) == boundary = Start \/ e.key < boundary.key

\* cursorIsAfterBoundary()
After(e, boundary) == boundary = Start \/ Ahead(boundary, e)

Cursor(e) == [key |-> e.key, id |-> e.id]

\* readCursorPage(): a page is one transaction.
ReadPage(entries, boundary, limit) ==
  LET rest == SetToSortSeq({e \in entries : After(e, boundary)}, Ahead)
      items == SubSeq(rest, 1, IF Len(rest) < limit THEN Len(rest) ELSE limit)
  IN  [items |-> items,
       hasMore |-> Len(rest) > limit,
       nextCursor |-> IF items = <<>> THEN Start ELSE Cursor(Last(items))]
=============================================================================
