---------------------------- MODULE QuickSearches ----------------------------
(* The quick searches of Thread Utility: the list the user edits in the       *)
(* settings dialog, the names it is given on its way to the storage and back, *)
(* and the registry that takes a name only once.                              *)
(*                                                                            *)
(* An entry's name is what the code builds it from, a sequence: <<0, i>> for  *)
(* the i-th default, <<n>> for "custom-n", and a number at the end for every  *)
(* duplicate number a list in which the name was taken has added.             *)
EXTENDS Naturals, Sequences, SequencesExt, FiniteSetsExt

CONSTANTS
  Initials,  \* how many searches there are by default
  Limit,     \* QUICK_SEARCH_LIMIT
  MaxEdits,  \* bound: edits between two savings
  MaxSaves   \* bound: savings

VARIABLES
  stored,    \* the list in the core's storage
  settings,  \* the list the add-on has loaded
  dialog,    \* the dialog is open
  draft,     \* the list in the dialog
  on,        \* the add-on is on in this page
  loads,     \* its last load went through
  last,      \* what the user has saved, as the rows were called and switched
  edits, saves

vars == <<stored, settings, dialog, draft, on, loads, last, edits, saves>>

\* DEFAULT_QUICK_SEARCHES.
Defaults == [i \in 1 .. Initials |-> [id |-> <<0, i>>, what |-> <<0, i>>, on |-> TRUE]]

-----------------------------------------------------------------------------
(* normalizeQuickSearches().                                                  *)

\* How many of the entries up to the i-th have its name.
DuplicateNumber(list, i) == Quantify(1 .. i, LAMBDA j : list[j].id = list[i].id)

\* Faulty variant: of several entries with one name the first is kept.
FirstOfEach(list) ==
  FoldLeft(LAMBDA kept, e : IF \E i \in DOMAIN kept : kept[i].id = e.id THEN kept ELSE Append(kept, e),
           <<>>, list)

\* A name that was there before is followed by its number.
Renamed(list) ==
  [i \in DOMAIN list |->
     LET n == DuplicateNumber(list, i)
     IN  IF n = 1 THEN list[i] ELSE [list[i] EXCEPT !.id = Append(@, n)]]

\* An empty list becomes the defaults; one that is too long does not occur.
Normal(list) == IF list = <<>> THEN Defaults ELSE Renamed(list)

\* registerQuickSearchUtilities() throws at a name the registry has.
Registers(list) ==
  \A i, j \in DOMAIN list : list[i].on /\ list[j].on /\ list[i].id = list[j].id => i = j

\* What the user sees of a list.
Rows(list) == [i \in DOMAIN list |-> [what |-> list[i].what, on |-> list[i].on]]

Init ==
  /\ stored = <<>> /\ settings = Defaults /\ dialog = FALSE /\ draft = <<>>
  /\ on = TRUE /\ loads = TRUE /\ last = Rows(Defaults)
  /\ edits = 0 /\ saves = 0

-----------------------------------------------------------------------------
(* The dialog.                                                                *)

\* createSettingsDraft().
Open ==
  /\ on /\ ~dialog
  /\ dialog' = TRUE /\ draft' = Normal(settings) /\ edits' = 0
  /\ UNCHANGED <<stored, settings, on, loads, last, saves>>

Edited(list) ==
  /\ dialog /\ edits < MaxEdits
  /\ draft' = list /\ edits' = edits + 1
  /\ UNCHANGED <<stored, settings, dialog, on, loads, last, saves>>

\* addDraftUtility(): the number in the name is the length of the list; the
\* user fills in what it is called and what it looks for.
Add ==
  /\ Len(draft) < Limit
  /\ Edited(Append(draft, [id |-> <<Len(draft) + 1>>, what |-> <<saves + 1, edits + 1>>, on |-> TRUE]))

\* deleteDraftUtility().
Delete(i) == Edited(RemoveAt(draft, i))

\* moveDraftUtility(): one down, or the next one up.
Swapped(list, i) == [list EXCEPT ![i] = list[i + 1], ![i + 1] = list[i]]
Move(i) == i < Len(draft) /\ Edited(Swapped(draft, i))

\* The check mark of a row, which capture() reads back with the names.
Switch(i) == Edited([draft EXCEPT ![i].on = ~@])

\* resetSettingsDraft().
Reset == draft # Normal(Defaults) /\ Edited(Normal(Defaults))

Closed == dialog' = FALSE /\ draft' = <<>> /\ edits' = 0

Cancel ==
  /\ dialog /\ Closed
  /\ UNCHANGED <<stored, settings, on, loads, last, saves>>

-----------------------------------------------------------------------------
(* Saving and loading.                                                        *)

\* loadThreadUtilitySettings(), and a registry for what was loaded.
Load(value) == settings' = Normal(value) /\ loads' = Registers(settings')

\* save(), of rows that are filled in: stored as normalised, and loaded by the refresh that follows, which
\* leaves the add-on on even if it fails.
Save ==
  /\ dialog /\ edits > 0 /\ saves < MaxSaves
  /\ stored' = Normal(draft)
  /\ last' = Rows(IF draft = <<>> THEN Defaults ELSE draft)
  /\ Closed /\ saves' = saves + 1 /\ Load(stored')
  /\ UNCHANGED on

\* Another thread: the add-on is on if its load goes through.
NewPage ==
  /\ Closed /\ Load(stored) /\ on' = loads'
  /\ UNCHANGED <<stored, last, saves>>

Next ==
  \/ Open \/ Cancel \/ Reset \/ Save \/ NewPage
  \/ dialog /\ (Add \/ \E i \in DOMAIN draft : Delete(i) \/ Move(i) \/ Switch(i))

Spec == Init /\ [][Next]_vars

-----------------------------------------------------------------------------
(* Properties.                                                                *)

\* Every variable has its type.
TypeOK ==
  /\ \A list \in {stored, settings, draft} :
       /\ Len(list) <= Limit
       /\ \A i \in DOMAIN list : list[i].on \in BOOLEAN 
  /\ {dialog, on, loads} \subseteq BOOLEAN
  /\ edits \in 0 .. MaxEdits /\ saves \in 0 .. MaxSaves

\* However often the list goes through the storage, the add-on has the rows
\* the user has saved, in their order; a list without rows means the defaults.
RowsAreKept == Rows(settings) = last

\* The buttons the user has configured can be registered: the add-on loads on
\* every thread page.
AddonLoads == loads
=============================================================================
