----------------------------- MODULE AddonCatalog -----------------------------
(* The catalog of trusted add-ons (services/addons/catalog.js): every page of *)
(* the core takes the copy in the storage and, once in a check interval, asks *)
(* the delivery network for a newer one, which it takes only if its hash is   *)
(* the announced one.  The pages of several tabs share the copy and write     *)
(* what they know at the end of their check, also when it has failed.         *)
(*                                                                            *)
(* Time is counted in check intervals.  A catalog is its version, and whether *)
(* it is the genuine one; version 0 stands for no catalog.                    *)
EXTENDS Naturals

CONSTANTS
  Tabs,
  MaxVersion, \* bound: catalogs published
  MaxClock,   \* bound: check intervals
  MaxPages,   \* bound: pages opened
  MaxFaults   \* bound: failures of the network and of the storage, wrong documents

VARIABLES
  remote, \* the version the network has
  clock,
  copy,   \* the cache in the storage: there is one, its catalog, the last check
  page,   \* the page of each tab, with its load of the catalog
  pages, faults,
  writes, best, asked, overtaken
          \* ghosts: writes of the copy, the newest version ever stored, the
          \* last interval a check was ended in, and whether a page has written
          \* over a copy it had not read

vars == <<remote, clock, copy, page, pages, faults, writes, best, asked, overtaken>>

NoCatalog == [version |-> 0, genuine |-> TRUE]
Catalogs == [version : 0 .. MaxVersion, genuine : BOOLEAN]
NoCopy == [there |-> FALSE, catalog |-> NoCatalog, at |-> 0]
Never == MaxClock + 1
NoPage == [step |-> "off", time |-> 0, old |-> NoCopy, wanted |-> 0, read |-> 0,
           used |-> NoCatalog, fresh |-> FALSE, spaced |-> TRUE]
Steps == {"off", "read", "metadata", "document", "save", "touch", "fail", "done", "rejected"}

Init ==
  /\ remote = 1 /\ clock = 0 /\ copy = NoCopy
  /\ page = [t \in Tabs |-> NoPage]
  /\ pages = 0 /\ faults = 0
  /\ writes = 0 /\ best = 0 /\ asked = Never /\ overtaken = FALSE

Fault == faults < MaxFaults /\ faults' = faults + 1
Goes(t, step) == page' = [page EXCEPT ![t].step = step]
Storage == <<copy, writes, best, asked, overtaken>>
World == <<remote, clock, pages>>

-----------------------------------------------------------------------------
(* The world.                                                                *)

Publish ==
  /\ remote < MaxVersion /\ remote' = remote + 1
  /\ UNCHANGED <<clock, page, pages, faults, Storage>>

Tick ==
  /\ clock < MaxClock /\ clock' = clock + 1
  /\ UNCHANGED <<remote, page, pages, faults, Storage>>

\* initTrustedAddonCatalog(): once in a page.  A page that is left in the
\* middle of its load leaves nothing but what it has written.
Open(t) ==
  /\ pages < MaxPages /\ pages' = pages + 1
  /\ page' = [page EXCEPT ![t] = [NoPage EXCEPT !.step = "read", !.time = clock]]
  /\ UNCHANGED <<remote, clock, faults, Storage>>

-----------------------------------------------------------------------------
(* load()                                                                    *)

\* The check of the copy is older than the interval.
Outdated(t, old) == ~old.there \/ page[t].time >= old.at + 1

\* The storage has answered: its catalog is taken, and asked for if it is old.
ReadCopy(t) ==
  /\ page[t].step = "read"
  /\ LET has == copy.there /\ copy.catalog # NoCatalog
     IN  page' = [page EXCEPT ![t].old = copy, ![t].read = writes, ![t].fresh = has,
                    ![t].used = IF has THEN copy.catalog ELSE @,
                    ![t].spaced = asked = Never \/ asked < page[t].time,
                    ![t].step = IF Outdated(t, copy) THEN "metadata" ELSE "done"]
  /\ UNCHANGED <<World, faults, Storage>>

ReadFails(t) ==
  /\ page[t].step = "read" /\ Fault
  /\ Goes(t, "rejected")
  /\ UNCHANGED <<World, Storage>>

\* The identifier of the newest catalog.
Metadata(t) ==
  /\ page[t].step = "metadata"
  /\ page' = [page EXCEPT ![t].wanted = remote,
                ![t].step = IF page[t].old.catalog.version = remote THEN "touch" ELSE "document"]
  /\ UNCHANGED <<World, faults, Storage>>

\* Faulty variant: the document is taken as it comes.
AcceptedUnread(document, version) == TRUE

Accepted(document, version) == document.genuine /\ document.version = version

\* The document of that catalog, or another one, or a damaged one.
Document(t) ==
  /\ page[t].step = "document"
  /\ \E document \in Catalogs :
       /\ document.version # 0
       /\ IF document = [version |-> page[t].wanted, genuine |-> TRUE] THEN UNCHANGED faults ELSE Fault
       /\ page' = IF Accepted(document, page[t].wanted)
                  THEN [page EXCEPT ![t].step = "save", ![t].old.catalog = document]
                  ELSE [page EXCEPT ![t].step = "fail"]
  /\ UNCHANGED <<World, Storage>>

\* The network does not answer.
FetchFails(t) ==
  /\ page[t].step \in {"metadata", "document"} /\ Fault
  /\ Goes(t, "fail")
  /\ UNCHANGED <<World, Storage>>

-----------------------------------------------------------------------------
(* The copy is written, and the ghosts with it.                              *)

Written(t, catalog) ==
  /\ copy' = [there |-> TRUE, catalog |-> catalog, at |-> page[t].time]
  /\ writes' = writes + 1
  /\ best' = IF catalog.version > best THEN catalog.version ELSE best
  /\ asked' = IF asked = Never \/ page[t].time > asked THEN page[t].time ELSE asked
  /\ overtaken' = (overtaken \/ page[t].read # writes)

\* The new catalog is stored, then it is in force.
Save(t) ==
  /\ page[t].step = "save"
  /\ Written(t, page[t].old.catalog)
  /\ page' = [page EXCEPT ![t].step = "done", ![t].used = page[t].old.catalog, ![t].fresh = TRUE]
  /\ UNCHANGED <<World, faults>>

\* The old one is still the newest.
Touch(t) ==
  /\ page[t].step = "touch"
  /\ Written(t, page[t].old.catalog)
  /\ Goes(t, "done")
  /\ UNCHANGED <<World, faults>>

\* Faulty variant: a failed check leaves no mark.
FailedUnmarked(t) ==
  /\ page[t].step = "fail"
  /\ Goes(t, "done")
  /\ asked' = page[t].time
  /\ UNCHANGED <<World, faults, copy, writes, best, overtaken>>

\* Faulty variant: a failed check forgets the copy.
FailedForgetting(t) ==
  /\ page[t].step = "fail"
  /\ Written(t, NoCatalog)
  /\ Goes(t, "done")
  /\ UNCHANGED <<World, faults>>

\* A failed check counts as one and keeps the catalog there was.
Failed(t) ==
  /\ page[t].step = "fail"
  /\ Written(t, page[t].used)
  /\ Goes(t, "done")
  /\ UNCHANGED <<World, faults>>

\* The storage refuses: a check that succeeded fails by it, one that failed
\* rejects, and the add-ons of this page are not served.
WriteFails(t) ==
  /\ page[t].step \in {"save", "touch", "fail"} /\ Fault
  /\ Goes(t, IF page[t].step = "fail" THEN "rejected" ELSE "fail")
  /\ UNCHANGED <<World, Storage>>

Next ==
  \/ Publish \/ Tick
  \/ \E t \in Tabs :
       \/ Open(t) \/ ReadCopy(t) \/ ReadFails(t) \/ Metadata(t) \/ Document(t) \/ FetchFails(t)
       \/ Save(t) \/ Touch(t) \/ Failed(t) \/ WriteFails(t)

Spec == Init /\ [][Next]_vars

-----------------------------------------------------------------------------
(* Properties.                                                               *)

\* Every variable has its type.
TypeOK ==
  /\ remote \in 1 .. MaxVersion /\ clock \in 0 .. MaxClock
  /\ copy \in [there : BOOLEAN, catalog : Catalogs, at : 0 .. MaxClock]
  /\ \A t \in Tabs : page[t].step \in Steps /\ page[t].used \in Catalogs /\ page[t].time <= clock

\* What is trusted is what the network has announced, in every page and in the
\* copy, whichever documents came; and a page says that its catalog is there
\* exactly when it has one.
GenuineOnly ==
  /\ copy.catalog.genuine
  /\ \A t \in Tabs : page[t].used.genuine /\ (page[t].fresh <=> page[t].used # NoCatalog)

\* No check that fails costs the copy its catalog, and the network is asked
\* once in an interval, failed checks included; pages whose checks overlap may
\* write an older copy over a newer one.
CopyIsKept ==
  ~overtaken =>
    /\ copy.catalog.version = best
    /\ \A t \in Tabs : page[t].step \in {"metadata", "document"} => page[t].spaced
=============================================================================
