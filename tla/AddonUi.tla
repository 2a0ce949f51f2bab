------------------------------- MODULE AddonUi -------------------------------
(* What an add-on puts into the page through the core (services/addons       *)
(* uiHost.js, observer.js): dock buttons and mounts, retried while the dock  *)
(* is not there yet, dialogs, a style, and the nodes it watches or waits for.*)
(* Elements carry their owner; one of each kind but the dialogs is enough.   *)
EXTENDS Naturals, FiniteSets

CONSTANTS Addons,     \* the owners
          Dialogs,    \* dialog ids
          Attempts,   \* tries of a flush before it gives up (40)
          MaxWatches, \* nodes an add-on may watch
          Watches,    \* ids of what it watches
          MaxAsks     \* bound: requests of an add-on

VARIABLES
  dock,      \* the core's page dock is injected
  buttons,   \* addonDockButtonsState: who has buttons
  group,     \* whose buttons are in the dock
  mounted,   \* addonMountRegistry: who has a mount in the dock
  pending,   \* pendingAddonMounts: whose mount waits for the dock
  dockTries, \* attempts the dock flush has left, 0 without a timer
  tries,     \* the same of the mount flush
  styled,    \* whose style is in the page
  known,     \* addonDialogRegistry: the dialogs it finds
  overlays,  \* dialogs in the page
  watched,   \* OBSERVER_SUBSCRIPTIONS
  waiting,   \* the wait of an add-on: none, open or answered
  bare,      \* the add-on was cleaned up and has asked for nothing since
  asks       \* requests made

vars == <<dock, buttons, group, mounted, pending, dockTries, tries, styled, known,
          overlays, watched, waiting, bare, asks>>
docks == <<buttons, group, dockTries>>
mounts == <<mounted, pending, tries>>
others == <<styled, known, overlays, watched, waiting>>

MaxOverlays == MaxAsks

TypeOK ==
  /\ dock \in BOOLEAN /\ dockTries \in 0..Attempts /\ tries \in 0..Attempts
  /\ buttons \subseteq Addons /\ group \subseteq Addons /\ mounted \subseteq Addons
  /\ pending \subseteq Addons /\ styled \subseteq Addons /\ bare \subseteq Addons
  /\ known \in [Addons -> SUBSET Dialogs]
  /\ overlays \in [Addons -> [Dialogs -> 0..MaxOverlays]]
  /\ watched \in [Addons -> SUBSET Watches]
  /\ waiting \in [Addons -> {"none", "open", "answered"}]
  /\ asks \in [Addons -> 0..MaxAsks]

Init ==
  /\ dock = FALSE /\ dockTries = 0 /\ tries = 0
  /\ buttons = {} /\ group = {} /\ mounted = {} /\ pending = {} /\ styled = {}
  /\ known = [a \in Addons |-> {}]
  /\ overlays = [a \in Addons |-> [d \in Dialogs |-> 0]]
  /\ watched = [a \in Addons |-> {}]
  /\ waiting = [a \in Addons |-> "none"]
  /\ bare = Addons
  /\ asks = [a \in Addons |-> 0]

Ask(a) ==
  /\ asks[a] < MaxAsks
  /\ asks' = [asks EXCEPT ![a] = @ + 1]
  /\ bare' = bare \ {a}

Armed(left) == IF left = 0 THEN Attempts ELSE left

(********************************** Dock ***********************************)
SetDockButtons(a) ==
  /\ Ask(a)
  /\ buttons' = buttons \union {a}
  /\ IF dock THEN group' = group \union {a} /\ UNCHANGED dockTries
     ELSE dockTries' = Armed(dockTries) /\ UNCHANGED group
  /\ UNCHANGED <<dock, mounts, others>>

WithoutButtons(a) == buttons' = buttons \ {a} /\ group' = group \ {a}

RemoveDockButtons(a) ==
  /\ a \in buttons /\ WithoutButtons(a)
  /\ UNCHANGED <<dock, dockTries, mounts, others, bare, asks>>

FlushDock ==
  /\ dockTries > 0
  /\ IF dock THEN group' = group \union buttons /\ dockTries' = 0
     ELSE dockTries' = dockTries - 1 /\ UNCHANGED group
  /\ UNCHANGED <<dock, buttons, mounts, others, bare, asks>>

DockInjected ==
  /\ ~dock /\ dock' = TRUE
  /\ UNCHANGED <<docks, mounts, others, bare, asks>>

(********************************** Mounts *********************************)
\* mountAddonUi() into page.dock; the other slots exist or refuse at once.
Mount(a) ==
  /\ Ask(a)
  /\ IF dock THEN mounted' = mounted \union {a} /\ UNCHANGED <<pending, tries>>
     ELSE /\ pending' = pending \union {a}
          /\ tries' = Armed(tries)
          /\ UNCHANGED mounted
  /\ UNCHANGED <<dock, docks, others>>

\* updateAddonUi(): a pending mount is changed in place and tried again.
Update(a) ==
  /\ a \in pending \ mounted /\ Ask(a)
  /\ tries' = Armed(tries)
  /\ UNCHANGED <<dock, docks, mounted, pending, others>>

\* Faulty variant: the waiting one stays.
KeepPending(a) == mounted' = mounted \ {a} /\ UNCHANGED pending

\* removeAddonMounts(): the waiting one as well.
WithoutMounts(a) == mounted' = mounted \ {a} /\ pending' = pending \ {a}

Unmount(a) ==
  /\ a \in mounted \union pending /\ WithoutMounts(a)
  /\ UNCHANGED <<dock, docks, tries, others, bare, asks>>

\* A flush puts up what waits; the last attempt gives the rest up.
FlushMounts ==
  /\ tries > 0
  /\ IF dock \/ pending = {}
     THEN mounted' = mounted \union pending /\ pending' = {} /\ tries' = 0
     ELSE /\ tries' = tries - 1
          /\ pending' = IF tries = 1 THEN {} ELSE pending
          /\ UNCHANGED mounted
  /\ UNCHANGED <<dock, docks, others, bare, asks>>

(********************************* Dialogs *********************************)
Overlay(a, d, n) == overlays' = [overlays EXCEPT ![a][d] = n]

\* openAddonDialog(): the registry's entry for the add-on is looked up before
\* the dialog of the same id is closed, which drops the entry when that
\* dialog was the only one; the new dialog is then noted in the dropped one.
OpenDialog(a, d) ==
  /\ Ask(a)
  /\ known' = [known EXCEPT ![a] = IF @ = {d} THEN {} ELSE @ \union {d}]
  /\ Overlay(a, d, overlays[a][d] + (IF d \in known[a] THEN 0 ELSE 1))
  /\ UNCHANGED <<dock, docks, mounts, styled, watched, waiting>>

\* closeAddonDialogInternal(): by request, Escape or a click on the backdrop.
CloseDialog(a, d) ==
  /\ d \in known[a]
  /\ known' = [known EXCEPT ![a] = @ \ {d}]
  /\ Overlay(a, d, overlays[a][d] - 1)
  /\ UNCHANGED <<dock, docks, mounts, styled, watched, waiting, bare, asks>>

(***************************** Style, observers ****************************)
RegisterStyle(a) ==
  /\ Ask(a) /\ styled' = styled \union {a}
  /\ UNCHANGED <<dock, docks, mounts, known, overlays, watched, waiting>>

UnregisterStyle(a) ==
  /\ a \in styled /\ styled' = styled \ {a}
  /\ UNCHANGED <<dock, docks, mounts, known, overlays, watched, waiting, bare, asks>>

Watch(a, w) ==
  /\ w \notin watched[a] /\ Cardinality(watched[a]) < MaxWatches
  /\ Ask(a)
  /\ watched' = [watched EXCEPT ![a] = @ \union {w}]
  /\ UNCHANGED <<dock, docks, mounts, styled, known, overlays, waiting>>

WaitFor(a) ==
  /\ waiting[a] = "none" /\ Ask(a)
  /\ waiting' = [waiting EXCEPT ![a] = "open"]
  /\ UNCHANGED <<dock, docks, mounts, styled, known, overlays, watched>>

\* A match, the timeout, or unwatch for the same id.
FinishWait(a) ==
  /\ waiting[a] = "open"
  /\ waiting' = [waiting EXCEPT ![a] = "answered"]
  /\ UNCHANGED <<dock, docks, mounts, styled, known, overlays, watched, bare, asks>>

Unwatch(a, w) ==
  /\ w \in watched[a]
  /\ watched' = [watched EXCEPT ![a] = @ \ {w}]
  /\ waiting' = [waiting EXCEPT ![a] = IF @ = "open" THEN "answered" ELSE @]
  /\ UNCHANGED <<dock, docks, mounts, styled, known, overlays, bare, asks>>

(********************************** Cleanup ********************************)
\* cleanupAddonUi() and cleanupAddonObserverSubscriptions(), together in every
\* forced cleanup and every disable.
CleanUp(a) ==
  /\ asks[a] > 0 /\ a \notin bare
  /\ WithoutButtons(a) /\ WithoutMounts(a)
  /\ styled' = styled \ {a}
  /\ known' = [known EXCEPT ![a] = {}]
  /\ overlays' = [overlays EXCEPT ![a] =
                    [d \in Dialogs |-> IF d \in known[a] THEN @[d] - 1 ELSE @[d]]]
  /\ watched' = [watched EXCEPT ![a] = {}]
  /\ waiting' = [waiting EXCEPT ![a] = IF @ = "open" THEN "answered" ELSE @]
  /\ bare' = bare \union {a}
  /\ UNCHANGED <<dock, dockTries, tries, asks>>

Next ==
  \/ FlushDock \/ DockInjected \/ FlushMounts
  \/ \E a \in Addons :
       \/ SetDockButtons(a) \/ RemoveDockButtons(a) \/ Mount(a) \/ Update(a)
       \/ Unmount(a) \/ RegisterStyle(a) \/ UnregisterStyle(a) \/ WaitFor(a)
       \/ FinishWait(a) \/ CleanUp(a)
       \/ \E d \in Dialogs : OpenDialog(a, d) \/ CloseDialog(a, d)
       \/ \E w \in Watches : Watch(a, w) \/ Unwatch(a, w)

Spec == Init /\ [][Next]_vars

(******************************** Properties *******************************)
\* What was cleaned up stays away: no retry puts up later what an add-on asked
\* for before its cleanup, and a mount that waits for the dock always has a
\* retry to come (uiHost.js flushPendingAddonMounts, removeAddonMounts).
GoneStaysGone ==
  /\ \A a \in bare : /\ a \notin group \union mounted \union styled \union pending
                     /\ watched[a] = {} /\ waiting[a] # "open"
  /\ pending # {} => tries > 0

\* The core removes an add-on's dialogs with it, also one it opened again
\* (addons/README.md, Lifecycle).
DialogsGoToo == \A a \in bare : \A d \in Dialogs : overlays[a][d] = 0
=============================================================================
