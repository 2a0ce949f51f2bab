---------------------------- MODULE ThreadUtility ----------------------------
(* The Thread Utility add-on in one tab: its button in the core's dock, the   *)
(* palette it opens with what the opening post contains, the links the        *)
(* palette offers, and the editor of its settings.  Enable, disable, refresh  *)
(* and teardown are operations of the shared runtime (AddonRuntime).          *)
(*                                                                            *)
(* Only the storage keeps the add-on waiting: the core carries every other    *)
(* request out while it is dispatched, and the answer is taken up in the same *)
(* task.  rt.on is state.enabled.  Tokens and the palette carry a generation, *)
(* which is compared with the newest one: "current" or "old".                 *)
EXTENDS Integers, SequencesExt, AddonRuntime

CONSTANTS
  Posts,      \* what the opening post offers, one content after the other
  MaxEvents,  \* bound: commands of the core and of the user
  MaxSaves,   \* bound: settings that are saved
  MaxFaults   \* bound: requests that the core refuses

VARIABLES
  rt,
  thread,    \* the tab shows a thread
  allowed,   \* the add-on is switched on in the core
  stored,    \* its settings in the core's storage
  settings,  \* state.settings
  ui,        \* state.ui, and whether the clicks in the palette are listened to
  core,      \* what the core has of it
  snapshot, sources, list, \* state.snapshot, the source registry, state.downloads
  shown,     \* the links in the palette's markup
  post,      \* what the opening post contains by now
  editor,    \* the editing session: the searches it began with, or none
  saves,     \* settings on their way to the storage
  clicked,   \* the link the user has clicked last, and the one that was opened
  crossed,   \* a refresh was overtaken, or an editor was opened during one
  unread,    \* settings were stored that the add-on has not loaded
  events, made, faults

vars == <<rt, thread, allowed, stored, settings, ui, core, snapshot, sources, list, shown, post, editor,
          saves, clicked, crossed, unread, events, made, faults>>
palette == <<ui, snapshot, sources, list, shown>>
page == <<palette, core, editor, saves>>

NoUi == [styled |-> FALSE, launcher |-> FALSE, open |-> FALSE, gen |-> "none", bound |-> FALSE]
NoCore == [style |-> FALSE, dock |-> FALSE, palette |-> FALSE, editor |-> FALSE]
NoEditor == -1
NoClick == [want |-> "none", got |-> "none", moved |-> FALSE, there |-> TRUE]
Defaults == [launcher |-> TRUE, searches |-> 0]

Init ==
  /\ rt = NewRuntime
  /\ thread \in BOOLEAN /\ allowed \in BOOLEAN
  /\ stored \in [launcher : BOOLEAN, searches : {0}] /\ settings = Defaults
  /\ ui = NoUi /\ core = NoCore
  /\ snapshot = FALSE /\ sources = "none" /\ list = 0 /\ shown = 0 /\ post = 1
  /\ editor = NoEditor /\ saves = <<>> /\ clicked = NoClick
  /\ crossed = FALSE /\ unread = FALSE
  /\ events = 0 /\ made = 0 /\ faults = 0

-----------------------------------------------------------------------------
(* What the steps share.                                                      *)

\* The queue of the runtime goes on before another task begins.
NewTask == ~Startable(rt)
Counted == NewTask /\ events < MaxEvents /\ events' = events + 1
Refused == faults < MaxFaults /\ faults' = faults + 1

\* A new generation: the tokens and the palette belong to an older one.
Old(g) == IF g = "current" THEN "old" ELSE g
Outdated(u) == [u EXCEPT !.gen = Old(@)]

\* Faulty variant: the clicks in the closed palette are still listened to.
ClosedListening(u) == [u EXCEPT !.open = FALSE, !.gen = "none"]

Closed(u) == [u EXCEPT !.open = FALSE, !.gen = "none", !.bound = FALSE]

\* clearSnapshotSources().
SourcesCleared == sources' = "none" /\ list' = 0 /\ shown' = 0

\* A session is over: what it has sent is nobody's.
Ended == editor' = NoEditor /\ saves' = [i \in DOMAIN saves |-> [saves[i] EXCEPT !.live = FALSE]]

\* Faulty variant: the style and the button stay.
UiGoneButDock ==
  ui' = NoUi /\ shown' = 0 /\ core' = [core EXCEPT !.palette = @ /\ ~ui.open]

\* disable() of uiController.
UiGone ==
  /\ ui' = NoUi /\ shown' = 0
  /\ core' = [core EXCEPT !.palette = @ /\ ~ui.open, !.dock = @ /\ ~ui.launcher, !.style = @ /\ ~ui.styled,
                          !.editor = @ /\ editor' # NoEditor]

-----------------------------------------------------------------------------
(* Commands.                                                                  *)

\* bootstrap(): listen, register, ask for access.
Boot ==
  /\ ~rt.booted
  /\ LET r == [rt EXCEPT !.booted = TRUE, !.bound = TRUE]
     IN  rt' = IF allowed THEN Command(r, "enable") ELSE [r EXCEPT !.on = FALSE]
  /\ UNCHANGED <<thread, allowed, stored, settings, page, post, clicked, crossed, unread, events, made,
                 faults>>

\* A command is issued: an operation that it aborts or overtakes is noted.
Issued(r) ==
  /\ rt' = r
  /\ crossed' = (crossed \/ (r # rt /\ ~Resting(rt)))

\* The core sends a refresh after a change in its panel, and an enable when
\* the user switches the add-on on.
CoreSends(kind) ==
  /\ Counted /\ kind \in {"enable", "refresh"}
  /\ CASE kind = "enable" -> allowed' = TRUE /\ UNCHANGED <<stored, unread>>
       [] OTHER -> /\ allowed /\ stored' = [stored EXCEPT !.launcher = ~@]
                   /\ UNCHANGED <<allowed, unread>>
  /\ LET r == Receive(rt, kind)
     IN  /\ Issued(r)
         /\ ui' = IF r # rt THEN Outdated(ui) ELSE ui
         /\ sources' = IF r # rt THEN Old(sources) ELSE sources
  /\ UNCHANGED <<thread, settings, core, snapshot, list, shown, post, editor, saves, clicked, made, faults>>

\* A disable and a teardown: the core clears what the add-on has in the page
\* at once, and tells it which dialogs that has closed.
CoreEnds(kind) ==
  /\ Counted /\ kind \in {"disable", "teardown"} /\ ~rt.terminal
  /\ allowed' = (allowed /\ kind = "teardown")
  /\ LET r == Receive(rt, kind)
     IN  Issued(r) /\ ui' = IF core.palette /\ rt.bound THEN Closed(ui)
                            ELSE IF r # rt THEN Outdated(ui) ELSE ui
  /\ core' = NoCore
  /\ IF core.palette /\ rt.bound THEN SourcesCleared
     ELSE sources' = Old(sources) /\ UNCHANGED <<list, shown>>
  /\ IF core.editor /\ rt.bound THEN Ended ELSE UNCHANGED <<editor, saves>>
  /\ UNCHANGED <<thread, stored, settings, snapshot, post, clicked, unread, made, faults>>

\* The panel of another tab.
ChangedElsewhere ==
  /\ Counted
  /\ stored' = [stored EXCEPT !.launcher = ~@] /\ unread' = TRUE
  /\ UNCHANGED <<rt, thread, allowed, settings, page, post, clicked, crossed, made, faults>>

-----------------------------------------------------------------------------
(* The operations.                                                            *)

\* Each to its first wait, which disable and teardown do not have.
BeginOp ==
  /\ Startable(rt)
  /\ LET r == Begin(rt)
     IN  CASE ~Busy(r) -> rt' = r /\ UNCHANGED <<page, snapshot>>
           [] r.active.kind \in {"disable", "teardown"} ->
                /\ rt' = [Succeed(r) EXCEPT !.on = FALSE, !.bound = @ /\ r.active.kind = "disable"]
                /\ snapshot' = FALSE /\ SourcesCleared /\ Ended /\ UiGone
           [] r.active.kind = "refresh" ->
                /\ rt' = r
                /\ snapshot' = FALSE /\ sources' = "none" /\ list' = 0 /\ UNCHANGED <<shown, ui>>
                /\ Ended /\ core' = [core EXCEPT !.editor = @ /\ editor = NoEditor]
           [] OTHER -> rt' = r /\ UNCHANGED page
  /\ UNCHANGED <<thread, allowed, stored, settings, post, clicked, crossed, unread, events, made, faults>>

\* The end of an operation that finds no thread, or is not wanted any more: the
\* runtime calls it a success all the same.
OutOfScope ==
  /\ rt' = [Succeed(rt) EXCEPT !.on = FALSE]
  /\ UNCHANGED <<editor, saves>> /\ UiGone

\* Faulty variant: a button that is not wanted any more stays.
UiThereForGood ==
  /\ ui' = [ui EXCEPT !.styled = TRUE, !.launcher = settings'.launcher]
  /\ core' = [core EXCEPT !.style = TRUE, !.dock = @ \/ settings'.launcher]

\* ui.enable().
UiThere ==
  /\ ui' = [ui EXCEPT !.styled = TRUE, !.launcher = settings'.launcher]
  /\ core' = [core EXCEPT !.style = TRUE,
                          !.dock = IF settings'.launcher THEN @ \/ ~ui.launcher
                                   ELSE @ /\ ~ui.launcher]

Loading == rt.active.kind \in {"enable", "refresh"} /\ rt.active.part = 1

Stored == IF allowed THEN stored ELSE Defaults

\* loadContextAndSettings() and the rest of enable and refresh.  The request
\* for the page may be refused: then there is no thread.
Loaded ==
  /\ Loading
  /\ \E known \in BOOLEAN :
       /\ IF known THEN UNCHANGED faults ELSE allowed /\ Refused
       /\ CASE ~IsCurrent(rt) ->
                 OutOfScope /\ UNCHANGED <<settings, snapshot, sources, list, unread>>
            [] IsCurrent(rt) /\ ~(thread /\ allowed /\ known) ->
                 /\ settings' = Stored /\ unread' = (unread /\ ~allowed)
                 /\ OutOfScope /\ snapshot' = FALSE /\ SourcesCleared
            [] OTHER ->
                 /\ settings' = Stored /\ unread' = FALSE
                 /\ snapshot' = TRUE /\ sources' = "current"
                 /\ UNCHANGED <<list, shown, editor, saves>>
                 /\ rt' = [Succeed(rt) EXCEPT !.on = @ \/ rt.active.kind = "enable"]
                 /\ IF rt.active.kind = "enable" \/ rt.on THEN UiThere ELSE UNCHANGED <<ui, core>>
  /\ UNCHANGED <<thread, allowed, stored, post, clicked, crossed, events, made>>

\* The core refuses the style or the button: what is there is taken back.
UiRefused ==
  /\ Loading /\ IsCurrent(rt) /\ thread /\ allowed /\ Refused
  /\ rt.active.kind = "enable" \/ rt.on
  /\ ~ui.styled \/ stored.launcher # ui.launcher
  /\ settings' = stored /\ unread' = FALSE
  /\ snapshot' = TRUE /\ sources' = "current" /\ UNCHANGED <<list, editor, saves>>
  /\ UiGone
  /\ rt' = [Throw(rt) EXCEPT !.on = @ /\ rt.active.kind = "refresh"]
  /\ UNCHANGED <<thread, allowed, stored, post, clicked, crossed, events, made>>

-----------------------------------------------------------------------------
(* The palette.                                                               *)

Links(v) == IF v = 0 THEN <<>> ELSE Posts[v]
Listens == core.palette /\ ui.bound /\ rt.on

\* capturePaletteData(): a source of this generation is read as it is by now.
Captured == snapshot' = TRUE /\ sources' = "current" /\ list' = post

\* A click on the button in the dock.
OpenPalette ==
  /\ core.dock /\ rt.bound /\ Counted
  /\ rt.on /\ snapshot /\ Captured
  /\ IF ui.open
     THEN shown' = (IF ui.gen = "current" THEN post ELSE shown) /\ UNCHANGED <<ui, core>>
     ELSE /\ ui' = [ui EXCEPT !.open = TRUE, !.gen = "current", !.bound = TRUE]
          /\ core' = [core EXCEPT !.palette = TRUE]
          /\ shown' = post
  /\ UNCHANGED <<rt, thread, allowed, stored, settings, post, editor, saves, clicked, crossed, unread, made,
                 faults>>

OpenRefused ==
  /\ core.dock /\ rt.bound /\ rt.on /\ snapshot /\ ~ui.open /\ Counted /\ Refused
  /\ ui' = [ui EXCEPT !.gen = "current"]
  /\ UNCHANGED <<rt, thread, allowed, stored, settings, core, snapshot, sources, list, shown, post, editor,
                 saves, clicked, crossed, unread, made>>

\* The button "Refresh" of the palette.
RefreshPalette ==
  /\ Listens /\ ui.open /\ ui.gen = "current" /\ Counted
  /\ Captured /\ shown' = post
  /\ UNCHANGED <<rt, thread, allowed, stored, settings, ui, core, post, editor, saves, clicked, crossed,
                 unread, made, faults>>

\* Tags or a section are folded: the palette is drawn with what is known.
Toggle ==
  /\ NewTask /\ Listens /\ ui.open /\ shown # list
  /\ shown' = list
  /\ UNCHANGED <<rt, thread, allowed, stored, settings, ui, core, snapshot, sources, list, post, editor,
                 saves, clicked, crossed, unread, events, made, faults>>

\* Faulty variant: the link of an older content will do.
LiveAnyway == TRUE

\* liveAnchor(): the node is still in the page, and of this generation.
Live == list = post /\ sources = "current"

At(v, i) == IF i \in DOMAIN Links(v) THEN Links(v)[i] ELSE "none"

\* open() and delegate(): a link is known by its place.  One that is not in
\* the page any more is looked for again, at the same place.
Click(i) ==
  /\ Listens /\ i \in DOMAIN Links(shown) /\ Counted
  /\ LET known == i \in DOMAIN Links(list)
         seek == known /\ ~Live
         found == IF seek THEN At(post, i) ELSE At(list, i)
     IN  /\ clicked' = [want |-> At(shown, i), got |-> found, moved |-> shown # post,
                       there |-> found \in Range(Links(post))]
         /\ IF seek THEN Captured ELSE UNCHANGED <<snapshot, sources, list>>
  /\ UNCHANGED <<rt, thread, allowed, stored, settings, ui, core, shown, post, editor, saves, crossed,
                 unread, made, faults>>

\* The site replaces the opening post by its edited version.
PostChanges ==
  /\ NewTask /\ post < Len(Posts) /\ post' = post + 1
  /\ UNCHANGED <<rt, thread, allowed, stored, settings, page, clicked, crossed, unread, events, made,
                 faults>>

\* The user closes the palette in the core.
PaletteClosed ==
  /\ core.palette /\ rt.bound /\ Counted
  /\ core' = [core EXCEPT !.palette = FALSE]
  /\ ui' = Closed(ui) /\ SourcesCleared
  /\ UNCHANGED <<rt, thread, allowed, stored, settings, snapshot, post, editor, saves, clicked, crossed,
                 unread, made, faults>>

-----------------------------------------------------------------------------
(* The editor.                                                                *)

\* The button "Settings" of the palette.
OpenEditor ==
  /\ Listens /\ editor = NoEditor /\ Counted
  /\ editor' = settings.searches /\ core' = [core EXCEPT !.editor = TRUE]
  /\ crossed' = (crossed \/ ~Resting(rt))
  /\ UNCHANGED <<rt, thread, allowed, stored, settings, palette, post, saves, clicked, unread, made, faults>>

\* save(): the draft with the rest of the settings as the add-on knows them.
Save ==
  /\ NewTask /\ core.editor /\ editor # NoEditor /\ made < MaxSaves
  /\ made' = made + 1
  /\ saves' = Append(saves, [value |-> [settings EXCEPT !.searches = made'], live |-> TRUE])
  /\ UNCHANGED <<rt, thread, allowed, stored, settings, palette, core, post, editor, clicked, crossed,
                 unread, events, faults>>

Rest == [i \in DOMAIN Tail(saves) |-> [Tail(saves)[i] EXCEPT !.live = FALSE]]

\* Faulty variant: the add-on is not refreshed.
StoredUnread(r) == r

\* The refresh of onSaved().
Refreshing(r) == Command(r, "refresh")

\* Stored: the session that is still open ends, and the add-on is refreshed.
SaveDone ==
  /\ NewTask /\ saves # <<>>
  /\ stored' = Head(saves).value /\ unread' = (unread \/ ~Head(saves).live)
  /\ IF Head(saves).live
     THEN LET r == Refreshing(rt)
          IN  /\ Issued(r)
              /\ editor' = NoEditor /\ core' = [core EXCEPT !.editor = FALSE] /\ saves' = Rest
              /\ ui' = IF r # rt THEN Outdated(ui) ELSE ui
              /\ sources' = IF r # rt THEN Old(sources) ELSE sources
     ELSE saves' = Tail(saves) /\ UNCHANGED <<rt, editor, core, ui, sources, crossed>>
  /\ UNCHANGED <<thread, allowed, settings, snapshot, list, shown, post, clicked, events, made, faults>>

\* Refused: the draft stays open.
SaveRefused ==
  /\ NewTask /\ saves # <<>> /\ (allowed => Refused) /\ (~allowed => UNCHANGED faults)
  /\ saves' = Tail(saves)
  /\ UNCHANGED <<rt, thread, allowed, stored, settings, palette, core, post, editor, clicked, crossed,
                 unread, events, made>>

\* Cancelled, or closed by the user in the core.
EditorClosed ==
  /\ core.editor /\ rt.bound /\ Counted
  /\ core' = [core EXCEPT !.editor = FALSE] /\ Ended
  /\ UNCHANGED <<rt, thread, allowed, stored, settings, palette, post, clicked, crossed, unread, made,
                 faults>>

-----------------------------------------------------------------------------
Next ==
  \/ Boot \/ ChangedElsewhere
  \/ \E kind \in Kinds : CoreSends(kind) \/ CoreEnds(kind)
  \/ BeginOp \/ Loaded \/ UiRefused
  \/ OpenPalette \/ OpenRefused \/ RefreshPalette \/ Toggle \/ PostChanges \/ PaletteClosed
  \/ \E i \in 1 .. Len(Links(shown)) : Click(i)
  \/ OpenEditor \/ Save \/ SaveDone \/ SaveRefused \/ EditorClosed

Spec == Init /\ [][Next]_vars

-----------------------------------------------------------------------------
(* Properties.                                                                *)

\* Every variable has its type.
TypeOK ==
  /\ RuntimeOK(rt, MaxEvents + MaxSaves + 1)
  /\ {thread, allowed, snapshot, crossed, unread} \subseteq BOOLEAN
  /\ {stored, settings} \subseteq [launcher : BOOLEAN, searches : 0 .. MaxSaves]
  /\ ui \in [styled : BOOLEAN, launcher : BOOLEAN, open : BOOLEAN, gen : {"none", "current", "old"},
             bound : BOOLEAN]
  /\ core \in [style : BOOLEAN, dock : BOOLEAN, palette : BOOLEAN, editor : BOOLEAN]
  /\ sources \in {"none", "current", "old"}
  /\ {list, shown} \subseteq 0 .. Len(Posts) /\ post \in DOMAIN Posts
  /\ editor \in {NoEditor} \union 0 .. MaxSaves /\ Len(saves) <= MaxSaves

Quiet == Resting(rt) /\ saves = <<>>

\* When all is over and the add-on is off, whatever has ended it, nothing of
\* it is in the page and it listens to no click in the palette.  An editor
\* that was opened while it was loading may be left.
GoneWhenOff ==
  Quiet /\ rt.booted /\ (~rt.on \/ rt.terminal) =>
    /\ ui = NoUi /\ ~core.style /\ ~core.dock /\ ~core.palette
    /\ core.editor => crossed

\* When all is over and the runtime says enabled, the add-on is on unless an
\* operation was overtaken or refused; its style is in the page, and its
\* button exactly when the settings in use ask for it.
ThereWhenOn ==
  Quiet /\ rt.state = "enabled" /\ thread /\ allowed =>
    /\ rt.on \/ crossed \/ faults > 0
    /\ rt.on => core.style /\ (core.dock <=> settings.launcher)

\* The palette the add-on believes to be open is open, and the other way
\* round, and its clicks are listened to for as long.
OpenIsOpen == rt.bound => (ui.open <=> core.palette) /\ (ui.bound <=> ui.open)

\* A click opens a link that is in the page at that moment, or none: the one
\* the user has seen, unless the site has replaced the post since it was drawn.
ClickedIsShown ==
  clicked.got # "none" => clicked.there /\ (clicked.moved \/ clicked.got = clicked.want)

\* What the user has saved is in use when all is over: the add-on has loaded
\* it, unless the session had ended before it was stored.
SavedIsUsed == Quiet /\ rt.state = "enabled" /\ ~unread => settings = Stored
=============================================================================
