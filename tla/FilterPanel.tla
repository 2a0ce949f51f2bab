----------------------------- MODULE FilterPanel -----------------------------
(* What the Latest Filters add-on has in the page of one tab: its button,     *)
(* which is put up by attempts that wait for the site's title, its dialog,    *)
(* its style, the reset controls it adds to the site's filters, and its       *)
(* listeners for changes of the address.  Enable, disable, refresh and        *)
(* teardown are operations of the shared runtime (AddonRuntime); an attempt   *)
(* goes on beside them, and so does the removal an attempt ends in when it    *)
(* comes too late.                                                            *)
(*                                                                            *)
(* The core carries a request out while it is dispatched; its answer comes    *)
(* later, in any order.  rt.on is state.enabled, rt.mountFresh says whether   *)
(* state.currentContext is still the newest.                                  *)
EXTENDS AddonRuntime

CONSTANTS
  Attempts,     \* MAX_MOUNT_ATTEMPTS
  Reconciles,   \* RESET_RECONCILE_ATTEMPTS
  MaxTasks,     \* bound: attempts that are under way at a time
  MaxEvents,    \* bound: commands of the core, changes of the address, clicks
  MaxFaults     \* bound: requests that the core refuses

VARIABLES
  rt,
  wanted,    \* the stored settings: enabled, and whether there is a button
  button,    \* state.showPageButton
  latest,    \* the tab is on the latest page
  anchor,    \* the site has rendered the title
  tasks,     \* mounts under way: step, whether current, for the dialog alone, and
             \* whether it opens the dialog
  removals,  \* calls of removePageUi(): step, and whose it is
  timer,     \* the timer of the next attempt, or none
  tries,     \* mountAttemptCount
  root, open, styled, \* rootEl, panelOpen with dialogEl, styleRegistered
  core,      \* what the core has of it: button, style and dialog
  opening,   \* openPanel() waits for the core: none, or whether it is current
  reset,     \* reset controls, and the reconciliations to come
  routes,    \* the listeners for the address are bound
  crossed,   \* an answer or a click has met a removal, or a step of an older
             \* generation has undone one of a newer
  events, faults

vars == <<rt, wanted, button, latest, anchor, tasks, removals, timer, tries, root, open, styled, core,
          opening, reset, routes, crossed, events, faults>>
uiVars == <<tasks, removals, timer, tries, root, open, styled, core, opening, reset, routes, crossed>>
siteVars == <<wanted, button, latest, anchor>>

NoTimer == [on |-> FALSE, current |-> FALSE, panel |-> FALSE]
NoReset == [there |-> FALSE, left |-> 0, current |-> FALSE]
NotOpening == "no"

Init ==
  /\ rt = [NewRuntime EXCEPT !.bound = TRUE]
  /\ wanted \in [enabled : {TRUE}, button : BOOLEAN]
  /\ button = TRUE /\ latest \in BOOLEAN /\ anchor \in BOOLEAN
  /\ tasks = <<>> /\ removals = <<>> /\ timer = NoTimer /\ tries = 0
  /\ root = FALSE /\ open = FALSE /\ styled = FALSE
  /\ core = [root |-> FALSE, style |-> FALSE, dialog |-> FALSE]
  /\ opening = NotOpening /\ reset = NoReset /\ routes = FALSE /\ crossed = FALSE
  /\ events = 0 /\ faults = 0

-----------------------------------------------------------------------------
(* What belongs to an older generation.                                       *)

\* Every context that was handed out is over.
Outdated ==
  /\ tasks' = [i \in DOMAIN tasks |-> [tasks[i] EXCEPT !.current = FALSE]]
  /\ timer' = [timer EXCEPT !.current = FALSE]
  /\ opening' = IF opening = NotOpening THEN NotOpening ELSE "stale"
  /\ reset' = [reset EXCEPT !.current = FALSE]
  /\ UNCHANGED <<removals, tries, root, open, styled, core, routes, crossed>>

Crosses(b) == crossed' = (crossed \/ b)

Counted == events < MaxEvents /\ events' = events + 1

\* A command of the core, and the add-on's own start.
CoreCommands(kind) ==
  /\ Counted
  /\ kind = "teardown" => ~rt.terminal
  /\ LET r == Receive(rt, kind)
     IN  /\ rt' = r
         /\ IF r # rt THEN Outdated ELSE UNCHANGED uiVars
  /\ UNCHANGED <<siteVars, faults>>

\* before-page-change of the core, and onRoute(): the generation is over and a
\* refresh is queued.
PageChanges ==
  /\ Counted /\ rt.bound
  /\ rt' = Receive(AbortActive(Outdate(rt)), "refresh")
  /\ latest' \in BOOLEAN
  /\ Outdated
  /\ UNCHANGED <<wanted, button, anchor, faults>>

\* The user hides or shows the button in the core's panel: stored, and the
\* core sends a refresh.
SettingChanges ==
  /\ Counted
  /\ wanted' = [wanted EXCEPT !.button = ~@]
  /\ LET r == Receive(rt, "refresh")
     IN  rt' = r /\ IF r # rt THEN Outdated ELSE UNCHANGED uiVars
  /\ UNCHANGED <<button, latest, anchor, faults>>

TitleRendered ==
  /\ ~anchor /\ anchor' = TRUE
  /\ UNCHANGED <<rt, wanted, button, latest, uiVars, events, faults>>

-----------------------------------------------------------------------------
(* removePageUi(): the calls of one removal, in its order.                    *)

HadUi == root \/ open \/ styled

\* What a removal that begins now gets in the way of.
Meets(owner) ==
  \/ opening # NotOpening \/ \E i \in DOMAIN tasks : tasks[i].opens
  \/ owner = "attempt" /\ reset.current

\* Faulty variant: the controls of the reset are left to their timer.
BeginRemovalKeepingReset(owner) ==
  /\ Crosses(Meets(owner))
  /\ timer' = NoTimer /\ UNCHANGED reset
  /\ removals' = Append(removals, [owner |-> owner, step |-> IF HadUi THEN "close" ELSE "root"])
  /\ core' = IF HadUi THEN [core EXCEPT !.dialog = FALSE] ELSE core

\* To its first await.
BeginRemoval(owner) ==
  /\ Crosses(Meets(owner))
  /\ timer' = NoTimer /\ reset' = NoReset
  /\ removals' = Append(removals, [owner |-> owner, step |-> IF HadUi THEN "close" ELSE "root"])
  /\ core' = IF HadUi THEN [core EXCEPT !.dialog = FALSE] ELSE core

Removing(i, step) == removals' = [removals EXCEPT ![i].step = step]

\* The dialog is closed: the button goes.
RemoveRoot(i) ==
  /\ removals[i].step = "close"
  /\ Removing(i, "root") /\ core' = [core EXCEPT !.root = FALSE]
  /\ UNCHANGED <<rt, siteVars, tasks, timer, tries, root, open, styled, opening, reset, routes,
                 crossed, events, faults>>

\* It is gone from the document, whoever has put it there: the style goes.
RemoveStyle(i) ==
  /\ removals[i].step = "root"
  /\ Removing(i, "end")
  /\ core' = [core EXCEPT !.root = FALSE, !.style = @ /\ ~styled]
  /\ UNCHANGED <<rt, siteVars, tasks, timer, tries, root, open, styled, opening, reset, routes,
                 crossed, events, faults>>

Dropped(i) == SubSeq(removals, 1, i - 1) \o SubSeq(removals, i + 1, Len(removals))

\* A removal that an attempt has begun.
RemovalEnds(i) ==
  /\ removals[i] = [owner |-> "attempt", step |-> "end"]
  /\ removals' = Dropped(i)
  /\ root' = FALSE /\ open' = FALSE /\ styled' = FALSE
  /\ UNCHANGED <<rt, siteVars, tasks, timer, tries, core, opening, reset, routes, crossed, events, faults>>

-----------------------------------------------------------------------------
(* scheduleMount(), tryMount() and mountPageUi().                             *)

Current(c) == c /\ ~rt.terminal
Goes(i, step) == tasks' = [tasks EXCEPT ![i].step = step]
Ends(i) == tasks' = SubSeq(tasks, 1, i - 1) \o SubSeq(tasks, i + 1, Len(tasks))
Attempt(step, panel) == [step |-> step, current |-> TRUE, panel |-> panel, opens |-> FALSE]
Starts(ts, panel) == Append(ts, Attempt("wait", panel))

Refused == faults < MaxFaults /\ faults' = faults + 1

Wanted(i) == Current(tasks[i].current) /\ rt.on /\ latest

\* The title is there, or the wait for it has run out.
Waited(i) ==
  /\ tasks[i].step = "wait"
  /\ \/ /\ ~Wanted(i) \/ (~button /\ ~tasks[i].panel)
        /\ Ends(i) /\ UNCHANGED <<timer, tries, core>>
     \/ /\ Wanted(i) /\ (button \/ tasks[i].panel) /\ anchor
        /\ Goes(i, "style") /\ core' = [core EXCEPT !.style = TRUE]
        /\ UNCHANGED <<timer, tries>>
     \/ /\ Wanted(i) /\ (button \/ tasks[i].panel) /\ ~anchor
        /\ tries' = tries + 1 /\ Ends(i)
        /\ timer' = IF tries' >= Attempts THEN timer
                    ELSE [on |-> TRUE, current |-> TRUE, panel |-> tasks[i].panel]
        /\ UNCHANGED core
  /\ UNCHANGED <<rt, siteVars, removals, root, open, styled, opening, reset, routes, crossed, events, faults>>

\* The timer of the next attempt.
Retry ==
  /\ timer.on /\ Len(tasks) < MaxTasks
  /\ timer' = NoTimer
  /\ tasks' = IF Current(timer.current) /\ rt.on /\ (button \/ timer.panel) /\ latest
              THEN Starts(tasks, timer.panel) ELSE tasks
  /\ UNCHANGED <<rt, siteVars, removals, tries, root, open, styled, core, opening, reset, routes,
                 crossed, events, faults>>

\* A mount for the dialog has come to nothing: scheduleMount(), whose context
\* may be over by now.
Rescheduled(i) ==
  /\ timer' = NoTimer /\ tries' = 0 /\ Crosses(~Current(tasks[i].current))
  /\ IF Wanted(i) THEN tasks' = [tasks EXCEPT ![i] = Attempt("wait", @.panel)] ELSE Ends(i)

GoesOn(i) == Current(tasks[i].current)

\* registerStyle() has answered: the core is asked for the button, which it
\* puts beside the title.
StyleAnswers(i) ==
  /\ tasks[i].step = "style"
  /\ CASE GoesOn(i) ->
            /\ Goes(i, "mount") /\ styled' = TRUE
            /\ core' = [core EXCEPT !.root = @ \/ anchor]
            /\ UNCHANGED <<timer, tries, crossed>>
       [] ~GoesOn(i) /\ tasks[i].opens ->
            Rescheduled(i) /\ UNCHANGED <<styled, core>>
       [] OTHER -> Ends(i) /\ UNCHANGED <<styled, core, timer, tries, crossed>>
  /\ UNCHANGED <<rt, siteVars, removals, root, open, opening, reset, routes, events, faults>>

\* The page has changed since: what was put up is removed again.
TooLate(i) == Ends(i) /\ BeginRemoval("attempt")

\* ui.mount has answered.
MountAnswers(i) ==
  /\ tasks[i].step = "mount"
  /\ CASE ~Current(tasks[i].current) ->
            TooLate(i) /\ UNCHANGED <<root, opening, tries>>
       [] Current(tasks[i].current) /\ core.root ->
            /\ Ends(i) /\ root' = TRUE
            /\ IF tasks[i].opens /\ ~open /\ opening = NotOpening
               THEN opening' = "current" /\ core' = [core EXCEPT !.dialog = TRUE]
               ELSE UNCHANGED <<opening, core>>
            /\ UNCHANGED <<removals, timer, reset, tries, crossed>>
       [] OTHER ->
            /\ IF tasks[i].opens THEN Rescheduled(i) ELSE Ends(i) /\ UNCHANGED <<timer, tries, crossed>>
            /\ UNCHANGED <<root, removals, reset, core, opening>>
  /\ UNCHANGED <<rt, siteVars, open, styled, routes, events, faults>>

\* The core refuses: the add-on puts up an element of its own.
MountRefused(i) ==
  /\ tasks[i].step = "mount" /\ Current(tasks[i].current) /\ anchor /\ Refused
  /\ Ends(i) /\ root' = TRUE /\ core' = [core EXCEPT !.root = TRUE]
  /\ UNCHANGED <<rt, siteVars, removals, timer, tries, open, styled, opening, reset, routes, crossed,
                 events>>

-----------------------------------------------------------------------------
(* filterResetController.js                                                   *)

ResetWanted == rt.on /\ latest

\* schedule() with the context of the operation.
Scheduled(current) ==
  IF current /\ ResetWanted THEN [there |-> TRUE, left |-> Reconciles, current |-> TRUE] ELSE NoReset

Reconcile ==
  /\ reset.left > 0
  /\ reset' = IF Current(reset.current) /\ ResetWanted THEN [reset EXCEPT !.left = @ - 1] ELSE NoReset
  /\ UNCHANGED <<rt, siteVars, tasks, removals, timer, tries, root, open, styled, core, opening, routes,
                 crossed, events, faults>>

-----------------------------------------------------------------------------
(* The operations.                                                            *)

\* The first part of each: to its first await.
BeginOp ==
  /\ Startable(rt)
  /\ LET r == Begin(rt)
     IN  CASE ~Busy(r) -> rt' = r /\ UNCHANGED uiVars
           [] r.active.kind = "disable" ->
                /\ rt' = [r EXCEPT !.on = FALSE, !.mountFresh = r.active.fresh]
                /\ routes' = FALSE /\ BeginRemoval("operation")
                /\ UNCHANGED <<tasks, tries, root, open, styled, opening>>
           [] r.active.kind = "teardown" ->
                /\ rt' = r
                /\ routes' = FALSE /\ BeginRemoval("operation")
                /\ UNCHANGED <<tasks, tries, root, open, styled, opening>>
           [] r.active.kind = "refresh" /\ ~r.on ->
                /\ rt' = Succeed([r EXCEPT !.mountFresh = r.active.fresh]) /\ UNCHANGED uiVars
           [] OTHER -> rt' = [r EXCEPT !.mountFresh = r.active.fresh] /\ UNCHANGED uiVars
  /\ UNCHANGED <<siteVars, events, faults>>

\* loadRuntimeData(): the settings as they are stored.
Loaded ==
  /\ rt.active.kind \in {"enable", "refresh"} /\ rt.active.part = 1
  /\ IF ~IsCurrent(rt)
     THEN rt' = Succeed(rt) /\ UNCHANGED <<button, removals, timer, reset, core, crossed>>
     ELSE /\ button' = wanted.button
          /\ rt' = [rt EXCEPT !.active.part = 2,
                              !.on = rt.active.kind = "enable" \/ wanted.enabled]
          /\ IF rt.active.kind = "refresh" THEN BeginRemoval("operation")
             ELSE UNCHANGED <<removals, timer, reset, core, crossed>>
  /\ UNCHANGED <<wanted, latest, anchor, tasks, tries, root, open, styled, opening, routes, events, faults>>

\* The end of enable and refresh, after the last await: nothing asks again
\* whether the context is current.
Up(r) ==
  /\ rt' = Succeed(r)
  /\ routes' = TRUE /\ Crosses(\E i \in DOMAIN removals : removals[i].owner = "attempt")
  /\ reset' = Scheduled(IsCurrent(r))
  /\ IF button /\ latest
     THEN /\ Len(tasks) < MaxTasks
          /\ timer' = NoTimer /\ tries' = 0
          /\ tasks' = IF IsCurrent(r) /\ r.on THEN Starts(tasks, FALSE) ELSE tasks
     ELSE UNCHANGED <<timer, tries, tasks>>

\* saveSettingsFlag() of enable.
Enabled ==
  /\ rt.active.kind = "enable" /\ rt.active.part = 2
  /\ wanted' = IF IsCurrent(rt) THEN [wanted EXCEPT !.enabled = TRUE] ELSE wanted
  /\ Up(rt)
  /\ UNCHANGED <<button, latest, anchor, removals, root, open, styled, core, opening, events, faults>>

\* The removal of an operation is over.
Removed(i) ==
  /\ removals[i] = [owner |-> "operation", step |-> "end"]
  /\ removals' = Dropped(i)
  /\ root' = FALSE /\ open' = FALSE /\ styled' = FALSE
  /\ CASE rt.active.kind = "refresh" -> Up(rt) /\ UNCHANGED wanted
       [] rt.active.kind = "disable" ->
            /\ rt' = Succeed(rt)
            /\ wanted' = IF IsCurrent(rt) THEN [wanted EXCEPT !.enabled = FALSE] ELSE wanted
            /\ UNCHANGED <<tasks, timer, tries, reset, routes, crossed>>
       [] OTHER ->
            \* teardown: every resource is released, the commands are unbound
            /\ rt' = [Succeed(rt) EXCEPT !.bound = FALSE]
            /\ timer' = NoTimer /\ reset' = [reset EXCEPT !.left = 0] /\ routes' = FALSE
            /\ UNCHANGED <<wanted, tasks, tries, crossed>>
  /\ UNCHANGED <<button, latest, anchor, core, opening, events, faults>>

-----------------------------------------------------------------------------
(* The dialog.                                                                *)

\* togglePanel() of the button.
Toggle ==
  /\ core.root /\ root /\ Counted /\ Crosses(removals # <<>>)
  /\ IF open THEN core' = [core EXCEPT !.dialog = FALSE] /\ open' = FALSE /\ UNCHANGED opening
     ELSE /\ Current(rt.mountFresh) /\ opening = NotOpening
          /\ opening' = "current" /\ core' = [core EXCEPT !.dialog = TRUE]
          /\ UNCHANGED open
  /\ UNCHANGED <<rt, siteVars, tasks, removals, timer, tries, root, styled, reset, routes, faults>>

Opened ==
  /\ opening # NotOpening /\ opening' = NotOpening /\ Crosses(opening = "stale")
  /\ open' = IF opening = "current" /\ ~rt.terminal THEN TRUE ELSE open
  /\ UNCHANGED <<rt, siteVars, tasks, removals, timer, tries, root, styled, core, reset, routes,
                 events, faults>>

\* The user closes it in the core: dialog-closed.
DialogClosed ==
  /\ core.dialog /\ open /\ Counted
  /\ core' = [core EXCEPT !.dialog = FALSE] /\ open' = FALSE
  /\ UNCHANGED <<rt, siteVars, tasks, removals, timer, tries, root, styled, opening, reset, routes,
                 crossed, faults>>

\* "open-filters" in the core's panel, with no button in the page: mounted
\* first, for the dialog alone if the user wants no button.
OpenFromPanel ==
  /\ rt.bound /\ rt.on /\ latest /\ ~root /\ Counted
  /\ Len(tasks) < MaxTasks
  /\ Crosses(removals # <<>> \/ ~Current(rt.mountFresh))
  /\ IF Current(rt.mountFresh)
     THEN /\ tasks' = Append(tasks, [Attempt("style", ~button) EXCEPT !.opens = TRUE])
          /\ core' = [core EXCEPT !.style = TRUE]
          /\ UNCHANGED <<timer, tries>>
     ELSE timer' = NoTimer /\ tries' = 0 /\ UNCHANGED <<tasks, core>>
  /\ UNCHANGED <<rt, siteVars, removals, root, open, styled, opening, reset, routes, faults>>

-----------------------------------------------------------------------------
Next ==
  \/ \E kind \in Kinds : CoreCommands(kind)
  \/ PageChanges \/ SettingChanges \/ TitleRendered
  \/ BeginOp \/ Loaded \/ Enabled
  \/ \E i \in DOMAIN removals : RemoveRoot(i) \/ RemoveStyle(i) \/ RemovalEnds(i) \/ Removed(i)
  \/ \E i \in DOMAIN tasks : Waited(i) \/ StyleAnswers(i) \/ MountAnswers(i) \/ MountRefused(i)
  \/ Retry \/ Reconcile
  \/ Toggle \/ Opened \/ DialogClosed \/ OpenFromPanel

Spec == Init /\ [][Next]_vars

-----------------------------------------------------------------------------
(* Properties.                                                                *)

\* Every variable has its type.
TypeOK ==
  /\ RuntimeOK(rt, MaxEvents + 1)
  /\ wanted \in [enabled : BOOLEAN, button : BOOLEAN]
  /\ {button, latest, anchor, root, open, styled, routes} \subseteq BOOLEAN
  /\ Len(tasks) <= MaxTasks
  /\ \A i \in DOMAIN tasks :
       tasks[i] \in [step : {"wait", "style", "mount"}, current : BOOLEAN, panel : BOOLEAN,
                     opens : BOOLEAN]
  /\ \A i \in DOMAIN removals :
       removals[i] \in [owner : {"operation", "attempt"}, step : {"close", "root", "end"}]
  /\ timer \in [on : BOOLEAN, current : BOOLEAN, panel : BOOLEAN]
  /\ tries \in 0 .. Attempts + MaxTasks
  /\ core \in [root : BOOLEAN, style : BOOLEAN, dialog : BOOLEAN]
  /\ opening \in {NotOpening, "current", "stale"}
  /\ reset \in [there : BOOLEAN, left : 0 .. Reconciles, current : BOOLEAN]

\* No attempt, removal or operation is under way.
Quiet == Resting(rt) /\ tasks = <<>> /\ removals = <<>> /\ ~timer.on /\ opening = NotOpening

\* Whatever came while it was disabled or torn down, when all is over the
\* add-on has no button, no dialog, no controls and no listeners in the page.
GoneWhenOff ==
  Quiet /\ rt.state \in {"disabled", "terminated"} /\ (rt.terminal \/ ~rt.on) =>
    /\ ~core.root /\ ~reset.there /\ ~routes
    /\ ~crossed => ~core.dialog

\* When all is over and the add-on is enabled on the latest page, the reset
\* controls are there, and so is the button if the user wants it and the site
\* has rendered the title in time.
ThereWhenOn ==
  Quiet /\ rt.state = "enabled" /\ rt.on /\ latest =>
    /\ routes
    /\ ~crossed => reset.there
    /\ ~crossed /\ button /\ anchor /\ tries = 0 => root /\ core.root

\* What the add-on believes to be open is open in the core.
OpenIsOpen == Quiet /\ ~crossed => (open <=> core.dialog)
=============================================================================
