------------------------------ MODULE AddonPanel ------------------------------
(* The add-ons in the settings of one page: what the core knows of each      *)
(* add-on (services/addons/knownAddons.js), the cards, panels and shortcuts  *)
(* that show it, the pins, the panel that is open, the user's switch and the *)
(* deletion of a trace, and the controls of an add-on's own settings, which  *)
(* are one stored object that every change reads and writes back.            *)
(*                                                                           *)
(* What is drawn anew on a change of the registry are all panels at once;    *)
(* names, texts, badges and links are left out.                              *)
EXTENDS Naturals, Sequences, FiniteSets, SequencesExt

CONSTANTS
  Addons,
  Official,   \* those in the trusted catalog
  Here,       \* those whose scope and matches cover this page
  Paths,      \* the controls of a panel
  MaxEvents,  \* bound: what the add-ons and the policy do
  MaxClicks,  \* bound: what the user does
  MaxFaults   \* bound: actions and writes that are refused

VARIABLES
  reg,       \* the registry: none, on, or off
  sighted, wish, allow, \* the configuration: traces, switches, the policy
  view,      \* registeredAddons: what was last drawn
  prefs,     \* the preferences are loaded, the loads under way, the modal is bound
  pins, storedPins, writes, \* the pins; those in the storage; writes under way
  panel, storedPanel, \* the panel that is open, and the one in the storage
  switches,  \* uses of the switch whose answer is awaited
  removals,  \* the trace whose deletion is asked, and those being deleted
  stored, control, reading, \* the settings; what the controls show; panels being read
  edits,     \* changes of a control under way
  events, clicks, faults,
  silent, unsure, meant, mixed
             \* ghosts: the configuration has changed without a drawing, a pin
             \* was refused or loaded over, what the settings should be, and
             \* the add-ons whose edits have crossed each other or a drawing

vars == <<reg, sighted, wish, allow, view, prefs, pins, storedPins, writes, panel, storedPanel, switches, removals,
          stored, control, reading, edits, events, clicks, faults, silent, unsure, meant, mixed>>
configVars == <<sighted, wish, allow>>
pinVars == <<pins, storedPins, writes, unsure>>
navVars == <<prefs, storedPanel>>
editVars == <<stored, edits, meant>>
drawnVars == <<view, panel, control, reading, mixed>>
countVars == <<events, clicks, faults>>

NoValues == [p \in Paths |-> "none"]
Values == [Paths -> {"none", "on", "off"}]
Default == [p \in Paths |-> "on"]

-----------------------------------------------------------------------------
(* listKnownAddons()                                                         *)

\* resolveAddonAccess(): trusted, or the policy allows it.
Allowed(a) == a \in Official \/ allow

\* computeAddonStatus(): the registry first, then the trace and the switch.
StatusOf(r, a, seen, w) ==
  CASE r[a] # "none" -> IF r[a] = "on" THEN "installed" ELSE "disabled"
    [] r[a] = "none" /\ a \in seen /\ w[a] = "off" -> "disabled"
    [] r[a] = "none" /\ a \in seen /\ (w[a] = "on" \/ a \notin Here) -> "installed"
    [] OTHER -> "not-installed"

Known(r, a, seen, w, free) ==
  LET access == a \in Official \/ free
  IN  [listed |-> a \in Official \/ a \in seen \/ r[a] # "none",
       active |-> r[a] # "none", canEnable |-> access,
       status |-> IF access THEN StatusOf(r, a, seen, w) ELSE "disabled",
       seen |-> a \in seen]
ViewOf(r, seen, w, free) == [a \in Addons |-> Known(r, a, seen, w, free)]

HasPanel(v, a) == v[a].listed /\ v[a].status # "not-installed"
Panels(v) == {"general"} \cup {a \in Addons : HasPanel(v, a)}

\* The button of the switch.
CanSwitch(e) ==
  /\ e.listed /\ e.status # "not-installed"
  /\ (e.active /\ e.canEnable) \/ (~e.active /\ e.seen)
  /\ e.status # "disabled" \/ e.canEnable

Init ==
  /\ reg = [a \in Addons |-> "none"]
  /\ sighted \in SUBSET Addons /\ wish = [a \in Addons |-> "unset"] /\ allow \in BOOLEAN
  /\ view = ViewOf(reg, sighted, wish, allow)
  /\ prefs = [loaded |-> FALSE, loads |-> <<>>, bound |-> FALSE]
  /\ pins = <<>> /\ writes = <<>>
  /\ panel = "general" /\ storedPanel \in Addons \cup {"general"}
  /\ storedPins = IF storedPanel = "general" THEN <<>> ELSE SetToSeq(Addons)
  /\ switches = <<>> /\ removals = [asked |-> "none", going |-> {}]
  /\ stored = [a \in Addons |-> [p \in Paths |-> "off"]] /\ control = [a \in Addons |-> NoValues] /\ reading = {}
  /\ edits = {}
  /\ events = 0 /\ clicks = 0 /\ faults = 0
  /\ silent = FALSE /\ unsure = FALSE /\ meant = stored /\ mixed = {}

Event == events < MaxEvents /\ events' = events + 1 /\ UNCHANGED <<clicks, faults>>
Click == clicks < MaxClicks /\ clicks' = clicks + 1 /\ UNCHANGED <<events, faults>>
Fault == faults < MaxFaults /\ faults' = faults + 1 /\ UNCHANGED <<events, clicks>>
Editing == {e.addon : e \in edits}

\* updateRegisteredAddons(), refreshAddonsUi(): the panels are made anew, each
\* reads its settings, and a panel that is no more gives way to the first.
DrawnAt(v, from) ==
  /\ view' = v
  /\ panel' = IF from \in Panels(v) THEN from ELSE "general"
  /\ control' = [a \in Addons |-> NoValues]
  /\ reading' = {a \in Addons : HasPanel(v, a) /\ v[a].active}
  /\ mixed' = mixed \cup Editing

Drawn(v) == DrawnAt(v, panel)

\* What the registry tells its subscribers: nobody before the modal is bound.
Told ==
  IF prefs.bound THEN Drawn(ViewOf(reg', sighted', wish', allow')) /\ silent' = FALSE
  ELSE UNCHANGED <<drawnVars, silent>>

-----------------------------------------------------------------------------
(* The add-ons, and the configuration.                                       *)

\* It registers, reports another status, or unregisters.
Registers(a) ==
  /\ Event
  /\ \E r \in {"none", "on", "off"} : r # reg[a] /\ reg' = [reg EXCEPT ![a] = IF Allowed(a) \/ r = "none"
                                                                         THEN r ELSE "off"]
  /\ UNCHANGED <<configVars, navVars, pinVars, switches, removals, editVars>>
  /\ Told

\* Its trace is stored: nobody is told.
Sighted(a) ==
  /\ a \notin sighted /\ reg[a] # "none"
  /\ sighted' = sighted \cup {a} /\ silent' = TRUE
  /\ UNCHANGED <<reg, wish, allow, navVars, pinVars, switches, removals, editVars, drawnVars, countVars>>

\* The policy is set, and reapplied: no entry of the registry passes for a
\* registration again, since it has not kept what one must state.
Policy ==
  /\ Event /\ allow' = ~allow
  /\ reg' = [a \in Addons |-> "none"]
  /\ UNCHANGED <<sighted, wish, navVars, pinVars, switches, removals, editVars>>
  /\ Told

-----------------------------------------------------------------------------
(* The modal and the preferences.                                            *)

\* refreshModalDynamicSections()
Shown == Drawn(ViewOf(reg, sighted, wish, allow)) /\ silent' = FALSE

\* initModalUi(): the preferences once, then everything is drawn.
OpenModal ==
  /\ Click
  /\ IF prefs.loaded THEN UNCHANGED prefs /\ Shown
     ELSE /\ prefs' = [prefs EXCEPT !.loads = Append(@, [pins |-> storedPins, panel |-> storedPanel])]
          /\ UNCHANGED <<drawnVars, silent>>
  /\ UNCHANGED <<reg, configVars, storedPanel, pinVars, switches, removals, editVars>>

\* ensureSettingsUiPrefsLoaded() has read them, also for a second opening.
Loaded ==
  /\ prefs.loads # <<>>
  /\ prefs' = [loaded |-> TRUE, loads |-> Tail(prefs.loads), bound |-> TRUE]
  /\ pins' = Head(prefs.loads).pins
  /\ unsure' = (unsure \/ (prefs.loaded /\ pins' # pins))
  /\ DrawnAt(ViewOf(reg, sighted, wish, allow), Head(prefs.loads).panel) /\ silent' = FALSE
  /\ UNCHANGED <<reg, configVars, storedPanel, storedPins, writes, switches, removals, editVars, countVars>>

Installed(a) == prefs.bound /\ HasPanel(view, a)

\* setActivePanel(): an add-on's, or back.
OpenPanel(to) ==
  /\ prefs.bound /\ Click /\ to # panel /\ to \in Panels(view)
  /\ panel' = to /\ storedPanel' = to
  /\ UNCHANGED <<reg, configVars, view, prefs, pinVars, switches, removals, editVars, control, reading,
                 silent, mixed>>

-----------------------------------------------------------------------------
(* Pins.                                                                     *)

Toggled(list, a) ==
  IF Contains(list, a) THEN SelectSeq(list, LAMBDA b : b # a) ELSE Append(list, a)

\* Faulty variant: the neighbour is overwritten.
MovedOver(list, a, up) ==
  LET i == CHOOSE k \in DOMAIN list : list[k] = a
      j == IF up THEN i - 1 ELSE i + 1
  IN  IF ~Contains(list, a) \/ j \notin DOMAIN list THEN list
      ELSE [list EXCEPT ![j] = a]

\* movePinnedAddon()
Moved(list, a, up) ==
  LET i == CHOOSE k \in DOMAIN list : list[k] = a
      j == IF up THEN i - 1 ELSE i + 1
  IN  IF ~Contains(list, a) \/ j \notin DOMAIN list THEN list
      ELSE [list EXCEPT ![i] = list[j], ![j] = a]

\* The list is in force at once; it is drawn when it is stored, or refused.
Pin(a) ==
  /\ Installed(a) /\ Click
  /\ pins' \in {Toggled(pins, a), Moved(pins, a, TRUE), Moved(pins, a, FALSE)}
  /\ writes' = Append(writes, pins')
  /\ UNCHANGED <<reg, configVars, navVars, storedPins, unsure, switches, removals, editVars, drawnVars, silent>>

PinsStored ==
  /\ writes # <<>> /\ writes' = Tail(writes)
  /\ \/ storedPins' = Head(writes) /\ UNCHANGED <<unsure, countVars>>
     \/ Fault /\ unsure' = TRUE /\ UNCHANGED storedPins
  /\ Drawn(view)
  /\ UNCHANGED <<reg, configVars, navVars, pins, switches, removals, editVars, silent>>

-----------------------------------------------------------------------------
(* The switch, and the trace.                                                *)

\* The action is the one the drawn status calls for.
Switch(a) ==
  /\ prefs.bound /\ CanSwitch(view[a]) /\ Click
  /\ switches' = Append(switches, [addon |-> a, want |-> IF view[a].status = "disabled" THEN "on" ELSE "off"])
  /\ UNCHANGED <<reg, configVars, navVars, pinVars, removals, editVars, drawnVars, silent>>

\* Faulty variant: only the registry's own news are drawn.
SwitchedQuietly(s) ==
  /\ wish' = [wish EXCEPT ![s.addon] = s.want]
  /\ reg' = [reg EXCEPT ![s.addon] = IF @ = "none" THEN @ ELSE s.want]
  /\ IF reg[s.addon] = "none" THEN UNCHANGED <<drawnVars, silent>> ELSE Told

\* It is stored, and reported by the registry or, for an add-on that is not
\* here, by the handler.
Switched(s) ==
  /\ wish' = [wish EXCEPT ![s.addon] = s.want]
  /\ reg' = [reg EXCEPT ![s.addon] = IF @ = "none" THEN @ ELSE s.want]
  /\ Told

SwitchAnswered ==
  /\ switches # <<>> /\ switches' = Tail(switches)
  /\ \/ Allowed(Head(switches).addon) /\ UNCHANGED <<sighted, allow, countVars>> /\ Switched(Head(switches))
     \/ ~Allowed(Head(switches).addon) /\ UNCHANGED <<reg, configVars, drawnVars, silent, countVars>>
     \/ Fault /\ UNCHANGED <<reg, configVars, drawnVars, silent>>
  /\ UNCHANGED <<navVars, pinVars, removals, editVars>>

\* delete-addon-trace: asked of an add-on that is not here, and confirmed.
AskDelete(a) ==
  /\ Installed(a) /\ ~view[a].active /\ removals.asked = "none" /\ Click
  /\ removals' = [removals EXCEPT !.asked = a]
  /\ UNCHANGED <<reg, configVars, navVars, pinVars, switches, editVars, drawnVars, silent>>

\* The removal is not waited for: what is drawn may still have the trace.
Answered ==
  /\ removals.asked # "none"
  /\ \/ removals' = [removals EXCEPT !.asked = "none"] /\ UNCHANGED <<drawnVars, silent>>
     \/ /\ removals' = [asked |-> "none", going |-> removals.going \cup {removals.asked}]
        /\ Shown
  /\ UNCHANGED <<reg, configVars, navVars, pinVars, switches, editVars, countVars>>

TraceGone(a) ==
  /\ a \in removals.going
  /\ removals' = [removals EXCEPT !.going = @ \ {a}]
  /\ sighted' = sighted \ {a} /\ wish' = [wish EXCEPT ![a] = "unset"] /\ silent' = TRUE
  /\ UNCHANGED <<reg, allow, navVars, pinVars, switches, editVars, drawnVars, countVars>>

-----------------------------------------------------------------------------
(* The settings of an add-on.                                                *)

\* renderAddonPanelSettings() has its answer; older drawings have their own.
PanelRead(a) ==
  /\ a \in reading /\ reading' = reading \ {a}
  /\ \/ control' = [control EXCEPT ![a] = stored[a]] /\ UNCHANGED countVars
        /\ mixed' = IF a \in Editing THEN mixed ELSE mixed \ {a}
     \/ UNCHANGED <<control, mixed>> /\ Fault
  /\ UNCHANGED <<reg, configVars, view, navVars, pinVars, panel, switches, removals, editVars, silent>>

\* The user changes a control; the object is read, changed and written.
Change(a, p) ==
  /\ control[a][p] # "none" /\ Click
  /\ LET to == IF control[a][p] = "on" THEN "off" ELSE "on"
     IN  /\ control' = [control EXCEPT ![a][p] = to]
         /\ edits' = edits \cup {[addon |-> a, path |-> p, value |-> to, read |-> NoValues, no |-> clicks]}
         /\ meant' = [meant EXCEPT ![a][p] = to]
  /\ mixed' = IF a \in Editing THEN mixed \cup {a} ELSE mixed
  /\ UNCHANGED <<reg, configVars, view, navVars, pinVars, panel, switches, removals, stored, reading, silent>>

EditReads(e) ==
  /\ e.read = NoValues
  /\ edits' = (edits \ {e}) \cup {[e EXCEPT !.read = stored[e.addon]]}
  /\ UNCHANGED <<reg, configVars, navVars, pinVars, switches, removals, stored, meant, drawnVars, silent, countVars>>

\* The other position of a checkbox.
Opposite(v) == IF v = "on" THEN "off" ELSE "on"

\* Faulty variant: the setting alone is written.
MergedAlone(e) == [Default EXCEPT ![e.path] = e.value]

\* setSettingByPath()
Merged(e) == [e.read EXCEPT ![e.path] = e.value]

EditWrites(e) ==
  /\ e.read # NoValues /\ edits' = edits \ {e}
  /\ stored' = [stored EXCEPT ![e.addon] = Merged(e)]
  /\ UNCHANGED <<reg, configVars, navVars, pinVars, switches, removals, meant, drawnVars, silent, countVars>>

\* Faulty variant: the control is left as the user set it.
RevertedNever(e) == control

\* A control of a panel that is drawn anew meanwhile is another one.
Reverted(e) ==
  IF e.addon \in mixed THEN control ELSE [control EXCEPT ![e.addon][e.path] = Opposite(e.value)]

\* The read or the write is refused: the control goes back.
EditFails(e) ==
  /\ Fault /\ edits' = edits \ {e}
  /\ control' = Reverted(e)
  /\ meant' = [meant EXCEPT ![e.addon][e.path] = Opposite(e.value)]
  /\ UNCHANGED <<reg, configVars, view, navVars, pinVars, panel, switches, removals, stored, reading, silent, mixed>>

Next ==
  \/ Policy \/ OpenModal \/ Loaded \/ PinsStored \/ SwitchAnswered \/ Answered
  \/ \E a \in Addons :
       \/ Registers(a) \/ Sighted(a) \/ OpenPanel(a) \/ Pin(a) \/ Switch(a) \/ AskDelete(a) \/ TraceGone(a)
       \/ PanelRead(a) \/ \E p \in Paths : Change(a, p)
  \/ OpenPanel("general")
  \/ \E e \in edits : EditReads(e) \/ EditWrites(e) \/ EditFails(e)

Spec == Init /\ [][Next]_vars

-----------------------------------------------------------------------------
(* Properties.                                                               *)

\* Every variable has its type.
TypeOK ==
  /\ reg \in [Addons -> {"none", "on", "off"}] /\ sighted \subseteq Addons
  /\ wish \in [Addons -> {"unset", "on", "off"}] /\ allow \in BOOLEAN
  /\ Range(pins) \subseteq Addons /\ panel \in Addons \cup {"general"} /\ reading \subseteq Addons
  /\ stored \in [Addons -> Values] /\ control \in [Addons -> Values] /\ mixed \subseteq Addons

\* What is drawn is what the core knows, until the configuration changes
\* without a word, and the panel that is open is one of those drawn.
DrawnIsKnown ==
  prefs.bound =>
    /\ ~silent => view = ViewOf(reg, sighted, wish, allow)
    /\ panel \in Panels(view)

\* The pins that survive the page are the ones in force, and none is twice.
PinsAreKept ==
  /\ IsInjective(pins)
  /\ prefs.loaded /\ writes = <<>> /\ ~unsure => storedPins = pins

\* Settings changed one at a time are stored as the controls show them, the
\* refused ones included, whatever else the panel's object holds.
SettingsAreKept ==
  \A a \in Addons \ (mixed \cup Editing) :
    /\ stored[a] = meant[a]
    /\ control[a] \in {NoValues, stored[a]}
=============================================================================
