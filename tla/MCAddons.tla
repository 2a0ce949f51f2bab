------------------------------- MODULE MCAddons -------------------------------
(* Small instances of the add-on platform for TLC: one run for its parts,    *)
(* which share no state.  A behaviour exercises one of them: the host of the *)
(* add-ons, the requests of an add-on, its database, its identity in the     *)
(* configuration, what it has in the page, the catalog of trusted add-ons,   *)
(* their panel, what the core shares with them, the page's observer and the  *)
(* health log; the filters one add-on has saved; and Thread Utility.         *)
EXTENDS AddonHost

LegacyBuckets ==
  {[has |-> TRUE, enabled |-> "on", value |-> "unset"],
   [has |-> TRUE, enabled |-> "unset", value |-> "x"]}

\* The storage of older releases has a value for one of the keys.
OldStorage == [x \in {"k", "l"} |-> IF x = "k" THEN 1 ELSE 0]

\* What the opening post offers before and after it is edited.
PostContents == <<<<"x", "y">>, <<"y">>>>

VARIABLES
  which, \* the part that runs
  qs_stored, qs_settings, qs_dialog, qs_draft, qs_on, qs_loads, qs_last, qs_edits,
  qs_saves, req_live, req_staged, req_commits, req_request, req_inflight, req_recent,
  req_bridge, req_spent, db_version, db_conns, db_queue, db_cache, db_ops, db_stored,
  db_faults, db_closings, id_known, id_root, id_staged, id_pending, id_clock, id_ops,
  id_chosen, id_sighted, id_blind, fp_own, fp_stored, fp_shown, fp_queue, fp_writing,
  fp_asking, fp_loading, fp_calls, fp_pages, fp_faults, fp_wish, fp_crossed,
  ob_callbacks, ob_resources, ob_observing, ob_records, ob_tick, ob_profiled,
  ob_profile, ob_serial, ob_changes, ob_faults, ob_switches, ob_owed, ob_seen,
  he_status, he_errors, he_runtime, he_log, he_storage, he_box, he_left, he_boxes,
  he_reports, ca_remote, ca_clock, ca_copy, ca_page, ca_pages, ca_faults, ca_writes,
  ca_best, ca_asked, ca_overtaken, pn_reg, pn_sighted, pn_wish, pn_allow, pn_view,
  pn_prefs, pn_pins, pn_storedPins, pn_writes, pn_panel, pn_storedPanel, pn_switches,
  pn_removals, pn_stored, pn_control, pn_reading, pn_edits, pn_events, pn_clicks,
  pn_faults, pn_silent, pn_unsure, pn_meant, pn_mixed, tu_rt, tu_thread, tu_allowed,
  tu_stored, tu_settings, tu_ui, tu_core, tu_snapshot, tu_sources, tu_list, tu_shown,
  tu_post, tu_editor, tu_saves, tu_clicked, tu_crossed, tu_unread, tu_events, tu_made,
  tu_faults, ui_dock, ui_buttons, ui_group, ui_mounted, ui_pending, ui_dockTries,
  ui_tries, ui_styled, ui_known, ui_overlays, ui_watched, ui_waiting, ui_bare, ui_asks

Searches == INSTANCE QuickSearches WITH
  Initials <- 2, Limit <- 3, MaxEdits <- 2, MaxSaves <- 2, stored <- qs_stored,
  settings <- qs_settings, dialog <- qs_dialog, draft <- qs_draft, on <- qs_on,
  loads <- qs_loads, last <- qs_last, edits <- qs_edits, saves <- qs_saves

Requests == INSTANCE AddonRequests WITH
  Requests <- {"r", "s"}, Keys <- {"k", "l"}, MaxValue <- 2, Legacy <- OldStorage,
  Quota <- 2, Rate <- 1, Concurrent <- 1, MaxForeign <- 1, MaxRestarts <- 1,
  live <- req_live, staged <- req_staged, commits <- req_commits,
  request <- req_request, inflight <- req_inflight, recent <- req_recent,
  bridge <- req_bridge, spent <- req_spent

Database == INSTANCE AddonDatabase WITH
  Tabs <- {"s", "t"}, MaxVersion <- 2, MaxConns <- 3, MaxOps <- 3, MaxFaults <- 1,
  MaxClosings <- 1, version <- db_version, conns <- db_conns, queue <- db_queue,
  cache <- db_cache, ops <- db_ops, stored <- db_stored, faults <- db_faults,
  closings <- db_closings

Identity == INSTANCE AddonIdentity WITH
  MaxClock <- 2, MaxOps <- 3, Legacy <- LegacyBuckets, known <- id_known,
  root <- id_root, staged <- id_staged, pending <- id_pending, clock <- id_clock,
  ops <- id_ops, chosen <- id_chosen, sighted <- id_sighted, blind <- id_blind

Presets == INSTANCE FilterPresets WITH
  Names <- {"n", "m"}, Urls <- {"u", "v"}, MaxCalls <- 2, MaxPages <- 1, MaxFaults <- 1,
  own <- fp_own, stored <- fp_stored, shown <- fp_shown, queue <- fp_queue,
  writing <- fp_writing, asking <- fp_asking, loading <- fp_loading, calls <- fp_calls,
  pages <- fp_pages, faults <- fp_faults, wish <- fp_wish, crossed <- fp_crossed

Observer == INSTANCE SharedObserver WITH
  Ids <- {"i", "j"}, MaxSerial <- 3, MaxChanges <- 2, MaxFaults <- 1, MaxProfiles <- 1,
  callbacks <- ob_callbacks, resources <- ob_resources, observing <- ob_observing,
  records <- ob_records, tick <- ob_tick, profiled <- ob_profiled,
  profile <- ob_profile, serial <- ob_serial, changes <- ob_changes,
  faults <- ob_faults, switches <- ob_switches, owed <- ob_owed, seen <- ob_seen

Health == INSTANCE HealthLog WITH
  Features <- {"f", "g"}, Phases <- {"p"}, LogSize <- 2, ErrorSize <- 1,
  RuntimeSize <- 1, MaxReports <- 3, MaxBoxes <- 2, status <- he_status,
  errors <- he_errors, runtime <- he_runtime, log <- he_log, storage <- he_storage,
  box <- he_box, left <- he_left, boxes <- he_boxes, reports <- he_reports

Catalog == INSTANCE AddonCatalog WITH
  Tabs <- {"s", "t"}, MaxVersion <- 2, MaxClock <- 1, MaxPages <- 3, MaxFaults <- 2,
  remote <- ca_remote, clock <- ca_clock, copy <- ca_copy, page <- ca_page,
  pages <- ca_pages, faults <- ca_faults, writes <- ca_writes, best <- ca_best,
  asked <- ca_asked, overtaken <- ca_overtaken

Panel == INSTANCE AddonPanel WITH
  Addons <- {"a", "b"}, Official <- {"a"}, Here <- {"a"}, Paths <- {"p", "q"},
  MaxEvents <- 1, MaxClicks <- 3, MaxFaults <- 1, reg <- pn_reg, sighted <- pn_sighted,
  wish <- pn_wish, allow <- pn_allow, view <- pn_view, prefs <- pn_prefs,
  pins <- pn_pins, storedPins <- pn_storedPins, writes <- pn_writes, panel <- pn_panel,
  storedPanel <- pn_storedPanel, switches <- pn_switches, removals <- pn_removals,
  stored <- pn_stored, control <- pn_control, reading <- pn_reading, edits <- pn_edits,
  events <- pn_events, clicks <- pn_clicks, faults <- pn_faults, silent <- pn_silent,
  unsure <- pn_unsure, meant <- pn_meant, mixed <- pn_mixed

Thread == INSTANCE ThreadUtility WITH
  Posts <- PostContents, MaxEvents <- 4, MaxSaves <- 2, MaxFaults <- 1, rt <- tu_rt,
  thread <- tu_thread, allowed <- tu_allowed, stored <- tu_stored,
  settings <- tu_settings, ui <- tu_ui, core <- tu_core, snapshot <- tu_snapshot,
  sources <- tu_sources, list <- tu_list, shown <- tu_shown, post <- tu_post,
  editor <- tu_editor, saves <- tu_saves, clicked <- tu_clicked, crossed <- tu_crossed,
  unread <- tu_unread, events <- tu_events, made <- tu_made, faults <- tu_faults

Ui == INSTANCE AddonUi WITH
  Addons <- {"a", "b"}, Dialogs <- {"d"}, Attempts <- 2, MaxWatches <- 1,
  Watches <- {"w"}, MaxAsks <- 2, dock <- ui_dock, buttons <- ui_buttons,
  group <- ui_group, mounted <- ui_mounted, pending <- ui_pending,
  dockTries <- ui_dockTries, tries <- ui_tries, styled <- ui_styled, known <- ui_known,
  overlays <- ui_overlays, watched <- ui_watched, waiting <- ui_waiting,
  bare <- ui_bare, asks <- ui_asks

qsVars == <<qs_stored, qs_settings, qs_dialog, qs_draft, qs_on, qs_loads, qs_last, qs_edits,
   qs_saves>>
reqVars == <<req_live, req_staged, req_commits, req_request, req_inflight, req_recent, req_bridge,
   req_spent>>
dbVars == <<db_version, db_conns, db_queue, db_cache, db_ops, db_stored, db_faults, db_closings>>
idVars == <<id_known, id_root, id_staged, id_pending, id_clock, id_ops, id_chosen, id_sighted,
   id_blind>>
fpVars == <<fp_own, fp_stored, fp_shown, fp_queue, fp_writing, fp_asking, fp_loading, fp_calls,
   fp_pages, fp_faults, fp_wish, fp_crossed>>
obVars == <<ob_callbacks, ob_resources, ob_observing, ob_records, ob_tick, ob_profiled,
   ob_profile, ob_serial, ob_changes, ob_faults, ob_switches, ob_owed, ob_seen>>
heVars == <<he_status, he_errors, he_runtime, he_log, he_storage, he_box, he_left, he_boxes,
   he_reports>>
caVars == <<ca_remote, ca_clock, ca_copy, ca_page, ca_pages, ca_faults, ca_writes, ca_best,
   ca_asked, ca_overtaken>>
pnVars == <<pn_reg, pn_sighted, pn_wish, pn_allow, pn_view, pn_prefs, pn_pins, pn_storedPins,
   pn_writes, pn_panel, pn_storedPanel, pn_switches, pn_removals, pn_stored, pn_control,
   pn_reading, pn_edits, pn_events, pn_clicks, pn_faults, pn_silent, pn_unsure,
   pn_meant, pn_mixed>>
tuVars == <<tu_rt, tu_thread, tu_allowed, tu_stored, tu_settings, tu_ui, tu_core, tu_snapshot,
   tu_sources, tu_list, tu_shown, tu_post, tu_editor, tu_saves, tu_clicked, tu_crossed,
   tu_unread, tu_events, tu_made, tu_faults>>
uiVars == <<ui_dock, ui_buttons, ui_group, ui_mounted, ui_pending, ui_dockTries, ui_tries,
   ui_styled, ui_known, ui_overlays, ui_watched, ui_waiting, ui_bare, ui_asks>>

Parts == {"host", "searches", "requests", "database", "identity", "presets", "observer", "health", "catalog", "panel", "thread", "ui"}
\* A part that does not run stays in one of its initial states.
InitParts ==
  /\ which \in Parts
  /\ Init /\ (which # "host" => desired = [a \in Addons |-> "unset"] /\ allowed = [a \in Addons |-> TRUE])
  /\ Searches!Init
  /\ Requests!Init
  /\ Database!Init
  /\ Identity!Init /\ (which # "identity" => id_known /\ ~id_root.states["old"].has)
  /\ Presets!Init /\ (which # "presets" => fp_own)
  /\ Observer!Init
  /\ Health!Init /\ (which # "health" => ~he_storage)
  /\ Catalog!Init
  /\ Panel!Init /\ (which # "panel" => pn_sighted = {} /\ pn_storedPins = <<>> /\ pn_storedPanel = "general" /\ pn_allow)
  /\ Thread!Init /\ (which # "thread" => tu_thread /\ tu_allowed /\ tu_stored.launcher)
  /\ Ui!Init

NextParts ==
  \/ /\ which = "host" /\ UNCHANGED which /\ Next
     /\ UNCHANGED <<qsVars, reqVars, dbVars, idVars, fpVars, obVars, heVars, caVars, pnVars, tuVars, uiVars>>
  \/ /\ which = "searches" /\ UNCHANGED which /\ Searches!Next
     /\ UNCHANGED <<vars, reqVars, dbVars, idVars, fpVars, obVars, heVars, caVars, pnVars, tuVars, uiVars>>
  \/ /\ which = "requests" /\ UNCHANGED which /\ Requests!Next
     /\ UNCHANGED <<vars, qsVars, dbVars, idVars, fpVars, obVars, heVars, caVars, pnVars, tuVars, uiVars>>
  \/ /\ which = "database" /\ UNCHANGED which /\ Database!Next
     /\ UNCHANGED <<vars, qsVars, reqVars, idVars, fpVars, obVars, heVars, caVars, pnVars, tuVars, uiVars>>
  \/ /\ which = "identity" /\ UNCHANGED which /\ Identity!Next
     /\ UNCHANGED <<vars, qsVars, reqVars, dbVars, fpVars, obVars, heVars, caVars, pnVars, tuVars, uiVars>>
  \/ /\ which = "presets" /\ UNCHANGED which /\ Presets!Next
     /\ UNCHANGED <<vars, qsVars, reqVars, dbVars, idVars, obVars, heVars, caVars, pnVars, tuVars, uiVars>>
  \/ /\ which = "observer" /\ UNCHANGED which /\ Observer!Next
     /\ UNCHANGED <<vars, qsVars, reqVars, dbVars, idVars, fpVars, heVars, caVars, pnVars, tuVars, uiVars>>
  \/ /\ which = "health" /\ UNCHANGED which /\ Health!Next
     /\ UNCHANGED <<vars, qsVars, reqVars, dbVars, idVars, fpVars, obVars, caVars, pnVars, tuVars, uiVars>>
  \/ /\ which = "catalog" /\ UNCHANGED which /\ Catalog!Next
     /\ UNCHANGED <<vars, qsVars, reqVars, dbVars, idVars, fpVars, obVars, heVars, pnVars, tuVars, uiVars>>
  \/ /\ which = "panel" /\ UNCHANGED which /\ Panel!Next
     /\ UNCHANGED <<vars, qsVars, reqVars, dbVars, idVars, fpVars, obVars, heVars, caVars, tuVars, uiVars>>
  \/ /\ which = "thread" /\ UNCHANGED which /\ Thread!Next
     /\ UNCHANGED <<vars, qsVars, reqVars, dbVars, idVars, fpVars, obVars, heVars, caVars, pnVars, uiVars>>
  \/ /\ which = "ui" /\ UNCHANGED which /\ Ui!Next
     /\ UNCHANGED <<vars, qsVars, reqVars, dbVars, idVars, fpVars, obVars, heVars, caVars, pnVars, tuVars>>

SpecParts == InitParts /\ [][NextParts]_<<which, vars, qsVars, reqVars, dbVars, idVars, fpVars, obVars, heVars, caVars, pnVars, tuVars, uiVars>> /\ Fairness

-----------------------------------------------------------------------------
(* Properties: a part is looked at while it runs.                            *)

(* The type invariants of the parts. *)
PartsTypeOK ==
  /\ which = "host" => TypeOK
  /\ which = "requests" => Requests!ConstantsOK /\ Requests!TypeOK
  /\ which = "database" => Database!TypeOK
  /\ which = "identity" => Identity!TypeOK
  /\ which = "ui" => Ui!TypeOK
  /\ which = "presets" => Presets!TypeOK
  /\ which = "observer" => Observer!TypeOK
  /\ which = "health" => Health!TypeOK
  /\ which = "catalog" => Catalog!TypeOK
  /\ which = "panel" => Panel!TypeOK
  /\ which = "thread" => Thread!TypeOK
  /\ which = "searches" => Searches!TypeOK

(* What the core has cleared of an add-on's interface does not come back,
   whatever was waiting for the dock.  The shared observer runs for those who
   are registered with it.  Thread Utility has its style, button and palette in
   the page while it is on, and nothing when it is off. *)
PageMatchesAddons ==
  /\ which = "ui" => Ui!GoneStaysGone
  /\ which = "observer" => Observer!ObserverServes
  /\ which = "thread" => Thread!GoneWhenOff /\ Thread!ThereWhenOn /\ Thread!OpenIsOpen

(* A write that was refused stays refused, the slot of a request is given back
   once, and an operation of the database is answered with success exactly
   when it took effect, over a connection that can still be used.  The filters
   a user has been told are saved are the ones that are stored.  No callback
   of the shared observer misses a change, and the health log and its box have
   what was reported last.  No failed check costs the catalog of trusted
   add-ons, and only the genuine one is in force; the panels show what the
   core knows of the add-ons, and keep the pins and the settings.  Renaming an
   add-on and late candidates leave the user's choice and the first sighting
   as they are. *)
NothingIsLost ==
  /\ which = "requests" => Requests!AnswersAreFinal
  /\ which = "database" => Database!AnswerIsTruth /\ Database!CachedIsUsable /\ Database!UpgradeWaitsForWork
  /\ which = "identity" => Identity!ChoiceHolds /\ Identity!FirstSightingHolds
  /\ which = "presets" => Presets!NoNameTwice /\ Presets!NothingIsLost
  /\ which = "observer" => Observer!NothingMissed
  /\ which = "health" => Health!NewestKept /\ Health!BoxIsCurrent
  /\ which = "catalog" => Catalog!GenuineOnly /\ Catalog!CopyIsKept
  /\ which = "panel" => Panel!DrawnIsKnown /\ Panel!PinsAreKept /\ Panel!SettingsAreKept
  /\ which = "thread" => Thread!SavedIsUsed /\ Thread!ClickedIsShown
  /\ which = "searches" => Searches!RowsAreKept

(* A commit changes the key it was asked for, however old its candidate. *)
OnlyOwnKeysChange ==
  Requests!OnlyOwnKeysChange

(* Every command of the core comes to rest: the add-on has carried it out, or
   the watchdog has ended it. *)
CommandsRest ==
  CommandsComeToRest
=============================================================================
