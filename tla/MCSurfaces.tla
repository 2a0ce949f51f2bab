------------------------------ MODULE MCSurfaces ------------------------------
(* Small instances for TLC of the parts that share no state with each other: *)
(* the site's latest page and what the core and the add-ons show on it, the  *)
(* library's records, listings and requests, the tags of the settings and    *)
(* their files, the repairs of the site, and the direct download.  One run    *)
(* serves them all; a behaviour exercises one.                                *)
EXTENDS RequestBudget, TLC

\* The names of the tabs serve as those of tiles, files and owners in other
\* parts; they differ in nothing else.
Names == Tabs
TabSymmetry == Permutations(Tabs)

HourOf == [t \in 0..MaxClock |-> t \div 2]
Site(host, kind, origin, path, once) ==
  [host |-> host, kind |-> kind, origin |-> origin, path |-> path, shared |-> once,
   repeats |-> host = "datanodes"]
Sites ==
  {Site("drive", "entry", "drive.google", "/file/d", FALSE),
   Site("drive", "confirm", "usercontent", "/download", TRUE),
   Site("drive", "blind", "usercontent", "/download", TRUE),
   Site("workupload", "entry", "workupload", "/file", FALSE),
   Site("workupload", "next", "workupload", "/start", FALSE),
   Site("datanodes", "file", "datanodes", "/download", TRUE)}
One(key, value) == [k \in {key} |-> value]
Document(format, schema, min, settings) ==
  [format |-> format, schema |-> schema, extra |-> FALSE, min |-> min, settings |-> settings]
Documents ==
  {Document(1, 2, "none",
            [flags |-> One("y", "t"), latest |-> [markers |-> One("q", "f")], picks |-> <<"1", "b">>]),
   Document(0, 0, "t", [flags |-> One("old", "t"), tags |-> <<"1">>])}
Storages ==
  {[flags |-> [k \in {"y", "old"} |-> "bad"], latest |-> [x |-> "bad", markers |-> [k \in {"p", "Q"} |-> "bad"]],
    tags |-> <<"a", "zero", "a">>, picks |-> <<"b", "b", "zero">>],
   [flags |-> One("y", "f"), latest |-> [markers |-> One("r", "t")], tags |-> <<"none">>, picks |-> <<"a">>]}

VARIABLES
  which, \* the part that runs
  mk_status, mk_untold, mk_addon, mk_announced, mk_listed, mk_allowed, mk_wanted, mk_queries,
  mk_overlay, mk_queued, mk_round, mk_shown, mk_chips, mk_turns, ov_route, ov_capturing,
  ov_requests, ov_seen, ov_made, ov_queue, ov_drains, ov_draining, ov_snapshot, ov_watch,
  ov_attempted, ov_recovering, ov_active, ov_index, ov_shown, ov_fresh, ov_pending, ov_flush,
  ov_batches, ov_painted, ov_setting, ov_cached, ov_due, ov_mixed, ov_turns, lr_record,
  lr_cache, lr_events, lr_ops, lr_faults, lr_edited, lr_seen, lr_logged, lr_undone, lr_unsure,
  dd_page, dd_phase, dd_consuming, dd_closes, dd_session, dd_name, dd_guard, dd_challenge,
  dd_settings, dd_closed, dd_pressed, dd_failed, dd_owed, dd_visits, dd_turns, as_core,
  as_mirror, as_enabled, as_terminal, as_lastReadSucceeded, as_ops, as_made, as_faults,
  as_chosen, as_served, lc_key, lc_plain, lc_owed, lc_coverage, lc_counted, lc_cache, lc_load,
  lc_view, lc_request, lc_dirty, lc_hint, lc_shown, lc_listing, lc_touched, lc_missed,
  lc_writes, lc_turns, in_key, in_changed, in_op, in_late, in_result, in_standing, in_writes,
  in_turns, tg_site, tg_stored, tg_live, tg_queue, tg_shown, tg_results, tg_drag, tg_refresh,
  tg_turns, tg_catalogs, tg_pruned, pa_rt, pa_wanted, pa_button, pa_latest, pa_anchor,
  pa_tasks, pa_removals, pa_timer, pa_tries, pa_root, pa_open, pa_styled, pa_core, pa_opening,
  pa_reset, pa_routes, pa_crossed, pa_events, pa_faults, sr_rt, sr_boot, sr_route, sr_allowed,
  sr_stored, sr_settings, sr_core, sr_started, sr_ajax, sr_repairing, sr_limit, sr_image,
  sr_nodes, sr_record, sr_indicator, sr_asked, sr_given, sr_silent, sr_late, sr_events,
  sr_faults, sr_loads, aj_bridge, aj_enabled, aj_generation, aj_patched, aj_made, aj_poll,
  aj_timers, aj_pending, aj_jquery, aj_ajax, aj_requests, aj_adapter, aj_buried, aj_turns,
  ct_stored, ct_revision, ct_known, ct_live, ct_picker, ct_reloading, ct_jobs, ct_edits,
  ma_open, ma_table, ma_record, ma_cache, ma_draft, ma_kept, ma_revision, ma_timer,
  ma_commits, ma_chain, ma_text, ma_pause, ma_saves, ma_filter, ma_loads, ma_shown,
  ma_reloads, ma_faults, ma_stored, ma_last, ma_escaped, ma_put, ma_typed, ma_dropped,
  ma_crossed, im_file, im_policy, im_library, im_histories, im_phase, im_plan, im_at, im_one,
  im_section, im_cut, im_tries, im_progress, im_afterClose, im_result, im_runs, im_faults,
  im_turns, im_written, im_unsure, im_touched, im_logged

Markers == INSTANCE LatestMarkers WITH
  Providers <- {"p"}, Tiles <- Names, MaxPending <- 1, MaxStatus <- 1,
  MaxTurns <- 2, status <- mk_status, untold <- mk_untold, addon <- mk_addon,
  announced <- mk_announced, listed <- mk_listed, allowed <- mk_allowed,
  wanted <- mk_wanted, queries <- mk_queries, overlay <- mk_overlay,
  queued <- mk_queued, round <- mk_round, shown <- mk_shown, chips <- mk_chips,
  turns <- mk_turns

Overlay == INSTANCE LatestOverlay WITH
  Tiles <- Names, Urls <- {"x"}, MaxQueue <- 1, MaxRoutes <- 1, MaxRequests <- 1,
  MaxTurns <- 2, route <- ov_route, capturing <- ov_capturing, requests <- ov_requests,
  seen <- ov_seen, made <- ov_made, queue <- ov_queue, drains <- ov_drains,
  draining <- ov_draining, snapshot <- ov_snapshot, watch <- ov_watch,
  attempted <- ov_attempted, recovering <- ov_recovering, active <- ov_active,
  index <- ov_index, shown <- ov_shown, fresh <- ov_fresh, pending <- ov_pending,
  flush <- ov_flush, batches <- ov_batches, painted <- ov_painted,
  setting <- ov_setting, cached <- ov_cached, due <- ov_due, mixed <- ov_mixed,
  turns <- ov_turns

Records == INSTANCE LibraryRecords WITH
  Tabs <- Tabs, HistoryLimit <- 1, MaxOps <- 2, MaxVersion <- 1, MaxFaults <- 1,
  record <- lr_record, cache <- lr_cache, events <- lr_events, ops <- lr_ops,
  faults <- lr_faults, edited <- lr_edited, seen <- lr_seen, logged <- lr_logged,
  undone <- lr_undone, unsure <- lr_unsure

Download == INSTANCE DirectDownload WITH
  Files <- Names, Sites <- Sites, Ttl <- 2, MaxVisits <- 3, MaxTurns <- 2,
  page <- dd_page, phase <- dd_phase, consuming <- dd_consuming, closes <- dd_closes, session <- dd_session, name <- dd_name, guard <- dd_guard,
  challenge <- dd_challenge, settings <- dd_settings, closed <- dd_closed,
  pressed <- dd_pressed, failed <- dd_failed, owed <- dd_owed, visits <- dd_visits,
  turns <- dd_turns

Switches == INSTANCE AutomationSettings WITH
  MaxOps <- 2, MaxFaults <- 2, core <- as_core, mirror <- as_mirror,
  enabled <- as_enabled, terminal <- as_terminal,
  lastReadSucceeded <- as_lastReadSucceeded, ops <- as_ops, made <- as_made,
  faults <- as_faults, chosen <- as_chosen, served <- as_served

Collection == INSTANCE LatestCollection WITH
  Ids <- {1, 2}, MaxKey <- 2, PageRows <- 1, Batch <- 2, Retries <- 2, MaxWrites <- 2,
  MaxTurns <- 3, key <- lc_key, plain <- lc_plain, owed <- lc_owed,
  coverage <- lc_coverage, counted <- lc_counted, cache <- lc_cache, load <- lc_load,
  view <- lc_view, request <- lc_request, dirty <- lc_dirty, hint <- lc_hint,
  shown <- lc_shown, listing <- lc_listing, touched <- lc_touched, missed <- lc_missed,
  writes <- lc_writes, turns <- lc_turns

Inbox == INSTANCE LibraryInbox WITH
  Ids <- {1, 2, 3}, MaxKey <- 2, PageRows <- 1, Batch <- 1, ScanLimit <- 2,
  AckLimit <- 2, MaxWrites <- 1, MaxTurns <- 2, key <- in_key, changed <- in_changed,
  op <- in_op, late <- in_late, result <- in_result, standing <- in_standing,
  writes <- in_writes, turns <- in_turns

Tagging == INSTANCE TagLists WITH
  Tabs <- Tabs, Tags <- {"x", "y"}, Lists <- {"preferred", "excluded"}, MaxTurns <- 3,
  site <- tg_site, stored <- tg_stored, live <- tg_live, queue <- tg_queue,
  shown <- tg_shown, results <- tg_results, drag <- tg_drag, refresh <- tg_refresh,
  turns <- tg_turns, catalogs <- tg_catalogs, pruned <- tg_pruned

Panel == INSTANCE FilterPanel WITH
  Attempts <- 2, Reconciles <- 1, MaxTasks <- 2, MaxEvents <- 3, MaxFaults <- 1,
  rt <- pa_rt, wanted <- pa_wanted, button <- pa_button, latest <- pa_latest,
  anchor <- pa_anchor, tasks <- pa_tasks, removals <- pa_removals, timer <- pa_timer,
  tries <- pa_tries, root <- pa_root, open <- pa_open, styled <- pa_styled,
  core <- pa_core, opening <- pa_opening, reset <- pa_reset, routes <- pa_routes,
  crossed <- pa_crossed, events <- pa_events, faults <- pa_faults

Repair == INSTANCE SiteRepair WITH
  Images <- {"i"}, Limits <- {1, 2}, MaxEvents <- 2, MaxFaults <- 1, MaxLoads <- 2,
  rt <- sr_rt, boot <- sr_boot, route <- sr_route, allowed <- sr_allowed,
  stored <- sr_stored, settings <- sr_settings, core <- sr_core, started <- sr_started,
  ajax <- sr_ajax, repairing <- sr_repairing, limit <- sr_limit, image <- sr_image,
  nodes <- sr_nodes, record <- sr_record, indicator <- sr_indicator, asked <- sr_asked,
  given <- sr_given, silent <- sr_silent, late <- sr_late, events <- sr_events,
  faults <- sr_faults, loads <- sr_loads

Listings == INSTANCE AjaxRepair WITH
  Owners <- Names, PollLimit <- 2, MaxRequests <- 3, MaxTurns <- 4,
  bridge <- aj_bridge, enabled <- aj_enabled, generation <- aj_generation,
  patched <- aj_patched, made <- aj_made, poll <- aj_poll, timers <- aj_timers,
  pending <- aj_pending, jquery <- aj_jquery, ajax <- aj_ajax, requests <- aj_requests,
  adapter <- aj_adapter, buried <- aj_buried, turns <- aj_turns

Transfer == INSTANCE ConfigTransfer WITH
  Tabs <- Tabs, Ids <- {"a", "b"}, Texts <- One("1", "a"), Documents <- Documents, Storages <- Storages,
  MarkerLimit <- 2, MaxImports <- 2, MaxEdits <- 1, stored <- ct_stored,
  revision <- ct_revision, known <- ct_known, live <- ct_live, picker <- ct_picker,
  reloading <- ct_reloading, jobs <- ct_jobs, edits <- ct_edits

Manager == INSTANCE LibraryManager WITH
  MaxEdits <- 2, MaxCommits <- 2, MaxNotes <- 1, MaxReloads <- 2, MaxTurns <- 5,
  MaxFaults <- 1, open <- ma_open, table <- ma_table, record <- ma_record, cache <- ma_cache,
  draft <- ma_draft, kept <- ma_kept, revision <- ma_revision, timer <- ma_timer,
  commits <- ma_commits, chain <- ma_chain, text <- ma_text, pause <- ma_pause,
  saves <- ma_saves, filter <- ma_filter, loads <- ma_loads, shown <- ma_shown,
  reloads <- ma_reloads, faults <- ma_faults, stored <- ma_stored, last <- ma_last,
  escaped <- ma_escaped, put <- ma_put, typed <- ma_typed, dropped <- ma_dropped,
  crossed <- ma_crossed

Event(section, id, time) == [section |-> section, id |-> id, time |-> time]
Import == INSTANCE LibraryImport WITH
  Ids <- {1, 2}, Events <- {Event("updates", 1, 1), Event("updates", 1, 2), Event("activity", 2, 1)},
  HistoryLimit <- 1, BatchSize <- 2, Retries <- 1, MaxTime <- 2, MaxRuns <- 1,
  MaxFaults <- 2, MaxTurns <- 1, file <- im_file, policy <- im_policy,
  library <- im_library, histories <- im_histories, phase <- im_phase, plan <- im_plan,
  at <- im_at, one <- im_one, section <- im_section, cut <- im_cut, tries <- im_tries,
  progress <- im_progress, afterClose <- im_afterClose, result <- im_result,
  runs <- im_runs, faults <- im_faults, turns <- im_turns, written <- im_written,
  unsure <- im_unsure, touched <- im_touched, logged <- im_logged

mkVars == <<mk_status, mk_untold, mk_addon, mk_announced, mk_listed, mk_allowed, mk_wanted,
   mk_queries, mk_overlay, mk_queued, mk_round, mk_shown, mk_chips, mk_turns>>
ovVars == <<ov_route, ov_capturing, ov_requests, ov_seen, ov_made, ov_queue, ov_drains,
   ov_draining, ov_snapshot, ov_watch, ov_attempted, ov_recovering, ov_active, ov_index,
   ov_shown, ov_fresh, ov_pending, ov_flush, ov_batches, ov_painted, ov_setting,
   ov_cached, ov_due, ov_mixed, ov_turns>>
lrVars == <<lr_record, lr_cache, lr_events, lr_ops, lr_faults, lr_edited, lr_seen, lr_logged,
   lr_undone, lr_unsure>>
ddVars == <<dd_page, dd_phase, dd_consuming, dd_closes, dd_session, dd_name, dd_guard,
   dd_challenge, dd_settings, dd_closed, dd_pressed, dd_failed, dd_owed, dd_visits,
   dd_turns>>
asVars == <<as_core, as_mirror, as_enabled, as_terminal, as_lastReadSucceeded, as_ops, as_made,
   as_faults, as_chosen, as_served>>
lcVars == <<lc_key, lc_plain, lc_owed, lc_coverage, lc_counted, lc_cache, lc_load, lc_view,
   lc_request, lc_dirty, lc_hint, lc_shown, lc_listing, lc_touched, lc_missed,
   lc_writes, lc_turns>>
inVars == <<in_key, in_changed, in_op, in_late, in_result, in_standing, in_writes, in_turns>>
tgVars == <<tg_site, tg_stored, tg_live, tg_queue, tg_shown, tg_results, tg_drag, tg_refresh,
   tg_turns, tg_catalogs, tg_pruned>>
paVars == <<pa_rt, pa_wanted, pa_button, pa_latest, pa_anchor, pa_tasks, pa_removals, pa_timer,
   pa_tries, pa_root, pa_open, pa_styled, pa_core, pa_opening, pa_reset, pa_routes,
   pa_crossed, pa_events, pa_faults>>
srVars == <<sr_rt, sr_boot, sr_route, sr_allowed, sr_stored, sr_settings, sr_core, sr_started,
   sr_ajax, sr_repairing, sr_limit, sr_image, sr_nodes, sr_record, sr_indicator,
   sr_asked, sr_given, sr_silent, sr_late, sr_events, sr_faults, sr_loads>>
ajVars == <<aj_bridge, aj_enabled, aj_generation, aj_patched, aj_made, aj_poll, aj_timers,
   aj_pending, aj_jquery, aj_ajax, aj_requests, aj_adapter, aj_buried, aj_turns>>
ctVars == <<ct_stored, ct_revision, ct_known, ct_live, ct_picker, ct_reloading, ct_jobs, ct_edits>>
maVars == <<ma_open, ma_table, ma_record, ma_cache, ma_draft, ma_kept, ma_revision, ma_timer,
   ma_commits, ma_chain, ma_text, ma_pause, ma_saves, ma_filter, ma_loads, ma_shown,
   ma_reloads, ma_faults, ma_stored, ma_last, ma_escaped, ma_put, ma_typed, ma_dropped,
   ma_crossed>>
imVars == <<im_file, im_policy, im_library, im_histories, im_phase, im_plan, im_at, im_one,
   im_section, im_cut, im_tries, im_progress, im_afterClose, im_result, im_runs,
   im_faults, im_turns, im_written, im_unsure, im_touched, im_logged>>

Parts == {"budget", "markers", "overlay", "records", "download", "switches", "collection", "inbox", "tags", "panel", "repair", "listings", "transfer", "manager", "import"}
\* A part that does not run stays in one of its initial states.
InitParts ==
  /\ which \in Parts
  /\ Init /\ (which # "budget" => clock = 0)
  /\ Markers!Init
  /\ Overlay!Init /\ (which # "overlay" => ov_setting = CHOOSE s \in Overlay!Settings : TRUE)
  /\ Records!Init /\ (which # "records" => lr_record = Records!Gone)
  /\ Download!Init
  /\ Switches!Init /\ (which # "switches" => as_core.host = "on" /\ ~as_mirror.needs)
  /\ Collection!Init /\ (which # "collection" => lc_key = [i \in {1, 2} |-> 0] /\ lc_plain = {})
  /\ Inbox!Init /\ (which # "inbox" => in_key = [i \in {1, 2, 3} |-> 0])
  /\ Tagging!Init /\ tg_site \in {{}, {"x"}} /\ tg_stored.lists["excluded"] = <<>> /\ (which # "tags" => tg_site = {} /\ tg_stored.tags = {} /\ tg_stored.lists["preferred"] = <<>>)
  /\ Panel!Init /\ (which # "panel" => pa_latest /\ pa_anchor /\ pa_wanted.button)
  /\ Repair!Init /\ (which # "repair" => sr_route = "thread" /\ sr_allowed /\ sr_stored = Repair!Defaults)
  /\ Listings!Init /\ (which # "listings" => aj_jquery = "none")
  /\ Transfer!Init /\ (which # "transfer" => ct_stored.picks = <<"a">>)
  /\ Manager!Init
  /\ Import!Init /\ im_library[2] = 0 /\ (which # "import" => im_policy = "skip" /\ im_library[1] = 0 /\ im_file.histories = {} /\ im_file.records = [i \in {1, 2} |-> 0])

NextParts ==
  \/ /\ which = "budget" /\ UNCHANGED which /\ Next
     /\ UNCHANGED <<mkVars, ovVars, lrVars, ddVars, asVars, lcVars, inVars, tgVars, paVars, srVars, ajVars, ctVars, maVars, imVars>>
  \/ /\ which = "markers" /\ UNCHANGED which /\ Markers!Next
     /\ UNCHANGED <<vars, ovVars, lrVars, ddVars, asVars, lcVars, inVars, tgVars, paVars, srVars, ajVars, ctVars, maVars, imVars>>
  \/ /\ which = "overlay" /\ UNCHANGED which /\ Overlay!Next
     /\ UNCHANGED <<vars, mkVars, lrVars, ddVars, asVars, lcVars, inVars, tgVars, paVars, srVars, ajVars, ctVars, maVars, imVars>>
  \/ /\ which = "records" /\ UNCHANGED which /\ Records!Next
     /\ UNCHANGED <<vars, mkVars, ovVars, ddVars, asVars, lcVars, inVars, tgVars, paVars, srVars, ajVars, ctVars, maVars, imVars>>
  \/ /\ which = "download" /\ UNCHANGED which /\ Download!Next
     /\ UNCHANGED <<vars, mkVars, ovVars, lrVars, asVars, lcVars, inVars, tgVars, paVars, srVars, ajVars, ctVars, maVars, imVars>>
  \/ /\ which = "switches" /\ UNCHANGED which /\ Switches!Next
     /\ UNCHANGED <<vars, mkVars, ovVars, lrVars, ddVars, lcVars, inVars, tgVars, paVars, srVars, ajVars, ctVars, maVars, imVars>>
  \/ /\ which = "collection" /\ UNCHANGED which /\ Collection!Next
     /\ UNCHANGED <<vars, mkVars, ovVars, lrVars, ddVars, asVars, inVars, tgVars, paVars, srVars, ajVars, ctVars, maVars, imVars>>
  \/ /\ which = "inbox" /\ UNCHANGED which /\ Inbox!Next
     /\ UNCHANGED <<vars, mkVars, ovVars, lrVars, ddVars, asVars, lcVars, tgVars, paVars, srVars, ajVars, ctVars, maVars, imVars>>
  \/ /\ which = "tags" /\ UNCHANGED which /\ Tagging!Next
     /\ UNCHANGED <<vars, mkVars, ovVars, lrVars, ddVars, asVars, lcVars, inVars, paVars, srVars, ajVars, ctVars, maVars, imVars>>
  \/ /\ which = "panel" /\ UNCHANGED which /\ Panel!Next
     /\ UNCHANGED <<vars, mkVars, ovVars, lrVars, ddVars, asVars, lcVars, inVars, tgVars, srVars, ajVars, ctVars, maVars, imVars>>
  \/ /\ which = "repair" /\ UNCHANGED which /\ Repair!Next
     /\ UNCHANGED <<vars, mkVars, ovVars, lrVars, ddVars, asVars, lcVars, inVars, tgVars, paVars, ajVars, ctVars, maVars, imVars>>
  \/ /\ which = "listings" /\ UNCHANGED which /\ Listings!Next
     /\ UNCHANGED <<vars, mkVars, ovVars, lrVars, ddVars, asVars, lcVars, inVars, tgVars, paVars, srVars, ctVars, maVars, imVars>>
  \/ /\ which = "transfer" /\ UNCHANGED which /\ Transfer!Next
     /\ UNCHANGED <<vars, mkVars, ovVars, lrVars, ddVars, asVars, lcVars, inVars, tgVars, paVars, srVars, ajVars, maVars, imVars>>
  \/ /\ which = "manager" /\ UNCHANGED which /\ Manager!Next
     /\ UNCHANGED <<vars, mkVars, ovVars, lrVars, ddVars, asVars, lcVars, inVars, tgVars, paVars, srVars, ajVars, ctVars, imVars>>
  \/ /\ which = "import" /\ UNCHANGED which /\ Import!Next
     /\ UNCHANGED <<vars, mkVars, ovVars, lrVars, ddVars, asVars, lcVars, inVars, tgVars, paVars, srVars, ajVars, ctVars, maVars>>

SpecParts == InitParts /\ [][NextParts]_<<which, vars, mkVars, ovVars, lrVars, ddVars, asVars, lcVars, inVars, tgVars, paVars, srVars, ajVars, ctVars, maVars, imVars>>

-----------------------------------------------------------------------------
(* Properties: a part is looked at while it runs.                            *)

(* The type invariants of the parts. *)
PartsTypeOK ==
  /\ which = "budget" => TypeOK
  /\ which = "markers" => Markers!TypeOK
  /\ which = "overlay" => Overlay!TypeOK
  /\ which = "records" => Records!TypeOK
  /\ which = "download" => Download!TypeOK /\ Download!SitesOK
  /\ which = "switches" => Switches!TypeOK
  /\ which = "collection" => Collection!TypeOK
  /\ which = "inbox" => Inbox!TypeOK
  /\ which = "tags" => Tagging!TypeOK
  /\ which = "import" => Import!TypeOK
  /\ which = "manager" => Manager!TypeOK
  /\ which = "panel" => Panel!TypeOK
  /\ which = "repair" => Repair!TypeOK
  /\ which = "listings" => Listings!TypeOK
  /\ which = "transfer" => Transfer!TypeOK

(* A marker on a card is the present status of a provider that is there, and
   a tile shows what its record and the settings say.  The button and the
   dialog of the saved filters are there when they should be, and gone else.  So are
   the repairs of Site Repair and what they have in the page. *)
PageShowsTheTruth ==
  /\ which = "markers" => Markers!MarkersAreCurrent
  /\ which = "overlay" => Overlay!TilesShowTheirRecords
  /\ which = "panel" => Panel!GoneWhenOff /\ Panel!ThereWhenOn /\ Panel!OpenIsOpen
  /\ which = "repair" => Repair!GoneWhenOff /\ Repair!RunsWhatIsWanted /\ Repair!IndicatorIsTrue
  /\ which = "listings" => Listings!RestoredWhenOff /\ Listings!AdapterKnows

(* A record's status and its news have their events in the histories unless
   newer ones have pushed them out, an update is acknowledged only in a version
   the user has seen, and a rating and a note given in the manager keep each
   other unless their writes have overlapped. *)
RecordsHaveTheirHistory ==
  /\ which = "records" => Records!HistoryBacksRecord /\ Records!AcknowledgedWasSeen
  /\ which = "manager" => Manager!EditsKeepEachOther

(* A download switch mirrored by an older version authorizes nothing before
   the core has answered a full read; a repair asks no more often than it may,
   forgets no image, retries a listing once, and ends with its add-on. *)
OnlyWhatIsAllowed ==
  /\ which = "switches" => Switches!OldRecordNeedsRead
  /\ which = "repair" => Repair!NoImageForgotten /\ Repair!AskedWithinLimit
  /\ which = "listings" => Listings!RetriedOnce /\ Listings!NoRetryWhenOff

(* The Library's listing holds the records as they are, or says it is old, and
   "acknowledge all" leaves nothing changed that was changed before. *)
ListingIsCurrent ==
  /\ which = "collection" => Collection!CollectionIsCurrent /\ Collection!OldListingSaysSo
  /\ which = "inbox" => Inbox!NothingLeftChanged

(* No list of the settings names a tag twice, nothing is pruned without a
   catalog, and the settings a tab works with can be saved, whatever the storage
   held. *)
SettingsAreSound ==
  /\ which = "tags" => Tagging!NoTagTwice /\ Tagging!NoPruneWithoutCatalog
  /\ which = "transfer" => Transfer!LiveCanBeSaved

(* An import reports what it has written, and is complete only when whole, but
   for the events newer ones have pushed out; no other events go.  An export of the settings
   can be imported again. *)
ImportIsReported ==
  /\ which = "import" => Import!ReportIsTrue /\ Import!CompleteIsWhole /\ Import!OnlyOldEventsGo
  /\ which = "transfer" => Transfer!ImportIsWhole /\ Transfer!ExportComesBack

(* No commit stores an earlier rating after a later one, and none that was taken
   back comes into the record; an import of settings changes no section that its
   file does not speak of, and a download page is acted on for the file that was
   authorized, once. *)
KeptInOrder ==
  /\ Manager!RatingsInOrder /\ Transfer!OnlyItsSections
  /\ Download!StageIsOwned /\ Download!ClosesItsOwnDownload
=============================================================================
