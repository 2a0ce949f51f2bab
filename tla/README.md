# F95 Zone Highlighter: TLA+ models and proofs

Verification development for the *F95 Zone Highlighter* userscript and its
add-ons. Paths are relative to the repository root; `core/`, `services/`,
`features/`, `ui/` abbreviate `src/core/` and so on.

1. [The system](#1-the-system) 2. [Modules](#2-modules)
3. [State and actions](#3-state-and-actions) 4. [Runs](#4-runs) 5. [Bounds](#5-bounds)
6. [Fairness](#6-fairness) 7. [Proofs](#7-proofs) 8. [Only model-checked](#8-only-model-checked)
9. [Differences between code and documents](#9-differences-between-code-and-documents)
10. [What is not modelled](#10-what-is-not-modelled) 11. [Plan](#11-plan)

## 1. The system

The program is a userscript that runs once per page load ("tab"), and a family
of add-on userscripts that talk to it through page events. All tabs share one
key-value store (the userscript manager's storage), one IndexedDB, and the
browser's Web Locks. Inside a tab everything is single threaded: interleaving
happens at `await`, at callbacks (listeners, observers, timers, microtasks) and
between tabs. A tab can be closed anywhere, and can be frozen in the
back/forward cache.

### Components

| component | code | state | operations | what is hard | what makes it correct |
|---|---|---|---|---|---|
| Configuration persistence | `services/settingsService.js`, `configWriteLock.js`, `configMigrationService.js`, `config/persistence.js` | canonical and backup envelope, migration marker, lock records, catalogs; per tab: live config, known revision, queue | load, recover, initialise, migrate, updater save, whole-section save, catalog save, rollback | several tabs; closing between two writes; rejected writes; stale views; newer releases | no acknowledged edit is lost; a revision identifies the settings; a newer format survives |
| Storage bootstrap | `services/storageBootstrapService.js`, `storageReadiness.js`, `storageAdapter.js` | readiness of the tab | probe, load, classify, retry, write gate | requests made before readiness | a request is answered, and refused when the tab may not write |
| Import and export | `services/configTransfer/index.js` | none of its own | parse, commit, export | candidate built before the lock | an import does not undo another tab's save |
| Task queue | `core/taskQueue.js` | queue, task in flight, route signal | add, run, pause, clear, dispose | abort, timeout and completion racing; a task that never settles | every accepted promise settles, the bound holds, the overtaken are told |
| Feature lifecycle | `core/featureFactory.js`, `createStyledFeature.js`, `styleRegistry.js` | status, chain and abort controller of each feature, references to styles | enable, disable, sync | toggles and route changes while a transition is queued | a feature runs exactly when the configuration and the page call for it |
| Routes and page events | `core/routeState.js`, `routeObserver.js`, `pageLifecycle.js`, `pageDetection.js` | current route and its signal | begin route, notify, hide, show | several navigations in one task; the back/forward cache | reconciliation ends with the last page |
| Startup and loader | `main.js`, `core/bootstrap.js`, `loader.js`, `core/frameBudget.js` | position of the two pipelines, features left to load | run step, load chunk, reconcile | partial failure, timeouts, navigation while loading | no feature without a validated configuration |
| Teardown | `core/teardown.js`, `resourceManager.js`, `listenerRegistry.js` | runtime state, registries | suspend, resume, tear down | work still under way | nothing is left afterwards |
| Settings effects | `services/configChangeApplication.js`, `ui/settingsRuntime/effectTasks.js` | debounce timers | sync a feature now or later | effects due after the page was left | effects reach the features once |
| Library update queue | `addons/library-addon/src/library/autoUpdate*.js` | cycle, lease, rows, daily allowance in IndexedDB | elect, snapshot, claim, settle, recover, roll over, commands | closing between two storage calls, expired leases, an aborted run beside its successor | a row is completed only with its result; the allowance holds; cycles finish |
| Library request budget | `library/hybridRequestBudget.js`, `hybridRecordRequest.js`, `manualUpdateChecker.js` | reservation record | reserve, record, block | spacing and quota across tabs | spacing and quota survive a closing |
| Library records | `service.js`, `importWorkflow.js`, `recordModel.js`, `libraryDocument.js` | entries, events | add, update, import | partly failed imports | repeating an import reaches the same library |
| Library presence and interface | `addons/library-addon/src/{app,thread,ui}`, `latestCollectionController.js` | listing, pages, ratings, notes, inbox | collect, page, rate, write, acknowledge | late answers; reloads under an edit | no edit is lost; the listing is the latest one asked for |
| Add-on platform | `services/addons/*` | registered add-ons, grants, requests in flight, teardowns | register, invoke, observe, tear down | messages in any order; timeouts that do not stop the work | one cleanup per teardown; authorization at the time of the effect |
| Shared add-on runtime | `addons/shared/*` | state, generation, queue of commands | enable, disable, refresh, invalidate, tear down | commands overtaking each other | only the last generation claims the state |
| Tags, prefixes, safety | `services/tagsService.js`, `prefixService.js`, `safetyService.js` | the separately stored catalogs | refresh, prune | answers arriving late | nothing is pruned against a catalog that was not read |
| Latest overlay | `features/latest-overlay/*` | captured snapshot, generations | capture, score, paint | mutations and frames across generations | the paint of an old generation is dropped |
| Other page features | `features/*` | decorations | | | covered by the feature lifecycle |
| Settings interface | `ui/*` | pickers, panels, drafts | edit, draw, pin, delete | drawing while an edit is stored | what is shown is what is stored |
| Health, shared observer | `core/featureHealth.js`, `observer.js`, `ui` (diagnostic box) | records, callbacks, profile | report, draw, register, remove | a callback that removes itself or another | each callback gets each window once; the box is owned by one stage |
| Masked direct download | `addons/masked-direct-addon/src` | stage in the window's name and in session storage, switches | start, resolve, hand over, finish | pages of a host and its origins, each with its guards | a download is taken over once and only for its own flow |
| Thread utility | `addons/thread-utility-addon/src` | settings, snapshot of the first post, palette, editor | refresh, open, download, save | edits and refreshes under an open palette | the palette and the post show the same sources |
| Latest filters | `addons/latest-filters-addon/src` | button, dialog, presets | mount, open, save | attempts that outlive their operation | what is shown belongs to the running generation |
| Site repair | `addons/site-repair-addon/src` | attempts, indicator, wrapper around `$.ajax` | observe, retry, wrap, unwrap | wrappers of other scripts | attempts are limited; a listing is retried once |
| Example and theme add-ons | `addons/{halloween-theme,example}-addon` | | | | |
| Archive, build, tests | `masked-direct-addon/archive`, `scripts`, `build`, `tests` | | | | |

`PROJECT.json` lists every component with its status, and under `hazards` the
places in the code where something can go wrong that a test would hardly reach.

### How they interact

`main.js` starts two pipelines. Both wait for the storage bootstrap, which
loads the configuration under the cross-tab lock. The first begins the route,
detects the page and installs the page listeners and the route observer; the
second waits for the body and has the loader enable the features of the page
over several frames. From then on the route observer, the page listeners and
the settings effects request transitions of features; every edit of the
settings goes through the configuration queue of the tab. Add-ons register
through page events, ask the core for storage and interface through actions,
and obey its lifecycle commands. The Library add-on runs its update queue on its
own database and its own lease among tabs.

## 2. Modules

| module | what it is | code |
|---|---|---|
| `ConfigStore` | configuration persistence and storage bootstrap of any number of tabs | `services/settingsService.js`, `configWriteLock.js`, `configMigrationService.js`, `storageBootstrapService.js` |
| `ConfigRegister` | what that store promises: one atomic versioned register | |
| `ConfigTransfer` | settings files, the schema that judges them, the dialog | `services/configTransfer`, `config/schema.js`, `ui/configTransfer` |
| `TaskQueue` | the queue of asynchronous tasks and the route signal | `core/taskQueue.js`, `core/routeState.js` |
| `SerialTasks` | what a queue promises its callers | |
| `FeatureLifecycle` | pipelines, loader, routes, page events, settings effects and features of one page | `main.js`, `loader.js`, `core/*` |
| `AddonRuntime` | the command queue in every add-on, as functions on a record | `addons/shared/runtimeLifecycle.js`, `coreBridge.js` |
| `AddonHost` | registration, switch, policy, teardown with its watchdog, service; composed with `AddonRuntime` | `services/addons/{lifecycle,registry,bootstrap,access}.js` |
| `AddonRequests` | the bridge's limits, the two timeouts of a request, staged storage | `services/addons/{bridgeServer,invocation,state}.js`, `actions` |
| `AddonDatabase` | connections, upgrades and operations of an add-on's database | `services/addons/idbStore.js` |
| `AddonIdentity` | state and installation data under an old and a new name | `services/addons/state.js`, `catalog.js` |
| `AddonUi` | what add-ons put in the page | `services/addons/uiHost.js`, `observer.js` |
| `AddonCatalog`, `AddonPanel` | the catalog of trusted add-ons and its copies; the add-ons in the settings | `services/addons/catalog*.js`, `ui/components/addons` |
| `LatestMarkers` | the markers add-ons show on the cards of the latest page | `latestMarkerBroker.js`, `markerLifecycle.js` |
| `LatestOverlay` | capture, index and decoration of the latest page's tiles | `features/latest-overlay` |
| `TagLists` | tag lists, their pickers, catalogs and pruning | `services/tagsService.js`, `prefixService.js`, `ui/components/tag-search` |
| `SharedObserver`, `HealthLog` | the observer all features share; health records, logs, diagnostic box | `core/observer.js`, `resourceManager.js`, `featureHealth.js` |
| `LibraryQueue` | the durable update queue: scheduler, snapshot, worker, repository | `library-addon/src/library/autoUpdate*.js` |
| `RequestBudget` | the reservation of requests across tabs | `hybridRequestBudget.js`, `hybridRecordRequest.js` |
| `LibraryRecords`, `LibraryImport`, `LibraryInbox`, `LibraryManager` | a record and its histories; an import; "acknowledge all"; ratings and notes | `library/service.js`, `importWorkflow.js`, `ui/updateInbox`, `ui/manager` |
| `LatestCollection`, `Keyset` | the Library's own listing; paging by a cursor | `latestCollectionController.js`, `idbStore.js` |
| `DirectDownload`, `AutomationSettings` | the stages of a download over the pages of a host, with theorems; its mirrored switches | `masked-direct-addon/src` |
| `ThreadUtility`, `QuickSearches` | Thread Utility with palette and editor; names of its searches | `thread-utility-addon/src` |
| `FilterPanel`, `FilterPresets` | button and dialog of the filters; presets in two storages | `latest-filters-addon/src` |
| `SiteRepair`, `AjaxRepair` | the repair of images; the retry of listings in the site's jQuery | `site-repair-addon/src` |
| `ConfigStore_proof`, `TaskQueue_proof`, `FeatureLifecycle_proof`, `LibraryQueue_proof`, `Library_proof`, `AddonHost_proof`, `Addons_proof` | theorems and their proofs | |
| `MCConfigStore`, `MCLibraryQueue` | constants of those modules for TLC | |
| `MCAddons`, `MCSurfaces` | the smaller modules side by side in one run each | |

Definitions keep the names of the functions they translate where they can; the
lines of code behind each are in `PROJECT.json` under `map`. An operator whose comment
begins "Faulty variant" is a plausible bug in the definition after it: putting it in that
definition's place breaks the property `PROJECT.json` names under `mutants`, which shows
that the property depends on that code.

**Composition.** `FeatureLifecycle` contains what `main.js` composes, so its components
share one module; the configuration it sees is the set `want`, and how that set is
stored is `ConfigStore`. `AddonHost`, `FilterPanel`, `SiteRepair` and `ThreadUtility` each
run the lifecycle of `AddonRuntime`, whose commands are functions because a command arrives
inside the core's own step. `MCAddons` and `MCSurfaces` compose nothing: a behaviour exercises
one of their parts, chosen at its start, while the others rest. This lets one
run check many parts that share no state, at the sum of their state spaces.

## 3. State and actions

**ConfigStore.** `canonical`, `backup`, `marker`, `legacy`, `cache` are the stored
keys; an envelope is a schema, a revision and the set of edits it contains, a
catalog is the number of the refresh that produced it. `leases` are the lock records
of first installation and migration, `lock` the Web Lock. Each tab has its readiness
(`access`), live copy, `knownRevision`, `knownCachePayloads`, a queue of requests, and
`pc` and `work`, place and local variables of the transaction that holds the
lock. `requested` and `acked` record what was asked and acknowledged. `OpenTab`, `Probe`,
`RetryStorage` are the bootstrap; `BeginLoad` to `LoadThrew` the load with its
branches, one step per storage write; `Request`, `Refuse` the queue; `BeginUpdate`,
`BeginSave`, `BeginImport`, `BeginCatalog` the start of a transaction with the refresh of a
stale view and the stale checks; `PersistCatalog` to `RollBack` its writes. `CloseTab` ends
a tab between any two steps and a write may be rejected at any of them;
`NewerReleaseMigrates`, `Corrupt` and `ExpireLease` act from outside. Left out: what settings mean,
subscribers, a storage read that fails within a transaction.

**FeatureLifecycle.** `storage`, `fast`, `main`, `hooked`, `watching`: how far the
storage and the two pipelines are; `runtime`, `frozen`, `tear`: page events and
teardown; `loc` is `window.location`, `url`, `gen`, `cut` the route and whether its signal
is aborted, `flags` what `detectPage()` last found, `notice` the route the observer has a
microtask for; `want` is what the configuration enables, `timers` the debounced
effects. Each feature has a `chain` of transitions that have not settled, a `status` and
a bit `on`; styles have `refs`. A transition is `Request`ed by the loader, `Reconcile`, a
`Toggle`, `Refresh`, `Debounce`, or the teardown, then `Superseded`, or goes through
`Begin`, `Handle` (or `HandlerThrows`) and `Finish`. The microtask queue `micro` is first in
first out, and a job carries the number of promise reactions before its next effect (`hops`);
`Hop` lets rounds of them pass. Timers, frames and page events happen when it is
empty. Left out: that the site's script navigates between two of the script's microtasks
(section 9). Handlers are synchronous in every registered feature, so the operation
timeout never fires. Edits wait until the page has loaded (`Editable`), as the settings open after it.

**TaskQueue.** `pending`, `running` and what settled its race (`raced`), `paused`, `disposed`,
the `outcome` of each promise, the tasks whose signal is aborted (`told`), and the
route. Every method of the queue, the timer (`Fire`), the end of a body, the timeout, the
continuation of the race (`Settle`) and the two route operations are actions. Tasks are numbered as
they are added. A body may go on after its promise has settled, and may never end.
At this commit only tests call `createTaskQueue`; the documents describe it
as the means for asynchronous features.

**LibraryQueue.** `lease`, `cycle`, `allowance`, `rows` are the rows of IndexedDB; per tab
the scheduler's `controller` and `generation`; per process `pc`, its signal, its copies
(`mine`, `item`, `ticket`, `draft`) and its request's `outcome`. `committed` and `asked`
record results and requests. A process is a `run()` or a command; a step is a storage call with the code
up to the next one. `CloseTab`, `LeaseExpires`, `ClaimExpires`, `RetryDue`, `BlockEnds`,
`NextDay` are the environment. A `scene`, chosen at the start, fixes who runs, the limits
and what may happen, so that two instances are one run. An instant is what it decides: whether a
lease or claim is live, a retry is due, the local day.

**AddonRuntime, AddonHost.** A runtime is a record: its `queue` of commands, the operation under
way (`active`, with `fresh`, `aborted` and its awaited `part`), whether it listens
(`bound`), whether the add-on is `on`, its `mount`. Generations are compared with the newest
only, so they are flags. The host keeps `reg` (the registry), `desired` and
`allowed` (switch and policy), `held` (what the core keeps in the page for an add-on),
`td` (its teardown: armed, acknowledged, cancelled), the switches that are being stored (`toggles`), and
the limit of registrations (`served`). `dropped` and `late` are ghosts: an entry a
reapplied policy lost, and a switch decided for an absent add-on that was stored while something of it
was kept (`Kept`); both mark known defects (section 9).

**AddonRequests.** `live` and `staged` settings, `commits` under way, each `request` with what its
caller has `heard`, the core's `inflight` count. `Get` and `Set` share one candidate, the
updater commits or rejects it, and both timeouts may come first.
**AddonDatabase** has connections with the requests to open that IndexedDB serves in order;
IndexedDB itself is external. **AddonIdentity**: every commit merges two names into one.
**AddonUi**: dock buttons, mounts, dialogs, watched nodes, and what waits for the dock.
**AddonCatalog**: pages of several tabs write the copy they know. **AddonPanel**:
cards, pins, open panel, switch and controls are drawn from what is known of each add-on.

**RequestBudget.** The `record` in the storage, the `lock` and who waits for it, the clock with
its hours, and per tab its place, copy and the route of its check. A reservation is written
before its request and never given back; a tab may close between them, the
write may be refused, and the clock may be set back. `LibraryRecords`, `LibraryImport`, `LibraryInbox`,
`LibraryManager`, `LatestCollection` model what goes wrong when records are read, merged
and put back by several tabs, page by page, with refused and lost writes between.
A history is cut to `HistoryLimit` events (20 in the code) by steps of their own: after a put that had an
event, and after each section of an import. Whoever saves puts the whole record it
has read, often from its tab's `cache`: in the manager the rating and the note undo each other
when their writes overlap (ghost `crossed`). The calls of one tab are taken to
be served in the order they are sent. Marking a version as played is an edit that has an event; of the other facts one stands for all that have an event.

**Surfaces.** `LatestOverlay` and `LatestMarkers` have a generation and painting over frames;
`TagLists` lists by place in two tabs and the pruning against catalogs that may not have been read;
`DirectDownload` takes the routes of the hosts as its constant: a page is first, later, or
either, its path names the file or not, and it shares the session storage of its origin and
the window's name with others (`SitesOK`). Loading, deciding, waiting for a challenge, pressing,
reporting and closing are steps apart, between which the user navigates, the settings
change and records expire. `AutomationSettings` has a mirror read before the core answers; `FilterPanel` and `SiteRepair`
attempts that go on beside the operations of the runtime; `AjaxRepair` the stack of
wrappers around the site's `$.ajax`; `ConfigTransfer` a file between preview and commit.


## 4. Runs

Each run, its properties and their mutants are in `PROJECT.json`; every property is
explained where it is defined.

| run | instance | shows |
|---|---|---|
| `config_core` | two tabs, one queued request each, every starting content of storage, an updater and a catalog save, closings, one rejected write, a newer release | no lost update, revisions identify data and grow, newer schemas survive, the register is implemented |
| `config_mixed` | two tabs under the lock and one without Web Locks, all request kinds, two catalog refreshes, one rejected write | a tab that takes its catalogs for current holds the stored ones |
| `config_recovery` | one damage of the canonical envelope, one rejected write, closings; fair | a recovery loses at most one edit; every request is answered |
| `config_stale_save` | two requests in one queue, three edits | a violation, see section 9 |
| `page_lifecycle` | four features on two pages, two of them sharing a style, one debounced, two that refresh themselves; two moves, one edit, one stay in the cache, one failure, every outcome of storage; fair | features run exactly where they belong, styles are held, a stopped page keeps nothing, everything comes to rest |
| `queue_policies` | three tasks, three keys, two places, every policy, a timeout, one route change; fair | no promise forgotten, losers told, every accepted task settles, `SerialTasks` is implemented |
| `library_both` | scenes `Alone` and `Commanded` of section 5 | results before completion, whole cycles, allowance and attempts |
| `library_live` | scene `Alone` over one cycle with an allowance of one; fair | runs end, cycles finish |
| `library_partial` | one pause | a violation, see section 9 |
| `addons` | twelve parts of the platform, one at a time; fair | nothing outlives its add-on; no answer, commit, edit or report is lost or goes to another; commands come to rest |
| `addons_policy` | one add-on, one policy change | a violation, see section 9 |
| `surfaces` | fifteen parts of the page, the Library, the settings and the add-ons, one at a time | what is shown is what is stored, what is reported is what was done, limits and spacing hold |

In `addons` and `surfaces` a property is a conjunction of the parts' own properties, each
guarded by `which`, the part that runs; the comment before it names them.

**Symmetry.** Tabs that have the same lock (in `surfaces` all tabs), new edits, records of the Library, and the
two processes of one tab are interchangeable: no definition names one of them, and the
old edit, the features and the tasks are kept apart. The liveness runs use none.

**Deadlock.** It is checked in the `config_*` runs. The others may stop
where the system does: a page that was left, a disposed queue, the last modelled day, an
add-on that was removed.

## 5. Bounds

They are chosen so that every branch of the code is taken (all actions fire in the
passing runs) and each hazard of `PROJECT.json` can occur.

- *Configuration.* Two tabs are needed for a stale view, and a commit concerns one
  committing tab and one observer, since the lock excludes a third. A third tab matters
  where it has no lock, which is `config_mixed`. Two new edits over an old one tell "lost
  mine" from "lost yours"; `config_stale_save` needs a third. The theorems of section 7
  have no such bounds.
- *Page.* Two moves include going away and coming back, and two navigations in one task.
  One edit switches any set of features at once, and coincides with everything else.
- *Queue.* Three tasks give one in flight, one queued, one arriving, on the same or on
  another key.
- *Library queue.* `Alone`: one run over two records, an allowance of two, two days, two
  cycles and one closing, so that a cycle has one row finished and one not, the day turns
  within a cycle and a cycle begins within a day; one closing at any
  point leaves every partial state the storage can be left in. `Commanded`: two processes
  of one tab, one record, one tab frozen past its lease or claim, and one command anywhere.
  `CyclesAreWhole` and `LimitsHold` are claimed only where the user commands nothing
  (`scene.asks = 0`), which is also where no tab is frozen: a frozen tab's late result is the matter
  of `ResultBeforeCompletion`. `library_partial` and section 9 say why.
- *Add-ons.* One add-on, three registrations in a minute, two clicks of its switch, one
  change of policy, one removal: a switch that is being stored, a teardown with its
  watchdog, and a new registration can all overlap. Add-ons share only the
  service and the policy; the theorems are for any number of them.
- *Parts of `addons` and `surfaces`.* Two of whatever competes (tabs, requests, posts,
  cards), one refusal or closing, and two or three calls: enough for each to come before,
  between and after the steps of another. The bounds are the constants in the INSTANCEs.
  `HistoryLimit` is 1, so that one newer event pushes an older one out; the theorems are for any limit.
  The manager does any five of: rating, committing, writing a note, reloading. The tags are changed three times
  in two tabs.
- *Download.* Six routes of three hosts, which have every kind of page: a confirmation on a second origin
  that names the file or does not (Drive), two pages of one origin (Workupload), a
  scanned page with one guard for all files (Datanodes). Two files, three pages, two minutes of
  life and two changes reach a record of another file, host or minute and a page come back to.

**Ghosts.** Some modules have a variable (`late`, `dropped`, `crossed`, `silent`, `unread`,
`mixed`, `blind`, `unsure`, `overtaken`, `clean` and the like) that no action
reads: it records that one particular defect of section 9 has occurred, and a property that this
defect would break says so with it, in place of leaving the case out of the model.

## 6. Fairness

- `ConfigStore`: weak for the steps of a transaction (promises settle; the storage
  calls return), strong for being granted the lock (the browser queues requests
  first in first out). Nothing makes users ask, tabs open or close, or writes fail.
- `FeatureLifecycle`: weak for microtasks, frames, timers, the arrival of the body, the
  settling of the storage call, and for a frozen page to be shown again (a page that
  never is cannot come to rest).
- `LibraryQueue`: weak for storage calls and for time, as the scheduler's timer
  is always armed again; strong for a request to be made and to be answered by something other
  than a block. The last is the site's, not the code's: a site that refuses every
  request for ever keeps a cycle open.
- `TaskQueue`: weak for the timer, the timeout and the continuation, which the event
  loop runs; none for a task body.
- `AddonHost`: weak for the operation of an add-on's runtime, whose calls settle or time
  out, and for the watchdog's timer; none for users, registrations and policies.

No other module states fairness: their properties are safety properties.

## 7. Proofs

Checked by TLAPS for every value of the constants that the named assumptions of the
component's module admit (`ConfigAssumption`, `QueueAssumption`, ...; TLC evaluates them on
every run).

| module | theorem | states | assumes besides |
|---|---|---|---|
| `ConfigStore_proof` | `TypeCorrect` | `TypeOK`, and with it that whoever is inside a transaction holds the Web Lock | nothing |
| | `RevisionIdentifies` | `RevisionIdentifiesData` | no damage from outside (`MaxCorruptions = 0`) |
| | `RevisionsGrow` | `RevisionGrows` | the same |
| | `NewerSchemaSurvives` | `NewerSchemaPreserved` | the same |
| | `NothingLost` | `NoLostUpdate` | the same, and requests that build their draft under the lock (`Kinds \subseteq {"update", "catalog"}`) |
| | `RegisterImplemented` | `ImplementsRegister` | the same, finitely many edits, and `WholeStarts`, a property of the starting contents that every one of `AllStarts` has |
| | `RecoveryLosesOne` | `RecoveryLosesAtMostOne` | at most one damage, finitely many edits, those kinds |
| | `CatalogsCurrent` | `CatalogViewCurrent` | no rollback's own write is rejected (`RollbacksAccepted`) |
| | `CatalogsCurrentAfterOneFailure` | `CatalogViewCurrent` | `MaxFailures <= 1` |
| `TaskQueue_proof` | `TypeCorrect`, `NoPromiseForgotten`, `LosersTold` | `TypeOK`, `NothingForgotten`, `LosersAreTold` | nothing |
| | `QueueIsSerial` | `ImplementsSerialTasks` | nothing |
| `Library_proof` | `TypeCorrect`, `AllowanceKept`, `StartsSpaced` | `TypeOK`, `HourlyAllowance`, `Spaced` of `RequestBudget` | nothing |
| | `RecordsTyped`, `HistoriesKept`, `AcknowledgedSeen` | `TypeOK`, `HistoryBacksRecord`, `AcknowledgedWasSeen` of `LibraryRecords` | nothing but `RecordBounds`: the bounds are natural numbers |
| | `ImportTyped`, `ReportTrue`, `CompleteWhole` | `TypeOK`, `ReportIsTrue`, `CompleteIsWhole` of `LibraryImport` | nothing but `ImportBounds`: finitely many threads and events, natural bounds, at least one record per batch |
| | `ManagerTyped`, `RatingsOrdered`, `EditsKept` | `TypeOK`, `RatingsInOrder`, `EditsKeepEachOther` of `LibraryManager` | nothing but `ManagerBounds`, the same |
| `LibraryQueue_proof` | `TypeCorrect`, `ResultsFirst` | `TypeOK`, `ResultBeforeCompletion` | nothing |
| | `CyclesWhole`, `LimitsKept` | `CyclesAreWhole`, `LimitsHold` | one tab (`OneScheduler`), with any number of runs |
| `FeatureLifecycle_proof` | `TypeCorrect`, `Settling` | `TypeOK`, `Settled` | nothing |
| | `StylesHeld` | `StylesFollow` | features that share a style have the same page scope, and a plain `sync()` for an effect (`SharingAssumption`; TLC evaluates it too) |
| `AddonHost_proof` | `TypeCorrect`, `KeepsNothing` | `TypeOK`, `NothingIsKept` | nothing |
| `Addons_proof` | `TypeCorrect`, `AnswersFinal`, `OwnKeysOnly` | `TypeOK`, `AnswersAreFinal`, `OnlyOwnKeysChange` of `AddonRequests` | nothing but `ConstantsOK`, the ranges of the constants |
| | `CatalogTyped`, `GenuineTrusted`, `CopyKept` | `TypeOK`, `GenuineOnly`, `CopyIsKept` of `AddonCatalog` | nothing but `CatalogBounds`, the same |
| | `DatabaseTyped`, `AnswersTrue`, `CachedUsable`, `UpgradesWaitForWork` | `TypeOK`, `AnswerIsTruth`, `CachedIsUsable`, `UpgradeWaitsForWork` of `AddonDatabase` | nothing but `DatabaseBounds`, the same |
| | `SwitchesTyped`, `OldRecordsWait` | `TypeOK`, `OldRecordNeedsRead` of `AutomationSettings` | nothing but `SwitchBounds`, the same |
| | `IdentityTyped`, `ChoicesHold`, `FirstSightings` | `TypeOK`, `ChoiceHolds`, `FirstSightingHolds` of `AddonIdentity` | nothing but `IdentityBounds`: natural bounds, and stored under the old name are buckets |
| | `RepairTyped`, `RetriedOnlyOnce`, `RetriesEnd`, `SiteRestored`, `AdapterTold` | `TypeOK`, `RetriedOnce`, `NoRetryWhenOff`, `RestoredWhenOff`, `AdapterKnows` of `AjaxRepair` | nothing but `AjaxBounds`: a natural bound, and no jQuery that stands for none |
| `DirectDownload` | `TypeCorrect`, `StagesOwned`, `ClosingOwned` | `TypeOK`, `StageIsOwned`, `ClosesItsOwnDownload` | nothing but `SitesOK`: routes are of the five kinds, and an origin belongs to one host |

Each module is laid out alike: facts about the operators, the inductive invariant as a
conjunction of named parts, a lemma for each action or group of actions, the theorems. The
arguments are these.

**ConfigStore.** `TypeOK` is inductive as it is. `RevisionIdentifiesData` is not: a
commit writes `work[t].env`, computed some steps before from a refreshed view, and the
view of the committing tab is only brought up to date after the write. `RevInv` adds
what the holder of the lock knows at each of its places (`PlaceInv`): before the
canonical write its envelope is the next revision of what is stored *now*; after it, the
stored envelope is the one it wrote; in a migration the canonical envelope is still
the valid one it started from; in a first installation there is none. That these facts
survive the other tabs' steps is the exclusion in `TypeOK` (`HolderAlone`); that a write
leaves the other tabs' views merely stale, and never wrong, is `HolderWrites`.
`RevisionsGrow` and `NewerSchemaSurvives` follow by looking at the few actions that write
the canonical envelope (`EnvelopeStep`). `LostInv` adds for `NothingLost` that the draft of
every tab between its refresh and its canonical write contains the stored settings, and
that nothing has been acknowledged while no envelope is valid.

**Its register.** The refinement maps the abstract value to what a load would find, so a
commit takes effect at its canonical write, and everything else must stutter. `RegInv` says
for this that the starting contents are whole (`WholeInv`), that a queue holds each edit
once (`QueueInv`, `DistinctInv`), and what exactly the draft adds to the store
(`ExactInv`). For a recovery `RecInv` follows the backup: it trails by the one commit
between the two writes (`TrailInv`), what a transaction holds was acknowledged or is
its own (`HoldInv`), and a damage comes once (`Damaged`). `CatInv` says which payloads a
tab may take for the stored ones (`FreshInv`, `InHand`), and that a rollback has what it
needs (`Restorable`). A rollback whose own write is rejected breaks it, hence the assumption; with
at most one failure there is none, because the failure it answers was already that one.

**TaskQueue.** `NothingForgotten` needs to know who stands in the queue (`EntriesInv`),
why a timer or a task in flight is there (`RestInv`), and what may have settled a
race (`RaceInv`). `SerialTasks` is implemented step by step from these.

**RequestBudget.** The lock's holder works on a copy: `CopyInv` says what the copy of each
place promises against the stored record, `Accounts` that the record has counted every request
of its hour and the last start. A reservation is written before its request, so
that a closing or a refused answer only wastes it; the clock set back is met by `Regressed`.

**LibraryRecords.** The record, each tab's cached copy of it and the copy each operation has read
may all be old, and any of them may be stored. So what a copy says is required of every one
of them (`Backed`): the status it names is of a command that has put its record, and its event
`Stands`; its update is `Announced` by an event or was taken back; its acknowledgement is of a version the user has seen. An
event `Stands` while it is there or is `Aged`, with `HistoryLimit` events logged after it. That is
lasting (`HistoryKept`): pruning removes only an event that has so many newer ones, what was
logged stays logged, and a command's own event goes back only before its put. `Prepared` says what an
operation has read and stored by each of its steps, so that the record it is about to
write is `Backed` too.

**LibraryImport.** `Whole` says what each place of an import owes: what the policy admits of the
file is in the library already, or among the records of the plan after the first so many, unless
another tab has written that thread. `WayInv` follows it through the batches, a batch that is
repeated one record at a time because its answer was lost, and the first record that fails there;
`CompleteInv` carries it to the report. Of the events of the file `HistoriesInv` says that each
`Rests`, being there or pushed out by newer ones, or is still `Pending`: of a section that is to come. `RestsOn`
says that neither cutting a history, in part or whole, nor another tab's events end that. The count of what was stored rests on the plan
being without repetition and having every record it is made of (`PlanSequence`, `BatchShape`), from the
library's facts on finite sets and bijections.

**LibraryManager.** Ratings travel in commits, drafts, loads, the cache and the copies that saves of
the note put. `RatingInv` says that all of those that were read or shown are ratings some commit has stored
(`Entered`), and none was taken back; a commit that carries one that was is superseded (`Fine`), and
`Apply` gives it up. `AloneInv`: until two writes overlap, `Alone` holds. One write at a time goes on from the
record as it is, and the cache is empty or the same, but while a stored rating waits for its answer; `Noted` places
the text typed last in the pause, the last save, or the record.

**LibraryQueue.** `PlaceInv` says what each place of a process has in hand: which row, and of
which cycle (`Real`). `ResultInv` follows a result from the answer to the row: whoever is
about to complete a row, in any tab and however late, has committed its result.

*Its cycles and its limits.* Both properties are false of two tabs, by the lease race of
`claimLease()` (section 9), hence `OneScheduler`; and they speak of scenes without commands.
`Solo` then says that the scheduler knows the one active run, whose copy of the cycle is the stored one
(`HoldPlaces`) unless it is about to write another. `Whole` relates the cycle in hand (`Hand`) to its
rows, `Tried` and `Ready` bound the attempts of every row and of the item at each place: a claim
adds one, and `Repair` has failed the rows that have none left before the loop is entered.
For the allowance `Charges` is the set of rows a day pays for: those asked for on it, those
claimed on it, and those whose claim may still be given back to it (`Held`, because a deferred row is
written back as it was read). `Balanced` says that `used` covers the charges of its day, but for the
claim that is written before its entry in the ledger (`Debt`) and one for each closed tab,
and that no later day has any. The rest follows an account through `putCycle()` (`Accountable`), an item taken
on the day before the cycle's (`Dated`), and a claim the day turns under, which is refunded to
another day than it was charged to (`Charged`). The ghost `closed` is in the bound because a tab
that ends between the two writes leaves a claim the ledger never sees.

**FeatureLifecycle.** The invariant follows a request through the microtask queue. `FollowInv`
says of every feature that what its chain of transitions ends in is what the configuration and
the page call for, or that something will ask again: the route's notice, a debounce
timer, the loader. `JobInv`, `BootInv` and
`GenInv` say what may be under way at each stage, `RouteInv` and `HandledInv` what
a job knows of the route, `LeaveInv` what is left during a teardown, `FlagsInv` when
the flags are of the present page. When nothing is under way, `Settled` remains.

*Its styles.* `disable` gives a reference back whether or not the feature took one
(`core/createStyledFeature.js:51`, `core/styleRegistry.js:85`), so of two features that share a
style the one that is stopped while it is off takes the other's. `StylesHeld` shows that it comes to
this only when the other is off too. `CountInv` counts a reference for each
user that is on; `OweInv` says when a stop may come to a feature that is off: its
sharers are off, and to be stopped as well. For this every request must find the feature idle
(`Len(chain[f]) <= 1`), which the second pipeline's loading could break: it
runs while the effects of the storage's arrival may be under way. `EarlyInv` shows that it does
not, by counting rounds of the microtask queue: a transition asked for when the storage arrives
costs four, the pipeline needs eight. `FailInv` adds that a feature whose handler
failed is on, so a route change that stops it owes nothing. It needs no edit before the loader is
done (`Editable`), the assumption section 9 names.

**AddonHost.** `RunInv` says what an operation of the runtime may be, and what of the add-on it has
put in the page by then; `Loads` counts the commands that wait, and bounds the queue;
`NothingLeftBehind` follows each teardown to its end, or to its watchdog;
`DisabledHoldsNothing` is the property one step earlier, with an operation still under way that will
take away what is there. The proof found a case no run had been made for: see "A switch stored
during a teardown" in section 9. The ghost `late` is the part of the invariant
that names it.

**AddonRequests.** A bridge answers a request while the commit it asked for waits for
the configuration lock, and may give it up before. `StagedInv`: between two steps the shared candidate
equals its base, because whatever an action writes into it is handed over or taken back in the
same step. `CommitInv`: a candidate that waits differs from its base only at the key of its
request, and there by the value that request stands for. `OnceInv`: a request hands over once,
so the queue is no longer than there are requests (an injection, `CommitsFit`).
`RequestInv` excludes what an answer would contradict: a request told "refused" is neither
waiting nor stored. `SlotInv` counts the slots as the requests that run.
The ranges of the constants are a hypothesis, `ConstantsOK`, and not an `ASSUME`, because `MCAddons`
takes the module by `INSTANCE`; `PartsTypeOK` has TLC evaluate them on the run. The other
hypotheses called `...Bounds` are of the same kind.

**AddonCatalog.** `Genuine` says of every page, at every step of its load, that what it uses and what
it is about to write is genuine and was announced. `Current` speaks of pages whose copy nobody has written over
since (`read = writes`, a ghost counter): such a page has read the newest version ever stored, so
whatever it writes, after a success or a failure, is not older; and it asks the network only when the
last check's interval is over. A page that writes although its count is old sets `overtaken`, which `CopyIsKept`
names.

**AddonDatabase.** `ConnOK`: a connection is in the queue exactly until it is served; a blocked one is
the first there and all that were open have been told, and none opens again. `CachedOK`: what a tab has cached
is a connection of its own and of that version, and not one that was evicted. `OpersInv`: stored
are the operations answered with success. The queue is a set of connection numbers, the least of which is
served: connections are numbered in the order of their requests.

**AutomationSettings.** `Answered`: a command that is about to write the settings has the core's
answer. With it a record of the old version stays unauthorized through every change of
the switch, which keeps the rest of the record, until a full read has been answered.

**AddonIdentity.** `InForce` and `First` are the choice and the first sighting of a root, whichever name has
them; merging changes neither (`Merging`). `Candidate` says that what an action stages and commits
later chooses and dates nothing: it may only make a bucket, or move what its base has under the
old name. So its difference, applied to settings that have changed since, brings back an old choice only
if it makes or moves a whole bucket, which is what the ghost `blind` marks (`Persisted`). Before the alias is
known the two names are separate add-ons, and `Holds` keeps them apart.

**AjaxRepair.** `PatchedInv` says where wrappers of ours can be: around the present owner's ajax the
recorded one, once and under other scripts' only (`Outermost`), anywhere else buried ones at most, and
while the repair is off none but those. So putting back takes away the one that is recorded, or it is
beneath another's and joins the buried. `Claimed` counts for every request its retries and its timers
together: a failure turns wrappers the request went through into timers, a timer into at most one retry,
and a retry is either marked when it is made or goes through no wrapper, so that it sets none. Between
steps no claim is open (`pending`): the click's own request settles it, or it is taken back when the
click has made none.

**DirectDownload.** The ghost `owed` counts, per file and origin, the minutes for which a first
page's automation lets a later page act once. `SessionOwed` and `NameOwed` say that each of the
two copies of a record is backed by it: the session's at its own origin, the name's at every
origin of its host. That is what holds although a copy survives the other's use: `Consume` takes
from `owed` one origin's minutes, together with the record of that origin and the name, and nothing else may
rest on them. `RunInv` says what a run has done at each of its places; the guard of its page
is complete from the report to the closing because nothing frees a complete guard.
`SitesOK` is a hypothesis for the reason given for `ConstantsOK`, and TLC evaluates it in the same way.

**Why the assumptions.** A wiped envelope restarts the revision, so nothing about revisions holds
after a damage from outside. A whole-section save does replace others' edits, which is
`config_stale_save`, so the theorems about edits leave it and imports out. The recovery of a second damage
would read a backup that the first recovery has just replaced.

## 8. Only model-checked

- All liveness: `RequestsAnswered`, `AcceptedSettles`, `RunsEnd`, `CycleFinishes`,
  `ComesToRest`, `CommandsRest`. Fairness and ENABLED are out of the prover's reach.
- The parts of `addons` other than the host, its requests, the catalog, the database, the identity and the
  retry of listings, and of `surfaces` other than the request budget, the records, the import, the manager,
  the switches and the download. Several are built on sequences handled by folds
  whose results would need induction over data (`TagLists`, `LatestOverlay`, `HealthLog`, `Keyset`), which the
  installed provers cannot do; the rest is section 11.

## 9. Differences between code and documents

With a run that shows it (quoted in `PROJECT.json` under `findings`):

- `config_stale_save`: the stale check of `saveConfigKeys()` compares revisions the *tab*
  knows, not those the candidate was built on, so a save queued behind an update of the same
  tab replaces another tab's commit.
- `library_partial`: `pause()` turns a cycle that is still being prepared into a paused one,
  which the next run resumes as if its rows were complete.
- `addons_policy`: a reapplied policy empties the registry (`services/addons/registry.js:338`).
  While an add-on is not listed, its switch is only stored and switching the service off does
  not tear it down.

The rest were met while modelling, or in a proof. Where a module states the property that fails, it
is named; no run lists it.

**Configuration and settings**

- An import builds its sections before the lock (`configTransfer/index.js:373`), with the
  effect of `config_stale_save`: another tab's write between preview and commit leaves an
  import that is reported as committed with sections that are not those of the file
  (`ConfigTransfer!ImportIsWhole` holds with the ghost `clean`).
- When the canonical envelope is wiped, the revision restarts at 1, and tabs that know
  a higher one take newer commits for old ones.
- A rollback whose own write is rejected is only reported (`settingsService.js:867`): the tab
  then knows the new payload with the old live catalog. This is why `CatalogsCurrent` assumes
  `RollbacksAccepted`.
- `required` of the schema has no effect in objects (`config/schema.js`, `validateNode`): a
  catalog tag without an id gets the id 0, is valid once, and from then on every strict
  commit is rejected and an export cannot be imported again (`ExportComesBack` and
  `LiveCanBeSaved` of `ConfigTransfer` hold of `Numbered` catalogs;
  `docs/config/schema-and-migrations.md`). The tolerant mode keeps more than 16 providers,
  after which every strict commit fails too.
- A partial section in a file resets the keys it does not name to their defaults. The map of
  marker providers is merged instead, but its `library-status` is a key like the others, so a
  file that names any of `latestSettings` switches it on again; an import cannot remove a
  provider (`ConfigTransfer!Means`). The reload 400 ms after a success
  ends a second import under way without a word; a picker whose focus timer has ended
  loses a late choice.
- Tags are pruned when the catalog they are compared with was not read
  (`TagLists!PruneHasEvidence`; `docs/services/tags-and-safety.md:36`).

**Page**

- `createStyledFeature` takes a reference to the style at every enable, also of a running
  feature, and gives back one at a disable (`core/createStyledFeature.js:43`;
  `docs/core/featureFactory.md:10`), so a refreshed feature leaves its style in the page.
- When the storage probe fails before the body is there, the second pipeline is answered as
  if the storage were ready and enables features on the defaults
  (`storageBootstrapService.js:168`; `main.js:129`, `docs/config/storage-bootstrap.md:14`).
- A handler is called although its signal is aborted (`core/featureFactory.js:202`); if
  the site's script navigates between two of the script's microtasks, effects of the old
  page stay with the status "disabled".
- Disabling a styled feature that never acquired its style releases another's reference
  (`core/styleRegistry.js:85`). It needs an edit while the page still loads, or a sharer that
  refreshes itself: a refresh of a feature that is not wanted disables what is not on. The only
  features that share a style, wide and dense latest (`features/wide-latest/index.js:21` and
  `:57`), belong to the same page and do not refresh themselves, so `StylesFollow` holds
  of them (`StylesHeld`).
- `resourceManager.cleanup()` of a listener's resource leaves its id in
  `listenerRegistry`, and a later listener of that id is not added (no caller in the
  program does this). `createOwner` leaves empty owners. The shared observer can
  be started before `document.body` exists; the profile counts a run without its callback
  when the last callback's own removal flushes the window; the diagnostic box is not repainted when
  only an add-on's status changes.

**Task queue**

- A task that starts with its route signal already aborted never settles when there is
  no timeout and its body does not end (`core/taskQueue.js:162`). `setGeneration()` that
  purges the last entry of a paused queue does not resolve `whenIdle()` (`:307`;
  `docs/core/taskQueue.md:35`). The default duplicate policy differs from
  `docs/core/taskQueue.md:13`, and a replaced task's body may overlap its successor's.

**Library add-on**

- Closing between the claim of a row and the ledger (`autoUpdateQueueWorker.js:241`, `:247`)
  leaves one request uncounted, which is why `AllowanceHolds` says "but for one for each
  closing". An aborted run that goes on beside its successor breaks `CompletedIsDone`,
  `AttemptsBounded` and `AllowanceHolds`, and not `ResultBeforeCompletion`: `stillOwn()`
  compares the lease with the scheduler's current generation, not with that of the run.
  The paths that settle after a lost lease write without ownership. Two tabs that both
  read a free lease can both verify it (`claimLease()`), and `putCycle()` reads and
  writes in two transactions; the documents name the first as open.
- An edit made while a check of the same record is under way is lost
  (`LibraryRecords!EditsSurvive`); an import replaces newer values by older ones
  (`LibraryImport!OnlyNewerReplaces`, `importExportWorkflow.js:83`); a cancelled preparation
  of the listing still reports (`LatestCollection!OldPreparationSilent`,
  `latestCollectionController.js:70`;
  `docs/architecture/library-latest-only-baseline.md:116`).
- A rating and a note saved at the same time undo one another: both put the whole record they have read
  (`service.js:495`, `:947`; ghost `crossed`). A history cut to 20 events (`:43`, `:96`) loses the event
  that the record's status or news rests on, when 20 newer ones have followed.
- In the manager the last rating does not always win (`LibraryManager!LatestRatingWins`,
  `reloadRows.js:13`; `tests/groups/library-rating-ui.cjs:86`), and overlapping reloads have
  no generation (`ListingSettles`). A superseded commit that fails resets the newer draft, and
  its reload clears the newer timer; leaving a rating field with Escape during a
  refresh drafts a blank (`ratingHandlers.js:82`), which shows until the next opening and is never stored; leaving one
  nobody has typed in is told as a failure and reloads the rows, since its revision is 0 for one
  question and undefined for the other (`:28`, `:41`); `close()`
  drops a note whose save waits; "edit-note" opens a blank editor; an editor cancelled after
  `openDialog` leaves an unbound dialog.

**Add-on platform**

- *A switch stored during a teardown.* An "on" stored while the add-on is being torn down
  cancels the teardown. An "off" decided next, while the add-on is absent, is only stored, and
  an operation of its runtime that is still under way registers it again: an add-on that is
  switched off keeps what it had in the page. The proof of `KeepsNothing` found it; the
  ghost `late` marks it.
- An enabled add-on need not be running (`AddonHost!EnabledIsRunning`). Dialogs stay when
  their add-on goes (`AddonUi!DialogsGoToo`, `uiHost.js:160`, `:418`;
  `src/addons/README.md:267`), and opening a dialog twice under one id orphans the first. The field
  under the old name may win (`AddonIdentity!CanonicalFieldsWin`, `state.js:118`;
  `docs/services/addon-development.md:7`); a removed trace comes back as an
  empty entry; `normalizeAddonIdentities()` is never called in production, nor is
  "before-page-change" ever sent.
- A candidate of the add-on settings that a read has staged is kept until the next write
  (`state.js:227`): until then `storage.get` answers from it, also after another tab's commits, and a
  migration from the old storage made from it overwrites the newer value. The migration has
  no quota check, and a value that arrives for a bucket already handed over is answered but not
  stored (`actions/families/storage.js`).
- Overlapping page loads may write an older copy of the catalog, or an empty one, over a newer
  one (ghost `overtaken`), and a rejected load is cached. A database connection the browser
  closes stays cached.
- In the settings, two changes of one add-on's controls at once lose the first
  (`settingsController`, 313 to 343), a drawing during an edit shows the old value, the removal of a
  trace is drawn before it is done, and a delete may be confirmed after the add-on came back.

**Add-ons**

- Download: a choice made before the core answers is overwritten
  (`AutomationSettings!SavedChoiceStays`; `docs/architecture/masked-direct-reliability.md:26`).
- Later pages of Datanodes (`hosts/datanodes/index.js:40`) and Drive's `/download` without an id
  (`hosts/googleDrive.js`) compare no identity, so such a page takes the record of any
  file of its host; `StageIsOwned` says "the same file where its path names one". Drive's
  confirmation on the second origin consumes the copy in the name only: the record in the first
  origin's session stays for its two minutes, in which another file's first page fails to claim
  and the same file's, opened again, renews no name. The one-shot guard ignores the query, so
  one Drive `/uc` or `/download` completed stops all others in that tab. The window's name
  has one record for all hosts, and an unowned later page of one host clears another's.
- The continuation of Vik1ngFile is never reached, because its entry has the same path and comes
  first (`hosts/vik1ngfile.js`), so its click is never final;
  `docs/architecture/masked-direct-host-wave1-baseline.md:105` has "continuation final".
- Filters: presets are reported as saved when the storage refused; a failed write goes to
  a storage that is not read as long as the other exists; a failed read gives an empty list, which the next
  save writes; two tabs overwrite each other. A click during the removal of a disable opens a dialog that
  stays (ghost `crossed`), an overtaken attempt cancels the current one's timer, removes its
  controls, or leaves its style.
- Threads: two refreshes in quick succession leave the add-on disabled with the lifecycle
  "enabled" (`createThreadUtilityApp.js:294`). A palette left open over a refresh is dead until
  it is opened again, and a download clicked after the first post was replaced opens whatever
  link has its place (`downloads/controller.js:31`). An editor opened during a refresh shows, and
  saves over, old settings (`settingsEditor.js:75`).
- Quick searches: the editor names a row by its number (`domain/settings/model.js:27`) and the
  normalisation renames duplicates without looking at the new name (`domain/utilities/quickSearch.js:34`);
  after four saves two rows may share an id and every later enable fails
  (`QuickSearches!AddonLoads`; `docs/architecture/thread-utility-baseline.md:33`).
- Site repair: a retried image that left the page is not counted as done
  (`imageRepair.js:87`; ghost `silent`); settings read late differ from what runs
  (`createSiteRepairApp.js:137`; ghost `late`). If another script wraps `$.ajax` between an enable and a
  disable, the next enable leaves two wrappers, and a failure is retried twice
  (`jqueryAdapter.js:60`, `:102`, `:196`).

## 10. What is not modelled

Rendering, formatting, logging, diagnostics and the parsers of foreign markup: they change no
state the properties are about. Dialogs and inputs of the settings that are presentation; the
Library's export, deletion of everything, statistics, title and quick actions on a thread, the
editor of one entry; of the downloads a session storage that fails, a duplicated tab and a
crash without `pagehide`, and the ten minutes of the challenge gate are not tied to the clock; the signature check of the add-on catalog; the migration of the queue's
predecessor. Two tabs in `LibraryQueue`: attempts and generations then grow without a
bound the code sets, and the properties fail by the known lease race. The archived download flow is
not built into any script; the example and theme add-ons have no logic of their own; the
development tooling is not part of the program. `PROJECT.json` has a note on what each component leaves out.

## 11. Plan

Theorems to come: the parts of `surfaces` without recursion over data, and `FilterPanel`,
`SiteRepair` and `ThreadUtility` as clients of `AddonRuntime`, whose queue `AddonHost_proof` already bounds.
