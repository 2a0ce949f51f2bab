----------------------------- MODULE ConfigStore -----------------------------
(***************************************************************************)
(* Persistence of the userscript configuration: settingsService.js, with   *)
(* configWriteLock.js, configMigrationService.js, config/persistence.js,   *)
(* storageBootstrapService.js and storageReadiness.js.                     *)
(*                                                                         *)
(* Several tabs share one key-value store.  A tab loads the configuration  *)
(* once, keeps a live copy, and answers its queued requests one at a time, *)
(* every request and every load inside one exclusive cross-tab lock.  Each *)
(* storage write is a step of its own, so a tab can be closed, or a write  *)
(* can be rejected, between any two of them.                               *)
(*                                                                         *)
(* The settings are abstracted to the set of edits they contain, a catalog *)
(* (tags, prefixes) to the number of the refresh that produced it.         *)
(***************************************************************************)
EXTENDS Naturals, Sequences, FiniteSets

CONSTANTS
  Tabs,           \* page loads of the userscript
  LockTabs,       \* those on HTTPS with navigator.locks
  NoTab,
  Edits,          \* changes the user makes; each is requested at most once
  Catalogs,       \* the separately stored caches: tags, prefixes
  Kinds,          \* the request kinds issued: update, import, save, catalog
  Starts,         \* the contents storage may have at first
  MaxQueue,       \* bound: requests waiting in one tab
  MaxCatalog,     \* bound: catalog refreshes
  MaxFailures,    \* bound: rejected storage writes
  MaxCorruptions, \* bound: damages to the canonical envelope
  NewerRelease    \* whether a newer release may migrate the store

CONFIG_SCHEMA_VERSION == 2

VARIABLES
  canonical,  \* the envelope under CONFIG_STORAGE_KEYS.current
  backup,     \* the envelope under CONFIG_STORAGE_KEYS.backup
  marker,     \* the completed migration marker is stored
  legacy,     \* a pre-envelope release left surface keys
  leases,     \* the initialization and migration lock records
  cache,      \* the stored catalogs
  lock,       \* the holder of the exclusive Web Lock
  access,     \* storage readiness of each tab
  loaded,     \* configLoadPromise of each tab is set
  live,       \* the live configuration of each tab
  known,      \* knownRevision
  knownCache, \* knownCachePayloads
  queue,      \* configUpdateQueue: the requests not answered yet
  pc,         \* where the lock holder is in its transaction
  work,       \* the locals of that transaction
  requested,  \* edits requested so far
  acked,      \* edits each tab was told are committed
  catalogNo,  \* catalog refreshes so far
  failures,   \* rejected writes so far
  corruptions \* damages so far

storage == <<canonical, backup, marker, legacy, cache>>
tabVars == <<access, loaded, live, known, knownCache>>
history == <<requested, acked, catalogNo>>
faults  == <<failures, corruptions>>
vars == <<storage, leases, lock, tabVars, queue, pc, work, history, faults>>

-----------------------------------------------------------------------------
(* Envelopes.                                                              *)

Envelope(schema, rev, data) ==
  [kind |-> "ok", schema |-> schema, rev |-> rev, data |-> data]
NoEnvelope == [kind |-> "none", schema |-> 0, rev |-> 0, data |-> {}]

Envelopes == [kind : {"none", "bad", "ok"}, schema : 0..3, rev : Nat,
              data : SUBSET Edits]

Valid(e) == e.kind = "ok" /\ e.schema \in 1..CONFIG_SCHEMA_VERSION
Newer(e) == e.kind = "ok" /\ e.schema > CONFIG_SCHEMA_VERSION
MaxRev(a, b) == IF a >= b THEN a ELSE b

Works == [draft : SUBSET Edits, cats : SUBSET Catalogs, val : Nat,
          todo : SUBSET Catalogs, undo : Seq(Catalogs \X Nat), env : Envelopes]
NoWork == [draft |-> {}, cats |-> {}, val |-> 0, todo |-> {}, undo |-> <<>>,
           env |-> NoEnvelope]
NoCatalogs == [s \in Catalogs |-> 0]
Views == [data : SUBSET Edits, cat : [Catalogs -> Nat]]
Defaults == [data |-> {}, cat |-> NoCatalogs]

Requests == [kind : Kinds,
             edits : SUBSET Edits, cand : SUBSET Edits, cats : SUBSET Catalogs,
             val : Nat]

ASSUME ConfigAssumption ==
  /\ LockTabs \subseteq Tabs
  /\ NoTab \notin Tabs
  /\ Kinds \subseteq {"update", "import", "save", "catalog"}
  /\ {MaxQueue, MaxCatalog, MaxFailures, MaxCorruptions} \subseteq Nat
  /\ NewerRelease \in BOOLEAN
  /\ \A s \in Starts :
       /\ s.canonical \in Envelopes /\ s.backup \in Envelopes
       /\ s.marker \in BOOLEAN /\ s.legacy \in BOOLEAN
       /\ s.canonical.kind = "none" => s.canonical = NoEnvelope

Init ==
  /\ \E s \in Starts :
       /\ canonical = s.canonical
       /\ backup = s.backup
       /\ marker = s.marker
       /\ legacy = s.legacy
       /\ requested = s.canonical.data \cup s.backup.data
  /\ leases = [l \in {"init", "migration"} |-> "free"]
  /\ cache = NoCatalogs
  /\ lock = NoTab
  /\ access = [t \in Tabs |-> "closed"]
  /\ loaded = [t \in Tabs |-> FALSE]
  /\ live = [t \in Tabs |-> Defaults]
  /\ known = [t \in Tabs |-> 0]
  /\ knownCache = [t \in Tabs |-> NoCatalogs]
  /\ queue = [t \in Tabs |-> <<>>]
  /\ pc = [t \in Tabs |-> "idle"]
  /\ work = [t \in Tabs |-> NoWork]
  /\ acked = [t \in Tabs |-> {}]
  /\ catalogNo = 0
  /\ failures = 0
  /\ corruptions = 0

-----------------------------------------------------------------------------
(* The exclusive lock, and how a holder leaves its transaction.            *)

\* Faulty variant: a transaction does not wait for the Web Lock.
AcquireAnyway(t, at) ==
  /\ pc[t] = "idle"
  /\ lock' = t
  /\ pc' = [pc EXCEPT ![t] = at]

Acquire(t, at) ==
  /\ lock = NoTab
  /\ pc[t] = "idle"
  /\ lock' = t
  /\ pc' = [pc EXCEPT ![t] = at]

Goto(t, at) == pc' = [pc EXCEPT ![t] = at] /\ UNCHANGED lock

Release(t) ==
  /\ lock' = NoTab
  /\ pc' = [pc EXCEPT ![t] = "idle"]
  /\ work' = [work EXCEPT ![t] = NoWork]

Answer(t) ==
  /\ queue[t] # <<>>   \* the request in hand is the first
  /\ queue' = [queue EXCEPT ![t] = Tail(@)]
  /\ Release(t)

WithCatalog(c, s, v) == [c EXCEPT ![s] = v]

WriteAccepted == UNCHANGED failures
WriteRejected == failures < MaxFailures /\ failures' = failures + 1

-----------------------------------------------------------------------------
(* Opening a tab, probing storage, loading the configuration.              *)

OpenTab(t) ==
  /\ access[t] = "closed"
  /\ access' = [access EXCEPT ![t] = "probing"]
  /\ UNCHANGED <<storage, leases, lock, loaded, live, known, knownCache,
                 queue, pc, work, history, faults>>

Probe(t) ==
  /\ access[t] = "probing"
  /\ \/ /\ WriteAccepted
        /\ access' = [access EXCEPT ![t] = "loading"]
        /\ loaded' = [loaded EXCEPT ![t] = FALSE]
     \/ /\ WriteRejected
        /\ access' = [access EXCEPT ![t] = "unavailable"]
        /\ UNCHANGED loaded
  /\ UNCHANGED <<storage, leases, lock, live, known, knownCache, queue, pc,
                 work, history, corruptions>>

RetryStorage(t) ==
  /\ access[t] = "unavailable"
  /\ pc[t] = "idle"
  /\ access' = [access EXCEPT ![t] = "probing"]
  /\ UNCHANGED <<storage, leases, lock, loaded, live, known, knownCache,
                 queue, pc, work, history, faults>>

NeedsLoad(t) ==
  /\ ~loaded[t]
  /\ \/ access[t] = "loading"
     \/ access[t] = "unavailable" /\ queue[t] # <<>>

\* applyLoadedConfig, then classifyLoadResult if the bootstrap is waiting.
Settle(t, data, rev, withCaches, outcome) ==
  /\ live' = [live EXCEPT ![t] =
       [data |-> data, cat |-> IF withCaches THEN cache ELSE NoCatalogs]]
  /\ known' = [known EXCEPT ![t] = rev]
  /\ knownCache' = IF withCaches THEN [knownCache EXCEPT ![t] = cache]
                   ELSE knownCache
  /\ loaded' = [loaded EXCEPT ![t] = TRUE]
  /\ access' = [access EXCEPT ![t] = IF @ = "loading" THEN outcome ELSE @]

LoadReadOnly(t) ==
  /\ t \notin LockTabs
  /\ NeedsLoad(t)
  /\ LET source == IF Valid(canonical) THEN canonical
                   ELSE IF Valid(backup) THEN backup ELSE NoEnvelope
     IN  Settle(t, source.data,
                IF Valid(source) THEN source.rev ELSE known[t],
                TRUE, "degraded-readonly")
  /\ UNCHANGED <<storage, leases, lock, queue, pc, work, history, faults>>

BeginLoad(t) ==
  /\ t \in LockTabs
  /\ NeedsLoad(t)
  /\ Acquire(t, "load")
  /\ UNCHANGED <<storage, leases, tabVars, queue, work, history, faults>>

UpgradeRequired == legacy /\ ~marker /\ ~Newer(canonical)
FreshInstall == ~marker /\ canonical.kind = "none" /\ backup.kind = "none"
FastPath == ~UpgradeRequired /\ (marker \/ Valid(canonical) \/ Valid(backup))

LoadDone(t) == Release(t) /\ UNCHANGED <<storage, leases, queue, history, faults>>

LoadNewer(t) ==
  /\ pc[t] = "load"
  /\ Newer(canonical)
  /\ Settle(t, canonical.data, canonical.rev, TRUE, "degraded-readonly")
  /\ LoadDone(t)

LoadCanonical(t) ==
  /\ pc[t] = "load"
  /\ FastPath
  /\ Valid(canonical)
  /\ canonical.schema = CONFIG_SCHEMA_VERSION
  /\ Settle(t, canonical.data, canonical.rev, TRUE, "ready")
  /\ LoadDone(t)

\* No usable envelope, an old release's keys, or a load that threw: defaults.
LoadDefaults(t) ==
  /\ pc[t] = "load"
  /\ \/ UpgradeRequired
     \/ FastPath /\ ~Newer(canonical) /\ ~Valid(canonical) /\ ~Valid(backup)
     \/ ~FastPath /\ ~Newer(canonical) /\ ~FreshInstall
  /\ Settle(t, {}, known[t], FALSE,
            IF UpgradeRequired THEN "upgrade-required" ELSE "degraded-readonly")
  /\ LoadDone(t)

-----------------------------------------------------------------------------
(* Recovery from the backup: the canonical envelope is rewritten.          *)

\* Faulty variant: recovery resets the settings to their defaults.
RecoveredEmpty == Envelope(CONFIG_SCHEMA_VERSION,
                           MaxRev(canonical.rev, backup.rev) + 1, {})

Recovered == Envelope(CONFIG_SCHEMA_VERSION,
                      MaxRev(canonical.rev, backup.rev) + 1, backup.data)

Recover(t) ==
  /\ pc[t] = "load"
  /\ FastPath
  /\ ~Newer(canonical) /\ ~Valid(canonical)
  /\ Valid(backup)
  /\ \/ /\ WriteAccepted
        /\ canonical' = Recovered
        /\ Settle(t, backup.data, Recovered.rev, TRUE, "ready")
     \/ /\ WriteRejected
        /\ Settle(t, backup.data, known[t], TRUE, "degraded-readonly")
        /\ UNCHANGED canonical
  /\ Release(t)
  /\ UNCHANGED <<backup, marker, legacy, cache, leases, queue, history,
                 corruptions>>

-----------------------------------------------------------------------------
(* First installation and schema migration, each under a lock record that  *)
(* outlives a closed tab until it expires.                                 *)

TakeLease(t, l, at, otherwise) ==
  /\ leases[l] = "free"
  /\ \/ /\ WriteAccepted
        /\ leases' = [leases EXCEPT ![l] = "held"]
        /\ Goto(t, at)
     \/ /\ WriteRejected
        /\ Goto(t, otherwise)
        /\ UNCHANGED leases
  /\ UNCHANGED <<storage, tabVars, queue, work, history, corruptions>>

DropLease(l) == leases' = [leases EXCEPT ![l] = "free"]

ExpireLease(l) ==
  /\ leases[l] = "orphan"
  /\ DropLease(l)
  /\ UNCHANGED <<storage, lock, tabVars, queue, pc, work, history, faults>>

BeginFresh(t) ==
  /\ pc[t] = "load"
  /\ ~UpgradeRequired /\ FreshInstall
  /\ TakeLease(t, "init", "freshCanonical", "loadFailed")

WriteFresh(t) ==
  /\ pc[t] = "freshCanonical"
  /\ \/ /\ WriteAccepted
        /\ canonical' = Envelope(CONFIG_SCHEMA_VERSION, 1, {})
        /\ Goto(t, "freshMarker")
        /\ UNCHANGED leases
     \/ /\ WriteRejected
        /\ Goto(t, "loadFailed")
        /\ DropLease("init")
        /\ UNCHANGED canonical
  /\ UNCHANGED <<backup, marker, legacy, cache, tabVars, queue, work, history,
                 corruptions>>

MarkFresh(t) ==
  /\ pc[t] = "freshMarker"
  /\ DropLease("init")
  /\ \/ /\ WriteAccepted
        /\ marker' = TRUE
        /\ Settle(t, {}, 1, TRUE, "ready")
        /\ Release(t)
     \/ /\ WriteRejected
        /\ Goto(t, "loadFailed")
        /\ UNCHANGED <<marker, tabVars, work>>
  /\ UNCHANGED <<canonical, backup, legacy, cache, queue, history, corruptions>>

MigrationDue == FastPath /\ Valid(canonical)
                /\ canonical.schema < CONFIG_SCHEMA_VERSION

BeginMigration(t) ==
  /\ pc[t] = "load"
  /\ MigrationDue
  /\ TakeLease(t, "migration", "migrateBackup", "loadThrew")

\* The lease of a closed tab: waiting it out does not take it over.
LeaseBusy(t) ==
  /\ pc[t] = "load"
  /\ \/ /\ ~UpgradeRequired /\ FreshInstall /\ leases["init"] = "orphan"
        /\ Settle(t, {}, known[t], FALSE, "degraded-readonly")
     \/ /\ MigrationDue /\ leases["migration"] = "orphan"
        /\ Settle(t, canonical.data, known[t], FALSE, "degraded-readonly")
  /\ LoadDone(t)

MigrateBackup(t) ==
  /\ pc[t] = "migrateBackup"
  /\ \/ WriteAccepted /\ backup' = canonical /\ Goto(t, "migrateCanonical")
     \/ WriteRejected /\ UNCHANGED backup /\ Goto(t, "migrateFailed")
  /\ UNCHANGED <<canonical, marker, legacy, cache, leases, tabVars, queue, work,
                 history, corruptions>>

\* Faulty variants: the migration keeps the revision number, or the defaults.
MigratedSameRev == Envelope(CONFIG_SCHEMA_VERSION, canonical.rev, canonical.data)
MigratedEmpty == Envelope(CONFIG_SCHEMA_VERSION, canonical.rev + 1, {})

Migrated == Envelope(CONFIG_SCHEMA_VERSION, canonical.rev + 1, canonical.data)

MigrateCanonical(t) ==
  /\ pc[t] = "migrateCanonical"
  /\ \/ /\ WriteAccepted
        /\ canonical' = Migrated
        /\ Settle(t, canonical.data, Migrated.rev, TRUE, "ready")
        /\ DropLease("migration")
        /\ Release(t)
     \/ /\ WriteRejected
        /\ Goto(t, "migrateFailed")
        /\ UNCHANGED <<canonical, leases, tabVars, work>>
  /\ UNCHANGED <<backup, marker, legacy, cache, queue, history, corruptions>>

MigrateFailed(t) ==
  /\ pc[t] = "migrateFailed"
  /\ Settle(t, canonical.data, canonical.rev, TRUE, "degraded-readonly")
  /\ DropLease("migration")
  /\ Release(t)
  /\ UNCHANGED <<storage, queue, history, faults>>

LoadFailed(t) ==
  /\ pc[t] = "loadFailed"
  /\ Settle(t, {}, known[t], FALSE, "degraded-readonly")
  /\ LoadDone(t)
  /\ UNCHANGED leases

\* loadFastPath is returned without await: what it throws passes the catch.
LoadThrew(t) ==
  /\ pc[t] = "loadThrew"
  /\ loaded' = [loaded EXCEPT ![t] = TRUE]
  /\ access' = [access EXCEPT ![t] = IF @ = "loading" THEN "unavailable" ELSE @]
  /\ LoadDone(t)
  /\ UNCHANGED <<leases, live, known, knownCache>>

-----------------------------------------------------------------------------
(* Requests.  An updater changes the draft it is given under the lock; a   *)
(* save and an import carry the section their caller built beforehand.     *)

Request(t) ==
  \E kind \in Kinds, e \in SUBSET Edits, c \in SUBSET Catalogs :
    /\ access[t] \notin {"closed", "probing"}
    /\ kind # "update" => access[t] = "ready"
    /\ Len(queue[t]) < MaxQueue
    /\ e \cap requested = {}
    /\ Cardinality(e) = IF kind = "catalog" THEN 0 ELSE 1
    /\ Cardinality(c) <= IF kind = "catalog" \/ (kind = "import" /\ catalogNo < MaxCatalog)
                         THEN 1 ELSE 0
    /\ kind = "catalog" => c # {} /\ catalogNo < MaxCatalog
    /\ requested' = requested \cup e
    /\ catalogNo' = IF c = {} THEN catalogNo ELSE catalogNo + 1
    /\ queue' = [queue EXCEPT ![t] = Append(@,
         [kind |-> kind, edits |-> e, cand |-> live[t].data \cup e,
          cats |-> c, val |-> catalogNo'])]
    /\ UNCHANGED <<storage, leases, lock, tabVars, pc, work, acked, faults>>

\* Faulty variant: requests of a tab whose storage is unavailable stay queued.
RefuseReadOnly(t) ==
  /\ queue[t] # <<>>
  /\ pc[t] = "idle"
  /\ loaded[t]
  /\ access[t] \in {"degraded-readonly", "upgrade-required"}
  /\ queue' = [queue EXCEPT ![t] = Tail(@)]
  /\ UNCHANGED <<storage, leases, lock, tabVars, pc, work, history, faults>>

Refuse(t) ==
  /\ queue[t] # <<>>
  /\ pc[t] = "idle"
  /\ loaded[t]
  /\ access[t] \in {"degraded-readonly", "upgrade-required", "unavailable"}
  /\ queue' = [queue EXCEPT ![t] = Tail(@)]
  /\ UNCHANGED <<storage, leases, lock, tabVars, pc, work, history, faults>>

Behind(t) == canonical.rev > known[t]

\* Faulty variant: a queued update is built on the live copy as it is.
RefreshedNever(t) ==
  [data |-> live[t].data, cat |-> live[t].cat, rev |-> known[t]]

\* refreshConfigIfStale: the tab's view with what other tabs stored since.
Refreshed(t) ==
  IF ~Behind(t) /\ cache = knownCache[t]
  THEN [data |-> live[t].data, cat |-> live[t].cat, rev |-> known[t]]
  ELSE [data |-> IF Behind(t) THEN canonical.data ELSE live[t].data,
        cat |-> cache, rev |-> canonical.rev]

Refresh(t) ==
  /\ live' = [live EXCEPT ![t] = [data |-> Refreshed(t).data, cat |-> Refreshed(t).cat]]
  /\ known' = [known EXCEPT ![t] = Refreshed(t).rev]
  /\ knownCache' = [knownCache EXCEPT ![t] = cache]
  /\ UNCHANGED <<access, loaded>>

\* Faulty variant: whatever envelope is newer is taken as the base.
RefreshThrowsNever(t) == FALSE /\ Behind(t)

RefreshThrows(t) ==
  Behind(t) /\ ~(Valid(canonical) /\ canonical.schema = CONFIG_SCHEMA_VERSION)

Ready(t, kinds) ==
  /\ queue[t] # <<>>
  /\ Head(queue[t]).kind \in kinds
  /\ loaded[t]
  /\ access[t] = "ready"

\* saveConfigKeysNow refuses a candidate built before the view it is checked on.
StaleSave(t) ==
  LET r == Head(queue[t])
  IN  \/ r.kind = "save" /\ Behind(t)
      \/ \E s \in r.cats : r.kind = "catalog" /\ cache[s] # live[t].cat[s]

RefuseStale(t) ==
  /\ lock = NoTab
  /\ pc[t] = "idle"
  /\ Ready(t, Kinds)
  /\ \/ Head(queue[t]).kind \in {"update", "import"} /\ RefreshThrows(t)
     \/ Head(queue[t]).kind \in {"save", "catalog"}
        /\ (StaleSave(t) \/ RefreshThrows(t))
  /\ queue' = [queue EXCEPT ![t] = Tail(@)]
  /\ UNCHANGED <<storage, leases, lock, tabVars, pc, work, history, faults>>

\* The updater returned false: the refreshed view stays, nothing is written.
SkipUpdate(t) ==
  /\ lock = NoTab
  /\ pc[t] = "idle"
  /\ Ready(t, {"update"})
  /\ ~RefreshThrows(t)
  /\ Refresh(t)
  /\ queue' = [queue EXCEPT ![t] = Tail(@)]
  /\ UNCHANGED <<storage, leases, lock, pc, work, history, faults>>

Begin(t, draft, at) ==
  LET r == Head(queue[t])
  IN  /\ ~RefreshThrows(t)
      /\ Acquire(t, at)
      /\ Refresh(t)
      /\ work' = [work EXCEPT ![t] =
           [NoWork EXCEPT !.draft = draft, !.cats = r.cats, !.val = r.val,
                          !.todo = r.cats]]
      /\ UNCHANGED <<storage, leases, queue, history, faults>>

BeginUpdate(t) ==
  /\ Ready(t, {"update"})
  /\ Begin(t, Refreshed(t).data \cup Head(queue[t]).edits, "catalogs")

BeginImport(t) ==
  /\ Ready(t, {"import"})
  /\ Begin(t, Head(queue[t]).cand, "catalogs")

BeginSave(t) ==
  /\ Ready(t, {"save"})
  /\ ~StaleSave(t)
  /\ Begin(t, Head(queue[t]).cand, "catalogs")

BeginCatalog(t) ==
  /\ Ready(t, {"catalog"})
  /\ ~StaleSave(t)
  /\ Begin(t, Refreshed(t).data, "cacheOnly")

\* A cache-only save: the catalog is written, then applied to the live copy.
SaveCatalog(t) ==
  /\ pc[t] = "cacheOnly"
  /\ \/ /\ WriteAccepted
        /\ \E s \in work[t].todo :
             /\ cache' = WithCatalog(cache, s, work[t].val)
             /\ knownCache' = [knownCache EXCEPT ![t] = WithCatalog(@, s, work[t].val)]
             /\ live' = [live EXCEPT ![t].cat = WithCatalog(@, s, work[t].val)]
     \/ WriteRejected /\ UNCHANGED <<cache, knownCache, live>>
  /\ Answer(t)
  /\ UNCHANGED <<canonical, backup, marker, legacy, leases, access, loaded,
                 known, history, corruptions>>

-----------------------------------------------------------------------------
(* commitConfigNow: catalogs first, then the previous envelope to the      *)
(* backup key, then the new envelope; a rejected write rolls catalogs back.*)

Fail(t) ==
  /\ WriteRejected
  /\ Goto(t, "rollback")

\* Faulty variant: the catalog written before a failure is not rolled back.
PersistCatalogForGood(t) ==
  /\ pc[t] = "catalogs"
  /\ \E s \in work[t].todo :
       /\ work' = [work EXCEPT ![t].todo = @ \ {s}]
       /\ \/ /\ WriteAccepted
             /\ cache' = WithCatalog(cache, s, work[t].val)
             /\ knownCache' = [knownCache EXCEPT ![t] = WithCatalog(@, s, work[t].val)]
             /\ UNCHANGED <<pc, lock>>
          \/ Fail(t) /\ UNCHANGED <<cache, knownCache>>
  /\ UNCHANGED <<canonical, backup, marker, legacy, leases, access, loaded, live,
                 known, queue, history, corruptions>>

PersistCatalog(t) ==
  /\ pc[t] = "catalogs"
  /\ \E s \in work[t].todo :
       /\ work' = [work EXCEPT ![t] =
            [work[t] EXCEPT !.todo = @ \ {s}, !.undo = Append(@, <<s, cache[s]>>)]]
       /\ \/ /\ WriteAccepted
             /\ cache' = WithCatalog(cache, s, work[t].val)
             /\ knownCache' = [knownCache EXCEPT ![t] = WithCatalog(@, s, work[t].val)]
             /\ UNCHANGED <<pc, lock>>
          \/ Fail(t) /\ UNCHANGED <<cache, knownCache>>
  /\ UNCHANGED <<canonical, backup, marker, legacy, leases, access, loaded, live,
                 known, queue, history, corruptions>>

\* Faulty variant: the first backup is kept for ever.
PersistBackupOnce(t) ==
  /\ pc[t] = "catalogs"
  /\ work[t].todo = {}
  /\ work' = [work EXCEPT ![t].env =
       Envelope(CONFIG_SCHEMA_VERSION, canonical.rev + 1, work[t].draft)]
  /\ \/ /\ WriteAccepted
        /\ backup' = IF Valid(canonical) /\ backup.kind = "none" THEN canonical
                     ELSE backup
        /\ Goto(t, "canonical")
     \/ Valid(canonical) /\ Fail(t) /\ UNCHANGED backup
  /\ UNCHANGED <<canonical, marker, legacy, cache, leases, tabVars, queue,
                 history, corruptions>>

PersistBackup(t) ==
  /\ pc[t] = "catalogs"
  /\ work[t].todo = {}
  /\ work' = [work EXCEPT ![t].env =
       Envelope(CONFIG_SCHEMA_VERSION, canonical.rev + 1, work[t].draft)]
  /\ \/ /\ WriteAccepted
        /\ backup' = IF Valid(canonical) THEN canonical ELSE backup
        /\ Goto(t, "canonical")
     \/ Valid(canonical) /\ Fail(t) /\ UNCHANGED backup
  /\ UNCHANGED <<canonical, marker, legacy, cache, leases, tabVars, queue,
                 history, corruptions>>

PersistCanonical(t) ==
  /\ pc[t] = "canonical"
  /\ \/ WriteAccepted /\ canonical' = work[t].env /\ Goto(t, "apply")
     \/ Fail(t) /\ UNCHANGED canonical
  /\ UNCHANGED <<backup, marker, legacy, cache, leases, tabVars, queue, work,
                 history, corruptions>>

\* Faulty variant: the revision is recorded before the draft becomes live.
ApplyRevisionOnly(t) ==
  /\ pc[t] = "apply"
  /\ known' = [known EXCEPT ![t] = work[t].env.rev]
  /\ acked' = [acked EXCEPT ![t] = @ \cup Head(queue[t]).edits]
  /\ Answer(t)
  /\ UNCHANGED <<storage, leases, access, loaded, live, knownCache, requested,
                 catalogNo, faults>>

Apply(t) ==
  /\ pc[t] = "apply"
  /\ live' = [live EXCEPT ![t] =
       [data |-> work[t].draft,
        cat |-> [s \in Catalogs |-> IF s \in work[t].cats THEN work[t].val ELSE @.cat[s]]]]
  /\ known' = [known EXCEPT ![t] = work[t].env.rev]
  /\ acked' = [acked EXCEPT ![t] = @ \cup Head(queue[t]).edits]
  /\ Answer(t)
  /\ UNCHANGED <<storage, leases, access, loaded, knownCache, requested,
                 catalogNo, faults>>

\* A catalog that was absent is deleted, which leaves knownCachePayloads alone.
RollBack(t) ==
  /\ pc[t] = "rollback"
  /\ IF work[t].undo = <<>>
     THEN Answer(t) /\ UNCHANGED <<cache, knownCache, failures>>
     ELSE LET n == Len(work[t].undo)
              s == work[t].undo[n][1]
              v == work[t].undo[n][2]
          IN  /\ work' = [work EXCEPT ![t].undo = SubSeq(@, 1, n - 1)]
              /\ \/ /\ WriteAccepted
                    /\ cache' = WithCatalog(cache, s, v)
                    /\ knownCache' = IF v = 0 THEN knownCache
                         ELSE [knownCache EXCEPT ![t] = WithCatalog(@, s, v)]
                 \/ WriteRejected /\ UNCHANGED <<cache, knownCache>>
              /\ UNCHANGED <<lock, pc, queue>>
  /\ UNCHANGED <<canonical, backup, marker, legacy, leases, access, loaded, live,
                 known, history, corruptions>>

-----------------------------------------------------------------------------
(* The environment.                                                        *)

\* Closing the tab ends its transaction and frees the Web Lock, not a lease.
CloseTab(t) ==
  /\ access[t] # "closed"
  /\ access' = [access EXCEPT ![t] = "closed"]
  /\ loaded' = [loaded EXCEPT ![t] = FALSE]
  /\ live' = [live EXCEPT ![t] = Defaults]
  /\ known' = [known EXCEPT ![t] = 0]
  /\ knownCache' = [knownCache EXCEPT ![t] = NoCatalogs]
  /\ queue' = [queue EXCEPT ![t] = <<>>]
  /\ pc' = [pc EXCEPT ![t] = "idle"]
  /\ work' = [work EXCEPT ![t] = NoWork]
  /\ lock' = IF lock = t THEN NoTab ELSE lock
  /\ leases' = [l \in DOMAIN leases |->
       IF lock = t /\ leases[l] = "held" THEN "orphan" ELSE leases[l]]
  /\ UNCHANGED <<storage, history, faults>>

\* The canonical envelope is damaged or wiped outside the protocol.
Corrupt ==
  /\ lock = NoTab
  /\ corruptions < MaxCorruptions
  /\ canonical.kind = "ok"
  /\ corruptions' = corruptions + 1
  /\ \/ canonical' = NoEnvelope
     \/ canonical' = [NoEnvelope EXCEPT !.kind = "bad", !.rev = canonical.rev]
  /\ UNCHANGED <<backup, marker, legacy, cache, leases, lock, tabVars, queue,
                 pc, work, history, failures>>

\* A page load of a later release migrates the store, under the same lock.
NewerReleaseMigrates ==
  /\ NewerRelease
  /\ lock = NoTab
  /\ Valid(canonical)
  /\ backup' = canonical
  /\ canonical' = Envelope(CONFIG_SCHEMA_VERSION + 1, canonical.rev + 1, canonical.data)
  /\ UNCHANGED <<marker, legacy, cache, leases, lock, tabVars, queue, pc, work,
                 history, faults>>

Load(t) == \/ LoadReadOnly(t) \/ LoadNewer(t) \/ LoadCanonical(t)
           \/ LoadDefaults(t) \/ Recover(t) \/ BeginFresh(t) \/ WriteFresh(t)
           \/ MarkFresh(t) \/ BeginMigration(t) \/ LeaseBusy(t)
           \/ MigrateBackup(t) \/ MigrateCanonical(t) \/ MigrateFailed(t)
           \/ LoadFailed(t) \/ LoadThrew(t)

Transact(t) == \/ SaveCatalog(t) \/ PersistCatalog(t) \/ PersistBackup(t)
               \/ PersistCanonical(t) \/ Apply(t) \/ RollBack(t)

BeginRequest(t) == \/ RefuseStale(t) \/ SkipUpdate(t) \/ BeginUpdate(t)
                   \/ BeginImport(t) \/ BeginSave(t) \/ BeginCatalog(t)

Next ==
  \/ \E t \in Tabs : \/ OpenTab(t) \/ Probe(t) \/ RetryStorage(t) \/ BeginLoad(t)
                     \/ Load(t) \/ Request(t) \/ Refuse(t) \/ BeginRequest(t)
                     \/ Transact(t) \/ CloseTab(t)
  \/ \E l \in {"init", "migration"} : ExpireLease(l)
  \/ Corrupt
  \/ NewerReleaseMigrates

Spec == Init /\ [][Next]_vars

\* Promises and the browser's FIFO lock queue keep a tab's protocol moving;
\* users, rejected writes and closing tabs owe nothing.
Fairness ==
  \A t \in Tabs : /\ WF_vars(Probe(t))
                  /\ WF_vars(Load(t))
                  /\ WF_vars(Transact(t))
                  /\ WF_vars(Refuse(t))
                  /\ SF_vars(BeginLoad(t))
                  /\ SF_vars(BeginRequest(t))

FairSpec == Spec /\ Fairness

-----------------------------------------------------------------------------
(* Properties.                                                             *)

Places == {"idle", "load", "freshCanonical", "freshMarker", "migrateBackup",
           "migrateCanonical", "migrateFailed", "loadFailed", "loadThrew",
           "cacheOnly", "catalogs", "canonical", "apply", "rollback"}

\* Every variable has its type, and only the holder of the Web Lock is inside
\* a transaction (withConfigWriteLock).
StorageType ==
  /\ canonical \in Envelopes
  /\ backup \in Envelopes
  /\ marker \in BOOLEAN
  /\ legacy \in BOOLEAN
  /\ cache \in [Catalogs -> Nat]

TabType ==
  /\ access \in [Tabs -> {"closed", "probing", "loading", "ready",
                          "degraded-readonly", "upgrade-required", "unavailable"}]
  /\ loaded \in [Tabs -> BOOLEAN]
  /\ live \in [Tabs -> Views]
  /\ known \in [Tabs -> Nat]
  /\ knownCache \in [Tabs -> [Catalogs -> Nat]]

WorkType ==
  work \in [Tabs -> Works]

HistoryType ==
  /\ requested \subseteq Edits
  /\ acked \in [Tabs -> SUBSET Edits]
  /\ catalogNo \in Nat /\ failures \in Nat /\ corruptions \in Nat

LockType ==
  /\ leases \in [{"init", "migration"} -> {"free", "held", "orphan"}]
  /\ lock \in Tabs \cup {NoTab}
  /\ pc \in [Tabs -> Places]
  /\ \A t \in Tabs : pc[t] # "idle" => lock = t

TypeOK ==
  /\ StorageType
  /\ TabType
  /\ queue \in [Tabs -> Seq(Requests)]
  /\ WorkType
  /\ HistoryType
  /\ LockType

Acked == UNION {acked[t] : t \in Tabs}

\* No lost update: an edit a tab was told is committed is in the stored
\* envelope from then on, whatever the other tabs commit, load or migrate,
\* wherever one is closed and whichever write is rejected.
NoLostUpdate == Acked \subseteq canonical.data

\* The revision tells a stale view: a writable tab never knows a revision the
\* store has not reached, and one that knows the stored revision holds the
\* stored settings (what refreshConfigIfStale and the stale checks rely on).
RevisionIdentifiesData ==
  \A t \in Tabs : access[t] = "ready" =>
    /\ known[t] <= canonical.rev
    /\ known[t] = canonical.rev => live[t].data = canonical.data

\* The last-known-good envelope lacks at most the latest commit, so one
\* damaged canonical envelope costs at most one acknowledged edit.
BackupTrailsByOneCommit == Cardinality(Acked \ backup.data) <= 1

\* A load that recovers a damaged store loses at most the latest acknowledged
\* edit, even when the damage follows a closing or a rejected write.
RecoveryLosesAtMostOne ==
  [][\A t \in Tabs : pc[t] = "load" /\ canonical' # canonical =>
       Cardinality(Acked \ canonical'.data) <= 1]_vars

\* A tab whose catalog payloads look current holds the catalogs that are
\* stored, except while its own transaction is between the two writes.
CatalogViewCurrent ==
  \A t \in Tabs : access[t] = "ready" /\ pc[t] = "idle" =>
    \A s \in Catalogs : knownCache[t][s] = cache[s] => live[t].cat[s] = cache[s]

\* An envelope of a later schema is never replaced by this release: not by a
\* save, a recovery or a migration of a tab that loaded before it appeared.
NewerSchemaPreserved == [][Newer(canonical) => canonical' = canonical]_vars

\* Stored revisions only grow: no writer goes back to a number another tab
\* may know.
RevisionGrows == [][canonical' # canonical => canonical'.rev > canonical.rev]_vars

\* A save or a direct commit prepared in a stale tab does not replace what
\* another tab has committed in the meantime.
NoOtherTabReplaced ==
  [][\A t \in Tabs : pc[t] = "canonical" /\ canonical' # canonical =>
       \A u \in Tabs \ {t} : acked[u] \cap canonical.data \subseteq canonical'.data]_vars

\* Every request is answered, or dropped with its tab.
RequestsAnswered == \A t \in Tabs : queue[t] # <<>> ~> queue[t] = <<>>

\* Updates from any number of tabs, with closings, rejected writes, fresh
\* installations and migrations, appear as one atomic versioned register.
Register == INSTANCE ConfigRegister
              WITH value <- canonical.data, revision <- canonical.rev
ImplementsRegister == Register!Spec
=============================================================================
