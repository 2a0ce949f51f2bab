-------------------------- MODULE ConfigStore_proof --------------------------
(* Theorems about the configuration store, for every number of tabs, edits *)
(* and catalogs and every bound.  First, what holds whatever happens; then *)
(* the store as one atomic versioned register.                             *)
EXTENDS ConfigStore, FiniteSetTheorems, TLAPS

-----------------------------
(* A part of the type invariant whose variables stay is kept.              *)

LEMMA StorageStays == StorageType /\ UNCHANGED storage => StorageType'
  BY DEF StorageType, storage

LEMMA TabStays == TabType /\ UNCHANGED tabVars => TabType'
  BY DEF TabType, tabVars

LEMMA HistoryStays ==
  HistoryType /\ UNCHANGED <<history, faults>> => HistoryType'
  BY DEF HistoryType, history, faults

LEMMA WriteCounted ==
  ASSUME HistoryType, WriteAccepted \/ WriteRejected,
         UNCHANGED <<history, corruptions>>
  PROVE  HistoryType'
  BY DEF HistoryType, WriteAccepted, WriteRejected, history

LEMMA WorkStays == WorkType /\ UNCHANGED work => WorkType'
  BY DEF WorkType

LEMMA LockStays == LockType /\ UNCHANGED <<lock, leases, pc>> => LockType'
  BY DEF LockType

-----------------------------
(* What the shared operators preserve.                                     *)

LEMMA EnvelopeType ==
  ASSUME NEW s \in 0..3, NEW r \in Nat, NEW d \in SUBSET Edits
  PROVE  Envelope(s, r, d) \in Envelopes
  BY DEF Envelope, Envelopes

LEMMA NoWorkType == NoWork \in Works
  BY DEF NoWork, Works, NoEnvelope, Envelopes

LEMMA WithCatalogType ==
  ASSUME NEW c \in [Catalogs -> Nat], NEW s \in Catalogs, NEW v \in Nat
  PROVE  WithCatalog(c, s, v) \in [Catalogs -> Nat]
  BY DEF WithCatalog

LEMMA OneWorkType ==
  ASSUME WorkType, NEW t \in Tabs, NEW w \in Works, work' = [work EXCEPT ![t] = w]
  PROVE  WorkType'
  BY DEF WorkType

LEMMA OneCacheType ==
  ASSUME knownCache \in [Tabs -> [Catalogs -> Nat]], NEW t \in Tabs,
         NEW c \in [Catalogs -> Nat], knownCache' = [knownCache EXCEPT ![t] = c]
  PROVE  knownCache' \in [Tabs -> [Catalogs -> Nat]]
  OBVIOUS

LEMMA OneQueueType ==
  ASSUME queue \in [Tabs -> Seq(Requests)], NEW t \in Tabs,
         NEW q \in Seq(Requests), queue' = [queue EXCEPT ![t] = q]
  PROVE  queue' \in [Tabs -> Seq(Requests)]
  OBVIOUS

LEMMA ReleaseDropType ==
  ASSUME LockType, WorkType, NEW t \in Tabs, Release(t), pc[t] # "idle",
         leases' \in [{"init", "migration"} -> {"free", "held", "orphan"}]
  PROVE  LockType' /\ WorkType'
  BY NoWorkType DEF LockType, WorkType, Release, Places

LEMMA ReleaseType ==
  ASSUME LockType, WorkType, NEW t \in Tabs, Release(t), pc[t] # "idle",
         UNCHANGED leases
  PROVE  LockType' /\ WorkType'
  BY ReleaseDropType DEF LockType

LEMMA DropLeaseType ==
  ASSUME LockType, NEW l \in {"init", "migration"}, DropLease(l)
  PROVE  leases' \in [{"init", "migration"} -> {"free", "held", "orphan"}]
  BY DEF LockType, DropLease

LEMMA GotoType ==
  ASSUME LockType, NEW t \in Tabs, NEW p \in Places, Goto(t, p), pc[t] # "idle",
         leases' \in [{"init", "migration"} -> {"free", "held", "orphan"}]
  PROVE  LockType'
  BY DEF LockType, Goto

LEMMA SettleType ==
  ASSUME TabType, StorageType, NEW t \in Tabs, NEW d \in SUBSET Edits,
         NEW r \in Nat, NEW c \in BOOLEAN,
         NEW o \in {"ready", "degraded-readonly", "upgrade-required"},
         Settle(t, d, r, c, o)
  PROVE  TabType'
  BY DEF TabType, StorageType, Settle, NoCatalogs, Views, Envelopes

LEMMA TailType ==
  ASSUME NEW q \in Seq(Requests), q # <<>>
  PROVE  Tail(q) \in Seq(Requests)
  OBVIOUS

LEMMA AnswerType ==
  ASSUME LockType, WorkType, queue \in [Tabs -> Seq(Requests)], NEW t \in Tabs,
         Answer(t), pc[t] # "idle", UNCHANGED leases
  PROVE  LockType' /\ WorkType' /\ queue' \in [Tabs -> Seq(Requests)]
<1>1. LockType' /\ WorkType'
  BY ReleaseType DEF Answer
<1>2. queue[t] \in Seq(Requests) /\ queue[t] # <<>>
  BY DEF Answer
<1>3. queue' = [queue EXCEPT ![t] = Tail(queue[t])]
  BY DEF Answer
<1>4. QED
  BY <1>1, <1>2, <1>3, TailType, OneQueueType

-----------------------------
(* The type invariant.                                                     *)

LEMMA HeadType ==
  ASSUME NEW q \in Seq(Requests), q # <<>>
  PROVE  /\ Head(q) \in Requests
         /\ Head(q).edits \in SUBSET Edits /\ Head(q).cand \in SUBSET Edits
         /\ Head(q).cats \in SUBSET Catalogs /\ Head(q).val \in Nat
<1>1. Head(q) \in Requests
  OBVIOUS
<1>2. QED
  BY <1>1 DEF Requests

LEMMA RefreshedType ==
  ASSUME TabType, StorageType, NEW t \in Tabs
  PROVE  /\ Refreshed(t).data \in SUBSET Edits
         /\ Refreshed(t).cat \in [Catalogs -> Nat]
         /\ Refreshed(t).rev \in Nat
  BY DEF TabType, StorageType, Refreshed, Envelopes, Views

LEMMA RefreshType ==
  ASSUME TabType, StorageType, NEW t \in Tabs, Refresh(t)
  PROVE  TabType'
  BY RefreshedType DEF TabType, StorageType, Refresh, Views

LEMMA BeginType ==
  ASSUME TypeOK, NEW t \in Tabs, NEW d \in SUBSET Edits, queue[t] # <<>>,
         NEW p \in Places, Begin(t, d, p)
  PROVE  TypeOK'
<1>1. StorageType' /\ HistoryType' /\ TabType' /\ queue' = queue
  BY StorageStays, HistoryStays, RefreshType
     DEF Begin, TypeOK, storage, history, faults
<1>2. LockType'
  BY ConfigAssumption DEF Begin, Acquire, TypeOK, LockType
<1>3. WorkType'
  BY HeadType, NoWorkType DEF Begin, TypeOK, WorkType, NoWork, Works
<1>4. QED
  BY <1>1, <1>2, <1>3 DEF TypeOK

LEMMA TypeInit == Init => TypeOK
<1> SUFFICES ASSUME Init PROVE TypeOK
  OBVIOUS
<1> USE ConfigAssumption
<1>1. StorageType /\ HistoryType
  <2>1. PICK s \in Starts :
          /\ canonical = s.canonical /\ backup = s.backup
          /\ marker = s.marker /\ legacy = s.legacy
          /\ requested = s.canonical.data \cup s.backup.data
    BY DEF Init
  <2>2. s.canonical \in Envelopes /\ s.backup \in Envelopes
        /\ s.marker \in BOOLEAN /\ s.legacy \in BOOLEAN
    BY DEF ConfigAssumption
  <2>3. requested \subseteq Edits
    BY <2>1, <2>2 DEF Envelopes
  <2>4. QED
    BY <2>1, <2>2, <2>3 DEF Init, StorageType, HistoryType, NoCatalogs
<1>2. TabType
  BY DEF Init, TabType, Defaults, NoCatalogs, Views
<1>3. WorkType
  BY NoWorkType DEF Init, WorkType
<1>4. LockType
  BY DEF Init, LockType, Places
<1>5. queue \in [Tabs -> Seq(Requests)]
  BY DEF Init
<1>6. QED
  BY <1>1, <1>2, <1>3, <1>4, <1>5 DEF TypeOK

LEMMA TypeStep == TypeOK /\ [Next]_vars => TypeOK'
<1> SUFFICES ASSUME TypeOK, [Next]_vars PROVE TypeOK'
  OBVIOUS
<1> USE ConfigAssumption
<1>1. ASSUME NEW t \in Tabs, OpenTab(t) PROVE TypeOK'
  BY <1>1, StorageStays, HistoryStays, WorkStays, LockStays
     DEF OpenTab, TypeOK, TabType, history, faults, storage
<1>2. ASSUME NEW t \in Tabs, Probe(t) PROVE TypeOK'
  <2>1. TabType'
    BY <1>2 DEF Probe, TypeOK, TabType
  <2>2. HistoryType'
    BY <1>2 DEF Probe, TypeOK, HistoryType, WriteAccepted, WriteRejected, history
  <2>3. QED
    BY <1>2, <2>1, <2>2, StorageStays, WorkStays, LockStays
       DEF Probe, TypeOK, storage
<1>3. ASSUME NEW t \in Tabs, RetryStorage(t) PROVE TypeOK'
  BY <1>3, StorageStays, HistoryStays, WorkStays, LockStays
     DEF RetryStorage, TypeOK, TabType, history, faults, storage
<1>4. ASSUME NEW t \in Tabs, BeginLoad(t) PROVE TypeOK'
  BY <1>4, StorageStays, TabStays, HistoryStays, WorkStays
     DEF BeginLoad, TypeOK, Acquire, LockType, Places, history, faults, storage, tabVars
<1>5. ASSUME NEW t \in Tabs, LoadReadOnly(t) PROVE TypeOK'
  BY <1>5, StorageStays, HistoryStays, ReleaseType, SettleType, LockStays, WorkStays
     DEF LoadReadOnly, TypeOK, StorageType, TabType, NoEnvelope, Envelopes, history, faults, storage
<1>6. ASSUME NEW t \in Tabs, LoadNewer(t) PROVE TypeOK'
  BY <1>6, StorageStays, HistoryStays, ReleaseType, SettleType, LockStays, WorkStays
     DEF LoadNewer, TypeOK, LoadDone, StorageType, TabType, Envelopes, history, faults, storage
<1>7. ASSUME NEW t \in Tabs, LoadCanonical(t) PROVE TypeOK'
  BY <1>7, StorageStays, HistoryStays, ReleaseType, SettleType, LockStays, WorkStays
     DEF LoadCanonical, TypeOK, LoadDone, StorageType, TabType, Envelopes, history, faults, storage
<1>8. ASSUME NEW t \in Tabs, LoadDefaults(t) PROVE TypeOK'
  BY <1>8, StorageStays, HistoryStays, ReleaseType, SettleType, LockStays, WorkStays
     DEF LoadDefaults, TypeOK, LoadDone, StorageType, TabType, Envelopes, history, faults, storage
<1>9. ASSUME NEW t \in Tabs, Recover(t) PROVE TypeOK'
  <2>1. Recovered \in Envelopes /\ Recovered.rev \in Nat /\ backup.data \in SUBSET Edits
    BY EnvelopeType
       DEF TypeOK, StorageType, Recovered, MaxRev, CONFIG_SCHEMA_VERSION, Envelope,
           Envelopes
  <2>2. LockType' /\ WorkType'
    BY <1>9, ReleaseType DEF Recover, TypeOK
  <2>3. TabType'
    BY <1>9, <2>1, SettleType DEF Recover, TypeOK, TabType
  <2>4. StorageType' /\ HistoryType'
    <3>1. HistoryType'
      BY <1>9, WriteCounted DEF Recover, TypeOK
    <3>2. StorageType'
      BY <1>9, <2>1 DEF Recover, TypeOK, StorageType
    <3>3. QED
      BY <3>1, <3>2
  <2>5. QED
    BY <1>9, <2>2, <2>3, <2>4 DEF Recover, TypeOK
<1>10. ASSUME NEW t \in Tabs, BeginFresh(t) PROVE TypeOK'
  BY <1>10, StorageStays, TabStays, WorkStays, GotoType
     DEF BeginFresh, TypeOK, TakeLease, LockType, Places, HistoryType, WriteAccepted, WriteRejected, history, storage, tabVars
<1>11. ASSUME NEW t \in Tabs, WriteFresh(t) PROVE TypeOK'
  BY <1>11, TabStays, WorkStays, GotoType, EnvelopeType
     DEF WriteFresh, TypeOK, DropLease, LockType, Places, StorageType, HistoryType, CONFIG_SCHEMA_VERSION, WriteAccepted, WriteRejected, history, tabVars
<1>12. ASSUME NEW t \in Tabs, MarkFresh(t) PROVE TypeOK'
  <2>1. LockType' /\ WorkType'
    <3>1. leases' \in [{"init", "migration"} -> {"free", "held", "orphan"}]
          /\ pc[t] # "idle"
      BY <1>12, DropLeaseType DEF MarkFresh, TypeOK
    <3>2. CASE Release(t)
      BY <3>1, <3>2, ReleaseDropType DEF TypeOK
    <3>3. CASE Goto(t, "loadFailed") /\ UNCHANGED work
      BY <3>1, <3>3, GotoType, WorkStays DEF TypeOK, Places
    <3>4. QED
      BY <1>12, <3>2, <3>3 DEF MarkFresh
  <2>2. TabType'
    BY <1>12, SettleType, TabStays DEF MarkFresh, TypeOK, tabVars
  <2>3. StorageType' /\ HistoryType'
    <3>1. HistoryType'
      BY <1>12, WriteCounted DEF MarkFresh, TypeOK
    <3>2. StorageType'
      BY <1>12 DEF MarkFresh, TypeOK, StorageType
    <3>3. QED
      BY <3>1, <3>2
  <2>4. QED
    BY <1>12, <2>1, <2>2, <2>3 DEF MarkFresh, TypeOK
<1>13. ASSUME NEW t \in Tabs, BeginMigration(t) PROVE TypeOK'
  BY <1>13, StorageStays, TabStays, WorkStays, GotoType
     DEF BeginMigration, TypeOK, TakeLease, LockType, Places, HistoryType, WriteAccepted, WriteRejected, history, storage, tabVars
<1>14. ASSUME NEW t \in Tabs, LeaseBusy(t) PROVE TypeOK'
  BY <1>14, StorageStays, HistoryStays, ReleaseType, SettleType, LockStays, WorkStays
     DEF LeaseBusy, TypeOK, LoadDone, StorageType, TabType, Envelopes, history, faults, storage
<1>15. ASSUME NEW t \in Tabs, MigrateBackup(t) PROVE TypeOK'
  BY <1>15, TabStays, WorkStays, GotoType
     DEF MigrateBackup, TypeOK, LockType, Places, StorageType, HistoryType, WriteAccepted, WriteRejected, history, tabVars
<1>16. ASSUME NEW t \in Tabs, MigrateCanonical(t) PROVE TypeOK'
  <2>1. Migrated \in Envelopes /\ Migrated.rev \in Nat /\ canonical.data \in SUBSET Edits
    BY EnvelopeType
       DEF TypeOK, StorageType, Migrated, CONFIG_SCHEMA_VERSION, Envelope, Envelopes
  <2>2. LockType' /\ WorkType'
    <3>1. leases' \in [{"init", "migration"} -> {"free", "held", "orphan"}]
          /\ pc[t] # "idle"
      BY <1>16, DropLeaseType DEF MigrateCanonical, TypeOK, LockType
    <3>2. CASE Release(t)
      BY <3>1, <3>2, ReleaseDropType DEF TypeOK
    <3>3. CASE Goto(t, "migrateFailed") /\ UNCHANGED work
      BY <3>1, <3>3, GotoType, WorkStays DEF TypeOK, Places
    <3>4. QED
      BY <1>16, <3>2, <3>3 DEF MigrateCanonical
  <2>3. TabType'
    BY <1>16, <2>1, SettleType, TabStays DEF MigrateCanonical, TypeOK, tabVars
  <2>4. StorageType' /\ HistoryType'
    <3>1. HistoryType'
      BY <1>16, WriteCounted DEF MigrateCanonical, TypeOK
    <3>2. StorageType'
      BY <1>16, <2>1 DEF MigrateCanonical, TypeOK, StorageType
    <3>3. QED
      BY <3>1, <3>2
  <2>5. QED
    BY <1>16, <2>2, <2>3, <2>4 DEF MigrateCanonical, TypeOK
<1>17. ASSUME NEW t \in Tabs, MigrateFailed(t) PROVE TypeOK'
  <2>1. LockType' /\ WorkType'
    BY <1>17, DropLeaseType, ReleaseDropType DEF MigrateFailed, TypeOK
  <2>2. TabType'
    BY <1>17, SettleType DEF MigrateFailed, TypeOK, StorageType, Envelopes
  <2>3. QED
    BY <1>17, <2>1, <2>2, StorageStays, HistoryStays
       DEF MigrateFailed, TypeOK, storage, history, faults
<1>18. ASSUME NEW t \in Tabs, LoadFailed(t) PROVE TypeOK'
  BY <1>18, StorageStays, HistoryStays, ReleaseType, SettleType, LockStays, WorkStays
     DEF LoadFailed, TypeOK, LoadDone, StorageType, TabType, Envelopes, history, faults, storage
<1>19. ASSUME NEW t \in Tabs, LoadThrew(t) PROVE TypeOK'
  BY <1>19, StorageStays, HistoryStays, ReleaseType
     DEF LoadThrew, TypeOK, TabType, LoadDone, history, faults, storage
<1>20. ASSUME NEW t \in Tabs, Request(t) PROVE TypeOK'
  <2> DEFINE R(kind, e, c) == [kind |-> kind, edits |-> e,
               cand |-> live[t].data \cup e, cats |-> c, val |-> catalogNo']
  <2>1. PICK kind \in Kinds, e \in SUBSET Edits, c \in SUBSET Catalogs :
          /\ requested' = requested \cup e
          /\ catalogNo' = IF c = {} THEN catalogNo ELSE catalogNo + 1
          /\ queue' = [queue EXCEPT ![t] = Append(@, R(kind, e, c))]
          /\ UNCHANGED <<storage, leases, lock, tabVars, pc, work, acked, faults>>
    BY <1>20, Zenon DEF Request
  <2>2. HistoryType'
    BY <2>1 DEF TypeOK, HistoryType, faults
  <2>3. R(kind, e, c) \in Requests
    <3>1. live[t].data \in SUBSET Edits
      BY DEF TypeOK, TabType, Views
    <3>2. catalogNo' \in Nat
      BY <2>2 DEF HistoryType
    <3>3. QED
      BY <3>1, <3>2 DEF Requests
  <2>4. queue' \in [Tabs -> Seq(Requests)]
    <3> HIDE DEF R
    <3>1. queue[t] \in Seq(Requests)
      BY DEF TypeOK
    <3>2. Append(queue[t], R(kind, e, c)) \in Seq(Requests)
      BY <2>3, <3>1
    <3>3. queue' = [queue EXCEPT ![t] = Append(queue[t], R(kind, e, c))]
      BY <2>1
    <3>4. QED
      BY <3>2, <3>3, OneQueueType DEF TypeOK
  <2>5. QED
    BY <2>1, <2>2, <2>4, StorageStays, TabStays, WorkStays, LockStays
       DEF TypeOK, storage, tabVars
<1>21. ASSUME NEW t \in Tabs, Refuse(t) PROVE TypeOK'
  BY <1>21, StorageStays, TabStays, HistoryStays, WorkStays, LockStays, TailType
     DEF Refuse, TypeOK, history, faults, storage, tabVars
<1>22. ASSUME NEW t \in Tabs, RefuseStale(t) PROVE TypeOK'
  BY <1>22, StorageStays, TabStays, HistoryStays, WorkStays, LockStays, TailType
     DEF RefuseStale, TypeOK, Ready, history, faults, storage, tabVars
<1>23. ASSUME NEW t \in Tabs, SkipUpdate(t) PROVE TypeOK'
  BY <1>23, StorageStays, HistoryStays, WorkStays, LockStays, TailType, RefreshType
     DEF SkipUpdate, TypeOK, Ready, history, faults, storage
<1>24. ASSUME NEW t \in Tabs, BeginUpdate(t) PROVE TypeOK'
  <2>1. queue[t] # <<>> /\ queue[t] \in Seq(Requests)
    BY <1>24 DEF BeginUpdate, Ready, TypeOK
  <2>2. Refreshed(t).data \cup Head(queue[t]).edits \in SUBSET Edits
    BY <2>1, HeadType, RefreshedType DEF TypeOK
  <2>3. QED
    BY <1>24, <2>1, <2>2, BeginType DEF BeginUpdate, Places
<1>25. ASSUME NEW t \in Tabs, BeginImport(t) PROVE TypeOK'
  <2>1. queue[t] # <<>> /\ queue[t] \in Seq(Requests)
    BY <1>25 DEF BeginImport, Ready, TypeOK
  <2>2. Head(queue[t]).cand \in SUBSET Edits
    BY <2>1, HeadType, RefreshedType DEF TypeOK
  <2>3. QED
    BY <1>25, <2>1, <2>2, BeginType DEF BeginImport, Places
<1>26. ASSUME NEW t \in Tabs, BeginSave(t) PROVE TypeOK'
  <2>1. queue[t] # <<>> /\ queue[t] \in Seq(Requests)
    BY <1>26 DEF BeginSave, Ready, TypeOK
  <2>2. Head(queue[t]).cand \in SUBSET Edits
    BY <2>1, HeadType, RefreshedType DEF TypeOK
  <2>3. QED
    BY <1>26, <2>1, <2>2, BeginType DEF BeginSave, Places
<1>27. ASSUME NEW t \in Tabs, BeginCatalog(t) PROVE TypeOK'
  <2>1. queue[t] # <<>> /\ queue[t] \in Seq(Requests)
    BY <1>27 DEF BeginCatalog, Ready, TypeOK
  <2>2. Refreshed(t).data \in SUBSET Edits
    BY <2>1, HeadType, RefreshedType DEF TypeOK
  <2>3. QED
    BY <1>27, <2>1, <2>2, BeginType DEF BeginCatalog, Places
<1>28. ASSUME NEW t \in Tabs, SaveCatalog(t) PROVE TypeOK'
  <2>1. LockType' /\ WorkType' /\ queue' \in [Tabs -> Seq(Requests)]
    BY <1>28, AnswerType DEF SaveCatalog, TypeOK
  <2>2. HistoryType'
    BY <1>28, WriteCounted DEF SaveCatalog, TypeOK
  <2>3. work[t].val \in Nat /\ work[t].todo \subseteq Catalogs
    BY DEF TypeOK, WorkType, Works
  <2>4. CASE UNCHANGED <<cache, knownCache, live>>
    BY <1>28, <2>1, <2>2, <2>4 DEF SaveCatalog, TypeOK, StorageType, TabType
  <2>5. ASSUME NEW s \in work[t].todo,
               cache' = WithCatalog(cache, s, work[t].val),
               knownCache' = [knownCache EXCEPT ![t] = WithCatalog(@, s, work[t].val)],
               live' = [live EXCEPT ![t].cat = WithCatalog(@, s, work[t].val)]
        PROVE  TypeOK'
    <3> DEFINE W(c) == WithCatalog(c, s, work[t].val)
    <3>1. \A c \in [Catalogs -> Nat] : W(c) \in [Catalogs -> Nat]
      BY <2>3, WithCatalogType
    <3> HIDE DEF W
    <3>2. cache' \in [Catalogs -> Nat]
      BY <2>5, <3>1 DEF W, TypeOK, StorageType
    <3>3. knownCache' \in [Tabs -> [Catalogs -> Nat]]
      <4>1. knownCache' = [knownCache EXCEPT ![t] = W(knownCache[t])]
        BY <2>5 DEF W
      <4>2. QED
        BY <4>1, <3>1 DEF TypeOK, TabType
    <3>4. live' \in [Tabs -> Views]
      <4>1. live' = [live EXCEPT ![t] = [live[t] EXCEPT !.cat = W(live[t].cat)]]
        BY <2>5 DEF W
      <4>2. live[t] \in Views
        BY DEF TypeOK, TabType
      <4>3. W(live[t].cat) \in [Catalogs -> Nat]
        BY <3>1, <4>2 DEF Views
      <4>4. [live[t] EXCEPT !.cat = W(live[t].cat)] \in Views
        BY <4>2, <4>3 DEF Views
      <4>5. QED
        BY <4>1, <4>4 DEF TypeOK, TabType
    <3>5. StorageType'
      BY <1>28, <3>2 DEF SaveCatalog, TypeOK, StorageType
    <3>6. TabType'
      BY <1>28, <3>3, <3>4 DEF SaveCatalog, TypeOK, TabType
    <3>7. QED
      BY <2>1, <2>2, <3>5, <3>6 DEF TypeOK
  <2>6. QED
    BY <1>28, <2>4, <2>5 DEF SaveCatalog
<1>29. ASSUME NEW t \in Tabs, PersistCatalog(t) PROVE TypeOK'
  <2>1. PICK s \in work[t].todo :
          /\ work' = [work EXCEPT ![t] =
               [work[t] EXCEPT !.todo = @ \ {s}, !.undo = Append(@, <<s, cache[s]>>)]]
          /\ \/ /\ WriteAccepted
                /\ cache' = WithCatalog(cache, s, work[t].val)
                /\ knownCache' = [knownCache EXCEPT ![t] = WithCatalog(@, s, work[t].val)]
                /\ UNCHANGED <<pc, lock>>
             \/ Fail(t) /\ UNCHANGED <<cache, knownCache>>
    BY <1>29, Zenon DEF PersistCatalog
  <2>2. work[t] \in Works /\ s \in Catalogs /\ work[t].val \in Nat
        /\ work[t].undo \in Seq(Catalogs \X Nat) /\ cache[s] \in Nat
    BY <2>1 DEF TypeOK, WorkType, StorageType, Works
  <2>3. Append(work[t].undo, <<s, cache[s]>>) \in Seq(Catalogs \X Nat)
    BY <2>2
  <2>4. WorkType'
    <3> DEFINE u == Append(work[t].undo, <<s, cache[s]>>)
    <3> DEFINE w == [work[t] EXCEPT !.todo = work[t].todo \ {s}, !.undo = u]
    <3>1. work' = [work EXCEPT ![t] = w]
      BY <2>1
    <3>2. w \in Works
      <4> HIDE DEF u
      <4> QED
        BY <2>2, <2>3 DEF Works, u
    <3>3. QED
      BY <3>1, <3>2, OneWorkType DEF TypeOK
  <2>5. HistoryType'
    BY <1>29, <2>1, WriteCounted DEF PersistCatalog, Fail, TypeOK
  <2>6. LockType'
    BY <1>29, <2>1, GotoType, LockStays DEF PersistCatalog, Fail, TypeOK, LockType, Places
  <2>7. cache' \in [Catalogs -> Nat] /\ knownCache' \in [Tabs -> [Catalogs -> Nat]]
    <3> DEFINE W(c) == WithCatalog(c, s, work[t].val)
    <3>1. \A c \in [Catalogs -> Nat] : W(c) \in [Catalogs -> Nat]
      BY <2>2, WithCatalogType
    <3>2. \/ cache' = W(cache) /\ knownCache' = [knownCache EXCEPT ![t] = W(knownCache[t])]
          \/ UNCHANGED <<cache, knownCache>>
      BY <2>1
    <3> HIDE DEF W
    <3>3. cache' \in [Catalogs -> Nat]
      BY <3>1, <3>2 DEF TypeOK, StorageType
    <3>4. W(knownCache[t]) \in [Catalogs -> Nat]
      BY <3>1 DEF TypeOK, TabType
    <3>5. CASE UNCHANGED <<cache, knownCache>>
      BY <3>3, <3>5 DEF TypeOK, TabType
    <3>6. CASE knownCache' = [knownCache EXCEPT ![t] = W(knownCache[t])]
      BY <3>3, <3>4, <3>6, OneCacheType DEF TypeOK, TabType
    <3>7. QED
      BY <3>2, <3>5, <3>6
  <2>8. StorageType' /\ TabType'
    BY <1>29, <2>7 DEF PersistCatalog, TypeOK, StorageType, TabType
  <2>9. QED
    BY <1>29, <2>4, <2>5, <2>6, <2>8 DEF PersistCatalog, TypeOK
<1>30. ASSUME NEW t \in Tabs, PersistBackup(t) PROVE TypeOK'
  <2> DEFINE e == Envelope(CONFIG_SCHEMA_VERSION, canonical.rev + 1, work[t].draft)
  <2>1. e \in Envelopes
    <3>1. canonical.rev + 1 \in Nat
      BY DEF TypeOK, StorageType, Envelopes
    <3>2. work[t].draft \in SUBSET Edits
      BY DEF TypeOK, WorkType, Works
    <3>3. QED
      BY <3>1, <3>2, EnvelopeType DEF CONFIG_SCHEMA_VERSION
  <2>2. WorkType'
    <3>1. work' = [work EXCEPT ![t] = [work[t] EXCEPT !.env = e]]
      BY <1>30 DEF PersistBackup
    <3> HIDE DEF e
    <3>2. [work[t] EXCEPT !.env = e] \in Works
      BY <2>1 DEF TypeOK, WorkType, Works
    <3>3. QED
      BY <3>1, <3>2, OneWorkType DEF TypeOK
  <2>3. HistoryType'
    BY <1>30, WriteCounted DEF PersistBackup, Fail, TypeOK
  <2>4. LockType'
    BY <1>30, GotoType DEF PersistBackup, Fail, TypeOK, LockType, Places
  <2>5. StorageType'
    BY <1>30 DEF PersistBackup, TypeOK, StorageType
  <2>6. QED
    BY <1>30, <2>2, <2>3, <2>4, <2>5, TabStays DEF PersistBackup, TypeOK
<1>31. ASSUME NEW t \in Tabs, PersistCanonical(t) PROVE TypeOK'
  <2>1. work[t].env \in Envelopes
    BY DEF TypeOK, WorkType, Works
  <2>2. HistoryType'
    BY <1>31, WriteCounted DEF PersistCanonical, Fail, TypeOK
  <2>3. LockType'
    BY <1>31, GotoType DEF PersistCanonical, Fail, TypeOK, LockType, Places
  <2>4. StorageType'
    BY <1>31, <2>1 DEF PersistCanonical, TypeOK, StorageType
  <2>5. QED
    BY <1>31, <2>2, <2>3, <2>4, TabStays, WorkStays DEF PersistCanonical, TypeOK
<1>32. ASSUME NEW t \in Tabs, Apply(t) PROVE TypeOK'
  <2>1. LockType' /\ WorkType' /\ queue' \in [Tabs -> Seq(Requests)]
    BY <1>32, AnswerType DEF Apply, TypeOK
  <2>2. queue[t] \in Seq(Requests) /\ queue[t] # <<>>
    BY <1>32 DEF Apply, Answer, TypeOK
  <2>3. work[t].draft \in SUBSET Edits /\ work[t].val \in Nat /\ work[t].env.rev \in Nat
    BY DEF TypeOK, WorkType, Works, Envelopes
  <2>4. TabType'
    <3> DEFINE c == [s \in Catalogs |-> IF s \in work[t].cats THEN work[t].val
                                        ELSE live[t].cat[s]]
    <3>1. live' = [live EXCEPT ![t] = [data |-> work[t].draft, cat |-> c]]
      BY <1>32 DEF Apply
    <3>2. c \in [Catalogs -> Nat]
      BY <2>3 DEF TypeOK, TabType, Views
    <3> HIDE DEF c
    <3>3. [data |-> work[t].draft, cat |-> c] \in Views
      BY <2>3, <3>2 DEF Views
    <3>4. QED
      BY ZenonT(30), <1>32, <2>3, <3>1, <3>3 DEF Apply, TypeOK, TabType
  <2>5. HistoryType'
    <3>1. Head(queue[t]).edits \in SUBSET Edits
      BY <2>2, HeadType
    <3>2. acked' \in [Tabs -> SUBSET Edits]
      BY <1>32, <3>1 DEF Apply, TypeOK, HistoryType
    <3>3. QED
      BY <1>32, <3>2 DEF Apply, TypeOK, HistoryType, faults
  <2>6. QED
    BY <1>32, <2>1, <2>4, <2>5, StorageStays DEF Apply, TypeOK
<1>33. ASSUME NEW t \in Tabs, RollBack(t) PROVE TypeOK'
  <2>1. CASE work[t].undo = <<>>
    <3>1. Answer(t) /\ UNCHANGED <<storage, leases, tabVars, history, faults>>
          /\ pc[t] # "idle"
      BY <1>33, <2>1 DEF RollBack, storage, tabVars, faults
    <3>2. LockType' /\ WorkType' /\ queue' \in [Tabs -> Seq(Requests)]
      BY <3>1, AnswerType DEF TypeOK
    <3>3. QED
      BY <3>1, <3>2, StorageStays, TabStays, HistoryStays DEF TypeOK
  <2>2. CASE work[t].undo # <<>>
    <3> DEFINE n == Len(work[t].undo)
               rest == SubSeq(work[t].undo, 1, n - 1)
               W(c) == WithCatalog(c, work[t].undo[n][1], work[t].undo[n][2])
    <3>1. work[t].undo \in Seq(Catalogs \X Nat) /\ n \in Nat \ {0}
      BY <2>2 DEF TypeOK, WorkType, Works
    <3>2. work[t].undo[n] \in Catalogs \X Nat
      BY <3>1
    <3>3. work[t].undo[n][1] \in Catalogs /\ work[t].undo[n][2] \in Nat
      BY <3>2
    <3>4. rest \in Seq(Catalogs \X Nat)
      BY <3>1
    <3>5. WorkType'
      <4>1. work' = [work EXCEPT ![t] = [work[t] EXCEPT !.undo = rest]]
        BY <1>33, <2>2 DEF RollBack
      <4> HIDE DEF rest
      <4>2. [work[t] EXCEPT !.undo = rest] \in Works
        BY <3>4 DEF TypeOK, WorkType, Works
      <4>3. QED
        BY <4>1, <4>2, OneWorkType DEF TypeOK
    <3>6. HistoryType'
      BY <1>33, <2>2, WriteCounted DEF RollBack, TypeOK
    <3>7. cache' \in [Catalogs -> Nat] /\ knownCache' \in [Tabs -> [Catalogs -> Nat]]
      <4>1. \A c \in [Catalogs -> Nat] : W(c) \in [Catalogs -> Nat]
        BY <3>3, WithCatalogType
      <4>2. /\ cache' = W(cache) \/ cache' = cache
            /\ \/ knownCache' = [knownCache EXCEPT ![t] = W(knownCache[t])]
               \/ knownCache' = knownCache
        BY <1>33, <2>2 DEF RollBack
      <4> HIDE DEF W
      <4>3. cache' \in [Catalogs -> Nat]
        BY <4>1, <4>2 DEF TypeOK, StorageType
      <4>4. W(knownCache[t]) \in [Catalogs -> Nat]
        BY <4>1 DEF TypeOK, TabType
      <4>5. CASE UNCHANGED knownCache
        BY <4>3, <4>5 DEF TypeOK, TabType
      <4>6. CASE knownCache' = [knownCache EXCEPT ![t] = W(knownCache[t])]
        BY <4>3, <4>4, <4>6, OneCacheType DEF TypeOK, TabType
      <4>7. QED
        BY <4>2, <4>5, <4>6
    <3>8. StorageType' /\ TabType'
      BY <1>33, <3>7 DEF RollBack, TypeOK, StorageType, TabType
    <3>9. LockType' /\ queue' = queue
      BY <1>33, <2>2, LockStays DEF RollBack, TypeOK
    <3>10. QED
      BY <3>5, <3>6, <3>8, <3>9 DEF TypeOK
  <2>3. QED
    BY <2>1, <2>2
<1>34. ASSUME NEW t \in Tabs, CloseTab(t) PROVE TypeOK'
  BY <1>34, StorageStays, HistoryStays, NoWorkType
     DEF CloseTab, TypeOK, TabType, WorkType, LockType, Views, Defaults, NoCatalogs, Places, history, faults, storage
<1>35. ASSUME NEW l \in {"init", "migration"}, ExpireLease(l) PROVE TypeOK'
  BY <1>35, StorageStays, TabStays, HistoryStays, WorkStays
     DEF ExpireLease, TypeOK, DropLease, LockType, history, faults, storage, tabVars
<1>36. ASSUME Corrupt PROVE TypeOK'
  <2>1. corruptions' \in Nat
    BY <1>36 DEF Corrupt, TypeOK, HistoryType
  <2>2. HistoryType'
    BY <1>36, <2>1 DEF Corrupt, TypeOK, HistoryType, history
  <2>3. canonical' \in Envelopes
    <3>1. canonical.rev \in Nat
      BY DEF TypeOK, StorageType, Envelopes
    <3>2. \/ canonical' = NoEnvelope
          \/ canonical' = [NoEnvelope EXCEPT !.kind = "bad", !.rev = canonical.rev]
      BY <1>36 DEF Corrupt
    <3>3. CASE canonical' = NoEnvelope
      BY <3>3 DEF NoEnvelope, Envelopes
    <3>4. CASE canonical' = [NoEnvelope EXCEPT !.kind = "bad", !.rev = canonical.rev]
      <4>1. canonical' = [kind |-> "bad", schema |-> 0, rev |-> canonical.rev,
                          data |-> {}]
        BY <3>4 DEF NoEnvelope
      <4>2. QED
        BY <3>1, <4>1 DEF Envelopes
    <3>5. QED
      BY <3>2, <3>3, <3>4
  <2>4. StorageType'
    BY <1>36, <2>3 DEF Corrupt, TypeOK, StorageType
  <2>5. QED
    BY <1>36, <2>2, <2>4, TabStays, WorkStays, LockStays DEF Corrupt, TypeOK
<1>37. ASSUME NewerReleaseMigrates PROVE TypeOK'
  BY <1>37, TabStays, WorkStays, LockStays, HistoryStays, EnvelopeType
     DEF NewerReleaseMigrates, TypeOK, StorageType, Envelopes, CONFIG_SCHEMA_VERSION, history, faults, tabVars
<1>38. CASE UNCHANGED vars
  BY <1>38, StorageStays, TabStays, HistoryStays, WorkStays, LockStays
     DEF TypeOK, vars, storage, tabVars, history, faults
<1>39. QED
  BY <1>1, <1>2, <1>3, <1>4, <1>5, <1>6, <1>7, <1>8, <1>9, <1>10, <1>11, <1>12, <1>13, <1>14, <1>15, <1>16, <1>17, <1>18, <1>19, <1>20, <1>21, <1>22, <1>23, <1>24, <1>25, <1>26, <1>27, <1>28, <1>29, <1>30, <1>31, <1>32, <1>33, <1>34, <1>35, <1>36, <1>37, <1>38
     DEF Next, Load, Transact, BeginRequest

\* The type invariant and the exclusion of the Web Lock hold in every state
\* (withConfigWriteLock: whoever is inside a transaction is its holder).
THEOREM TypeCorrect == Spec => []TypeOK
<1>1. Init => TypeOK
  BY TypeInit
<1>2. TypeOK /\ [Next]_vars => TypeOK'
  BY TypeStep
<1>3. QED
  BY <1>1, <1>2, PTL DEF Spec

-----------------------------
(* Safety, as long as nothing outside the protocol damages the canonical   *)
(* envelope: what is true of the store at each step of a lock's holder.    *)

LoadPlaces == {"load", "freshCanonical", "freshMarker", "migrateBackup",
               "migrateCanonical", "migrateFailed", "loadFailed", "loadThrew"}
SavePlaces == {"cacheOnly", "catalogs", "canonical", "apply", "rollback"}

Current(e) == e.kind = "ok" /\ e.schema = CONFIG_SCHEMA_VERSION

\* What the holder of the lock knows of the store at each of its steps.
PlaceInv(t) ==
  /\ pc[t] \in LoadPlaces => t \in LockTabs /\ access[t] \in {"loading", "unavailable"}
  /\ pc[t] \in SavePlaces => access[t] = "ready"
  /\ pc[t] = "freshCanonical" => canonical = NoEnvelope
  /\ pc[t] = "freshMarker" => canonical = Envelope(CONFIG_SCHEMA_VERSION, 1, {})
  /\ pc[t] \in {"migrateBackup", "migrateCanonical"} => Valid(canonical)
  /\ pc[t] \in {"catalogs", "canonical"} => Current(canonical)
  /\ pc[t] = "canonical" =>
       work[t].env = Envelope(CONFIG_SCHEMA_VERSION, canonical.rev + 1, work[t].draft)
  /\ pc[t] = "apply" =>
       canonical = work[t].env /\ Current(canonical) /\ canonical.data = work[t].draft

\* A writable tab is never ahead of the store, and not behind means current.
ViewInv(t) ==
  access[t] = "ready" =>
    /\ known[t] <= canonical.rev
    /\ known[t] = canonical.rev => live[t].data = canonical.data /\ Current(canonical)

TabInv(t) == PlaceInv(t) /\ ViewInv(t)

AbsentInv == canonical.kind = "none" => canonical = NoEnvelope

RevInv == TypeOK /\ AbsentInv /\ \A t \in Tabs : TabInv(t)

Undamaged == corruptions = 0

Same(u) ==
  /\ access'[u] = access[u] /\ known'[u] = known[u] /\ live'[u] = live[u]
  /\ pc'[u] = pc[u] /\ work'[u] = work[u]

-----------------------------
(* Two shapes of step: one tab moves and the canonical envelope stays, or  *)
(* the lock holder replaces the envelope under a larger revision.          *)

LEMMA OneTabMoves ==
  ASSUME RevInv, TypeOK', NEW t \in Tabs, canonical' = canonical,
         \A u \in Tabs \ {t} : Same(u), TabInv(t)'
  PROVE  RevInv'
<1>1. ASSUME NEW u \in Tabs, u # t PROVE TabInv(u)'
  BY <1>1 DEF RevInv, TabInv, PlaceInv, ViewInv, Same
<1>2. QED
  BY <1>1 DEF RevInv, AbsentInv

LEMMA HolderAlone ==
  ASSUME TypeOK, NEW t \in Tabs, pc[t] # "idle", NEW u \in Tabs, u # t
  PROVE  pc[u] = "idle"
  BY DEF TypeOK, LockType

LEMMA HolderWrites ==
  ASSUME RevInv, TypeOK', NEW t \in Tabs, pc[t] # "idle",
         canonical'.kind = "ok", canonical'.rev > canonical.rev,
         \A u \in Tabs \ {t} : Same(u), TabInv(t)'
  PROVE  RevInv'
<1>1. ASSUME NEW u \in Tabs, u # t PROVE TabInv(u)'
  <2>1. pc'[u] = "idle"
    BY <1>1, HolderAlone DEF RevInv, Same
  <2>2. canonical.rev \in Nat /\ canonical'.rev \in Nat /\ known[u] \in Nat
    BY <1>1 DEF RevInv, TypeOK, StorageType, TabType, Envelopes
  <2>3. ViewInv(u)'
    BY <1>1, <2>2 DEF RevInv, TabInv, ViewInv, Same
  <2>4. PlaceInv(u)'
    BY <2>1 DEF PlaceInv, LoadPlaces, SavePlaces
  <2>5. QED
    BY <2>3, <2>4 DEF TabInv
<1>2. QED
  BY <1>1 DEF RevInv, AbsentInv

-----------------------------
(* The initial states.                                                     *)

LEMMA RevInit == Init => RevInv
<1> SUFFICES ASSUME Init PROVE RevInv
  OBVIOUS
<1>1. TypeOK
  BY TypeInit
<1>2. AbsentInv
  BY ConfigAssumption DEF Init, AbsentInv, ConfigAssumption
<1>3. ASSUME NEW t \in Tabs PROVE TabInv(t)
  BY <1>3 DEF Init, TabInv, PlaceInv, ViewInv, LoadPlaces, SavePlaces
<1>4. QED
  BY <1>1, <1>2, <1>3 DEF RevInv

-----------------------------
(* Opening, probing and loading.                                           *)

LEMMA OpenKeeps ==
  ASSUME RevInv, TypeOK', NEW t \in Tabs, OpenTab(t) \/ Probe(t) \/ RetryStorage(t)
  PROVE  RevInv'
<1>1. canonical' = canonical /\ \A u \in Tabs \ {t} : Same(u)
  BY DEF OpenTab, Probe, RetryStorage, storage, Same, RevInv, TypeOK, TabType
<1>2. pc'[t] = "idle" /\ access'[t] # "ready"
  BY DEF OpenTab, Probe, RetryStorage, RevInv, TypeOK, TabType, LockType, Places, TabInv,
         PlaceInv, LoadPlaces, SavePlaces
<1>3. TabInv(t)'
  BY <1>2 DEF TabInv, PlaceInv, ViewInv, LoadPlaces, SavePlaces
<1>4. QED
  BY <1>1, <1>3, OneTabMoves

LEMMA BeginLoadKeeps ==
  ASSUME RevInv, TypeOK', NEW t \in Tabs, BeginLoad(t)
  PROVE  RevInv'
<1>1. canonical' = canonical /\ \A u \in Tabs \ {t} : Same(u)
  BY DEF BeginLoad, Acquire, storage, tabVars, Same, RevInv, TypeOK, LockType
<1>2. pc'[t] = "load" /\ access'[t] \in {"loading", "unavailable"} /\ t \in LockTabs
  BY DEF BeginLoad, Acquire, NeedsLoad, tabVars, RevInv, TypeOK, TabType, LockType
<1>3. TabInv(t)'
  BY <1>2 DEF TabInv, PlaceInv, ViewInv, LoadPlaces, SavePlaces
<1>4. QED
  BY <1>1, <1>3, OneTabMoves

\* A load that ends with the tab not writable.
LEMMA SettledReadOnly ==
  ASSUME RevInv, TypeOK', NEW t \in Tabs, access[t] \in {"loading", "unavailable"},
         NEW d, NEW r, NEW c, NEW o \in {"degraded-readonly", "upgrade-required"},
         Settle(t, d, r, c, o), canonical' = canonical,
         pc'[t] = "idle", \A u \in Tabs \ {t} : pc'[u] = pc[u] /\ work'[u] = work[u]
  PROVE  RevInv'
<1>1. \A u \in Tabs \ {t} : Same(u)
  BY DEF Settle, Same, RevInv, TypeOK, TabType
<1>2. access'[t] # "ready"
  BY DEF Settle, RevInv, TypeOK, TabType
<1>3. TabInv(t)'
  BY <1>2 DEF TabInv, PlaceInv, ViewInv, LoadPlaces, SavePlaces
<1>4. QED
  BY <1>1, <1>3, OneTabMoves

LEMMA ReleasedPc ==
  ASSUME TypeOK, NEW t \in Tabs, Release(t)
  PROVE  pc'[t] = "idle" /\ \A u \in Tabs \ {t} : pc'[u] = pc[u] /\ work'[u] = work[u]
  BY DEF Release, TypeOK, LockType, WorkType

LEMMA Loading ==
  ASSUME RevInv, NEW t \in Tabs, pc[t] \in LoadPlaces
  PROVE  access[t] \in {"loading", "unavailable"} /\ t \in LockTabs
  BY DEF RevInv, TabInv, PlaceInv

LEMMA ReadOnlyKeeps ==
  ASSUME RevInv, TypeOK', NEW t \in Tabs,
         \/ LoadReadOnly(t) \/ LoadNewer(t) \/ LoadDefaults(t) \/ LeaseBusy(t)
         \/ MigrateFailed(t) \/ LoadFailed(t) \/ LoadThrew(t)
  PROVE  RevInv'
<1>1. ASSUME LoadReadOnly(t) PROVE RevInv'
  <2>1. access[t] \in {"loading", "unavailable"} /\ pc[t] = "idle"
    BY <1>1 DEF LoadReadOnly, NeedsLoad, RevInv, TabInv, PlaceInv, TypeOK, LockType,
                Places, LoadPlaces, SavePlaces
  <2>2. QED
    BY <1>1, <2>1, SettledReadOnly DEF LoadReadOnly, storage
<1>2. ASSUME LoadNewer(t) PROVE RevInv'
  BY <1>2, Loading, SettledReadOnly, ReleasedPc
     DEF LoadNewer, LoadDone, storage, LoadPlaces, RevInv
<1>3. ASSUME LoadDefaults(t) PROVE RevInv'
  BY <1>3, Loading, SettledReadOnly, ReleasedPc
     DEF LoadDefaults, LoadDone, storage, LoadPlaces, RevInv
<1>4. ASSUME LeaseBusy(t) PROVE RevInv'
  <2>1. /\ access[t] \in {"loading", "unavailable"} /\ canonical' = canonical
        /\ pc'[t] = "idle" /\ \A u \in Tabs \ {t} : pc'[u] = pc[u] /\ work'[u] = work[u]
    <3>1. pc[t] \in LoadPlaces /\ LoadDone(t)
      BY <1>4 DEF LeaseBusy, LoadPlaces
    <3>2. QED
      BY <3>1, Loading, ReleasedPc DEF LoadDone, storage, RevInv
  <2>2. \/ Settle(t, {}, known[t], FALSE, "degraded-readonly")
        \/ Settle(t, canonical.data, known[t], FALSE, "degraded-readonly")
    BY <1>4 DEF LeaseBusy
  <2>3. QED
    BY <2>1, <2>2, SettledReadOnly
<1>5. ASSUME MigrateFailed(t) PROVE RevInv'
  BY <1>5, Loading, SettledReadOnly, ReleasedPc
     DEF MigrateFailed, storage, LoadPlaces, RevInv
<1>6. ASSUME LoadFailed(t) PROVE RevInv'
  BY <1>6, Loading, SettledReadOnly, ReleasedPc
     DEF LoadFailed, LoadDone, storage, LoadPlaces, RevInv
<1>7. ASSUME LoadThrew(t) PROVE RevInv'
  <2>1. canonical' = canonical /\ \A u \in Tabs \ {t} : Same(u)
    BY <1>7, ReleasedPc DEF LoadThrew, LoadDone, storage, Same, RevInv, TypeOK, TabType
  <2>2. access[t] \in {"loading", "unavailable"} /\ pc'[t] = "idle"
    BY <1>7, Loading, ReleasedPc DEF LoadThrew, LoadDone, LoadPlaces, RevInv
  <2>3. access'[t] # "ready"
    BY <1>7, <2>2 DEF LoadThrew, RevInv, TypeOK, TabType
  <2>4. TabInv(t)'
    BY <2>2, <2>3 DEF TabInv, PlaceInv, ViewInv, LoadPlaces, SavePlaces
  <2>5. QED
    BY <2>1, <2>4, OneTabMoves
<1>8. QED
  BY <1>1, <1>2, <1>3, <1>4, <1>5, <1>6, <1>7

\* A load that ends with the tab writable: it holds what is stored.
LEMMA SettledReady ==
  ASSUME RevInv, NEW t \in Tabs, access[t] \in {"loading", "unavailable"},
         canonical' \in Envelopes, Current(canonical'),
         Settle(t, canonical'.data, canonical'.rev, TRUE, "ready"), Release(t)
  PROVE  TabInv(t)' /\ \A u \in Tabs \ {t} : Same(u)
<1>1. \A u \in Tabs \ {t} : Same(u)
  BY ReleasedPc DEF Settle, Same, RevInv, TypeOK, TabType
<1>2. pc'[t] = "idle"
  BY ReleasedPc DEF RevInv
<1>3. known'[t] = canonical'.rev /\ live'[t].data = canonical'.data
  BY DEF Settle, RevInv, TypeOK, TabType
<1>4. canonical'.rev \in Nat
  BY DEF Envelopes
<1>5. ViewInv(t)'
  BY <1>3, <1>4 DEF ViewInv, Current
<1>6. PlaceInv(t)'
  BY <1>2 DEF PlaceInv, LoadPlaces, SavePlaces
<1>7. QED
  BY <1>1, <1>5, <1>6 DEF TabInv

LEMMA LoadCanonicalKeeps ==
  ASSUME RevInv, TypeOK', NEW t \in Tabs, LoadCanonical(t)
  PROVE  RevInv'
<1>1. access[t] \in {"loading", "unavailable"} /\ canonical' = canonical
  BY Loading DEF LoadCanonical, LoadDone, LoadPlaces, storage
<1>2. Current(canonical') /\ canonical' \in Envelopes
  BY <1>1 DEF LoadCanonical, Valid, Current, TypeOK, StorageType
<1>3. Settle(t, canonical'.data, canonical'.rev, TRUE, "ready") /\ Release(t)
  BY <1>1 DEF LoadCanonical, LoadDone
<1>4. TabInv(t)' /\ \A u \in Tabs \ {t} : Same(u)
  BY <1>1, <1>2, <1>3, SettledReady
<1>5. QED
  BY <1>1, <1>4, OneTabMoves

\* The holder goes on to another place of its load, the envelope as it was.
LEMMA HolderGoes ==
  ASSUME RevInv, TypeOK', NEW t \in Tabs, NEW p \in LoadPlaces, pc[t] \in LoadPlaces,
         Goto(t, p), canonical' = canonical, UNCHANGED <<tabVars, work>>,
         p = "freshCanonical" => canonical = NoEnvelope,
         p = "freshMarker" => canonical = Envelope(CONFIG_SCHEMA_VERSION, 1, {}),
         p \in {"migrateBackup", "migrateCanonical"} => Valid(canonical)
  PROVE  RevInv'
<1>1. \A u \in Tabs \ {t} : Same(u)
  BY DEF Goto, tabVars, Same, RevInv, TypeOK, LockType
<1>2. pc'[t] = p /\ access'[t] \in {"loading", "unavailable"} /\ t \in LockTabs
  BY Loading DEF Goto, tabVars, RevInv, TypeOK, LockType
<1>3. TabInv(t)'
  BY <1>2 DEF TabInv, PlaceInv, ViewInv, LoadPlaces, SavePlaces
<1>4. QED
  BY <1>1, <1>3, OneTabMoves

LEMMA RecoverKeeps ==
  ASSUME RevInv, TypeOK', NEW t \in Tabs, Recover(t)
  PROVE  RevInv'
<1>1. access[t] \in {"loading", "unavailable"} /\ pc[t] # "idle"
  BY Loading DEF Recover, LoadPlaces
<1>2. CASE canonical' = canonical
  <2>1. CASE Settle(t, backup.data, known[t], TRUE, "degraded-readonly")
    BY <1>1, <1>2, <2>1, ReleasedPc, SettledReadOnly DEF Recover, RevInv
  <2>2. CASE canonical' = Recovered
    <3>1. Recovered.rev > canonical.rev
      BY DEF Recovered, Envelope, MaxRev, RevInv, TypeOK, StorageType, Envelopes
    <3>2. canonical.rev \in Nat
      BY DEF RevInv, TypeOK, StorageType, Envelopes
    <3>3. QED
      BY <1>2, <2>2, <3>1, <3>2
  <2>3. QED
    BY <2>1, <2>2 DEF Recover
<1>3. CASE canonical' = Recovered /\ Settle(t, backup.data, Recovered.rev, TRUE, "ready")
  <2>1. canonical'.rev > canonical.rev
    BY <1>3 DEF Recovered, Envelope, MaxRev, RevInv, TypeOK, StorageType, Envelopes
  <2>2. Current(canonical') /\ canonical' \in Envelopes /\ canonical'.data = backup.data
    BY <1>3 DEF Recovered, Envelope, Current, TypeOK, StorageType
  <2>3. Settle(t, canonical'.data, canonical'.rev, TRUE, "ready") /\ Release(t)
    BY <1>3, <2>2 DEF Recover
  <2>4. TabInv(t)' /\ \A u \in Tabs \ {t} : Same(u)
    BY <1>1, <2>2, <2>3, SettledReady
  <2>5. canonical'.kind = "ok"
    BY <2>2 DEF Current
  <2>6. QED
    BY <1>1, <2>1, <2>4, <2>5, HolderWrites
<1>4. QED
  BY <1>2, <1>3 DEF Recover

LEMMA FreshKeeps ==
  ASSUME RevInv, TypeOK', NEW t \in Tabs, BeginFresh(t) \/ WriteFresh(t) \/ MarkFresh(t)
  PROVE  RevInv'
<1>1. ASSUME BeginFresh(t) PROVE RevInv'
  <2>1. canonical = NoEnvelope
    BY <1>1 DEF BeginFresh, FreshInstall, RevInv, AbsentInv
  <2>2. QED
    BY <1>1, <2>1, HolderGoes DEF BeginFresh, TakeLease, storage, LoadPlaces
<1>2. ASSUME WriteFresh(t) PROVE RevInv'
  <2>1. CASE Goto(t, "loadFailed") /\ canonical' = canonical
    BY <1>2, <2>1, HolderGoes DEF WriteFresh, LoadPlaces
  <2>2. CASE Goto(t, "freshMarker")
             /\ canonical' = Envelope(CONFIG_SCHEMA_VERSION, 1, {})
    <3>1. canonical.rev = 0
      BY <1>2 DEF WriteFresh, RevInv, TabInv, PlaceInv, NoEnvelope
    <3>2. canonical'.kind = "ok" /\ canonical'.rev > canonical.rev
      BY <2>2, <3>1 DEF Envelope
    <3>3. \A u \in Tabs \ {t} : Same(u)
      BY <1>2, <2>2 DEF WriteFresh, Goto, tabVars, Same, RevInv, TypeOK, LockType
    <3>4. pc'[t] = "freshMarker" /\ access'[t] \in {"loading", "unavailable"}
          /\ t \in LockTabs
      BY <1>2, <2>2, Loading
         DEF WriteFresh, Goto, tabVars, LoadPlaces, RevInv, TypeOK, LockType
    <3>5. TabInv(t)'
      BY <2>2, <3>4 DEF TabInv, PlaceInv, ViewInv, LoadPlaces, SavePlaces
    <3>6. QED
      BY <1>2, <3>2, <3>3, <3>5, HolderWrites DEF WriteFresh
  <2>3. QED
    BY <1>2, <2>1, <2>2 DEF WriteFresh
<1>3. ASSUME MarkFresh(t) PROVE RevInv'
  <2>1. CASE Goto(t, "loadFailed") /\ UNCHANGED <<tabVars, work>>
    BY <1>3, <2>1, HolderGoes DEF MarkFresh, LoadPlaces
  <2>2. CASE Settle(t, {}, 1, TRUE, "ready") /\ Release(t)
    <3>1. canonical' = Envelope(CONFIG_SCHEMA_VERSION, 1, {})
          /\ canonical' = canonical /\ canonical' \in Envelopes
      BY <1>3 DEF MarkFresh, RevInv, TabInv, PlaceInv, TypeOK, StorageType
    <3>2. Current(canonical') /\ canonical'.rev = 1 /\ canonical'.data = {}
      BY <3>1 DEF Envelope, Current
    <3>3. access[t] \in {"loading", "unavailable"}
      BY <1>3, Loading DEF MarkFresh, LoadPlaces
    <3>4. Settle(t, canonical'.data, canonical'.rev, TRUE, "ready") /\ Release(t)
      BY <2>2, <3>2
    <3>5. TabInv(t)' /\ \A u \in Tabs \ {t} : Same(u)
      BY <3>1, <3>2, <3>3, <3>4, SettledReady
    <3>6. QED
      BY <3>1, <3>5, OneTabMoves
  <2>3. QED
    BY <1>3, <2>1, <2>2 DEF MarkFresh
<1>4. QED
  BY <1>1, <1>2, <1>3

LEMMA MigrationKeeps ==
  ASSUME RevInv, TypeOK', NEW t \in Tabs,
         BeginMigration(t) \/ MigrateBackup(t) \/ MigrateCanonical(t)
  PROVE  RevInv'
<1>1. ASSUME BeginMigration(t) PROVE RevInv'
  BY <1>1, HolderGoes DEF BeginMigration, MigrationDue, TakeLease, storage, LoadPlaces
<1>2. ASSUME MigrateBackup(t) PROVE RevInv'
  <2>1. Valid(canonical)
    BY <1>2 DEF MigrateBackup, RevInv, TabInv, PlaceInv
  <2>2. QED
    BY <1>2, <2>1, HolderGoes DEF MigrateBackup, LoadPlaces
<1>3. ASSUME MigrateCanonical(t) PROVE RevInv'
  <2>1. CASE Goto(t, "migrateFailed") /\ UNCHANGED <<canonical, tabVars, work>>
    BY <1>3, <2>1, HolderGoes DEF MigrateCanonical, LoadPlaces
  <2>2. CASE /\ canonical' = Migrated /\ Release(t)
             /\ Settle(t, canonical.data, Migrated.rev, TRUE, "ready")
    <3>1. canonical' \in Envelopes /\ canonical'.rev > canonical.rev
      BY <2>2 DEF Migrated, Envelope, RevInv, TypeOK, StorageType, Envelopes
    <3>2. Current(canonical') /\ canonical'.data = canonical.data
          /\ canonical'.rev = Migrated.rev
      BY <2>2 DEF Migrated, Envelope, Current
    <3>3. access[t] \in {"loading", "unavailable"} /\ pc[t] # "idle"
      BY <1>3, Loading DEF MigrateCanonical, LoadPlaces
    <3>4. Settle(t, canonical'.data, canonical'.rev, TRUE, "ready") /\ Release(t)
      BY <2>2, <3>2
    <3>5. TabInv(t)' /\ \A u \in Tabs \ {t} : Same(u)
      BY <3>1, <3>2, <3>3, <3>4, SettledReady
    <3>6. canonical'.kind = "ok"
      BY <3>2 DEF Current
    <3>7. QED
      BY <3>1, <3>3, <3>5, <3>6, HolderWrites
  <2>3. QED
    BY <1>3, <2>1, <2>2 DEF MigrateCanonical
<1>4. QED
  BY <1>1, <1>2, <1>3
-----------------------------
(* Requests and their transactions.                                        *)

\* Only queues, histories, leases and backups move.
LEMMA NothingMoves ==
  ASSUME RevInv, TypeOK', UNCHANGED <<canonical, access, known, live, pc, work>>
  PROVE  RevInv'
BY DEF RevInv, AbsentInv, TabInv, PlaceInv, ViewInv

\* A refreshed tab knows the stored revision and holds the stored settings.
LEMMA RefreshCurrent ==
  ASSUME RevInv, NEW t \in Tabs, access[t] = "ready", ~RefreshThrows(t)
  PROVE  /\ Refreshed(t).rev = canonical.rev /\ Refreshed(t).data = canonical.data
         /\ Current(canonical)
<1>1. known[t] \in Nat /\ canonical.rev \in Nat /\ canonical \in Envelopes
  BY DEF RevInv, TypeOK, TabType, StorageType, Envelopes
<1>2. /\ known[t] <= canonical.rev
      /\ known[t] = canonical.rev => live[t].data = canonical.data /\ Current(canonical)
  BY DEF RevInv, TabInv, ViewInv
<1>3. CASE Behind(t)
  BY <1>3 DEF RefreshThrows, Refreshed, Valid, Current
<1>4. CASE ~Behind(t)
  <2>1. known[t] = canonical.rev
    BY <1>1, <1>2, <1>4 DEF Behind
  <2>2. QED
    BY <1>2, <1>4, <2>1 DEF Refreshed
<1>5. QED
  BY <1>3, <1>4

\* The refreshed view is installed and the tab takes a place of a save.
LEMMA RefreshKeeps ==
  ASSUME RevInv, TypeOK', NEW t \in Tabs, access[t] = "ready", ~RefreshThrows(t),
         Refresh(t), canonical' = canonical,
         pc'[t] \in {"idle", "cacheOnly", "catalogs"},
         \A u \in Tabs \ {t} : pc'[u] = pc[u] /\ work'[u] = work[u]
  PROVE  RevInv'
<1>1. \A u \in Tabs \ {t} : Same(u)
  BY DEF Refresh, Same, RevInv, TypeOK, TabType
<1>2. access'[t] = "ready"
  BY DEF Refresh
<1>3. known'[t] = canonical.rev /\ live'[t].data = canonical.data /\ Current(canonical)
  BY RefreshCurrent DEF Refresh, RevInv, TypeOK, TabType
<1>4. canonical.rev \in Nat
  BY DEF RevInv, TypeOK, StorageType, Envelopes
<1>5. ViewInv(t)'
  BY <1>3, <1>4 DEF ViewInv, Current
<1>6. PlaceInv(t)'
  BY <1>2, <1>3 DEF PlaceInv, LoadPlaces, SavePlaces, Current
<1>7. QED
  BY <1>1, <1>5, <1>6, OneTabMoves DEF TabInv

LEMMA BeginKeeps ==
  ASSUME RevInv, TypeOK', NEW t \in Tabs, access[t] = "ready", NEW d,
         NEW p \in {"cacheOnly", "catalogs"}, Begin(t, d, p)
  PROVE  RevInv'
<1>1. ~RefreshThrows(t) /\ Refresh(t) /\ canonical' = canonical
  BY DEF Begin, storage
<1>2. pc'[t] = p /\ \A u \in Tabs \ {t} : pc'[u] = pc[u] /\ work'[u] = work[u]
  BY DEF Begin, Acquire, RevInv, TypeOK, LockType, WorkType
<1>3. QED
  BY <1>1, <1>2, RefreshKeeps

LEMMA BeginRequestKeeps ==
  ASSUME RevInv, TypeOK', NEW t \in Tabs,
         Request(t) \/ Refuse(t) \/ BeginRequest(t)
  PROVE  RevInv'
<1>1. ASSUME Request(t) \/ Refuse(t) \/ RefuseStale(t) PROVE RevInv'
  <2>1. UNCHANGED <<canonical, access, known, live, pc, work>>
    BY <1>1 DEF Request, Refuse, RefuseStale, storage, tabVars
  <2>2. QED
    BY <2>1, NothingMoves
<1>2. ASSUME SkipUpdate(t) PROVE RevInv'
  <2>1. /\ access[t] = "ready" /\ ~RefreshThrows(t) /\ Refresh(t)
        /\ canonical' = canonical /\ pc' = pc /\ work' = work /\ pc[t] = "idle"
    BY <1>2 DEF SkipUpdate, Ready, storage
  <2>2. QED
    BY <2>1, RefreshKeeps
<1>3. ASSUME BeginUpdate(t) \/ BeginImport(t) \/ BeginSave(t) \/ BeginCatalog(t)
      PROVE  RevInv'
  <2>1. access[t] = "ready"
    BY <1>3 DEF BeginUpdate, BeginImport, BeginSave, BeginCatalog, Ready
  <2>2. \/ Begin(t, Refreshed(t).data \cup Head(queue[t]).edits, "catalogs")
        \/ Begin(t, Head(queue[t]).cand, "catalogs")
        \/ Begin(t, Refreshed(t).data, "cacheOnly")
    BY <1>3 DEF BeginUpdate, BeginImport, BeginSave, BeginCatalog
  <2>3. QED
    BY <2>1, <2>2, BeginKeeps
<1>4. QED
  BY <1>1, <1>2, <1>3 DEF BeginRequest

\* The tab ends its transaction with a view that still satisfies the invariant.
LEMMA TabEnds ==
  ASSUME RevInv, TypeOK', NEW t \in Tabs, canonical' = canonical, pc'[t] = "idle",
         ViewInv(t)', \A u \in Tabs \ {t} : Same(u)
  PROVE  RevInv'
<1>1. PlaceInv(t)'
  BY DEF PlaceInv, LoadPlaces, SavePlaces
<1>2. QED
  BY <1>1, OneTabMoves DEF TabInv

LEMMA SaveCatalogKeeps ==
  ASSUME RevInv, TypeOK', NEW t \in Tabs, SaveCatalog(t)
  PROVE  RevInv'
<1>1. canonical' = canonical /\ access' = access /\ known' = known /\ Release(t)
  BY DEF SaveCatalog, Answer
<1>2. \A u \in Tabs : live'[u].data = live[u].data /\ (u # t => live'[u] = live[u])
  <2>1. CASE UNCHANGED live
    BY <2>1
  <2>2. ASSUME NEW s \in work[t].todo,
               live' = [live EXCEPT ![t].cat = WithCatalog(@, s, work[t].val)]
        PROVE  \A u \in Tabs : live'[u].data = live[u].data /\ (u # t => live'[u] = live[u])
    <3> DEFINE c == WithCatalog(live[t].cat, s, work[t].val)
    <3>1. live' = [live EXCEPT ![t] = [live[t] EXCEPT !.cat = c]]
      BY <2>2
    <3> HIDE DEF c
    <3>2. live[t] \in Views /\ live \in [Tabs -> Views]
      BY DEF RevInv, TypeOK, TabType
    <3>3. live'[t].data = live[t].data /\ \A u \in Tabs \ {t} : live'[u] = live[u]
      BY <3>1, <3>2 DEF Views
    <3>4. QED
      BY <3>3
  <2>3. QED
    BY <2>1, <2>2 DEF SaveCatalog
<1>3. ViewInv(t)'
  BY <1>1, <1>2 DEF ViewInv, RevInv, TabInv, Current
<1>4. \A u \in Tabs \ {t} : Same(u)
  BY <1>1, <1>2, ReleasedPc DEF Same, RevInv
<1>5. QED
  BY <1>1, <1>3, <1>4, ReleasedPc, TabEnds DEF RevInv

LEMMA CommitStepKeeps ==
  ASSUME RevInv, TypeOK', NEW t \in Tabs, PersistCatalog(t) \/ PersistBackup(t)
  PROVE  RevInv'
<1>1. /\ canonical' = canonical /\ access' = access /\ known' = known /\ live' = live
      /\ pc[t] = "catalogs"
  BY DEF PersistCatalog, PersistBackup, tabVars
<1>2. \A u \in Tabs \ {t} : pc'[u] = pc[u] /\ work'[u] = work[u]
  BY DEF PersistCatalog, PersistBackup, Fail, Goto, RevInv, TypeOK, LockType, WorkType
<1>3. access[t] = "ready" /\ Current(canonical)
  BY <1>1 DEF RevInv, TabInv, PlaceInv, SavePlaces
<1>4. ViewInv(t)'
  BY <1>1 DEF ViewInv, RevInv, TabInv, Current
<1>5. PlaceInv(t)'
  <2>1. CASE pc'[t] \in {"catalogs", "rollback"}
    BY <1>1, <1>3, <2>1 DEF PlaceInv, LoadPlaces, SavePlaces, Current
  <2>2. CASE PersistBackup(t) /\ pc'[t] = "canonical"
    <3> DEFINE e == Envelope(CONFIG_SCHEMA_VERSION, canonical.rev + 1, work[t].draft)
    <3>1. work' = [work EXCEPT ![t] = [work[t] EXCEPT !.env = e]]
      BY <2>2 DEF PersistBackup
    <3> HIDE DEF e
    <3>2. work[t] \in Works
      BY DEF RevInv, TypeOK, WorkType
    <3>3. work'[t] = [work[t] EXCEPT !.env = e]
      BY <3>1 DEF RevInv, TypeOK, WorkType
    <3>4. work'[t].env = e /\ work'[t].draft = work[t].draft
      BY <3>2, <3>3 DEF Works
    <3>5. work'[t].env = Envelope(CONFIG_SCHEMA_VERSION, canonical'.rev + 1, work'[t].draft)
      BY <1>1, <3>4 DEF e
    <3>6. QED
      BY <1>1, <1>3, <2>2, <3>5 DEF PlaceInv, LoadPlaces, SavePlaces, Current
  <2>3. pc'[t] \in {"catalogs", "rollback"} \/ (PersistBackup(t) /\ pc'[t] = "canonical")
    BY <1>1 DEF PersistCatalog, PersistBackup, Fail, Goto, RevInv, TypeOK, LockType
  <2>4. QED
    BY <2>1, <2>2, <2>3
<1>6. QED
  BY <1>1, <1>2, <1>4, <1>5, OneTabMoves DEF TabInv, Same

LEMMA PersistCanonicalKeeps ==
  ASSUME RevInv, TypeOK', NEW t \in Tabs, PersistCanonical(t)
  PROVE  RevInv'
<1>1. /\ access' = access /\ known' = known /\ live' = live /\ work' = work
      /\ pc[t] = "canonical"
  BY DEF PersistCanonical, tabVars
<1>2. \A u \in Tabs \ {t} : Same(u)
  BY <1>1 DEF PersistCanonical, Fail, Goto, Same, RevInv, TypeOK, LockType
<1>3. /\ access[t] = "ready" /\ Current(canonical)
      /\ work[t].env = Envelope(CONFIG_SCHEMA_VERSION, canonical.rev + 1, work[t].draft)
  BY <1>1 DEF RevInv, TabInv, PlaceInv, SavePlaces
<1>4. CASE canonical' = canonical /\ pc'[t] = "rollback"
  <2>1. PlaceInv(t)'
    BY <1>1, <1>3, <1>4 DEF PlaceInv, LoadPlaces, SavePlaces
  <2>2. ViewInv(t)'
    BY <1>1, <1>4 DEF ViewInv, RevInv, TabInv, Current
  <2>3. QED
    BY <1>2, <1>4, <2>1, <2>2, OneTabMoves DEF TabInv
<1>5. CASE canonical' = work[t].env /\ pc'[t] = "apply"
  <2>1. /\ Current(canonical') /\ canonical'.rev = canonical.rev + 1
        /\ canonical'.data = work[t].draft
    BY <1>3, <1>5 DEF Envelope, Current
  <2>2. canonical.rev \in Nat /\ known[t] \in Nat /\ known[t] <= canonical.rev
    BY <1>3 DEF RevInv, TypeOK, StorageType, TabType, Envelopes, TabInv, ViewInv
  <2>3. PlaceInv(t)'
    BY <1>1, <1>3, <1>5, <2>1 DEF PlaceInv, LoadPlaces, SavePlaces, Current
  <2>4. ViewInv(t)'
    BY <1>1, <2>1, <2>2 DEF ViewInv
  <2>5. canonical'.kind = "ok" /\ canonical'.rev > canonical.rev
    BY <2>1, <2>2 DEF Current
  <2>6. QED
    BY <1>1, <1>2, <2>3, <2>4, <2>5, HolderWrites DEF TabInv
<1>6. QED
  BY <1>4, <1>5 DEF PersistCanonical, Fail, Goto, RevInv, TypeOK, LockType

LEMMA ApplyKeeps ==
  ASSUME RevInv, TypeOK', NEW t \in Tabs, Apply(t)
  PROVE  RevInv'
<1>1. canonical' = canonical /\ access' = access /\ Release(t) /\ pc[t] = "apply"
  BY DEF Apply, Answer, storage
<1>2. \A u \in Tabs \ {t} : Same(u)
  BY <1>1, ReleasedPc DEF Apply, Same, RevInv, TypeOK, TabType
<1>3. canonical = work[t].env /\ Current(canonical) /\ canonical.data = work[t].draft
  BY <1>1 DEF RevInv, TabInv, PlaceInv
<1>4. known'[t] = work[t].env.rev /\ live'[t].data = work[t].draft
  BY DEF Apply, RevInv, TypeOK, TabType
<1>5. canonical.rev \in Nat
  BY DEF RevInv, TypeOK, StorageType, Envelopes
<1>6. ViewInv(t)'
  BY <1>1, <1>3, <1>4, <1>5 DEF ViewInv, Current
<1>7. QED
  BY <1>1, <1>2, <1>6, ReleasedPc, TabEnds DEF RevInv

LEMMA RollBackKeeps ==
  ASSUME RevInv, TypeOK', NEW t \in Tabs, RollBack(t)
  PROVE  RevInv'
<1>1. /\ canonical' = canonical /\ access' = access /\ known' = known /\ live' = live
      /\ pc[t] = "rollback"
  BY DEF RollBack
<1>2. access[t] = "ready"
  BY <1>1 DEF RevInv, TabInv, PlaceInv, SavePlaces
<1>3. ViewInv(t)'
  BY <1>1 DEF ViewInv, RevInv, TabInv, Current
<1>4. CASE Release(t)
  BY <1>1, <1>3, <1>4, ReleasedPc, TabEnds DEF RevInv, Same
<1>5. CASE pc' = pc /\ \A u \in Tabs \ {t} : work'[u] = work[u]
  <2>1. PlaceInv(t)'
    BY <1>1, <1>2, <1>5 DEF PlaceInv, LoadPlaces, SavePlaces
  <2>2. QED
    BY <1>1, <1>3, <1>5, <2>1, OneTabMoves DEF TabInv, Same
<1>6. QED
  BY <1>4, <1>5 DEF RollBack, Answer, RevInv, TypeOK, WorkType
-----------------------------
(* The environment, and the theorem.                                       *)

LEMMA CloseTabKeeps ==
  ASSUME RevInv, TypeOK', NEW t \in Tabs, CloseTab(t)
  PROVE  RevInv'
<1>1. canonical' = canonical /\ access'[t] = "closed" /\ pc'[t] = "idle"
  BY DEF CloseTab, storage, RevInv, TypeOK, TabType, LockType
<1>2. \A u \in Tabs \ {t} : Same(u)
  BY DEF CloseTab, Same, RevInv, TypeOK, TabType, LockType, WorkType
<1>3. ViewInv(t)'
  BY <1>1 DEF ViewInv
<1>4. QED
  BY <1>1, <1>2, <1>3, TabEnds

LEMMA NewerReleaseKeeps ==
  ASSUME RevInv, TypeOK', NewerReleaseMigrates
  PROVE  RevInv'
<1>1. /\ canonical'.kind = "ok" /\ canonical'.rev = canonical.rev + 1
      /\ UNCHANGED <<access, known, live, pc, work>>
  BY DEF NewerReleaseMigrates, Envelope, tabVars
<1>2. canonical.rev \in Nat
  BY DEF RevInv, TypeOK, StorageType, Envelopes
<1>3. ASSUME NEW t \in Tabs PROVE TabInv(t)'
  <2>1. pc[t] = "idle"
    BY ConfigAssumption DEF NewerReleaseMigrates, RevInv, TypeOK, LockType
  <2>2. known[t] \in Nat
    BY DEF RevInv, TypeOK, TabType
  <2>3. PlaceInv(t)'
    BY <1>1, <2>1 DEF PlaceInv, LoadPlaces, SavePlaces
  <2>4. ViewInv(t)'
    BY <1>1, <1>2, <2>2 DEF RevInv, TabInv, ViewInv
  <2>5. QED
    BY <2>3, <2>4 DEF TabInv
<1>4. QED
  BY <1>1, <1>3 DEF RevInv, AbsentInv

LEMMA RevStep ==
  ASSUME Undamaged', RevInv, [Next]_vars
  PROVE  RevInv'
<1>1. TypeOK'
  BY TypeStep DEF RevInv
<1>2. ASSUME NEW t \in Tabs, Load(t) PROVE RevInv'
  BY <1>1, <1>2, ReadOnlyKeeps, LoadCanonicalKeeps, RecoverKeeps, FreshKeeps,
     MigrationKeeps DEF Load
<1>3. ASSUME NEW t \in Tabs, Transact(t) PROVE RevInv'
  BY <1>1, <1>3, SaveCatalogKeeps, CommitStepKeeps, PersistCanonicalKeeps, ApplyKeeps,
     RollBackKeeps DEF Transact
<1>4. ASSUME NEW t \in Tabs,
             \/ OpenTab(t) \/ Probe(t) \/ RetryStorage(t) \/ BeginLoad(t)
             \/ Request(t) \/ Refuse(t) \/ BeginRequest(t) \/ CloseTab(t)
      PROVE  RevInv'
  BY <1>1, <1>4, OpenKeeps, BeginLoadKeeps, BeginRequestKeeps, CloseTabKeeps
<1>5. ASSUME NEW l \in {"init", "migration"}, ExpireLease(l) PROVE RevInv'
  BY <1>1, <1>5, NothingMoves DEF ExpireLease, storage, tabVars
<1>6. ~Corrupt
  BY DEF Corrupt, Undamaged, RevInv, TypeOK, HistoryType
<1>7. CASE UNCHANGED vars
  BY <1>1, <1>7, NothingMoves DEF vars, storage, tabVars
<1>8. QED
  BY <1>1, <1>2, <1>3, <1>4, <1>5, <1>6, <1>7, NewerReleaseKeeps DEF Next

\* Only a damage counts as one.
LEMMA DamageCounted ==
  ASSUME [Next]_vars PROVE corruptions' = corruptions \/ Corrupt
<1>1. ASSUME NEW t \in Tabs, Load(t) PROVE corruptions' = corruptions
  BY <1>1 DEF Load, LoadReadOnly, LoadNewer, LoadCanonical, LoadDefaults, Recover,
              BeginFresh, WriteFresh, MarkFresh, BeginMigration, LeaseBusy,
              MigrateBackup, MigrateCanonical, MigrateFailed, LoadFailed, LoadThrew,
              LoadDone, TakeLease, faults
<1>2. ASSUME NEW t \in Tabs, Transact(t) PROVE corruptions' = corruptions
  BY <1>2 DEF Transact, SaveCatalog, PersistCatalog, PersistBackup, PersistCanonical,
              Apply, RollBack, faults
<1>3. ASSUME NEW t \in Tabs, BeginRequest(t) PROVE corruptions' = corruptions
  BY <1>3 DEF BeginRequest, RefuseStale, SkipUpdate, BeginUpdate, BeginImport,
              BeginSave, BeginCatalog, Begin, faults
<1>4. ASSUME NEW t \in Tabs,
             \/ OpenTab(t) \/ Probe(t) \/ RetryStorage(t) \/ BeginLoad(t)
             \/ Request(t) \/ Refuse(t) \/ CloseTab(t)
      PROVE  corruptions' = corruptions
  BY <1>4 DEF OpenTab, Probe, RetryStorage, BeginLoad, Request, Refuse, CloseTab, faults
<1>5. NewerReleaseMigrates \/ UNCHANGED vars => corruptions' = corruptions
  BY DEF NewerReleaseMigrates, vars, faults
<1>6. ASSUME NEW l \in {"init", "migration"}, ExpireLease(l)
      PROVE  corruptions' = corruptions
  BY <1>6 DEF ExpireLease, faults
<1>7. QED
  BY <1>1, <1>2, <1>3, <1>4, <1>5, <1>6 DEF Next

LEMMA NeverDamaged ==
  ASSUME MaxCorruptions = 0
  PROVE  Spec => []Undamaged
<1>1. Init => Undamaged
  BY DEF Init, Undamaged
<1>2. Undamaged /\ [Next]_vars => Undamaged'
  BY DamageCounted DEF Corrupt, Undamaged
<1>3. QED
  BY <1>1, <1>2, PTL DEF Spec

LEMMA RevAlways ==
  ASSUME MaxCorruptions = 0
  PROVE  Spec => [](RevInv /\ Undamaged)
<1>1. Init => RevInv
  BY RevInit
<1>2. RevInv /\ Undamaged' /\ [Next]_vars => RevInv'
  BY RevStep
<1>3. QED
  BY <1>1, <1>2, NeverDamaged, PTL DEF Spec

\* The revision tells a stale view, in every tab and at every moment: what
\* refreshConfigIfStale and the stale checks of saveConfigKeys rely on.
THEOREM RevisionIdentifies ==
  ASSUME MaxCorruptions = 0
  PROVE  Spec => []RevisionIdentifiesData
<1>1. RevInv => RevisionIdentifiesData
  BY DEF RevInv, TabInv, ViewInv, RevisionIdentifiesData
<1>2. QED
  BY <1>1, RevAlways, PTL

\* Five actions write the envelope, and a damage changes it.
LEMMA EnvelopeChanged ==
  ASSUME [Next]_vars, canonical' # canonical
  PROVE  \/ Corrupt \/ NewerReleaseMigrates
         \/ \E t \in Tabs : \/ Recover(t) \/ WriteFresh(t) \/ MigrateCanonical(t)
                            \/ PersistCanonical(t)
<1>1. ASSUME NEW t \in Tabs, Load(t)
      PROVE  Recover(t) \/ WriteFresh(t) \/ MigrateCanonical(t)
  BY <1>1 DEF Load, LoadReadOnly, LoadNewer, LoadCanonical, LoadDefaults, BeginFresh,
              MarkFresh, BeginMigration, LeaseBusy, MigrateBackup, MigrateFailed,
              LoadFailed, LoadThrew, LoadDone, TakeLease, storage
<1>2. ASSUME NEW t \in Tabs, Transact(t) PROVE PersistCanonical(t)
  BY <1>2 DEF Transact, SaveCatalog, PersistCatalog, PersistBackup, Apply, RollBack,
              storage
<1>3. ASSUME NEW t \in Tabs, BeginRequest(t) PROVE FALSE
  BY <1>3 DEF BeginRequest, RefuseStale, SkipUpdate, BeginUpdate, BeginImport,
              BeginSave, BeginCatalog, Begin, storage
<1>4. ASSUME NEW t \in Tabs,
             \/ OpenTab(t) \/ Probe(t) \/ RetryStorage(t) \/ BeginLoad(t)
             \/ Request(t) \/ Refuse(t) \/ CloseTab(t)
      PROVE  FALSE
  BY <1>4 DEF OpenTab, Probe, RetryStorage, BeginLoad, Request, Refuse, CloseTab, storage
<1>5. ~UNCHANGED vars /\ \A l \in {"init", "migration"} : ~ExpireLease(l)
  BY DEF vars, ExpireLease, storage
<1>6. QED
  BY <1>1, <1>2, <1>3, <1>4, <1>5 DEF Next

LEMMA EnvelopeWriters ==
  ASSUME Undamaged', RevInv, [Next]_vars, canonical' # canonical
  PROVE  \/ NewerReleaseMigrates
         \/ \E t \in Tabs : \/ Recover(t) \/ WriteFresh(t) \/ MigrateCanonical(t)
                            \/ PersistCanonical(t)
<1>1. ~Corrupt
  BY DEF Corrupt, Undamaged, RevInv, TypeOK, HistoryType
<1>2. QED
  BY <1>1, EnvelopeChanged

\* The envelope changes in five ways; each takes a larger revision, and none
\* replaces an envelope of a later schema.
LEMMA EnvelopeStep ==
  ASSUME Undamaged', RevInv, [Next]_vars, canonical' # canonical
  PROVE  canonical'.rev > canonical.rev /\ ~Newer(canonical)
<1>1. canonical.rev \in Nat /\ canonical \in Envelopes /\ backup.rev \in Nat
  BY DEF RevInv, TypeOK, StorageType, Envelopes
<1>2. ASSUME NEW t \in Tabs, Recover(t) PROVE canonical' = Recovered /\ ~Newer(canonical)
  BY <1>2 DEF Recover
<1>3. ASSUME NEW t \in Tabs, WriteFresh(t)
      PROVE  canonical'.rev = 1 /\ canonical = NoEnvelope
  <2>1. canonical' = Envelope(CONFIG_SCHEMA_VERSION, 1, {}) /\ pc[t] = "freshCanonical"
    BY <1>3 DEF WriteFresh
  <2>2. QED
    BY <2>1 DEF Envelope, RevInv, TabInv, PlaceInv
<1>4. ASSUME NEW t \in Tabs, MigrateCanonical(t)
      PROVE  canonical'.rev = canonical.rev + 1 /\ Valid(canonical)
  <2>1. canonical' = Migrated /\ pc[t] = "migrateCanonical"
    BY <1>4 DEF MigrateCanonical
  <2>2. QED
    BY <2>1 DEF Migrated, Envelope, RevInv, TabInv, PlaceInv
<1>5. ASSUME NEW t \in Tabs, PersistCanonical(t)
      PROVE  canonical'.rev = canonical.rev + 1 /\ Current(canonical)
  <2>1. canonical' = work[t].env /\ pc[t] = "canonical"
    BY <1>5 DEF PersistCanonical
  <2>2. /\ Current(canonical)
        /\ work[t].env = Envelope(CONFIG_SCHEMA_VERSION, canonical.rev + 1, work[t].draft)
    BY <2>1 DEF RevInv, TabInv, PlaceInv
  <2>3. QED
    BY <2>1, <2>2 DEF Envelope
<1>6. ASSUME NewerReleaseMigrates
      PROVE  canonical'.rev = canonical.rev + 1 /\ Valid(canonical)
  BY <1>6 DEF NewerReleaseMigrates, Envelope
<1>7. QED
  <2>1. Recovered.rev > canonical.rev
    BY <1>1 DEF Recovered, Envelope, MaxRev
  <2>2. NoEnvelope.rev = 0 /\ ~Newer(NoEnvelope)
    BY DEF NoEnvelope, Newer
  <2>3. Valid(canonical) \/ Current(canonical) => ~Newer(canonical)
    BY <1>1 DEF Valid, Current, Newer, CONFIG_SCHEMA_VERSION
  <2>4. canonical.rev + 1 > canonical.rev
    BY <1>1
  <2>5. QED
    BY <1>2, <1>3, <1>4, <1>5, <1>6, <2>1, <2>2, <2>3, <2>4, EnvelopeWriters

\* No writer ever stores a revision another tab may already know.
THEOREM RevisionsGrow ==
  ASSUME MaxCorruptions = 0
  PROVE  Spec => RevisionGrows
<1>1. RevInv /\ Undamaged' /\ [Next]_vars =>
        [canonical' # canonical => canonical'.rev > canonical.rev]_vars
  BY EnvelopeStep
<1>2. QED
  BY <1>1, RevAlways, PTL DEF Spec, RevisionGrows

\* An envelope of a later schema survives every tab of this release, also one
\* that loaded before it appeared and has requests queued.
THEOREM NewerSchemaSurvives ==
  ASSUME MaxCorruptions = 0
  PROVE  Spec => NewerSchemaPreserved
<1>1. RevInv /\ Undamaged' /\ [Next]_vars =>
        [Newer(canonical) => canonical' = canonical]_vars
  BY EnvelopeStep
<1>2. QED
  BY <1>1, RevAlways, PTL DEF Spec, NewerSchemaPreserved

-----------------------------
(* No lost update, for the requests that change a draft under the lock.    *)

CommitPlaces == {"catalogs", "canonical", "apply"}

\* A transaction's draft has everything stored and the edits it answers.
DraftInv(t) ==
  pc[t] \in CommitPlaces =>
    /\ queue[t] # <<>>
    /\ Head(queue[t]).edits \subseteq work[t].draft
    /\ canonical.data \subseteq work[t].draft

AckInv ==
  /\ NoLostUpdate
  /\ ~Valid(canonical) /\ ~Newer(canonical) => Acked = {}

LostInv == AckInv /\ \A t \in Tabs : DraftInv(t)

Kept(u) == pc'[u] = pc[u] /\ work'[u] = work[u] /\ queue'[u] = queue[u]

LEMMA CurrentValid ==
  ASSUME NEW e, Current(e) PROVE Valid(e)
  BY DEF Current, Valid, CONFIG_SCHEMA_VERSION

LEMMA EnvelopeKeepsAcked ==
  ASSUME Undamaged', RevInv, LostInv, [Next]_vars, canonical' # canonical
  PROVE  Acked \subseteq canonical'.data /\ (Valid(canonical') \/ Newer(canonical'))
<1>1. ASSUME NEW t \in Tabs, Recover(t)
      PROVE  Acked = {} /\ Current(canonical')
  <2>1. canonical' = Recovered /\ ~Valid(canonical) /\ ~Newer(canonical)
    BY <1>1 DEF Recover
  <2>2. Current(Recovered)
    BY DEF Recovered, Envelope, Current
  <2>3. QED
    BY <2>1, <2>2 DEF LostInv, AckInv
<1>2. ASSUME NEW t \in Tabs, WriteFresh(t)
      PROVE  Acked = {} /\ Current(canonical')
  <2>1. canonical' = Envelope(CONFIG_SCHEMA_VERSION, 1, {}) /\ pc[t] = "freshCanonical"
    BY <1>2 DEF WriteFresh
  <2>2. canonical = NoEnvelope
    BY <2>1 DEF RevInv, TabInv, PlaceInv
  <2>3. ~Valid(canonical) /\ ~Newer(canonical)
    BY <2>2 DEF NoEnvelope, Valid, Newer
  <2>4. QED
    BY <2>1, <2>3 DEF Envelope, Current, LostInv, AckInv
<1>3. ASSUME NEW t \in Tabs, MigrateCanonical(t)
      PROVE  canonical'.data = canonical.data /\ Current(canonical')
  <2>1. canonical' = Migrated
    BY <1>3 DEF MigrateCanonical
  <2>2. QED
    BY <2>1 DEF Migrated, Envelope, Current
<1>4. ASSUME NEW t \in Tabs, PersistCanonical(t)
      PROVE  canonical.data \subseteq canonical'.data /\ Current(canonical')
  <2>1. canonical' = work[t].env /\ pc[t] = "canonical"
    BY <1>4 DEF PersistCanonical
  <2>2. work[t].env = Envelope(CONFIG_SCHEMA_VERSION, canonical.rev + 1, work[t].draft)
    BY <2>1 DEF RevInv, TabInv, PlaceInv
  <2>3. canonical.data \subseteq work[t].draft
    BY <2>1 DEF LostInv, DraftInv, CommitPlaces
  <2>4. QED
    BY <2>1, <2>2, <2>3 DEF Envelope, Current
<1>5. ASSUME NewerReleaseMigrates
      PROVE  canonical'.data = canonical.data /\ Newer(canonical')
  BY <1>5 DEF NewerReleaseMigrates, Envelope, Newer, CONFIG_SCHEMA_VERSION
<1>6. Acked \subseteq canonical.data
  BY DEF LostInv, AckInv, NoLostUpdate
<1>7. QED
  BY <1>1, <1>2, <1>3, <1>4, <1>5, <1>6, EnvelopeWriters, CurrentValid

LEMMA ApplyKeepsAcked ==
  ASSUME RevInv, LostInv, NEW t \in Tabs, Apply(t)
  PROVE  /\ canonical' = canonical /\ Valid(canonical)
         /\ Acked' \subseteq canonical.data
<1>1. canonical' = canonical /\ pc[t] = "apply" /\ queue[t] # <<>>
      /\ acked' = [acked EXCEPT ![t] = acked[t] \cup Head(queue[t]).edits]
  BY DEF Apply, Answer, storage
<1>2. Current(canonical) /\ canonical.data = work[t].draft
  BY <1>1 DEF RevInv, TabInv, PlaceInv
<1>3. Head(queue[t]).edits \subseteq canonical.data
  BY <1>1, <1>2 DEF LostInv, DraftInv, CommitPlaces
<1>4. \A u \in Tabs : acked[u] \subseteq canonical.data
  BY DEF LostInv, AckInv, NoLostUpdate, Acked
<1>5. \A u \in Tabs : acked'[u] \subseteq canonical.data
  BY <1>1, <1>3, <1>4 DEF RevInv, TypeOK, HistoryType
<1>6. QED
  BY <1>1, <1>2, <1>5, CurrentValid DEF Acked

LEMMA AckedStep ==
  ASSUME [Next]_vars, acked' # acked
  PROVE  \E t \in Tabs : Apply(t)
<1>1. ASSUME NEW t \in Tabs, Load(t) PROVE FALSE
  BY <1>1 DEF Load, LoadReadOnly, LoadNewer, LoadCanonical, LoadDefaults, Recover,
              BeginFresh, WriteFresh, MarkFresh, BeginMigration, LeaseBusy,
              MigrateBackup, MigrateCanonical, MigrateFailed, LoadFailed, LoadThrew,
              LoadDone, TakeLease, history
<1>2. ASSUME NEW t \in Tabs, Transact(t) PROVE Apply(t)
  BY <1>2 DEF Transact, SaveCatalog, PersistCatalog, PersistBackup, PersistCanonical,
              RollBack, history
<1>3. ASSUME NEW t \in Tabs, BeginRequest(t) PROVE FALSE
  BY <1>3 DEF BeginRequest, RefuseStale, SkipUpdate, BeginUpdate, BeginImport,
              BeginSave, BeginCatalog, Begin, history
<1>4. ASSUME NEW t \in Tabs,
             \/ OpenTab(t) \/ Probe(t) \/ RetryStorage(t) \/ BeginLoad(t)
             \/ Request(t) \/ Refuse(t) \/ CloseTab(t)
      PROVE  FALSE
  BY <1>4 DEF OpenTab, Probe, RetryStorage, BeginLoad, Request, Refuse, CloseTab, history
<1>5. ~Corrupt /\ ~NewerReleaseMigrates
  BY DEF Corrupt, NewerReleaseMigrates, history
<1>6. ~UNCHANGED vars /\ \A l \in {"init", "migration"} : ~ExpireLease(l)
  BY DEF vars, ExpireLease, history
<1>7. QED
  BY <1>1, <1>2, <1>3, <1>4, <1>5, <1>6 DEF Next

LEMMA AckStep ==
  ASSUME Undamaged', RevInv, LostInv, [Next]_vars
  PROVE  AckInv'
<1>1. CASE acked' # acked
  <2>1. PICK t \in Tabs : Apply(t)
    BY <1>1, AckedStep
  <2>2. QED
    BY <2>1, ApplyKeepsAcked DEF AckInv, NoLostUpdate
<1>2. CASE acked' = acked /\ canonical' # canonical
  <2>1. Acked' = Acked
    BY <1>2 DEF Acked
  <2>2. QED
    BY <1>2, <2>1, EnvelopeKeepsAcked DEF AckInv, NoLostUpdate
<1>3. CASE acked' = acked /\ canonical' = canonical
  <2>1. Acked' = Acked
    BY <1>3 DEF Acked
  <2>2. QED
    BY <1>3, <2>1 DEF LostInv, AckInv, NoLostUpdate
<1>4. QED
  BY <1>1, <1>2, <1>3

\* Whoever else is committing keeps its draft, its request and the envelope.
LEMMA DraftStays ==
  ASSUME RevInv, LostInv, NEW u \in Tabs, Kept(u), canonical' = canonical \/ pc[u] = "idle"
  PROVE  DraftInv(u)'
  BY DEF LostInv, DraftInv, Kept, CommitPlaces

LEMMA DraftActor ==
  ASSUME RevInv, LostInv, NEW t \in Tabs, DraftInv(t)', \A u \in Tabs \ {t} : Kept(u),
         canonical' = canonical \/ pc[t] # "idle"
  PROVE  \A u \in Tabs : DraftInv(u)'
<1>1. ASSUME NEW u \in Tabs, u # t PROVE DraftInv(u)'
  <2>1. canonical' = canonical \/ pc[u] = "idle"
    BY <1>1, HolderAlone DEF RevInv
  <2>2. QED
    BY <1>1, <2>1, DraftStays
<1>2. QED
  BY <1>1

LEMMA NotCommitting ==
  ASSUME NEW t \in Tabs, pc'[t] \notin CommitPlaces
  PROVE  DraftInv(t)'
  BY DEF DraftInv

LEMMA DraftLoad ==
  ASSUME RevInv, LostInv, NEW t \in Tabs, Load(t)
  PROVE  \A u \in Tabs : DraftInv(u)'
<1>1. CASE LoadReadOnly(t)
  <2>1. UNCHANGED <<canonical, pc, work, queue>>
    BY <1>1 DEF LoadReadOnly, storage
  <2>2. QED
    BY <2>1, DraftStays DEF Kept
<1>2. CASE ~LoadReadOnly(t)
  <2>1. pc[t] # "idle" /\ queue' = queue
    BY <1>2 DEF Load, LoadNewer, LoadCanonical, LoadDefaults, Recover, BeginFresh,
              WriteFresh, MarkFresh, BeginMigration, LeaseBusy, MigrateBackup,
              MigrateCanonical, MigrateFailed, LoadFailed, LoadThrew, LoadDone, TakeLease
  <2>2. (Release(t) \/ (work' = work /\ \E p \in LoadPlaces : Goto(t, p)))
    BY <1>2 DEF Load, LoadNewer, LoadCanonical, LoadDefaults, Recover, BeginFresh,
              WriteFresh, MarkFresh, BeginMigration, LeaseBusy, MigrateBackup,
              MigrateCanonical, MigrateFailed, LoadFailed, LoadThrew, LoadDone, TakeLease,
              LoadPlaces
  <2>3. pc'[t] \notin CommitPlaces /\ \A u \in Tabs \ {t} : Kept(u)
    BY <2>1, <2>2, ReleasedPc
       DEF Kept, Goto, RevInv, TypeOK, LockType, CommitPlaces, LoadPlaces
  <2>4. QED
    BY <2>1, <2>3, NotCommitting, DraftActor
<1>3. QED
  BY <1>1, <1>2

LEMMA DraftQueue ==
  ASSUME RevInv, LostInv, NEW t \in Tabs, Request(t) \/ Refuse(t) \/ RefuseStale(t)
  PROVE  \A u \in Tabs : DraftInv(u)'
<1>1. UNCHANGED <<canonical, pc, work>>
  BY DEF Request, Refuse, RefuseStale, storage
<1>2. \A u \in Tabs \ {t} : Kept(u)
  BY <1>1 DEF Request, Refuse, RefuseStale, Kept, RevInv, TypeOK
<1>3. DraftInv(t)'
  <2>1. CASE pc[t] = "idle"
    BY <1>1, <2>1, NotCommitting DEF CommitPlaces
  <2>2. CASE pc[t] # "idle" /\ pc[t] \in CommitPlaces
    <3>1. Request(t)
      BY <2>2 DEF Refuse, RefuseStale
    <3>2. queue[t] \in Seq(Requests) /\ queue[t] # <<>>
      BY <2>2 DEF LostInv, DraftInv, RevInv, TypeOK
    <3>3. PICK r : queue' = [queue EXCEPT ![t] = Append(queue[t], r)]
      BY <3>1, Zenon DEF Request
    <3>4. queue'[t] = Append(queue[t], r)
      BY <3>3 DEF RevInv, TypeOK
    <3>5. queue'[t] # <<>> /\ Head(queue'[t]) = Head(queue[t])
      BY <3>2, <3>4
    <3>6. QED
      BY <1>1, <2>2, <3>5 DEF LostInv, DraftInv
  <2>3. CASE pc[t] \notin CommitPlaces
    BY <1>1, <2>3, NotCommitting
  <2>4. QED
    BY <2>1, <2>2, <2>3
<1>4. QED
  BY <1>1, <1>2, <1>3, DraftActor

LEMMA DraftBegin ==
  ASSUME Kinds \subseteq {"update", "catalog"}, RevInv, LostInv, NEW t \in Tabs,
         SkipUpdate(t) \/ BeginUpdate(t) \/ BeginImport(t) \/ BeginSave(t)
         \/ BeginCatalog(t)
  PROVE  \A u \in Tabs : DraftInv(u)'
<1>1. canonical' = canonical /\ access[t] = "ready" /\ queue[t] # <<>>
  BY DEF SkipUpdate, BeginUpdate, BeginImport, BeginSave, BeginCatalog, Begin, Ready,
         storage
<1>2. \A u \in Tabs \ {t} : Kept(u)
  BY DEF SkipUpdate, BeginUpdate, BeginImport, BeginSave, BeginCatalog, Begin, Acquire,
         Kept, RevInv, TypeOK, LockType, WorkType
<1>3. CASE SkipUpdate(t)
  <2>1. pc'[t] \notin CommitPlaces
    BY <1>3 DEF SkipUpdate, CommitPlaces
  <2>2. QED
    BY <1>1, <1>2, <2>1, NotCommitting, DraftActor
<1>4. CASE BeginCatalog(t)
  <2>1. pc'[t] \notin CommitPlaces
    BY <1>4 DEF BeginCatalog, Begin, Acquire, CommitPlaces, RevInv, TypeOK, LockType
  <2>2. QED
    BY <1>1, <1>2, <2>1, NotCommitting, DraftActor
<1>5. CASE BeginImport(t) \/ BeginSave(t)
  <2>1. Head(queue[t]).kind \in {"import", "save"}
    BY <1>5 DEF BeginImport, BeginSave, Ready
  <2>2. queue[t] \in Seq(Requests)
    BY DEF RevInv, TypeOK
  <2>3. Head(queue[t]).kind \in Kinds
    BY <1>1, <2>2, HeadType DEF Requests
  <2>4. QED
    BY <2>1, <2>3
<1>6. CASE BeginUpdate(t)
  <2> DEFINE d == Refreshed(t).data \cup Head(queue[t]).edits
  <2>1. Begin(t, d, "catalogs") /\ ~RefreshThrows(t)
    BY <1>6 DEF BeginUpdate, Begin
  <2>2. Refreshed(t).data = canonical.data
    BY <1>1, <2>1, RefreshCurrent
  <2> HIDE DEF d
  <2>3. work'[t].draft = d /\ queue' = queue
    BY <2>1 DEF Begin, NoWork, RevInv, TypeOK, WorkType
  <2>4. DraftInv(t)'
    BY <1>1, <2>2, <2>3 DEF d, DraftInv
  <2>5. QED
    BY <1>1, <1>2, <2>4, DraftActor
<1>7. QED
  BY <1>3, <1>4, <1>5, <1>6

\* Writing catalogs and the backup leaves the draft alone.
LEMMA DraftKept ==
  ASSUME TypeOK, NEW t \in Tabs, PersistCatalog(t) \/ PersistBackup(t)
  PROVE  work'[t].draft = work[t].draft
<1>1. work[t] \in Works /\ work \in [Tabs -> Works]
  BY DEF TypeOK, WorkType
<1>2. CASE PersistBackup(t)
  <2> DEFINE e == Envelope(CONFIG_SCHEMA_VERSION, canonical.rev + 1, work[t].draft)
  <2>1. work' = [work EXCEPT ![t] = [work[t] EXCEPT !.env = e]]
    BY <1>2 DEF PersistBackup
  <2> HIDE DEF e
  <2>2. QED
    BY <1>1, <2>1 DEF Works
<1>3. CASE PersistCatalog(t)
  <2>1. PICK s \in work[t].todo : work' = [work EXCEPT ![t] =
          [work[t] EXCEPT !.todo = @ \ {s}, !.undo = Append(@, <<s, cache[s]>>)]]
    BY <1>3, Zenon DEF PersistCatalog
  <2> DEFINE r == work[t].todo \ {s}
             u == Append(work[t].undo, <<s, cache[s]>>)
  <2>2. work' = [work EXCEPT ![t] = [work[t] EXCEPT !.todo = r, !.undo = u]]
    BY <2>1
  <2> HIDE DEF r, u
  <2>3. QED
    BY <1>1, <2>2 DEF Works
<1>4. QED
  BY <1>2, <1>3

LEMMA DraftTransact ==
  ASSUME RevInv, LostInv, NEW t \in Tabs, Transact(t)
  PROVE  \A u \in Tabs : DraftInv(u)'
<1>1. pc[t] # "idle"
  BY DEF Transact, SaveCatalog, PersistCatalog, PersistBackup, PersistCanonical, Apply,
         RollBack
<1>2. CASE SaveCatalog(t) \/ Apply(t) \/ RollBack(t)
  <2>1. pc'[t] \notin CommitPlaces
    BY <1>2, ReleasedPc
       DEF SaveCatalog, Apply, RollBack, Answer, CommitPlaces, RevInv
  <2>2. \A u \in Tabs \ {t} : Kept(u)
    BY <1>2, ReleasedPc
       DEF SaveCatalog, Apply, RollBack, Answer, Kept, RevInv, TypeOK, WorkType
  <2>3. QED
    BY <1>1, <2>1, <2>2, NotCommitting, DraftActor
<1>3. CASE PersistCatalog(t) \/ PersistBackup(t)
  <2>1. canonical' = canonical /\ queue' = queue /\ pc[t] \in CommitPlaces
    BY <1>3 DEF PersistCatalog, PersistBackup, CommitPlaces
  <2>2. \A u \in Tabs \ {t} : Kept(u)
    BY <1>3 DEF PersistCatalog, PersistBackup, Fail, Goto, Kept, RevInv, TypeOK, LockType,
                WorkType
  <2>3. work'[t].draft = work[t].draft
    BY <1>3, DraftKept DEF RevInv
  <2>4. DraftInv(t)'
    BY <2>1, <2>3 DEF LostInv, DraftInv
  <2>5. QED
    BY <1>1, <2>2, <2>4, DraftActor
<1>4. CASE PersistCanonical(t)
  <2>1. work' = work /\ queue' = queue /\ pc[t] = "canonical"
    BY <1>4 DEF PersistCanonical
  <2>2. \A u \in Tabs \ {t} : Kept(u)
    BY <1>4 DEF PersistCanonical, Fail, Goto, Kept, RevInv, TypeOK, LockType
  <2>3. CASE canonical' = canonical
    <3>1. DraftInv(t)'
      BY <2>1, <2>3 DEF LostInv, DraftInv, CommitPlaces
    <3>2. QED
      BY <1>1, <2>2, <3>1, DraftActor
  <2>4. CASE canonical' = work[t].env
    <3>1. work[t].env = Envelope(CONFIG_SCHEMA_VERSION, canonical.rev + 1, work[t].draft)
      BY <2>1 DEF RevInv, TabInv, PlaceInv
    <3>2. canonical'.data = work[t].draft
      BY <2>4, <3>1 DEF Envelope
    <3>3. DraftInv(t)'
      BY <2>1, <3>2 DEF LostInv, DraftInv, CommitPlaces
    <3>4. QED
      BY <1>1, <2>2, <3>3, DraftActor
  <2>5. QED
    BY <1>4, <2>3, <2>4 DEF PersistCanonical
<1>5. QED
  BY <1>2, <1>3, <1>4 DEF Transact

LEMMA DraftStep ==
  ASSUME Undamaged', Kinds \subseteq {"update", "catalog"}, RevInv, LostInv,
         [Next]_vars
  PROVE  \A u \in Tabs : DraftInv(u)'
<1>1. ASSUME UNCHANGED <<canonical, pc, work, queue>> PROVE \A u \in Tabs : DraftInv(u)'
  BY <1>1, DraftStays DEF Kept
<1>2. ASSUME NEW t \in Tabs, OpenTab(t) \/ Probe(t) \/ RetryStorage(t)
      PROVE  \A u \in Tabs : DraftInv(u)'
  BY <1>1, <1>2 DEF OpenTab, Probe, RetryStorage, storage
<1>3. ASSUME NEW t \in Tabs, BeginLoad(t) PROVE \A u \in Tabs : DraftInv(u)'
  <2>1. canonical' = canonical /\ pc'[t] = "load" /\ \A u \in Tabs \ {t} : Kept(u)
    BY <1>3 DEF BeginLoad, Acquire, storage, Kept, RevInv, TypeOK, LockType
  <2>2. pc'[t] \notin CommitPlaces
    BY <2>1 DEF CommitPlaces
  <2>3. QED
    BY <2>1, <2>2, NotCommitting, DraftActor
<1>4. ASSUME NEW t \in Tabs, CloseTab(t) PROVE \A u \in Tabs : DraftInv(u)'
  <2>1. canonical' = canonical /\ pc'[t] = "idle" /\ \A u \in Tabs \ {t} : Kept(u)
    BY <1>4 DEF CloseTab, storage, Kept, RevInv, TypeOK, LockType, WorkType
  <2>2. pc'[t] \notin CommitPlaces
    BY <2>1 DEF CommitPlaces
  <2>3. QED
    BY <2>1, <2>2, NotCommitting, DraftActor
<1>5. ASSUME NewerReleaseMigrates PROVE \A u \in Tabs : DraftInv(u)'
  <2>1. \A u \in Tabs : pc[u] = "idle"
    BY <1>5, ConfigAssumption DEF NewerReleaseMigrates, RevInv, TypeOK, LockType
  <2>2. \A u \in Tabs : Kept(u)
    BY <1>5 DEF NewerReleaseMigrates, Kept
  <2>3. QED
    BY <2>1, <2>2, DraftStays
<1>6. ASSUME NEW l \in {"init", "migration"}, ExpireLease(l)
      PROVE  \A u \in Tabs : DraftInv(u)'
  BY <1>1, <1>6 DEF ExpireLease, storage
<1>7. ~Corrupt
  BY DEF Corrupt, Undamaged, RevInv, TypeOK, HistoryType
<1>8. CASE UNCHANGED vars
  BY <1>1, <1>8 DEF vars, storage
<1>9. ASSUME NEW t \in Tabs, Request(t) \/ Refuse(t) \/ BeginRequest(t)
      PROVE  \A u \in Tabs : DraftInv(u)'
  BY <1>9, DraftQueue, DraftBegin DEF BeginRequest
<1>10. QED
  BY <1>2, <1>3, <1>4, <1>5, <1>6, <1>7, <1>8, <1>9, DraftLoad, DraftTransact DEF Next

\* No lost update: what any tab was told is committed stays in the stored
\* envelope, for requests that build their draft under the lock (updateConfig,
\* and the cache-only saves of saveConfigKeys).
THEOREM NothingLost ==
  ASSUME MaxCorruptions = 0, Kinds \subseteq {"update", "catalog"}
  PROVE  Spec => []NoLostUpdate
<1>1. Init => LostInv
  <2> SUFFICES ASSUME Init PROVE LostInv
    OBVIOUS
  <2>1. Acked = {}
    BY DEF Init, Acked
  <2>2. \A t \in Tabs : DraftInv(t)
    BY DEF Init, DraftInv, CommitPlaces
  <2>3. QED
    BY <2>1, <2>2 DEF LostInv, AckInv, NoLostUpdate
<1>2. RevInv /\ LostInv /\ Undamaged' /\ [Next]_vars => LostInv'
  BY AckStep, DraftStep DEF LostInv
<1>3. LostInv => NoLostUpdate
  BY DEF LostInv, AckInv
<1>4. QED
  BY <1>1, <1>2, <1>3, RevAlways, PTL DEF Spec
-----------------------------
(* The register.  The store is one atomic versioned register as long as    *)
(* changes are built under the lock and storage is not damaged; one damage *)
(* costs at most one acknowledged edit; and a tab knows whether the        *)
(* catalogs it holds are the stored ones.                                  *)

\* No content storage starts with needs a recovery.
WholeStarts ==
  \A s \in Starts : Valid(s.canonical) \/ Newer(s.canonical) \/ ~Valid(s.backup)

WholeInv == Valid(canonical) \/ Newer(canonical) \/ ~Valid(backup)

\* A waiting update asks for one edit, which is stored only once it is applied.
QueueInv ==
  \A u \in Tabs : \A i \in 1..Len(queue[u]) :
    /\ queue[u][i].edits \subseteq requested
    /\ queue[u][i].kind = "update" => \E e \in Edits : queue[u][i].edits = {e}
    /\ (i = 1 /\ pc[u] = "apply") \/ queue[u][i].edits \cap canonical.data = {}

\* No edit waits twice.
DistinctInv ==
  \A u, v \in Tabs : \A i \in 1..Len(queue[u]), j \in 1..Len(queue[v]) :
    u # v \/ i # j => queue[u][i].edits \cap queue[v][j].edits = {}

DraftPlaces == {"catalogs", "canonical"}

\* The draft is what is stored and the edit of the request in hand.
ExactInv(u) ==
  pc[u] \in DraftPlaces =>
    /\ queue[u] # <<>>
    /\ Head(queue[u]).kind = "update"
    /\ work[u].draft = canonical.data \cup Head(queue[u]).edits

RegInv ==
  /\ WholeInv
  /\ canonical.data \subseteq requested
  /\ QueueInv
  /\ DistinctInv
  /\ \A u \in Tabs : ExactInv(u)

-----------------------------
(* Who writes the backup, and who goes on committing.                      *)

LEMMA BackupWriters ==
  ASSUME [Next]_vars, backup' # backup
  PROVE  \/ NewerReleaseMigrates
         \/ \E t \in Tabs : MigrateBackup(t) \/ PersistBackup(t)
<1>1. ASSUME NEW t \in Tabs, Load(t) PROVE MigrateBackup(t)
  BY <1>1 DEF Load, LoadReadOnly, LoadNewer, LoadCanonical, LoadDefaults, Recover,
              BeginFresh, WriteFresh, MarkFresh, BeginMigration, LeaseBusy,
              MigrateCanonical, MigrateFailed, LoadFailed, LoadThrew, LoadDone,
              TakeLease, storage
<1>2. ASSUME NEW t \in Tabs, Transact(t) PROVE PersistBackup(t)
  BY <1>2 DEF Transact, SaveCatalog, PersistCatalog, PersistCanonical, Apply, RollBack,
              storage
<1>3. ASSUME NEW t \in Tabs, BeginRequest(t) PROVE FALSE
  BY <1>3 DEF BeginRequest, RefuseStale, SkipUpdate, BeginUpdate, BeginImport,
              BeginSave, BeginCatalog, Begin, storage
<1>4. ASSUME NEW t \in Tabs,
             \/ OpenTab(t) \/ Probe(t) \/ RetryStorage(t) \/ BeginLoad(t)
             \/ Request(t) \/ Refuse(t) \/ CloseTab(t)
      PROVE  FALSE
  BY <1>4 DEF OpenTab, Probe, RetryStorage, BeginLoad, Request, Refuse, CloseTab, storage
<1>5. ~UNCHANGED vars /\ ~Corrupt /\ \A l \in {"init", "migration"} : ~ExpireLease(l)
  BY DEF vars, Corrupt, ExpireLease, storage
<1>6. QED
  BY <1>1, <1>2, <1>3, <1>4, <1>5 DEF Next

\* Where one tab holds the lock, no other tab writes the envelope.
LEMMA HolderKeepsEnvelope ==
  ASSUME TypeOK, [Next]_vars, NEW u \in Tabs, pc[u] # "idle",
         canonical' # canonical
  PROVE  Recover(u) \/ WriteFresh(u) \/ MigrateCanonical(u) \/ PersistCanonical(u)
<1>1. ~NewerReleaseMigrates /\ ~Corrupt
  BY ConfigAssumption DEF NewerReleaseMigrates, Corrupt, TypeOK, LockType
<1>2. PICK t \in Tabs : \/ Recover(t) \/ WriteFresh(t) \/ MigrateCanonical(t)
                        \/ PersistCanonical(t)
  BY <1>1, EnvelopeChanged
<1>3. pc[t] # "idle"
  BY <1>2 DEF Recover, WriteFresh, MigrateCanonical, PersistCanonical
<1>4. t = u
  BY <1>3, HolderAlone
<1>5. QED
  BY <1>2, <1>4

\* A tab at a draft place is there since this step, or nothing it uses moved.
LEMMA CommitterStep ==
  ASSUME TypeOK, [Next]_vars, NEW u \in Tabs, pc'[u] \in DraftPlaces
  PROVE  \/ BeginUpdate(u) \/ BeginImport(u) \/ BeginSave(u)
         \/ PersistCatalog(u) \/ PersistBackup(u)
         \/ /\ Kept(u) \/ (Request(u) /\ pc' = pc /\ work' = work)
            /\ canonical' = canonical
<1>1. ASSUME NEW t \in Tabs, Load(t) PROVE Kept(u)
  <2>1. CASE LoadReadOnly(t)
    BY <2>1 DEF LoadReadOnly, Kept
  <2>2. CASE ~LoadReadOnly(t)
    <3>1. queue' = queue
      BY <1>1, <2>2 DEF Load, LoadNewer, LoadCanonical, LoadDefaults, Recover, BeginFresh,
                WriteFresh, MarkFresh, BeginMigration, LeaseBusy, MigrateBackup,
                MigrateCanonical, MigrateFailed, LoadFailed, LoadThrew, LoadDone, TakeLease
    <3>2. Release(t) \/ (work' = work /\ \E p \in LoadPlaces : Goto(t, p))
      BY <1>1, <2>2 DEF Load, LoadNewer, LoadCanonical, LoadDefaults, Recover, BeginFresh,
                WriteFresh, MarkFresh, BeginMigration, LeaseBusy, MigrateBackup,
                MigrateCanonical, MigrateFailed, LoadFailed, LoadThrew, LoadDone, TakeLease,
                LoadPlaces
    <3>3. pc'[t] \notin DraftPlaces /\ \A v \in Tabs \ {t} : Kept(v)
      BY <3>1, <3>2, ReleasedPc
         DEF Kept, Goto, TypeOK, LockType, DraftPlaces, LoadPlaces
    <3>4. QED
      BY <3>3
  <2>3. QED
    BY <2>1, <2>2
<1>2. ASSUME NEW t \in Tabs, SaveCatalog(t) \/ Apply(t) \/ RollBack(t) PROVE Kept(u)
  <2>1. pc'[t] \notin DraftPlaces
    BY <1>2, ReleasedPc DEF SaveCatalog, Apply, RollBack, Answer, DraftPlaces
  <2>2. \A v \in Tabs \ {t} : Kept(v)
    BY <1>2, ReleasedPc
       DEF SaveCatalog, Apply, RollBack, Answer, Kept, TypeOK, WorkType
  <2>3. QED
    BY <2>1, <2>2
<1>3. ASSUME NEW t \in Tabs, PersistCatalog(t) \/ PersistBackup(t)
      PROVE  Kept(u) \/ PersistCatalog(u) \/ PersistBackup(u)
  BY <1>3 DEF PersistCatalog, PersistBackup, Fail, Goto, Kept, TypeOK, LockType,
              WorkType
<1>4. ASSUME NEW t \in Tabs, PersistCanonical(t) PROVE Kept(u)
  BY <1>4 DEF PersistCanonical, Fail, Goto, Kept, TypeOK, LockType, DraftPlaces
<1>5. ASSUME NEW t \in Tabs, SkipUpdate(t) \/ Refuse(t) \/ RefuseStale(t) PROVE Kept(u)
  BY <1>5 DEF SkipUpdate, Refuse, RefuseStale, Kept, TypeOK, DraftPlaces
<1>6. ASSUME NEW t \in Tabs, Request(t)
      PROVE  Kept(u) \/ (Request(u) /\ pc' = pc /\ work' = work)
  BY ZenonT(30), <1>6 DEF Request, Kept, TypeOK
<1>7. ASSUME NEW t \in Tabs,
             BeginUpdate(t) \/ BeginImport(t) \/ BeginSave(t) \/ BeginCatalog(t)
      PROVE  Kept(u) \/ BeginUpdate(u) \/ BeginImport(u) \/ BeginSave(u)
  BY <1>7 DEF BeginUpdate, BeginImport, BeginSave, BeginCatalog, Begin, Acquire,
              Kept, TypeOK, LockType, WorkType, DraftPlaces
<1>8. ASSUME NEW t \in Tabs,
             OpenTab(t) \/ Probe(t) \/ RetryStorage(t) \/ BeginLoad(t) \/ CloseTab(t)
      PROVE  Kept(u)
  BY <1>8 DEF OpenTab, Probe, RetryStorage, BeginLoad, CloseTab, Acquire, Kept,
              TypeOK, LockType, WorkType, DraftPlaces
<1>9. ASSUME NEW l \in {"init", "migration"}, ExpireLease(l) PROVE Kept(u)
  BY <1>9 DEF ExpireLease, Kept
<1>10. NewerReleaseMigrates \/ Corrupt \/ UNCHANGED vars => Kept(u)
  BY DEF NewerReleaseMigrates, Corrupt, vars, Kept
<1>11. Kept(u) \/ (Request(u) /\ pc' = pc /\ work' = work) => canonical' = canonical
  <2> SUFFICES ASSUME Kept(u) \/ (Request(u) /\ pc' = pc /\ work' = work),
                      canonical' # canonical
               PROVE  FALSE
    OBVIOUS
  <2>1. pc[u] \in DraftPlaces /\ pc'[u] = pc[u]
    BY DEF Kept
  <2>2. Recover(u) \/ WriteFresh(u) \/ MigrateCanonical(u) \/ PersistCanonical(u)
    BY <2>1, HolderKeepsEnvelope DEF DraftPlaces
  <2>3. QED
    BY <2>1, <2>2 DEF Recover, WriteFresh, MigrateCanonical, PersistCanonical, Fail, Goto,
                      DraftPlaces, TypeOK, LockType
<1>12. QED
  BY <1>1, <1>2, <1>3, <1>4, <1>5, <1>6, <1>7, <1>8, <1>9, <1>10, <1>11
     DEF Next, Transact, BeginRequest

-----------------------------
(* The waiting requests.                                                   *)

LEMMA QueueSame ==
  ASSUME QueueInv, DistinctInv, queue' = queue, requested \subseteq requested',
         canonical'.data = canonical.data,
         \A u \in Tabs : pc[u] = "apply" => pc'[u] = "apply"
  PROVE  QueueInv' /\ DistinctInv'
<1>1. QueueInv'
  <2> SUFFICES ASSUME NEW u \in Tabs, NEW i \in 1..Len(queue[u])
               PROVE  /\ queue[u][i].edits \subseteq requested'
                      /\ queue[u][i].kind = "update" =>
                           \E e \in Edits : queue[u][i].edits = {e}
                      /\ \/ i = 1 /\ pc'[u] = "apply"
                         \/ queue[u][i].edits \cap canonical'.data = {}
    BY DEF QueueInv
  <2>1. QED
    BY DEF QueueInv
<1>2. DistinctInv'
  BY DEF DistinctInv
<1>3. QED
  BY <1>1, <1>2

\* The first request of a tab is answered.
LEMMA QueueTail ==
  ASSUME TypeOK, QueueInv, DistinctInv, NEW t \in Tabs, queue[t] # <<>>,
         queue' = [queue EXCEPT ![t] = Tail(queue[t])], requested' = requested,
         canonical'.data = canonical.data,
         \A u \in Tabs \ {t} : pc[u] = "apply" => pc'[u] = "apply"
  PROVE  QueueInv' /\ DistinctInv'
<1> DEFINE at(u, i) == IF u = t THEN i + 1 ELSE i
<1>1. ASSUME NEW u \in Tabs, NEW i \in 1..Len(queue'[u])
      PROVE  at(u, i) \in 1..Len(queue[u]) /\ queue'[u][i] = queue[u][at(u, i)]
  <2>1. queue[u] \in Seq(Requests) /\ queue \in [Tabs -> Seq(Requests)]
    BY DEF TypeOK
  <2>2. CASE u = t
    <3>1. queue'[u] = Tail(queue[u])
      BY <2>1, <2>2
    <3>2. Len(Tail(queue[u])) = Len(queue[u]) - 1
      BY <2>1, <2>2
    <3>3. i + 1 \in 1..Len(queue[u]) /\ i \in 1..Len(Tail(queue[u]))
      BY <2>1, <3>1, <3>2
    <3>4. Tail(queue[u])[i] = queue[u][i + 1]
      BY <2>1, <2>2, <3>3
    <3>5. QED
      BY <2>2, <3>1, <3>3, <3>4
  <2>3. CASE u # t
    BY <2>1, <2>3
  <2>4. QED
    BY <2>2, <2>3
<1>2. QueueInv'
  <2> SUFFICES ASSUME NEW u \in Tabs, NEW i \in 1..Len(queue'[u])
               PROVE  /\ queue'[u][i].edits \subseteq requested'
                      /\ queue'[u][i].kind = "update" =>
                           \E e \in Edits : queue'[u][i].edits = {e}
                      /\ \/ i = 1 /\ pc'[u] = "apply"
                         \/ queue'[u][i].edits \cap canonical'.data = {}
    BY DEF QueueInv
  <2> DEFINE j == at(u, i)
  <2>1. j \in 1..Len(queue[u]) /\ queue'[u][i] = queue[u][j]
    BY <1>1
  <2>2. /\ queue[u][j].edits \subseteq requested
        /\ queue[u][j].kind = "update" => \E e \in Edits : queue[u][j].edits = {e}
        /\ (j = 1 /\ pc[u] = "apply") \/ queue[u][j].edits \cap canonical.data = {}
    BY <2>1 DEF QueueInv
  <2>3. j = 1 /\ pc[u] = "apply" => i = 1 /\ pc'[u] = "apply"
    OBVIOUS
  <2> HIDE DEF j
  <2>4. QED
    BY <2>1, <2>2, <2>3
<1>3. DistinctInv'
  <2> SUFFICES ASSUME NEW u \in Tabs, NEW v \in Tabs, NEW i \in 1..Len(queue'[u]),
                      NEW j \in 1..Len(queue'[v]), u # v \/ i # j
               PROVE  queue'[u][i].edits \cap queue'[v][j].edits = {}
    BY DEF DistinctInv
  <2>1. /\ at(u, i) \in 1..Len(queue[u]) /\ queue'[u][i] = queue[u][at(u, i)]
        /\ at(v, j) \in 1..Len(queue[v]) /\ queue'[v][j] = queue[v][at(v, j)]
    BY <1>1
  <2>2. u # v \/ at(u, i) # at(v, j)
    OBVIOUS
  <2> HIDE DEF at
  <2>3. QED
    BY SMTT(30), <2>1, <2>2 DEF DistinctInv
<1>4. QED
  BY <1>2, <1>3

\* A tab is closed: its requests are gone.
LEMMA QueueDropped ==
  ASSUME TypeOK, QueueInv, DistinctInv, NEW t \in Tabs,
         queue' = [queue EXCEPT ![t] = <<>>], requested' = requested,
         canonical'.data = canonical.data,
         \A u \in Tabs \ {t} : pc'[u] = pc[u]
  PROVE  QueueInv' /\ DistinctInv'
<1>1. ASSUME NEW u \in Tabs, NEW i \in 1..Len(queue'[u])
      PROVE  u # t /\ queue'[u] = queue[u]
  BY <1>1 DEF TypeOK
<1>2. QueueInv'
  <2> SUFFICES ASSUME NEW u \in Tabs, NEW i \in 1..Len(queue'[u])
               PROVE  /\ queue'[u][i].edits \subseteq requested'
                      /\ queue'[u][i].kind = "update" =>
                           \E e \in Edits : queue'[u][i].edits = {e}
                      /\ \/ i = 1 /\ pc'[u] = "apply"
                         \/ queue'[u][i].edits \cap canonical'.data = {}
    BY DEF QueueInv
  <2>1. u # t /\ queue'[u] = queue[u]
    BY <1>1
  <2>2. QED
    BY <2>1 DEF QueueInv
<1>3. DistinctInv'
  <2> SUFFICES ASSUME NEW u \in Tabs, NEW v \in Tabs, NEW i \in 1..Len(queue'[u]),
                      NEW j \in 1..Len(queue'[v]), u # v \/ i # j
               PROVE  queue'[u][i].edits \cap queue'[v][j].edits = {}
    BY DEF DistinctInv
  <2>1. queue'[u] = queue[u] /\ queue'[v] = queue[v]
    BY <1>1
  <2>2. QED
    BY <2>1 DEF DistinctInv
<1>4. QED
  BY <1>2, <1>3

\* A new request asks for an edit nobody has asked for before.
LEMMA QueueRequest ==
  ASSUME IsFiniteSet(Edits), TypeOK, QueueInv, DistinctInv, canonical.data \subseteq requested,
         NEW t \in Tabs, Request(t)
  PROVE  QueueInv' /\ DistinctInv'
<1>1. PICK r : /\ queue' = [queue EXCEPT ![t] = Append(queue[t], r)]
               /\ r.edits \subseteq Edits /\ r.edits \cap requested = {}
               /\ requested' = requested \cup r.edits
               /\ r.kind = "update" => Cardinality(r.edits) = 1
  <2>1. PICK kind \in Kinds, e \in SUBSET Edits, c \in SUBSET Catalogs :
          /\ e \cap requested = {}
          /\ Cardinality(e) = IF kind = "catalog" THEN 0 ELSE 1
          /\ requested' = requested \cup e
          /\ queue' = [queue EXCEPT ![t] = Append(@,
               [kind |-> kind, edits |-> e, cand |-> live[t].data \cup e,
                cats |-> c, val |-> catalogNo'])]
    BY Zenon DEF Request
  <2> DEFINE q == [kind |-> kind, edits |-> e, cand |-> live[t].data \cup e,
                   cats |-> c, val |-> catalogNo']
  <2>2. q.kind = kind /\ q.edits = e
    OBVIOUS
  <2>3. queue' = [queue EXCEPT ![t] = Append(queue[t], q)]
    BY <2>1
  <2> HIDE DEF q
  <2>4. QED
    BY <2>1, <2>2, <2>3
<1>2. canonical' = canonical /\ pc' = pc
  BY DEF Request, storage
<1>3. r.kind = "update" => \E e \in Edits : r.edits = {e}
  <2> SUFFICES ASSUME r.kind = "update" PROVE \E e \in Edits : r.edits = {e}
    OBVIOUS
  <2>1. IsFiniteSet(r.edits)
    BY <1>1, FS_Subset
  <2>2. \E e : r.edits = {e}
    BY <1>1, <2>1, FS_Singleton
  <2>3. QED
    BY <1>1, <2>2
<1>4. ASSUME NEW u \in Tabs, NEW i \in 1..Len(queue'[u])
      PROVE  \/ i \in 1..Len(queue[u]) /\ queue'[u][i] = queue[u][i]
             \/ u = t /\ i = Len(queue[t]) + 1 /\ queue'[u][i] = r
  <2>1. queue[u] \in Seq(Requests) /\ queue \in [Tabs -> Seq(Requests)]
    BY DEF TypeOK
  <2>2. CASE u # t
    BY <1>1, <2>1, <2>2
  <2>3. CASE u = t
    <3>1. queue'[u] = Append(queue[u], r)
      BY <1>1, <2>1, <2>3
    <3>2. Len(queue'[u]) = Len(queue[u]) + 1 /\ Len(queue[u]) \in Nat
      BY <2>1, <3>1
    <3>3. i \in 1..Len(queue[u]) \/ i = Len(queue[u]) + 1
      BY <3>2
    <3>4. QED
      BY <2>1, <2>3, <3>1, <3>3
  <2>4. QED
    BY <2>2, <2>3
<1>5. QueueInv'
  <2> SUFFICES ASSUME NEW u \in Tabs, NEW i \in 1..Len(queue'[u])
               PROVE  /\ queue'[u][i].edits \subseteq requested'
                      /\ queue'[u][i].kind = "update" =>
                           \E e \in Edits : queue'[u][i].edits = {e}
                      /\ \/ i = 1 /\ pc'[u] = "apply"
                         \/ queue'[u][i].edits \cap canonical'.data = {}
    BY DEF QueueInv
  <2>1. CASE i \in 1..Len(queue[u]) /\ queue'[u][i] = queue[u][i]
    BY <1>1, <1>2, <2>1 DEF QueueInv
  <2>2. CASE queue'[u][i] = r
    BY <1>1, <1>2, <1>3, <2>2
  <2>3. QED
    BY <1>4, <2>1, <2>2
<1>6. DistinctInv'
  <2> SUFFICES ASSUME NEW u \in Tabs, NEW v \in Tabs, NEW i \in 1..Len(queue'[u]),
                      NEW j \in 1..Len(queue'[v]), u # v \/ i # j
               PROVE  queue'[u][i].edits \cap queue'[v][j].edits = {}
    BY DEF DistinctInv
  <2>1. ASSUME NEW w \in Tabs, NEW k \in 1..Len(queue[w])
        PROVE  queue[w][k].edits \cap r.edits = {}
    BY <1>1, <2>1 DEF QueueInv
  <2>2. CASE i \in 1..Len(queue[u]) /\ queue'[u][i] = queue[u][i]
    <3>1. CASE j \in 1..Len(queue[v]) /\ queue'[v][j] = queue[v][j]
      BY <2>2, <3>1 DEF DistinctInv
    <3>2. CASE queue'[v][j] = r
      BY <2>1, <2>2, <3>2
    <3>3. QED
      BY <1>4, <3>1, <3>2
  <2>3. CASE u = t /\ i = Len(queue[t]) + 1 /\ queue'[u][i] = r
    <3>1. CASE j \in 1..Len(queue[v]) /\ queue'[v][j] = queue[v][j]
      BY <2>1, <2>3, <3>1
    <3>2. CASE v = t /\ j = Len(queue[t]) + 1
      BY <2>3, <3>2
    <3>3. QED
      BY <1>4, <3>1, <3>2
  <2>4. QED
    BY <1>4, <2>2, <2>3
<1>7. QED
  BY <1>5, <1>6

\* The envelope with the edit of the request in hand is stored.
LEMMA QueueCommit ==
  ASSUME TypeOK, QueueInv, DistinctInv, NEW t \in Tabs, queue[t] # <<>>,
         queue' = queue, requested' = requested, pc' = [pc EXCEPT ![t] = "apply"],
         canonical'.data = canonical.data \cup Head(queue[t]).edits
  PROVE  QueueInv' /\ DistinctInv'
<1>1. queue[t] \in Seq(Requests) /\ Head(queue[t]) = queue[t][1] /\ 1 \in 1..Len(queue[t])
  BY DEF TypeOK
<1>2. QueueInv'
  <2> SUFFICES ASSUME NEW u \in Tabs, NEW i \in 1..Len(queue[u])
               PROVE  /\ queue[u][i].edits \subseteq requested
                      /\ queue[u][i].kind = "update" =>
                           \E e \in Edits : queue[u][i].edits = {e}
                      /\ \/ i = 1 /\ pc'[u] = "apply"
                         \/ queue[u][i].edits \cap canonical'.data = {}
    BY DEF QueueInv
  <2>1. /\ queue[u][i].edits \subseteq requested
        /\ queue[u][i].kind = "update" => \E e \in Edits : queue[u][i].edits = {e}
        /\ (i = 1 /\ pc[u] = "apply") \/ queue[u][i].edits \cap canonical.data = {}
    BY DEF QueueInv
  <2>2. pc'[t] = "apply" /\ \A v \in Tabs \ {t} : pc'[v] = pc[v]
    BY DEF TypeOK, LockType
  <2>3. CASE u = t /\ i = 1
    BY <2>1, <2>2, <2>3
  <2>4. CASE u # t \/ i # 1
    <3>1. queue[u][i].edits \cap Head(queue[t]).edits = {}
      BY <1>1, <2>4 DEF DistinctInv
    <3>2. QED
      BY <2>1, <2>2, <3>1
  <2>5. QED
    BY <2>3, <2>4
<1>3. DistinctInv'
  BY DEF DistinctInv
<1>4. QED
  BY <1>2, <1>3

-----------------------------
(* The steps.                                                              *)

EnvInv(t) == pc[t] = "canonical" => Current(work[t].env)

\* Whoever writes the envelope leaves a sound one.
LEMMA Rewritten ==
  ASSUME \A t \in Tabs : EnvInv(t), [Next]_vars, canonical' # canonical
  PROVE  Corrupt \/ Valid(canonical') \/ Newer(canonical')
<1>1. ASSUME NEW t \in Tabs, Recover(t) PROVE Current(canonical')
  <2>1. canonical' = Recovered
    BY <1>1 DEF Recover
  <2>2. QED
    BY <2>1 DEF Recovered, Envelope, Current
<1>2. ASSUME NEW t \in Tabs, WriteFresh(t) PROVE Current(canonical')
  <2>1. canonical' = Envelope(CONFIG_SCHEMA_VERSION, 1, {})
    BY <1>2 DEF WriteFresh
  <2>2. QED
    BY <2>1 DEF Envelope, Current
<1>3. ASSUME NEW t \in Tabs, MigrateCanonical(t) PROVE Current(canonical')
  <2>1. canonical' = Migrated
    BY <1>3 DEF MigrateCanonical
  <2>2. QED
    BY <2>1 DEF Migrated, Envelope, Current
<1>4. ASSUME NEW t \in Tabs, PersistCanonical(t) PROVE Current(canonical')
  BY <1>4 DEF PersistCanonical, EnvInv
<1>5. NewerReleaseMigrates => Newer(canonical')
  BY DEF NewerReleaseMigrates, Envelope, Newer, CONFIG_SCHEMA_VERSION
<1>6. QED
  BY <1>1, <1>2, <1>3, <1>4, <1>5, EnvelopeChanged, CurrentValid

LEMMA RevEnv == RevInv => \A t \in Tabs : EnvInv(t)
<1> SUFFICES ASSUME RevInv, NEW t \in Tabs, pc[t] = "canonical"
             PROVE  Current(work[t].env)
  BY DEF EnvInv
<1>1. work[t].env = Envelope(CONFIG_SCHEMA_VERSION, canonical.rev + 1, work[t].draft)
  BY DEF RevInv, TabInv, PlaceInv
<1>2. QED
  BY <1>1 DEF Envelope, Current

\* The backup is replaced only by a sound envelope.
LEMMA BackedUp ==
  ASSUME RevInv, [Next]_vars, backup' # backup
  PROVE  backup' = canonical /\ Valid(canonical)
<1>1. NewerReleaseMigrates => backup' = canonical /\ Valid(canonical)
  BY DEF NewerReleaseMigrates
<1>2. ASSUME NEW t \in Tabs, MigrateBackup(t) \/ PersistBackup(t)
      PROVE  backup' = canonical /\ Valid(canonical)
  <2>1. Valid(canonical)
    BY <1>2, CurrentValid DEF MigrateBackup, PersistBackup, RevInv, TabInv, PlaceInv
  <2>2. QED
    BY <1>2, <2>1 DEF MigrateBackup, PersistBackup
<1>3. QED
  BY <1>1, <1>2, BackupWriters

LEMMA WholeStep ==
  ASSUME RevInv, WholeInv, [Next]_vars, Undamaged'
  PROVE  WholeInv'
<1>1. ~Corrupt
  BY DEF Corrupt, Undamaged, RevInv, TypeOK, HistoryType
<1>2. CASE canonical' # canonical
  BY <1>1, <1>2, Rewritten, RevEnv DEF WholeInv
<1>3. CASE canonical' = canonical /\ backup' # backup
  BY <1>3, BackedUp DEF WholeInv
<1>4. CASE canonical' = canonical /\ backup' = backup
  BY <1>4 DEF WholeInv
<1>5. QED
  BY <1>2, <1>3, <1>4

\* Every write of the envelope is one step of the register.
LEMMA RegisterWrites ==
  ASSUME RevInv, RegInv, [Next]_vars, Undamaged', canonical' # canonical
  PROVE  /\ canonical'.rev = canonical.rev + 1
         /\ \/ /\ canonical'.data = canonical.data /\ queue' = queue
               /\ requested' = requested
               /\ \A u \in Tabs : pc[u] # "apply"
            \/ \E t \in Tabs :
                 /\ queue[t] # <<>> /\ queue' = queue /\ requested' = requested
                 /\ pc' = [pc EXCEPT ![t] = "apply"]
                 /\ canonical'.data = canonical.data \cup Head(queue[t]).edits
                 /\ Head(queue[t]).edits \subseteq requested
                 /\ \E e \in Edits \ canonical.data : Head(queue[t]).edits = {e}
<1>1. canonical.rev \in Nat /\ backup.rev \in Nat
  BY DEF RevInv, TypeOK, StorageType, Envelopes
<1>2. ASSUME NEW t \in Tabs, pc[t] # "idle", pc[t] # "apply", NEW u \in Tabs
      PROVE  pc[u] # "apply"
  BY <1>2, HolderAlone DEF RevInv
<1>3. ASSUME NEW t \in Tabs, Recover(t) PROVE FALSE
  BY <1>3 DEF Recover, RegInv, WholeInv
<1>4. ASSUME NEW t \in Tabs, WriteFresh(t)
      PROVE  /\ canonical'.rev = canonical.rev + 1 /\ canonical'.data = canonical.data
             /\ queue' = queue /\ requested' = requested
             /\ \A u \in Tabs : pc[u] # "apply"
  <2>1. canonical' = Envelope(CONFIG_SCHEMA_VERSION, 1, {}) /\ pc[t] = "freshCanonical"
        /\ queue' = queue /\ requested' = requested
    BY <1>4 DEF WriteFresh, history
  <2>2. canonical = NoEnvelope
    BY <2>1 DEF RevInv, TabInv, PlaceInv
  <2>3. QED
    BY <1>2, <2>1, <2>2 DEF Envelope, NoEnvelope
<1>5. ASSUME NEW t \in Tabs, MigrateCanonical(t)
      PROVE  /\ canonical'.rev = canonical.rev + 1 /\ canonical'.data = canonical.data
             /\ queue' = queue /\ requested' = requested
             /\ \A u \in Tabs : pc[u] # "apply"
  <2>1. canonical' = Migrated /\ pc[t] = "migrateCanonical"
        /\ queue' = queue /\ requested' = requested
    BY <1>5 DEF MigrateCanonical, history
  <2>2. QED
    BY <1>2, <2>1 DEF Migrated, Envelope
<1>6. ASSUME NewerReleaseMigrates
      PROVE  /\ canonical'.rev = canonical.rev + 1 /\ canonical'.data = canonical.data
             /\ queue' = queue /\ requested' = requested
             /\ \A u \in Tabs : pc[u] # "apply"
  <2>1. \A u \in Tabs : pc[u] = "idle"
    BY <1>6, ConfigAssumption DEF NewerReleaseMigrates, RevInv, TypeOK, LockType
  <2>2. QED
    BY <1>6, <2>1 DEF NewerReleaseMigrates, Envelope, history
<1>7. ASSUME NEW t \in Tabs, PersistCanonical(t)
      PROVE  /\ canonical'.rev = canonical.rev + 1
             /\ queue[t] # <<>> /\ queue' = queue /\ requested' = requested
             /\ pc' = [pc EXCEPT ![t] = "apply"]
             /\ canonical'.data = canonical.data \cup Head(queue[t]).edits
             /\ Head(queue[t]).edits \subseteq requested
             /\ \E e \in Edits \ canonical.data : Head(queue[t]).edits = {e}
  <2>1. /\ canonical' = work[t].env /\ pc[t] = "canonical"
        /\ queue' = queue /\ requested' = requested /\ pc' = [pc EXCEPT ![t] = "apply"]
    BY <1>7 DEF PersistCanonical, Goto, history
  <2>2. work[t].env = Envelope(CONFIG_SCHEMA_VERSION, canonical.rev + 1, work[t].draft)
    BY <2>1 DEF RevInv, TabInv, PlaceInv
  <2>3. /\ queue[t] # <<>> /\ Head(queue[t]).kind = "update"
        /\ work[t].draft = canonical.data \cup Head(queue[t]).edits
    BY <2>1 DEF RegInv, ExactInv, DraftPlaces
  <2>4. queue[t] \in Seq(Requests) /\ Head(queue[t]) = queue[t][1] /\ 1 \in 1..Len(queue[t])
    BY <2>3 DEF RevInv, TypeOK
  <2>5. /\ Head(queue[t]).edits \subseteq requested
        /\ \E e \in Edits : Head(queue[t]).edits = {e}
        /\ Head(queue[t]).edits \cap canonical.data = {}
    BY <2>1, <2>3, <2>4 DEF RegInv, QueueInv
  <2>6. QED
    BY <2>1, <2>2, <2>3, <2>5 DEF Envelope
<1>8. QED
  BY <1>3, <1>4, <1>5, <1>6, <1>7, EnvelopeWriters

LEMMA RequestedStep == [Next]_vars => requested \subseteq requested'
<1> SUFFICES ASSUME [Next]_vars PROVE requested \subseteq requested'
  OBVIOUS
<1>1. ASSUME NEW t \in Tabs, Load(t) PROVE requested' = requested
  BY <1>1 DEF Load, LoadReadOnly, LoadNewer, LoadCanonical, LoadDefaults, Recover,
              BeginFresh, WriteFresh, MarkFresh, BeginMigration, LeaseBusy,
              MigrateBackup, MigrateCanonical, MigrateFailed, LoadFailed, LoadThrew,
              LoadDone, TakeLease, history
<1>2. ASSUME NEW t \in Tabs, Transact(t) PROVE requested' = requested
  BY <1>2 DEF Transact, SaveCatalog, PersistCatalog, PersistBackup, PersistCanonical,
              Apply, RollBack, history
<1>3. ASSUME NEW t \in Tabs, BeginRequest(t) PROVE requested' = requested
  BY <1>3 DEF BeginRequest, RefuseStale, SkipUpdate, BeginUpdate, BeginImport,
              BeginSave, BeginCatalog, Begin, history
<1>4. ASSUME NEW t \in Tabs,
             OpenTab(t) \/ Probe(t) \/ RetryStorage(t) \/ BeginLoad(t) \/ Refuse(t) \/ CloseTab(t)
      PROVE  requested' = requested
  BY <1>4 DEF OpenTab, Probe, RetryStorage, BeginLoad, Refuse, CloseTab, history
<1>5. ASSUME NEW t \in Tabs, Request(t) PROVE requested \subseteq requested'
  BY <1>5 DEF Request
<1>6. NewerReleaseMigrates \/ Corrupt \/ UNCHANGED vars => requested' = requested
  BY DEF NewerReleaseMigrates, Corrupt, vars, history
<1>7. ASSUME NEW l \in {"init", "migration"}, ExpireLease(l) PROVE requested' = requested
  BY <1>7 DEF ExpireLease, history
<1>8. QED
  BY <1>1, <1>2, <1>3, <1>4, <1>5, <1>6, <1>7 DEF Next

LEMMA QueueStep ==
  ASSUME IsFiniteSet(Edits), RevInv, RegInv, [Next]_vars, Undamaged'
  PROVE  QueueInv' /\ DistinctInv'
<1>1. TypeOK /\ QueueInv /\ DistinctInv /\ requested \subseteq requested'
  BY RequestedStep DEF RevInv, RegInv
<1>2. CASE canonical' # canonical
  <2>1. CASE /\ canonical'.data = canonical.data /\ queue' = queue
             /\ requested' = requested /\ \A u \in Tabs : pc[u] # "apply"
    BY <1>1, <2>1, QueueSame
  <2>2. CASE \E t \in Tabs :
               /\ queue[t] # <<>> /\ queue' = queue /\ requested' = requested
               /\ pc' = [pc EXCEPT ![t] = "apply"]
               /\ canonical'.data = canonical.data \cup Head(queue[t]).edits
    BY <1>1, <2>2, QueueCommit
  <2>3. QED
    BY <1>2, <2>1, <2>2, RegisterWrites
<1>3. ASSUME canonical' = canonical, queue' = queue,
             \A u \in Tabs : pc[u] = "apply" => pc'[u] = "apply"
      PROVE  QueueInv' /\ DistinctInv'
  BY <1>1, <1>3, QueueSame
<1>4. ASSUME NEW t \in Tabs, pc[t] # "idle", pc[t] # "apply", NEW u \in Tabs
      PROVE  pc[u] # "apply"
  BY <1>4, HolderAlone DEF RevInv
<1>5. lock = NoTab => \A u \in Tabs : pc[u] # "apply"
  BY ConfigAssumption DEF RevInv, TypeOK, LockType
<1>6. ASSUME canonical' = canonical, NEW t \in Tabs, Load(t)
      PROVE  QueueInv' /\ DistinctInv'
  <2>1. queue' = queue /\ (pc' = pc \/ pc[t] \in LoadPlaces)
    BY <1>6 DEF Load, LoadReadOnly, LoadNewer, LoadCanonical, LoadDefaults, Recover,
                BeginFresh, WriteFresh, MarkFresh, BeginMigration, LeaseBusy,
                MigrateBackup, MigrateCanonical, MigrateFailed, LoadFailed, LoadThrew,
                LoadDone, TakeLease, LoadPlaces
  <2>2. QED
    BY <1>3, <1>4, <1>6, <2>1 DEF LoadPlaces
<1>7. ASSUME canonical' = canonical, NEW t \in Tabs, Transact(t)
      PROVE  QueueInv' /\ DistinctInv'
  <2>1. CASE Answer(t)
    <3>1. /\ queue[t] # <<>> /\ queue' = [queue EXCEPT ![t] = Tail(queue[t])]
          /\ \A u \in Tabs \ {t} : pc'[u] = pc[u]
      BY <1>1, <2>1, ReleasedPc DEF Answer
    <3>2. requested' = requested
      BY <1>7 DEF Transact, SaveCatalog, PersistCatalog, PersistBackup,
                  PersistCanonical, Apply, RollBack, history
    <3>3. QED
      BY <1>1, <1>7, <3>1, <3>2, QueueTail
  <2>2. CASE queue' = queue /\ (pc' = pc \/ pc[t] \in {"catalogs", "canonical"})
    BY <1>3, <1>4, <1>7, <2>2
  <2>3. QED
    BY <1>7, <2>1, <2>2 DEF Transact, SaveCatalog, PersistCatalog, PersistBackup,
                            PersistCanonical, Apply, RollBack
<1>8. ASSUME canonical' = canonical, NEW t \in Tabs,
             SkipUpdate(t) \/ Refuse(t) \/ RefuseStale(t)
      PROVE  QueueInv' /\ DistinctInv'
  <2>1. /\ queue[t] # <<>> /\ queue' = [queue EXCEPT ![t] = Tail(queue[t])]
        /\ pc' = pc /\ requested' = requested
    BY <1>8 DEF SkipUpdate, Refuse, RefuseStale, Ready, history
  <2>2. QED
    BY <1>1, <1>8, <2>1, QueueTail
<1>9. ASSUME canonical' = canonical, NEW t \in Tabs,
             BeginUpdate(t) \/ BeginImport(t) \/ BeginSave(t) \/ BeginCatalog(t)
      PROVE  QueueInv' /\ DistinctInv'
  <2>1. queue' = queue /\ lock = NoTab
    BY <1>9 DEF BeginUpdate, BeginImport, BeginSave, BeginCatalog, Begin, Acquire
  <2>2. QED
    BY <1>3, <1>5, <1>9, <2>1
<1>10. ASSUME NEW t \in Tabs, Request(t) PROVE QueueInv' /\ DistinctInv'
  BY <1>1, <1>10, QueueRequest DEF RegInv
<1>11. ASSUME NEW t \in Tabs, CloseTab(t) PROVE QueueInv' /\ DistinctInv'
  <2>1. /\ queue' = [queue EXCEPT ![t] = <<>>] /\ requested' = requested
        /\ canonical' = canonical /\ \A u \in Tabs \ {t} : pc'[u] = pc[u]
    BY <1>1, <1>11 DEF CloseTab, storage, history, TypeOK, LockType
  <2>2. QED
    BY <1>1, <2>1, QueueDropped
<1>12. ASSUME NEW t \in Tabs,
              OpenTab(t) \/ Probe(t) \/ RetryStorage(t) \/ BeginLoad(t)
       PROVE  QueueInv' /\ DistinctInv'
  <2>1. canonical' = canonical /\ queue' = queue /\ (pc' = pc \/ lock = NoTab)
    BY <1>12 DEF OpenTab, Probe, RetryStorage, BeginLoad, Acquire, storage
  <2>2. QED
    BY <1>3, <1>5, <2>1
<1>13. ASSUME NEW l \in {"init", "migration"}, ExpireLease(l)
       PROVE  QueueInv' /\ DistinctInv'
  BY <1>3, <1>13 DEF ExpireLease, storage
<1>14. CASE UNCHANGED vars
  BY <1>3, <1>14 DEF vars, storage
<1>15. ASSUME NewerReleaseMigrates, canonical' = canonical PROVE FALSE
  BY <1>15 DEF NewerReleaseMigrates, Envelope, RevInv, TypeOK, StorageType, Envelopes
<1>16. ~Corrupt
  BY DEF Corrupt, Undamaged, RevInv, TypeOK, HistoryType
<1>17. QED
  BY <1>2, <1>6, <1>7, <1>8, <1>9, <1>10, <1>11, <1>12, <1>13, <1>14, <1>15, <1>16
     DEF Next, BeginRequest

LEMMA ExactStep ==
  ASSUME Kinds \subseteq {"update", "catalog"}, RevInv, RegInv, [Next]_vars, Undamaged',
         NEW u \in Tabs
  PROVE  ExactInv(u)'
<1> SUFFICES ASSUME pc'[u] \in DraftPlaces
             PROVE  /\ queue'[u] # <<>> /\ Head(queue'[u]).kind = "update"
                    /\ work'[u].draft = canonical'.data \cup Head(queue'[u]).edits
  BY DEF ExactInv
<1>1. ASSUME NEW t \in Tabs, queue[t] # <<>> PROVE Head(queue[t]).kind \in Kinds
  <2>1. queue[t] \in Seq(Requests)
    BY DEF RevInv, TypeOK
  <2>2. QED
    BY <1>1, <2>1, HeadType DEF Requests
<1>2. CASE BeginUpdate(u)
  <2> DEFINE d == Refreshed(u).data \cup Head(queue[u]).edits
  <2>1. /\ Begin(u, d, "catalogs") /\ ~RefreshThrows(u) /\ access[u] = "ready"
        /\ queue[u] # <<>> /\ Head(queue[u]).kind = "update"
        /\ canonical' = canonical /\ queue' = queue
    BY <1>2 DEF BeginUpdate, Begin, Ready, storage
  <2>2. Refreshed(u).data = canonical.data
    BY <2>1, RefreshCurrent
  <2> HIDE DEF d
  <2>3. work'[u].draft = d
    BY <2>1 DEF Begin, NoWork, RevInv, TypeOK, WorkType
  <2>4. QED
    BY <2>1, <2>2, <2>3 DEF d
<1>3. CASE BeginImport(u) \/ BeginSave(u)
  <2>1. queue[u] # <<>> /\ Head(queue[u]).kind \in {"import", "save"}
    BY <1>3 DEF BeginImport, BeginSave, Ready
  <2>2. QED
    BY <1>1, <2>1
<1>4. CASE PersistCatalog(u) \/ PersistBackup(u)
  <2>1. canonical' = canonical /\ queue' = queue /\ pc[u] \in DraftPlaces
    BY <1>4 DEF PersistCatalog, PersistBackup, DraftPlaces
  <2>2. work'[u].draft = work[u].draft
    BY <1>4, DraftKept DEF RevInv, TypeOK
  <2>3. QED
    BY <2>1, <2>2 DEF RegInv, ExactInv
<1>5. CASE Kept(u) /\ canonical' = canonical
  BY <1>5 DEF Kept, RegInv, ExactInv
<1>6. CASE Request(u) /\ pc' = pc /\ work' = work /\ canonical' = canonical
  <2>1. queue[u] \in Seq(Requests) /\ queue \in [Tabs -> Seq(Requests)]
    BY DEF RevInv, TypeOK
  <2>2. /\ queue[u] # <<>> /\ Head(queue[u]).kind = "update"
        /\ work[u].draft = canonical.data \cup Head(queue[u]).edits
    BY <1>6 DEF RegInv, ExactInv
  <2>3. PICK r : queue' = [queue EXCEPT ![u] = Append(queue[u], r)]
    BY <1>6, Zenon DEF Request
  <2>4. queue'[u] = Append(queue[u], r)
    BY <2>1, <2>3
  <2>5. queue'[u] # <<>> /\ Head(queue'[u]) = Head(queue[u])
    BY <2>1, <2>2, <2>4
  <2>6. QED
    BY <1>6, <2>2, <2>5
<1>7. QED
  BY <1>2, <1>3, <1>4, <1>5, <1>6, CommitterStep DEF RevInv

LEMMA RegInit ==
  ASSUME WholeStarts
  PROVE  Init => RegInv
<1> SUFFICES ASSUME Init PROVE RegInv
  OBVIOUS
<1>1. WholeInv /\ canonical.data \subseteq requested
  BY DEF Init, WholeStarts, WholeInv
<1>2. \A u \in Tabs : Len(queue[u]) = 0 /\ pc[u] = "idle"
  BY DEF Init
<1>3. QueueInv /\ DistinctInv /\ \A u \in Tabs : ExactInv(u)
  BY <1>2 DEF QueueInv, DistinctInv, ExactInv, DraftPlaces
<1>4. QED
  BY <1>1, <1>3 DEF RegInv

LEMMA RegStep ==
  ASSUME IsFiniteSet(Edits), Kinds \subseteq {"update", "catalog"},
         RevInv, RegInv, [Next]_vars, Undamaged'
  PROVE  RegInv'
<1>1. canonical'.data \subseteq requested'
  BY RegisterWrites, RequestedStep DEF RegInv
<1>2. WholeInv'
  BY WholeStep DEF RegInv
<1>3. QED
  BY <1>1, <1>2, QueueStep, ExactStep DEF RegInv

LEMMA RegisterInit == Init => Register!Init
  BY TypeInit DEF Register!Init, TypeOK, StorageType, Envelopes

LEMMA RegisterStep ==
  ASSUME RevInv, RegInv, [Next]_vars, Undamaged'
  PROVE  [Register!Next]_<<canonical.data, canonical.rev>>
<1>1. CASE canonical' = canonical
  BY <1>1
<1>2. CASE canonical' # canonical
  BY <1>2, RegisterWrites DEF Register!Next, Register!Commit, Register!Reformat
<1>3. QED
  BY <1>1, <1>2

\* Updates from any number of tabs, with closings, rejected writes, fresh
\* installations, migrations and later releases, appear as one atomic
\* register: each commit adds exactly one new edit under the next revision.
THEOREM RegisterImplemented ==
  ASSUME MaxCorruptions = 0, IsFiniteSet(Edits), Kinds \subseteq {"update", "catalog"},
         WholeStarts
  PROVE  Spec => ImplementsRegister
<1>1. Init => RegInv /\ Register!Init
  BY RegInit, RegisterInit
<1>2. RevInv /\ RegInv /\ Undamaged' /\ [Next]_vars => RegInv'
  BY RegStep
<1>3. RevInv /\ RegInv /\ Undamaged' /\ [Next]_vars =>
        [Register!Next]_<<canonical.data, canonical.rev>>
  BY RegisterStep
<1>4. QED
  BY <1>1, <1>2, <1>3, RevAlways, PTL DEF Spec, ImplementsRegister, Register!Spec

-----------------------------
(* Recovery, when storage is damaged once: the backup trails by one commit *)
(* until the damage, and nothing is acknowledged until it is repaired.     *)

AtMostOne(S) == \A a, b \in S : a = b

TrailInv ==
  /\ AtMostOne(Acked \ backup.data)
  /\ \A t \in Tabs :
       /\ pc[t] \in {"canonical", "apply"} => Acked \subseteq backup.data
       /\ \A i \in 1..Len(queue[t]) : AtMostOne(queue[t][i].edits)

\* What a lock holder knows of the store, damaged before or not.
HoldInv(t) ==
  /\ pc[t] = "apply" => Valid(canonical)
  /\ EnvInv(t)
  /\ pc[t] \in {"migrateBackup", "migrateCanonical"} => Valid(canonical)

Damaged == ~Undamaged /\ ~Valid(canonical) /\ ~Newer(canonical)

RecInv ==
  /\ TypeOK
  /\ corruptions <= 1
  /\ \A t \in Tabs : HoldInv(t)
  /\ Undamaged => RevInv /\ LostInv /\ TrailInv
  /\ Damaged => AtMostOne(Acked \ backup.data)

LEMMA AtMostOneCard ==
  ASSUME NEW S, AtMostOne(S)
  PROVE  Cardinality(S) <= 1
<1>1. CASE S = {}
  BY <1>1, FS_EmptySet
<1>2. CASE S # {}
  <2>1. PICK x \in S : TRUE
    BY <1>2
  <2>2. S = {x}
    BY <2>1 DEF AtMostOne
  <2>3. Cardinality({x}) = 1
    BY FS_Singleton
  <2>4. QED
    BY <2>2, <2>3
<1>3. QED
  BY <1>1, <1>2

\* How the queues move.
LEMMA QueueMoves ==
  ASSUME TypeOK, [Next]_vars
  PROVE  \/ queue' = queue
         \/ \E t \in Tabs : \/ queue[t] # <<>> /\ queue' = [queue EXCEPT ![t] = Tail(queue[t])]
                            \/ queue' = [queue EXCEPT ![t] = <<>>]
                            \/ Request(t)
<1>1. ASSUME NEW t \in Tabs, Load(t) PROVE queue' = queue
  BY <1>1 DEF Load, LoadReadOnly, LoadNewer, LoadCanonical, LoadDefaults, Recover,
              BeginFresh, WriteFresh, MarkFresh, BeginMigration, LeaseBusy,
              MigrateBackup, MigrateCanonical, MigrateFailed, LoadFailed, LoadThrew,
              LoadDone, TakeLease
<1>2. ASSUME NEW t \in Tabs, Transact(t)
      PROVE  queue' = queue
             \/ (queue[t] # <<>> /\ queue' = [queue EXCEPT ![t] = Tail(queue[t])])
  <2>1. queue' = queue \/ Answer(t)
    BY <1>2 DEF Transact, SaveCatalog, PersistCatalog, PersistBackup, PersistCanonical,
                Apply, RollBack
  <2>2. QED
    BY <2>1 DEF Answer
<1>3. ASSUME NEW t \in Tabs, BeginRequest(t)
      PROVE  queue' = queue
             \/ (queue[t] # <<>> /\ queue' = [queue EXCEPT ![t] = Tail(queue[t])])
  BY <1>3 DEF BeginRequest, RefuseStale, SkipUpdate, BeginUpdate, BeginImport,
              BeginSave, BeginCatalog, Begin, Ready
<1>4. ASSUME NEW t \in Tabs, Refuse(t)
      PROVE  queue[t] # <<>> /\ queue' = [queue EXCEPT ![t] = Tail(queue[t])]
  BY <1>4 DEF Refuse
<1>5. ASSUME NEW t \in Tabs, OpenTab(t) \/ Probe(t) \/ RetryStorage(t) \/ BeginLoad(t)
      PROVE  queue' = queue
  BY <1>5 DEF OpenTab, Probe, RetryStorage, BeginLoad
<1>6. ASSUME NEW t \in Tabs, CloseTab(t) PROVE queue' = [queue EXCEPT ![t] = <<>>]
  BY <1>6 DEF CloseTab
<1>7. NewerReleaseMigrates \/ Corrupt \/ UNCHANGED vars => queue' = queue
  BY DEF NewerReleaseMigrates, Corrupt, vars
<1>8. ASSUME NEW l \in {"init", "migration"}, ExpireLease(l) PROVE queue' = queue
  BY <1>8 DEF ExpireLease
<1>9. QED
  BY <1>1, <1>2, <1>3, <1>4, <1>5, <1>6, <1>7, <1>8 DEF Next

LEMMA SingleStep ==
  ASSUME IsFiniteSet(Edits), TypeOK, [Next]_vars, NEW u \in Tabs,
         \A i \in 1..Len(queue[u]) : AtMostOne(queue[u][i].edits)
  PROVE  \A i \in 1..Len(queue'[u]) : AtMostOne(queue'[u][i].edits)
<1>1. queue[u] \in Seq(Requests) /\ queue \in [Tabs -> Seq(Requests)]
  BY DEF TypeOK
<1>2. CASE queue'[u] = queue[u]
  BY <1>2
<1>3. CASE queue'[u] = <<>>
  BY <1>3
<1>4. CASE queue[u] # <<>> /\ queue'[u] = Tail(queue[u])
  <2> TAKE i \in 1..Len(queue'[u])
  <2>1. i + 1 \in 1..Len(queue[u]) /\ Tail(queue[u])[i] = queue[u][i + 1]
    BY <1>1, <1>4
  <2>2. QED
    BY <1>4, <2>1
<1>5. CASE Request(u)
  <2>1. PICK kind \in Kinds, e \in SUBSET Edits, c \in SUBSET Catalogs :
          /\ Cardinality(e) = IF kind = "catalog" THEN 0 ELSE 1
          /\ queue' = [queue EXCEPT ![u] = Append(@,
               [kind |-> kind, edits |-> e, cand |-> live[u].data \cup e,
                cats |-> c, val |-> catalogNo'])]
    BY <1>5, Zenon DEF Request
  <2> DEFINE q == [kind |-> kind, edits |-> e, cand |-> live[u].data \cup e,
                   cats |-> c, val |-> catalogNo']
  <2>2. q.edits = e
    OBVIOUS
  <2>3. queue' = [queue EXCEPT ![u] = Append(queue[u], q)]
    BY <2>1
  <2> HIDE DEF q
  <2>4. queue'[u] = Append(queue[u], q)
    BY <1>1, <2>3
  <2>5. AtMostOne(e)
    <3>1. IsFiniteSet(e)
      BY FS_Subset
    <3>2. e = {} \/ \E x : e = {x}
      BY <2>1, <3>1, FS_EmptySet, FS_Singleton
    <3>3. QED
      BY <3>2 DEF AtMostOne
  <2> TAKE i \in 1..Len(queue'[u])
  <2>6. i \in 1..Len(queue[u]) \/ i = Len(queue[u]) + 1
    BY <1>1, <2>4
  <2>7. CASE i \in 1..Len(queue[u])
    BY <1>1, <2>4, <2>7
  <2>8. CASE i = Len(queue[u]) + 1
    <3>1. queue'[u][i] = q
      BY <1>1, <2>4, <2>8
    <3>2. QED
      BY <2>2, <2>5, <3>1
  <2>9. QED
    BY <2>6, <2>7, <2>8
<1>6. QED
  <2>1. ASSUME NEW t \in Tabs, Request(t), t # u PROVE queue'[u] = queue[u]
    BY <1>1, <2>1 DEF Request
  <2>2. QED
    BY <1>1, <1>2, <1>3, <1>4, <1>5, <2>1, QueueMoves

MigratePlaces == {"migrateBackup", "migrateCanonical"}

\* How a tab comes to the places where it relies on a sound envelope.
LEMMA PlaceStep ==
  ASSUME TypeOK, [Next]_vars, NEW u \in Tabs, pc'[u] \in MigratePlaces \cup {"apply"}
  PROVE  \/ pc[u] = "canonical" /\ canonical' = work[u].env
         \/ pc'[u] \in MigratePlaces /\ Valid(canonical) /\ canonical' = canonical
         \/ pc'[u] = pc[u] /\ canonical' = canonical
         \/ pc[u] \in MigratePlaces /\ pc'[u] \in MigratePlaces /\ canonical' = canonical
<1>1. ASSUME NEW t \in Tabs, Load(t), t # u PROVE pc'[u] = pc[u]
  <2>1. Release(t) \/ pc' = pc \/ \E p \in LoadPlaces : Goto(t, p)
    BY <1>1 DEF Load, LoadReadOnly, LoadNewer, LoadCanonical, LoadDefaults, Recover,
              BeginFresh, WriteFresh, MarkFresh, BeginMigration, LeaseBusy, MigrateBackup,
              MigrateCanonical, MigrateFailed, LoadFailed, LoadThrew, LoadDone, TakeLease,
              LoadPlaces
  <2>2. QED
    BY <1>1, <2>1 DEF Release, Goto, TypeOK, LockType
<1>2. CASE Load(u)
  <2>1. CASE LoadReadOnly(u)
    <3>1. pc' = pc /\ canonical' = canonical
      BY <2>1 DEF LoadReadOnly, storage
    <3>2. QED
      BY <3>1
  <2>2. CASE BeginMigration(u)
    <3>1. Valid(canonical) /\ canonical' = canonical
      BY <2>2 DEF BeginMigration, MigrationDue, TakeLease, storage
    <3>2. pc'[u] # "apply"
      BY <2>2 DEF BeginMigration, TakeLease, Goto, TypeOK, LockType
    <3>3. QED
      BY <3>1, <3>2
  <2>3. CASE MigrateBackup(u)
    <3>1. pc[u] \in MigratePlaces /\ canonical' = canonical
      BY <2>3 DEF MigrateBackup, MigratePlaces
    <3>2. pc'[u] \in MigratePlaces
      BY <2>3 DEF MigrateBackup, Goto, MigratePlaces, TypeOK, LockType
    <3>3. QED
      BY <3>1, <3>2
  <2>4. CASE ~LoadReadOnly(u) /\ ~BeginMigration(u) /\ ~MigrateBackup(u)
    <3>1. Release(u) \/ \E p \in LoadPlaces \ MigratePlaces : Goto(u, p)
      BY <1>2, <2>4 DEF Load, LoadNewer, LoadCanonical, LoadDefaults, Recover,
              BeginFresh, WriteFresh, MarkFresh, LeaseBusy, MigrateCanonical,
              MigrateFailed, LoadFailed, LoadThrew, LoadDone, TakeLease, LoadPlaces,
              MigratePlaces
    <3>2. QED
      BY <3>1 DEF Release, Goto, TypeOK, LockType, MigratePlaces, LoadPlaces
  <2>5. QED
    BY <2>1, <2>2, <2>3, <2>4
<1>3. ASSUME NEW t \in Tabs, Transact(t), t # u PROVE pc'[u] = pc[u]
  BY <1>3 DEF Transact, SaveCatalog, PersistCatalog, PersistBackup, PersistCanonical,
              Apply, RollBack, Fail, Goto, Answer, Release, TypeOK, LockType
<1>4. CASE Transact(u)
  <2>1. CASE PersistCanonical(u)
    BY <2>1 DEF PersistCanonical, Fail, Goto, TypeOK, LockType, MigratePlaces
  <2>2. CASE ~PersistCanonical(u)
    BY <1>4, <2>2 DEF Transact, SaveCatalog, PersistCatalog, PersistBackup, Apply, RollBack,
              Fail, Goto, Answer, Release, TypeOK, LockType, MigratePlaces
  <2>3. QED
    BY <2>1, <2>2
<1>5. ASSUME NEW t \in Tabs, BeginRequest(t) PROVE pc'[u] = pc[u]
  BY <1>5 DEF BeginRequest, RefuseStale, SkipUpdate, BeginUpdate, BeginImport, BeginSave,
              BeginCatalog, Begin, Acquire, TypeOK, LockType, MigratePlaces
<1>6. ASSUME NEW t \in Tabs,
             \/ OpenTab(t) \/ Probe(t) \/ RetryStorage(t) \/ BeginLoad(t)
             \/ Request(t) \/ Refuse(t) \/ CloseTab(t)
      PROVE  pc'[u] = pc[u]
  BY <1>6 DEF OpenTab, Probe, RetryStorage, BeginLoad, Request, Refuse, CloseTab, Acquire,
              TypeOK, LockType, MigratePlaces
<1>7. NewerReleaseMigrates \/ Corrupt \/ UNCHANGED vars => pc'[u] = pc[u]
  BY DEF NewerReleaseMigrates, Corrupt, vars
<1>8. ASSUME NEW l \in {"init", "migration"}, ExpireLease(l) PROVE pc'[u] = pc[u]
  BY <1>8 DEF ExpireLease
<1>9. pc'[u] = pc[u] => canonical' = canonical
  <2> SUFFICES ASSUME pc'[u] = pc[u], canonical' # canonical PROVE FALSE
    OBVIOUS
  <2>1. pc[u] # "idle"
    BY DEF MigratePlaces
  <2>2. Recover(u) \/ WriteFresh(u) \/ MigrateCanonical(u) \/ PersistCanonical(u)
    BY <2>1, HolderKeepsEnvelope
  <2>3. MigrateCanonical(u)
    BY <2>2 DEF Recover, WriteFresh, PersistCanonical, MigratePlaces
  <2>4. QED
    BY <2>3 DEF MigrateCanonical, Goto, Release, TypeOK, LockType
<1>10. QED
  BY <1>1, <1>2, <1>3, <1>4, <1>5, <1>6, <1>7, <1>8, <1>9 DEF Next

LEMMA EnvStep ==
  ASSUME TypeOK, [Next]_vars, \A t \in Tabs : EnvInv(t), NEW u \in Tabs
  PROVE  EnvInv(u)'
<1> SUFFICES ASSUME pc'[u] = "canonical" PROVE Current(work'[u].env)
  BY DEF EnvInv
<1>1. CASE PersistBackup(u)
  <2> DEFINE e == Envelope(CONFIG_SCHEMA_VERSION, canonical.rev + 1, work[u].draft)
  <2>1. work' = [work EXCEPT ![u] = [work[u] EXCEPT !.env = e]]
    BY <1>1 DEF PersistBackup
  <2>2. Current(e)
    BY DEF Envelope, Current
  <2> HIDE DEF e
  <2>3. work'[u].env = e
    BY <2>1 DEF TypeOK, WorkType, Works
  <2>4. QED
    BY <2>2, <2>3
<1>2. CASE PersistCatalog(u)
  BY <1>2 DEF PersistCatalog, Fail, Goto, TypeOK, LockType
<1>3. CASE BeginUpdate(u) \/ BeginImport(u) \/ BeginSave(u)
  BY <1>3 DEF BeginUpdate, BeginImport, BeginSave, Begin, Acquire, TypeOK, LockType
<1>4. CASE Kept(u) \/ (pc' = pc /\ work' = work)
  BY <1>4 DEF Kept, EnvInv
<1>5. QED
  BY <1>1, <1>2, <1>3, <1>4, CommitterStep DEF DraftPlaces

LEMMA HoldStep ==
  ASSUME TypeOK, [Next]_vars, \A t \in Tabs : HoldInv(t), NEW u \in Tabs
  PROVE  HoldInv(u)'
<1>1. \A t \in Tabs : EnvInv(t)
  BY DEF HoldInv
<1>2. EnvInv(u)'
  BY <1>1, EnvStep
<1>3. ASSUME pc'[u] \in MigratePlaces \cup {"apply"} PROVE Valid(canonical')
  BY <1>3, PlaceStep, CurrentValid DEF HoldInv, EnvInv, MigratePlaces
<1>4. QED
  BY <1>2, <1>3 DEF HoldInv, MigratePlaces

\* Until the damage, the backup lacks at most the edit acknowledged last.
LEMMA TrailStep ==
  ASSUME IsFiniteSet(Edits), RevInv, LostInv, TrailInv, [Next]_vars, Undamaged'
  PROVE  TrailInv'
<1>1. Acked \subseteq canonical.data
  BY DEF LostInv, AckInv, NoLostUpdate
<1>2. TypeOK
  BY DEF RevInv
<1>3. \A t \in Tabs : \A i \in 1..Len(queue'[t]) : AtMostOne(queue'[t][i].edits)
  BY <1>2, SingleStep DEF TrailInv
<1>4. CASE acked' # acked
  <2>1. PICK t \in Tabs : Apply(t)
    BY <1>4, AckedStep
  <2>2. /\ pc[t] = "apply" /\ queue[t] # <<>> /\ backup' = backup /\ Release(t)
        /\ acked' = [acked EXCEPT ![t] = acked[t] \cup Head(queue[t]).edits]
    BY <2>1 DEF Apply, Answer, storage
  <2>3. Acked \subseteq backup.data
    BY <2>2 DEF TrailInv
  <2>4. AtMostOne(Head(queue[t]).edits)
    <3>1. queue[t] \in Seq(Requests) /\ Head(queue[t]) = queue[t][1] /\ 1 \in 1..Len(queue[t])
      BY <1>2, <2>2 DEF TypeOK
    <3>2. QED
      BY <3>1 DEF TrailInv
  <2>5. \A u \in Tabs : acked'[u] \subseteq acked[u] \cup Head(queue[t]).edits
    BY <1>2, <2>2 DEF TypeOK, HistoryType
  <2>6. Acked' \subseteq Acked \cup Head(queue[t]).edits
    BY <2>5 DEF Acked
  <2>7. AtMostOne(Acked' \ backup'.data)
    BY <2>2, <2>3, <2>4, <2>6 DEF AtMostOne
  <2>8. \A u \in Tabs : pc'[u] = "idle"
    BY <1>2, <2>2, ReleasedPc, HolderAlone
  <2>9. QED
    BY <1>3, <2>7, <2>8 DEF TrailInv
<1>5. CASE acked' = acked
  <2>1. Acked' = Acked
    BY <1>5 DEF Acked
  <2>2. CASE backup' # backup
    <3>1. Acked' \subseteq backup'.data
      BY <1>1, <2>1, <2>2, BackedUp
    <3>2. QED
      BY <1>3, <3>1 DEF TrailInv, AtMostOne
  <2>3. CASE backup' = backup
    <3>1. ASSUME NEW u \in Tabs, pc'[u] \in {"canonical", "apply"}
          PROVE  Acked \subseteq backup.data
      <4>1. CASE pc[u] \in {"canonical", "apply"}
        BY <4>1 DEF TrailInv
      <4>2. CASE PersistBackup(u)
        <5>1. Valid(canonical) /\ pc[u] = "catalogs"
          BY <4>2, CurrentValid DEF PersistBackup, RevInv, TabInv, PlaceInv
        <5>2. pc'[u] = "canonical" => backup' = canonical
          BY <4>2, <5>1 DEF PersistBackup, Fail, Goto, RevInv, TypeOK, LockType
        <5>3. pc'[u] # "apply"
          BY <4>2, <5>1 DEF PersistBackup, Fail, Goto, RevInv, TypeOK, LockType
        <5>4. QED
          BY <1>1, <2>3, <3>1, <5>2, <5>3
      <4>3. CASE pc'[u] = "apply"
        <5>1. pc[u] \in {"canonical", "apply"}
          BY <1>2, <4>3, PlaceStep DEF MigratePlaces
        <5>2. QED
          BY <4>1, <5>1
      <4>4. CASE pc'[u] = "canonical" /\ ~PersistBackup(u) /\ pc[u] # "canonical"
        BY <1>2, <4>4, CommitterStep
           DEF Kept, DraftPlaces, BeginUpdate, BeginImport, BeginSave, Begin, Acquire,
               PersistCatalog, Fail, Goto, TypeOK, LockType
      <4>5. QED
        BY <3>1, <4>1, <4>2, <4>3, <4>4
    <3>2. QED
      BY <1>3, <2>1, <2>3, <3>1 DEF TrailInv
  <2>4. QED
    BY <2>2, <2>3
<1>6. QED
  BY <1>4, <1>5

\* Once damaged, the store is repaired before anything is acknowledged.
LEMMA DamagedStep ==
  ASSUME RecInv, [Next]_vars, ~Undamaged, corruptions' <= 1, Damaged'
  PROVE  AtMostOne(Acked' \ backup'.data)
<1>1. ~Corrupt /\ TypeOK
  BY DEF Corrupt, RecInv, Undamaged, TypeOK, HistoryType
<1>2. \A t \in Tabs : HoldInv(t) /\ EnvInv(t)
  BY DEF RecInv, HoldInv
<1>3. canonical' = canonical
  BY <1>1, <1>2, Rewritten DEF Damaged
<1>4. Damaged
  BY <1>3 DEF Damaged
<1>5. acked' = acked
  <2>1. ASSUME NEW t \in Tabs, Apply(t) PROVE FALSE
    BY <1>2, <1>4, <2>1 DEF Apply, HoldInv, Damaged
  <2>2. QED
    BY <2>1, AckedStep
<1>6. backup' = backup
  <2>1. ~NewerReleaseMigrates
    BY <1>4 DEF NewerReleaseMigrates, Damaged
  <2>2. ASSUME NEW t \in Tabs, MigrateBackup(t) PROVE FALSE
    BY <1>2, <1>4, <2>2 DEF MigrateBackup, HoldInv, Damaged
  <2>3. ASSUME NEW t \in Tabs, PersistBackup(t) PROVE backup' = backup
    BY <1>4, <2>3 DEF PersistBackup, Damaged
  <2>4. QED
    BY <2>1, <2>2, <2>3, BackupWriters
<1>7. QED
  BY <1>4, <1>5, <1>6 DEF RecInv, Acked

LEMMA RecInit == Init => RecInv
<1> SUFFICES ASSUME Init PROVE RecInv
  OBVIOUS
<1>1. TypeOK /\ RevInv
  BY TypeInit, RevInit
<1>2. Acked = {} /\ corruptions = 0
  BY DEF Init, Acked
<1>3. \A t \in Tabs : pc[t] = "idle" /\ Len(queue[t]) = 0
  BY DEF Init
<1>4. LostInv
  BY <1>2, <1>3 DEF LostInv, AckInv, NoLostUpdate, DraftInv, CommitPlaces
<1>5. TrailInv
  BY <1>2, <1>3 DEF TrailInv, AtMostOne
<1>6. \A t \in Tabs : HoldInv(t)
  BY <1>3 DEF HoldInv, EnvInv
<1>7. QED
  BY <1>1, <1>2, <1>4, <1>5, <1>6 DEF RecInv, Damaged, Undamaged

LEMMA RecStep ==
  ASSUME MaxCorruptions <= 1, IsFiniteSet(Edits), Kinds \subseteq {"update", "catalog"},
         RecInv, [Next]_vars
  PROVE  RecInv'
<1>1. TypeOK /\ TypeOK'
  BY TypeStep DEF RecInv
<1>2. corruptions \in Nat /\ corruptions <= 1 /\ MaxCorruptions \in Nat
  BY <1>1, ConfigAssumption DEF TypeOK, HistoryType, RecInv, ConfigAssumption
<1>3. corruptions' <= 1 /\ (Undamaged' => Undamaged)
  BY <1>2, DamageCounted DEF Corrupt, Undamaged
<1>4. \A t \in Tabs : HoldInv(t)'
  BY <1>1, HoldStep DEF RecInv
<1>5. ASSUME Undamaged' PROVE RevInv' /\ LostInv' /\ TrailInv'
  <2>1. RevInv /\ LostInv /\ TrailInv
    BY <1>3, <1>5 DEF RecInv
  <2>2. AckInv' /\ \A u \in Tabs : DraftInv(u)'
    BY <1>5, <2>1, AckStep, DraftStep
  <2>3. QED
    BY <1>5, <2>1, <2>2, RevStep, TrailStep DEF LostInv
<1>6. ASSUME Damaged' PROVE AtMostOne(Acked' \ backup'.data)
  <2>1. CASE Undamaged
    <3>1. Corrupt
      BY <1>6, <2>1, DamageCounted DEF Damaged, Undamaged
    <3>2. acked' = acked /\ backup' = backup
      BY <3>1 DEF Corrupt, history
    <3>3. QED
      BY <2>1, <3>2 DEF RecInv, TrailInv, Acked
  <2>2. CASE ~Undamaged
    BY <1>3, <1>6, <2>2, DamagedStep
  <2>3. QED
    BY <2>1, <2>2
<1>7. QED
  BY <1>1, <1>3, <1>4, <1>5, <1>6 DEF RecInv

\* A load that recovers the store loses at most the edit acknowledged last,
\* even when the damage follows a closing or a rejected write of another tab.
THEOREM RecoveryLosesOne ==
  ASSUME MaxCorruptions <= 1, IsFiniteSet(Edits), Kinds \subseteq {"update", "catalog"}
  PROVE  Spec => RecoveryLosesAtMostOne
<1>1. Init => RecInv
  BY RecInit
<1>2. RecInv /\ [Next]_vars => RecInv'
  BY RecStep
<1>3. RecInv /\ [Next]_vars =>
        [\A t \in Tabs : pc[t] = "load" /\ canonical' # canonical =>
           Cardinality(Acked \ canonical'.data) <= 1]_vars
  <2> SUFFICES ASSUME RecInv, [Next]_vars, NEW t \in Tabs, pc[t] = "load",
                      canonical' # canonical
               PROVE  Cardinality(Acked \ canonical'.data) <= 1
    OBVIOUS
  <2>1. Recover(t)
    <3>1. Recover(t) \/ WriteFresh(t) \/ MigrateCanonical(t) \/ PersistCanonical(t)
      BY HolderKeepsEnvelope DEF RecInv
    <3>2. QED
      BY <3>1 DEF WriteFresh, MigrateCanonical, PersistCanonical
  <2>2. canonical' = Recovered /\ ~Newer(canonical) /\ ~Valid(canonical)
    BY <2>1 DEF Recover
  <2>3. canonical'.data = backup.data
    BY <2>2 DEF Recovered, Envelope
  <2>4. CASE Undamaged
    <3>1. Acked = {}
      BY <2>2, <2>4 DEF RecInv, LostInv, AckInv
    <3>2. QED
      BY <3>1, AtMostOneCard DEF AtMostOne
  <2>5. CASE ~Undamaged
    BY <2>2, <2>3, <2>5, AtMostOneCard DEF RecInv, Damaged
  <2>6. QED
    BY <2>4, <2>5
<1>4. QED
  BY <1>1, <1>2, <1>3, PTL DEF Spec, RecoveryLosesAtMostOne

-----------------------------
(* Catalogs are stored apart from the envelope and rolled back when the      *)
(* envelope cannot be written.  A tab compares payloads to tell whether its  *)
(* catalogs are current: why that comparison is enough, for any number of    *)
(* tabs, catalogs, request kinds, damages and rejected writes, as long as no *)
(* write of a rollback is rejected itself.                                   *)


\* No write that puts a catalog back is rejected (the code only reports it).
RollbacksAccepted == [][\A t \in Tabs : RollBack(t) => WriteAccepted]_vars

WritePlaces == {"cacheOnly", "catalogs"}
UndoPlaces == {"catalogs", "canonical", "apply", "rollback"}

Undone(t) == {work[t].undo[i][1] : i \in 1..Len(work[t].undo)}

\* The transaction works on the first request of its tab.
InHand(t) ==
  /\ pc[t] \in SavePlaces =>
       /\ access[t] = "ready" /\ queue[t] # <<>>
       /\ work[t].cats = Head(queue[t]).cats /\ work[t].val = Head(queue[t]).val
       /\ work[t].todo \subseteq work[t].cats
       /\ Undone(t) \subseteq work[t].cats \ work[t].todo
  /\ pc[t] \notin UndoPlaces => work[t].undo = <<>>
  /\ pc[t] \in LoadPlaces => access[t] # "ready"

\* What it has written is stored, and what it can put back is what the tab
\* holds; the other catalogs the tab holds are the stored ones.
Restorable(t) ==
  /\ pc[t] \in {"canonical", "apply"} => work[t].todo = {}
  /\ pc[t] \in CommitPlaces => \A s \in work[t].cats \ work[t].todo : cache[s] = work[t].val
  /\ pc[t] \in UndoPlaces =>
       /\ \A i \in 1..Len(work[t].undo) : live[t].cat[work[t].undo[i][1]] = work[t].undo[i][2]
       /\ \A s \in Catalogs : s \in Undone(t) \/ live[t].cat[s] = cache[s]

Agrees(u, s, v) == knownCache[u][s] = v => live[u].cat[s] = v

\* A payload a tab knows, or may find stored again, is the one it holds.
Consistent(u) ==
  access[u] = "ready" =>
    /\ pc[u] \in {"idle", "cacheOnly"} => \A s \in Catalogs : Agrees(u, s, cache[s])
    /\ \A t \in Tabs \ {u} : \A i \in 1..Len(work[t].undo) :
         Agrees(u, work[t].undo[i][1], work[t].undo[i][2])

\* The payloads of catalog s that any tab has seen or may put back.
Seen(s) ==
  {0, cache[s]} \cup {knownCache[u][s] : u \in Tabs}
    \cup UNION {{work[u].undo[i][2] : i \in {j \in 1..Len(work[u].undo) :
                                               work[u].undo[j][1] = s}} : u \in Tabs}

\* The request at place i of the queue has not written catalog s yet.
Awaits(t, i, s) ==
  i # 1 \/ pc[t] \notin SavePlaces \/ (pc[t] \in WritePlaces /\ s \in work[t].todo)

\* A payload still to be written is new to everybody.
FreshInv ==
  /\ \A s \in Catalogs : Seen(s) \subseteq 0..catalogNo
  /\ \A t \in Tabs : \A i \in 1..Len(queue[t]) : \A s \in queue[t][i].cats :
       /\ queue[t][i].val <= catalogNo
       /\ Awaits(t, i, s) => queue[t][i].val \notin Seen(s)
  /\ \A t, u \in Tabs : \A i \in 1..Len(queue[t]), j \in 1..Len(queue[u]) :
       (t # u \/ i # j) /\ queue[t][i].cats # {} /\ queue[u][j].cats # {} =>
         queue[t][i].val # queue[u][j].val

CatInv ==
  /\ FreshInv
  /\ \A t \in Tabs : InHand(t) /\ Restorable(t) /\ Consistent(t)

-----------------------------
(* What the steps of a transaction do to the catalogs.                     *)

LEMMA TabTypes ==
  ASSUME TypeOK, NEW t \in Tabs
  PROVE  /\ live[t] \in Views /\ live[t].cat \in [Catalogs -> Nat]
         /\ knownCache[t] \in [Catalogs -> Nat] /\ cache \in [Catalogs -> Nat]
         /\ work[t] \in Works /\ work[t].undo \in Seq(Catalogs \X Nat)
         /\ work[t].todo \subseteq Catalogs /\ work[t].cats \subseteq Catalogs
         /\ work[t].val \in Nat /\ queue[t] \in Seq(Requests)
BY DEF TypeOK, TabType, StorageType, WorkType, Views, Works

LEMMA CatalogStep ==
  ASSUME TypeOK, NEW t \in Tabs, PersistCatalog(t)
  PROVE  \E s \in work[t].todo :
           /\ work'[t].todo = work[t].todo \ {s}
           /\ work'[t].undo = Append(work[t].undo, <<s, cache[s]>>)
           /\ work'[t].cats = work[t].cats /\ work'[t].val = work[t].val
           /\ \/ /\ cache' = [cache EXCEPT ![s] = work[t].val]
                 /\ knownCache' = [knownCache EXCEPT ![t] =
                                     [knownCache[t] EXCEPT ![s] = work[t].val]]
                 /\ pc' = pc
              \/ cache' = cache /\ knownCache' = knownCache /\ pc'[t] = "rollback"
<1>1. PICK s \in work[t].todo :
        /\ work' = [work EXCEPT ![t] =
             [work[t] EXCEPT !.todo = @ \ {s}, !.undo = Append(@, <<s, cache[s]>>)]]
        /\ \/ /\ cache' = WithCatalog(cache, s, work[t].val)
              /\ knownCache' = [knownCache EXCEPT ![t] = WithCatalog(@, s, work[t].val)]
              /\ UNCHANGED <<pc, lock>>
           \/ Fail(t) /\ UNCHANGED <<cache, knownCache>>
  BY Zenon DEF PersistCatalog
<1>2. work'[t].todo = work[t].todo \ {s} /\ work'[t].cats = work[t].cats
      /\ work'[t].undo = Append(work[t].undo, <<s, cache[s]>>)
      /\ work'[t].val = work[t].val
  <2> DEFINE r == work[t].todo \ {s}
             u == Append(work[t].undo, <<s, cache[s]>>)
  <2>1. work' = [work EXCEPT ![t] = [work[t] EXCEPT !.todo = r, !.undo = u]]
    BY <1>1
  <2> HIDE DEF r, u
  <2>2. work[t] \in Works /\ work \in [Tabs -> Works]
    BY DEF TypeOK, WorkType
  <2>3. work'[t].todo = r /\ work'[t].undo = u /\ work'[t].cats = work[t].cats
        /\ work'[t].val = work[t].val
    BY <2>1, <2>2 DEF Works
  <2>4. QED
    BY <2>3 DEF r, u
<1>3. CASE /\ cache' = WithCatalog(cache, s, work[t].val)
           /\ knownCache' = [knownCache EXCEPT ![t] = WithCatalog(@, s, work[t].val)]
           /\ pc' = pc
  BY <1>2, <1>3 DEF WithCatalog
<1>4. CASE Fail(t) /\ UNCHANGED <<cache, knownCache>>
  BY <1>2, <1>4 DEF Fail, Goto, TypeOK, LockType
<1>5. QED
  BY <1>1, <1>3, <1>4

LEMMA CatalogStepRest ==
  ASSUME TypeOK, NEW t \in Tabs, PersistCatalog(t)
  PROVE  /\ UNCHANGED <<live, access, queue, catalogNo>> /\ pc[t] = "catalogs"
         /\ \A u \in Tabs \ {t} : work'[u] = work[u] /\ pc'[u] = pc[u]
BY DEF PersistCatalog, Fail, Goto, history, TypeOK, WorkType, LockType

\* One catalog is put back.
LEMMA RollBackStep ==
  ASSUME TypeOK, NEW t \in Tabs, RollBack(t), WriteAccepted, work[t].undo # <<>>
  PROVE  LET n == Len(work[t].undo)
             s == work[t].undo[n][1]
             v == work[t].undo[n][2]
         IN  /\ n \in Nat \ {0} /\ s \in Catalogs /\ v \in Nat
             /\ work'[t].undo = SubSeq(work[t].undo, 1, n - 1)
             /\ work'[t].todo = work[t].todo /\ work'[t].cats = work[t].cats
             /\ work'[t].val = work[t].val
             /\ cache' = [cache EXCEPT ![s] = v]
             /\ \/ knownCache' = knownCache
                \/ knownCache' = [knownCache EXCEPT ![t] = [knownCache[t] EXCEPT ![s] = v]]
             /\ pc' = pc /\ queue' = queue
<1> DEFINE n == Len(work[t].undo)
           s == work[t].undo[n][1]
           v == work[t].undo[n][2]
           q == SubSeq(work[t].undo, 1, n - 1)
<1>1. work[t].undo \in Seq(Catalogs \X Nat) /\ n \in Nat \ {0} /\ n \in 1..n
  BY TabTypes
<1>2. s \in Catalogs /\ v \in Nat
  <2>1. work[t].undo[n] \in Catalogs \X Nat
    BY <1>1
  <2>2. QED
    BY <2>1
<1>3. /\ work' = [work EXCEPT ![t].undo = q]
      /\ \/ /\ cache' = WithCatalog(cache, s, v)
            /\ knownCache' = IF v = 0 THEN knownCache
                 ELSE [knownCache EXCEPT ![t] = WithCatalog(@, s, v)]
         \/ WriteRejected
      /\ pc' = pc /\ queue' = queue
  BY DEF RollBack
<1>4. ~WriteRejected
  BY DEF WriteAccepted, WriteRejected, TypeOK, HistoryType
<1>5. /\ work'[t].undo = q /\ work'[t].todo = work[t].todo
      /\ work'[t].cats = work[t].cats /\ work'[t].val = work[t].val
  <2>1. work' = [work EXCEPT ![t] = [work[t] EXCEPT !.undo = q]]
    BY <1>3
  <2> HIDE DEF q
  <2>2. work[t] \in Works /\ work \in [Tabs -> Works]
    BY DEF TypeOK, WorkType
  <2>3. QED
    BY <2>1, <2>2 DEF Works
<1>6. cache' = [cache EXCEPT ![s] = v]
      /\ \/ knownCache' = knownCache
         \/ knownCache' = [knownCache EXCEPT ![t] = [knownCache[t] EXCEPT ![s] = v]]
  BY <1>3, <1>4 DEF WithCatalog
<1> HIDE DEF n, s, v, q
<1>7. QED
  BY <1>1, <1>2, <1>3, <1>5, <1>6 DEF n, s, v, q

LEMMA RollBackRest ==
  ASSUME TypeOK, NEW t \in Tabs, RollBack(t)
  PROVE  /\ UNCHANGED <<live, access, catalogNo>> /\ pc[t] = "rollback"
         /\ \A u \in Tabs \ {t} : work'[u] = work[u] /\ pc'[u] = pc[u] /\ queue'[u] = queue[u]
BY ReleasedPc DEF RollBack, Answer, history, TypeOK, WorkType, LockType

-----------------------------
(* Whose state a step moves.                                               *)

TabStep(t) ==
  \/ OpenTab(t) \/ Probe(t) \/ RetryStorage(t) \/ BeginLoad(t)
  \/ Load(t) \/ Request(t) \/ Refuse(t) \/ BeginRequest(t)
  \/ Transact(t) \/ CloseTab(t)

Still(u) ==
  /\ pc'[u] = pc[u] /\ work'[u] = work[u] /\ queue'[u] = queue[u]
  /\ access'[u] = access[u] /\ live'[u] = live[u] /\ knownCache'[u] = knownCache[u]

LEMMA LoadStill ==
  ASSUME TypeOK, NEW t \in Tabs, Load(t), NEW u \in Tabs, u # t
  PROVE  Still(u)
<1>1. queue' = queue
  BY DEF Load, LoadReadOnly, LoadNewer, LoadCanonical, LoadDefaults, Recover,
         BeginFresh, WriteFresh, MarkFresh, BeginMigration, LeaseBusy, MigrateBackup,
         MigrateCanonical, MigrateFailed, LoadFailed, LoadThrew, LoadDone, TakeLease
<1>2. \/ Release(t)
      \/ UNCHANGED <<pc, work>>
      \/ work' = work /\ \E p \in LoadPlaces : Goto(t, p)
  BY DEF Load, LoadReadOnly, LoadNewer, LoadCanonical, LoadDefaults, Recover,
         BeginFresh, WriteFresh, MarkFresh, BeginMigration, LeaseBusy, MigrateBackup,
         MigrateCanonical, MigrateFailed, LoadFailed, LoadThrew, LoadDone, TakeLease,
         LoadPlaces
<1>3. \/ UNCHANGED <<access, live, knownCache>>
      \/ UNCHANGED <<live, knownCache>> /\ \E a : access' = [access EXCEPT ![t] = a]
      \/ \E d, r, c, o : Settle(t, d, r, c, o)
  <2>1. CASE LoadThrew(t)
    BY <2>1 DEF LoadThrew
  <2>2. CASE BeginFresh(t) \/ WriteFresh(t) \/ BeginMigration(t) \/ MigrateBackup(t)
    BY <2>2 DEF BeginFresh, WriteFresh, BeginMigration, MigrateBackup, TakeLease, tabVars
  <2>3. CASE LoadReadOnly(t) \/ LoadNewer(t) \/ LoadCanonical(t) \/ LoadDefaults(t)
    BY <2>3 DEF LoadReadOnly, LoadNewer, LoadCanonical, LoadDefaults
  <2>4. CASE Recover(t) \/ MarkFresh(t) \/ LeaseBusy(t) \/ MigrateCanonical(t)
             \/ MigrateFailed(t) \/ LoadFailed(t)
    BY <2>4 DEF Recover, MarkFresh, LeaseBusy, MigrateCanonical, MigrateFailed,
                LoadFailed, tabVars
  <2>5. QED
    BY <2>1, <2>2, <2>3, <2>4 DEF Load
<1>4. pc'[u] = pc[u] /\ work'[u] = work[u]
  BY <1>2 DEF Release, Goto, TypeOK, LockType, WorkType
<1>5. access'[u] = access[u] /\ live'[u] = live[u] /\ knownCache'[u] = knownCache[u]
  BY <1>3 DEF Settle, TypeOK, TabType
<1>6. QED
  BY <1>1, <1>4, <1>5 DEF Still

LEMMA OthersStill ==
  ASSUME TypeOK, NEW t \in Tabs, TabStep(t), NEW u \in Tabs, u # t
  PROVE  Still(u)
<1>1. CASE Load(t)
  BY <1>1, LoadStill
<1>2. CASE OpenTab(t) \/ Probe(t) \/ RetryStorage(t) \/ BeginLoad(t) \/ Request(t)
           \/ Refuse(t)
  BY <1>2 DEF OpenTab, Probe, RetryStorage, BeginLoad, Acquire, Request, Refuse, tabVars,
              Still, TypeOK, TabType, LockType
<1>3. CASE CloseTab(t)
  BY <1>3 DEF CloseTab, Still, TypeOK, TabType, LockType, WorkType
<1>4. CASE BeginRequest(t)
  BY <1>4 DEF BeginRequest, RefuseStale, SkipUpdate, BeginUpdate, BeginImport, BeginSave,
              BeginCatalog, Begin, Acquire, Refresh, tabVars, Still, TypeOK, TabType,
              LockType, WorkType
<1>5. CASE PersistCatalog(t)
  <2>1. work'[u] = work[u] /\ pc'[u] = pc[u] /\ UNCHANGED <<live, access, queue>>
    BY <1>5, CatalogStepRest
  <2>2. knownCache'[u] = knownCache[u]
    BY <1>5 DEF PersistCatalog, TypeOK, TabType
  <2>3. QED
    BY <2>1, <2>2 DEF Still
<1>6. CASE RollBack(t)
  <2>1. work'[u] = work[u] /\ pc'[u] = pc[u] /\ queue'[u] = queue[u]
        /\ UNCHANGED <<live, access>>
    BY <1>6, RollBackRest
  <2>2. knownCache'[u] = knownCache[u]
    BY <1>6 DEF RollBack, TypeOK, TabType
  <2>3. QED
    BY <2>1, <2>2 DEF Still
<1>7. CASE SaveCatalog(t)
  <2>1. work'[u] = work[u] /\ pc'[u] = pc[u] /\ queue'[u] = queue[u] /\ access' = access
    BY <1>7, ReleasedPc DEF SaveCatalog, Answer, TypeOK
  <2>2. live'[u] = live[u] /\ knownCache'[u] = knownCache[u]
    BY <1>7 DEF SaveCatalog, TypeOK, TabType
  <2>3. QED
    BY <2>1, <2>2 DEF Still
<1>8. CASE PersistBackup(t) \/ PersistCanonical(t) \/ Apply(t)
  BY <1>8, ReleasedPc
     DEF PersistBackup, PersistCanonical, Apply, Answer, Fail, Goto, tabVars, Still,
         TypeOK, TabType, LockType, WorkType
<1>9. QED
  BY <1>1, <1>2, <1>3, <1>4, <1>5, <1>6, <1>7, <1>8 DEF TabStep, Transact

LEMMA WhoMoves ==
  ASSUME [Next]_vars
  PROVE  \/ \E t \in Tabs : TabStep(t)
         \/ UNCHANGED <<pc, work, queue, access, live, knownCache, cache, catalogNo>>
<1>1. Corrupt \/ NewerReleaseMigrates \/ UNCHANGED vars =>
        UNCHANGED <<pc, work, queue, access, live, knownCache, cache, catalogNo>>
  BY DEF Corrupt, NewerReleaseMigrates, vars, tabVars, storage, history
<1>2. ASSUME NEW l \in {"init", "migration"}, ExpireLease(l)
      PROVE  UNCHANGED <<pc, work, queue, access, live, knownCache, cache, catalogNo>>
  BY <1>2 DEF ExpireLease, tabVars, storage, history
<1>3. QED
  BY <1>1, <1>2 DEF Next, TabStep

\* Only three actions write a catalog.
LEMMA CacheWriters ==
  ASSUME NEW t \in Tabs, TabStep(t), cache' # cache
  PROVE  SaveCatalog(t) \/ PersistCatalog(t) \/ RollBack(t)
<1>1. ~Load(t)
  BY DEF Load, LoadReadOnly, LoadNewer, LoadCanonical, LoadDefaults, Recover,
              BeginFresh, WriteFresh, MarkFresh, BeginMigration, LeaseBusy,
              MigrateBackup, MigrateCanonical, MigrateFailed, LoadFailed, LoadThrew,
              LoadDone, TakeLease, storage
<1>2. ~BeginRequest(t)
  BY DEF BeginRequest, RefuseStale, SkipUpdate, BeginUpdate, BeginImport,
              BeginSave, BeginCatalog, Begin, storage
<1>3. ~OpenTab(t) /\ ~Probe(t) /\ ~RetryStorage(t) /\ ~BeginLoad(t) /\ ~Request(t)
      /\ ~Refuse(t) /\ ~CloseTab(t)
  BY DEF OpenTab, Probe, RetryStorage, BeginLoad, Request, Refuse, CloseTab, storage
<1>4. ~PersistBackup(t) /\ ~PersistCanonical(t) /\ ~Apply(t)
  BY DEF PersistBackup, PersistCanonical, Apply, storage
<1>5. QED
  BY <1>1, <1>2, <1>3, <1>4 DEF TabStep, Transact

-----------------------------
(* Payloads still to be written are new.                                   *)

LEMMA SeenWithin ==
  ASSUME NEW s \in Catalogs, NEW X, 0 \in X, cache'[s] \in X,
         \A u \in Tabs : knownCache'[u][s] \in X,
         \A u \in Tabs : \A i \in 1..Len(work'[u].undo) :
           work'[u].undo[i][1] = s => work'[u].undo[i][2] \in X
  PROVE  Seen(s)' \subseteq X
BY DEF Seen

LEMMA SeenParts ==
  ASSUME NEW s \in Catalogs
  PROVE  /\ 0 \in Seen(s) /\ cache[s] \in Seen(s)
         /\ \A u \in Tabs : knownCache[u][s] \in Seen(s)
         /\ \A u \in Tabs : \A i \in 1..Len(work[u].undo) :
              work[u].undo[i][1] = s => work[u].undo[i][2] \in Seen(s)
<1>1. ASSUME NEW u \in Tabs, NEW i \in 1..Len(work[u].undo), work[u].undo[i][1] = s
      PROVE  work[u].undo[i][2] \in Seen(s)
  <2> DEFINE A(w) == {work[w].undo[k][2] : k \in {j \in 1..Len(work[w].undo) :
                                                    work[w].undo[j][1] = s}}
  <2>1. work[u].undo[i][2] \in A(u)
    BY <1>1
  <2>2. work[u].undo[i][2] \in UNION {A(w) : w \in Tabs}
    BY <2>1
  <2>3. QED
    BY <2>2 DEF Seen
<1>2. QED
  BY <1>1 DEF Seen

\* All other steps know what is stored, or nothing.
LEMMA KnownStep ==
  ASSUME TypeOK, NEW t \in Tabs, TabStep(t),
         ~SaveCatalog(t), ~PersistCatalog(t), ~RollBack(t)
  PROVE  /\ knownCache'[t] \in {knownCache[t], cache, NoCatalogs}
         /\ work'[t].undo = work[t].undo \/ work'[t].undo = <<>>
<1>1. NoWork.undo = <<>>
  BY DEF NoWork
<1>2. CASE Load(t)
  <2>1. knownCache'[t] \in {knownCache[t], cache, NoCatalogs}
    <3>1. UNCHANGED knownCache \/ \E d, r, c, o : Settle(t, d, r, c, o)
      <4>1. CASE LoadThrew(t)
        BY <4>1 DEF LoadThrew
      <4>2. CASE BeginFresh(t) \/ WriteFresh(t) \/ BeginMigration(t) \/ MigrateBackup(t)
        BY <4>2 DEF BeginFresh, WriteFresh, BeginMigration, MigrateBackup, TakeLease, tabVars
      <4>3. CASE LoadReadOnly(t) \/ LoadNewer(t) \/ LoadCanonical(t) \/ LoadDefaults(t)
        BY <4>3 DEF LoadReadOnly, LoadNewer, LoadCanonical, LoadDefaults
      <4>4. CASE Recover(t) \/ MarkFresh(t) \/ LeaseBusy(t) \/ MigrateCanonical(t)
                 \/ MigrateFailed(t) \/ LoadFailed(t)
        BY <4>4 DEF Recover, MarkFresh, LeaseBusy, MigrateCanonical, MigrateFailed,
                    LoadFailed, tabVars
      <4>5. QED
        BY <1>2, <4>1, <4>2, <4>3, <4>4 DEF Load
    <3>2. QED
      BY <3>1 DEF Settle, TypeOK, TabType
  <2>2. Release(t) \/ UNCHANGED work
    BY <1>2 DEF Load, LoadReadOnly, LoadNewer, LoadCanonical, LoadDefaults, Recover,
         BeginFresh, WriteFresh, MarkFresh, BeginMigration, LeaseBusy, MigrateBackup,
         MigrateCanonical, MigrateFailed, LoadFailed, LoadThrew, LoadDone, TakeLease, Goto
  <2>3. QED
    BY <1>1, <2>1, <2>2 DEF Release, TypeOK, WorkType
<1>3. CASE OpenTab(t) \/ Probe(t) \/ RetryStorage(t) \/ BeginLoad(t) \/ Request(t)
           \/ Refuse(t)
  BY <1>3 DEF OpenTab, Probe, RetryStorage, BeginLoad, Request, Refuse, tabVars
<1>4. CASE CloseTab(t)
  BY <1>1, <1>4 DEF CloseTab, TypeOK, TabType, WorkType
<1>5. CASE RefuseStale(t) \/ SkipUpdate(t)
  BY <1>5 DEF RefuseStale, SkipUpdate, Refresh, tabVars, TypeOK, TabType
<1>6. CASE BeginUpdate(t) \/ BeginImport(t) \/ BeginSave(t) \/ BeginCatalog(t)
  <2>1. PICK d, at : Begin(t, d, at)
    BY <1>6 DEF BeginUpdate, BeginImport, BeginSave, BeginCatalog
  <2>2. knownCache'[t] = cache
    BY <2>1 DEF Begin, Refresh, TypeOK, TabType
  <2>3. work'[t].undo = <<>>
    BY <2>1 DEF Begin, NoWork, TypeOK, WorkType
  <2>4. QED
    BY <2>2, <2>3
<1>7. CASE PersistBackup(t)
  <2> DEFINE e == Envelope(CONFIG_SCHEMA_VERSION, canonical.rev + 1, work[t].draft)
  <2>1. work' = [work EXCEPT ![t] = [work[t] EXCEPT !.env = e]] /\ knownCache' = knownCache
    BY <1>7 DEF PersistBackup, tabVars
  <2> HIDE DEF e
  <2>2. work'[t].undo = work[t].undo
    BY <2>1 DEF TypeOK, WorkType, Works
  <2>3. QED
    BY <2>1, <2>2
<1>8. CASE PersistCanonical(t)
  BY <1>8 DEF PersistCanonical, tabVars
<1>9. CASE Apply(t)
  BY <1>1, <1>9 DEF Apply, Answer, Release, TypeOK, WorkType
<1>10. QED
  BY <1>2, <1>3, <1>4, <1>5, <1>6, <1>7, <1>8, <1>9 DEF TabStep, BeginRequest, Transact

\* A step adds to what was seen at most the payload it writes.
LEMMA SeenStep ==
  ASSUME TypeOK, TypeOK', [Next]_vars, \A t \in Tabs : RollBack(t) => WriteAccepted,
         \A t \in Tabs : InHand(t), NEW s \in Catalogs
  PROVE  \/ Seen(s)' \subseteq Seen(s)
         \/ \E a \in Tabs :
              /\ (PersistCatalog(a) /\ pc' = pc) \/ SaveCatalog(a)
              /\ s \in work[a].todo
              /\ (PersistCatalog(a) => s \notin work'[a].todo)
              /\ Seen(s)' \subseteq Seen(s) \cup {work[a].val}
<1> USE SeenParts
<1>1. CASE UNCHANGED <<pc, work, queue, access, live, knownCache, cache, catalogNo>>
  BY <1>1 DEF Seen
<1>2. ASSUME NEW t \in Tabs, TabStep(t)
      PROVE  \/ Seen(s)' \subseteq Seen(s)
             \/ /\ (PersistCatalog(t) /\ pc' = pc) \/ SaveCatalog(t)
                /\ s \in work[t].todo
                /\ (PersistCatalog(t) => s \notin work'[t].todo)
                /\ Seen(s)' \subseteq Seen(s) \cup {work[t].val}
  <2>1. \A u \in Tabs \ {t} : work'[u] = work[u] /\ knownCache'[u] = knownCache[u]
    BY <1>2, OthersStill DEF Still
  <2>2. CASE ~SaveCatalog(t) /\ ~PersistCatalog(t) /\ ~RollBack(t)
    <3>1. cache' = cache /\ knownCache'[t] \in {knownCache[t], cache, NoCatalogs}
          /\ (work'[t].undo = work[t].undo \/ work'[t].undo = <<>>)
      BY <1>2, <2>2, KnownStep, CacheWriters
    <3>2. NoCatalogs[s] = 0
      BY DEF NoCatalogs
    <3>3. \A u \in Tabs : knownCache'[u][s] \in Seen(s)
      BY <2>1, <3>1, <3>2
    <3>4. \A u \in Tabs : \A i \in 1..Len(work'[u].undo) :
            work'[u].undo[i][1] = s => work'[u].undo[i][2] \in Seen(s)
      BY <2>1, <3>1
    <3>5. QED
      BY <3>1, <3>3, <3>4, SeenWithin
  <2>3. CASE RollBack(t)
    <3>1. CASE work[t].undo = <<>>
      <4>1. cache' = cache /\ knownCache' = knownCache /\ work'[t].undo = <<>>
        BY <2>3, <3>1 DEF RollBack, Answer, Release, NoWork, TypeOK, WorkType
      <4>2. \A u \in Tabs : \A i \in 1..Len(work'[u].undo) :
              work'[u].undo[i][1] = s => work'[u].undo[i][2] \in Seen(s)
        BY <2>1, <4>1
      <4>3. QED
        BY <4>1, <4>2, SeenWithin
    <3>2. CASE work[t].undo # <<>>
      <4> DEFINE n == Len(work[t].undo)
                 x == work[t].undo[n][1]
                 v == work[t].undo[n][2]
      <4>1. /\ n \in Nat \ {0} /\ x \in Catalogs /\ v \in Nat
            /\ work'[t].undo = SubSeq(work[t].undo, 1, n - 1)
            /\ cache' = [cache EXCEPT ![x] = v]
            /\ \/ knownCache' = knownCache
               \/ knownCache' = [knownCache EXCEPT ![t] = [knownCache[t] EXCEPT ![x] = v]]
        BY <2>3, <3>2, RollBackStep
      <4>2. x = s => v \in Seen(s)
        BY <4>1
      <4>3. \A i \in 1..Len(work'[t].undo) :
              i \in 1..Len(work[t].undo) /\ work'[t].undo[i] = work[t].undo[i]
        <5>1. work[t].undo \in Seq(Catalogs \X Nat)
          BY TabTypes
        <5> HIDE DEF x, v
        <5>2. QED
          BY SMTT(30), <4>1, <5>1
      <4> HIDE DEF x, v, n
      <4>4. cache'[s] \in Seen(s)
        BY <4>1, <4>2, TabTypes
      <4>5. \A u \in Tabs : knownCache'[u][s] \in Seen(s)
        BY SMTT(30), <2>1, <4>1, <4>2 DEF TypeOK, TabType
      <4>6. \A u \in Tabs : \A i \in 1..Len(work'[u].undo) :
              work'[u].undo[i][1] = s => work'[u].undo[i][2] \in Seen(s)
        BY <2>1, <4>3
      <4>7. QED
        BY <4>4, <4>5, <4>6, SeenWithin
    <3>3. QED
      BY <3>1, <3>2
  <2>4. CASE PersistCatalog(t)
    <3>1. PICK x \in work[t].todo :
           /\ work'[t].todo = work[t].todo \ {x}
           /\ work'[t].undo = Append(work[t].undo, <<x, cache[x]>>)
           /\ \/ /\ cache' = [cache EXCEPT ![x] = work[t].val]
                 /\ knownCache' = [knownCache EXCEPT ![t] =
                                     [knownCache[t] EXCEPT ![x] = work[t].val]]
                 /\ pc' = pc
              \/ cache' = cache /\ knownCache' = knownCache
      BY <2>4, CatalogStep
    <3>2. \A i \in 1..Len(work'[t].undo) :
            \/ i \in 1..Len(work[t].undo) /\ work'[t].undo[i] = work[t].undo[i]
            \/ work'[t].undo[i] = <<x, cache[x]>>
      BY <3>1, TabTypes
    <3>3. \A u \in Tabs : \A i \in 1..Len(work'[u].undo) :
            work'[u].undo[i][1] = s => work'[u].undo[i][2] \in Seen(s)
      BY <2>1, <3>2
    <3>4. CASE x # s \/ UNCHANGED <<cache, knownCache>>
      <4>1. cache'[s] \in Seen(s)
        BY <3>1, <3>4, TabTypes
      <4>2. \A u \in Tabs : knownCache'[u][s] \in Seen(s)
        BY SMTT(30), <2>1, <3>1, <3>4 DEF TypeOK, TabType
      <4>3. QED
        BY <3>3, <4>1, <4>2, SeenWithin
    <3>5. CASE /\ x = s /\ pc' = pc
               /\ cache' = [cache EXCEPT ![x] = work[t].val]
               /\ knownCache' = [knownCache EXCEPT ![t] =
                                   [knownCache[t] EXCEPT ![x] = work[t].val]]
      <4> DEFINE X == Seen(s) \cup {work[t].val}
      <4>1. cache'[s] \in X
        BY <3>5, TabTypes
      <4>2. \A u \in Tabs : knownCache'[u][s] \in X
        BY <2>1, <3>5, TabTypes DEF TypeOK, TabType
      <4>3. 0 \in X /\ \A u \in Tabs : \A i \in 1..Len(work'[u].undo) :
              work'[u].undo[i][1] = s => work'[u].undo[i][2] \in X
        BY <3>3
      <4> HIDE DEF X
      <4>4. Seen(s)' \subseteq X
        BY <4>1, <4>2, <4>3, SeenWithin
      <4>5. QED
        BY <2>4, <3>1, <3>5, <4>4 DEF X
    <3>6. \/ x # s \/ UNCHANGED <<cache, knownCache>>
          \/ /\ x = s /\ pc' = pc
             /\ cache' = [cache EXCEPT ![x] = work[t].val]
             /\ knownCache' = [knownCache EXCEPT ![t] =
                                 [knownCache[t] EXCEPT ![x] = work[t].val]]
      BY <3>1, Zenon
    <3>7. QED
      BY <3>4, <3>5, <3>6, Zenon
  <2>5. CASE SaveCatalog(t)
    <3>1. work'[t].undo = <<>>
      BY <2>5 DEF SaveCatalog, Answer, Release, NoWork, TypeOK, WorkType
    <3>2. \A u \in Tabs : \A i \in 1..Len(work'[u].undo) :
            work'[u].undo[i][1] = s => work'[u].undo[i][2] \in Seen(s)
      BY <2>1, <3>1
    <3>3. \/ UNCHANGED <<cache, knownCache>>
          \/ \E x \in work[t].todo :
               /\ cache' = [cache EXCEPT ![x] = work[t].val]
               /\ knownCache' = [knownCache EXCEPT ![t] =
                                   [knownCache[t] EXCEPT ![x] = work[t].val]]
      BY <2>5, Zenon DEF SaveCatalog, WithCatalog
    <3>4. ASSUME NEW x \in work[t].todo, x # s \/ UNCHANGED <<cache, knownCache>>,
                 \/ UNCHANGED <<cache, knownCache>>
                 \/ /\ cache' = [cache EXCEPT ![x] = work[t].val]
                    /\ knownCache' = [knownCache EXCEPT ![t] =
                                        [knownCache[t] EXCEPT ![x] = work[t].val]]
          PROVE  Seen(s)' \subseteq Seen(s)
      <4>1. cache'[s] \in Seen(s)
        BY <3>4, TabTypes
      <4>2. \A u \in Tabs : knownCache'[u][s] \in Seen(s)
        BY <2>1, <3>4 DEF TypeOK, TabType
      <4>3. QED
        BY <3>2, <4>1, <4>2, SeenWithin
    <3>5. ASSUME s \in work[t].todo,
                 cache' = [cache EXCEPT ![s] = work[t].val],
                 knownCache' = [knownCache EXCEPT ![t] =
                                  [knownCache[t] EXCEPT ![s] = work[t].val]]
          PROVE  Seen(s)' \subseteq Seen(s) \cup {work[t].val}
      <4> DEFINE X == Seen(s) \cup {work[t].val}
      <4>1. cache'[s] \in X
        BY <3>5, TabTypes
      <4>2. \A u \in Tabs : knownCache'[u][s] \in X
        BY <2>1, <3>5, TabTypes DEF TypeOK, TabType
      <4>3. 0 \in X /\ \A u \in Tabs : \A i \in 1..Len(work'[u].undo) :
              work'[u].undo[i][1] = s => work'[u].undo[i][2] \in X
        BY <3>2
      <4> HIDE DEF X
      <4>4. Seen(s)' \subseteq X
        BY <4>1, <4>2, <4>3, SeenWithin
      <4>5. QED
        BY <4>4 DEF X
    <3>6. CASE UNCHANGED <<cache, knownCache>>
      BY <3>2, <3>6, SeenWithin
    <3>7. ~PersistCatalog(t)
      BY <2>5 DEF SaveCatalog, PersistCatalog
    <3>8. QED
      BY <2>5, <3>3, <3>4, <3>5, <3>6, <3>7
  <2>6. QED
    BY <2>2, <2>3, <2>4, <2>5
<1>3. QED
  BY <1>1, <1>2, WhoMoves

\* Inside a save only the transaction itself, a closing or nothing moves it.
LEMMA SavingMoves ==
  ASSUME NEW t \in Tabs, TabStep(t), pc[t] \in SavePlaces
  PROVE  \/ Transact(t) \/ CloseTab(t)
         \/ pc' = pc /\ work' = work
<1>1. pc[t] # "idle" /\ pc[t] \notin LoadPlaces
  BY DEF SavePlaces, LoadPlaces
<1>2. CASE OpenTab(t) \/ Probe(t) \/ RetryStorage(t) \/ Request(t) \/ Refuse(t)
  BY <1>2 DEF OpenTab, Probe, RetryStorage, Request, Refuse
<1>3. ~BeginLoad(t)
  BY <1>1 DEF BeginLoad, Acquire
<1>4. ~BeginRequest(t)
  BY <1>1 DEF BeginRequest, RefuseStale, SkipUpdate, BeginUpdate, BeginImport,
              BeginSave, BeginCatalog, Begin, Acquire
<1>5. CASE Load(t)
  <2>1. LoadReadOnly(t)
    BY <1>1, <1>5 DEF Load, LoadNewer, LoadCanonical, LoadDefaults, Recover,
             BeginFresh, WriteFresh, MarkFresh, BeginMigration, LeaseBusy, MigrateBackup,
             MigrateCanonical, MigrateFailed, LoadFailed, LoadThrew, LoadPlaces
  <2>2. QED
    BY <2>1 DEF LoadReadOnly
<1>6. QED
  BY <1>2, <1>3, <1>4, <1>5 DEF TabStep

LEMMA AwaitsKept ==
  ASSUME TypeOK, [Next]_vars, NEW t \in Tabs, queue'[t] = queue[t], queue[t] # <<>>,
         NEW i, NEW s, Awaits(t, i, s)'
  PROVE  Awaits(t, i, s)
<1>1. ASSUME pc'[t] = pc[t], work'[t].todo \subseteq work[t].todo
      PROVE  Awaits(t, i, s)
  BY <1>1 DEF Awaits
<1>2. CASE pc[t] \notin SavePlaces
  BY <1>2 DEF Awaits
<1>3. ASSUME TabStep(t), pc[t] \in SavePlaces PROVE Awaits(t, i, s)
  <2>1. ~Answer(t) /\ ~CloseTab(t)
    <3>1. queue[t] \in Seq(Requests) /\ queue \in [Tabs -> Seq(Requests)]
      BY DEF TypeOK
    <3>2. Tail(queue[t]) # queue[t]
      <4>1. Len(Tail(queue[t])) # Len(queue[t])
        BY <3>1
      <4>2. QED
        BY <4>1
    <3>3. QED
      BY <3>1, <3>2 DEF Answer, CloseTab
  <2>2. CASE PersistCatalog(t)
    <3>1. /\ work'[t].todo \subseteq work[t].todo
          /\ pc' = pc \/ pc'[t] = "rollback"
      BY <2>2, CatalogStep
    <3>2. QED
      BY <1>1, <3>1 DEF Awaits, SavePlaces, WritePlaces
  <2>3. CASE PersistBackup(t) \/ PersistCanonical(t)
    <3>1. pc'[t] \in {"canonical", "apply", "rollback"}
      BY <2>3 DEF PersistBackup, PersistCanonical, Fail, Goto, TypeOK, LockType
    <3>2. QED
      BY <3>1 DEF Awaits, SavePlaces, WritePlaces
  <2>4. CASE RollBack(t)
    <3>1. pc'[t] = "rollback"
      BY <2>1, <2>4 DEF RollBack
    <3>2. QED
      BY <3>1 DEF Awaits, SavePlaces, WritePlaces
  <2>5. CASE SaveCatalog(t) \/ Apply(t)
    BY <2>1, <2>5 DEF SaveCatalog, Apply
  <2>6. QED
    BY <1>1, <1>3, <2>1, <2>2, <2>3, <2>4, <2>5, SavingMoves DEF Transact
<1>4. QED
  BY <1>1, <1>2, <1>3, OthersStill, WhoMoves DEF Still

Drop(u) == IF Len(queue'[u]) < Len(queue[u]) THEN 1 ELSE 0

\* Without a new request, what waits was waiting, one place further at most.
LEMMA QueueOrigin ==
  ASSUME TypeOK, [Next]_vars, \A t \in Tabs : ~Request(t), NEW u \in Tabs
  PROVE  /\ Drop(u) = 0 => queue'[u] = queue[u]
         /\ \A i \in 1..Len(queue'[u]) :
              /\ i + Drop(u) \in 1..Len(queue[u])
              /\ queue'[u][i] = queue[u][i + Drop(u)]
<1>1. queue[u] \in Seq(Requests) /\ queue \in [Tabs -> Seq(Requests)]
  BY DEF TypeOK
<1>2. CASE queue'[u] = queue[u]
  BY <1>1, <1>2 DEF Drop
<1>3. CASE queue'[u] = <<>> /\ queue[u] # <<>>
  BY <1>1, <1>3 DEF Drop
<1>4. CASE queue[u] # <<>> /\ queue'[u] = Tail(queue[u])
  <2>1. Drop(u) = 1
    BY <1>1, <1>4 DEF Drop
  <2>2. \A i \in 1..Len(Tail(queue[u])) :
          i + 1 \in 1..Len(queue[u]) /\ Tail(queue[u])[i] = queue[u][i + 1]
    BY <1>1, <1>4
  <2>3. QED
    BY <1>4, <2>1, <2>2
<1>5. QED
  BY <1>1, <1>2, <1>3, <1>4, QueueMoves

\* A refresh numbers the catalogs it brings; nothing else counts.
LEMMA CatalogsCounted ==
  ASSUME [Next]_vars, \A t \in Tabs : ~Request(t)
  PROVE  catalogNo' = catalogNo
<1>1. ASSUME NEW t \in Tabs, Load(t) PROVE catalogNo' = catalogNo
  BY <1>1 DEF Load, LoadReadOnly, LoadNewer, LoadCanonical, LoadDefaults, Recover,
              BeginFresh, WriteFresh, MarkFresh, BeginMigration, LeaseBusy,
              MigrateBackup, MigrateCanonical, MigrateFailed, LoadFailed, LoadThrew,
              LoadDone, TakeLease, history
<1>2. ASSUME NEW t \in Tabs, Transact(t) PROVE catalogNo' = catalogNo
  BY <1>2 DEF Transact, SaveCatalog, PersistCatalog, PersistBackup, PersistCanonical,
              Apply, RollBack, history
<1>3. ASSUME NEW t \in Tabs, BeginRequest(t) PROVE catalogNo' = catalogNo
  BY <1>3 DEF BeginRequest, RefuseStale, SkipUpdate, BeginUpdate, BeginImport,
              BeginSave, BeginCatalog, Begin, history
<1>4. ASSUME NEW t \in Tabs,
             OpenTab(t) \/ Probe(t) \/ RetryStorage(t) \/ BeginLoad(t) \/ Refuse(t) \/ CloseTab(t)
      PROVE  catalogNo' = catalogNo
  BY <1>4 DEF OpenTab, Probe, RetryStorage, BeginLoad, Refuse, CloseTab, history
<1>5. NewerReleaseMigrates \/ Corrupt \/ UNCHANGED vars => catalogNo' = catalogNo
  BY DEF NewerReleaseMigrates, Corrupt, vars, history
<1>6. ASSUME NEW l \in {"init", "migration"}, ExpireLease(l) PROVE catalogNo' = catalogNo
  BY <1>6 DEF ExpireLease, history
<1>7. QED
  BY <1>1, <1>2, <1>3, <1>4, <1>5, <1>6 DEF Next

LEMMA FreshStep ==
  ASSUME TypeOK, TypeOK', [Next]_vars, FreshInv, \A t \in Tabs : InHand(t),
         \A t \in Tabs : ~Request(t), \A t \in Tabs : RollBack(t) => WriteAccepted
  PROVE  FreshInv'
<1>1. catalogNo' = catalogNo /\ catalogNo \in Nat
  BY CatalogsCounted DEF TypeOK, HistoryType
<1>2. ASSUME NEW a \in Tabs, PersistCatalog(a) \/ SaveCatalog(a), NEW s \in work[a].todo
      PROVE  /\ 1 \in 1..Len(queue[a]) /\ s \in queue[a][1].cats
             /\ work[a].val = queue[a][1].val
  <2>1. pc[a] \in SavePlaces
    BY <1>2 DEF PersistCatalog, SaveCatalog, SavePlaces
  <2>2. queue[a] # <<>> /\ queue[a] \in Seq(Requests) /\ Head(queue[a]) = queue[a][1]
        /\ Len(queue[a]) \in Nat \ {0}
    BY <2>1 DEF InHand, TypeOK
  <2>3. QED
    BY <1>2, <2>1, <2>2 DEF InHand
<1>3. ASSUME NEW s \in Catalogs PROVE Seen(s)' \subseteq 0..catalogNo'
  <2>1. CASE Seen(s)' \subseteq Seen(s)
    BY <1>1, <2>1 DEF FreshInv
  <2>2. ASSUME NEW a \in Tabs, PersistCatalog(a) \/ SaveCatalog(a), s \in work[a].todo,
               Seen(s)' \subseteq Seen(s) \cup {work[a].val}
        PROVE  Seen(s)' \subseteq 0..catalogNo'
    <3>1. work[a].val <= catalogNo
      BY <1>2, <2>2 DEF FreshInv
    <3>2. work[a].val \in Nat
      BY TabTypes
    <3>3. QED
      BY <1>1, <2>2, <3>1, <3>2 DEF FreshInv
  <2>3. QED
    BY <2>1, <2>2, SeenStep
<1>4. ASSUME NEW t \in Tabs, NEW i \in 1..Len(queue'[t]), NEW s \in queue'[t][i].cats
      PROVE  /\ queue'[t][i].val <= catalogNo'
             /\ Awaits(t, i, s)' => queue'[t][i].val \notin Seen(s)'
  <2> DEFINE k == i + Drop(t)
  <2>1. k \in 1..Len(queue[t]) /\ queue'[t][i] = queue[t][k] /\ s \in queue[t][k].cats
        /\ (Drop(t) = 0 => queue'[t] = queue[t])
    BY <1>4, QueueOrigin
  <2>2. queue[t] \in Seq(Requests) /\ s \in Catalogs
    <3>1. queue[t] \in Seq(Requests)
      BY DEF TypeOK
    <3>2. queue[t][k] \in Requests
      BY <2>1, <3>1
    <3>3. QED
      BY <2>1, <3>1, <3>2 DEF Requests
  <2>3. i \in Nat \ {0} /\ Drop(t) \in {0, 1} /\ k = i + Drop(t) /\ (k = 1 => i = 1 /\ Drop(t) = 0)
    <3>1. Drop(t) \in {0, 1}
      BY DEF Drop
    <3>2. queue'[t] \in Seq(Requests)
      BY DEF TypeOK
    <3>3. QED
      BY <3>1, <3>2
  <2> HIDE DEF k
  <2>4. Awaits(t, i, s)' => Awaits(t, k, s)
    <3>1. CASE Drop(t) = 0
      <4>1. queue[t] # <<>> /\ k = i
        BY <2>1, <2>2, <2>3, <3>1
      <4>2. QED
        BY <2>1, <3>1, <4>1, AwaitsKept
    <3>2. CASE Drop(t) = 1
      BY <2>3, <3>2 DEF Awaits
    <3>3. QED
      BY <2>3, <3>1, <3>2
  <2>5. ASSUME Awaits(t, i, s)', NEW a \in Tabs,
               (PersistCatalog(a) /\ pc' = pc) \/ SaveCatalog(a), s \in work[a].todo,
               PersistCatalog(a) => s \notin work'[a].todo
        PROVE  queue[t][k].val # work[a].val
    <3>1. 1 \in 1..Len(queue[a]) /\ s \in queue[a][1].cats /\ work[a].val = queue[a][1].val
      BY <1>2, <2>5
    <3>2. CASE t # a \/ k # 1
      BY <2>1, <3>1, <3>2 DEF FreshInv
    <3>3. CASE t = a /\ k = 1
      <4>1. ~SaveCatalog(a)
        <5>1. ASSUME Answer(a) PROVE FALSE
          <6>1. queue'[a] = Tail(queue[a]) /\ queue[a] \in Seq(Requests) /\ queue[a] # <<>>
            BY <5>1 DEF Answer, TypeOK
          <6>2. Len(queue'[a]) < Len(queue[a])
            BY <6>1
          <6>3. QED
            BY <2>3, <3>3, <6>2 DEF Drop
        <5>2. QED
          BY <5>1 DEF SaveCatalog
      <4>2. pc'[t] = "catalogs" /\ s \notin work'[t].todo
        BY <2>5, <3>3, <4>1 DEF PersistCatalog
      <4>3. QED
        BY <2>3, <2>5, <3>3, <4>2 DEF Awaits, SavePlaces
    <3>4. QED
      BY <3>2, <3>3
  <2>6. Awaits(t, i, s)' => queue[t][k].val \notin Seen(s)'
    <3>1. Awaits(t, k, s) => queue[t][k].val \notin Seen(s)
      BY <2>1 DEF FreshInv
    <3>2. QED
      BY <2>2, <2>4, <2>5, <3>1, SeenStep
  <2>7. queue[t][k].val <= catalogNo
    BY <2>1 DEF FreshInv
  <2>8. QED
    BY <1>1, <2>1, <2>6, <2>7
<1>5. ASSUME NEW t \in Tabs, NEW u \in Tabs, NEW i \in 1..Len(queue'[t]),
             NEW j \in 1..Len(queue'[u]), t # u \/ i # j,
             queue'[t][i].cats # {}, queue'[u][j].cats # {}
      PROVE  queue'[t][i].val # queue'[u][j].val
  <2>1. i \in Nat /\ j \in Nat /\ Drop(t) \in {0, 1} /\ Drop(u) \in {0, 1}
    <3>1. queue'[t] \in Seq(Requests) /\ queue'[u] \in Seq(Requests)
      BY DEF TypeOK
    <3>2. QED
      BY <3>1 DEF Drop
  <2>2. t # u \/ i + Drop(t) # j + Drop(u)
    BY <1>5, <2>1
  <2> DEFINE k == i + Drop(t)
             l == j + Drop(u)
  <2>3. /\ k \in 1..Len(queue[t]) /\ queue'[t][i] = queue[t][k]
        /\ l \in 1..Len(queue[u]) /\ queue'[u][j] = queue[u][l]
        /\ t # u \/ k # l
    BY <1>5, <2>2, QueueOrigin
  <2> HIDE DEF k, l
  <2>4. QED
    BY <1>5, <2>3 DEF FreshInv
<1>6. QED
  BY <1>3, <1>4, <1>5 DEF FreshInv

LEMMA Requested ==
  ASSUME TypeOK, NEW t \in Tabs, Request(t)
  PROVE  /\ UNCHANGED <<pc, work, access, live, knownCache, cache>>
         /\ \A u \in Tabs \ {t} : queue'[u] = queue[u]
         /\ \E r \in Requests :
              /\ queue'[t] = Append(queue[t], r) /\ r.val = catalogNo'
              /\ catalogNo' \in {catalogNo, catalogNo + 1}
              /\ r.cats # {} => catalogNo' = catalogNo + 1
<1>1. PICK kind \in Kinds, e \in SUBSET Edits, c \in SUBSET Catalogs :
        /\ catalogNo' = IF c = {} THEN catalogNo ELSE catalogNo + 1
        /\ queue' = [queue EXCEPT ![t] = Append(@,
             [kind |-> kind, edits |-> e, cand |-> live[t].data \cup e,
              cats |-> c, val |-> catalogNo'])]
        /\ UNCHANGED <<storage, leases, lock, tabVars, pc, work, acked, faults>>
  BY Zenon DEF Request
<1> DEFINE r == [kind |-> kind, edits |-> e, cand |-> live[t].data \cup e,
                 cats |-> c, val |-> catalogNo']
<1>2. r \in Requests
  <2>1. catalogNo' \in Nat
    BY <1>1 DEF TypeOK, HistoryType
  <2>2. live[t].data \subseteq Edits
    BY TabTypes DEF Views
  <2>3. QED
    BY <2>1, <2>2 DEF Requests
<1>3. r.cats = c /\ r.val = catalogNo'
  OBVIOUS
<1>4. queue' = [queue EXCEPT ![t] = Append(queue[t], r)]
  BY <1>1
<1> HIDE DEF r
<1>5. UNCHANGED <<pc, work, access, live, knownCache, cache>>
  BY <1>1 DEF tabVars, storage
<1>6. catalogNo' \in {catalogNo, catalogNo + 1} /\ (c # {} => catalogNo' = catalogNo + 1)
  BY <1>1
<1>7. queue \in [Tabs -> Seq(Requests)]
  BY DEF TypeOK
<1>8. queue'[t] = Append(queue[t], r) /\ \A u \in Tabs \ {t} : queue'[u] = queue[u]
  BY <1>4, <1>7
<1>9. QED
  BY <1>2, <1>3, <1>5, <1>6, <1>8

LEMMA FreshRequest ==
  ASSUME TypeOK, FreshInv, NEW a \in Tabs, Request(a)
  PROVE  FreshInv'
<1>1. PICK r \in Requests :
        /\ queue'[a] = Append(queue[a], r) /\ r.val = catalogNo'
        /\ catalogNo' \in {catalogNo, catalogNo + 1}
        /\ r.cats # {} => catalogNo' = catalogNo + 1
  BY Requested
<1>2. /\ UNCHANGED <<pc, work, knownCache, cache>>
      /\ \A u \in Tabs \ {a} : queue'[u] = queue[u]
  BY Requested
<1>3. catalogNo \in Nat /\ catalogNo' \in Nat /\ catalogNo <= catalogNo'
  BY <1>1 DEF TypeOK, HistoryType
<1>4. \A s \in Catalogs : Seen(s)' = Seen(s)
  BY <1>2 DEF Seen
<1>5. \A s \in Catalogs : Seen(s)' \subseteq 0..catalogNo'
  BY <1>3, <1>4 DEF FreshInv
<1>6. ASSUME NEW u \in Tabs, NEW i \in 1..Len(queue'[u])
      PROVE  \/ i \in 1..Len(queue[u]) /\ queue'[u][i] = queue[u][i]
             \/ u = a /\ i = Len(queue[a]) + 1 /\ queue'[u][i] = r
  <2>1. queue[u] \in Seq(Requests)
    BY DEF TypeOK
  <2>2. CASE u # a
    BY <1>2, <1>6, <2>2
  <2>3. CASE u = a
    <3>1. queue'[u] = Append(queue[u], r) /\ queue[u] \in Seq(Requests)
      BY <1>1, <2>1, <2>3
    <3>2. QED
      BY <1>6, <2>3, <3>1
  <2>4. QED
    BY <2>2, <2>3
<1>7. ASSUME NEW u \in Tabs, NEW i \in 1..Len(queue[u]), queue[u][i].cats # {}
      PROVE  queue[u][i].val <= catalogNo
  BY <1>7 DEF FreshInv
<1>8. ASSUME NEW t \in Tabs, NEW i \in 1..Len(queue'[t]), NEW s \in queue'[t][i].cats
      PROVE  /\ queue'[t][i].val <= catalogNo'
             /\ Awaits(t, i, s)' => queue'[t][i].val \notin Seen(s)'
  <2>1. CASE i \in 1..Len(queue[t]) /\ queue'[t][i] = queue[t][i]
    <3>1. queue[t] \in Seq(Requests)
      BY DEF TypeOK
    <3>2. queue[t][i] \in Requests
      BY <2>1, <3>1
    <3>3. s \in Catalogs /\ queue[t][i].val \in Nat
      BY <1>8, <2>1, <3>2 DEF Requests
    <3>4. Awaits(t, i, s)' => Awaits(t, i, s)
      BY <1>2 DEF Awaits
    <3>5. queue[t][i].val <= catalogNo /\ (Awaits(t, i, s) => queue[t][i].val \notin Seen(s))
      BY <1>8, <2>1 DEF FreshInv
    <3>6. QED
      BY <1>3, <1>4, <2>1, <3>3, <3>4, <3>5
  <2>2. CASE queue'[t][i] = r
    <3>1. s \in Catalogs /\ r.val = catalogNo + 1
      BY <1>1, <1>8, <2>2 DEF Requests
    <3>2. r.val \notin Seen(s)
      BY <1>3, <3>1 DEF FreshInv
    <3>3. QED
      BY <1>1, <1>3, <1>4, <2>2, <3>1, <3>2
  <2>3. QED
    BY <1>6, <2>1, <2>2
<1>9. ASSUME NEW t \in Tabs, NEW u \in Tabs, NEW i \in 1..Len(queue'[t]),
             NEW j \in 1..Len(queue'[u]), t # u \/ i # j,
             queue'[t][i].cats # {}, queue'[u][j].cats # {}
      PROVE  queue'[t][i].val # queue'[u][j].val
  <2>1. CASE /\ i \in 1..Len(queue[t]) /\ queue'[t][i] = queue[t][i]
             /\ j \in 1..Len(queue[u]) /\ queue'[u][j] = queue[u][j]
    BY <1>9, <2>1 DEF FreshInv
  <2>2. CASE /\ i \in 1..Len(queue[t]) /\ queue'[t][i] = queue[t][i]
             /\ queue'[u][j] = r
    <3>1. queue[t][i].val <= catalogNo /\ r.val = catalogNo + 1
      BY <1>1, <1>7, <1>9, <2>2
    <3>2. QED
      BY <1>3, <2>2, <3>1
  <2>3. CASE /\ j \in 1..Len(queue[u]) /\ queue'[u][j] = queue[u][j]
             /\ queue'[t][i] = r
    <3>1. queue[u][j].val <= catalogNo /\ r.val = catalogNo + 1
      BY <1>1, <1>7, <1>9, <2>3
    <3>2. QED
      BY <1>3, <2>3, <3>1
  <2>4. QED
    BY <1>6, <1>9, <2>1, <2>2, <2>3
<1>10. QED
  BY <1>5, <1>8, <1>9 DEF FreshInv

-----------------------------
(* A transaction works on the first request, and can put back what it wrote. *)

\* A tab that is not inside a save comes into one only by beginning a request.
LEMMA BeginMoves ==
  ASSUME TypeOK, NEW t \in Tabs, TabStep(t), pc[t] \notin SavePlaces
  PROVE  \/ pc'[t] \notin SavePlaces
         \/ /\ queue[t] # <<>> /\ access[t] = "ready"
            /\ \/ \E d : Begin(t, d, "catalogs")
               \/ /\ Head(queue[t]).kind = "catalog" /\ ~StaleSave(t)
                  /\ \E d : Begin(t, d, "cacheOnly")
<1>1. CASE Load(t)
  <2>1. Release(t) \/ UNCHANGED pc \/ \E p \in LoadPlaces : Goto(t, p)
    BY <1>1 DEF Load, LoadReadOnly, LoadNewer, LoadCanonical, LoadDefaults, Recover,
         BeginFresh, WriteFresh, MarkFresh, BeginMigration, LeaseBusy, MigrateBackup,
         MigrateCanonical, MigrateFailed, LoadFailed, LoadThrew, LoadDone, TakeLease,
         LoadPlaces
  <2>2. QED
    BY <2>1 DEF Release, Goto, LoadPlaces, SavePlaces, TypeOK, LockType
<1>2. CASE OpenTab(t) \/ Probe(t) \/ RetryStorage(t) \/ Request(t) \/ Refuse(t)
  BY <1>2 DEF OpenTab, Probe, RetryStorage, Request, Refuse
<1>3. CASE BeginLoad(t) \/ CloseTab(t)
  BY <1>3 DEF BeginLoad, Acquire, CloseTab, SavePlaces, TypeOK, LockType
<1>4. CASE RefuseStale(t) \/ SkipUpdate(t)
  BY <1>4 DEF RefuseStale, SkipUpdate
<1>5. CASE BeginUpdate(t) \/ BeginImport(t) \/ BeginSave(t)
  BY <1>5 DEF BeginUpdate, BeginImport, BeginSave, Ready
<1>6. CASE BeginCatalog(t)
  BY <1>6 DEF BeginCatalog, Ready
<1>7. ~Transact(t)
  BY DEF Transact, SaveCatalog, PersistCatalog, PersistBackup, PersistCanonical, Apply,
         RollBack, SavePlaces
<1>8. QED
  BY <1>1, <1>2, <1>3, <1>4, <1>5, <1>6, <1>7 DEF TabStep, BeginRequest

LEMMA Begun ==
  ASSUME TypeOK, NEW t \in Tabs, NEW d, NEW p, Begin(t, d, p)
  PROVE  /\ pc'[t] = p /\ pc[t] = "idle" /\ lock = NoTab
         /\ work'[t].undo = <<>> /\ work'[t].cats = Head(queue[t]).cats
         /\ work'[t].todo = Head(queue[t]).cats /\ work'[t].val = Head(queue[t]).val
         /\ UNCHANGED <<queue, cache, access>>
         /\ knownCache'[t] = cache
         /\ live'[t].cat = IF ~Behind(t) /\ cache = knownCache[t] THEN live[t].cat ELSE cache
<1>1. pc'[t] = p /\ pc[t] = "idle" /\ lock = NoTab /\ UNCHANGED <<queue, cache, access>>
  BY DEF Begin, Acquire, Refresh, TypeOK, LockType, storage
<1>2. knownCache'[t] = cache
  BY DEF Begin, Refresh, TypeOK, TabType
<1>3. live'[t].cat = Refreshed(t).cat
  BY DEF Begin, Refresh, TypeOK, TabType
<1>4. Refreshed(t).cat = IF ~Behind(t) /\ cache = knownCache[t] THEN live[t].cat ELSE cache
  BY DEF Refreshed
<1>5. /\ work'[t].undo = <<>> /\ work'[t].cats = Head(queue[t]).cats
      /\ work'[t].todo = Head(queue[t]).cats /\ work'[t].val = Head(queue[t]).val
  <2> DEFINE r == Head(queue[t])
             w == [NoWork EXCEPT !.draft = d, !.cats = r.cats, !.val = r.val,
                                 !.todo = r.cats]
  <2>1. work' = [work EXCEPT ![t] = w]
    BY DEF Begin
  <2>2. w.undo = <<>> /\ w.cats = r.cats /\ w.todo = r.cats /\ w.val = r.val
    BY DEF NoWork
  <2> HIDE DEF w, r
  <2>3. QED
    BY <2>1, <2>2 DEF TypeOK, WorkType, r
<1>6. QED
  BY <1>1, <1>2, <1>3, <1>4, <1>5

\* A save that goes on works on the same request.
LEMMA SavingGoesOn ==
  ASSUME TypeOK, NEW t \in Tabs, TabStep(t), pc[t] \in SavePlaces,
         pc'[t] \in SavePlaces, RollBack(t) => WriteAccepted, access[t] = "ready"
  PROVE  /\ work'[t].cats = work[t].cats /\ work'[t].val = work[t].val
         /\ \/ PersistCatalog(t)
            \/ RollBack(t) /\ work[t].undo # <<>>
            \/ /\ UNCHANGED <<cache, live, knownCache, access>>
               /\ work'[t].undo = work[t].undo /\ work'[t].todo = work[t].todo
               /\ \/ PersistBackup(t) /\ work[t].todo = {}
                  \/ PersistCanonical(t)
                  \/ pc' = pc
         /\ \/ queue'[t] = queue[t]
            \/ \E r \in Requests : queue'[t] = Append(queue[t], r)
<1>1. \A u \in Tabs : Answer(u) => pc'[u] = "idle"
  BY DEF Answer, Release, TypeOK, LockType
<1>2. CASE PersistCatalog(t)
  BY <1>2, CatalogStep, CatalogStepRest
<1>3. CASE RollBack(t)
  <2>1. work[t].undo # <<>>
    BY <1>1, <1>3 DEF RollBack, SavePlaces
  <2>2. QED
    BY <1>3, <2>1, RollBackStep
<1>4. CASE PersistBackup(t)
  <2> DEFINE e == Envelope(CONFIG_SCHEMA_VERSION, canonical.rev + 1, work[t].draft)
  <2>1. work' = [work EXCEPT ![t] = [work[t] EXCEPT !.env = e]] /\ work[t].todo = {}
        /\ UNCHANGED <<cache, live, knownCache, access, queue>>
    BY <1>4 DEF PersistBackup, tabVars
  <2> HIDE DEF e
  <2>2. /\ work'[t].undo = work[t].undo /\ work'[t].todo = work[t].todo
        /\ work'[t].cats = work[t].cats /\ work'[t].val = work[t].val
    BY <2>1 DEF TypeOK, WorkType, Works
  <2>3. QED
    BY <1>4, <2>1, <2>2
<1>5. CASE PersistCanonical(t)
  BY <1>5 DEF PersistCanonical, tabVars
<1>6. ~SaveCatalog(t) /\ ~Apply(t) /\ ~CloseTab(t)
  <2>1. ~SaveCatalog(t) /\ ~Apply(t)
    BY <1>1 DEF SaveCatalog, Apply, SavePlaces
  <2>2. ~CloseTab(t)
    BY DEF CloseTab, SavePlaces, TypeOK, LockType
  <2>3. QED
    BY <2>1, <2>2
<1>7. CASE Request(t)
  BY <1>7, Requested
<1>8. ASSUME ~Transact(t) PROVE Request(t)
  <2>1. pc[t] # "idle" /\ pc[t] \notin LoadPlaces
    BY DEF SavePlaces, LoadPlaces
  <2>2. ~OpenTab(t) /\ ~Probe(t) /\ ~RetryStorage(t) /\ ~BeginLoad(t) /\ ~Refuse(t)
    BY <2>1 DEF OpenTab, Probe, RetryStorage, BeginLoad, Acquire, Refuse
  <2>3. ~Load(t)
    BY <2>1 DEF Load, LoadReadOnly, NeedsLoad, LoadNewer, LoadCanonical, LoadDefaults,
             Recover, BeginFresh, WriteFresh, MarkFresh, BeginMigration, LeaseBusy,
             MigrateBackup, MigrateCanonical, MigrateFailed, LoadFailed, LoadThrew,
             LoadPlaces
  <2>4. ~BeginRequest(t)
    BY <2>1 DEF BeginRequest, RefuseStale, SkipUpdate, BeginUpdate, BeginImport,
                BeginSave, BeginCatalog, Begin, Acquire
  <2>5. QED
    BY <1>6, <1>8, <2>2, <2>3, <2>4 DEF TabStep
<1>9. QED
  BY <1>2, <1>3, <1>4, <1>5, <1>6, <1>7, <1>8 DEF Transact

\* Outside a save there is nothing to put back.
LEMMA EndedUndo ==
  ASSUME TypeOK, NEW t \in Tabs, TabStep(t), InHand(t), pc'[t] \notin SavePlaces
  PROVE  work'[t].undo = <<>>
<1>1. NoWork.undo = <<>>
  BY DEF NoWork
<1>2. Answer(t) \/ CloseTab(t) => work'[t].undo = <<>>
  BY <1>1 DEF Answer, Release, CloseTab, TypeOK, WorkType
<1>3. CASE pc[t] \notin SavePlaces
  <2>1. work[t].undo = <<>>
    BY <1>3 DEF InHand, UndoPlaces, SavePlaces
  <2>2. ~SaveCatalog(t) /\ ~PersistCatalog(t) /\ ~RollBack(t)
    BY <1>3 DEF SaveCatalog, PersistCatalog, RollBack, SavePlaces
  <2>3. QED
    BY <2>1, <2>2, KnownStep
<1>4. CASE pc[t] \in SavePlaces
  <2>1. Transact(t) \/ CloseTab(t)
    BY <1>4, SavingMoves
  <2>2. ~PersistCatalog(t) /\ ~PersistBackup(t) /\ ~PersistCanonical(t)
    BY DEF PersistCatalog, PersistBackup, PersistCanonical, Fail, Goto, SavePlaces,
           TypeOK, LockType
  <2>3. RollBack(t) => Answer(t)
    BY <1>4 DEF RollBack
  <2>4. QED
    BY <1>2, <2>1, <2>2, <2>3 DEF Transact, SaveCatalog, Apply
<1>5. QED
  BY <1>3, <1>4

\* A load leaves the tab ready only as it ends.
LEMMA LoadingNotReady ==
  ASSUME TypeOK, NEW t \in Tabs, TabStep(t), InHand(t), pc'[t] \in LoadPlaces
  PROVE  access'[t] # "ready"
<1>1. pc'[t] # "idle" /\ pc'[t] \notin SavePlaces
  BY DEF LoadPlaces, SavePlaces
<1>2. CASE Load(t)
  <2>1. ~Release(t)
    BY <1>1 DEF Release, TypeOK, LockType
  <2>2. \/ access' = access /\ pc[t] \in LoadPlaces
        \/ LoadReadOnly(t)
    BY <1>2, <2>1 DEF Load, LoadNewer, LoadCanonical, LoadDefaults, Recover,
             BeginFresh, WriteFresh, MarkFresh, BeginMigration, LeaseBusy, MigrateBackup,
             MigrateCanonical, MigrateFailed, LoadFailed, LoadThrew, LoadDone, TakeLease,
             tabVars, LoadPlaces
  <2>3. LoadReadOnly(t) => access'[t] # "ready"
    BY DEF LoadReadOnly, NeedsLoad, Settle, TypeOK, TabType
  <2>4. QED
    BY <2>2, <2>3 DEF InHand
<1>3. CASE OpenTab(t) \/ Probe(t) \/ RetryStorage(t) \/ Request(t) \/ Refuse(t)
  BY <1>3 DEF OpenTab, Probe, RetryStorage, Request, Refuse, InHand, tabVars,
              TypeOK, TabType
<1>4. CASE BeginLoad(t)
  BY <1>4 DEF BeginLoad, NeedsLoad, tabVars
<1>5. ~CloseTab(t)
  BY <1>1 DEF CloseTab, TypeOK, LockType
<1>6. CASE BeginRequest(t)
  <2>1. access' = access /\ (pc' = pc \/ pc'[t] \in SavePlaces)
    BY <1>6 DEF BeginRequest, RefuseStale, SkipUpdate, BeginUpdate, BeginImport, BeginSave,
                BeginCatalog, Begin, Acquire, Refresh, tabVars, SavePlaces, TypeOK, LockType
  <2>2. QED
    BY <1>1, <2>1 DEF InHand
<1>7. ~Transact(t)
  <2>1. \A u \in Tabs : Answer(u) => pc'[u] = "idle"
    BY DEF Answer, Release, TypeOK, LockType
  <2>2. QED
    BY <1>1, <2>1 DEF Transact, SaveCatalog, PersistCatalog, PersistBackup,
       PersistCanonical, Apply, RollBack, Fail, Goto, SavePlaces, TypeOK, LockType
<1>8. QED
  BY <1>2, <1>3, <1>4, <1>5, <1>6, <1>7 DEF TabStep

LEMMA UndoneSteps ==
  ASSUME TypeOK, NEW t \in Tabs
  PROVE  /\ PersistCatalog(t) =>
              \E s \in work[t].todo :
                work'[t].todo = work[t].todo \ {s} /\ Undone(t)' = Undone(t) \cup {s}
         /\ RollBack(t) /\ WriteAccepted /\ work[t].undo # <<>> =>
              work'[t].todo = work[t].todo /\ Undone(t)' \subseteq Undone(t)
<1>1. work[t].undo \in Seq(Catalogs \X Nat)
  BY TabTypes
<1>2. ASSUME PersistCatalog(t)
      PROVE  \E s \in work[t].todo :
               work'[t].todo = work[t].todo \ {s} /\ Undone(t)' = Undone(t) \cup {s}
  <2>1. PICK s \in work[t].todo :
          /\ work'[t].todo = work[t].todo \ {s}
          /\ work'[t].undo = Append(work[t].undo, <<s, cache[s]>>)
    BY <1>2, CatalogStep
  <2> DEFINE e == <<s, cache[s]>>
             n == Len(work[t].undo)
  <2>2. e[1] = s
    OBVIOUS
  <2> HIDE DEF e
  <2>3. n \in Nat /\ Len(work'[t].undo) = n + 1 /\ work'[t].undo[n + 1] = e
        /\ \A i \in 1..n : work'[t].undo[i] = work[t].undo[i]
    BY <1>1, <2>1 DEF e
  <2> HIDE DEF n
  <2>4. \A i : i \in 1..(n + 1) <=> i \in 1..n \/ i = n + 1
    BY <2>3
  <2>5. Undone(t)' = {work'[t].undo[i][1] : i \in 1..(n + 1)}
    BY <2>3 DEF Undone
  <2>6. Undone(t) = {work[t].undo[i][1] : i \in 1..n}
    BY DEF Undone, n
  <2>7. Undone(t)' = Undone(t) \cup {s}
    BY <2>2, <2>3, <2>4, <2>5, <2>6
  <2>8. QED
    BY <2>1, <2>7
<1>3. ASSUME RollBack(t), WriteAccepted, work[t].undo # <<>>
      PROVE  work'[t].todo = work[t].todo /\ Undone(t)' \subseteq Undone(t)
  <2>1. work'[t].undo = SubSeq(work[t].undo, 1, Len(work[t].undo) - 1)
        /\ work'[t].todo = work[t].todo
    BY <1>3, RollBackStep
  <2>2. \A i \in 1..Len(work'[t].undo) :
          i \in 1..Len(work[t].undo) /\ work'[t].undo[i] = work[t].undo[i]
    BY <1>1, <1>3, <2>1
  <2>3. QED
    BY <2>1, <2>2 DEF Undone
<1>4. QED
  BY <1>2, <1>3

LEMMA InHandStep ==
  ASSUME TypeOK, TypeOK', [Next]_vars, NEW t \in Tabs, InHand(t),
         RollBack(t) => WriteAccepted
  PROVE  InHand(t)'
<1>1. CASE Still(t)
  BY <1>1 DEF Still, InHand, Undone
<1>2. CASE TabStep(t) /\ pc'[t] \notin SavePlaces
  BY <1>2, EndedUndo, LoadingNotReady DEF InHand
<1>3. CASE TabStep(t) /\ pc'[t] \in SavePlaces /\ pc[t] \notin SavePlaces
  <2>1. PICK d, p : queue[t] # <<>> /\ access[t] = "ready" /\ Begin(t, d, p)
    BY <1>3, BeginMoves
  <2>2. Undone(t)' = {}
    BY <2>1, Begun DEF Undone
  <2>3. pc'[t] \notin LoadPlaces
    BY <1>3 DEF LoadPlaces, SavePlaces
  <2>4. QED
    BY <2>1, <2>2, <2>3, Begun DEF InHand
<1>4. CASE TabStep(t) /\ pc'[t] \in SavePlaces /\ pc[t] \in SavePlaces
  <2>1. /\ access[t] = "ready" /\ queue[t] # <<>>
        /\ work[t].cats = Head(queue[t]).cats /\ work[t].val = Head(queue[t]).val
        /\ work[t].todo \subseteq work[t].cats
        /\ Undone(t) \subseteq work[t].cats \ work[t].todo
    BY <1>4 DEF InHand
  <2>2. /\ work'[t].cats = work[t].cats /\ work'[t].val = work[t].val
        /\ \/ PersistCatalog(t)
           \/ RollBack(t) /\ work[t].undo # <<>>
           \/ /\ UNCHANGED <<cache, live, knownCache, access>>
              /\ work'[t].undo = work[t].undo /\ work'[t].todo = work[t].todo
              /\ PersistBackup(t) \/ PersistCanonical(t) \/ pc' = pc
        /\ \/ queue'[t] = queue[t]
           \/ \E r \in Requests : queue'[t] = Append(queue[t], r)
    BY <1>4, <2>1, SavingGoesOn
  <2>3. queue'[t] # <<>> /\ Head(queue'[t]) = Head(queue[t])
    <3>1. queue[t] \in Seq(Requests)
      BY DEF TypeOK
    <3>2. \A r \in Requests : Append(queue[t], r) # <<>>
                              /\ Head(Append(queue[t], r)) = Head(queue[t])
      BY <2>1, <3>1
    <3>3. QED
      BY <2>1, <2>2, <3>2
  <2>4. access'[t] = "ready"
    BY <2>1, <2>2, CatalogStepRest, RollBackRest
  <2>5. work'[t].todo \subseteq work[t].cats
        /\ Undone(t)' \subseteq work[t].cats \ work'[t].todo
    <3>1. CASE PersistCatalog(t) \/ (RollBack(t) /\ work[t].undo # <<>>)
      BY <2>1, <3>1, UndoneSteps
    <3>2. CASE work'[t].undo = work[t].undo /\ work'[t].todo = work[t].todo
      BY <2>1, <3>2 DEF Undone
    <3>3. QED
      BY <2>2, <3>1, <3>2
  <2>6. pc'[t] \notin UndoPlaces => work'[t].undo = <<>>
    <3>1. PersistCatalog(t) \/ PersistBackup(t) \/ PersistCanonical(t) => pc'[t] \in UndoPlaces
      BY DEF PersistCatalog, PersistBackup, PersistCanonical, Fail, Goto, UndoPlaces,
             TypeOK, LockType
    <3>2. RollBack(t) /\ work[t].undo # <<>> => pc'[t] \in UndoPlaces
      BY DEF RollBack, UndoPlaces
    <3>3. QED
      BY <2>2, <3>1, <3>2 DEF InHand
  <2>7. QED
    BY <1>4, <2>1, <2>2, <2>3, <2>4, <2>5, <2>6 DEF InHand, LoadPlaces, SavePlaces
<1>5. QED
  <2>1. CASE UNCHANGED <<pc, work, queue, access, live, knownCache, cache, catalogNo>>
    BY <1>1, <2>1 DEF Still
  <2>2. ASSUME NEW u \in Tabs, TabStep(u) PROVE InHand(t)'
    <3>1. CASE u = t
      BY <1>2, <1>3, <1>4, <2>2, <3>1
    <3>2. CASE u # t
      BY <1>1, <2>2, <3>2, OthersStill
    <3>3. QED
      BY <3>1, <3>2
  <2>3. QED
    BY <2>1, <2>2, WhoMoves

LEMMA PersistRestorable ==
  ASSUME TypeOK, NEW t \in Tabs, InHand(t), Restorable(t), PersistCatalog(t)
  PROVE  Restorable(t)'
<1>1. PICK s \in work[t].todo :
        /\ work'[t].todo = work[t].todo \ {s}
        /\ work'[t].undo = Append(work[t].undo, <<s, cache[s]>>)
        /\ work'[t].cats = work[t].cats /\ work'[t].val = work[t].val
        /\ \/ cache' = [cache EXCEPT ![s] = work[t].val] /\ pc' = pc
           \/ cache' = cache /\ pc'[t] = "rollback"
  BY CatalogStep
<1>2. live' = live /\ pc[t] = "catalogs" /\ cache \in [Catalogs -> Nat]
      /\ work[t].undo \in Seq(Catalogs \X Nat) /\ s \in Catalogs
      /\ work[t].cats \subseteq Catalogs
  BY CatalogStepRest, TabTypes
<1>3. s \notin Undone(t)
  BY <1>1, <1>2 DEF InHand, SavePlaces
<1>4. live[t].cat[s] = cache[s]
  BY <1>2, <1>3 DEF Restorable, UndoPlaces
<1> DEFINE e == <<s, cache[s]>>
<1>5. e[1] = s /\ e[2] = cache[s]
  OBVIOUS
<1> HIDE DEF e
<1>6. \A i \in 1..Len(work'[t].undo) :
        \/ i \in 1..Len(work[t].undo) /\ work'[t].undo[i] = work[t].undo[i]
        \/ work'[t].undo[i] = e
  BY <1>1, <1>2 DEF e
<1>7. /\ \A i \in 1..Len(work[t].undo) : work'[t].undo[i] = work[t].undo[i]
      /\ Len(work[t].undo) + 1 \in 1..Len(work'[t].undo)
      /\ \A i \in 1..Len(work[t].undo) : i \in 1..Len(work'[t].undo)
      /\ work'[t].undo[Len(work[t].undo) + 1] = e
  BY <1>1, <1>2 DEF e
<1>8. Undone(t) \subseteq Undone(t)' /\ s \in Undone(t)'
  BY <1>5, <1>7 DEF Undone
<1>9. \A i \in 1..Len(work'[t].undo) : live[t].cat[work'[t].undo[i][1]] = work'[t].undo[i][2]
  BY <1>2, <1>4, <1>5, <1>6 DEF Restorable, UndoPlaces
<1>10. \A x \in Catalogs : x \in Undone(t)' \/ live[t].cat[x] = cache'[x]
  BY <1>1, <1>2, <1>8 DEF Restorable, UndoPlaces
<1>11. pc'[t] \in CommitPlaces => \A x \in work'[t].cats \ work'[t].todo : cache'[x] = work'[t].val
  <2> SUFFICES ASSUME pc'[t] \in CommitPlaces, NEW x \in work'[t].cats \ work'[t].todo
               PROVE  cache'[x] = work'[t].val
    OBVIOUS
  <2>1. cache' = [cache EXCEPT ![s] = work[t].val]
    BY <1>1 DEF CommitPlaces
  <2>2. x = s \/ x \in work[t].cats \ work[t].todo
    BY <1>1
  <2>3. x # s => cache[x] = work[t].val
    BY <1>2, <2>2 DEF Restorable, CommitPlaces
  <2>4. QED
    BY <1>1, <1>2, <2>1, <2>3
<1>12. pc'[t] \notin {"canonical", "apply"}
  BY <1>1, <1>2
<1>13. QED
  BY <1>2, <1>9, <1>10, <1>11, <1>12 DEF Restorable

LEMMA RollBackRestorable ==
  ASSUME TypeOK, NEW t \in Tabs, Restorable(t), RollBack(t), WriteAccepted,
         work[t].undo # <<>>
  PROVE  Restorable(t)'
<1> DEFINE n == Len(work[t].undo)
           s == work[t].undo[n][1]
           v == work[t].undo[n][2]
<1>1. /\ n \in Nat \ {0} /\ s \in Catalogs
      /\ work'[t].undo = SubSeq(work[t].undo, 1, n - 1)
      /\ cache' = [cache EXCEPT ![s] = v] /\ pc' = pc
  BY RollBackStep
<1>2. live' = live /\ pc[t] = "rollback"
  BY RollBackRest
<1>3. work[t].undo \in Seq(Catalogs \X Nat) /\ cache \in [Catalogs -> Nat]
  BY TabTypes
<1>4. live[t].cat[s] = v
  <2>1. n \in 1..Len(work[t].undo)
    BY <1>1
  <2> HIDE DEF n
  <2>2. QED
    BY <1>2, <2>1 DEF Restorable, UndoPlaces
<1> HIDE DEF s, v
<1>5. /\ \A i \in 1..Len(work'[t].undo) :
           i \in 1..Len(work[t].undo) /\ work'[t].undo[i] = work[t].undo[i]
      /\ \A i \in 1..Len(work[t].undo) :
           i = n \/ (i \in 1..Len(work'[t].undo) /\ work'[t].undo[i] = work[t].undo[i])
  <2>1. n = Len(work[t].undo)
    OBVIOUS
  <2> HIDE DEF n
  <2>2. /\ Len(work'[t].undo) = n - 1
        /\ \A i \in 1..(n - 1) : work'[t].undo[i] = work[t].undo[i]
    BY <1>1, <1>3, <2>1
  <2>3. QED
    BY <1>1, <2>1, <2>2
<1>6. \A x \in Undone(t) : x = s \/ x \in Undone(t)'
  BY <1>5 DEF Undone, s
<1>7. \A x \in Catalogs : x \in Undone(t)' \/ live[t].cat[x] = cache'[x]
  BY <1>1, <1>2, <1>3, <1>4, <1>6 DEF Restorable, UndoPlaces
<1>8. \A i \in 1..Len(work'[t].undo) : live[t].cat[work'[t].undo[i][1]] = work'[t].undo[i][2]
  BY <1>2, <1>5 DEF Restorable, UndoPlaces
<1>9. QED
  BY <1>1, <1>2, <1>7, <1>8 DEF Restorable, CommitPlaces

LEMMA RestorableStep ==
  ASSUME TypeOK, TypeOK', [Next]_vars, NEW t \in Tabs, InHand(t), Restorable(t),
         Consistent(t), RollBack(t) => WriteAccepted
  PROVE  Restorable(t)'
<1>1. CASE pc'[t] \notin SavePlaces
  BY <1>1 DEF Restorable, SavePlaces, CommitPlaces, UndoPlaces
<1>2. CASE Still(t) /\ cache' = cache
  BY <1>2 DEF Still, Restorable, Undone
<1>3. CASE TabStep(t) /\ pc'[t] \in SavePlaces /\ pc[t] \notin SavePlaces
  <2>1. PICK p \in WritePlaces : access[t] = "ready" /\ \E d : Begin(t, d, p)
    BY <1>3, BeginMoves DEF WritePlaces
  <2>2. /\ pc[t] = "idle" /\ pc'[t] = p /\ work'[t].undo = <<>>
        /\ work'[t].cats = Head(queue[t]).cats /\ work'[t].todo = Head(queue[t]).cats
        /\ cache' = cache
        /\ live'[t].cat = IF ~Behind(t) /\ cache = knownCache[t] THEN live[t].cat ELSE cache
    BY <2>1, Begun
  <2>3. \A s \in Catalogs : live'[t].cat[s] = cache'[s]
    BY <2>1, <2>2 DEF Consistent, Agrees
  <2>4. QED
    BY <2>1, <2>2, <2>3 DEF Restorable, WritePlaces
<1>4. CASE TabStep(t) /\ pc'[t] \in SavePlaces /\ pc[t] \in SavePlaces
  <2>1. /\ work'[t].cats = work[t].cats /\ work'[t].val = work[t].val
        /\ \/ PersistCatalog(t)
           \/ RollBack(t) /\ work[t].undo # <<>>
           \/ /\ UNCHANGED <<cache, live, knownCache, access>>
              /\ work'[t].undo = work[t].undo /\ work'[t].todo = work[t].todo
              /\ \/ PersistBackup(t) /\ work[t].todo = {}
                 \/ PersistCanonical(t)
                 \/ pc' = pc
    BY <1>4, SavingGoesOn DEF InHand
  <2>2. CASE PersistCatalog(t)
    BY <2>2, PersistRestorable
  <2>3. CASE RollBack(t) /\ work[t].undo # <<>>
    BY <2>3, RollBackRestorable
  <2>4. CASE /\ UNCHANGED <<cache, live>>
             /\ work'[t].undo = work[t].undo /\ work'[t].todo = work[t].todo
             /\ \/ PersistBackup(t) /\ work[t].todo = {}
                \/ PersistCanonical(t)
                \/ pc' = pc
    <3>1. \/ pc'[t] \in {"canonical", "rollback"} /\ pc[t] = "catalogs" /\ work[t].todo = {}
          \/ pc'[t] \in {"apply", "rollback"} /\ pc[t] = "canonical"
          \/ pc' = pc
      BY <2>4 DEF PersistBackup, PersistCanonical, Fail, Goto, TypeOK, LockType
    <3>2. Undone(t)' = Undone(t)
      BY <2>4 DEF Undone
    <3>3. /\ pc'[t] \in {"canonical", "apply"} => work'[t].todo = {}
          /\ pc'[t] \in CommitPlaces => pc[t] \in CommitPlaces
          /\ pc'[t] \in UndoPlaces => pc[t] \in UndoPlaces
      BY <2>4, <3>1 DEF Restorable, CommitPlaces, UndoPlaces
    <3>4. QED
      BY <2>1, <2>4, <3>2, <3>3 DEF Restorable
  <2>5. QED
    BY <2>1, <2>2, <2>3, <2>4
<1>5. QED
  <2>1. CASE UNCHANGED <<pc, work, queue, access, live, knownCache, cache, catalogNo>>
    BY <1>2, <2>1 DEF Still
  <2>2. ASSUME NEW u \in Tabs, TabStep(u), u # t, pc'[t] \in SavePlaces
        PROVE  Restorable(t)'
    <3>1. Still(t)
      BY <2>2, OthersStill
    <3>2. pc[u] = "idle"
      BY <2>2, <3>1, HolderAlone DEF Still, SavePlaces
    <3>3. cache' = cache
      BY <2>2, <3>2, CacheWriters DEF SaveCatalog, PersistCatalog, RollBack
    <3>4. QED
      BY <1>2, <3>1, <3>3
  <2>3. QED
    BY <1>1, <1>3, <1>4, <2>1, <2>2, WhoMoves

-----------------------------
(* A view a tab takes for current is current.                              *)

\* What a step does to the view of the tab that takes it.
LEMMA ViewMoves ==
  ASSUME TypeOK, NEW t \in Tabs, TabStep(t), InHand(t), access'[t] = "ready"
  PROVE  \/ SaveCatalog(t) \/ PersistCatalog(t) \/ Apply(t) \/ RollBack(t)
         \/ /\ UNCHANGED <<live, knownCache, access>>
            /\ pc' = pc \/ pc'[t] \notin {"idle", "cacheOnly"}
         \/ pc[t] # "idle" /\ live'[t].cat = cache
         \/ /\ pc[t] = "idle" /\ lock = NoTab /\ access[t] = "ready"
            /\ live'[t].cat = IF ~Behind(t) /\ cache = knownCache[t] THEN live[t].cat
                              ELSE cache
<1>1. CASE Load(t)
  <2>1. CASE LoadReadOnly(t)
    BY <2>1 DEF LoadReadOnly, NeedsLoad, Settle, TypeOK, TabType
  <2>2. CASE ~LoadReadOnly(t)
    <3>1. pc[t] \in LoadPlaces
      BY <1>1, <2>2 DEF Load, LoadNewer, LoadCanonical, LoadDefaults, Recover,
             BeginFresh, WriteFresh, MarkFresh, BeginMigration, LeaseBusy, MigrateBackup,
             MigrateCanonical, MigrateFailed, LoadFailed, LoadThrew, LoadPlaces
    <3>2. access[t] # "ready"
      BY <3>1 DEF InHand
    <3>3. CASE LoadThrew(t)
      BY <3>2, <3>3 DEF LoadThrew, TypeOK, TabType
    <3>4. CASE UNCHANGED access
      BY <3>2, <3>4
    <3>5. ASSUME NEW d, NEW r, NEW o, Settle(t, d, r, TRUE, o)
          PROVE  live'[t].cat = cache
      <4>1. live'[t] = [data |-> d, cat |-> cache]
        BY <3>5 DEF Settle, TypeOK, TabType
      <4>2. QED
        BY <4>1
    <3>6. \/ UNCHANGED access \/ LoadThrew(t)
          \/ \E d, r, o : Settle(t, d, r, TRUE, o)
      <4>1. CASE BeginFresh(t) \/ WriteFresh(t) \/ BeginMigration(t) \/ MigrateBackup(t)
        BY <4>1 DEF BeginFresh, WriteFresh, BeginMigration, MigrateBackup, TakeLease, tabVars
      <4>2. CASE LoadNewer(t) \/ LoadCanonical(t) \/ MarkFresh(t) \/ MigrateCanonical(t)
                 \/ MigrateFailed(t) \/ Recover(t)
        BY <4>2, Zenon DEF LoadNewer, LoadCanonical, MarkFresh, MigrateCanonical,
                           MigrateFailed, Recover, tabVars
      <4>3. ~LoadDefaults(t) /\ ~LeaseBusy(t) /\ ~LoadFailed(t)
        BY <3>2 DEF LoadDefaults, LeaseBusy, LoadFailed, Settle, TypeOK, TabType
      <4>4. QED
        BY <1>1, <2>2, <4>1, <4>2, <4>3 DEF Load
    <3>7. pc[t] # "idle"
      BY <3>1 DEF LoadPlaces
    <3>8. QED
      BY <3>3, <3>4, <3>5, <3>6, <3>7
  <2>3. QED
    BY <2>1, <2>2
<1>2. CASE Request(t) \/ Refuse(t) \/ RefuseStale(t)
  BY <1>2 DEF Request, Refuse, RefuseStale, tabVars
<1>3. ~OpenTab(t) /\ ~Probe(t) /\ ~RetryStorage(t) /\ ~CloseTab(t) /\ ~BeginLoad(t)
  BY DEF OpenTab, Probe, RetryStorage, CloseTab, BeginLoad, NeedsLoad, tabVars, TypeOK, TabType
<1>4. CASE SkipUpdate(t)
  <2>1. pc[t] = "idle" /\ lock = NoTab /\ access[t] = "ready" /\ Refresh(t)
    BY <1>4 DEF SkipUpdate, Ready
  <2>2. live'[t].cat = Refreshed(t).cat
    BY <2>1 DEF Refresh, TypeOK, TabType
  <2>3. Refreshed(t).cat = IF ~Behind(t) /\ cache = knownCache[t] THEN live[t].cat ELSE cache
    BY DEF Refreshed
  <2>4. QED
    BY <2>1, <2>2, <2>3
<1>5. CASE BeginUpdate(t) \/ BeginImport(t) \/ BeginSave(t) \/ BeginCatalog(t)
  <2>1. PICK d, p : Begin(t, d, p)
    BY <1>5 DEF BeginUpdate, BeginImport, BeginSave, BeginCatalog
  <2>2. access[t] = "ready"
    BY <1>5 DEF BeginUpdate, BeginImport, BeginSave, BeginCatalog, Ready
  <2>3. QED
    BY <2>1, <2>2, Begun
<1>6. CASE PersistBackup(t) \/ PersistCanonical(t)
  <2>1. pc'[t] \in {"canonical", "apply", "rollback"} /\ UNCHANGED <<live, knownCache, access>>
    BY <1>6 DEF PersistBackup, PersistCanonical, Fail, Goto, tabVars, TypeOK, LockType
  <2>2. QED
    BY <2>1
<1>7. QED
  BY <1>1, <1>2, <1>3, <1>4, <1>5, <1>6 DEF TabStep, BeginRequest, Transact

\* With the lock free or held by one tab, no other tab has something to put back.
LEMMA OthersPutNothingBack ==
  ASSUME TypeOK, \A t \in Tabs : InHand(t), NEW u \in Tabs,
         pc[u] # "idle" \/ lock = NoTab, NEW w \in Tabs, w # u
  PROVE  work[w].undo = <<>>
<1>1. pc[w] = "idle"
  BY HolderAlone, ConfigAssumption DEF TypeOK, LockType
<1>2. QED
  BY <1>1 DEF InHand, UndoPlaces

LEMMA UndoMoves ==
  ASSUME TypeOK, NEW t \in Tabs, TabStep(t), RollBack(t) => WriteAccepted,
         NEW i \in 1..Len(work'[t].undo)
  PROVE  \/ i \in 1..Len(work[t].undo) /\ work'[t].undo[i] = work[t].undo[i]
         \/ /\ pc[t] # "idle"
            /\ \E s \in Catalogs : /\ work'[t].undo[i][1] = s
                                   /\ work'[t].undo[i][2] = cache[s]
<1>1. work[t].undo \in Seq(Catalogs \X Nat)
  BY TabTypes
<1>2. CASE work'[t].undo = work[t].undo \/ work'[t].undo = <<>>
  BY <1>2
<1>3. ASSUME Answer(t) PROVE work'[t].undo = <<>>
  BY <1>3 DEF Answer, Release, NoWork, TypeOK, WorkType
<1>4. CASE RollBack(t) /\ work[t].undo # <<>>
  <2>1. work'[t].undo = SubSeq(work[t].undo, 1, Len(work[t].undo) - 1)
    BY <1>4, RollBackStep
  <2>2. QED
    BY <1>1, <1>4, <2>1
<1>5. CASE PersistCatalog(t)
  <2>1. PICK s \in work[t].todo : work'[t].undo = Append(work[t].undo, <<s, cache[s]>>)
    BY <1>5, CatalogStep
  <2>2. pc[t] # "idle" /\ s \in Catalogs
    BY <1>5, CatalogStepRest, TabTypes
  <2> DEFINE e == <<s, cache[s]>>
  <2>3. e[1] = s /\ e[2] = cache[s]
    OBVIOUS
  <2> HIDE DEF e
  <2>4. \/ i \in 1..Len(work[t].undo) /\ work'[t].undo[i] = work[t].undo[i]
        \/ work'[t].undo[i] = e
    BY <1>1, <2>1 DEF e
  <2>5. QED
    BY <2>2, <2>3, <2>4
<1>6. QED
  BY <1>2, <1>3, <1>4, <1>5, KnownStep DEF SaveCatalog, RollBack

\* What another tab writes, this one did not know, or it is put back.
LEMMA WrittenAgrees ==
  ASSUME TypeOK, CatInv, NEW t \in Tabs, TabStep(t), RollBack(t) => WriteAccepted,
         NEW u \in Tabs, u # t, access[u] = "ready", NEW s \in Catalogs,
         cache'[s] # cache[s]
  PROVE  Agrees(u, s, cache'[s])
<1>1. SaveCatalog(t) \/ PersistCatalog(t) \/ RollBack(t)
  BY CacheWriters
<1>2. ASSUME s \in work[t].todo, cache'[s] = work[t].val, pc[t] \in WritePlaces
      PROVE  Agrees(u, s, cache'[s])
  <2>1. queue[t] # <<>> /\ work[t].val = Head(queue[t]).val /\ s \in Head(queue[t]).cats
    BY <1>2 DEF CatInv, InHand, WritePlaces, SavePlaces
  <2>2. 1 \in 1..Len(queue[t]) /\ Head(queue[t]) = queue[t][1]
    BY <2>1 DEF TypeOK
  <2>3. Awaits(t, 1, s)
    BY <1>2 DEF Awaits
  <2>4. work[t].val \notin Seen(s)
    BY <2>1, <2>2, <2>3 DEF CatInv, FreshInv
  <2>5. knownCache[u][s] # work[t].val
    BY <2>4, SeenParts
  <2>6. QED
    BY <1>2, <2>5 DEF Agrees
<1>3. CASE SaveCatalog(t)
  <2>1. \/ cache' = cache
        \/ \E x \in work[t].todo : cache' = [cache EXCEPT ![x] = work[t].val]
    BY <1>3, Zenon DEF SaveCatalog, WithCatalog
  <2>2. s \in work[t].todo /\ cache'[s] = work[t].val
    BY <2>1, TabTypes
  <2>3. QED
    BY <1>2, <1>3, <2>2 DEF SaveCatalog, WritePlaces
<1>4. CASE PersistCatalog(t)
  <2>1. s \in work[t].todo /\ cache'[s] = work[t].val
    BY <1>4, CatalogStep, TabTypes
  <2>2. QED
    BY <1>2, <1>4, <2>1, CatalogStepRest DEF WritePlaces
<1>5. CASE RollBack(t)
  <2>1. work[t].undo # <<>>
    BY <1>5 DEF RollBack
  <2> DEFINE n == Len(work[t].undo)
             x == work[t].undo[n][1]
             v == work[t].undo[n][2]
  <2>2. n \in Nat \ {0} /\ cache' = [cache EXCEPT ![x] = v]
    BY <1>5, <2>1, RollBackStep
  <2>3. n \in 1..Len(work[t].undo)
    BY <2>2
  <2>4. Agrees(u, x, v)
    <3> HIDE DEF n
    <3>1. QED
      BY <2>3 DEF CatInv, Consistent
  <2> HIDE DEF x, v
  <2>5. s = x /\ cache'[s] = v
    BY <2>2, TabTypes
  <2>6. QED
    BY <2>4, <2>5
<1>6. QED
  BY <1>1, <1>3, <1>4, <1>5

LEMMA OthersConsistent ==
  ASSUME TypeOK, CatInv, NEW t \in Tabs, TabStep(t), RollBack(t) => WriteAccepted,
         NEW u \in Tabs, u # t
  PROVE  Consistent(u)'
<1> SUFFICES ASSUME access'[u] = "ready"
             PROVE  /\ pc'[u] \in {"idle", "cacheOnly"} =>
                         \A s \in Catalogs : Agrees(u, s, cache[s])'
                    /\ \A w \in Tabs \ {u} : \A i \in 1..Len(work'[w].undo) :
                         Agrees(u, work[w].undo[i][1], work[w].undo[i][2])'
  BY DEF Consistent
<1>1. Still(u) /\ access[u] = "ready"
  BY OthersStill DEF Still
<1>2. ASSUME NEW s, NEW v, Agrees(u, s, v)
      PROVE  knownCache'[u][s] = v => live'[u].cat[s] = v
  BY <1>1, <1>2 DEF Agrees, Still
<1>3. ASSUME pc'[u] \in {"idle", "cacheOnly"}, NEW s \in Catalogs
      PROVE  Agrees(u, s, cache[s])'
  <2>1. Agrees(u, s, cache'[s])
    <3>1. CASE cache'[s] = cache[s]
      BY <1>1, <1>3, <3>1 DEF CatInv, Consistent, Still
    <3>2. CASE cache'[s] # cache[s]
      BY <1>1, <3>2, WrittenAgrees
    <3>3. QED
      BY <3>1, <3>2
  <2>2. QED
    BY <1>2, <2>1 DEF Agrees
<1>4. ASSUME NEW w \in Tabs, w # u, NEW i \in 1..Len(work'[w].undo)
      PROVE  Agrees(u, work[w].undo[i][1], work[w].undo[i][2])'
  <2> DEFINE x == work'[w].undo[i][1]
             v == work'[w].undo[i][2]
  <2>1. Agrees(u, x, v)
    <3>1. CASE i \in 1..Len(work[w].undo) /\ work'[w].undo[i] = work[w].undo[i]
      BY <1>1, <1>4, <3>1 DEF CatInv, Consistent
    <3>2. CASE /\ w = t /\ pc[t] # "idle"
               /\ \E s \in Catalogs : x = s /\ v = cache[s]
      <4>1. pc[u] = "idle"
        BY <3>2, HolderAlone
      <4>2. QED
        BY <1>1, <3>2, <4>1 DEF CatInv, Consistent
    <3>3. w # t => work'[w] = work[w]
      BY OthersStill DEF Still
    <3>4. QED
      BY <1>4, <3>1, <3>2, <3>3, UndoMoves
  <2>2. QED
    BY <1>2, <2>1 DEF Agrees
<1>5. QED
  BY <1>3, <1>4

\* The end of a transaction: the tab holds the catalogs that are stored.
LEMMA SavedConsistent ==
  ASSUME TypeOK, CatInv, NEW u \in Tabs, access'[u] = "ready", RollBack(u) => WriteAccepted,
         SaveCatalog(u) \/ PersistCatalog(u) \/ Apply(u) \/ RollBack(u),
         pc'[u] \in {"idle", "cacheOnly"}, NEW s \in Catalogs
  PROVE  knownCache'[u][s] = cache'[s] => live'[u].cat[s] = cache'[s]
<1>1. cache \in [Catalogs -> Nat] /\ live \in [Tabs -> Views] /\ live[u] \in Views
      /\ live[u].cat \in [Catalogs -> Nat] /\ knownCache \in [Tabs -> [Catalogs -> Nat]]
  BY TabTypes DEF TypeOK, TabType
<1>2. ~PersistCatalog(u)
  BY CatalogStep, CatalogStepRest
<1>3. CASE SaveCatalog(u)
  <2>1. pc[u] = "cacheOnly" /\ access[u] = "ready"
    BY <1>3 DEF SaveCatalog
  <2>2. Agrees(u, s, cache[s])
    BY <2>1 DEF CatInv, Consistent
  <2>3. ASSUME NEW x \in work[u].todo,
               cache' = WithCatalog(cache, x, work[u].val),
               knownCache' = [knownCache EXCEPT ![u] = WithCatalog(@, x, work[u].val)],
               live' = [live EXCEPT ![u].cat = WithCatalog(@, x, work[u].val)]
        PROVE  knownCache'[u][s] = cache'[s] => live'[u].cat[s] = cache'[s]
    <3> DEFINE c == [live[u].cat EXCEPT ![x] = work[u].val]
    <3>1. live' = [live EXCEPT ![u] = [live[u] EXCEPT !.cat = c]]
      BY <2>3 DEF WithCatalog
    <3> HIDE DEF c
    <3>2. live'[u].cat = c
      BY <1>1, <3>1 DEF Views
    <3>3. knownCache'[u] = [knownCache[u] EXCEPT ![x] = work[u].val]
      BY <1>1, <2>3 DEF WithCatalog
    <3>4. QED
      BY <1>1, <2>2, <2>3, <3>2, <3>3 DEF c, Agrees, WithCatalog
  <2>4. UNCHANGED <<cache, knownCache, live>> =>
          (knownCache'[u][s] = cache'[s] => live'[u].cat[s] = cache'[s])
    BY <2>2 DEF Agrees
  <2>5. \/ UNCHANGED <<cache, knownCache, live>>
        \/ \E x \in work[u].todo :
             /\ cache' = WithCatalog(cache, x, work[u].val)
             /\ knownCache' = [knownCache EXCEPT ![u] = WithCatalog(@, x, work[u].val)]
             /\ live' = [live EXCEPT ![u].cat = WithCatalog(@, x, work[u].val)]
    BY <1>3, Zenon DEF SaveCatalog
  <2>6. QED
    BY <2>3, <2>4, <2>5, Zenon
<1>4. CASE Apply(u)
  <2>1. pc[u] = "apply" /\ cache' = cache
    BY <1>4 DEF Apply, storage
  <2>2. live'[u].cat[s] = IF s \in work[u].cats THEN work[u].val ELSE live[u].cat[s]
    <3> DEFINE f == [x \in Catalogs |-> IF x \in work[u].cats THEN work[u].val
                                        ELSE live[u].cat[x]]
    <3>1. live'[u] = [data |-> work[u].draft, cat |-> f]
      BY <1>1, <1>4 DEF Apply
    <3>2. live'[u].cat = f
      BY <3>1
    <3>3. QED
      BY <3>2
  <2>3. CASE s \in work[u].cats
    BY <2>1, <2>2, <2>3 DEF CatInv, Restorable, CommitPlaces
  <2>4. CASE s \notin work[u].cats
    <3>1. s \notin Undone(u)
      BY <2>1, <2>4 DEF CatInv, InHand, SavePlaces
    <3>2. live[u].cat[s] = cache[s]
      BY <2>1, <3>1 DEF CatInv, Restorable, UndoPlaces
    <3>3. QED
      BY <2>1, <2>2, <2>4, <3>2
  <2>5. QED
    BY <2>3, <2>4
<1>5. CASE RollBack(u)
  <2>1. pc[u] = "rollback" /\ live' = live
    BY <1>5, RollBackRest
  <2>2. work[u].undo = <<>> /\ cache' = cache
    BY <1>5, <2>1 DEF RollBack
  <2>3. s \notin Undone(u)
    BY <2>2 DEF Undone
  <2>4. live[u].cat[s] = cache[s]
    BY <2>1, <2>3 DEF CatInv, Restorable, UndoPlaces
  <2>5. QED
    BY <2>1, <2>2, <2>4
<1>6. QED
  BY <1>2, <1>3, <1>4, <1>5

LEMMA OwnConsistent ==
  ASSUME TypeOK, CatInv, NEW u \in Tabs, TabStep(u), RollBack(u) => WriteAccepted
  PROVE  Consistent(u)'
<1> SUFFICES ASSUME access'[u] = "ready"
             PROVE  /\ pc'[u] \in {"idle", "cacheOnly"} =>
                         \A s \in Catalogs : Agrees(u, s, cache[s])'
                    /\ \A w \in Tabs \ {u} : \A i \in 1..Len(work'[w].undo) :
                         Agrees(u, work[w].undo[i][1], work[w].undo[i][2])'
  BY DEF Consistent
<1>1. \A w \in Tabs \ {u} : work'[w] = work[w]
  BY OthersStill DEF Still
<1>2. CASE pc[u] # "idle" \/ lock = NoTab
  <2>1. \A w \in Tabs \ {u} : work'[w].undo = <<>>
    BY <1>1, <1>2, OthersPutNothingBack DEF CatInv
  <2>2. \A w \in Tabs \ {u} : \A i \in 1..Len(work'[w].undo) :
          Agrees(u, work[w].undo[i][1], work[w].undo[i][2])'
    BY <2>1
  <2>3. ASSUME pc'[u] \in {"idle", "cacheOnly"}, NEW s \in Catalogs
        PROVE  Agrees(u, s, cache[s])'
    <3>1. CASE SaveCatalog(u) \/ PersistCatalog(u) \/ Apply(u) \/ RollBack(u)
      BY <2>3, <3>1, SavedConsistent DEF Agrees
    <3>2. CASE ~(SaveCatalog(u) \/ PersistCatalog(u) \/ Apply(u) \/ RollBack(u))
      <4>1. cache' = cache
        BY <3>2, CacheWriters
      <4>2. \/ /\ UNCHANGED <<live, knownCache, access>>
               /\ pc' = pc
            \/ live'[u].cat = cache
            \/ /\ pc[u] = "idle" /\ access[u] = "ready"
               /\ live'[u].cat = IF ~Behind(u) /\ cache = knownCache[u] THEN live[u].cat
                                 ELSE cache
        BY <2>3, <3>2, ViewMoves DEF CatInv
      <4>3. CASE UNCHANGED <<live, knownCache, access>> /\ pc' = pc
        BY <2>3, <4>1, <4>3 DEF CatInv, Consistent, Agrees
      <4>4. CASE live'[u].cat = cache
        BY <4>1, <4>4 DEF Agrees
      <4>5. CASE /\ pc[u] = "idle" /\ access[u] = "ready"
                 /\ live'[u].cat = live[u].cat /\ cache = knownCache[u]
        BY <4>1, <4>5 DEF CatInv, Consistent, Agrees
      <4>6. QED
        BY <4>2, <4>3, <4>4, <4>5
    <3>3. QED
      BY <3>1, <3>2
  <2>4. QED
    BY <2>2, <2>3
<1>3. CASE pc[u] = "idle" /\ lock # NoTab
  <2>1. /\ UNCHANGED <<live, knownCache, access>>
        /\ pc' = pc \/ pc'[u] \notin {"idle", "cacheOnly"}
    BY <1>3, ViewMoves DEF CatInv, SaveCatalog, PersistCatalog, Apply, RollBack
  <2>2. cache' = cache
    BY <1>3, CacheWriters DEF SaveCatalog, PersistCatalog, RollBack
  <2>3. QED
    BY <1>1, <1>3, <2>1, <2>2 DEF CatInv, Consistent, Agrees
<1>4. QED
  BY <1>2, <1>3

LEMMA CatInit == Init => CatInv
<1> SUFFICES ASSUME Init PROVE CatInv
  OBVIOUS
<1>1. /\ cache = NoCatalogs /\ knownCache = [t \in Tabs |-> NoCatalogs]
      /\ queue = [t \in Tabs |-> <<>>] /\ pc = [t \in Tabs |-> "idle"]
      /\ work = [t \in Tabs |-> NoWork] /\ access = [t \in Tabs |-> "closed"]
      /\ catalogNo = 0 /\ NoWork.undo = <<>> /\ \A s \in Catalogs : NoCatalogs[s] = 0
  BY DEF Init, NoWork, NoCatalogs
<1>2. \A s \in Catalogs : Seen(s) \subseteq 0..catalogNo
  BY <1>1 DEF Seen
<1>3. FreshInv
  BY <1>1, <1>2 DEF FreshInv
<1>4. ASSUME NEW t \in Tabs PROVE InHand(t) /\ Restorable(t) /\ Consistent(t)
  <2>1. pc[t] = "idle" /\ work[t].undo = <<>> /\ access[t] = "closed"
    BY <1>1
  <2>2. QED
    BY <2>1 DEF InHand, Restorable, Consistent, SavePlaces, LoadPlaces, CommitPlaces,
                UndoPlaces
<1>5. QED
  BY <1>3, <1>4 DEF CatInv

LEMMA CatStep ==
  ASSUME TypeOK, TypeOK', CatInv, [Next]_vars, \A t \in Tabs : RollBack(t) => WriteAccepted
  PROVE  CatInv'
<1>1. FreshInv'
  BY FreshStep, FreshRequest DEF CatInv
<1>2. ASSUME NEW t \in Tabs PROVE InHand(t)' /\ Restorable(t)'
  BY InHandStep, RestorableStep DEF CatInv
<1>3. ASSUME NEW u \in Tabs PROVE Consistent(u)'
  <2>1. CASE UNCHANGED <<pc, work, queue, access, live, knownCache, cache, catalogNo>>
    BY <2>1 DEF CatInv, Consistent, Agrees
  <2>2. ASSUME NEW t \in Tabs, TabStep(t) PROVE Consistent(u)'
    BY <2>2, OwnConsistent, OthersConsistent
  <2>3. QED
    BY <2>1, <2>2, WhoMoves
<1>4. QED
  BY <1>1, <1>2, <1>3 DEF CatInv

LEMMA ConsistentViews == CatInv => CatalogViewCurrent
BY DEF CatInv, Consistent, Agrees, CatalogViewCurrent

\* A tab whose catalog payloads look current holds the stored catalogs, for
\* any number of tabs, catalogs, damages and rejected writes, as long as the
\* writes of a rollback are accepted (persistCatalogs and its rollback).
THEOREM CatalogsCurrent == Spec /\ RollbacksAccepted => []CatalogViewCurrent
<1>1. TypeOK /\ TypeOK' /\ CatInv /\ [Next]_vars
        /\ [\A t \in Tabs : RollBack(t) => WriteAccepted]_vars => CatInv'
  <2> SUFFICES ASSUME TypeOK, TypeOK', CatInv, [Next]_vars,
                      [\A t \in Tabs : RollBack(t) => WriteAccepted]_vars
               PROVE  CatInv'
    OBVIOUS
  <2>1. \A t \in Tabs : RollBack(t) => WriteAccepted
    BY DEF WriteAccepted, vars, faults
  <2>2. QED
    BY <2>1, CatStep
<1>2. QED
  BY <1>1, CatInit, ConsistentViews, TypeCorrect, PTL DEF Spec, RollbacksAccepted

-----------------------------
(* One rejected write is never a rollback's.                               *)

FailedFirst == \A t \in Tabs : pc[t] = "rollback" => failures >= 1

LEMMA FailuresCounted ==
  ASSUME TypeOK, [Next]_vars PROVE failures' \in Nat /\ failures' >= failures
<1>1. failures \in Nat
  BY DEF TypeOK, HistoryType
<1>2. CASE WriteAccepted \/ WriteRejected
  BY <1>1, <1>2 DEF WriteAccepted, WriteRejected
<1>3. ASSUME NEW t \in Tabs, Load(t) PROVE WriteAccepted \/ WriteRejected
  BY <1>3 DEF Load, LoadReadOnly, LoadNewer, LoadCanonical, LoadDefaults, Recover,
              BeginFresh, WriteFresh, MarkFresh, BeginMigration, LeaseBusy,
              MigrateBackup, MigrateCanonical, MigrateFailed, LoadFailed, LoadThrew,
              LoadDone, TakeLease, faults, WriteAccepted
<1>4. ASSUME NEW t \in Tabs, Transact(t) PROVE WriteAccepted \/ WriteRejected
  BY <1>4 DEF Transact, SaveCatalog, PersistCatalog, PersistBackup, PersistCanonical,
              Apply, RollBack, Fail, faults, WriteAccepted
<1>5. ASSUME NEW t \in Tabs, BeginRequest(t) PROVE WriteAccepted
  BY <1>5 DEF BeginRequest, RefuseStale, SkipUpdate, BeginUpdate, BeginImport,
              BeginSave, BeginCatalog, Begin, faults, WriteAccepted
<1>6. ASSUME NEW t \in Tabs,
             \/ OpenTab(t) \/ Probe(t) \/ RetryStorage(t) \/ BeginLoad(t) \/ Request(t)
             \/ Refuse(t) \/ CloseTab(t)
      PROVE  WriteAccepted \/ WriteRejected
  BY <1>6 DEF OpenTab, Probe, RetryStorage, BeginLoad, Request, Refuse, CloseTab, faults,
              WriteAccepted
<1>7. NewerReleaseMigrates \/ Corrupt \/ UNCHANGED vars => WriteAccepted
  BY DEF NewerReleaseMigrates, Corrupt, vars, faults, WriteAccepted
<1>8. ASSUME NEW l \in {"init", "migration"}, ExpireLease(l) PROVE WriteAccepted
  BY <1>8 DEF ExpireLease, faults, WriteAccepted
<1>9. QED
  BY <1>2, <1>3, <1>4, <1>5, <1>6, <1>7, <1>8 DEF Next

LEMMA FailedFirstStep ==
  ASSUME TypeOK, [Next]_vars, FailedFirst PROVE FailedFirst'
<1> SUFFICES ASSUME NEW t \in Tabs, pc'[t] = "rollback" PROVE failures' >= 1
  BY DEF FailedFirst
<1>1. failures \in Nat /\ failures' \in Nat /\ failures' >= failures
  BY FailuresCounted DEF TypeOK, HistoryType
<1>2. CASE pc[t] = "rollback"
  BY <1>1, <1>2 DEF FailedFirst
<1>3. ASSUME TabStep(t), pc[t] # "rollback" PROVE failures' >= 1
  <2>1. pc[t] \in SavePlaces
    BY <1>3, BeginMoves, Begun DEF SavePlaces
  <2>2. Transact(t)
    BY <1>3, <2>1, SavingMoves DEF CloseTab, TypeOK, LockType
  <2>3. ~Answer(t)
    BY DEF Answer, Release, TypeOK, LockType
  <2>4. CASE PersistCatalog(t)
    BY <1>1, <2>4 DEF PersistCatalog, Fail, WriteRejected
  <2>5. CASE PersistBackup(t) \/ PersistCanonical(t)
    <3>1. Fail(t)
      BY <2>5 DEF PersistBackup, PersistCanonical, Goto, TypeOK, LockType
    <3>2. QED
      BY <1>1, <3>1 DEF Fail, WriteRejected
  <2>6. QED
    BY <1>3, <2>2, <2>3, <2>4, <2>5 DEF Transact, SaveCatalog, Apply, RollBack
<1>4. QED
  BY <1>2, <1>3, OthersStill, WhoMoves DEF Still

\* With at most one rejected write, as in the runs, the condition always holds.
THEOREM CatalogsCurrentAfterOneFailure ==
  ASSUME MaxFailures <= 1
  PROVE  Spec => []CatalogViewCurrent
<1>1. Init => FailedFirst
  BY DEF Init, FailedFirst
<1>2. TypeOK /\ FailedFirst /\ [Next]_vars => FailedFirst'
  BY FailedFirstStep
<1>3. TypeOK /\ FailedFirst /\ [Next]_vars
        => [\A t \in Tabs : RollBack(t) => WriteAccepted]_vars
  <2> SUFFICES ASSUME TypeOK, FailedFirst, NEW t \in Tabs, RollBack(t)
               PROVE  WriteAccepted
    OBVIOUS
  <2>1. failures >= 1 /\ failures \in Nat /\ MaxFailures \in Nat
    BY ConfigAssumption DEF RollBack, FailedFirst, TypeOK, HistoryType
  <2>2. ~WriteRejected
    BY <2>1 DEF WriteRejected
  <2>3. QED
    BY <2>2 DEF RollBack, WriteAccepted
<1>4. Spec => RollbacksAccepted
  BY <1>1, <1>2, <1>3, TypeCorrect, PTL DEF Spec, RollbacksAccepted
<1>5. QED
  BY <1>4, CatalogsCurrent, PTL
=============================================================================
