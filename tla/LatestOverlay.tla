---------------------------- MODULE LatestOverlay ----------------------------
(* The Latest page's overlay: the capture of the site's listing responses    *)
(* (features/latest-overlay/capture), the index of their records, and the    *)
(* decoration of the tiles over several frames (tileProcessor.js,            *)
(* tilePatcher.js).  A thread has one tile; a response carries the records   *)
(* of some threads; what a tile shows is the settings it was decorated with. *)
EXTENDS Integers, Sequences, FiniteSets, SequencesExt

CONSTANTS Tiles,       \* the tiles of the page
          Urls,        \* the addresses of the listing
          MaxQueue,    \* maxPendingQueueItems
          MaxRoutes,   \* bound: route changes
          MaxRequests, \* bound: requests of the site's own script
          MaxTurns     \* bound: changes of settings, of tiles, of the switch

VARIABLES
  route,     \* routeGeneration
  capturing, \* captureActive
  requests,  \* requests of the site's script on their way
  seen,      \* the last response the browser recorded for this page, or Nothing
  made,      \* requests made
  queue,     \* jobs: response and route generation
  drains,    \* drains that are scheduled or running
  draining,
  snapshot,  \* the stored response, or Nothing
  watch,     \* the initial recovery: off, armed, due
  attempted, \* recoveryAttempted
  recovering,\* responses of recovery requests on their way
  active,    \* latestOverlayStatus is ACTIVE
  index,     \* threads the index has records of
  shown,     \* tiles of the page
  fresh,     \* added tiles the observer has not reported yet
  pending,   \* pendingTiles of the newest generation
  flush,     \* a flush waits in a microtask
  batches,   \* paint batches of the newest generation: tile -> settings
  painted,   \* what each tile shows, or None
  setting,   \* the live settings
  cached,    \* the settings of the last refreshCaches()
  due,       \* the debounced reprocess
  mixed,     \* the last reprocess met a running batch
  turns

capture == <<route, capturing, requests, seen, made, queue, drains, draining, watch,
             attempted, recovering>>
tiles == <<shown, fresh, painted, setting, due, mixed>>
work == <<pending, flush, batches, cached>>
vars == <<capture, snapshot, active, index, tiles, work, turns>>

None == "none"
Nothing == [url |-> None, of |-> {}]
Settings == {"plain", "blue", "red"}  \* plain settings mark no tile
Response == [url : Urls, of : SUBSET Tiles]
Job == [url : Urls, of : SUBSET Tiles, generation : 0..MaxRoutes]
Batch == UNION {[S -> {"blue", "red"}] : S \in SUBSET Tiles}

TypeOK ==
  /\ route \in 0..MaxRoutes /\ capturing \in BOOLEAN
  /\ requests \subseteq Response /\ recovering \subseteq Response
  /\ seen \in Response \union {Nothing} /\ snapshot \in Response \union {Nothing}
  /\ queue \in Seq(Job) /\ Len(queue) <= MaxQueue
  /\ drains \in 0..(MaxRoutes + 1) /\ draining \in BOOLEAN
  /\ watch \in {"off", "armed", "due"} /\ attempted \in BOOLEAN
  /\ active \in BOOLEAN /\ index \subseteq Tiles /\ shown \subseteq Tiles
  /\ fresh \subseteq Tiles /\ pending \subseteq Tiles /\ flush \in BOOLEAN
  /\ batches \subseteq Batch /\ painted \in [Tiles -> Settings \union {None}]
  /\ setting \in Settings /\ cached \in Settings

Init ==
  /\ route = 0 /\ capturing = TRUE /\ requests = {} /\ seen = Nothing /\ made = 0
  /\ queue = <<>> /\ drains = 0 /\ draining = FALSE /\ snapshot = Nothing
  /\ watch = "armed" /\ attempted = FALSE /\ recovering = {}
  /\ active = FALSE /\ index = {} /\ shown = Tiles /\ fresh = {} /\ pending = {}
  /\ flush = FALSE /\ batches = {} /\ painted = [t \in Tiles |-> None]
  /\ setting \in Settings /\ cached = setting /\ due = FALSE /\ mixed = FALSE /\ turns = 0

Turn == turns < MaxTurns /\ turns' = turns + 1

(******************************** The tiles ********************************)
\* evaluateTileState(): the batch that decorates the tiles in S that have a
\* record and that the settings mark.
Patches(S, records, s) ==
  IF s = "plain" \/ S \intersect records = {} THEN {}
  ELSE {[t \in S \intersect records |-> s]}

Unmodified == {t \in shown : painted[t] = None}

\* incrementGeneration(): the batches and the pending tiles of the former
\* generation have no effect any more.
KeepGeneration(B) == batches' = batches \union B /\ UNCHANGED pending
NextGeneration(B) == batches' = B /\ pending' = {}

\* applyLatestDataSnapshot() as the consumer of a captured response.
Consume(r) ==
  IF active
  THEN /\ index' = r.of /\ cached' = setting
       /\ NextGeneration(Patches(Unmodified, r.of, setting))
  ELSE UNCHANGED <<index, cached, batches, pending>>

\* setLatestCaptureCaptured() and the end of the recovery watch.
Store(r) == snapshot' = r /\ watch' = "off" /\ Consume(r)
Ignored == UNCHANGED <<snapshot, watch, index, cached, batches, pending>>

(******************************* The capture *******************************)
\* The site's script asks for a listing and the response arrives.
Request(u) ==
  /\ made < MaxRequests /\ made' = made + 1
  /\ \E S \in SUBSET Tiles : requests' = requests \union {[url |-> u, of |-> S]}
  /\ UNCHANGED <<route, capturing, seen, queue, drains, draining, watch, attempted,
                 recovering, snapshot, active, index, tiles, work, turns>>

\* enqueue(): the newest response of an address replaces the older one, and
\* the oldest job goes when the queue is full.
Enqueued(r) ==
  LET others == SelectSeq(queue, LAMBDA j : j.url # r.url)
      all == Append(others, [url |-> r.url, of |-> r.of, generation |-> route])
  IN  IF Len(all) > MaxQueue THEN Tail(all) ELSE all

\* The response is intercepted, or it fails or escapes the interception; the
\* browser's record of it lets the recovery watch start.
Respond(r) ==
  /\ r \in requests /\ requests' = requests \ {r} /\ seen' = r
  /\ \/ /\ capturing /\ queue' = Enqueued(r)
        /\ draining' = TRUE /\ drains' = IF draining THEN drains ELSE drains + 1
     \/ UNCHANGED <<queue, drains, draining>>
  /\ watch' = IF watch = "armed" /\ ~attempted /\ snapshot = Nothing THEN "due" ELSE watch
  /\ UNCHANGED <<route, capturing, made, attempted, recovering, snapshot, active, index,
                 tiles, work, turns>>

\* processCompletedLatestCapture(): malformed responses change nothing.
Drain ==
  /\ drains > 0 /\ queue # <<>> /\ queue' = Tail(queue)
  /\ IF Head(queue).generation = route /\ capturing
     THEN Ignored \/ Store([url |-> Head(queue).url, of |-> Head(queue).of])
     ELSE Ignored
  /\ UNCHANGED <<route, capturing, requests, seen, made, drains, draining, attempted,
                 recovering, active, tiles, flush, turns>>

DrainEnds ==
  /\ drains > 0 /\ queue = <<>> /\ drains' = drains - 1 /\ draining' = FALSE
  /\ UNCHANGED <<route, capturing, requests, seen, made, queue, watch, attempted,
                 recovering, snapshot, active, index, tiles, work, turns>>

\* The timer of scheduleRecoveryForResources().
Recover ==
  /\ watch = "due"
  /\ IF attempted \/ snapshot # Nothing
     THEN watch' = "armed" /\ UNCHANGED <<attempted, recovering>>
     ELSE /\ watch' = "armed" /\ attempted' = TRUE
          /\ recovering' = IF capturing /\ seen # Nothing THEN recovering \union {seen} ELSE recovering
  /\ UNCHANGED <<route, capturing, requests, seen, made, queue, drains, draining, snapshot,
                 active, index, tiles, work, turns>>

WatchEnds ==
  /\ watch # "off" /\ watch' = "off"
  /\ UNCHANGED <<route, capturing, requests, seen, made, queue, drains, draining, attempted,
                 recovering, snapshot, active, index, tiles, work, turns>>

\* recoverLatestCaptureFromPerformance() after its waits: the response is
\* taken for the route of this moment.
Recovered(r) ==
  /\ r \in recovering /\ recovering' = recovering \ {r}
  /\ IF snapshot = Nothing /\ capturing THEN Ignored \/ Store(r) ELSE Ignored
  /\ UNCHANGED <<route, capturing, requests, seen, made, queue, drains, draining, attempted,
                 active, tiles, flush, turns>>

\* refreshLatestCapture() on a route change: the snapshot goes, the index of
\* an active overlay stays until the next response; the browser's records
\* are those of the whole page.
RouteChanges(listing) ==
  /\ route < MaxRoutes /\ route' = route + 1
  /\ capturing' = listing /\ queue' = <<>> /\ draining' = FALSE /\ snapshot' = Nothing
  /\ attempted' = FALSE
  /\ watch' = IF ~listing THEN "off" ELSE IF seen # Nothing THEN "due" ELSE "armed"
  /\ UNCHANGED <<requests, seen, made, drains, recovering, active, index, tiles, work, turns>>

(******************************* The overlay *******************************)
Enable ==
  /\ ~active /\ active' = TRUE
  /\ LET records == IF snapshot = Nothing THEN index ELSE snapshot.of
     IN  index' = records /\ NextGeneration(Patches(Unmodified, records, setting))
  /\ cached' = setting /\ mixed' = FALSE /\ fresh' = {}
  /\ UNCHANGED <<capture, snapshot, shown, painted, setting, due, flush, turns>>

\* Faulty variant: the generation is not advanced.
PaintOn == KeepGeneration({})

\* disableLatestOverlay() advances the generation before it clears the tiles.
StopPainting == NextGeneration({})

Disable ==
  /\ active /\ Turn /\ active' = FALSE /\ index' = {}
  /\ StopPainting
  /\ painted' = [t \in Tiles |-> None] /\ mixed' = FALSE /\ fresh' = {}
  /\ UNCHANGED <<capture, snapshot, shown, setting, due, flush, cached>>

\* The site replaces, adds or removes a tile; its patches find it no more.
Without(b, t) == [x \in DOMAIN b \ {t} |-> b[x]]

TileChanges(t) ==
  /\ Turn
  /\ painted' = [painted EXCEPT ![t] = None]
  /\ batches' = {Without(b, t) : b \in batches} \ {<<>>}
  /\ pending' = pending \ {t}
  /\ \/ shown' = shown \union {t} /\ fresh' = IF active THEN fresh \union {t} ELSE fresh
     \/ t \in shown /\ shown' = shown \ {t} /\ fresh' = fresh \ {t}
  /\ UNCHANGED <<capture, snapshot, active, index, flush, cached, setting, due, mixed>>

\* The observer's callback and processMutations().
Observe ==
  /\ fresh # {} /\ fresh' = {}
  /\ pending' = pending \union fresh /\ flush' = TRUE
  /\ UNCHANGED <<capture, snapshot, active, index, shown, painted, setting, due, mixed,
                 batches, cached, turns>>

Flush ==
  /\ flush /\ flush' = FALSE /\ pending' = {}
  /\ batches' = batches \union Patches(pending \intersect Unmodified, index, cached)
  /\ UNCHANGED <<capture, snapshot, active, index, tiles, cached, turns>>

\* applyTilePatch() of one tile of a batch.
Paint(b) ==
  /\ \E t \in DOMAIN b :
       /\ painted' = [painted EXCEPT ![t] = b[t]]
       /\ batches' = ((batches \ {b}) \union {Without(b, t)}) \ {<<>>}
  /\ UNCHANGED <<capture, snapshot, active, index, shown, fresh, pending, flush, cached,
                 setting, due, mixed, turns>>

SettingChanges ==
  /\ Turn /\ setting' \in Settings \ {setting} /\ due' = TRUE
  /\ UNCHANGED <<capture, snapshot, active, index, shown, fresh, painted, mixed, work>>

\* reprocessAllTiles(): every tile is cleared and evaluated again, in the
\* same generation.
Reprocess ==
  /\ due /\ due' = FALSE /\ cached' = setting
  /\ painted' = [t \in Tiles |-> None]
  /\ batches' = batches \union Patches(shown, index, setting)
  /\ mixed' = (batches # {})
  /\ UNCHANGED <<capture, snapshot, active, index, shown, fresh, setting, pending, flush, turns>>

Next ==
  \/ \E u \in Urls : Request(u)
  \/ \E r \in Response : Respond(r) \/ Recovered(r)
  \/ Drain \/ DrainEnds \/ Recover \/ WatchEnds
  \/ \E listing \in BOOLEAN : RouteChanges(listing)
  \/ Enable \/ Disable \/ Observe \/ Flush \/ SettingChanges \/ Reprocess
  \/ \E t \in Tiles : TileChanges(t)
  \/ \E b \in batches : Paint(b)

Spec == Init /\ [][Next]_vars

(******************************** Properties *******************************)
AtRest == batches = {} /\ fresh = {} /\ pending = {} /\ ~due

\* The tiles tell what the records say: a disabled overlay leaves no
\* decoration, although batches ran over several frames; an active one has
\* indexed the response that was captured, before or after it was enabled;
\* and once it rests, every tile with a record shows the present settings,
\* whatever settings, tiles and responses changed on the way -- unless a
\* reprocess met a running batch, which goes on painting what it had found
\* (tileProcessor.js:58).
TilesShowTheirRecords ==
  /\ queue # <<>> => drains > 0
  /\ ~active => batches = {} /\ \A t \in Tiles : painted[t] = None
  /\ active /\ snapshot # Nothing => index = snapshot.of
  /\ active /\ AtRest /\ ~mixed =>
       \A t \in shown \intersect index :
         painted[t] = IF setting = "plain" THEN None ELSE setting
=============================================================================
