----------------------------- MODULE SiteRepair -----------------------------
(* The Site Repair add-on in one tab: its operations on the shared runtime,   *)
(* the modules they start and stop, and the repair of attachment images with  *)
(* its records, timers and indicator.                                         *)
(*                                                                            *)
(* Only the storage keeps the add-on waiting.  rt.on is the app's "enabled".  *)
(* The repair of the Latest page's requests is AjaxRepair; here it is on or   *)
(* off.                                                                       *)
EXTENDS AddonRuntime, FiniteSetsExt

CONSTANTS
  Images,
  Limits,     \* the retry limits a user may choose
  MaxEvents,  \* bound: commands of the core and changes of the panel
  MaxFaults,  \* bound: requests that the core refuses
  MaxLoads    \* bound: answers to the requests for images

VARIABLES
  rt,
  boot,      \* bootstrap(): "new", "reading", "done"
  route,     \* "thread" or "latest"
  allowed,   \* the add-on is switched on in the core
  stored,    \* its settings in the core's storage
  settings,
  core,      \* what the core has of it: its style, its observer
  started,   \* startedModules
  ajax,      \* the repair of the Latest page is on
  repairing, \* imageRepair is enabled
  limit,     \* configuredMaxAttempts
  image,     \* the images of the page
  nodes,     \* images the observer has yet to report
  record,    \* records and their timers
  indicator, \* how many images the indicator speaks of
  asked,     \* how often an image was asked for again
  given,     \* images that were given up
  silent,    \* a record went without a report
  late,      \* a command was there before bootstrap() had read the storage
  events, faults, loads

vars == <<rt, boot, route, allowed, stored, settings, core, started, ajax, repairing, limit, image, nodes,
          record, indicator, asked, given, silent, late, events, faults, loads>>
modules == <<core, started, ajax, repairing, limit, record, indicator, asked, given, silent>>
imageVars == <<record, indicator, asked, given, silent>>
world == <<route, image, nodes>>

Settings == [on : BOOLEAN, images : BOOLEAN, max : Limits]
Defaults == [on |-> TRUE, images |-> TRUE, max |-> CHOOSE n \in Limits : \A m \in Limits : m <= n]
NoCore == [style |-> FALSE, watch |-> FALSE]
NoRecord == [has |-> FALSE, attempt |-> 0, active |-> FALSE, timer |-> "none"]
NoImage == [there |-> FALSE, look |-> "none"]

Init ==
  /\ rt = NewRuntime /\ boot = "new"
  /\ route \in {"thread", "latest"} /\ allowed \in BOOLEAN
  /\ stored \in Settings /\ settings = Defaults
  /\ core = NoCore /\ started = {} /\ ajax = FALSE
  /\ repairing = FALSE /\ limit = Defaults.max
  /\ image = [i \in Images |-> NoImage] /\ nodes = {}
  /\ record = [i \in Images |-> NoRecord] /\ indicator = 0
  /\ asked = [i \in Images |-> 0] /\ given = {} /\ silent = FALSE /\ late = FALSE
  /\ events = 0 /\ faults = 0 /\ loads = 0

\* The queue of the runtime goes on before another task begins.
NewTask == ~Startable(rt)
Counted == NewTask /\ events < MaxEvents /\ events' = events + 1
Refused == faults < MaxFaults /\ faults' = faults + 1

-----------------------------------------------------------------------------
(* The repair of images.                                                      *)

Pending(records) == Cardinality({i \in Images : records[i].active})

\* onProgress().
Reported == indicator' = Pending(record') /\ silent' = FALSE

\* Faulty variant: its timer goes on.
DetachedTicking(i) == record' = [record EXCEPT ![i] = [NoRecord EXCEPT !.timer = record[i].timer]]

\* detach().
Detached(i) == record' = [record EXCEPT ![i] = NoRecord]

\* Faulty variant: the indicator is not told.
FinishQuietly(i, result) ==
  /\ Detached(i) /\ UNCHANGED <<indicator, silent>>
  /\ given' = IF result = "success" THEN given ELSE given \union {i}

\* finish().
Finish(i, result) ==
  /\ Detached(i)
  /\ given' = IF result = "success" THEN given ELSE given \union {i}
  /\ Reported

\* scheduleRetry(): the timer of the record is set anew.
ScheduleRetry(i) ==
  /\ asked' = asked
  /\ CASE ~image'[i].there -> Detached(i) /\ Reported /\ UNCHANGED given
       [] image'[i].there /\ record[i].attempt >= limit -> Finish(i, "exhausted")
       [] OTHER -> /\ record' = [record EXCEPT ![i].active = TRUE, ![i].timer = "retry"]
                   /\ Reported /\ UNCHANGED given

\* Faulty variant: only images that are still loading are watched.
NewRecordOfLoading(i) ==
  IF image[i].look # "loading" THEN NoRecord ELSE [NoRecord EXCEPT !.has = TRUE]

\* The record that attach() makes of an image, and the timer it starts with.
NewRecord(i) ==
  CASE image[i].look = "ok" -> NoRecord
    [] image[i].look = "broken" -> [has |-> TRUE, attempt |-> 0, active |-> TRUE, timer |-> "retry"]
    [] OTHER -> [has |-> TRUE, attempt |-> 0, active |-> FALSE, timer |-> "none"]

\* start(): every image of the document.
StartImages ==
  /\ repairing' = TRUE /\ limit' = settings'.max
  /\ record' = [i \in Images |-> IF image[i].there /\ ~record[i].has THEN NewRecord(i) ELSE record[i]]
  /\ Reported

\* The observer reports a new image.
Observed(i) ==
  /\ NewTask /\ i \in nodes /\ nodes' = nodes \ {i}
  /\ IF core.watch /\ rt.bound /\ repairing /\ ~record[i].has
     THEN /\ record' = [record EXCEPT ![i] = NewRecord(i)]
          /\ IF record'[i].active THEN Reported ELSE UNCHANGED <<indicator, silent>>
     ELSE UNCHANGED <<record, indicator, silent>>
  /\ UNCHANGED <<rt, boot, route, allowed, stored, settings, core, started, ajax, repairing, limit, image,
                 asked, given, late, events, faults, loads>>

\* The site shows another image.
Appears(i) ==
  /\ NewTask /\ image[i] = NoImage
  /\ image' = [image EXCEPT ![i] = [there |-> TRUE, look |-> "loading"]]
  /\ nodes' = IF core.watch THEN nodes \union {i} ELSE nodes
  /\ UNCHANGED <<rt, boot, route, allowed, stored, settings, modules, late, events, faults, loads>>

\* The site takes it away; its request goes on.
Leaves(i) ==
  /\ NewTask /\ image[i].there
  /\ image' = [image EXCEPT ![i].there = FALSE]
  /\ UNCHANGED <<rt, boot, route, allowed, stored, settings, modules, nodes, late, events, faults, loads>>

\* The request for an image is answered: onLoad() or onError().
Settles(i, look) ==
  /\ NewTask /\ image[i].look = "loading" /\ loads < MaxLoads /\ loads' = loads + 1
  /\ image' = [image EXCEPT ![i].look = look]
  /\ CASE ~record[i].has -> UNCHANGED imageVars
       [] record[i].has /\ look = "broken" -> ScheduleRetry(i)
       [] OTHER -> /\ IF record[i].active THEN Finish(i, "success")
                      ELSE Detached(i) /\ UNCHANGED <<indicator, given, silent>>
                   /\ UNCHANGED asked
  /\ UNCHANGED <<rt, boot, route, allowed, stored, settings, core, started, ajax, repairing, limit, nodes,
                 late, events, faults>>

\* retry(): the image is asked for once more, and looked at later.  One that
\* is gone is forgotten without a report.
Retry(i) ==
  /\ CASE ~image[i].there ->
            Detached(i) /\ silent' = TRUE /\ UNCHANGED <<image, indicator, asked, given>>
       [] image[i].there /\ record[i].attempt >= limit -> Finish(i, "exhausted") /\ UNCHANGED <<image, asked>>
       [] OTHER ->
            /\ record' = [record EXCEPT ![i].attempt = @ + 1, ![i].timer = "inspect"]
            /\ asked' = [asked EXCEPT ![i] = @ + 1]
            /\ image' = [image EXCEPT ![i].look = "loading"]
            /\ Reported /\ UNCHANGED given

\* inspect().
Inspect(i) ==
  /\ UNCHANGED image
  /\ IF image[i].there /\ image[i].look = "ok" THEN Finish(i, "success") /\ UNCHANGED asked
     ELSE ScheduleRetry(i)

\* A timer of the scheduler, long after the observer has reported.
TimerFires(i) ==
  /\ NewTask /\ nodes = {} /\ record[i].timer # "none"
  /\ IF record[i].timer = "retry" THEN Retry(i) ELSE Inspect(i)
  /\ UNCHANGED <<rt, boot, route, allowed, stored, settings, core, started, ajax, repairing, limit, nodes,
                 late, events, faults, loads>>

-----------------------------------------------------------------------------
(* The modules.                                                               *)

\* imageRepair.stop() and ui.destroy().
NoImages ==
  /\ repairing' = FALSE /\ record' = [i \in Images |-> NoRecord]
  /\ indicator' = 0 /\ asked' = [i \in Images |-> 0] /\ given' = {} /\ silent' = FALSE
  /\ UNCHANGED limit

\* Faulty variant: the observer goes on.
StopWatchingOn ==
  /\ core' = [core EXCEPT !.style = @ /\ "style" \notin started]
  /\ started' = {} /\ ajax' = FALSE /\ NoImages

\* stopModules().
StopModules ==
  /\ core' = [style |-> core.style /\ "style" \notin started, watch |-> core.watch /\ "watch" \notin started]
  /\ started' = {} /\ ajax' = FALSE /\ NoImages

WantsImages == settings'.on /\ settings'.images /\ route = "thread"

\* Faulty variant: the images are looked at wherever the page is.
StartAnywhere ==
  /\ core' = [style |-> TRUE, watch |-> TRUE] /\ started' = {"style", "images", "watch"}
  /\ StartImages /\ UNCHANGED <<ajax, asked, given>>

\* startApplicableModules() goes through.
Start ==
  IF rt.on /\ WantsImages
  THEN /\ core' = [style |-> TRUE, watch |-> TRUE] /\ started' = {"style", "images", "watch"}
       /\ StartImages /\ UNCHANGED <<ajax, asked, given>>
  ELSE /\ ajax' = (ajax \/ (rt.on /\ settings'.on /\ route = "latest" /\ allowed))
       /\ UNCHANGED <<core, started, repairing, limit, imageVars>>

-----------------------------------------------------------------------------
(* Commands and operations.                                                   *)

Stored == IF allowed THEN stored ELSE Defaults

\* bootstrap() to its first wait.
Boot ==
  /\ boot = "new"
  /\ rt' = [rt EXCEPT !.booted = TRUE, !.bound = TRUE, !.on = allowed]
  /\ boot' = IF allowed THEN "reading" ELSE "done"
  /\ UNCHANGED <<world, allowed, stored, settings, modules, late, events, faults, loads>>

\* The rest of it, whatever the core has commanded in the meantime; the switch
\* of its own is read before or after a disable has stored it.
Booted ==
  /\ boot = "reading" /\ NewTask
  /\ boot' = "done" /\ settings' = Stored
  /\ \E on \in {TRUE, rt.state # "disabled"} :
       rt' = IF on THEN Command([rt EXCEPT !.on = TRUE], "enable") ELSE [rt EXCEPT !.on = FALSE]
  /\ late' = (rt.state # "new")
  /\ UNCHANGED <<world, allowed, stored, modules, events, faults, loads>>

\* The core sends a refresh after a change in its panel, and an enable when
\* the user switches the add-on on.
CoreSends(kind) ==
  /\ Counted /\ kind \in {"enable", "refresh"}
  /\ IF kind = "enable" THEN allowed' = TRUE /\ UNCHANGED stored
     ELSE allowed /\ stored' \in Settings \ {stored} /\ UNCHANGED allowed
  /\ rt' = Receive(rt, kind)
  /\ UNCHANGED <<boot, world, settings, modules, late, faults, loads>>

\* A disable and a teardown: the core clears what it has of the add-on at once.
CoreEnds(kind) ==
  /\ Counted /\ kind \in {"disable", "teardown"} /\ ~rt.terminal
  /\ allowed' = (allowed /\ kind = "teardown")
  /\ rt' = Receive(rt, kind) /\ core' = NoCore
  /\ UNCHANGED <<boot, world, stored, settings, started, ajax, repairing, limit, imageVars, late, faults,
                 loads>>

\* Each to its first wait; a teardown has none.
BeginOp ==
  /\ Startable(rt)
  /\ LET r == Begin(rt)
     IN  CASE ~Busy(r) -> rt' = r /\ UNCHANGED modules
           [] r.active.kind = "enable" -> rt' = [r EXCEPT !.on = TRUE] /\ UNCHANGED modules
           [] r.active.kind = "refresh" -> rt' = r /\ StopModules
           [] r.active.kind = "disable" -> rt' = [r EXCEPT !.on = FALSE] /\ StopModules
           [] OTHER -> rt' = [Succeed(r) EXCEPT !.on = FALSE, !.bound = FALSE] /\ StopModules
  /\ UNCHANGED <<boot, world, allowed, stored, settings, late, events, faults, loads>>

Loading == rt.active.kind \in {"enable", "refresh"}

\* The settings are there, or the read was refused, which means the defaults.
SettingsRead ==
  \/ settings' = Stored /\ UNCHANGED faults
  \/ allowed /\ settings' = Defaults /\ Refused

Loaded ==
  /\ Loading /\ SettingsRead
  /\ IF IsCurrent(rt) THEN rt.on /\ WantsImages => allowed ELSE TRUE
  /\ rt' = Succeed(rt)
  /\ IF IsCurrent(rt) THEN Start ELSE UNCHANGED modules
  /\ UNCHANGED <<boot, world, allowed, stored, late, events, loads>>

\* The style or the observer is refused: the modules are stopped again.
StartRefused ==
  /\ Loading /\ IsCurrent(rt) /\ settings' = Stored /\ rt.on /\ WantsImages
  /\ IF allowed THEN Refused ELSE UNCHANGED faults
  /\ rt' = Throw(rt) /\ StopModules
  /\ UNCHANGED <<boot, world, allowed, stored, late, events, loads>>

\* The switch of its own that onDisable() stores.
Disabled ==
  /\ rt.active.kind = "disable"
  /\ rt' = Succeed(rt)
  /\ UNCHANGED <<boot, world, allowed, stored, settings, modules, late, events, faults, loads>>

Next ==
  \/ Boot \/ Booted
  \/ \E kind \in Kinds : CoreSends(kind) \/ CoreEnds(kind)
  \/ BeginOp \/ Loaded \/ StartRefused \/ Disabled
  \/ \E i \in Images :
       \/ Observed(i) \/ Appears(i) \/ Leaves(i) \/ TimerFires(i)
       \/ \E look \in {"ok", "broken"} : Settles(i, look)

Spec == Init /\ [][Next]_vars

-----------------------------------------------------------------------------
(* Properties.                                                                *)

\* Every variable has its type.
TypeOK ==
  /\ RuntimeOK(rt, MaxEvents + 1) /\ boot \in {"new", "reading", "done"}
  /\ {allowed, ajax, repairing, silent, late} \subseteq BOOLEAN
  /\ stored \in Settings /\ settings \in Settings /\ limit \in Limits
  /\ started \subseteq {"style", "images", "watch"} /\ nodes \union given \subseteq Images
  /\ record \in [Images -> [has : BOOLEAN, attempt : 0 .. Defaults.max, active : BOOLEAN,
                            timer : {"none", "retry", "inspect"}]]
  /\ image \in [Images -> [there : BOOLEAN, look : {"none", "loading", "ok", "broken"}]]
  /\ indicator \in 0 .. Cardinality(Images)

Quiet == Resting(rt) /\ boot = "done"

\* When all is over and the add-on is off, or has failed, nothing of it is
\* left: no style, observer, timer or indicator, and the site's own requests.
GoneWhenOff ==
  Quiet /\ (~rt.on \/ rt.terminal \/ rt.state \in {"failed", "disabled"}) =>
    /\ core = NoCore /\ started = {} /\ ~ajax /\ ~repairing /\ indicator = 0
    /\ \A i \in Images : record[i] = NoRecord

\* When all is over and it is enabled, the repairs run that the settings in
\* use and the page call for, with what they need from the core.
RunsWhatIsWanted ==
  Quiet /\ rt.state = "enabled" /\ rt.on /\ allowed /\ ~late =>
    LET wanted == settings.on /\ settings.images /\ route = "thread"
    IN  /\ repairing <=> wanted
        /\ core.watch <=> wanted
        /\ core.style <=> wanted
        /\ ajax <=> settings.on /\ route = "latest"

\* While images are repaired, a broken one in the page that the observer has
\* reported has its timer, or was given up after as many requests as allowed.
NoImageForgotten ==
  repairing /\ core.watch =>
    \A i \in Images \ nodes :
      image[i].there /\ image[i].look = "broken" =>
        record[i].timer # "none" \/ (i \in given /\ asked[i] >= limit)

\* No image is asked for more often than the limit, however its events, timers
\* and reports meet; and a record without a repair has no timer.
AskedWithinLimit ==
  \A i \in Images : asked[i] <= limit /\ (record[i].timer # "none" => repairing /\ record[i].active)

\* The indicator speaks of the images under repair, unless one has left the
\* page since.
IndicatorIsTrue == ~silent => indicator = Pending(record)
=============================================================================
