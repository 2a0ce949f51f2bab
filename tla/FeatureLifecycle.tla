-------------------------- MODULE FeatureLifecycle --------------------------
(***************************************************************************)
(* The page runtime: main.js starts two bootstrap pipelines, loader.js     *)
(* enables the features of the page, core/routeObserver.js reconciles them *)
(* when the site moves to another page without loading it, the settings    *)
(* effects call sync(), core/pageLifecycle.js suspends, resumes or tears   *)
(* everything down.  Each feature runs its transitions one at a time       *)
(* (core/featureFactory.js); its handlers hold a shared style and register *)
(* observers and listeners.                                                *)
(*                                                                         *)
(* One thread.  micro is the microtask queue, first in first out; a job    *)
(* with hops > 0 stands for the promise reactions that only pass a value   *)
(* on and re-queues itself that many times.  Timers, frames and events     *)
(* (the actions guarded by Idle) happen when it is empty: that the site's  *)
(* own script navigates between two of our microtasks is left out.  The    *)
(* handlers of every generated feature are synchronous, so OP_TIMEOUT      *)
(* never fires.                                                            *)
(***************************************************************************)
EXTENDS Naturals, Sequences

CONSTANTS
  Order,            \* the registered features, in catalog order
  Defaults,         \* those that are on before a configuration is loaded
  Debounced,        \* those whose settings effect is a debounced sync()
  Refreshable,      \* those that other settings sync() too
  Styles, StyleOf,  \* the style of each feature that has one
  Pages, InScope,   \* the features whose page scope holds on a page
  MaxMoves, MaxEdits, MaxHides, MaxFaults \* bounds

Features == {Order[i] : i \in DOMAIN Order}

NoPage == "none"

\* No feature has the name of a pipeline or of the route's task.
ASSUME LifecycleAssumption ==
  /\ Order \in Seq(Features)
  /\ \A i, j \in DOMAIN Order : Order[i] = Order[j] => i = j
  /\ Features \cap {"fast", "main", "route"} = {}
  /\ NoPage \notin Pages
  /\ Defaults \subseteq Features /\ Debounced \subseteq Features /\ Refreshable \subseteq Features
  /\ DOMAIN StyleOf \subseteq Features
  /\ \A f \in DOMAIN StyleOf : StyleOf[f] \in Styles
  /\ InScope \in [Pages -> SUBSET Features]
  /\ MaxMoves \in Nat /\ MaxEdits \in Nat /\ MaxHides \in Nat /\ MaxFaults \in Nat

\* The features that share a style have the same page scope, and their settings
\* effect is a plain sync(): features/wide-latest/index.js.
ASSUME SharingAssumption ==
  \A f, g \in DOMAIN StyleOf : f # g /\ StyleOf[f] = StyleOf[g] =>
    /\ f \notin Debounced \cup Refreshable
    /\ \A p \in Pages : f \in InScope[p] <=> g \in InScope[p]

VARIABLES
  storage,  \* what startStorageBootstrap() has come to
  fast,     \* the step the first pipeline is at
  main,     \* the step the pipeline that waits for the body is at
  hooked,   \* pagehide and pageshow have listeners
  watching, \* the route observer is installed
  runtime,  \* runtimeState
  frozen,   \* the page is in the back/forward cache
  tear,     \* how far teardownAll() is
  loc,      \* window.location
  url,      \* currentUrl
  gen,      \* routeGeneration
  cut,      \* the signal of the current route is aborted
  flags,    \* the page detectPage() last set the state for
  notice,   \* pendingContext of the route observer: its generation, or 0
  want,     \* the features the configuration enables
  timers,   \* the debounced effects that are due
  chain,    \* the transitions of each feature that have not settled
  micro,    \* the microtask queue
  loader,   \* what runFrameBudgeted() has left, and its route
  status,   \* what featureHealth holds of each feature
  on,       \* the features whose handler's effects are on the page
  refs,     \* the references the style registry counts
  budget    \* moves, edits, hides and faults so far

bootVars == <<storage, fast, main, hooked, watching>>
runVars == <<runtime, frozen, tear>>
routeVars == <<url, gen, cut>>
featureVars == <<status, on, refs>>
vars == <<bootVars, runVars, routeVars, loc, flags, notice, want, timers,
          chain, micro, loader, featureVars, budget>>

Scope == IF flags = NoPage THEN {} ELSE InScope[flags]

Transition(action, route) == [action |-> action, route |-> route]
Job(do, who, hops) == [do |-> do, who |-> who, hops |-> hops]

Init ==
  /\ storage = "pending" /\ fast = "storage" /\ main = "body"
  /\ hooked = FALSE /\ watching = FALSE
  /\ runtime = "starting" /\ frozen = FALSE /\ tear = "none"
  /\ loc \in Pages /\ url = NoPage /\ gen = 0 /\ cut = FALSE
  /\ flags = NoPage
  /\ notice = 0
  /\ want = Defaults
  /\ timers = {}
  /\ chain = [f \in Features |-> <<>>]
  /\ micro = <<>>
  /\ loader = [left |-> <<>>, route |-> 0]
  /\ status = [f \in Features |-> "disabled"]
  /\ on = {}
  /\ refs = [s \in Styles |-> 0]
  /\ budget = [moves |-> 0, edits |-> 0, hides |-> 0, faults |-> 0]

-----------------------------------------------------------------------------
\* Routes: core/routeState.js.
Current(route) == route = gen /\ ~cut
Aborted(route) == route # 0 /\ ~Current(route)

\* Faulty variant: a new route keeps the signal of the one before.
BeginRouteKeepsSignal == url' = loc /\ gen' = gen + 1 /\ cut' = cut

BeginRoute == url' = loc /\ gen' = gen + 1 /\ cut' = FALSE

\* No microtask is left, nor what the pipelines and the teardown do in one.
Idle ==
  /\ micro = <<>> /\ ~frozen /\ tear # "features"
  /\ ~(main = "loading" /\ loader.left = <<>>)

Spend(what, most) ==
  /\ budget[what] < most
  /\ budget' = [budget EXCEPT ![what] = @ + 1]

-----------------------------------------------------------------------------
\* Transitions: core/featureFactory.js.

\* Some of the features, in catalog order.
InOrder ==
  [fs \in SUBSET Features |->
     {s \in UNION {[1..n -> fs] : n \in 0..Len(Order)} :
        /\ {s[i] : i \in DOMAIN s} = fs
        /\ \A i, j \in DOMAIN s : i < j =>
             \E k, l \in DOMAIN Order : k < l /\ Order[k] = s[i] /\ Order[l] = s[j]}]

\* requestTransition(), once or more, for every feature of DOMAIN asked, in
\* catalog order: one with nothing under way begins two microtasks later.
Request(asked, queue) ==
  /\ chain' = [f \in Features |->
                 IF f \in DOMAIN asked THEN chain[f] \o asked[f] ELSE chain[f]]
  /\ \E idle \in InOrder[{f \in DOMAIN asked : chain[f] = <<>>}] :
       micro' = queue \o [i \in DOMAIN idle |-> Job("begin", idle[i], 1)]

\* The effects of one configuration change: sync(), twice if two settings of
\* the feature changed; enable() away from its page only says so.
Sync(fs, wanted, queue) ==
  LET asked == (fs \ wanted) \cup (fs \cap Scope)
      Once(f) == <<Transition(IF f \in wanted THEN "enable" ELSE "disable", 0)>>
  IN  /\ \E twice \in SUBSET ((asked \cap Refreshable) \ Debounced) :
           Request([f \in asked |-> IF f \in twice THEN Once(f) \o Once(f) ELSE Once(f)], queue)
      /\ status' = [f \in Features |->
                      IF f \in fs \ asked THEN "disabled" ELSE status[f]]

\* Faulty variant: a route change starts features and stops none.
ReconcileStartsOnly(page, route, queue) ==
  LET should == want \cap InScope[page]
      start == {f \in should : status[f] # "running"}
  IN  Request([f \in start |-> <<Transition("enable", route)>>], queue)

\* reconcileFeatures(), on the page detected as page.
Reconcile(page, route, queue) ==
  LET should == want \cap InScope[page]
      start == {f \in should : status[f] # "running"}
      stop == {f \in Features \ should : status[f] # "disabled"}
  IN  Request([f \in start \cup stop |->
                 <<Transition(IF f \in start THEN "enable" ELSE "disable", route)>>], queue)

Next1(do) == micro # <<>> /\ Head(micro).hops = 0 /\ Head(micro).do = do
Who == Head(micro).who

\* Reactions that only pass a promise's value on: one, or as many rounds of
\* the queue as every job in it has left.
Hop ==
  /\ micro # <<>> /\ Head(micro).hops > 0
  /\ \/ \E rounds \in {micro[i].hops : i \in DOMAIN micro} \ {0} :
          /\ \A i \in DOMAIN micro : rounds <= micro[i].hops
          /\ micro' = [i \in DOMAIN micro |-> [micro[i] EXCEPT !.hops = @ - rounds]]
     \/ /\ \E i \in DOMAIN micro : micro[i].hops = 0
        /\ micro' = Append(Tail(micro), [Head(micro) EXCEPT !.hops = @ - 1])
  /\ UNCHANGED <<bootVars, runVars, routeVars, loc, flags, notice, want, timers,
                 chain, loader, featureVars, budget>>

\* A transition that is no longer the last requested settles without running.
Superseded(f) ==
  /\ Next1("begin") /\ Who = f
  /\ Len(chain[f]) > 1
  /\ chain' = [chain EXCEPT ![f] = Tail(@)]
  /\ micro' = Append(Tail(micro), Job("begin", f, 3))
  /\ UNCHANGED <<bootVars, runVars, routeVars, loc, flags, notice, want, timers,
                 loader, featureVars, budget>>

Begin(f) ==
  /\ Next1("begin") /\ Who = f
  /\ Len(chain[f]) = 1
  /\ micro' = Append(Tail(micro), Job("handle", f, 0))
  /\ UNCHANGED <<bootVars, runVars, routeVars, loc, flags, notice, want, timers,
                 chain, loader, featureVars, budget>>

\* createStyledFeature()'s enable: the style first, then the feature's own.
Acquired(f) ==
  IF f \in DOMAIN StyleOf THEN [refs EXCEPT ![StyleOf[f]] = @ + 1] ELSE refs

\* Faulty variants: a release below zero, and one that drops the style of all.
ReleasedBelowZero(f) ==
  IF f \in DOMAIN StyleOf THEN [refs EXCEPT ![StyleOf[f]] = @ - 1] ELSE refs

ReleasedForAll(f) ==
  IF f \in DOMAIN StyleOf THEN [refs EXCEPT ![StyleOf[f]] = 0] ELSE refs

\* Its disable gives the style back, whoever acquired it.
Released(f) ==
  IF f \in DOMAIN StyleOf /\ refs[StyleOf[f]] > 0
  THEN [refs EXCEPT ![StyleOf[f]] = @ - 1]
  ELSE refs

\* The handler runs, even under a signal that is aborted already.
Handle(f) ==
  /\ Next1("handle") /\ Who = f
  /\ IF Head(chain[f]).action = "enable"
     THEN on' = on \cup {f} /\ refs' = Acquired(f)
     ELSE on' = on \ {f} /\ refs' = Released(f)
  /\ micro' = Append(Tail(micro), Job("finish", f, 1))
  /\ UNCHANGED <<bootVars, runVars, routeVars, loc, flags, notice, want, timers,
                 chain, loader, status, budget>>

\* Enabling throws half way, with the style and some effects on the page (a
\* listener on a body that is not there yet).
HandlerThrows(f) ==
  /\ Next1("handle") /\ Who = f
  /\ Head(chain[f]).action = "enable"
  /\ Spend("faults", MaxFaults)
  /\ on' = on \cup {f}
  /\ refs' = Acquired(f)
  /\ micro' = Append(Tail(micro), Job("fail", f, 1))
  /\ UNCHANGED <<bootVars, runVars, routeVars, loc, flags, notice, want, timers,
                 chain, loader, status>>

\* The transition settles: cancelled if its route ended or a later one was
\* requested meanwhile.
Finish(f) ==
  /\ Next1("finish") \/ Next1("fail")
  /\ Who = f
  /\ LET t == Head(chain[f])
         cancelled == Aborted(t.route) \/ Len(chain[f]) > 1
     IN  status' = [status EXCEPT ![f] =
           IF cancelled THEN "disabled"
           ELSE IF Next1("fail") THEN "failing"
           ELSE IF t.action = "enable" THEN "running" ELSE "disabled"]
  /\ chain' = [chain EXCEPT ![f] = Tail(@)]
  /\ micro' = Tail(micro)
              \o IF Len(chain[f]) > 1 THEN <<Job("begin", f, 2)>> ELSE <<>>
  /\ UNCHANGED <<bootVars, runVars, routeVars, loc, flags, notice, want, timers,
                 loader, on, refs, budget>>

-----------------------------------------------------------------------------
\* The settings: applyConfigChange() runs the effects of every changed path.
\* A person does not get to the dialog within the few frames of the loading.
Editable ==
  Idle /\ tear = "none" /\ storage = "ready" /\ main = "done" /\ loader.left = <<>>

Toggle(fs) ==
  /\ Editable
  /\ Spend("edits", MaxEdits)
  /\ want' = (want \ fs) \cup (fs \ want)
  /\ timers' = timers \cup (fs \cap Debounced)
  /\ Sync(fs \ Debounced, want', micro)
  /\ UNCHANGED <<bootVars, runVars, routeVars, loc, flags, notice, loader, on, refs>>

\* Another setting of the feature has changed.
Refresh(f) ==
  /\ Editable
  /\ Spend("edits", MaxEdits)
  /\ IF f \in Debounced
     THEN timers' = timers \cup {f} /\ UNCHANGED <<chain, micro, status>>
     ELSE Sync({f}, want, micro) /\ UNCHANGED timers
  /\ UNCHANGED <<bootVars, runVars, routeVars, loc, flags, notice, want, loader, on, refs>>

Debounce(f) ==
  /\ Idle /\ f \in timers
  /\ timers' = timers \ {f}
  /\ Sync({f}, want, micro)
  /\ UNCHANGED <<bootVars, runVars, routeVars, loc, flags, notice, want, loader, on, refs, budget>>

-----------------------------------------------------------------------------
\* The site moves (pushState, replaceState, popstate, hashchange), more than
\* once in one task too: notify() begins the route at once and reconciles in a
\* microtask, once for several.
RouteJob == Job("notify", "route", 0)

Move(page) ==
  /\ Idle \/ micro = <<RouteJob>>
  /\ tear = "none" /\ page # loc
  /\ Spend("moves", MaxMoves)
  /\ loc' = page
  /\ IF watching /\ page # url
     THEN /\ url' = page /\ gen' = gen + 1 /\ cut' = FALSE
          /\ notice' = gen + 1
          /\ micro' = micro \o IF notice = 0 THEN <<RouteJob>> ELSE <<>>
     ELSE UNCHANGED <<routeVars, notice, micro>>
  /\ UNCHANGED <<bootVars, runVars, flags, want, timers, chain, loader, featureVars>>

Notify ==
  /\ Next1("notify")
  /\ notice' = 0
  /\ IF Current(notice)
     THEN flags' = loc /\ Reconcile(loc, notice, Tail(micro))
     ELSE micro' = Tail(micro) /\ UNCHANGED <<flags, chain>>
  /\ UNCHANGED <<bootVars, runVars, routeVars, loc, want, timers, loader, featureVars, budget>>

-----------------------------------------------------------------------------
\* The bootstrap: main.js and core/bootstrap.js.

\* A pipeline that waited for the storage goes on.
Resume(p, step) == IF step = "storage" THEN <<Job("step", p, 8)>> ELSE <<>>

\* The storage bootstrap settles.  A load applies the stored configuration,
\* with its effects, before the pipelines that wait for it go on.
StorageReady ==
  /\ Idle /\ storage = "pending"
  /\ storage' = "ready"
  /\ want' \in SUBSET Features
  /\ LET changed == (want \ want') \cup (want' \ want)
     IN  /\ timers' = timers \cup (changed \cap Debounced)
         /\ Sync(changed \ Debounced, want', Resume("fast", fast) \o Resume("main", main))
  /\ fast' = IF fast = "storage" THEN "beginRoute" ELSE fast
  /\ main' = IF main = "storage" THEN "detectPage" ELSE main
  /\ UNCHANGED <<hooked, watching, runVars, routeVars, loc, flags, notice, loader, on, refs, budget>>

\* The probe or the load fails, or the store is a newer release's.
StorageUnavailable ==
  /\ Idle /\ storage = "pending"
  /\ storage' \in {"unavailable", "upgrade"}
  /\ fast' = IF fast = "storage" THEN "failed" ELSE fast
  /\ main' = IF main = "storage" THEN "failed" ELSE main
  /\ UNCHANGED <<hooked, watching, runVars, routeVars, loc, flags, notice, want, timers,
                 chain, micro, loader, featureVars, budget>>

\* A required step times out: its pipeline stops, the storage goes on.
StorageLate ==
  /\ Idle /\ storage = "pending"
  /\ \/ fast = "storage" /\ fast' = "failed" /\ UNCHANGED main
     \/ main = "storage" /\ main' = "failed" /\ UNCHANGED fast
  /\ UNCHANGED <<storage, hooked, watching, runVars, routeVars, loc, flags, notice, want,
                 timers, chain, micro, loader, featureVars, budget>>

\* Faulty variant: the second pipeline waits for a storage state that never comes.
BodyReadyAlwaysWaits ==
  /\ Idle /\ main = "body"
  /\ main' = "storage"
  /\ UNCHANGED <<storage, fast, hooked, watching, runVars, routeVars, loc, flags, notice,
                 want, timers, chain, micro, loader, featureVars, budget>>

\* The body is there: the second pipeline asks for the storage, and a state
\* that is terminal already answers at once, "unavailable" too; one that needs
\* an upgrade refuses again.
BodyReady ==
  /\ Idle /\ main = "body"
  /\ main' = CASE storage = "pending" -> "storage"
               [] storage = "upgrade" -> "failed"
               [] OTHER -> "detectPage"
  /\ micro' = IF main' = "detectPage" THEN Append(micro, Job("step", "main", 3)) ELSE micro
  /\ UNCHANGED <<storage, fast, hooked, watching, runVars, routeVars, loc, flags, notice,
                 want, timers, chain, loader, featureVars, budget>>

\* detectPage(): the result is dropped under a route that has ended.
Detect == flags' = IF gen > 0 /\ cut THEN flags ELSE loc

StepBeginRoute ==
  /\ Next1("step") /\ Who = "fast" /\ fast = "beginRoute"
  /\ IF loc = url THEN UNCHANGED routeVars ELSE BeginRoute
  /\ fast' = "detectPage"
  /\ micro' = Append(Tail(micro), Job("step", "fast", 3))
  /\ UNCHANGED <<storage, main, hooked, watching, runVars, loc, flags, notice, want, timers,
                 chain, loader, featureVars, budget>>

StepDetectPage(p) ==
  /\ Next1("step") /\ Who = p
  /\ IF p = "fast"
     THEN fast = "detectPage" /\ fast' = "hooks" /\ UNCHANGED main
     ELSE main = "detectPage" /\ main' = "load" /\ UNCHANGED fast
  /\ Detect
  /\ micro' = Append(Tail(micro), Job("step", p, IF p = "fast" THEN 7 ELSE 11))
  /\ UNCHANGED <<storage, hooked, watching, runVars, routeVars, loc, notice, want, timers,
                 chain, loader, featureVars, budget>>

StepHooks ==
  /\ Next1("step") /\ Who = "fast" /\ fast = "hooks"
  /\ hooked' = TRUE
  /\ fast' = "observer"
  /\ micro' = Append(Tail(micro), Job("step", "fast", 7))
  /\ UNCHANGED <<storage, main, watching, runVars, routeVars, loc, flags, notice, want, timers,
                 chain, loader, featureVars, budget>>

\* Recoverable: without the observer the pipeline ends degraded.
StepObserver ==
  /\ Next1("step") /\ Who = "fast" /\ fast = "observer"
  /\ fast' = "done"
  /\ \/ watching' = TRUE /\ UNCHANGED budget
     \/ watching' = FALSE /\ Spend("faults", MaxFaults)
  /\ micro' = Tail(micro)
  /\ UNCHANGED <<storage, main, hooked, runVars, routeVars, loc, flags, notice, want, timers,
                 chain, loader, featureVars>>

\* runFrameBudgeted(): enables the next features, at least one, until the
\* frame's budget is spent; nothing more once the route has ended.
LoadChunk(left, route, queue) ==
  IF Aborted(route)
  THEN /\ loader' = [left |-> <<>>, route |-> route]
       /\ micro' = queue
       /\ UNCHANGED <<chain, status>>
  ELSE \E k \in 1..Len(left) :
         LET now == {left[i] : i \in 1..k} \cap want \cap Scope
         IN  /\ loader' = [left |-> SubSeq(left, k + 1, Len(left)), route |-> route]
             /\ Request([f \in now |-> <<Transition("enable", route)>>], queue)
             /\ UNCHANGED status

StepLoad ==
  /\ Next1("step") /\ Who = "main" /\ main = "load"
  /\ main' = "loading"
  /\ LoadChunk(Order, gen, Tail(micro))
  /\ UNCHANGED <<storage, fast, hooked, watching, runVars, routeVars, loc, flags, notice, want,
                 timers, on, refs, budget>>

Frame ==
  /\ Idle /\ loader.left # <<>>
  /\ LoadChunk(loader.left, loader.route, micro)
  /\ UNCHANGED <<bootVars, runVars, routeVars, loc, flags, notice, want, timers, on, refs, budget>>

\* The pipeline is over when every feature has settled, or its last step timed
\* out because no frame came; the loader goes on in that case.
MarkRunning ==
  runtime' = IF runtime \in {"stopped", "suspended"} THEN runtime ELSE "running"

Loaded ==
  /\ micro = <<>> /\ ~frozen /\ main = "loading"
  /\ main' = "done"
  /\ MarkRunning
  /\ UNCHANGED <<storage, fast, hooked, watching, frozen, tear, routeVars, loc, flags, notice,
                 want, timers, chain, micro, loader, featureVars, budget>>

-----------------------------------------------------------------------------
\* Leaving and coming back: core/pageLifecycle.js and core/teardown.js.
Hide ==
  /\ Idle /\ tear = "none"
  /\ Spend("hides", MaxHides)
  /\ frozen' = TRUE
  /\ IF hooked THEN cut' = TRUE /\ runtime' = "suspended" ELSE UNCHANGED <<cut, runtime>>
  /\ UNCHANGED <<bootVars, tear, loc, url, gen, flags, notice, want, timers, chain, micro,
                 loader, featureVars>>

Show ==
  /\ frozen
  /\ frozen' = FALSE
  /\ IF hooked
     THEN /\ BeginRoute
          /\ runtime' = "running"
          /\ flags' = loc
          /\ Reconcile(loc, gen + 1, micro)
     ELSE UNCHANGED <<runtime, routeVars, flags, chain, micro>>
  /\ UNCHANGED <<bootVars, tear, loc, notice, want, timers, loader, featureVars, budget>>

\* Faulty variant: the route goes on while the page is left.
LeaveKeepsRoute ==
  /\ Idle /\ hooked /\ tear = "none"
  /\ runtime' = "stopping" /\ tear' = "features"
  /\ Request([f \in Features |-> <<Transition("disable", 0)>>], micro)
  /\ UNCHANGED <<bootVars, frozen, loc, url, gen, cut, flags, notice, want, timers, loader,
                 featureVars, budget>>

\* teardownAll(): the route and the queues end first, then every feature is
\* disabled, then whatever they left in the registries is released.
Leave ==
  /\ Idle /\ hooked /\ tear = "none"
  /\ runtime' = "stopping" /\ tear' = "features" /\ cut' = TRUE
  /\ Request([f \in Features |-> <<Transition("disable", 0)>>], micro)
  /\ UNCHANGED <<bootVars, frozen, loc, url, gen, flags, notice, want, timers, loader,
                 featureVars, budget>>

\* Faulty variant: the debounced effects stay scheduled.
StopKeepsTimers ==
  /\ micro = <<>> /\ tear = "features"
  /\ tear' = "done" /\ runtime' = "stopped"
  /\ hooked' = FALSE /\ watching' = FALSE
  /\ refs' = [s \in Styles |-> 0]
  /\ UNCHANGED <<storage, fast, main, frozen, routeVars, loc, flags, notice, want, timers,
                 chain, micro, loader, status, on, budget>>

Stop ==
  /\ micro = <<>> /\ tear = "features"
  /\ tear' = "done" /\ runtime' = "stopped"
  /\ hooked' = FALSE /\ watching' = FALSE
  /\ timers' = {}
  /\ refs' = [s \in Styles |-> 0]
  /\ UNCHANGED <<storage, fast, main, frozen, routeVars, loc, flags, notice, want, chain, micro,
                 loader, status, on, budget>>

-----------------------------------------------------------------------------
Transitions ==
  Hop \/ \E f \in Features :
    Superseded(f) \/ Begin(f) \/ Handle(f) \/ HandlerThrows(f) \/ Finish(f)

Microtask ==
  Transitions \/ Notify \/ StepBeginRoute \/ StepHooks \/ StepObserver \/ StepLoad
  \/ \E p \in {"fast", "main"} : StepDetectPage(p)

Boot == StorageReady \/ StorageUnavailable \/ BodyReady \/ Frame \/ Loaded \/ Stop

Events ==
  \/ StorageLate \/ Hide \/ Show \/ Leave
  \/ \E page \in Pages : Move(page)
  \/ \E fs \in SUBSET Features \ {{}} : Toggle(fs)
  \/ \E f \in Refreshable : Refresh(f)
  \/ \E f \in Debounced : Debounce(f)

Next == Microtask \/ Boot \/ Events

Spec == Init /\ [][Next]_vars

FairSpec ==
  /\ Spec
  /\ WF_vars(Microtask)
  /\ WF_vars(StorageReady \/ StorageUnavailable)
  /\ WF_vars(BodyReady) /\ WF_vars(Frame) /\ WF_vars(Loaded) /\ WF_vars(Stop)
  /\ WF_vars(Show)
  /\ \A f \in Debounced : WF_vars(Debounce(f))

-----------------------------------------------------------------------------
BootType ==
  /\ storage \in {"pending", "ready", "unavailable", "upgrade"}
  /\ fast \in {"storage", "beginRoute", "detectPage", "hooks", "observer", "done", "failed"}
  /\ main \in {"body", "storage", "detectPage", "load", "loading", "done", "failed"}
  /\ hooked \in BOOLEAN /\ watching \in BOOLEAN

RunType ==
  /\ runtime \in {"starting", "running", "suspended", "stopping", "stopped"}
  /\ frozen \in BOOLEAN /\ tear \in {"none", "features", "done"}

RouteType ==
  /\ loc \in Pages /\ url \in Pages \cup {NoPage} /\ flags \in Pages \cup {NoPage}
  /\ gen \in 0..(1 + MaxMoves + MaxHides) /\ notice \in 0..gen /\ cut \in BOOLEAN

Requested == [action : {"enable", "disable"}, route : 0..gen]
Jobs == [do : {"begin", "handle", "finish", "fail", "notify", "step"},
         who : Features \cup {"fast", "main", "route"}, hops : 0..11]

TaskType ==
  /\ chain \in [Features -> Seq(Requested)]
  /\ micro \in Seq(Jobs)
  /\ loader \in [left : Seq(Features), route : 0..gen]

FeatureType ==
  /\ want \subseteq Features /\ timers \subseteq Features /\ on \subseteq Features
  /\ status \in [Features -> {"disabled", "running", "failing"}]
  /\ refs \in [Styles -> Nat]

BudgetType ==
  budget \in [moves : 0..MaxMoves, edits : 0..MaxEdits, hides : 0..MaxHides, faults : 0..MaxFaults]

TypeOK == BootType /\ RunType /\ RouteType /\ TaskType /\ FeatureType /\ BudgetType

Quiet ==
  Idle /\ timers = {} /\ loader.left = <<>> /\ main = "done" /\ watching /\ runtime = "running"

\* When nothing is under way, a feature runs, and its effects are on the page,
\* exactly if the configuration enables it on this page, unless a handler
\* failed: after toggles, moves, suspensions and slow loading in any order.
QuietIsSettled ==
  Quiet => /\ flags = loc
           /\ \A f \in Features :
                status[f] # "failing" =>
                  /\ (status[f] = "running") <=> (f \in want \cap InScope[loc])
                  /\ (status[f] = "running") <=> (f \in on)

\* As soon as the page's own tasks run, also while it is still loading, no
\* feature is left running on a page that is not in its scope.
NoneOutOfScope ==
  Idle /\ watching => \A f \in Features : status[f] = "running" => f \in on \cap InScope[loc]

\* After the teardown nothing is left, however much was under way when the page
\* was left: no effect of a feature, no style, no timer, no transition; and what
\* still runs then (a pipeline that waited for the body) brings nothing back.
NothingLeft ==
  runtime = "stopped" =>
    /\ timers = {} /\ on = {}
    /\ \A s \in Styles : refs[s] = 0
    /\ \A f \in Features : chain[f] = <<>>

\* The features follow the configuration and the route: reconcileFeatures(),
\* sync(), the loader and the teardown agree in the end, however they overlapped.
Settled == QuietIsSettled /\ NoneOutOfScope /\ NothingLeft

\* While routes are observed, a running feature's style is on the page, although
\* features share styles and any of them may be disabled.
StylesFollow ==
  micro = <<>> /\ tear = "none" /\ watching =>
    \A f \in DOMAIN StyleOf : status[f] = "running" => refs[StyleOf[f]] > 0

\* The runtime settles: whatever happens, every transition, frame and effect
\* that was due is done with in the end.
ComesToRest ==
  <>[](Quiet \/ runtime = "stopped" \/ ~watching \/ main = "failed")

-----------------------------------------------------------------------------
(* A small instance: the thread overlay, on by default, whose settings are    *)
(* debounced; the control of the latest page, which has two settings and no   *)
(* style; and two features of that page that share a style.                   *)
Everything == <<"overlay", "control", "wide", "dense">>

OwnAndShared ==
  [f \in {"overlay", "wide", "dense"} |->
     IF f = "overlay" THEN "overlayCss" ELSE "latestCss"]

ByPage ==
  [p \in {"thread", "latest"} |->
     IF p = "thread" THEN {"overlay"} ELSE Features \ {"overlay"}]
=============================================================================
