------------------------------ MODULE AddonHost ------------------------------
(* The core's side of the add-on platform (services/addons) with the add-ons *)
(* that run beside it: registration and its rate limit, the authorization of *)
(* what an add-on asks for, the user's switch, the security policy, teardown *)
(* with its watchdog, and the service switched off, on and shut down.  Each  *)
(* add-on is the runtime of AddonRuntime with the bodies its commands have   *)
(* in the Latest Filters add-on, which the other add-ons follow.             *)
(*                                                                           *)
(* Events are dispatched synchronously: a command reaches the add-on within  *)
(* the core's step, a registration the core within the add-on's step.        *)
EXTENDS AddonRuntime

CONSTANTS Addons,        \* the add-ons installed in the browser
          RegisterRate,  \* registrations accepted of one add-on per window
          MaxClicks,     \* bound: uses of the switch and changes of panel settings
          MaxFlips,      \* bound: changes of the security policy
          MaxRemovals    \* bound: unregistrations, service switches, reapplied policies

ASSUME BoundsAssumption ==
  /\ RegisterRate \in Nat \ {0} /\ MaxClicks \in Nat
  /\ MaxFlips \in Nat /\ MaxRemovals \in Nat

VARIABLES
  rt,       \* the runtime of each add-on (AddonRuntime)
  reg,      \* its registry entry: none, or its status and whether it is blocked;
            \* none may be what a reapplied policy has left of one
  desired,  \* the stored wish: "unset", "on" or "off"
  allowed,  \* whether the policy in force lets it run
  held,     \* what it holds in the page through the core
  td,       \* its teardown record; "live" has the watchdog armed
  served,   \* registrations accepted in the running window
  toggles,  \* switches whose write is still awaited, in order
  late,     \* a switch decided for an absent add-on was stored for one that is
            \* present, dropped, or kept from a teardown that was cancelled
  bridge,   \* the core's listener is bound
  off,      \* the service is switched off in the settings
  down,     \* the core has been torn down
  spent     \* how often each bounded event has happened

vars == <<rt, reg, desired, allowed, held, td, served, toggles, late, bridge,
          off, down, spent>>

None == [at |-> FALSE, on |-> FALSE, blocked |-> FALSE, dropped |-> FALSE]
Events == {"click", "flip", "removal"}

\* Commands that can wait in one runtime: those of its own start, of the user
\* and of teardowns.  A registration adds none: it ends an operation.
Backlog == MaxClicks + MaxRemovals + 3

Switches == [addon : Addons, want : {"on", "off"}, deferred : BOOLEAN]

TypeOK ==
  /\ rt \in [Addons -> Runtimes] /\ \A a \in Addons : RuntimeOK(rt[a], Backlog)
  /\ reg \in [Addons -> [at : BOOLEAN, on : BOOLEAN, blocked : BOOLEAN, dropped : BOOLEAN]]
  /\ desired \in [Addons -> {"unset", "on", "off"}]
  /\ allowed \in [Addons -> BOOLEAN] /\ held \in [Addons -> SUBSET {"ui", "watch"}]
  /\ td \in [Addons -> {"none", "live", "acked", "cancelled", "cleaned"}]
  /\ served \in [Addons -> 0..RegisterRate] /\ late \in [Addons -> BOOLEAN]
  /\ toggles \in Seq(Switches) /\ Len(toggles) <= MaxClicks
  /\ bridge \in BOOLEAN /\ off \in BOOLEAN /\ down \in BOOLEAN
  /\ spent \in [Events -> Nat]

Init ==
  /\ rt = [a \in Addons |-> NewRuntime]
  /\ reg = [a \in Addons |-> None]
  /\ desired \in [Addons -> {"unset", "on", "off"}]
  /\ allowed \in [Addons -> BOOLEAN]
  /\ held = [a \in Addons |-> {}]
  /\ td = [a \in Addons |-> "none"]
  /\ served = [a \in Addons |-> 0]
  /\ toggles = <<>>
  /\ late = [a \in Addons |-> FALSE]
  /\ bridge = FALSE /\ off = FALSE /\ down = FALSE
  /\ spent = [e \in Events |-> 0]

Spend(e, max) == spent[e] < max /\ spent' = [spent EXCEPT ![e] = @ + 1]
Listening == bridge /\ ~off

Registered == {a \in Addons : reg[a].at}

\* The registry emptied; what was dropped before stays dropped.
Emptied == [a \in Addons |-> [None EXCEPT !.dropped = reg[a].dropped]]

(***************************** Authorization ******************************)
EnabledInCore(a) == desired[a] # "off"

\* getAddonActionBlockReason: what a registered add-on may ask for.
MayAct(a) == /\ Listening /\ reg[a].at /\ allowed[a]
             /\ EnabledInCore(a) /\ reg[a].on
MayCleanUp(a) == Listening /\ reg[a].at /\ allowed[a]

(****************************** Registration ******************************)
\* Faulty variant: registrations are not counted.
WithinRateAnyway(a) == TRUE

WithinRate(a) == served[a] < RegisterRate

EntryFor(a, status) ==
  [at |-> TRUE, blocked |-> ~allowed[a], dropped |-> FALSE,
   on |-> allowed[a] /\ IF desired[a] = "unset" THEN status ELSE desired[a] = "on"]

\* update-status and register, as an add-on's operation sends them before it
\* returns; r is the runtime with the operation under way, told to disable at
\* once when the entry is blocked.
Publish(a, status, r) ==
  IF Listening /\ WithinRate(a)
  THEN /\ reg' = [reg EXCEPT ![a] = EntryFor(a, status)]
       /\ served' = [served EXCEPT ![a] = IF @ < RegisterRate THEN @ + 1 ELSE @]
       /\ rt' = [rt EXCEPT ![a] = Succeed(IF EntryFor(a, status).blocked
                                          THEN Receive(r, "disable") ELSE r)]
  ELSE /\ reg' = [reg EXCEPT ![a].on = IF Listening /\ reg[a].at THEN status ELSE @]
       /\ rt' = [rt EXCEPT ![a] = Succeed(r)]
       /\ UNCHANGED served

\* The add-on's own start: bind, register, ask for access, enable or disable.
\* Nothing in it waits for another task, so it is one step.
Boot(a) ==
  /\ Listening /\ ~rt[a].booted
  /\ LET r == [rt[a] EXCEPT !.booted = TRUE, !.bound = TRUE]
         e == EntryFor(a, TRUE)
         told == IF e.blocked THEN Receive(r, "disable") ELSE r
     IN  /\ rt' = [rt EXCEPT ![a] =
                     Command(told, IF e.blocked \/ ~EnabledInCore(a)
                                   THEN "disable" ELSE "enable")]
         /\ reg' = [reg EXCEPT ![a] = e]
         /\ served' = [served EXCEPT ![a] = 1]
  /\ UNCHANGED <<desired, allowed, held, td, toggles, late, bridge, off, down, spent>>

\* The registrations of the last window no longer count.  It is longer than
\* any operation of an add-on: thirty seconds.
WindowPasses(a) ==
  /\ served[a] > 0 /\ Resting(rt[a])
  /\ served' = [served EXCEPT ![a] = 0]
  /\ UNCHANGED <<rt, reg, desired, allowed, held, td, toggles, late, bridge, off,
                 down, spent>>

(************************* The add-on's operations *************************)
\* removePageUi(): refused requests leave what the core holds alone.
HeldAfterRemoval(a) == IF MayCleanUp(a) THEN [held EXCEPT ![a] = @ \ {"ui"}] ELSE held

BeginOp(a) ==
  /\ Startable(rt[a])
  /\ LET r == Begin(rt[a])
     IN  IF r.active.kind \in {"disable", "teardown"}
         THEN /\ rt' = [rt EXCEPT ![a] = [r EXCEPT !.on = FALSE, !.mount = "none"]]
              /\ held' = HeldAfterRemoval(a)
         ELSE rt' = [rt EXCEPT ![a] = r] /\ UNCHANGED held
  /\ UNCHANGED <<reg, desired, allowed, td, served, toggles, late, bridge, off, down,
                 spent>>

\* enableApp, refreshApp: settings, presets and tags were awaited.
Loaded(a) ==
  /\ rt[a].active.kind \in {"enable", "refresh"} /\ rt[a].active.part = 1
  /\ IF IsCurrent(rt[a]) /\ (rt[a].active.kind = "refresh" => rt[a].on)
     THEN /\ rt' = [rt EXCEPT ![a].active.part = 2, ![a].on = TRUE,
                              ![a].mount = "none"]
          /\ held' = IF rt[a].active.kind = "refresh" THEN HeldAfterRemoval(a) ELSE held
     ELSE rt' = [rt EXCEPT ![a] = Succeed(@)] /\ UNCHANGED held
  /\ UNCHANGED <<reg, desired, allowed, td, served, toggles, late, bridge, off, down,
                 spent>>

\* disableApp: the interface is gone, the add-on's own flag is to be stored.
Removed(a) ==
  /\ rt[a].active.kind = "disable" /\ rt[a].active.part = 1
  /\ rt' = [rt EXCEPT ![a].active.part = 2]
  /\ UNCHANGED <<reg, desired, allowed, held, td, served, toggles, late, bridge, off,
                 down, spent>>

\* The end of enableApp, refreshApp and disableApp: the mount is scheduled for
\* the command's generation, and the status is published without asking
\* whether the command is still current.
Completed(a) ==
  /\ rt[a].active.part = 2
  /\ LET starts == rt[a].active.kind \in {"enable", "refresh"}
         r == IF starts THEN [rt[a] EXCEPT !.mount = "wanted",
                                           !.mountFresh = IsCurrent(rt[a])]
              ELSE rt[a]
     IN  /\ Publish(a, starts, r)
         /\ held' = IF starts /\ MayAct(a) THEN [held EXCEPT ![a] = @ \union {"watch"}]
                    ELSE held
  /\ UNCHANGED <<desired, allowed, td, toggles, late, bridge, off, down, spent>>

OpThrows(a) ==
  /\ Busy(rt[a]) /\ rt[a].active.kind # "teardown"
  /\ rt' = [rt EXCEPT ![a] = Throw(@)]
  /\ UNCHANGED <<reg, desired, allowed, held, td, served, toggles, late, bridge, off,
                 down, spent>>

(******************************* Teardown *********************************)
\* forceCleanup(), for a record that is not cleaned yet.
Cleaned(a) == [held EXCEPT ![a] = {}]

ArmTeardown(a) == td[a] # "live"

\* acknowledgeTeardown(): only while the core listens, also when switched off.
TornDown(a) ==
  /\ rt[a].active.kind = "teardown"
  /\ rt' = [rt EXCEPT ![a] = [Succeed(@) EXCEPT !.bound = FALSE]]
  /\ IF bridge /\ td[a] = "live"
     THEN td' = [td EXCEPT ![a] = "acked"] /\ held' = Cleaned(a)
     ELSE UNCHANGED <<td, held>>
  /\ UNCHANGED <<reg, desired, allowed, served, toggles, late, bridge, off, down, spent>>

WatchdogFires(a) ==
  /\ td[a] = "live"
  /\ td' = [td EXCEPT ![a] = "cleaned"]
  /\ held' = Cleaned(a)
  /\ UNCHANGED <<rt, reg, desired, allowed, served, toggles, late, bridge, off, down,
                 spent>>

(***************************** The mounted interface ************************)
RequestMount(a) ==
  /\ rt[a].mount = "wanted"
  /\ IF rt[a].mountFresh /\ MayAct(a)
     THEN /\ rt' = [rt EXCEPT ![a].mount = "requested"]
          /\ held' = [held EXCEPT ![a] = @ \union {"ui"}]
     ELSE rt' = [rt EXCEPT ![a].mount = "none"] /\ UNCHANGED held
  /\ UNCHANGED <<reg, desired, allowed, td, served, toggles, late, bridge, off, down,
                 spent>>

\* The answer: an interface of an older command is taken down again.
MountAnswered(a) ==
  /\ rt[a].mount = "requested"
  /\ IF rt[a].mountFresh
     THEN rt' = [rt EXCEPT ![a].mount = "up"] /\ UNCHANGED held
     ELSE rt' = [rt EXCEPT ![a].mount = "none"] /\ held' = HeldAfterRemoval(a)
  /\ UNCHANGED <<reg, desired, allowed, td, served, toggles, late, bridge, off, down,
                 spent>>

(****************************** The user's switch ***************************)
\* The panel shows the registry; an absent add-on's switch is only stored.
Toggle(a) ==
  /\ ~down /\ Spend("click", MaxClicks)
  /\ reg[a].at => allowed[a]
  /\ \E want \in {"on", "off"} :
       /\ reg[a].at => (want = "off") = reg[a].on
       /\ toggles' = Append(toggles, [addon |-> a, want |-> want, deferred |-> ~reg[a].at])
  /\ UNCHANGED <<rt, reg, desired, allowed, held, td, served, late, bridge, off, down>>

\* What may still be in the page of an add-on that was absent.
Kept(a) == reg[a].at \/ reg[a].dropped \/ td[a] = "cancelled"

\* Faulty variant: what is in the page stays there.
ToggleStoredKeepingUi ==
  /\ toggles # <<>>
  /\ LET t == Head(toggles)
         a == t.addon
         on == t.want = "on"
     IN  /\ toggles' = Tail(toggles)
         /\ desired' = [desired EXCEPT ![a] = t.want]
         /\ IF t.deferred
            THEN late' = [late EXCEPT ![a] = @ \/ Kept(a)] /\ UNCHANGED <<reg, rt, held, td>>
            ELSE /\ reg' = [reg EXCEPT ![a].on = IF reg[a].at THEN on ELSE @]
                 /\ rt' = [rt EXCEPT ![a] = Receive(@, IF on THEN "enable" ELSE "disable")]
                 /\ td' = [td EXCEPT ![a] = IF on /\ @ = "live" THEN "cancelled" ELSE @]
                 /\ UNCHANGED <<late, held>>
  /\ UNCHANGED <<allowed, served, bridge, off, down, spent>>

\* setAddonEnabledState() has stored the wish; the rest of
\* actionFeatureEnableDisable() follows in the same task.
ToggleStored ==
  /\ toggles # <<>>
  /\ LET t == Head(toggles)
         a == t.addon
         on == t.want = "on"
     IN  /\ toggles' = Tail(toggles)
         /\ desired' = [desired EXCEPT ![a] = t.want]
         /\ IF t.deferred
            THEN late' = [late EXCEPT ![a] = @ \/ Kept(a)] /\ UNCHANGED <<reg, rt, held, td>>
            ELSE /\ reg' = [reg EXCEPT ![a].on = IF reg[a].at THEN on ELSE @]
                 /\ rt' = [rt EXCEPT ![a] = Receive(@, IF on THEN "enable" ELSE "disable")]
                 /\ td' = [td EXCEPT ![a] = IF on /\ @ = "live" THEN "cancelled" ELSE @]
                 /\ held' = IF on THEN held ELSE Cleaned(a)
                 /\ UNCHANGED late
  /\ UNCHANGED <<allowed, served, bridge, off, down, spent>>

ToggleFails ==
  /\ toggles # <<>>
  /\ toggles' = Tail(toggles)
  /\ UNCHANGED <<rt, reg, desired, allowed, held, td, served, late, bridge, off, down,
                 spent>>

\* A changed panel setting: stored, then the add-on is asked to refresh.
SettingChanged(a) ==
  /\ MayAct(a)
  /\ Spend("click", MaxClicks)
  /\ rt' = [rt EXCEPT ![a] = Receive(@, "refresh")]
  /\ UNCHANGED <<reg, desired, allowed, held, td, served, toggles, late, bridge, off,
                 down>>

(****************************** Security policy *****************************)
PolicyChanges(a) ==
  /\ Spend("flip", MaxFlips)
  /\ allowed' = [allowed EXCEPT ![a] = ~@]
  /\ UNCHANGED <<rt, reg, desired, held, td, served, toggles, late, bridge, off, down>>

\* reapplyAddonSecurityPolicies(), after a change of the policy and when the
\* page comes back from the browser's cache: every entry is normalised again,
\* and none passes for a registration, since an entry does not keep the
\* requiresCore a registration must state.  The add-ons are not told.
PolicyReapplied ==
  /\ Registered # {} /\ ~down /\ Spend("removal", MaxRemovals)
  /\ reg' = [a \in Addons |-> IF reg[a].at THEN [None EXCEPT !.dropped = TRUE] ELSE reg[a]]
  /\ UNCHANGED <<rt, desired, allowed, held, td, served, toggles, late, bridge, off,
                 down>>

(************************ Removal of add-ons and service ********************)
\* requestTeardown() for the add-ons in S: a live record is left as it is.
TeardownRequested(S) ==
  LET new == {a \in S : ArmTeardown(a)}
  IN  /\ td' = [a \in Addons |-> IF a \in new THEN "live" ELSE td[a]]
      /\ rt' = [a \in Addons |-> IF a \in new THEN Receive(rt[a], "teardown") ELSE rt[a]]
      /\ held' = [a \in Addons |-> IF a \in new THEN held[a] \ {"ui"} ELSE held[a]]

Unregister(a) ==
  /\ Listening /\ Spend("removal", MaxRemovals)
  /\ TeardownRequested({a})
  /\ reg' = [reg EXCEPT ![a] = None]
  /\ UNCHANGED <<desired, allowed, served, toggles, late, bridge, off, down>>

\* Faulty variant: the registry is emptied and nobody is told to tear down.
ServiceOffWithoutTeardown ==
  /\ ~off /\ ~down /\ Spend("removal", MaxRemovals)
  /\ off' = TRUE /\ bridge' = FALSE
  /\ UNCHANGED <<td, rt, held>>
  /\ reg' = Emptied
  /\ served' = [a \in Addons |-> 0]
  /\ UNCHANGED <<desired, allowed, toggles, late, down>>

ServiceOff ==
  /\ ~off /\ ~down /\ Spend("removal", MaxRemovals)
  /\ off' = TRUE /\ bridge' = FALSE
  /\ TeardownRequested(Registered)
  /\ reg' = Emptied
  /\ served' = [a \in Addons |-> 0]
  /\ UNCHANGED <<desired, allowed, toggles, late, down>>

ServiceOn ==
  /\ off /\ ~down
  /\ off' = FALSE
  /\ UNCHANGED <<rt, reg, desired, allowed, held, td, served, toggles, late, bridge,
                 down, spent>>

\* initAddonsConsoleBridge(): the trusted catalog was awaited.
BridgeBound ==
  /\ ~bridge /\ ~off /\ ~down
  /\ bridge' = TRUE
  /\ UNCHANGED <<rt, reg, desired, allowed, held, td, served, toggles, late, off,
                 down, spent>>

\* shutdownAddonsService(): whoever is registered or has a watchdog armed is
\* cleaned up without waiting.
ShutdownOf(a) == reg[a].at \/ td[a] = "live"

Shutdown ==
  /\ ~down /\ down' = TRUE /\ bridge' = FALSE
  /\ rt' = [a \in Addons |-> IF reg[a].at /\ ArmTeardown(a)
                             THEN Receive(rt[a], "teardown") ELSE rt[a]]
  /\ td' = [a \in Addons |-> IF ShutdownOf(a) THEN "cleaned" ELSE td[a]]
  /\ held' = [a \in Addons |-> IF ShutdownOf(a) THEN {} ELSE held[a]]
  /\ reg' = Emptied
  /\ served' = [a \in Addons |-> 0]
  /\ UNCHANGED <<desired, allowed, toggles, late, off, spent>>

Operation(a) ==
  BeginOp(a) \/ Loaded(a) \/ Removed(a) \/ Completed(a) \/ TornDown(a)
    \/ RequestMount(a) \/ MountAnswered(a)

Next ==
  \/ \E a \in Addons :
       \/ Boot(a) \/ WindowPasses(a) \/ Operation(a) \/ OpThrows(a)
       \/ WatchdogFires(a) \/ Toggle(a) \/ SettingChanged(a) \/ PolicyChanges(a)
       \/ Unregister(a)
  \/ ToggleStored \/ ToggleFails \/ PolicyReapplied
  \/ ServiceOff \/ ServiceOn \/ BridgeBound \/ Shutdown

Spec == Init /\ [][Next]_vars

\* An awaited answer or timeout comes: an operation that has begun goes on
\* and a watchdog that is armed fires.
Fairness == \A a \in Addons : WF_vars(Operation(a)) /\ WF_vars(WatchdogFires(a))

FairSpec == Spec /\ Fairness

(******************************** Properties *******************************)
\* What an add-on holds in the page through the core is accounted for: it is
\* registered, or its watchdog is armed and will take it away, unless a
\* switch that was still being stored has cancelled that teardown, or its
\* entry was lost to a reapplied policy
\* (runtimeLifecycle.js, lifecycle.js requestTeardown and cancelTeardown).
NothingLeftBehind ==
  \A a \in Addons :
    held[a] # {} => \/ reg[a].at \/ td[a] = "live"
                    \/ td[a] = "cancelled" \/ reg[a].dropped

\* A changed policy and a page that comes back reapply the resolver to the
\* registered entries (docs/services/addonsService.md:130): an add-on that
\* runs and was not asked to stop stays listed.
RegisteredStaysListed ==
  \A a \in Addons :
    rt[a].booted /\ ~rt[a].terminal /\ Listening /\ td[a] = "none" => reg[a].at

\* An add-on the user has switched off holds nothing in the page, whatever
\* operations of it were under way (actions/families/lifecycle.js), unless the
\* switch was decided while it was absent and stored while something of it was
\* kept, or a teardown is to take it away.
DisabledHoldsNothing ==
  \A a \in Addons : desired[a] = "off" /\ ~late[a] /\ td[a] # "live" => held[a] = {}

\* An add-on that was torn down stays silent: whatever was queued, running or
\* waiting for an answer then, no command reaches it, none of its operations
\* goes on, and no interface of it comes up (runtimeLifecycle.js teardown()).
TornDownIsSilent ==
  \A a \in Addons :
    rt[a].state = "terminated" =>
      Resting(rt[a]) /\ ~rt[a].bound /\ ~rt[a].on /\ rt[a].mount = "none"

\* What the core's switch, its watchdog and the add-on's own teardown promise
\* together about the page.
NothingIsKept == NothingLeftBehind /\ DisabledHoldsNothing /\ TornDownIsSilent

\* The commands of an add-on come to an end, also for a blocked one, whose
\* every registration is answered with another command to disable
\* (bootstrap.js handleRegistration, bridgeServer.js checkRateLimit).
CommandsComeToRest == \A a \in Addons : []<>Resting(rt[a])

\* A changed panel setting is applied by the running add-on (addons/README.md):
\* an add-on the core shows as enabled is running once its commands are done.
EnabledIsRunning ==
  \A a \in Addons :
    Resting(rt[a]) /\ rt[a].booted /\ ~rt[a].terminal /\ toggles = <<>>
      /\ reg[a].at /\ allowed[a] /\ reg[a].on
      => rt[a].state \in {"enabled", "failed"}
=============================================================================
