---------------------------- MODULE RequestBudget ----------------------------
(* The Library's request budget (library/hybridRequestBudget.js): requests   *)
(* of all tabs go one at a time through a Web Lock, with a stored record of  *)
(* the hour's API requests, of the next time a request may start and of what *)
(* the site has blocked.  A check (hybridRecordRequest.js,                   *)
(* manualUpdateChecker.js) asks the API once, falls back to the thread's     *)
(* page, and repeats that.                                                   *)
EXTENDS Integers, FiniteSets

CONSTANTS Tabs,
          MaxClock,  \* bound: the clock's last value
          Hour,      \* times -> hours
          Limit,     \* API_LIMIT, requests to the API in an hour
          Spacing,   \* time between the starts of two requests
          Pause,     \* SITE_BLOCK_PAUSE_MS
          Retries,   \* retryLimit
          MaxFaults, \* bound: refused calls, lost answers, closed tabs
          MaxBacks   \* bound: the clock is set back

None == "none"
Clock == 0..MaxClock
Later == 0..(MaxClock + Spacing + Pause)
Sources == {"api", "html"}

ASSUME BudgetAssumption ==
  /\ None \notin Tabs
  /\ MaxClock \in Nat /\ Hour \in [Clock -> Nat] /\ Limit \in Nat \ {0}
  /\ Spacing \in Nat /\ Pause \in Nat /\ Retries \in Nat /\ MaxFaults \in Nat /\ MaxBacks \in Nat
  /\ \A s, t \in Clock : s <= t => Hour[s] <= Hour[t]

VARIABLES
  clock,
  record,   \* the stored record; a missing one counts as empty
  holder,   \* the tab that holds the lock, or None
  step,     \* where each tab is
  source,   \* what it asks for
  copy,     \* the holder's copy of the record
  tries,    \* attempts of its check
  block,    \* the update queue's own block of the site
  faults, backs,
  reserved, \* history: hour -> API requests reserved in it
  started   \* history: the start of the last reserved request, or -1

vars == <<clock, record, holder, step, source, copy, tries, block, faults, backs, reserved,
          started>>
outside == <<clock, block, backs>>
past == <<reserved, started>>

Hours == {Hour[t] : t \in Clock}
Record == [last : Clock, used : 0..Limit, next : Later, api : Later, site : Later]
NoRecord == [last |-> 0, used |-> 0, next |-> 0, api |-> 0, site |-> 0]
Steps == {"idle", "queued", "clearing", "locked", "pausing", "writing", "sending", "sent",
          "answered", "failed"}

Init ==
  /\ clock \in Clock
  /\ record = [NoRecord EXCEPT !.last = clock]
  /\ holder = None
  /\ step = [t \in Tabs |-> "idle"] /\ source = [t \in Tabs |-> "api"]
  /\ copy = NoRecord /\ tries = [t \in Tabs |-> 0]
  /\ block = 0 /\ faults = 0 /\ backs = 0
  /\ reserved = [h \in Hours |-> 0] /\ started = -1

Fault == faults < MaxFaults /\ faults' = faults + 1
At(t, s) == step[t] = s
Goes(t, s) == step' = [step EXCEPT ![t] = s]
Over(t) ==
  /\ Goes(t, "idle")
  /\ source' = [source EXCEPT ![t] = "api"] /\ tries' = [tries EXCEPT ![t] = 0]
Release == holder' = None /\ copy' = NoRecord
PutOff(t) == Release /\ Over(t)
Failed(t) == Release /\ Goes(t, "failed") /\ UNCHANGED <<source, tries>>

\* Faulty variant: the clock is trusted.
RegressedNever(r) == FALSE
(* restore(): the record at a time.  A clock that was set back makes it throw. *)
Regressed(r) == clock < r.last
Restored(r) == [r EXCEPT !.last = clock, !.used = IF Hour[clock] > Hour[r.last] THEN 0 ELSE r.used]

(******************************** The checks *******************************)
\* A tab starts a check, or asks to clear the site's block.
Check(t) ==
  /\ At(t, "idle")
  /\ Goes(t, "queued")
  /\ UNCHANGED <<outside, record, holder, source, copy, tries, faults, past>>

AskToClear(t) ==
  /\ At(t, "idle") /\ record.site > clock
  /\ Goes(t, "clearing")
  /\ UNCHANGED <<outside, record, holder, source, copy, tries, faults, past>>

\* After the API the thread's page is asked, unless the check was put off;
\* a failure that may pass is tried again.
FallBack(t) ==
  /\ At(t, "failed")
  /\ CASE source[t] = "api" ->
            source' = [source EXCEPT ![t] = "html"] /\ Goes(t, "queued") /\ UNCHANGED tries
       [] source[t] = "html" /\ tries[t] < Retries ->
            tries' = [tries EXCEPT ![t] = @ + 1] /\ Goes(t, "queued") /\ UNCHANGED source
       [] OTHER -> Over(t)
  /\ UNCHANGED <<outside, record, holder, copy, faults, past>>

(****************************** Under the lock *****************************)
\* Faulty variant: a lock that does not exclude.
LockAnyway(t) ==
  /\ At(t, "queued") /\ holder' = t
  /\ Goes(t, "locked")
  /\ UNCHANGED <<outside, record, source, copy, tries, faults, past>>

Lock(t) ==
  /\ At(t, "queued") /\ holder = None /\ holder' = t
  /\ Goes(t, "locked")
  /\ UNCHANGED <<outside, record, source, copy, tries, faults, past>>

\* The record as read() returns it, with the block of the update queue.
Read == LET r == Restored(record) IN IF block > r.site THEN [r EXCEPT !.site = block] ELSE r

Exhausted(t, r) == source[t] = "api" /\ r.used >= Limit
Suppressed(t, r) == source[t] = "api" /\ r.api > clock

ReadFails(t) ==
  /\ At(t, "locked") /\ PutOff(t)
  /\ \/ Regressed(record) /\ UNCHANGED faults
     \/ ~Regressed(record) /\ Fault
  /\ UNCHANGED <<outside, record, past>>

\* The guard says no.  A block of the queue is written into the record.
Refused(t) ==
  /\ At(t, "locked") /\ ~Regressed(record)
  /\ \/ Read.site > clock /\ PutOff(t) /\ record' = Read
     \/ /\ Read.site <= clock /\ (Suppressed(t, Read) \/ Exhausted(t, Read))
        /\ Failed(t) /\ UNCHANGED record
  /\ UNCHANGED <<outside, faults, past>>

Allowed(t) ==
  ~Regressed(record) /\ Read.site <= clock /\ ~Suppressed(t, Read) /\ ~Exhausted(t, Read)

\* It waits with the lock until the next request may start, then reads again.
Wait(t) ==
  /\ At(t, "locked") /\ Allowed(t) /\ Read.next > clock
  /\ Goes(t, "pausing")
  /\ UNCHANGED <<outside, record, holder, source, copy, tries, faults, past>>

Woken(t) ==
  /\ At(t, "pausing") /\ Goes(t, "locked")
  /\ UNCHANGED <<outside, record, holder, source, copy, tries, faults, past>>

Cancelled(t) ==
  /\ step[t] \in {"locked", "pausing", "sending"} /\ Fault /\ PutOff(t)
  /\ UNCHANGED <<outside, record, past>>

\* The reservation is computed, then written before the request.
Reserve(t) ==
  /\ At(t, "locked") /\ Allowed(t) /\ Read.next <= clock
  /\ copy' =
       [Read EXCEPT !.next = clock + Spacing,
                    !.used = IF source[t] = "api" THEN @ + 1 ELSE @]
  /\ Goes(t, "writing")
  /\ UNCHANGED <<outside, record, holder, source, tries, faults, past>>

Stored(t) ==
  /\ record' = copy
  /\ started' = copy.last
  /\ LET h == Hour[copy.last] IN
     reserved' = IF source[t] = "api" THEN [reserved EXCEPT ![h] = @ + 1] ELSE reserved

Reserved(t) ==
  /\ At(t, "writing") /\ Stored(t) /\ Goes(t, "sending")
  /\ UNCHANGED <<outside, holder, source, copy, tries, faults>>

\* The write fails, or is stored although its answer was lost.
ReserveFails(t) ==
  /\ At(t, "writing") /\ Fault /\ PutOff(t)
  /\ \/ UNCHANGED <<record, past>>
     \/ Stored(t)
  /\ UNCHANGED outside

Send(t) ==
  /\ At(t, "sending") /\ Goes(t, "sent")
  /\ UNCHANGED <<outside, record, holder, source, copy, tries, faults, past>>

\* The answer: a good one, a failure, or a challenge or rate limit, which
\* blocks the API or the site.
Blocked(t, r) ==
  IF source[t] = "api" THEN [r EXCEPT !.api = clock + Pause] ELSE [r EXCEPT !.site = clock + Pause]

Answered(t, result) ==
  /\ At(t, "sent")
  /\ IF Regressed(copy) THEN PutOff(t)
     ELSE /\ UNCHANGED <<holder, source, tries>>
          /\ LET r == [Restored(copy) EXCEPT !.next = IF clock + Spacing > @ THEN clock + Spacing
                                                         ELSE @]
             IN  copy' = IF result = "blocked" THEN Blocked(t, r) ELSE r
          /\ Goes(t, "answered")
  /\ UNCHANGED <<outside, record, faults, past>>

\* The record is written once more, then the answer is used.
Settled(t) ==
  /\ At(t, "answered") /\ record' = copy
  /\ PutOff(t) \/ Failed(t)
  /\ UNCHANGED <<outside, faults, past>>

SettleFails(t) ==
  /\ At(t, "answered") /\ Fault /\ PutOff(t)
  /\ record' \in {record, copy}
  /\ UNCHANGED <<outside, past>>

\* clearSiteBlock(): the block of the queue is added by the read and dropped.
ClearSiteBlock(t) ==
  /\ At(t, "clearing") /\ holder = None
  /\ record' = IF Regressed(record) THEN record ELSE [Restored(record) EXCEPT !.site = 0]
  /\ Over(t)
  /\ UNCHANGED <<outside, holder, copy, faults, past>>

(******************************* The outside *******************************)
\* The browser releases the lock of a tab that is closed.
Close(t) ==
  /\ step[t] # "idle" /\ Fault
  /\ Over(t) /\ IF holder = t THEN Release ELSE UNCHANGED <<holder, copy>>
  /\ UNCHANGED <<outside, record, past>>

Tick ==
  /\ clock < MaxClock /\ clock' = clock + 1
  /\ UNCHANGED <<record, holder, step, source, copy, tries, block, faults, backs, past>>

SetBack ==
  /\ backs < MaxBacks /\ backs' = backs + 1
  /\ \E t \in Clock : t < clock /\ clock' = t
  /\ UNCHANGED <<record, holder, step, source, copy, tries, block, faults, past>>

QueueBlocks ==
  /\ block <= clock /\ block' = clock + Pause
  /\ UNCHANGED <<clock, record, holder, step, source, copy, tries, faults, backs, past>>

Next ==
  \/ \E t \in Tabs :
       \/ Check(t) \/ AskToClear(t) \/ FallBack(t)
       \/ Lock(t) \/ ReadFails(t) \/ Refused(t) \/ Wait(t) \/ Woken(t) \/ Cancelled(t)
       \/ Reserve(t) \/ Reserved(t) \/ ReserveFails(t) \/ Send(t)
       \/ (\E result \in {"good", "bad", "blocked"} : Answered(t, result))
       \/ Settled(t) \/ SettleFails(t) \/ ClearSiteBlock(t) \/ Close(t)
  \/ Tick \/ SetBack \/ QueueBlocks

Spec == Init /\ [][Next]_vars

(******************************** Properties *******************************)
TypeOK ==
  /\ clock \in Clock /\ record \in Record /\ holder \in Tabs \union {None}
  /\ step \in [Tabs -> Steps] /\ source \in [Tabs -> Sources] /\ copy \in Record
  /\ tries \in [Tabs -> 0..Retries] /\ block \in Later
  /\ faults \in 0..MaxFaults /\ backs \in 0..MaxBacks
  /\ reserved \in [Hours -> Nat] /\ started \in Clock \union {-1}

\* No hour has more API requests than the limit, for all tabs together, and
\* whatever tab was closed, write refused or clock set back between the
\* reservation and the request.
HourlyAllowance == \A h \in Hours : reserved[h] <= Limit

\* Two requests start at least the spacing apart, in whichever tabs.
Spaced ==
  [][started' # started /\ started # -1 => started' >= started + Spacing]_vars
=============================================================================
