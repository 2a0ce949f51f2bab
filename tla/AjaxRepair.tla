----------------------------- MODULE AjaxRepair -----------------------------
(* The repair of the Latest page's requests: a script in the page's own world *)
(* that wraps the site's jQuery.ajax and, when a listing cannot be had, asks  *)
(* once more through the site's Retry button, and the adapter through which   *)
(* the Site Repair add-on commands it and learns how it stands.               *)
(*                                                                            *)
(* A function found as ajax is the sequence of the wrappers around the site's *)
(* own, the outermost first: 0 is another script's, a number n > 0 is the     *)
(* n-th of the page script.  Commands and status events are synchronous.      *)
EXTENDS Naturals, Sequences, FiniteSets

CONSTANTS
  Owners,      \* the jQuery objects the page may come to have
  PollLimit,   \* maxPollAttempts
  MaxRequests, \* bound: requests for a listing, the retries among them
  MaxTurns     \* bound: commands, and what other scripts do to jQuery

VARIABLES
  bridge,    \* the page script: "none", "listening", or "gone" once destroyed
  enabled,   \* state.enabled; the adapter always allows the retry
  generation,
  patched,   \* state.patchedOwner and state.patchedAjax
  made,      \* wrappers made so far
  poll,      \* state.pollTimer and state.pollAttempts
  timers,    \* state.retryTimers
  pending,   \* state.siteRetryPending
  jquery,    \* the page's jQuery
  ajax,      \* the wrappers of each owner's ajax
  requests,  \* the requests for a listing
  adapter,   \* what the adapter was told last
  buried,    \* wrappers of ours that were beneath another's when they were to go
  turns

vars == <<bridge, enabled, generation, patched, made, poll, timers, pending, jquery, ajax, requests, adapter,
          buried, turns>>
script == <<bridge, enabled, generation, patched, made, poll, timers, adapter, buried>>

None == "none"
NotPatched == [owner |-> None, wrapper |-> 0]
NotPolling == [on |-> FALSE, attempts |-> 0]

Init ==
  /\ bridge = "none" /\ enabled = FALSE /\ generation = 0
  /\ patched = NotPatched /\ made = 0 /\ poll = NotPolling
  /\ timers = {} /\ pending = FALSE
  /\ jquery \in Owners \union {None} /\ ajax = [o \in Owners |-> <<>>]
  /\ requests = <<>>
  /\ adapter = [patched |-> FALSE, polling |-> FALSE, retries |-> 0]
  /\ buried = {} /\ turns = 0

Counted == turns < MaxTurns /\ turns' = turns + 1

\* emit() and onStatus().
Emitted ==
  adapter' = [patched |-> patched' # NotPatched, polling |-> poll'.on, retries |-> Cardinality(timers')]

Top(o) == IF ajax[o] = <<>> THEN 0 ELSE Head(ajax[o])

-----------------------------------------------------------------------------
(* Commands.                                                                  *)

\* patch(): nothing is done where one of ours is outermost already.
Patch ==
  IF jquery # None /\ Top(jquery) = 0
  THEN /\ made' = made + 1 /\ patched' = [owner |-> jquery, wrapper |-> made + 1]
       /\ ajax' = [ajax EXCEPT ![jquery] = <<made + 1>> \o @]
  ELSE UNCHANGED <<made, patched, ajax>>

\* enable(), after a disable() or for the first time.
Enable ==
  /\ Counted /\ bridge # "gone" /\ ~enabled
  /\ bridge' = "listening" /\ enabled' = TRUE /\ Patch
  /\ poll' = [on |-> jquery = None, attempts |-> 0]
  /\ UNCHANGED <<generation, timers, pending, jquery, requests, buried>>
  /\ Emitted

\* Faulty variant: the adapter is not told that jQuery has been found.
PollTicksQuietly ==
  /\ poll.on /\ Patch
  /\ poll' = IF jquery # None \/ poll.attempts + 1 >= PollLimit THEN NotPolling
             ELSE [poll EXCEPT !.attempts = @ + 1]
  /\ UNCHANGED <<bridge, enabled, generation, timers, pending, jquery, requests, adapter, buried, turns>>

\* The interval looks for jQuery.
PollTicks ==
  /\ poll.on /\ Patch
  /\ poll' = IF jquery # None \/ poll.attempts + 1 >= PollLimit THEN NotPolling
             ELSE [poll EXCEPT !.attempts = @ + 1]
  /\ UNCHANGED <<bridge, enabled, generation, timers, pending, jquery, requests, buried, turns>>
  /\ IF poll'.on THEN UNCHANGED adapter ELSE Emitted

\* Faulty variant: only the page's present jQuery is looked at.
RestoredOfPage ==
  [o \in Owners |-> IF o = jquery /\ patched.wrapper # 0 /\ Top(o) = patched.wrapper THEN Tail(ajax[o]) ELSE ajax[o]]

\* The site's ajax is put back where ours is outermost.
Restored ==
  [o \in Owners |-> IF patched.wrapper # 0 /\ Top(o) = patched.wrapper THEN Tail(ajax[o]) ELSE ajax[o]]

OursIn(wrappers) == {wrappers[i] : i \in DOMAIN wrappers} \ {0}

\* Faulty variant: the retries go on.
Disabling ==
  /\ enabled' = FALSE /\ pending' = FALSE /\ UNCHANGED <<generation, timers>>
  /\ poll' = NotPolling /\ ajax' = Restored /\ patched' = NotPatched
  /\ UNCHANGED buried

\* disable().
Disabled ==
  /\ enabled' = FALSE /\ pending' = FALSE /\ generation' = generation + 1
  /\ poll' = NotPolling /\ timers' = {} /\ ajax' = Restored /\ patched' = NotPatched
  /\ buried' = IF patched = NotPatched \/ Top(patched.owner) # 0 THEN buried
               ELSE buried \union OursIn(ajax[patched.owner])

Disable ==
  /\ Counted /\ bridge = "listening" /\ Disabled /\ Emitted
  /\ UNCHANGED <<bridge, made, jquery, requests>>

\* The script is gone, and the adapter listens no more.
Destroy ==
  /\ Counted /\ bridge = "listening" /\ Disabled /\ bridge' = "gone"
  /\ adapter' = [patched |-> FALSE, polling |-> FALSE, retries |-> 0]
  /\ UNCHANGED <<made, jquery, requests>>

-----------------------------------------------------------------------------
(* The site and other scripts.                                                *)

\* The site loads its jQuery, or another one takes its place.
Comes(o) ==
  /\ Counted /\ jquery # o /\ jquery' = o
  /\ UNCHANGED <<script, pending, ajax, requests>>

\* Another script wraps what it finds, or puts back what it found.
Wraps ==
  /\ Counted /\ jquery # None
  /\ \/ ajax' = [ajax EXCEPT ![jquery] = <<0>> \o @]
     \/ ajax[jquery] # <<>> /\ Head(ajax[jquery]) = 0 /\ ajax' = [ajax EXCEPT ![jquery] = Tail(@)]
  /\ UNCHANGED <<script, pending, jquery, requests>>

Room == Len(requests) < MaxRequests

\* The wrappers of ours that handle a request made now.
Handling == IF enabled THEN OursIn(ajax[jquery]) ELSE {}

\* A request, a retry of another one or (by = 0) not.
Asked(by, retried) ==
  Append(requests, [by |-> by, open |-> TRUE, ours |-> Handling, retried |-> retried])

\* The user looks at another listing; the first of our wrappers settles a
\* claim that is open.
Request ==
  /\ Room /\ jquery # None
  /\ requests' = Asked(0, pending /\ Handling # {})
  /\ pending' = (pending /\ Handling = {})
  /\ UNCHANGED <<script, jquery, ajax, turns>>

\* It is answered, or fails for good.
Settles(r) ==
  /\ requests[r].open
  /\ requests' = [requests EXCEPT ![r].open = FALSE]
  /\ UNCHANGED <<script, pending, jquery, ajax, turns>>

\* It fails in a way worth a retry: each of our wrappers sets a timer.
Fails(r) ==
  /\ requests[r].open /\ requests[r].ours # {}
  /\ requests' = [requests EXCEPT ![r].open = FALSE]
  /\ timers' = timers \union
       {[request |-> r, generation |-> generation, wrapper |-> w] :
          w \in {w \in requests[r].ours : enabled /\ ~requests[r].retried}}
  /\ UNCHANGED <<bridge, enabled, generation, patched, made, poll, pending, jquery, ajax, buried, turns>>
  /\ IF timers' # timers THEN Emitted ELSE UNCHANGED adapter

\* Faulty variant: a click without a request leaves the claim open.
ClickedInVain == UNCHANGED requests /\ pending' = TRUE

\* The site's Retry button makes no request.
ClickedIdle == UNCHANGED <<requests, pending>>

\* Faulty variant: the request of the button is not claimed.
ClickedUnclaimed(r) == requests' = Asked(r, FALSE) /\ UNCHANGED pending

\* It makes its request before the click returns.
Clicked(r) == requests' = Asked(r, Handling # {}) /\ UNCHANGED pending

\* There is no button: the request is made again, past our wrapper.
Replayed(r) == requests' = Asked(r, TRUE) /\ UNCHANGED pending

\* The timer of a retry.
TimerFires(t) ==
  /\ t \in timers /\ timers' = timers \ {t}
  /\ IF enabled /\ t.generation = generation
     THEN Room /\ (ClickedIdle \/ Clicked(t.request) \/ Replayed(t.request))
     ELSE UNCHANGED <<requests, pending>>
  /\ UNCHANGED <<bridge, enabled, generation, patched, made, poll, jquery, ajax, buried, turns>>
  /\ Emitted

Next ==
  \/ Enable \/ PollTicks \/ Disable \/ Destroy
  \/ \E o \in Owners : Comes(o)
  \/ Wraps \/ Request
  \/ \E r \in DOMAIN requests : Settles(r) \/ Fails(r)
  \/ \E t \in timers : TimerFires(t)

Spec == Init /\ [][Next]_vars

-----------------------------------------------------------------------------
(* Properties.                                                                *)

\* Every variable has its type.
TypeOK ==
  /\ bridge \in {"none", "listening", "gone"} /\ {enabled, pending} \subseteq BOOLEAN
  /\ patched \in [owner : Owners \union {None}, wrapper : 0 .. made]
  /\ poll \in [on : BOOLEAN, attempts : 0 .. PollLimit]
  /\ timers \subseteq [request : DOMAIN requests, generation : 0 .. generation, wrapper : 1 .. made]
  /\ jquery \in Owners \union {None} /\ buried \subseteq 1 .. made
  /\ \A o \in Owners : OursIn(ajax[o]) \subseteq 1 .. made
  /\ \A r \in DOMAIN requests : requests[r].by < r /\ requests[r].ours \subseteq 1 .. made

\* A request the user has made is asked for again at most once for every
\* wrapper of ours that it went through, a retry never is; and what the user
\* asks for is never taken for a retry.
RetriedOnce ==
  \A r \in DOMAIN requests :
    LET retries == Cardinality({q \in DOMAIN requests : requests[q].by = r})
        waiting == Cardinality({t \in timers : t.request = r})
    IN  /\ retries + waiting <= IF requests[r].by = 0 THEN Cardinality(requests[r].ours) ELSE 0
        /\ requests[r].retried => requests[r].by # 0

\* No retry waits once the repair is off, or from before it was.
NoRetryWhenOff == \A t \in timers : enabled /\ t.generation = generation

\* When the repair is off the site has its own ajax back, unless another script
\* has wrapped ours.
RestoredWhenOff ==
  ~enabled =>
    /\ patched = NotPatched /\ ~poll.on
    /\ \A o \in Owners : Top(o) = 0 \/ Top(o) \in buried

\* The adapter knows how the page script stands.
AdapterKnows ==
  adapter = [patched |-> patched # NotPatched, polling |-> poll.on, retries |-> Cardinality(timers)]
=============================================================================
