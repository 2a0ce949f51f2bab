---------------------------- MODULE LatestMarkers ----------------------------
(* The markers add-ons show on the cards of the Latest page: the core's      *)
(* broker of providers and their queries (services/addons                    *)
(* latestMarkerBroker.js), the overlay's reconciliation that asks every      *)
(* provider and paints the answers (latest-overlay markerLifecycle.js), and  *)
(* the Library add-on's provider that answers from its records               *)
(* (latestMarkerProvider.js).  A record's status is a number that grows with *)
(* every change.                                                             *)
EXTENDS Integers, FiniteSets

CONSTANTS Providers,   \* one provider per add-on
          Tiles,       \* the cards
          MaxPending,  \* requests the broker keeps at a time
          MaxStatus,   \* bound: changes of a record's status
          MaxTurns     \* bound: switches of overlay, setting, add-on and cards

VARIABLES
  status,    \* the stored status of each provider's record
  untold,    \* providers whose changed() is still to be called
  addon,     \* the add-on's side: stopped, starting or registered
  announced, \* its invalidation waits in a microtask
  listed,    \* the broker's providers
  allowed,   \* the add-on is registered, trusted, enabled and in scope
  wanted,    \* the provider's setting
  queries,   \* requests on their way, see Query
  overlay,   \* the overlay is enabled
  queued,    \* a refresh waits in a microtask
  round,     \* the reconciliation that clears the cards, with its providers
  shown,     \* cards on the page
  chips,     \* status shown on each card for each provider, or Blank
  turns      \* switches made

vars == <<status, untold, addon, announced, listed, allowed, wanted, queries, overlay,
          queued, round, shown, chips, turns>>
world == <<status, untold, addon, announced, allowed, wanted, overlay, shown, turns>>

Blank == -1
NoRound == [on |-> FALSE, ask |-> {}]

\* of: the provider.  open: the broker waits for the answer.  step, read: how
\* far the add-on is and what it has found; current when its generation is the
\* newest.  mine: the reconciliation that asked is the newest.  got, todo: the
\* answer and the cards it is still to be painted on.  A query without an
\* answer is forgotten when it is closed.
Query == [of : Providers, mine : BOOLEAN, open : BOOLEAN,
          step : {"none", "asked", "read"}, current : BOOLEAN,
          read : Blank..MaxStatus, got : Blank..MaxStatus, todo : SUBSET Tiles]

TypeOK ==
  /\ status \in [Providers -> 0..MaxStatus] /\ untold \subseteq Providers
  /\ addon \in [Providers -> {"stopped", "starting", "registered"}]
  /\ announced \subseteq Providers /\ listed \subseteq Providers
  /\ allowed \subseteq Providers /\ wanted \subseteq Providers
  /\ queries \subseteq Query /\ overlay \in BOOLEAN /\ queued \in BOOLEAN
  /\ shown \subseteq Tiles /\ turns \in 0..MaxTurns
  /\ chips \in [Tiles -> [Providers -> Blank..MaxStatus]]

Init ==
  /\ status = [p \in Providers |-> 0] /\ untold = {}
  /\ addon = [p \in Providers |-> "stopped"] /\ announced = {} /\ listed = {}
  /\ allowed = Providers /\ wanted = Providers
  /\ queries = {} /\ overlay = FALSE /\ queued = FALSE /\ round = NoRound
  /\ shown = Tiles /\ turns = 0
  /\ chips = [t \in Tiles |-> [p \in Providers |-> Blank]]

Turn == turns < MaxTurns /\ turns' = turns + 1

(******************************* The broker ********************************)
\* clearPending(): requests of the providers in S are answered with nothing.
Cleared(Q, S) ==
  {q \in Q : ~(q.open /\ q.of \in S)}

\* refresh() of the overlay: older requests are aborted at once, and what
\* belongs to them is no longer the newest.
Outdated(Q) == {[q EXCEPT !.mine = FALSE] : q \in {x \in Q : ~x.open}}

\* onChange() with the overlay as its subscriber.
Refresh(Q) ==
  IF overlay /\ ~queued
  THEN queries' = Outdated(Q) /\ queued' = TRUE /\ round' = NoRound
  ELSE queries' = Q /\ UNCHANGED <<queued, round>>

Register(p) ==
  /\ addon[p] = "stopped" /\ addon' = [addon EXCEPT ![p] = "starting"]
  /\ IF p \in allowed /\ p \notin listed
     THEN listed' = listed \union {p} /\ Refresh(queries)
     ELSE UNCHANGED <<listed, queries, queued, round>>
  /\ UNCHANGED <<status, untold, announced, allowed, wanted, overlay, shown, chips, turns>>

\* The answer of the registration, followed by changed().
Registered(p) ==
  /\ addon[p] = "starting"
  /\ IF p \in listed
     THEN addon' = [addon EXCEPT ![p] = "registered"] /\ announced' = announced \union {p}
     ELSE addon' = [addon EXCEPT ![p] = "stopped"] /\ UNCHANGED announced
  /\ UNCHANGED <<status, untold, listed, allowed, wanted, queries, overlay, queued, round,
                 shown, chips, turns>>

\* unregister() by the add-on, removeOwner() and prune() by the core.
Removed(p) ==
  IF p \in listed
  THEN listed' = listed \ {p} /\ Refresh(Cleared(queries, {p}))
  ELSE UNCHANGED <<listed, queries, queued, round>>

\* stop() of the add-on's provider.
Stop(p) ==
  /\ addon[p] = "registered" /\ Turn
  /\ addon' = [addon EXCEPT ![p] = "stopped"]
  /\ LET old == {IF q.of = p THEN [q EXCEPT !.current = FALSE] ELSE q : q \in queries}
     IN  IF p \in listed THEN listed' = listed \ {p} /\ Refresh(Cleared(old, {p}))
         ELSE queries' = old /\ UNCHANGED <<listed, queued, round>>
  /\ UNCHANGED <<status, untold, announced, allowed, wanted, overlay, shown, chips>>

\* The core disables, blocks or unregisters the add-on, or lets it in again.
Disallow(p) ==
  /\ p \in allowed /\ Turn /\ allowed' = allowed \ {p}
  /\ Removed(p)
  /\ UNCHANGED <<status, untold, addon, announced, wanted, overlay, shown, chips>>

Allow(p) ==
  /\ p \notin allowed /\ addon[p] = "stopped" /\ allowed' = allowed \union {p}
  /\ UNCHANGED <<status, untold, addon, announced, listed, wanted, queries, overlay,
                 queued, round, shown, chips, turns>>

(******************************* The add-on ********************************)
Stored(p) ==
  /\ status[p] < MaxStatus
  /\ status' = [status EXCEPT ![p] = @ + 1]
  /\ untold' = untold \union {p}
  /\ UNCHANGED <<addon, announced, listed, allowed, wanted, queries, overlay, queued,
                 round, shown, chips, turns>>

\* changed(): a query that is being answered is given up.
Changed(p) ==
  /\ p \in untold /\ untold' = untold \ {p}
  /\ IF addon[p] = "registered" /\ p \notin announced
     THEN /\ announced' = announced \union {p}
          /\ queries' = {IF q.of = p THEN [q EXCEPT !.current = FALSE] ELSE q : q \in queries}
     ELSE UNCHANGED <<announced, queries>>
  /\ UNCHANGED <<status, addon, listed, allowed, wanted, overlay, queued, round, shown,
                 chips, turns>>

Invalidate(p) ==
  /\ p \in announced /\ announced' = announced \ {p}
  /\ IF addon[p] = "registered" /\ p \in listed \intersect allowed
     THEN Refresh(Cleared(queries, {p}))
     ELSE UNCHANGED <<queries, queued, round>>
  /\ UNCHANGED <<status, untold, addon, listed, allowed, wanted, overlay, shown, chips, turns>>

Unanswered(q) == [q EXCEPT !.step = "none", !.current = FALSE, !.read = Blank]
Replace(q, r) == queries' = (queries \ {q}) \union {r}

\* query() of the add-on reads its record and then answers.
Read(q) ==
  /\ q.step = "asked"
  /\ Replace(q, IF q.current /\ addon[q.of] = "registered"
                THEN [q EXCEPT !.step = "read", !.read = status[q.of]]
                ELSE Unanswered(q))
  /\ UNCHANGED <<world, listed, queued, round, chips>>

Answers(q) == q.current /\ addon[q.of] = "registered"

Respond(q) ==
  /\ q.step = "read"
  /\ LET taken == /\ Answers(q)
                  /\ q.open /\ q.of \in listed \intersect allowed \intersect wanted
     IN  Replace(q, IF taken THEN [Unanswered(q) EXCEPT !.open = FALSE, !.got = q.read]
                    ELSE Unanswered(q))
  /\ UNCHANGED <<world, listed, queued, round, chips>>

Timeout(q) ==
  /\ q.open
  /\ queries' = queries \ {q}
  /\ UNCHANGED <<world, listed, queued, round, chips>>

(******************************* The overlay *******************************)
Enable ==
  /\ ~overlay /\ overlay' = TRUE /\ queued' = TRUE
  /\ queries' = Outdated(queries)
  /\ UNCHANGED <<status, untold, addon, announced, listed, allowed, wanted, round, shown,
                 chips, turns>>

Disable ==
  /\ overlay /\ Turn /\ overlay' = FALSE
  /\ queries' = Outdated(queries) /\ round' = NoRound
  /\ chips' = [t \in Tiles |-> [p \in Providers |-> Blank]]
  /\ UNCHANGED <<status, untold, addon, announced, listed, allowed, wanted, queued, shown>>

\* The provider's setting, followed by a reprocessing of the cards.
SettingChanges(p) ==
  /\ Turn
  /\ wanted' = IF p \in wanted THEN wanted \ {p} ELSE wanted \union {p}
  /\ Refresh(queries)
  /\ UNCHANGED <<status, untold, addon, announced, listed, allowed, overlay, shown, chips>>

\* Cards are added or replaced; the observer's callback refreshes.
CardsChange(t) ==
  /\ Turn
  /\ shown' = IF t \in shown THEN shown \ {t} ELSE shown \union {t}
  /\ chips' = [chips EXCEPT ![t] = [p \in Providers |-> Blank]]
  /\ Refresh(queries)
  /\ UNCHANGED <<status, untold, addon, announced, listed, allowed, wanted, overlay>>

\* reconcile(): the microtask of a refresh.
Reconcile ==
  /\ queued /\ queued' = FALSE
  /\ IF overlay THEN round' = [on |-> TRUE, ask |-> listed \intersect allowed]
                     /\ queries' = Outdated(queries)
     ELSE UNCHANGED <<round, queries>>
  /\ UNCHANGED <<world, listed, chips>>

NewQuery(p) ==
  [of |-> p, mine |-> TRUE, open |-> TRUE,
   step |-> IF addon[p] = "registered" THEN "asked" ELSE "none",
   current |-> addon[p] = "registered", read |-> Blank, got |-> Blank, todo |-> shown]

\* The cards are cleared over several frames, then every provider is asked;
\* the broker refuses what is too much for it.
Ask ==
  /\ round.on /\ round' = NoRound
  /\ chips' = [t \in Tiles |-> [p \in Providers |-> Blank]]
  /\ \E S \in SUBSET (round.ask \intersect listed \intersect allowed \intersect wanted) :
       /\ Cardinality(S) <= MaxPending - Cardinality({q \in queries : q.open})
       /\ \A p \in (round.ask \intersect listed \intersect allowed \intersect wanted) \ S :
            Cardinality(S) = MaxPending - Cardinality({q \in queries : q.open})
       /\ queries' = queries \union {NewQuery(p) : p \in S}
  /\ UNCHANGED <<world, listed, queued>>

\* Faulty variant: any reconciliation paints.
PaintAnyway(q) == TRUE

\* The cards of an answer are painted one after the other while its
\* reconciliation is the newest.
Paints(q) == overlay /\ q.mine

Paint(q) ==
  /\ ~q.open /\ q.got # Blank /\ Paints(q)
  /\ \E t \in q.todo :
       /\ chips' = IF t \in shown THEN [chips EXCEPT ![t][q.of] = q.got] ELSE chips
       /\ Replace(q, [q EXCEPT !.todo = @ \ {t}])
  /\ UNCHANGED <<world, listed, queued, round>>

\* Nothing is left to do for a query.
Done(q) ==
  /\ ~q.open /\ (q.todo = {} \/ ~Paints(q))
  /\ queries' = queries \ {q}
  /\ UNCHANGED <<world, listed, queued, round, chips>>

Next ==
  \/ \E p \in Providers :
       \/ Register(p) \/ Registered(p) \/ Stop(p) \/ Disallow(p) \/ Allow(p)
       \/ Stored(p) \/ Changed(p) \/ Invalidate(p) \/ SettingChanges(p)
  \/ \E q \in queries : Read(q) \/ Respond(q) \/ Timeout(q) \/ Paint(q) \/ Done(q)
  \/ \E t \in Tiles : CardsChange(t)
  \/ Enable \/ Disable \/ Reconcile \/ Ask

Spec == Init /\ [][Next]_vars

(******************************** Properties *******************************)
Quiet == queries = {} /\ ~queued /\ ~round.on /\ announced = {} /\ untold = {}

\* What a card shows is true: once nothing is on its way, a marker is the
\* present status of a provider that is still there, allowed and wanted, and
\* without the overlay there is none, whichever answers came late
\* (docs/architecture/latest-marker-overlay-lifecycle.md).
MarkersAreCurrent ==
  /\ ~overlay => \A t \in Tiles, p \in Providers : chips[t][p] = Blank
  /\ Quiet => \A t \in Tiles, p \in Providers :
       chips[t][p] # Blank =>
         p \in listed \intersect allowed \intersect wanted /\ chips[t][p] = status[p]
=============================================================================
