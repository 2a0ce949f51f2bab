---------------------------- MODULE AddonRequests ----------------------------
(* What an add-on asks of the core: the bridge with its limits, the two      *)
(* timeouts of a request (the add-on's and the core's), and the storage      *)
(* actions with the candidate of the add-on settings that all actions of a   *)
(* tab share before it is committed.  The settings are a function from keys  *)
(* to small numbers, whose sum stands for their size; 0 stands for a key     *)
(* that is not there.  An action that answers within the task it was asked   *)
(* in is one step.                                                           *)
EXTENDS Integers, Sequences, FiniteSets, SequencesExt, FiniteSetsExt

CONSTANTS Requests,     \* the requests an add-on makes
          Keys,         \* storage keys
          MaxValue,     \* bound: values are 0..MaxValue
          Legacy,       \* what the storage of older releases has for each key
          Quota,        \* size all values of an add-on may have together
          Rate,         \* requests accepted per window
          Concurrent,   \* requests under way at a time
          MaxForeign,   \* bound: commits of another tab
          MaxRestarts   \* bound: times the bridge is shut down

VARIABLES
  live,      \* the committed settings as this tab knows them
  staged,    \* the candidate not yet handed to the updater, with its base
             \* and the reads that still hold its bucket
  commits,   \* candidates handed to the updater, in order
  request,   \* what each request asks and how far it is
  inflight,  \* the core's count of requests under way
  recent,    \* requests counted in the running window
  bridge,    \* the listener is bound
  spent      \* bounded events

vars == <<live, staged, commits, request, inflight, recent, bridge, spent>>

Values == 0..MaxValue
Settings == [Keys -> Values]
NotStaged == [on |-> FALSE, base |-> [k \in Keys |-> 0], cand |-> [k \in Keys |-> 0],
              holders |-> {}]

\* What the constants are.
ConstantsOK ==
  /\ IsFiniteSet(Requests) /\ Keys # {} /\ Legacy \in Settings
  /\ MaxValue \in Nat /\ Rate \in Nat /\ Concurrent \in Nat

\* st: idle, running, lost (nobody listened), answered.  heard: what the
\* add-on was told.  stored: the commit of this request has been carried out.
\* reads: the old storage has been asked.
Unasked == [st |-> "idle", kind |-> "get", key |-> CHOOSE k \in Keys : TRUE, val |-> 0,
            heard |-> "nothing", stored |-> FALSE, reads |-> FALSE]

Request == [st : {"idle", "running", "lost", "answered"}, kind : {"get", "set", "usage"},
            key : Keys, val : Values, heard : {"nothing", "ok", "refused", "timeout"},
            stored : BOOLEAN, reads : BOOLEAN]

TypeOK ==
  /\ live \in Settings
  /\ staged \in [on : BOOLEAN, base : Settings, cand : Settings, holders : SUBSET Requests]
  /\ commits \in Seq([by : Requests, base : Settings, cand : Settings])
  /\ Len(commits) <= Cardinality(Requests)
  /\ request \in [Requests -> Request]
  /\ inflight \in 0..Concurrent /\ recent \in 0..Rate /\ bridge \in BOOLEAN
  /\ spent \in [foreign : Nat, restart : Nat]

Init ==
  /\ live = [k \in Keys |-> 0]
  /\ staged = NotStaged
  /\ commits = <<>>
  /\ request = [r \in Requests |-> Unasked]
  /\ inflight = 0 /\ recent = 0 /\ bridge = TRUE
  /\ spent = [foreign |-> 0, restart |-> 0]

(******************************* The candidate ****************************)
\* ensureAddonStateBucket(): a candidate that is there is used again.
Staged == IF staged.on THEN staged
          ELSE [NotStaged EXCEPT !.on = TRUE, !.base = live, !.cand = live]

\* persistAddonsState(): the candidate, or the settings as they are when there
\* is none, is handed to the updater.
HandOver(r, c) ==
  /\ commits' = Append(commits, [by |-> r, base |-> c.base, cand |-> c.cand])
  /\ staged' = NotStaged

Size(s) == MapThenSumSet(LAMBDA k : s[k], Keys)

\* Faulty variant: the candidate replaces the draft.
WholeCandidate(draft, c) == c.cand

\* applyAddonChanges(): what differs from the base goes into the draft.
ApplyChanges(draft, c) ==
  [k \in Keys |-> IF c.cand[k] # c.base[k] THEN c.cand[k] ELSE draft[k]]
Unchanged(c) == c.cand = c.base

(******************************** The bridge ******************************)
Heard(r, answer) ==
  [request[r] EXCEPT !.st = "answered",
                     !.heard = IF @ = "nothing" THEN answer ELSE @]

\* Faulty variant (with ActionTimeoutAsFailure): the place stays taken.
KeepSlot == inflight

\* Faulty variant: the count is lowered without a look at it.
ReleaseSlotTwice == inflight - 1

ReleaseSlot == IF inflight > 0 THEN inflight - 1 ELSE 0

Asked(r, kind, k, v) ==
  [request[r] EXCEPT !.st = "running", !.kind = kind, !.key = k, !.val = v]

Lost(r) ==
  /\ request[r].st = "idle" /\ ~bridge
  /\ request' = [request EXCEPT ![r].st = "lost"]
  /\ UNCHANGED <<live, staged, commits, inflight, recent, bridge, spent>>

Limited(r) ==
  /\ request[r].st = "idle" /\ bridge
  /\ recent >= Rate \/ inflight >= Concurrent
  /\ recent' = IF recent >= Rate THEN recent ELSE recent + 1
  /\ request' = [request EXCEPT ![r] = Heard(r, "refused")]
  /\ UNCHANGED <<live, staged, commits, inflight, bridge, spent>>

Accepted(r) == request[r].st = "idle" /\ bridge /\ recent < Rate /\ inflight < Concurrent

\* The service is off, the envelope is not a valid or a new one, or the
\* add-on may not do this.
TurnedAway(r) ==
  /\ request[r].st = "idle" /\ bridge
  /\ \/ recent' = recent
     \/ Accepted(r) /\ recent' = recent + 1
  /\ request' = [request EXCEPT ![r] = Heard(r, "refused")]
  /\ UNCHANGED <<live, staged, commits, inflight, bridge, spent>>

\* storage.getUsage stages the settings and answers.
Usage(r) ==
  /\ Accepted(r)
  /\ recent' = recent + 1
  /\ staged' = Staged
  /\ request' = [request EXCEPT ![r] = [Heard(r, "ok") EXCEPT !.kind = "usage"]]
  /\ UNCHANGED <<live, commits, inflight, bridge, spent>>

\* storage.get answers from the candidate, or asks the old storage and keeps
\* the bucket until it hears of it.
Get(r, k) ==
  /\ Accepted(r)
  /\ recent' = recent + 1
  /\ IF Staged.cand[k] # 0
     THEN /\ staged' = Staged
          /\ request' = [request EXCEPT ![r] =
                           [Heard(r, "ok") EXCEPT !.kind = "get", !.key = k,
                                                  !.val = Staged.cand[k]]]
          /\ UNCHANGED inflight
     ELSE /\ staged' = [Staged EXCEPT !.holders = @ \cup {r}]
          /\ request' = [request EXCEPT ![r] =
                           [Asked(r, "get", k, 0) EXCEPT !.reads = TRUE]]
          /\ inflight' = inflight + 1
  /\ UNCHANGED <<live, commits, bridge, spent>>

\* storage.set: the value goes into the candidate; a candidate that is too
\* large is put back as it was, else it is handed to the updater.
Set(r, k, v) ==
  /\ Accepted(r)
  /\ recent' = recent + 1
  /\ LET next == [Staged EXCEPT !.cand[k] = v]
     IN  IF Size(next.cand) > Quota
         THEN /\ staged' = Staged
              /\ request' = [request EXCEPT ![r] =
                               [Heard(r, "refused") EXCEPT !.kind = "set", !.key = k,
                                                           !.val = v]]
              /\ UNCHANGED <<commits, inflight>>
         ELSE /\ HandOver(r, next)
              /\ request' = [request EXCEPT ![r] = Asked(r, "set", k, v)]
              /\ inflight' = inflight + 1
  /\ UNCHANGED <<live, bridge, spent>>

\* The updater has carried out the first commit, or it was rejected.  Only a
\* request that has not been answered yet is answered.
Answer(r, answer, entry) ==
  /\ request' = [request EXCEPT ![r] =
                   [entry EXCEPT !.st = "answered",
                      !.heard = IF entry.st = "running" /\ @ = "nothing" THEN answer ELSE @]]
  /\ inflight' = IF request[r].st = "running" THEN ReleaseSlot ELSE inflight

Read(r) == [request[r] EXCEPT !.reads = FALSE]

\* The old storage has nothing, or it answers with an error or after the
\* add-on has lost the right to ask.
NothingRead(r) ==
  /\ request[r].reads
  /\ \/ Legacy[request[r].key] = 0 /\ Answer(r, "ok", Read(r))
     \/ Answer(r, "refused", Read(r))
  /\ staged' = [staged EXCEPT !.holders = @ \ {r}]
  /\ UNCHANGED <<live, commits, recent, bridge, spent>>

\* The value of the old storage goes into the bucket that was kept, which is
\* the candidate's unless that was handed over in the meantime.
Migrated(r) ==
  IF r \in staged.holders
  THEN [staged EXCEPT !.cand[request[r].key] = Legacy[request[r].key]] ELSE Staged

\* The old storage has a value: the candidate of the moment is handed over.
LegacyRead(r) ==
  /\ request[r].reads /\ Legacy[request[r].key] # 0
  /\ HandOver(r, Migrated(r))
  /\ request' = [request EXCEPT ![r] = [Read(r) EXCEPT !.val = Legacy[request[r].key]]]
  /\ UNCHANGED <<live, inflight, recent, bridge, spent>>

Committed ==
  /\ commits # <<>>
  /\ LET c == Head(commits)
         r == c.by
     IN  /\ commits' = Tail(commits)
         /\ live' = ApplyChanges(live, c)
         /\ Answer(r, "ok", [request[r] EXCEPT !.stored = ~Unchanged(c)])
  /\ UNCHANGED <<staged, recent, bridge, spent>>

Rejected ==
  /\ commits # <<>>
  /\ commits' = Tail(commits)
  /\ Answer(Head(commits).by, "refused", request[Head(commits).by])
  /\ UNCHANGED <<live, staged, recent, bridge, spent>>

(******************************* The timeouts *****************************)
CallerTimeout(r) ==
  /\ request[r].st \in {"running", "lost"} /\ request[r].heard = "nothing"
  /\ request' = [request EXCEPT ![r].heard = "timeout"]
  /\ UNCHANGED <<live, staged, commits, inflight, recent, bridge, spent>>

\* Faulty variant: the core's timeout is not the longer one, and nothing is given back.
ActionTimeoutAsFailure(r) ==
  /\ request[r].st = "running"
  /\ request' = [request EXCEPT ![r] = Heard(r, "refused")]
  /\ inflight' = KeepSlot
  /\ UNCHANGED <<live, staged, commits, recent, bridge, spent>>

\* The core's timeout is the longer one; the commit goes on.
ActionTimeout(r) ==
  /\ request[r].st = "running" /\ request[r].heard = "timeout"
  /\ request' = [request EXCEPT ![r] = Heard(r, "refused")]
  /\ inflight' = ReleaseSlot
  /\ UNCHANGED <<live, staged, commits, recent, bridge, spent>>

WindowPasses ==
  /\ recent > 0
  /\ recent' = 0
  /\ UNCHANGED <<live, staged, commits, request, inflight, bridge, spent>>

(***************************** The surroundings ***************************)
\* A commit of another tab reaches this tab's copy.
OtherTabCommits(k, v) ==
  /\ live[k] # v /\ spent.foreign < MaxForeign
  /\ live' = [live EXCEPT ![k] = v]
  /\ spent' = [spent EXCEPT !.foreign = @ + 1]
  /\ UNCHANGED <<staged, commits, request, inflight, recent, bridge>>

\* The service is switched off: the counters of all add-ons are cleared.
BridgeDown ==
  /\ bridge /\ spent.restart < MaxRestarts
  /\ bridge' = FALSE /\ inflight' = 0 /\ recent' = 0
  /\ spent' = [spent EXCEPT !.restart = @ + 1]
  /\ UNCHANGED <<live, staged, commits, request>>

BridgeUp ==
  /\ ~bridge
  /\ bridge' = TRUE
  /\ UNCHANGED <<live, staged, commits, request, inflight, recent, spent>>

Next ==
  \/ \E r \in Requests :
       \/ Lost(r) \/ Limited(r) \/ TurnedAway(r) \/ CallerTimeout(r) \/ ActionTimeout(r)
       \/ Usage(r) \/ NothingRead(r) \/ LegacyRead(r)
       \/ \E k \in Keys : Get(r, k) \/ \E v \in Values \ {0} : Set(r, k, v)
  \/ \E k \in Keys, v \in Values : OtherTabCommits(k, v)
  \/ Committed \/ Rejected \/ WindowPasses \/ BridgeDown \/ BridgeUp

Spec == Init /\ [][Next]_vars

(******************************** Properties *******************************)
Running == {r \in Requests : request[r].st = "running"}

\* An add-on that is told its write was refused finds it refused for good; no
\* write that ran into a timeout is reported as refused while its commit goes
\* on, and the slot of every request is given back once (bridgeServer.js,
\* actions/registry.js, actions/families/storage.js).
AnswersAreFinal ==
  /\ \A r \in Requests : request[r].heard = "refused" =>
       /\ ~request[r].stored
       /\ \A i \in DOMAIN commits : commits[i].by # r
  /\ inflight <= Cardinality(Running)
  /\ spent.restart = 0 => inflight = Cardinality(Running)

\* A commit changes the key it was asked for and no other, however old the
\* candidate it was made from (state.js, applyAddonChanges).
OnlyOwnKeysChange ==
  [][\A k \in Keys :
       live'[k] # live[k] =>
         \/ spent'.foreign > spent.foreign
         \/ commits # <<>> /\ LET q == request[Head(commits).by]
                              IN q.key = k /\ q.val = live'[k]]_vars
=============================================================================
