----------------------------- MODULE Addons_proof -----------------------------
(* Add-ons and the core, for any number of tabs, any bounds and any faults.*)
(* What the constants are is a hypothesis of every theorem.                *)
(*  - What an add-on is told of its requests is true, its slots are given  *)
(*    back once, and a commit changes the key it was asked for alone:      *)
(*    whatever the old storage holds, other tabs commit, and however often *)
(*    the bridge is shut down (AddonRequests).                             *)
(*  - Every page trusts the genuine catalog, and no failed check costs the *)
(*    stored copy its catalog (AddonCatalog).                              *)
(*  - An operation of an add-on's database is answered with success        *)
(*    exactly when it took effect, over a connection that can be used      *)
(*    (AddonDatabase).                                                     *)
(*  - A mirrored switch of an older release authorizes nothing unread      *)
(*    (AutomationSettings).                                                *)
(*  - A renamed add-on keeps what was chosen last and when it was first    *)
(*    seen, unless a commit makes or moves a whole bucket over other       *)
(*    contents (AddonIdentity).                                            *)
(*  - The page script that repairs listings asks at most once more for a   *)
(*    request, and what it put around the site's ajax is gone when it is   *)
(*    off (AjaxRepair).                                                    *)
EXTENDS AddonRequests, FiniteSetTheorems, SequenceTheorems, TLAPS

\* The candidate that is staged differs from its base in nothing: what an
\* action writes into it is handed over or taken back in the same step.
StagedInv == staged.cand = staged.base

\* A candidate that waits differs from its base at the key of its request at
\* most, and its request has not been told an end.
PendingOK(c, q) ==
  /\ q.st \in {"running", "answered"} /\ q.heard \in {"nothing", "timeout"}
  /\ ~q.stored /\ ~q.reads
  /\ \A k \in Keys : c.cand[k] # c.base[k] => k = q.key /\ c.cand[k] = q.val

CommitInv == \A i \in 1..Len(commits) : PendingOK(commits[i], request[commits[i].by])

\* A request hands over once.
OnceInv == \A i, j \in 1..Len(commits) : commits[i].by = commits[j].by => i = j

RequestOK(q) ==
  /\ q.reads => /\ q.st \in {"running", "answered"} /\ q.heard \in {"nothing", "timeout"}
                /\ ~q.stored
  /\ q.stored => q.st = "answered" /\ q.heard # "refused"
  /\ q.st = "idle" => q.heard = "nothing"
  /\ q.st = "running" => q.heard \in {"nothing", "timeout"}

RequestInv == \A r \in Requests : RequestOK(request[r])

SlotInv ==
  /\ inflight <= Cardinality(Running)
  /\ spent.restart = 0 => inflight = Cardinality(Running)

Commit == [by : Requests, base : Settings, cand : Settings]

\* The type invariant without the length of the queue of commits.
Types ==
  /\ live \in Settings
  /\ staged \in [on : BOOLEAN, base : Settings, cand : Settings, holders : SUBSET Requests]
  /\ commits \in Seq(Commit)
  /\ request \in [Requests -> Request]
  /\ inflight \in 0..Concurrent /\ recent \in 0..Rate /\ bridge \in BOOLEAN
  /\ spent \in [foreign : Nat, restart : Nat]

IInv == Types /\ StagedInv /\ CommitInv /\ OnceInv /\ RequestInv /\ SlotInv
-----------------------------
(* The queue of commits is no longer than there are requests.              *)

LEMMA CommitsFit ==
  ASSUME ConstantsOK, Types, OnceInv
  PROVE  Len(commits) <= Cardinality(Requests)
<1> DEFINE S == 1..Len(commits)
           f == [i \in S |-> commits[i].by]
<1>1. Len(commits) \in Nat
  BY DEF Types
<1>2. \A i \in S : commits[i] \in Commit
  BY DEF Types
<1>3. f \in [S -> Requests]
  BY <1>2 DEF Commit
<1>4. \A i, j \in S : f[i] = f[j] => i = j
  BY DEF OnceInv
<1>5. f \in Injection(S, Requests)
  BY <1>3, <1>4 DEF Injection, IsInjective
<1>6. IsFiniteSet(Requests)
  BY DEF ConstantsOK
<1>7. Cardinality(S) <= Cardinality(Requests)
  BY <1>5, <1>6, FS_Injection
<1>8. Cardinality(S) = Len(commits)
  BY <1>1, FS_Interval, SMTT(60)
<1>9. QED
  BY <1>7, <1>8

LEMMA InvTypes == ASSUME ConstantsOK, IInv PROVE TypeOK
BY CommitsFit DEF IInv, Types, TypeOK, Commit
-----------------------------
(* Slots.                                                                  *)

LEMMA RunningFinite ==
  ASSUME ConstantsOK
  PROVE  IsFiniteSet(Running) /\ Cardinality(Running) \in Nat
<1>1. Running \subseteq Requests
  BY DEF Running
<1>2. QED
  BY <1>1, FS_Subset, FS_CardinalityType DEF ConstantsOK

LEMMA SlotKept ==
  ASSUME IInv, NEW r \in Requests, NEW q,
         request' = [request EXCEPT ![r] = q], request[r].st = "running" <=> q.st = "running",
         UNCHANGED <<inflight, spent>>
  PROVE  SlotInv'
<1>1. Running' = Running
  BY DEF IInv, Types, Running
<1>2. QED
  BY <1>1 DEF IInv, SlotInv

LEMMA SlotTaken ==
  ASSUME ConstantsOK, IInv, NEW r \in Requests, NEW q,
         request' = [request EXCEPT ![r] = q],
         request[r].st # "running", q.st = "running",
         inflight < Concurrent, inflight' = inflight + 1, UNCHANGED spent
  PROVE  SlotInv' /\ inflight' \in 0..Concurrent
<1>1. Running' = Running \cup {r} /\ r \notin Running
  BY DEF IInv, Types, Running
<1>2. IsFiniteSet(Running) /\ Cardinality(Running) \in Nat
  BY RunningFinite
<1>3. Cardinality(Running') = Cardinality(Running) + 1
  BY <1>1, <1>2, FS_AddElement
<1>4. inflight \in 0..Concurrent /\ Concurrent \in Nat
  BY DEF IInv, Types, ConstantsOK
<1>5. QED
  BY <1>2, <1>3, <1>4 DEF IInv, SlotInv

LEMMA SlotReleased ==
  ASSUME ConstantsOK, IInv, NEW r \in Requests, NEW q,
         request' = [request EXCEPT ![r] = q],
         request[r].st = "running", q.st # "running",
         inflight' = ReleaseSlot, UNCHANGED spent
  PROVE  SlotInv' /\ inflight' \in 0..Concurrent
<1>1. Running' = Running \ {r} /\ r \in Running
  BY DEF IInv, Types, Running
<1>2. IsFiniteSet(Running) /\ Cardinality(Running) \in Nat
  BY RunningFinite
<1>3. Cardinality(Running') = Cardinality(Running) - 1
  BY <1>1, <1>2, FS_RemoveElement
<1>4. Cardinality(Running) # 0
  BY <1>1, <1>2, FS_EmptySet
<1>5. inflight \in 0..Concurrent /\ Concurrent \in Nat
  BY DEF IInv, Types, ConstantsOK
<1>6. QED
  BY <1>2, <1>3, <1>4, <1>5 DEF IInv, SlotInv, ReleaseSlot
-----------------------------
(* What a change of one request leaves, the commits staying as they are or *)
(* one being added.                                                        *)

LEMMA OneRequest ==
  ASSUME IInv, NEW r \in Requests, NEW q \in Request, RequestOK(q),
         request' = [request EXCEPT ![r] = q], UNCHANGED commits,
         \A i \in 1..Len(commits) : commits[i].by = r => PendingOK(commits[i], q)
  PROVE  /\ request' \in [Requests -> Request]
         /\ RequestInv' /\ CommitInv' /\ OnceInv'
<1>1. request' \in [Requests -> Request]
  BY DEF IInv, Types
<1>2. RequestInv'
  BY DEF IInv, Types, RequestInv
<1>3. CommitInv'
  <2>1. \A i \in 1..Len(commits) : commits[i] \in Commit
    BY DEF IInv, Types
  <2>2. \A i \in 1..Len(commits) : PendingOK(commits[i], request'[commits[i].by])
    BY <2>1 DEF IInv, Types, CommitInv, Commit
  <2>3. QED
    BY <2>2 DEF CommitInv, PendingOK
<1>4. OnceInv'
  BY DEF IInv, OnceInv
<1>5. QED
  BY <1>1, <1>2, <1>3, <1>4

\* A request nothing of which waits to be committed may change as it will.
LEMMA NothingWaits ==
  ASSUME IInv, NEW r \in Requests,
         request[r].st \in {"idle", "lost"} \/ request[r].reads
  PROVE  \A i \in 1..Len(commits) : commits[i].by # r
BY DEF IInv, CommitInv, PendingOK

LEMMA HandedOver ==
  ASSUME ConstantsOK, IInv, NEW r \in Requests, NEW q \in Request, RequestOK(q),
         request' = [request EXCEPT ![r] = q],
         \A i \in 1..Len(commits) : commits[i].by # r,
         NEW c, c.base \in Settings, c.cand \in Settings, HandOver(r, c),
         PendingOK([by |-> r, base |-> c.base, cand |-> c.cand], q)
  PROVE  /\ request' \in [Requests -> Request] /\ commits' \in Seq(Commit)
         /\ RequestInv' /\ CommitInv' /\ OnceInv'
<1> DEFINE e == [by |-> r, base |-> c.base, cand |-> c.cand]
<1>1. request' \in [Requests -> Request]
  BY DEF IInv, Types
<1>2. RequestInv'
  BY DEF IInv, Types, RequestInv
<1>3. e \in Commit /\ e.by = r
  BY DEF Commit
<1>4. PendingOK(e, q)
  OBVIOUS
<1>5. commits' = Append(commits, e)
  BY DEF HandOver
<1> HIDE DEF e
<1>6. commits \in Seq(Commit)
  BY DEF IInv, Types
<1>7. /\ commits' \in Seq(Commit) /\ Len(commits') = Len(commits) + 1
      /\ \A i \in 1..Len(commits) : commits'[i] = commits[i]
      /\ commits'[Len(commits) + 1] = e
  BY <1>3, <1>5, <1>6
<1>8. \A i \in 1..Len(commits') : i \in 1..Len(commits) \/ i = Len(commits) + 1
  BY <1>6, <1>7
<1>9. \A i \in 1..Len(commits) : commits[i] \in Commit
  BY <1>6
<1>10. CommitInv'
  <2>1. \A i \in 1..Len(commits) : PendingOK(commits[i], request'[commits[i].by])
    BY <1>9 DEF IInv, Types, CommitInv, Commit
  <2>2. request'[r] = q
    BY DEF IInv, Types
  <2>3. \A i \in 1..Len(commits') : PendingOK(commits'[i], request'[commits'[i].by])
    BY <1>3, <1>4, <1>7, <1>8, <2>1, <2>2
  <2>4. QED
    BY <2>3 DEF CommitInv, PendingOK
<1>11. OnceInv'
  <2>1. \A i, j \in 1..Len(commits) : commits[i].by = commits[j].by => i = j
    BY DEF IInv, OnceInv
  <2>2. QED
    BY <1>3, <1>7, <1>8, <2>1 DEF OnceInv
<1>12. QED
  BY <1>1, <1>2, <1>7, <1>10, <1>11

LEMMA StagedIs ==
  ASSUME ConstantsOK, IInv
  PROVE  /\ Staged \in [on : BOOLEAN, base : Settings, cand : Settings,
                        holders : SUBSET Requests]
         /\ Staged.cand = Staged.base
         /\ NotStaged \in [on : BOOLEAN, base : Settings, cand : Settings,
                           holders : SUBSET Requests]
         /\ NotStaged.cand = NotStaged.base
<1>1. [k \in Keys |-> 0] \in Settings
  BY DEF ConstantsOK, Settings, Values
<1>2. QED
  BY <1>1 DEF IInv, Types, StagedInv, Staged, NotStaged
-----------------------------
(* Every step keeps the invariant.                                         *)

LEMMA Initially == ASSUME ConstantsOK, Init PROVE IInv
<1>1. [k \in Keys |-> 0] \in Settings
  BY DEF ConstantsOK, Settings, Values
<1>2. Unasked \in Request
  <2>1. (CHOOSE k \in Keys : TRUE) \in Keys
    BY DEF ConstantsOK
  <2>2. 0 \in Values
    BY DEF ConstantsOK, Values
  <2>3. QED
    BY <2>1, <2>2 DEF Unasked, Request
<1>3. Types
  BY <1>1, <1>2 DEF Init, Types, NotStaged, ConstantsOK
<1>4. StagedInv /\ CommitInv /\ OnceInv
  BY DEF Init, StagedInv, NotStaged, CommitInv, OnceInv
<1>5. RequestInv
  BY DEF Init, RequestInv, RequestOK, Unasked
<1>6. SlotInv
  <2>1. Running = {}
    BY DEF Init, Running, Unasked
  <2>2. QED
    BY <2>1, FS_EmptySet DEF Init, SlotInv
<1>7. QED
  BY <1>3, <1>4, <1>5, <1>6 DEF IInv

LEMMA LostStep == ASSUME ConstantsOK, IInv, NEW r \in Requests, Lost(r) PROVE IInv'
<1> DEFINE q == [request[r] EXCEPT !.st = "lost"]
<1>1. request[r] \in Request /\ request[r].st = "idle" /\ RequestOK(request[r])
  BY DEF Lost, IInv, Types, RequestInv
<1>2. q \in Request /\ RequestOK(q) /\ q.st = "lost"
  BY <1>1 DEF Request, RequestOK
<1>3. request' = [request EXCEPT ![r] = q]
  BY DEF Lost, IInv, Types
<1> HIDE DEF q
<1>4. request' \in [Requests -> Request] /\ RequestInv' /\ CommitInv' /\ OnceInv'
  BY <1>1, <1>2, <1>3, NothingWaits, OneRequest DEF Lost
<1>5. SlotInv'
  BY <1>1, <1>2, <1>3, SlotKept DEF Lost
<1>6. QED
  BY <1>4, <1>5 DEF Lost, IInv, Types, StagedInv

\* A request that is refused as it arrives.
LEMMA RefusedAtOnce ==
  ASSUME ConstantsOK, IInv, NEW r \in Requests, request[r].st = "idle",
         request' = [request EXCEPT ![r] = Heard(r, "refused")], recent' \in 0..Rate,
         UNCHANGED <<live, staged, commits, inflight, bridge, spent>>
  PROVE  IInv'
<1> DEFINE q == Heard(r, "refused")
<1>1. request[r] \in Request /\ RequestOK(request[r])
  BY DEF IInv, Types, RequestInv
<1>2. q \in Request /\ RequestOK(q) /\ q.st = "answered"
  BY <1>1 DEF Heard, Request, RequestOK
<1> HIDE DEF q
<1>3. request' = [request EXCEPT ![r] = q]
  BY DEF q
<1>4. request' \in [Requests -> Request] /\ RequestInv' /\ CommitInv' /\ OnceInv'
  BY <1>1, <1>2, <1>3, NothingWaits, OneRequest
<1>5. SlotInv'
  BY <1>1, <1>2, <1>3, SlotKept
<1>6. QED
  BY <1>4, <1>5 DEF IInv, Types, StagedInv

LEMMA LimitedStep == ASSUME ConstantsOK, IInv, NEW r \in Requests, Limited(r) PROVE IInv'
<1>1. recent' \in 0..Rate
  BY DEF Limited, IInv, Types, ConstantsOK
<1>2. QED
  BY <1>1, RefusedAtOnce DEF Limited

LEMMA TurnedAwayStep ==
  ASSUME ConstantsOK, IInv, NEW r \in Requests, TurnedAway(r) PROVE IInv'
<1>1. recent' \in 0..Rate
  BY DEF TurnedAway, Accepted, IInv, Types, ConstantsOK
<1>2. QED
  BY <1>1, RefusedAtOnce DEF TurnedAway

\* A request that is answered as it arrives, and leaves the candidate staged.
LEMMA AnsweredAtOnce ==
  ASSUME ConstantsOK, IInv, NEW r \in Requests, Accepted(r), recent' = recent + 1,
         NEW q \in Request, RequestOK(q), q.st = "answered",
         request' = [request EXCEPT ![r] = q], staged' = Staged,
         UNCHANGED <<live, commits, inflight, bridge, spent>>
  PROVE  IInv'
<1>1. request[r].st = "idle"
  BY DEF Accepted
<1>2. recent' \in 0..Rate
  BY DEF Accepted, IInv, Types, ConstantsOK
<1>3. request' \in [Requests -> Request] /\ RequestInv' /\ CommitInv' /\ OnceInv'
  BY <1>1, NothingWaits, OneRequest
<1>4. SlotInv'
  BY <1>1, SlotKept
<1>5. QED
  BY <1>2, <1>3, <1>4, StagedIs DEF IInv, Types, StagedInv

LEMMA UsageStep == ASSUME ConstantsOK, IInv, NEW r \in Requests, Usage(r) PROVE IInv'
<1> DEFINE q == [Heard(r, "ok") EXCEPT !.kind = "usage"]
<1>1. request[r] \in Request /\ RequestOK(request[r]) /\ request[r].st = "idle"
  BY DEF Usage, Accepted, IInv, Types, RequestInv
<1>2. q \in Request /\ RequestOK(q) /\ q.st = "answered"
  BY <1>1 DEF Heard, Request, RequestOK
<1> HIDE DEF q
<1>3. request' = [request EXCEPT ![r] = q]
  BY DEF Usage, q
<1>4. QED
  BY <1>2, <1>3, AnsweredAtOnce DEF Usage

\* A request that begins to run holds one slot more.
LEMMA Begins ==
  ASSUME ConstantsOK, IInv, NEW r \in Requests, Accepted(r), recent' = recent + 1,
         NEW q, q.st = "running", request' = [request EXCEPT ![r] = q],
         inflight' = inflight + 1, UNCHANGED spent
  PROVE  SlotInv' /\ inflight' \in 0..Concurrent /\ recent' \in 0..Rate
<1>1. request[r].st # "running" /\ inflight < Concurrent
  BY DEF Accepted
<1>2. recent' \in 0..Rate
  BY DEF Accepted, IInv, Types, ConstantsOK
<1>3. QED
  BY <1>1, <1>2, SlotTaken

LEMMA GetStep ==
  ASSUME ConstantsOK, IInv, NEW r \in Requests, NEW k \in Keys, Get(r, k) PROVE IInv'
<1>1. request[r] \in Request /\ RequestOK(request[r]) /\ request[r].st = "idle"
  BY DEF Get, Accepted, IInv, Types, RequestInv
<1>2. Staged.cand[k] \in Values /\ 0 \in Values
  BY StagedIs DEF Settings, Values, ConstantsOK
<1>3. CASE Staged.cand[k] # 0
  <2> DEFINE q == [Heard(r, "ok") EXCEPT !.kind = "get", !.key = k, !.val = Staged.cand[k]]
  <2>1. q \in Request /\ RequestOK(q) /\ q.st = "answered"
    BY <1>1, <1>2 DEF Heard, Request, RequestOK
  <2> HIDE DEF q
  <2>2. request' = [request EXCEPT ![r] = q]
    BY <1>3 DEF Get, q
  <2>3. QED
    BY <1>3, <2>1, <2>2, AnsweredAtOnce DEF Get
<1>4. CASE Staged.cand[k] = 0
  <2> DEFINE q == [Asked(r, "get", k, 0) EXCEPT !.reads = TRUE]
  <2>1. q \in Request /\ RequestOK(q) /\ q.st = "running"
    BY <1>1, <1>2 DEF Asked, Request, RequestOK
  <2> HIDE DEF q
  <2>2. request' = [request EXCEPT ![r] = q]
    BY <1>4 DEF Get, q
  <2>3. request' \in [Requests -> Request] /\ RequestInv' /\ CommitInv' /\ OnceInv'
    BY <1>1, <2>1, <2>2, NothingWaits, OneRequest DEF Get
  <2>4. SlotInv' /\ inflight' \in 0..Concurrent /\ recent' \in 0..Rate
    BY <1>4, <2>1, <2>2, Begins DEF Get
  <2>5. /\ staged' \in [on : BOOLEAN, base : Settings, cand : Settings,
                        holders : SUBSET Requests]
        /\ staged'.cand = staged'.base
    <3>1. staged' = [Staged EXCEPT !.holders = @ \cup {r}]
      BY <1>4 DEF Get
    <3>2. QED
      BY <3>1, StagedIs
  <2>6. QED
    BY <2>3, <2>4, <2>5 DEF Get, IInv, Types, StagedInv
<1>5. QED
  BY <1>3, <1>4

LEMMA SetStep ==
  ASSUME ConstantsOK, IInv, NEW r \in Requests, NEW k \in Keys, NEW v \in Values, Set(r, k, v)
  PROVE  IInv'
<1> DEFINE next == [Staged EXCEPT !.cand[k] = v]
<1>1. request[r] \in Request /\ RequestOK(request[r]) /\ request[r].st = "idle"
  BY DEF Set, Accepted, IInv, Types, RequestInv
<1>2. CASE Size(next.cand) > Quota
  <2> DEFINE q == [Heard(r, "refused") EXCEPT !.kind = "set", !.key = k, !.val = v]
  <2>1. q \in Request /\ RequestOK(q) /\ q.st = "answered"
    BY <1>1 DEF Heard, Request, RequestOK
  <2> HIDE DEF q
  <2>2. request' = [request EXCEPT ![r] = q] /\ staged' = Staged /\ UNCHANGED <<commits, inflight>>
    BY <1>2 DEF Set, q
  <2>3. QED
    BY <2>1, <2>2, AnsweredAtOnce DEF Set
<1>3. CASE ~(Size(next.cand) > Quota)
  <2> DEFINE q == Asked(r, "set", k, v)
             e == [by |-> r, base |-> next.base, cand |-> next.cand]
  <2>1. q \in Request /\ RequestOK(q) /\ q.st = "running"
    BY <1>1 DEF Asked, Request, RequestOK
  <2>2. /\ next.base \in Settings /\ next.cand \in Settings
        /\ \A x \in Keys : next.cand[x] # next.base[x] => x = k /\ next.cand[x] = v
    BY StagedIs DEF Settings
  <2>3. ~request[r].reads /\ ~request[r].stored /\ request[r].heard = "nothing"
    BY <1>1 DEF RequestOK
  <2>4. PendingOK(e, q)
    <3>1. q.key = k /\ q.val = v /\ ~q.stored /\ ~q.reads /\ q.heard = "nothing"
      BY <1>1, <2>3 DEF Asked, Request
    <3>2. QED
      BY <2>1, <2>2, <3>1 DEF PendingOK
  <2>5. /\ HandOver(r, next) /\ request' = [request EXCEPT ![r] = q]
        /\ inflight' = inflight + 1
    BY <1>3 DEF Set
  <2> HIDE DEF q, next
  <2>6. /\ request' \in [Requests -> Request] /\ commits' \in Seq(Commit)
        /\ RequestInv' /\ CommitInv' /\ OnceInv'
    BY <1>1, <2>1, <2>2, <2>4, <2>5, NothingWaits, HandedOver
  <2>7. SlotInv' /\ inflight' \in 0..Concurrent /\ recent' \in 0..Rate
    BY <2>1, <2>5, Begins DEF Set
  <2>8. QED
    BY <2>5, <2>6, <2>7, StagedIs DEF Set, HandOver, IInv, Types, StagedInv
<1>4. QED
  BY <1>2, <1>3

\* What an answer makes of a request that has handed over or has read.
LEMMA AnswerGives ==
  ASSUME ConstantsOK, IInv, NEW r \in Requests, NEW a \in {"ok", "refused"},
         NEW entry \in Request, Answer(r, a, entry), UNCHANGED spent,
         entry.st = request[r].st, entry.st \in {"running", "answered"},
         entry.heard \in {"nothing", "timeout"}, ~entry.reads, entry.stored => a = "ok"
  PROVE  /\ SlotInv' /\ inflight' \in 0..Concurrent
         /\ \E q \in Request : /\ RequestOK(q) /\ request' = [request EXCEPT ![r] = q]
<1> DEFINE q == [entry EXCEPT !.st = "answered",
                   !.heard = IF entry.st = "running" /\ @ = "nothing" THEN a ELSE @]
<1>1. q \in Request /\ RequestOK(q) /\ q.st = "answered"
  BY DEF Request, RequestOK
<1>2. request' = [request EXCEPT ![r] = q]
  BY DEF Answer
<1>3. inflight' = IF request[r].st = "running" THEN ReleaseSlot ELSE inflight
  BY DEF Answer
<1> HIDE DEF q
<1>4. SlotInv' /\ inflight' \in 0..Concurrent
  <2>1. CASE request[r].st = "running"
    BY <1>1, <1>2, <1>3, <2>1, SlotReleased
  <2>2. CASE request[r].st # "running"
    <3>1. inflight' = inflight
      BY <1>3, <2>2
    <3>2. SlotInv'
      BY <1>1, <1>2, <2>2, <3>1, SlotKept
    <3>3. QED
      BY <3>1, <3>2 DEF IInv, Types
  <2>3. QED
    BY <2>1, <2>2
<1>5. QED
  BY <1>1, <1>2, <1>4

\* What is known of a request that waits for the old storage.
LEMMA ReadingKnown ==
  ASSUME IInv, NEW r \in Requests, request[r].reads
  PROVE  /\ request[r] \in Request /\ ~request[r].stored
         /\ request[r].st \in {"running", "answered"}
         /\ request[r].heard \in {"nothing", "timeout"}
         /\ Read(r) \in Request /\ ~Read(r).reads /\ ~Read(r).stored
         /\ Read(r).st = request[r].st /\ Read(r).heard = request[r].heard
         /\ Read(r).key = request[r].key
         /\ \A i \in 1..Len(commits) : commits[i].by # r
<1>1. /\ request[r] \in Request /\ ~request[r].stored
      /\ request[r].st \in {"running", "answered"}
      /\ request[r].heard \in {"nothing", "timeout"}
  BY DEF IInv, Types, RequestInv, RequestOK
<1>2. /\ Read(r) \in Request /\ ~Read(r).reads /\ ~Read(r).stored
      /\ Read(r).st = request[r].st /\ Read(r).heard = request[r].heard
      /\ Read(r).key = request[r].key
  BY <1>1 DEF Request, Read
<1>3. QED
  BY <1>1, <1>2, NothingWaits

LEMMA NothingReadStep ==
  ASSUME ConstantsOK, IInv, NEW r \in Requests, NothingRead(r) PROVE IInv'
<1>1. /\ request[r].reads /\ staged' = [staged EXCEPT !.holders = @ \ {r}]
      /\ UNCHANGED <<live, commits, recent, bridge, spent>>
  BY DEF NothingRead
<1>2. PICK a \in {"ok", "refused"} : Answer(r, a, Read(r))
  BY DEF NothingRead
<1>3. /\ SlotInv' /\ inflight' \in 0..Concurrent
      /\ \E q \in Request : RequestOK(q) /\ request' = [request EXCEPT ![r] = q]
  BY <1>1, <1>2, ReadingKnown, AnswerGives
<1>4. PICK q \in Request : RequestOK(q) /\ request' = [request EXCEPT ![r] = q]
  BY <1>3
<1>5. request' \in [Requests -> Request] /\ RequestInv' /\ CommitInv' /\ OnceInv'
  BY <1>1, <1>4, ReadingKnown, OneRequest
<1>6. staged' \in [on : BOOLEAN, base : Settings, cand : Settings, holders : SUBSET Requests]
      /\ staged'.cand = staged'.base
  BY <1>1 DEF IInv, Types, StagedInv
<1>7. QED
  BY <1>1, <1>3, <1>5, <1>6 DEF IInv, Types, StagedInv

LEMMA LegacyReadStep ==
  ASSUME ConstantsOK, IInv, NEW r \in Requests, LegacyRead(r) PROVE IInv'
<1> DEFINE k == request[r].key
           c == Migrated(r)
           q == [Read(r) EXCEPT !.val = Legacy[k]]
           e == [by |-> r, base |-> c.base, cand |-> c.cand]
<1>1. /\ request[r].reads /\ HandOver(r, c) /\ request' = [request EXCEPT ![r] = q]
      /\ UNCHANGED <<live, inflight, recent, bridge, spent>>
  BY DEF LegacyRead
<1>2. k \in Keys /\ Legacy[k] \in Values
  BY <1>1, ReadingKnown DEF Request, ConstantsOK, Settings
<1>3. /\ q \in Request /\ q.st = request[r].st /\ q.heard = request[r].heard
      /\ ~q.reads /\ ~q.stored /\ q.key = k /\ q.val = Legacy[k]
  BY <1>1, <1>2, ReadingKnown DEF Request
<1>4. /\ c.base \in Settings /\ c.cand \in Settings
      /\ \A x \in Keys : c.cand[x] # c.base[x] => x = k /\ c.cand[x] = Legacy[k]
  <2>1. CASE r \in staged.holders
    BY <1>2, <2>1 DEF IInv, Types, StagedInv, Settings, Migrated
  <2>2. CASE r \notin staged.holders
    BY <2>2, StagedIs DEF Migrated
  <2>3. QED
    BY <2>1, <2>2
<1> HIDE DEF c, q
<1>5. RequestOK(q)
  BY <1>1, <1>3, ReadingKnown DEF RequestOK
<1>6. PendingOK(e, q)
  BY <1>1, <1>3, <1>4, ReadingKnown DEF PendingOK
<1>7. /\ request' \in [Requests -> Request] /\ commits' \in Seq(Commit)
      /\ RequestInv' /\ CommitInv' /\ OnceInv'
  BY <1>1, <1>3, <1>4, <1>5, <1>6, ReadingKnown, HandedOver
<1>8. SlotInv'
  BY <1>1, <1>3, SlotKept
<1>9. QED
  BY <1>1, <1>7, <1>8, StagedIs DEF HandOver, IInv, Types, StagedInv

\* The first commit leaves the queue, and its request is told.
LEMMA HeadGone ==
  ASSUME ConstantsOK, IInv, commits # <<>>, NEW q \in Request, RequestOK(q),
         request' = [request EXCEPT ![Head(commits).by] = q], commits' = Tail(commits)
  PROVE  /\ request' \in [Requests -> Request] /\ commits' \in Seq(Commit)
         /\ RequestInv' /\ CommitInv' /\ OnceInv'
<1> DEFINE r == Head(commits).by
<1>1. commits \in Seq(Commit) /\ request \in [Requests -> Request]
  BY DEF IInv, Types
<1>2. /\ commits' \in Seq(Commit) /\ Len(commits') = Len(commits) - 1
      /\ Len(commits) \in Nat \ {0} /\ Head(commits) = commits[1]
      /\ \A i \in 1..Len(commits') : commits'[i] = commits[i + 1] /\ i + 1 \in 1..Len(commits)
  BY <1>1
<1>3. r \in Requests /\ \A i \in 1..Len(commits) : commits[i].by \in Requests
  <2>1. \A i \in 1..Len(commits) : commits[i] \in Commit
    BY <1>1
  <2>2. 1 \in 1..Len(commits)
    BY <1>2
  <2>3. QED
    BY <1>2, <2>1, <2>2 DEF Commit
<1>4. request' \in [Requests -> Request]
  BY <1>1
<1>5. RequestInv'
  BY <1>1 DEF IInv, RequestInv
<1>6. \A i \in 1..Len(commits') : commits'[i].by # r
  <2>1. 1 \in 1..Len(commits)
    BY <1>2
  <2>2. ASSUME NEW i \in 1..Len(commits'), commits'[i].by = r PROVE FALSE
    <3>1. commits[i + 1].by = commits[1].by /\ i + 1 \in 1..Len(commits)
      BY <1>2, <2>2
    <3>2. i + 1 = 1
      BY <2>1, <3>1 DEF IInv, OnceInv
    <3>3. QED
      BY <3>2
  <2>3. QED
    BY <2>2
<1>7. CommitInv'
  <2>1. \A i \in 1..Len(commits') : PendingOK(commits'[i], request'[commits'[i].by])
    <3> TAKE i \in 1..Len(commits')
    <3>1. commits'[i] = commits[i + 1] /\ i + 1 \in 1..Len(commits)
      BY <1>2
    <3>2. PendingOK(commits[i + 1], request[commits[i + 1].by])
      BY <3>1 DEF IInv, CommitInv
    <3>3. commits'[i].by # r
      BY <1>6
    <3>4. request'[commits'[i].by] = request[commits'[i].by]
      BY <1>1, <1>3, <3>1, <3>3
    <3>5. QED
      BY <3>1, <3>2, <3>4
  <2>2. QED
    BY <2>1 DEF CommitInv, PendingOK
<1>8. OnceInv'
  <2>1. SUFFICES ASSUME NEW i \in 1..Len(commits'), NEW j \in 1..Len(commits'),
                        commits'[i].by = commits'[j].by
                 PROVE  i = j
    BY DEF OnceInv
  <2>2. i + 1 = j + 1
    BY <1>2, <2>1 DEF IInv, OnceInv
  <2>3. QED
    BY <2>2
<1>9. QED
  BY <1>2, <1>4, <1>5, <1>7, <1>8

\* What is known of the request whose commit is the first.
LEMMA HeadPending ==
  ASSUME IInv, commits # <<>>
  PROVE  /\ Head(commits) \in Commit /\ Head(commits).by \in Requests
         /\ PendingOK(Head(commits), request[Head(commits).by])
         /\ request[Head(commits).by] \in Request
<1>1. commits \in Seq(Commit)
  BY DEF IInv, Types
<1>2. Head(commits) = commits[1] /\ 1 \in 1..Len(commits) /\ Head(commits) \in Commit
  BY <1>1
<1>3. QED
  BY <1>2 DEF IInv, Types, CommitInv, Commit

LEMMA CommittedStep == ASSUME ConstantsOK, IInv, Committed PROVE IInv'
<1> DEFINE c == Head(commits)
           r == c.by
           entry == [request[r] EXCEPT !.stored = ~Unchanged(c)]
<1>1. /\ commits # <<>> /\ commits' = Tail(commits) /\ live' = ApplyChanges(live, c)
      /\ Answer(r, "ok", entry) /\ UNCHANGED <<staged, recent, bridge, spent>>
  BY DEF Committed
<1>2. c \in Commit /\ r \in Requests /\ PendingOK(c, request[r]) /\ request[r] \in Request
  BY <1>1, HeadPending
<1>3. Unchanged(c) \in BOOLEAN
  BY DEF Unchanged
<1>4. /\ entry \in Request /\ entry.st = request[r].st /\ entry.st \in {"running", "answered"}
      /\ entry.heard \in {"nothing", "timeout"} /\ ~entry.reads
  BY <1>2, <1>3 DEF Request, PendingOK
<1> HIDE DEF entry
<1>5. /\ SlotInv' /\ inflight' \in 0..Concurrent
      /\ \E q \in Request : RequestOK(q) /\ request' = [request EXCEPT ![r] = q]
  BY <1>1, <1>2, <1>4, AnswerGives
<1>6. PICK q \in Request : RequestOK(q) /\ request' = [request EXCEPT ![r] = q]
  BY <1>5
<1>7. /\ request' \in [Requests -> Request] /\ commits' \in Seq(Commit)
      /\ RequestInv' /\ CommitInv' /\ OnceInv'
  BY <1>1, <1>6, HeadGone
<1>8. live' \in Settings
  BY <1>1, <1>2 DEF IInv, Types, ApplyChanges, Settings, Commit
<1>9. QED
  BY <1>1, <1>5, <1>7, <1>8 DEF IInv, Types, StagedInv

LEMMA RejectedStep == ASSUME ConstantsOK, IInv, Rejected PROVE IInv'
<1> DEFINE r == Head(commits).by
<1>1. /\ commits # <<>> /\ commits' = Tail(commits)
      /\ Answer(r, "refused", request[r]) /\ UNCHANGED <<live, staged, recent, bridge, spent>>
  BY DEF Rejected
<1>2. r \in Requests /\ PendingOK(Head(commits), request[r]) /\ request[r] \in Request
  BY <1>1, HeadPending
<1>3. /\ SlotInv' /\ inflight' \in 0..Concurrent
      /\ \E q \in Request : RequestOK(q) /\ request' = [request EXCEPT ![r] = q]
  BY <1>1, <1>2, AnswerGives DEF PendingOK
<1>4. PICK q \in Request : RequestOK(q) /\ request' = [request EXCEPT ![r] = q]
  BY <1>3
<1>5. /\ request' \in [Requests -> Request] /\ commits' \in Seq(Commit)
      /\ RequestInv' /\ CommitInv' /\ OnceInv'
  BY <1>1, <1>4, HeadGone
<1>6. QED
  BY <1>1, <1>3, <1>5 DEF IInv, Types, StagedInv

LEMMA CallerTimeoutStep ==
  ASSUME ConstantsOK, IInv, NEW r \in Requests, CallerTimeout(r) PROVE IInv'
<1> DEFINE q == [request[r] EXCEPT !.heard = "timeout"]
<1>1. /\ request[r] \in Request /\ RequestOK(request[r])
      /\ request[r].st \in {"running", "lost"}
  BY DEF CallerTimeout, IInv, Types, RequestInv
<1>2. /\ q \in Request /\ RequestOK(q) /\ q.st = request[r].st /\ q.heard = "timeout"
      /\ q.stored = request[r].stored /\ q.reads = request[r].reads
      /\ q.key = request[r].key /\ q.val = request[r].val
  BY <1>1 DEF Request, RequestOK
<1>3. request' = [request EXCEPT ![r] = q]
  BY DEF CallerTimeout, IInv, Types
<1> HIDE DEF q
<1>4. \A i \in 1..Len(commits) : commits[i].by = r => PendingOK(commits[i], q)
  BY <1>2 DEF IInv, CommitInv, PendingOK
<1>5. request' \in [Requests -> Request] /\ RequestInv' /\ CommitInv' /\ OnceInv'
  BY <1>2, <1>3, <1>4, OneRequest DEF CallerTimeout
<1>6. SlotInv'
  BY <1>2, <1>3, SlotKept, ZenonT(60) DEF CallerTimeout
<1>7. QED
  BY <1>5, <1>6 DEF CallerTimeout, IInv, Types, StagedInv

LEMMA ActionTimeoutStep ==
  ASSUME ConstantsOK, IInv, NEW r \in Requests, ActionTimeout(r) PROVE IInv'
<1> DEFINE q == Heard(r, "refused")
<1>1. /\ request[r] \in Request /\ RequestOK(request[r])
      /\ request[r].st = "running" /\ request[r].heard = "timeout"
  BY DEF ActionTimeout, IInv, Types, RequestInv
<1>2. /\ q \in Request /\ q.st = "answered" /\ q.heard = "timeout"
      /\ q.stored = request[r].stored /\ q.reads = request[r].reads
      /\ q.key = request[r].key /\ q.val = request[r].val
  BY <1>1 DEF Request, Heard
<1>3. request' = [request EXCEPT ![r] = q]
  BY DEF ActionTimeout
<1> HIDE DEF q
<1>4. RequestOK(q)
  BY <1>1, <1>2 DEF RequestOK
<1>5. \A i \in 1..Len(commits) : commits[i].by = r => PendingOK(commits[i], q)
  BY <1>2 DEF IInv, CommitInv, PendingOK
<1>6. request' \in [Requests -> Request] /\ RequestInv' /\ CommitInv' /\ OnceInv'
  BY <1>2, <1>3, <1>4, <1>5, OneRequest DEF ActionTimeout
<1>7. SlotInv' /\ inflight' \in 0..Concurrent
  BY <1>1, <1>2, <1>3, SlotReleased DEF ActionTimeout
<1>8. QED
  BY <1>6, <1>7 DEF ActionTimeout, IInv, Types, StagedInv

\* No request and no commit changes.
LEMMA RequestsStay ==
  ASSUME IInv, UNCHANGED <<commits, request>>
  PROVE  /\ request' \in [Requests -> Request] /\ commits' \in Seq(Commit)
         /\ RequestInv' /\ CommitInv' /\ OnceInv' /\ Running' = Running
BY SMTT(60) DEF IInv, Types, RequestInv, RequestOK, CommitInv, PendingOK, OnceInv, Running

LEMMA WindowPassesStep == ASSUME ConstantsOK, IInv, WindowPasses PROVE IInv'
<1>1. recent' \in 0..Rate
  BY DEF WindowPasses, ConstantsOK
<1>2. QED
  BY <1>1, RequestsStay DEF WindowPasses, IInv, Types, StagedInv, SlotInv

LEMMA OtherTabStep ==
  ASSUME ConstantsOK, IInv, NEW k \in Keys, NEW v \in Values, OtherTabCommits(k, v)
  PROVE  IInv'
<1>1. live' \in Settings
  BY DEF OtherTabCommits, IInv, Types, Settings
<1>2. /\ spent' \in [foreign : Nat, restart : Nat] /\ spent'.restart = spent.restart
  BY DEF OtherTabCommits, IInv, Types
<1>3. QED
  BY <1>1, <1>2, RequestsStay DEF OtherTabCommits, IInv, Types, StagedInv, SlotInv

LEMMA BridgeDownStep == ASSUME ConstantsOK, IInv, BridgeDown PROVE IInv'
<1>1. /\ spent' \in [foreign : Nat, restart : Nat] /\ spent'.restart # 0
      /\ inflight' \in 0..Concurrent /\ inflight' = 0 /\ recent' \in 0..Rate
  BY DEF BridgeDown, IInv, Types, ConstantsOK
<1>2. Cardinality(Running) \in Nat
  BY RunningFinite
<1>3. SlotInv'
  BY <1>1, <1>2, RequestsStay DEF BridgeDown, SlotInv
<1>4. QED
  BY <1>1, <1>3, RequestsStay DEF BridgeDown, IInv, Types, StagedInv

LEMMA BridgeUpStep == ASSUME ConstantsOK, IInv, BridgeUp PROVE IInv'
BY RequestsStay DEF BridgeUp, IInv, Types, StagedInv, SlotInv

LEMMA StutterStep == ASSUME ConstantsOK, IInv, UNCHANGED vars PROVE IInv'
BY RequestsStay DEF vars, IInv, Types, StagedInv, SlotInv

LEMMA NextStep == ASSUME ConstantsOK, IInv, [Next]_vars PROVE IInv'
<1>1. ASSUME NEW r \in Requests,
             \/ Lost(r) \/ Limited(r) \/ TurnedAway(r) \/ CallerTimeout(r) \/ ActionTimeout(r)
             \/ Usage(r) \/ NothingRead(r) \/ LegacyRead(r)
             \/ \E k \in Keys : Get(r, k) \/ \E v \in Values \ {0} : Set(r, k, v)
      PROVE  IInv'
  BY <1>1, LostStep, LimitedStep, TurnedAwayStep, CallerTimeoutStep, ActionTimeoutStep,
     UsageStep, NothingReadStep, LegacyReadStep, GetStep, SetStep
<1>2. ASSUME NEW k \in Keys, NEW v \in Values, OtherTabCommits(k, v) PROVE IInv'
  BY <1>2, OtherTabStep
<1>3. QED
  BY <1>1, <1>2, CommittedStep, RejectedStep, WindowPassesStep, BridgeDownStep,
     BridgeUpStep, StutterStep DEF Next
-----------------------------
(* The theorems.                                                           *)

LEMMA InvAlways == ConstantsOK => (Spec => []IInv)
<1> SUFFICES ASSUME ConstantsOK PROVE Spec => []IInv
  OBVIOUS
<1>1. Init => IInv
  BY Initially
<1>2. IInv /\ [Next]_vars => IInv'
  BY NextStep
<1>3. QED
  BY <1>1, <1>2, PTL DEF Spec

\* A request, the candidate and the queue of commits have their types, and no
\* request is handed over twice: the queue is never longer than the requests.
THEOREM TypeCorrect == ConstantsOK => (Spec => []TypeOK)
<1> SUFFICES ASSUME ConstantsOK PROVE Spec => []TypeOK
  OBVIOUS
<1>1. IInv => TypeOK
  BY InvTypes
<1>2. QED
  BY <1>1, InvAlways, PTL

\* An add-on that is told its request was refused finds nothing of it stored,
\* then or later, although the request, the commit and both timeouts run on
\* their own; and each slot is given back once (bridgeServer.js,
\* actions/registry.js, actions/families/storage.js).
THEOREM AnswersFinal == ConstantsOK => (Spec => []AnswersAreFinal)
<1> SUFFICES ASSUME ConstantsOK PROVE Spec => []AnswersAreFinal
  OBVIOUS
<1>1. IInv => AnswersAreFinal
  <2> SUFFICES ASSUME IInv PROVE AnswersAreFinal
    OBVIOUS
  <2>1. ASSUME NEW r \in Requests, request[r].heard = "refused"
        PROVE  ~request[r].stored /\ \A i \in DOMAIN commits : commits[i].by # r
    <3>1. ~request[r].stored
      BY <2>1 DEF IInv, RequestInv, RequestOK
    <3>2. DOMAIN commits = 1..Len(commits)
      BY DEF IInv, Types
    <3>3. QED
      BY <2>1, <3>1, <3>2 DEF IInv, CommitInv, PendingOK
  <2>2. QED
    BY <2>1 DEF IInv, SlotInv, AnswersAreFinal
<1>2. QED
  BY <1>1, InvAlways, PTL

\* A commit changes the key it was asked for, to the value that was asked for
\* or that the old storage had, and no other key, however old the candidate
\* is and whatever other tabs have committed since (state.js,
\* applyAddonChanges).
THEOREM OwnKeysOnly == ConstantsOK => (Spec => OnlyOwnKeysChange)
<1> SUFFICES ASSUME ConstantsOK PROVE Spec => OnlyOwnKeysChange
  OBVIOUS
<1> DEFINE Own ==
      \A k \in Keys :
        live'[k] # live[k] =>
          \/ spent'.foreign > spent.foreign
          \/ commits # <<>> /\ LET q == request[Head(commits).by]
                               IN q.key = k /\ q.val = live'[k]
<1>1. IInv /\ [Next]_vars => [Own]_vars
  <2> SUFFICES ASSUME IInv, Next PROVE Own
    OBVIOUS
  <2>1. CASE Committed
    <3>1. commits # <<>> /\ live' = ApplyChanges(live, Head(commits))
      BY <2>1 DEF Committed
    <3>2. PendingOK(Head(commits), request[Head(commits).by])
      BY <3>1, HeadPending
    <3>3. \A k \in Keys : live'[k] = IF Head(commits).cand[k] # Head(commits).base[k]
                                     THEN Head(commits).cand[k] ELSE live[k]
      BY <3>1 DEF ApplyChanges
    <3>4. QED
      BY <3>1, <3>2, <3>3 DEF PendingOK
  <2>2. ASSUME NEW k \in Keys, NEW v \in Values, OtherTabCommits(k, v) PROVE Own
    <3>1. spent'.foreign > spent.foreign
      BY <2>2 DEF OtherTabCommits, IInv, Types
    <3>2. QED
      BY <3>1
  <2>3. CASE UNCHANGED live
    BY <2>3
  <2>4. QED
    BY <2>1, <2>2, <2>3 DEF Next, Lost, Limited, TurnedAway, CallerTimeout, ActionTimeout,
       Usage, NothingRead, LegacyRead, Get, Set, Rejected, WindowPasses, BridgeDown, BridgeUp
<1>2. QED
  BY <1>1, InvAlways, PTL DEF Spec, OnlyOwnKeysChange
-----------------------------
(* The catalog of trusted add-ons (AddonCatalog).                          *)
CONSTANTS Tabs, MaxVersion, MaxFaults, MaxClock, MaxPages
VARIABLES remote, clock, copy, page, pages, faults, writes, best, asked, overtaken

Catalog == INSTANCE AddonCatalog

CatalogBounds == MaxVersion \in Nat \ {0} /\ MaxClock \in Nat

Copies == [there : BOOLEAN, catalog : Catalog!Catalogs, at : 0 .. MaxClock]
Pages == [step : Catalog!Steps, time : 0 .. MaxClock, old : Copies, wanted : 0 .. MaxVersion,
          read : Nat, used : Catalog!Catalogs, fresh : BOOLEAN, spaced : BOOLEAN]

CatalogTypes ==
  /\ remote \in 1 .. MaxVersion /\ clock \in 0 .. MaxClock
  /\ copy \in Copies /\ page \in [Tabs -> Pages]
  /\ writes \in Nat /\ best \in 0 .. MaxVersion /\ overtaken \in BOOLEAN
  /\ asked \in (0 .. MaxClock) \union {Catalog!Never}

\* What a page has, and what it will write, is genuine and was announced.
Genuine(p, newest) ==
  /\ p.used.genuine /\ p.old.catalog.genuine
  /\ p.used.version <= newest /\ p.old.catalog.version <= newest /\ p.wanted <= newest
  /\ p.fresh <=> p.used # Catalog!NoCatalog
  /\ p.step = "read" => p.used = Catalog!NoCatalog
  /\ p.step = "save" => p.old.catalog.version # 0

\* A page that has read the copy as it still is, whose version is v and whose
\* last check was at a, writes nothing older, and its check is due.
Current(p, w, v, a) ==
  /\ p.step \in {"metadata", "document"} => p.spaced
  /\ p.read = w /\ p.step \in {"metadata", "document", "save", "touch", "fail"} =>
       /\ p.used.version = v
       /\ a = Catalog!Never \/ a < p.time
       /\ p.step \in {"metadata", "touch"} => p.old.catalog.version = v
       /\ p.step = "document" => v <= p.wanted
       /\ p.step = "save" => v <= p.old.catalog.version

CatalogInv ==
  /\ CatalogTypes
  /\ copy.catalog.genuine /\ copy.catalog.version <= remote /\ best <= remote
  /\ ~copy.there => copy.catalog = Catalog!NoCatalog
  /\ \A t \in Tabs : /\ Genuine(page[t], remote)
                     /\ page[t].read <= writes /\ page[t].time <= clock
  /\ ~overtaken =>
       /\ copy.catalog.version = best
       /\ asked = IF copy.there THEN copy.at ELSE Catalog!Never
       /\ \A t \in Tabs : Current(page[t], writes, best, asked)

LEMMA CatalogParts ==
  ASSUME CatalogBounds
  PROVE  /\ Catalog!NoCatalog \in Catalog!Catalogs /\ Catalog!NoCatalog.version = 0
         /\ Catalog!NoCatalog.genuine = TRUE
         /\ Catalog!NoCopy \in Copies /\ Catalog!NoPage \in Pages
         /\ Catalog!NoPage.used = Catalog!NoCatalog /\ Catalog!NoPage.step = "off"
         /\ \A c \in Catalog!Catalogs : c.version \in 0 .. MaxVersion /\ c.genuine \in BOOLEAN
         /\ \A c \in Catalog!Catalogs : c.genuine /\ c.version = 0 => c = Catalog!NoCatalog
<1>1. /\ Catalog!NoCatalog \in Catalog!Catalogs /\ Catalog!NoCatalog.version = 0
      /\ Catalog!NoCatalog.genuine = TRUE
  BY DEF CatalogBounds, Catalog!NoCatalog, Catalog!Catalogs
<1>2. Catalog!NoCopy \in Copies
  BY <1>1 DEF CatalogBounds, Catalog!NoCopy, Copies
<1>3. /\ Catalog!NoPage \in Pages
      /\ Catalog!NoPage.used = Catalog!NoCatalog /\ Catalog!NoPage.step = "off"
  BY <1>1, <1>2 DEF CatalogBounds, Catalog!NoPage, Pages, Catalog!Steps
<1>4. \A c \in Catalog!Catalogs : c.genuine /\ c.version = 0 => c = Catalog!NoCatalog
  BY DEF Catalog!Catalogs, Catalog!NoCatalog
<1>5. \A c \in Catalog!Catalogs : c.version \in 0 .. MaxVersion /\ c.genuine \in BOOLEAN
  BY DEF Catalog!Catalogs
<1> QED BY <1>1, <1>2, <1>3, <1>4, <1>5

LEMMA CatalogInitially ==
  ASSUME CatalogBounds, Catalog!Init
  PROVE  CatalogInv
<1>1. /\ Catalog!NoPage.wanted = 0 /\ Catalog!NoPage.old = Catalog!NoCopy /\ Catalog!NoPage.read = 0
      /\ Catalog!NoPage.time = 0 /\ Catalog!NoPage.fresh = FALSE
      /\ Catalog!NoCopy.catalog = Catalog!NoCatalog /\ Catalog!NoCopy.there = FALSE
  BY DEF Catalog!NoPage, Catalog!NoCopy
<1> DEFINE p == Catalog!NoPage
           c == Catalog!NoCatalog
<1>2. Genuine(p, 1)
  <2>1. p.used = c /\ p.old.catalog = c /\ c.genuine = TRUE /\ c.version = 0 /\ p.step = "off"
    BY <1>1, CatalogParts
  <2>2. p.wanted = 0 /\ p.fresh = FALSE
    BY <1>1
  <2> HIDE DEF p, c
  <2> QED BY <2>1, <2>2 DEF Genuine, c
<1>3. Current(Catalog!NoPage, 0, 0, Catalog!Never)
  BY <1>1, CatalogParts DEF Current
<1>4. Catalog!Never \in Nat
  BY DEF Catalog!Never, CatalogBounds
<1> HIDE DEF p, c
<1>5. CatalogTypes
  <2>1. overtaken \in BOOLEAN /\ asked \in (0 .. MaxClock) \union {Catalog!Never}
    BY Zenon DEF Catalog!Init
  <2>2. page \in [Tabs -> Pages] /\ copy \in Copies
    BY CatalogParts DEF Catalog!Init
  <2>3. /\ remote \in 1 .. MaxVersion /\ clock \in 0 .. MaxClock
        /\ writes \in Nat /\ best \in 0 .. MaxVersion
    BY DEF Catalog!Init, CatalogBounds
  <2> QED BY <2>1, <2>2, <2>3 DEF CatalogTypes
<1>6. /\ remote = 1 /\ clock = 0 /\ copy = Catalog!NoCopy /\ writes = 0 /\ best = 0
      /\ asked = Catalog!Never /\ \A t \in Tabs : page[t] = Catalog!NoPage
  BY DEF Catalog!Init
<1>7. copy.catalog.genuine /\ copy.catalog.version = 0 /\ copy.there = FALSE
  BY <1>1, <1>6, CatalogParts
<1>8. \A t \in Tabs : /\ Genuine(page[t], remote)
                      /\ page[t].read <= writes /\ page[t].time <= clock
                      /\ Current(page[t], writes, best, asked)
  BY <1>1, <1>2, <1>3, <1>6 DEF p
<1> QED BY <1>1, <1>5, <1>6, <1>7, <1>8 DEF CatalogInv

\* A step of one page that writes nothing.
LEMMA PageStep ==
  ASSUME CatalogBounds, CatalogInv, NEW t \in Tabs, NEW p \in Pages, page' = [page EXCEPT ![t] = p],
         UNCHANGED <<remote, clock, copy, writes, best, asked, overtaken>>,
         Genuine(p, remote), p.read <= writes, p.time <= clock,
         ~overtaken => Current(p, writes, best, asked)
  PROVE  CatalogInv'
<1>1. page' \in [Tabs -> Pages] /\ \A u \in Tabs : page'[u] = IF u = t THEN p ELSE page[u]
  BY DEF CatalogInv, CatalogTypes
<1>2. CatalogTypes'
  BY <1>1 DEF CatalogInv, CatalogTypes
<1> QED BY <1>1, <1>2 DEF CatalogInv

LEMMA WorldInv ==
  ASSUME CatalogBounds, CatalogInv, Catalog!Publish \/ Catalog!Tick
  PROVE  CatalogInv'
<1>1. /\ UNCHANGED <<copy, page, writes, best, asked, overtaken>>
      /\ remote' \in 1 .. MaxVersion /\ remote <= remote'
      /\ clock' \in 0 .. MaxClock /\ clock <= clock'
  BY DEF Catalog!Publish, Catalog!Tick, Catalog!Storage, CatalogInv, CatalogTypes, CatalogBounds
<1>2. CatalogTypes'
  BY <1>1 DEF CatalogInv, CatalogTypes
<1>3. copy.catalog.version \in 0 .. MaxVersion /\ best \in 0 .. MaxVersion /\ remote \in Nat
  BY CatalogParts DEF CatalogInv, CatalogTypes, Copies
<1>4. ASSUME NEW t \in Tabs
      PROVE  Genuine(page'[t], remote') /\ page'[t].read <= writes' /\ page'[t].time <= clock'
  <2>1. page[t] \in Pages
    BY DEF CatalogInv, CatalogTypes
  <2>2. /\ page[t].used.version \in Nat /\ page[t].old.catalog.version \in Nat
        /\ page[t].wanted \in Nat /\ page[t].time \in Nat
    BY <2>1, CatalogParts DEF Pages, Copies
  <2>3. clock \in Nat
    BY DEF CatalogInv, CatalogTypes
  <2> QED BY <1>1, <1>3, <2>2, <2>3 DEF CatalogInv, Genuine
<1>5. ~overtaken' =>
        /\ copy'.catalog.version = best'
        /\ asked' = IF copy'.there THEN copy'.at ELSE Catalog!Never
        /\ \A t \in Tabs : Current(page'[t], writes', best', asked')
  BY <1>1 DEF CatalogInv
<1>6. copy'.catalog.version <= remote' /\ best' <= remote'
  BY <1>1, <1>3 DEF CatalogInv
<1> QED BY <1>1, <1>2, <1>4, <1>5, <1>6 DEF CatalogInv

LEMMA OpenPageInv ==
  ASSUME CatalogBounds, CatalogInv, NEW t \in Tabs, Catalog!Open(t)
  PROVE  CatalogInv'
<1> DEFINE p == [Catalog!NoPage EXCEPT !.step = "read", !.time = clock]
<1>1. /\ page' = [page EXCEPT ![t] = p]
      /\ UNCHANGED <<remote, clock, copy, writes, best, asked, overtaken>>
  BY DEF Catalog!Open, Catalog!Storage
<1>2. /\ p.step = "read" /\ p.time = clock /\ p.old = Catalog!NoCopy /\ p.wanted = 0 /\ p.read = 0
      /\ p.used = Catalog!NoCatalog /\ p.fresh = FALSE
      /\ Catalog!NoCopy.catalog = Catalog!NoCatalog
  BY DEF Catalog!NoPage, Catalog!NoCopy
<1>3. p \in Pages
  BY CatalogParts DEF CatalogInv, CatalogTypes, Pages, Catalog!Steps
<1> HIDE DEF p
<1>4. Genuine(p, remote) /\ Current(p, writes, best, asked)
  <2> DEFINE c == Catalog!NoCatalog
  <2>1. p.used = c /\ p.old.catalog = c /\ c.genuine = TRUE /\ c.version = 0 /\ remote \in Nat
    <3>1. c.genuine = TRUE /\ c.version = 0
      BY CatalogParts
    <3>2. remote \in Nat
      BY DEF CatalogInv, CatalogTypes
    <3> QED BY <1>2, <3>1, <3>2
  <2> HIDE DEF c
  <2> QED BY <1>2, <2>1 DEF Genuine, Current, c
<1> QED BY <1>1, <1>2, <1>3, <1>4, PageStep DEF CatalogInv, CatalogTypes

\* Only the step of a page changes.
LEMMA GoesTo ==
  ASSUME CatalogBounds, CatalogInv, NEW t \in Tabs, NEW s \in Catalog!Steps \ {"read", "save"},
         Catalog!Goes(t, s), UNCHANGED <<remote, clock, copy, writes, best, asked, overtaken>>,
         s \in {"metadata", "document", "touch", "fail"} =>
           s = "fail" /\ page[t].step \in {"metadata", "document", "save", "touch", "fail"}
  PROVE  CatalogInv'
<1> DEFINE p == [page[t] EXCEPT !.step = s]
<1>1. page[t] \in Pages /\ page \in [Tabs -> Pages]
  BY DEF CatalogInv, CatalogTypes
<1>2. page' = [page EXCEPT ![t] = p]
  BY <1>1 DEF Catalog!Goes
<1>3. /\ p \in Pages /\ p.step = s /\ p.time = page[t].time /\ p.old = page[t].old
      /\ p.wanted = page[t].wanted /\ p.read = page[t].read /\ p.used = page[t].used
      /\ p.fresh = page[t].fresh /\ p.spaced = page[t].spaced
  BY <1>1 DEF Pages
<1> HIDE DEF p
<1>4. Genuine(p, remote)
  BY <1>3 DEF Genuine, CatalogInv
<1>5. ~overtaken => Current(p, writes, best, asked)
  BY <1>3 DEF Current, CatalogInv
<1> QED BY <1>2, <1>3, <1>4, <1>5, PageStep DEF CatalogInv

LEMMA FetchFailInv ==
  ASSUME CatalogBounds, CatalogInv, NEW t \in Tabs,
         Catalog!ReadFails(t) \/ Catalog!FetchFails(t) \/ Catalog!WriteFails(t)
  PROVE  CatalogInv'
<1>1. UNCHANGED <<remote, clock, copy, writes, best, asked, overtaken>>
  BY DEF Catalog!ReadFails, Catalog!FetchFails, Catalog!WriteFails, Catalog!World, Catalog!Storage
<1>2. "fail" \in Catalog!Steps \ {"read", "save"} /\ "rejected" \in Catalog!Steps \ {"read", "save"}
  BY DEF Catalog!Steps
<1>3. \/ Catalog!Goes(t, "rejected")
      \/ Catalog!Goes(t, "fail") /\ page[t].step \in {"metadata", "document", "save", "touch", "fail"}
  BY DEF Catalog!ReadFails, Catalog!FetchFails, Catalog!WriteFails
<1>4. CASE Catalog!Goes(t, "rejected")
  BY <1>1, <1>2, <1>4, GoesTo
<1>5. CASE /\ Catalog!Goes(t, "fail")
           /\ page[t].step \in {"metadata", "document", "save", "touch", "fail"}
  BY <1>1, <1>2, <1>5, GoesTo
<1> QED BY <1>3, <1>4, <1>5

LEMMA ReadCopyInv ==
  ASSUME CatalogBounds, CatalogInv, NEW t \in Tabs, Catalog!ReadCopy(t)
  PROVE  CatalogInv'
<1> DEFINE has == copy.there /\ copy.catalog # Catalog!NoCatalog
           due == ~copy.there \/ page[t].time >= copy.at + 1
           p == [page[t] EXCEPT !.old = copy, !.read = writes, !.fresh = has,
                   !.used = IF has THEN copy.catalog ELSE page[t].used,
                   !.spaced = asked = Catalog!Never \/ asked < page[t].time,
                   !.step = IF due THEN "metadata" ELSE "done"]
<1>1. page[t] \in Pages /\ page \in [Tabs -> Pages]
  BY DEF CatalogInv, CatalogTypes
<1>2. /\ page[t].step = "read" /\ page' = [page EXCEPT ![t] = p]
      /\ UNCHANGED <<remote, clock, copy, writes, best, asked, overtaken>>
  BY <1>1 DEF Catalog!ReadCopy, Catalog!Outdated, Catalog!World, Catalog!Storage
<1>3. has \in BOOLEAN /\ copy \in Copies /\ copy.catalog \in Catalog!Catalogs
  BY DEF CatalogInv, CatalogTypes, Copies
<1>4. /\ p.step = IF due THEN "metadata" ELSE "done"
      /\ p.time = page[t].time /\ p.old = copy /\ p.wanted = page[t].wanted /\ p.read = writes
      /\ p.used = IF has THEN copy.catalog ELSE page[t].used
      /\ p.fresh = has /\ p.spaced = (asked = Catalog!Never \/ asked < page[t].time)
  BY <1>1 DEF Pages
<1>5. p \in Pages
  BY <1>1, <1>3 DEF Pages, Catalog!Steps, CatalogInv, CatalogTypes
<1> HIDE DEF p
<1>6. page[t].used = Catalog!NoCatalog /\ Genuine(page[t], remote)
  BY <1>2 DEF CatalogInv, Genuine
<1>7. p.used.version = copy.catalog.version /\ p.used.genuine
      /\ (p.fresh <=> p.used # Catalog!NoCatalog)
  BY <1>3, <1>4, <1>6, CatalogParts DEF CatalogInv
<1>8. Genuine(p, remote)
  BY <1>4, <1>6, <1>7 DEF Genuine, CatalogInv
<1>9. ~overtaken => Current(p, writes, best, asked)
  <2>1. SUFFICES ASSUME ~overtaken, due PROVE Current(p, writes, best, asked)
    BY <1>4 DEF Current
  <2>2. asked = Catalog!Never \/ asked < page[t].time
    BY <1>1, <1>3, <2>1 DEF CatalogInv, Copies, Pages
  <2> QED BY <1>4, <1>7, <2>1, <2>2 DEF Current, CatalogInv
<1>10. p.read <= writes /\ p.time <= clock
  BY <1>4 DEF CatalogInv, CatalogTypes
<1> QED BY <1>2, <1>5, <1>8, <1>9, <1>10, PageStep

LEMMA MetadataInv ==
  ASSUME CatalogBounds, CatalogInv, NEW t \in Tabs, Catalog!Metadata(t)
  PROVE  CatalogInv'
<1> DEFINE s == IF page[t].old.catalog.version = remote THEN "touch" ELSE "document"
           p == [page[t] EXCEPT !.wanted = remote, !.step = s]
<1>1. page[t] \in Pages /\ page \in [Tabs -> Pages]
  BY DEF CatalogInv, CatalogTypes
<1>2. /\ page[t].step = "metadata" /\ page' = [page EXCEPT ![t] = p]
      /\ UNCHANGED <<remote, clock, copy, writes, best, asked, overtaken>>
  BY <1>1 DEF Catalog!Metadata, Catalog!World, Catalog!Storage
<1>3. /\ p \in Pages /\ p.step = s /\ p.time = page[t].time /\ p.old = page[t].old
      /\ p.wanted = remote /\ p.read = page[t].read /\ p.used = page[t].used
      /\ p.fresh = page[t].fresh /\ p.spaced = page[t].spaced
  <2>1. s \in Catalog!Steps /\ remote \in 0 .. MaxVersion
    BY DEF Catalog!Steps, CatalogInv, CatalogTypes
  <2> HIDE DEF s
  <2> QED BY <1>1, <2>1 DEF Pages
<1> HIDE DEF p
<1>4. Genuine(p, remote)
  BY <1>3 DEF Genuine, CatalogInv, CatalogTypes
<1>5. ~overtaken => Current(p, writes, best, asked)
  BY <1>2, <1>3 DEF Current, CatalogInv
<1> QED BY <1>2, <1>3, <1>4, <1>5, PageStep DEF CatalogInv

LEMMA DocumentInv ==
  ASSUME CatalogBounds, CatalogInv, NEW t \in Tabs, Catalog!Document(t)
  PROVE  CatalogInv'
<1>1. page[t] \in Pages /\ page \in [Tabs -> Pages]
  BY DEF CatalogInv, CatalogTypes
<1>2. page[t].step = "document" /\ UNCHANGED <<remote, clock, copy, writes, best, asked, overtaken>>
  BY DEF Catalog!Document, Catalog!World, Catalog!Storage
<1>3. PICK d \in Catalog!Catalogs :
        /\ d.version # 0
        /\ page' = IF Catalog!Accepted(d, page[t].wanted)
                   THEN [page EXCEPT ![t].step = "save", ![t].old.catalog = d]
                   ELSE [page EXCEPT ![t].step = "fail"]
  BY DEF Catalog!Document
<1>4. CASE ~Catalog!Accepted(d, page[t].wanted)
  <2>1. Catalog!Goes(t, "fail") /\ "fail" \in Catalog!Steps \ {"read", "save"}
    BY <1>3, <1>4 DEF Catalog!Goes, Catalog!Steps
  <2> QED BY <1>2, <2>1, GoesTo
<1>5. CASE Catalog!Accepted(d, page[t].wanted)
  <2> DEFINE o == [page[t].old EXCEPT !.catalog = d]
             p == [page[t] EXCEPT !.step = "save", !.old = o]
  <2>1. d.genuine /\ d.version = page[t].wanted
    BY <1>5 DEF Catalog!Accepted
  <2>2. o \in Copies /\ o.catalog = d
    BY <1>1, <1>3 DEF Pages, Copies
  <2>3. page' = [page EXCEPT ![t] = p]
    BY <1>1, <1>3, <1>5
  <2> HIDE DEF o
  <2>4. /\ p \in Pages /\ p.step = "save" /\ p.time = page[t].time /\ p.old = o
        /\ p.wanted = page[t].wanted /\ p.read = page[t].read /\ p.used = page[t].used
        /\ p.fresh = page[t].fresh /\ p.spaced = page[t].spaced
    BY <1>1, <2>2 DEF Pages, Catalog!Steps
  <2> HIDE DEF p
  <2>5. Genuine(p, remote)
    BY <1>2, <1>3, <2>1, <2>2, <2>4 DEF Genuine, CatalogInv
  <2>6. ~overtaken => Current(p, writes, best, asked)
    BY <1>2, <2>1, <2>2, <2>4 DEF Current, CatalogInv
  <2> QED BY <1>2, <2>3, <2>4, <2>5, <2>6, PageStep DEF CatalogInv
<1> QED BY <1>4, <1>5

\* A page that writes the copy ends its check.  What it writes is genuine, and
\* the newest there was, unless it has not read the copy as it is.
LEMMA WrittenInv ==
  ASSUME CatalogBounds, CatalogInv, NEW t \in Tabs, NEW c \in Catalog!Catalogs, NEW p \in Pages,
         Catalog!Written(t, c), page' = [page EXCEPT ![t] = p],
         UNCHANGED <<remote, clock>>,
         page[t].step \in {"save", "touch", "fail"},
         c.genuine, c.version <= remote,
         Genuine(p, remote), p.read = page[t].read, p.time = page[t].time, p.step = "done",
         ~overtaken /\ page[t].read = writes => best <= c.version
  PROVE  CatalogInv'
<1>1. page[t] \in Pages /\ page \in [Tabs -> Pages]
  BY DEF CatalogInv, CatalogTypes
<1>2. page' \in [Tabs -> Pages] /\ \A u \in Tabs : page'[u] = IF u = t THEN p ELSE page[u]
  BY <1>1
<1>3. /\ copy' = [there |-> TRUE, catalog |-> c, at |-> page[t].time] /\ writes' = writes + 1
      /\ best' = IF c.version > best THEN c.version ELSE best
      /\ asked' = IF asked = Catalog!Never \/ page[t].time > asked THEN page[t].time ELSE asked
      /\ overtaken' = (overtaken \/ page[t].read # writes)
  BY DEF Catalog!Written
<1>4. /\ page[t].time \in 0 .. MaxClock /\ page[t].read \in Nat /\ writes \in Nat
      /\ c.version \in 0 .. MaxVersion /\ best \in 0 .. MaxVersion /\ remote \in 1 .. MaxVersion
      /\ asked \in (0 .. MaxClock) \union {Catalog!Never} /\ Catalog!Never \in Nat
  BY <1>1, CatalogParts DEF Pages, CatalogInv, CatalogTypes, Catalog!Never, CatalogBounds
<1>5. CatalogTypes'
  <2>1. copy' \in Copies
    BY <1>3, <1>4 DEF Copies
  <2>2. overtaken' \in BOOLEAN
    BY <1>3, Zenon DEF CatalogInv, CatalogTypes
  <2>3. writes' \in Nat /\ best' \in 0 .. MaxVersion
    BY <1>3, <1>4
  <2>4. asked' \in (0 .. MaxClock) \union {Catalog!Never}
    BY <1>3, <1>4
  <2>5. (remote \in 1 .. MaxVersion /\ clock \in 0 .. MaxClock)'
    BY DEF CatalogInv, CatalogTypes
  <2> QED BY <1>2, <2>1, <2>2, <2>3, <2>4, <2>5 DEF CatalogTypes, Catalog!Never
<1>6. ASSUME NEW u \in Tabs
      PROVE  Genuine(page'[u], remote') /\ page'[u].read <= writes' /\ page'[u].time <= clock'
  <2>1. page[u].read \in Nat
    BY <1>1 DEF Pages
  <2> QED BY <1>2, <1>3, <1>4, <2>1 DEF CatalogInv
<1>7. copy'.there = TRUE /\ copy'.catalog = c /\ copy'.at = page[t].time
  BY <1>3
<1>8. copy'.catalog.genuine /\ copy'.catalog.version <= remote' /\ best' <= remote'
  BY <1>3, <1>7 DEF CatalogInv
<1>9. ASSUME ~overtaken'
      PROVE  /\ copy'.catalog.version = best' /\ asked' = copy'.at
             /\ \A u \in Tabs : Current(page'[u], writes', best', asked')
  <2>1. ~overtaken /\ page[t].read = writes
    BY <1>3, <1>9
  <2>2. asked = Catalog!Never \/ asked < page[t].time
    BY <2>1 DEF CatalogInv, Current
  <2>3. ASSUME NEW u \in Tabs
        PROVE  Current(page'[u], writes', best', asked')
    <3>1. page[u].read \in Nat /\ page[u].read <= writes
      BY <1>1 DEF CatalogInv, Pages
    <3>2. page[u].step \in {"metadata", "document"} => page[u].spaced
      BY <2>1 DEF CatalogInv, Current
    <3>3. page'[u].read # writes'
      BY <1>2, <1>3, <1>4, <3>1
    <3> QED BY <1>2, <3>2, <3>3 DEF Current
  <2>4. copy'.catalog.version = best' /\ asked' = copy'.at
    BY <1>3, <1>4, <1>7, <2>1, <2>2
  <2> QED BY <2>3, <2>4
<1> QED BY <1>5, <1>6, <1>7, <1>8, <1>9 DEF CatalogInv

LEMMA SaveInv ==
  ASSUME CatalogBounds, CatalogInv, NEW t \in Tabs, Catalog!Save(t)
  PROVE  CatalogInv'
<1> DEFINE c == page[t].old.catalog
           p == [page[t] EXCEPT !.step = "done", !.used = c, !.fresh = TRUE]
<1>1. page[t] \in Pages /\ page \in [Tabs -> Pages]
  BY DEF CatalogInv, CatalogTypes
<1>2. /\ page[t].step = "save" /\ Catalog!Written(t, c) /\ page' = [page EXCEPT ![t] = p]
      /\ UNCHANGED <<remote, clock>>
  BY <1>1 DEF Catalog!Save, Catalog!World
<1>3. c \in Catalog!Catalogs /\ c # Catalog!NoCatalog /\ c.genuine /\ c.version <= remote
  BY <1>1, <1>2, CatalogParts DEF CatalogInv, Genuine, Pages, Copies
<1>4. /\ p \in Pages /\ p.step = "done" /\ p.time = page[t].time /\ p.old = page[t].old
      /\ p.wanted = page[t].wanted /\ p.read = page[t].read /\ p.used = c
      /\ p.fresh = TRUE /\ p.spaced = page[t].spaced
  BY <1>1, <1>3 DEF Pages, Catalog!Steps
<1> HIDE DEF p
<1>5. Genuine(p, remote)
  BY <1>3, <1>4 DEF Genuine, CatalogInv
<1>6. ~overtaken /\ page[t].read = writes => best <= c.version
  BY <1>2 DEF CatalogInv, Current
<1> HIDE DEF c
<1> QED BY <1>2, <1>3, <1>4, <1>5, <1>6, WrittenInv

LEMMA ConfirmedInv ==
  ASSUME CatalogBounds, CatalogInv, NEW t \in Tabs, Catalog!Touch(t) \/ Catalog!Failed(t)
  PROVE  CatalogInv'
<1> DEFINE p == [page[t] EXCEPT !.step = "done"]
<1>1. page[t] \in Pages /\ page \in [Tabs -> Pages]
  BY DEF CatalogInv, CatalogTypes
<1>2. /\ page' = [page EXCEPT ![t] = p] /\ UNCHANGED <<remote, clock>>
      /\ page[t].step \in {"save", "touch", "fail"}
  BY <1>1 DEF Catalog!Touch, Catalog!Failed, Catalog!Goes, Catalog!World
<1>3. PICK c \in Catalog!Catalogs :
        /\ Catalog!Written(t, c) /\ c.genuine /\ c.version <= remote
        /\ ~overtaken /\ page[t].read = writes => best = c.version
  <2>1. CASE Catalog!Touch(t)
    <3>1. Catalog!Written(t, page[t].old.catalog) /\ page[t].step = "touch"
      BY <2>1 DEF Catalog!Touch
    <3>2. page[t].old.catalog \in Catalog!Catalogs
      BY <1>1 DEF Pages, Copies
    <3> QED BY <3>1, <3>2 DEF CatalogInv, Genuine, Current
  <2>2. CASE Catalog!Failed(t)
    <3>1. Catalog!Written(t, page[t].used) /\ page[t].step = "fail"
      BY <2>2 DEF Catalog!Failed
    <3>2. page[t].used \in Catalog!Catalogs
      BY <1>1 DEF Pages
    <3> QED BY <3>1, <3>2 DEF CatalogInv, Genuine, Current
  <2> QED BY <2>1, <2>2
<1>4. /\ p \in Pages /\ p.step = "done" /\ p.time = page[t].time /\ p.old = page[t].old
      /\ p.wanted = page[t].wanted /\ p.read = page[t].read /\ p.used = page[t].used
      /\ p.fresh = page[t].fresh /\ p.spaced = page[t].spaced
  BY <1>1 DEF Pages, Catalog!Steps
<1> HIDE DEF p
<1>5. Genuine(p, remote)
  BY <1>4 DEF Genuine, CatalogInv
<1>6. ~overtaken /\ page[t].read = writes => best <= c.version
  <2>1. c.version \in Nat
    BY CatalogParts
  <2> QED BY <1>3, <2>1
<1>7. Catalog!Written(t, c) /\ c.genuine /\ c.version <= remote
  BY <1>3
<1> QED BY <1>2, <1>4, <1>5, <1>6, <1>7, WrittenInv

LEMMA CatalogStep ==
  ASSUME CatalogBounds, CatalogInv, [Catalog!Next]_(Catalog!vars)
  PROVE  CatalogInv'
<1>1. CASE Catalog!Next
  BY <1>1, WorldInv, OpenPageInv, ReadCopyInv, MetadataInv, DocumentInv, SaveInv, ConfirmedInv, FetchFailInv
     DEF Catalog!Next
<1>2. CASE UNCHANGED Catalog!vars
  <2>1. UNCHANGED <<remote, clock, copy, page, writes, best, asked, overtaken>>
    BY <1>2 DEF Catalog!vars
  <2>2. CatalogTypes'
    BY <2>1 DEF CatalogInv, CatalogTypes
  <2> QED BY <2>1, <2>2 DEF CatalogInv
<1> QED BY <1>1, <1>2

LEMMA CatalogSpecInv ==
  ASSUME CatalogBounds
  PROVE  Catalog!Spec => []CatalogInv
BY CatalogInitially, CatalogStep, PTL DEF Catalog!Spec

\* Whatever pages, checks and failures overlap, the copy in the storage and
\* what every page trusts are whole (catalog.js).
THEOREM CatalogTyped ==
  ASSUME CatalogBounds
  PROVE  Catalog!Spec => []Catalog!TypeOK
<1>1. ASSUME CatalogInv
      PROVE  Catalog!TypeOK
  <2>1. \A t \in Tabs : page[t].step \in Catalog!Steps /\ page[t].used \in Catalog!Catalogs
    BY <1>1 DEF CatalogInv, CatalogTypes, Pages
  <2> QED BY <1>1, <2>1 DEF Catalog!TypeOK, CatalogInv, CatalogTypes, Copies
<1> QED BY <1>1, CatalogSpecInv, PTL

\* What is trusted is what the network has announced, in every page and in the
\* copy, whichever documents came; a page says it has a catalog exactly when
\* it has one (catalog.js).
THEOREM GenuineTrusted ==
  ASSUME CatalogBounds
  PROVE  Catalog!Spec => []Catalog!GenuineOnly
<1>1. CatalogInv => Catalog!GenuineOnly
  BY DEF CatalogInv, Genuine, Catalog!GenuineOnly
<1> QED BY <1>1, CatalogSpecInv, PTL

\* As long as no page has written over a copy it had not read, a failed check
\* costs the copy nothing and the network is asked once in an interval.
THEOREM CopyKept ==
  ASSUME CatalogBounds
  PROVE  Catalog!Spec => []Catalog!CopyIsKept
<1>1. CatalogInv => Catalog!CopyIsKept
  BY DEF CatalogInv, Current, Catalog!CopyIsKept
<1> QED BY <1>1, CatalogSpecInv, PTL
-----------------------------
(* The connections of an add-on's database (AddonDatabase).                *)
CONSTANTS MaxConns, MaxOps, MaxClosings
VARIABLES version, conns, queue, cache, ops, stored, closings

Database == INSTANCE AddonDatabase

DatabaseBounds == MaxVersion \in Nat /\ MaxConns \in Nat

Conn == [tab : Tabs, version : 1 .. MaxVersion,
         state : {"asked", "blocked", "open", "closing", "gone"},
         promise : {"pending", "resolved", "rejected"}, evicted : BOOLEAN,
         told : SUBSET (1 .. MaxConns)]
Oper == [tab : Tabs, conn : 1 .. MaxConns,
         step : {"waiting", "inside", "done", "ok", "failed", "dropped"}]

OpersInv ==
  /\ ops \in Seq(Oper) /\ \A o \in DOMAIN ops : ops[o].conn \in DOMAIN conns
  /\ stored \subseteq DOMAIN ops
  /\ \A o \in DOMAIN ops : o \in stored <=> ops[o].step = "ok"

ConnTypes ==
  /\ version \in 0 .. MaxVersion
  /\ conns \in Seq(Conn) /\ Len(conns) <= MaxConns
  /\ queue \subseteq DOMAIN conns
  /\ cache \in [Tabs -> [1 .. MaxVersion -> 0 .. Len(conns)]]

\* A connection is in the queue until it is served.  One that is blocked is the
\* first there, and has told every connection that was open; what was told never
\* opens again.
ConnOK(c) ==
  /\ c \in queue <=> conns[c].state \in {"asked", "blocked"}
  /\ conns[c].state = "asked" => conns[c].promise = "pending"
  /\ conns[c].state = "blocked" =>
       /\ conns[c].promise = "rejected" /\ \A d \in queue : c <= d
       /\ \A d \in DOMAIN conns : conns[d].state # "open"
  /\ \A d \in conns[c].told : d \in DOMAIN conns /\ conns[d].state \in {"closing", "gone"}

\* What is in a cache was asked for there, in that version, and was not given up.
CachedOK(t, v) ==
  cache[t][v] # 0 =>
    /\ conns[cache[t][v]].tab = t /\ conns[cache[t][v]].version = v
    /\ conns[cache[t][v]].promise # "rejected" /\ conns[cache[t][v]].evicted = FALSE
    /\ conns[cache[t][v]].state \in {"asked", "open"}

ConnsInv ==
  /\ ConnTypes
  /\ \A c \in DOMAIN conns : ConnOK(c)
  /\ \A t \in Tabs, v \in 1 .. MaxVersion : CachedOK(t, v)

DatabaseInv == ConnsInv /\ OpersInv

LEMMA FunctionIsSeq ==
  ASSUME NEW S, NEW n \in Nat, NEW f \in [1 .. n -> S]
  PROVE  f \in Seq(S) /\ Len(f) = n /\ DOMAIN f = 1 .. n
OBVIOUS

LEMMA ConnShape ==
  ASSUME DatabaseBounds, ConnTypes
  PROVE  /\ Len(conns) \in Nat /\ DOMAIN conns = 1 .. Len(conns)
         /\ conns \in [1 .. Len(conns) -> Conn]
         /\ \A c \in DOMAIN conns : conns[c] \in Conn /\ c \in 1 .. MaxConns
<1>1. /\ Len(conns) \in Nat /\ DOMAIN conns = 1 .. Len(conns)
      /\ conns \in [1 .. Len(conns) -> Conn]
  BY LenProperties DEF ConnTypes
<1> QED BY <1>1 DEF ConnTypes, DatabaseBounds

LEMMA OperShape ==
  ASSUME OpersInv
  PROVE  /\ Len(ops) \in Nat /\ DOMAIN ops = 1 .. Len(ops)
         /\ ops \in [1 .. Len(ops) -> Oper] /\ \A o \in DOMAIN ops : ops[o] \in Oper
<1>1. /\ Len(ops) \in Nat /\ DOMAIN ops = 1 .. Len(ops)
      /\ ops \in [1 .. Len(ops) -> Oper]
  BY LenProperties DEF OpersInv
<1> QED BY <1>1

LEMMA DatabaseInitially ==
  ASSUME DatabaseBounds, Database!Init
  PROVE  DatabaseInv
<1>1. conns = <<>> /\ ops = <<>> /\ queue = {} /\ stored = {} /\ version = 0
  BY DEF Database!Init
<1>2. cache \in [Tabs -> [1 .. MaxVersion -> 0 .. Len(conns)]]
      /\ \A t \in Tabs, v \in 1 .. MaxVersion : cache[t][v] = 0
  BY <1>1, EmptySeq DEF Database!Init, Database!Versions
<1>3. /\ conns \in Seq(Conn) /\ ops \in Seq(Oper) /\ Len(conns) = 0 /\ Len(ops) = 0
      /\ DOMAIN conns = {} /\ DOMAIN ops = {}
  BY <1>1
<1>4. ConnTypes
  BY <1>1, <1>2, <1>3 DEF ConnTypes, DatabaseBounds
<1> QED BY <1>1, <1>2, <1>3, <1>4 DEF DatabaseInv, ConnsInv, OpersInv, CachedOK
-----------------------------
(* Operations.                                                             *)

\* Operations go on, none appears, and those that succeed are stored.
LEMMA OpersStep ==
  ASSUME OpersInv, Len(conns') \in Nat, DOMAIN conns \subseteq DOMAIN conns',
         ops' \in [DOMAIN ops -> Oper], stored' \subseteq DOMAIN ops,
         \A o \in DOMAIN ops : /\ ops'[o].conn = ops[o].conn
                               /\ o \in stored' <=> ops'[o].step = "ok"
  PROVE  OpersInv'
<1>1. ops' \in Seq(Oper) /\ DOMAIN ops' = DOMAIN ops
  BY OperShape, FunctionIsSeq
<1> QED BY <1>1 DEF OpersInv

LEMMA StepKeeps ==
  ASSUME OpersInv, NEW o \in DOMAIN ops,
         NEW s \in {"waiting", "inside", "done", "ok", "failed", "dropped"}, Database!Step(o, s),
         Len(conns') \in Nat, DOMAIN conns \subseteq DOMAIN conns', ops[o].step # "ok",
         stored' = IF s = "ok" THEN stored \union {o} ELSE stored
  PROVE  OpersInv'
<1> DEFINE e == [ops[o] EXCEPT !.step = s]
<1>1. ops[o] \in Oper /\ ops \in [DOMAIN ops -> Oper]
  BY OperShape
<1>2. e \in Oper /\ e.conn = ops[o].conn /\ e.step = s
  BY <1>1 DEF Oper
<1>3. ops' = [ops EXCEPT ![o] = e]
  BY <1>1 DEF Database!Step
<1> HIDE DEF e
<1>4. /\ ops' \in [DOMAIN ops -> Oper]
      /\ \A p \in DOMAIN ops : ops'[p] = IF p = o THEN e ELSE ops[p]
  BY <1>1, <1>2, <1>3
<1>5. \A p \in DOMAIN ops : /\ ops'[p].conn = ops[p].conn
                            /\ p \in stored' <=> ops'[p].step = "ok"
  BY <1>2, <1>4 DEF OpersInv
<1>6. stored' \subseteq DOMAIN ops
  BY DEF OpersInv
<1> QED BY <1>4, <1>5, <1>6, OpersStep

LEMMA ConnsSame ==
  ASSUME DatabaseInv, UNCHANGED <<version, conns, queue, cache>>
  PROVE  ConnsInv' /\ Len(conns') \in Nat /\ DOMAIN conns \subseteq DOMAIN conns'
<1>1. ConnTypes'
  BY DEF DatabaseInv, ConnsInv, ConnTypes
<1>2. /\ \A c \in DOMAIN conns' : ConnOK(c)'
      /\ \A t \in Tabs, v \in 1 .. MaxVersion : CachedOK(t, v)'
  BY DEF DatabaseInv, ConnsInv, ConnOK, CachedOK
<1>3. Len(conns) \in Nat
  BY LenProperties DEF DatabaseInv, ConnsInv, ConnTypes
<1> QED BY <1>1, <1>2, <1>3 DEF ConnsInv

LEMMA OperationInv ==
  ASSUME DatabaseInv, NEW o \in DOMAIN ops,
         \/ Database!Enter(o) \/ Database!RequestsDone(o) \/ Database!Complete(o) \/ Database!Abort(o)
  PROVE  DatabaseInv'
<1>1. UNCHANGED <<version, conns, queue, cache>>
  BY DEF Database!Enter, Database!RequestsDone, Database!Complete, Database!Abort
<1>2. ASSUME NEW s \in {"inside", "done", "failed"}, Database!Step(o, s), stored' = stored,
             ops[o].step # "ok"
      PROVE  OpersInv'
  BY <1>1, <1>2, ConnsSame, StepKeeps DEF DatabaseInv
<1>3. CASE Database!Complete(o)
  BY <1>1, <1>3, ConnsSame, StepKeeps DEF DatabaseInv, Database!Complete
<1>4. CASE Database!Enter(o)
  <2>1. Database!Step(o, "inside") \/ Database!Step(o, "failed")
    BY <1>4 DEF Database!Enter
  <2> QED BY <1>1, <1>2, <1>4, <2>1, ConnsSame DEF Database!Enter, DatabaseInv
<1>5. CASE Database!RequestsDone(o)
  BY <1>1, <1>2, <1>5, ConnsSame DEF Database!RequestsDone, DatabaseInv
<1>6. CASE Database!Abort(o)
  BY <1>1, <1>2, <1>6, ConnsSame DEF Database!Abort, Database!InTransaction, DatabaseInv
<1> QED BY <1>1, <1>3, <1>4, <1>5, <1>6, ConnsSame DEF DatabaseInv

\* Operations that wait for a connection fail with it, or go with their tab.
LEMMA FailingKeeps ==
  ASSUME OpersInv, NEW P, NEW s \in {"failed", "dropped"},
         P \subseteq DOMAIN ops, \A o \in P : ops[o].step # "ok",
         ops' = [o \in DOMAIN ops |-> IF o \in P THEN [ops[o] EXCEPT !.step = s] ELSE ops[o]],
         stored' = stored, Len(conns') \in Nat, DOMAIN conns \subseteq DOMAIN conns'
  PROVE  OpersInv'
<1>1. ASSUME NEW o \in DOMAIN ops
      PROVE  /\ ops'[o] \in Oper /\ ops'[o].conn = ops[o].conn
             /\ o \in stored' <=> ops'[o].step = "ok"
  <2> DEFINE e == [ops[o] EXCEPT !.step = s]
  <2>1. ops[o] \in Oper
    BY OperShape
  <2>2. e \in Oper /\ e.conn = ops[o].conn /\ e.step = s
    BY <2>1 DEF Oper
  <2>3. ops'[o] = IF o \in P THEN e ELSE ops[o]
    OBVIOUS
  <2> HIDE DEF e
  <2> QED BY <2>1, <2>2, <2>3 DEF OpersInv
<1>2. ops' \in [DOMAIN ops -> Oper]
  BY <1>1
<1>3. stored' \subseteq DOMAIN ops
  BY DEF OpersInv
<1> QED BY <1>1, <1>2, <1>3, OpersStep
-----------------------------
(* Connections.                                                            *)

LEMMA OneConn ==
  ASSUME DatabaseBounds, ConnTypes, NEW c \in DOMAIN conns, NEW r \in Conn,
         conns' = [conns EXCEPT ![c] = r]
  PROVE  /\ conns' \in Seq(Conn) /\ Len(conns') = Len(conns) /\ Len(conns) \in Nat
         /\ DOMAIN conns' = DOMAIN conns /\ DOMAIN conns = 1 .. Len(conns)
         /\ \A d \in DOMAIN conns : conns'[d] = IF d = c THEN r ELSE conns[d]
<1>1. conns' \in [1 .. Len(conns) -> Conn]
  BY ConnShape
<1>2. conns' \in Seq(Conn) /\ Len(conns') = Len(conns) /\ DOMAIN conns' = 1 .. Len(conns)
  BY <1>1, ConnShape, FunctionIsSeq
<1> QED BY <1>2, ConnShape

\* A connection that is served leaves the queue and the cache keeps it, or is
\* refused and forgotten.
Refused(c, s) ==
  /\ conns' = [conns EXCEPT ![c] = [conns[c] EXCEPT !.state = s, !.promise = "rejected"]]
  /\ cache' = Database!Forget(c)

LEMMA ForgetCache ==
  ASSUME DatabaseBounds, ConnsInv, NEW c \in DOMAIN conns, cache' = Database!Forget(c)
  PROVE  /\ cache' \in [Tabs -> [1 .. MaxVersion -> 0 .. Len(conns)]]
         /\ \A t \in Tabs, v \in 1 .. MaxVersion :
              cache'[t][v] # 0 => cache'[t][v] = cache[t][v] /\ cache[t][v] # c
<1> DEFINE a == conns[c].tab
           b == conns[c].version
<1>1. conns[c] \in Conn /\ Len(conns) \in Nat
  BY ConnShape DEF ConnsInv
<1>2. a \in Tabs /\ b \in 1 .. MaxVersion
  BY <1>1 DEF Conn
<1>3. cache' = [cache EXCEPT ![a] = [cache[a] EXCEPT ![b] = 0]]
  BY <1>2 DEF Database!Forget, ConnsInv, ConnTypes
<1>4. \A t \in Tabs, v \in 1 .. MaxVersion : cache[t][v] = c /\ c # 0 => t = a /\ v = b
  BY DEF ConnsInv, CachedOK
<1> HIDE DEF a, b
<1>5. cache' \in [Tabs -> [1 .. MaxVersion -> 0 .. Len(conns)]]
  BY <1>1, <1>2, <1>3 DEF ConnsInv, ConnTypes
<1>6. \A t \in Tabs, v \in 1 .. MaxVersion :
        cache'[t][v] = IF t = a /\ v = b THEN 0 ELSE cache[t][v]
  BY <1>2, <1>3, ZenonT(60) DEF ConnsInv, ConnTypes
<1> QED BY <1>4, <1>5, <1>6

LEMMA RefusedInv ==
  ASSUME DatabaseBounds, ConnsInv, NEW c \in DOMAIN conns, Database!Served(c),
         \/ Refused(c, "gone") /\ queue' = queue \ {c}
         \/ /\ Refused(c, "blocked") /\ queue' = queue
            /\ \A d \in DOMAIN conns : conns[d].state # "open",
         version' = version
  PROVE  ConnsInv' /\ Len(conns') \in Nat /\ DOMAIN conns' = DOMAIN conns
<1> DEFINE s == IF queue' = queue THEN "blocked" ELSE "gone"
           r == [conns[c] EXCEPT !.state = s, !.promise = "rejected"]
<1>1. c \in queue /\ \A d \in queue : c <= d
  BY DEF Database!Served
<1>2. /\ s = "gone" \/ s = "blocked"
      /\ conns' = [conns EXCEPT ![c] = r] /\ cache' = Database!Forget(c)
      /\ s = "gone" => queue' = queue \ {c}
      /\ s = "blocked" => queue' = queue /\ \A d \in DOMAIN conns : conns[d].state # "open"
  BY <1>1 DEF Refused
<1>3. conns[c] \in Conn
  BY ConnShape DEF ConnsInv
<1> HIDE DEF s
<1>4. /\ r \in Conn /\ r.state = s /\ r.promise = "rejected" /\ r.tab = conns[c].tab
      /\ r.version = conns[c].version /\ r.told = conns[c].told
  BY <1>2, <1>3 DEF Conn
<1> HIDE DEF r
<1>5. /\ conns' \in Seq(Conn) /\ Len(conns') = Len(conns) /\ Len(conns) \in Nat
      /\ DOMAIN conns' = DOMAIN conns /\ DOMAIN conns = 1 .. Len(conns)
      /\ \A d \in DOMAIN conns : conns'[d] = IF d = c THEN r ELSE conns[d]
  BY <1>2, <1>4, OneConn DEF ConnsInv
<1>6. /\ cache' \in [Tabs -> [1 .. MaxVersion -> 0 .. Len(conns)]]
      /\ \A t \in Tabs, v \in 1 .. MaxVersion :
           cache'[t][v] # 0 => cache'[t][v] = cache[t][v] /\ cache[t][v] # c
  BY <1>2, ForgetCache
<1>7. ConnTypes'
  BY <1>2, <1>5, <1>6 DEF ConnTypes, ConnsInv
<1>8. conns[c].state \in {"asked", "blocked"}
  BY <1>1 DEF ConnsInv, ConnOK
<1>9. ASSUME NEW d \in DOMAIN conns
      PROVE  ConnOK(d)'
  <2>1. d \in queue' <=> conns'[d].state \in {"asked", "blocked"}
    BY <1>1, <1>2, <1>4, <1>5 DEF ConnsInv, ConnOK
  <2>2. conns'[d].state = "asked" => conns'[d].promise = "pending"
    BY <1>2, <1>4, <1>5 DEF ConnsInv, ConnOK
  <2>3. \A e \in conns'[d].told : e \in DOMAIN conns' /\ conns'[e].state \in {"closing", "gone"}
    BY <1>4, <1>5, <1>8 DEF ConnsInv, ConnOK
  <2>4. ASSUME conns'[d].state = "blocked"
        PROVE  /\ conns'[d].promise = "rejected" /\ \A e \in queue' : d <= e
               /\ \A e \in DOMAIN conns' : conns'[e].state # "open"
    <3>1. CASE d = c
      BY <1>1, <1>2, <1>4, <1>5, <2>4, <3>1
    <3>2. CASE d # c
      BY <1>2, <1>4, <1>5, <2>4, <3>2 DEF ConnsInv, ConnOK
    <3> QED BY <3>1, <3>2
  <2> QED BY <2>1, <2>2, <2>3, <2>4 DEF ConnOK
<1>10. ASSUME NEW t \in Tabs, NEW v \in 1 .. MaxVersion
       PROVE  CachedOK(t, v)'
  <2>1. cache[t][v] \in 0 .. Len(conns)
    BY DEF ConnsInv, ConnTypes
  <2> QED BY <1>5, <1>6, <2>1 DEF ConnsInv, CachedOK
<1> QED BY <1>5, <1>7, <1>9, <1>10 DEF ConnsInv

\* A connection that is handed out, or kept open for nobody.
LEMMA OpenedInv ==
  ASSUME DatabaseBounds, ConnsInv, NEW c \in DOMAIN conns, Database!Served(c),
         conns' = [conns EXCEPT ![c] = Database!Opened(c)], queue' = queue \ {c}, cache' = cache,
         version' \in 0 .. MaxVersion, conns[c].state \in {"asked", "blocked"}
  PROVE  ConnsInv' /\ Len(conns') \in Nat /\ DOMAIN conns' = DOMAIN conns
<1> DEFINE r == Database!Opened(c)
<1>1. c \in queue /\ (\A d \in queue : c <= d) /\ c \in Nat
  BY ConnShape DEF Database!Served, ConnsInv
<1>2. conns[c] \in Conn
  BY ConnShape DEF ConnsInv
<1>3. /\ r \in Conn /\ r.tab = conns[c].tab /\ r.version = conns[c].version
      /\ r.told = conns[c].told /\ r.evicted = conns[c].evicted
      /\ r.state \in {"open", "closing"}
      /\ conns[c].promise # "rejected" => r.promise = "resolved"
      /\ conns[c].promise # "rejected" /\ conns[c].evicted = FALSE => r.state = "open"
  BY <1>2 DEF Database!Opened, Conn
<1> HIDE DEF r
<1>4. /\ conns' \in Seq(Conn) /\ Len(conns') = Len(conns) /\ Len(conns) \in Nat
      /\ DOMAIN conns' = DOMAIN conns /\ DOMAIN conns = 1 .. Len(conns)
      /\ \A d \in DOMAIN conns : conns'[d] = IF d = c THEN r ELSE conns[d]
  BY <1>3, OneConn DEF ConnsInv, r
<1>5. ConnTypes'
  BY <1>4 DEF ConnTypes, ConnsInv
<1>6. ASSUME NEW d \in DOMAIN conns
      PROVE  ConnOK(d)'
  <2>1. d \in queue' <=> conns'[d].state \in {"asked", "blocked"}
    BY <1>1, <1>3, <1>4 DEF ConnsInv, ConnOK
  <2>2. conns'[d].state = "asked" => conns'[d].promise = "pending"
    BY <1>3, <1>4 DEF ConnsInv, ConnOK
  <2>3. \A e \in conns'[d].told : e \in DOMAIN conns' /\ conns'[e].state \in {"closing", "gone"}
    BY <1>3, <1>4 DEF ConnsInv, ConnOK
  <2>4. conns'[d].state # "blocked"
    <3>1. SUFFICES ASSUME d # c, conns[d].state = "blocked" PROVE FALSE
      BY <1>3, <1>4
    <3>2. d \in queue /\ d <= c /\ d \in Nat
      BY <1>1, <1>4, <3>1 DEF ConnsInv, ConnOK
    <3> QED BY <1>1, <3>1, <3>2
  <2> QED BY <2>1, <2>2, <2>3, <2>4 DEF ConnOK
<1>7. ASSUME NEW t \in Tabs, NEW v \in 1 .. MaxVersion
      PROVE  CachedOK(t, v)'
  <2>1. cache[t][v] \in 0 .. Len(conns)
    BY DEF ConnsInv, ConnTypes
  <2> QED BY <1>3, <1>4, <2>1 DEF ConnsInv, CachedOK
<1> QED BY <1>4, <1>5, <1>6, <1>7 DEF ConnsInv
LEMMA GoneInv ==
  ASSUME DatabaseBounds, DatabaseInv, NEW c \in DOMAIN conns, Database!Gone(c)
  PROVE  DatabaseInv'
<1> DEFINE r == [conns[c] EXCEPT !.state = "gone"]
<1>1. conns[c] \in Conn /\ ConnsInv
  BY ConnShape DEF ConnsInv, DatabaseInv
<1>2. /\ conns' = [conns EXCEPT ![c] = r] /\ conns[c].state = "closing"
      /\ UNCHANGED <<version, queue, cache, ops, stored>>
  BY DEF Database!Gone
<1>3. /\ r \in Conn /\ r.tab = conns[c].tab /\ r.version = conns[c].version
      /\ r.told = conns[c].told /\ r.state = "gone"
  BY <1>1 DEF Conn
<1> HIDE DEF r
<1>4. /\ conns' \in Seq(Conn) /\ Len(conns') = Len(conns) /\ Len(conns) \in Nat
      /\ DOMAIN conns' = DOMAIN conns /\ DOMAIN conns = 1 .. Len(conns)
      /\ \A d \in DOMAIN conns : conns'[d] = IF d = c THEN r ELSE conns[d]
  BY <1>1, <1>2, <1>3, OneConn DEF ConnsInv
<1>5. ConnTypes'
  BY <1>1, <1>2, <1>4 DEF ConnTypes, ConnsInv
<1>6. ASSUME NEW d \in DOMAIN conns
      PROVE  ConnOK(d)'
  BY <1>1, <1>2, <1>3, <1>4 DEF ConnsInv, ConnOK
<1>7. ASSUME NEW t \in Tabs, NEW v \in 1 .. MaxVersion
      PROVE  CachedOK(t, v)'
  <2>1. cache[t][v] \in 0 .. Len(conns)
    BY <1>1 DEF ConnsInv, ConnTypes
  <2> QED BY <1>1, <1>2, <1>4, <2>1 DEF ConnsInv, CachedOK
<1>8. OpersInv'
  BY <1>2, <1>4 DEF OpersInv, DatabaseInv
<1> QED BY <1>4, <1>5, <1>6, <1>7, <1>8 DEF ConnsInv, DatabaseInv

\* An upgrade tells an open connection, which is closed and leaves its cache.
LEMMA TellInv ==
  ASSUME DatabaseBounds, DatabaseInv, NEW c \in DOMAIN conns, NEW d \in DOMAIN conns,
         Database!Tell(c, d)
  PROVE  DatabaseInv'
<1> DEFINE r == [conns[c] EXCEPT !.told = @ \union {d}]
           e == [conns[d] EXCEPT !.state = "closing"]
           a == conns[d].tab
           b == conns[d].version
<1>1. conns[c] \in Conn /\ conns[d] \in Conn /\ d \in 1 .. MaxConns /\ ConnsInv /\ d # 0
  BY ConnShape DEF ConnsInv, DatabaseInv
<1>2. /\ c \in queue /\ conns[d].state = "open"
      /\ UNCHANGED <<version, queue, ops, stored>> /\ cache' = Database!Uncache(d)
  BY DEF Database!Tell, Database!Raising, Database!Served
<1>3. c # d /\ conns[c].state \in {"asked", "blocked"}
  BY <1>1, <1>2 DEF ConnsInv, ConnOK
<1>4. Database!LetGo(d) = e
  BY <1>2 DEF Database!LetGo, Database!CloseConn
<1>5. conns' = [[conns EXCEPT ![c] = r] EXCEPT ![d] = e]
  BY <1>1, <1>3, <1>4 DEF Database!Tell
<1>6. /\ r \in Conn /\ r.tab = conns[c].tab /\ r.version = conns[c].version /\ r.state = conns[c].state
      /\ r.promise = conns[c].promise /\ r.evicted = conns[c].evicted
      /\ r.told = conns[c].told \union {d}
      /\ e \in Conn /\ e.tab = a /\ e.version = b /\ e.state = "closing"
      /\ e.told = conns[d].told
  BY <1>1 DEF Conn
<1>7. a \in Tabs /\ b \in 1 .. MaxVersion
  BY <1>1 DEF Conn
<1>8. cache' = IF cache[a][b] = d THEN [cache EXCEPT ![a][b] = 0] ELSE cache
  BY <1>2 DEF Database!Uncache
<1> HIDE DEF r, e, a, b
<1>9. /\ conns' \in Seq(Conn) /\ Len(conns') = Len(conns) /\ Len(conns) \in Nat
      /\ DOMAIN conns' = DOMAIN conns /\ DOMAIN conns = 1 .. Len(conns)
      /\ \A x \in DOMAIN conns : conns'[x] = IF x = d THEN e ELSE IF x = c THEN r ELSE conns[x]
  <2>1. conns \in [1 .. Len(conns) -> Conn] /\ Len(conns) \in Nat /\ DOMAIN conns = 1 .. Len(conns)
    BY <1>1, ConnShape DEF ConnsInv
  <2>2. conns' \in [1 .. Len(conns) -> Conn]
    BY <1>5, <1>6, <2>1
  <2>3. \A x \in DOMAIN conns : conns'[x] = IF x = d THEN e ELSE IF x = c THEN r ELSE conns[x]
    BY <1>3, <1>5, <2>1
  <2> QED BY <2>1, <2>2, <2>3, FunctionIsSeq
<1>10. /\ cache' \in [Tabs -> [1 .. MaxVersion -> 0 .. Len(conns)]]
       /\ \A t \in Tabs, v \in 1 .. MaxVersion :
            cache'[t][v] # 0 => cache'[t][v] = cache[t][v] /\ cache[t][v] # d
  <2>1. cache \in [Tabs -> [1 .. MaxVersion -> 0 .. Len(conns)]]
    BY <1>1 DEF ConnsInv, ConnTypes
  <2>2. \A t \in Tabs, v \in 1 .. MaxVersion : cache[t][v] = d => t = a /\ v = b
    BY <1>1 DEF ConnsInv, CachedOK, a, b
  <2>3. CASE cache[a][b] = d
    <3>1. cache' = [cache EXCEPT ![a] = [cache[a] EXCEPT ![b] = 0]]
      BY <1>7, <1>8, <2>1, <2>3
    <3>2. cache' \in [Tabs -> [1 .. MaxVersion -> 0 .. Len(conns)]]
      BY <1>7, <1>9, <2>1, <3>1
    <3>3. \A t \in Tabs, v \in 1 .. MaxVersion :
            cache'[t][v] = IF t = a /\ v = b THEN 0 ELSE cache[t][v]
      BY <1>7, <2>1, <3>1
    <3> QED BY <2>2, <3>2, <3>3
  <2>4. CASE cache[a][b] # d
    BY <1>8, <2>1, <2>2, <2>4
  <2> QED BY <2>3, <2>4
<1>11. ConnTypes'
  BY <1>1, <1>2, <1>9, <1>10 DEF ConnTypes, ConnsInv
<1>12. ASSUME NEW x \in DOMAIN conns
       PROVE  ConnOK(x)'
  <2>1. x \in queue' <=> conns'[x].state \in {"asked", "blocked"}
    BY <1>1, <1>2, <1>3, <1>6, <1>9 DEF ConnsInv, ConnOK
  <2>2. conns'[x].state = "asked" => conns'[x].promise = "pending"
    BY <1>1, <1>3, <1>6, <1>9 DEF ConnsInv, ConnOK
  <2>3. conns'[x].state # "blocked"
    BY <1>1, <1>2, <1>3, <1>6, <1>9 DEF ConnsInv, ConnOK
  <2>4. ASSUME NEW y \in conns'[x].told
        PROVE  y \in DOMAIN conns' /\ conns'[y].state \in {"closing", "gone"}
    <3>1. y = d \/ y \in conns[x].told
      BY <1>6, <1>9, <2>4
    <3> QED BY <1>1, <1>3, <1>6, <1>9, <3>1 DEF ConnsInv, ConnOK
  <2> QED BY <2>1, <2>2, <2>3, <2>4 DEF ConnOK
<1>13. ASSUME NEW t \in Tabs, NEW v \in 1 .. MaxVersion
       PROVE  CachedOK(t, v)'
  <2>1. cache[t][v] \in 0 .. Len(conns)
    BY <1>1 DEF ConnsInv, ConnTypes
  <2> QED BY <1>1, <1>6, <1>9, <1>10, <2>1, SMTT(60) DEF ConnsInv, CachedOK
<1>14. OpersInv'
  BY <1>2, <1>9 DEF OpersInv, DatabaseInv
<1> QED BY <1>9, <1>11, <1>12, <1>13, <1>14 DEF ConnsInv, DatabaseInv

\* A tab goes with its connections and what waits for them.
LEMMA CloseTabInv ==
  ASSUME DatabaseBounds, DatabaseInv, NEW t \in Tabs, Database!CloseTab(t)
  PROVE  DatabaseInv'
<1> DEFINE mine == {c \in DOMAIN conns : conns[c].tab = t}
           P == {o \in DOMAIN ops : ops[o].tab = t /\ ops[o].step \notin {"ok", "failed"}}
<1>1. /\ conns' = [c \in DOMAIN conns |-> IF c \in mine THEN [conns[c] EXCEPT !.state = "gone"]
                                           ELSE conns[c]]
      /\ queue' = queue \ mine
      /\ cache' = [cache EXCEPT ![t] = [v \in 1 .. MaxVersion |-> 0]]
      /\ ops' = [o \in DOMAIN ops |-> IF o \in P THEN [ops[o] EXCEPT !.step = "dropped"] ELSE ops[o]]
      /\ UNCHANGED <<version, stored>>
  BY DEF Database!CloseTab, Database!Conns, Database!Ops, Database!Versions
<1>2. /\ conns \in [1 .. Len(conns) -> Conn] /\ Len(conns) \in Nat /\ DOMAIN conns = 1 .. Len(conns)
      /\ \A c \in DOMAIN conns : conns[c] \in Conn
  BY ConnShape DEF ConnsInv, DatabaseInv
<1>3. ASSUME NEW c \in DOMAIN conns
      PROVE  /\ conns'[c] \in Conn /\ conns'[c].tab = conns[c].tab
             /\ conns'[c].version = conns[c].version /\ conns'[c].promise = conns[c].promise
             /\ conns'[c].evicted = conns[c].evicted /\ conns'[c].told = conns[c].told
             /\ conns'[c].state = IF c \in mine THEN "gone" ELSE conns[c].state
  <2>1. conns[c] \in Conn
    BY <1>2
  <2>2. conns'[c] = IF c \in mine THEN [conns[c] EXCEPT !.state = "gone"] ELSE conns[c]
    BY <1>1
  <2> HIDE DEF mine
  <2> QED BY <2>1, <2>2 DEF Conn
<1>4. conns' \in [1 .. Len(conns) -> Conn]
  BY <1>1, <1>2, <1>3
<1>5. conns' \in Seq(Conn) /\ Len(conns') = Len(conns) /\ DOMAIN conns' = DOMAIN conns
  BY <1>2, <1>4, FunctionIsSeq
<1>6. /\ cache' \in [Tabs -> [1 .. MaxVersion -> 0 .. Len(conns)]]
      /\ \A u \in Tabs, v \in 1 .. MaxVersion :
           cache'[u][v] = IF u = t THEN 0 ELSE cache[u][v]
  BY <1>1, <1>2 DEF DatabaseInv, ConnsInv, ConnTypes
<1>7. ConnTypes'
  BY <1>1, <1>5, <1>6 DEF ConnTypes, ConnsInv, DatabaseInv
<1>8. ASSUME NEW c \in DOMAIN conns
      PROVE  ConnOK(c)'
  <2>1. c \in queue' <=> conns'[c].state \in {"asked", "blocked"}
    BY <1>1, <1>3 DEF DatabaseInv, ConnsInv, ConnOK
  <2>2. conns'[c].state = "asked" => conns'[c].promise = "pending"
    BY <1>3 DEF DatabaseInv, ConnsInv, ConnOK
  <2>3. \A d \in conns'[c].told : d \in DOMAIN conns' /\ conns'[d].state \in {"closing", "gone"}
    BY <1>3, <1>5 DEF DatabaseInv, ConnsInv, ConnOK
  <2>4. ASSUME conns'[c].state = "blocked"
        PROVE  /\ conns'[c].promise = "rejected" /\ \A d \in queue' : c <= d
               /\ \A d \in DOMAIN conns' : conns'[d].state # "open"
    <3>1. conns[c].state = "blocked"
      BY <1>3, <2>4
    <3> QED BY <1>1, <1>3, <1>5, <3>1 DEF DatabaseInv, ConnsInv, ConnOK
  <2> QED BY <2>1, <2>2, <2>3, <2>4 DEF ConnOK
<1>9. ASSUME NEW u \in Tabs, NEW v \in 1 .. MaxVersion
      PROVE  CachedOK(u, v)'
  <2>1. cache[u][v] \in 0 .. Len(conns)
    BY DEF DatabaseInv, ConnsInv, ConnTypes
  <2>2. SUFFICES ASSUME u # t, cache[u][v] # 0 PROVE CachedOK(u, v)'
    BY <1>6 DEF CachedOK
  <2>3. cache'[u][v] = cache[u][v] /\ cache[u][v] \in DOMAIN conns /\ CachedOK(u, v)
    BY <1>2, <1>6, <2>1, <2>2 DEF DatabaseInv, ConnsInv
  <2>4. cache[u][v] \notin mine
    BY <2>2, <2>3 DEF CachedOK
  <2> HIDE DEF mine
  <2> QED BY <1>3, <2>3, <2>4 DEF CachedOK
<1>10. OpersInv'
  <2>1. P \subseteq DOMAIN ops /\ \A o \in P : ops[o].step # "ok"
    OBVIOUS
  <2> HIDE DEF P
  <2> QED BY <1>1, <1>2, <1>5, <2>1, FailingKeeps DEF DatabaseInv
<1> QED BY <1>5, <1>7, <1>8, <1>9, <1>10 DEF ConnsInv, DatabaseInv
-----------------------------
(* Opening.                                                                *)

\* Another operation waits for a connection.
LEMMA AskedOpers ==
  ASSUME DatabaseBounds, DatabaseInv, NEW t \in Tabs, NEW c \in 1 .. MaxConns,
         ops' = Append(ops, [tab |-> t, conn |-> c, step |-> "waiting"]),
         stored' = stored, DOMAIN conns \subseteq DOMAIN conns', c \in DOMAIN conns'
  PROVE  OpersInv'
<1> DEFINE e == [tab |-> t, conn |-> c, step |-> "waiting"]
           n == Len(ops)
<1>1. e \in Oper /\ e.conn = c /\ e.step = "waiting"
  BY DEF Oper
<1>2. n \in Nat /\ DOMAIN ops = 1 .. n /\ ops \in Seq(Oper)
  BY OperShape DEF OpersInv, DatabaseInv
<1> HIDE DEF e
<1>3. ops' = Append(ops, e)
  BY DEF e
<1>4. /\ ops' \in Seq(Oper) /\ Len(ops') = n + 1
      /\ \A o \in 1 .. n : ops'[o] = ops[o]
      /\ ops'[n + 1] = e
  BY <1>1, <1>2, <1>3, AppendProperties
<1>5. DOMAIN ops' = 1 .. (n + 1)
  BY <1>4, LenProperties
<1> HIDE DEF n
<1>6. \A o \in DOMAIN ops' : (o \in DOMAIN ops /\ ops'[o] = ops[o]) \/ (o = n + 1 /\ ops'[o] = e)
  BY <1>2, <1>4, <1>5
<1>7. n + 1 \notin DOMAIN ops /\ DOMAIN ops \subseteq DOMAIN ops'
  BY <1>2, <1>5
<1> QED BY <1>1, <1>4, <1>6, <1>7 DEF OpersInv, DatabaseInv

LEMMA AskCachedInv ==
  ASSUME DatabaseBounds, DatabaseInv, NEW t \in Tabs, NEW v \in 1 .. MaxVersion,
         cache[t][v] # 0, Database!Ask(t, v)
  PROVE  DatabaseInv'
<1>1. /\ ops' = Append(ops, [tab |-> t, conn |-> cache[t][v], step |-> "waiting"])
      /\ UNCHANGED <<version, conns, queue, cache, stored>>
  BY DEF Database!Ask
<1>2. cache[t][v] \in DOMAIN conns /\ cache[t][v] \in 1 .. MaxConns
  <2>1. cache[t][v] \in 0 .. Len(conns)
    BY DEF DatabaseInv, ConnsInv, ConnTypes
  <2> QED BY <2>1, ConnShape DEF DatabaseInv, ConnsInv
<1> QED BY <1>1, <1>2, ConnsSame, AskedOpers DEF DatabaseInv

\* CloseConn() leaves a connection that is not open where it is.
LEMMA CloseConnKeeps ==
  ASSUME NEW c \in Conn
  PROVE  /\ Database!CloseConn(c) \in Conn /\ Database!CloseConn(c).tab = c.tab
         /\ Database!CloseConn(c).version = c.version /\ Database!CloseConn(c).promise = c.promise
         /\ Database!CloseConn(c).told = c.told
         /\ Database!CloseConn(c).state = IF c.state = "open" THEN "closing" ELSE c.state
BY DEF Database!CloseConn, Conn

LEMMA AskNewInv ==
  ASSUME DatabaseBounds, DatabaseInv, NEW t \in Tabs, NEW v \in 1 .. MaxVersion,
         cache[t][v] = 0, Database!Ask(t, v)
  PROVE  DatabaseInv'
<1> DEFINE n == Len(conns)
           c == n + 1
           old == Database!Evicted(t, v)
           new == [tab |-> t, version |-> v, state |-> "asked", promise |-> "pending",
                   evicted |-> FALSE, told |-> {}]
           kept == [d \in DOMAIN conns |-> IF d \in old THEN Database!CloseConn(conns[d]) ELSE conns[d]]
<1>1. /\ ops' = Append(ops, [tab |-> t, conn |-> c, step |-> "waiting"])
      /\ n < MaxConns /\ conns' = Append(kept, new) /\ queue' = queue \union {c}
      /\ cache' = [cache EXCEPT ![t] = [u \in 1 .. MaxVersion |-> IF u = v THEN c ELSE 0]]
      /\ UNCHANGED <<version, stored>>
  BY DEF Database!Ask, Database!Conns, Database!Versions
<1>2. /\ conns \in [1 .. n -> Conn] /\ n \in Nat /\ DOMAIN conns = 1 .. n
      /\ \A d \in DOMAIN conns : conns[d] \in Conn
  BY ConnShape DEF ConnsInv, DatabaseInv
<1>3. /\ new \in Conn /\ new.tab = t /\ new.version = v /\ new.state = "asked"
      /\ new.promise = "pending" /\ new.evicted = FALSE /\ new.told = {}
  BY DEF Conn
<1>4. \A d \in old : d \in DOMAIN conns => conns[d].tab = t
  BY DEF Database!Evicted, Database!Versions, DatabaseInv, ConnsInv, CachedOK
<1> HIDE DEF new, old
<1>5. ASSUME NEW d \in DOMAIN conns
      PROVE  /\ kept[d] \in Conn /\ kept[d].tab = conns[d].tab
             /\ kept[d].version = conns[d].version /\ kept[d].promise = conns[d].promise
             /\ kept[d].told = conns[d].told
             /\ kept[d].state = conns[d].state \/ (conns[d].state = "open" /\ kept[d].state = "closing")
             /\ d \notin old => kept[d] = conns[d]
  <2>1. conns[d] \in Conn
    BY <1>2
  <2>2. kept[d] = IF d \in old THEN Database!CloseConn(conns[d]) ELSE conns[d]
    OBVIOUS
  <2> HIDE DEF kept
  <2> QED BY <2>1, <2>2, CloseConnKeeps
<1>6. kept \in [1 .. n -> Conn]
  BY <1>2, <1>5
<1> HIDE DEF kept
<1>7. kept \in Seq(Conn) /\ Len(kept) = n
  BY <1>2, <1>6, FunctionIsSeq
<1>8. /\ conns' \in Seq(Conn) /\ Len(conns') = c
      /\ \A d \in 1 .. n : conns'[d] = kept[d]
      /\ conns'[c] = new
  BY <1>1, <1>3, <1>7, AppendProperties
<1>9. DOMAIN conns' = 1 .. c
  BY <1>8, LenProperties
<1>10. /\ c \in 1 .. MaxConns /\ c \notin DOMAIN conns /\ DOMAIN conns' = DOMAIN conns \union {c}
       /\ \A d \in DOMAIN conns : d < c
  BY <1>1, <1>2, <1>9 DEF DatabaseBounds
<1>11. /\ cache' \in [Tabs -> [1 .. MaxVersion -> 0 .. c]]
       /\ \A u \in Tabs, w \in 1 .. MaxVersion :
            cache'[u][w] = IF u = t THEN (IF w = v THEN c ELSE 0) ELSE cache[u][w]
  <2>1. cache \in [Tabs -> [1 .. MaxVersion -> 0 .. n]] /\ 0 .. n \subseteq 0 .. c /\ c \in 0 .. c
    BY <1>2 DEF DatabaseInv, ConnsInv, ConnTypes
  <2>2. cache \in [Tabs -> [1 .. MaxVersion -> 0 .. c]]
    BY <2>1
  <2> QED BY <1>1, <1>2, <2>1, <2>2
<1>12. n < MaxConns /\ queue \subseteq DOMAIN conns
  BY <1>1 DEF DatabaseInv, ConnsInv, ConnTypes
<1>13. c # 0
  BY <1>10
<1> HIDE DEF c
<1>14. ConnTypes'
  <2>1. Len(conns') <= MaxConns
    BY <1>8, <1>10
  <2> QED BY <1>1, <1>8, <1>10, <1>11, <1>12, <2>1 DEF ConnTypes, DatabaseInv, ConnsInv
<1>15. ASSUME NEW d \in DOMAIN conns'
       PROVE  ConnOK(d)'
  <2>1. CASE d = c
    BY <1>1, <1>3, <1>8, <2>1 DEF ConnOK
  <2>2. CASE d \in DOMAIN conns
    <3>1. conns'[d] = kept[d] /\ d # c
      BY <1>2, <1>8, <1>10, <2>2
    <3>2. d \in queue' <=> conns'[d].state \in {"asked", "blocked"}
      BY <1>1, <1>5, <2>2, <3>1 DEF DatabaseInv, ConnsInv, ConnOK
    <3>3. conns'[d].state = "asked" => conns'[d].promise = "pending"
      BY <1>5, <2>2, <3>1 DEF DatabaseInv, ConnsInv, ConnOK
    <3>4. ASSUME NEW e \in conns'[d].told
          PROVE  e \in DOMAIN conns' /\ conns'[e].state \in {"closing", "gone"}
      <4>1. e \in DOMAIN conns /\ conns[e].state \in {"closing", "gone"}
        BY <1>5, <2>2, <3>1, <3>4 DEF DatabaseInv, ConnsInv, ConnOK
      <4> QED BY <1>2, <1>5, <1>8, <1>10, <4>1
    <3>5. ASSUME conns'[d].state = "blocked"
          PROVE  /\ conns'[d].promise = "rejected" /\ \A e \in queue' : d <= e
                 /\ \A e \in DOMAIN conns' : conns'[e].state # "open"
      <4>1. conns[d].state = "blocked"
        BY <1>5, <2>2, <3>1, <3>5
      <4>2. /\ conns[d].promise = "rejected" /\ \A e \in queue : d <= e
            /\ \A e \in DOMAIN conns : conns[e].state # "open"
        BY <2>2, <4>1 DEF DatabaseInv, ConnsInv, ConnOK
      <4>3. \A e \in queue' : d <= e
        BY <1>1, <1>2, <1>10, <2>2, <4>2
      <4>4. ASSUME NEW e \in DOMAIN conns'
            PROVE  conns'[e].state # "open"
        <5>1. CASE e = c
          BY <1>3, <1>8, <5>1
        <5>2. CASE e \in DOMAIN conns
          BY <1>2, <1>5, <1>8, <4>2, <5>2
        <5> QED BY <1>10, <5>1, <5>2
      <4> QED BY <1>5, <2>2, <3>1, <4>2, <4>3, <4>4
    <3> QED BY <3>2, <3>3, <3>4, <3>5 DEF ConnOK
  <2> QED BY <1>10, <2>1, <2>2
<1>16. ASSUME NEW u \in Tabs, NEW w \in 1 .. MaxVersion
       PROVE  CachedOK(u, w)'
  <2>1. CASE u = t
    BY <1>3, <1>8, <1>11, <2>1 DEF CachedOK
  <2>2. CASE u # t /\ cache[u][w] # 0
    <3>1. cache[u][w] \in DOMAIN conns /\ CachedOK(u, w) /\ cache'[u][w] = cache[u][w]
      <4>1. cache[u][w] \in 0 .. n
        BY DEF DatabaseInv, ConnsInv, ConnTypes
      <4>2. cache[u][w] \in DOMAIN conns
        BY <1>2, <2>2, <4>1
      <4>3. CachedOK(u, w)
        BY DEF DatabaseInv, ConnsInv
      <4> QED BY <1>11, <2>2, <4>2, <4>3
    <3>2. cache[u][w] \notin old
      BY <1>4, <2>2, <3>1 DEF CachedOK
    <3>3. conns'[cache[u][w]] = conns[cache[u][w]]
      BY <1>2, <1>5, <1>8, <3>1, <3>2
    <3> QED BY <3>1, <3>3 DEF CachedOK
  <2>3. CASE u # t /\ cache[u][w] = 0
    BY <1>11, <2>3 DEF CachedOK
  <2> QED BY <2>1, <2>2, <2>3
<1>17. OpersInv'
  BY <1>1, <1>10, AskedOpers
<1> QED BY <1>14, <1>15, <1>16, <1>17 DEF ConnsInv, DatabaseInv

\* Nothing that waits for a connection is stored when that is refused.
LEMMA FailingInv ==
  ASSUME DatabaseBounds, DatabaseInv, NEW c \in DOMAIN conns, ops' = Database!Failing(c),
         stored' = stored, Len(conns') \in Nat, DOMAIN conns' = DOMAIN conns
  PROVE  OpersInv'
<1> DEFINE P == {o \in DOMAIN ops : ops[o].conn = c /\ ops[o].step = "waiting"}
<1>1. ops' = [o \in DOMAIN ops |-> IF o \in P THEN [ops[o] EXCEPT !.step = "failed"] ELSE ops[o]]
  BY DEF Database!Failing, Database!Ops
<1>2. P \subseteq DOMAIN ops /\ \A o \in P : ops[o].step # "ok"
  OBVIOUS
<1> HIDE DEF P
<1> QED BY <1>1, <1>2, FailingKeeps DEF DatabaseInv

LEMMA RejectIs ==
  ASSUME DatabaseBounds, DatabaseInv, NEW c \in DOMAIN conns, NEW s, Database!Reject(c, s)
  PROVE  Refused(c, s) /\ ops' = Database!Failing(c)
<1>1. conns \in [1 .. Len(conns) -> Conn] /\ DOMAIN conns = 1 .. Len(conns)
  BY ConnShape DEF DatabaseInv, ConnsInv
<1> QED BY <1>1 DEF Database!Reject, Refused

LEMMA ServeInv ==
  ASSUME DatabaseBounds, DatabaseInv, NEW c \in DOMAIN conns,
         Database!OpenSame(c) \/ Database!OpenOlder(c) \/ Database!Blocked(c) \/ Database!Upgrade(c)
  PROVE  DatabaseInv'
<1>1. conns[c] \in Conn /\ ConnsInv
  BY ConnShape DEF DatabaseInv, ConnsInv
<1>2. stored' = stored /\ Database!Served(c)
  BY DEF Database!OpenSame, Database!OpenOlder, Database!Blocked, Database!Upgrade, Database!Raising
<1>3. ASSUME conns' = [conns EXCEPT ![c] = Database!Opened(c)], queue' = queue \ {c}, cache' = cache,
             version' \in 0 .. MaxVersion, conns[c].state \in {"asked", "blocked"}, ops' = ops
      PROVE  DatabaseInv'
  <2>1. ConnsInv' /\ Len(conns') \in Nat /\ DOMAIN conns' = DOMAIN conns
    BY <1>1, <1>2, <1>3, OpenedInv
  <2>2. OpersInv'
    BY <1>2, <1>3, <2>1 DEF OpersInv, DatabaseInv
  <2> QED BY <2>1, <2>2 DEF DatabaseInv
<1>4. ASSUME Database!Reject(c, "gone"), queue' = queue \ {c}, version' = version
      PROVE  DatabaseInv'
  <2>1. Refused(c, "gone") /\ ops' = Database!Failing(c)
    BY <1>4, RejectIs
  <2>2. ConnsInv' /\ Len(conns') \in Nat /\ DOMAIN conns' = DOMAIN conns
    BY <1>1, <1>2, <1>4, <2>1, RefusedInv
  <2> QED BY <1>2, <2>1, <2>2, FailingInv DEF DatabaseInv
<1>5. CASE Database!OpenSame(c)
  <2>1. version' \in 0 .. MaxVersion
    BY <1>5 DEF Database!OpenSame, DatabaseInv, ConnsInv, ConnTypes
  <2> QED BY <1>3, <1>5, <2>1 DEF Database!OpenSame
<1>6. CASE Database!OpenOlder(c)
  BY <1>4, <1>6 DEF Database!OpenOlder
<1>7. CASE Database!Blocked(c)
  <2>1. Refused(c, "blocked") /\ ops' = Database!Failing(c) /\ queue' = queue /\ version' = version
    BY <1>7, RejectIs DEF Database!Blocked
  <2>2. ASSUME NEW d \in DOMAIN conns
        PROVE  conns[d].state # "open"
    BY <1>1, <1>7 DEF Database!Blocked, Database!Conns, ConnsInv, ConnOK
  <2>3. ConnsInv' /\ Len(conns') \in Nat /\ DOMAIN conns' = DOMAIN conns
    BY <1>1, <1>2, <2>1, <2>2, RefusedInv
  <2> QED BY <1>2, <2>1, <2>3, FailingInv DEF DatabaseInv
<1>8. CASE Database!Upgrade(c)
  <2>1. queue' = queue \ {c} /\ conns[c].state \in {"asked", "blocked"}
    BY <1>8 DEF Database!Upgrade
  <2>2. conns[c].version \in 0 .. MaxVersion
    BY <1>1 DEF Conn
  <2>3. \/ /\ version' = conns[c].version /\ conns' = [conns EXCEPT ![c] = Database!Opened(c)]
           /\ UNCHANGED <<cache, ops>>
        \/ Database!Reject(c, "gone") /\ version' = version
    BY <1>8 DEF Database!Upgrade
  <2> QED BY <1>3, <1>4, <2>1, <2>2, <2>3
<1> QED BY <1>5, <1>6, <1>7, <1>8

LEMMA DatabaseStep ==
  ASSUME DatabaseBounds, DatabaseInv, [Database!Next]_(Database!vars)
  PROVE  DatabaseInv'
<1>1. ASSUME NEW t \in Tabs, NEW v \in Database!Versions, Database!Ask(t, v)
      PROVE  DatabaseInv'
  BY <1>1, AskCachedInv, AskNewInv DEF Database!Versions
<1>2. CASE Database!Next
  BY <1>1, <1>2, ServeInv, GoneInv, TellInv, OperationInv, CloseTabInv
     DEF Database!Next, Database!Conns, Database!Ops
<1>3. CASE UNCHANGED Database!vars
  <2>1. UNCHANGED <<version, conns, queue, cache, ops, stored>>
    BY <1>3 DEF Database!vars
  <2>2. OpersInv'
    BY <2>1 DEF DatabaseInv, OpersInv
  <2> QED BY <2>1, <2>2, ConnsSame DEF DatabaseInv
<1> QED BY <1>2, <1>3

LEMMA DatabaseSpecInv ==
  ASSUME DatabaseBounds
  PROVE  Database!Spec => []DatabaseInv
BY DatabaseInitially, DatabaseStep, PTL DEF Database!Spec

\* Whatever tabs open, upgrade, fail and close, connections, caches and
\* operations are whole, and point at each other.
THEOREM DatabaseTyped ==
  ASSUME DatabaseBounds
  PROVE  Database!Spec => []Database!TypeOK
<1>1. ASSUME DatabaseInv
      PROVE  Database!TypeOK
  <2>1. /\ \A o \in DOMAIN ops : ops[o] \in
             [tab : Tabs, conn : DOMAIN conns,
              step : {"waiting", "inside", "done", "ok", "failed", "dropped"}]
        /\ stored \subseteq DOMAIN ops
    BY <1>1, OperShape DEF DatabaseInv, OpersInv, Oper
  <2>2. Conn = Database!ConnSet
    BY DEF Conn, Database!ConnSet, Database!Versions
  <2> QED BY <1>1, <2>1, <2>2
          DEF Database!TypeOK, Database!Conns, Database!Ops, Database!Versions, DatabaseInv, ConnsInv, ConnTypes
<1> QED BY <1>1, DatabaseSpecInv, PTL

\* An operation of the database is answered with success exactly when its
\* transaction was committed, whatever upgrades, failures and closings come in
\* between (idbStore.js).
THEOREM AnswersTrue ==
  ASSUME DatabaseBounds
  PROVE  Database!Spec => []Database!AnswerIsTruth
<1>1. DatabaseInv => Database!AnswerIsTruth
  BY DEF DatabaseInv, OpersInv, Database!AnswerIsTruth, Database!Ops
<1> QED BY <1>1, DatabaseSpecInv, PTL

\* No tab has a connection in its cache that was closed or refused.
THEOREM CachedUsable ==
  ASSUME DatabaseBounds
  PROVE  Database!Spec => []Database!CachedIsUsable
<1>1. DatabaseInv => Database!CachedIsUsable
  BY DEF DatabaseInv, ConnsInv, CachedOK, Database!CachedIsUsable, Database!Versions
<1> QED BY <1>1, DatabaseSpecInv, PTL

\* An upgrade waits for no connection that nobody closes: each was told, and
\* has at most a transaction to end.
THEOREM UpgradesWaitForWork ==
  ASSUME DatabaseBounds
  PROVE  Database!Spec => []Database!UpgradeWaitsForWork
<1>1. DatabaseInv => Database!UpgradeWaitsForWork
  BY DEF DatabaseInv, ConnsInv, ConnOK, Database!UpgradeWaitsForWork, Database!Conns
<1> QED BY <1>1, DatabaseSpecInv, PTL
-----------------------------
(* The switches that a download page sees (AutomationSettings).            *)
VARIABLES core, mirror, enabled, terminal, lastReadSucceeded, made, chosen, served

Switches == INSTANCE AutomationSettings

SwitchBounds == MaxOps \in Nat /\ MaxFaults \in Nat

SwitchTypes ==
  /\ core \in [enabled : BOOLEAN, host : Switches!Choice] /\ mirror \in Switches!Mirror
  /\ enabled \in BOOLEAN /\ terminal \in BOOLEAN /\ lastReadSucceeded \in BOOLEAN /\ served \in BOOLEAN
  /\ made \in 0 .. MaxOps /\ DOMAIN ops \subseteq 1 .. made
  /\ faults \in 0 .. MaxFaults /\ chosen \subseteq Switches!Choice

\* A command that writes the settings was answered, or an answer came before.
\* A change of the switch alone keeps what the record had of the settings.
Answered(op, answer) ==
  /\ op.step = "begin" => op.full = FALSE
  /\ op.step \in {"mirror", "write"} /\ op.full = TRUE => answer = TRUE
  /\ op.base.needs = FALSE => answer = TRUE

SwitchInv ==
  /\ SwitchTypes
  /\ lastReadSucceeded = TRUE => served = TRUE
  /\ mirror.needs = FALSE => served = TRUE
  /\ \A i \in DOMAIN ops : ops[i] \in Switches!Op /\ Answered(ops[i], served)

LEMMA SwitchInitially ==
  ASSUME SwitchBounds, Switches!Init
  PROVE  SwitchInv
<1>1. /\ core \in [enabled : {TRUE}, host : Switches!Choice]
      /\ mirror \in {[enabled |-> TRUE, host |-> core.host, needs |-> FALSE],
                     [enabled |-> TRUE, host |-> "on", needs |-> TRUE]}
      /\ enabled = TRUE /\ terminal = FALSE /\ lastReadSucceeded = FALSE
      /\ made = 0 /\ faults = 0 /\ chosen = {core.host} /\ served = ~mirror.needs
      /\ DOMAIN ops = {}
  BY DEF Switches!Init
<1>2. core.host \in Switches!Choice /\ "on" \in Switches!Choice
  BY <1>1 DEF Switches!Choice
<1>3. core \in [enabled : BOOLEAN, host : Switches!Choice] /\ chosen \subseteq Switches!Choice
  BY <1>1, <1>2
<1>4. mirror \in Switches!Mirror
  <2>1. ASSUME NEW h \in Switches!Choice, NEW n \in BOOLEAN
        PROVE  [enabled |-> TRUE, host |-> h, needs |-> n] \in Switches!Mirror
    BY DEF Switches!Mirror
  <2>2. /\ [enabled |-> TRUE, host |-> core.host, needs |-> FALSE] \in Switches!Mirror
        /\ [enabled |-> TRUE, host |-> "on", needs |-> TRUE] \in Switches!Mirror
    BY <1>2, <2>1
  <2> QED BY <1>1, <2>2
<1>5. enabled \in BOOLEAN /\ terminal \in BOOLEAN /\ lastReadSucceeded \in BOOLEAN /\ served \in BOOLEAN
  BY <1>1, Zenon
<1>6. made \in 0 .. MaxOps /\ faults \in 0 .. MaxFaults /\ DOMAIN ops \subseteq 1 .. made
  BY <1>1 DEF SwitchBounds
<1>7. lastReadSucceeded = TRUE => served = TRUE
  BY <1>1
<1>8. mirror.needs = FALSE => served = TRUE
  BY <1>1
<1> QED BY <1>1, <1>3, <1>4, <1>5, <1>6, <1>7, <1>8 DEF SwitchInv, SwitchTypes

\* One command goes on, or ends.
LEMMA OneGoes ==
  ASSUME SwitchInv, NEW i \in DOMAIN ops, NEW op \in Switches!Op, Switches!Goes(i, op),
         Answered(op, served'), served = TRUE => served' = TRUE
  PROVE  /\ DOMAIN ops' \subseteq DOMAIN ops
         /\ \A j \in DOMAIN ops' : ops'[j] \in Switches!Op /\ Answered(ops'[j], served')
<1>1. \A j \in DOMAIN ops : ops[j] \in Switches!Op /\ Answered(ops[j], served')
  BY DEF SwitchInv, Answered
<1>2. CASE op.step = "done"
  BY <1>1, <1>2 DEF Switches!Goes
<1>3. CASE op.step # "done"
  <2>1. ops' = [ops EXCEPT ![i] = op]
    BY <1>3 DEF Switches!Goes
  <2>2. DOMAIN ops' = DOMAIN ops /\ \A j \in DOMAIN ops : ops'[j] = IF j = i THEN op ELSE ops[j]
    BY <2>1
  <2> QED BY <1>1, <2>2
<1> QED BY <1>2, <1>3

\* What a step of one command must leave.
LEMMA OpStep ==
  ASSUME SwitchBounds, SwitchInv, NEW i \in DOMAIN ops, NEW op \in Switches!Op, Switches!Goes(i, op),
         Answered(op, served'), served = TRUE => served' = TRUE, served' \in BOOLEAN,
         core' \in [enabled : BOOLEAN, host : Switches!Choice], mirror' \in Switches!Mirror,
         UNCHANGED <<enabled, terminal, chosen, made>>, lastReadSucceeded' \in BOOLEAN,
         faults' \in 0 .. MaxFaults,
         lastReadSucceeded' = TRUE => served' = TRUE, mirror'.needs = FALSE => served' = TRUE
  PROVE  SwitchInv'
<1>1. /\ DOMAIN ops' \subseteq DOMAIN ops
      /\ \A j \in DOMAIN ops' : ops'[j] \in Switches!Op /\ Answered(ops'[j], served')
  BY OneGoes
<1>2. SwitchTypes'
  BY <1>1 DEF SwitchInv, SwitchTypes
<1> QED BY <1>1, <1>2 DEF SwitchInv

LEMMA OpParts ==
  ASSUME SwitchInv, NEW i \in DOMAIN ops
  PROVE  /\ ops[i] \in Switches!Op /\ Answered(ops[i], served)
         /\ ops[i].base \in Switches!Mirror /\ ops[i].full \in BOOLEAN /\ ops[i].switch \in BOOLEAN
         /\ ops[i].got \in Switches!Choice
         /\ Switches!AfterSwitch(i) \in {"get", "done"}
BY DEF SwitchInv, Switches!Op, Switches!AfterSwitch

LEMMA FaultCounts ==
  ASSUME SwitchBounds, SwitchInv, Switches!Fault
  PROVE  faults' \in 0 .. MaxFaults
BY DEF Switches!Fault, SwitchInv, SwitchTypes, SwitchBounds

LEMMA CommandInv ==
  ASSUME SwitchBounds, SwitchInv, NEW kind \in {"enable", "disable", "refresh"}, Switches!Command(kind)
  PROVE  SwitchInv'
<1> DEFINE op == [kind |-> kind, step |-> IF kind = "refresh" THEN "get" ELSE "begin",
                  full |-> kind = "refresh", got |-> "on", switch |-> FALSE, base |-> mirror]
<1>1. /\ made' = made + 1 /\ made < MaxOps
      /\ ops' = [j \in DOMAIN ops \union {made'} |-> IF j = made' THEN op ELSE ops[j]]
      /\ UNCHANGED <<core, mirror, terminal, faults, chosen, served>>
  BY DEF Switches!Command
<1>2. enabled' \in BOOLEAN
  BY DEF Switches!Command, SwitchInv, SwitchTypes
<1>3. lastReadSucceeded' = (lastReadSucceeded /\ kind # "refresh")
  BY DEF Switches!Command
<1>4. op \in Switches!Op
  BY DEF Switches!Op, Switches!Steps, Switches!Choice, SwitchInv, SwitchTypes
<1>5. Answered(op, served)
  BY DEF Answered, SwitchInv
<1>6. made' \in 0 .. MaxOps /\ made' \in 1 .. made' /\ 1 .. made \subseteq 1 .. made'
  BY <1>1 DEF SwitchInv, SwitchTypes, SwitchBounds
<1> HIDE DEF op
<1>7. /\ DOMAIN ops' = DOMAIN ops \union {made'}
      /\ \A j \in DOMAIN ops' : ops'[j] = IF j = made' THEN op ELSE ops[j]
  BY <1>1
<1>8. lastReadSucceeded' \in BOOLEAN /\ (lastReadSucceeded' = TRUE => served' = TRUE)
  BY <1>1, <1>3 DEF SwitchInv, SwitchTypes
<1>9. SwitchTypes'
  BY <1>1, <1>2, <1>6, <1>7, <1>8 DEF SwitchInv, SwitchTypes
<1>10. \A j \in DOMAIN ops' : ops'[j] \in Switches!Op /\ Answered(ops'[j], served')
  BY <1>1, <1>4, <1>5, <1>7 DEF SwitchInv
<1> QED BY <1>1, <1>8, <1>9, <1>10 DEF SwitchInv

LEMMA SwitchedInv ==
  ASSUME SwitchBounds, SwitchInv, NEW i \in DOMAIN ops,
         Switches!SwitchStored(i) \/ Switches!SwitchRefused(i)
  PROVE  SwitchInv'
<1>1. CASE Switches!SwitchStored(i)
  <2> DEFINE b == (ops[i].kind = "enable")
             op == [ops[i] EXCEPT !.step = "mirror", !.switch = b]
  <2>1. /\ ops[i].step = "begin" /\ core' = [core EXCEPT !.enabled = b] /\ Switches!Goes(i, op)
        /\ UNCHANGED <<mirror, enabled, terminal, lastReadSucceeded, faults, chosen, served, made>>
    BY <1>1 DEF Switches!SwitchStored
  <2>2. b \in BOOLEAN
    OBVIOUS
  <2> HIDE DEF b
  <2>3. core' \in [enabled : BOOLEAN, host : Switches!Choice]
    BY <2>1, <2>2 DEF SwitchInv, SwitchTypes
  <2>4. op \in Switches!Op /\ op.step = "mirror" /\ op.full = ops[i].full /\ op.base = ops[i].base
    BY <2>2, OpParts DEF Switches!Op, Switches!Steps
  <2> HIDE DEF op
  <2>5. Answered(op, served')
    BY <2>1, <2>4, OpParts DEF Answered
  <2> QED BY <2>1, <2>3, <2>4, <2>5, OpStep DEF SwitchInv, SwitchTypes
<1>2. CASE Switches!SwitchRefused(i)
  <2> DEFINE s == Switches!AfterSwitch(i)
             op == [ops[i] EXCEPT !.step = s, !.full = TRUE]
  <2>1. /\ Switches!Goes(i, op) /\ Switches!Fault
        /\ lastReadSucceeded' = (lastReadSucceeded /\ ~enabled)
        /\ UNCHANGED <<core, mirror, enabled, terminal, chosen, served, made>>
    BY <1>2 DEF Switches!SwitchRefused
  <2>2. s \in {"get", "done"}
    BY OpParts
  <2> HIDE DEF s
  <2>3. op \in Switches!Op /\ op.step = s /\ op.base = ops[i].base
    BY <2>2, OpParts DEF Switches!Op, Switches!Steps
  <2> HIDE DEF op
  <2>4. Answered(op, served')
    BY <2>1, <2>2, <2>3, OpParts DEF Answered
  <2>5. lastReadSucceeded' \in BOOLEAN /\ (lastReadSucceeded' = TRUE => served' = TRUE)
    BY <2>1 DEF SwitchInv, SwitchTypes
  <2> QED BY <2>1, <2>3, <2>4, <2>5, FaultCounts, OpStep DEF SwitchInv, SwitchTypes
<1> QED BY <1>1, <1>2

LEMMA SettingsInv ==
  ASSUME SwitchBounds, SwitchInv, NEW i \in DOMAIN ops,
         Switches!SettingsAnswered(i) \/ Switches!SettingsRefused(i)
  PROVE  SwitchInv'
<1>1. CASE Switches!SettingsAnswered(i)
  <2> DEFINE op == [ops[i] EXCEPT !.step = "mirror", !.got = core.host, !.switch = enabled]
  <2>1. /\ lastReadSucceeded' = TRUE /\ served' = TRUE /\ Switches!Goes(i, op)
        /\ UNCHANGED <<core, mirror, enabled, terminal, faults, chosen, made>>
    BY <1>1 DEF Switches!SettingsAnswered
  <2>2. core.host \in Switches!Choice /\ enabled \in BOOLEAN
    BY DEF SwitchInv, SwitchTypes
  <2>3. op \in Switches!Op /\ op.step = "mirror"
    BY <2>2, OpParts DEF Switches!Op, Switches!Steps
  <2> HIDE DEF op
  <2>4. Answered(op, served')
    BY <2>1, <2>3 DEF Answered
  <2> QED BY <2>1, <2>3, <2>4, OpStep DEF SwitchInv, SwitchTypes
<1>2. CASE Switches!SettingsRefused(i)
  <2> DEFINE s == IF lastReadSucceeded THEN "mirror" ELSE "done"
             op == [ops[i] EXCEPT !.step = s, !.got = "on", !.switch = enabled]
  <2>1. /\ Switches!Fault /\ Switches!Goes(i, op)
        /\ UNCHANGED <<core, mirror, enabled, terminal, lastReadSucceeded, chosen, served, made>>
    BY <1>2 DEF Switches!SettingsRefused
  <2>2. enabled \in BOOLEAN /\ "on" \in Switches!Choice /\ lastReadSucceeded \in BOOLEAN
    BY DEF SwitchInv, SwitchTypes, Switches!Choice
  <2>3. s = "done" \/ (s = "mirror" /\ served = TRUE)
    BY <2>2 DEF SwitchInv
  <2> HIDE DEF s
  <2>4. op \in Switches!Op /\ op.step = s /\ op.base = ops[i].base
    BY <2>2, <2>3, OpParts DEF Switches!Op, Switches!Steps
  <2> HIDE DEF op
  <2>5. Answered(op, served')
    BY <2>1, <2>3, <2>4, OpParts DEF Answered
  <2> QED BY <2>1, <2>4, <2>5, FaultCounts, OpStep DEF SwitchInv, SwitchTypes
<1> QED BY <1>1, <1>2

LEMMA MirrorReadInv ==
  ASSUME SwitchBounds, SwitchInv, NEW i \in DOMAIN ops, Switches!MirrorRead(i)
  PROVE  SwitchInv'
<1> DEFINE op == [ops[i] EXCEPT !.step = "write", !.base = mirror]
<1>1. /\ ops[i].step = "mirror" /\ Switches!Goes(i, op)
      /\ UNCHANGED <<core, mirror, enabled, terminal, lastReadSucceeded, faults, chosen, served, made>>
  BY DEF Switches!MirrorRead
<1>2. op \in Switches!Op /\ op.step = "write" /\ op.full = ops[i].full /\ op.base = mirror
  BY OpParts DEF Switches!Op, Switches!Steps, SwitchInv, SwitchTypes
<1> HIDE DEF op
<1>3. Answered(op, served')
  BY <1>1, <1>2, OpParts DEF Answered, SwitchInv
<1> QED BY <1>1, <1>2, <1>3, OpStep DEF SwitchInv, SwitchTypes

LEMMA MirrorEndInv ==
  ASSUME SwitchBounds, SwitchInv, NEW i \in DOMAIN ops,
         Switches!MirrorWritten(i) \/ Switches!MirrorRefused(i)
  PROVE  SwitchInv'
<1> DEFINE s == IF ops[i].full THEN "done" ELSE Switches!AfterSwitch(i)
           op == [ops[i] EXCEPT !.step = s, !.full = TRUE]
<1>1. /\ ops[i].step = "write" /\ Switches!Goes(i, op)
      /\ lastReadSucceeded' = (lastReadSucceeded /\ (ops[i].full \/ ~enabled))
      /\ UNCHANGED <<core, enabled, terminal, chosen, served, made>>
  BY DEF Switches!MirrorWritten, Switches!MirrorRefused
<1>2. s \in {"get", "done"}
  BY OpParts
<1> HIDE DEF s
<1>3. op \in Switches!Op /\ op.step = s /\ op.base = ops[i].base
  BY <1>2, OpParts DEF Switches!Op, Switches!Steps
<1> HIDE DEF op
<1>4. Answered(op, served')
  BY <1>1, <1>2, <1>3, OpParts DEF Answered
<1>5. lastReadSucceeded' \in BOOLEAN /\ (lastReadSucceeded' = TRUE => served' = TRUE)
  BY <1>1, OpParts DEF SwitchInv, SwitchTypes
<1>6. faults' \in 0 .. MaxFaults
  BY FaultCounts DEF Switches!MirrorWritten, Switches!MirrorRefused, SwitchInv, SwitchTypes
<1>7. mirror' \in Switches!Mirror /\ (mirror'.needs = FALSE => served' = TRUE)
  <2>1. CASE Switches!MirrorRefused(i)
    BY <1>1, <2>1 DEF Switches!MirrorRefused, SwitchInv, SwitchTypes
  <2>2. CASE Switches!MirrorWritten(i)
    <3>1. mirror' = Switches!Changed(ops[i])
      BY <2>2 DEF Switches!MirrorWritten
    <3>2. ops[i].base.needs \in BOOLEAN /\ ops[i].base.host \in Switches!Choice
      BY OpParts DEF Switches!Mirror
    <3>3. mirror' \in Switches!Mirror
      BY <3>1, <3>2, OpParts DEF Switches!Changed, Switches!Mirror
    <3>4. mirror'.needs = (ops[i].base.needs /\ ~ops[i].full)
      BY <3>1 DEF Switches!Changed
    <3> QED BY <1>1, <3>2, <3>3, <3>4, OpParts DEF Answered
  <2> QED BY <2>1, <2>2
<1>8. core' \in [enabled : BOOLEAN, host : Switches!Choice] /\ served' \in BOOLEAN
  BY <1>1 DEF SwitchInv, SwitchTypes
<1> QED BY <1>1, <1>3, <1>4, <1>5, <1>6, <1>7, <1>8, OpStep

LEMMA OutsideInv ==
  ASSUME SwitchBounds, SwitchInv,
         (\E value \in Switches!Choice : Switches!HostChosen(value)) \/ Switches!Teardown
  PROVE  SwitchInv'
<1>1. UNCHANGED <<mirror, lastReadSucceeded, ops, faults, served, made>>
  BY DEF Switches!HostChosen, Switches!Teardown
<1>2. /\ core' \in [enabled : BOOLEAN, host : Switches!Choice] /\ chosen' \subseteq Switches!Choice
  BY DEF Switches!HostChosen, Switches!Teardown, SwitchInv, SwitchTypes
<1>3. enabled' \in BOOLEAN /\ terminal' \in BOOLEAN
  BY DEF Switches!HostChosen, Switches!Teardown, SwitchInv, SwitchTypes
<1>4. SwitchTypes'
  BY <1>1, <1>2, <1>3 DEF SwitchInv, SwitchTypes
<1> QED BY <1>1, <1>4 DEF SwitchInv

LEMMA SwitchStep ==
  ASSUME SwitchBounds, SwitchInv, [Switches!Next]_(Switches!vars)
  PROVE  SwitchInv'
<1>1. CASE Switches!Next
  BY <1>1, CommandInv, OutsideInv, SwitchedInv, SettingsInv, MirrorReadInv, MirrorEndInv
     DEF Switches!Next
<1>2. CASE UNCHANGED Switches!vars
  <2>1. UNCHANGED <<core, mirror, enabled, terminal, lastReadSucceeded, ops, made, faults, chosen, served>>
    BY <1>2 DEF Switches!vars
  <2>2. SwitchTypes'
    BY <2>1 DEF SwitchInv, SwitchTypes
  <2> QED BY <2>1, <2>2 DEF SwitchInv
<1> QED BY <1>1, <1>2

LEMMA SwitchSpecInv ==
  ASSUME SwitchBounds
  PROVE  Switches!Spec => []SwitchInv
BY SwitchInitially, SwitchStep, PTL DEF Switches!Spec

\* Whatever commands overlap, fail or are cut short, the switches in the core
\* and in the mirrored record are whole (app/settings.js).
THEOREM SwitchesTyped ==
  ASSUME SwitchBounds
  PROVE  Switches!Spec => []Switches!TypeOK
<1>1. SwitchInv => Switches!TypeOK
  BY DEF SwitchInv, SwitchTypes, Switches!TypeOK
<1> QED BY <1>1, SwitchSpecInv, PTL

\* A record of the older version authorizes nothing before the core has answered
\* a full read of the settings (automationSettingsRepository.js).
THEOREM OldRecordsWait ==
  ASSUME SwitchBounds
  PROVE  Switches!Spec => []Switches!OldRecordNeedsRead
<1>1. ASSUME SwitchInv
      PROVE  Switches!OldRecordNeedsRead
  <2>1. mirror.needs \in BOOLEAN
    BY <1>1 DEF SwitchInv, SwitchTypes, Switches!Mirror
  <2> QED BY <1>1, <2>1 DEF SwitchInv, SwitchTypes, Switches!OldRecordNeedsRead
<1> QED BY <1>1, SwitchSpecInv, PTL
-----------------------------
(* An add-on under its old and its new name (AddonIdentity).               *)
CONSTANTS Buckets
VARIABLES known, root, pending, count, sighted, blind

Identity == INSTANCE AddonIdentity WITH Legacy <- Buckets, ops <- count

IdentityBounds ==
  /\ MaxClock \in Nat \ {0} /\ MaxOps \in Nat
  /\ Buckets \subseteq Identity!Buckets /\ \A b \in Buckets : b.has

Choice == {Identity!Unset, "on", "off"}

\* The choice that is in force among those under the new and the old name, and
\* the first of two sightings.
InForce(r) == IF r.states["new"].enabled # Identity!Unset THEN r.states["new"].enabled
              ELSE r.states["old"].enabled
First(r) == Identity!Earliest(r.metas["old"].first, r.metas["new"].first)

\* What is not there holds nothing.
Clean(r) ==
  /\ r \in Identity!Roots
  /\ \A i \in Identity!Ids : /\ ~r.states[i].has => r.states[i] = Identity!NoBucket
                             /\ ~r.metas[i].has => r.metas[i] = Identity!NoMeta

SameChoices(r, s) == \A i \in Identity!Ids : r.states[i].enabled = s.states[i].enabled
SameFirsts(r, s) == \A i \in Identity!Ids : r.metas[i].first = s.metas[i].first
SameStates(r, s) == \A i \in Identity!Ids : r.states[i].has <=> s.states[i].has
SameMetas(r, s) == \A i \in Identity!Ids : r.metas[i].has <=> s.metas[i].has

\* A candidate chooses and dates nothing: it may move what its base has under
\* the old name, once the alias is known, and make buckets.
Candidate(base, cand, k) ==
  /\ Clean(base) /\ Clean(cand)
  /\ InForce(cand) = InForce(base) /\ First(cand) = First(base)
  /\ ~k => SameChoices(base, cand) /\ SameFirsts(base, cand)
  /\ SameStates(base, cand) => SameChoices(base, cand)
  /\ SameMetas(base, cand) => SameFirsts(base, cand)
  /\ \A i \in Identity!Ids : base.states[i].has /\ (~k \/ i = "new") => cand.states[i].has

Decided(ch) == IF ch["new"] # Identity!Unset THEN ch["new"] ELSE ch["old"]
Chooses(r, ch) == \A i \in Identity!Ids : r.states[i].enabled = ch[i]
ChoosesOnly(r, q, x, w) ==
  r.states[x].enabled = w /\ \A i \in Identity!Ids \ {x} : r.states[i].enabled = q.states[i].enabled
Dates(r, sg) == \A i \in Identity!Ids : r.metas[i].first = sg[i]

Holds ==
  ~blind =>
    /\ InForce(root) = Identity!Chosen
    /\ First(root) = Identity!Earliest(sighted["old"], sighted["new"])
    /\ ~known => Chooses(root, chosen) /\ Dates(root, sighted)

IdentityInv ==
  /\ known \in BOOLEAN /\ blind \in BOOLEAN /\ Clean(root)
  /\ staged \in [on : BOOLEAN, base : Identity!Roots, cand : Identity!Roots]
  /\ Candidate(staged.base, staged.cand, known)
  /\ pending \in Seq([base : Identity!Roots, cand : Identity!Roots])
  /\ \A i \in DOMAIN pending : Candidate(pending[i].base, pending[i].cand, known)
  /\ clock \in 1 .. MaxClock /\ count \in 0 .. MaxOps
  /\ chosen \in [Identity!Ids -> Choice] /\ sighted \in [Identity!Ids -> 0 .. clock]
  /\ Holds

-----------------------------
(* Roots and their merging.                                                *)

LEMMA RootShape ==
  ASSUME NEW r, Clean(r)
  PROVE  /\ r = [states |-> r.states, metas |-> r.metas]
         /\ r.states \in [{"old", "new"} -> Identity!Buckets]
         /\ r.metas \in [{"old", "new"} -> Identity!Metas]
         /\ \A i \in {"old", "new"} :
              /\ r.states[i] \in Identity!Buckets /\ r.metas[i] \in Identity!Metas
              /\ r.states[i].has \in BOOLEAN /\ r.metas[i].has \in BOOLEAN
              /\ r.states[i].enabled \in Choice
              /\ r.metas[i].first \in 0 .. MaxClock /\ r.metas[i].last \in 0 .. MaxClock
              /\ ~r.states[i].has => r.states[i].enabled = Identity!Unset
              /\ ~r.metas[i].has => r.metas[i].first = 0
BY DEF Clean, Identity!Roots, Identity!Ids, Identity!Buckets, Identity!Metas, Choice,
       Identity!NoBucket, Identity!NoMeta, Identity!Unset

\* Merging moves everything to the new name and leaves what is in force.
LEMMA Merging ==
  ASSUME IdentityBounds, NEW r, Clean(r), known
  PROVE  /\ Clean(Identity!Canonical(r))
         /\ InForce(Identity!Canonical(r)) = InForce(r) /\ First(Identity!Canonical(r)) = First(r)
         /\ ~Identity!Canonical(r).states["old"].has /\ ~Identity!Canonical(r).metas["old"].has
         /\ r.states["new"].has => Identity!Canonical(r).states["new"].has
         /\ ~r.states["old"].has => Identity!Canonical(r).states = r.states
         /\ ~r.metas["old"].has => Identity!Canonical(r).metas = r.metas
<1> DEFINE c == Identity!Canonical(r)
           s == [has |-> TRUE,
                 enabled |-> IF r.states["new"].enabled # Identity!Unset
                             THEN r.states["new"].enabled ELSE r.states["old"].enabled,
                 value |-> IF r.states["new"].value # Identity!Unset
                           THEN r.states["new"].value ELSE r.states["old"].value]
           m == [has |-> TRUE, first |-> First(r),
                 last |-> Identity!Latest(r.metas["old"].last, r.metas["new"].last)]
<1>1. /\ c.states = IF ~r.states["old"].has THEN r.states
                    ELSE [r.states EXCEPT !["old"] = Identity!NoBucket, !["new"] = s]
      /\ c.metas = IF ~r.metas["old"].has THEN r.metas
                   ELSE [r.metas EXCEPT !["old"] = Identity!NoMeta, !["new"] = m]
      /\ c = [states |-> c.states, metas |-> c.metas]
  BY DEF Identity!Canonical, Identity!MergedState, Identity!MergedMeta, First
<1>2. s \in Identity!Buckets /\ Identity!NoBucket \in Identity!Buckets
  BY RootShape DEF Identity!Buckets, Identity!Unset, Identity!NoBucket, Choice
<1>3. m \in Identity!Metas /\ Identity!NoMeta \in Identity!Metas
  BY RootShape, MaxClock \in Nat
     DEF Identity!Metas, First, Identity!Earliest, Identity!Latest, IdentityBounds, Identity!NoMeta
<1>4. c.states \in [{"old", "new"} -> Identity!Buckets] /\ c.metas \in [{"old", "new"} -> Identity!Metas]
  BY <1>1, <1>2, <1>3, RootShape
<1>5. /\ s.has /\ m.has /\ s.enabled = InForce(r) /\ m.first = First(r)
      /\ ~Identity!NoBucket.has /\ Identity!NoBucket.enabled = Identity!Unset
      /\ ~Identity!NoMeta.has /\ Identity!NoMeta.first = 0
  BY DEF Identity!NoBucket, Identity!NoMeta, InForce
<1> HIDE DEF c, s, m
<1>6. /\ c.states["old"] = IF r.states["old"].has THEN Identity!NoBucket ELSE r.states["old"]
      /\ c.states["new"] = IF r.states["old"].has THEN s ELSE r.states["new"]
      /\ c.metas["old"] = IF r.metas["old"].has THEN Identity!NoMeta ELSE r.metas["old"]
      /\ c.metas["new"] = IF r.metas["old"].has THEN m ELSE r.metas["new"]
  BY <1>1, RootShape
<1>7. Clean(c)
  <2>1. c \in Identity!Roots
    BY <1>1, <1>4 DEF Identity!Roots, Identity!Ids
  <2> QED BY <2>1, <1>5, <1>6 DEF Clean, Identity!Ids
<1>8. InForce(c) = InForce(r)
  BY <1>5, <1>6, RootShape DEF InForce
<1>9. First(c) = First(r)
  BY <1>5, <1>6, RootShape DEF First, Identity!Earliest
<1>10. ~c.states["old"].has /\ ~c.metas["old"].has /\ (r.states["new"].has => c.states["new"].has)
  BY <1>5, <1>6
<1> QED BY <1>1, <1>7, <1>8, <1>9, <1>10 DEF c

LEMMA ChoicesDecide ==
  ASSUME NEW r, NEW q
  PROVE  /\ SameChoices(r, q) => InForce(r) = InForce(q)
         /\ SameFirsts(r, q) => First(r) = First(q)
BY DEF SameChoices, SameFirsts, InForce, First, Identity!Ids

LEMMA RootIsCandidate ==
  ASSUME NEW r, Clean(r), NEW k \in BOOLEAN
  PROVE  Candidate(r, r, k)
BY DEF Candidate, SameChoices, SameFirsts, SameStates, SameMetas

LEMMA MergedCandidate ==
  ASSUME IdentityBounds, known \in BOOLEAN, NEW b, NEW c, Candidate(b, c, known)
  PROVE  Candidate(b, Identity!Canonical(c), known)
<1> DEFINE d == Identity!Canonical(c)
<1>1. CASE ~known
  BY <1>1 DEF Identity!Canonical
<1>2. CASE known
  <2>1. Clean(b) /\ Clean(c) /\ InForce(c) = InForce(b) /\ First(c) = First(b)
    BY DEF Candidate
  <2>2. /\ Clean(d) /\ InForce(d) = InForce(c) /\ First(d) = First(c)
        /\ ~d.states["old"].has /\ ~d.metas["old"].has
        /\ c.states["new"].has => d.states["new"].has
        /\ ~c.states["old"].has => d.states = c.states
        /\ ~c.metas["old"].has => d.metas = c.metas
    BY <1>2, <2>1, Merging
  <2> HIDE DEF d
  <2>3. SameStates(b, d) => SameChoices(b, d)
    BY <2>1, <2>2, RootShape DEF SameStates, SameChoices, InForce, Identity!Ids
  <2>4. SameMetas(b, d) => SameFirsts(b, d)
    <3> SUFFICES ASSUME SameMetas(b, d) PROVE SameFirsts(b, d)
      OBVIOUS
    <3>1. b.metas["old"].first = 0 /\ d.metas["old"].first = 0
      BY <2>1, <2>2, RootShape DEF SameMetas, Identity!Ids
    <3>2. First(b) = b.metas["new"].first /\ First(d) = d.metas["new"].first
      BY <3>1 DEF First, Identity!Earliest
    <3> QED BY <2>1, <2>2, <3>1, <3>2 DEF SameFirsts, Identity!Ids
  <2>5. b.states["new"].has => d.states["new"].has
    BY <1>2, <2>2 DEF Candidate, Identity!Ids
  <2> QED BY <1>2, <2>1, <2>2, <2>3, <2>4, <2>5 DEF Candidate, d
<1> QED BY <1>1, <1>2

\* A bucket that is made, or given a value, under the name in use.
LEMMA OpenedCandidate ==
  ASSUME known \in BOOLEAN, NEW b, NEW c, NEW d, Candidate(b, c, known), d \in Identity!Roots,
         NEW x \in Identity!Ids, known => x = "new",
         d.metas = c.metas, d.states[x].has, d.states[x].enabled = c.states[x].enabled,
         \A i \in Identity!Ids \ {x} : d.states[i] = c.states[i]
  PROVE  Candidate(b, d, known)
<1>1. Clean(b) /\ Clean(c) /\ InForce(c) = InForce(b) /\ First(c) = First(b)
  BY DEF Candidate
<1>2. Clean(d)
  BY <1>1 DEF Clean
<1>3. SameChoices(c, d) /\ SameFirsts(c, d) /\ SameMetas(c, d)
  BY DEF SameChoices, SameFirsts, SameMetas
<1>4. InForce(d) = InForce(b) /\ First(d) = First(b)
  BY <1>1, <1>3, ChoicesDecide
<1>5. ASSUME SameStates(b, d)
      PROVE  SameChoices(b, d)
  <2>1. \A i \in Identity!Ids : c.states[i].has <=> b.states[i].has
    BY <1>1, <1>5, RootShape DEF SameStates, Candidate, Identity!Ids
  <2> QED BY <1>3, <2>1 DEF Candidate, SameStates, SameChoices
<1>6. SameMetas(b, d) => SameFirsts(b, d)
  BY <1>3 DEF Candidate, SameMetas, SameFirsts
<1>7. ~known => SameChoices(b, d) /\ SameFirsts(b, d)
  BY <1>3 DEF Candidate, SameChoices, SameFirsts
<1>8. \A i \in Identity!Ids : b.states[i].has /\ (~known \/ i = "new") => d.states[i].has
  BY DEF Candidate
<1> QED BY <1>1, <1>2, <1>4, <1>5, <1>6, <1>7, <1>8 DEF Candidate

LEMMA OpenedStates ==
  ASSUME NEW A, NEW B, NEW c \in [states : A, metas : B], NEW x,
         [c.states EXCEPT ![x].has = TRUE] \in A
  PROVE  /\ [c EXCEPT !.states[x].has = TRUE].metas = c.metas
         /\ [c EXCEPT !.states[x].has = TRUE].states = [c.states EXCEPT ![x].has = TRUE]
         /\ [c EXCEPT !.states[x].has = TRUE] \in [states : A, metas : B]
OBVIOUS

LEMMA StagedCandidate ==
  ASSUME IdentityBounds, IdentityInv, NEW i \in Identity!Ids
  PROVE  LET s == Identity!Staged(i)
             x == Identity!Resolve(i)
         IN  /\ s = [on |-> s.on, base |-> s.base, cand |-> s.cand]
             /\ s.on \in BOOLEAN /\ s.base \in Identity!Roots /\ s.cand \in Identity!Roots
             /\ s.cand = [states |-> s.cand.states, metas |-> s.cand.metas]
             /\ Candidate(s.base, s.cand, known)
             /\ x \in Identity!Ids /\ (known => x = "new")
             /\ s.cand.states[x].has
<1> DEFINE x == Identity!Resolve(i)
           f == IF staged.on THEN staged
                ELSE [on |-> TRUE, base |-> root, cand |-> Identity!Canonical(root)]
           c == f.cand
           s == Identity!Staged(i)
           d == [c EXCEPT !.states[x].has = TRUE]
<1>1. x \in Identity!Ids /\ (known => x = "new")
  BY DEF Identity!Resolve, Identity!Ids
<1>2. known \in BOOLEAN /\ Clean(root) /\ staged.on \in BOOLEAN
  BY DEF IdentityInv
<1>3. Candidate(f.base, c, known) /\ f.on \in BOOLEAN
      /\ f = [on |-> f.on, base |-> f.base, cand |-> c]
  <2>1. CASE staged.on
    BY <2>1 DEF IdentityInv
  <2>2. CASE ~staged.on
    BY <1>2, <2>2, RootIsCandidate, MergedCandidate
  <2> QED BY <2>1, <2>2
<1>4. s = [f EXCEPT !.cand.states[x].has = TRUE]
  BY DEF Identity!Staged
<1> HIDE DEF f, x
<1>5. s.on = f.on /\ s.base = f.base /\ s.cand = d /\ s = [on |-> s.on, base |-> s.base, cand |-> s.cand]
  BY <1>3, <1>4
<1> HIDE DEF s, c
<1>6. Clean(c) /\ Clean(f.base)
  BY <1>3 DEF Candidate
<1>7. c = [states |-> c.states, metas |-> c.metas] /\ c.states \in [{"old", "new"} -> Identity!Buckets]
      /\ c.states[x] \in Identity!Buckets
  BY <1>1, <1>6, RootShape DEF Identity!Ids
<1>8. c \in [states : [{"old", "new"} -> Identity!Buckets], metas : [{"old", "new"} -> Identity!Metas]]
  BY <1>6 DEF Clean, Identity!Roots, Identity!Ids
<1> DEFINE t == [c.states EXCEPT ![x].has = TRUE]
<1>9. /\ t \in [{"old", "new"} -> Identity!Buckets]
      /\ t[x].has /\ t[x].enabled = c.states[x].enabled
      /\ \A j \in Identity!Ids \ {x} : t[j] = c.states[j]
  BY <1>1, <1>7 DEF Identity!Buckets, Identity!Ids
<1>10. /\ d.metas = c.metas /\ d.states = t /\ d \in Identity!Roots
       /\ d = [states |-> d.states, metas |-> d.metas]
  <2>1. /\ d.metas = c.metas /\ d.states = t
        /\ d \in [states : [{"old", "new"} -> Identity!Buckets],
                  metas : [{"old", "new"} -> Identity!Metas]]
    BY <1>8, <1>9, OpenedStates
  <2> HIDE DEF d, t
  <2>2. d = [states |-> d.states, metas |-> d.metas]
    BY <2>1
  <2> QED BY <2>1, <2>2 DEF Identity!Roots, Identity!Ids
<1> HIDE DEF d, t
<1>11. Candidate(f.base, d, known)
  <2>1. known \in BOOLEAN /\ Candidate(f.base, c, known) /\ x \in Identity!Ids /\ (known => x = "new")
    BY <1>1, <1>2, <1>3
  <2>2. /\ d.metas = c.metas /\ d.states[x].has /\ d.states[x].enabled = c.states[x].enabled
        /\ \A j \in Identity!Ids \ {x} : d.states[j] = c.states[j]
    BY <1>9, <1>10
  <2> HIDE DEF c
  <2> QED BY <1>10, <2>1, <2>2, OpenedCandidate, Zenon
<1>12. f.base \in Identity!Roots
  BY <1>6 DEF Clean
<1> QED BY <1>1, <1>3, <1>5, <1>9, <1>10, <1>11, <1>12 DEF x, s

LEMMA ValuedStates ==
  ASSUME NEW A, NEW B, NEW c \in [states : A, metas : B], NEW x, NEW v,
         [c.states EXCEPT ![x].value = v] \in A
  PROVE  /\ [c EXCEPT !.states[x].value = v].metas = c.metas
         /\ [c EXCEPT !.states[x].value = v].states = [c.states EXCEPT ![x].value = v]
         /\ [c EXCEPT !.states[x].value = v] \in [states : A, metas : B]
OBVIOUS

LEMMA PutCandidate ==
  ASSUME IdentityBounds, IdentityInv, NEW i \in Identity!Ids, NEW v \in {"x", "y"}
  PROVE  LET s == [Identity!Staged(i) EXCEPT !.cand.states[Identity!Resolve(i)].value = v]
         IN  Candidate(s.base, Identity!Canonical(s.cand), known)
<1> DEFINE x == Identity!Resolve(i)
           e == Identity!Staged(i)
           s == [e EXCEPT !.cand.states[x].value = v]
           c == e.cand
           d == [c EXCEPT !.states[x].value = v]
           t == [c.states EXCEPT ![x].value = v]
<1>1. /\ e = [on |-> e.on, base |-> e.base, cand |-> e.cand]
      /\ Candidate(e.base, c, known) /\ x \in Identity!Ids /\ (known => x = "new")
      /\ c.states[x].has
  BY StagedCandidate
<1> HIDE DEF e, x
<1>2. s.base = e.base /\ s.cand = d
  BY <1>1
<1> HIDE DEF c
<1>3. Clean(c) /\ known \in BOOLEAN
  BY <1>1 DEF Candidate, IdentityInv
<1>4. c \in [states : [{"old", "new"} -> Identity!Buckets], metas : [{"old", "new"} -> Identity!Metas]]
      /\ c.states[x] \in Identity!Buckets
  BY <1>1, <1>3 DEF Clean, Identity!Roots, Identity!Ids
<1>5. /\ t \in [{"old", "new"} -> Identity!Buckets]
      /\ t[x].has /\ t[x].enabled = c.states[x].enabled
      /\ \A j \in Identity!Ids \ {x} : t[j] = c.states[j]
  BY <1>1, <1>4 DEF Identity!Buckets, Identity!Ids
<1>6. d.metas = c.metas /\ d.states = t /\ d \in Identity!Roots
  BY <1>4, <1>5, ValuedStates DEF Identity!Roots, Identity!Ids
<1> HIDE DEF d, t
<1>7. Candidate(e.base, d, known)
  <2>1. /\ d.metas = c.metas /\ d.states[x].has /\ d.states[x].enabled = c.states[x].enabled
        /\ \A j \in Identity!Ids \ {x} : d.states[j] = c.states[j]
    BY <1>5, <1>6
  <2> QED BY <1>1, <1>3, <1>6, <2>1, OpenedCandidate, Zenon
<1>8. Candidate(e.base, Identity!Canonical(d), known)
  BY <1>3, <1>7, MergedCandidate, Zenon
<1> QED BY <1>2, <1>8 DEF e, x

-----------------------------
(* What the commits write.                                                 *)

\* A candidate that is committed later changes no choice and no first sighting
\* that was made meanwhile.
LEMMA Persisted ==
  ASSUME IdentityBounds, NEW t, Clean(t), NEW b, NEW c, Candidate(b, c, known),
         NEW p, p.base = b, p.cand = c
  PROVE  LET r == Identity!Applied(t, p)
         IN  /\ Clean(r)
             /\ t = b => SameChoices(c, r) /\ SameFirsts(c, r)
             /\ SameStates(b, c) => SameChoices(t, r)
             /\ SameMetas(b, c) => SameFirsts(t, r)
<1> DEFINE S(i) == Identity!ChangedState(t.states[i], b.states[i], c.states[i])
           M(i) == Identity!ChangedMeta(t.metas[i], b.metas[i], c.metas[i])
           r == Identity!Applied(t, p)
<1>1. /\ r.states = [i \in Identity!Ids |-> S(i)] /\ r.metas = [i \in Identity!Ids |-> M(i)]
      /\ r = [states |-> r.states, metas |-> r.metas]
  BY DEF Identity!Applied
<1> HIDE DEF r
<1>2. Clean(b) /\ Clean(c)
  BY DEF Candidate
<1>3. \A i \in Identity!Ids : /\ t.states[i] \in Identity!Buckets /\ b.states[i] \in Identity!Buckets
                              /\ c.states[i] \in Identity!Buckets
                              /\ (~t.states[i].has => t.states[i] = Identity!NoBucket)
                              /\ (~b.states[i].has => b.states[i] = Identity!NoBucket)
                              /\ (~c.states[i].has => c.states[i] = Identity!NoBucket)
  BY <1>2 DEF Clean, Identity!Roots
<1>4. \A i \in Identity!Ids : /\ t.metas[i] \in Identity!Metas /\ b.metas[i] \in Identity!Metas
                              /\ c.metas[i] \in Identity!Metas
                              /\ (~t.metas[i].has => t.metas[i] = Identity!NoMeta)
                              /\ (~b.metas[i].has => b.metas[i] = Identity!NoMeta)
                              /\ (~c.metas[i].has => c.metas[i] = Identity!NoMeta)
  BY <1>2 DEF Clean, Identity!Roots
<1>5. ASSUME NEW i \in Identity!Ids
      PROVE  /\ S(i) \in Identity!Buckets /\ (~S(i).has => S(i) = Identity!NoBucket)
             /\ t.states[i] = b.states[i] => S(i).enabled = c.states[i].enabled
             /\ (b.states[i].has <=> c.states[i].has) /\ b.states[i].enabled = c.states[i].enabled
                  => S(i).enabled = t.states[i].enabled
  BY <1>3, <1>5 DEF Identity!ChangedState, Identity!Field, Identity!Buckets, Identity!NoBucket
<1>6. ASSUME NEW i \in Identity!Ids
      PROVE  /\ M(i) \in Identity!Metas /\ (~M(i).has => M(i) = Identity!NoMeta)
             /\ t.metas[i] = b.metas[i] => M(i).first = c.metas[i].first
             /\ (b.metas[i].has <=> c.metas[i].has) /\ b.metas[i].first = c.metas[i].first
                  => M(i).first = t.metas[i].first
  BY <1>4, <1>6 DEF Identity!ChangedMeta, Identity!Field, Identity!Metas, Identity!NoMeta
<1> HIDE DEF S, M
<1>7. Clean(r)
  <2>1. r \in Identity!Roots
    BY <1>1, <1>5, <1>6 DEF Identity!Roots
  <2> QED BY <1>1, <1>5, <1>6, <2>1 DEF Clean
<1>8. t = b => SameChoices(c, r) /\ SameFirsts(c, r)
  BY <1>1, <1>5, <1>6 DEF SameChoices, SameFirsts
<1>9. SameStates(b, c) => SameChoices(t, r)
  BY <1>1, <1>5 DEF Candidate, SameStates, SameChoices
<1>10. SameMetas(b, c) => SameFirsts(t, r)
  BY <1>1, <1>6 DEF Candidate, SameMetas, SameFirsts
<1> QED BY <1>7, <1>8, <1>9, <1>10 DEF r

\* The settings as a commit finds them, the legacy entries merged.
LEMMA RootMerged ==
  ASSUME IdentityBounds, IdentityInv
  PROVE  LET c == Identity!Canonical(root)
         IN  /\ Clean(c)
             /\ known => /\ c.states["old"].enabled = Identity!Unset /\ c.metas["old"].first = 0
             /\ ~known => c = root
             /\ ~blind /\ known => /\ c.states["new"].enabled = Identity!Chosen
                                   /\ c.metas["new"].first
                                        = Identity!Earliest(sighted["old"], sighted["new"])
<1> DEFINE c == Identity!Canonical(root)
<1>1. Clean(root) /\ known \in BOOLEAN
  BY DEF IdentityInv
<1>2. CASE ~known
  BY <1>1, <1>2 DEF Identity!Canonical
<1>3. CASE known
  <2>1. /\ Clean(c) /\ InForce(c) = InForce(root) /\ First(c) = First(root)
        /\ ~c.states["old"].has /\ ~c.metas["old"].has
    BY <1>1, <1>3, Merging
  <2> HIDE DEF c
  <2>2. c.states["old"].enabled = Identity!Unset /\ c.metas["old"].first = 0
    BY <2>1, RootShape
  <2>3. InForce(c) = c.states["new"].enabled /\ First(c) = c.metas["new"].first
    BY <2>2 DEF InForce, First, Identity!Earliest
  <2> QED BY <1>3, <2>1, <2>2, <2>3 DEF IdentityInv, Holds, c
<1> QED BY <1>2, <1>3

LEMMA SeenFits ==
  ASSUME IdentityBounds, IdentityInv, NEW m \in Identity!Metas
  PROVE  /\ Identity!Seen(m) \in Identity!Metas /\ Identity!Seen(m).has
         /\ Identity!Seen(m).first = IF m.first = 0 THEN clock ELSE m.first
BY DEF Identity!Seen, Identity!Metas, IdentityInv, IdentityBounds

LEMMA SeenMetas ==
  ASSUME NEW A, NEW B, NEW c \in [states : A, metas : B], NEW x, NEW v,
         [c.metas EXCEPT ![x] = v] \in B
  PROVE  /\ [c EXCEPT !.metas[x] = v].states = c.states
         /\ [c EXCEPT !.metas[x] = v].metas = [c.metas EXCEPT ![x] = v]
         /\ [c EXCEPT !.metas[x] = v] \in [states : A, metas : B]
OBVIOUS

LEMMA ChosenStates ==
  ASSUME NEW A, NEW B, NEW c \in [states : A, metas : B], NEW x, NEW v, NEW w,
         [c.metas EXCEPT ![x] = v] \in B,
         [[c.states EXCEPT ![x].has = TRUE] EXCEPT ![x].enabled = w] \in A,
         NEW d, d = [c EXCEPT !.metas[x] = v, !.states[x].has = TRUE, !.states[x].enabled = w]
  PROVE  /\ d.metas = [c.metas EXCEPT ![x] = v]
         /\ d.states = [[c.states EXCEPT ![x].has = TRUE] EXCEPT ![x].enabled = w]
         /\ d \in [states : A, metas : B]
OBVIOUS

LEMMA ClearedRoot ==
  ASSUME NEW A, NEW B, NEW c \in [states : A, metas : B], NEW x, NEW v, NEW w,
         [c.metas EXCEPT ![x] = v] \in B, [c.states EXCEPT ![x] = w] \in A,
         NEW d, d = [c EXCEPT !.states[x] = w, !.metas[x] = v]
  PROVE  /\ d.metas = [c.metas EXCEPT ![x] = v]
         /\ d.states = [c.states EXCEPT ![x] = w]
         /\ d \in [states : A, metas : B]
OBVIOUS

\* A registration or a choice keeps the earliest sighting.
LEMMA SightingKept ==
  ASSUME IdentityBounds, IdentityInv, NEW i \in Identity!Ids, NEW r,
         r.metas = [Identity!Canonical(root).metas EXCEPT ![Identity!Resolve(i)] = Identity!Seen(@)],
         NEW sg, sg = Identity!SightedNow(Identity!Resolve(i))
  PROVE  /\ sg \in [Identity!Ids -> 0 .. clock]
         /\ ~blind => /\ First(r) = Identity!Earliest(sg["old"], sg["new"])
                      /\ ~known => Dates(r, sg)
<1> DEFINE c == Identity!Canonical(root)
           x == Identity!Resolve(i)
<1>1. x \in Identity!Ids /\ (known => x = "new") /\ known \in BOOLEAN /\ blind \in BOOLEAN
  BY DEF Identity!Resolve, Identity!Ids, IdentityInv
<1>2. /\ Clean(c) /\ (known => c.metas["old"].first = 0) /\ (~known => c = root)
      /\ ~blind /\ known => c.metas["new"].first = Identity!Earliest(sighted["old"], sighted["new"])
  BY RootMerged
<1>3. /\ sighted \in [{"old", "new"} -> 0 .. clock] /\ clock \in Nat \ {0}
      /\ sg = [sighted EXCEPT ![x] = IF sighted[x] = 0 THEN clock ELSE sighted[x]]
  BY DEF IdentityInv, IdentityBounds, Identity!SightedNow, Identity!Ids
<1> HIDE DEF c, x
<1>4. /\ c.metas \in [{"old", "new"} -> Identity!Metas]
      /\ c.metas["old"].first \in Nat /\ c.metas["new"].first \in Nat
      /\ c.metas[x] \in Identity!Metas
  BY <1>1, <1>2, RootShape DEF Identity!Ids, IdentityBounds
<1>5. /\ r.metas = [c.metas EXCEPT ![x] = Identity!Seen(c.metas[x])]
      /\ Identity!Seen(c.metas[x]).first = IF c.metas[x].first = 0 THEN clock ELSE c.metas[x].first
  BY <1>4, SeenFits DEF c, x
<1>6. \A j \in {"old", "new"} :
        r.metas[j].first = IF j = x /\ c.metas[j].first = 0 THEN clock ELSE c.metas[j].first
  BY <1>4, <1>5
<1>7. /\ sg \in [{"old", "new"} -> 0 .. clock]
      /\ \A j \in {"old", "new"} : sg[j] = IF j = x /\ sighted[j] = 0 THEN clock ELSE sighted[j]
  BY <1>1, <1>3 DEF Identity!Ids
<1>8. ASSUME ~blind, ~known
      PROVE  /\ Dates(r, sg)
             /\ First(r) = Identity!Earliest(sg["old"], sg["new"])
  <2>1. \A j \in Identity!Ids : c.metas[j].first = sighted[j]
    BY <1>2, <1>8 DEF IdentityInv, Holds, Dates
  <2>2. \A j \in Identity!Ids : r.metas[j].first = sg[j]
    BY <1>6, <1>7, <2>1 DEF Identity!Ids
  <2> QED BY <2>2 DEF First, Identity!Ids, Dates
<1>9. ASSUME ~blind, known
      PROVE  First(r) = Identity!Earliest(sg["old"], sg["new"])
  <2>1. x = "new" /\ c.metas["old"].first = 0
        /\ c.metas["new"].first = Identity!Earliest(sighted["old"], sighted["new"])
    BY <1>1, <1>2, <1>9
  <2>2. /\ r.metas["old"].first = 0 /\ sg["old"] = sighted["old"]
        /\ r.metas["new"].first = IF c.metas["new"].first = 0 THEN clock ELSE c.metas["new"].first
        /\ sg["new"] = IF sighted["new"] = 0 THEN clock ELSE sighted["new"]
    BY <1>6, <1>7, <2>1
  <2>3. sighted["old"] \in 0 .. clock /\ sighted["new"] \in 0 .. clock
    BY <1>3
  <2> QED BY <1>3, <2>1, <2>2, <2>3 DEF First, Identity!Earliest
<1> QED BY <1>1, <1>7, <1>8, <1>9 DEF Identity!Ids

\* What is in force when nothing is chosen, when one choice is made.
LEMMA ChoiceKept ==
  ASSUME IdentityBounds, IdentityInv, NEW r, r.states = Identity!Canonical(root).states
  PROVE  ~blind => /\ InForce(r) = Identity!Chosen
                   /\ ~known => Chooses(r, chosen)
<1> DEFINE c == Identity!Canonical(root)
<1>1. /\ (known => c.states["old"].enabled = Identity!Unset) /\ (~known => c = root)
      /\ ~blind /\ known => c.states["new"].enabled = Identity!Chosen
  BY RootMerged
<1>2. known \in BOOLEAN /\ blind \in BOOLEAN
  BY DEF IdentityInv
<1> HIDE DEF c
<1>3. r.states = c.states
  BY DEF c
<1>4. ASSUME ~blind, ~known
      PROVE  InForce(r) = Identity!Chosen /\ Chooses(r, chosen)
  BY <1>1, <1>3, <1>4 DEF IdentityInv, Holds, InForce, Chooses
<1>5. ASSUME ~blind, known
      PROVE  InForce(r) = Identity!Chosen
  BY <1>1, <1>3, <1>5 DEF InForce
<1> QED BY <1>2, <1>4, <1>5

LEMMA ChoiceMade ==
  ASSUME IdentityBounds, IdentityInv, NEW i \in Identity!Ids, NEW w \in {"on", "off"}, NEW r,
         ChoosesOnly(r, Identity!Canonical(root), Identity!Resolve(i), w),
         NEW ch, ch = [chosen EXCEPT ![Identity!Resolve(i)] = w]
  PROVE  /\ ch \in [Identity!Ids -> Choice]
         /\ ~blind => /\ InForce(r) = Decided(ch)
                      /\ ~known => Chooses(r, ch)
<1> DEFINE c == Identity!Canonical(root)
           x == Identity!Resolve(i)
<1>1. (known => c.states["old"].enabled = Identity!Unset) /\ (~known => c = root)
  BY RootMerged
<1>2. x \in {"old", "new"} /\ (known => x = "new") /\ known \in BOOLEAN /\ blind \in BOOLEAN
  BY DEF Identity!Resolve, Identity!Ids, IdentityInv
<1> HIDE DEF c, x
<1>3. /\ r.states[x].enabled = w
      /\ \A j \in {"old", "new"} \ {x} : r.states[j].enabled = c.states[j].enabled
  BY DEF ChoosesOnly, c, x, Identity!Ids
<1>4. /\ ch = [chosen EXCEPT ![x] = w]
  BY DEF x
<1>5. /\ chosen \in [{"old", "new"} -> Choice] /\ ch \in [{"old", "new"} -> Choice] /\ ch[x] = w
      /\ w # Identity!Unset /\ \A j \in {"old", "new"} \ {x} : ch[j] = chosen[j]
  BY <1>2, <1>4 DEF IdentityInv, Identity!Ids, Choice, Identity!Unset
<1>6. ASSUME ~blind, ~known
      PROVE  \A j \in {"old", "new"} : r.states[j].enabled = ch[j]
  BY <1>1, <1>3, <1>5, <1>6 DEF IdentityInv, Holds, Identity!Ids, Chooses
<1>7. ASSUME ~blind, known
      PROVE  InForce(r) = w /\ ch["new"] = w
  BY <1>2, <1>3, <1>5, <1>7 DEF InForce
<1> QED BY <1>2, <1>5, <1>6, <1>7 DEF Identity!Ids, InForce, Chooses, Decided

\* Nothing staged stages nothing.
LEMMA NothingStaged ==
  ASSUME IdentityBounds, NEW k \in BOOLEAN
  PROVE  /\ Identity!NotStaged \in [on : BOOLEAN, base : Identity!Roots, cand : Identity!Roots]
         /\ Candidate(Identity!NotStaged.base, Identity!NotStaged.cand, k)
<1> DEFINE none == [states |-> [i \in Identity!Ids |-> Identity!NoBucket],
                    metas |-> [i \in Identity!Ids |-> Identity!NoMeta]]
<1>1. /\ Identity!NoBucket \in Identity!Buckets /\ Identity!NoMeta \in Identity!Metas
      /\ ~Identity!NoBucket.has /\ ~Identity!NoMeta.has
  BY DEF Identity!Buckets, Identity!NoBucket, Identity!Metas, Identity!NoMeta, Identity!Unset,
         IdentityBounds
<1>2. Clean(none)
  BY <1>1 DEF Clean, Identity!Roots
<1>3. Identity!NotStaged = [on |-> FALSE, base |-> none, cand |-> none]
  BY DEF Identity!NotStaged
<1>4. Candidate(none, none, k) /\ none \in Identity!Roots
  BY <1>2, RootIsCandidate DEF Clean
<1> HIDE DEF none
<1> QED BY <1>3, <1>4

LEMMA IdentityInit ==
  ASSUME IdentityBounds, Identity!Init
  PROVE  IdentityInv
<1>1. /\ Identity!NoBucket \in Identity!Buckets /\ Identity!NoMeta \in Identity!Metas
      /\ ~Identity!NoBucket.has /\ ~Identity!NoMeta.has
  BY DEF Identity!Buckets, Identity!NoBucket, Identity!Metas, Identity!NoMeta, Identity!Unset,
         IdentityBounds
<1>3. Clean(root)
  <2>1. CASE root \in [states : [Identity!Ids -> {Identity!NoBucket}],
                       metas : [Identity!Ids -> {Identity!NoMeta}]]
    <3>1. \A i \in Identity!Ids : root.states[i] = Identity!NoBucket /\ root.metas[i] = Identity!NoMeta
      BY <2>1
    <3>2. root \in Identity!Roots
      BY <1>1, <2>1 DEF Identity!Roots
    <3> QED BY <3>1, <3>2 DEF Clean
  <2>2. ASSUME NEW b \in Buckets,
               root = [states |-> [i \in Identity!Ids |-> IF i = "old" THEN b ELSE Identity!NoBucket],
                       metas |-> [i \in Identity!Ids |->
                                   IF i = "old" THEN [has |-> TRUE, first |-> 1, last |-> 1]
                                   ELSE Identity!NoMeta]]
        PROVE  Clean(root)
    <3>1. b \in Identity!Buckets /\ b.has /\ [has |-> TRUE, first |-> 1, last |-> 1] \in Identity!Metas
      BY DEF IdentityBounds, Identity!Metas
    <3>2. root \in Identity!Roots
      BY <1>1, <2>2, <3>1 DEF Identity!Roots
    <3> QED BY <2>2, <3>1, <3>2 DEF Clean, Identity!Ids
  <2> QED BY <2>1, <2>2 DEF Identity!Init
<1>6. /\ staged \in [on : BOOLEAN, base : Identity!Roots, cand : Identity!Roots]
      /\ Candidate(staged.base, staged.cand, known)
  BY NothingStaged DEF Identity!Init
<1>7. /\ chosen \in [Identity!Ids -> Choice]
      /\ sighted \in [Identity!Ids -> 0 .. clock]
  <2>1. \A i \in {"old", "new"} : root.states[i].enabled \in Choice
    BY <1>3, RootShape
  <2>2. \A i \in {"old", "new"} : root.metas[i].first \in {0, 1}
    BY <1>1 DEF Identity!Init, Identity!NoMeta, Identity!Ids
  <2> QED BY <2>1, <2>2 DEF Identity!Init, Identity!Ids
<1>8. Holds
  BY DEF Identity!Init, Holds, InForce, First, Identity!Chosen, Identity!Ids, Chooses, Dates
<1>9. /\ pending = <<>> /\ pending \in Seq([base : Identity!Roots, cand : Identity!Roots])
      /\ DOMAIN pending = {}
  BY DEF Identity!Init
<1>10. /\ known \in BOOLEAN /\ blind \in BOOLEAN
       /\ clock \in 1 .. MaxClock /\ count \in 0 .. MaxOps
  <2>1. known \in BOOLEAN /\ blind = FALSE /\ clock = 1 /\ count = 0
    BY DEF Identity!Init
  <2>2. clock \in 1 .. MaxClock /\ count \in 0 .. MaxOps
    BY <2>1 DEF IdentityBounds
  <2> QED BY <2>1, <2>2
<1> QED BY <1>3, <1>6, <1>7, <1>8, <1>9, <1>10 DEF IdentityInv

\* A registration, a choice and a removal.
LEMMA UpsertStep ==
  ASSUME IdentityBounds, IdentityInv, NEW i \in Identity!Ids, Identity!Upsert(i)
  PROVE  IdentityInv'
<1> DEFINE c == Identity!Canonical(root)
           x == Identity!Resolve(i)
           v == Identity!Seen(c.metas[x])
<1>1. Clean(c) /\ x \in Identity!Ids
  BY RootMerged DEF Identity!Resolve, Identity!Ids
<1>2. root' = [c EXCEPT !.metas[x] = v] /\ sighted' = Identity!SightedNow(x)
  BY DEF Identity!Upsert
<1> HIDE DEF c, x
<1>3. c \in [states : [Identity!Ids -> Identity!Buckets], metas : [Identity!Ids -> Identity!Metas]]
      /\ c.metas[x] \in Identity!Metas
  BY <1>1 DEF Clean, Identity!Roots
<1>4. v \in Identity!Metas /\ v.has
  BY <1>3, SeenFits
<1> HIDE DEF v
<1>5. /\ root'.states = c.states /\ root'.metas = [c.metas EXCEPT ![x] = v] /\ root' \in Identity!Roots
  <2>1. [c.metas EXCEPT ![x] = v] \in [Identity!Ids -> Identity!Metas]
    BY <1>3, <1>4
  <2> QED BY <1>2, <1>3, <2>1, SeenMetas DEF Identity!Roots
<1>6. Clean(root')
  <2>1. \A j \in Identity!Ids : root'.metas[j] = IF j = x THEN v ELSE c.metas[j]
    BY <1>3, <1>5
  <2> QED BY <1>1, <1>4, <1>5, <2>1 DEF Clean
<1>7. /\ sighted' \in [Identity!Ids -> 0 .. clock]
      /\ ~blind => /\ First(root') = Identity!Earliest(sighted'["old"], sighted'["new"])
                   /\ ~known => Dates(root', sighted')
  <2>1. /\ root'.metas = [Identity!Canonical(root).metas EXCEPT ![Identity!Resolve(i)] = Identity!Seen(@)]
        /\ sighted' = Identity!SightedNow(Identity!Resolve(i))
    BY <1>2, <1>5 DEF c, x, v
  <2> QED BY <2>1, SightingKept
<1>8. ~blind => /\ InForce(root') = Identity!Chosen
                /\ ~known => Chooses(root', chosen)
  BY <1>5, ChoiceKept DEF c
<1>9. UNCHANGED <<known, staged, pending, clock, chosen, blind>> /\ count' \in 0 .. MaxOps
  BY DEF Identity!Upsert, Identity!Count, IdentityInv, IdentityBounds
<1>10. Identity!Chosen' = Identity!Chosen
  BY <1>9 DEF Identity!Chosen
<1>11. Holds'
  BY <1>7, <1>8, <1>9, <1>10 DEF Holds
<1> QED BY <1>6, <1>7, <1>9, <1>11 DEF IdentityInv

LEMMA SetEnabledStep ==
  ASSUME IdentityBounds, IdentityInv, NEW i \in Identity!Ids, NEW w \in {"on", "off"},
         Identity!SetEnabled(i, w)
  PROVE  IdentityInv'
<1> DEFINE c == Identity!Canonical(root)
           x == Identity!Resolve(i)
           v == Identity!Seen(c.metas[x])
           s == [[c.states EXCEPT ![x].has = TRUE] EXCEPT ![x].enabled = w]
<1>1. Clean(c) /\ x \in Identity!Ids
  BY RootMerged DEF Identity!Resolve, Identity!Ids
<1>2. /\ root' = [c EXCEPT !.metas[x] = v, !.states[x].has = TRUE, !.states[x].enabled = w]
      /\ sighted' = Identity!SightedNow(x) /\ chosen' = [chosen EXCEPT ![x] = w]
  BY DEF Identity!SetEnabled
<1> HIDE DEF c, x
<1>3. /\ c \in [states : [Identity!Ids -> Identity!Buckets], metas : [Identity!Ids -> Identity!Metas]]
      /\ c.metas[x] \in Identity!Metas /\ c.states[x] \in Identity!Buckets
  BY <1>1 DEF Clean, Identity!Roots
<1>4. v \in Identity!Metas /\ v.has
  BY <1>3, SeenFits
<1> HIDE DEF v
<1>5. /\ s \in [Identity!Ids -> Identity!Buckets] /\ s[x].has /\ s[x].enabled = w
      /\ \A j \in Identity!Ids \ {x} : s[j] = c.states[j]
  BY <1>1, <1>3 DEF Identity!Buckets
<1>6. root'.states = s /\ root'.metas = [c.metas EXCEPT ![x] = v] /\ root' \in Identity!Roots
  <2>1. [c.metas EXCEPT ![x] = v] \in [Identity!Ids -> Identity!Metas]
    BY <1>3, <1>4
  <2> QED BY <1>2, <1>3, <1>5, <2>1, ChosenStates DEF Identity!Roots
<1> HIDE DEF s
<1>7. Clean(root')
  <2>1. \A j \in Identity!Ids : root'.metas[j] = IF j = x THEN v ELSE c.metas[j]
    BY <1>3, <1>6
  <2>2. \A j \in Identity!Ids : ~root'.states[j].has => root'.states[j] = Identity!NoBucket
    BY <1>1, <1>5, <1>6 DEF Clean
  <2> QED BY <1>1, <1>4, <1>6, <2>1, <2>2 DEF Clean
<1>8. /\ sighted' \in [Identity!Ids -> 0 .. clock]
      /\ ~blind => /\ First(root') = Identity!Earliest(sighted'["old"], sighted'["new"])
                   /\ ~known => Dates(root', sighted')
  <2>1. /\ root'.metas = [Identity!Canonical(root).metas EXCEPT ![Identity!Resolve(i)] = Identity!Seen(@)]
        /\ sighted' = Identity!SightedNow(Identity!Resolve(i))
    BY <1>2, <1>6 DEF c, x, v
  <2> QED BY <2>1, SightingKept
<1>9. /\ chosen' \in [Identity!Ids -> Choice]
      /\ ~blind => /\ InForce(root') = Decided(chosen')
                   /\ ~known => Chooses(root', chosen')
  <2>1. ChoosesOnly(root', Identity!Canonical(root), Identity!Resolve(i), w)
    BY <1>5, <1>6 DEF ChoosesOnly, c, x
  <2>2. chosen' = [chosen EXCEPT ![Identity!Resolve(i)] = w]
    BY <1>2 DEF x
  <2> QED BY <2>1, <2>2, ChoiceMade
<1>10. UNCHANGED <<known, staged, pending, clock, blind>> /\ count' \in 0 .. MaxOps
  BY DEF Identity!SetEnabled, Identity!Count, IdentityInv, IdentityBounds
<1>11. Identity!Chosen' = Decided(chosen')
  BY DEF Identity!Chosen, Decided
<1>12. Holds'
  BY <1>8, <1>9, <1>10, <1>11 DEF Holds
<1> QED BY <1>7, <1>8, <1>9, <1>10, <1>12 DEF IdentityInv

LEMMA RemoveStep ==
  ASSUME IdentityBounds, IdentityInv, NEW i \in Identity!Ids, Identity!RemoveTrace(i)
  PROVE  IdentityInv'
<1> DEFINE c == Identity!Canonical(root)
           x == Identity!Resolve(i)
<1>1. /\ Clean(c) /\ x \in Identity!Ids
      /\ (known => x = "new") /\ (~known => x = i)
      /\ (known => c.states["old"].enabled = Identity!Unset /\ c.metas["old"].first = 0)
      /\ (~known => c = root)
  BY RootMerged DEF Identity!Resolve, Identity!Ids
<1>2. root' = [c EXCEPT !.states[x] = Identity!NoBucket, !.metas[x] = Identity!NoMeta]
  BY DEF Identity!RemoveTrace
<1> HIDE DEF c, x
<1>3. c \in [states : [Identity!Ids -> Identity!Buckets], metas : [Identity!Ids -> Identity!Metas]]
  BY <1>1 DEF Clean, Identity!Roots
<1>4. /\ Identity!NoBucket \in Identity!Buckets /\ Identity!NoMeta \in Identity!Metas
      /\ Identity!NoBucket.enabled = Identity!Unset /\ Identity!NoMeta.first = 0
  BY DEF Identity!Buckets, Identity!NoBucket, Identity!Metas, Identity!NoMeta, Identity!Unset,
         IdentityBounds
<1>5. /\ root'.states = [c.states EXCEPT ![x] = Identity!NoBucket]
      /\ root'.metas = [c.metas EXCEPT ![x] = Identity!NoMeta] /\ root' \in Identity!Roots
  <2>1. /\ [c.metas EXCEPT ![x] = Identity!NoMeta] \in [Identity!Ids -> Identity!Metas]
        /\ [c.states EXCEPT ![x] = Identity!NoBucket] \in [Identity!Ids -> Identity!Buckets]
    BY <1>3, <1>4
  <2> QED BY <1>2, <1>3, <2>1, ClearedRoot DEF Identity!Roots
<1>6. \A j \in Identity!Ids :
        /\ root'.metas[j] = IF j = x THEN Identity!NoMeta ELSE c.metas[j]
        /\ root'.states[j] = IF j = x THEN Identity!NoBucket ELSE c.states[j]
  BY <1>3, <1>5
<1>7. Clean(root')
  BY <1>1, <1>5, <1>6 DEF Clean
<1>8. /\ UNCHANGED <<known, staged, pending, clock, blind>> /\ count' \in 0 .. MaxOps
      /\ known \in BOOLEAN /\ blind \in BOOLEAN
      /\ chosen' = [j \in Identity!Ids |-> IF known \/ j = i THEN Identity!Unset ELSE chosen[j]]
      /\ sighted' = [j \in Identity!Ids |-> IF known \/ j = i THEN 0 ELSE sighted[j]]
  BY DEF Identity!RemoveTrace, Identity!Count, IdentityInv, IdentityBounds
<1>9. chosen' \in [Identity!Ids -> Choice] /\ sighted' \in [Identity!Ids -> 0 .. clock]
  BY <1>8 DEF IdentityInv, Choice, IdentityBounds
<1>10. ASSUME ~blind
       PROVE  Chooses(root', chosen') /\ Dates(root', sighted')
  <2>1. CASE known
    BY <1>1, <1>4, <1>6, <1>8, <2>1 DEF Identity!Ids, Chooses, Dates
  <2>2. CASE ~known
    <3>1. \A j \in Identity!Ids : c.states[j].enabled = chosen[j] /\ c.metas[j].first = sighted[j]
      BY <1>1, <1>10, <2>2 DEF IdentityInv, Holds, Chooses, Dates
    <3> QED BY <1>1, <1>4, <1>6, <1>8, <2>2, <3>1 DEF Chooses, Dates
  <2> QED BY <1>8, <2>1, <2>2
<1>11. Holds'
  BY <1>8, <1>10 DEF Holds, InForce, First, Identity!Chosen, Identity!Ids, Chooses, Dates
<1> QED BY <1>7, <1>8, <1>9, <1>11 DEF IdentityInv

LEMMA PersistStep ==
  ASSUME IdentityBounds, IdentityInv, Identity!Persist
  PROVE  IdentityInv'
<1> DEFINE p == Head(pending)
<1>1. /\ pending \in Seq([base : Identity!Roots, cand : Identity!Roots]) /\ pending # <<>>
      /\ pending' = Tail(pending) /\ UNCHANGED <<known, staged, clock, count, chosen, sighted>>
      /\ Clean(root) /\ known \in BOOLEAN /\ blind \in BOOLEAN
      /\ \A i \in DOMAIN pending : Candidate(pending[i].base, pending[i].cand, known)
  BY DEF Identity!Persist, IdentityInv
<1>2. 1 \in DOMAIN pending /\ p = pending[1]
  BY <1>1
<1>3. Candidate(p.base, p.cand, known)
  BY <1>1, <1>2
<1>4. /\ pending' \in Seq([base : Identity!Roots, cand : Identity!Roots])
      /\ \A i \in DOMAIN pending' : i + 1 \in DOMAIN pending /\ pending'[i] = pending[i + 1]
  BY <1>1
<1>5. \A i \in DOMAIN pending' : Candidate(pending'[i].base, pending'[i].cand, known)
  BY <1>1, <1>4
<1> HIDE DEF p
<1>6. Clean(root') /\ blind' \in BOOLEAN /\ Holds'
  <2>1. CASE UNCHANGED <<root, blind>>
    BY <1>1, <2>1 DEF IdentityInv, Holds, Identity!Chosen
  <2>2. CASE /\ root' = Identity!Applied(root, p)
             /\ blind' = (blind \/ (root # p.base /\ \E i \in Identity!Ids :
                            \/ p.base.states[i].has # p.cand.states[i].has
                            \/ p.base.metas[i].has # p.cand.metas[i].has))
    <3>1. /\ Clean(root')
          /\ root = p.base => SameChoices(p.cand, root') /\ SameFirsts(p.cand, root')
          /\ SameStates(p.base, p.cand) => SameChoices(root, root')
          /\ SameMetas(p.base, p.cand) => SameFirsts(root, root')
      BY <1>1, <1>3, <2>2, Persisted
    <3>2. ASSUME ~blind'
          PROVE  ~blind /\ (root = p.base \/ (SameStates(p.base, p.cand) /\ SameMetas(p.base, p.cand)))
      <4>1. /\ Clean(p.base) /\ Clean(p.cand)
        BY <1>3 DEF Candidate
      <4> QED BY <2>2, <3>2, <4>1, RootShape DEF SameStates, SameMetas, Identity!Ids
    <3>3. ASSUME ~blind'
          PROVE  /\ InForce(root') = InForce(root) /\ First(root') = First(root)
                 /\ ~known => SameChoices(root, root') /\ SameFirsts(root, root')
      <4>1. CASE root = p.base
        <5>1. /\ InForce(p.cand) = InForce(root) /\ First(p.cand) = First(root)
              /\ ~known => SameChoices(root, p.cand) /\ SameFirsts(root, p.cand)
          BY <1>3, <4>1 DEF Candidate
        <5>2. InForce(root') = InForce(p.cand) /\ First(root') = First(p.cand)
          BY <3>1, <4>1, ChoicesDecide
        <5>3. ~known => SameChoices(root, root') /\ SameFirsts(root, root')
          BY <3>1, <4>1, <5>1 DEF SameChoices, SameFirsts
        <5> QED BY <5>1, <5>2, <5>3
      <4>2. CASE SameStates(p.base, p.cand) /\ SameMetas(p.base, p.cand)
        BY <3>1, <4>2, ChoicesDecide
      <4> QED BY <3>2, <3>3, <4>1, <4>2
    <3>4. Holds'
      <4> SUFFICES ASSUME ~blind'
                   PROVE  /\ InForce(root') = Identity!Chosen
                          /\ First(root') = Identity!Earliest(sighted["old"], sighted["new"])
                          /\ ~known => Chooses(root', chosen) /\ Dates(root', sighted)
        BY <1>1 DEF Holds, Identity!Chosen
      <4>1. ~blind
        BY <3>2
      <4>2. /\ InForce(root) = Identity!Chosen
            /\ First(root) = Identity!Earliest(sighted["old"], sighted["new"])
            /\ ~known => Chooses(root, chosen) /\ Dates(root, sighted)
        BY <4>1 DEF IdentityInv, Holds
      <4> QED BY <3>3, <4>2 DEF SameChoices, SameFirsts, Chooses, Dates
    <3> QED BY <1>1, <2>2, <3>1, <3>4
  <2> QED BY <2>1, <2>2 DEF Identity!Persist, p
<1> QED BY <1>1, <1>4, <1>5, <1>6 DEF IdentityInv

LEMMA IdentityStep ==
  ASSUME IdentityBounds, IdentityInv, [Identity!Next]_Identity!vars
  PROVE  IdentityInv'
<1>1. ASSUME NEW i \in Identity!Ids, Identity!Read(i)
      PROVE  IdentityInv'
  <2>1. /\ staged' = [on |-> staged'.on, base |-> staged'.base, cand |-> staged'.cand]
        /\ staged'.on \in BOOLEAN /\ staged'.base \in Identity!Roots /\ staged'.cand \in Identity!Roots
        /\ Candidate(staged'.base, staged'.cand, known)
    BY <1>1, StagedCandidate DEF Identity!Read
  <2>2. /\ UNCHANGED <<known, root, pending, clock, chosen, sighted, blind>>
        /\ count' \in 0 .. MaxOps
    BY <1>1 DEF Identity!Read, Identity!Count, IdentityInv, IdentityBounds
  <2>3. Holds'
    BY <2>2 DEF IdentityInv, Holds, Identity!Chosen
  <2> QED BY <2>1, <2>2, <2>3 DEF IdentityInv
<1>2. ASSUME NEW i \in Identity!Ids, NEW v \in {"x", "y"}, Identity!Put(i, v)
      PROVE  IdentityInv'
  <2> DEFINE s == [Identity!Staged(i) EXCEPT !.cand.states[Identity!Resolve(i)].value = v]
             e == [base |-> s.base, cand |-> Identity!Canonical(s.cand)]
  <2>1. Candidate(s.base, Identity!Canonical(s.cand), known)
    BY PutCandidate
  <2>2. /\ pending' = Append(pending, e) /\ staged' = Identity!NotStaged
        /\ UNCHANGED <<known, root, clock, chosen, sighted, blind>>
        /\ count' \in 0 .. MaxOps
    BY <1>2 DEF Identity!Put, Identity!Count, IdentityInv, IdentityBounds
  <2> HIDE DEF s
  <2>3. e \in [base : Identity!Roots, cand : Identity!Roots] /\ Candidate(e.base, e.cand, known)
    BY <2>1 DEF Candidate, Clean
  <2> HIDE DEF e
  <2>4. /\ pending' \in Seq([base : Identity!Roots, cand : Identity!Roots])
        /\ \A j \in DOMAIN pending' : Candidate(pending'[j].base, pending'[j].cand, known)
    BY <2>2, <2>3 DEF IdentityInv
  <2>5. Holds'
    BY <2>2 DEF IdentityInv, Holds, Identity!Chosen
  <2>6. /\ Identity!NotStaged \in [on : BOOLEAN, base : Identity!Roots, cand : Identity!Roots]
        /\ Candidate(Identity!NotStaged.base, Identity!NotStaged.cand, known)
    BY NothingStaged DEF IdentityInv
  <2> QED BY <2>2, <2>4, <2>5, <2>6 DEF IdentityInv
<1>3. CASE Identity!LearnAlias
  <2>1. /\ known' /\ UNCHANGED <<root, staged, pending, clock, count, chosen, sighted, blind>>
    BY <1>3 DEF Identity!LearnAlias
  <2>2. ASSUME NEW b, NEW c, Candidate(b, c, known)
        PROVE  Candidate(b, c, known')
    BY <2>1, <2>2 DEF Candidate
  <2>3. Holds'
    BY <2>1 DEF IdentityInv, Holds, Identity!Chosen
  <2> QED BY <2>1, <2>2, <2>3 DEF IdentityInv
<1>4. CASE Identity!Reload
  <2>1. /\ staged' = Identity!NotStaged /\ pending' = <<>>
        /\ UNCHANGED <<known, root, clock, count, chosen, sighted, blind>>
    BY <1>4 DEF Identity!Reload
  <2>2. /\ Identity!NotStaged \in [on : BOOLEAN, base : Identity!Roots, cand : Identity!Roots]
        /\ Candidate(Identity!NotStaged.base, Identity!NotStaged.cand, known)
    BY NothingStaged DEF IdentityInv
  <2>3. Holds'
    BY <2>1 DEF IdentityInv, Holds, Identity!Chosen
  <2> QED BY <2>1, <2>2, <2>3 DEF IdentityInv
<1>5. CASE Identity!Tick
  <2>1. /\ clock' = clock + 1 /\ clock' \in 1 .. MaxClock
        /\ UNCHANGED <<known, root, staged, pending, count, chosen, sighted, blind>>
    BY <1>5 DEF Identity!Tick, IdentityInv, IdentityBounds
  <2>2. sighted' \in [Identity!Ids -> 0 .. clock']
    BY <2>1 DEF IdentityInv, IdentityBounds
  <2>3. Holds'
    BY <2>1 DEF IdentityInv, Holds, Identity!Chosen
  <2> QED BY <2>1, <2>2, <2>3 DEF IdentityInv
<1>6. CASE UNCHANGED Identity!vars
  BY <1>6 DEF Identity!vars, IdentityInv, Holds, Identity!Chosen
<1> QED BY <1>1, <1>2, <1>3, <1>4, <1>5, <1>6, UpsertStep, SetEnabledStep, RemoveStep, PersistStep
        DEF Identity!Next

LEMMA IdentityHolds ==
  ASSUME IdentityBounds
  PROVE  Identity!Spec => []IdentityInv
<1>1. Identity!Init => IdentityInv
  BY IdentityInit
<1>2. IdentityInv /\ [Identity!Next]_Identity!vars => IdentityInv'
  BY IdentityStep
<1> QED BY <1>1, <1>2, PTL DEF Identity!Spec

\* Every variable keeps its type: what is stored under both names, what is
\* staged and what waits to be committed.
THEOREM IdentityTyped ==
  ASSUME IdentityBounds
  PROVE  Identity!Spec => []Identity!TypeOK
<1>1. IdentityInv => Identity!TypeOK
  <2> SUFFICES ASSUME IdentityInv PROVE Identity!TypeOK
    OBVIOUS
  <2>1. root \in Identity!Roots
    BY DEF IdentityInv, Clean
  <2>2. \A i \in DOMAIN pending : pending[i] \in [base : Identity!Roots, cand : Identity!Roots]
    <3> DEFINE R == [base : Identity!Roots, cand : Identity!Roots]
    <3>1. pending \in Seq(R)
      BY DEF IdentityInv
    <3> HIDE DEF R
    <3>2. \A i \in DOMAIN pending : pending[i] \in R
      BY <3>1
    <3> QED BY <3>2 DEF R
  <2>3. sighted \in [Identity!Ids -> 0 .. MaxClock]
    BY DEF IdentityInv, IdentityBounds
  <2> QED BY <2>1, <2>2, <2>3 DEF IdentityInv, Identity!TypeOK, Choice
<1> QED BY <1>1, IdentityHolds, PTL

\* A candidate, however old it is when it is committed, undoes no choice that
\* was made after it was staged, unless it makes or moves a whole bucket.
THEOREM ChoicesHold ==
  ASSUME IdentityBounds
  PROVE  Identity!Spec => []Identity!ChoiceHolds
<1>1. IdentityInv => Identity!ChoiceHolds
  BY RootMerged DEF Identity!ChoiceHolds, Identity!View
<1> QED BY <1>1, IdentityHolds, PTL

\* The earliest sighting of an installation is retained over the renaming.
THEOREM FirstSightings ==
  ASSUME IdentityBounds
  PROVE  Identity!Spec => []Identity!FirstSightingHolds
<1>1. IdentityInv => Identity!FirstSightingHolds
  BY RootMerged DEF Identity!FirstSightingHolds, Identity!View
<1> QED BY <1>1, IdentityHolds, PTL
-----------------------------
(* The repair of the Latest page's requests (AjaxRepair).                  *)
CONSTANTS Owners, PollLimit, MaxRequests, MaxTurns
VARIABLES generation, patched, poll, timers, jquery, ajax, requests, adapter, buried, turns

Ajax == INSTANCE AjaxRepair

AjaxBounds == Ajax!None \notin Owners /\ PollLimit \in Nat

AjaxTypes ==
  /\ bridge \in {"none", "listening", "gone"} /\ enabled \in BOOLEAN /\ pending = FALSE
  /\ generation \in Nat /\ made \in Nat
  /\ patched \in [owner : Owners \union {Ajax!None}, wrapper : 0 .. made]
  /\ poll \in [on : BOOLEAN, attempts : 0 .. PollLimit]
  /\ jquery \in Owners \union {Ajax!None} /\ (requests # <<>> => jquery # Ajax!None)
  /\ ajax \in [Owners -> Seq(0 .. made)] /\ buried \subseteq 1 .. made

\* The wrappers s of a function are another script's, are buried, or are w.
Fits(s, b, w) == \A k \in 1 .. Len(s) : s[k] = 0 \/ s[k] \in b \/ s[k] = w

\* Only another script's are around w, and it is there once.
Outermost(s, w) ==
  \E k \in 1 .. Len(s) : /\ s[k] = w
                         /\ \A j \in 1 .. Len(s) : (j < k => s[j] = 0) /\ (j > k => s[j] # w)

Ours(o) == IF o = patched.owner THEN patched.wrapper ELSE 0

PatchedInv ==
  /\ \A o \in Owners : Fits(ajax[o], buried, Ours(o))
  /\ patched.wrapper = 0 => patched = Ajax!NotPatched
  /\ patched.wrapper # 0 => /\ enabled /\ patched.owner \in Owners /\ patched.wrapper \notin buried
                            /\ Outermost(ajax[patched.owner], patched.wrapper)
  /\ poll.on => enabled /\ patched = Ajax!NotPatched

-----------------------------
(* The wrappers.                                                           *)

\* A wrapper goes around the others, or the outermost one is taken away.
LEMMA Wrapped ==
  ASSUME NEW S, NEW s \in Seq(S), NEW v \in S
  PROVE  /\ <<v>> \o s \in Seq(S) /\ Len(<<v>> \o s) = Len(s) + 1
         /\ \A k \in 1 .. Len(s) + 1 : (<<v>> \o s)[k] = IF k = 1 THEN v ELSE s[k - 1]
OBVIOUS

LEMMA Unwrapped ==
  ASSUME NEW S, NEW s \in Seq(S), s # <<>>
  PROVE  /\ Tail(s) \in Seq(S) /\ Len(Tail(s)) = Len(s) - 1 /\ Len(s) \in Nat \ {0}
         /\ \A k \in 1 .. Len(s) - 1 : Tail(s)[k] = s[k + 1]
         /\ Head(s) = s[1]
OBVIOUS

LEMMA TopIsFirst ==
  ASSUME NEW o
  PROVE  /\ ajax[o] = <<>> => Ajax!Top(o) = 0
         /\ ajax[o] # <<>> => Ajax!Top(o) = Head(ajax[o])
BY DEF Ajax!Top

\* A new wrapper of ours.
LEMMA FreshWrapper ==
  ASSUME NEW m \in Nat, NEW s \in Seq(0 .. m), NEW b \in SUBSET (1 .. m), Fits(s, b, 0)
  PROVE  /\ <<m + 1>> \o s \in Seq(0 .. m + 1)
         /\ Fits(<<m + 1>> \o s, b, m + 1) /\ Outermost(<<m + 1>> \o s, m + 1)
<1> DEFINE u == <<m + 1>> \o s
<1>1. s \in Seq(0 .. m + 1)
  <2>1. 0 .. m \subseteq 0 .. m + 1
    OBVIOUS
  <2> QED BY <2>1
<1>2. /\ u \in Seq(0 .. m + 1) /\ Len(u) = Len(s) + 1
      /\ \A k \in 1 .. Len(s) + 1 : u[k] = IF k = 1 THEN m + 1 ELSE s[k - 1]
  BY <1>1, Wrapped
<1>3. Len(s) \in Nat /\ \A k \in 1 .. Len(s) : s[k] \in 0 .. m
  OBVIOUS
<1> HIDE DEF u
<1>4. Fits(u, b, m + 1)
  <2> SUFFICES ASSUME NEW k \in 1 .. Len(u)
               PROVE  u[k] = 0 \/ u[k] \in b \/ u[k] = m + 1
    BY DEF Fits
  <2>1. k = 1 \/ k - 1 \in 1 .. Len(s)
    BY <1>2, <1>3
  <2> QED BY <1>2, <1>3, <2>1 DEF Fits
<1>5. Outermost(u, m + 1)
  <2>1. 1 \in 1 .. Len(u) /\ u[1] = m + 1
    BY <1>2, <1>3
  <2>2. ASSUME NEW j \in 1 .. Len(u)
        PROVE  (j < 1 => u[j] = 0) /\ (j > 1 => u[j] # m + 1)
    <3>1. CASE j = 1
      BY <3>1
    <3>2. CASE j # 1
      <4>1. j - 1 \in 1 .. Len(s) /\ j \in 1 .. Len(s) + 1 /\ j > 1
        BY <1>2, <1>3, <3>2
      <4>2. u[j] = s[j - 1]
        BY <1>2, <3>2, <4>1
      <4>3. s[j - 1] \in 0 .. m
        BY <1>3, <4>1
      <4> QED BY <4>1, <4>2, <4>3
    <3> QED BY <3>1, <3>2
  <2> QED BY <2>1, <2>2 DEF Outermost
<1> QED BY <1>2, <1>4, <1>5 DEF u

\* Another script's wrapper comes or goes.
LEMMA ForeignWrapper ==
  ASSUME NEW m \in Nat, NEW s \in Seq(0 .. m), NEW b, NEW w \in 0 .. m, Fits(s, b, w)
  PROVE  /\ <<0>> \o s \in Seq(0 .. m) /\ Fits(<<0>> \o s, b, w)
         /\ w # 0 /\ Outermost(s, w) => Outermost(<<0>> \o s, w)
         /\ s # <<>> => Tail(s) \in Seq(0 .. m) /\ Fits(Tail(s), b, w)
         /\ s # <<>> /\ Head(s) = 0 /\ w # 0 /\ Outermost(s, w) => Outermost(Tail(s), w)
<1> DEFINE u == <<0>> \o s
<1>1. /\ u \in Seq(0 .. m) /\ Len(u) = Len(s) + 1 /\ Len(s) \in Nat
      /\ \A k \in 1 .. Len(s) + 1 : u[k] = IF k = 1 THEN 0 ELSE s[k - 1]
  BY Wrapped
<1> HIDE DEF u
<1>2. Fits(u, b, w)
  <2> SUFFICES ASSUME NEW k \in 1 .. Len(u)
               PROVE  u[k] = 0 \/ u[k] \in b \/ u[k] = w
    BY DEF Fits
  <2>1. k = 1 \/ k - 1 \in 1 .. Len(s)
    BY <1>1
  <2> QED BY <1>1, <2>1 DEF Fits
<1>3. ASSUME w # 0, Outermost(s, w)
      PROVE  Outermost(u, w)
  <2>1. PICK k \in 1 .. Len(s) :
          s[k] = w /\ \A j \in 1 .. Len(s) : (j < k => s[j] = 0) /\ (j > k => s[j] # w)
    BY <1>3 DEF Outermost
  <2>2. k + 1 \in 1 .. Len(u) /\ u[k + 1] = w
    BY <1>1, <2>1
  <2>3. ASSUME NEW j \in 1 .. Len(u)
        PROVE  (j < k + 1 => u[j] = 0) /\ (j > k + 1 => u[j] # w)
    <3>1. CASE j = 1
      BY <1>1, <2>1, <3>1
    <3>2. CASE j # 1
      <4>1. j - 1 \in 1 .. Len(s) /\ u[j] = s[j - 1]
        BY <1>1, <3>2
      <4> QED BY <2>1, <4>1
    <3> QED BY <3>1, <3>2
  <2> QED BY <2>2, <2>3 DEF Outermost
<1>4. ASSUME s # <<>>
      PROVE  Tail(s) \in Seq(0 .. m) /\ Fits(Tail(s), b, w)
  BY <1>4, Unwrapped DEF Fits
<1>5. ASSUME s # <<>>, Head(s) = 0, w # 0, Outermost(s, w)
      PROVE  Outermost(Tail(s), w)
  <2>1. PICK k \in 1 .. Len(s) :
          s[k] = w /\ \A j \in 1 .. Len(s) : (j < k => s[j] = 0) /\ (j > k => s[j] # w)
    BY <1>5 DEF Outermost
  <2> DEFINE t == Tail(s)
  <2>2. /\ Len(t) = Len(s) - 1 /\ Len(s) \in Nat
        /\ \A i \in 1 .. Len(s) - 1 : t[i] = s[i + 1]
        /\ s[1] = 0
    BY <1>5, Unwrapped
  <2> HIDE DEF t
  <2>3. k # 1 /\ k - 1 \in 1 .. Len(t) /\ t[k - 1] = w
    BY <1>5, <2>1, <2>2
  <2>4. \A j \in 1 .. Len(t) : (j < k - 1 => t[j] = 0) /\ (j > k - 1 => t[j] # w)
    BY <2>1, <2>2
  <2> QED BY <2>3, <2>4 DEF Outermost, t
<1> QED BY <1>1, <1>2, <1>3, <1>4, <1>5 DEF u

\* Ours is taken away where it is outermost; what is left is buried.
LEMMA OursTaken ==
  ASSUME NEW m \in Nat, NEW s \in Seq(0 .. m), NEW b, NEW w \in 1 .. m, w \notin b,
         Fits(s, b, w), Outermost(s, w)
  PROVE  /\ s # <<>> /\ Head(s) \in {0, w}
         /\ Head(s) = w => Fits(Tail(s), b, 0) /\ Tail(s) \in Seq(0 .. m)
<1>1. PICK k \in 1 .. Len(s) :
        s[k] = w /\ \A j \in 1 .. Len(s) : (j < k => s[j] = 0) /\ (j > k => s[j] # w)
  BY DEF Outermost
<1>2. s # <<>> /\ Len(s) \in Nat /\ 1 \in 1 .. Len(s) /\ Head(s) = s[1]
  BY <1>1
<1>3. Head(s) \in {0, w}
  BY <1>1, <1>2
<1>4. ASSUME Head(s) = w
      PROVE  Fits(Tail(s), b, 0) /\ Tail(s) \in Seq(0 .. m)
  <2> DEFINE t == Tail(s)
  <2>1. /\ t \in Seq(0 .. m) /\ Len(t) = Len(s) - 1
        /\ \A i \in 1 .. Len(s) - 1 : t[i] = s[i + 1]
    BY <1>2, Unwrapped
  <2> HIDE DEF t
  <2>2. k = 1
    BY <1>1, <1>2, <1>4
  <2>3. \A i \in 1 .. Len(t) : i + 1 \in 1 .. Len(s) /\ i + 1 > 1 /\ t[i] = s[i + 1]
    BY <1>2, <2>1
  <2>4. Fits(t, b, 0)
    BY <1>1, <2>2, <2>3 DEF Fits
  <2> QED BY <2>1, <2>4 DEF t
<1> QED BY <1>2, <1>3, <1>4

-----------------------------
(* The requests and the retries.                                           *)

Retries(s, r) == {q \in DOMAIN s : s[q].by = r}
Waiting(tm, r) == {t \in tm : t.request = r}
Made(m) == [by : Nat, open : BOOLEAN, ours : SUBSET (1 .. m), retried : BOOLEAN]
Allowed(x) == IF x.by = 0 THEN Cardinality(x.ours) ELSE 0

\* What is claimed of the requests s and the timers tm, with m wrappers of ours.
Claimed(s, tm, m) ==
  /\ s \in Seq(Made(m))
  /\ IsFiniteSet(tm)
  /\ \A t \in tm : t.request \in DOMAIN s /\ ~s[t.request].open
  /\ \A q \in DOMAIN s :
       /\ s[q].by < q
       /\ s[q].by # 0 => ~s[s[q].by].open /\ (s[q].retried \/ s[q].ours = {})
       /\ s[q].retried => s[q].by # 0
  /\ \A r \in DOMAIN s : Cardinality(Retries(s, r)) + Cardinality(Waiting(tm, r)) <= Allowed(s[r])

LEMMA Requested ==
  ASSUME NEW m \in Nat, NEW s, NEW tm, Claimed(s, tm, m)
  PROVE  /\ s \in Seq(Made(m)) /\ Len(s) \in Nat /\ DOMAIN s = 1 .. Len(s)
         /\ \A q \in DOMAIN s : s[q] \in Made(m)
BY DEF Claimed

LEMMA Counts ==
  ASSUME NEW m \in Nat, NEW s, NEW tm, Claimed(s, tm, m), NEW r \in DOMAIN s
  PROVE  /\ IsFiniteSet(Retries(s, r)) /\ Cardinality(Retries(s, r)) \in Nat
         /\ IsFiniteSet(Waiting(tm, r)) /\ Cardinality(Waiting(tm, r)) \in Nat
         /\ IsFiniteSet(s[r].ours) /\ Cardinality(s[r].ours) \in Nat
<1>1. IsFiniteSet(1 .. Len(s)) /\ Retries(s, r) \subseteq 1 .. Len(s)
  <2>1. DOMAIN s = 1 .. Len(s) /\ Len(s) \in Nat
    BY Requested
  <2>2. IsFiniteSet(1 .. Len(s))
    BY <2>1, FS_Interval
  <2> QED BY <2>1, <2>2 DEF Retries
<1>2. IsFiniteSet(tm) /\ Waiting(tm, r) \subseteq tm
  BY DEF Waiting, Claimed
<1>3. s[r].ours \subseteq 1 .. m /\ IsFiniteSet(1 .. m)
  <2>1. s[r] \in Made(m)
    BY Requested
  <2>2. s[r].ours \subseteq 1 .. m
    BY <2>1 DEF Made
  <2>3. IsFiniteSet(1 .. m)
    BY FS_Interval
  <2> QED BY <2>2, <2>3
<1>4. IsFiniteSet(Retries(s, r)) /\ IsFiniteSet(Waiting(tm, r)) /\ IsFiniteSet(s[r].ours)
  <2>1. \A S, T : IsFiniteSet(S) /\ T \subseteq S => IsFiniteSet(T)
    BY FS_Subset
  <2> QED BY <1>1, <1>2, <1>3, <2>1
<1> QED BY <1>4, FS_CardinalityType

\* More wrappers are made.
LEMMA ClaimedMore ==
  ASSUME NEW m \in Nat, NEW s, NEW tm, Claimed(s, tm, m)
  PROVE  Claimed(s, tm, m + 1) /\ Claimed(s, {}, m)
<1>1. s \in Seq(Made(m + 1))
  <2>1. Made(m) \subseteq Made(m + 1)
    BY DEF Made
  <2>2. s \in Seq(Made(m))
    BY Requested
  <2> QED BY <2>1, <2>2
<1>2. Claimed(s, tm, m + 1)
  BY <1>1 DEF Claimed
<1>3. \A r \in DOMAIN s : Cardinality(Retries(s, r)) + Cardinality(Waiting({}, r)) <= Allowed(s[r])
  <2> SUFFICES ASSUME NEW r \in DOMAIN s
               PROVE  Cardinality(Retries(s, r)) + Cardinality(Waiting({}, r)) <= Allowed(s[r])
    OBVIOUS
  <2>1. Waiting({}, r) = {} /\ Cardinality({}) = 0
    BY FS_EmptySet DEF Waiting
  <2>2. Cardinality(Retries(s, r)) + Cardinality(Waiting(tm, r)) <= Allowed(s[r])
    BY DEF Claimed
  <2>3. /\ Allowed(s[r]) \in Nat /\ Cardinality(Retries(s, r)) \in Nat
        /\ Cardinality(Waiting(tm, r)) \in Nat
    BY Counts DEF Allowed
  <2>4. Cardinality(Waiting({}, r)) = 0
    BY <2>1
  <2> QED BY <2>2, <2>3, <2>4
<1>4. Claimed(s, {}, m)
  BY <1>3, FS_EmptySet DEF Claimed
<1> QED BY <1>2, <1>4

\* A request is made, by the user or as the retry of one that has failed.
LEMMA Asking ==
  ASSUME NEW m \in Nat, NEW s, NEW tm, Claimed(s, tm, m), NEW e,
         e \in Made(m),
         e.by = 0 => ~e.retried,
         e.by # 0 => e.by \in DOMAIN s /\ ~s[e.by].open /\ (e.retried \/ e.ours = {}),
         \A r \in DOMAIN s : r = e.by =>
            Cardinality(Retries(s, r)) + Cardinality(Waiting(tm, r)) < Allowed(s[r])
  PROVE  Claimed(Append(s, e), tm, m)
<1> DEFINE u == Append(s, e)
           n == Len(s)
<1>1. s \in Seq(Made(m)) /\ \A q \in DOMAIN s : s[q] \in Made(m)
  BY Requested
<1>2. /\ u \in Seq(Made(m)) /\ n \in Nat /\ DOMAIN s = 1 .. n /\ DOMAIN u = 1 .. n + 1
      /\ \A q \in 1 .. n : u[q] = s[q]
      /\ u[n + 1] = e
  BY <1>1
<1> HIDE DEF u, n
<1>3. \A t \in tm : t.request \in DOMAIN u /\ ~u[t.request].open
  BY <1>2 DEF Claimed
<1>4. ASSUME NEW q \in DOMAIN u
      PROVE  /\ u[q].by < q
             /\ u[q].by # 0 => ~u[u[q].by].open /\ (u[q].retried \/ u[q].ours = {})
             /\ u[q].retried => u[q].by # 0
  <2>1. CASE q \in 1 .. n
    <3>1. /\ s[q].by < q
          /\ s[q].by # 0 => ~s[s[q].by].open /\ (s[q].retried \/ s[q].ours = {})
          /\ s[q].retried => s[q].by # 0
      BY <1>2, <2>1 DEF Claimed
    <3>3. s[q].by \in Nat
      BY <1>1, <1>2, <2>1 DEF Made
    <3>2. s[q].by # 0 => s[q].by \in 1 .. n
      BY <1>2, <2>1, <3>1, <3>3
    <3> QED BY <1>2, <2>1, <3>1, <3>2
  <2>2. CASE q = n + 1
    <3>1. e.by # 0 => e.by \in 1 .. n
      BY <1>2
    <3> QED BY <1>2, <2>2, <3>1
  <2> QED BY <1>2, <2>1, <2>2
<1>5. ASSUME NEW r \in DOMAIN u
      PROVE  Cardinality(Retries(u, r)) + Cardinality(Waiting(tm, r)) <= Allowed(u[r])
  <2>1. CASE r \in 1 .. n
    <3>1. u[r] = s[r] /\ r \in DOMAIN s
      BY <1>2, <2>1
    <3>2. /\ IsFiniteSet(Retries(s, r)) /\ Cardinality(Retries(s, r)) \in Nat
          /\ Cardinality(Waiting(tm, r)) \in Nat /\ Allowed(s[r]) \in Nat
      BY <3>1, Counts DEF Allowed
    <3>3. Retries(u, r) = IF e.by = r THEN Retries(s, r) \union {n + 1} ELSE Retries(s, r)
      BY <1>2, <2>1 DEF Retries
    <3>4. Cardinality(Retries(u, r)) <= IF e.by = r THEN Cardinality(Retries(s, r)) + 1
                                       ELSE Cardinality(Retries(s, r))
      <4>1. Cardinality(Retries(s, r) \union {n + 1}) <= Cardinality(Retries(s, r)) + 1
        <5>1. Cardinality(Retries(s, r) \union {n + 1})
                = IF n + 1 \in Retries(s, r) THEN Cardinality(Retries(s, r))
                  ELSE Cardinality(Retries(s, r)) + 1
          BY <3>2, FS_AddElement
        <5> QED BY <3>2, <5>1
      <4> QED BY <3>2, <3>3, <4>1
    <3>5. Cardinality(Retries(u, r)) \in Nat
      BY <3>2, <3>3, FS_AddElement, FS_CardinalityType
    <3>6. Cardinality(Retries(s, r)) + Cardinality(Waiting(tm, r)) <= Allowed(s[r])
      BY <3>1 DEF Claimed
    <3> QED BY <3>1, <3>2, <3>4, <3>5, <3>6
  <2>2. CASE r = n + 1
    <3>1. Retries(u, r) = {}
      BY <1>2, <1>4, <2>2 DEF Retries
    <3>2. Waiting(tm, r) = {}
      <4>1. \A t \in tm : t.request \in 1 .. n
        BY <1>2 DEF Claimed
      <4> QED BY <1>2, <2>2, <4>1 DEF Waiting
    <3>3. Allowed(u[r]) \in Nat
      <4>1. IsFiniteSet(e.ours)
        <5>1. e.ours \in SUBSET (1 .. m) /\ IsFiniteSet(1 .. m)
          BY FS_Interval DEF Made
        <5> QED BY <5>1, FS_Subset
      <4> QED BY <1>2, <2>2, <4>1, FS_CardinalityType DEF Allowed
    <3> QED BY <3>1, <3>2, <3>3, FS_EmptySet
  <2> QED BY <1>2, <2>1, <2>2
<1> QED BY <1>2, <1>3, <1>4, <1>5 DEF Claimed, u

\* The timers that the wrappers W set for the request r.
Timers(r, g, W) == {[request |-> r, generation |-> g, wrapper |-> w] : w \in W}

\* A request is answered, or it fails and the wrappers W set their timers.
LEMMA Settling ==
  ASSUME NEW m \in Nat, NEW s, NEW tm, Claimed(s, tm, m), NEW r \in DOMAIN s, s[r].open,
         NEW W \in SUBSET s[r].ours, W # {} => ~s[r].retried, NEW g
  PROVE  Claimed([s EXCEPT ![r].open = FALSE], tm \union Timers(r, g, W), m)
<1> DEFINE u == [s EXCEPT ![r].open = FALSE]
           N == Timers(r, g, W)
<1>1. s \in Seq(Made(m)) /\ \A q \in DOMAIN s : s[q] \in Made(m)
  BY Requested
<1>2. /\ u \in Seq(Made(m)) /\ DOMAIN u = DOMAIN s
      /\ \A q \in DOMAIN s : /\ u[q].by = s[q].by /\ u[q].retried = s[q].retried
                             /\ u[q].ours = s[q].ours /\ (u[q].open => s[q].open)
      /\ ~u[r].open
  <2>1. \A q \in DOMAIN s : u[q] = IF q = r THEN [s[r] EXCEPT !.open = FALSE] ELSE s[q]
    BY <1>1
  <2>2. [s[r] EXCEPT !.open = FALSE] \in Made(m)
    BY <1>1 DEF Made
  <2>3. u \in Seq(Made(m)) /\ DOMAIN u = DOMAIN s
    BY <1>1, <2>2
  <2>4. /\ [s[r] EXCEPT !.open = FALSE].by = s[r].by
        /\ [s[r] EXCEPT !.open = FALSE].retried = s[r].retried
        /\ [s[r] EXCEPT !.open = FALSE].ours = s[r].ours
        /\ [s[r] EXCEPT !.open = FALSE].open = FALSE
    BY <1>1 DEF Made
  <2> QED BY <2>1, <2>3, <2>4
<1> HIDE DEF u
<1>3. IsFiniteSet(W) /\ IsFiniteSet(N) /\ Cardinality(N) <= Cardinality(W)
  <2>1. IsFiniteSet(W)
    BY Counts, FS_Subset
  <2> DEFINE f == [w \in W |-> [request |-> r, generation |-> g, wrapper |-> w]]
  <2>2. f \in [W -> N] /\ \A t \in N : \E w \in W : f[w] = t
    BY DEF Timers
  <2> HIDE DEF f, N
  <2>3. f \in Surjection(W, N)
    BY <2>2 DEF Surjection
  <2> QED BY <2>1, <2>3, FS_Surjection
<1>4. IsFiniteSet(tm \union N)
  BY <1>3, FS_Union DEF Claimed
<1>5. \A t \in N : t.request = r
  BY DEF Timers
<1> HIDE DEF N
<1>6. \A t \in tm \union N : t.request \in DOMAIN u /\ ~u[t.request].open
  BY <1>2, <1>5 DEF Claimed
<1>7. \A q \in DOMAIN u :
        /\ u[q].by < q
        /\ u[q].by # 0 => ~u[u[q].by].open /\ (u[q].retried \/ u[q].ours = {})
        /\ u[q].retried => u[q].by # 0
  <2> SUFFICES ASSUME NEW q \in DOMAIN s
               PROVE  /\ u[q].by < q
                      /\ u[q].by # 0 => ~u[u[q].by].open /\ (u[q].retried \/ u[q].ours = {})
                      /\ u[q].retried => u[q].by # 0
    BY <1>2
  <2>1. /\ s[q].by < q
        /\ s[q].by # 0 => ~s[s[q].by].open /\ (s[q].retried \/ s[q].ours = {})
        /\ s[q].retried => s[q].by # 0
    BY DEF Claimed
  <2>2. s[q].by # 0 => s[q].by \in DOMAIN s
    <3>1. s[q].by \in Nat /\ q \in 1 .. Len(s) /\ Len(s) \in Nat /\ DOMAIN s = 1 .. Len(s)
      BY <1>1, Requested DEF Made
    <3> QED BY <2>1, <3>1
  <2> QED BY <1>2, <2>1, <2>2
<1>8. ASSUME NEW q \in DOMAIN u
      PROVE  Cardinality(Retries(u, q)) + Cardinality(Waiting(tm \union N, q)) <= Allowed(u[q])
  <2>1. Retries(u, q) = Retries(s, q)
    BY <1>2 DEF Retries
  <2>2. CASE q # r
    <3>1. Waiting(tm \union N, q) = Waiting(tm, q)
      BY <1>5, <2>2 DEF Waiting
    <3>2. Allowed(u[q]) = Allowed(s[q])
      BY <1>2 DEF Allowed
    <3> QED BY <1>2, <2>1, <3>1, <3>2 DEF Claimed
  <2>3. CASE q = r
    <3>1. Retries(s, r) = {}
      BY <1>1 DEF Retries, Claimed
    <3>2. Waiting(tm \union N, r) = N
      BY <1>5 DEF Waiting, Claimed
    <3>3. Allowed(u[r]) = IF s[r].by = 0 THEN Cardinality(s[r].ours) ELSE 0
      BY <1>2 DEF Allowed
    <3>4. /\ Cardinality(W) <= Cardinality(s[r].ours)
          /\ Cardinality(N) \in Nat /\ Cardinality(W) \in Nat /\ Cardinality(s[r].ours) \in Nat
      BY <1>3, Counts, FS_Subset, FS_CardinalityType
    <3>5. s[r].by # 0 => W = {}
      BY DEF Claimed
    <3> QED BY <1>3, <2>1, <2>3, <3>1, <3>2, <3>3, <3>4, <3>5, FS_EmptySet
  <2> QED BY <2>2, <2>3
<1> QED BY <1>2, <1>4, <1>6, <1>7, <1>8 DEF Claimed, u, N

\* A timer is gone.
LEMMA Fired ==
  ASSUME NEW m \in Nat, NEW s, NEW tm, Claimed(s, tm, m), NEW t \in tm
  PROVE  /\ Claimed(s, tm \ {t}, m) /\ t.request \in DOMAIN s /\ ~s[t.request].open
         /\ Cardinality(Retries(s, t.request)) + Cardinality(Waiting(tm \ {t}, t.request))
              < Allowed(s[t.request])
<1> DEFINE r == t.request
<1>1. r \in DOMAIN s /\ ~s[r].open
  BY DEF Claimed
<1>2. /\ Cardinality(Retries(s, r)) \in Nat /\ IsFiniteSet(Waiting(tm, r))
      /\ Cardinality(Waiting(tm, r)) \in Nat /\ Allowed(s[r]) \in Nat
  BY <1>1, Counts DEF Allowed
<1>3. Waiting(tm \ {t}, r) = Waiting(tm, r) \ {t} /\ t \in Waiting(tm, r)
  BY DEF Waiting
<1>4. Cardinality(Waiting(tm \ {t}, r)) = Cardinality(Waiting(tm, r)) - 1
  BY <1>2, <1>3, FS_RemoveElement, ZenonT(60)
<1>5. Cardinality(Retries(s, r)) + Cardinality(Waiting(tm, r)) <= Allowed(s[r])
  BY <1>1 DEF Claimed
<1>6. ASSUME NEW q \in DOMAIN s
      PROVE  Cardinality(Retries(s, q)) + Cardinality(Waiting(tm \ {t}, q)) <= Allowed(s[q])
  <2>1. CASE q = r
    BY <1>2, <1>4, <1>5, <2>1
  <2>2. CASE q # r
    <3>1. Waiting(tm \ {t}, q) = Waiting(tm, q)
      BY <2>2 DEF Waiting
    <3> QED BY <3>1 DEF Claimed
  <2> QED BY <2>1, <2>2
<1>7. IsFiniteSet(tm \ {t})
  BY FS_RemoveElement DEF Claimed
<1>8. Claimed(s, tm \ {t}, m)
  BY <1>6, <1>7 DEF Claimed
<1> QED BY <1>1, <1>2, <1>4, <1>5, <1>8

-----------------------------
(* The script and its adapter.                                             *)

AjaxInv ==
  /\ AjaxTypes /\ PatchedInv /\ Claimed(requests, timers, made)
  /\ timers \subseteq [request : Nat, generation : Nat, wrapper : 1 .. made]
  /\ Ajax!NoRetryWhenOff /\ Ajax!AdapterKnows

LEMMA OursAreMade ==
  ASSUME NEW m \in Nat, NEW s \in Seq(0 .. m)
  PROVE  Ajax!OursIn(s) \subseteq 1 .. m
<1>1. \A k \in DOMAIN s : s[k] \in 0 .. m
  OBVIOUS
<1> QED BY <1>1 DEF Ajax!OursIn

LEMMA MoreWrappers == ASSUME NEW m \in Nat, NEW s \in Seq(0 .. m) PROVE s \in Seq(0 .. m + 1)
<1>1. 0 .. m \subseteq 0 .. m + 1
  OBVIOUS
<1> QED BY <1>1

LEMMA Patching ==
  ASSUME AjaxBounds, AjaxTypes, PatchedInv, patched = Ajax!NotPatched, enabled', Ajax!Patch,
         poll'.on => jquery = Ajax!None, UNCHANGED <<buried, jquery>>
  PROVE  /\ PatchedInv' /\ made' \in {made, made + 1} /\ made' \in Nat /\ made <= made'
         /\ patched' \in [owner : Owners \union {Ajax!None}, wrapper : 0 .. made']
         /\ ajax' \in [Owners -> Seq(0 .. made')]
         /\ jquery = Ajax!None => UNCHANGED <<made, patched, ajax>>
<1> USE DEF Ajax!NotPatched
<1>1. CASE jquery # Ajax!None /\ Ajax!Top(jquery) = 0
  <2>1. /\ made' = made + 1 /\ patched' = [owner |-> jquery, wrapper |-> made + 1]
        /\ ajax' = [ajax EXCEPT ![jquery] = <<made + 1>> \o @]
    BY <1>1 DEF Ajax!Patch
  <2>2. /\ jquery \in Owners /\ ajax[jquery] \in Seq(0 .. made)
        /\ buried \in SUBSET (1 .. made) /\ made \in Nat
    BY <1>1 DEF AjaxTypes
  <2>3. \A o \in Owners : Fits(ajax[o], buried, 0)
    BY DEF PatchedInv, Ours
  <2>4. /\ <<made + 1>> \o ajax[jquery] \in Seq(0 .. made + 1)
        /\ Fits(<<made + 1>> \o ajax[jquery], buried, made + 1)
        /\ Outermost(<<made + 1>> \o ajax[jquery], made + 1)
    BY <2>2, <2>3, FreshWrapper
  <2>5. ajax \in [Owners -> Seq(0 .. made + 1)]
    <3>2. \A o \in Owners : ajax[o] \in Seq(0 .. made + 1)
      <4> SUFFICES ASSUME NEW o \in Owners
                   PROVE  ajax[o] \in Seq(0 .. made + 1)
        OBVIOUS
      <4>1. ajax[o] \in Seq(0 .. made)
        BY DEF AjaxTypes
      <4> QED BY <2>2, <4>1, MoreWrappers
    <3> QED BY <3>2 DEF AjaxTypes
  <2>6. ajax' \in [Owners -> Seq(0 .. made')]
    BY <2>1, <2>2, <2>4, <2>5
  <2>7. \A o \in Owners : ajax'[o] = IF o = jquery THEN <<made + 1>> \o ajax[jquery] ELSE ajax[o]
    BY <2>1, <2>5
  <2>8. \A o \in Owners : Fits(ajax'[o], buried, IF o = jquery THEN made + 1 ELSE 0)
    BY <2>3, <2>4, <2>7
  <2>9. made + 1 \notin buried /\ made + 1 # 0 /\ made + 1 \in 0 .. made + 1
    BY <2>2
  <2>10. PatchedInv'
    <3>1. patched'.owner = jquery /\ patched'.wrapper = made + 1
      BY <2>1
    <3>2. (\A o \in Owners : Fits(ajax[o], buried, Ours(o)))'
      BY <2>8, <3>1 DEF Ours
    <3>3. Outermost(ajax'[jquery], made + 1)
      BY <2>2, <2>4, <2>7
    <3>4. ~poll'.on
      BY <1>1
    <3> QED BY <2>2, <2>9, <3>1, <3>2, <3>3, <3>4 DEF PatchedInv
  <2> QED BY <1>1, <2>1, <2>2, <2>6, <2>9, <2>10
<1>2. CASE ~(jquery # Ajax!None /\ Ajax!Top(jquery) = 0)
  <2>1. UNCHANGED <<made, patched, ajax>>
    BY <1>2 DEF Ajax!Patch
  <2>2. PatchedInv'
    BY <2>1 DEF PatchedInv, Ours
  <2> QED BY <2>1, <2>2 DEF AjaxTypes
<1> QED BY <1>1, <1>2

\* Ours is taken away, or it is buried.
LEMMA Unpatching ==
  ASSUME AjaxBounds, AjaxTypes, PatchedInv, Ajax!Disabled
  PROVE  /\ PatchedInv' /\ ajax' \in [Owners -> Seq(0 .. made)]
         /\ buried' \in SUBSET (1 .. made)
<1>1. /\ ~enabled' /\ ~poll'.on /\ poll' = Ajax!NotPolling
      /\ patched' = Ajax!NotPatched /\ ajax' = Ajax!Restored
      /\ made \in Nat /\ ajax \in [Owners -> Seq(0 .. made)] /\ buried \in SUBSET (1 .. made)
      /\ patched \in [owner : Owners \union {Ajax!None}, wrapper : 0 .. made]
  BY DEF Ajax!Disabled, Ajax!NotPolling, AjaxTypes
<1>2. SUFFICES /\ \A o \in Owners : Fits(ajax'[o], buried', 0)
               /\ ajax' \in [Owners -> Seq(0 .. made)] /\ buried' \in SUBSET (1 .. made)
  <2> SUFFICES ASSUME \A o \in Owners : Fits(ajax'[o], buried', 0)
               PROVE  PatchedInv'
    OBVIOUS
  <2>1. patched'.wrapper = 0
    BY <1>1 DEF Ajax!NotPatched
  <2>2. (\A o \in Owners : Fits(ajax[o], buried, Ours(o)))'
    BY <2>1 DEF Ours
  <2> QED BY <1>1, <2>1, <2>2 DEF PatchedInv
<1>3. CASE patched.wrapper = 0
  <2>1. patched = Ajax!NotPatched /\ ajax' = ajax /\ buried' = buried
    BY <1>1, <1>3 DEF PatchedInv, Ajax!Restored, Ajax!Disabled
  <2> QED BY <1>1, <1>3, <2>1 DEF PatchedInv, Ours
<1>4. CASE patched.wrapper # 0
  <2> DEFINE w == patched.wrapper
             p == patched.owner
  <2>1. /\ w \in 1 .. made /\ p \in Owners /\ w \notin buried /\ Outermost(ajax[p], w)
        /\ ajax[p] \in Seq(0 .. made) /\ Fits(ajax[p], buried, w)
    BY <1>1, <1>4 DEF PatchedInv, Ours
  <2>2. \A o \in Owners : o # p => Fits(ajax[o], buried, 0)
    BY DEF PatchedInv, Ours
  <2>3. /\ ajax[p] # <<>> /\ Head(ajax[p]) \in {0, w} /\ Ajax!Top(p) = Head(ajax[p])
        /\ Head(ajax[p]) = w => Fits(Tail(ajax[p]), buried, 0) /\ Tail(ajax[p]) \in Seq(0 .. made)
    BY <1>1, <2>1, OursTaken, TopIsFirst
  <2>4. ASSUME NEW o \in Owners, o # p
        PROVE  Ajax!Top(o) # w
    <3>1. CASE ajax[o] = <<>>
      BY <2>1, <3>1, TopIsFirst
    <3>2. CASE ajax[o] # <<>>
      <4>1. Ajax!Top(o) = Head(ajax[o]) /\ ajax[o] \in Seq(0 .. made)
        BY <1>1, <3>2, TopIsFirst
      <4>2. 1 \in 1 .. Len(ajax[o]) /\ Head(ajax[o]) = ajax[o][1]
        BY <3>2, <4>1
      <4> QED BY <2>1, <2>2, <2>4, <4>1, <4>2 DEF Fits
    <3> QED BY <3>1, <3>2
  <2>5. \A o \in Owners : ajax'[o] = IF o = p /\ Head(ajax[p]) = w THEN Tail(ajax[p]) ELSE ajax[o]
    BY <1>1, <1>4, <2>3, <2>4 DEF Ajax!Restored
  <2>6. ajax' \in [Owners -> Seq(0 .. made)]
    <3>1. DOMAIN ajax' = Owners /\ ajax' = [o \in Owners |-> ajax'[o]]
      BY <1>1 DEF Ajax!Restored
    <3>2. \A o \in Owners : ajax'[o] \in Seq(0 .. made)
      BY <1>1, <2>3, <2>5
    <3> QED BY <3>1, <3>2
  <2>7. buried' = IF Head(ajax[p]) # 0 THEN buried ELSE buried \union Ajax!OursIn(ajax[p])
    BY <1>4, <2>3 DEF Ajax!Disabled, Ajax!NotPatched
  <2>8. CASE Head(ajax[p]) = w
    <3>1. buried' = buried
      BY <2>1, <2>7, <2>8
    <3> QED BY <1>1, <2>2, <2>3, <2>5, <2>6, <2>8, <3>1
  <2>9. CASE Head(ajax[p]) # w
    <3>1. buried' = buried \union Ajax!OursIn(ajax[p]) /\ \A o \in Owners : ajax'[o] = ajax[o]
      BY <2>3, <2>5, <2>7, <2>9
    <3>2. Fits(ajax[p], buried', 0)
      <4>1. \A k \in 1 .. Len(ajax[p]) : ajax[p][k] = 0 \/ ajax[p][k] \in Ajax!OursIn(ajax[p])
        BY <2>1 DEF Ajax!OursIn
      <4> QED BY <3>1, <4>1 DEF Fits
    <3>3. \A o \in Owners : o # p => Fits(ajax[o], buried', 0)
      BY <2>2, <3>1 DEF Fits
    <3>4. buried' \in SUBSET (1 .. made)
      BY <1>1, <2>1, <3>1, OursAreMade
    <3> QED BY <2>6, <3>1, <3>2, <3>3, <3>4
  <2> QED BY <2>8, <2>9
<1> QED BY <1>1, <1>3, <1>4

LEMMA AjaxInit == ASSUME AjaxBounds, Ajax!Init PROVE AjaxInv
<1> USE DEF Ajax!Init, Ajax!NotPatched, Ajax!NotPolling
<1>1. AjaxTypes
  <2>1. <<>> \in Seq(0 .. made)
    OBVIOUS
  <2>2. ajax \in [Owners -> Seq(0 .. made)]
    BY <2>1
  <2>3. patched \in [owner : Owners \union {Ajax!None}, wrapper : 0 .. made]
    OBVIOUS
  <2>4. poll \in [on : BOOLEAN, attempts : 0 .. PollLimit]
    BY DEF AjaxBounds
  <2>5. bridge = "none" /\ enabled = FALSE /\ pending = FALSE /\ generation = 0 /\ made = 0
    OBVIOUS
  <2>6. jquery \in Owners \union {Ajax!None} /\ requests = <<>> /\ buried = {}
    OBVIOUS
  <2>7. buried \subseteq 1 .. made
    OBVIOUS
  <2> HIDE DEF Ajax!Init, Ajax!NotPatched, Ajax!NotPolling
  <2> QED BY <2>2, <2>3, <2>4, <2>5, <2>6, <2>7 DEF AjaxTypes
<1>2. PatchedInv
  <2>1. Len(<<>>) = 0
    OBVIOUS
  <2> QED BY <2>1 DEF PatchedInv, Ours, Fits
<1>3. Claimed(requests, timers, made)
  <2>1. requests \in Seq(Made(made)) /\ DOMAIN requests = {}
    OBVIOUS
  <2> QED BY <2>1, FS_EmptySet DEF Claimed
<1>4. Ajax!NoRetryWhenOff /\ Ajax!AdapterKnows
  <2>1. Ajax!Cardinality({}) = 0
    <3>1. Cardinality({}) = 0
      BY FS_EmptySet
    <3>2. Ajax!Cardinality({}) = Cardinality({})
      BY DEF Cardinality, Ajax!Cardinality
    <3> QED BY <3>1, <3>2
  <2> QED BY <2>1 DEF Ajax!NoRetryWhenOff, Ajax!AdapterKnows
<1> QED BY <1>1, <1>2, <1>3, <1>4 DEF AjaxInv

\* What the adapter was told last is so.
LEMMA Telling == ASSUME Ajax!Emitted PROVE Ajax!AdapterKnows'
BY DEF Ajax!Emitted, Ajax!AdapterKnows

LEMMA EnableKeeps == ASSUME AjaxBounds, AjaxInv, Ajax!Enable PROVE AjaxInv'
<1>1. /\ bridge' = "listening" /\ enabled' /\ Ajax!Patch /\ ~enabled
      /\ enabled' = TRUE
      /\ poll' = [on |-> jquery = Ajax!None, attempts |-> 0]
      /\ UNCHANGED <<generation, timers, pending, jquery, requests, buried>> /\ Ajax!Emitted
  BY DEF Ajax!Enable
<1>2. AjaxTypes /\ PatchedInv /\ Claimed(requests, timers, made) /\ made \in Nat
  BY DEF AjaxInv, AjaxTypes
<1>3. patched = Ajax!NotPatched
  BY <1>1, <1>2 DEF PatchedInv
<1>4. poll'.on => jquery = Ajax!None
  BY <1>1
<1>5. /\ PatchedInv' /\ made' \in {made, made + 1} /\ made' \in Nat /\ made <= made'
      /\ patched' \in [owner : Owners \union {Ajax!None}, wrapper : 0 .. made']
      /\ ajax' \in [Owners -> Seq(0 .. made')]
  BY <1>1, <1>2, <1>3, <1>4, Patching
<1>6. poll' \in [on : BOOLEAN, attempts : 0 .. PollLimit]
  BY <1>1 DEF AjaxBounds
<1>7. buried' \subseteq 1 .. made'
  BY <1>1, <1>2, <1>5 DEF AjaxTypes
<1>8. AjaxTypes'
  BY <1>1, <1>2, <1>5, <1>6, <1>7 DEF AjaxTypes
<1>9. Claimed(requests, timers, made)'
  BY <1>1, <1>2, <1>5, ClaimedMore
<1>10. timers' = {} /\ Ajax!NoRetryWhenOff'
  BY <1>1 DEF AjaxInv, Ajax!NoRetryWhenOff
<1>11. Ajax!AdapterKnows'
  BY <1>1, Telling
<1> QED BY <1>5, <1>8, <1>9, <1>10, <1>11 DEF AjaxInv

LEMMA PollTicksKeeps == ASSUME AjaxBounds, AjaxInv, Ajax!PollTicks PROVE AjaxInv'
<1>1. /\ poll.on /\ Ajax!Patch
      /\ poll' = IF jquery # Ajax!None \/ poll.attempts + 1 >= PollLimit THEN Ajax!NotPolling
                 ELSE [poll EXCEPT !.attempts = @ + 1]
      /\ UNCHANGED <<bridge, enabled, generation, timers, pending, jquery, requests, buried, turns>>
      /\ IF poll'.on THEN UNCHANGED adapter ELSE Ajax!Emitted
  BY DEF Ajax!PollTicks
<1>2. /\ AjaxTypes /\ PatchedInv /\ Claimed(requests, timers, made) /\ made \in Nat
      /\ poll \in [on : BOOLEAN, attempts : 0 .. PollLimit]
  BY DEF AjaxInv, AjaxTypes
<1>3. patched = Ajax!NotPatched /\ enabled'
  BY <1>1, <1>2 DEF PatchedInv
<1>4. poll'.on => jquery = Ajax!None
  BY <1>1 DEF Ajax!NotPolling
<1>5. /\ PatchedInv' /\ made' \in {made, made + 1} /\ made' \in Nat /\ made <= made'
      /\ patched' \in [owner : Owners \union {Ajax!None}, wrapper : 0 .. made']
      /\ ajax' \in [Owners -> Seq(0 .. made')]
      /\ jquery = Ajax!None => UNCHANGED <<made, patched, ajax>>
  BY <1>1, <1>2, <1>3, <1>4, Patching
<1>6. poll' \in [on : BOOLEAN, attempts : 0 .. PollLimit]
  <2>1. CASE jquery # Ajax!None \/ poll.attempts + 1 >= PollLimit
    BY <1>1, <2>1 DEF AjaxBounds, Ajax!NotPolling
  <2>2. CASE ~(jquery # Ajax!None \/ poll.attempts + 1 >= PollLimit)
    <3>1. poll' = [poll EXCEPT !.attempts = poll.attempts + 1]
      BY <1>1, <2>2
    <3>2. poll.attempts + 1 \in 0 .. PollLimit
      <4>1. poll.attempts \in 0 .. PollLimit /\ PollLimit \in Nat
        BY <1>2 DEF AjaxBounds
      <4> QED BY <2>2, <4>1
    <3> QED BY <1>2, <3>1, <3>2
  <2> QED BY <2>1, <2>2
<1>7. buried' \subseteq 1 .. made'
  BY <1>1, <1>2, <1>5 DEF AjaxTypes
<1>8. AjaxTypes'
  BY <1>1, <1>2, <1>5, <1>6, <1>7 DEF AjaxTypes
<1>9. Claimed(requests, timers, made)'
  BY <1>1, <1>2, <1>5, ClaimedMore
<1>10. timers' \subseteq [request : Nat, generation : Nat, wrapper : 1 .. made'] /\ Ajax!NoRetryWhenOff'
  <2>1. timers \subseteq [request : Nat, generation : Nat, wrapper : 1 .. made] /\ Ajax!NoRetryWhenOff
    BY DEF AjaxInv
  <2>2. 1 .. made \subseteq 1 .. made'
    BY <1>2, <1>5
  <2> QED BY <1>1, <2>1, <2>2 DEF Ajax!NoRetryWhenOff
<1>11. Ajax!AdapterKnows'
  <2>1. CASE poll'.on
    <3>1. jquery = Ajax!None /\ UNCHANGED <<adapter, patched, timers>> /\ Ajax!AdapterKnows
      BY <1>1, <1>4, <1>5, <2>1 DEF AjaxInv
    <3>2. poll'.on = poll.on
      <4>1. poll' = [poll EXCEPT !.attempts = @ + 1]
        BY <1>1, <2>1 DEF Ajax!NotPolling
      <4> QED BY <1>2, <4>1
    <3> QED BY <3>1, <3>2 DEF Ajax!AdapterKnows
  <2>2. CASE ~poll'.on
    BY <1>1, <2>2, Telling
  <2> QED BY <2>1, <2>2
<1> QED BY <1>5, <1>8, <1>9, <1>10, <1>11 DEF AjaxInv

LEMMA DisabledKeeps ==
  ASSUME AjaxBounds, AjaxInv, Ajax!Disabled, bridge' \in {"listening", "gone"},
         UNCHANGED <<made, jquery, requests>>, Ajax!AdapterKnows'
  PROVE  AjaxInv'
<1>1. /\ AjaxTypes /\ PatchedInv /\ Claimed(requests, timers, made) /\ made \in Nat
  BY DEF AjaxInv, AjaxTypes
<1>2. /\ PatchedInv' /\ ajax' \in [Owners -> Seq(0 .. made)] /\ buried' \in SUBSET (1 .. made)
  BY <1>1, Unpatching
<1>3. /\ enabled' = FALSE /\ pending' = FALSE /\ generation' = generation + 1
      /\ poll' = Ajax!NotPolling /\ timers' = {} /\ patched' = Ajax!NotPatched
  BY DEF Ajax!Disabled
<1>4. AjaxTypes'
  <2>1. poll' \in [on : BOOLEAN, attempts : 0 .. PollLimit]
    BY <1>3 DEF AjaxBounds, Ajax!NotPolling
  <2>2. patched' \in [owner : Owners \union {Ajax!None}, wrapper : 0 .. made]
    BY <1>1, <1>3 DEF Ajax!NotPatched
  <2>3. generation' \in Nat
    BY <1>1, <1>3 DEF AjaxTypes
  <2> QED BY <1>1, <1>2, <1>3, <2>1, <2>2, <2>3 DEF AjaxTypes
<1>5. Claimed(requests, timers, made)'
  BY <1>1, <1>3, ClaimedMore
<1> QED BY <1>2, <1>3, <1>4, <1>5 DEF AjaxInv, Ajax!NoRetryWhenOff

LEMMA DisableKeeps == ASSUME AjaxBounds, AjaxInv, Ajax!Disable PROVE AjaxInv'
<1>1. /\ Ajax!Disabled /\ bridge' \in {"listening", "gone"} /\ UNCHANGED <<made, jquery, requests>>
      /\ Ajax!Emitted
  BY DEF Ajax!Disable
<1> QED BY <1>1, Telling, DisabledKeeps

LEMMA DestroyKeeps == ASSUME AjaxBounds, AjaxInv, Ajax!Destroy PROVE AjaxInv'
<1>1. /\ Ajax!Disabled /\ bridge' \in {"listening", "gone"} /\ UNCHANGED <<made, jquery, requests>>
      /\ adapter' = [patched |-> FALSE, polling |-> FALSE, retries |-> 0]
  BY DEF Ajax!Destroy
<1>2. timers' = {} /\ patched' = Ajax!NotPatched /\ ~poll'.on /\ poll'.on = FALSE
  BY <1>1 DEF Ajax!Disabled, Ajax!NotPolling
<1>3. Ajax!Cardinality({}) = 0
  <2>1. Cardinality({}) = 0
    BY FS_EmptySet
  <2>2. Ajax!Cardinality({}) = Cardinality({})
    BY DEF Cardinality, Ajax!Cardinality
  <2> QED BY <2>1, <2>2
<1>4. Ajax!AdapterKnows'
  BY <1>1, <1>2, <1>3 DEF Ajax!AdapterKnows
<1> QED BY <1>1, <1>4, DisabledKeeps

LEMMA ComesKeeps == ASSUME AjaxBounds, AjaxInv, NEW o \in Owners, Ajax!Comes(o) PROVE AjaxInv'
<1>1. /\ jquery' = o /\ o # Ajax!None
      /\ UNCHANGED <<bridge, enabled, generation, patched, made, poll, timers, adapter, buried, pending,
                     ajax, requests>>
  BY DEF Ajax!Comes, Ajax!script, AjaxBounds
<1>2. AjaxTypes'
  BY <1>1 DEF AjaxInv, AjaxTypes
<1>3. PatchedInv'
  BY <1>1 DEF AjaxInv, PatchedInv, Ours
<1> QED BY <1>1, <1>2, <1>3 DEF AjaxInv, Ajax!NoRetryWhenOff, Ajax!AdapterKnows

LEMMA WrapsKeeps == ASSUME AjaxBounds, AjaxInv, Ajax!Wraps PROVE AjaxInv'
<1>1. /\ jquery # Ajax!None
      /\ UNCHANGED <<bridge, enabled, generation, patched, made, poll, timers, adapter, buried, pending,
                     jquery, requests>>
  BY DEF Ajax!Wraps, Ajax!script
<1>2. /\ AjaxTypes /\ PatchedInv /\ made \in Nat
      /\ jquery \in Owners /\ ajax \in [Owners -> Seq(0 .. made)]
      /\ patched.wrapper \in 0 .. made
  BY <1>1 DEF AjaxInv, AjaxTypes
<1>3. /\ ajax[jquery] \in Seq(0 .. made) /\ Fits(ajax[jquery], buried, Ours(jquery))
      /\ Ours(jquery) \in 0 .. made
  BY <1>2 DEF PatchedInv, Ours
<1>4. PICK v : /\ ajax' = [ajax EXCEPT ![jquery] = v] /\ v \in Seq(0 .. made)
               /\ Fits(v, buried, Ours(jquery))
               /\ Ours(jquery) # 0 /\ Outermost(ajax[jquery], Ours(jquery)) => Outermost(v, Ours(jquery))
  <2>1. CASE ajax' = [ajax EXCEPT ![jquery] = <<0>> \o @]
    BY <1>2, <1>3, <2>1, ForeignWrapper
  <2>2. CASE /\ ajax[jquery] # <<>> /\ Head(ajax[jquery]) = 0
             /\ ajax' = [ajax EXCEPT ![jquery] = Tail(@)]
    BY <1>2, <1>3, <2>2, ForeignWrapper
  <2> QED BY <2>1, <2>2 DEF Ajax!Wraps
<1>5. /\ ajax' \in [Owners -> Seq(0 .. made)]
      /\ \A o \in Owners : ajax'[o] = IF o = jquery THEN v ELSE ajax[o]
  BY <1>2, <1>4
<1>6. AjaxTypes'
  BY <1>1, <1>2, <1>5 DEF AjaxTypes
<1>7. PatchedInv'
  <2>1. (\A o \in Owners : Fits(ajax[o], buried, Ours(o)))'
    BY <1>1, <1>2, <1>4, <1>5 DEF PatchedInv, Ours
  <2>2. patched.wrapper # 0 => Outermost(ajax'[patched.owner], patched.wrapper)
    BY <1>2, <1>4, <1>5 DEF PatchedInv, Ours
  <2> QED BY <1>1, <1>2, <2>1, <2>2 DEF PatchedInv
<1> QED BY <1>1, <1>6, <1>7 DEF AjaxInv, Ajax!NoRetryWhenOff, Ajax!AdapterKnows

LEMMA AskedKeeps ==
  ASSUME AjaxBounds, AjaxInv, jquery # Ajax!None, NEW tm,
         NEW by \in Nat, NEW retried \in BOOLEAN, Claimed(requests, tm, made),
         by = 0 => ~retried,
         by # 0 => by \in DOMAIN requests /\ ~requests[by].open /\ (retried \/ Ajax!Handling = {}),
         \A r \in DOMAIN requests : r = by =>
            Cardinality(Retries(requests, r)) + Cardinality(Waiting(tm, r)) < Allowed(requests[r])
  PROVE  Claimed(Ajax!Asked(by, retried), tm, made)
<1> DEFINE e == [by |-> by, open |-> TRUE, ours |-> Ajax!Handling, retried |-> retried]
<1>1. made \in Nat /\ ajax[jquery] \in Seq(0 .. made)
  BY DEF AjaxInv, AjaxTypes
<1>2. Ajax!Handling \subseteq 1 .. made
  BY <1>1, OursAreMade DEF Ajax!Handling
<1>3. e \in Made(made) /\ e.by = by /\ e.retried = retried /\ e.ours = Ajax!Handling
  BY <1>2 DEF Made
<1> HIDE DEF e
<1>4. Claimed(Append(requests, e), tm, made)
  BY <1>1, <1>3, Asking
<1> QED BY <1>4 DEF Ajax!Asked, e

LEMMA RequestKeeps == ASSUME AjaxBounds, AjaxInv, Ajax!Request PROVE AjaxInv'
<1>1. /\ jquery # Ajax!None /\ requests' = Ajax!Asked(0, FALSE) /\ pending' = FALSE
      /\ UNCHANGED <<bridge, enabled, generation, patched, made, poll, timers, adapter, buried>>
      /\ UNCHANGED <<jquery, ajax>>
  BY DEF Ajax!Request, Ajax!script, AjaxInv, AjaxTypes
<1>2. Claimed(requests, timers, made)'
  <2>1. Claimed(requests, timers, made) /\ \A r \in DOMAIN requests : r # 0
    <3>1. made \in Nat /\ Claimed(requests, timers, made)
      BY DEF AjaxInv, AjaxTypes
    <3> QED BY <3>1, Requested
  <2>2. Claimed(Ajax!Asked(0, FALSE), timers, made)
    BY <1>1, <2>1, AskedKeeps
  <2> QED BY <1>1, <2>2
<1>3. AjaxTypes'
  BY <1>1 DEF AjaxInv, AjaxTypes
<1>4. PatchedInv'
  BY <1>1 DEF AjaxInv, PatchedInv, Ours
<1> QED BY <1>1, <1>2, <1>3, <1>4 DEF AjaxInv, Ajax!NoRetryWhenOff, Ajax!AdapterKnows

\* What an action leaves to do that only handles requests.
LEMMA RestKeeps ==
  ASSUME AjaxInv, requests # <<>>, Claimed(requests, timers, made)',
         UNCHANGED <<bridge, enabled, generation, patched, made, poll, jquery, ajax, buried, pending>>,
         \A t \in timers' :
           t \notin timers => \E r \in Nat, w \in 1 .. made :
             enabled /\ t = [request |-> r, generation |-> generation, wrapper |-> w],
         Ajax!AdapterKnows'
  PROVE  AjaxInv'
<1>1. AjaxTypes' /\ PatchedInv'
  BY DEF AjaxInv, AjaxTypes, PatchedInv, Ours
<1>2. /\ timers' \subseteq [request : Nat, generation : Nat, wrapper : 1 .. made]
      /\ \A t \in timers' : enabled /\ t.generation = generation
  <2> SUFFICES ASSUME NEW t \in timers'
               PROVE  /\ t \in [request : Nat, generation : Nat, wrapper : 1 .. made]
                      /\ enabled /\ t.generation = generation
    OBVIOUS
  <2>1. CASE t \in timers
    BY <2>1 DEF AjaxInv, Ajax!NoRetryWhenOff
  <2>2. CASE t \notin timers
    <3>1. PICK r \in Nat, w \in 1 .. made :
            enabled /\ t = [request |-> r, generation |-> generation, wrapper |-> w]
      BY <2>2
    <3>2. generation \in Nat
      BY DEF AjaxInv, AjaxTypes
    <3> QED BY <3>1, <3>2
  <2> QED BY <2>1, <2>2
<1> QED BY <1>1, <1>2 DEF AjaxInv, Ajax!NoRetryWhenOff

LEMMA RequestsHere ==
  ASSUME AjaxInv
  PROVE  made \in Nat /\ Claimed(requests, timers, made) /\ DOMAIN requests \subseteq Nat \ {0}
<1>1. made \in Nat /\ Claimed(requests, timers, made)
  BY DEF AjaxInv, AjaxTypes
<1> QED BY <1>1, Requested

LEMMA SettlesKeeps ==
  ASSUME AjaxBounds, AjaxInv, NEW r \in DOMAIN requests, Ajax!Settles(r)
  PROVE  AjaxInv'
<1>1. /\ requests[r].open /\ requests' = [requests EXCEPT ![r].open = FALSE] /\ timers' = timers
      /\ UNCHANGED <<bridge, enabled, generation, patched, made, poll, jquery, ajax, buried, pending>>
      /\ UNCHANGED adapter
  BY DEF Ajax!Settles, Ajax!script
<1>2. Claimed(requests, timers, made)'
  <2>1. Claimed(requests', timers \union Timers(r, generation, {}), made)
    BY <1>1, RequestsHere, Settling
  <2>2. timers \union Timers(r, generation, {}) = timers
    BY DEF Timers
  <2> QED BY <1>1, <2>1, <2>2
<1>3. Ajax!AdapterKnows'
  BY <1>1 DEF AjaxInv, Ajax!AdapterKnows
<1>4. requests # <<>>
  OBVIOUS
<1> QED BY <1>1, <1>2, <1>3, <1>4, RestKeeps

LEMMA FailsKeeps ==
  ASSUME AjaxBounds, AjaxInv, NEW r \in DOMAIN requests, Ajax!Fails(r)
  PROVE  AjaxInv'
<1> DEFINE W == {w \in requests[r].ours : enabled /\ ~requests[r].retried}
           N == Timers(r, generation, W)
<1>1. /\ requests[r].open /\ requests' = [requests EXCEPT ![r].open = FALSE] /\ timers' = timers \union N
      /\ UNCHANGED <<bridge, enabled, generation, patched, made, poll, jquery, ajax, buried, pending>>
      /\ IF timers' # timers THEN Ajax!Emitted ELSE UNCHANGED adapter
  BY DEF Ajax!Fails, Timers
<1>2. W \in SUBSET requests[r].ours /\ (W # {} => ~requests[r].retried)
  OBVIOUS
<1>3. W \subseteq 1 .. made /\ (W # {} => enabled) /\ r \in Nat
  <2>1. requests[r] \in Made(made)
    BY RequestsHere, Requested
  <2> QED BY <2>1, RequestsHere DEF Made
<1> HIDE DEF W
<1>4. \A t \in N : \E w \in W : t = [request |-> r, generation |-> generation, wrapper |-> w]
  BY DEF Timers
<1>5. Claimed(requests', timers \union N, made)
  BY <1>1, <1>2, RequestsHere, Settling
<1> HIDE DEF N
<1>6. Claimed(requests, timers, made)'
  BY <1>1, <1>5
<1>7. \A t \in timers' :
        t \notin timers => \E q \in Nat, w \in 1 .. made :
          enabled /\ t = [request |-> q, generation |-> generation, wrapper |-> w]
  BY <1>1, <1>3, <1>4
<1>8. Ajax!AdapterKnows'
  <2>1. CASE timers' # timers
    BY <1>1, <2>1, Telling
  <2>2. CASE timers' = timers
    BY <1>1, <2>2 DEF AjaxInv, Ajax!AdapterKnows
  <2> QED BY <2>1, <2>2
<1>9. requests # <<>>
  OBVIOUS
<1> QED BY <1>1, <1>6, <1>7, <1>8, <1>9, RestKeeps

LEMMA TimerFiresKeeps ==
  ASSUME AjaxBounds, AjaxInv, NEW t \in timers, Ajax!TimerFires(t)
  PROVE  AjaxInv'
<1> DEFINE q == t.request
<1>1. /\ timers' = timers \ {t} /\ Ajax!Emitted
      /\ UNCHANGED <<bridge, enabled, generation, patched, made, poll, jquery, ajax, buried>>
      /\ \/ UNCHANGED <<requests, pending>> \/ Ajax!Clicked(q) \/ Ajax!Replayed(q)
  BY DEF Ajax!TimerFires, Ajax!ClickedIdle
<1>2. made \in Nat /\ Claimed(requests, timers, made) /\ DOMAIN requests \subseteq Nat \ {0}
  BY RequestsHere
<1>3. /\ Claimed(requests, timers \ {t}, made) /\ q \in DOMAIN requests /\ ~requests[q].open
      /\ Cardinality(Retries(requests, q)) + Cardinality(Waiting(timers \ {t}, q)) < Allowed(requests[q])
  BY <1>2, Fired
<1>4. q \in Nat /\ q # 0 /\ requests # <<>>
  BY <1>2, <1>3
<1>5. jquery # Ajax!None
  BY <1>4 DEF AjaxInv, AjaxTypes
<1> HIDE DEF q
<1>6. ASSUME NEW c \in BOOLEAN, c \/ Ajax!Handling = {}
      PROVE  Claimed(Ajax!Asked(q, c), timers \ {t}, made)
  BY <1>3, <1>4, <1>5, <1>6, AskedKeeps
<1>7. Claimed(requests, timers, made)'
  <2>1. CASE UNCHANGED <<requests, pending>>
    BY <1>1, <1>3, <2>1
  <2>2. CASE Ajax!Clicked(q)
    <3>1. requests' = Ajax!Asked(q, Ajax!Handling # {})
      BY <2>2 DEF Ajax!Clicked
    <3>2. Claimed(Ajax!Asked(q, Ajax!Handling # {}), timers \ {t}, made)
      BY <1>6
    <3> QED BY <1>1, <3>1, <3>2
  <2>3. CASE Ajax!Replayed(q)
    BY <1>1, <1>6, <2>3 DEF Ajax!Replayed
  <2> QED BY <1>1, <2>1, <2>2, <2>3
<1>8. pending' = pending
  BY <1>1 DEF Ajax!Clicked, Ajax!Replayed
<1>9. \A u \in timers' : u \in timers
  BY <1>1
<1>10. Ajax!AdapterKnows'
  BY <1>1, Telling
<1> QED BY <1>1, <1>4, <1>7, <1>8, <1>9, <1>10, RestKeeps

LEMMA AjaxStep == ASSUME AjaxBounds, AjaxInv, [Ajax!Next]_Ajax!vars PROVE AjaxInv'
<1>1. CASE Ajax!Enable
  BY <1>1, EnableKeeps
<1>2. CASE Ajax!PollTicks
  BY <1>2, PollTicksKeeps
<1>3. CASE Ajax!Disable
  BY <1>3, DisableKeeps
<1>4. CASE Ajax!Destroy
  BY <1>4, DestroyKeeps
<1>5. ASSUME NEW o \in Owners, Ajax!Comes(o)
      PROVE  AjaxInv'
  BY <1>5, ComesKeeps
<1>6. CASE Ajax!Wraps
  BY <1>6, WrapsKeeps
<1>7. CASE Ajax!Request
  BY <1>7, RequestKeeps
<1>8. ASSUME NEW r \in DOMAIN requests, Ajax!Settles(r) \/ Ajax!Fails(r)
      PROVE  AjaxInv'
  BY <1>8, SettlesKeeps, FailsKeeps
<1>9. ASSUME NEW t \in timers, Ajax!TimerFires(t)
      PROVE  AjaxInv'
  BY <1>9, TimerFiresKeeps
<1>10. CASE UNCHANGED Ajax!vars
  BY <1>10 DEF Ajax!vars, AjaxInv, AjaxTypes, PatchedInv, Ours, Ajax!NoRetryWhenOff, Ajax!AdapterKnows
<1> QED BY <1>1, <1>2, <1>3, <1>4, <1>5, <1>6, <1>7, <1>8, <1>9, <1>10 DEF Ajax!Next

LEMMA AjaxAlways == ASSUME AjaxBounds PROVE Ajax!Spec => []AjaxInv
<1>1. Ajax!Init => AjaxInv
  BY AjaxInit
<1>2. AjaxInv /\ [Ajax!Next]_Ajax!vars => AjaxInv'
  BY AjaxStep
<1> QED BY <1>1, <1>2, PTL DEF Ajax!Spec

\* Every variable of the page script and its adapter has its type.
THEOREM RepairTyped == ASSUME AjaxBounds PROVE Ajax!Spec => []Ajax!TypeOK
<1>1. AjaxInv => Ajax!TypeOK
  <2> SUFFICES ASSUME AjaxInv
               PROVE  Ajax!TypeOK
    OBVIOUS
  <2>1. AjaxTypes /\ Claimed(requests, timers, made) /\ made \in Nat
    BY DEF AjaxInv, AjaxTypes
  <2>2. /\ bridge \in {"none", "listening", "gone"} /\ {enabled, pending} \subseteq BOOLEAN
        /\ patched \in [owner : Owners \union {Ajax!None}, wrapper : 0 .. made]
        /\ poll \in [on : BOOLEAN, attempts : 0 .. PollLimit]
        /\ jquery \in Owners \union {Ajax!None} /\ buried \subseteq 1 .. made
    BY <2>1 DEF AjaxTypes
  <2>3. timers \subseteq [request : DOMAIN requests, generation : 0 .. generation, wrapper : 1 .. made]
    <3>1. generation \in 0 .. generation
      BY <2>1 DEF AjaxTypes
    <3>2. /\ timers \subseteq [request : Nat, generation : Nat, wrapper : 1 .. made]
          /\ \A t \in timers : t.generation = generation /\ t.request \in DOMAIN requests
      BY <2>1 DEF AjaxInv, Claimed, Ajax!NoRetryWhenOff
    <3> QED BY <3>1, <3>2
  <2>4. \A o \in Owners : Ajax!OursIn(ajax[o]) \subseteq 1 .. made
    BY <2>1, OursAreMade DEF AjaxTypes
  <2>5. \A r \in DOMAIN requests : requests[r].by < r /\ requests[r].ours \subseteq 1 .. made
    <3>1. \A r \in DOMAIN requests : requests[r] \in Made(made)
      BY <2>1, Requested
    <3> QED BY <2>1, <3>1 DEF Claimed, Made
  <2> QED BY <2>2, <2>3, <2>4, <2>5 DEF Ajax!TypeOK
<1> QED BY <1>1, AjaxAlways, PTL

\* The retry loop cannot feed itself: a request of the user is asked for again
\* at most once for every wrapper it went through, and a retry never is.
THEOREM RetriedOnlyOnce == ASSUME AjaxBounds PROVE Ajax!Spec => []Ajax!RetriedOnce
<1>1. AjaxInv => Ajax!RetriedOnce
  <2> SUFFICES ASSUME AjaxInv, NEW r \in DOMAIN requests
               PROVE  /\ Ajax!Cardinality({q \in DOMAIN requests : requests[q].by = r})
                           + Ajax!Cardinality({t \in timers : t.request = r})
                           <= IF requests[r].by = 0 THEN Ajax!Cardinality(requests[r].ours) ELSE 0
                      /\ requests[r].retried => requests[r].by # 0
    BY DEF Ajax!RetriedOnce
  <2>1. \A S : Ajax!Cardinality(S) = Cardinality(S)
    BY DEF Cardinality, Ajax!Cardinality
  <2>2. /\ Cardinality(Retries(requests, r)) + Cardinality(Waiting(timers, r)) <= Allowed(requests[r])
        /\ requests[r].retried => requests[r].by # 0
    BY RequestsHere DEF Claimed
  <2> QED BY <2>1, <2>2 DEF Retries, Waiting, Allowed
<1> QED BY <1>1, AjaxAlways, PTL

\* Once the repair is off, no retry of its time is waiting.
THEOREM RetriesEnd == ASSUME AjaxBounds PROVE Ajax!Spec => []Ajax!NoRetryWhenOff
<1>1. AjaxInv => Ajax!NoRetryWhenOff
  BY DEF AjaxInv
<1> QED BY <1>1, AjaxAlways, PTL

\* The site's own ajax is back when the repair is off, wherever no other script
\* has wrapped ours, whichever jQuery the page has meanwhile.
THEOREM SiteRestored == ASSUME AjaxBounds PROVE Ajax!Spec => []Ajax!RestoredWhenOff
<1>1. AjaxInv => Ajax!RestoredWhenOff
  <2> SUFFICES ASSUME AjaxInv, ~enabled
               PROVE  /\ patched = Ajax!NotPatched /\ ~poll.on
                      /\ \A o \in Owners : Ajax!Top(o) = 0 \/ Ajax!Top(o) \in buried
    BY DEF Ajax!RestoredWhenOff
  <2>1. patched = Ajax!NotPatched /\ ~poll.on /\ patched.wrapper = 0
    BY DEF AjaxInv, PatchedInv
  <2>2. ASSUME NEW o \in Owners
        PROVE  Ajax!Top(o) = 0 \/ Ajax!Top(o) \in buried
    <3>1. ajax[o] \in Seq(0 .. made) /\ Fits(ajax[o], buried, 0)
      BY <2>1 DEF AjaxInv, AjaxTypes, PatchedInv, Ours
    <3>2. CASE ajax[o] = <<>>
      BY <3>2, TopIsFirst
    <3>3. CASE ajax[o] # <<>>
      <4>1. 1 \in 1 .. Len(ajax[o]) /\ Head(ajax[o]) = ajax[o][1]
        BY <3>1, <3>3
      <4> QED BY <3>1, <3>3, <4>1, TopIsFirst DEF Fits
    <3> QED BY <3>2, <3>3
  <2> QED BY <2>1, <2>2
<1> QED BY <1>1, AjaxAlways, PTL

\* What the adapter was told last is how the page script stands.
THEOREM AdapterTold == ASSUME AjaxBounds PROVE Ajax!Spec => []Ajax!AdapterKnows
<1>1. AjaxInv => Ajax!AdapterKnows
  BY DEF AjaxInv
<1> QED BY <1>1, AjaxAlways, PTL
=============================================================================
