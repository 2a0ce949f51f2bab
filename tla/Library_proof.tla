---------------------------- MODULE Library_proof ----------------------------
(* The Library add-on, for any number of tabs, any bounds and any faults.  *)
(*  - The request budget keeps the hourly allowance of the API and the     *)
(*    spacing of requests: what a record counts is never less than what    *)
(*    was reserved (RequestBudget).                                        *)
(*  - A thread's record has the history of what it says, but for what      *)
(*    newer events have pushed out (LibraryRecords).                       *)
(*  - The manager commits ratings in order; a rating and a note keep each  *)
(*    other until two writes of the record overlap (LibraryManager).       *)
(*  - An import reports what it has written, and is whole when it says so, *)
(*    again but for what newer events have pushed out (LibraryImport).     *)
EXTENDS RequestBudget, FiniteSetTheorems, SequenceTheorems, TLAPS

Inside == {"locked", "pausing", "writing", "sending", "sent", "answered"}

\* A tab is past Lock exactly while it holds the Web Lock.
LockInv == \A t \in Tabs : holder = t <=> step[t] \in Inside

\* A record answers for what was reserved up to its own time.
Accounts(r) ==
  /\ \A h \in Hours : h > Hour[r.last] => reserved[h] = 0
  /\ reserved[Hour[r.last]] <= r.used
  /\ started # -1 => started + Spacing <= r.next

\* The copy that waits to be stored answers for its own reservation too.
Promises(t) ==
  /\ \A h \in Hours : h > Hour[copy.last] => reserved[h] = 0
  /\ reserved[Hour[copy.last]] + (IF source[t] = "api" THEN 1 ELSE 0) <= copy.used
  /\ copy.next = copy.last + Spacing
  /\ started # -1 => started + Spacing <= copy.last

CopyInv ==
  \A t \in Tabs :
    /\ step[t] = "writing" => Promises(t)
    /\ step[t] \in {"sending", "sent", "answered"} => Accounts(copy)

IInv == TypeOK /\ HourlyAllowance /\ LockInv /\ Accounts(record) /\ CopyInv
-----------------------------
(* Types.                                                                  *)

LEMMA Constants ==
  /\ None \notin Tabs /\ MaxClock \in Nat /\ Limit \in Nat \ {0}
  /\ Spacing \in Nat /\ Pause \in Nat /\ Retries \in Nat /\ MaxFaults \in Nat /\ MaxBacks \in Nat
  /\ Hour \in [Clock -> Nat] /\ Hours \subseteq Nat
  /\ \A s \in Clock : Hour[s] \in Hours
  /\ \A s, t \in Clock : s <= t => Hour[s] <= Hour[t]
BY BudgetAssumption DEF Hours, Clock

LEMMA ClockIsLater == Clock \subseteq Nat /\ Clock \subseteq Later /\ Later \subseteq Nat
BY Constants DEF Clock, Later

LEMMA RestoredType ==
  ASSUME TypeOK, NEW r \in Record
  PROVE  /\ Restored(r) \in Record
         /\ Restored(r).last = clock /\ Restored(r).next = r.next
         /\ Restored(r).used = IF Hour[clock] > Hour[r.last] THEN 0 ELSE r.used
<1> DEFINE n == IF Hour[clock] > Hour[r.last] THEN 0 ELSE r.used
<1>1. Restored(r) = [r EXCEPT !.last = clock, !.used = n]
  BY DEF Restored
<1>2. n \in 0..Limit
  BY Constants DEF Record
<1>3. clock \in Clock
  BY DEF TypeOK
<1> HIDE DEF n
<1>4. /\ Restored(r) \in Record
      /\ Restored(r).last = clock /\ Restored(r).next = r.next /\ Restored(r).used = n
  BY <1>1, <1>2, <1>3 DEF Record
<1>5. QED
  BY <1>4 DEF n

LEMMA ReadType ==
  ASSUME TypeOK
  PROVE  /\ Read \in Record
         /\ Read.last = clock /\ Read.next = record.next
         /\ Read.used = Restored(record).used
<1>1. Restored(record) \in Record /\ Restored(record).last = clock
      /\ Restored(record).next = record.next
  BY RestoredType DEF TypeOK
<1>2. block \in Later
  BY DEF TypeOK
<1>3. QED
  BY <1>1, <1>2 DEF Read, Record

LEMMA EmptyRecord == NoRecord \in Record
BY Constants DEF NoRecord, Record, Clock, Later

LEMMA TypeOut ==
  ASSUME TypeOK, NEW t \in Tabs, Over(t)
  PROVE  /\ step' \in [Tabs -> Steps] /\ source' \in [Tabs -> Sources]
         /\ tries' \in [Tabs -> 0..Retries]
BY Constants DEF TypeOK, Over, Goes, Steps, Sources

LEMMA TypePutOff ==
  ASSUME TypeOK, NEW t \in Tabs, PutOff(t)
  PROVE  /\ step' \in [Tabs -> Steps] /\ source' \in [Tabs -> Sources]
         /\ tries' \in [Tabs -> 0..Retries]
         /\ holder' \in Tabs \union {None} /\ copy' \in Record
BY TypeOut, EmptyRecord DEF PutOff, Release

LEMMA TypeFailed ==
  ASSUME TypeOK, NEW t \in Tabs, Failed(t)
  PROVE  /\ step' \in [Tabs -> Steps] /\ source' \in [Tabs -> Sources]
         /\ tries' \in [Tabs -> 0..Retries]
         /\ holder' \in Tabs \union {None} /\ copy' \in Record
BY EmptyRecord DEF Failed, Release, TypeOK, Goes, Steps

LEMMA TypeFault ==
  ASSUME TypeOK, Fault \/ UNCHANGED faults
  PROVE  faults' \in 0..MaxFaults
BY Constants DEF TypeOK, Fault

LEMMA TypeStored ==
  ASSUME TypeOK, NEW t \in Tabs, Stored(t)
  PROVE  record' \in Record /\ reserved' \in [Hours -> Nat] /\ started' \in Clock \union {-1}
<1>1. record' = copy /\ copy \in Record /\ started' = copy.last /\ copy.last \in Clock
  BY DEF TypeOK, Stored, Record
<1>2. reserved' \in [Hours -> Nat]
  BY <1>1, Constants DEF Stored, TypeOK
<1>3. QED
  BY <1>1, <1>2

\* What the reservation asks of the record.
LEMMA ReserveType ==
  ASSUME TypeOK, NEW t \in Tabs, Reserve(t)
  PROVE  /\ copy' \in Record
         /\ copy'.last = clock /\ copy'.next = clock + Spacing
         /\ copy'.used = Read.used + (IF source[t] = "api" THEN 1 ELSE 0)
<1>1. Read \in Record /\ Read.last = clock
  BY ReadType
<1>2. source[t] = "api" => Read.used < Limit
  BY <1>1, Constants DEF Reserve, Allowed, Exhausted, Record
<1>3. clock + Spacing \in Later
  BY Constants DEF TypeOK, Clock, Later
<1> DEFINE n == IF source[t] = "api" THEN Read.used + 1 ELSE Read.used
           later == clock + Spacing
<1>4. n \in 0..Limit
  BY <1>1, <1>2, Constants DEF Record
<1>5. copy' = [Read EXCEPT !.next = later, !.used = n]
  <2>1. copy' = [Read EXCEPT !.next = later,
                             !.used = IF source[t] = "api" THEN @ + 1 ELSE @]
    BY DEF Reserve
  <2>2. ASSUME NEW r \in Record
        PROVE  [r EXCEPT !.next = later, !.used = IF source[t] = "api" THEN @ + 1 ELSE @]
                 = [r EXCEPT !.next = later, !.used = IF source[t] = "api" THEN r.used + 1 ELSE r.used]
    BY DEF Record
  <2>3. QED
    BY <1>1, <2>1, <2>2
<1> HIDE DEF n, later
<1>6. /\ copy' \in Record
      /\ copy'.last = Read.last /\ copy'.next = later /\ copy'.used = n
  BY <1>1, <1>3, <1>4, <1>5 DEF Record, later
<1>7. Read.used \in Nat
  BY <1>1, Constants DEF Record
<1>8. QED
  BY <1>1, <1>6, <1>7 DEF n, later
LEMMA ClearedType ==
  ASSUME TypeOK, NEW t \in Tabs, ClearSiteBlock(t)
  PROVE  record' \in Record /\ (Regressed(record) => record' = record)
         /\ (~Regressed(record) => /\ record'.last = clock
                                  /\ record'.used = Restored(record).used
                                  /\ record'.next = record.next)
<1>1. Restored(record) \in Record /\ Restored(record).last = clock
      /\ Restored(record).next = record.next
  BY RestoredType DEF TypeOK
<1>2. 0 \in Later
  BY Constants DEF Later
<1>3. CASE Regressed(record)
  BY <1>3 DEF ClearSiteBlock, TypeOK
<1>4. CASE ~Regressed(record)
  BY <1>1, <1>2, <1>4 DEF ClearSiteBlock, Record
<1>5. QED
  BY <1>3, <1>4

LEMMA AnsweredType ==
  ASSUME TypeOK, NEW t \in Tabs, NEW result \in {"good", "bad", "blocked"}, Answered(t, result),
         ~Regressed(copy)
  PROVE  /\ copy' \in Record /\ copy'.last = clock /\ copy'.used = Restored(copy).used
         /\ copy'.next >= copy.next
<1> DEFINE q == Restored(copy)
           n == IF clock + Spacing > q.next THEN clock + Spacing ELSE q.next
           r == [q EXCEPT !.next = n]
<1>1. q \in Record /\ q.last = clock /\ q.next = copy.next
  BY RestoredType DEF TypeOK
<1>2. clock + Spacing \in Later /\ clock + Pause \in Later /\ n \in Later /\ n >= q.next
  <2>1. clock + Spacing \in Later /\ clock + Pause \in Later
    BY Constants DEF TypeOK, Clock, Later
  <2>2. clock + Spacing \in Nat /\ q.next \in Later /\ q.next \in Nat
    BY <1>1, <2>1, ClockIsLater DEF Record
  <2> HIDE DEF q
  <2>3. QED
    BY <2>1, <2>2
<1>3. copy' = IF result = "blocked" THEN Blocked(t, r) ELSE r
  <2>1. [q EXCEPT !.next = IF clock + Spacing > @ THEN clock + Spacing ELSE @] = r
    BY <1>1 DEF Record
  <2>2. QED
    BY <2>1 DEF Answered
<1> HIDE DEF n, q
<1>4. r \in Record /\ r.last = q.last /\ r.used = q.used /\ r.next = n
  BY <1>1, <1>2 DEF Record
<1> HIDE DEF r
<1>5. /\ copy' \in Record /\ copy'.last = r.last /\ copy'.used = r.used /\ copy'.next = r.next
  BY <1>2, <1>3, <1>4 DEF Blocked, Record
<1>6. QED
  BY <1>1, <1>2, <1>4, <1>5 DEF q

\* Where the types are kept step by step.
LEMMA TypeStep ==
  ASSUME TypeOK, [Next]_vars
  PROVE  TypeOK'
<1> DEFINE Known == /\ clock' \in Clock /\ block' \in Later /\ backs' \in 0..MaxBacks
                    /\ faults' \in 0..MaxFaults
                    /\ record' \in Record /\ copy' \in Record /\ holder' \in Tabs \union {None}
                    /\ step' \in [Tabs -> Steps] /\ source' \in [Tabs -> Sources]
                    /\ tries' \in [Tabs -> 0..Retries]
                    /\ reserved' \in [Hours -> Nat] /\ started' \in Clock \union {-1}
<1>1. ASSUME NEW t \in Tabs, Check(t) \/ AskToClear(t) \/ Lock(t) \/ Wait(t) \/ Woken(t) \/ Send(t)
      PROVE  Known
  BY <1>1 DEF TypeOK, Check, AskToClear, Lock, Wait, Woken, Send, Goes, Steps, outside, past
<1>2. ASSUME NEW t \in Tabs, FallBack(t)
      PROVE  Known
  <2>1. /\ step' \in [Tabs -> Steps] /\ source' \in [Tabs -> Sources]
        /\ tries' \in [Tabs -> 0..Retries]
    BY <1>2, TypeOut, Constants DEF TypeOK, FallBack, Goes, Steps, Sources
  <2>2. QED
    BY <1>2, <2>1 DEF TypeOK, FallBack, outside, past
<1>3. ASSUME NEW t \in Tabs, ReadFails(t)
      PROVE  Known
  <2>1. Fault \/ UNCHANGED faults
    BY <1>3 DEF ReadFails
  <2>2. QED
    BY <1>3, <2>1, TypeFault, TypePutOff DEF TypeOK, ReadFails, outside, past
<1>4. ASSUME NEW t \in Tabs, Refused(t)
      PROVE  Known
  <2>1. PutOff(t) \/ Failed(t)
    BY <1>4 DEF Refused
  <2>2. record' \in {record, Read}
    BY <1>4 DEF Refused
  <2>3. QED
    BY <1>4, <2>1, <2>2, TypePutOff, TypeFailed, ReadType DEF TypeOK, Refused, outside, past
<1>5. ASSUME NEW t \in Tabs, Cancelled(t)
      PROVE  Known
  <2>1. Fault /\ PutOff(t)
    BY <1>5 DEF Cancelled
  <2>2. QED
    BY <1>5, <2>1, TypeFault, TypePutOff DEF TypeOK, Cancelled, outside, past
<1>6. ASSUME NEW t \in Tabs, Reserve(t)
      PROVE  Known
  BY <1>6, ReserveType DEF TypeOK, Reserve, Goes, Steps, outside, past
<1>7. ASSUME NEW t \in Tabs, Reserved(t)
      PROVE  Known
  BY <1>7, TypeStored DEF TypeOK, Reserved, Goes, Steps, outside
<1>8. ASSUME NEW t \in Tabs, ReserveFails(t)
      PROVE  Known
  <2>1. Fault /\ PutOff(t) /\ (UNCHANGED <<record, past>> \/ Stored(t))
    BY <1>8 DEF ReserveFails
  <2>2. record' \in Record /\ reserved' \in [Hours -> Nat] /\ started' \in Clock \union {-1}
    BY <2>1, TypeStored DEF TypeOK, past
  <2>3. QED
    BY <1>8, <2>1, <2>2, TypeFault, TypePutOff DEF TypeOK, ReserveFails, outside
<1>9. ASSUME NEW t \in Tabs, NEW result \in {"good", "bad", "blocked"}, Answered(t, result)
      PROVE  Known
  <2>1. CASE Regressed(copy)
    BY <1>9, <2>1, TypePutOff DEF TypeOK, Answered, outside, past
  <2>2. CASE ~Regressed(copy)
    <3>1. copy' \in Record
      BY <1>9, <2>2, AnsweredType
    <3>2. QED
      BY <1>9, <2>2, <3>1 DEF TypeOK, Answered, Goes, Steps, outside, past
  <2>3. QED
    BY <2>1, <2>2
<1>10. ASSUME NEW t \in Tabs, Settled(t)
      PROVE  Known
  <2>1. (PutOff(t) \/ Failed(t)) /\ record' = copy
    BY <1>10 DEF Settled
  <2>2. QED
    BY <1>10, <2>1, TypePutOff, TypeFailed DEF TypeOK, Settled, outside, past
<1>11. ASSUME NEW t \in Tabs, SettleFails(t)
      PROVE  Known
  <2>1. Fault /\ PutOff(t) /\ record' \in {record, copy}
    BY <1>11 DEF SettleFails
  <2>2. QED
    BY <1>11, <2>1, TypePutOff, TypeFault DEF TypeOK, SettleFails, outside, past
<1>12. ASSUME NEW t \in Tabs, ClearSiteBlock(t)
      PROVE  Known
  <2>1. record' \in Record /\ Over(t)
    BY <1>12, ClearedType DEF ClearSiteBlock
  <2>2. QED
    BY <1>12, <2>1, TypeOut DEF TypeOK, ClearSiteBlock, outside, past
<1>13. ASSUME NEW t \in Tabs, Close(t)
      PROVE  Known
  <2>1. Fault /\ Over(t)
    BY <1>13 DEF Close
  <2>2. holder' \in Tabs \union {None} /\ copy' \in Record
    BY <1>13, EmptyRecord DEF TypeOK, Close, Release
  <2>3. QED
    BY <1>13, <2>1, <2>2, TypeOut, TypeFault DEF TypeOK, Close, outside, past
<1>14. ASSUME Tick \/ SetBack PROVE Known
  <2>1. clock' \in Clock /\ backs' \in 0..MaxBacks
    BY <1>14, Constants DEF TypeOK, Tick, SetBack, Clock
  <2>2. QED
    BY <1>14, <2>1 DEF TypeOK, Tick, SetBack, past
<1>15. ASSUME QueueBlocks PROVE Known
  <2>1. block' \in Later
    BY <1>15, Constants DEF TypeOK, QueueBlocks, Clock, Later
  <2>2. QED
    BY <1>15, <2>1 DEF TypeOK, QueueBlocks, past
<1>16. ASSUME UNCHANGED vars PROVE Known
  BY <1>16 DEF TypeOK, vars
<1>17. Known
  BY <1>1, <1>2, <1>3, <1>4, <1>5, <1>6, <1>7, <1>8, <1>9, <1>10, <1>11, <1>12, <1>13, <1>14,
     <1>15, <1>16 DEF Next
<1>18. QED
  BY <1>17 DEF TypeOK
-----------------------------
(* What a record accounts for.                                             *)

Others(t) == \A u \in Tabs \ {t} : step'[u] = step[u] /\ source'[u] = source[u]

\* The time of a record moves on, its count starts anew with the hour.
LEMMA RestoringAccounts ==
  ASSUME TypeOK, NEW r \in Record, ~Regressed(r), Accounts(r), NEW q \in Record,
         q.last = clock, q.used = Restored(r).used, q.next >= r.next
  PROVE  Accounts(q)
<1>1. Restored(r).used = IF Hour[clock] > Hour[r.last] THEN 0 ELSE r.used
  BY RestoredType
<1>2. /\ r.last \in Clock /\ clock \in Clock /\ r.last <= clock
      /\ r.used \in Nat /\ r.next \in Nat /\ q.next \in Nat
  <2>1. /\ r.last \in Clock /\ clock \in Clock /\ r.used \in 0..Limit
        /\ r.next \in Later /\ q.next \in Later
    BY DEF TypeOK, Record
  <2>2. r.used \in Nat
    BY <2>1, Constants
  <2>3. r.last \in Nat /\ clock \in Nat /\ r.next \in Nat /\ q.next \in Nat
    BY <2>1, ClockIsLater
  <2>4. QED
    BY <2>1, <2>2, <2>3 DEF Regressed
<1>3. /\ Hour[r.last] \in Nat /\ Hour[clock] \in Nat /\ Hour[r.last] <= Hour[clock]
      /\ Hour[clock] \in Hours /\ Hour[r.last] \in Hours
  BY <1>2, Constants
<1>4. ASSUME NEW h \in Hours, h > Hour[clock] PROVE reserved[h] = 0
  BY <1>3, <1>4, Constants DEF Accounts
<1>5. reserved[Hour[clock]] <= q.used
  BY <1>1, <1>2, <1>3 DEF Accounts
<1>6. started # -1 => started + Spacing <= q.next
  BY <1>2, Constants, ClockIsLater DEF Accounts, TypeOK
<1>7. QED
  BY <1>4, <1>5, <1>6 DEF Accounts

LEMMA SameAccounts ==
  ASSUME IInv, UNCHANGED <<record, reserved, started>>
  PROVE  HourlyAllowance' /\ Accounts(record)'
BY DEF IInv, HourlyAllowance, Accounts

\* Storing the copy turns what it promises into what it accounts for.
LEMMA StoredAccounts ==
  ASSUME IInv, NEW t \in Tabs, step[t] = "writing", Stored(t)
  PROVE  /\ HourlyAllowance' /\ Accounts(record)' /\ record' = copy
         /\ started # -1 => started' >= started + Spacing
<1>1. /\ record' = copy /\ started' = copy.last
      /\ reserved' = IF source[t] = "api" THEN [reserved EXCEPT ![Hour[copy.last]] = @ + 1]
                     ELSE reserved
  BY DEF Stored
<1>2. Promises(t)
  BY DEF IInv, CopyInv
<1>3. copy \in Record /\ copy.last \in Clock /\ copy.used \in Nat /\ copy.used <= Limit
  BY Constants DEF IInv, TypeOK, Record
<1>4. Hour[copy.last] \in Hours /\ Hour[copy.last] \in Nat
  BY <1>3, Constants
<1>5. /\ reserved \in [Hours -> Nat]
      /\ \A h \in Hours : h # Hour[copy.last] => reserved'[h] = reserved[h]
      /\ reserved'[Hour[copy.last]]
           = reserved[Hour[copy.last]] + (IF source[t] = "api" THEN 1 ELSE 0)
  BY <1>1, <1>4 DEF IInv, TypeOK
<1>6. reserved'[Hour[copy.last]] <= copy.used
  BY <1>2, <1>5 DEF Promises
<1>7. HourlyAllowance'
  BY <1>3, <1>4, <1>5, <1>6, Constants DEF IInv, HourlyAllowance
<1>8. Accounts(record)'
  <2>1. ASSUME NEW h \in Hours, h > Hour[copy.last] PROVE reserved'[h] = 0
    BY <1>2, <1>4, <1>5, <2>1, Constants DEF Promises
  <2>2. copy.last + Spacing <= copy.next
    <3>1. copy.next = copy.last + Spacing
      BY <1>2 DEF Promises
    <3>2. copy.last \in Nat /\ Spacing \in Nat
      BY <1>3, Constants, ClockIsLater
    <3>3. QED
      BY <3>1, <3>2
  <2>3. /\ \A h \in Hours : h > Hour[copy.last] => reserved'[h] = 0
        /\ reserved'[Hour[copy.last]] <= copy.used
        /\ started' # -1 => started' + Spacing <= copy.next
    BY <1>1, <1>6, <2>1, <2>2
  <2>4. QED
    BY <1>1, <2>3 DEF Accounts
<1>9. started # -1 => started' >= started + Spacing
  BY <1>1, <1>2, <1>3, Constants, ClockIsLater DEF Promises, IInv, TypeOK
<1>10. QED
  BY <1>1, <1>7, <1>8, <1>9
-----------------------------
(* Two shapes of step: a tab is outside the lock after it, or it holds it. *)

LEMMA StepOut ==
  ASSUME IInv, TypeOK', HourlyAllowance', Accounts(record)', NEW t \in Tabs, Others(t),
         step'[t] \notin Inside,
         \/ holder = t /\ holder' = None
         \/ holder # t /\ UNCHANGED <<holder, copy, reserved, started>>
  PROVE  IInv'
<1>1. LockInv'
  BY Constants DEF IInv, LockInv, Others
<1>2. CopyInv'
  <2>1. ASSUME NEW u \in Tabs, step'[u] \in Inside
        PROVE  /\ step'[u] = "writing" => Promises(u)'
               /\ step'[u] \in {"sending", "sent", "answered"} => Accounts(copy)'
    <3>1. u # t /\ step[u] = step'[u] /\ source'[u] = source[u]
      BY <2>1 DEF Others
    <3>2. holder = u
      BY <2>1, <3>1 DEF IInv, LockInv
    <3>3. UNCHANGED <<copy, reserved, started>>
      BY <3>1, <3>2
    <3>4. QED
      BY <3>1, <3>3 DEF IInv, CopyInv, Promises, Accounts
  <2>2. QED
    BY <2>1 DEF CopyInv, Inside
<1>3. QED
  BY <1>1, <1>2 DEF IInv

LEMMA StepIn ==
  ASSUME IInv, TypeOK', HourlyAllowance', Accounts(record)', NEW t \in Tabs, Others(t),
         step'[t] \in Inside, holder \in {t, None}, holder' = t,
         step'[t] = "writing" => Promises(t)',
         step'[t] \in {"sending", "sent", "answered"} => Accounts(copy)'
  PROVE  IInv'
<1>1. \A u \in Tabs \ {t} : step'[u] \notin Inside
  BY Constants DEF IInv, LockInv, Others
<1>2. LockInv'
  BY <1>1 DEF LockInv
<1>3. CopyInv'
  BY <1>1 DEF CopyInv, Inside
<1>4. QED
  BY <1>2, <1>3 DEF IInv

\* Where a step leaves a tab, and what it leaves of the others.
LEMMA GoesTo ==
  ASSUME TypeOK, NEW t \in Tabs, NEW s, Goes(t, s)
  PROVE  step'[t] = s /\ \A u \in Tabs \ {t} : step'[u] = step[u]
BY DEF TypeOK, Goes

LEMMA OverGoes ==
  ASSUME TypeOK, NEW t \in Tabs, Over(t)
  PROVE  step'[t] \notin Inside /\ Others(t)
BY DEF TypeOK, Over, Goes, Inside, Others

LEMMA FailedGoes ==
  ASSUME TypeOK, NEW t \in Tabs, Failed(t)
  PROVE  step'[t] \notin Inside /\ Others(t)
BY DEF TypeOK, Failed, Goes, Inside, Others

\* The holder gives up: with what is stored, the record still accounts.
LEMMA LeavesLock ==
  ASSUME IInv, TypeOK', NEW t \in Tabs, step[t] \in Inside, PutOff(t) \/ Failed(t),
         HourlyAllowance', Accounts(record)'
  PROVE  IInv'
<1>1. holder = t
  BY DEF IInv, LockInv
<1>2. holder' = None
  BY DEF PutOff, Failed, Release
<1>3. step'[t] \notin Inside /\ Others(t)
  BY OverGoes, FailedGoes DEF PutOff, IInv
<1>4. QED
  BY <1>1, <1>2, <1>3, StepOut

\* The record as it is read accounts for the same.
LEMMA ReadAccounts ==
  ASSUME IInv, ~Regressed(record)
  PROVE  Accounts(Read)
<1>1. record \in Record /\ Accounts(record) /\ TypeOK
  BY DEF IInv, TypeOK
<1>2. /\ Read \in Record /\ Read.last = clock /\ Read.next = record.next
      /\ Read.used = Restored(record).used
  BY <1>1, ReadType
<1>3. Read.next \in Nat /\ record.next \in Nat
  BY <1>1, <1>2, ClockIsLater DEF Record
<1>4. QED
  BY <1>1, <1>2, <1>3, RestoringAccounts

-----------------------------
(* Every step keeps the invariant.                                         *)

LEMMA InitHolds == Init => IInv
<1> SUFFICES ASSUME Init PROVE IInv
  OBVIOUS
<1>1. TypeOK
  <2>1. record \in Record /\ copy \in Record
    BY EmptyRecord DEF Init, Record
  <2>2. QED
    BY <2>1, Constants DEF Init, TypeOK, Steps, Sources, Later
<1>2. record.last \in Clock /\ record.used = 0
  BY Constants DEF Init, NoRecord
<1>3. HourlyAllowance /\ Accounts(record)
  BY <1>2, Constants DEF Init, HourlyAllowance, Accounts
<1>4. LockInv /\ CopyInv
  BY Constants DEF Init, LockInv, CopyInv, Inside
<1>5. QED
  BY <1>1, <1>3, <1>4 DEF IInv

\* Check, AskToClear and FallBack happen outside the lock.
LEMMA OutsideKeeps ==
  ASSUME IInv, TypeOK', NEW t \in Tabs, Check(t) \/ AskToClear(t) \/ FallBack(t)
  PROVE  IInv'
<1>1. /\ step[t] \in {"idle", "failed"}
      /\ UNCHANGED <<record, holder, copy, reserved, started>>
  BY DEF Check, AskToClear, FallBack, At, past
<1>2. step'[t] \notin Inside /\ Others(t)
  BY DEF IInv, TypeOK, Check, AskToClear, FallBack, Goes, Over, Inside, Others
<1>3. holder # t
  BY <1>1 DEF IInv, LockInv, Inside
<1>4. QED
  BY <1>1, <1>2, <1>3, SameAccounts, StepOut

LEMMA LockKeeps ==
  ASSUME IInv, TypeOK', NEW t \in Tabs, Lock(t) \/ Wait(t) \/ Woken(t)
  PROVE  IInv'
<1>1. /\ step'[t] \in {"locked", "pausing"} /\ Others(t)
      /\ UNCHANGED <<record, copy, reserved, started>>
  BY GoesTo DEF IInv, Lock, Wait, Woken, Others, past
<1>2. holder \in {t, None} /\ holder' = t
  BY DEF IInv, LockInv, Lock, Wait, Woken, At, Inside
<1>3. QED
  BY <1>1, <1>2, SameAccounts, StepIn DEF Inside

LEMMA GivesUpKeeps ==
  ASSUME IInv, TypeOK', NEW t \in Tabs, ReadFails(t) \/ Refused(t) \/ Cancelled(t)
  PROVE  IInv'
<1>1. /\ step[t] \in Inside /\ (PutOff(t) \/ Failed(t))
      /\ UNCHANGED <<reserved, started>>
      /\ record' = record \/ (~Regressed(record) /\ record' = Read)
  BY DEF ReadFails, Refused, Cancelled, At, Inside, past
<1>2. HourlyAllowance'
  BY <1>1 DEF IInv, HourlyAllowance
<1>3. Accounts(record)'
  BY <1>1, ReadAccounts DEF IInv, Accounts
<1>4. QED
  BY <1>1, <1>2, <1>3, LeavesLock

LEMMA ReserveKeeps ==
  ASSUME IInv, TypeOK', NEW t \in Tabs, Reserve(t)
  PROVE  IInv'
<1>1. /\ step[t] = "locked" /\ ~Regressed(record) /\ Read.next <= clock /\ TypeOK
      /\ step'[t] = "writing" /\ Others(t)
      /\ UNCHANGED <<record, holder, source, reserved, started>>
  BY GoesTo DEF IInv, Reserve, Allowed, At, Others, past
<1>2. /\ copy' \in Record /\ copy'.last = clock /\ copy'.next = clock + Spacing
      /\ copy'.used = Read.used + (IF source[t] = "api" THEN 1 ELSE 0)
  BY <1>1, ReserveType
<1>3. Accounts(Read) /\ Read.last = clock /\ Read \in Record
  BY <1>1, ReadAccounts, ReadType
<1>4. Promises(t)'
  <2>1. \A h \in Hours : h > Hour[copy'.last] => reserved'[h] = 0
    BY <1>1, <1>2, <1>3 DEF Accounts
  <2>2. reserved'[Hour[copy'.last]] + (IF source'[t] = "api" THEN 1 ELSE 0) <= copy'.used
    <3>1. reserved[Hour[clock]] <= Read.used
      BY <1>3 DEF Accounts
    <3>2. reserved[Hour[clock]] \in Nat /\ Read.used \in Nat
      BY <1>1, <1>3, Constants DEF TypeOK, Record
    <3>3. QED
      BY <1>1, <1>2, <3>1, <3>2
  <2>3. started' # -1 => started' + Spacing <= copy'.last
    <3>1. started # -1 => started + Spacing <= Read.next
      BY <1>3 DEF Accounts
    <3>2. clock \in Nat /\ Spacing \in Nat /\ started \in Nat \union {-1}
      BY <1>1, Constants, ClockIsLater DEF TypeOK
    <3>3. Read.next \in Nat
      BY <1>3, ClockIsLater DEF Record
    <3>4. QED
      BY <1>1, <1>2, <3>1, <3>2, <3>3
  <2>4. QED
    BY <1>2, <2>1, <2>2, <2>3 DEF Promises
<1>5. holder = t
  BY <1>1 DEF IInv, LockInv, Inside
<1>6. QED
  BY <1>1, <1>4, <1>5, SameAccounts, StepIn DEF Inside

LEMMA ReservedKeeps ==
  ASSUME IInv, TypeOK', NEW t \in Tabs, Reserved(t)
  PROVE  IInv'
<1>1. /\ step[t] = "writing" /\ Stored(t) /\ TypeOK
      /\ step'[t] = "sending" /\ Others(t) /\ UNCHANGED <<holder, copy>>
  BY GoesTo DEF IInv, Reserved, At, Others
<1>2. HourlyAllowance' /\ Accounts(record)' /\ record' = copy
  BY <1>1, StoredAccounts
<1>3. holder = t
  BY <1>1 DEF IInv, LockInv, Inside
<1>4. Accounts(copy)'
  BY <1>1, <1>2 DEF Accounts
<1>5. QED
  BY <1>1, <1>2, <1>3, <1>4, StepIn DEF Inside

LEMMA ReserveFailsKeeps ==
  ASSUME IInv, TypeOK', NEW t \in Tabs, ReserveFails(t)
  PROVE  IInv'
<1>1. step[t] = "writing" /\ PutOff(t) /\ (UNCHANGED <<record, past>> \/ Stored(t))
  BY DEF ReserveFails, At
<1>2. HourlyAllowance' /\ Accounts(record)'
  BY <1>1, StoredAccounts, SameAccounts DEF past
<1>3. QED
  BY <1>1, <1>2, LeavesLock DEF Inside

LEMMA SendKeeps ==
  ASSUME IInv, TypeOK', NEW t \in Tabs, Send(t)
  PROVE  IInv'
<1>1. /\ step[t] = "sending" /\ step'[t] = "sent" /\ Others(t)
      /\ UNCHANGED <<record, holder, copy, reserved, started>>
  BY GoesTo DEF IInv, Send, At, Others, past
<1>2. holder = t /\ Accounts(copy)'
  BY <1>1 DEF IInv, LockInv, CopyInv, Inside, Accounts
<1>3. QED
  BY <1>1, <1>2, SameAccounts, StepIn DEF Inside

LEMMA AnsweredKeeps ==
  ASSUME IInv, TypeOK', NEW t \in Tabs, NEW result \in {"good", "bad", "blocked"},
         Answered(t, result)
  PROVE  IInv'
<1>1. /\ step[t] = "sent" /\ TypeOK /\ UNCHANGED <<record, reserved, started>>
  BY DEF IInv, Answered, At, past
<1>2. HourlyAllowance' /\ Accounts(record)'
  BY <1>1, SameAccounts
<1>3. CASE Regressed(copy)
  BY <1>1, <1>2, <1>3, LeavesLock DEF Answered, Inside
<1>4. CASE ~Regressed(copy)
  <2>1. /\ step'[t] = "answered" /\ Others(t) /\ holder' = holder
    BY <1>1, <1>4, GoesTo DEF Answered, Others
  <2>2. copy \in Record /\ Accounts(copy)
    BY <1>1 DEF IInv, TypeOK, CopyInv
  <2>3. /\ copy' \in Record /\ copy'.last = clock /\ copy'.used = Restored(copy).used
        /\ copy'.next >= copy.next
    BY <1>1, <1>4, AnsweredType
  <2>4. Accounts(copy')
    BY <1>1, <1>4, <2>2, <2>3, RestoringAccounts
  <2>5. Accounts(copy)'
    BY <1>1, <2>4 DEF Accounts
  <2>6. holder = t
    BY <1>1 DEF IInv, LockInv, Inside
  <2>7. QED
    BY <1>2, <2>1, <2>5, <2>6, StepIn DEF Inside
<1>5. QED
  BY <1>3, <1>4

LEMMA SettledKeeps ==
  ASSUME IInv, TypeOK', NEW t \in Tabs, Settled(t) \/ SettleFails(t)
  PROVE  IInv'
<1>1. /\ step[t] = "answered" /\ (PutOff(t) \/ Failed(t))
      /\ UNCHANGED <<reserved, started>> /\ record' \in {record, copy}
  BY DEF Settled, SettleFails, At, past
<1>2. HourlyAllowance'
  BY <1>1 DEF IInv, HourlyAllowance
<1>3. Accounts(record)'
  BY <1>1 DEF IInv, CopyInv, Accounts
<1>4. QED
  BY <1>1, <1>2, <1>3, LeavesLock DEF Inside

LEMMA ClearKeeps ==
  ASSUME IInv, TypeOK', NEW t \in Tabs, ClearSiteBlock(t)
  PROVE  IInv'
<1>1. /\ step[t] = "clearing" /\ Over(t) /\ TypeOK /\ record \in Record /\ record' \in Record
      /\ UNCHANGED <<holder, copy, reserved, started>>
  BY DEF IInv, TypeOK, ClearSiteBlock, At, past
<1>2. HourlyAllowance'
  BY <1>1 DEF IInv, HourlyAllowance
<1>3. CASE Regressed(record)
  <2>1. Accounts(record)'
    BY <1>1, <1>3, ClearedType, SameAccounts
  <2>2. holder # t
    BY <1>1 DEF IInv, LockInv, Inside
  <2>3. QED
    BY <1>1, <1>2, <2>1, <2>2, OverGoes, StepOut
<1>4. CASE ~Regressed(record)
  <2>1. /\ record'.last = clock /\ record'.used = Restored(record).used
        /\ record'.next = record.next /\ record.next \in Nat
    BY <1>1, <1>4, ClearedType, ClockIsLater DEF Record
  <2>2. Accounts(record')
    BY <1>1, <1>4, <2>1, RestoringAccounts DEF IInv
  <2>3. Accounts(record)'
    BY <1>1, <2>2 DEF Accounts
  <2>4. holder # t
    BY <1>1 DEF IInv, LockInv, Inside
  <2>5. QED
    BY <1>1, <1>2, <2>3, <2>4, OverGoes, StepOut
<1>5. QED
  BY <1>3, <1>4

LEMMA CloseKeeps ==
  ASSUME IInv, TypeOK', NEW t \in Tabs, Close(t)
  PROVE  IInv'
<1>1. Over(t) /\ UNCHANGED <<record, reserved, started>>
  BY DEF Close, past
<1>2. \/ holder = t /\ holder' = None
      \/ holder # t /\ UNCHANGED <<holder, copy>>
  BY DEF Close, Release
<1>3. TypeOK
  BY DEF IInv
<1>4. QED
  BY <1>1, <1>2, <1>3, SameAccounts, OverGoes, StepOut

LEMMA StepKeeps == IInv /\ [Next]_vars => IInv'
<1> SUFFICES ASSUME IInv, [Next]_vars PROVE IInv'
  OBVIOUS
<1>1. TypeOK'
  BY TypeStep DEF IInv
<1>2. ASSUME NEW t \in Tabs,
             \/ Check(t) \/ AskToClear(t) \/ FallBack(t)
             \/ Lock(t) \/ ReadFails(t) \/ Refused(t) \/ Wait(t) \/ Woken(t) \/ Cancelled(t)
             \/ Reserve(t) \/ Reserved(t) \/ ReserveFails(t) \/ Send(t)
             \/ (\E result \in {"good", "bad", "blocked"} : Answered(t, result))
             \/ Settled(t) \/ SettleFails(t) \/ ClearSiteBlock(t) \/ Close(t)
      PROVE  IInv'
  BY <1>1, <1>2, OutsideKeeps, LockKeeps, GivesUpKeeps, ReserveKeeps, ReservedKeeps,
     ReserveFailsKeeps, SendKeeps, AnsweredKeeps, SettledKeeps, ClearKeeps, CloseKeeps
<1>3. CASE Tick \/ SetBack \/ QueueBlocks \/ UNCHANGED vars
  <2>1. UNCHANGED <<record, holder, step, source, copy, reserved, started>>
    BY <1>3 DEF Tick, SetBack, QueueBlocks, vars, past
  <2>2. LockInv' /\ CopyInv'
    BY <2>1 DEF IInv, LockInv, CopyInv, Promises, Accounts
  <2>3. QED
    BY <1>1, <2>1, <2>2, SameAccounts DEF IInv
<1>4. QED
  BY <1>2, <1>3 DEF Next

LEMMA InvariantHolds == Spec => []IInv
<1>1. QED
  BY InitHolds, StepKeeps, PTL DEF Spec

-----------------------------
(* Theorems.                                                               *)

\* Every variable has its type: what is stored is always a valid record.
THEOREM TypeCorrect == Spec => []TypeOK
<1>1. IInv => TypeOK
  BY DEF IInv
<1>2. QED
  BY <1>1, InvariantHolds, PTL

\* hybridRequestBudget.js: no hour has more API requests than API_LIMIT, counted
\* over all tabs and through closings, failed writes and a clock that is set back.
THEOREM AllowanceKept == Spec => []HourlyAllowance
<1>1. IInv => HourlyAllowance
  BY DEF IInv
<1>2. QED
  BY <1>1, InvariantHolds, PTL

\* Of all reservations only a stored one starts a request.
LEMMA StartsAreSpaced ==
  ASSUME IInv, [Next]_vars, started' # started, started # -1
  PROVE  started' >= started + Spacing
<1>1. ASSUME NEW t \in Tabs, Reserved(t) \/ ReserveFails(t)
      PROVE  started' >= started + Spacing
  <2>1. step[t] = "writing" /\ (Stored(t) \/ UNCHANGED started)
    BY <1>1 DEF Reserved, ReserveFails, At, past
  <2>2. QED
    BY <2>1, StoredAccounts
<1>2. ASSUME NEW t \in Tabs,
             \/ Check(t) \/ AskToClear(t) \/ FallBack(t)
             \/ Lock(t) \/ ReadFails(t) \/ Refused(t) \/ Wait(t) \/ Woken(t) \/ Cancelled(t)
             \/ Reserve(t) \/ Send(t)
             \/ (\E result \in {"good", "bad", "blocked"} : Answered(t, result))
             \/ Settled(t) \/ SettleFails(t) \/ ClearSiteBlock(t) \/ Close(t)
      PROVE  FALSE
  BY <1>2 DEF Check, AskToClear, FallBack, Lock, ReadFails, Refused, Wait, Woken, Cancelled,
              Reserve, Send, Answered, Settled, SettleFails, ClearSiteBlock, Close, past
<1>3. ~(Tick \/ SetBack \/ QueueBlocks \/ UNCHANGED vars)
  BY DEF Tick, SetBack, QueueBlocks, vars, past
<1>4. QED
  BY <1>1, <1>2, <1>3 DEF Next

\* Two requests of the library start at least the spacing apart, in whichever tabs
\* and whatever the clock does between them.
THEOREM StartsSpaced == Spec => Spaced
<1>1. IInv /\ [Next]_vars
        => [started' # started /\ started # -1 => started' >= started + Spacing]_vars
  BY StartsAreSpaced
<1>2. QED
  BY <1>1, InvariantHolds, PTL DEF Spec, Spaced
-----------------------------
(* The record of a thread and its histories (LibraryRecords).              *)
CONSTANTS HistoryLimit, MaxOps, MaxVersion
VARIABLES entry, cache, events, ops, troubles, edited, seen, logged, undone, unsure

Records == INSTANCE LibraryRecords WITH record <- entry, faults <- troubles

LEMMA SizeOfEvents == \A S : Records!Cardinality(S) = Cardinality(S)
BY DEF Records!Cardinality, Cardinality

RecordBounds == HistoryLimit \in Nat /\ MaxOps \in Nat /\ MaxVersion \in Nat /\ MaxFaults \in Nat

\* What a copy of the record is judged by.
Shelf == [ops |-> ops, events |-> events, logged |-> logged, undone |-> undone, unsure |-> unsure,
          seen |-> seen]

Watches(s, i) == s.ops[i].kind \in {"save", "check"}

\* Records!Outdated(i), in a state of its own.
Followers(s, i) == {j \in s.logged : j > i /\ Watches(s, j) = Watches(s, i)}
Aged(s, i) == Cardinality(Followers(s, i)) >= HistoryLimit

Stands(s, i) == i \in s.events \/ Aged(s, i)
Announced(s, v) ==
  \E k \in s.logged : /\ Watches(s, k) /\ s.ops[k].now = v /\ s.ops[k].was.version # v
                      /\ k \in s.events \union s.undone \/ Aged(s, k)

\* What a copy of the record says is in the histories, for good: the command
\* that set its status has put the record.
Backed(s, r) ==
  /\ r.status # 0 =>
       /\ r.status \in DOMAIN s.ops /\ s.ops[r.status].kind = "status"
       /\ s.ops[r.status].step \in {"prune", "done"}
       /\ Stands(s, r.status) \/ r.status \in s.unsure
  /\ r.update = "changed" => Announced(s, r.version)
  /\ r.update = "acknowledged" => r.version \in s.seen

\* What an operation has stored by the time it reaches a step.
Prepared(s, op, i) ==
  /\ op.was = Records!Gone => op.kind \in {"save", "import"} \/ op.step = "done"
  /\ op.was = Records!Gone => op.step \in {"record", "prune", "done"}
  /\ op.step \in {"look", "facts", "mark"} => op.kind \in {"save", "check"}
  /\ op.step = "facts" => op.now = op.was.version
  /\ op.step = "record" /\ op.kind = "status" => Stands(s, i)
  /\ /\ op.step \in {"record", "prune", "mark"} /\ op.kind \in {"save", "check"}
     /\ op.was # Records!Gone /\ op.now # op.was.version
     => Announced(s, op.now)

RecordsInv ==
  /\ Records!TypeOK
  /\ Backed(Shelf, entry) /\ \A t \in Tabs : Backed(Shelf, cache[t])
  /\ \A i \in DOMAIN ops : Prepared(Shelf, ops[i], i) /\ Backed(Shelf, ops[i].was)

\* No step forgets an operation, or what it has stored.
OpsKept ==
  /\ logged \subseteq logged' /\ logged' \subseteq DOMAIN ops' /\ DOMAIN ops' \subseteq 1..MaxOps
  /\ seen \subseteq seen' /\ unsure \subseteq unsure' /\ undone \subseteq undone'
  /\ \A j \in DOMAIN ops :
       /\ j \in DOMAIN ops' /\ ops'[j].kind = ops[j].kind
       /\ ops'[j].now = ops[j].now /\ ops'[j].was = ops[j].was
       /\ ops[j].kind = "status" /\ ops[j].step \in {"prune", "done"} => ops'[j].step \in {"prune", "done"}

HistoryKept ==
  /\ OpsKept
  /\ \A v : Announced(Shelf, v) => Announced(Shelf', v)
  /\ \A j \in DOMAIN ops :
       /\ ops[j].kind = "status" /\ (ops[j].step \in {"prune", "done"} \/ ops'[j].step = "record")
       /\ Stands(Shelf, j)
       => Stands(Shelf', j)

LEMMA OnShelf ==
  /\ Shelf.ops = ops /\ Shelf.events = events /\ Shelf.logged = logged /\ Shelf.undone = undone
  /\ Shelf.unsure = unsure /\ Shelf.seen = seen
  /\ Shelf'.ops = ops' /\ Shelf'.events = events' /\ Shelf'.logged = logged'
  /\ Shelf'.undone = undone' /\ Shelf'.unsure = unsure' /\ Shelf'.seen = seen'
BY DEF Shelf

LEMMA BackedKept ==
  ASSUME HistoryKept, NEW r, Backed(Shelf, r)
  PROVE  Backed(Shelf', r)
<1>1. r.update = "changed" => Announced(Shelf', r.version)
  BY DEF HistoryKept, Backed
<1>2. r.update = "acknowledged" => r.version \in seen'
  BY OnShelf DEF HistoryKept, OpsKept, Backed
<1>3. ASSUME r.status # 0
      PROVE  /\ r.status \in DOMAIN ops' /\ ops'[r.status].kind = "status"
             /\ ops'[r.status].step \in {"prune", "done"}
             /\ Stands(Shelf', r.status) \/ r.status \in unsure'
  BY <1>3, OnShelf DEF HistoryKept, OpsKept, Backed
<1> QED BY <1>1, <1>2, <1>3, OnShelf DEF Backed

LEMMA GoneType ==
  ASSUME RecordBounds
  PROVE  /\ Records!Gone \in Records!Record /\ \A s : Backed(s, Records!Gone)
         /\ Records!Gone.version = -1 /\ Records!Gone.status = 0 /\ Records!Gone.note = 0
         /\ Records!Gone.update = "unchecked"
BY DEF Records!Gone, Records!Record, Backed

\* A record of a version is none that is gone.
LEMMA RecordFields ==
  ASSUME RecordBounds, NEW r \in Records!Record, r # Records!Gone
  PROVE  r \in [version : Records!Version, status : 0..MaxOps, note : 0..MaxOps,
                update : {"unchecked", "changed", "acknowledged"}]
BY DEF Records!Record

LEMMA OpType ==
  ASSUME RecordBounds, RecordsInv, NEW i \in DOMAIN ops
  PROVE  /\ ops[i] \in Records!Op /\ i \in 1..MaxOps
         /\ Prepared(Shelf, ops[i], i) /\ Backed(Shelf, ops[i].was)
BY DEF RecordsInv, Records!TypeOK, RecordBounds

LEMMA OpFields ==
  ASSUME NEW op \in Records!Op
  PROVE  /\ op.kind \in Records!Kinds /\ op.tab \in Tabs
         /\ op.step \in {"look", "event", "facts", "record", "prune", "mark", "done"}
         /\ op.was \in Records!Record /\ op.now \in Records!Version /\ op.prior \in BOOLEAN
BY DEF Records!Op

Fresh(v, u) == [version |-> v, status |-> 0, note |-> 0, update |-> u]

LEMMA FirstRecord ==
  ASSUME RecordBounds, NEW v \in Records!Version, NEW u \in {"unchecked", "acknowledged"}
  PROVE  /\ Fresh(v, u) \in Records!Record /\ Fresh(v, u).status = 0
         /\ Fresh(v, u).version = v /\ Fresh(v, u).update = u
<1>1. 0 \in 0..MaxOps
  BY DEF RecordBounds
<1> QED BY <1>1 DEF Fresh, Records!Record

LEMMA FreshRecord ==
  ASSUME NEW v, NEW u
  PROVE  /\ [Records!Gone EXCEPT !.version = v, !.update = u] = Fresh(v, u)
         /\ [Records!Gone EXCEPT !.version = v] = Fresh(v, "unchecked")
<1>1. [Records!Gone EXCEPT !.version = v] = Fresh(v, "unchecked")
  BY DEF Records!Gone, Fresh
<1>2. [Fresh(v, "unchecked") EXCEPT !.update = u] = Fresh(v, u)
  BY DEF Fresh
<1>3. [Records!Gone EXCEPT !.version = v, !.update = u] = [[Records!Gone EXCEPT !.version = v] EXCEPT !.update = u]
  BY Zenon
<1> QED BY <1>1, <1>2, <1>3

\* The record an operation puts is one, and is in the histories as well.
LEMMA WrittenType ==
  ASSUME RecordBounds, RecordsInv, HistoryKept, NEW i \in DOMAIN ops, Records!Puts(i), Records!Stored(i),
         ops[i].kind = "status" => /\ ops'[i].step \in {"prune", "done"}
                                   /\ Stands(Shelf', i) \/ i \in unsure'
  PROVE  Records!Written(i) \in Records!Record /\ Backed(Shelf', Records!Written(i))
<1> DEFINE op == ops[i]
           w == Records!Written(i)
<1> SUFFICES w \in Records!Record /\ Backed(Shelf', w)
  OBVIOUS
<1>1. op \in Records!Op /\ i \in 1..MaxOps /\ Prepared(Shelf, op, i) /\ Backed(Shelf, op.was)
  BY OpType
<1>2. /\ op.kind \in Records!Kinds /\ op.was \in Records!Record /\ op.now \in Records!Version
      /\ op.step \in {"facts", "record", "mark"}
  BY <1>1, OpFields DEF Records!Puts
<1>3. Backed(Shelf', op.was)
  BY <1>1, BackedKept
<1>4. op.was = Records!Gone => op.kind \in {"save", "import"}
  BY <1>1, <1>2 DEF Prepared
<1>5. CASE op.kind = "import"
  <2>1. w = Fresh(0, "unchecked")
    BY <1>5, FreshRecord DEF Records!Written, Records!Observes
  <2>2. 0 \in Records!Version
    BY DEF Records!Version, RecordBounds
  <2>3. w \in Records!Record /\ w.status = 0 /\ w.update = "unchecked"
    BY <2>1, <2>2, FirstRecord
  <2> HIDE DEF w
  <2> QED BY <2>3 DEF Backed
<1>6. CASE op.kind \in {"save", "check"} /\ op.now = op.was.version
  <2>1. w = op.was
    BY <1>6 DEF Records!Written, Records!Observes
  <2> QED BY <1>2, <1>3, <2>1
<1>7. CASE op.kind \in {"save", "check"} /\ op.now # op.was.version /\ op.was = Records!Gone
  <2>1. w = Fresh(op.now, "unchecked")
    BY <1>7, FreshRecord DEF Records!Written, Records!Observes, Records!UpdateAfter
  <2>2. op.now \in Records!Version
    BY <1>2
  <2> HIDE DEF w, op
  <2>3. w \in Records!Record /\ w.status = 0 /\ w.update = "unchecked"
    BY <2>1, <2>2, FirstRecord
  <2> QED BY <2>3 DEF Backed
<1>8. CASE op.was # Records!Gone /\ op.kind # "import" /\ ~(op.kind \in {"save", "check"} /\ op.now = op.was.version)
  <2>1. op.was \in [version : Records!Version, status : 0..MaxOps, note : 0..MaxOps,
                    update : {"unchecked", "changed", "acknowledged"}]
    BY <1>2, <1>8, RecordFields
  <2>3. CASE op.kind \in {"save", "check"}
    <3>1. w = [op.was EXCEPT !.version = op.now, !.update = "changed"]
      BY <2>3, <1>8 DEF Records!Written, Records!Observes, Records!UpdateAfter
    <3>2. /\ w \in Records!Record /\ w.status = op.was.status /\ w.version = op.now
          /\ w.update = "changed"
      BY <1>2, <2>1, <3>1 DEF Records!Record
    <3>3. Announced(Shelf', op.now)
      BY <1>1, <1>2, <1>8, <2>3 DEF Prepared, HistoryKept
    <3> HIDE DEF op, w
    <3> QED BY <3>2, <3>3, <1>3 DEF Backed
  <2>5. CASE op.kind = "status"
    <3>1. w = [op.was EXCEPT !.status = i]
      BY <2>5 DEF Records!Written, Records!Observes
    <3>2. /\ w \in Records!Record /\ w.status = i /\ w.version = op.was.version
          /\ w.update = op.was.update
      BY <1>1, <2>1, <3>1 DEF Records!Record, RecordBounds
    <3>3. /\ i \in DOMAIN ops' /\ ops'[i].kind = "status" /\ ops'[i].step \in {"prune", "done"}
          /\ Stands(Shelf', i) \/ i \in unsure'
      BY <2>5 DEF HistoryKept, OpsKept
    <3> HIDE DEF op, w
    <3> QED BY <3>2, <3>3, <1>3, OnShelf DEF Backed
  <2>6. CASE op.kind = "edit"
    <3>1. w = [op.was EXCEPT !.note = i]
      BY <2>6 DEF Records!Written, Records!Observes
    <3>2. /\ w \in Records!Record /\ w.status = op.was.status /\ w.version = op.was.version
          /\ w.update = op.was.update
      BY <1>1, <2>1, <3>1 DEF Records!Record, RecordBounds
    <3> HIDE DEF op, w
    <3> QED BY <3>2, <1>3 DEF Backed
  <2>7. CASE op.kind = "acknowledge"
    <3>1. w = [op.was EXCEPT !.update = "acknowledged"]
      BY <2>7 DEF Records!Written, Records!Observes
    <3>2. /\ w \in Records!Record /\ w.status = op.was.status /\ w.version = op.was.version
          /\ w.update = "acknowledged"
      BY <2>1, <3>1 DEF Records!Record
    <3>3. op.was.version \in seen'
      BY <2>7 DEF Records!Stored
    <3> HIDE DEF op, w
    <3> QED BY <3>2, <3>3, <1>3, OnShelf DEF Backed
  <2> QED BY <2>3, <2>5, <2>6, <2>7, <1>2, <1>8 DEF Records!Kinds
<1> QED BY <1>2, <1>4, <1>5, <1>6, <1>7, <1>8
-----------------------------
(* The histories.                                                          *)

\* Newer events stay newer, and are not forgotten.
LEMMA AgedKept ==
  ASSUME RecordBounds, OpsKept, NEW j \in DOMAIN ops, logged \subseteq DOMAIN ops, Aged(Shelf, j)
  PROVE  Aged(Shelf', j)
<1>1. Followers(Shelf, j) \subseteq Followers(Shelf', j)
  BY OnShelf DEF Followers, Watches, OpsKept
<1>2. Followers(Shelf', j) \subseteq 1..MaxOps
  BY OnShelf DEF Followers, OpsKept
<1>3. IsFiniteSet(1..MaxOps)
  BY FS_Interval DEF RecordBounds
<1>4. IsFiniteSet(Followers(Shelf', j)) /\ IsFiniteSet(Followers(Shelf, j))
  BY <1>1, <1>2, <1>3, FS_Subset
<1>5. Cardinality(Followers(Shelf, j)) <= Cardinality(Followers(Shelf', j))
  BY <1>1, <1>4, FS_Subset
<1>6. Cardinality(Followers(Shelf, j)) \in Nat /\ Cardinality(Followers(Shelf', j)) \in Nat
  BY <1>4, FS_CardinalityType
<1> QED BY <1>5, <1>6 DEF Aged, RecordBounds

\* An event of the same change.
SameNews(k) ==
  \E m \in events' : /\ m \in logged' /\ Watches(Shelf', m) /\ ops'[m].now = ops[k].now
                     /\ ops'[m].was.version = ops[k].was.version

\* An event is there, taken back, replaced by one of the same change, or old;
\* that of a status only while its command has not put the record.
Stays(k) ==
  \/ k \in events' \/ Aged(Shelf', k)
  \/ /\ Watches(Shelf, k)
     /\ \/ k \in undone'
        \/ SameNews(k)
  \/ /\ ~Watches(Shelf, k)
     /\ ops[k].kind = "status" => ops[k].step \notin {"prune", "done"} /\ ops'[k].step # "record"

LEMMA HistoryMoves ==
  ASSUME RecordBounds, RecordsInv, OpsKept, \A k \in events : Stays(k)
  PROVE  HistoryKept
<1>1. events \subseteq logged /\ logged \subseteq DOMAIN ops
  BY DEF RecordsInv, Records!TypeOK
<1>2. \A k \in DOMAIN ops : Watches(Shelf', k) = Watches(Shelf, k)
  BY OnShelf DEF Watches, OpsKept
<1>3. ASSUME NEW v, Announced(Shelf, v)
      PROVE  Announced(Shelf', v)
  <2>1. PICK k \in logged : /\ Watches(Shelf, k) /\ ops[k].now = v /\ ops[k].was.version # v
                            /\ k \in events \union undone \/ Aged(Shelf, k)
    BY <1>3, OnShelf DEF Announced
  <2>2. k \in logged' /\ Watches(Shelf', k) /\ ops'[k].now = v /\ ops'[k].was.version # v
    BY <1>1, <1>2, <2>1 DEF OpsKept
  <2>3. CASE k \in undone' \/ k \in events' \/ Aged(Shelf', k)
    BY <2>2, <2>3, OnShelf DEF Announced
  <2>4. CASE SameNews(k)
    BY <2>1, <2>4, OnShelf DEF Announced, SameNews
  <2>5. Aged(Shelf, k) => Aged(Shelf', k)
    BY <1>1, AgedKept
  <2> QED BY <2>1, <2>3, <2>4, <2>5 DEF Stays, OpsKept
<1>4. ASSUME NEW j \in DOMAIN ops, Stands(Shelf, j), ops[j].kind = "status",
             ops[j].step \in {"prune", "done"} \/ ops'[j].step = "record"
      PROVE  Stands(Shelf', j)
  <2>1. ~Watches(Shelf, j)
    BY <1>4, OnShelf DEF Watches
  <2>2. Aged(Shelf, j) => Aged(Shelf', j)
    BY <1>1, AgedKept
  <2> QED BY <1>4, <2>1, <2>2, OnShelf DEF Stands, Stays
<1> QED BY <1>3, <1>4 DEF HistoryKept

\* A step of one operation that leaves the others alone, and what it knows.
OneSteps(i) ==
  /\ DOMAIN ops' = DOMAIN ops
  /\ \A j \in DOMAIN ops : j # i => ops'[j] = ops[j]
  /\ ops'[i] \in Records!Op
  /\ ops'[i].kind = ops[i].kind /\ ops'[i].was = ops[i].was /\ ops'[i].now = ops[i].now

LEMMA GoesType ==
  ASSUME RecordBounds, RecordsInv, NEW i \in DOMAIN ops, NEW p \in BOOLEAN,
         NEW s \in {"look", "event", "facts", "record", "prune", "mark", "done"},
         Records!Goes(i, s) \/ ops' = [ops EXCEPT ![i].prior = p, ![i].step = s]
  PROVE  OneSteps(i) /\ ops'[i].step = s
<1>1. ops[i] \in Records!Op
  BY OpType
<1>2. /\ DOMAIN ops' = DOMAIN ops /\ \A j \in DOMAIN ops : j # i => ops'[j] = ops[j]
      /\ ops'[i] \in {[ops[i] EXCEPT !.step = s], [ops[i] EXCEPT !.prior = p, !.step = s]}
  BY DEF Records!Goes
<1>3. ASSUME NEW o \in {[ops[i] EXCEPT !.step = s], [ops[i] EXCEPT !.prior = p, !.step = s]}
      PROVE  /\ o \in Records!Op /\ o.step = s
             /\ o.kind = ops[i].kind /\ o.was = ops[i].was /\ o.now = ops[i].now
  <2>1. CASE o = [ops[i] EXCEPT !.step = s]
    BY <1>1, <2>1 DEF Records!Op
  <2>2. CASE o = [ops[i] EXCEPT !.prior = p, !.step = s]
    BY <1>1, <2>2 DEF Records!Op
  <2> QED BY <1>3, <2>1, <2>2
<1> QED BY <1>2, <1>3 DEF OneSteps

LEMMA OneOpKept ==
  ASSUME RecordBounds, RecordsInv, NEW i \in DOMAIN ops, OneSteps(i),
         ops[i].step # "done", ops[i].step = "prune" => ops'[i].step \in {"prune", "mark", "done"},
         ops[i].step = "prune" /\ ops'[i].step = "mark" => ops[i].kind = "check",
         logged' \in {logged, logged \union {i}},
         seen \subseteq seen', unsure \subseteq unsure', undone \subseteq undone'
  PROVE  OpsKept
<1>1. /\ logged \subseteq DOMAIN ops /\ DOMAIN ops' \subseteq 1..MaxOps
      /\ logged \subseteq logged' /\ logged' \subseteq DOMAIN ops'
  BY OpType DEF OneSteps, RecordsInv, Records!TypeOK
<1>2. ASSUME NEW j \in DOMAIN ops
      PROVE  /\ j \in DOMAIN ops' /\ ops'[j].kind = ops[j].kind
             /\ ops'[j].now = ops[j].now /\ ops'[j].was = ops[j].was
             /\ ops[j].kind = "status" /\ ops[j].step \in {"prune", "done"}
                  => ops'[j].step \in {"prune", "done"}
  BY <1>2 DEF OneSteps
<1> QED BY <1>1, <1>2 DEF OpsKept

\* The invariant after a step of one operation.
LEMMA OneStepInv ==
  ASSUME RecordBounds, RecordsInv, HistoryKept, NEW i \in DOMAIN ops, OneSteps(i),
         troubles' \in 0..MaxFaults, events' \subseteq logged',
         entry' = entry \/ (entry' \in Records!Record /\ Backed(Shelf', entry')),
         \/ cache' = cache
         \/ cache' = [cache EXCEPT ![ops[i].tab] = entry'],
         Prepared(Shelf', ops'[i], i)
  PROVE  RecordsInv'
<1>1. entry' \in Records!Record /\ Backed(Shelf', entry')
  BY BackedKept DEF RecordsInv, Records!TypeOK
<1>2. cache' \in [Tabs -> Records!Record] /\ \A t \in Tabs : Backed(Shelf', cache'[t])
  BY <1>1, BackedKept DEF RecordsInv, Records!TypeOK
<1>3. Records!TypeOK'
  <2>1. DOMAIN ops' \in {1..n : n \in 0..MaxOps}
    BY DEF OneSteps, RecordsInv, Records!TypeOK
  <2>2. \A j \in DOMAIN ops' : ops'[j] \in Records!Op
    BY OpType DEF OneSteps
  <2> QED BY <1>1, <1>2, <2>1, <2>2 DEF Records!TypeOK, HistoryKept, OpsKept
<1>4. ASSUME NEW j \in DOMAIN ops'
      PROVE  Prepared(Shelf', ops'[j], j) /\ Backed(Shelf', ops'[j].was)
  <2>0. j \in DOMAIN ops /\ Backed(Shelf', ops[j].was) /\ Prepared(Shelf, ops[j], j)
    BY <1>4, OpType, BackedKept DEF OneSteps
  <2>1. CASE j = i
    BY <2>0, <2>1 DEF OneSteps
  <2>2. CASE j # i
    <3>1. ops'[j] = ops[j]
      BY <2>0, <2>2 DEF OneSteps
    <3> QED BY <2>0, <3>1 DEF Prepared, HistoryKept
  <2> QED BY <2>1, <2>2
<1> QED BY <1>1, <1>2, <1>3, <1>4 DEF RecordsInv

\* Steps that leave the histories and the record alone.
LEMMA QuietStep ==
  ASSUME RecordBounds, RecordsInv, NEW i \in DOMAIN ops,
         \/ Records!LookForEvent(i) \/ (Records!EventRefused(i) /\ UNCHANGED events)
         \/ Records!Pruned(i) \/ Records!PruneRefused(i)
  PROVE  RecordsInv'
<1>1. ops[i] \in Records!Op /\ Prepared(Shelf, ops[i], i) /\ ops[i].kind \in Records!Kinds
  BY OpType, OpFields
<1>2. PICK s \in {"event", "record", "mark", "done"} :
        /\ OneSteps(i) /\ ops'[i].step = s
        /\ s \in {"event", "record"} =>
             /\ ops[i].step = "look"
             /\ s = "record" => \E k \in events : k \in Records!Same(i)
        /\ s = "mark" => ops[i].kind = "check" /\ ops[i].step = "prune"
  <2>1. CASE Records!LookForEvent(i)
    <3>1. (Records!Same(i) # {}) \in BOOLEAN
      OBVIOUS
    <3>2. CASE Records!Same(i) = {}
      <4>1. ops' = [ops EXCEPT ![i].prior = (Records!Same(i) # {}), ![i].step = "event"]
        BY <2>1, <3>2 DEF Records!LookForEvent
      <4> QED BY <2>1, <3>1, <4>1, GoesType DEF Records!LookForEvent
    <3>3. CASE Records!Same(i) # {}
      <4>1. ops' = [ops EXCEPT ![i].prior = (Records!Same(i) # {}), ![i].step = "record"]
        BY <2>1, <3>3 DEF Records!LookForEvent
      <4>2. \E k \in events : k \in Records!Same(i)
        BY <3>3 DEF Records!Same
      <4> QED BY <2>1, <3>1, <4>1, <4>2, GoesType DEF Records!LookForEvent
    <3> QED BY <3>2, <3>3
  <2>2. CASE Records!EventRefused(i)
    BY <2>2, GoesType DEF Records!EventRefused
  <2>3. CASE Records!Pruned(i) \/ Records!PruneRefused(i)
    <3>1. /\ ops[i].step = "prune"
          /\ Records!Goes(i, "done") \/ Records!Goes(i, Records!Last(i))
          /\ Records!Last(i) \in {"mark", "done"}
          /\ Records!Last(i) = "mark" => ops[i].kind = "check"
      BY <2>3 DEF Records!Pruned, Records!PruneRefused, Records!Last
    <3>2. CASE Records!Goes(i, "done")
      BY <3>1, <3>2, GoesType
    <3>3. CASE Records!Goes(i, Records!Last(i))
      BY <3>1, <3>3, GoesType
    <3> QED BY <3>1, <3>2, <3>3
  <2> QED BY <2>1, <2>2, <2>3
<1>3. /\ UNCHANGED <<entry, cache, events, seen, undone, unsure>> /\ ops[i].step # "done"
      /\ logged' \in {logged, logged \union {i}}
      /\ ops[i].step = "prune" => ops'[i].step \in {"mark", "done"}
  BY <1>2 DEF Records!LookForEvent, Records!EventRefused, Records!EventStored, Records!Pruned, Records!PruneRefused,
     Records!history
<1>4. OpsKept
  BY <1>2, <1>3, OneOpKept
<1>5. HistoryKept
  BY <1>3, <1>4, HistoryMoves DEF Stays
<1>6. troubles' \in 0..MaxFaults
  BY DEF Records!LookForEvent, Records!EventRefused, Records!Pruned, Records!PruneRefused,
         Records!history, Records!Fault, RecordsInv, Records!TypeOK, RecordBounds
<1>7. ASSUME ops'[i].step = "record", ops[i].kind \in {"save", "check"}, ops[i].now # ops[i].was.version
      PROVE  Announced(Shelf', ops[i].now)
  <2>1. PICK k \in events : k \in Records!Same(i)
    BY <1>2, <1>7
  <2>2. Watches(Shelf, k) /\ ops[k].now = ops[i].now /\ ops[k].was.version # ops[k].now
    BY <1>2, <1>7, <2>1, OnShelf DEF Records!Same, Records!Observes, Records!Change, Watches
  <2>3. k \in logged
    BY DEF RecordsInv, Records!TypeOK
  <2> QED BY <2>2, <2>3, <1>5, OnShelf DEF Announced, HistoryKept
<1>8. Prepared(Shelf', ops'[i], i)
  <2>1. ops'[i].kind = ops[i].kind /\ ops'[i].was = ops[i].was /\ ops'[i].now = ops[i].now
    BY <1>2 DEF OneSteps
  <2>2. CASE ops'[i].step = "done"
    BY <2>1, <2>2 DEF Prepared
  <2>3. CASE ops'[i].step = "event"
    BY <1>1, <1>2, <2>1, <2>3 DEF Prepared
  <2>4. CASE ops'[i].step = "record"
    BY <1>1, <1>2, <1>7, <2>1, <2>4 DEF Prepared
  <2>5. CASE ops'[i].step = "mark"
    BY <1>1, <1>2, <1>5, <2>1, <2>5 DEF Prepared, HistoryKept
  <2> QED BY <1>2, <2>2, <2>3, <2>4, <2>5
<1>9. events' \subseteq logged'
  BY <1>3 DEF RecordsInv, Records!TypeOK
<1> QED BY <1>2, <1>3, <1>5, <1>6, <1>8, <1>9, OneStepInv

LEMMA StoreEventInv ==
  ASSUME RecordBounds, RecordsInv, NEW i \in DOMAIN ops, Records!EventStored(i),
         Records!StoreEvent(i) \/ Records!EventRefused(i)
  PROVE  RecordsInv'
<1>1. ops[i] \in Records!Op /\ Prepared(Shelf, ops[i], i) /\ ops[i].kind \in Records!Kinds
  BY OpType, OpFields
<1>2. /\ OneSteps(i) /\ ops[i].step = "event"
      /\ ops'[i].step \in {"record", "done"}
  BY GoesType DEF Records!StoreEvent, Records!EventRefused
<1>3. /\ UNCHANGED <<entry, cache, seen, undone, unsure>> /\ troubles' \in 0..MaxFaults
      /\ events' = (events \ Records!Same(i)) \union {i} /\ logged' = logged \union {i}
  BY DEF Records!StoreEvent, Records!EventRefused, Records!EventStored, Records!Fault, RecordsInv,
         Records!TypeOK, RecordBounds
<1>4. OpsKept
  BY <1>2, <1>3, OneOpKept
<1>5. ASSUME NEW k \in events, k \notin events'
      PROVE  Watches(Shelf, k) /\ SameNews(k)
  <2>1. /\ k # i /\ Watches(Shelf, k) /\ Watches(Shelf, i)
        /\ ops[i].now = ops[k].now /\ ops[i].was.version = ops[k].was.version
    BY <1>3, <1>5, OnShelf DEF Records!Same, Records!Observes, Records!Change, Watches
  <2>2. Watches(Shelf', i) /\ ops'[i].now = ops[i].now /\ ops'[i].was = ops[i].was
    BY <1>2, <2>1, OnShelf DEF OneSteps, Watches
  <2> QED BY <1>3, <2>1, <2>2 DEF SameNews
<1>6. HistoryKept
  BY <1>4, <1>5, HistoryMoves DEF Stays
<1>7. Prepared(Shelf', ops'[i], i)
  <2>1. ops'[i].kind = ops[i].kind /\ ops'[i].was = ops[i].was /\ ops'[i].now = ops[i].now
    BY <1>2 DEF OneSteps
  <2>2. Stands(Shelf', i)
    BY <1>3, OnShelf DEF Stands
  <2>3. ops[i].kind \in {"save", "check"} /\ ops[i].now # ops[i].was.version
          => Announced(Shelf', ops[i].now)
    BY <1>3, <2>1, OnShelf DEF Announced, Watches
  <2> QED BY <1>1, <1>2, <2>1, <2>2, <2>3 DEF Prepared
<1>8. events' \subseteq logged'
  BY <1>3 DEF RecordsInv, Records!TypeOK
<1> QED BY <1>2, <1>3, <1>6, <1>7, <1>8, OneStepInv

LEMMA PutInv ==
  ASSUME RecordBounds, RecordsInv, NEW i \in DOMAIN ops, Records!Put(i)
  PROVE  RecordsInv'
<1>1. /\ ops[i] \in Records!Op /\ Prepared(Shelf, ops[i], i) /\ ops[i].kind \in Records!Kinds
      /\ ops[i].step \in {"facts", "record", "mark"}
  BY OpType, OpFields DEF Records!Put, Records!Puts
<1>2. PICK s \in {"prune", "mark", "done"} :
        /\ Records!Goes(i, s)
        /\ s = "prune" => ops[i].step = "record"
        /\ s = "mark" => ops[i].kind = "check" /\ ops[i].step # "mark"
        /\ ops[i].kind = "status" => s # "mark"
  BY DEF Records!Put, Records!Last, Records!HasEvent
<1>3. OneSteps(i) /\ ops'[i].step = s
  BY <1>2, GoesType
<1>4. /\ entry' = Records!Written(i) /\ seen \subseteq seen'
      /\ cache' = [cache EXCEPT ![ops[i].tab] = entry']
      /\ UNCHANGED <<events, logged, troubles, undone, unsure>>
  BY DEF Records!Put, Records!Stored
<1>5. OpsKept
  BY <1>1, <1>3, <1>4, OneOpKept
<1>6. HistoryKept
  BY <1>4, <1>5, HistoryMoves DEF Stays
<1>7. ops[i].kind = "status" => ops'[i].step \in {"prune", "done"} /\ Stands(Shelf', i)
  <2>1. ASSUME ops[i].kind = "status"
        PROVE  Stands(Shelf, i)
    BY <1>1, <2>1 DEF Prepared
  <2>2. i \in events => i \in events'
    BY <1>4
  <2>3. Aged(Shelf, i) => Aged(Shelf', i)
    BY <1>5, AgedKept DEF RecordsInv, Records!TypeOK
  <2> QED BY <1>2, <1>3, <2>1, <2>2, <2>3, OnShelf DEF Stands
<1>8. entry' \in Records!Record /\ Backed(Shelf', entry')
  BY <1>4, <1>6, <1>7, WrittenType DEF Records!Put
<1>9. Prepared(Shelf', ops'[i], i)
  <2>1. ops'[i].kind = ops[i].kind /\ ops'[i].was = ops[i].was /\ ops'[i].now = ops[i].now
    BY <1>3 DEF OneSteps
  <2>2. CASE s = "prune"
    BY <1>1, <1>2, <1>3, <1>6, <2>1, <2>2 DEF Prepared, HistoryKept
  <2>3. CASE s = "mark"
    BY <1>1, <1>2, <1>3, <1>6, <2>1, <2>3 DEF Prepared, HistoryKept
  <2>4. CASE s = "done"
    BY <1>3, <2>1, <2>4 DEF Prepared
  <2> QED BY <2>2, <2>3, <2>4
<1>10. troubles' \in 0..MaxFaults /\ events' \subseteq logged'
  BY <1>4 DEF RecordsInv, Records!TypeOK
<1> QED BY <1>3, <1>4, <1>6, <1>8, <1>9, <1>10, OneStepInv

\* An event is taken back before its operation ends; no other is touched.
LEMMA PutFailsInv ==
  ASSUME RecordBounds, RecordsInv, NEW i \in DOMAIN ops,
         Records!PutRefused(i) \/ Records!PutUnanswered(i) \/ Records!Cancel(i)
  PROVE  RecordsInv'
<1>1. /\ Records!TakeBack(i) /\ ops[i].step \notin {"prune", "done"} /\ troubles' \in 0..MaxFaults
      /\ seen \subseteq seen' /\ unsure \subseteq unsure' /\ UNCHANGED <<cache, logged>>
  BY DEF Records!PutRefused, Records!PutUnanswered, Records!Cancel, Records!Stored, Records!Fault,
         Records!Forgets, Records!Puts, RecordsInv, Records!TypeOK, RecordBounds
<1>2. /\ OneSteps(i) /\ ops'[i].step = "done" /\ events' \subseteq events /\ undone \subseteq undone'
      /\ \A k \in events : k \in events' \/ (k \in Records!Same(i) /\ k \in undone')
  BY <1>1, GoesType DEF Records!TakeBack
<1>3. OpsKept
  BY <1>1, <1>2, OneOpKept
<1>4. ASSUME NEW k \in events
      PROVE  Stays(k)
  <2>1. CASE k \in events'
    BY <2>1 DEF Stays
  <2>2. CASE k \in Records!Same(i) /\ k \in undone'
    <3>1. k = i \/ Watches(Shelf, k)
      BY <2>2, OnShelf DEF Records!Same, Records!Observes, Watches
    <3> QED BY <1>1, <1>2, <2>2, <3>1 DEF Stays
  <2> QED BY <1>2, <2>1, <2>2
<1>5. HistoryKept
  BY <1>3, <1>4, HistoryMoves
<1>6. entry' = entry \/ (entry' \in Records!Record /\ Backed(Shelf', entry'))
  <2>1. CASE Records!PutUnanswered(i)
    <3>1. Records!Puts(i) /\ Records!Stored(i) /\ i \in unsure'
      BY <2>1 DEF Records!PutUnanswered
    <3>2. Records!Written(i) \in Records!Record /\ Backed(Shelf', Records!Written(i))
      BY <1>2, <1>5, <3>1, WrittenType
    <3> QED BY <3>1, <3>2 DEF Records!Stored
  <2> QED BY <2>1 DEF Records!PutRefused, Records!Cancel
<1>7. Prepared(Shelf', ops'[i], i)
  BY <1>2, OpType DEF Prepared, OneSteps
<1>8. events' \subseteq logged'
  BY <1>1, <1>2 DEF RecordsInv, Records!TypeOK
<1> QED BY <1>1, <1>2, <1>5, <1>6, <1>7, <1>8, OneStepInv

\* Only an old event is pruned.
LEMMA PruneInv ==
  ASSUME RecordBounds, RecordsInv, NEW i \in DOMAIN ops, Records!Prune(i)
  PROVE  RecordsInv'
<1>1. PICK j \in events : Records!Surplus(j) /\ events' = events \ {j}
  BY DEF Records!Prune
<1>2. UNCHANGED <<entry, cache, ops, troubles, logged, seen, undone, unsure>>
  BY DEF Records!Prune, Records!history
<1>3. j \in DOMAIN ops /\ events \subseteq logged /\ logged \subseteq DOMAIN ops /\ DOMAIN ops \subseteq 1..MaxOps
  BY OpType DEF RecordsInv, Records!TypeOK
<1>4. Aged(Shelf, j)
  <2>1. Records!Newer(events, j) \subseteq Followers(Shelf, j)
    BY <1>3, OnShelf DEF Records!Newer, Records!Observes, Followers, Watches
  <2>2. IsFiniteSet(Followers(Shelf, j))
    <3>1. Followers(Shelf, j) \subseteq 1..MaxOps
      BY <1>3, OnShelf DEF Followers
    <3>2. IsFiniteSet(1..MaxOps)
      BY FS_Interval DEF RecordBounds
    <3> QED BY <3>1, <3>2, FS_Subset
  <2>3. /\ Cardinality(Records!Newer(events, j)) <= Cardinality(Followers(Shelf, j))
        /\ IsFiniteSet(Records!Newer(events, j))
    BY <2>1, <2>2, FS_Subset
  <2>4. Cardinality(Records!Newer(events, j)) \in Nat /\ Cardinality(Followers(Shelf, j)) \in Nat
    BY <2>2, <2>3, FS_CardinalityType
  <2>5. Cardinality(Records!Newer(events, j)) >= HistoryLimit
    BY <1>1, SizeOfEvents DEF Records!Surplus
  <2> QED BY <2>3, <2>4, <2>5 DEF Aged, RecordBounds
<1>5. OpsKept
  BY <1>2, <1>3 DEF OpsKept
<1>6. Aged(Shelf', j)
  BY <1>3, <1>4, <1>5, AgedKept
<1>7. HistoryKept
  BY <1>1, <1>5, <1>6, HistoryMoves DEF Stays
<1>8. OneSteps(i)
  BY <1>2, OpType DEF OneSteps
<1>9. Prepared(Shelf', ops'[i], i)
  BY <1>2, <1>7, OpType DEF Prepared, HistoryKept
<1>10. events' \subseteq logged' /\ troubles' \in 0..MaxFaults
  BY <1>1, <1>2, <1>3 DEF RecordsInv, Records!TypeOK
<1> QED BY <1>2, <1>7, <1>8, <1>9, <1>10, OneStepInv

\* A step that leaves every operation as it is, or ends it, and what is stored
\* alone.
LEMMA QuietInv ==
  ASSUME RecordBounds, RecordsInv, UNCHANGED <<events, logged, undone, unsure, seen>>,
         entry' \in {entry, Records!Gone}, troubles' \in 0..MaxFaults,
         \A t \in Tabs : cache'[t] \in {cache[t], Records!Gone}, cache' \in [Tabs -> Records!Record],
         DOMAIN ops' = DOMAIN ops,
         \A j \in DOMAIN ops : \/ ops'[j] = ops[j]
                               \/ ops'[j] = [ops[j] EXCEPT !.step = "done"]
  PROVE  RecordsInv'
<1>1. ASSUME NEW j \in DOMAIN ops
      PROVE  /\ ops'[j] \in Records!Op /\ ops'[j].kind = ops[j].kind /\ ops'[j].now = ops[j].now
             /\ ops'[j].was = ops[j].was /\ (ops'[j] = ops[j] \/ ops'[j].step = "done")
  <2>1. ops[j] \in Records!Op
    BY OpType
  <2>2. /\ [ops[j] EXCEPT !.step = "done"] \in Records!Op
        /\ [ops[j] EXCEPT !.step = "done"].kind = ops[j].kind
        /\ [ops[j] EXCEPT !.step = "done"].now = ops[j].now
        /\ [ops[j] EXCEPT !.step = "done"].was = ops[j].was
        /\ [ops[j] EXCEPT !.step = "done"].step = "done"
    BY <2>1 DEF Records!Op
  <2> QED BY <2>1, <2>2
<1>2. OpsKept
  BY <1>1, OpType DEF OpsKept, RecordsInv, Records!TypeOK
<1>3. HistoryKept
  BY <1>2, HistoryMoves DEF Stays
<1>4. entry' \in Records!Record /\ Backed(Shelf', entry')
  BY <1>3, BackedKept, GoneType DEF RecordsInv, Records!TypeOK
<1>5. \A t \in Tabs : Backed(Shelf', cache'[t])
  BY <1>3, BackedKept, GoneType DEF RecordsInv
<1>6. Records!TypeOK'
  BY <1>1, <1>4 DEF RecordsInv, Records!TypeOK
<1>7. ASSUME NEW j \in DOMAIN ops'
      PROVE  Prepared(Shelf', ops'[j], j) /\ Backed(Shelf', ops'[j].was)
  <2>1. Prepared(Shelf, ops[j], j) /\ Backed(Shelf', ops[j].was)
    BY <1>3, OpType, BackedKept
  <2>2. CASE ops'[j] = ops[j]
    BY <1>3, <2>1, <2>2 DEF Prepared, HistoryKept
  <2>3. CASE ops'[j].step = "done"
    BY <1>1, <2>1, <2>3 DEF Prepared
  <2> QED BY <1>1, <2>2, <2>3
<1> QED BY <1>4, <1>5, <1>6, <1>7 DEF RecordsInv

\* An operation begins.
LEMMA ReadInv ==
  ASSUME RecordBounds, RecordsInv, NEW kind \in Records!Kinds, NEW tab \in Tabs, Records!Read(kind, tab)
  PROVE  RecordsInv'
<1> DEFINE was == Records!Known(kind, tab)
<1> DEFINE OpAt(s, n) == [kind |-> kind, tab |-> tab, step |-> s, was |-> was, now |-> n, prior |-> FALSE]
<1>0. PICK i \in Records!Ids, now \in IF kind \in {"save", "check"} THEN Records!Version ELSE {0} :
        \E s \in Records!After(kind, was, now) :
          /\ DOMAIN ops = 1..(i - 1)
          /\ ops' = [j \in 1..i |-> IF j < i THEN ops[j] ELSE OpAt(s, now)]
  BY Zenon DEF Records!Read
<1>1. PICK s \in Records!After(kind, was, now) :
        /\ DOMAIN ops = 1..(i - 1)
        /\ ops' = [j \in 1..i |-> IF j < i THEN ops[j] ELSE OpAt(s, now)]
  BY <1>0
<1> DEFINE op == OpAt(s, now)
<1>2. /\ UNCHANGED <<entry, events, troubles, logged, seen, undone, unsure>>
      /\ cache' = [cache EXCEPT ![tab] = was]
  BY DEF Records!Read, Records!history
<1>3. was \in Records!Record /\ Backed(Shelf, was)
  BY DEF Records!Known, RecordsInv, Records!TypeOK
<1> HIDE DEF was
<1>4. /\ s \in {"look", "event", "facts", "record", "mark", "done"}
      /\ was = Records!Gone => s = "done" \/ (s = "record" /\ kind \in {"save", "import"})
      /\ s = "record" => kind # "status"
      /\ s = "record" /\ kind \in {"save", "check"} => was = Records!Gone
      /\ s \in {"look", "facts", "mark"} => kind \in {"save", "check"}
      /\ s \in {"facts", "mark"} => now = was.version
  BY <1>1 DEF Records!After, Records!Kinds
<1>5. now \in Records!Version
  BY <1>0 DEF Records!Version, RecordBounds
<1>6. op \in Records!Op /\ op.was = was /\ op.step = s /\ op.now = now /\ op.kind = kind
  BY <1>3, <1>4, <1>5 DEF Records!Op
<1> HIDE DEF op
<1>7. /\ i \in 1..MaxOps /\ DOMAIN ops' = 1..i /\ DOMAIN ops' = DOMAIN ops \union {i}
      /\ ops'[i] = op /\ \A j \in DOMAIN ops : ops'[j] = ops[j] /\ j # i
  <2>1. ops' = [j \in 1..i |-> IF j < i THEN ops[j] ELSE op]
    BY <1>1 DEF op
  <2> QED BY <1>1, <2>1 DEF Records!Ids, RecordBounds
<1>8. OpsKept
  BY <1>2, <1>7, OpType DEF OpsKept, RecordsInv, Records!TypeOK
<1>9. HistoryKept
  BY <1>2, <1>8, HistoryMoves DEF Stays
<1>10. cache' \in [Tabs -> Records!Record] /\ \A t \in Tabs : Backed(Shelf', cache'[t])
  BY <1>2, <1>3, <1>9, BackedKept DEF RecordsInv, Records!TypeOK
<1>11. Records!TypeOK'
  <2>1. DOMAIN ops' \in {1..m : m \in 0..MaxOps}
    BY <1>7 DEF RecordBounds
  <2>2. \A j \in DOMAIN ops' : ops'[j] \in Records!Op
    BY <1>6, <1>7, OpType
  <2> QED BY <1>2, <1>7, <1>10, <2>1, <2>2 DEF RecordsInv, Records!TypeOK
<1>12. Backed(Shelf', entry')
  BY <1>2, <1>9, BackedKept DEF RecordsInv
<1>13. ASSUME NEW j \in DOMAIN ops'
       PROVE  Prepared(Shelf', ops'[j], j) /\ Backed(Shelf', ops'[j].was)
  <2>1. CASE j = i
    BY <1>3, <1>4, <1>6, <1>7, <1>9, <2>1, BackedKept DEF Prepared
  <2>2. CASE j # i
    BY <1>7, <1>9, <2>2, OpType, BackedKept DEF Prepared, HistoryKept
  <2> QED BY <2>1, <2>2
<1> QED BY <1>10, <1>11, <1>12, <1>13 DEF RecordsInv

LEMMA RecordsInitially ==
  ASSUME RecordBounds, Records!Init
  PROVE  RecordsInv
<1>1. entry \in Records!Record /\ Backed(Shelf, entry)
  <2>1. CASE entry = Records!Gone
    BY <2>1, GoneType
  <2>2. ASSUME NEW u \in {"unchecked", "acknowledged"},
               entry = [Records!Gone EXCEPT !.version = 0, !.update = u]
        PROVE  entry \in Records!Record /\ Backed(Shelf, entry)
    <3>1. 0 \in Records!Version
      BY DEF Records!Version, RecordBounds
    <3>2. /\ entry \in Records!Record /\ entry.status = 0
          /\ entry.version = 0 /\ entry.update = u
      <4>1. entry = Fresh(0, u)
        BY <2>2, FreshRecord
      <4> QED BY <3>1, <4>1, FirstRecord
    <3>3. seen = {v \in Records!Version : v = entry.version /\ entry.update = "acknowledged"}
      BY DEF Records!Init
    <3> QED BY <3>1, <3>2, <3>3, OnShelf DEF Backed
  <2> QED BY <2>1, <2>2 DEF Records!Init
<1>2. cache = [t \in Tabs |-> Records!Gone] /\ DOMAIN ops = {}
  BY DEF Records!Init
<1>3. {} \in {1..n : n \in 0..MaxOps}
  <2>1. 1..0 = {} /\ 0 \in 0..MaxOps
    BY DEF RecordBounds
  <2> QED BY <2>1
<1>4. Records!TypeOK
  BY <1>1, <1>2, <1>3, GoneType DEF Records!Init, Records!TypeOK, RecordBounds
<1> QED BY <1>1, <1>2, <1>4, GoneType DEF RecordsInv

LEMMA RecordsStep ==
  ASSUME RecordBounds, RecordsInv, [Records!Next]_(Records!vars)
  PROVE  RecordsInv'
<1>1. CASE UNCHANGED Records!vars
  BY <1>1, QuietInv DEF Records!vars, RecordsInv, Records!TypeOK
<1>2. ASSUME NEW kind \in Records!Kinds, NEW tab \in Tabs, Records!Read(kind, tab)
      PROVE  RecordsInv'
  BY <1>2, ReadInv
<1>3. ASSUME NEW i \in DOMAIN ops,
             \/ Records!LookForEvent(i) \/ Records!StoreEvent(i) \/ Records!EventRefused(i) \/ Records!Put(i)
             \/ Records!PutRefused(i) \/ Records!PutUnanswered(i) \/ Records!Cancel(i)
             \/ Records!Prune(i) \/ Records!Pruned(i) \/ Records!PruneRefused(i)
      PROVE  RecordsInv'
  <2>1. Records!StoreEvent(i) => Records!EventStored(i)
    BY DEF Records!StoreEvent
  <2>2. Records!EventRefused(i) => Records!EventStored(i) \/ UNCHANGED events
    BY DEF Records!EventRefused
  <2> QED BY <1>3, <2>1, <2>2, QuietStep, StoreEventInv, PutInv, PutFailsInv, PruneInv
<1>4. ASSUME NEW tab \in Tabs, Records!Remove(tab) \/ Records!Expire(tab) \/ Records!Close(tab)
      PROVE  RecordsInv'
  <2>1. /\ cache' = [cache EXCEPT ![tab] = Records!Gone] /\ entry' \in {entry, Records!Gone}
        /\ UNCHANGED <<events, logged, undone, unsure, seen>>
    BY <1>4 DEF Records!Remove, Records!Expire, Records!Close, Records!history
  <2>2. troubles' \in 0..MaxFaults
    BY <1>4 DEF Records!Remove, Records!Expire, Records!Close, Records!Fault, RecordsInv,
                Records!TypeOK, RecordBounds
  <2>3. /\ cache' \in [Tabs -> Records!Record]
        /\ \A t \in Tabs : cache'[t] \in {cache[t], Records!Gone}
    BY <2>1, GoneType DEF RecordsInv, Records!TypeOK
  <2>4. /\ DOMAIN ops' = DOMAIN ops
        /\ \A j \in DOMAIN ops : \/ ops'[j] = ops[j]
                                 \/ ops'[j] = [ops[j] EXCEPT !.step = "done"]
    BY <1>4 DEF Records!Remove, Records!Expire, Records!Close
  <2> QED BY <2>1, <2>2, <2>3, <2>4, QuietInv
<1> QED BY <1>1, <1>2, <1>3, <1>4 DEF Records!Next

LEMMA RecordsSpecInv ==
  ASSUME RecordBounds
  PROVE  Records!Spec => []RecordsInv
BY RecordsInitially, RecordsStep, PTL DEF Records!Spec

\* Whatever tabs do, an operation of the Library works with whole records of
\* one thread, the ones it may have read from a cache long ago included.
THEOREM RecordsTyped ==
  ASSUME RecordBounds
  PROVE  Records!Spec => []Records!TypeOK
<1>1. RecordsInv => Records!TypeOK
  BY DEF RecordsInv
<1> QED BY RecordsSpecInv, <1>1, PTL

\* A record has the history of what it says, in any number of tabs and after
\* any operations: stale copies, refused and late writes, takebacks, closed tabs
\* (service.js).  Histories are cut to any number of events; what is missing
\* has that many newer ones.
THEOREM HistoriesKept ==
  ASSUME RecordBounds
  PROVE  Records!Spec => []Records!HistoryBacksRecord
<1>1. ASSUME NEW i, Aged(Shelf, i)
      PROVE  Records!Outdated(i)
  <2>1. Followers(Shelf, i) = Records!Newer(logged, i)
    BY OnShelf DEF Followers, Watches, Records!Newer, Records!Observes
  <2> QED BY <1>1, <2>1, SizeOfEvents DEF Aged, Records!Outdated
<1>2. RecordsInv => Records!HistoryBacksRecord
  BY <1>1, OnShelf DEF RecordsInv, Backed, Stands, Announced, Watches, Records!Observes,
     Records!NewVersion, Records!HistoryBacksRecord
<1> QED BY RecordsSpecInv, <1>2, PTL

\* An update counts as acknowledged only in a version the user acknowledged.
THEOREM AcknowledgedSeen ==
  ASSUME RecordBounds
  PROVE  Records!Spec => []Records!AcknowledgedWasSeen
<1>1. RecordsInv => Records!AcknowledgedWasSeen
  BY OnShelf DEF RecordsInv, Backed, Records!AcknowledgedWasSeen
<1> QED BY RecordsSpecInv, <1>1, PTL
-----------------------------
(* Ratings and notes in the manager (LibraryManager).                      *)
CONSTANTS MaxEdits, MaxCommits, MaxNotes, MaxReloads, MaxTurns
VARIABLES open, table, draft, kept, revision, timer, commits, chain, text, pause, saves, filter,
          loads, shown, reloads, stored, last, escaped, put, typed, dropped, crossed

Manager == INSTANCE LibraryManager WITH faults <- troubles, record <- entry

ManagerBounds ==
  /\ MaxEdits \in Nat /\ MaxCommits \in Nat /\ MaxNotes \in Nat /\ MaxReloads \in Nat
  /\ MaxFaults \in Nat

Ratings == -1 .. MaxEdits
Entries == [rating : Ratings \union {-2}, note : 0 .. MaxNotes]
Loads == [filter : 0 .. MaxReloads, rating : Ratings \union {-2}, gone : BOOLEAN]
Saves == [text : 0 .. MaxNotes, was : Entries]
Stages == {"wait", "read", "apply", "stored", "failed", "told", "done"}

RatingTypes ==
  /\ entry \in Entries /\ cache \in Entries /\ revision \in 0 .. MaxEdits
  /\ timer \in BOOLEAN /\ commits \in Seq(Manager!Commits) /\ Len(commits) <= MaxCommits
  /\ chain \in 0 .. Len(commits)

ListTypes ==
  /\ filter \in 0 .. reloads /\ shown \in 0 .. reloads /\ reloads \in 0 .. MaxReloads
  /\ loads \in Seq(Loads) /\ \A i \in DOMAIN loads : loads[i].filter <= reloads

NoteTypes ==
  /\ text \in 0 .. MaxNotes /\ typed \in 0 .. MaxNotes
  /\ pause \in BOOLEAN /\ dropped \in BOOLEAN /\ saves \in Seq(Saves)

PageTypes ==
  open \in BOOLEAN /\ table \in BOOLEAN /\ crossed \in BOOLEAN /\ troubles \in 0 .. MaxFaults

\* A copy of the record that has been read has a rating some commit has stored.
Entered(e, ratings) == e = Manager!NoEntry \/ e.rating \in ratings

Working(c) == c.step \in {"apply", "stored"}

\* What a commit carries: a rating that was taken back only when an edit has
\* superseded the commit.
Fine(c, rev, ratings, back) ==
  /\ c.value \in -1 .. rev /\ c.revision \in 0 .. rev
  /\ c.value \in back => c.revision < rev
  /\ c.step = "stored" => c.value \in ratings \union {-1}
  /\ Entered(c.was, ratings) /\ (Working(c) => c.was # Manager!NoEntry)

\* Everything that is shown, read or stored is a rating some commit has stored;
\* none of these was taken back.
RatingInv ==
  /\ stored \subseteq 0 .. revision /\ escaped \subseteq 0 .. revision /\ stored \cap escaped = {}
  /\ last \in stored /\ put \in 0 .. revision
  /\ draft \in -2 .. revision /\ draft \notin escaped /\ kept \in stored \union {-1, -2}
  /\ entry.rating \in stored /\ Entered(cache, stored)
  /\ \A i \in DOMAIN loads : loads[i].rating \in stored \union {-2}
  /\ \A i \in DOMAIN saves : Entered(saves[i].was, stored)
  /\ \A i \in DOMAIN commits : Fine(commits[i], revision, stored, escaped)

\* A commit that has stored another rating and has no answer yet.
Tells(c) == c.step = "stored" /\ ~Manager!Unchanged(c)

Noted ==
  ~dropped =>
    /\ pause => text = typed
    /\ ~pause /\ saves # <<>> => saves[Len(saves)].text = typed
    /\ ~pause /\ saves = <<>> => entry.note = typed

\* One write at a time, which goes on from the record as it is.
Alone ==
  /\ \A i, j \in DOMAIN commits : Working(commits[i]) /\ Working(commits[j]) => i = j
  /\ \A i, j \in DOMAIN saves :
       saves[i].was # Manager!NoEntry /\ saves[j].was # Manager!NoEntry => i = j
  /\ \A i \in DOMAIN commits, j \in DOMAIN saves : Working(commits[i]) => saves[j].was = Manager!NoEntry
  /\ \A i \in DOMAIN commits : commits[i].step = "apply" => commits[i].was = entry
  /\ \A j \in DOMAIN saves : saves[j].was # Manager!NoEntry => saves[j].was = entry
  /\ \A i \in DOMAIN commits : Tells(commits[i]) => entry = Manager!Rated(commits[i])
  /\ cache \in {Manager!NoEntry, entry} \/ \E i \in DOMAIN commits : Tells(commits[i])
  /\ entry.rating = last
  /\ Noted

AloneInv == ~crossed => Alone

ManagerInv == RatingTypes /\ ListTypes /\ NoteTypes /\ PageTypes /\ RatingInv /\ AloneInv

LEMMA Names ==
  /\ Manager!None = -2 /\ Manager!Blank = -1 /\ Manager!Ratings = Ratings /\ Manager!Entries = Entries
  /\ Manager!Commits =
       [value : Ratings, revision : 0 .. MaxEdits, stale : BOOLEAN, after : 0 .. MaxCommits,
        step : Stages, was : Entries]
  /\ Manager!NoEntry = [rating |-> -2, note |-> 0] /\ Manager!NoEntry.rating = -2
  /\ ManagerBounds => Manager!NoEntry \in Entries
BY DEF Manager!None, Manager!Blank, Manager!Ratings, Manager!Commits, Manager!Entries, Ratings, Entries,
       Stages, Manager!NoEntry, ManagerBounds

LEMMA CommitFields ==
  ASSUME NEW c \in Manager!Commits
  PROVE  /\ c.value \in Ratings /\ c.revision \in 0 .. MaxEdits /\ c.stale \in BOOLEAN
         /\ c.after \in 0 .. MaxCommits /\ c.step \in Stages /\ c.was \in Entries
BY Names

LEMMA EntryFields ==
  ASSUME NEW e \in Entries, NEW r, NEW n
  PROVE  /\ [e EXCEPT !.rating = r] = [rating |-> r, note |-> e.note]
         /\ [e EXCEPT !.note = n] = [rating |-> e.rating, note |-> n]
         /\ e.rating \in Ratings \union {-2} /\ e.note \in 0 .. MaxNotes
BY DEF Entries

LEMMA Shapes ==
  ASSUME RatingTypes, ListTypes, NoteTypes
  PROVE  /\ DOMAIN commits = 1 .. Len(commits) /\ Len(commits) \in Nat
         /\ \A i \in DOMAIN commits : commits[i] \in Manager!Commits
         /\ DOMAIN loads = 1 .. Len(loads) /\ Len(loads) \in Nat
         /\ \A i \in DOMAIN loads : loads[i] \in Loads
         /\ DOMAIN saves = 1 .. Len(saves) /\ Len(saves) \in Nat
         /\ \A i \in DOMAIN saves : saves[i] \in Saves
<1>1. /\ DOMAIN commits = 1 .. Len(commits) /\ Len(commits) \in Nat
      /\ DOMAIN loads = 1 .. Len(loads) /\ Len(loads) \in Nat
      /\ DOMAIN saves = 1 .. Len(saves) /\ Len(saves) \in Nat
  BY LenProperties DEF RatingTypes, ListTypes, NoteTypes
<1>2. /\ \A i \in DOMAIN commits : commits[i] \in Manager!Commits
      /\ \A i \in DOMAIN loads : loads[i] \in Loads
      /\ \A i \in DOMAIN saves : saves[i] \in Saves
  BY <1>1, ElementOfSeq DEF RatingTypes, ListTypes, NoteTypes
<1> QED BY <1>1, <1>2

\* Two states of one commit.
Same(c, d) == d.value = c.value /\ d.revision = c.revision /\ d.was = c.was

\* Commits none of which has gone on to its write.
Eased(cs, ds) ==
  /\ ds \in Seq(Manager!Commits) /\ Len(ds) = Len(cs) /\ DOMAIN ds = DOMAIN cs
  /\ \A j \in DOMAIN cs : Same(cs[j], ds[j]) /\ (Working(ds[j]) => ds[j].step = cs[j].step)

\* The answers that are still to come are the same.
Awaits(cs, ds) == \A j \in DOMAIN cs : cs[j].step = "stored" => ds[j].step = "stored"

LEMMA Replaced ==
  ASSUME NEW cs \in Seq(Manager!Commits), NEW i \in DOMAIN cs, NEW e \in Manager!Commits,
         NEW ds, ds = [cs EXCEPT ![i] = e]
  PROVE  /\ ds \in Seq(Manager!Commits) /\ Len(ds) = Len(cs) /\ DOMAIN ds = DOMAIN cs
         /\ \A j \in DOMAIN cs : ds[j] = IF j = i THEN e ELSE cs[j]
BY ExceptSeq, LenProperties

Stepped(cs, i, s) == [cs EXCEPT ![i].step = s]

LEMMA StepChanged ==
  ASSUME NEW cs \in Seq(Manager!Commits), NEW i \in DOMAIN cs, NEW s \in Stages, NEW ds,
         ds = Stepped(cs, i, s)
  PROVE  /\ ds \in Seq(Manager!Commits) /\ Len(ds) = Len(cs) /\ DOMAIN ds = DOMAIN cs
         /\ \A j \in DOMAIN cs : Same(cs[j], ds[j]) /\ ds[j].step = IF j = i THEN s ELSE cs[j].step
<1> DEFINE e == [cs[i] EXCEPT !.step = s]
<1>1. cs[i] \in Manager!Commits
  BY ElementOfSeq, LenProperties
<1>2. e \in Manager!Commits /\ Same(cs[i], e) /\ e.step = s
  BY <1>1, Names DEF Same
<1>3. ds = [cs EXCEPT ![i] = e]
  BY DEF Stepped
<1> HIDE DEF e
<1>4. /\ ds \in Seq(Manager!Commits) /\ Len(ds) = Len(cs) /\ DOMAIN ds = DOMAIN cs
      /\ \A j \in DOMAIN cs : ds[j] = IF j = i THEN e ELSE cs[j]
  BY <1>2, <1>3, Replaced
<1> QED BY <1>2, <1>4 DEF Same

LEMMA StepEased ==
  ASSUME RatingTypes, NEW i \in DOMAIN commits, NEW s \in Stages, s \notin {"apply", "stored"},
         NEW ds, ds = Stepped(commits, i, s)
  PROVE  Eased(commits, ds) /\ (commits[i].step # "stored" => Awaits(commits, ds))
<1>1. /\ ds \in Seq(Manager!Commits) /\ Len(ds) = Len(commits) /\ DOMAIN ds = DOMAIN commits
      /\ \A j \in DOMAIN commits : /\ Same(commits[j], ds[j])
                                   /\ ds[j].step = IF j = i THEN s ELSE commits[j].step
  BY StepChanged DEF RatingTypes
<1> QED BY <1>1 DEF Eased, Awaits, Working

LEMMA OutdatedEased ==
  ASSUME NEW cs \in Seq(Manager!Commits)
  PROVE  Eased(cs, Manager!Outdated(cs)) /\ Awaits(cs, Manager!Outdated(cs))
<1> DEFINE ds == [j \in DOMAIN cs |-> [cs[j] EXCEPT !.stale = TRUE]]
           n == Len(cs)
<1>1. n \in Nat /\ DOMAIN cs = 1 .. n /\ \A j \in 1 .. n : cs[j] \in Manager!Commits
  BY ElementOfSeq, LenProperties
<1>2. ASSUME NEW j \in 1 .. n
      PROVE  ds[j] \in Manager!Commits /\ Same(cs[j], ds[j]) /\ ds[j].step = cs[j].step
  <2>1. cs[j] \in Manager!Commits
    BY <1>1
  <2>2. ds[j] = [cs[j] EXCEPT !.stale = TRUE]
    BY <1>1
  <2> HIDE DEF ds
  <2>3. Same(cs[j], [cs[j] EXCEPT !.stale = TRUE]) /\ [cs[j] EXCEPT !.stale = TRUE].step = cs[j].step
    BY <2>1, Names DEF Same
  <2>4. [cs[j] EXCEPT !.stale = TRUE] \in Manager!Commits
    BY <2>1, Names
  <2> QED BY <2>2, <2>3, <2>4
<1>3. ds \in [1 .. n -> Manager!Commits]
  BY <1>1, <1>2
<1> HIDE DEF ds
<1>4. ds \in Seq(Manager!Commits) /\ Len(ds) = n /\ DOMAIN ds = 1 .. n
  BY <1>1, <1>3
<1> QED BY <1>1, <1>2, <1>4 DEF Eased, Awaits, Manager!Outdated, ds

LEMMA EasedTwice ==
  ASSUME NEW as, NEW bs, NEW cs, Eased(as, bs), Eased(bs, cs), Awaits(bs, cs)
  PROVE  Eased(as, cs) /\ (Awaits(as, bs) => Awaits(as, cs))
BY DEF Eased, Awaits, Same, Working

\* Loads of which each has read what one had read before, what is stored, or
\* nothing yet.
LoadsKept ==
  \A j \in DOMAIN loads' :
    \/ loads'[j].rating \in {-2, entry.rating}
    \/ \E k \in DOMAIN loads : loads'[j].rating = loads[k].rating

\* What a step may do to the draft and the ratings.
RatingMoves ==
  /\ revision' \in {revision, revision + 1}
  /\ stored \subseteq stored' /\ stored' \subseteq 0 .. revision /\ last' \in stored'
  /\ escaped' \subseteq 0 .. revision /\ escaped' \cap stored' = {}
  /\ escaped' = escaped \/ revision' = revision + 1
  /\ put' \in 0 .. revision
  /\ draft' \in -2 .. revision' /\ draft' \notin escaped' /\ kept' \in stored' \union {-1, -2}

QuietMoves ==
  /\ UNCHANGED <<revision, stored, last, escaped, put>>
  /\ draft' \in {draft, -1, -2} \union stored /\ kept' \in {kept, -1, -2} \union stored

LEMMA QuietRatings ==
  ASSUME RatingTypes, RatingInv, QuietMoves
  PROVE  RatingMoves
<1>1. draft' \in -2 .. revision /\ draft' \notin escaped
  BY DEF RatingTypes, RatingInv, QuietMoves
<1>2. kept' \in stored \union {-1, -2}
  BY DEF RatingInv, QuietMoves
<1> QED BY <1>1, <1>2 DEF RatingInv, QuietMoves, RatingMoves

LEMMA FineKept ==
  ASSUME RatingTypes, RatingInv, RatingMoves, NEW c, Fine(c, revision, stored, escaped), NEW d,
         Same(c, d), Working(d) => d.step = c.step
  PROVE  Fine(d, revision', stored', escaped')
<1>1. revision \in Nat /\ d.value \in -1 .. revision' /\ d.revision \in 0 .. revision'
  BY DEF RatingTypes, RatingMoves, Fine, Same
<1>2. d.value \in escaped' => d.revision < revision'
  BY <1>1 DEF RatingMoves, Fine, Same
<1> QED BY <1>1, <1>2 DEF RatingMoves, Fine, Same, Entered, Working

\* The commits of the next state, one of them perhaps as it was not before.
LEMMA RatingsKept ==
  ASSUME RatingTypes, RatingInv, RatingMoves, LoadsKept,
         entry'.rating \in stored', Entered(cache', stored'),
         \A j \in DOMAIN saves' : Entered(saves'[j].was, stored'),
         \A j \in DOMAIN commits' :
           \/ Fine(commits'[j], revision', stored', escaped')
           \/ /\ j \in DOMAIN commits /\ Same(commits[j], commits'[j])
              /\ Working(commits'[j]) => commits'[j].step = commits[j].step
  PROVE  RatingInv'
<1>1. \A j \in DOMAIN commits' : Fine(commits'[j], revision', stored', escaped')
  BY FineKept DEF RatingInv
<1>2. \A j \in DOMAIN loads' : loads'[j].rating \in stored' \union {-2}
  BY DEF LoadsKept, RatingInv, RatingMoves
<1>3. revision \in Nat
  BY DEF RatingTypes
<1>4. stored' \subseteq 0 .. revision' /\ escaped' \subseteq 0 .. revision' /\ put' \in 0 .. revision'
  BY <1>3 DEF RatingMoves
<1> QED BY <1>1, <1>2, <1>4 DEF RatingInv, RatingMoves

\* No commit of ds works that did not in cs.
WorkKept(cs, ds) ==
  /\ DOMAIN cs \subseteq DOMAIN ds
  /\ \A j \in DOMAIN ds : Working(ds[j]) =>
       j \in DOMAIN cs /\ Same(cs[j], ds[j]) /\ ds[j].step = cs[j].step

\* Steps that read and write nothing for the commits and the saves.
LEMMA AloneKept ==
  ASSUME AloneInv, WorkKept(commits, commits'), UNCHANGED <<entry, last, crossed, saves, text, typed>>,
         dropped' \/ UNCHANGED <<pause, dropped>>,
         ~crossed => \/ cache' \in {Manager!NoEntry, entry}
                     \/ cache' = cache /\ Awaits(commits, commits')
  PROVE  AloneInv'
<1> SUFFICES ASSUME ~crossed
             PROVE  Alone'
  BY DEF AloneInv
<1>1. Alone
  BY DEF AloneInv
<1>2. \A j \in DOMAIN commits' : Working(commits'[j]) =>
        j \in DOMAIN commits /\ Same(commits[j], commits'[j]) /\ commits'[j].step = commits[j].step
  BY DEF WorkKept
<1>3. \A j \in DOMAIN commits' : Tells(commits'[j]) =>
        /\ j \in DOMAIN commits /\ Tells(commits[j])
        /\ Manager!Rated(commits'[j]) = Manager!Rated(commits[j])
  BY <1>2 DEF Tells, Working, Same, Manager!Unchanged, Manager!Rated
<1>4. cache' \in {Manager!NoEntry, entry'} \/ \E i \in DOMAIN commits' : Tells(commits'[i])
  <2>1. Awaits(commits, commits') =>
          \A j \in DOMAIN commits : Tells(commits[j]) => j \in DOMAIN commits' /\ Tells(commits'[j])
    BY DEF Awaits, WorkKept, Working, Tells, Same, Manager!Unchanged
  <2> QED BY <1>1, <2>1 DEF Alone
<1>5. Noted'
  BY <1>1 DEF Alone, Noted
<1>6. /\ \A i, j \in DOMAIN commits' : Working(commits'[i]) /\ Working(commits'[j]) => i = j
      /\ \A i \in DOMAIN commits', j \in DOMAIN saves' :
           Working(commits'[i]) => saves'[j].was = Manager!NoEntry
  BY <1>1, <1>2 DEF Alone, Working
<1>7. \A i \in DOMAIN commits' : commits'[i].step = "apply" => commits'[i].was = entry'
  BY <1>1, <1>2 DEF Alone, Working, Same
<1>8. \A i \in DOMAIN commits' : Tells(commits'[i]) => entry' = Manager!Rated(commits'[i])
  BY <1>1, <1>3 DEF Alone
<1>9. /\ \A i, j \in DOMAIN saves' :
           saves'[i].was # Manager!NoEntry /\ saves'[j].was # Manager!NoEntry => i = j
      /\ \A j \in DOMAIN saves' : saves'[j].was # Manager!NoEntry => saves'[j].was = entry'
      /\ entry'.rating = last'
  BY <1>1 DEF Alone
<1> QED BY <1>4, <1>5, <1>6, <1>7, <1>8, <1>9 DEF Alone

\* A step that reads and writes nothing for a commit or a save.
LEMMA EasyStep ==
  ASSUME ManagerBounds, ManagerInv, Eased(commits, commits'), RatingMoves, revision' \in 0 .. MaxEdits,
         LoadsKept, ListTypes', PageTypes', timer' \in BOOLEAN, chain' \in {0, chain},
         UNCHANGED <<entry, last, crossed, saves, text, typed>>,
         pause' \in BOOLEAN, dropped' \in BOOLEAN, dropped' \/ UNCHANGED <<pause, dropped>>,
         cache' \in Entries, Entered(cache', stored'),
         ~crossed => \/ cache' \in {Manager!NoEntry, entry}
                     \/ cache' = cache /\ Awaits(commits, commits')
  PROVE  ManagerInv'
<1>1. RatingTypes'
  BY DEF ManagerInv, RatingTypes, Eased
<1>2. NoteTypes'
  BY DEF ManagerInv, NoteTypes
<1>3. RatingInv'
  <2>1. \A j \in DOMAIN commits' : /\ j \in DOMAIN commits /\ Same(commits[j], commits'[j])
                                   /\ Working(commits'[j]) => commits'[j].step = commits[j].step
    BY DEF Eased
  <2>2. \A j \in DOMAIN saves' : Entered(saves'[j].was, stored')
    BY DEF ManagerInv, RatingInv, RatingMoves, Entered
  <2>3. entry'.rating \in stored'
    BY DEF ManagerInv, RatingInv, RatingMoves
  <2> QED BY <2>1, <2>2, <2>3, RatingsKept DEF ManagerInv
<1>4. WorkKept(commits, commits')
  BY DEF WorkKept, Eased
<1>5. AloneInv'
  BY <1>4, AloneKept DEF ManagerInv
<1> QED BY <1>1, <1>2, <1>3, <1>5 DEF ManagerInv

\* The same when the notes and the entries are left alone.
LEMMA ListStep ==
  ASSUME ManagerBounds, ManagerInv, Eased(commits, commits'), Awaits(commits, commits'),
         RatingMoves, revision' \in 0 .. MaxEdits, stored' = stored, last' = last,
         LoadsKept, ListTypes', PageTypes', timer' \in BOOLEAN, chain' \in {0, chain},
         UNCHANGED Manager!noteVars, UNCHANGED Manager!entryVars
  PROVE  ManagerInv'
<1>1. UNCHANGED <<entry, cache, crossed, text, pause, saves, typed, dropped>>
  BY DEF Manager!noteVars, Manager!entryVars
<1>2. /\ pause' \in BOOLEAN /\ dropped' \in BOOLEAN /\ cache' \in Entries /\ Entered(cache', stored')
  BY <1>1 DEF ManagerInv, NoteTypes, RatingTypes, RatingInv
<1> QED BY <1>1, <1>2, EasyStep

LEMMA Still ==
  ASSUME RatingTypes
  PROVE  /\ Eased(commits, commits) /\ Awaits(commits, commits) /\ commits \in Seq(Manager!Commits)
         /\ chain \in {0, chain} /\ timer \in BOOLEAN
BY DEF Eased, Awaits, RatingTypes, Same

LEMMA SameList ==
  ASSUME ListTypes, UNCHANGED Manager!listVars
  PROVE  ListTypes' /\ LoadsKept
BY DEF Manager!listVars, ListTypes, LoadsKept

LEMMA ReloadFacts ==
  ASSUME ManagerBounds, ListTypes, NEW cs \in Seq(Manager!Commits),
         NEW f \in {filter, filter + 1}, Manager!Reload(cs, f)
  PROVE  /\ ListTypes' /\ LoadsKept /\ timer' = FALSE /\ chain' = 0
         /\ Eased(cs, commits') /\ Awaits(cs, commits')
<1>1. /\ reloads < MaxReloads /\ reloads' = reloads + 1 /\ commits' = Manager!Outdated(cs)
      /\ timer' = FALSE /\ chain' = 0 /\ filter' = f /\ shown' = shown
      /\ loads' = Append(loads, [filter |-> f, rating |-> -2, gone |-> FALSE])
  BY Names DEF Manager!Reload
<1> DEFINE l == [filter |-> f, rating |-> -2, gone |-> FALSE]
<1>2. l \in Loads /\ l.filter = f /\ l.rating = -2
  BY <1>1 DEF Loads, ListTypes, ManagerBounds
<1> HIDE DEF l
<1>3. loads \in Seq(Loads)
  BY DEF ListTypes
<1>4. /\ loads' \in Seq(Loads) /\ Len(loads') = Len(loads) + 1
      /\ \A j \in 1 .. Len(loads) : loads'[j] = loads[j]
      /\ loads'[Len(loads) + 1] = l
  BY <1>1, <1>2, <1>3, AppendProperties DEF l
<1>5. /\ Len(loads) \in Nat /\ DOMAIN loads = 1 .. Len(loads)
      /\ DOMAIN loads' = 1 .. (Len(loads) + 1)
  BY <1>3, <1>4, LenProperties
<1>6. \A j \in DOMAIN loads' : (j \in DOMAIN loads /\ loads'[j] = loads[j]) \/ loads'[j] = l
  BY <1>4, <1>5
<1>7. ListTypes'
  <2>1. /\ filter' \in 0 .. reloads' /\ shown' \in 0 .. reloads' /\ reloads' \in 0 .. MaxReloads
    BY <1>1 DEF ListTypes, ManagerBounds
  <2>2. ASSUME NEW j \in DOMAIN loads'
        PROVE  loads'[j].filter <= reloads'
    <3>1. CASE loads'[j] = l
      BY <3>1, <1>2, <2>1, <1>1
    <3>2. CASE j \in DOMAIN loads /\ loads'[j] = loads[j]
      <4>1. loads[j] \in Loads /\ loads[j].filter <= reloads
        BY <3>2, <1>3, <1>5, ElementOfSeq DEF ListTypes
      <4> QED BY <4>1, <3>2, <1>1 DEF Loads, ListTypes, ManagerBounds
    <3> QED BY <3>1, <3>2, <1>6
  <2> QED BY <1>4, <2>1, <2>2 DEF ListTypes
<1>8. LoadsKept
  BY <1>2, <1>6 DEF LoadsKept
<1> QED BY <1>1, <1>7, <1>8, OutdatedEased

\* A step that ends with a reload of the rows.
LEMMA ReloadStep ==
  ASSUME ManagerBounds, ManagerInv, NEW cs, Eased(commits, cs), Awaits(commits, cs),
         NEW f \in {filter, filter + 1}, Manager!Reload(cs, f), RatingMoves, revision' \in 0 .. MaxEdits,
         stored' = stored, last' = last,
         UNCHANGED Manager!noteVars, UNCHANGED Manager!entryVars, PageTypes'
  PROVE  ManagerInv'
<1>1. cs \in Seq(Manager!Commits)
  BY DEF Eased
<1>2. /\ ListTypes' /\ LoadsKept /\ timer' = FALSE /\ chain' = 0
      /\ Eased(cs, commits') /\ Awaits(cs, commits')
  BY <1>1, ReloadFacts DEF ManagerInv
<1>3. Eased(commits, commits') /\ Awaits(commits, commits')
  BY <1>2, EasedTwice
<1>4. timer' \in BOOLEAN /\ chain' \in {0, chain}
  BY <1>2
<1> QED BY <1>2, <1>3, <1>4, ListStep

LEMMA OpenInv ==
  ASSUME ManagerBounds, ManagerInv, Manager!Open \/ Manager!Look
  PROVE  ManagerInv'
<1>1. PICK f \in {filter, filter + 1} : Manager!Reload(commits, f)
  BY DEF Manager!Open, Manager!Look
<1>2. /\ QuietMoves /\ UNCHANGED <<revision, stored, last, troubles>>
      /\ UNCHANGED Manager!noteVars /\ UNCHANGED Manager!entryVars
      /\ open' \in BOOLEAN /\ table' \in {table, open /\ table}
  BY Names DEF Manager!Open, Manager!Look, QuietMoves, ManagerInv, PageTypes
<1>3. PageTypes'
  BY <1>2 DEF PageTypes, ManagerInv, Manager!entryVars
<1>4. RatingMoves /\ revision' \in 0 .. MaxEdits
  BY <1>2, QuietRatings DEF ManagerInv, RatingTypes
<1> QED BY <1>1, <1>2, <1>3, <1>4, Still, ReloadStep DEF ManagerInv

LEMMA CloseManagerInv ==
  ASSUME ManagerBounds, ManagerInv, Manager!Close
  PROVE  ManagerInv'
<1> DEFINE ls == [i \in DOMAIN loads |-> [loads[i] EXCEPT !.gone = TRUE]]
<1>1. /\ commits' = Manager!Outdated(commits) /\ timer' = FALSE /\ chain' = 0
      /\ UNCHANGED <<draft, kept, revision, escaped, put, stored, last, text, saves, typed,
                     filter, shown, reloads>>
      /\ UNCHANGED Manager!entryVars
      /\ open' = FALSE /\ table' = FALSE /\ pause' = FALSE /\ dropped' = (dropped \/ pause)
      /\ loads' = ls
  BY DEF Manager!Close
<1>2. troubles' \in 0 .. MaxFaults
  BY DEF Manager!Close, Manager!Fault, ManagerInv, PageTypes, ManagerBounds
<1>3. UNCHANGED <<entry, cache, crossed>>
  BY <1>1 DEF Manager!entryVars
<1>4. PageTypes'
  BY <1>1, <1>2, <1>3 DEF PageTypes, ManagerInv
<1>5. Eased(commits, commits') /\ Awaits(commits, commits')
  BY <1>1, Still, OutdatedEased DEF ManagerInv
<1>6. /\ DOMAIN loads = 1 .. Len(loads) /\ Len(loads) \in Nat /\ loads \in Seq(Loads)
      /\ \A i \in DOMAIN loads : loads[i] \in Loads
  BY Shapes DEF ManagerInv, ListTypes
<1>7. ASSUME NEW i \in DOMAIN loads
      PROVE  ls[i] \in Loads /\ ls[i].filter = loads[i].filter /\ ls[i].rating = loads[i].rating
  <2>1. loads[i] \in Loads /\ ls[i] = [loads[i] EXCEPT !.gone = TRUE]
    BY <1>6
  <2> HIDE DEF ls
  <2>2. /\ [loads[i] EXCEPT !.gone = TRUE].filter = loads[i].filter
        /\ [loads[i] EXCEPT !.gone = TRUE].rating = loads[i].rating
    BY <2>1 DEF Loads
  <2>3. [loads[i] EXCEPT !.gone = TRUE] \in Loads
    BY <2>1 DEF Loads
  <2> QED BY <2>1, <2>2, <2>3
<1>8. ls \in [1 .. Len(loads) -> Loads]
  BY <1>6, <1>7
<1> HIDE DEF ls
<1>9. ls \in Seq(Loads) /\ DOMAIN ls = DOMAIN loads
  BY <1>6, <1>8
<1>10. LoadsKept /\ ListTypes'
  BY <1>1, <1>7, <1>9 DEF LoadsKept, ListTypes, ManagerInv
<1>11. RatingMoves /\ revision' \in 0 .. MaxEdits
  BY <1>1, QuietRatings DEF ManagerInv, RatingTypes, QuietMoves
<1>12. /\ pause' \in BOOLEAN /\ dropped' \in BOOLEAN /\ (dropped' \/ UNCHANGED <<pause, dropped>>)
       /\ timer' \in BOOLEAN /\ chain' \in {0, chain}
  BY <1>1, Zenon DEF ManagerInv, NoteTypes
<1>13. cache' \in Entries /\ Entered(cache', stored')
  BY <1>1, <1>3 DEF ManagerInv, RatingTypes, RatingInv
<1> QED BY <1>1, <1>3, <1>4, <1>5, <1>10, <1>11, <1>12, <1>13, EasyStep

LEMMA LoadReadInv ==
  ASSUME ManagerBounds, ManagerInv, NEW i \in DOMAIN loads, Manager!LoadRead(i)
  PROVE  ManagerInv'
<1> DEFINE l == [loads[i] EXCEPT !.rating = entry.rating]
<1>1. /\ loads' = [loads EXCEPT ![i].rating = entry.rating] /\ cache' \in {cache, entry}
      /\ UNCHANGED <<open, table, entry, crossed, filter, shown, reloads, troubles>>
      /\ UNCHANGED Manager!ratingVars /\ UNCHANGED Manager!noteVars
  BY DEF Manager!LoadRead
<1>2. /\ DOMAIN loads = 1 .. Len(loads) /\ Len(loads) \in Nat /\ loads \in Seq(Loads)
      /\ \A j \in DOMAIN loads : loads[j] \in Loads
  BY Shapes DEF ManagerInv, ListTypes
<1>3. entry.rating \in Ratings \union {-2}
  BY DEF ManagerInv, RatingTypes, Entries
<1>4. l \in Loads /\ l.filter = loads[i].filter /\ l.rating = entry.rating
  BY <1>2, <1>3 DEF Loads
<1>5. loads' = [loads EXCEPT ![i] = l]
  BY <1>1
<1> HIDE DEF l
<1>6. /\ loads' \in Seq(Loads) /\ DOMAIN loads' = DOMAIN loads
      /\ \A j \in DOMAIN loads : loads'[j] = IF j = i THEN l ELSE loads[j]
  BY <1>2, <1>4, <1>5, ExceptSeq, LenProperties
<1>7. ListTypes' /\ LoadsKept
  BY <1>1, <1>4, <1>6 DEF ListTypes, ManagerInv, LoadsKept
<1>8. UNCHANGED <<draft, kept, revision, timer, commits, chain, stored, last, escaped, put>>
  BY <1>1 DEF Manager!ratingVars
<1>9. UNCHANGED <<text, pause, saves, typed, dropped>>
  BY <1>1 DEF Manager!noteVars
<1>10. RatingMoves /\ revision' \in 0 .. MaxEdits
  BY <1>8, QuietRatings DEF ManagerInv, RatingTypes, QuietMoves
<1>11. PageTypes'
  BY <1>1 DEF ManagerInv, PageTypes
<1>12. /\ pause' \in BOOLEAN /\ dropped' \in BOOLEAN
  BY <1>9 DEF ManagerInv, NoteTypes
<1>13. cache' \in Entries /\ Entered(cache', stored')
  BY <1>1, <1>8 DEF ManagerInv, RatingTypes, RatingInv, Entered
<1>14. Eased(commits, commits') /\ Awaits(commits, commits') /\ timer' \in BOOLEAN /\ chain' \in {0, chain}
  BY <1>8, Still DEF ManagerInv
<1> QED BY <1>1, <1>7, <1>8, <1>9, <1>10, <1>11, <1>12, <1>13, <1>14, EasyStep

LEMMA WithoutLoads ==
  ASSUME NEW i \in DOMAIN loads, loads \in Seq(Loads), loads' = Manager!Without(loads, i)
  PROVE  loads' \in Seq(Loads) /\ \A j \in DOMAIN loads' : \E k \in DOMAIN loads : loads'[j] = loads[k]
<1> DEFINE n == Len(loads)
           a == SubSeq(loads, 1, i - 1)
           b == SubSeq(loads, i + 1, n)
<1>1. n \in Nat /\ DOMAIN loads = 1 .. n /\ i \in 1 .. n
  BY LenProperties
<1>2. a \in Seq(Loads) /\ Len(a) = i - 1 /\ \A j \in 1 .. (i - 1) : a[j] = loads[j]
  <2>1. \A j \in 1 .. (i - 1) : loads[j] \in Loads
    BY <1>1, ElementOfSeq
  <2> QED BY <1>1, <2>1, SubSeqProperties
<1>3. b \in Seq(Loads) /\ Len(b) = n - i /\ \A j \in 1 .. (n - i) : b[j] = loads[i + j]
  <2>1. \A j \in (i + 1) .. n : loads[j] \in Loads
    BY <1>1, ElementOfSeq
  <2>2. /\ b \in Seq(Loads) /\ Len(b) = IF i + 1 <= n THEN n - (i + 1) + 1 ELSE 0
        /\ \A j \in 1 .. n - (i + 1) + 1 : b[j] = loads[i + 1 + j - 1]
    BY <1>1, <2>1, SubSeqProperties
  <2> HIDE DEF a, b, n
  <2>3. Len(b) = n - i
    BY <1>1, <2>2
  <2>4. ASSUME NEW j \in 1 .. (n - i)
        PROVE  b[j] = loads[i + j]
    <3>1. j \in 1 .. n - (i + 1) + 1 /\ i + 1 + j - 1 = i + j
      BY <1>1
    <3> QED BY <2>2, <3>1
  <2> QED BY <2>2, <2>3, <2>4
<1>4. loads' = a \o b
  BY DEF Manager!Without
<1> HIDE DEF a, b, n
<1>5. /\ loads' \in Seq(Loads) /\ Len(loads') = Len(a) + Len(b)
      /\ \A j \in 1 .. Len(a) + Len(b) : loads'[j] = IF j <= Len(a) THEN a[j] ELSE b[j - Len(a)]
  BY <1>2, <1>3, <1>4, ConcatProperties
<1>6. ASSUME NEW j \in DOMAIN loads'
      PROVE  \E k \in DOMAIN loads : loads'[j] = loads[k]
  <2>1. j \in 1 .. (n - 1)
    BY <1>1, <1>2, <1>3, <1>5, LenProperties
  <2>2. CASE j <= i - 1
    <3>1. j \in DOMAIN loads /\ j \in 1 .. (i - 1)
      BY <2>1, <2>2, <1>1
    <3>2. loads'[j] = loads[j]
      BY <2>1, <2>2, <3>1, <1>1, <1>2, <1>3, <1>5
    <3> QED BY <3>1, <3>2
  <2>3. CASE j > i - 1
    <3>1. j + 1 \in DOMAIN loads /\ j - (i - 1) \in 1 .. (n - i) /\ i + (j - (i - 1)) = j + 1
      BY <2>1, <2>3, <1>1
    <3>2. loads'[j] = loads[j + 1]
      BY <2>1, <2>3, <3>1, <1>1, <1>2, <1>3, <1>5, SMTT(60)
    <3> QED BY <3>1, <3>2
  <2> QED BY <2>1, <2>2, <2>3, <1>1
<1> QED BY <1>5, <1>6

LEMMA LoadShownInv ==
  ASSUME ManagerBounds, ManagerInv, NEW i \in DOMAIN loads, Manager!LoadShown(i)
  PROVE  ManagerInv'
<1>1. /\ loads[i].rating # -2 /\ loads' = Manager!Without(loads, i)
      /\ kept' \in {kept, loads[i].rating} /\ draft' \in {draft, loads[i].rating}
      /\ UNCHANGED <<open, revision, timer, commits, chain, stored, last, escaped, put, filter, reloads, troubles>>
      /\ UNCHANGED Manager!noteVars /\ UNCHANGED Manager!entryVars
      /\ shown' \in {shown, loads[i].filter} /\ table' \in BOOLEAN
  BY Names DEF Manager!LoadShown, ManagerInv, PageTypes
<1>2. loads \in Seq(Loads) /\ \A j \in DOMAIN loads : loads[j] \in Loads
  BY Shapes DEF ManagerInv, ListTypes
<1>3. /\ loads' \in Seq(Loads)
      /\ \A j \in DOMAIN loads' : \E k \in DOMAIN loads : loads'[j] = loads[k]
  BY <1>1, <1>2, WithoutLoads
<1>4. ListTypes'
  <2>1. loads[i].filter \in 0 .. reloads
    BY <1>2 DEF ManagerInv, ListTypes, Loads
  <2> QED BY <2>1, <1>1, <1>3 DEF ManagerInv, ListTypes
<1>5. LoadsKept
  BY <1>3 DEF LoadsKept
<1>6. QuietMoves
  <2>1. loads[i].rating \in stored
    BY <1>1 DEF ManagerInv, RatingInv
  <2> QED BY <1>1, <2>1 DEF QuietMoves
<1>7. RatingMoves /\ revision' \in 0 .. MaxEdits
  BY <1>1, <1>6, QuietRatings DEF ManagerInv, RatingTypes
<1>8. PageTypes'
  BY <1>1 DEF ManagerInv, PageTypes, Manager!entryVars
<1> QED BY <1>1, <1>4, <1>5, <1>7, <1>8, Still, ListStep DEF ManagerInv

LEMMA TypeInv ==
  ASSUME ManagerBounds, ManagerInv, Manager!Type
  PROVE  ManagerInv'
<1>1. /\ revision < MaxEdits /\ revision' = revision + 1 /\ draft' = revision + 1 /\ timer' = TRUE
      /\ UNCHANGED <<open, table, kept, commits, chain, stored, last, escaped, put, troubles>>
      /\ UNCHANGED Manager!noteVars /\ UNCHANGED Manager!listVars /\ UNCHANGED Manager!entryVars
  BY DEF Manager!Type
<1>2. revision \in 0 .. MaxEdits
  BY DEF ManagerInv, RatingTypes
<1>3. RatingMoves
  BY <1>1, <1>2 DEF ManagerInv, RatingInv, RatingMoves
<1>4. revision' \in 0 .. MaxEdits /\ timer' \in BOOLEAN
  BY <1>1, <1>2 DEF ManagerBounds
<1>5. PageTypes'
  BY <1>1 DEF ManagerInv, PageTypes, Manager!entryVars
<1> QED BY <1>1, <1>3, <1>4, <1>5, Still, SameList, ListStep DEF ManagerInv

LEMMA CommitInv ==
  ASSUME ManagerBounds, ManagerInv, Manager!Commit
  PROVE  ManagerInv'
<1> DEFINE v == IF draft = -2 THEN -1 ELSE draft
           c == [value |-> v, revision |-> revision, stale |-> FALSE, after |-> chain, step |-> "wait",
                 was |-> Manager!NoEntry]
           n == Len(commits)
<1>1. /\ n < MaxCommits /\ timer' = FALSE /\ commits' = Append(commits, c) /\ chain' = Len(commits')
      /\ UNCHANGED <<open, table, draft, kept, revision, stored, last, escaped, put, troubles>>
      /\ UNCHANGED Manager!noteVars /\ UNCHANGED Manager!listVars /\ UNCHANGED Manager!entryVars
  BY Names DEF Manager!Commit
<1>2. n \in Nat /\ DOMAIN commits = 1 .. n /\ commits \in Seq(Manager!Commits)
  BY Shapes DEF ManagerInv, RatingTypes
<1>3. v \in -1 .. revision /\ v \notin escaped
  BY DEF ManagerInv, RatingInv, RatingTypes
<1> HIDE DEF v
<1>4. c \in Manager!Commits
  <2>1. chain \in 0 .. MaxCommits /\ revision \in 0 .. MaxEdits
    BY <1>1, <1>2 DEF ManagerInv, RatingTypes, ManagerBounds
  <2>2. v \in Ratings
    BY <1>3, <2>1 DEF Ratings, ManagerBounds
  <2>3. "wait" \in Stages
    BY DEF Stages
  <2> QED BY <2>1, <2>2, <2>3, Names
<1>5. c.value = v /\ c.revision = revision /\ c.step = "wait" /\ c.was = Manager!NoEntry
  OBVIOUS
<1> HIDE DEF c
<1>6. /\ commits' \in Seq(Manager!Commits) /\ Len(commits') = n + 1 /\ DOMAIN commits' = 1 .. (n + 1)
      /\ \A j \in 1 .. n : commits'[j] = commits[j]
      /\ commits'[n + 1] = c
  BY <1>1, <1>2, <1>4, AppendProperties, LenProperties
<1> HIDE DEF n
<1>7. \A j \in DOMAIN commits' : (j \in DOMAIN commits /\ commits'[j] = commits[j]) \/ commits'[j] = c
  BY <1>2, <1>6
<1>8. /\ UNCHANGED <<draft, kept, revision, stored, escaped, put, last>>
      /\ UNCHANGED <<entry, cache, crossed, saves, text, typed, pause, dropped>>
      /\ ListTypes' /\ LoadsKept
  BY <1>1, SameList DEF Manager!noteVars, Manager!entryVars, ManagerInv
<1>9. RatingTypes'
  <2>1. Len(commits') <= MaxCommits /\ chain' \in 0 .. Len(commits')
    BY <1>1, <1>2, <1>6 DEF ManagerBounds
  <2> QED BY <2>1, <1>1, <1>6, <1>8 DEF ManagerInv, RatingTypes
<1>10. RatingInv'
  <2>1. RatingMoves
    BY <1>8, QuietRatings DEF ManagerInv, QuietMoves
  <2>2. Fine(c, revision, stored, escaped)
    BY <1>3, <1>5 DEF Fine, Entered, Working, ManagerInv, RatingTypes
  <2>3. \A j \in DOMAIN commits' :
           \/ Fine(commits'[j], revision', stored', escaped')
           \/ /\ j \in DOMAIN commits /\ Same(commits[j], commits'[j])
              /\ Working(commits'[j]) => commits'[j].step = commits[j].step
    BY <1>7, <1>8, <2>2 DEF Same
  <2>4. /\ entry'.rating \in stored' /\ Entered(cache', stored')
        /\ \A j \in DOMAIN saves' : Entered(saves'[j].was, stored')
    BY <1>8 DEF ManagerInv, RatingInv
  <2> QED BY <1>8, <2>1, <2>3, <2>4, RatingsKept DEF ManagerInv
<1>11. AloneInv'
  <2>1. WorkKept(commits, commits') /\ Awaits(commits, commits')
    BY <1>2, <1>5, <1>6, <1>7 DEF WorkKept, Awaits, Working, Same
  <2> QED BY <1>8, <2>1, AloneKept DEF ManagerInv
<1>12. PageTypes' /\ NoteTypes'
  BY <1>1, <1>8 DEF ManagerInv, PageTypes, NoteTypes
<1> QED BY <1>8, <1>9, <1>10, <1>11, <1>12 DEF ManagerInv

LEMMA EscapeInv ==
  ASSUME ManagerBounds, ManagerInv, Manager!Escape
  PROVE  ManagerInv'
<1>1. /\ revision < MaxEdits /\ revision' = revision + 1
      /\ draft' = IF kept = -2 THEN -1 ELSE kept
      /\ escaped' = escaped \union ({draft} \ ({-1, -2} \union stored))
      /\ Manager!Reload(commits, filter)
      /\ UNCHANGED <<open, table, kept, stored, last, put, troubles>>
      /\ UNCHANGED Manager!noteVars /\ UNCHANGED Manager!entryVars
  BY Names DEF Manager!Escape
<1>2. revision \in 0 .. MaxEdits
  BY DEF ManagerInv, RatingTypes
<1>3. /\ escaped' \subseteq 0 .. revision /\ escaped' \cap stored' = {}
  <2>1. draft \in -2 .. revision /\ escaped \subseteq 0 .. revision /\ stored \cap escaped = {}
    BY DEF ManagerInv, RatingInv
  <2>2. draft \notin {-1, -2} => draft \in 0 .. revision
    BY <1>2, <2>1
  <2> QED BY <1>1, <2>1, <2>2
<1>4. draft' \in stored \union {-1, -2} /\ stored \subseteq 0 .. revision
  BY <1>1 DEF ManagerInv, RatingInv
<1>5. RatingMoves
  <2>1. \A r \in stored \union {-1, -2} : r \in -2 .. revision' /\ r \notin escaped'
    <3>1. \A r \in 0 .. revision : r \in -2 .. revision'
      BY <1>1, <1>2
    <3>2. {-1, -2} \subseteq -2 .. revision' /\ -1 \notin 0 .. revision /\ -2 \notin 0 .. revision
      BY <1>1, <1>2
    <3> QED BY <1>1, <1>3, <1>4, <3>1, <3>2
  <2>2. draft' \in -2 .. revision' /\ draft' \notin escaped'
    BY <1>4, <2>1
  <2> QED BY <2>2, <1>1, <1>2, <1>3, <1>4 DEF ManagerInv, RatingInv, RatingMoves
<1>6. revision' \in 0 .. MaxEdits
  BY <1>1, <1>2 DEF ManagerBounds
<1>7. PageTypes'
  BY <1>1 DEF ManagerInv, PageTypes, Manager!entryVars
<1> QED BY <1>1, <1>5, <1>6, <1>7, Still, ReloadStep DEF ManagerInv

LEMMA KnownFacts ==
  ASSUME RatingTypes, RatingInv
  PROVE  /\ Manager!Known \in Entries /\ Manager!Known.rating \in stored
         /\ Manager!Known # Manager!NoEntry /\ Manager!Known \in {entry, cache}
         /\ cache \in {Manager!NoEntry, entry} => Manager!Known = entry
<1>1. Manager!Known.rating \in stored /\ -2 \notin stored
  BY DEF Manager!Known, RatingInv, Entered
<1> QED BY <1>1, Names DEF Manager!Known, RatingTypes

\* The end of a turn, of a reading or of a commit without anything written.
LEMMA GoesInv ==
  ASSUME ManagerBounds, ManagerInv, NEW i \in DOMAIN commits, commits[i].step # "stored",
         NEW s \in Stages, s \notin {"apply", "stored"}, Manager!Goes(i, s),
         UNCHANGED <<open, table, revision, timer, chain, escaped, kept, stored, last, put, entry, crossed>>,
         draft' = draft \/ draft' = (IF kept = -2 THEN -1 ELSE kept),
         UNCHANGED Manager!noteVars, UNCHANGED Manager!listVars, troubles' \in 0 .. MaxFaults,
         cache' \in {cache, Manager!Known}
  PROVE  ManagerInv'
<1>1. Eased(commits, commits') /\ Awaits(commits, commits')
  BY StepEased DEF ManagerInv, Manager!Goes, Stepped
<1>2. QuietMoves
  BY DEF QuietMoves, ManagerInv, RatingInv
<1>3. RatingMoves /\ revision' \in 0 .. MaxEdits
  BY <1>2, QuietRatings DEF ManagerInv, RatingTypes
<1>4. ListTypes' /\ LoadsKept /\ PageTypes' /\ timer' \in BOOLEAN /\ chain' \in {0, chain}
  BY SameList DEF ManagerInv, PageTypes, RatingTypes
<1>5. UNCHANGED <<saves, text, typed, pause, dropped>>
  BY DEF Manager!noteVars
<1>6. pause' \in BOOLEAN /\ dropped' \in BOOLEAN
  BY <1>5 DEF ManagerInv, NoteTypes
<1>7. cache' \in Entries /\ Entered(cache', stored')
  BY KnownFacts DEF ManagerInv, RatingTypes, RatingInv, Entered
<1>8. cache' \in {cache, Manager!NoEntry, entry}
  BY KnownFacts DEF ManagerInv
<1> QED BY <1>1, <1>3, <1>4, <1>5, <1>6, <1>7, <1>8, EasyStep

LEMMA QuietCommitInv ==
  ASSUME ManagerBounds, ManagerInv, NEW i \in DOMAIN commits, Manager!Turn(i) \/ Manager!Failed(i)
  PROVE  ManagerInv'
<1>1. \E s \in {"read", "told", "done"} : Manager!Goes(i, s)
  BY DEF Manager!Turn, Manager!Failed
<1>2. /\ UNCHANGED <<open, table, revision, timer, chain, escaped, kept, stored, last, put, troubles>>
      /\ UNCHANGED Manager!entryVars
      /\ UNCHANGED Manager!noteVars /\ UNCHANGED Manager!listVars /\ commits[i].step # "stored"
      /\ draft' = draft \/ draft' = (IF kept = -2 THEN -1 ELSE kept)
  BY Names DEF Manager!Turn, Manager!Failed, Manager!steady
<1>3. UNCHANGED <<entry, cache, crossed>> /\ troubles' \in 0 .. MaxFaults
  BY <1>2 DEF Manager!entryVars, ManagerInv, PageTypes
<1> QED BY <1>1, <1>2, <1>3, GoesInv DEF Stages

LEMMA ToldInv ==
  ASSUME ManagerBounds, ManagerInv, NEW i \in DOMAIN commits, Manager!Told(i)
  PROVE  ManagerInv'
<1> DEFINE cs == Stepped(commits, i, "done")
<1>1. commits[i].step = "told" /\ Eased(commits, cs) /\ Awaits(commits, cs)
  BY StepEased DEF ManagerInv, Manager!Told, Stages
<1> HIDE DEF cs
<1>2. /\ UNCHANGED <<open, table, draft, kept, revision, stored, last, escaped, put, troubles>>
      /\ UNCHANGED Manager!noteVars /\ UNCHANGED Manager!entryVars
      /\ \/ Manager!Reload(cs, filter)
         \/ commits' = cs /\ UNCHANGED <<timer, chain>> /\ UNCHANGED Manager!listVars
  BY DEF Manager!Told, Stepped, cs
<1>3. PageTypes' /\ RatingMoves /\ revision' \in 0 .. MaxEdits
  BY <1>2, QuietRatings DEF ManagerInv, PageTypes, QuietMoves, RatingTypes, Manager!entryVars
<1>4. CASE Manager!Reload(cs, filter)
  BY <1>1, <1>2, <1>3, <1>4, ReloadStep
<1>5. CASE commits' = cs /\ UNCHANGED <<timer, chain>> /\ UNCHANGED Manager!listVars
  BY <1>1, <1>2, <1>3, <1>5, SameList, Still, ListStep DEF ManagerInv
<1> QED BY <1>2, <1>4, <1>5

LEMMA StoredInv ==
  ASSUME ManagerBounds, ManagerInv, NEW i \in DOMAIN commits, Manager!Stored(i)
  PROVE  ManagerInv'
<1> DEFINE c == commits[i]
<1>1. /\ c.step = "stored" /\ Manager!Goes(i, "done")
      /\ UNCHANGED <<open, table, revision, timer, chain, escaped, stored, last, put, troubles, entry, crossed>>
      /\ UNCHANGED Manager!noteVars /\ UNCHANGED Manager!listVars
      /\ UNCHANGED <<draft, kept>> \/ (kept' = c.value /\ draft' = c.value)
      /\ cache' = IF Manager!Unchanged(c) THEN cache ELSE Manager!Rated(c)
  BY DEF Manager!Stored, Manager!steady, Manager!Remembered
<1>2. c \in Manager!Commits /\ Fine(c, revision, stored, escaped)
  BY Shapes DEF ManagerInv, RatingInv
<1>3. Eased(commits, commits')
  BY <1>1, StepEased DEF ManagerInv, Manager!Goes, Stepped, Stages
<1>4. QuietMoves
  BY <1>1, <1>2 DEF QuietMoves, Fine
<1>5. RatingMoves /\ revision' \in 0 .. MaxEdits
  BY <1>1, <1>4, QuietRatings DEF ManagerInv, RatingTypes
<1>6. ListTypes' /\ LoadsKept /\ PageTypes' /\ timer' \in BOOLEAN /\ chain' \in {0, chain}
  BY <1>1, SameList DEF ManagerInv, PageTypes, RatingTypes
<1>7. UNCHANGED <<saves, text, typed, pause, dropped>>
  BY <1>1 DEF Manager!noteVars
<1>8. pause' \in BOOLEAN /\ dropped' \in BOOLEAN
  BY <1>7 DEF ManagerInv, NoteTypes
<1>9. cache' \in Entries /\ Entered(cache', stored')
  <2>1. CASE Manager!Unchanged(c)
    BY <1>1, <2>1 DEF ManagerInv, RatingTypes, RatingInv
  <2>2. CASE ~Manager!Unchanged(c)
    <3>1. c.value \in Ratings /\ c.was \in Entries /\ c.value \in stored
      BY <1>1, <1>2, <2>2, CommitFields, Names DEF Fine, Manager!Unchanged
    <3> HIDE DEF c
    <3>2. cache' = [rating |-> c.value, note |-> c.was.note] /\ c.was.note \in 0 .. MaxNotes
      BY <1>1, <2>2, <3>1, EntryFields DEF Manager!Rated
    <3> QED BY <1>1, <3>1, <3>2 DEF Entered, Entries
  <2> QED BY <2>1, <2>2
<1>10. ~crossed => cache' \in {Manager!NoEntry, entry}
  <2>1. ASSUME Alone
        PROVE  cache' \in {Manager!NoEntry, entry}
    <3>1. Tells(c) => entry = Manager!Rated(c)
      BY <2>1 DEF Alone
    <3>2. ~Tells(c) => \A j \in DOMAIN commits : ~Tells(commits[j])
      BY <1>1, <2>1 DEF Alone, Working, Tells
    <3> QED BY <1>1, <2>1, <3>1, <3>2 DEF Alone, Tells
  <2> QED BY <2>1 DEF ManagerInv, AloneInv
<1> QED BY <1>1, <1>3, <1>5, <1>6, <1>7, <1>8, <1>9, <1>10, EasyStep

LEMMA ExpireInv ==
  ASSUME ManagerBounds, ManagerInv, Manager!Expire
  PROVE  ManagerInv'
<1>1. /\ cache' = Manager!NoEntry /\ UNCHANGED <<open, table, entry, crossed, troubles>>
      /\ UNCHANGED Manager!ratingVars /\ UNCHANGED Manager!noteVars /\ UNCHANGED Manager!listVars
  BY DEF Manager!Expire
<1>2. UNCHANGED <<draft, kept, revision, timer, commits, chain, stored, last, escaped, put>>
  BY <1>1 DEF Manager!ratingVars
<1>3. UNCHANGED <<text, pause, saves, typed, dropped>>
  BY <1>1 DEF Manager!noteVars
<1>4. RatingMoves /\ revision' \in 0 .. MaxEdits
  BY <1>2, QuietRatings DEF ManagerInv, RatingTypes, QuietMoves
<1>5. PageTypes' /\ ListTypes' /\ LoadsKept
  BY <1>1, SameList DEF ManagerInv, PageTypes
<1>6. pause' \in BOOLEAN /\ dropped' \in BOOLEAN
  BY <1>3 DEF ManagerInv, NoteTypes
<1>7. cache' \in Entries /\ Entered(cache', stored')
  BY <1>1, Names DEF Entered
<1> QED BY <1>1, <1>2, <1>3, <1>4, <1>5, <1>6, <1>7, Still, EasyStep DEF ManagerInv

\* When nothing is under way, what a write reads is the record.
LEMMA NothingUnderWay ==
  ASSUME ManagerInv, ~crossed, ~Manager!UnderWay
  PROVE  /\ Alone /\ Manager!Known = entry /\ \A j \in DOMAIN commits : ~Working(commits[j])
         /\ \A j \in DOMAIN saves : saves[j].was = Manager!NoEntry
<1>1. /\ Alone /\ \A j \in DOMAIN commits : ~Working(commits[j])
      /\ \A j \in DOMAIN saves : saves[j].was = Manager!NoEntry
  BY DEF ManagerInv, AloneInv, Manager!UnderWay, Working
<1>2. cache \in {Manager!NoEntry, entry}
  BY <1>1 DEF Alone, Tells, Working
<1> QED BY <1>1, <1>2, KnownFacts DEF ManagerInv

LEMMA EntryReadInv ==
  ASSUME ManagerBounds, ManagerInv, NEW i \in DOMAIN commits, Manager!EntryRead(i)
  PROVE  ManagerInv'
<1> DEFINE e == [commits[i] EXCEPT !.step = "apply", !.was = Manager!Known]
<1>1. /\ UNCHANGED <<open, table, revision, timer, chain, escaped, draft, kept, stored, last, put, entry, troubles>>
      /\ UNCHANGED Manager!noteVars /\ UNCHANGED Manager!listVars
      /\ cache' = Manager!Known /\ commits[i].step = "read"
  BY DEF Manager!EntryRead, Manager!steady
<1>2. CASE \E s \in {"done", "failed"} : Manager!Goes(i, s) /\ UNCHANGED crossed
  BY <1>1, <1>2, GoesInv DEF ManagerInv, PageTypes, Stages
<1>3. CASE commits' = [commits EXCEPT ![i] = e] /\ crossed' = (crossed \/ Manager!UnderWay)
  <2>1. commits[i] \in Manager!Commits /\ Manager!Known \in Entries /\ Manager!Known.rating \in stored
        /\ Manager!Known # Manager!NoEntry /\ Fine(commits[i], revision, stored, escaped)
    BY Shapes, KnownFacts DEF ManagerInv, RatingInv
  <2>2. /\ e \in Manager!Commits /\ e.value = commits[i].value /\ e.revision = commits[i].revision
        /\ e.was = Manager!Known /\ e.step = "apply"
    BY <2>1, Names DEF Stages
  <2> HIDE DEF e
  <2>3. /\ commits' \in Seq(Manager!Commits) /\ Len(commits') = Len(commits) /\ DOMAIN commits' = DOMAIN commits
        /\ \A j \in DOMAIN commits : commits'[j] = IF j = i THEN e ELSE commits[j]
    BY <1>3, <2>2, Replaced DEF ManagerInv, RatingTypes
  <2>4. UNCHANGED <<saves, text, typed, pause, dropped>>
    BY <1>1 DEF Manager!noteVars
  <2>5. RatingTypes' /\ NoteTypes' /\ ListTypes' /\ LoadsKept
    BY <1>1, <2>1, <2>3, <2>4, SameList DEF ManagerInv, RatingTypes, NoteTypes
  <2>6. RatingMoves
    BY <1>1, QuietRatings DEF ManagerInv, QuietMoves
  <2>7. RatingInv'
    <3>1. Fine(e, revision', stored', escaped')
      BY <1>1, <2>1, <2>2 DEF Fine, Entered
    <3>2. \A j \in DOMAIN commits' :
           \/ Fine(commits'[j], revision', stored', escaped')
           \/ /\ j \in DOMAIN commits /\ Same(commits[j], commits'[j])
              /\ Working(commits'[j]) => commits'[j].step = commits[j].step
      BY <2>3, <3>1 DEF Same
    <3>3. /\ entry'.rating \in stored' /\ Entered(cache', stored')
          /\ \A j \in DOMAIN saves' : Entered(saves'[j].was, stored')
      BY <1>1, <2>1, <2>4 DEF ManagerInv, RatingInv, Entered
    <3> QED BY <2>5, <2>6, <3>2, <3>3, RatingsKept DEF ManagerInv
  <2>8. AloneInv'
    <3>1. SUFFICES ASSUME ~crossed, ~Manager!UnderWay
                   PROVE  Alone'
      BY <1>3 DEF AloneInv
    <3>2. /\ Alone /\ Manager!Known = entry /\ \A j \in DOMAIN commits : ~Working(commits[j])
          /\ \A j \in DOMAIN saves : saves[j].was = Manager!NoEntry
      BY <3>1, NothingUnderWay
    <3>3. Noted'
      BY <1>1, <2>4, <3>2 DEF Alone, Noted
    <3>4. \A j \in DOMAIN commits' : Working(commits'[j]) => j = i
      BY <2>3, <3>2
    <3>5. \A j \in DOMAIN commits' : ~Tells(commits'[j])
      BY <2>2, <2>3, <3>4 DEF Working, Tells
    <3>6. \A j \in DOMAIN commits' : commits'[j].step = "apply" => commits'[j].was = entry'
      BY <1>1, <2>2, <2>3, <3>2, <3>4 DEF Working
    <3> QED BY <1>1, <2>4, <3>2, <3>3, <3>4, <3>5, <3>6 DEF Alone
  <2>9. PageTypes'
    <3>1. Manager!UnderWay \in BOOLEAN
      BY DEF Manager!UnderWay
    <3> QED BY <1>1, <1>3, <3>1, Zenon DEF ManagerInv, PageTypes
  <2> QED BY <2>5, <2>7, <2>8, <2>9 DEF ManagerInv
<1> QED BY <1>2, <1>3 DEF Manager!EntryRead

LEMMA ApplyInv ==
  ASSUME ManagerBounds, ManagerInv, NEW i \in DOMAIN commits, Manager!Apply(i)
  PROVE  ManagerInv'
<1> DEFINE c == commits[i]
<1>1. /\ UNCHANGED <<open, table, revision, timer, chain, escaped, draft, kept, cache, crossed>>
      /\ UNCHANGED Manager!noteVars /\ UNCHANGED Manager!listVars /\ c.step = "apply"
  BY DEF Manager!Apply, Manager!steady
<1>2. troubles' \in 0 .. MaxFaults
  BY DEF Manager!Apply, Manager!Fault, ManagerInv, PageTypes, ManagerBounds
<1>3. CASE Manager!Goes(i, "failed") /\ UNCHANGED <<entry, stored, last, put>>
  BY <1>1, <1>2, <1>3, GoesInv DEF Stages
<1>4. CASE /\ ~Manager!Superseded(c) /\ Manager!Goes(i, "stored")
           /\ IF Manager!Unchanged(c) THEN UNCHANGED <<entry, stored, last, put>>
              ELSE /\ entry' = Manager!Rated(c) /\ stored' = stored \union {c.value}
                   /\ last' = c.value /\ put' = c.revision
  <2>1. c \in Manager!Commits /\ Fine(c, revision, stored, escaped)
    BY Shapes DEF ManagerInv, RatingInv
  <2>2. /\ commits' \in Seq(Manager!Commits) /\ Len(commits') = Len(commits) /\ DOMAIN commits' = DOMAIN commits
        /\ \A j \in DOMAIN commits : /\ Same(commits[j], commits'[j])
                                     /\ commits'[j].step = IF j = i THEN "stored" ELSE commits[j].step
    <3>1. commits \in Seq(Manager!Commits) /\ commits' = Stepped(commits, i, "stored") /\ "stored" \in Stages
      BY <1>4 DEF ManagerInv, RatingTypes, Manager!Goes, Stepped, Stages
    <3> QED BY <3>1, StepChanged
  <2>3. UNCHANGED <<saves, text, typed, pause, dropped>>
    BY <1>1 DEF Manager!noteVars
  <2>4. /\ revision \in 0 .. MaxEdits /\ c.revision = revision /\ c.value \notin escaped /\ c.was.rating \in stored
    BY <1>1, <1>4, <2>1 DEF Manager!Superseded, Fine, Working, Entered, ManagerInv, RatingTypes
  <2>5. ~Manager!Unchanged(c) =>
          /\ c.value \in 0 .. revision /\ entry' = [rating |-> c.value, note |-> c.was.note]
          /\ c.was.note \in 0 .. MaxNotes /\ c.value \in Ratings
    <3>1. c.was \in Entries /\ c.value \in Ratings
      BY <2>1, CommitFields
    <3>2. ~Manager!Unchanged(c) => c.value \in 0 .. revision
      BY <2>1, <2>4, Names DEF Manager!Unchanged, Fine
    <3> QED BY <1>4, <3>1, <3>2, EntryFields DEF Manager!Rated
  <2>6. c.value \in stored' \union {-1}
    BY <1>4, <2>4, Names DEF Manager!Unchanged
  <2>7. RatingTypes' /\ NoteTypes' /\ ListTypes' /\ LoadsKept /\ PageTypes'
    <3>1. entry' \in Entries
      BY <1>4, <2>5 DEF ManagerInv, RatingTypes, Entries
    <3> QED BY <1>1, <1>2, <2>2, <2>3, <3>1, SameList DEF ManagerInv, RatingTypes, NoteTypes, PageTypes
  <2>8. RatingMoves
    <3>1. /\ stored \subseteq stored' /\ stored' \subseteq 0 .. revision /\ escaped \cap stored' = {}
      BY <1>4, <2>4, <2>5 DEF ManagerInv, RatingInv
    <3>2. last' \in stored' /\ put' \in 0 .. revision
      BY <1>4, <2>4 DEF ManagerInv, RatingInv
    <3> QED BY <1>1, <3>1, <3>2 DEF ManagerInv, RatingInv, RatingMoves
  <2>9. RatingInv'
    <3>1. \A j \in DOMAIN commits' :
           \/ Fine(commits'[j], revision', stored', escaped')
           \/ /\ j \in DOMAIN commits /\ Same(commits[j], commits'[j])
              /\ Working(commits'[j]) => commits'[j].step = commits[j].step
      <4>1. stored \subseteq stored'
        BY <2>8 DEF RatingMoves
      <4>2. Fine(commits'[i], revision', stored', escaped')
        BY <1>1, <2>1, <2>2, <2>6, <4>1 DEF Fine, Same, Entered, Working
      <4> QED BY <2>2, <4>2
    <3>2. /\ entry'.rating \in stored' /\ Entered(cache', stored')
          /\ \A j \in DOMAIN saves' : Entered(saves'[j].was, stored')
      BY <1>1, <1>4, <2>3, <2>5 DEF ManagerInv, RatingInv, Entered
    <3> QED BY <2>7, <2>8, <3>1, <3>2, RatingsKept DEF ManagerInv
  <2>10. AloneInv'
    <3>1. SUFFICES ASSUME Alone
                   PROVE  Alone'
      BY <1>1 DEF AloneInv, ManagerInv
    <3>2. /\ c.was = entry /\ \A j \in DOMAIN commits : Working(commits[j]) => j = i
          /\ \A j \in DOMAIN saves : saves[j].was = Manager!NoEntry
      BY <1>1, <3>1 DEF Alone, Working
    <3>3. /\ entry'.rating = last' /\ entry'.note = entry.note
          /\ ~Manager!Unchanged(c) => entry' = Manager!Rated(c)
      BY <1>4, <2>5, <3>1, <3>2 DEF Alone
    <3>4. Noted'
      BY <2>3, <3>1, <3>3 DEF Alone, Noted
    <3>5. \A j \in DOMAIN commits' : Working(commits'[j]) => j = i
      BY <2>2, <3>2 DEF Working
    <3>6. /\ commits'[i].step = "stored" /\ Manager!Rated(commits'[i]) = Manager!Rated(c)
          /\ Manager!Unchanged(commits'[i]) = Manager!Unchanged(c)
      BY <2>2 DEF Same, Manager!Rated, Manager!Unchanged
    <3>7. \A j \in DOMAIN commits' : Tells(commits'[j]) => entry' = Manager!Rated(commits'[j])
      BY <3>3, <3>5, <3>6 DEF Tells, Working
    <3>8. cache' \in {Manager!NoEntry, entry'} \/ \E j \in DOMAIN commits' : Tells(commits'[j])
      <4>1. CASE Manager!Unchanged(c)
        <5>1. \A j \in DOMAIN commits : ~Tells(commits[j])
          BY <1>1, <3>2 DEF Tells, Working
        <5> QED BY <1>1, <1>4, <3>1, <4>1, <5>1 DEF Alone
      <4>2. CASE ~Manager!Unchanged(c)
        BY <2>2, <3>6, <4>2 DEF Tells
      <4> QED BY <4>1, <4>2
    <3>9. \A j \in DOMAIN commits' : commits'[j].step # "apply"
      BY <3>5, <3>6 DEF Working
    <3> QED BY <2>3, <3>2, <3>3, <3>4, <3>5, <3>7, <3>8, <3>9 DEF Alone
  <2> QED BY <2>7, <2>9, <2>10 DEF ManagerInv
<1> QED BY <1>3, <1>4 DEF Manager!Apply

\* A step of the notes: what is left is what the record and the saves become.
LEMMA NoteStep ==
  ASSUME ManagerBounds, ManagerInv, UNCHANGED <<open, table>>,
         UNCHANGED Manager!ratingVars, UNCHANGED Manager!listVars, troubles' \in 0 .. MaxFaults,
         NoteTypes', crossed' \in BOOLEAN, AloneInv', entry' \in Entries, cache' \in Entries,
         entry'.rating \in stored, Entered(cache', stored),
         \A j \in DOMAIN saves' : Entered(saves'[j].was, stored)
  PROVE  ManagerInv'
<1>1. UNCHANGED <<draft, kept, revision, timer, commits, chain, stored, last, escaped, put>>
  BY DEF Manager!ratingVars
<1>2. RatingTypes' /\ ListTypes' /\ LoadsKept /\ PageTypes'
  BY <1>1, SameList DEF ManagerInv, RatingTypes, PageTypes
<1>3. RatingMoves
  BY <1>1, QuietRatings DEF ManagerInv, QuietMoves
<1>4. RatingInv'
  BY <1>1, <1>2, <1>3, RatingsKept DEF ManagerInv, Same
<1> QED BY <1>2, <1>4 DEF ManagerInv

LEMMA NoteTypedInv ==
  ASSUME ManagerBounds, ManagerInv, Manager!TypeNote \/ Manager!SaveNote
  PROVE  ManagerInv'
<1> DEFINE s == [text |-> text, was |-> Manager!NoEntry]
<1>1. /\ UNCHANGED <<open, table, entry, cache, crossed, dropped, troubles>>
      /\ UNCHANGED Manager!ratingVars /\ UNCHANGED Manager!listVars
      /\ \/ typed < MaxNotes /\ typed' = typed + 1 /\ text' = typed' /\ pause' = TRUE /\ saves' = saves
         \/ pause /\ pause' = FALSE /\ saves' = Append(saves, s) /\ UNCHANGED <<text, typed>>
  BY DEF Manager!TypeNote, Manager!SaveNote, Manager!entryVars
<1>2. UNCHANGED <<commits, stored, last>>
  BY <1>1 DEF Manager!ratingVars
<1>3. text \in 0 .. MaxNotes /\ saves \in Seq(Saves) /\ s \in Saves /\ s.text = text /\ s.was = Manager!NoEntry
  BY Names DEF ManagerInv, NoteTypes, Saves
<1> HIDE DEF s
<1>4. CASE typed < MaxNotes /\ typed' = typed + 1 /\ text' = typed' /\ pause' = TRUE /\ saves' = saves
  <2>1. NoteTypes'
    BY <1>1, <1>4 DEF ManagerInv, NoteTypes, ManagerBounds
  <2>2. AloneInv'
    BY <1>1, <1>2, <1>4, Zenon DEF ManagerInv, AloneInv, Alone, Noted
  <2> QED BY <1>1, <1>2, <1>4, <2>1, <2>2, NoteStep DEF ManagerInv, PageTypes, RatingTypes, RatingInv
<1>5. CASE pause /\ pause' = FALSE /\ saves' = Append(saves, s) /\ UNCHANGED <<text, typed>>
  <2>1. /\ saves' \in Seq(Saves) /\ Len(saves') = Len(saves) + 1 /\ Len(saves) \in Nat
        /\ \A j \in 1 .. Len(saves) : saves'[j] = saves[j]
        /\ saves'[Len(saves')] = s
    BY <1>3, <1>5, AppendProperties, LenProperties
  <2>2. saves' # <<>> /\ DOMAIN saves = 1 .. Len(saves) /\ DOMAIN saves' = 1 .. Len(saves) + 1
    BY <1>3, <2>1, EmptySeq, LenProperties
  <2>3. \A j \in DOMAIN saves' : (j \in DOMAIN saves /\ saves'[j] = saves[j]) \/ saves'[j] = s
    BY <2>1, <2>2
  <2>4. NoteTypes'
    BY <1>1, <1>5, <2>1 DEF ManagerInv, NoteTypes
  <2>5. \A j \in DOMAIN saves' : Entered(saves'[j].was, stored)
    BY <1>3, <2>3 DEF ManagerInv, RatingInv, Entered
  <2>6. AloneInv'
    <3>1. SUFFICES ASSUME Alone
                   PROVE  Alone'
      BY <1>1 DEF AloneInv, ManagerInv
    <3>2. \A j \in DOMAIN saves' : saves'[j].was # Manager!NoEntry => j \in DOMAIN saves /\ saves'[j] = saves[j]
      BY <1>3, <2>3
    <3>3. Noted'
      BY <1>1, <1>3, <1>5, <2>1, <2>2, <3>1 DEF Alone, Noted
    <3> QED BY <1>1, <1>2, <3>1, <3>2, <3>3 DEF Alone
  <2> QED BY <1>1, <1>2, <2>4, <2>5, <2>6, NoteStep DEF ManagerInv, PageTypes, RatingTypes, RatingInv
<1> QED BY <1>1, <1>4, <1>5

LEMMA NoteReadInv ==
  ASSUME ManagerBounds, ManagerInv, NEW i \in DOMAIN saves, Manager!NoteRead(i)
  PROVE  ManagerInv'
<1> DEFINE s == [saves[i] EXCEPT !.was = Manager!Known]
<1>1. /\ UNCHANGED <<open, table, entry, text, pause, typed, dropped, troubles>>
      /\ UNCHANGED Manager!ratingVars /\ UNCHANGED Manager!listVars
      /\ saves' = [saves EXCEPT ![i] = s] /\ cache' = Manager!Known
      /\ crossed' = (crossed \/ Manager!UnderWay)
  BY DEF Manager!NoteRead
<1>2. UNCHANGED <<commits, stored, last>>
  BY <1>1 DEF Manager!ratingVars
<1>3. /\ saves[i] \in Saves /\ Manager!Known \in Entries /\ Manager!Known.rating \in stored
      /\ DOMAIN saves = 1 .. Len(saves) /\ Len(saves) \in Nat /\ saves \in Seq(Saves)
  BY Shapes, KnownFacts DEF ManagerInv, NoteTypes
<1>4. s \in Saves /\ s.text = saves[i].text /\ s.was = Manager!Known
  BY <1>3 DEF Saves
<1> HIDE DEF s
<1>5. /\ saves' \in Seq(Saves) /\ Len(saves') = Len(saves) /\ DOMAIN saves' = DOMAIN saves
      /\ \A j \in DOMAIN saves : saves'[j] = IF j = i THEN s ELSE saves[j]
  BY <1>1, <1>3, <1>4, ExceptSeq, LenProperties
<1>6. NoteTypes'
  BY <1>1, <1>5 DEF ManagerInv, NoteTypes
<1>7. \A j \in DOMAIN saves' : Entered(saves'[j].was, stored)
  BY <1>3, <1>4, <1>5 DEF ManagerInv, RatingInv, Entered
<1>8. crossed' \in BOOLEAN
  <2>1. Manager!UnderWay \in BOOLEAN
    BY DEF Manager!UnderWay
  <2> QED BY <1>1, <2>1, Zenon DEF ManagerInv, PageTypes
<1>9. AloneInv'
  <2>1. SUFFICES ASSUME ~crossed, ~Manager!UnderWay
                 PROVE  Alone'
    BY <1>1 DEF AloneInv
  <2>2. /\ Alone /\ Manager!Known = entry /\ \A j \in DOMAIN commits : ~Working(commits[j])
        /\ \A j \in DOMAIN saves : saves[j].was = Manager!NoEntry
    BY <2>1, NothingUnderWay
  <2>3. /\ saves' # <<>> <=> saves # <<>>
        /\ saves # <<>> => saves'[Len(saves')].text = saves[Len(saves)].text
    <3>1. saves # <<>> <=> Len(saves) > 0
      BY <1>3, EmptySeq
    <3>2. saves' # <<>> <=> Len(saves) > 0
      BY <1>3, <1>5, EmptySeq
    <3>3. Len(saves) > 0 => saves'[Len(saves)].text = saves[Len(saves)].text
      BY <1>3, <1>4, <1>5
    <3> QED BY <1>5, <3>1, <3>2, <3>3
  <2>4. Noted'
    BY <1>1, <2>2, <2>3 DEF Alone, Noted
  <2>5. \A j \in DOMAIN saves' : saves'[j].was # Manager!NoEntry => j = i /\ saves'[j].was = entry'
    BY <1>1, <1>4, <1>5, <2>2
  <2>6. \A j \in DOMAIN commits' : ~Working(commits'[j]) /\ ~Tells(commits'[j]) /\ commits'[j].step # "apply"
    BY <1>2, <2>2 DEF Working, Tells
  <2> QED BY <1>1, <1>2, <2>2, <2>4, <2>5, <2>6 DEF Alone
<1> QED BY <1>1, <1>3, <1>6, <1>7, <1>8, <1>9, NoteStep DEF ManagerInv, PageTypes, RatingTypes, RatingInv, Entered

LEMMA NotePutInv ==
  ASSUME ManagerBounds, ManagerInv, Manager!NotePut
  PROVE  ManagerInv'
<1> DEFINE s == saves[1]
<1>1. /\ UNCHANGED <<open, table, crossed, text, pause, typed>>
      /\ UNCHANGED Manager!ratingVars /\ UNCHANGED Manager!listVars
      /\ saves # <<>> /\ saves' = Tail(saves) /\ Head(saves).was # Manager!NoEntry
      /\ \/ /\ entry' = [Head(saves).was EXCEPT !.note = Head(saves).text] /\ cache' = entry'
            /\ UNCHANGED <<dropped, troubles>>
         \/ dropped' = TRUE /\ UNCHANGED <<entry, cache>>
  BY DEF Manager!NotePut, Manager!Noting
<1>2. troubles' \in 0 .. MaxFaults
  BY DEF Manager!NotePut, Manager!Fault, ManagerInv, PageTypes, ManagerBounds
<1>3. UNCHANGED <<commits, stored, last>>
  BY <1>1 DEF Manager!ratingVars
<1>4. saves \in Seq(Saves) /\ Len(saves) \in Nat \ {0} /\ DOMAIN saves = 1 .. Len(saves)
  BY <1>1, EmptySeq, LenProperties DEF ManagerInv, NoteTypes
<1>5. /\ Head(saves) = s /\ s \in Saves /\ 1 \in DOMAIN saves
      /\ saves' \in Seq(Saves) /\ Len(saves') = Len(saves) - 1 /\ DOMAIN saves' = 1 .. Len(saves')
      /\ \A j \in 1 .. Len(saves') : saves'[j] = saves[j + 1]
  <2>1. /\ Head(saves) \in Saves /\ saves' \in Seq(Saves) /\ Len(saves') = Len(saves) - 1
        /\ \A j \in 1 .. Len(saves') : saves'[j] = saves[j + 1]
    BY <1>1, <1>4, HeadTailProperties
  <2>2. Head(saves) = saves[1] /\ 1 \in DOMAIN saves
    BY <1>4
  <2>3. DOMAIN saves' = 1 .. Len(saves')
    BY <2>1, LenProperties
  <2> QED BY <2>1, <2>2, <2>3
<1>6. s.was \in Entries /\ s.text \in 0 .. MaxNotes /\ s.was.rating \in stored /\ s.was # Manager!NoEntry
  BY <1>1, <1>5 DEF Saves, ManagerInv, RatingInv, Entered
<1> HIDE DEF s
<1>7. \/ entry' = [rating |-> s.was.rating, note |-> s.text] /\ cache' = entry' /\ dropped' = dropped
      \/ dropped' = TRUE /\ UNCHANGED <<entry, cache>>
  BY <1>1, <1>5, <1>6, EntryFields
<1>8. /\ entry' \in Entries /\ cache' \in Entries
      /\ entry'.rating \in stored /\ Entered(cache', stored)
  BY <1>6, <1>7 DEF Entries, Entered, ManagerInv, RatingTypes, RatingInv
<1>9. \A j \in DOMAIN saves' : j + 1 \in DOMAIN saves /\ saves'[j] = saves[j + 1] /\ j + 1 # 1
  BY <1>4, <1>5
<1>10. NoteTypes'
  <2>1. dropped' \in BOOLEAN
    BY <1>7, Zenon DEF ManagerInv, NoteTypes
  <2> QED BY <1>1, <1>5, <2>1 DEF ManagerInv, NoteTypes
<1>11. AloneInv'
  <2>1. SUFFICES ASSUME Alone
                 PROVE  Alone'
    BY <1>1 DEF AloneInv, ManagerInv
  <2>2. /\ s.was = entry /\ \A j \in DOMAIN commits : ~Working(commits[j])
        /\ \A j \in DOMAIN saves : saves[j].was # Manager!NoEntry => j = 1
    BY <1>5, <1>6, <2>1 DEF Alone, s
  <2>3. \A j \in DOMAIN saves' : saves'[j].was = Manager!NoEntry
    BY <1>9, <2>2
  <2>4. Noted'
    <3>1. CASE dropped'
      BY <3>1 DEF Noted
    <3>2. CASE ~dropped'
      <4>1. entry'.note = s.text /\ ~dropped
        BY <1>7, <3>2
      <4>2. CASE Len(saves) = 1
        <5>1. saves' = <<>> /\ saves[Len(saves)].text = s.text
          BY <4>2, <1>5, EmptySeq DEF s
        <5> QED BY <5>1, <4>1, <1>1, <2>1 DEF Alone, Noted
      <4>3. CASE Len(saves) # 1
        <5>1. Len(saves') \in 1 .. Len(saves') /\ Len(saves') + 1 = Len(saves)
          BY <4>3, <1>4, <1>5
        <5>2. saves'[Len(saves')] = saves[Len(saves)] /\ saves' # <<>>
          BY <5>1, <1>5, EmptySeq
        <5> QED BY <5>2, <4>1, <1>1, <2>1 DEF Alone, Noted
      <4> QED BY <4>2, <4>3
    <3> QED BY <3>1, <3>2
  <2>5. /\ \A j \in DOMAIN commits' : ~Working(commits'[j]) /\ ~Tells(commits'[j]) /\ commits'[j].step # "apply"
        /\ \A j \in DOMAIN commits : ~Tells(commits[j])
    BY <1>3, <2>2 DEF Working, Tells
  <2>6. cache' \in {Manager!NoEntry, entry'} /\ entry'.rating = last'
    BY <1>3, <1>7, <2>1, <2>2, <2>5 DEF Alone
  <2> QED BY <2>3, <2>4, <2>5, <2>6 DEF Alone
<1>12. \A j \in DOMAIN saves' : Entered(saves'[j].was, stored)
  BY <1>9 DEF ManagerInv, RatingInv
<1> QED BY <1>1, <1>2, <1>8, <1>10, <1>11, <1>12, NoteStep DEF ManagerInv, PageTypes

LEMMA ManagerInitially ==
  ASSUME ManagerBounds, Manager!Init
  PROVE  ManagerInv
<1>1. /\ commits = <<>> /\ loads = <<>> /\ saves = <<>>
      /\ entry = [rating |-> 0, note |-> 0] /\ cache = Manager!NoEntry
      /\ draft = -2 /\ kept = -2 /\ revision = 0 /\ timer = FALSE /\ chain = 0
      /\ text = 0 /\ typed = 0 /\ pause = FALSE /\ dropped = FALSE /\ crossed = FALSE
      /\ filter = 0 /\ shown = 0 /\ reloads = 0 /\ open = FALSE /\ table = FALSE /\ troubles = 0
      /\ stored = {0} /\ last = 0 /\ escaped = {} /\ put = 0
  BY Names DEF Manager!Init
<1>2. /\ <<>> \in Seq(Manager!Commits) /\ <<>> \in Seq(Loads) /\ <<>> \in Seq(Saves)
      /\ Len(<<>>) = 0 /\ DOMAIN <<>> = {}
  BY EmptySeq
<1>3. /\ timer \in BOOLEAN /\ pause \in BOOLEAN /\ dropped \in BOOLEAN /\ crossed \in BOOLEAN
      /\ open \in BOOLEAN /\ table \in BOOLEAN
  BY <1>1, Zenon
<1>4. entry \in Entries /\ entry.rating = 0 /\ entry.note = 0
  BY <1>1 DEF Entries, Ratings, ManagerBounds
<1>5. RatingTypes
  <2>1. /\ commits \in Seq(Manager!Commits) /\ Len(commits) <= MaxCommits /\ chain \in 0 .. Len(commits)
    BY <1>1, <1>2 DEF ManagerBounds
  <2> QED BY <2>1, <1>1, <1>3, <1>4, Names DEF RatingTypes, ManagerBounds
<1>6. ListTypes
  BY <1>1, <1>2 DEF ListTypes, ManagerBounds
<1>7. NoteTypes
  BY <1>1, <1>2, <1>3 DEF NoteTypes, ManagerBounds
<1>8. PageTypes
  BY <1>1, <1>3 DEF PageTypes, ManagerBounds
<1>9. RatingInv
  BY <1>1, <1>2, <1>4 DEF RatingInv, Entered
<1>10. AloneInv
  BY <1>1, <1>2, <1>4 DEF AloneInv, Alone, Noted
<1> QED BY <1>5, <1>6, <1>7, <1>8, <1>9, <1>10 DEF ManagerInv

LEMMA ManagerSame ==
  ASSUME ManagerInv, UNCHANGED Manager!vars
  PROVE  ManagerInv'
<1>1. UNCHANGED <<open, table, entry, cache, draft, kept, revision, timer, commits, chain, text, pause,
                  saves, filter, loads, shown, reloads, troubles, stored, last, escaped, put, typed,
                  dropped, crossed>>
  BY DEF Manager!vars
<1>2. RatingTypes' /\ ListTypes' /\ NoteTypes' /\ PageTypes'
  BY <1>1 DEF ManagerInv, RatingTypes, ListTypes, NoteTypes, PageTypes
<1>3. RatingInv'
  BY <1>1 DEF ManagerInv, RatingInv
<1>4. AloneInv'
  BY <1>1, Zenon DEF ManagerInv, AloneInv, Alone, Noted
<1> QED BY <1>2, <1>3, <1>4 DEF ManagerInv

LEMMA ManagerStep ==
  ASSUME ManagerBounds, ManagerInv, [Manager!Next]_(Manager!vars)
  PROVE  ManagerInv'
<1>1. CASE Manager!Next
  BY <1>1, OpenInv, CloseManagerInv, LoadReadInv, LoadShownInv, TypeInv, CommitInv, EscapeInv,
     QuietCommitInv, EntryReadInv, ApplyInv, StoredInv, ToldInv, NoteTypedInv, NoteReadInv, NotePutInv,
     ExpireInv DEF Manager!Next
<1> QED BY <1>1, ManagerSame

LEMMA ManagerSpecInv ==
  ASSUME ManagerBounds
  PROVE  Manager!Spec => []ManagerInv
BY ManagerInitially, ManagerStep, PTL DEF Manager!Spec

LEMMA OrderStep ==
  ASSUME ManagerBounds, ManagerInv, [Manager!Next]_(Manager!vars)
  PROVE  put' >= put /\ (entry'.rating # entry.rating => entry'.rating \notin escaped)
<1>1. entry'.rating \notin escaped'
  BY ManagerStep DEF ManagerInv, RatingInv
<1>2. escaped \subseteq escaped' /\ put' \in {put, revision}
  <2>1. CASE Manager!Next
    <3>1. CASE \E i \in DOMAIN commits : Manager!Apply(i)
      BY <3>1 DEF Manager!Apply, Manager!Superseded, Manager!steady
    <3>2. CASE Manager!Escape
      BY <3>2 DEF Manager!Escape
    <3>3. CASE ~Manager!Escape /\ ~(\E i \in DOMAIN commits : Manager!Apply(i))
      BY <2>1, <3>3 DEF Manager!Next, Manager!Open, Manager!Close, Manager!Look, Manager!LoadRead,
         Manager!LoadShown, Manager!Type, Manager!Commit, Manager!Turn, Manager!EntryRead, Manager!Stored,
         Manager!Failed, Manager!Told, Manager!TypeNote, Manager!SaveNote, Manager!NoteRead,
         Manager!NotePut, Manager!Expire, Manager!ratingVars, Manager!steady
    <3> QED BY <3>1, <3>2, <3>3
  <2>2. CASE UNCHANGED Manager!vars
    BY <2>2 DEF Manager!vars
  <2> QED BY <2>1, <2>2
<1>3. revision \in Nat /\ put \in 0 .. revision
  BY DEF ManagerInv, RatingTypes, RatingInv
<1> QED BY <1>1, <1>2, <1>3

\* The manager's state keeps its types, with any number of reloads, commits,
\* refusals and closings.
THEOREM ManagerTyped ==
  ASSUME ManagerBounds
  PROVE  Manager!Spec => []Manager!TypeOK
<1>1. ASSUME ManagerInv
      PROVE  Manager!TypeOK
  <2>1. {filter, shown} \subseteq 0 .. MaxReloads
    BY <1>1 DEF ManagerInv, ListTypes, ManagerBounds
  <2>2. \A i \in DOMAIN commits : commits[i] \in Manager!Commits
    BY <1>1, Shapes DEF ManagerInv
  <2>3. 0 .. revision \subseteq Ratings /\ -2 .. revision \subseteq Ratings \union {-2}
        /\ 0 .. revision \subseteq 0 .. MaxEdits /\ revision \in 0 .. MaxEdits
    BY <1>1 DEF ManagerInv, RatingTypes, Ratings, ManagerBounds
  <2>4. /\ stored \subseteq Ratings /\ escaped \subseteq Ratings /\ last \in stored
        /\ put \in 0 .. MaxEdits /\ {draft, kept} \subseteq Ratings \union {-2}
    <3>1. -1 \in Ratings
      BY DEF Ratings, ManagerBounds
    <3> QED BY <1>1, <2>3, <3>1 DEF ManagerInv, RatingInv
  <2> QED BY <1>1, <2>1, <2>2, <2>3, <2>4, Names
          DEF Manager!TypeOK, ManagerInv, RatingTypes, ListTypes, NoteTypes, PageTypes
<1> QED BY <1>1, ManagerSpecInv, PTL

\* Whatever reloads, refusals and closings come in between, a commit from before
\* an edit is never stored after one from after it, and a rating that the user
\* took back before it was stored stays out of the record, whatever copies of it
\* the saves of the note put (ratingHandlers.js).
THEOREM RatingsOrdered ==
  ASSUME ManagerBounds
  PROVE  Manager!Spec => Manager!RatingsInOrder
<1>1. ManagerInv /\ [Manager!Next]_(Manager!vars)
        => [put' >= put /\ (entry'.rating # entry.rating => entry'.rating \notin escaped)]_(Manager!vars)
  BY OrderStep
<1> QED BY <1>1, ManagerSpecInv, PTL DEF Manager!Spec, Manager!RatingsInOrder

\* The rating and the note keep each other although each write puts a whole copy
\* of the record, perhaps a cached one: in any number of edits, until two writes
\* of the dialog overlap (putEntry(), patchEntry() and applyPersonalActivity() in
\* service.js).
THEOREM EditsKept ==
  ASSUME ManagerBounds
  PROVE  Manager!Spec => []Manager!EditsKeepEachOther
<1>1. ManagerInv => Manager!EditsKeepEachOther
  BY DEF ManagerInv, AloneInv, Alone, Noted, Manager!EditsKeepEachOther
<1> QED BY <1>1, ManagerSpecInv, PTL
-----------------------------
(* The import of a file (LibraryImport).                                   *)
CONSTANTS Ids, Events, BatchSize, MaxTime, MaxRuns
VARIABLES file, policy, library, histories, phase, plan, at, one, attempts, progress, afterClose,
          result, runs, turns, written, uncertain, touched, section, cut

Import == INSTANCE LibraryImport
  WITH faults <- troubles, tries <- attempts, unsure <- uncertain

ImportBounds ==
  /\ IsFiniteSet(Ids) /\ BatchSize \in Nat \ {0} /\ Retries \in Nat /\ MaxTime \in Nat \ {0}
  /\ MaxRuns \in Nat /\ MaxFaults \in Nat /\ HistoryLimit \in Nat
  /\ IsFiniteSet(Events) /\ \A e \in Events : e.section \in Import!Sections /\ e.id \in Ids

StoreTypes ==
  /\ file \in [records : [Ids -> 0 .. MaxTime], histories : SUBSET Events] /\ policy \in Import!Policies
  /\ library \in [Ids -> 0 .. MaxTime]
  /\ written \subseteq Ids /\ uncertain \subseteq written

LogTypes ==
  histories \subseteq logged /\ logged \subseteq Events /\ section \in Import!Sections /\ cut \subseteq Ids

PlanTypes ==
  /\ phase \in Import!Phases /\ plan \in [records : Seq(Ids), histories : SUBSET Events]
  /\ at \in 0 .. Len(plan.records) /\ one \in 0 .. BatchSize

RunTypes ==
  /\ progress \in [open : BOOLEAN, cancelled : BOOLEAN] /\ afterClose \in BOOLEAN
  /\ attempts \in 0 .. Retries /\ runs \in 0 .. MaxRuns /\ troubles \in 0 .. MaxFaults
  /\ result \in [counted : SUBSET Ids, failed : BOOLEAN, cancelled : BOOLEAN, complete : BOOLEAN]

ImportTypes == StoreTypes /\ LogTypes /\ PlanTypes /\ RunTypes

\* What policy p asks of a record the file f has, when the library is lib.
Met(f, p, lib, id) ==
  /\ p = "replace" => lib[id] = f[id]
  /\ p = "newer" => lib[id] >= f[id]
  /\ p = "skip" => lib[id] # 0

\* Whatever the policy admits and no other tab has written is in the library,
\* or is in the plan r after its first k records.
Whole(f, p, r, lib, others, k) ==
  \A id \in Ids \ others : f[id] # 0 =>
    Met(f, p, lib, id) \/ \E i \in 1 .. Len(r) : i > k /\ r[i] = id

WholeFrom(k) == Whole(file.records, policy, plan.records, library, touched, k)

\* How many records the batch has.
Size == IF at + BatchSize < Len(plan.records) THEN BatchSize ELSE Len(plan.records) - at

\* How far the import is, while no record has failed.
WayInv ==
  /\ phase \in {"idle", "preview", "confirm", "opening"} => at = 0
  /\ phase \in {"confirm", "opening"} => WholeFrom(0)
  /\ phase = "records" /\ ~result.failed => WholeFrom(at)
  /\ phase = "single" => one < Size
  /\ phase = "single" /\ ~result.failed => WholeFrom(at + one)
  /\ phase \in {"history", "cut"} => WholeFrom(Len(plan.records))

\* An event is there, or newer ones have pushed it out.
Rests(there, ever, e) == e \in there \/ Cardinality(Import!Newer(ever, e)) >= HistoryLimit

\* The events of the plan that are still to be stored.
Pending ==
  {e \in plan.histories :
     /\ phase = "history" => section = "updates" \/ e.section = section
     /\ phase = "cut" => section = "updates" /\ e.section = "activity"}

HistoriesInv ==
  phase \in {"confirm", "opening", "records", "single", "history", "cut"} =>
    \A e \in file.histories : Rests(histories, logged, e) \/ e \in Pending

CompleteInv ==
  result.complete =>
    /\ phase \in {"finish", "idle"}
    /\ Whole(file.records, policy, <<>>, library, touched, 0)
    /\ \A e \in file.histories : Rests(histories, logged, e)

PlannedInv == \A i \in 1 .. Len(plan.records) : file.records[plan.records[i]] # 0

ImportInv ==
  /\ ImportTypes /\ Import!ReportIsTrue
  /\ PlannedInv /\ WayInv /\ HistoriesInv /\ CompleteInv

\* A plan has every record it is made of.
LEMMA PlanSequence ==
  ASSUME NEW S, IsFiniteSet(S)
  PROVE  /\ Import!SetToSeq(S) \in Seq(S)
         /\ \A x \in S : \E i \in 1 .. Len(Import!SetToSeq(S)) : Import!SetToSeq(S)[i] = x
<1> DEFINE n == Cardinality(S)
<1>1. n \in Nat /\ ExistsBijection(1 .. n, S)
  BY FS_CardinalityType
<1>2. PICK f \in Bijection(1 .. n, S) : TRUE
  BY <1>1 DEF ExistsBijection
<1>3. f \in [1 .. n -> S] /\ Import!IsInjective(f)
  BY <1>2 DEF Bijection, Injection, IsInjective, Import!IsInjective
<1> DEFINE g == Import!SetToSeq(S)
<1>4. g \in [1 .. n -> S] /\ Import!IsInjective(g)
  <2>1. Import!Cardinality(S) = n
    BY Zenon DEF Cardinality, Import!Cardinality
  <2> QED BY <1>3, <2>1, Zenon DEF Import!SetToSeq
<1>5. g \in Seq(S) /\ Len(g) = n
  BY <1>1, <1>4
<1>6. g \in Injection(1 .. n, S)
  BY <1>4, Zenon DEF Injection, IsInjective, Import!IsInjective
<1>7. IsFiniteSet(1 .. n) /\ Cardinality(1 .. n) = n
  BY <1>1, FS_Interval
<1> HIDE DEF g, n
<1>8. g \in Surjection(1 .. n, S)
  BY <1>6, <1>7, FS_Injection DEF n
<1> QED BY <1>5, <1>8 DEF Surjection, g

LEMMA BatchShape ==
  ASSUME ImportBounds, ImportTypes
  PROVE  /\ Len(plan.records) \in Nat /\ at \in Nat
         /\ Size \in 0 .. BatchSize /\ at + Size <= Len(plan.records)
         /\ Len(Import!Batch) = Size
         /\ \A i \in 1 .. Size : Import!Batch[i] = plan.records[at + i] /\ plan.records[at + i] \in Ids
         /\ Import!Batch = <<>> <=> at = Len(plan.records)
         /\ Import!Elements(Import!Batch) = {plan.records[i] : i \in at + 1 .. at + Size}
         /\ Import!Elements(Import!Batch) \subseteq Ids
<1>1. /\ Len(plan.records) \in Nat /\ at \in 0 .. Len(plan.records) /\ plan.records \in Seq(Ids)
      /\ BatchSize \in Nat \ {0} /\ \A i \in 1 .. Len(plan.records) : plan.records[i] \in Ids
  BY DEF ImportBounds, ImportTypes, StoreTypes, LogTypes, PlanTypes, RunTypes
<1>2. /\ Size \in 0 .. BatchSize /\ at + Size \in 0 .. Len(plan.records)
      /\ Size = 0 <=> at = Len(plan.records)
  BY <1>1 DEF Size
<1>3. Import!Batch = SubSeq(plan.records, at + 1, at + Size)
  BY <1>1 DEF Import!Batch, Size
<1>4. /\ Import!Batch \in Seq(Ids) /\ Len(Import!Batch) = Size
      /\ \A i \in 1 .. Size : Import!Batch[i] = plan.records[at + i]
  <2>1. at + 1 \in Int /\ at + Size \in Int /\ \A i \in at + 1 .. at + Size : plan.records[i] \in Ids
    BY <1>1, <1>2
  <2> DEFINE s == plan.records  m == at + 1  n == at + Size
  <2>3. m \in Int /\ n \in Int /\ \A i \in m .. n : s[i] \in Ids
    BY <2>1
  <2> HIDE DEF s, m, n
  <2>4. /\ SubSeq(s, m, n) \in Seq(Ids)
        /\ Len(SubSeq(s, m, n)) = IF m <= n THEN n - m + 1 ELSE 0
        /\ \A i \in 1 .. n - m + 1 : SubSeq(s, m, n)[i] = s[m + i - 1]
    BY <2>3, SubSeqProperties
  <2>5. Import!Batch = SubSeq(s, m, n)
    BY <1>3 DEF s, m, n
  <2>6. /\ Import!Batch \in Seq(Ids) /\ Len(Import!Batch) = IF m <= n THEN n - m + 1 ELSE 0
        /\ \A i \in 1 .. n - m + 1 : Import!Batch[i] = s[m + i - 1]
    BY <2>4, <2>5
  <2> HIDE DEF Size
  <2>7. n - m + 1 = Size /\ (m <= n <=> Size # 0)
    BY <1>1, <1>2 DEF m, n
  <2>8. ASSUME NEW i \in 1 .. Size
        PROVE  Import!Batch[i] = plan.records[at + i]
    BY <2>6, <2>7, <1>1, <1>2, m + i - 1 = at + i DEF s, m
  <2> QED BY <1>2, <2>6, <2>7, <2>8
<1>5. Import!Batch = <<>> <=> Size = 0
  BY <1>4
<1>6. DOMAIN Import!Batch = 1 .. Size
  BY <1>4
<1>7. Import!Elements(Import!Batch) = {plan.records[i] : i \in at + 1 .. at + Size}
  <2> HIDE DEF Size
  <2>1. Import!Elements(Import!Batch) = {plan.records[at + i] : i \in 1 .. Size}
    BY <1>4, <1>6 DEF Import!Elements
  <2>2. \A i \in at + 1 .. at + Size : i - at \in 1 .. Size /\ at + (i - at) = i
    BY <1>1, <1>2
  <2>3. \A i \in 1 .. Size : at + i \in at + 1 .. at + Size
    BY <1>1, <1>2
  <2> QED BY <2>1, <2>2, <2>3
<1> HIDE DEF Size
<1> QED BY <1>1, <1>2, <1>4, <1>5, <1>7

\* A record that is stored meets the policy, and storing takes nothing from the
\* others.
LEMMA StoredMeets ==
  ASSUME ImportTypes, NEW S \in SUBSET Ids, \A id \in S : file.records[id] # 0,
         NEW k \in Nat, NEW m \in Nat, WholeFrom(k),
         \A i \in 1 .. Len(plan.records) : i > k /\ i <= m => plan.records[i] \in S
  PROVE  /\ Import!Stored(S) \in [Ids -> 0 .. MaxTime]
         /\ Whole(file.records, policy, plan.records, Import!Stored(S), touched, m)
<1> DEFINE lib == Import!Stored(S)
<1>1. /\ file.records \in [Ids -> 0 .. MaxTime] /\ library \in [Ids -> 0 .. MaxTime]
      /\ Len(plan.records) \in Nat
  BY DEF ImportTypes, StoreTypes, LogTypes, PlanTypes, RunTypes
<1>2. lib = [id \in Ids |-> IF id \in S THEN file.records[id] ELSE library[id]]
  BY DEF Import!Stored
<1>3. lib \in [Ids -> 0 .. MaxTime]
  BY <1>1, <1>2
<1>4. \A id \in S : lib[id] = file.records[id] /\ lib[id] # 0 /\ lib[id] >= file.records[id]
  BY <1>1, <1>2
<1>5. \A id \in Ids \ S : lib[id] = library[id]
  BY <1>1, <1>2
<1> HIDE DEF lib
<1>6. ASSUME NEW id \in Ids \ touched, file.records[id] # 0
      PROVE  Met(file.records, policy, lib, id)
             \/ \E i \in 1 .. Len(plan.records) : i > m /\ plan.records[i] = id
  <2>1. CASE id \in S
    BY <1>4, <2>1 DEF Met
  <2>2. CASE id \notin S
    <3>1. \/ Met(file.records, policy, library, id)
          \/ \E i \in 1 .. Len(plan.records) : i > k /\ plan.records[i] = id
      BY <1>6 DEF WholeFrom, Whole
    <3>2. ASSUME NEW i \in 1 .. Len(plan.records), i > k, plan.records[i] = id
          PROVE  i > m
      BY <3>2, <2>2, <1>1
    <3> QED BY <3>1, <3>2, <2>2, <1>5 DEF Met
  <2> QED BY <2>1, <2>2
<1> QED BY <1>3, <1>6 DEF lib, Whole

-----------------------------
(* The steps of the import.                                                *)

LEMMA ImportInitially ==
  ASSUME ImportBounds, Import!Init
  PROVE  ImportInv
<1>1. ImportTypes
  <2>1. /\ library \in [Ids -> 0 .. MaxTime] /\ LogTypes
        /\ file \in [records : [Ids -> 0 .. MaxTime], histories : SUBSET Events]
    BY DEF Import!Init, ImportBounds, LogTypes, Import!Sections
  <2>2. plan \in [records : Seq(Ids), histories : SUBSET Events] /\ at \in 0 .. Len(plan.records)
    BY DEF Import!Init, Import!NoPlan
  <2>3. /\ one \in 0 .. BatchSize /\ attempts \in 0 .. Retries /\ runs \in 0 .. MaxRuns
        /\ troubles \in 0 .. MaxFaults
    BY DEF Import!Init, ImportBounds
  <2>4. /\ phase \in Import!Phases /\ policy \in Import!Policies
        /\ progress \in [open : BOOLEAN, cancelled : BOOLEAN] /\ afterClose \in BOOLEAN
        /\ result \in [counted : SUBSET Ids, failed : BOOLEAN, cancelled : BOOLEAN, complete : BOOLEAN]
        /\ written \subseteq Ids /\ uncertain \subseteq written
    BY DEF Import!Init, Import!Phases, Import!NoResult, Import!Closed
  <2> QED BY <2>1, <2>2, <2>3, <2>4 DEF ImportTypes, StoreTypes, LogTypes, PlanTypes, RunTypes
<1>2. /\ plan.records = <<>> /\ result.counted = {} /\ ~result.complete /\ phase = "idle"
      /\ at = 0 /\ written = {} /\ uncertain = {}
  BY DEF Import!Init, Import!NoPlan, Import!NoResult
<1> QED
  BY <1>1, <1>2 DEF ImportInv, Import!ReportIsTrue, PlannedInv, WayInv, HistoriesInv, CompleteInv

\* Steps that write nothing: the file is chosen, the dialog opens and closes,
\* a cancel is seen, the records are through.
LEMMA StepsThatWriteNothing ==
  ASSUME ImportBounds, ImportInv,
         \/ Import!ChooseFile \/ Import!Confirm \/ Import!OpenProgress \/ Import!StopRecords
         \/ Import!StopSingle \/ Import!EndRecords \/ Import!Finish
         \/ Import!PressCancel \/ Import!Disable
  PROVE  ImportInv'
<1> USE DEF ImportInv, Import!log, LogTypes, Pending
<1>9. LogTypes'
  BY DEF Import!ChooseFile, Import!Confirm, Import!OpenProgress, Import!StopRecords, Import!StopSingle,
         Import!EndRecords, Import!Finish, Import!PressCancel, Import!Disable, Import!Sections, ImportTypes
<1>1. CASE Import!ChooseFile
  BY <1>1 DEF Import!ChooseFile, ImportTypes, StoreTypes, LogTypes, PlanTypes, RunTypes, ImportBounds,
              Import!NoResult, Import!Phases,
              Import!ReportIsTrue, PlannedInv, WayInv, HistoriesInv, CompleteInv
<1>2. CASE Import!Confirm
  <2>1. ImportTypes'
    <3>1. /\ UNCHANGED <<file, policy, library, histories, plan, at, one, attempts, result, runs,
                         troubles, written, uncertain>>
          /\ phase' \in {"opening", "idle"} /\ (afterClose' = FALSE \/ afterClose' = afterClose)
          /\ (progress' = progress \/ progress' = [open |-> TRUE, cancelled |-> FALSE])
      BY <1>2 DEF Import!Confirm, Import!told
    <3>2. StoreTypes' /\ PlanTypes'
      BY <3>1 DEF ImportTypes, StoreTypes, PlanTypes, Import!Phases
    <3>3. RunTypes'
      <4>1. progress' \in [open : BOOLEAN, cancelled : BOOLEAN]
        <5>1. CASE progress' = progress
          BY <5>1 DEF ImportTypes, RunTypes
        <5>2. CASE progress' = [open |-> TRUE, cancelled |-> FALSE]
          BY <5>2
        <5> QED BY <3>1, <5>1, <5>2
      <4>2. afterClose' \in BOOLEAN
        BY <3>1 DEF ImportTypes, RunTypes
      <4> QED BY <3>1, <4>1, <4>2 DEF ImportTypes, RunTypes
    <3> QED BY <1>9, <3>2, <3>3 DEF ImportTypes
  <2>4. Import!ReportIsTrue' /\ PlannedInv'
    BY <1>2 DEF Import!Confirm, ImportTypes, StoreTypes, LogTypes, PlanTypes, RunTypes, Import!Phases,
                Import!told, Import!ReportIsTrue, PlannedInv
  <2>2. WayInv'
    BY <1>2 DEF Import!Confirm, WayInv, WholeFrom, Import!told
  <2>3. HistoriesInv' /\ CompleteInv'
    BY <1>2 DEF Import!Confirm, HistoriesInv, CompleteInv, Import!told
  <2> QED BY <2>1, <2>2, <2>3, <2>4
<1>3. CASE Import!OpenProgress
  <2>1. ImportTypes'
    <3>1. /\ UNCHANGED <<file, policy, library, histories, plan, afterClose, result, runs, written,
                          uncertain>>
          /\ phase' = "records" /\ at' = 0 /\ one' = 0 /\ attempts' = 0
          /\ (progress' = progress \/ progress' = [open |-> FALSE, cancelled |-> FALSE])
          /\ troubles' = troubles \/ (troubles < MaxFaults /\ troubles' = troubles + 1)
      BY <1>3 DEF Import!OpenProgress, Import!Fault, Import!told, Import!Closed
    <3>2. StoreTypes' /\ PlanTypes'
      BY <3>1 DEF ImportTypes, StoreTypes, PlanTypes, ImportBounds, Import!Phases
    <3>3. RunTypes'
      <4>1. progress' \in [open : BOOLEAN, cancelled : BOOLEAN]
        <5>1. CASE progress' = progress
          BY <5>1 DEF ImportTypes, RunTypes
        <5>2. CASE progress' = [open |-> FALSE, cancelled |-> FALSE]
          BY <5>2
        <5> QED BY <3>1, <5>1, <5>2
      <4>2. afterClose' \in BOOLEAN
        BY <3>1 DEF ImportTypes, RunTypes
      <4> QED BY <3>1, <4>1, <4>2 DEF ImportTypes, RunTypes, ImportBounds
    <3> QED BY <1>9, <3>2, <3>3 DEF ImportTypes
  <2>4. Import!ReportIsTrue' /\ PlannedInv'
    BY <1>3 DEF Import!OpenProgress, Import!Fault, ImportTypes, StoreTypes, LogTypes, PlanTypes, RunTypes,
                ImportBounds, Import!Phases,
                Import!told, Import!Closed, Import!ReportIsTrue, PlannedInv
  <2>2. WayInv'
    BY <1>3 DEF Import!OpenProgress, WayInv, WholeFrom, Import!told
  <2>3. HistoriesInv' /\ CompleteInv'
    BY <1>3 DEF Import!OpenProgress, HistoriesInv, CompleteInv, Import!told
  <2> QED BY <2>1, <2>2, <2>3, <2>4
<1>4. CASE Import!StopRecords
  BY <1>4 DEF Import!StopRecords, Import!End, ImportTypes, StoreTypes, LogTypes, PlanTypes,
              RunTypes, Import!Phases,
              Import!told, Import!ReportIsTrue, PlannedInv, WayInv, HistoriesInv, CompleteInv
<1>5. CASE Import!StopSingle
  <2>1. ImportTypes'
    <3>1. /\ UNCHANGED <<file, policy, library, histories, plan, at, attempts, progress, afterClose,
                         runs, troubles, written, uncertain>>
          /\ phase' = "finish" /\ one' = 0 /\ result' = [result EXCEPT !.cancelled = TRUE]
      BY <1>5 DEF Import!StopSingle, Import!SingleStopped, Import!told
    <3>2. StoreTypes' /\ PlanTypes'
      BY <3>1 DEF ImportTypes, StoreTypes, PlanTypes, ImportBounds, Import!Phases
    <3>3. RunTypes'
      BY <3>1 DEF ImportTypes, RunTypes, ImportBounds
    <3> QED BY <1>9, <3>2, <3>3 DEF ImportTypes
  <2>4. Import!ReportIsTrue' /\ PlannedInv'
    BY <1>5 DEF Import!StopSingle, Import!SingleStopped, Import!told, ImportTypes, RunTypes,
                Import!ReportIsTrue, PlannedInv
  <2>2. WayInv' /\ HistoriesInv' /\ CompleteInv'
    BY <1>5 DEF Import!StopSingle, Import!SingleStopped, WayInv, HistoriesInv, CompleteInv, ImportTypes,
                StoreTypes, PlanTypes, RunTypes
  <2> QED BY <2>1, <2>2, <2>4
<1>6. CASE Import!EndRecords
  <2>1. /\ phase = "records" /\ at = Len(plan.records) /\ section' = "updates"
        /\ UNCHANGED <<file, policy, library, histories, logged, plan, at, one, attempts, progress,
                       afterClose, runs, troubles, written, uncertain, touched>>
        /\ \/ phase' = "history" /\ result' = result /\ ~result.failed
           \/ phase' = "finish" /\ \E c \in BOOLEAN : result' = [result EXCEPT !.cancelled = c]
    BY <1>6, BatchShape DEF Import!EndRecords, Import!End, Import!Partial, Import!told
  <2>2. /\ result \in [counted : SUBSET Ids, failed : BOOLEAN, cancelled : BOOLEAN, complete : BOOLEAN]
        /\ ~result.complete
    BY <2>1 DEF ImportTypes, RunTypes, CompleteInv
  <2>3. /\ result' \in [counted : SUBSET Ids, failed : BOOLEAN, cancelled : BOOLEAN, complete : BOOLEAN]
        /\ result'.counted = result.counted /\ ~result'.complete
    BY <2>1, <2>2
  <2>4. ImportTypes'
    <3>1. StoreTypes' /\ PlanTypes'
      BY <2>1 DEF ImportTypes, StoreTypes, PlanTypes, Import!Phases
    <3>2. RunTypes'
      BY <2>1, <2>3 DEF ImportTypes, RunTypes
    <3> QED BY <1>9, <3>1, <3>2 DEF ImportTypes
  <2>5. Import!ReportIsTrue' /\ PlannedInv'
    BY <2>1, <2>3 DEF Import!ReportIsTrue, PlannedInv
  <2>6. WayInv'
    BY <2>1 DEF WayInv, WholeFrom
  <2>7. HistoriesInv' /\ CompleteInv'
    BY <2>1, <2>3 DEF HistoriesInv, CompleteInv
  <2> QED BY <2>4, <2>5, <2>6, <2>7
<1>7. CASE Import!Finish
  BY <1>7 DEF Import!Finish, ImportTypes, StoreTypes, LogTypes, PlanTypes, RunTypes, Import!Phases, Import!Closed,
              Import!NoPlan, Import!told,
              Import!ReportIsTrue, PlannedInv, WayInv, HistoriesInv, CompleteInv
<1>8. CASE Import!PressCancel \/ Import!Disable
  <2>1. ImportTypes'
    <3>1. /\ UNCHANGED <<file, policy, library, histories, phase, plan, at, one, attempts, result, runs,
                          troubles, written, uncertain>>
          /\ (afterClose' = TRUE \/ afterClose' = afterClose)
          /\ \/ progress' = [progress EXCEPT !.cancelled = TRUE]
             \/ progress' = [open |-> FALSE, cancelled |-> FALSE]
      BY <1>8 DEF Import!PressCancel, Import!Disable, Import!Closed, Import!told
    <3>2. StoreTypes' /\ PlanTypes'
      BY <3>1 DEF ImportTypes, StoreTypes, PlanTypes
    <3>3. RunTypes'
      <4>1. progress' \in [open : BOOLEAN, cancelled : BOOLEAN]
        <5>1. CASE progress' = [progress EXCEPT !.cancelled = TRUE]
          BY <5>1 DEF ImportTypes, RunTypes
        <5>2. CASE progress' = [open |-> FALSE, cancelled |-> FALSE]
          BY <5>2
        <5> QED BY <3>1, <5>1, <5>2
      <4>2. afterClose' \in BOOLEAN
        BY <3>1 DEF ImportTypes, RunTypes
      <4> QED BY <3>1, <4>1, <4>2 DEF ImportTypes, RunTypes
    <3> QED BY <1>9, <3>2, <3>3 DEF ImportTypes
  <2>4. Import!ReportIsTrue' /\ PlannedInv'
    BY <1>8 DEF Import!PressCancel, Import!Disable, Import!Closed, ImportTypes, StoreTypes, LogTypes, PlanTypes,
                RunTypes, Import!told,
                Import!ReportIsTrue, PlannedInv
  <2>2. WayInv'
    BY <1>8 DEF Import!PressCancel, Import!Disable, WayInv, WholeFrom, Size, Import!told
  <2>3. HistoriesInv' /\ CompleteInv'
    BY <1>8 DEF Import!PressCancel, Import!Disable, HistoriesInv, CompleteInv, Import!told
  <2> QED BY <2>1, <2>2, <2>3, <2>4
<1> QED BY <1>1, <1>2, <1>3, <1>4, <1>5, <1>6, <1>7, <1>8

LEMMA PreviewInv ==
  ASSUME ImportBounds, ImportInv, Import!Preview
  PROVE  ImportInv'
<1> DEFINE P == {id \in Ids : Import!Planned(id)}
           r == Import!SetToSeq(P)
<1>1. IsFiniteSet(P) /\ P \subseteq Ids
  BY FS_Subset DEF ImportBounds
<1>2. r \in Seq(P) /\ \A x \in P : \E i \in 1 .. Len(r) : r[i] = x
  BY <1>1, PlanSequence
<1>3. \A x \in P : file.records[x] # 0
  BY DEF Import!Planned
<1>4. /\ phase = "preview" /\ phase' = "confirm" /\ touched' = {}
      /\ plan' = [records |-> r, histories |-> file.histories \ histories]
      /\ UNCHANGED <<file, policy, library, histories, section, cut, logged, at, one, attempts,
                     progress, afterClose, result, runs, troubles, turns, written, uncertain>>
  BY DEF Import!Preview, Import!log
<1>5. \A id \in Ids \ P : file.records[id] # 0 => Met(file.records, policy, library, id)
  BY DEF Import!Planned, Met, ImportInv, ImportTypes, StoreTypes, LogTypes, PlanTypes, RunTypes, Import!Policies
<1> HIDE DEF r, P
<1>6. r \in Seq(Ids) /\ Len(r) \in Nat /\ \A i \in 1 .. Len(r) : file.records[r[i]] # 0
  BY <1>1, <1>2, <1>3
<1>7. plan'.records = r /\ plan'.histories = file.histories \ histories /\ at = 0
  BY <1>4 DEF ImportInv, WayInv
<1>8. ImportTypes' /\ Import!ReportIsTrue' /\ PlannedInv'
  BY <1>4, <1>6, <1>7 DEF ImportInv, ImportTypes, StoreTypes, LogTypes, PlanTypes, RunTypes, Import!Phases,
                          Import!ReportIsTrue, PlannedInv
<1>9. Whole(file.records, policy, r, library, {}, 0)
  BY <1>2, <1>5, <1>6 DEF Whole
<1>10. WayInv' /\ HistoriesInv' /\ CompleteInv'
  BY <1>4, <1>7, <1>9 DEF ImportInv, WayInv, WholeFrom, HistoriesInv, CompleteInv, Pending, Rests
<1> QED BY <1>8, <1>10 DEF ImportInv

LEMMA OtherTabInv ==
  ASSUME ImportBounds, ImportInv, NEW x \in Ids, Import!OtherTabWrites(x)
  PROVE  ImportInv'
<1>1. /\ touched' = touched \union {x}
      /\ UNCHANGED <<file, policy, histories, section, cut, logged, phase, plan, at, one, attempts,
                     progress, afterClose, result, runs, troubles, written, uncertain>>
      /\ library' \in [Ids -> 0 .. MaxTime] /\ \A id \in Ids : id # x => library'[id] = library[id]
  <2>1. PICK time \in {0, MaxTime} : library' = [library EXCEPT ![x] = time]
    BY DEF Import!OtherTabWrites
  <2>2. time \in 0 .. MaxTime /\ library \in [Ids -> 0 .. MaxTime]
    BY DEF ImportBounds, ImportInv, ImportTypes, StoreTypes, LogTypes, PlanTypes, RunTypes
  <2> QED BY <2>1, <2>2 DEF Import!OtherTabWrites, Import!log
<1>2. ASSUME NEW r, NEW k, Whole(file.records, policy, r, library, touched, k)
      PROVE  Whole(file.records, policy, r, library', touched', k)
  BY <1>1, <1>2 DEF Whole, Met
<1>3. ImportTypes' /\ Import!ReportIsTrue' /\ PlannedInv'
  BY <1>1 DEF ImportInv, ImportTypes, StoreTypes, LogTypes, PlanTypes, RunTypes, Import!ReportIsTrue, PlannedInv
<1>4. WayInv'
  BY <1>1, <1>2 DEF ImportInv, WayInv, WholeFrom, Size
<1>5. HistoriesInv' /\ CompleteInv'
  BY <1>1, <1>2 DEF ImportInv, HistoriesInv, CompleteInv, Pending
<1> QED BY <1>3, <1>4, <1>5 DEF ImportInv

LEMMA SizeOfFile == \A S : Import!Cardinality(S) = Cardinality(S)
BY Zenon DEF Import!Cardinality, Cardinality

\* An event that rests goes on to: what is removed had enough newer ones, and
\* none of the events there have been is forgotten.
LEMMA RestsOn ==
  ASSUME NEW there, NEW ever, NEW after, NEW since, NEW more \in SUBSET since, IsFiniteSet(since),
         HistoryLimit \in Nat, ever \subseteq since,
         \A x \in there \ after : Import!Surplus(more, x),
         NEW e, Rests(there, ever, e)
  PROVE  Rests(after, since, e)
<1>1. ASSUME NEW S \in SUBSET since, Cardinality(Import!Newer(S, e)) >= HistoryLimit
      PROVE  Cardinality(Import!Newer(since, e)) >= HistoryLimit
  <2>1. Import!Newer(S, e) \subseteq Import!Newer(since, e) /\ Import!Newer(since, e) \subseteq since
    BY DEF Import!Newer
  <2>2. IsFiniteSet(Import!Newer(since, e))
    BY <2>1, FS_Subset
  <2>3. /\ Cardinality(Import!Newer(S, e)) <= Cardinality(Import!Newer(since, e))
        /\ IsFiniteSet(Import!Newer(S, e))
    BY <2>1, <2>2, FS_Subset
  <2>4. Cardinality(Import!Newer(S, e)) \in Nat /\ Cardinality(Import!Newer(since, e)) \in Nat
    BY <2>2, <2>3, FS_CardinalityType
  <2> QED BY <1>1, <2>3, <2>4
<1>2. CASE e \in there \ after
  BY <1>1, <1>2, SizeOfFile DEF Import!Surplus, Rests
<1>3. CASE e \in after
  BY <1>3 DEF Rests
<1>4. CASE e \notin there
  BY <1>1, <1>4 DEF Rests
<1> QED BY <1>2, <1>3, <1>4

\* What concerns the records only stays as it is.
Recorded ==
  UNCHANGED <<file, policy, library, one, attempts, progress, afterClose, runs, written, uncertain,
              touched>>

LEMMA Unrecorded ==
  ASSUME ImportInv, Recorded, PlanTypes', LogTypes', troubles' \in 0 .. MaxFaults,
         result' \in [counted : SUBSET Ids, failed : BOOLEAN, cancelled : BOOLEAN, complete : BOOLEAN],
         result'.counted = result.counted, \/ plan' = plan \/ plan' = Import!NoPlan
  PROVE  ImportTypes' /\ Import!ReportIsTrue' /\ PlannedInv'
<1>1. StoreTypes' /\ RunTypes'
  BY DEF ImportInv, ImportTypes, StoreTypes, RunTypes, Recorded
<1>2. Import!ReportIsTrue'
  BY DEF ImportInv, Import!ReportIsTrue, Recorded
<1>3. PlannedInv'
  BY DEF ImportInv, PlannedInv, Import!NoPlan, Recorded
<1> QED BY <1>1, <1>2, <1>3 DEF ImportTypes

\* The steps of a section, and what other tabs log: events are added, and those
\* go that have enough newer ones.
LEMMA LogMoves ==
  ASSUME ImportBounds, ImportInv,
         \/ Import!StopHistory \/ Import!StoreHistory \/ Import!HistoryRefused
         \/ \E x \in Ids : Import!CutHistory(x) \/ Import!CutRefused(x)
         \/ \E x \in Events : Import!OtherTabLogs(x)
  PROVE  /\ LogTypes'
         /\ \A e : Rests(histories, logged, e) => Rests(histories', logged', e)
<1>1. /\ histories \subseteq logged /\ logged \subseteq Events /\ section \in Import!Sections /\ cut \subseteq Ids
      /\ plan.histories \in SUBSET Events
  BY DEF ImportInv, ImportTypes, LogTypes, PlanTypes
<1>2. ASSUME logged \subseteq logged', logged' \subseteq Events, NEW more \in SUBSET logged',
             \A x \in histories \ histories' : Import!Surplus(more, x)
      PROVE  \A e : Rests(histories, logged, e) => Rests(histories', logged', e)
  <2>1. IsFiniteSet(logged') /\ HistoryLimit \in Nat
    BY <1>2, FS_Subset DEF ImportBounds
  <2> QED BY <1>2, <2>1, RestsOn
<1>3. CASE Import!StopHistory \/ Import!StoreHistory \/ Import!HistoryRefused
  <2>1. PICK some \in SUBSET Import!InSection : Import!Logs(some)
    BY <1>3 DEF Import!StopHistory, Import!StoreHistory, Import!HistoryRefused
  <2>2. Import!InSection \subseteq Events
    BY <1>1 DEF Import!InSection
  <2>3. section' = section /\ cut' \subseteq Ids
    BY <1>1, <1>3, <2>2 DEF Import!StopHistory, Import!StoreHistory, Import!HistoryRefused, ImportBounds
  <2>4. /\ histories' = histories \union some /\ logged' = logged \union some
    BY <2>1 DEF Import!Logs
  <2>5. LogTypes'
    BY <1>1, <2>2, <2>3, <2>4 DEF LogTypes
  <2> QED BY <1>1, <1>2, <2>2, <2>4, <2>5
<1>4. ASSUME NEW x \in Ids, Import!CutHistory(x) \/ Import!CutRefused(x)
      PROVE  /\ LogTypes'
             /\ \A e : Rests(histories, logged, e) => Rests(histories', logged', e)
  <2>1. /\ section' = section /\ cut' \subseteq cut /\ logged' = logged
        /\ histories' \subseteq histories /\ histories \ histories' \subseteq Import!Overflow(x)
    BY <1>4 DEF Import!CutHistory, Import!CutRefused
  <2>2. LogTypes'
    BY <1>1, <2>1 DEF LogTypes
  <2>3. \A y \in histories \ histories' : Import!Surplus(histories, y)
    BY <2>1 DEF Import!Overflow
  <2> QED BY <1>1, <1>2, <2>1, <2>2, <2>3
<1>5. ASSUME NEW x \in Events, Import!OtherTabLogs(x)
      PROVE  /\ LogTypes'
             /\ \A e : Rests(histories, logged, e) => Rests(histories', logged', e)
  <2> DEFINE more == histories \union {x}
             old == {n \in more : n.section = x.section /\ n.id = x.id /\ Import!Surplus(more, n)}
  <2>1. /\ section' = section /\ cut' = cut /\ logged' = logged \union {x}
        /\ histories' = more \/ histories' = more \ old
    BY <1>5 DEF Import!OtherTabLogs
  <2>2. LogTypes'
    BY <1>1, <2>1 DEF LogTypes
  <2>3. \A y \in histories \ histories' : Import!Surplus(more, y)
    BY <2>1
  <2> QED BY <1>1, <1>2, <2>1, <2>2, <2>3
<1> QED BY <1>3, <1>4, <1>5

LEMMA HistoryInv ==
  ASSUME ImportBounds, ImportInv,
         \/ Import!StopHistory \/ Import!StoreHistory \/ Import!HistoryRefused
         \/ \E x \in Ids : Import!CutHistory(x) \/ Import!CutRefused(x)
         \/ \E x \in Events : Import!OtherTabLogs(x)
  PROVE  ImportInv'
<1>1. LogTypes' /\ \A e : Rests(histories, logged, e) => Rests(histories', logged', e)
  BY LogMoves
<1>2. CASE \E x \in Events : Import!OtherTabLogs(x)
  <2>1. /\ Recorded /\ UNCHANGED <<phase, plan, at, section, result, troubles>>
    BY <1>2 DEF Import!OtherTabLogs, Import!told, Recorded
  <2>2. PlanTypes' /\ troubles' \in 0 .. MaxFaults
    BY <2>1 DEF ImportInv, ImportTypes, PlanTypes, RunTypes, Recorded
  <2>3. ImportTypes' /\ Import!ReportIsTrue' /\ PlannedInv'
    BY <1>1, <2>1, <2>2, Unrecorded DEF ImportInv, ImportTypes, RunTypes
  <2>4. WayInv'
    BY <2>1 DEF ImportInv, WayInv, WholeFrom, Size, Recorded
  <2>5. HistoriesInv' /\ CompleteInv'
    BY <1>1, <2>1 DEF ImportInv, HistoriesInv, CompleteInv, Pending, Recorded
  <2> QED BY <2>3, <2>4, <2>5 DEF ImportInv
<1>3. CASE ~ \E x \in Events : Import!OtherTabLogs(x)
  <2>1. /\ Recorded /\ phase \in {"history", "cut"} /\ section' = section
        /\ phase' \in {"finish", "idle", "cut"}
        /\ troubles' = troubles \/ (troubles < MaxFaults /\ troubles' = troubles + 1)
        /\ result' = result \/ \E c \in BOOLEAN : result' = [result EXCEPT !.cancelled = c]
        /\ \/ plan' = plan /\ at' = at /\ phase' # "idle"
           \/ plan' = Import!NoPlan /\ at' = 0 /\ phase' = "idle"
    BY <1>3 DEF Import!StopHistory, Import!StoreHistory, Import!HistoryRefused, Import!CutHistory,
                Import!CutRefused, Import!End, Import!Fault, Import!told, Recorded
  <2>2. /\ result' \in [counted : SUBSET Ids, failed : BOOLEAN, cancelled : BOOLEAN, complete : BOOLEAN]
        /\ result'.counted = result.counted /\ ~result'.complete /\ troubles' \in 0 .. MaxFaults
    <3>1. result \in [counted : SUBSET Ids, failed : BOOLEAN, cancelled : BOOLEAN, complete : BOOLEAN]
      BY DEF ImportInv, ImportTypes, RunTypes
    <3>2. ~result.complete
      BY <2>1 DEF ImportInv, CompleteInv
    <3>3. troubles' \in 0 .. MaxFaults
      BY <2>1 DEF ImportInv, ImportTypes, RunTypes, ImportBounds
    <3> QED BY <2>1, <3>1, <3>2, <3>3
  <2>3. PlanTypes'
    <3>1. CASE plan' = plan /\ at' = at
      BY <2>1, <3>1 DEF ImportInv, ImportTypes, PlanTypes, Import!Phases, Recorded
    <3>2. CASE plan' = Import!NoPlan /\ at' = 0
      BY <2>1, <3>2 DEF ImportInv, ImportTypes, PlanTypes, Import!Phases, Import!NoPlan, Recorded
    <3> QED BY <2>1, <3>1, <3>2
  <2>4. ImportTypes' /\ Import!ReportIsTrue' /\ PlannedInv'
    BY <1>1, <2>1, <2>2, <2>3, Unrecorded
  <2>5. WayInv'
    BY <2>1 DEF ImportInv, WayInv, WholeFrom, Recorded
  <2>6. HistoriesInv'
    <3> SUFFICES ASSUME phase' = "cut", NEW e \in file.histories
                 PROVE  Rests(histories', logged', e) \/ e \in Pending'
      BY <2>1 DEF HistoriesInv, Recorded
    <3>1. Rests(histories, logged, e) \/ e \in Pending
      BY <2>1 DEF ImportInv, HistoriesInv
    <3>2. CASE phase = "cut"
      BY <1>1, <2>1, <3>1, <3>2 DEF Pending
    <3>3. CASE Import!StoreHistory
      <4>1. CASE e \in Import!InSection
        BY <3>3, <4>1 DEF Import!StoreHistory, Import!Logs, Rests
      <4>2. CASE e \in Pending \ Import!InSection
        <5>1. e.section \in {"updates", "activity"} /\ section \in {"updates", "activity"}
          BY <4>2 DEF ImportInv, ImportTypes, LogTypes, PlanTypes, Pending, ImportBounds, Import!Sections
        <5> QED BY <2>1, <3>3, <4>2, <5>1 DEF Import!StoreHistory, Pending, Import!InSection
      <4> QED BY <1>1, <3>1, <4>1, <4>2
    <3> QED BY <1>3, <3>2, <3>3 DEF Import!StopHistory, Import!HistoryRefused, Import!End,
                                    Import!CutHistory, Import!CutRefused
  <2>7. CompleteInv'
    BY <2>2 DEF CompleteInv
  <2> QED BY <2>4, <2>5, <2>6, <2>7 DEF ImportInv
<1> QED BY <1>2, <1>3

\* After a section comes the next, after the last the report.
LEMMA EndSectionInv ==
  ASSUME ImportBounds, ImportInv, Import!EndSection
  PROVE  ImportInv'
<1>1. /\ Recorded /\ phase = "cut" /\ UNCHANGED <<plan, at, histories, logged, cut, troubles>>
      /\ \/ section = "updates" /\ section' = "activity" /\ phase' = "history" /\ result' = result
         \/ /\ section # "updates" /\ section' = section /\ phase' = "finish"
            /\ result' = [result EXCEPT !.complete = TRUE]
  BY DEF Import!EndSection, Import!Complete, Import!told, Recorded
<1>2. /\ result \in [counted : SUBSET Ids, failed : BOOLEAN, cancelled : BOOLEAN, complete : BOOLEAN]
      /\ LogTypes /\ PlanTypes /\ troubles \in 0 .. MaxFaults
  BY DEF ImportInv, ImportTypes, RunTypes
<1>3. /\ result' \in [counted : SUBSET Ids, failed : BOOLEAN, cancelled : BOOLEAN, complete : BOOLEAN]
      /\ result'.counted = result.counted /\ troubles' \in 0 .. MaxFaults
  BY <1>1, <1>2
<1>4. LogTypes' /\ PlanTypes'
  BY <1>1, <1>2 DEF LogTypes, PlanTypes, Import!Sections, Import!Phases, Recorded
<1>5. ImportTypes' /\ Import!ReportIsTrue' /\ PlannedInv'
  BY <1>1, <1>3, <1>4, Unrecorded
<1>6. WayInv'
  BY <1>1 DEF ImportInv, WayInv, WholeFrom, Recorded
<1>7. HistoriesInv'
  BY <1>1 DEF ImportInv, HistoriesInv, Pending, Recorded
<1>8. Whole(file.records, policy, <<>>, library, touched, 0)
  <2>1. Whole(file.records, policy, plan.records, library, touched, Len(plan.records))
    BY <1>1 DEF ImportInv, WayInv, WholeFrom
  <2>2. Len(plan.records) \in Nat
    BY <1>2 DEF PlanTypes
  <2> QED BY <2>1, <2>2 DEF Whole
<1>9. CompleteInv'
  BY <1>1, <1>8 DEF ImportInv, HistoriesInv, CompleteInv, Pending, Recorded
<1> QED BY <1>5, <1>6, <1>7, <1>9 DEF ImportInv

\* A batch that is stored, or is not known to be.
LEMMA BatchInv ==
  ASSUME ImportBounds, ImportInv, Import!StoreBatch \/ Import!BatchRefused
  PROVE  ImportInv'
<1> DEFINE E == Import!Elements(Import!Batch)
<1>1. /\ Len(plan.records) \in Nat /\ at \in Nat /\ at < Len(plan.records)
      /\ Size \in 0 .. BatchSize /\ at + Size <= Len(plan.records) /\ Len(Import!Batch) = Size
      /\ E = {plan.records[i] : i \in at + 1 .. at + Size} /\ E \subseteq Ids
  BY BatchShape DEF Import!StoreBatch, Import!BatchRefused, ImportInv, ImportTypes, PlanTypes
<1>2. \A id \in E : file.records[id] # 0
  BY <1>1 DEF ImportInv, PlannedInv
<1>3. /\ phase = "records"
      /\ UNCHANGED <<file, policy, histories, section, cut, logged, plan, progress, afterClose, runs,
                     turns, touched>>
  BY DEF Import!StoreBatch, Import!BatchRefused, Import!log
<1>4. Size > 0
  BY <1>1 DEF Size, ImportBounds
<1> HIDE DEF E
<1>5. ASSUME NEW m \in Nat, m >= at, m <= at + Size, ~result.failed
      PROVE  Whole(file.records, policy, plan.records, Import!Stored(E), touched, m)
  <2>1. WholeFrom(at)
    BY <1>3, <1>5 DEF ImportInv, WayInv
  <2>2. \A i \in 1 .. Len(plan.records) : i > at /\ i <= m => plan.records[i] \in E
    BY <1>1, <1>5
  <2> QED BY <1>1, <1>2, <2>1, <2>2, StoredMeets DEF ImportInv
<1>6. Import!Stored(E) \in [Ids -> 0 .. MaxTime]
  BY <1>1, <1>2 DEF Import!Stored, ImportInv, ImportTypes, StoreTypes
<1>7. CASE Import!StoreBatch
  <2>1. /\ library' = Import!Stored(E) /\ written' = written \union E /\ at' = at + Size
        /\ result' = [result EXCEPT !.counted = @ \union E] /\ attempts' = 0
        /\ UNCHANGED <<phase, one, troubles, uncertain>>
    BY <1>1, <1>7 DEF Import!StoreBatch, Import!Count, E
  <2>2. /\ result' \in [counted : SUBSET Ids, failed : BOOLEAN, cancelled : BOOLEAN, complete : BOOLEAN]
        /\ result'.counted = result.counted \union E /\ result'.failed = result.failed
        /\ result'.complete = result.complete
    BY <1>1, <2>1 DEF ImportInv, ImportTypes, RunTypes
  <2>3. StoreTypes' /\ PlanTypes'
    <3>1. StoreTypes'
      BY <1>1, <1>3, <1>6, <2>1 DEF ImportInv, ImportTypes, StoreTypes
    <3>2. at + Size \in 0 .. Len(plan.records)
      BY <1>1, BatchSize \in Nat DEF ImportBounds
    <3>3. PlanTypes'
      BY <1>3, <2>1, <3>2 DEF ImportInv, ImportTypes, PlanTypes
    <3> QED BY <3>1, <3>3
  <2>4. RunTypes'
    BY <1>3, <2>1, <2>2 DEF ImportInv, ImportTypes, RunTypes, ImportBounds
  <2>5. Import!ReportIsTrue' /\ PlannedInv'
    BY <1>3, <2>1, <2>2 DEF ImportInv, Import!ReportIsTrue, PlannedInv
  <2>6. WayInv'
    BY <1>1, <1>3, <1>5, <2>1, <2>2 DEF WayInv, WholeFrom
  <2>7. HistoriesInv' /\ CompleteInv'
    BY <1>3, <2>1, <2>2 DEF ImportInv, HistoriesInv, CompleteInv, Pending
  <2> QED BY <1>3, <2>3, <2>4, <2>5, <2>6, <2>7 DEF ImportInv, ImportTypes, LogTypes
<1>8. CASE Import!BatchRefused
  <2>1. /\ UNCHANGED <<at, result>> /\ troubles' \in 0 .. MaxFaults /\ attempts' \in 0 .. Retries
        /\ \/ phase' = "records" /\ one' = one
           \/ phase' = "single" /\ one' = 0
    BY <1>3, <1>8 DEF Import!BatchRefused, Import!Fault, ImportBounds, ImportInv, ImportTypes, RunTypes
  <2>2. \/ UNCHANGED <<library, written, uncertain>>
        \/ /\ library' = Import!Stored(E) /\ written' = written \union E
           /\ uncertain' = uncertain \union E
    BY <1>8 DEF Import!BatchRefused, E
  <2>3. StoreTypes'
    BY <1>1, <1>3, <1>6, <2>2 DEF ImportInv, ImportTypes, StoreTypes
  <2>4. PlanTypes' /\ RunTypes'
    BY <1>3, <2>1 DEF ImportInv, ImportTypes, PlanTypes, RunTypes, ImportBounds, Import!Phases
  <2>5. Import!ReportIsTrue' /\ PlannedInv'
    BY <1>3, <2>1, <2>2 DEF ImportInv, Import!ReportIsTrue, PlannedInv
  <2>6. ~result.failed => Whole(file.records, policy, plan.records, library', touched, at)
    BY <1>1, <1>3, <1>5, <2>2 DEF ImportInv, WayInv, WholeFrom
  <2>7. Size' = Size
    BY <1>3, <2>1 DEF Size
  <2>8. WayInv'
    BY <1>1, <1>3, <1>4, <2>1, <2>6, <2>7 DEF WayInv, WholeFrom
  <2>9. HistoriesInv' /\ CompleteInv'
    BY <1>3, <2>1 DEF ImportInv, HistoriesInv, CompleteInv, Pending
  <2> QED BY <1>3, <2>3, <2>4, <2>5, <2>8, <2>9 DEF ImportInv, ImportTypes, LogTypes
<1> QED BY <1>7, <1>8

\* A record of a batch that is written alone.
LEMMA SingleInv ==
  ASSUME ImportBounds, ImportInv, Import!StoreOne \/ Import!OneRefused
  PROVE  ImportInv'
<1> DEFINE n == at + one + 1
           x == plan.records[n]
<1>1. /\ phase = "single" /\ one < Size /\ one \in Nat
      /\ UNCHANGED <<file, policy, histories, section, cut, logged, plan, attempts, progress,
                     afterClose, runs, turns, touched>>
  BY DEF Import!StoreOne, Import!OneRefused, Import!log, ImportInv, WayInv, ImportTypes, PlanTypes, ImportBounds
<1>2. /\ Len(plan.records) \in Nat /\ at \in Nat /\ Size \in 0 .. BatchSize
      /\ at + Size <= Len(plan.records) /\ Len(Import!Batch) = Size
      /\ n \in 1 .. Len(plan.records) /\ Import!Batch[one + 1] = x /\ x \in Ids
  <2>1. /\ Len(plan.records) \in Nat /\ at \in Nat /\ Size \in 0 .. BatchSize
        /\ at + Size <= Len(plan.records) /\ Len(Import!Batch) = Size
        /\ \A i \in 1 .. Size : Import!Batch[i] = plan.records[at + i] /\ plan.records[at + i] \in Ids
    BY BatchShape DEF ImportInv
  <2> HIDE DEF Size
  <2>2. one + 1 \in 1 .. Size /\ at + (one + 1) = n
    BY <1>1, <2>1, BatchSize \in Nat DEF ImportBounds
  <2> QED BY <2>1, <2>2
<1>3. file.records[x] # 0 /\ BatchSize \in Nat
  BY <1>2 DEF ImportInv, PlannedInv, ImportBounds
<1>4. Import!Stored({x}) \in [Ids -> 0 .. MaxTime]
  BY <1>2 DEF Import!Stored, ImportInv, ImportTypes, StoreTypes
<1>5. ~result.failed => Whole(file.records, policy, plan.records, Import!Stored({x}), touched, n)
  <2> SUFFICES ASSUME ~result.failed
               PROVE  Whole(file.records, policy, plan.records, Import!Stored({x}), touched, n)
    OBVIOUS
  <2>1. WholeFrom(at + one) /\ at + one \in Nat /\ n \in Nat
    BY <1>1, <1>2 DEF ImportInv, WayInv
  <2>2. \A i \in 1 .. Len(plan.records) : i > at + one /\ i <= n => plan.records[i] \in {x}
    BY <1>1, <1>2
  <2> HIDE DEF n, x
  <2> QED BY <1>2, <1>3, <2>1, <2>2, StoredMeets DEF ImportInv
<1> HIDE DEF x
<1>6. /\ at' \in 0 .. Len(plan.records) /\ one' \in 0 .. BatchSize
      /\ \/ at' = n /\ phase' = "records"
         \/ at' + one' = n /\ phase' = "single" /\ one' < Size /\ at' = at
  BY <1>1, <1>2, <1>3 DEF Import!StoreOne, Import!OneRefused, Import!PassOne, Import!Next1
<1>7. PlanTypes' /\ PlannedInv'
  BY <1>1, <1>6 DEF ImportInv, ImportTypes, PlanTypes, PlannedInv, Import!Phases
<1>8. HistoriesInv'
  BY <1>1, <1>6 DEF ImportInv, HistoriesInv, Pending
<1>9. at' = at => Size' = Size
  BY <1>1 DEF Size
<1>10. CASE Import!StoreOne
  <2>1. /\ library' = Import!Stored({x}) /\ written' = written \union {x}
        /\ result' = [result EXCEPT !.counted = @ \union {x}]
        /\ uncertain' = uncertain \ {x} /\ troubles' = troubles
    BY <1>2, <1>10 DEF Import!StoreOne, Import!Count, Import!Next1
  <2>2. /\ result' \in [counted : SUBSET Ids, failed : BOOLEAN, cancelled : BOOLEAN, complete : BOOLEAN]
        /\ result'.counted = result.counted \union {x} /\ result'.failed = result.failed
        /\ result'.complete = result.complete
    BY <1>2, <2>1 DEF ImportInv, ImportTypes, RunTypes
  <2>3. StoreTypes'
    BY <1>1, <1>2, <1>4, <2>1 DEF ImportInv, ImportTypes, StoreTypes
  <2>4. RunTypes'
    BY <1>1, <2>1, <2>2 DEF ImportInv, ImportTypes, RunTypes
  <2>5. Import!ReportIsTrue'
    BY <2>1, <2>2 DEF ImportInv, Import!ReportIsTrue
  <2>6. WayInv'
    BY <1>1, <1>5, <1>6, <1>9, <2>1, <2>2 DEF WayInv, WholeFrom
  <2>7. CompleteInv'
    BY <1>1, <2>2 DEF ImportInv, CompleteInv
  <2> QED BY <1>1, <1>7, <1>8, <2>3, <2>4, <2>5, <2>6, <2>7 DEF ImportInv, ImportTypes, LogTypes
<1>11. CASE Import!OneRefused
  <2>1. /\ result' = [result EXCEPT !.failed = TRUE] /\ troubles' \in 0 .. MaxFaults
        /\ \/ UNCHANGED <<library, written, uncertain>>
           \/ /\ library' = Import!Stored({x}) /\ written' = written \union {x}
              /\ uncertain' = uncertain \union {x}
    BY <1>2, <1>11 DEF Import!OneRefused, Import!Next1, Import!Fault, ImportInv, ImportTypes, RunTypes,
                       ImportBounds
  <2>2. /\ result' \in [counted : SUBSET Ids, failed : BOOLEAN, cancelled : BOOLEAN, complete : BOOLEAN]
        /\ result'.counted = result.counted /\ result'.failed /\ result'.complete = result.complete
    BY <2>1 DEF ImportInv, ImportTypes, RunTypes
  <2>3. StoreTypes'
    BY <1>1, <1>2, <1>4, <2>1 DEF ImportInv, ImportTypes, StoreTypes
  <2>4. RunTypes'
    BY <1>1, <2>1, <2>2 DEF ImportInv, ImportTypes, RunTypes
  <2>5. Import!ReportIsTrue'
    BY <2>1, <2>2 DEF ImportInv, Import!ReportIsTrue
  <2>6. WayInv'
    BY <1>1, <1>6, <1>9, <2>2 DEF WayInv
  <2>7. CompleteInv'
    BY <1>1, <2>2 DEF ImportInv, CompleteInv
  <2> QED BY <1>1, <1>7, <1>8, <2>3, <2>4, <2>5, <2>6, <2>7 DEF ImportInv, ImportTypes, LogTypes
<1> QED BY <1>10, <1>11

LEMMA ImportStep ==
  ASSUME ImportBounds, ImportInv, [Import!Next]_Import!vars
  PROVE  ImportInv'
<1>1. CASE UNCHANGED Import!vars
  <2>1. StoreTypes' /\ LogTypes' /\ PlanTypes' /\ RunTypes'
    BY <1>1 DEF Import!vars, ImportInv, ImportTypes, StoreTypes, LogTypes, PlanTypes, RunTypes
  <2>2. Import!ReportIsTrue' /\ PlannedInv' /\ WayInv'
    BY <1>1 DEF Import!vars, ImportInv, Import!ReportIsTrue, PlannedInv, WayInv, WholeFrom, Size
  <2>3. HistoriesInv' /\ CompleteInv'
    BY <1>1 DEF Import!vars, ImportInv, HistoriesInv, CompleteInv, Pending
  <2> QED BY <2>1, <2>2, <2>3 DEF ImportInv, ImportTypes
<1>2. CASE Import!Next
  BY <1>2, StepsThatWriteNothing, PreviewInv, OtherTabInv, HistoryInv, EndSectionInv, BatchInv, SingleInv
     DEF Import!Next
<1> QED BY <1>1, <1>2

LEMMA ImportSpecInv ==
  ASSUME ImportBounds
  PROVE  Import!Spec => []ImportInv
BY ImportInitially, ImportStep, PTL DEF Import!Spec

\* Whatever an import, its retries and cancels, and the other tabs do, the plan
\* of the import, the place it is at and its report are whole (importWorkflow.js).
THEOREM ImportTyped ==
  ASSUME ImportBounds
  PROVE  Import!Spec => []Import!TypeOK
<1>1. ImportInv => Import!TypeOK
  BY DEF ImportInv, ImportTypes, StoreTypes, LogTypes, PlanTypes, RunTypes, Import!TypeOK
<1> QED BY <1>1, ImportSpecInv, PTL

\* The report counts what was stored, through repeated batches, single writes
\* and cancels (importWorkflow.js).
THEOREM ReportTrue ==
  ASSUME ImportBounds
  PROVE  Import!Spec => []Import!ReportIsTrue
<1>1. ImportInv => Import!ReportIsTrue
  BY DEF ImportInv
<1> QED BY <1>1, ImportSpecInv, PTL

\* An import reported as complete has written every record of the file that the
\* policy admits, but for what another tab has written since its preview, and
\* every event of it that HistoryLimit newer ones have not pushed out: through
\* both sections and the cuts after them (service.js:443-475).
THEOREM CompleteWhole ==
  ASSUME ImportBounds
  PROVE  Import!Spec => []Import!CompleteIsWhole
<1>1. ASSUME ImportInv
      PROVE  Import!CompleteIsWhole
  <2> SUFFICES ASSUME result.complete
               PROVE  /\ \A id \in Ids \ touched : file.records[id] # 0 =>
                           CASE policy = "replace" -> library[id] = file.records[id]
                             [] policy = "newer" -> library[id] >= file.records[id]
                             [] OTHER -> library[id] # 0
                      /\ \A e \in file.histories : e \in histories \/ Import!Outdated(e)
    BY DEF Import!CompleteIsWhole
  <2>1. \A id \in Ids \ touched : file.records[id] # 0 => Met(file.records, policy, library, id)
    BY <1>1 DEF ImportInv, CompleteInv, Whole
  <2>2. policy \in {"skip", "newer", "replace"}
    BY <1>1 DEF ImportInv, ImportTypes, StoreTypes, Import!Policies
  <2>3. \A e \in file.histories : e \in histories \/ Import!Outdated(e)
    BY <1>1, SizeOfFile DEF ImportInv, CompleteInv, Rests, Import!Outdated
  <2> QED BY <2>1, <2>2, <2>3 DEF Met
<1> QED BY <1>1, ImportSpecInv, PTL
=============================================================================
