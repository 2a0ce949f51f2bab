---------------------------- MODULE AddonHost_proof ----------------------------
(* Theorems about the host of the add-ons, for any add-ons, any rate of    *)
(* registrations and any number of clicks, policies and removals.          *)
EXTENDS AddonHost, SequenceTheorems, TLAPS

Work(r) == IF Busy(r) THEN 1 ELSE 0
Load(r) == Len(r.queue) + Work(r)

\* What a runtime keeps: a teardown is the last command it takes, it begins
\* when no other is left, and after it nothing is.
BeforeTeardown(r) ==
  /\ r.active.kind # "teardown" /\ r.state \notin {"tearing-down", "terminated"}
  /\ \A i \in DOMAIN r.queue : r.queue[i].kind # "teardown"
Ordered(r) ==
  \A i \in DOMAIN r.queue : r.queue[i].kind = "teardown" => i = Len(r.queue)
InTeardown(r) ==
  r.active.part = 1 /\ r.queue = <<>> /\ ~r.on /\ r.mount = "none" /\ r.terminal
Silent(r) ==
  r.queue = <<>> /\ ~Busy(r) /\ ~r.bound /\ ~r.on /\ r.mount = "none" /\ r.terminal
RunInv(r) ==
  /\ r \in Runtimes
  /\ ~r.terminal => BeforeTeardown(r)
  /\ Ordered(r)
  /\ r.active.kind = "teardown" => InTeardown(r)
  /\ r.state = "tearing-down" => r.active.kind = "teardown"
  /\ r.state = "terminated" => Silent(r)
  /\ r.active.prev \notin {"tearing-down", "terminated"}
  /\ ~Busy(r) => r.active.part = 0
  /\ ~r.booted => ~r.bound /\ r.queue = <<>> /\ ~Busy(r) /\ r.state = "new" /\ ~r.terminal

\* Every command in a runtime is one of its start, of a click, of a removal
\* or of the shutdown.
Budget == (spent["click"] - Len(toggles)) + spent["removal"] + (IF down THEN 1 ELSE 0)
Commanded(a) == (IF rt[a].booted THEN 2 ELSE 0) + Budget

\* The types of the variables, except that the runtimes and their load are in
\* RunInv and LoadInv.
Types ==
  /\ rt \in [Addons -> Runtimes]
  /\ reg \in [Addons -> [at : BOOLEAN, on : BOOLEAN, blocked : BOOLEAN, dropped : BOOLEAN]]
  /\ desired \in [Addons -> {"unset", "on", "off"}]
  /\ allowed \in [Addons -> BOOLEAN] /\ held \in [Addons -> SUBSET {"ui", "watch"}]
  /\ td \in [Addons -> {"none", "live", "acked", "cancelled", "cleaned"}]
  /\ served \in [Addons -> 0..RegisterRate] /\ late \in [Addons -> BOOLEAN]
  /\ toggles \in Seq(Switches)
  /\ bridge \in BOOLEAN /\ off \in BOOLEAN /\ down \in BOOLEAN
  /\ spent \in [Events -> Nat]

Runs == \A a \in Addons : RunInv(rt[a])
Bounds ==
  /\ Len(toggles) <= spent["click"] /\ spent["click"] <= MaxClicks
  /\ spent["removal"] <= MaxRemovals
Loads == \A a \in Addons : Load(rt[a]) <= Commanded(a)

IInv ==
  Types /\ Runs /\ Bounds /\ Loads /\ NothingLeftBehind /\ DisabledHoldsNothing

-----------------------------
(* What a command does to a runtime.                                         *)

LEMMA OutdateKeeps ==
  ASSUME NEW r, RunInv(r)
  PROVE  /\ RunInv(Outdate(r)) /\ Load(Outdate(r)) = Load(r)
         /\ Outdate(r).booted = r.booted /\ Outdate(r).bound = r.bound
         /\ Outdate(r).terminal = r.terminal /\ Outdate(r).state = r.state
         /\ Outdate(r).active.kind = r.active.kind
  <1> DEFINE q == [i \in DOMAIN r.queue |-> [r.queue[i] EXCEPT !.fresh = FALSE]]
             s == Outdate(r)
  <1>1. r \in Runtimes /\ r.queue \in Seq(Entries) /\ r.active \in Operations
    BY DEF RunInv, Runtimes
  <1>2. q \in Seq(Entries) /\ Len(q) = Len(r.queue) /\ DOMAIN q = DOMAIN r.queue
    <2>1. PICK n \in Nat : r.queue \in [1..n -> Entries] /\ Len(r.queue) = n /\ DOMAIN r.queue = 1..n
      BY <1>1
    <2>2. \A i \in 1..n : [r.queue[i] EXCEPT !.fresh = FALSE] \in Entries
      BY <2>1 DEF Entries
    <2>3. q \in [1..n -> Entries] /\ DOMAIN q = 1..n
      BY <2>1, <2>2
    <2>. HIDE DEF q
    <2>. QED
      BY <2>1, <2>3
  <1>3. \A i \in DOMAIN r.queue : q[i].kind = r.queue[i].kind
    BY <1>1 DEF Entries
  <1>4. s = [r EXCEPT !.queue = q, !.active = [r.active EXCEPT !.fresh = FALSE],
                      !.mountFresh = FALSE]
    BY <1>1 DEF Outdate, Runtimes
  <1>5. /\ s.queue = q /\ s.booted = r.booted /\ s.bound = r.bound
        /\ s.terminal = r.terminal /\ s.state = r.state /\ s.on = r.on /\ s.mount = r.mount
        /\ s.active \in Operations /\ s.active.kind = r.active.kind
        /\ s.active.part = r.active.part /\ s.active.prev = r.active.prev
        /\ s \in Runtimes
    <2>1. [r.active EXCEPT !.fresh = FALSE] \in Operations
          /\ [r.active EXCEPT !.fresh = FALSE].kind = r.active.kind
          /\ [r.active EXCEPT !.fresh = FALSE].part = r.active.part
          /\ [r.active EXCEPT !.fresh = FALSE].prev = r.active.prev
      BY <1>1 DEF Operations
    <2>. HIDE DEF q, s
    <2>. QED
      BY <1>1, <1>2, <1>4, <2>1 DEF Runtimes
  <1>6. q = <<>> <=> r.queue = <<>>
    BY <1>1, <1>2
  <1>7. Busy(s) = Busy(r)
    BY <1>5 DEF Busy
  <1>8. RunInv(s)
    BY <1>2, <1>3, <1>5, <1>6, <1>7
       DEF RunInv, BeforeTeardown, Ordered, InTeardown, Silent
  <1>. QED
    BY <1>2, <1>5, <1>7, <1>8 DEF Load, Work

LEMMA OutdatedQueue ==
  ASSUME NEW r, RunInv(r)
  PROVE  \A i \in DOMAIN Outdate(r).queue :
           i \in DOMAIN r.queue /\ Outdate(r).queue[i].kind = r.queue[i].kind
  <1> DEFINE q == [i \in DOMAIN r.queue |-> [r.queue[i] EXCEPT !.fresh = FALSE]]
  <1>1. r \in Runtimes /\ r.queue \in Seq(Entries)
    BY DEF RunInv, Runtimes
  <1>2. Outdate(r).queue = q
    BY <1>1 DEF Outdate, Runtimes
  <1>3. \A i \in DOMAIN r.queue : q[i].kind = r.queue[i].kind
    BY <1>1 DEF Entries
  <1>. QED
    BY <1>2, <1>3

LEMMA AbortKeeps ==
  ASSUME NEW r, RunInv(r)
  PROVE  /\ RunInv(AbortActive(r)) /\ Load(AbortActive(r)) = Load(r)
         /\ AbortActive(r).booted = r.booted /\ AbortActive(r).bound = r.bound
         /\ AbortActive(r).terminal = r.terminal /\ AbortActive(r).state = r.state
         /\ AbortActive(r).active.kind = r.active.kind
  <1> DEFINE s == [r EXCEPT !.active.aborted = TRUE]
  <1>1. r \in Runtimes /\ r.active \in Operations
    BY DEF RunInv, Runtimes
  <1>2. /\ s \in Runtimes /\ s.queue = r.queue /\ s.booted = r.booted /\ s.bound = r.bound
        /\ s.terminal = r.terminal /\ s.state = r.state /\ s.on = r.on /\ s.mount = r.mount
        /\ s.active.kind = r.active.kind
        /\ s.active.part = r.active.part /\ s.active.prev = r.active.prev
    BY <1>1 DEF Runtimes, Operations
  <1> HIDE DEF s
  <1>3. Busy(s) = Busy(r)
    BY <1>2 DEF Busy
  <1>4. RunInv(s) /\ Load(s) = Load(r)
    BY <1>2, <1>3 DEF RunInv, BeforeTeardown, Ordered, InTeardown, Silent, Load, Work
  <1>. QED
    BY <1>2, <1>4 DEF AbortActive, s

\* A command that is taken is at the end of the queue.
Told(r, s) ==
  /\ RunInv(s) /\ Load(s) <= Load(r) + 1
  /\ s.booted = r.booted /\ s.bound = r.bound /\ s.active.kind = r.active.kind

Appended(r, kind) == [r EXCEPT !.queue = Append(@, [kind |-> kind, fresh |-> TRUE])]

LEMMA AppendKeeps ==
  ASSUME NEW r, RunInv(r), NEW kind \in Kinds, r.booted,
         kind # "teardown", ~r.terminal
  PROVE  Told(r, Appended(r, kind))
  <1> DEFINE e == [kind |-> kind, fresh |-> TRUE]
             q == Append(r.queue, e)
             s == Appended(r, kind)
  <1>1. r \in Runtimes /\ r.queue \in Seq(Entries) /\ r.active \in Operations
    BY DEF RunInv, Runtimes
  <1>2. e \in Entries /\ e.kind = kind
    BY DEF Entries
  <1>3. /\ q \in Seq(Entries) /\ Len(q) = Len(r.queue) + 1
        /\ \A i \in DOMAIN q : q[i] = IF i = Len(q) THEN e ELSE r.queue[i]
        /\ \A i \in DOMAIN q : i # Len(q) => i \in DOMAIN r.queue
    <2> HIDE DEF e
    <2>. QED
      BY <1>1, <1>2
  <1>4. /\ s \in Runtimes /\ s.queue = q /\ s.booted = r.booted /\ s.bound = r.bound
        /\ s.terminal = r.terminal /\ s.state = r.state /\ s.on = r.on /\ s.mount = r.mount
        /\ s.active = r.active
    <2> HIDE DEF q
    <2>1. s = [r EXCEPT !.queue = q]
      BY <1>1 DEF Appended, q, Runtimes
    <2>. HIDE DEF s
    <2>. QED
      BY <1>1, <1>3, <2>1 DEF Runtimes
  <1> HIDE DEF e, q, s
  <1>5. Busy(s) = Busy(r)
    BY <1>4 DEF Busy
  <1>6. BeforeTeardown(r)
    BY DEF RunInv
  <1>7. \A i \in DOMAIN q : q[i].kind # "teardown"
    BY <1>2, <1>3, <1>6 DEF BeforeTeardown
  <1>8. BeforeTeardown(s) /\ Ordered(s)
    BY <1>4, <1>6, <1>7 DEF BeforeTeardown, Ordered
  <1>9. RunInv(s)
    BY <1>4, <1>5, <1>6, <1>8 DEF RunInv, BeforeTeardown
  <1>10. Load(s) = Load(r) + 1
    <2>1. Work(s) = Work(r) /\ Work(r) \in Int
      BY <1>5 DEF Work
    <2>2. Len(r.queue) \in Int
      BY <1>1
    <2>. QED
      BY <1>3, <1>4, <2>1, <2>2 DEF Load
  <1>11. Load(r) \in Int
    BY <1>1 DEF Load, Work
  <1>. QED
    BY <1>4, <1>9, <1>10, <1>11 DEF Told, s

\* The teardown that ends a runtime.
LEMMA TeardownKeeps ==
  ASSUME NEW r, RunInv(r), r.booted, r.terminal, BeforeTeardown(r)
  PROVE  Told(r, Appended(r, "teardown"))
  <1> DEFINE e == [kind |-> "teardown", fresh |-> TRUE]
             q == Append(r.queue, e)
             s == Appended(r, "teardown")
  <1>1. r \in Runtimes /\ r.queue \in Seq(Entries) /\ r.active \in Operations
    BY DEF RunInv, Runtimes
  <1>2. e \in Entries
    BY DEF Entries, Kinds
  <1>3. /\ q \in Seq(Entries) /\ Len(q) = Len(r.queue) + 1
        /\ \A i \in DOMAIN q : i # Len(q) => i \in DOMAIN r.queue /\ q[i] = r.queue[i]
    <2> HIDE DEF e
    <2>. QED
      BY <1>1, <1>2
  <1>4. /\ s \in Runtimes /\ s.queue = q /\ s.booted = r.booted /\ s.bound = r.bound
        /\ s.terminal = r.terminal /\ s.state = r.state /\ s.on = r.on /\ s.mount = r.mount
        /\ s.active = r.active
    <2> HIDE DEF q
    <2>1. s = [r EXCEPT !.queue = q]
      BY <1>1 DEF Appended, q, Runtimes
    <2>. HIDE DEF s
    <2>. QED
      BY <1>1, <1>3, <2>1 DEF Runtimes
  <1> HIDE DEF e, q, s
  <1>5. Busy(s) = Busy(r)
    BY <1>4 DEF Busy
  <1>6. Ordered(s)
    BY <1>3, <1>4 DEF Ordered, BeforeTeardown
  <1>7. RunInv(s)
    BY <1>4, <1>5, <1>6 DEF RunInv, BeforeTeardown
  <1>8. Load(s) = Load(r) + 1
    <2>1. Work(s) = Work(r) /\ Work(r) \in Int
      BY <1>5 DEF Work
    <2>2. Len(r.queue) \in Int
      BY <1>1
    <2>. QED
      BY <1>3, <1>4, <2>1, <2>2 DEF Load
  <1>9. Load(r) \in Int
    BY <1>1 DEF Load, Work
  <1>10. Told(r, s)
    BY <1>4, <1>7, <1>8, <1>9 DEF Told
  <1>. QED
    BY <1>10 DEF s

LEMMA IssueKeeps ==
  ASSUME NEW r, RunInv(r), NEW kind \in Kinds, r.booted,
         kind # "teardown", ~r.terminal
  PROVE  Told(r, Issue(r, kind))
  <1> DEFINE s == IF ShouldAbortActive(r, kind) THEN AbortActive(r) ELSE r
  <1>1. /\ RunInv(s) /\ Load(s) = Load(r) /\ s.booted = r.booted /\ s.bound = r.bound
        /\ s.terminal = r.terminal /\ s.active.kind = r.active.kind
    BY AbortKeeps
  <1>2. Issue(r, kind) = Appended(Outdate(s), kind)
    BY DEF Issue, Appended
  <1> HIDE DEF s
  <1>3. PICK u : u = Outdate(s)
    OBVIOUS
  <1>4. /\ RunInv(u) /\ Load(u) = Load(s) /\ u.booted = s.booted /\ u.bound = s.bound
        /\ u.terminal = s.terminal /\ u.active.kind = s.active.kind
    BY <1>1, <1>3, OutdateKeeps
  <1>5. Told(u, Appended(u, kind))
    BY <1>1, <1>4, AppendKeeps
  <1>. QED
    BY <1>1, <1>2, <1>3, <1>4, <1>5 DEF Told

LEMMA TeardownTold ==
  ASSUME NEW r, RunInv(r), r.booted
  PROVE  Told(r, Teardown(r))
  <1>0. r \in Runtimes
    BY DEF RunInv
  <1>1. CASE r.terminal
    <2>1. Load(r) \in Int
      BY <1>0 DEF Load, Work, Runtimes
    <2>2. Told(r, r)
      BY <2>1 DEF Told
    <2>3. Teardown(r) = r
      BY <1>1 DEF Teardown
    <2>. QED
      BY <2>2, <2>3
  <1>2. CASE ~r.terminal
    <2>1. PICK u : u = AbortActive(Outdate(r))
      OBVIOUS
    <2>2. PICK o : o = Outdate(r)
      OBVIOUS
    <2>3. /\ RunInv(o) /\ Load(o) = Load(r) /\ o.booted = r.booted /\ o.bound = r.bound
          /\ o.terminal = r.terminal /\ o.active.kind = r.active.kind
      BY <2>2, OutdateKeeps
    <2>4. /\ RunInv(u) /\ Load(u) = Load(r) /\ u.booted = r.booted /\ u.bound = r.bound
          /\ u.terminal = r.terminal /\ u.active.kind = r.active.kind
      BY <2>1, <2>2, <2>3, AbortKeeps
    <2>5. BeforeTeardown(u)
      BY <1>2, <2>4 DEF RunInv
    <2>6. PICK v : v = [u EXCEPT !.terminal = TRUE]
      OBVIOUS
    <2>7. u \in Runtimes
      BY <2>4 DEF RunInv
    <2>8. /\ v \in Runtimes /\ v.queue = u.queue /\ v.booted = u.booted /\ v.bound = u.bound
          /\ v.terminal /\ v.state = u.state /\ v.on = u.on /\ v.mount = u.mount
          /\ v.active = u.active
      BY <2>6, <2>7 DEF Runtimes
    <2>9. RunInv(v) /\ BeforeTeardown(v) /\ Load(v) = Load(u)
      BY <2>4, <2>5, <2>8 DEF RunInv, BeforeTeardown, Ordered, Busy, Load, Work
    <2>10. PICK w : w = IF ShouldAbortActive(v, "teardown") THEN AbortActive(v) ELSE v
      OBVIOUS
    <2>11. /\ RunInv(w) /\ Load(w) = Load(v) /\ w.booted = v.booted /\ w.bound = v.bound
           /\ w.terminal = v.terminal /\ w.active.kind = v.active.kind /\ w.state = v.state
      BY <2>9, <2>10, AbortKeeps
    <2>12. w.queue = v.queue
      <3>1. v.queue = AbortActive(v).queue
        BY <2>8 DEF AbortActive, Runtimes
      <3>. QED
        BY <2>10, <3>1
    <2>13. BeforeTeardown(w)
      BY <2>9, <2>11, <2>12 DEF BeforeTeardown
    <2>14. PICK z : z = Outdate(w)
      OBVIOUS
    <2>15. /\ RunInv(z) /\ Load(z) = Load(w) /\ z.booted = w.booted /\ z.bound = w.bound
           /\ z.terminal = w.terminal /\ z.active.kind = w.active.kind /\ z.state = w.state
      BY <2>11, <2>14, OutdateKeeps
    <2>16. BeforeTeardown(z)
      <3>1. \A i \in DOMAIN z.queue : i \in DOMAIN w.queue /\ z.queue[i].kind = w.queue[i].kind
        BY <2>11, <2>14, OutdatedQueue
      <3>. QED
        BY <2>13, <2>15, <3>1 DEF BeforeTeardown
    <2>17. Told(z, Appended(z, "teardown"))
      BY <2>4, <2>8, <2>11, <2>15, <2>16, TeardownKeeps DEF BeforeTeardown
    <2>18. Teardown(r) = Appended(z, "teardown")
      BY <1>2, <2>1, <2>6, <2>10, <2>14 DEF Teardown, Issue, Appended
    <2>. QED
      BY <2>4, <2>8, <2>9, <2>11, <2>15, <2>17, <2>18 DEF Told
  <1>. QED
    BY <1>1, <1>2

LEMMA CommandTold ==
  ASSUME NEW r, RunInv(r), r.booted, NEW kind \in Kinds
  PROVE  Told(r, Command(r, kind))
  <1>1. Load(r) \in Int
    BY DEF Load, Work, RunInv, Runtimes
  <1>2. Told(r, r)
    BY <1>1 DEF Told
  <1>3. kind = "teardown" => Told(r, Command(r, kind))
    BY TeardownTold DEF Command
  <1>4. kind # "teardown" /\ ~r.terminal => Told(r, Issue(r, kind))
    BY IssueKeeps
  <1>. QED
    BY <1>2, <1>3, <1>4 DEF Command

LEMMA ReceiveTold ==
  ASSUME NEW r, RunInv(r), NEW kind \in Kinds
  PROVE  Told(r, Receive(r, kind))
  <1>1. Load(r) \in Int
    BY DEF Load, Work, RunInv, Runtimes
  <1>2. Told(r, r)
    BY <1>1 DEF Told
  <1>3. r.bound => r.booted
    BY DEF RunInv
  <1>. QED
    BY <1>2, <1>3, CommandTold DEF Receive

\* The runtime after the start of its next operation (BeginOp).
Begun(r) ==
  LET b == Begin(r)
  IN  IF b.active.kind \in {"disable", "teardown"}
      THEN [b EXCEPT !.on = FALSE, !.mount = "none"] ELSE b

Stays(r, s) == RunInv(s) /\ Load(s) <= Load(r) /\ s.booted = r.booted

LEMMA BeginKeeps ==
  ASSUME NEW r, RunInv(r), Startable(r)
  PROVE  Stays(r, Begun(r))
  <1> DEFINE e == Head(r.queue)
             q == Tail(r.queue)
             rest == [r EXCEPT !.queue = q]
             op == [kind |-> e.kind, fresh |-> e.fresh, aborted |-> FALSE,
                    prev |-> r.state, part |-> 1]
             s == [rest EXCEPT !.active = op, !.state = OperationState(e.kind)]
             drop == \/ r.terminal /\ e.kind # "teardown"
                     \/ e.kind = "refresh" /\ r.state # "enabled"
  <1>1. r \in Runtimes /\ r.queue \in Seq(Entries) /\ r.active \in Operations /\ r.queue # <<>>
    BY DEF RunInv, Runtimes, Startable
  <1>2. /\ e \in Entries /\ e = r.queue[1] /\ 1 \in DOMAIN r.queue
        /\ q \in Seq(Entries) /\ Len(q) = Len(r.queue) - 1 /\ Len(r.queue) \in Nat
        /\ \A i \in DOMAIN q : i \in Nat /\ i + 1 \in DOMAIN r.queue /\ q[i] = r.queue[i + 1]
        /\ Len(r.queue) = 1 => q = <<>>
    <2>1. Len(r.queue) \in Nat /\ Len(r.queue) > 0 /\ DOMAIN r.queue = 1..Len(r.queue)
      BY <1>1
    <2>2. e \in Entries /\ e = r.queue[1]
      BY <1>1
    <2>3. q \in Seq(Entries) /\ Len(q) = Len(r.queue) - 1 /\ DOMAIN q = 1..(Len(r.queue) - 1)
      BY <1>1
    <2>4. \A i \in 1..(Len(r.queue) - 1) : q[i] = r.queue[i + 1]
      BY <1>1
    <2> HIDE DEF e, q
    <2>5. \A i \in DOMAIN q : i \in Nat /\ i + 1 \in DOMAIN r.queue /\ q[i] = r.queue[i + 1]
      BY <2>1, <2>3, <2>4
    <2>6. Len(r.queue) = 1 => q = <<>>
      BY <2>1, <2>3
    <2>. QED
      BY <2>1, <2>2, <2>3, <2>5, <2>6
  <1>3. e.kind \in Kinds /\ e.fresh \in BOOLEAN
    BY <1>2 DEF Entries
  <1>4. ~Busy(r) /\ r.active.kind = "none" /\ r.state \notin {"tearing-down", "terminated"}
        /\ r.booted
    <2>1. ~Busy(r)
      BY DEF Startable
    <2>2. r.active.kind = "none"
      BY <2>1 DEF Busy
    <2>. QED
      BY <1>1, <2>1, <2>2 DEF RunInv, Silent
  <1>5. e.kind = "teardown" => r.terminal /\ q = <<>>
    BY <1>2 DEF RunInv, BeforeTeardown, Ordered
  <1>6. \A i \in DOMAIN q : q[i].kind = "teardown" => i = Len(q)
    BY <1>2 DEF RunInv, Ordered
  <1>7. ~r.terminal => \A i \in DOMAIN q : q[i].kind # "teardown"
    BY <1>2 DEF RunInv, BeforeTeardown
  <1>8. rest \in Runtimes /\ op \in Operations /\ OperationState(e.kind) \in States
    BY <1>1, <1>2, <1>3 DEF Runtimes, Operations, OperationState, States
  <1>9. /\ rest.queue = q /\ rest.active = r.active /\ rest.state = r.state
        /\ rest.terminal = r.terminal /\ rest.booted = r.booted /\ rest.bound = r.bound
        /\ rest.on = r.on /\ rest.mount = r.mount
    BY <1>1 DEF Runtimes
  <1>10. Begin(r) = IF drop THEN rest ELSE s
    BY DEF Begin
  <1>11. CASE drop
    <2>1. Busy(rest) <=> Busy(r)
      BY <1>9 DEF Busy
    <2>2. ~rest.terminal => BeforeTeardown(rest)
      BY <1>4, <1>7, <1>9 DEF BeforeTeardown
    <2>3. RunInv(rest)
      BY <1>1, <1>4, <1>6, <1>8, <1>9, <2>1, <2>2 DEF RunInv, Ordered
    <2>4. Load(rest) <= Load(r)
      <3>1. Work(rest) = 0 /\ Work(r) = 0
        BY <1>4, <2>1 DEF Work
      <3>2. Len(rest.queue) = Len(r.queue) - 1
        BY <1>2, <1>9
      <3>. QED
        BY <1>2, <3>1, <3>2 DEF Load
    <2>5. Begun(r) = rest
      BY <1>4, <1>9, <1>10, <1>11 DEF Begun
    <2>. QED
      BY <1>9, <2>3, <2>4, <2>5 DEF Stays
  <1>12. CASE ~drop
    <2> DEFINE t == IF e.kind \in {"disable", "teardown"}
                    THEN [s EXCEPT !.on = FALSE, !.mount = "none"] ELSE s
    <2>1. s \in Runtimes /\ s.active = op /\ op.kind = e.kind /\ op.part = 1 /\ op.prev = r.state
      BY <1>8 DEF Runtimes
    <2>2. /\ t \in Runtimes /\ t.queue = q /\ t.active = op /\ t.booted = r.booted
          /\ t.terminal = r.terminal /\ t.state = OperationState(e.kind)
          /\ e.kind = "teardown" => ~t.on /\ t.mount = "none"
      <3>1. /\ s.queue = q /\ s.booted = r.booted /\ s.terminal = r.terminal
            /\ s.state = OperationState(e.kind)
        BY <1>8, <1>9 DEF Runtimes
      <3> HIDE DEF s, op, rest, q, e, drop
      <3>2. CASE e.kind \in {"disable", "teardown"}
        <4>1. t = [s EXCEPT !.on = FALSE, !.mount = "none"]
          BY <3>2
        <4>. QED
          BY <2>1, <3>1, <4>1 DEF Runtimes
      <3>3. CASE e.kind \notin {"disable", "teardown"}
        BY <2>1, <3>1, <3>3
      <3>. QED
        BY <3>2, <3>3
    <2>3. Begun(r) = t
      BY <1>10, <1>12, <2>1 DEF Begun
    <2> HIDE DEF t, s, op, rest, q, e, drop
    <2>4. Busy(t) /\ t.active.kind = e.kind /\ t.active.part = 1 /\ t.active.prev = r.state
      BY <1>3, <2>1, <2>2 DEF Busy, Kinds
    <2>5. /\ t.state \in {"starting", "disabling", "refreshing", "tearing-down"}
          /\ t.state = "tearing-down" => e.kind = "teardown"
      BY <1>3, <2>2 DEF OperationState, Kinds
    <2>6. ~t.terminal => BeforeTeardown(t)
      BY <1>5, <1>7, <2>2, <2>4, <2>5 DEF BeforeTeardown
    <2>7. e.kind = "teardown" => InTeardown(t)
      BY <1>5, <2>2, <2>4 DEF InTeardown
    <2>8. RunInv(t)
      BY <1>4, <1>6, <2>2, <2>4, <2>5, <2>6, <2>7 DEF RunInv, Ordered
    <2>9. Load(t) <= Load(r)
      BY <1>2, <1>4, <2>2, <2>4 DEF Load, Work
    <2>. QED
      BY <2>2, <2>3, <2>8, <2>9 DEF Stays
  <1>. QED
    BY <1>11, <1>12

\* The end of an operation other than the teardown.
LEMMA SucceedKeeps ==
  ASSUME NEW r, RunInv(r), Busy(r), r.active.kind # "teardown"
  PROVE  Stays(r, Succeed(r)) /\ Load(Succeed(r)) <= Load(r) - 1
  <1> DEFINE s == [r EXCEPT !.state = StateAfter(r), !.active = Idle]
  <1>1. r \in Runtimes /\ r.queue \in Seq(Entries) /\ r.active \in Operations
    BY DEF RunInv, Runtimes
  <1>2. r.state \notin {"tearing-down", "terminated"}
        /\ r.active.prev \notin {"tearing-down", "terminated"} /\ r.booted
    BY DEF RunInv, Silent
  <1>3. StateAfter(r) \in States \ {"tearing-down", "terminated"}
    BY <1>1, <1>2 DEF StateAfter, States, Operations, Runtimes
  <1>4. Idle \in Operations /\ Idle.kind = "none" /\ Idle.part = 0 /\ Idle.prev = "new"
    BY DEF Idle, Operations, States
  <1>5. /\ s \in Runtimes /\ s.queue = r.queue /\ s.booted = r.booted
        /\ s.terminal = r.terminal /\ s.state = StateAfter(r) /\ s.active = Idle
    BY <1>1, <1>3, <1>4 DEF Runtimes
  <1> HIDE DEF s
  <1>6. ~Busy(s) /\ s.active.kind = "none" /\ s.active.part = 0 /\ s.active.prev = "new"
    BY <1>4, <1>5 DEF Busy
  <1>7. ~s.terminal => BeforeTeardown(s)
    BY <1>3, <1>5, <1>6 DEF RunInv, BeforeTeardown
  <1>8. RunInv(s)
    BY <1>2, <1>3, <1>5, <1>6, <1>7 DEF RunInv, Ordered
  <1>9. Load(s) <= Load(r) - 1 /\ Load(s) <= Load(r)
    BY <1>1, <1>5, <1>6 DEF Load, Work
  <1>10. Succeed(r) = s
    BY DEF Succeed, s
  <1>. QED
    BY <1>5, <1>8, <1>9, <1>10 DEF Stays

LEMMA ThrowKeeps ==
  ASSUME NEW r, RunInv(r), Busy(r), r.active.kind # "teardown"
  PROVE  Stays(r, Throw(r))
  <1> DEFINE st == IF r.active.aborted THEN r.state ELSE "failed"
             s == [r EXCEPT !.state = st, !.active = Idle]
  <1>1. r \in Runtimes /\ r.queue \in Seq(Entries) /\ r.active \in Operations
    BY DEF RunInv, Runtimes
  <1>2. r.state \notin {"tearing-down", "terminated"} /\ r.booted
    BY DEF RunInv, Silent
  <1>3. st \in States \ {"tearing-down", "terminated"}
    BY <1>1, <1>2 DEF States, Runtimes
  <1>4. Idle \in Operations /\ Idle.kind = "none" /\ Idle.part = 0 /\ Idle.prev = "new"
    BY DEF Idle, Operations, States
  <1> HIDE DEF st
  <1>5. /\ s \in Runtimes /\ s.queue = r.queue /\ s.booted = r.booted
        /\ s.terminal = r.terminal /\ s.state = st /\ s.active = Idle
    BY <1>1, <1>3, <1>4 DEF Runtimes
  <1> HIDE DEF s
  <1>6. ~Busy(s) /\ s.active.kind = "none" /\ s.active.part = 0 /\ s.active.prev = "new"
    BY <1>4, <1>5 DEF Busy
  <1>7. ~s.terminal => BeforeTeardown(s)
    BY <1>3, <1>5, <1>6 DEF RunInv, BeforeTeardown
  <1>8. RunInv(s)
    BY <1>2, <1>3, <1>5, <1>6, <1>7 DEF RunInv, Ordered
  <1>9. Load(s) <= Load(r)
    BY <1>1, <1>5, <1>6 DEF Load, Work
  <1>10. Throw(r) = s
    BY DEF Throw, s, st
  <1>. QED
    BY <1>5, <1>8, <1>9, <1>10 DEF Stays

\* The teardown is done and the listener unbound (TornDown).
LEMMA TerminatedKeeps ==
  ASSUME NEW r, RunInv(r), r.active.kind = "teardown"
  PROVE  Stays(r, [Succeed(r) EXCEPT !.bound = FALSE])
  <1> DEFINE s == [r EXCEPT !.state = "terminated", !.active = Idle]
             t == [s EXCEPT !.bound = FALSE]
  <1>1. r \in Runtimes /\ r.queue \in Seq(Entries) /\ r.active \in Operations
    BY DEF RunInv, Runtimes
  <1>2. InTeardown(r) /\ r.booted
    BY DEF RunInv, Busy
  <1>3. StateAfter(r) = "terminated"
    BY DEF StateAfter
  <1>4. Idle \in Operations /\ Idle.kind = "none" /\ Idle.part = 0 /\ Idle.prev = "new"
    BY DEF Idle, Operations, States
  <1>5. /\ t \in Runtimes /\ t.queue = r.queue /\ t.booted = r.booted /\ ~t.bound
        /\ t.terminal = r.terminal /\ t.state = "terminated" /\ t.active = Idle
        /\ t.on = r.on /\ t.mount = r.mount
    BY <1>1, <1>4 DEF Runtimes, States
  <1>6. [Succeed(r) EXCEPT !.bound = FALSE] = t
    BY <1>3 DEF Succeed
  <1> HIDE DEF s, t
  <1>7. ~Busy(t) /\ t.active.kind = "none" /\ t.active.part = 0 /\ t.active.prev = "new"
    BY <1>4, <1>5 DEF Busy
  <1>8. Silent(t)
    BY <1>2, <1>5, <1>7 DEF InTeardown, Silent
  <1>9. RunInv(t)
    BY <1>2, <1>5, <1>7, <1>8 DEF RunInv, Ordered, Silent
  <1>10. Load(t) <= Load(r)
    BY <1>1, <1>5, <1>7 DEF Load, Work
  <1>. QED
    BY <1>5, <1>6, <1>9, <1>10 DEF Stays

\* The interface that waits or is up changes (RequestMount, MountAnswered).
LEMMA MountKeeps ==
  ASSUME NEW r, RunInv(r), r.mount # "none", NEW m \in {"none", "requested", "up"}
  PROVE  Stays(r, [r EXCEPT !.mount = m])
  <1> DEFINE s == [r EXCEPT !.mount = m]
  <1>1. r \in Runtimes /\ r.active.kind # "teardown" /\ r.state # "terminated"
    BY DEF RunInv, InTeardown, Silent
  <1>2. /\ s \in Runtimes /\ s.queue = r.queue /\ s.booted = r.booted /\ s.bound = r.bound
        /\ s.terminal = r.terminal /\ s.state = r.state /\ s.active = r.active
    BY <1>1 DEF Runtimes
  <1> HIDE DEF s
  <1>3. Busy(s) <=> Busy(r)
    BY <1>2 DEF Busy
  <1>4. RunInv(s)
    BY <1>1, <1>2, <1>3 DEF RunInv, BeforeTeardown, Ordered
  <1>5. Load(s) = Load(r) /\ Load(r) \in Int
    BY <1>1, <1>2, <1>3 DEF Load, Work, Runtimes
  <1>6. Stays(r, s)
    BY <1>2, <1>4, <1>5 DEF Stays
  <1>. QED
    BY <1>6 DEF s

\* An operation goes on to its last part (Loaded, Removed).
LEMMA PartKeeps ==
  ASSUME NEW r, RunInv(r), r.active.kind \in {"enable", "refresh", "disable"},
         NEW on \in BOOLEAN, NEW m \in {"none", "wanted", "requested", "up"}
  PROVE  Stays(r, [r EXCEPT !.active.part = 2, !.on = on, !.mount = m])
  <1> DEFINE s == [r EXCEPT !.active.part = 2, !.on = on, !.mount = m]
  <1>1. r \in Runtimes /\ r.active \in Operations /\ r.active.kind # "teardown"
    BY DEF RunInv, Runtimes
  <1>2. Busy(r) /\ r.state # "terminated"
    BY DEF RunInv, Silent, Busy
  <1>3. /\ s \in Runtimes /\ s.queue = r.queue /\ s.booted = r.booted /\ s.bound = r.bound
        /\ s.terminal = r.terminal /\ s.state = r.state /\ s.active.kind = r.active.kind
        /\ s.active.prev = r.active.prev
    <2>1. PICK o : o = [r.active EXCEPT !.part = 2]
      OBVIOUS
    <2>2. o \in Operations /\ o.kind = r.active.kind /\ o.prev = r.active.prev
      BY <1>1, <2>1 DEF Operations
    <2>3. s = [r EXCEPT !.active = o, !.on = on, !.mount = m]
      BY <1>1, <2>1 DEF Runtimes
    <2> HIDE DEF s
    <2>. QED
      BY <1>1, <2>2, <2>3 DEF Runtimes
  <1> HIDE DEF s
  <1>4. Busy(s)
    BY <1>1, <1>2, <1>3 DEF Busy
  <1>5. RunInv(s)
    BY <1>1, <1>2, <1>3, <1>4 DEF RunInv, BeforeTeardown, Ordered
  <1>6. Load(s) = Load(r) /\ Load(r) \in Int
    BY <1>1, <1>2, <1>3, <1>4 DEF Load, Work, Runtimes
  <1>7. Stays(r, s)
    BY <1>3, <1>5, <1>6 DEF Stays
  <1>. QED
    BY <1>7 DEF s

-----------------------------
(* What a step does to all runtimes, and to what they hold.                  *)

Quieter == \A b \in Addons : Stays(rt[b], rt'[b])
Louder ==
  \A b \in Addons : /\ RunInv(rt'[b]) /\ Load(rt'[b]) <= Load(rt[b]) + 1
                     /\ rt'[b].booted = rt[b].booted

LEMMA LoadIsNat ==
  ASSUME NEW r, RunInv(r)
  PROVE  Load(r) \in Nat /\ Stays(r, r)
  <1>1. Load(r) \in Nat
    BY DEF RunInv, Runtimes, Load, Work
  <1>. QED
    BY <1>1 DEF Stays

LEMMA BudgetIsNat ==
  ASSUME Types, Bounds
  PROVE  Budget \in Nat
  <1>1. spent["click"] \in Nat /\ spent["removal"] \in Nat /\ Len(toggles) \in Nat
    BY DEF Types, Events
  <1>. QED
    BY <1>1 DEF Bounds, Budget

LEMMA NextBudgetIsNat ==
  ASSUME Types', Bounds'
  PROVE  Budget' \in Nat
  <1>1. spent'["click"] \in Nat /\ spent'["removal"] \in Nat /\ Len(toggles') \in Nat
    BY DEF Types, Events
  <1>. QED
    BY <1>1 DEF Bounds, Budget

LEMMA QuieterKeeps ==
  ASSUME IInv, Types', Bounds', Quieter, Budget' >= Budget
  PROVE  Runs' /\ Loads'
  <1>1. Budget \in Nat /\ Budget' \in Nat
    BY BudgetIsNat, NextBudgetIsNat DEF IInv
  <1>2. ASSUME NEW b \in Addons PROVE RunInv(rt'[b]) /\ Load(rt'[b]) <= Commanded(b)'
    <2>1. RunInv(rt[b]) /\ Load(rt[b]) <= Commanded(b) /\ Stays(rt[b], rt'[b])
      BY DEF IInv, Runs, Loads, Quieter
    <2>2. RunInv(rt'[b]) /\ Load(rt'[b]) <= Load(rt[b]) /\ rt'[b].booted = rt[b].booted
      BY <2>1 DEF Stays
    <2>3. Load(rt[b]) \in Nat /\ Load(rt'[b]) \in Nat
      BY <2>1, <2>2, LoadIsNat
    <2>. QED
      BY <1>1, <2>1, <2>2, <2>3 DEF Commanded
  <1>. QED
    BY <1>2 DEF Runs, Loads

LEMMA LouderKeeps ==
  ASSUME IInv, Types', Bounds', Louder, Budget' >= Budget + 1
  PROVE  Runs' /\ Loads'
  <1>1. Budget \in Nat /\ Budget' \in Nat
    BY BudgetIsNat, NextBudgetIsNat DEF IInv
  <1>2. ASSUME NEW b \in Addons PROVE RunInv(rt'[b]) /\ Load(rt'[b]) <= Commanded(b)'
    <2>1. RunInv(rt[b]) /\ Load(rt[b]) <= Commanded(b)
      BY DEF IInv, Runs, Loads
    <2>2. RunInv(rt'[b]) /\ Load(rt'[b]) <= Load(rt[b]) + 1 /\ rt'[b].booted = rt[b].booted
      BY DEF Louder
    <2>3. Load(rt[b]) \in Nat /\ Load(rt'[b]) \in Nat
      BY <2>1, <2>2, LoadIsNat
    <2>. QED
      BY <1>1, <2>1, <2>2, <2>3 DEF Commanded
  <1>. QED
    BY <1>2 DEF Runs, Loads

\* One runtime changes and the others do not.
LEMMA OneQuieter ==
  ASSUME IInv, NEW a \in Addons, NEW r, Stays(rt[a], r), rt' = [rt EXCEPT ![a] = r]
  PROVE  Quieter /\ rt' \in [Addons -> Runtimes]
  <1>1. rt \in [Addons -> Runtimes] /\ \A b \in Addons : RunInv(rt[b])
    BY DEF IInv, Types, Runs
  <1>2. r \in Runtimes
    BY DEF Stays, RunInv
  <1>3. \A b \in Addons : rt'[b] = IF b = a THEN r ELSE rt[b]
    BY <1>1
  <1>. QED
    BY <1>1, <1>2, <1>3, LoadIsNat DEF Quieter

LEMMA NoneLouder ==
  ASSUME IInv, UNCHANGED rt
  PROVE  Quieter
  BY LoadIsNat DEF IInv, Runs, Quieter

\* Nothing is added to what is held, and what accounts for it stays.
LEMMA HeldLess ==
  ASSUME IInv, UNCHANGED <<desired, late, td>>,
         \A b \in Addons : reg[b].at \/ reg[b].dropped => reg'[b].at \/ reg'[b].dropped,
         \A b \in Addons : held'[b] \subseteq held[b]
  PROVE  NothingLeftBehind' /\ DisabledHoldsNothing'
  <1>1. \A b \in Addons : held[b] = {} => held'[b] = {}
    OBVIOUS
  <1>. QED
    BY <1>1 DEF IInv, NothingLeftBehind, DisabledHoldsNothing

\* What is added is an enabled, registered add-on's.
LEMMA HeldMore ==
  ASSUME IInv, UNCHANGED <<desired, late, td>>, NEW a \in Addons, MayAct(a), reg'[a].at,
         \A b \in Addons : b # a => reg'[b] = reg[b],
         \A b \in Addons : b # a => held'[b] = held[b]
  PROVE  NothingLeftBehind' /\ DisabledHoldsNothing'
  <1>1. desired[a] # "off"
    BY DEF MayAct, EnabledInCore
  <1>. QED
    BY <1>1 DEF IInv, NothingLeftBehind, DisabledHoldsNothing

LEMMA SpendFacts ==
  ASSUME Types, NEW e \in Events, NEW max, Spend(e, max)
  PROVE  /\ spent' \in [Events -> Nat] /\ spent'[e] = spent[e] + 1 /\ spent[e] < max
         /\ \A d \in Events : d # e => spent'[d] = spent[d]
         /\ spent[e] \in Nat
  BY DEF Types, Spend

-----------------------------
(* The steps of an add-on.                                                   *)

LEMMA InitInv ==
  Init => IInv
  <1> SUFFICES ASSUME Init PROVE IInv
    OBVIOUS
  <1> USE BoundsAssumption DEF Init
  <1>1. Idle \in Operations /\ Idle.kind = "none" /\ Idle.part = 0 /\ Idle.prev = "new"
    BY DEF Idle, Operations, States
  <1>2. /\ NewRuntime \in Runtimes /\ NewRuntime.queue = <<>> /\ NewRuntime.active = Idle
        /\ NewRuntime.state = "new" /\ ~NewRuntime.terminal /\ ~NewRuntime.bound
        /\ ~NewRuntime.booted
    BY <1>1 DEF NewRuntime, Runtimes, States
  <1>3. ~Busy(NewRuntime)
    BY <1>1, <1>2 DEF Busy
  <1>4. RunInv(NewRuntime) /\ Load(NewRuntime) = 0
    BY <1>1, <1>2, <1>3 DEF RunInv, BeforeTeardown, Ordered, Load, Work
  <1>5. Types
    <2>1. rt \in [Addons -> Runtimes]
      BY <1>2
    <2>2. None \in [at : BOOLEAN, on : BOOLEAN, blocked : BOOLEAN, dropped : BOOLEAN]
      BY DEF None
    <2>3. reg \in [Addons -> [at : BOOLEAN, on : BOOLEAN, blocked : BOOLEAN, dropped : BOOLEAN]]
      BY <2>2
    <2>4. toggles \in Seq(Switches)
      OBVIOUS
    <2>5. spent \in [Events -> Nat]
      OBVIOUS
    <2>6. /\ held \in [Addons -> SUBSET {"ui", "watch"}] /\ served \in [Addons -> 0..RegisterRate]
          /\ td \in [Addons -> {"none", "live", "acked", "cancelled", "cleaned"}]
          /\ late \in [Addons -> BOOLEAN]
      OBVIOUS
    <2>. QED
      BY <2>1, <2>3, <2>4, <2>5, <2>6 DEF Types
  <1>6. Runs
    BY <1>4 DEF Runs
  <1>7. Bounds
    BY DEF Bounds, Events
  <1>8. Budget = 0
    BY DEF Budget, Events
  <1>9. Loads
    <2>1. \A b \in Addons : Commanded(b) = 0
      BY <1>2, <1>8 DEF Commanded
    <2>. QED
      BY <1>4, <2>1 DEF Loads
  <1>10. NothingLeftBehind /\ DisabledHoldsNothing
    BY DEF NothingLeftBehind, DisabledHoldsNothing
  <1>. QED
    BY <1>5, <1>6, <1>7, <1>9, <1>10 DEF IInv

LEMMA EntryType ==
  ASSUME Types, NEW a \in Addons, NEW st \in BOOLEAN
  PROVE  /\ EntryFor(a, st) \in [at : BOOLEAN, on : BOOLEAN, blocked : BOOLEAN, dropped : BOOLEAN]
         /\ EntryFor(a, st).at
  <1>1. (allowed[a] /\ IF desired[a] = "unset" THEN st ELSE desired[a] = "on") \in BOOLEAN
    BY DEF Types
  <1>2. (~allowed[a]) \in BOOLEAN
    BY DEF Types
  <1>. QED
    BY <1>1, <1>2 DEF EntryFor

LEMMA BootStep ==
  ASSUME IInv, NEW a \in Addons, Boot(a)
  PROVE  IInv'
  <1> USE BoundsAssumption
  <1> DEFINE r == [rt[a] EXCEPT !.booted = TRUE, !.bound = TRUE]
             e == EntryFor(a, TRUE)
             told == IF e.blocked THEN Receive(r, "disable") ELSE r
             k == IF e.blocked \/ ~EnabledInCore(a) THEN "disable" ELSE "enable"
             w == Command(told, k)
  <1>1. RunInv(rt[a]) /\ rt[a] \in Runtimes /\ ~rt[a].booted
    BY DEF Boot, IInv, Runs, RunInv
  <1>2. /\ r \in Runtimes /\ r.queue = <<>> /\ r.booted /\ r.bound /\ r.state = "new"
        /\ ~r.terminal /\ r.active = rt[a].active
    BY <1>1 DEF RunInv, Runtimes
  <1>3. ~Busy(r)
    BY <1>1, <1>2 DEF RunInv, Busy
  <1>4. RunInv(r) /\ Load(r) = 0
    BY <1>1, <1>2, <1>3 DEF RunInv, BeforeTeardown, Ordered, Load, Work
  <1>5. k \in Kinds /\ "disable" \in Kinds
    BY DEF Kinds
  <1>6. e \in [at : BOOLEAN, on : BOOLEAN, blocked : BOOLEAN, dropped : BOOLEAN] /\ e.at
    BY EntryType DEF IInv
  <1>7. rt' = [rt EXCEPT ![a] = w] /\ reg' = [reg EXCEPT ![a] = e] /\ served' = [served EXCEPT ![a] = 1]
        /\ UNCHANGED <<desired, allowed, held, td, toggles, late, bridge, off, down, spent>>
    BY DEF Boot
  <1> HIDE DEF r, e, k
  <1>8. RunInv(told) /\ Load(told) <= 1 /\ told.booted
    BY <1>2, <1>4, <1>5, ReceiveTold DEF Told
  <1> HIDE DEF told
  <1>9. RunInv(w) /\ Load(w) <= 2 /\ w.booted
    <2>1. Told(told, w)
      BY <1>5, <1>8, CommandTold
    <2>2. RunInv(w) /\ Load(w) <= Load(told) + 1 /\ w.booted
      BY <1>8, <2>1 DEF Told
    <2>. QED
      BY <1>8, <2>2, LoadIsNat
  <1> HIDE DEF w
  <1>10. w \in Runtimes
    BY <1>9 DEF RunInv
  <1>11. Types'
    BY <1>6, <1>7, <1>10 DEF IInv, Types
  <1>12. Bounds'
    BY <1>7 DEF IInv, Bounds
  <1>13. \A b \in Addons : rt'[b] = IF b = a THEN w ELSE rt[b]
    BY <1>7 DEF IInv, Types
  <1>14. Runs'
    BY <1>9, <1>13 DEF IInv, Runs
  <1>15. Budget' = Budget /\ Budget \in Nat
    BY <1>7, BudgetIsNat DEF IInv, Budget
  <1>16. Loads'
    <2>1. ASSUME NEW b \in Addons PROVE Load(rt'[b]) <= Commanded(b)'
      <3>1. CASE b = a
        BY <1>9, <1>13, <1>15, <3>1, LoadIsNat DEF Commanded
      <3>2. CASE b # a
        BY <1>13, <1>15, <3>2 DEF Commanded, IInv, Loads
      <3>. QED
        BY <3>1, <3>2
    <2>. QED
      BY <2>1 DEF Loads
  <1>17. NothingLeftBehind' /\ DisabledHoldsNothing'
    BY <1>6, <1>7 DEF IInv, Types, NothingLeftBehind, DisabledHoldsNothing
  <1>. QED
    BY <1>11, <1>12, <1>14, <1>16, <1>17 DEF IInv

LEMMA WindowPassesStep ==
  ASSUME IInv, NEW a \in Addons, WindowPasses(a)
  PROVE  IInv'
  <1> USE BoundsAssumption DEF WindowPasses
  <1>1. Types' /\ Bounds'
    BY DEF IInv, Types, Bounds
  <1>2. Quieter /\ Budget' >= Budget
    BY NoneLouder, BudgetIsNat DEF Budget, IInv
  <1>3. NothingLeftBehind' /\ DisabledHoldsNothing'
    BY HeldLess
  <1>. QED
    BY <1>1, <1>2, <1>3, QuieterKeeps DEF IInv

LEMMA RemovalLeaves ==
  ASSUME Types, NEW a \in Addons
  PROVE  /\ HeldAfterRemoval(a) \in [Addons -> SUBSET {"ui", "watch"}]
         /\ \A b \in Addons : HeldAfterRemoval(a)[b] \subseteq held[b]
  <1>1. [held EXCEPT ![a] = @ \ {"ui"}] \in [Addons -> SUBSET {"ui", "watch"}]
        /\ \A b \in Addons : [held EXCEPT ![a] = @ \ {"ui"}][b] \subseteq held[b]
    BY DEF Types
  <1>2. held \in [Addons -> SUBSET {"ui", "watch"}]
    BY DEF Types
  <1>. QED
    BY <1>1, <1>2 DEF HeldAfterRemoval

\* Most steps of an add-on change its runtime and take from what is held.
LEMMA PlainStep ==
  ASSUME IInv, NEW a \in Addons, NEW r, Stays(rt[a], r), rt' = [rt EXCEPT ![a] = r],
         UNCHANGED <<reg, desired, allowed, td, served, toggles, late, bridge, off, down, spent>>,
         held' \in [Addons -> SUBSET {"ui", "watch"}],
         \A b \in Addons : held'[b] \subseteq held[b]
  PROVE  IInv'
  <1>1. Quieter /\ rt' \in [Addons -> Runtimes]
    BY OneQuieter
  <1>2. Types' /\ Bounds'
    BY <1>1 DEF IInv, Types, Bounds
  <1>3. Budget' >= Budget
    BY BudgetIsNat DEF Budget, IInv
  <1>4. NothingLeftBehind' /\ DisabledHoldsNothing'
    BY HeldLess
  <1>5. Runs' /\ Loads'
    BY <1>1, <1>2, <1>3, QuieterKeeps
  <1>. QED
    BY <1>2, <1>4, <1>5 DEF IInv

LEMMA BeginOpStep ==
  ASSUME IInv, NEW a \in Addons, BeginOp(a)
  PROVE  IInv'
  <1>1. RunInv(rt[a]) /\ Startable(rt[a])
    BY DEF BeginOp, IInv, Runs
  <1>2. Stays(rt[a], Begun(rt[a]))
    BY <1>1, BeginKeeps
  <1>3. rt' = [rt EXCEPT ![a] = Begun(rt[a])]
    BY DEF BeginOp, Begun
  <1>4. held' = HeldAfterRemoval(a) \/ held' = held
    BY DEF BeginOp
  <1>5. held' \in [Addons -> SUBSET {"ui", "watch"}] /\ \A b \in Addons : held'[b] \subseteq held[b]
    BY <1>4, RemovalLeaves DEF IInv, Types
  <1>. QED
    BY <1>2, <1>3, <1>5, PlainStep DEF BeginOp

LEMMA LoadedStep ==
  ASSUME IInv, NEW a \in Addons, Loaded(a)
  PROVE  IInv'
  <1>1. RunInv(rt[a]) /\ rt[a] \in Runtimes
    BY DEF IInv, Runs, RunInv
  <1>2. rt[a].active.kind \in {"enable", "refresh"}
    BY DEF Loaded
  <1>3. Busy(rt[a])
    BY <1>2 DEF Busy
  <1>4. PICK r : r \in {[rt[a] EXCEPT !.active.part = 2, !.on = TRUE, !.mount = "none"],
                       Succeed(rt[a])} /\ rt' = [rt EXCEPT ![a] = r]
    BY DEF Loaded, IInv, Types
  <1>5. Stays(rt[a], r)
    <2>1. CASE r = Succeed(rt[a])
      BY <1>1, <1>2, <1>3, <2>1, SucceedKeeps
    <2>2. CASE r # Succeed(rt[a])
      <3>1. r = [rt[a] EXCEPT !.active.part = 2, !.on = TRUE, !.mount = "none"]
        BY <1>4, <2>2
      <3>. QED
        BY <1>1, <1>2, <3>1, PartKeeps
    <2>. QED
      BY <2>1, <2>2
  <1>6. held' = HeldAfterRemoval(a) \/ held' = held
    BY DEF Loaded
  <1>7. held' \in [Addons -> SUBSET {"ui", "watch"}] /\ \A b \in Addons : held'[b] \subseteq held[b]
    BY <1>6, RemovalLeaves DEF IInv, Types
  <1>. QED
    BY <1>4, <1>5, <1>7, PlainStep DEF Loaded

LEMMA RemovedStep ==
  ASSUME IInv, NEW a \in Addons, Removed(a)
  PROVE  IInv'
  <1>1. RunInv(rt[a]) /\ rt[a] \in Runtimes
    BY DEF IInv, Runs, RunInv
  <1>2. PICK r : r = [rt[a] EXCEPT !.active.part = 2, !.on = rt[a].on, !.mount = rt[a].mount]
    OBVIOUS
  <1>3. Stays(rt[a], r)
    BY <1>1, <1>2, PartKeeps DEF Removed, Runtimes
  <1>4. r = [rt[a] EXCEPT !.active.part = 2]
    BY <1>1, <1>2 DEF Runtimes
  <1>5. rt' = [rt EXCEPT ![a] = r]
    BY <1>4 DEF Removed, IInv, Types
  <1>. QED
    BY <1>3, <1>5, PlainStep DEF Removed, IInv, Types

LEMMA OpThrowsStep ==
  ASSUME IInv, NEW a \in Addons, OpThrows(a)
  PROVE  IInv'
  <1>1. RunInv(rt[a]) /\ Busy(rt[a]) /\ rt[a].active.kind # "teardown"
    BY DEF IInv, Runs, OpThrows
  <1>2. Stays(rt[a], Throw(rt[a]))
    BY <1>1, ThrowKeeps
  <1>3. rt' = [rt EXCEPT ![a] = Throw(rt[a])]
    BY DEF OpThrows
  <1>. QED
    BY <1>2, <1>3, PlainStep DEF OpThrows, IInv, Types

\* The status is published at the end of an operation: one command may arrive,
\* but the operation is over.
LEMMA PublishKeeps ==
  ASSUME IInv, NEW a \in Addons, NEW st \in BOOLEAN, NEW r, Stays(rt[a], r),
         Busy(r), r.active.kind # "teardown", Publish(a, st, r)
  PROVE  /\ Quieter /\ rt' \in [Addons -> Runtimes]
         /\ reg' \in [Addons -> [at : BOOLEAN, on : BOOLEAN, blocked : BOOLEAN, dropped : BOOLEAN]]
         /\ served' \in [Addons -> 0..RegisterRate]
         /\ \A b \in Addons : b # a => reg'[b] = reg[b]
         /\ reg[a].at => reg'[a].at
         /\ reg[a].dropped => reg'[a].at \/ reg'[a].dropped
  <1> USE BoundsAssumption
  <1> DEFINE e == EntryFor(a, st)
             t == IF e.blocked THEN Receive(r, "disable") ELSE r
  <1>0. e \in [at : BOOLEAN, on : BOOLEAN, blocked : BOOLEAN, dropped : BOOLEAN] /\ e.at
    BY EntryType DEF IInv
  <1>1. CASE Listening /\ WithinRate(a)
    <2>1. /\ reg' = [reg EXCEPT ![a] = e]
          /\ served' = [served EXCEPT ![a] = IF @ < RegisterRate THEN @ + 1 ELSE @]
          /\ rt' = [rt EXCEPT ![a] = Succeed(t)]
      BY <1>1 DEF Publish
    <2> HIDE DEF e
    <2>2. RunInv(t) /\ Load(t) <= Load(r) + 1 /\ t.booted = r.booted /\ t.active.kind = r.active.kind
      <3>1. RunInv(r)
        BY DEF Stays
      <3>2. Told(r, Receive(r, "disable")) /\ Load(r) \in Nat
        BY <3>1, ReceiveTold, LoadIsNat DEF Kinds
      <3>. QED
        BY <3>1, <3>2 DEF Told
    <2> HIDE DEF t
    <2>3. Busy(t) /\ t.active.kind # "teardown"
      BY <2>2 DEF Busy
    <2>4. Stays(rt[a], Succeed(t))
      <3>1. Stays(t, Succeed(t)) /\ Load(Succeed(t)) <= Load(t) - 1
        BY <2>2, <2>3, SucceedKeeps
      <3>2. Load(Succeed(t)) \in Nat /\ Load(t) \in Nat /\ Load(r) \in Nat /\ Load(rt[a]) \in Nat
        BY <2>2, <3>1, LoadIsNat DEF Stays, IInv, Runs
      <3>3. Load(Succeed(t)) <= Load(rt[a])
        BY <2>2, <3>1, <3>2 DEF Stays
      <3>. QED
        BY <2>2, <3>1, <3>3 DEF Stays
    <2>5. Quieter /\ rt' \in [Addons -> Runtimes]
      BY <2>1, <2>4, OneQuieter
    <2>. QED
      BY <1>0, <2>1, <2>5 DEF IInv, Types
  <1>2. CASE ~(Listening /\ WithinRate(a))
    <2>1. /\ reg' = [reg EXCEPT ![a].on = IF Listening /\ reg[a].at THEN st ELSE @]
          /\ rt' = [rt EXCEPT ![a] = Succeed(r)] /\ served' = served
      BY <1>2 DEF Publish
    <2>2. Stays(rt[a], Succeed(r))
      <3>1. RunInv(r)
        BY DEF Stays
      <3>2. Stays(r, Succeed(r))
        BY <3>1, SucceedKeeps
      <3>3. Load(Succeed(r)) \in Nat /\ Load(r) \in Nat /\ Load(rt[a]) \in Nat
        BY <3>1, <3>2, LoadIsNat DEF Stays, IInv, Runs
      <3>. QED
        BY <3>2, <3>3 DEF Stays
    <2>3. Quieter /\ rt' \in [Addons -> Runtimes]
      BY <2>1, <2>2, OneQuieter
    <2>4. /\ reg \in [Addons -> [at : BOOLEAN, on : BOOLEAN, blocked : BOOLEAN, dropped : BOOLEAN]]
          /\ served' \in [Addons -> 0..RegisterRate]
      BY <2>1 DEF IInv, Types
    <2>5. PICK v \in BOOLEAN : v = IF Listening /\ reg[a].at THEN st ELSE reg[a].on
      <3>1. CASE Listening /\ reg[a].at
        BY <3>1
      <3>2. CASE ~(Listening /\ reg[a].at)
        BY <2>4, <3>2
      <3>. QED
        BY <3>1, <3>2
    <2>6. reg' = [reg EXCEPT ![a] = [reg[a] EXCEPT !.on = v]]
      BY <2>1, <2>4, <2>5
    <2>7. /\ [reg[a] EXCEPT !.on = v] \in [at : BOOLEAN, on : BOOLEAN, blocked : BOOLEAN, dropped : BOOLEAN]
          /\ [reg[a] EXCEPT !.on = v].at = reg[a].at
          /\ [reg[a] EXCEPT !.on = v].dropped = reg[a].dropped
      BY <2>4, <2>5
    <2>8. /\ reg' \in [Addons -> [at : BOOLEAN, on : BOOLEAN, blocked : BOOLEAN, dropped : BOOLEAN]]
          /\ \A b \in Addons : b # a => reg'[b] = reg[b]
          /\ reg'[a].at = reg[a].at /\ reg'[a].dropped = reg[a].dropped
      BY <2>4, <2>6, <2>7
    <2>. QED
      BY <2>3, <2>4, <2>8
  <1>. QED
    BY <1>1, <1>2

LEMMA CompletedStep ==
  ASSUME IInv, NEW a \in Addons, Completed(a)
  PROVE  IInv'
  <1> DEFINE starts == rt[a].active.kind \in {"enable", "refresh"}
             r == IF starts THEN [rt[a] EXCEPT !.mount = "wanted", !.mountFresh = IsCurrent(rt[a])]
                  ELSE rt[a]
             more == starts /\ MayAct(a)
  <1>1. RunInv(rt[a]) /\ rt[a] \in Runtimes /\ rt[a].active.part = 2
    BY DEF IInv, Runs, RunInv, Completed
  <1>2. Busy(rt[a]) /\ rt[a].active.kind # "teardown" /\ rt[a].state # "terminated"
    BY <1>1 DEF RunInv, InTeardown, Silent
  <1>3. Stays(rt[a], r) /\ r.active = rt[a].active
    <2>1. CASE ~starts
      BY <1>1, <2>1, LoadIsNat
    <2>2. CASE starts
      <3> DEFINE f == IsCurrent(rt[a])
                 s == [rt[a] EXCEPT !.mount = "wanted", !.mountFresh = f]
      <3>1. f \in BOOLEAN
        BY <1>1 DEF IsCurrent, Runtimes, Operations
      <3> HIDE DEF f
      <3>2. /\ s \in Runtimes /\ s.queue = rt[a].queue /\ s.booted = rt[a].booted
            /\ s.bound = rt[a].bound /\ s.terminal = rt[a].terminal
            /\ s.state = rt[a].state /\ s.active = rt[a].active
        BY <1>1, <3>1 DEF Runtimes
      <3>3. r = s
        BY <2>2 DEF f
      <3> HIDE DEF s, r
      <3>4. Busy(s)
        BY <1>2, <3>2 DEF Busy
      <3>5. RunInv(s)
        BY <1>1, <1>2, <3>2, <3>4 DEF RunInv, BeforeTeardown, Ordered
      <3>6. Load(s) = Load(rt[a]) /\ Load(rt[a]) \in Nat
        BY <1>1, <1>2, <3>2, <3>4, LoadIsNat DEF Load, Work
      <3>. QED
        BY <3>2, <3>3, <3>5, <3>6 DEF Stays
    <2>. QED
      BY <2>1, <2>2
  <1>4. Publish(a, starts, r)
    BY DEF Completed
  <1>5. held' = IF more THEN [held EXCEPT ![a] = @ \union {"watch"}] ELSE held
    BY DEF Completed
  <1>6. UNCHANGED <<desired, allowed, td, toggles, late, bridge, off, down, spent>>
    BY DEF Completed
  <1>7. starts \in BOOLEAN
    OBVIOUS
  <1> HIDE DEF r, starts
  <1>8. Busy(r) /\ r.active.kind # "teardown"
    BY <1>2, <1>3 DEF Busy
  <1>9. /\ Quieter /\ rt' \in [Addons -> Runtimes]
        /\ reg' \in [Addons -> [at : BOOLEAN, on : BOOLEAN, blocked : BOOLEAN, dropped : BOOLEAN]]
        /\ served' \in [Addons -> 0..RegisterRate]
        /\ \A b \in Addons : b # a => reg'[b] = reg[b]
        /\ reg[a].at => reg'[a].at
        /\ reg[a].dropped => reg'[a].at \/ reg'[a].dropped
    BY <1>3, <1>4, <1>7, <1>8, PublishKeeps
  <1>10. held' \in [Addons -> SUBSET {"ui", "watch"}]
         /\ \A b \in Addons : b # a => held'[b] = held[b]
    BY <1>5 DEF IInv, Types
  <1>11. Types' /\ Bounds'
    BY <1>6, <1>9, <1>10 DEF IInv, Types, Bounds
  <1>12. Runs' /\ Loads'
    BY <1>6, <1>9, <1>11, QuieterKeeps, BudgetIsNat DEF IInv, Budget
  <1>13. NothingLeftBehind' /\ DisabledHoldsNothing'
    <2>1. CASE more
      <3>1. MayAct(a) /\ reg[a].at
        BY <2>1 DEF MayAct
      <3>. QED
        BY <1>6, <1>9, <1>10, <3>1, HeldMore
    <2>2. CASE ~more
      <3>1. held' = held
        BY <1>5, <2>2
      <3>. QED
        BY <1>6, <1>9, <3>1, HeldLess
    <2>. QED
      BY <2>1, <2>2
  <1>. QED
    BY <1>11, <1>12, <1>13 DEF IInv

LEMMA RequestMountStep ==
  ASSUME IInv, NEW a \in Addons, RequestMount(a)
  PROVE  IInv'
  <1>1. RunInv(rt[a]) /\ rt[a] \in Runtimes /\ rt[a].mount # "none"
    BY DEF IInv, Runs, RunInv, RequestMount
  <1>2. PICK m \in {"none", "requested", "up"} : rt' = [rt EXCEPT ![a].mount = m]
    BY DEF RequestMount
  <1>3. PICK r : r = [rt[a] EXCEPT !.mount = m]
    OBVIOUS
  <1>4. Stays(rt[a], r) /\ rt' = [rt EXCEPT ![a] = r]
    BY <1>1, <1>2, <1>3, MountKeeps DEF IInv, Types
  <1>5. CASE MayAct(a) /\ rt[a].mountFresh
    <2>1. held' = [held EXCEPT ![a] = @ \union {"ui"}] /\ reg[a].at
          /\ UNCHANGED <<reg, desired, allowed, td, served, toggles, late, bridge, off, down, spent>>
      BY <1>5 DEF RequestMount, MayAct
    <2>2. Quieter /\ rt' \in [Addons -> Runtimes]
      BY <1>4, OneQuieter
    <2>3. Types' /\ Bounds'
      BY <2>1, <2>2 DEF IInv, Types, Bounds
    <2>4. Runs' /\ Loads'
      BY <2>1, <2>2, <2>3, QuieterKeeps, BudgetIsNat DEF IInv, Budget
    <2>5. \A b \in Addons : b # a => held'[b] = held[b]
      BY <2>1 DEF IInv, Types
    <2>6. NothingLeftBehind' /\ DisabledHoldsNothing'
      BY <1>5, <2>1, <2>5, HeldMore
    <2>. QED
      BY <2>3, <2>4, <2>6 DEF IInv
  <1>6. CASE ~(MayAct(a) /\ rt[a].mountFresh)
    <2>1. held' = held
          /\ UNCHANGED <<reg, desired, allowed, td, served, toggles, late, bridge, off, down, spent>>
      BY <1>6 DEF RequestMount
    <2>. QED
      BY <1>4, <2>1, PlainStep DEF IInv, Types
  <1>. QED
    BY <1>5, <1>6

LEMMA MountAnsweredStep ==
  ASSUME IInv, NEW a \in Addons, MountAnswered(a)
  PROVE  IInv'
  <1>1. RunInv(rt[a]) /\ rt[a] \in Runtimes /\ rt[a].mount # "none"
    BY DEF IInv, Runs, RunInv, MountAnswered
  <1>2. PICK m \in {"none", "requested", "up"} : rt' = [rt EXCEPT ![a].mount = m]
    BY DEF MountAnswered
  <1>3. PICK r : r = [rt[a] EXCEPT !.mount = m]
    OBVIOUS
  <1>4. Stays(rt[a], r) /\ rt' = [rt EXCEPT ![a] = r]
    BY <1>1, <1>2, <1>3, MountKeeps DEF IInv, Types
  <1>5. held' = HeldAfterRemoval(a) \/ held' = held
    BY DEF MountAnswered
  <1>6. held' \in [Addons -> SUBSET {"ui", "watch"}] /\ \A b \in Addons : held'[b] \subseteq held[b]
    BY <1>5, RemovalLeaves DEF IInv, Types
  <1>. QED
    BY <1>4, <1>6, PlainStep DEF MountAnswered

\* A teardown that is acknowledged or overdue: nothing is held any more.
LEMMA ClearedStep ==
  ASSUME IInv, NEW a \in Addons, NEW r, Stays(rt[a], r), rt' = [rt EXCEPT ![a] = r],
         NEW mark \in {"acked", "cleaned"},
         UNCHANGED <<reg, desired, allowed, served, toggles, late, bridge, off, down, spent>>,
         td' = [td EXCEPT ![a] = mark], held' = Cleaned(a)
  PROVE  IInv'
  <1>1. Quieter /\ rt' \in [Addons -> Runtimes]
    BY OneQuieter
  <1>2. held' \in [Addons -> SUBSET {"ui", "watch"}] /\ held'[a] = {}
        /\ \A b \in Addons : b # a => held'[b] = held[b] /\ td'[b] = td[b]
    BY DEF IInv, Types, Cleaned
  <1>3. Types' /\ Bounds'
    BY <1>1, <1>2 DEF IInv, Types, Bounds
  <1>4. Runs' /\ Loads'
    BY <1>1, <1>3, QuieterKeeps, BudgetIsNat DEF IInv, Budget
  <1>5. NothingLeftBehind' /\ DisabledHoldsNothing'
    BY <1>2 DEF IInv, NothingLeftBehind, DisabledHoldsNothing
  <1>. QED
    BY <1>3, <1>4, <1>5 DEF IInv

LEMMA TornDownStep ==
  ASSUME IInv, NEW a \in Addons, TornDown(a)
  PROVE  IInv'
  <1>1. RunInv(rt[a]) /\ rt[a].active.kind = "teardown"
    BY DEF IInv, Runs, TornDown
  <1>2. PICK r : r = [Succeed(rt[a]) EXCEPT !.bound = FALSE]
    OBVIOUS
  <1>3. Stays(rt[a], r) /\ rt' = [rt EXCEPT ![a] = r]
    BY <1>1, <1>2, TerminatedKeeps DEF TornDown
  <1>4. CASE bridge /\ td[a] = "live"
    BY <1>3, <1>4, ClearedStep DEF TornDown
  <1>5. CASE ~(bridge /\ td[a] = "live")
    BY <1>3, <1>5, PlainStep DEF TornDown, IInv, Types
  <1>. QED
    BY <1>4, <1>5

LEMMA WatchdogFiresStep ==
  ASSUME IInv, NEW a \in Addons, WatchdogFires(a)
  PROVE  IInv'
  <1>1. Stays(rt[a], rt[a])
    BY LoadIsNat DEF IInv, Runs
  <1>2. rt' = [rt EXCEPT ![a] = rt[a]]
    BY DEF WatchdogFires, IInv, Types
  <1>. QED
    BY <1>1, <1>2, ClearedStep DEF WatchdogFires

-----------------------------
(* The user's switch and the settings.                                       *)

\* One command for one add-on, of which the others see nothing.
LEMMA OneTold ==
  ASSUME IInv, NEW a \in Addons, NEW kind \in Kinds,
         rt' = [rt EXCEPT ![a] = Receive(@, kind)]
  PROVE  Louder /\ rt' \in [Addons -> Runtimes]
  <1>1. rt \in [Addons -> Runtimes] /\ \A b \in Addons : RunInv(rt[b])
    BY DEF IInv, Types, Runs
  <1>2. PICK r : r = Receive(rt[a], kind)
    OBVIOUS
  <1>3. RunInv(r) /\ Load(r) <= Load(rt[a]) + 1 /\ r.booted = rt[a].booted
    BY <1>1, <1>2, ReceiveTold DEF Told
  <1>4. \A b \in Addons : rt'[b] = IF b = a THEN r ELSE rt[b]
    BY <1>1, <1>2
  <1>5. \A b \in Addons : Load(rt[b]) \in Nat
    BY <1>1, LoadIsNat
  <1>6. r \in Runtimes /\ rt' = [rt EXCEPT ![a] = r]
    BY <1>2, <1>3 DEF RunInv
  <1>. QED
    BY <1>1, <1>3, <1>4, <1>5, <1>6 DEF Louder

LEMMA SwitchFacts ==
  ASSUME Types, toggles # <<>>
  PROVE  /\ Head(toggles) \in Switches /\ Tail(toggles) \in Seq(Switches)
         /\ Len(Tail(toggles)) = Len(toggles) - 1 /\ Len(toggles) \in Nat
         /\ Len(toggles) >= 1
  <1>1. toggles \in Seq(Switches)
    BY DEF Types
  <1>2. Len(toggles) \in Nat /\ Len(toggles) >= 1
    BY <1>1
  <1>. QED
    BY <1>1, <1>2

LEMMA ToggleStep ==
  ASSUME IInv, NEW a \in Addons, Toggle(a)
  PROVE  IInv'
  <1> USE BoundsAssumption
  <1>1. Spend("click", MaxClicks)
        /\ UNCHANGED <<rt, reg, desired, allowed, held, td, served, late, bridge, off, down>>
    BY DEF Toggle
  <1>2. PICK want \in {"on", "off"} :
          toggles' = Append(toggles, [addon |-> a, want |-> want, deferred |-> ~reg[a].at])
    BY DEF Toggle
  <1>3. [addon |-> a, want |-> want, deferred |-> ~reg[a].at] \in Switches
    BY DEF IInv, Types, Switches
  <1>4. toggles \in Seq(Switches) /\ Len(toggles) \in Nat
    BY DEF IInv, Types
  <1>5. toggles' \in Seq(Switches) /\ Len(toggles') = Len(toggles) + 1
    BY <1>2, <1>3, <1>4
  <1>6. /\ spent' \in [Events -> Nat] /\ spent'["click"] = spent["click"] + 1
        /\ spent["click"] < MaxClicks /\ spent'["removal"] = spent["removal"]
        /\ spent["click"] \in Nat /\ spent["removal"] \in Nat
    BY <1>1, SpendFacts DEF Events, IInv, Types
  <1>7. Types'
    BY <1>1, <1>5, <1>6 DEF IInv, Types
  <1>8. Bounds'
    BY <1>4, <1>5, <1>6 DEF IInv, Bounds
  <1>9. Budget' = Budget /\ Budget \in Nat
    BY <1>1, <1>4, <1>5, <1>6, BudgetIsNat DEF IInv, Budget
  <1>10. Runs' /\ Loads'
    BY <1>1, <1>7, <1>8, <1>9, NoneLouder, QuieterKeeps
  <1>11. NothingLeftBehind' /\ DisabledHoldsNothing'
    BY <1>1, HeldLess
  <1>. QED
    BY <1>7, <1>8, <1>10, <1>11 DEF IInv

LEMMA ToggleFailsStep ==
  ASSUME IInv, ToggleFails
  PROVE  IInv'
  <1>1. /\ UNCHANGED <<rt, reg, desired, allowed, held, td, served, late, bridge, off, down, spent>>
        /\ toggles' = Tail(toggles) /\ toggles # <<>>
    BY DEF ToggleFails
  <1>2. toggles' \in Seq(Switches) /\ Len(toggles') = Len(toggles) - 1 /\ Len(toggles) \in Nat
    BY <1>1, SwitchFacts DEF IInv
  <1>3. Types' /\ Bounds'
    BY <1>1, <1>2 DEF IInv, Types, Bounds, Events
  <1>4. spent["click"] \in Nat /\ spent["removal"] \in Nat
    BY DEF IInv, Types, Events
  <1>5. Budget' >= Budget
    BY <1>1, <1>2, <1>4 DEF Budget
  <1>6. Runs' /\ Loads'
    BY <1>1, <1>3, <1>5, NoneLouder, QuieterKeeps
  <1>7. NothingLeftBehind' /\ DisabledHoldsNothing'
    BY <1>1, HeldLess
  <1>. QED
    BY <1>3, <1>6, <1>7 DEF IInv

LEMMA ToggleStoredStep ==
  ASSUME IInv, ToggleStored
  PROVE  IInv'
  <1> DEFINE t == Head(toggles)
             a == t.addon
             on == t.want = "on"
  <1>1. /\ toggles # <<>> /\ toggles' = Tail(toggles) /\ desired' = [desired EXCEPT ![a] = t.want]
        /\ UNCHANGED <<allowed, served, bridge, off, down, spent>>
    BY DEF ToggleStored
  <1>2. /\ t \in Switches /\ toggles' \in Seq(Switches) /\ Len(toggles) \in Nat
        /\ Len(toggles') = Len(toggles) - 1
    BY <1>1, SwitchFacts DEF IInv
  <1>3. a \in Addons /\ t.want \in {"on", "off"} /\ t.deferred \in BOOLEAN
    BY <1>2 DEF Switches
  <1>4. spent["click"] \in Nat /\ spent["removal"] \in Nat
    BY DEF IInv, Types, Events
  <1>5. Bounds' /\ Budget' = Budget + 1
    BY <1>1, <1>2, <1>4 DEF IInv, Bounds, Budget
  <1>6. desired' \in [Addons -> {"unset", "on", "off"}]
        /\ \A b \in Addons : desired'[b] = IF b = a THEN t.want ELSE desired[b]
    BY <1>1, <1>3 DEF IInv, Types
  <1>7. CASE t.deferred
    <2>1. late' = [late EXCEPT ![a] = @ \/ Kept(a)] /\ UNCHANGED <<reg, rt, held, td>>
      BY <1>7 DEF ToggleStored
    <2>2. (late[a] \/ Kept(a)) \in BOOLEAN
      BY <1>3 DEF Kept, IInv, Types
    <2>3. late' \in [Addons -> BOOLEAN] /\ (late'[a] <=> late[a] \/ Kept(a))
          /\ \A b \in Addons : b # a => late'[b] = late[b]
      BY <1>3, <2>1, <2>2 DEF IInv, Types
    <2>4. Types'
      BY <1>1, <1>2, <1>6, <2>1, <2>3 DEF IInv, Types
    <2>5. Runs' /\ Loads'
      BY <1>5, <2>1, <2>4, NoneLouder, QuieterKeeps, BudgetIsNat DEF IInv
    <2>6. NothingLeftBehind'
      BY <2>1 DEF IInv, NothingLeftBehind
    <2>7. DisabledHoldsNothing'
      <3>1. ASSUME NEW b \in Addons, desired'[b] = "off", ~late'[b], td'[b] # "live"
            PROVE  held'[b] = {}
        <4>1. CASE b = a
          <5>1. ~Kept(a) /\ td[a] # "live"
            BY <2>1, <2>3, <3>1, <4>1
          <5>. QED
            BY <1>3, <2>1, <4>1, <5>1 DEF Kept, IInv, NothingLeftBehind
        <4>2. CASE b # a
          BY <1>6, <2>1, <2>3, <3>1, <4>2 DEF IInv, DisabledHoldsNothing
        <4>. QED
          BY <4>1, <4>2
      <3>. QED
        BY <3>1 DEF DisabledHoldsNothing
    <2>. QED
      BY <1>5, <2>4, <2>5, <2>6, <2>7 DEF IInv
  <1>8. CASE ~t.deferred
    <2>1. /\ reg' = [reg EXCEPT ![a].on = IF reg[a].at THEN on ELSE @]
          /\ rt' = [rt EXCEPT ![a] = Receive(@, IF on THEN "enable" ELSE "disable")]
          /\ td' = [td EXCEPT ![a] = IF on /\ @ = "live" THEN "cancelled" ELSE @]
          /\ held' = IF on THEN held ELSE Cleaned(a)
          /\ UNCHANGED late
      BY <1>8 DEF ToggleStored
    <2>2. Louder /\ rt' \in [Addons -> Runtimes]
      BY <1>3, <2>1, OneTold DEF Kinds
    <2>3. /\ reg' \in [Addons -> [at : BOOLEAN, on : BOOLEAN, blocked : BOOLEAN, dropped : BOOLEAN]]
          /\ \A b \in Addons : reg'[b].at = reg[b].at /\ reg'[b].dropped = reg[b].dropped
      <3>1. (IF reg[a].at THEN on ELSE reg[a].on) \in BOOLEAN
        BY <1>3 DEF IInv, Types
      <3>2. PICK v \in BOOLEAN : v = IF reg[a].at THEN on ELSE reg[a].on
        BY <3>1
      <3>3. /\ reg \in [Addons -> [at : BOOLEAN, on : BOOLEAN, blocked : BOOLEAN, dropped : BOOLEAN]]
            /\ a \in Addons
        BY <1>3 DEF IInv, Types
      <3>4. reg' = [reg EXCEPT ![a] = [reg[a] EXCEPT !.on = v]]
        BY <2>1, <3>2, <3>3
      <3>5. /\ [reg[a] EXCEPT !.on = v] \in [at : BOOLEAN, on : BOOLEAN, blocked : BOOLEAN, dropped : BOOLEAN]
            /\ [reg[a] EXCEPT !.on = v].at = reg[a].at /\ [reg[a] EXCEPT !.on = v].dropped = reg[a].dropped
        BY <3>2, <3>3
      <3> HIDE DEF a, on
      <3>. QED
        BY <3>3, <3>4, <3>5
    <2>4. /\ td' \in [Addons -> {"none", "live", "acked", "cancelled", "cleaned"}]
          /\ \A b \in Addons : td'[b] = IF b = a /\ on /\ td[b] = "live" THEN "cancelled" ELSE td[b]
      BY <1>3, <2>1 DEF IInv, Types
    <2>5. /\ held' \in [Addons -> SUBSET {"ui", "watch"}]
          /\ \A b \in Addons : held'[b] = IF b = a /\ ~on THEN {} ELSE held[b]
      BY <1>3, <2>1 DEF IInv, Types, Cleaned
    <2>6. Types'
      BY <1>1, <1>2, <1>6, <2>1, <2>2, <2>3, <2>4, <2>5 DEF IInv, Types
    <2>7. Runs' /\ Loads'
      BY <1>5, <2>2, <2>6, LouderKeeps, BudgetIsNat DEF IInv
    <2>8. NothingLeftBehind'
      BY <2>3, <2>4, <2>5 DEF IInv, NothingLeftBehind
    <2>9. DisabledHoldsNothing'
      <3>1. ASSUME NEW b \in Addons, desired'[b] = "off", ~late'[b], td'[b] # "live"
            PROVE  held'[b] = {}
        <4>1. CASE b = a
          BY <1>3, <1>6, <2>5, <3>1, <4>1
        <4>2. CASE b # a
          BY <1>6, <2>1, <2>4, <2>5, <3>1, <4>2 DEF IInv, DisabledHoldsNothing
        <4>. QED
          BY <4>1, <4>2
      <3>. QED
        BY <3>1 DEF DisabledHoldsNothing
    <2>. QED
      BY <1>5, <2>6, <2>7, <2>8, <2>9 DEF IInv
  <1>. QED
    BY <1>7, <1>8

LEMMA SettingChangedStep ==
  ASSUME IInv, NEW a \in Addons, SettingChanged(a)
  PROVE  IInv'
  <1> USE BoundsAssumption
  <1>1. /\ Spend("click", MaxClicks) /\ rt' = [rt EXCEPT ![a] = Receive(@, "refresh")]
        /\ UNCHANGED <<reg, desired, allowed, held, td, served, toggles, late, bridge, off, down>>
    BY DEF SettingChanged
  <1>2. /\ spent' \in [Events -> Nat] /\ spent'["click"] = spent["click"] + 1
        /\ spent["click"] < MaxClicks /\ spent'["removal"] = spent["removal"]
        /\ spent["click"] \in Nat /\ spent["removal"] \in Nat
    BY <1>1, SpendFacts DEF Events, IInv, Types
  <1>3. Len(toggles) \in Nat
    BY DEF IInv, Types
  <1>4. Louder /\ rt' \in [Addons -> Runtimes]
    BY <1>1, OneTold DEF Kinds
  <1>5. Types'
    BY <1>1, <1>2, <1>4 DEF IInv, Types
  <1>6. Bounds' /\ Budget' = Budget + 1
    BY <1>1, <1>2, <1>3 DEF IInv, Bounds, Budget
  <1>7. Runs' /\ Loads'
    BY <1>4, <1>5, <1>6, LouderKeeps, BudgetIsNat DEF IInv
  <1>8. NothingLeftBehind' /\ DisabledHoldsNothing'
    BY <1>1, HeldLess
  <1>. QED
    BY <1>5, <1>6, <1>7, <1>8 DEF IInv

-----------------------------
(* The policy, removals and the service.                                     *)

LEMMA PolicyChangesStep ==
  ASSUME IInv, NEW a \in Addons, PolicyChanges(a)
  PROVE  IInv'
  <1>1. /\ Spend("flip", MaxFlips) /\ allowed' = [allowed EXCEPT ![a] = ~@]
        /\ UNCHANGED <<rt, reg, desired, held, td, served, toggles, late, bridge, off, down>>
    BY DEF PolicyChanges
  <1>2. /\ spent' \in [Events -> Nat] /\ spent'["click"] = spent["click"]
        /\ spent'["removal"] = spent["removal"]
    BY <1>1, SpendFacts DEF Events, IInv, Types
  <1>3. allowed' \in [Addons -> BOOLEAN]
    BY <1>1 DEF IInv, Types
  <1>4. Types' /\ Bounds'
    BY <1>1, <1>2, <1>3 DEF IInv, Types, Bounds
  <1>5. Runs' /\ Loads'
    BY <1>1, <1>2, <1>4, NoneLouder, QuieterKeeps, BudgetIsNat DEF IInv, Budget
  <1>6. NothingLeftBehind' /\ DisabledHoldsNothing'
    BY <1>1, HeldLess
  <1>. QED
    BY <1>4, <1>5, <1>6 DEF IInv

LEMMA PolicyReappliedStep ==
  ASSUME IInv, PolicyReapplied
  PROVE  IInv'
  <1> USE BoundsAssumption
  <1>1. /\ Spend("removal", MaxRemovals)
        /\ reg' = [a \in Addons |-> IF reg[a].at THEN [None EXCEPT !.dropped = TRUE] ELSE reg[a]]
        /\ UNCHANGED <<rt, desired, allowed, held, td, served, toggles, late, bridge, off, down>>
    BY DEF PolicyReapplied
  <1>2. /\ spent' \in [Events -> Nat] /\ spent'["click"] = spent["click"]
        /\ spent'["removal"] = spent["removal"] + 1 /\ spent["removal"] < MaxRemovals
        /\ spent["click"] \in Nat /\ spent["removal"] \in Nat
    BY <1>1, SpendFacts DEF Events, IInv, Types
  <1>3. Len(toggles) \in Nat
    BY DEF IInv, Types
  <1>4. reg' \in [Addons -> [at : BOOLEAN, on : BOOLEAN, blocked : BOOLEAN, dropped : BOOLEAN]]
        /\ \A b \in Addons : reg[b].at \/ reg[b].dropped => reg'[b].at \/ reg'[b].dropped
    BY <1>1 DEF IInv, Types, None
  <1>5. Types'
    BY <1>1, <1>2, <1>4 DEF IInv, Types
  <1>6. Bounds' /\ Budget' >= Budget
    BY <1>1, <1>2, <1>3 DEF IInv, Bounds, Budget
  <1>7. Runs' /\ Loads'
    BY <1>1, <1>5, <1>6, NoneLouder, QuieterKeeps
  <1>8. NothingLeftBehind' /\ DisabledHoldsNothing'
    BY <1>1, <1>4, HeldLess
  <1>. QED
    BY <1>5, <1>6, <1>7, <1>8 DEF IInv

\* Whoever loses its entry has a watchdog armed.
LEMMA RequestedKeeps ==
  ASSUME IInv, NEW S \in SUBSET Addons, TeardownRequested(S),
         UNCHANGED <<desired, late>>,
         \A b \in Addons \ S : reg[b].at \/ reg[b].dropped => reg'[b].at \/ reg'[b].dropped
  PROVE  /\ Louder /\ rt' \in [Addons -> Runtimes]
         /\ td' \in [Addons -> {"none", "live", "acked", "cancelled", "cleaned"}]
         /\ held' \in [Addons -> SUBSET {"ui", "watch"}]
         /\ NothingLeftBehind' /\ DisabledHoldsNothing'
  <1> DEFINE new == {a \in S : ArmTeardown(a)}
  <1>1. rt \in [Addons -> Runtimes] /\ \A b \in Addons : RunInv(rt[b])
    BY DEF IInv, Types, Runs
  <1>2. /\ td' = [a \in Addons |-> IF a \in new THEN "live" ELSE td[a]]
        /\ rt' = [a \in Addons |-> IF a \in new THEN Receive(rt[a], "teardown") ELSE rt[a]]
        /\ held' = [a \in Addons |-> IF a \in new THEN held[a] \ {"ui"} ELSE held[a]]
    BY DEF TeardownRequested
  <1>3. \A b \in S : b \notin new => td[b] = "live"
    BY DEF ArmTeardown
  <1> HIDE DEF new
  <1>4. ASSUME NEW b \in Addons
        PROVE  RunInv(rt'[b]) /\ Load(rt'[b]) <= Load(rt[b]) + 1 /\ rt'[b].booted = rt[b].booted
    <2>1. Told(rt[b], Receive(rt[b], "teardown")) /\ Load(rt[b]) \in Nat
      BY <1>1, ReceiveTold, LoadIsNat DEF Kinds
    <2>2. rt'[b] = IF b \in new THEN Receive(rt[b], "teardown") ELSE rt[b]
      BY <1>2
    <2>. QED
      BY <1>1, <2>1, <2>2 DEF Told
  <1>5. Louder
    BY <1>4 DEF Louder
  <1>6. rt' \in [Addons -> Runtimes]
    <2>1. \A b \in Addons : rt'[b] \in Runtimes
      BY <1>4 DEF RunInv
    <2>. QED
      BY <1>2, <2>1
  <1>7. /\ td' \in [Addons -> {"none", "live", "acked", "cancelled", "cleaned"}]
        /\ held' \in [Addons -> SUBSET {"ui", "watch"}]
    BY <1>2 DEF IInv, Types
  <1>8. \A b \in Addons : /\ b \in S => td'[b] = "live"
                          /\ td'[b] # "live" => td'[b] = td[b] /\ held'[b] = held[b]
                          /\ held[b] = {} => held'[b] = {}
                          /\ b \notin S /\ td[b] \in {"live", "cancelled"} => td'[b] \in {"live", "cancelled"}
    BY <1>2, <1>3
  <1>9. NothingLeftBehind'
    <2>1. ASSUME NEW b \in Addons, held'[b] # {}
          PROVE  \/ reg'[b].at \/ td'[b] = "live" \/ td'[b] = "cancelled" \/ reg'[b].dropped
      <3>1. held[b] # {}
        BY <1>8, <2>1
      <3>2. \/ reg[b].at \/ td[b] = "live" \/ td[b] = "cancelled" \/ reg[b].dropped
        BY <3>1 DEF IInv, NothingLeftBehind
      <3>. QED
        BY <1>8, <3>2
    <2>. QED
      BY <2>1 DEF NothingLeftBehind
  <1>10. DisabledHoldsNothing'
    BY <1>8 DEF IInv, DisabledHoldsNothing
  <1>. QED
    BY <1>5, <1>6, <1>7, <1>9, <1>10

LEMMA UnregisterStep ==
  ASSUME IInv, NEW a \in Addons, Unregister(a)
  PROVE  IInv'
  <1> USE BoundsAssumption
  <1>1. /\ Spend("removal", MaxRemovals) /\ TeardownRequested({a}) /\ reg' = [reg EXCEPT ![a] = None]
        /\ UNCHANGED <<desired, allowed, served, toggles, late, bridge, off, down>>
    BY DEF Unregister
  <1>2. /\ spent' \in [Events -> Nat] /\ spent'["click"] = spent["click"]
        /\ spent'["removal"] = spent["removal"] + 1 /\ spent["removal"] < MaxRemovals
        /\ spent["click"] \in Nat /\ spent["removal"] \in Nat
    BY <1>1, SpendFacts DEF Events, IInv, Types
  <1>3. Len(toggles) \in Nat
    BY DEF IInv, Types
  <1>4. reg' \in [Addons -> [at : BOOLEAN, on : BOOLEAN, blocked : BOOLEAN, dropped : BOOLEAN]]
        /\ \A b \in Addons \ {a} : reg'[b] = reg[b]
    BY <1>1 DEF IInv, Types, None
  <1>5. /\ Louder /\ rt' \in [Addons -> Runtimes]
        /\ td' \in [Addons -> {"none", "live", "acked", "cancelled", "cleaned"}]
        /\ held' \in [Addons -> SUBSET {"ui", "watch"}]
        /\ NothingLeftBehind' /\ DisabledHoldsNothing'
    BY <1>1, <1>4, RequestedKeeps
  <1>6. Types'
    BY <1>1, <1>2, <1>4, <1>5 DEF IInv, Types
  <1>7. Bounds' /\ Budget' = Budget + 1
    <2>1. Bounds'
      BY <1>1, <1>2, <1>3 DEF IInv, Bounds
    <2>2. toggles' = toggles /\ down' = down
      BY <1>1
    <2>3. Budget' = (spent["click"] - Len(toggles)) + (spent["removal"] + 1) + (IF down THEN 1 ELSE 0)
      BY <1>2, <2>2 DEF Budget
    <2>4. PICK d \in {0, 1} : d = IF down THEN 1 ELSE 0
      OBVIOUS
    <2>5. /\ Budget' = (spent["click"] - Len(toggles)) + (spent["removal"] + 1) + d
          /\ Budget = (spent["click"] - Len(toggles)) + spent["removal"] + d
      BY <2>3, <2>4 DEF Budget
    <2>6. Budget' = Budget + 1
      BY <1>2, <1>3, <2>5
    <2>. QED
      BY <2>1, <2>6
  <1>8. Runs' /\ Loads'
    BY <1>5, <1>6, <1>7, LouderKeeps, BudgetIsNat DEF IInv
  <1>. QED
    BY <1>5, <1>6, <1>7, <1>8 DEF IInv

LEMMA EmptiedType ==
  ASSUME Types
  PROVE  /\ Emptied \in [Addons -> [at : BOOLEAN, on : BOOLEAN, blocked : BOOLEAN, dropped : BOOLEAN]]
         /\ \A b \in Addons : ~Emptied[b].at /\ Emptied[b].dropped = reg[b].dropped
  BY DEF Types, Emptied, None

LEMMA ServiceOffStep ==
  ASSUME IInv, ServiceOff
  PROVE  IInv'
  <1> USE BoundsAssumption
  <1>1. /\ Spend("removal", MaxRemovals) /\ TeardownRequested(Registered) /\ reg' = Emptied
        /\ served' = [a \in Addons |-> 0] /\ off' = TRUE /\ bridge' = FALSE
        /\ UNCHANGED <<desired, allowed, toggles, late, down>>
    BY DEF ServiceOff
  <1>2. /\ spent' \in [Events -> Nat] /\ spent'["click"] = spent["click"]
        /\ spent'["removal"] = spent["removal"] + 1 /\ spent["removal"] < MaxRemovals
        /\ spent["click"] \in Nat /\ spent["removal"] \in Nat
    BY <1>1, SpendFacts DEF Events, IInv, Types
  <1>3. Len(toggles) \in Nat
    BY DEF IInv, Types
  <1>4. reg' \in [Addons -> [at : BOOLEAN, on : BOOLEAN, blocked : BOOLEAN, dropped : BOOLEAN]]
        /\ \A b \in Addons \ Registered : reg[b].at \/ reg[b].dropped => reg'[b].at \/ reg'[b].dropped
    BY <1>1, EmptiedType DEF IInv, Registered
  <1>5. /\ Louder /\ rt' \in [Addons -> Runtimes]
        /\ td' \in [Addons -> {"none", "live", "acked", "cancelled", "cleaned"}]
        /\ held' \in [Addons -> SUBSET {"ui", "watch"}]
        /\ NothingLeftBehind' /\ DisabledHoldsNothing'
    <2>1. Registered \in SUBSET Addons
      BY DEF Registered
    <2>. QED
      BY <1>1, <1>4, <2>1, RequestedKeeps
  <1>6. Types'
    <2>1. served' \in [Addons -> 0..RegisterRate]
      BY <1>1
    <2>2. off' \in BOOLEAN /\ bridge' \in BOOLEAN
      BY <1>1
    <2>. QED
      BY <1>1, <1>2, <1>4, <1>5, <2>1, <2>2 DEF IInv, Types
  <1>7. Bounds' /\ Budget' = Budget + 1
    <2>1. Bounds'
      BY <1>1, <1>2, <1>3 DEF IInv, Bounds
    <2>2. toggles' = toggles /\ down' = down
      BY <1>1
    <2>3. Budget' = (spent["click"] - Len(toggles)) + (spent["removal"] + 1) + (IF down THEN 1 ELSE 0)
      BY <1>2, <2>2 DEF Budget
    <2>4. PICK d \in {0, 1} : d = IF down THEN 1 ELSE 0
      OBVIOUS
    <2>5. /\ Budget' = (spent["click"] - Len(toggles)) + (spent["removal"] + 1) + d
          /\ Budget = (spent["click"] - Len(toggles)) + spent["removal"] + d
      BY <2>3, <2>4 DEF Budget
    <2>6. Budget' = Budget + 1
      BY <1>2, <1>3, <2>5
    <2>. QED
      BY <2>1, <2>6
  <1>8. Runs' /\ Loads'
    BY <1>5, <1>6, <1>7, LouderKeeps, BudgetIsNat DEF IInv
  <1>. QED
    BY <1>5, <1>6, <1>7, <1>8 DEF IInv

LEMMA ServiceOnStep ==
  ASSUME IInv, ServiceOn \/ BridgeBound
  PROVE  IInv'
  <1>1. /\ UNCHANGED <<rt, reg, desired, allowed, held, td, served, toggles, late, down, spent>>
        /\ off' \in BOOLEAN /\ bridge' \in BOOLEAN
    BY DEF ServiceOn, BridgeBound, IInv, Types
  <1>2. Types' /\ Bounds'
    BY <1>1 DEF IInv, Types, Bounds
  <1>3. Runs' /\ Loads'
    BY <1>1, <1>2, NoneLouder, QuieterKeeps, BudgetIsNat DEF IInv, Budget
  <1>4. NothingLeftBehind' /\ DisabledHoldsNothing'
    BY <1>1, HeldLess
  <1>. QED
    BY <1>2, <1>3, <1>4 DEF IInv

LEMMA ShutdownStep ==
  ASSUME IInv, Shutdown
  PROVE  IInv'
  <1> USE BoundsAssumption
  <1> DEFINE new == {a \in Addons : reg[a].at /\ ArmTeardown(a)}
             out == {a \in Addons : ShutdownOf(a)}
  <1>1. /\ ~down /\ down' = TRUE /\ bridge' = FALSE /\ reg' = Emptied
        /\ rt' = [a \in Addons |-> IF a \in new THEN Receive(rt[a], "teardown") ELSE rt[a]]
        /\ td' = [a \in Addons |-> IF a \in out THEN "cleaned" ELSE td[a]]
        /\ held' = [a \in Addons |-> IF a \in out THEN {} ELSE held[a]]
        /\ served' = [a \in Addons |-> 0]
        /\ UNCHANGED <<desired, allowed, toggles, late, off, spent>>
    BY DEF Shutdown
  <1>2. \A b \in Addons : b \notin out => ~reg[b].at /\ td[b] # "live"
    BY DEF ShutdownOf
  <1> HIDE DEF new, out
  <1>3. rt \in [Addons -> Runtimes] /\ \A b \in Addons : RunInv(rt[b])
    BY DEF IInv, Types, Runs
  <1>4. ASSUME NEW b \in Addons
        PROVE  RunInv(rt'[b]) /\ Load(rt'[b]) <= Load(rt[b]) + 1 /\ rt'[b].booted = rt[b].booted
    <2>1. Told(rt[b], Receive(rt[b], "teardown")) /\ Load(rt[b]) \in Nat
      BY <1>3, ReceiveTold, LoadIsNat DEF Kinds
    <2>2. rt'[b] = IF b \in new THEN Receive(rt[b], "teardown") ELSE rt[b]
      BY <1>1
    <2>. QED
      BY <1>3, <2>1, <2>2 DEF Told
  <1>5. Louder
    BY <1>4 DEF Louder
  <1>6. rt' \in [Addons -> Runtimes]
    <2>1. \A b \in Addons : rt'[b] \in Runtimes
      BY <1>4 DEF RunInv
    <2>. QED
      BY <1>1, <2>1
  <1>7. /\ td' \in [Addons -> {"none", "live", "acked", "cancelled", "cleaned"}]
        /\ held' \in [Addons -> SUBSET {"ui", "watch"}] /\ served' \in [Addons -> 0..RegisterRate]
    BY <1>1 DEF IInv, Types
  <1>8. reg' \in [Addons -> [at : BOOLEAN, on : BOOLEAN, blocked : BOOLEAN, dropped : BOOLEAN]]
        /\ \A b \in Addons : ~reg'[b].at /\ reg'[b].dropped = reg[b].dropped
    BY <1>1, EmptiedType DEF IInv
  <1>9. Types'
    BY <1>1, <1>6, <1>7, <1>8 DEF IInv, Types
  <1>10. Bounds'
    BY <1>1 DEF IInv, Bounds
  <1>11. Budget' = Budget + 1
    <2>1. spent["click"] \in Nat /\ spent["removal"] \in Nat /\ Len(toggles) \in Nat
      BY DEF IInv, Types, Events
    <2>. QED
      BY <1>1, <2>1 DEF Budget
  <1>12. Runs' /\ Loads'
    BY <1>5, <1>9, <1>10, <1>11, LouderKeeps, BudgetIsNat DEF IInv
  <1>13. \A b \in Addons : held'[b] # {} => b \notin out /\ held[b] # {} /\ td'[b] = td[b]
    BY <1>1
  <1>14. NothingLeftBehind'
    BY <1>2, <1>8, <1>13 DEF IInv, NothingLeftBehind
  <1>15. DisabledHoldsNothing'
    BY <1>1, <1>13 DEF IInv, DisabledHoldsNothing
  <1>. QED
    BY <1>9, <1>10, <1>12, <1>14, <1>15 DEF IInv

-----------------------------
LEMMA StepKeeps ==
  IInv /\ [Next]_vars => IInv'
  <1> SUFFICES ASSUME IInv, [Next]_vars PROVE IInv'
    OBVIOUS
  <1>1. CASE UNCHANGED vars
    <2>1. UNCHANGED <<rt, reg, desired, allowed, held, td, served, toggles, late, bridge, off,
                      down, spent>>
      BY <1>1 DEF vars
    <2>2. Types' /\ Bounds'
      BY <2>1 DEF IInv, Types, Bounds
    <2>3. Runs' /\ Loads'
      BY <2>1, <2>2, NoneLouder, QuieterKeeps, BudgetIsNat DEF IInv, Budget
    <2>4. NothingLeftBehind' /\ DisabledHoldsNothing'
      BY <2>1, HeldLess
    <2>. QED
      BY <2>2, <2>3, <2>4 DEF IInv
  <1>2. ASSUME NEW a \in Addons, Boot(a) PROVE IInv'
    BY <1>2, BootStep
  <1>3. ASSUME NEW a \in Addons, WindowPasses(a) PROVE IInv'
    BY <1>3, WindowPassesStep
  <1>4. ASSUME NEW a \in Addons, Operation(a) PROVE IInv'
    BY <1>4, BeginOpStep, LoadedStep, RemovedStep, CompletedStep, TornDownStep,
       RequestMountStep, MountAnsweredStep DEF Operation
  <1>5. ASSUME NEW a \in Addons, OpThrows(a) PROVE IInv'
    BY <1>5, OpThrowsStep
  <1>6. ASSUME NEW a \in Addons, WatchdogFires(a) PROVE IInv'
    BY <1>6, WatchdogFiresStep
  <1>7. ASSUME NEW a \in Addons, Toggle(a) PROVE IInv'
    BY <1>7, ToggleStep
  <1>8. ASSUME NEW a \in Addons, SettingChanged(a) PROVE IInv'
    BY <1>8, SettingChangedStep
  <1>9. ASSUME NEW a \in Addons, PolicyChanges(a) PROVE IInv'
    BY <1>9, PolicyChangesStep
  <1>10. ASSUME NEW a \in Addons, Unregister(a) PROVE IInv'
    BY <1>10, UnregisterStep
  <1>11. CASE ToggleStored
    BY <1>11, ToggleStoredStep
  <1>12. CASE ToggleFails
    BY <1>12, ToggleFailsStep
  <1>13. CASE PolicyReapplied
    BY <1>13, PolicyReappliedStep
  <1>14. CASE ServiceOff
    BY <1>14, ServiceOffStep
  <1>15. CASE ServiceOn \/ BridgeBound
    BY <1>15, ServiceOnStep
  <1>16. CASE Shutdown
    BY <1>16, ShutdownStep
  <1>. QED
    BY <1>1, <1>2, <1>3, <1>4, <1>5, <1>6, <1>7, <1>8, <1>9, <1>10, <1>11, <1>12, <1>13,
       <1>14, <1>15, <1>16 DEF Next

LEMMA Invariance ==
  Spec => []IInv
  BY InitInv, StepKeeps, PTL DEF Spec

\* Every variable keeps its type, and no more commands wait in an add-on than
\* its own start, the user, removals and the shutdown have sent: registrations
\* that are answered with a command do not pile any up.
THEOREM TypeCorrect ==
  Spec => []TypeOK
  <1>1. ASSUME IInv PROVE TypeOK
    <2> USE BoundsAssumption
    <2>1. spent["click"] \in Nat /\ spent["removal"] \in Nat /\ Len(toggles) \in Nat
      BY <1>1 DEF IInv, Types, Events
    <2>2. Budget \in Nat /\ Budget <= MaxClicks + MaxRemovals + 1
      BY <1>1, <2>1, BudgetIsNat DEF IInv, Bounds, Budget
    <2>3. ASSUME NEW a \in Addons PROVE RuntimeOK(rt[a], Backlog)
      <3>1. RunInv(rt[a]) /\ Load(rt[a]) <= Commanded(a)
        BY <1>1 DEF IInv, Runs, Loads
      <3>2. rt[a] \in Runtimes /\ Len(rt[a].queue) \in Nat
        BY <3>1 DEF RunInv, Runtimes
      <3>3. Len(rt[a].queue) <= Load(rt[a]) /\ Load(rt[a]) \in Nat
        <4>1. Work(rt[a]) \in {0, 1}
          BY DEF Work
        <4>. QED
          BY <3>2, <4>1 DEF Load
      <3>4. Commanded(a) <= MaxClicks + MaxRemovals + 3 /\ Commanded(a) \in Nat
        BY <2>2 DEF Commanded
      <3>. QED
        BY <3>1, <3>2, <3>3, <3>4 DEF RuntimeOK, Backlog
    <2>4. Len(toggles) <= MaxClicks
      BY <1>1, <2>1 DEF IInv, Bounds
    <2>. QED
      BY <1>1, <2>3, <2>4 DEF IInv, Types, TypeOK
  <1>. QED
    BY <1>1, Invariance, PTL

\* However registrations, switches, settings, policies, teardowns and the
\* service overlap: what an add-on has in the page is accounted for, a switch to
\* off takes it away, and after its teardown an add-on stays silent.
THEOREM KeepsNothing ==
  Spec => []NothingIsKept
  <1>1. ASSUME IInv PROVE NothingIsKept
    <2>1. TornDownIsSilent
      BY <1>1 DEF IInv, Runs, RunInv, Silent, TornDownIsSilent, Resting
    <2>. QED
      BY <1>1, <2>1 DEF IInv, NothingIsKept
  <1>. QED
    BY <1>1, Invariance, PTL
=============================================================================
