------------------------ MODULE FeatureLifecycle_proof ------------------------
(* Theorems about the page runtime, for any features, pages and scopes and *)
(* any number of moves, edits, stays in the back/forward cache and faults. *)
EXTENDS FeatureLifecycle, FiniteSetTheorems, SequenceTheorems, TLAPS

FastSteps == {"beginRoute", "detectPage", "hooks", "observer"}
MainSteps == {"detectPage", "load"}

Has(q, w) == \E i \in DOMAIN q : q[i].who = w
Distinct(q) == \A i, j \in DOMAIN q : q[i].who = q[j].who => i = j
Shape(j) ==
  /\ j.who \in Features => j.do \in {"begin", "handle", "finish", "fail"}
  /\ j.who \in {"fast", "main"} => j.do = "step"
  /\ j.who = "route" => j.do = "notify"

\* A feature has one job as long as it has a transition, a pipeline one as long
\* as it is at a step, and while a move is to be reconciled there is no other.
JobInv ==
  /\ Distinct(micro)
  /\ \A i \in DOMAIN micro : Shape(micro[i])
  /\ \A f \in Features : chain[f] # <<>> <=> Has(micro, f)
  /\ Has(micro, "fast") <=> fast \in FastSteps
  /\ Has(micro, "main") <=> main \in MainSteps
  /\ Has(micro, "route") <=> notice # 0
  /\ notice # 0 => micro = <<RouteJob>> /\ notice = gen /\ ~cut

\* Of two pipelines that went on together, the first begins the route before
\* the second detects the page.
Ahead(q) ==
  \A i, j \in DOMAIN q : q[i].who = "fast" /\ q[j].who = "main" =>
    /\ q[i].hops <= q[j].hops
    /\ j < i => q[i].hops < q[j].hops

BootInv ==
  /\ storage = "pending" => fast \in {"storage", "failed"} /\ main \in {"body", "storage", "failed"}
  /\ storage # "pending" => fast # "storage" /\ main # "storage"
  /\ fast \in {"storage", "beginRoute"} => main \notin {"load", "loading", "done"}
  /\ fast = "beginRoute" => Ahead(micro)
  /\ hooked => fast \in {"observer", "done"}
  /\ fast = "observer" => hooked
  /\ watching => hooked /\ fast = "done"
  /\ loader.left # <<>> => main \in {"loading", "done"}

GenInv ==
  /\ gen = 0 <=> fast \in {"storage", "beginRoute", "failed"}
  /\ gen = 0 => url = NoPage
  /\ main \in {"loading", "done"} /\ gen # 0 => loader.route # 0
  /\ gen + (IF frozen THEN 1 ELSE 0) <= 1 + budget.moves + budget.hides

LeaveInv ==
  /\ cut => fast = "done"
  /\ cut /\ tear = "none" => hooked /\ frozen
  /\ frozen => micro = <<>> /\ tear = "none"
  /\ runtime = "stopped" => tear = "done"
  /\ tear # "none" => fast = "done" /\ cut /\ storage # "pending" /\ notice = 0
  /\ tear = "features" =>
       /\ main \notin MainSteps
       /\ \A f \in Features :
            /\ chain[f] # <<>> => chain[f] = <<Transition("disable", 0)>>
            /\ chain[f] = <<>> => f \notin on
  /\ tear = "done" =>
       /\ ~watching /\ runtime = "stopped"
       /\ timers = {} /\ on = {} /\ \A s \in Styles : refs[s] = 0
       /\ \A f \in Features : chain[f] = <<>>

\* The route of a transition does not end before the transition.
RouteInv ==
  \A f \in Features : \A i \in DOMAIN chain[f] :
    chain[f][i].route = 0 \/ (chain[f][i].route = gen /\ ~cut)

HandledInv ==
  \A i \in DOMAIN micro : micro[i].who \in Features =>
    /\ micro[i].do = "fail" => chain[micro[i].who][1].action = "enable"
    /\ micro[i].do = "finish" =>
         (micro[i].who \in on <=> chain[micro[i].who][1].action = "enable")

\* Routes are observed, or they will be unless the first pipeline fails.
Observed == watching \/ fast \notin {"done", "failed"}

FlagsInv ==
  /\ gen # 0 => url = loc
  /\ gen = 0 => flags = NoPage
  /\ notice = 0 =>
       \/ flags = loc
       \/ /\ flags = NoPage /\ fast \in {"storage", "beginRoute", "detectPage"}
          /\ main \notin {"load", "loading", "done"}

\* What a feature has come to, or will when its transitions are through.
EndsDisabled(f) ==
  IF chain[f] = <<>> THEN status[f] = "disabled" ELSE chain[f][Len(chain[f])].action = "disable"
EndsEnabled(f) ==
  IF chain[f] = <<>> THEN status[f] # "disabled" ELSE chain[f][Len(chain[f])].action = "enable"

\* The loader has still to come to it, on a route that goes on.
Awaited(f) ==
  f \in {loader.left[i] : i \in DOMAIN loader.left} /\ ~Aborted(loader.route)

FollowInv(f) ==
  /\ chain[f] = <<>> => (status[f] = "running" => f \in on) /\ (status[f] = "disabled" => f \notin on)
  /\ f \notin Scope =>
       /\ \A i \in DOMAIN chain[f] : chain[f][i].action = "disable"
       /\ chain[f] = <<>> => status[f] = "disabled"
  /\ f \notin want \cup timers /\ tear = "none" => EndsDisabled(f)
  /\ /\ f \in want \cap Scope /\ f \notin timers
     /\ tear = "none" /\ notice = 0 /\ ~cut /\ main \in {"loading", "done"} /\ ~Awaited(f)
     => EndsEnabled(f)

IInv ==
  /\ TypeOK /\ JobInv /\ BootInv /\ GenInv /\ LeaveInv /\ RouteInv /\ HandledInv
  /\ Observed => FlagsInv /\ \A f \in Features : FollowInv(f)

-----------------------------
(* The microtask queue.                                                    *)

\* The job at the head goes on as x at the end of the queue.
LEMMA AdvanceSeq ==
  ASSUME NEW q \in Seq(Jobs), q # <<>>, Distinct(q), NEW x \in Jobs, x.who = q[1].who
  PROVE  LET r == Append(Tail(q), x) IN
         /\ r \in Seq(Jobs) /\ r # <<>> /\ Len(r) = Len(q) /\ r[Len(q)] = x
         /\ \A i \in 1 .. (Len(q) - 1) : r[i] = q[i + 1] /\ r[i].who # x.who
         /\ Distinct(r)
         /\ \A w : Has(r, w) <=> Has(q, w)
  <1>. DEFINE r == Append(Tail(q), x)
              n == Len(q)
  <1>1. n \in Nat \ {0} /\ DOMAIN q = 1 .. n
    OBVIOUS
  <1>2. /\ Tail(q) \in Seq(Jobs) /\ Len(Tail(q)) = n - 1
        /\ \A i \in 1 .. (n - 1) : Tail(q)[i] = q[i + 1]
    BY HeadTailProperties
  <1>3. /\ r \in Seq(Jobs) /\ r # <<>> /\ Len(r) = n /\ r[n] = x
        /\ \A i \in 1 .. (n - 1) : r[i] = q[i + 1]
    BY <1>1, <1>2, AppendProperties
  <1>4. DOMAIN r = 1 .. n
    BY <1>3
  <1>. HIDE DEF r, n
  <1>0. \A i \in 1 .. (n - 1) : i + 1 \in 1 .. n /\ i + 1 # 1 /\ r[i].who = q[i + 1].who
    BY <1>1, <1>3
  <1>5. \A i \in 1 .. (n - 1) : r[i].who # x.who
    BY <1>0, <1>1 DEF Distinct
  <1>6. Distinct(r)
    <2>. SUFFICES ASSUME NEW i \in 1 .. n, NEW j \in 1 .. n, r[i].who = r[j].who
                  PROVE  i = j
      BY <1>4 DEF Distinct
    <2>1. CASE i = n \/ j = n
      BY <1>1, <1>3, <1>5, <2>1
    <2>2. CASE i # n /\ j # n
      <3>1. i \in 1 .. (n - 1) /\ j \in 1 .. (n - 1)
        BY <1>1, <2>2
      <3>2. q[i + 1].who = q[j + 1].who
        BY <1>0, <3>1
      <3>3. i + 1 = j + 1
        BY <1>0, <1>1, <3>1, <3>2 DEF Distinct
      <3>. QED BY <3>3
    <2>. QED BY <2>1, <2>2
  <1>7. ASSUME NEW w PROVE Has(r, w) <=> Has(q, w)
    <2>1. ASSUME NEW i \in 1 .. n, r[i].who = w PROVE Has(q, w)
      <3>1. CASE i = n
        BY <1>1, <1>3, <2>1, <3>1 DEF Has
      <3>2. CASE i # n
        <4>1. i \in 1 .. (n - 1)
          BY <1>1, <3>2
        <4>2. i + 1 \in DOMAIN q /\ q[i + 1].who = w
          BY <1>0, <1>1, <2>1, <4>1
        <4>. QED BY <4>2 DEF Has
      <3>. QED BY <3>1, <3>2
    <2>2. ASSUME NEW i \in 1 .. n, q[i].who = w PROVE Has(r, w)
      <3>1. CASE i = 1
        BY <1>1, <1>3, <1>4, <2>2, <3>1 DEF Has
      <3>2. CASE i # 1
        <4>1. i - 1 \in 1 .. (n - 1) /\ (i - 1) + 1 = i
          BY <1>1, <3>2
        <4>2. i - 1 \in DOMAIN r /\ r[i - 1].who = w
          BY <1>1, <1>3, <1>4, <2>2, <4>1
        <4>. QED BY <4>2 DEF Has
      <3>. QED BY <3>1, <3>2
    <2>. QED
      BY <1>1, <1>4, <2>1, <2>2 DEF Has
  <1>. QED
    BY <1>3, <1>5, <1>6, <1>7 DEF r, n

\* The job at the head is done.
LEMMA DropSeq ==
  ASSUME NEW q \in Seq(Jobs), q # <<>>, Distinct(q)
  PROVE  LET r == Tail(q) IN
         /\ r \in Seq(Jobs) /\ Len(r) = Len(q) - 1
         /\ \A i \in 1 .. Len(r) : r[i] = q[i + 1]
         /\ Distinct(r)
         /\ \A w : Has(r, w) <=> Has(q, w) /\ w # q[1].who
  <1>. DEFINE r == Tail(q)
              n == Len(q)
  <1>1. n \in Nat \ {0} /\ DOMAIN q = 1 .. n
    OBVIOUS
  <1>2. /\ r \in Seq(Jobs) /\ Len(r) = n - 1
        /\ \A i \in 1 .. (n - 1) : r[i] = q[i + 1]
    BY HeadTailProperties
  <1>3. DOMAIN r = 1 .. (n - 1)
    BY <1>2
  <1>. HIDE DEF r, n
  <1>0. \A i \in 1 .. (n - 1) : i + 1 \in 1 .. n /\ i + 1 # 1 /\ r[i] = q[i + 1]
    BY <1>1, <1>2
  <1>4. Distinct(r)
    <2>. SUFFICES ASSUME NEW i \in 1 .. (n - 1), NEW j \in 1 .. (n - 1), r[i].who = r[j].who
                  PROVE  i = j
      BY <1>3 DEF Distinct
    <2>1. q[i + 1].who = q[j + 1].who
      BY <1>0
    <2>2. i + 1 = j + 1
      BY <1>0, <1>1, <2>1 DEF Distinct
    <2>. QED BY <2>2
  <1>5. ASSUME NEW w PROVE Has(r, w) <=> Has(q, w) /\ w # q[1].who
    <2>1. ASSUME NEW i \in 1 .. (n - 1), r[i].who = w PROVE Has(q, w) /\ w # q[1].who
      <3>1. i + 1 \in DOMAIN q /\ q[i + 1].who = w /\ i + 1 # 1
        BY <1>0, <1>1, <2>1
      <3>2. 1 \in DOMAIN q
        BY <1>1
      <3>. QED BY <3>1, <3>2 DEF Has, Distinct
    <2>2. ASSUME NEW i \in 1 .. n, q[i].who = w, w # q[1].who PROVE Has(r, w)
      <3>1. i - 1 \in 1 .. (n - 1) /\ (i - 1) + 1 = i
        BY <1>1, <2>2
      <3>2. i - 1 \in DOMAIN r /\ r[i - 1].who = w
        BY <1>2, <1>3, <2>2, <3>1
      <3>. QED BY <3>2 DEF Has
    <2>. QED
      BY <1>1, <1>3, <2>1, <2>2 DEF Has
  <1>. QED
    BY <1>2, <1>4, <1>5 DEF r, n

LEMMA InOrderFacts ==
  ASSUME NEW fs \in SUBSET Features, NEW idle \in InOrder[fs]
  PROVE  /\ idle \in Seq(Features)
         /\ \A i, j \in DOMAIN idle : idle[i] = idle[j] => i = j
         /\ fs = {idle[i] : i \in DOMAIN idle}
  <1>1. /\ idle \in UNION {[1 .. n -> fs] : n \in 0 .. Len(Order)}
        /\ fs = {idle[i] : i \in DOMAIN idle}
        /\ \A i, j \in DOMAIN idle : i < j =>
             \E k, l \in DOMAIN Order : k < l /\ Order[k] = idle[i] /\ Order[l] = idle[j]
    BY DEF InOrder
  <1>2. PICK n \in 0 .. Len(Order) : idle \in [1 .. n -> fs]
    BY <1>1
  <1>3. Order \in Seq(Features) /\ DOMAIN Order \subseteq Nat
    BY LifecycleAssumption
  <1>4. n \in Nat /\ DOMAIN idle = 1 .. n
    BY <1>2, <1>3
  <1>5. idle \in Seq(Features)
    BY <1>2, <1>4
  <1>6. ASSUME NEW i \in DOMAIN idle, NEW j \in DOMAIN idle, i < j PROVE idle[i] # idle[j]
    <2>1. PICK k \in DOMAIN Order, l \in DOMAIN Order :
            k < l /\ Order[k] = idle[i] /\ Order[l] = idle[j]
      BY <1>1, <1>6
    <2>2. k # l
      BY <1>3, <2>1
    <2>. QED
      BY <2>1, <2>2, LifecycleAssumption
  <1>7. ASSUME NEW i \in DOMAIN idle, NEW j \in DOMAIN idle, idle[i] = idle[j] PROVE i = j
    <2>1. ~(i < j) /\ ~(j < i)
      BY <1>6, <1>7
    <2>. QED BY <1>4, <2>1
  <1>. QED
    BY <1>1, <1>5, <1>7

\* Features with nothing under way get a job each: r is q and those jobs.
Extends(r, q, fs) ==
  /\ r \in Seq(Jobs)
  /\ \A i \in DOMAIN q : i \in DOMAIN r /\ r[i] = q[i]
  /\ \A i \in DOMAIN r : i \notin DOMAIN q => r[i].who \in fs /\ r[i].do = "begin"
  /\ Distinct(r)
  /\ \A w : Has(r, w) <=> Has(q, w) \/ w \in fs

LEMMA BeginSeq ==
  ASSUME NEW q \in Seq(Jobs), Distinct(q), NEW fs \in SUBSET Features,
         NEW idle \in InOrder[fs], \A f \in fs : ~Has(q, f)
  PROVE  Extends(q \o [i \in DOMAIN idle |-> Job("begin", idle[i], 1)], q, fs)
  <1>. DEFINE b == [i \in DOMAIN idle |-> Job("begin", idle[i], 1)]
              r == q \o b
              m == Len(q)
              n == Len(idle)
  <1>1. /\ idle \in Seq(Features)
        /\ \A i, j \in DOMAIN idle : idle[i] = idle[j] => i = j
        /\ fs = {idle[i] : i \in DOMAIN idle}
    BY InOrderFacts
  <1>2. m \in Nat /\ n \in Nat /\ DOMAIN q = 1 .. m /\ DOMAIN idle = 1 .. n
    BY <1>1
  <1>3. \A i \in 1 .. n : b[i] \in Jobs /\ b[i].who = idle[i] /\ b[i].do = "begin"
    BY <1>1, <1>2 DEF Job, Jobs
  <1>4. b \in Seq(Jobs) /\ Len(b) = n
    BY <1>2, <1>3
  <1>. HIDE DEF b
  <1>5. /\ r \in Seq(Jobs) /\ DOMAIN r = 1 .. (m + n)
        /\ \A i \in 1 .. (m + n) : r[i] = IF i <= m THEN q[i] ELSE b[i - m]
    BY <1>2, <1>4, ConcatProperties
  <1>. HIDE DEF m, n, r
  <1>6. \A i \in 1 .. m : i \in 1 .. (m + n) /\ r[i] = q[i]
    BY <1>2, <1>5
  <1>7. ASSUME NEW i \in 1 .. (m + n), i \notin 1 .. m
        PROVE  i - m \in 1 .. n /\ r[i].who = idle[i - m] /\ r[i].do = "begin" /\ r[i].who \in fs
    <2>1. i - m \in 1 .. n /\ r[i] = b[i - m]
      BY <1>2, <1>5, <1>7
    <2>. QED BY <1>1, <1>2, <1>3, <2>1
  <1>8. ASSUME NEW i \in 1 .. m PROVE r[i].who \notin fs
    BY <1>2, <1>6 DEF Has
  <1>9. Distinct(r)
    <2>. SUFFICES ASSUME NEW i \in 1 .. (m + n), NEW j \in 1 .. (m + n), r[i].who = r[j].who
                  PROVE  i = j
      BY <1>5 DEF Distinct
    <2>1. CASE i \in 1 .. m /\ j \in 1 .. m
      BY <1>2, <1>6, <2>1 DEF Distinct
    <2>2. CASE i \notin 1 .. m /\ j \notin 1 .. m
      <3>1. i - m = j - m
        BY <1>1, <1>2, <1>7, <2>2
      <3>. QED BY <1>2, <3>1
    <2>3. CASE (i \in 1 .. m) # (j \in 1 .. m)
      BY <1>7, <1>8, <2>3
    <2>. QED BY <2>1, <2>2, <2>3
  <1>10. ASSUME NEW w PROVE Has(r, w) <=> Has(q, w) \/ w \in fs
    <2>1. ASSUME NEW i \in 1 .. (m + n), r[i].who = w PROVE Has(q, w) \/ w \in fs
      BY <1>2, <1>6, <1>7, <2>1 DEF Has
    <2>2. ASSUME Has(q, w) PROVE Has(r, w)
      BY <1>2, <1>5, <1>6, <2>2 DEF Has
    <2>3. ASSUME NEW i \in 1 .. n, w = idle[i] PROVE Has(r, w)
      <3>1. m + i \in 1 .. (m + n) /\ m + i \notin 1 .. m /\ (m + i) - m = i
        BY <1>2
      <3>2. r[m + i].who = w
        BY <1>7, <2>3, <3>1
      <3>. QED BY <1>5, <3>1, <3>2 DEF Has
    <2>. QED
      BY <1>1, <1>2, <1>5, <2>1, <2>2, <2>3 DEF Has
  <1>. QED
    <2>1. Extends(r, q, fs)
      BY <1>2, <1>5, <1>6, <1>7, <1>9, <1>10 DEF Extends
    <2>. QED BY <2>1 DEF r, b

-----------------------------
(* The order of the pipelines in the queue.                                *)

LEMMA AheadAdvance ==
  ASSUME NEW q \in Seq(Jobs), q # <<>>, Distinct(q), NEW x \in Jobs, x.who = q[1].who, Ahead(q),
         x.who \in {"fast", "main"} => q[1].hops > 0 /\ x.hops = q[1].hops - 1
  PROVE  Ahead(Append(Tail(q), x))
  <1>. DEFINE r == Append(Tail(q), x)
              n == Len(q)
  <1>1. /\ r \in Seq(Jobs) /\ Len(r) = n /\ r[n] = x
        /\ \A i \in 1 .. (n - 1) : r[i] = q[i + 1] /\ r[i].who # x.who
    BY AdvanceSeq
  <1>2. n \in Nat \ {0} /\ DOMAIN q = 1 .. n /\ DOMAIN r = 1 .. n
    BY <1>1
  <1>3. \A i \in 1 .. n : q[i].hops \in Nat
    <2>1. \A j \in Jobs : j.hops \in Nat
      BY DEF Jobs
    <2>. QED BY <1>2, <2>1
  <1>. HIDE DEF r, n
  <1>4. \A i \in 1 .. (n - 1) : i + 1 \in 1 .. n /\ r[i].hops = q[i + 1].hops /\ r[i].who = q[i + 1].who
    BY <1>1, <1>2
  <1>. SUFFICES ASSUME NEW i \in 1 .. n, NEW j \in 1 .. n, r[i].who = "fast", r[j].who = "main"
                PROVE  r[i].hops <= r[j].hops /\ (j < i => r[i].hops < r[j].hops)
    BY <1>2 DEF Ahead, r
  <1>5. CASE i = n
    <2>1. x.who = "fast" /\ q[1].hops > 0 /\ x.hops = q[1].hops - 1 /\ r[i].hops = x.hops
      BY <1>1, <1>5
    <2>2. j \in 1 .. (n - 1)
      BY <1>1, <1>2, <1>5
    <2>3. q[1].hops <= q[j + 1].hops
      <3>1. 1 \in 1 .. n /\ j + 1 \in 1 .. n /\ q[j + 1].who = "main"
        BY <1>2, <1>4, <2>2
      <3>. QED
        BY <1>2, <2>1, <3>1 DEF Ahead
    <2>. QED
      BY <1>2, <1>3, <1>4, <2>1, <2>2, <2>3
  <1>6. CASE i # n /\ j = n
    <2>1. x.who = "main" /\ q[1].hops > 0 /\ x.hops = q[1].hops - 1 /\ r[j].hops = x.hops
      BY <1>1, <1>6
    <2>2. i \in 1 .. (n - 1)
      BY <1>2, <1>6
    <2>3. q[i + 1].hops < q[1].hops
      <3>1. 1 \in 1 .. n /\ i + 1 \in 1 .. n /\ 1 < i + 1
        BY <1>2, <2>2
      <3>. QED
        BY <1>2, <1>4, <2>1, <2>2, <3>1 DEF Ahead
    <2>. QED
      BY <1>2, <1>3, <1>4, <1>6, <2>1, <2>2, <2>3
  <1>7. CASE i # n /\ j # n
    <2>1. i \in 1 .. (n - 1) /\ j \in 1 .. (n - 1)
      BY <1>2, <1>7
    <2>2. q[i + 1].hops <= q[j + 1].hops /\ (j + 1 < i + 1 => q[i + 1].hops < q[j + 1].hops)
      BY <1>2, <1>4, <2>1 DEF Ahead
    <2>. QED
      BY <1>2, <1>4, <2>1, <2>2
  <1>. QED
    BY <1>5, <1>6, <1>7

LEMMA AheadDrop ==
  ASSUME NEW q \in Seq(Jobs), q # <<>>, Distinct(q), Ahead(q)
  PROVE  Ahead(Tail(q))
  <1>. DEFINE r == Tail(q)
              n == Len(q)
  <1>1. /\ r \in Seq(Jobs) /\ Len(r) = n - 1
        /\ \A i \in 1 .. Len(r) : r[i] = q[i + 1]
    BY DropSeq
  <1>2. n \in Nat \ {0} /\ DOMAIN q = 1 .. n /\ DOMAIN r = 1 .. (n - 1)
    BY <1>1
  <1>. HIDE DEF r, n
  <1>4. \A i \in 1 .. (n - 1) : i + 1 \in 1 .. n /\ r[i] = q[i + 1]
    BY <1>1, <1>2
  <1>. SUFFICES ASSUME NEW i \in 1 .. (n - 1), NEW j \in 1 .. (n - 1), r[i].who = "fast", r[j].who = "main"
                PROVE  r[i].hops <= r[j].hops /\ (j < i => r[i].hops < r[j].hops)
    BY <1>2 DEF Ahead, r
  <1>5. q[i + 1].hops <= q[j + 1].hops /\ (j + 1 < i + 1 => q[i + 1].hops < q[j + 1].hops)
    BY <1>2, <1>4 DEF Ahead
  <1>. QED
    BY <1>2, <1>4, <1>5

\* More jobs at the end, none of a pipeline.
LEMMA AheadBegin ==
  ASSUME NEW q, NEW r, Ahead(q),
         \A i \in DOMAIN q : i \in DOMAIN r /\ r[i] = q[i],
         \A i \in DOMAIN r : i \notin DOMAIN q => r[i].who \notin {"fast", "main"}
  PROVE  Ahead(r)
  BY DEF Ahead

-----------------------------
(* What the steps of the queue keep.                                       *)

LEMMA AdvanceJobs ==
  ASSUME TypeOK, JobInv, micro # <<>>, NEW x \in Jobs, x.who = micro[1].who, Shape(x),
         x.who # "route", micro' = Append(Tail(micro), x), notice' = notice,
         fast' \in FastSteps <=> fast \in FastSteps, main' \in MainSteps <=> main \in MainSteps,
         \A f \in Features : chain'[f] # <<>> <=> chain[f] # <<>>
  PROVE  JobInv' /\ micro' \in Seq(Jobs) /\ (notice = 0)
  <1>1. notice = 0
    BY DEF JobInv, RouteJob, Job
  <1>2. micro \in Seq(Jobs) /\ Distinct(micro)
    BY DEF TypeOK, TaskType, JobInv
  <1>3. /\ micro' \in Seq(Jobs) /\ Len(micro') = Len(micro) /\ micro'[Len(micro)] = x
        /\ \A i \in 1 .. (Len(micro) - 1) : micro'[i] = micro[i + 1]
        /\ Distinct(micro')
        /\ \A w : Has(micro', w) <=> Has(micro, w)
    BY <1>2, AdvanceSeq
  <1>4. ASSUME NEW i \in DOMAIN micro' PROVE Shape(micro'[i])
    <2>1. Len(micro) \in Nat \ {0} /\ i \in 1 .. Len(micro) /\ DOMAIN micro = 1 .. Len(micro)
      BY <1>2, <1>3
    <2>2. CASE i = Len(micro)
      BY <1>3, <2>2
    <2>3. CASE i # Len(micro)
      <3>1. i \in 1 .. (Len(micro) - 1) /\ i + 1 \in DOMAIN micro
        BY <2>1, <2>3
      <3>. QED BY <1>3, <3>1 DEF JobInv
    <2>. QED BY <2>2, <2>3
  <1>. QED
    BY <1>1, <1>3, <1>4 DEF JobInv

LEMMA DropJobs ==
  ASSUME TypeOK, JobInv, micro # <<>>, micro' = Tail(micro),
         notice' = 0, notice # 0 => micro[1].who = "route",
         fast' \in FastSteps <=> fast \in FastSteps /\ micro[1].who # "fast",
         main' \in MainSteps <=> main \in MainSteps /\ micro[1].who # "main",
         \A f \in Features : chain'[f] # <<>> <=> chain[f] # <<>> /\ micro[1].who # f
  PROVE  JobInv' /\ micro' \in Seq(Jobs)
  <1>2. micro \in Seq(Jobs) /\ Distinct(micro)
    BY DEF TypeOK, TaskType, JobInv
  <1>3. /\ micro' \in Seq(Jobs) /\ Len(micro') = Len(micro) - 1
        /\ \A i \in 1 .. Len(micro') : micro'[i] = micro[i + 1]
        /\ Distinct(micro')
        /\ \A w : Has(micro', w) <=> Has(micro, w) /\ w # micro[1].who
    BY <1>2, DropSeq
  <1>4. ASSUME NEW i \in DOMAIN micro' PROVE Shape(micro'[i])
    <2>1. i \in 1 .. Len(micro') /\ i + 1 \in DOMAIN micro
      BY <1>2, <1>3
    <2>. QED BY <1>3, <2>1 DEF JobInv
  <1>5. Has(micro', "route") <=> notice' # 0
    BY <1>3 DEF JobInv
  <1>. QED
    BY <1>3, <1>4, <1>5 DEF JobInv

\* The transitions of each feature that asked has some for go on with those.
Joined(R, asked) ==
  /\ chain' \in [Features -> Seq(R)]
  /\ \A f \in Features \ DOMAIN asked : chain'[f] = chain[f]
  /\ \A f \in DOMAIN asked :
       /\ chain'[f] # <<>>
       /\ chain'[f][Len(chain'[f])] = asked[f][Len(asked[f])]
       /\ chain[f] # <<>> => chain'[f][1] = chain[f][1]
       /\ chain[f] = <<>> => chain'[f] = asked[f]
       /\ \A i \in DOMAIN chain'[f] :
            \/ \E k \in DOMAIN chain[f] : chain'[f][i] = chain[f][k]
            \/ \E k \in DOMAIN asked[f] : chain'[f][i] = asked[f][k]

\* What a request adds to the transitions of the features it is for.
LEMMA RequestChain ==
  ASSUME NEW R, chain \in [Features -> Seq(R)], NEW asked, DOMAIN asked \subseteq Features,
         \A f \in DOMAIN asked : asked[f] \in Seq(R) /\ asked[f] # <<>>,
         NEW q, Request(asked, q)
  PROVE  Joined(R, asked)
  <1>1. chain' = [f \in Features |-> IF f \in DOMAIN asked THEN chain[f] \o asked[f] ELSE chain[f]]
    BY DEF Request
  <1>2. ASSUME NEW f \in DOMAIN asked
        PROVE  /\ chain'[f] \in Seq(R) /\ chain'[f] # <<>>
               /\ chain'[f][Len(chain'[f])] = asked[f][Len(asked[f])]
               /\ chain[f] # <<>> => chain'[f][1] = chain[f][1]
               /\ chain[f] = <<>> => chain'[f] = asked[f]
               /\ \A i \in DOMAIN chain'[f] :
                    \/ \E k \in DOMAIN chain[f] : chain'[f][i] = chain[f][k]
                    \/ \E k \in DOMAIN asked[f] : chain'[f][i] = asked[f][k]
    <2>. DEFINE c == chain[f]
                a == asked[f]
                m == Len(c)
                n == Len(a)
                r == c \o a
    <2>1. c \in Seq(R) /\ a \in Seq(R) /\ a # <<>> /\ chain'[f] = r
      BY <1>1
    <2>. HIDE DEF c, a
    <2>2. m \in Nat /\ n \in Nat \ {0} /\ DOMAIN c = 1 .. m /\ DOMAIN a = 1 .. n
      BY <2>1
    <2>3. /\ r \in Seq(R) /\ Len(r) = m + n /\ DOMAIN r = 1 .. (m + n)
          /\ \A i \in 1 .. (m + n) : r[i] = IF i <= m THEN c[i] ELSE a[i - m]
      BY <2>1, <2>2, ConcatProperties
    <2>4. c = <<>> => r = a
      BY <2>1
    <2>5. c # <<>> => m # 0
      BY <2>1
    <2>. HIDE DEF m, n, r
    <2>6. r[Len(r)] = a[n] /\ r # <<>>
      BY <2>2, <2>3
    <2>7. c # <<>> => r[1] = c[1]
      BY <2>2, <2>3, <2>5
    <2>8. ASSUME NEW i \in 1 .. (m + n)
          PROVE  (\E k \in 1 .. m : r[i] = c[k]) \/ (\E k \in 1 .. n : r[i] = a[k])
      <3>1. CASE i <= m
        <4>1. i \in 1 .. m /\ r[i] = c[i]
          BY <2>2, <2>3, <3>1
        <4>. QED BY <4>1
      <3>2. CASE ~(i <= m)
        <4>1. i - m \in 1 .. n
          BY <2>2, <3>2
        <4>. QED BY <2>3, <3>2, <4>1
      <3>. QED BY <3>1, <3>2
    <2>. QED
      BY <2>1, <2>2, <2>3, <2>4, <2>6, <2>7, <2>8 DEF c, a, n
  <1>. QED
    BY <1>1, <1>2 DEF Joined

\* What a request leaves of the queue: nobody has two jobs.
LEMMA RequestJobs ==
  ASSUME TypeOK, JobInv, NEW asked, DOMAIN asked \subseteq Features,
         \A f \in DOMAIN asked : asked[f] # <<>>, \A f \in DOMAIN asked : chain'[f] # <<>>,
         \A f \in Features \ DOMAIN asked : chain'[f] = chain[f],
         NEW q \in Seq(Jobs), Distinct(q), \A i \in DOMAIN q : Shape(q[i]),
         \A f \in Features : Has(q, f) <=> Has(micro, f),
         Has(q, "fast") <=> fast' \in FastSteps, Has(q, "main") <=> main' \in MainSteps,
         ~Has(q, "route"), notice' = 0, Request(asked, q)
  PROVE  /\ JobInv' /\ micro' \in Seq(Jobs)
         /\ \A i \in DOMAIN q : i \in DOMAIN micro' /\ micro'[i] = q[i]
         /\ \A i \in DOMAIN micro' : i \notin DOMAIN q =>
              micro'[i].who \in Features /\ micro'[i].do = "begin"
  <1>. DEFINE fs == {f \in DOMAIN asked : chain[f] = <<>>}
  <1>1. PICK idle \in InOrder[fs] : micro' = q \o [i \in DOMAIN idle |-> Job("begin", idle[i], 1)]
    BY DEF Request
  <1>2. fs \in SUBSET Features /\ \A f \in fs : ~Has(q, f)
    BY DEF JobInv
  <1>. HIDE DEF fs
  <1>3. /\ micro' \in Seq(Jobs)
        /\ \A i \in DOMAIN q : i \in DOMAIN micro' /\ micro'[i] = q[i]
        /\ \A i \in DOMAIN micro' : i \notin DOMAIN q => micro'[i].who \in fs /\ micro'[i].do = "begin"
        /\ Distinct(micro')
        /\ \A w : Has(micro', w) <=> Has(q, w) \/ w \in fs
    <2>1. Extends(q \o [i \in DOMAIN idle |-> Job("begin", idle[i], 1)], q, fs)
      BY <1>2, BeginSeq
    <2>. QED BY <1>1, <2>1 DEF Extends
  <1>4. "fast" \notin fs /\ "main" \notin fs /\ "route" \notin fs
    BY <1>2, LifecycleAssumption
  <1>5. \A i \in DOMAIN micro' : Shape(micro'[i])
    <2>. SUFFICES ASSUME NEW i \in DOMAIN micro', i \notin DOMAIN q PROVE Shape(micro'[i])
      BY <1>3
    <2>1. micro'[i].who \in Features /\ micro'[i].do = "begin"
      BY <1>2, <1>3
    <2>. QED
      BY <2>1, LifecycleAssumption DEF Shape
  <1>6. ASSUME NEW f \in Features PROVE chain'[f] # <<>> <=> Has(micro', f)
    <2>1. Has(q, f) <=> chain[f] # <<>>
      BY DEF JobInv
    <2>2. f \in fs <=> f \in DOMAIN asked /\ chain[f] = <<>>
      BY DEF fs
    <2>. QED
      BY <1>3, <2>1, <2>2
  <1>. QED
    BY <1>2, <1>3, <1>4, <1>5, <1>6 DEF JobInv

-----------------------------
(* The transitions of one feature.                                         *)

LEMMA HeadJob ==
  ASSUME TypeOK, JobInv, micro # <<>>
  PROVE  /\ Head(micro) = micro[1] /\ micro[1] \in Jobs /\ 1 \in DOMAIN micro /\ Shape(micro[1])
         /\ Has(micro, micro[1].who)
         /\ micro[1].who # "route" => notice = 0
  <1>1. micro \in Seq(Jobs)
    BY DEF TypeOK, TaskType
  <1>2. Head(micro) = micro[1] /\ 1 \in DOMAIN micro /\ micro[1] \in Jobs
    BY <1>1
  <1>. QED
    BY <1>2 DEF JobInv, Has, RouteJob, Job

LEMMA FeatureJob ==
  ASSUME TypeOK, JobInv, micro # <<>>, NEW f \in Features, Head(micro).who = f
  PROVE  /\ chain[f] # <<>> /\ chain[f] \in Seq(Requested) /\ Head(chain[f]) = chain[f][1]
         /\ Len(chain[f]) \in Nat \ {0} /\ DOMAIN chain[f] = 1 .. Len(chain[f])
         /\ f \notin {"fast", "main", "route"} /\ notice = 0 /\ micro[1].who = f
  <1>1. micro[1].who = f /\ Has(micro, f) /\ f \notin {"fast", "main", "route"}
    BY HeadJob, LifecycleAssumption
  <1>2. chain[f] # <<>> /\ chain[f] \in Seq(Requested)
    BY <1>1 DEF JobInv, TypeOK, TaskType
  <1>. QED
    BY <1>1, <1>2, HeadJob

LEMMA FollowStays ==
  ASSUME NEW g, FollowInv(g), UNCHANGED <<flags, want, timers, tear, notice, cut, gen, main, loader>>,
         chain'[g] = chain[g], status'[g] = status[g], g \in on' <=> g \in on
  PROVE  FollowInv(g)'
  BY DEF FollowInv, Scope, EndsDisabled, EndsEnabled, Awaited, Aborted, Current

NoMore == UNCHANGED <<bootVars, runVars, routeVars, loc, flags, notice, want, timers, loader>>

\* Where only the queue, the transitions and the features change.
LEMMA QueueType ==
  ASSUME TypeOK, NoMore, chain' \in [Features -> Seq(Requested)], micro' \in Seq(Jobs),
         FeatureType', BudgetType'
  PROVE  TypeOK'
  <1>1. BootType' /\ RunType' /\ RouteType'
    BY DEF TypeOK, BootType, RunType, RouteType, NoMore, bootVars, runVars, routeVars
  <1>2. Requested' = Requested /\ loader' = loader /\ gen' = gen
    BY DEF Requested, NoMore, routeVars
  <1>3. loader \in [left : Seq(Features), route : 0 .. gen]
    BY DEF TypeOK, TaskType
  <1>4. chain' \in [Features -> Seq(Requested')]
    BY <1>2
  <1>5. loader' \in [left : Seq(Features), route : 0 .. gen']
    BY <1>2, <1>3
  <1>. QED
    BY <1>1, <1>4, <1>5 DEF TypeOK, TaskType

\* A step of f's transitions keeps the invariant if what it leaves of f does.
LEMMA TransitionKeeps ==
  ASSUME IInv, NEW f \in Features, micro # <<>>, Head(micro).who = f, NoMore,
         UNCHANGED <<budget.moves, budget.hides>>, BudgetType', FeatureType',
         chain' \in [Features -> Seq(Requested)],
         \A g \in Features \ {f} :
           chain'[g] = chain[g] /\ status'[g] = status[g] /\ (g \in on' <=> g \in on),
         \A i \in DOMAIN chain'[f] : \E k \in DOMAIN chain[f] : chain'[f][i] = chain[f][k],
         \/ micro' = Tail(micro) /\ chain'[f] = <<>>
         \/ \E x \in Jobs :
              /\ micro' = Append(Tail(micro), x) /\ chain'[f] # <<>>
              /\ x.who = f /\ x.do \in {"begin", "handle", "finish", "fail"}
              /\ x.do = "fail" => chain'[f][1].action = "enable"
              /\ x.do = "finish" => (f \in on' <=> chain'[f][1].action = "enable"),
         tear = "features" =>
           /\ chain'[f] # <<>> => chain'[f] = <<Transition("disable", 0)>>
           /\ chain'[f] = <<>> => f \notin on',
         Observed => FollowInv(f)'
  PROVE  IInv'
  <1>. USE DEF NoMore
  <1>1. /\ chain[f] # <<>> /\ f \notin {"fast", "main", "route"} /\ notice = 0
        /\ micro[1].who = f /\ micro \in Seq(Jobs) /\ Distinct(micro)
    BY FeatureJob DEF IInv, TypeOK, TaskType, JobInv
  <1>2. JobInv' /\ micro' \in Seq(Jobs)
    <2>1. CASE micro' = Tail(micro) /\ chain'[f] = <<>>
      <3>1. /\ fast' \in FastSteps <=> fast \in FastSteps /\ micro[1].who # "fast"
            /\ main' \in MainSteps <=> main \in MainSteps /\ micro[1].who # "main"
            /\ notice' = 0
        BY <1>1 DEF bootVars
      <3>2. \A g \in Features : chain'[g] # <<>> <=> chain[g] # <<>> /\ micro[1].who # g
        BY <1>1, <2>1
      <3>. QED BY <1>1, <2>1, <3>1, <3>2, DropJobs DEF IInv
    <2>2. CASE \E x \in Jobs :
              /\ micro' = Append(Tail(micro), x) /\ chain'[f] # <<>>
              /\ x.who = f /\ x.do \in {"begin", "handle", "finish", "fail"}
      <3>1. PICK x \in Jobs :
              /\ micro' = Append(Tail(micro), x) /\ chain'[f] # <<>>
              /\ x.who = f /\ x.do \in {"begin", "handle", "finish", "fail"}
        BY <2>2
      <3>2. Shape(x) /\ x.who # "route" /\ x.who = micro[1].who
        BY <1>1, <3>1 DEF Shape
      <3>3. UNCHANGED <<fast, main, notice>>
        BY DEF bootVars
      <3>4. \A g \in Features : chain'[g] # <<>> <=> chain[g] # <<>>
        BY <1>1, <3>1
      <3>. QED BY <1>1, <3>1, <3>2, <3>3, <3>4, AdvanceJobs DEF IInv
    <2>. QED BY <2>1, <2>2
  <1>3. TypeOK'
    BY <1>2, QueueType DEF IInv
  <1>4. BootInv'
    <2>1. Ahead(micro) => Ahead(micro')
      <3>1. CASE micro' = Tail(micro)
        BY <1>1, <3>1, AheadDrop
      <3>2. CASE \E x \in Jobs : micro' = Append(Tail(micro), x) /\ x.who = f
        BY <1>1, <3>2, AheadAdvance
      <3>. QED BY <3>1, <3>2
    <2>. QED
      BY <2>1 DEF IInv, BootInv, bootVars
  <1>5. GenInv'
    BY DEF IInv, GenInv, bootVars, runVars, routeVars
  <1>6. LeaveInv'
    <2>1. tear # "done" /\ ~frozen
      BY <1>1 DEF IInv, LeaveInv
    <2>2. tear = "features" =>
            \A g \in Features : /\ chain'[g] # <<>> => chain'[g] = <<Transition("disable", 0)>>
                                /\ chain'[g] = <<>> => g \notin on'
      BY DEF IInv, LeaveInv
    <2>. QED
      BY <2>1, <2>2 DEF IInv, LeaveInv, bootVars, runVars, routeVars
  <1>7. RouteInv'
    <2>. SUFFICES ASSUME NEW g \in Features, NEW i \in DOMAIN chain'[g]
                  PROVE  chain'[g][i].route = 0 \/ (chain'[g][i].route = gen /\ ~cut)
      BY DEF RouteInv, routeVars
    <2>1. \E k \in DOMAIN chain[g] : chain'[g][i] = chain[g][k]
      <3>1. CASE g = f
        BY <3>1
      <3>2. CASE g # f
        <4>1. chain'[g] = chain[g]
          BY <3>2
        <4>. QED BY <4>1
      <3>. QED BY <3>1, <3>2
    <2>. QED
      BY <2>1 DEF IInv, RouteInv
  <1>8. HandledInv'
    <2>. SUFFICES ASSUME NEW i \in DOMAIN micro', micro'[i].who \in Features
                  PROVE  /\ micro'[i].do = "fail" => chain'[micro'[i].who][1].action = "enable"
                         /\ micro'[i].do = "finish" =>
                              (micro'[i].who \in on' <=> chain'[micro'[i].who][1].action = "enable")
      BY DEF HandledInv
    <2>1. CASE micro'[i].who = f
      <3>1. ~(micro' = Tail(micro))
        <4>1. ASSUME micro' = Tail(micro) PROVE FALSE
          <5>1. ~Has(Tail(micro), f)
            BY <1>1, DropSeq
          <5>. QED BY <2>1, <4>1, <5>1 DEF Has
        <4>. QED BY <4>1
      <3>2. PICK x \in Jobs :
              /\ micro' = Append(Tail(micro), x)
              /\ x.who = f
              /\ x.do = "fail" => chain'[f][1].action = "enable"
              /\ x.do = "finish" => (f \in on' <=> chain'[f][1].action = "enable")
        BY <3>1
      <3>3. micro'[Len(micro)] = x /\ Len(micro') = Len(micro) /\ Distinct(micro') /\ micro' # <<>>
        BY <1>1, <3>2, AdvanceSeq
      <3>4. Len(micro) \in DOMAIN micro'
        BY <1>2, <3>3
      <3>5. i = Len(micro)
        BY <2>1, <3>2, <3>3, <3>4 DEF Distinct
      <3>. QED BY <2>1, <3>2, <3>3, <3>5
    <2>2. CASE micro'[i].who # f
      <3>1. i + 1 \in DOMAIN micro /\ micro'[i] = micro[i + 1]
        <4>1. CASE micro' = Tail(micro)
          <5>1. Len(micro') = Len(micro) - 1 /\ \A k \in 1 .. Len(micro') : micro'[k] = micro[k + 1]
            BY <1>1, <4>1, DropSeq
          <5>2. Len(micro) \in Nat /\ DOMAIN micro = 1 .. Len(micro) /\ i \in 1 .. Len(micro')
            BY <1>1, <1>2
          <5>. QED BY <5>1, <5>2
        <4>2. CASE \E x \in Jobs : micro' = Append(Tail(micro), x) /\ x.who = f
          <5>1. PICK x \in Jobs : micro' = Append(Tail(micro), x) /\ x.who = f
            BY <4>2
          <5>2. /\ micro'[Len(micro)] = x /\ Len(micro') = Len(micro)
                /\ \A k \in 1 .. (Len(micro) - 1) : micro'[k] = micro[k + 1]
            BY <1>1, <5>1, AdvanceSeq
          <5>3. Len(micro) \in Nat /\ DOMAIN micro = 1 .. Len(micro) /\ i \in 1 .. Len(micro)
            BY <1>1, <1>2, <5>2
          <5>4. i # Len(micro)
            BY <2>2, <5>1, <5>2
          <5>. QED BY <5>2, <5>3, <5>4
        <4>. QED BY <4>1, <4>2
      <3>. DEFINE g == micro'[i].who
      <3>2. g \in Features \ {f} /\ micro[i + 1].who = g
        BY <2>2, <3>1
      <3>3. chain'[g] = chain[g] /\ (g \in on' <=> g \in on)
        BY <3>2
      <3>. QED
        BY <3>1, <3>2, <3>3 DEF IInv, HandledInv
    <2>. QED BY <2>1, <2>2
  <1>9. Observed' => FlagsInv' /\ \A g \in Features : FollowInv(g)'
    <2>1. Observed' <=> Observed
      BY DEF Observed, bootVars
    <2>2. FlagsInv => FlagsInv'
      BY DEF FlagsInv, bootVars, routeVars
    <2>3. ASSUME Observed, NEW g \in Features PROVE FollowInv(g)'
      <3>1. CASE g = f
        BY <2>3, <3>1
      <3>2. CASE g # f
        <4>1. FollowInv(g)
          BY <2>3 DEF IInv
        <4>2. UNCHANGED <<flags, want, timers, tear, notice, cut, gen, main, loader>>
          BY DEF bootVars, runVars, routeVars
        <4>. QED BY <3>2, <4>1, <4>2, FollowStays
      <3>. QED BY <3>1, <3>2
    <2>. QED
      BY <2>1, <2>2, <2>3 DEF IInv
  <1>. QED
    BY <1>2, <1>3, <1>4, <1>5, <1>6, <1>7, <1>8, <1>9 DEF IInv

\* Going on with transitions under way decides nothing new.
LEMMA FollowUnder ==
  ASSUME NEW f, FollowInv(f), UNCHANGED <<flags, want, timers, tear, notice, cut, gen, main, loader>>,
         chain[f] # <<>>, chain'[f] # <<>>,
         chain'[f][Len(chain'[f])] = chain[f][Len(chain[f])],
         \A i \in DOMAIN chain'[f] : \E k \in DOMAIN chain[f] : chain'[f][i] = chain[f][k]
  PROVE  FollowInv(f)'
  BY DEF FollowInv, Scope, EndsDisabled, EndsEnabled, Awaited, Aborted, Current

LEMMA TailChain ==
  ASSUME NEW R, NEW c \in Seq(R), Len(c) > 1
  PROVE  /\ Tail(c) \in Seq(R) /\ Tail(c) # <<>>
         /\ Tail(c)[Len(Tail(c))] = c[Len(c)]
         /\ \A i \in DOMAIN Tail(c) : \E k \in DOMAIN c : Tail(c)[i] = c[k]
  <1>1. Len(c) \in Nat /\ DOMAIN c = 1 .. Len(c) /\ c # <<>>
    OBVIOUS
  <1>2. /\ Tail(c) \in Seq(R) /\ Len(Tail(c)) = Len(c) - 1
        /\ \A i \in 1 .. Len(Tail(c)) : Tail(c)[i] = c[i + 1]
    BY <1>1, HeadTailProperties
  <1>3. DOMAIN Tail(c) = 1 .. (Len(c) - 1)
    BY <1>2
  <1>4. \A i \in 1 .. (Len(c) - 1) : i + 1 \in DOMAIN c /\ Tail(c)[i] = c[i + 1]
    BY <1>1, <1>2
  <1>5. Len(c) - 1 \in 1 .. (Len(c) - 1) /\ (Len(c) - 1) + 1 = Len(c)
    BY <1>1
  <1>. QED
    BY <1>2, <1>3, <1>4, <1>5

LEMMA SupersededKeeps ==
  ASSUME IInv, NEW f \in Features, Superseded(f)
  PROVE  IInv'
  <1>. DEFINE x == Job("begin", f, 3)
  <1>1. /\ micro # <<>> /\ Head(micro).who = f /\ Len(chain[f]) > 1
        /\ chain' = [chain EXCEPT ![f] = Tail(@)] /\ micro' = Append(Tail(micro), x)
        /\ NoMore /\ UNCHANGED <<status, on, refs, budget>>
    BY DEF Superseded, Next1, Who, NoMore, featureVars, bootVars, runVars, routeVars
  <1>2. chain \in [Features -> Seq(Requested)] /\ chain[f] \in Seq(Requested) /\ chain[f] # <<>>
    BY <1>1, FeatureJob DEF IInv, TypeOK, TaskType
  <1>3. /\ Tail(chain[f]) \in Seq(Requested) /\ Tail(chain[f]) # <<>>
        /\ Tail(chain[f])[Len(Tail(chain[f]))] = chain[f][Len(chain[f])]
        /\ \A i \in DOMAIN Tail(chain[f]) : \E k \in DOMAIN chain[f] : Tail(chain[f])[i] = chain[f][k]
    BY <1>1, <1>2, TailChain
  <1>4. /\ chain'[f] = Tail(chain[f]) /\ chain' \in [Features -> Seq(Requested)]
        /\ \A g \in Features \ {f} : chain'[g] = chain[g]
    BY <1>1, <1>2, <1>3
  <1>5. x \in Jobs /\ x.who = f /\ x.do = "begin"
    BY DEF Job, Jobs
  <1>6. BudgetType' /\ FeatureType'
    BY <1>1 DEF IInv, TypeOK, BudgetType, FeatureType, NoMore
  <1>7. tear # "features"
    BY <1>1, <1>2 DEF IInv, LeaveInv
  <1>8. Observed => FollowInv(f)'
    BY <1>1, <1>2, <1>3, <1>4, FollowUnder DEF IInv, NoMore, runVars, routeVars, bootVars
  <1>. HIDE DEF x
  <1>9. UNCHANGED <<budget.moves, budget.hides>>
    BY <1>1
  <1>10. \A g \in Features \ {f} :
           chain'[g] = chain[g] /\ status'[g] = status[g] /\ (g \in on' <=> g \in on)
    BY <1>1, <1>4
  <1>11. \E y \in Jobs :
              /\ micro' = Append(Tail(micro), y) /\ chain'[f] # <<>>
              /\ y.who = f /\ y.do \in {"begin", "handle", "finish", "fail"}
              /\ y.do = "fail" => chain'[f][1].action = "enable"
              /\ y.do = "finish" => (f \in on' <=> chain'[f][1].action = "enable")
    BY <1>1, <1>3, <1>4, <1>5
  <1>. QED
    BY <1>1, <1>3, <1>4, <1>6, <1>7, <1>8, <1>9, <1>10, <1>11, TransitionKeeps

LEMMA BeginKeeps ==
  ASSUME IInv, NEW f \in Features, Begin(f)
  PROVE  IInv'
  <1>. DEFINE x == Job("handle", f, 0)
  <1>1. /\ micro # <<>> /\ Head(micro).who = f /\ micro' = Append(Tail(micro), x)
        /\ NoMore /\ UNCHANGED <<chain, status, on, refs, budget>>
    BY DEF Begin, Next1, Who, NoMore, featureVars, bootVars, runVars, routeVars
  <1>2. chain' \in [Features -> Seq(Requested)] /\ chain'[f] # <<>>
    BY <1>1, FeatureJob DEF IInv, TypeOK, TaskType
  <1>5. x \in Jobs /\ x.who = f /\ x.do = "handle"
    BY DEF Job, Jobs
  <1>6. BudgetType' /\ FeatureType'
    BY <1>1 DEF IInv, TypeOK, BudgetType, FeatureType, NoMore
  <1>7. tear = "features" =>
           /\ chain'[f] # <<>> => chain'[f] = <<Transition("disable", 0)>>
           /\ chain'[f] = <<>> => f \notin on'
    BY <1>1 DEF IInv, LeaveInv
  <1>8. Observed => FollowInv(f)'
    BY <1>1, FollowStays DEF IInv, NoMore, runVars, routeVars, bootVars
  <1>. HIDE DEF x
  <1>11. \E y \in Jobs :
              /\ micro' = Append(Tail(micro), y) /\ chain'[f] # <<>>
              /\ y.who = f /\ y.do \in {"begin", "handle", "finish", "fail"}
              /\ y.do = "fail" => chain'[f][1].action = "enable"
              /\ y.do = "finish" => (f \in on' <=> chain'[f][1].action = "enable")
    BY <1>1, <1>2, <1>5
  <1>. QED
    BY <1>1, <1>2, <1>6, <1>7, <1>8, <1>11, TransitionKeeps

LEMMA StyleCounts ==
  ASSUME refs \in [Styles -> Nat], NEW f \in Features
  PROVE  Acquired(f) \in [Styles -> Nat] /\ Released(f) \in [Styles -> Nat]
  <1>1. f \in DOMAIN StyleOf => StyleOf[f] \in Styles
    BY LifecycleAssumption
  <1>2. CASE f \in DOMAIN StyleOf
    <2>. DEFINE s == StyleOf[f]
    <2>1. s \in Styles /\ refs[s] \in Nat
      BY <1>1, <1>2
    <2>2. [refs EXCEPT ![s] = @ + 1] \in [Styles -> Nat]
      BY <2>1
    <2>3. refs[s] > 0 => [refs EXCEPT ![s] = @ - 1] \in [Styles -> Nat]
      BY <2>1
    <2>. QED
      BY <1>2, <2>2, <2>3 DEF Acquired, Released
  <1>3. CASE f \notin DOMAIN StyleOf
    BY <1>3 DEF Acquired, Released
  <1>. QED BY <1>2, <1>3

LEMMA Spending ==
  ASSUME BudgetType, Spend("faults", MaxFaults)
  PROVE  BudgetType' /\ UNCHANGED <<budget.moves, budget.edits, budget.hides>>
  BY LifecycleAssumption DEF BudgetType, Spend

\* The handler has done its part: x is what is left to do.
LEMMA HandledKeeps ==
  ASSUME IInv, NEW f \in Features, micro # <<>>, Head(micro).who = f, NoMore,
         UNCHANGED <<chain, status, budget.moves, budget.hides>>, BudgetType',
         NEW do \in {"finish", "fail"}, micro' = Append(Tail(micro), Job(do, f, 1)),
         do = "fail" => chain[f][1].action = "enable",
         \/ chain[f][1].action = "enable" /\ on' = on \cup {f} /\ refs' = Acquired(f)
         \/ chain[f][1].action # "enable" /\ on' = on \ {f} /\ refs' = Released(f)
  PROVE  IInv'
  <1>. DEFINE x == Job(do, f, 1)
  <1>2. chain' \in [Features -> Seq(Requested)] /\ chain'[f] # <<>> /\ chain[f] # <<>>
    BY FeatureJob DEF IInv, TypeOK, TaskType
  <1>3. x \in Jobs /\ x.who = f /\ x.do = do
    BY DEF Job, Jobs
  <1>4. f \in on' <=> chain'[f][1].action = "enable"
    OBVIOUS
  <1>5. FeatureType'
    <2>1. refs' \in [Styles -> Nat]
      BY StyleCounts DEF IInv, TypeOK, FeatureType
    <2>2. on' \subseteq Features
      BY DEF IInv, TypeOK, FeatureType
    <2>. QED
      BY <2>1, <2>2 DEF IInv, TypeOK, FeatureType, NoMore
  <1>6. \A g \in Features \ {f} :
          chain'[g] = chain[g] /\ status'[g] = status[g] /\ (g \in on' <=> g \in on)
    OBVIOUS
  <1>7. tear = "features" =>
           /\ chain'[f] # <<>> => chain'[f] = <<Transition("disable", 0)>>
           /\ chain'[f] = <<>> => f \notin on'
    BY <1>2 DEF IInv, LeaveInv
  <1>8. Observed => FollowInv(f)'
    BY <1>2, FollowUnder DEF IInv, NoMore, runVars, routeVars, bootVars
  <1>. HIDE DEF x
  <1>9. \E y \in Jobs :
              /\ micro' = Append(Tail(micro), y) /\ chain'[f] # <<>>
              /\ y.who = f /\ y.do \in {"begin", "handle", "finish", "fail"}
              /\ y.do = "fail" => chain'[f][1].action = "enable"
              /\ y.do = "finish" => (f \in on' <=> chain'[f][1].action = "enable")
    BY <1>2, <1>3, <1>4 DEF x
  <1>. QED
    BY <1>2, <1>5, <1>6, <1>7, <1>8, <1>9, TransitionKeeps

LEMMA HandleKeeps ==
  ASSUME IInv, NEW f \in Features, Handle(f)
  PROVE  IInv'
  <1>1. /\ micro # <<>> /\ Head(micro).who = f /\ NoMore
        /\ micro' = Append(Tail(micro), Job("finish", f, 1))
        /\ UNCHANGED <<chain, status, budget>>
    BY DEF Handle, Next1, Who, NoMore, bootVars, runVars, routeVars
  <1>2. Head(chain[f]) = chain[f][1]
    BY <1>1, FeatureJob DEF IInv
  <1>3. \/ chain[f][1].action = "enable" /\ on' = on \cup {f} /\ refs' = Acquired(f)
        \/ chain[f][1].action # "enable" /\ on' = on \ {f} /\ refs' = Released(f)
    BY <1>2 DEF Handle
  <1>4. BudgetType' /\ UNCHANGED <<budget.moves, budget.hides>>
    BY <1>1 DEF IInv, TypeOK, BudgetType
  <1>. QED
    BY <1>1, <1>3, <1>4, HandledKeeps

LEMMA HandlerThrowsKeeps ==
  ASSUME IInv, NEW f \in Features, HandlerThrows(f)
  PROVE  IInv'
  <1>1. /\ micro # <<>> /\ Head(micro).who = f /\ NoMore
        /\ micro' = Append(Tail(micro), Job("fail", f, 1))
        /\ UNCHANGED <<chain, status>> /\ Spend("faults", MaxFaults)
    BY DEF HandlerThrows, Next1, Who, NoMore, bootVars, runVars, routeVars
  <1>2. Head(chain[f]) = chain[f][1]
    BY <1>1, FeatureJob DEF IInv
  <1>3. chain[f][1].action = "enable" /\ on' = on \cup {f} /\ refs' = Acquired(f)
    BY <1>2 DEF HandlerThrows
  <1>4. BudgetType' /\ UNCHANGED <<budget.moves, budget.hides>>
    BY <1>1, Spending DEF IInv, TypeOK
  <1>. QED
    BY <1>1, <1>3, <1>4, HandledKeeps

\* The last transition of f settles as it was meant to: its route goes on.
LEMMA LastFinishes ==
  ASSUME IInv, NEW f \in Features, Finish(f), Len(chain[f]) = 1
  PROVE  /\ chain'[f] = <<>> /\ micro' = Tail(micro)
         /\ status'[f] = IF micro[1].do = "fail" THEN "failing"
                         ELSE IF chain[f][1].action = "enable" THEN "running" ELSE "disabled"
         /\ micro[1].do \in {"finish", "fail"}
  <1>1. /\ micro # <<>> /\ Head(micro).who = f /\ Head(micro).do \in {"finish", "fail"}
        /\ Head(micro).hops = 0
    BY DEF Finish, Next1, Who
  <1>2. /\ chain[f] # <<>> /\ chain[f] \in Seq(Requested) /\ Head(chain[f]) = chain[f][1]
        /\ 1 \in DOMAIN chain[f]
    BY <1>1, FeatureJob DEF IInv
  <1>3. ~Aborted(chain[f][1].route)
    BY <1>2 DEF IInv, RouteInv, Aborted, Current
  <1>4. Head(micro) = micro[1]
    BY <1>1, HeadJob DEF IInv
  <1>5. Next1("fail") <=> micro[1].do = "fail"
    BY <1>1, <1>4 DEF Next1
  <1>6. chain \in [Features -> Seq(Requested)] /\ status \in [Features -> {"disabled", "running", "failing"}]
    BY DEF IInv, TypeOK, TaskType, FeatureType
  <1>7. status'[f] = IF Next1("fail") THEN "failing"
                     ELSE IF chain[f][1].action = "enable" THEN "running" ELSE "disabled"
    BY <1>2, <1>3, <1>6 DEF Finish
  <1>8. chain'[f] = Tail(chain[f]) /\ Tail(chain[f]) = <<>>
    BY <1>2, <1>6 DEF Finish
  <1>9. micro' = Tail(micro)
    <2>1. micro' = Tail(micro) \o <<>>
      BY <1>2 DEF Finish
    <2>2. micro \in Seq(Jobs) /\ Tail(micro) \in Seq(Jobs)
      BY <1>1 DEF IInv, TypeOK, TaskType
    <2>. QED BY <2>1, <2>2
  <1>. QED
    BY <1>1, <1>4, <1>5, <1>7, <1>8, <1>9

LEMMA FinishKeeps ==
  ASSUME IInv, NEW f \in Features, Finish(f)
  PROVE  IInv'
  <1>1. /\ micro # <<>> /\ Head(micro).who = f /\ NoMore /\ UNCHANGED <<on, refs, budget>>
    BY DEF Finish, Next1, Who, NoMore, bootVars, runVars, routeVars
  <1>2. /\ chain[f] # <<>> /\ chain[f] \in Seq(Requested) /\ Head(chain[f]) = chain[f][1]
        /\ Len(chain[f]) \in Nat \ {0} /\ DOMAIN chain[f] = 1 .. Len(chain[f])
    BY <1>1, FeatureJob DEF IInv
  <1>3. /\ chain \in [Features -> Seq(Requested)]
        /\ status \in [Features -> {"disabled", "running", "failing"}]
    BY DEF IInv, TypeOK, TaskType, FeatureType
  <1>4. \E s \in {"disabled", "running", "failing"} : status' = [status EXCEPT ![f] = s]
    BY DEF Finish
  <1>5. chain' = [chain EXCEPT ![f] = Tail(@)]
    BY DEF Finish
  <1>6. BudgetType' /\ UNCHANGED <<budget.moves, budget.hides>>
    BY <1>1 DEF IInv, TypeOK, BudgetType
  <1>7. FeatureType'
    BY <1>1, <1>3, <1>4 DEF IInv, TypeOK, FeatureType, NoMore
  <1>8. chain' \in [Features -> Seq(Requested)]
    BY <1>2, <1>3, <1>5
  <1>9. \A g \in Features \ {f} :
           chain'[g] = chain[g] /\ status'[g] = status[g] /\ (g \in on' <=> g \in on)
    BY <1>1, <1>3, <1>4, <1>5
  <1>10. CASE Len(chain[f]) > 1
    <2>. DEFINE x == Job("begin", f, 2)
    <2>1. x \in Jobs /\ x.who = f /\ x.do = "begin"
      BY DEF Job, Jobs
    <2>2. micro' = Append(Tail(micro), x)
      <3>1. micro' = Tail(micro) \o <<x>>
        BY <1>10 DEF Finish
      <3>2. Tail(micro) \in Seq(Jobs)
        BY <1>1 DEF IInv, TypeOK, TaskType
      <3>. HIDE DEF x
      <3>. QED BY <2>1, <3>1, <3>2
    <2>3. chain'[f] = Tail(chain[f])
      BY <1>3, <1>5
    <2>4. /\ chain'[f] # <<>>
          /\ chain'[f][Len(chain'[f])] = chain[f][Len(chain[f])]
          /\ \A i \in DOMAIN chain'[f] : \E k \in DOMAIN chain[f] : chain'[f][i] = chain[f][k]
      BY <1>2, <1>10, <2>3, TailChain
    <2>5. tear # "features"
      <3>1. tear = "features" => chain[f] = <<Transition("disable", 0)>>
        BY <1>2 DEF IInv, LeaveInv
      <3>2. \A t : Len(<<t>>) = 1
        OBVIOUS
      <3>3. tear = "features" => Len(chain[f]) = 1
        BY <3>1, <3>2
      <3>4. Len(chain[f]) # 1
        <4>1. \A n : n > 1 => n # 1
          OBVIOUS
        <4>. QED BY <1>10, <4>1, Zenon
      <3>. QED BY <3>3, <3>4
    <2>6. Observed => FollowInv(f)'
      BY <1>1, <1>2, <2>4, FollowUnder DEF IInv, NoMore, runVars, routeVars, bootVars
    <2>. HIDE DEF x
    <2>7. \E y \in Jobs :
              /\ micro' = Append(Tail(micro), y) /\ chain'[f] # <<>>
              /\ y.who = f /\ y.do \in {"begin", "handle", "finish", "fail"}
              /\ y.do = "fail" => chain'[f][1].action = "enable"
              /\ y.do = "finish" => (f \in on' <=> chain'[f][1].action = "enable")
      BY <2>1, <2>2, <2>4
    <2>. QED
      BY <1>1, <1>6, <1>7, <1>8, <1>9, <2>4, <2>5, <2>6, <2>7, TransitionKeeps
  <1>11. CASE Len(chain[f]) = 1
    <2>1. /\ chain'[f] = <<>> /\ micro' = Tail(micro)
          /\ status'[f] = IF micro[1].do = "fail" THEN "failing"
                          ELSE IF chain[f][1].action = "enable" THEN "running" ELSE "disabled"
          /\ micro[1].do \in {"finish", "fail"}
      BY <1>11, LastFinishes
    <2>2. 1 \in DOMAIN micro /\ micro[1].who = f
      BY <1>1, FeatureJob, HeadJob DEF IInv
    <2>3. /\ micro[1].do = "fail" => chain[f][1].action = "enable"
          /\ micro[1].do = "finish" => (f \in on <=> chain[f][1].action = "enable")
      BY <2>2 DEF IInv, HandledInv
    <2>4. chain[f][1].action \in {"enable", "disable"}
      <3>1. chain[f][1] \in Requested
        BY <1>2
      <3>. QED BY <3>1 DEF Requested
    <2>5. tear = "features" => f \notin on
      <3>1. tear = "features" => chain[f][1].action = "disable"
        BY <1>2 DEF IInv, LeaveInv, Transition
      <3>. QED BY <2>1, <2>3, <3>1
    <2>6. ASSUME Observed PROVE FollowInv(f)'
      <3>1. FollowInv(f)
        BY <2>6 DEF IInv
      <3>2. (status'[f] = "running" => f \in on') /\ (status'[f] = "disabled" => f \notin on')
        BY <1>1, <2>1, <2>3, <2>4
      <3>3. chain[f][1].action = "disable" => status'[f] = "disabled"
        BY <2>1, <2>3
      <3>4. chain[f][1].action = "enable" => status'[f] # "disabled"
        BY <2>1, <2>3
      <3>5. UNCHANGED <<flags, want, timers, tear, notice, cut, gen, main, loader>>
        BY <1>1 DEF NoMore, runVars, routeVars, bootVars
      <3>6. Scope' = Scope /\ (Awaited(f)' <=> Awaited(f))
        BY <3>5 DEF Scope, Awaited, Aborted, Current
      <3>7. f \notin Scope => status'[f] = "disabled"
        BY <1>2, <3>1, <3>3 DEF FollowInv
      <3>8. f \notin want \cup timers /\ tear = "none" => status'[f] = "disabled"
        BY <1>2, <1>11, <3>1, <3>3 DEF FollowInv, EndsDisabled
      <3>9. /\ f \in want \cap Scope /\ f \notin timers
            /\ tear = "none" /\ notice = 0 /\ ~cut /\ main \in {"loading", "done"} /\ ~Awaited(f)
            => status'[f] # "disabled"
        BY <1>2, <1>11, <3>1, <3>4 DEF FollowInv, EndsEnabled
      <3>. QED
        BY <2>1, <3>2, <3>5, <3>6, <3>7, <3>8, <3>9 DEF FollowInv, EndsDisabled, EndsEnabled
    <2>7. \A i \in DOMAIN chain'[f] : \E k \in DOMAIN chain[f] : chain'[f][i] = chain[f][k]
      BY <2>1
    <2>8. tear = "features" =>
           /\ chain'[f] # <<>> => chain'[f] = <<Transition("disable", 0)>>
           /\ chain'[f] = <<>> => f \notin on'
      BY <1>1, <2>1, <2>5
    <2>. QED
      BY <1>1, <1>6, <1>7, <1>8, <1>9, <2>1, <2>6, <2>7, <2>8, TransitionKeeps
  <1>12. Len(chain[f]) > 1 \/ Len(chain[f]) = 1
    <2>1. Len(chain[f]) \in Nat \ {0}
      BY <1>2
    <2>2. \A n \in Nat \ {0} : n > 1 \/ n = 1
      OBVIOUS
    <2>. QED BY <2>1, <2>2, Zenon
  <1>. QED
    BY <1>10, <1>11, <1>12

\* A job that only passes a promise's value on.
LEMMA HopKeeps ==
  ASSUME IInv, Hop
  PROVE  IInv'
  <1>1. /\ micro # <<>> /\ Head(micro).hops > 0
        /\ NoMore /\ UNCHANGED <<chain, status, on, refs, budget>>
    BY DEF Hop, NoMore, featureVars, bootVars, runVars, routeVars
  <1>2. /\ micro \in Seq(Jobs) /\ Distinct(micro) /\ Head(micro) = micro[1]
        /\ micro[1] \in Jobs /\ Shape(micro[1]) /\ 1 \in DOMAIN micro
    BY <1>1, HeadJob DEF IInv, TypeOK, TaskType, JobInv
  <1>3. notice = 0 /\ micro[1].who # "route"
    <2>1. notice # 0 => micro[1].hops = 0
      BY DEF IInv, JobInv, RouteJob, Job
    <2>2. notice = 0
      BY <1>1, <1>2, <2>1
    <2>. QED BY <1>2, <2>2 DEF IInv, JobInv, Has
  <1>4. /\ JobInv' /\ micro' \in Seq(Jobs)
        /\ Ahead(micro) => Ahead(micro')
        /\ \A i \in DOMAIN micro' : \E k \in DOMAIN micro :
             micro'[i].who = micro[k].who /\ micro'[i].do = micro[k].do
    <2>1. CASE \E rounds \in {micro[i].hops : i \in DOMAIN micro} \ {0} :
          /\ \A i \in DOMAIN micro : rounds <= micro[i].hops
          /\ micro' = [i \in DOMAIN micro |-> [micro[i] EXCEPT !.hops = @ - rounds]]
      <3>1. PICK rounds \in {micro[i].hops : i \in DOMAIN micro} \ {0} :
          /\ \A i \in DOMAIN micro : rounds <= micro[i].hops
          /\ micro' = [i \in DOMAIN micro |-> [micro[i] EXCEPT !.hops = @ - rounds]]
        BY <2>1
      <3>2. rounds \in 1 .. 11
        <4>1. PICK i \in DOMAIN micro : rounds = micro[i].hops
          OBVIOUS
        <4>2. micro[i] \in Jobs
          BY <1>2
        <4>3. micro[i].hops \in 0 .. 11
          BY <4>2 DEF Jobs
        <4>. QED BY <4>1, <4>3
      <3>3. \A i \in DOMAIN micro :
              /\ micro'[i] \in Jobs /\ micro'[i].who = micro[i].who /\ micro'[i].do = micro[i].do
              /\ micro'[i].hops = micro[i].hops - rounds /\ micro[i].hops \in Nat
        <4>. TAKE i \in DOMAIN micro
        <4>. DEFINE j == micro[i]
                    e == [j EXCEPT !.hops = @ - rounds]
        <4>1. j \in Jobs /\ rounds <= j.hops /\ micro'[i] = e
          BY <1>2, <3>1
        <4>. HIDE DEF j
        <4>2. e \in Jobs /\ e.who = j.who /\ e.do = j.do /\ e.hops = j.hops - rounds /\ j.hops \in Nat
          BY <3>2, <4>1 DEF Jobs
        <4>. HIDE DEF e
        <4>. QED BY <4>1, <4>2 DEF j
      <3>4. DOMAIN micro' = DOMAIN micro /\ Len(micro) \in Nat /\ DOMAIN micro = 1 .. Len(micro)
        BY <1>2, <3>1
      <3>5. micro' \in Seq(Jobs)
        <4>1. micro' \in [1 .. Len(micro) -> Jobs]
          BY <3>1, <3>3, <3>4
        <4>. QED BY <3>4, <4>1
      <3>6. Distinct(micro') /\ \A w : Has(micro', w) <=> Has(micro, w)
        BY <1>2, <3>3, <3>4 DEF Distinct, Has
      <3>7. \A i \in DOMAIN micro' : Shape(micro'[i])
        BY <3>3, <3>4 DEF Shape, IInv, JobInv
      <3>8. JobInv'
        BY <1>1, <1>3, <3>6, <3>7 DEF IInv, JobInv, NoMore, bootVars
      <3>9. Ahead(micro) => Ahead(micro')
        BY <3>2, <3>3, <3>4 DEF Ahead
      <3>. QED BY <3>3, <3>4, <3>5, <3>8, <3>9
    <2>2. CASE micro' = Append(Tail(micro), [Head(micro) EXCEPT !.hops = @ - 1])
      <3>. DEFINE x == [Head(micro) EXCEPT !.hops = @ - 1]
      <3>1. /\ x \in Jobs /\ x.who = micro[1].who /\ x.do = micro[1].do
            /\ x.hops = micro[1].hops - 1 /\ micro[1].hops > 0
        BY <1>1, <1>2 DEF Jobs
      <3>2. Shape(x) /\ x.who # "route"
        BY <1>2, <1>3, <3>1 DEF Shape
      <3>3. micro' = Append(Tail(micro), x)
        BY <2>2
      <3>. HIDE DEF x
      <3>4. UNCHANGED <<chain, notice, fast, main>>
        BY <1>1 DEF NoMore, bootVars
      <3>5. JobInv' /\ micro' \in Seq(Jobs)
        BY <1>1, <3>1, <3>2, <3>3, <3>4, AdvanceJobs DEF IInv
      <3>6. Ahead(micro) => Ahead(micro')
        BY <1>1, <1>2, <3>1, <3>3, AheadAdvance
      <3>7. \A i \in DOMAIN micro' : \E k \in DOMAIN micro :
             micro'[i].who = micro[k].who /\ micro'[i].do = micro[k].do
        <4>1. /\ Len(micro') = Len(micro) /\ micro'[Len(micro)] = x
              /\ \A i \in 1 .. (Len(micro) - 1) : micro'[i] = micro[i + 1]
          BY <1>1, <1>2, <3>1, <3>3, AdvanceSeq
        <4>. TAKE i \in DOMAIN micro'
        <4>2. Len(micro) \in Nat /\ DOMAIN micro = 1 .. Len(micro) /\ i \in 1 .. Len(micro)
          BY <1>2, <3>5, <4>1
        <4>3. CASE i = Len(micro)
          BY <1>2, <3>1, <4>1, <4>3
        <4>4. CASE i # Len(micro)
          <5>1. i \in 1 .. (Len(micro) - 1) /\ i + 1 \in DOMAIN micro
            BY <4>2, <4>4
          <5>. QED BY <4>1, <5>1
        <4>. QED BY <4>3, <4>4
      <3>. QED BY <3>5, <3>6, <3>7
    <2>. QED
      BY <2>1, <2>2 DEF Hop
  <1>5. TypeOK'
    <2>1. FeatureType' /\ BudgetType'
      BY <1>1 DEF IInv, TypeOK, FeatureType, BudgetType, NoMore
    <2>2. chain' \in [Features -> Seq(Requested)]
      BY <1>1 DEF IInv, TypeOK, TaskType
    <2>. QED
      BY <1>1, <1>4, <2>1, <2>2, QueueType DEF IInv
  <1>6. BootInv' /\ GenInv' /\ RouteInv'
    BY <1>1, <1>4 DEF IInv, BootInv, GenInv, RouteInv, NoMore, bootVars, runVars, routeVars
  <1>7. LeaveInv'
    BY <1>1 DEF IInv, LeaveInv, NoMore, bootVars, runVars, routeVars
  <1>8. HandledInv'
    <2>. SUFFICES ASSUME NEW i \in DOMAIN micro', micro'[i].who \in Features
                  PROVE  /\ micro'[i].do = "fail" => chain'[micro'[i].who][1].action = "enable"
                         /\ micro'[i].do = "finish" =>
                              (micro'[i].who \in on' <=> chain'[micro'[i].who][1].action = "enable")
      BY DEF HandledInv
    <2>1. PICK k \in DOMAIN micro : micro'[i].who = micro[k].who /\ micro'[i].do = micro[k].do
      BY <1>4
    <2>. QED
      BY <1>1, <2>1 DEF IInv, HandledInv
  <1>9. Observed' => FlagsInv' /\ \A f \in Features : FollowInv(f)'
    <2>1. UNCHANGED <<flags, want, timers, tear, notice, cut, gen, main, loader, fast, watching, url, loc>>
      BY <1>1 DEF NoMore, bootVars, runVars, routeVars
    <2>2. (Observed' <=> Observed) /\ (FlagsInv => FlagsInv')
      BY <2>1 DEF Observed, FlagsInv
    <2>3. ASSUME NEW f \in Features, FollowInv(f) PROVE FollowInv(f)'
      BY <1>1, <2>1, <2>3, FollowStays
    <2>. QED
      BY <2>2, <2>3 DEF IInv
  <1>. QED
    BY <1>4, <1>5, <1>6, <1>7, <1>8, <1>9 DEF IInv

-----------------------------
(* The steps of the pipelines.                                             *)

LEMMA HandledSame ==
  ASSUME HandledInv, UNCHANGED <<chain, on>>,
         \A i \in DOMAIN micro' : micro'[i].who \in Features =>
           \E k \in DOMAIN micro : micro'[i].who = micro[k].who /\ micro'[i].do = micro[k].do
  PROVE  HandledInv'
  <1>. SUFFICES ASSUME NEW i \in DOMAIN micro', micro'[i].who \in Features
                PROVE  /\ micro'[i].do = "fail" => chain[micro'[i].who][1].action = "enable"
                       /\ micro'[i].do = "finish" =>
                            (micro'[i].who \in on <=> chain[micro'[i].who][1].action = "enable")
    BY DEF HandledInv
  <1>1. PICK k \in DOMAIN micro : micro'[i].who = micro[k].who /\ micro'[i].do = micro[k].do
    OBVIOUS
  <1>. QED
    BY <1>1 DEF HandledInv

\* A pipeline goes on to its next step.
LEMMA StepOn ==
  ASSUME IInv, micro # <<>>, NEW w \in {"fast", "main"}, Head(micro).who = w,
         NEW h \in 0 .. 11, micro' = Append(Tail(micro), Job("step", w, h)),
         UNCHANGED <<chain, on, notice>>,
         fast' \in FastSteps <=> fast \in FastSteps, main' \in MainSteps <=> main \in MainSteps
  PROVE  JobInv' /\ micro' \in Seq(Jobs) /\ HandledInv' /\ notice = 0
  <1>. DEFINE x == Job("step", w, h)
  <1>1. x \in Jobs /\ x.who = w /\ x.do = "step" /\ w \notin Features
    BY LifecycleAssumption DEF Job, Jobs
  <1>2. Shape(x) /\ x.who # "route" /\ micro' = Append(Tail(micro), x)
    BY <1>1 DEF Shape
  <1>3. micro[1].who = w /\ micro \in Seq(Jobs) /\ Distinct(micro)
    BY HeadJob DEF IInv, TypeOK, TaskType, JobInv
  <1>. HIDE DEF x
  <1>4. JobInv' /\ micro' \in Seq(Jobs) /\ notice = 0
    BY <1>1, <1>2, <1>3, AdvanceJobs DEF IInv
  <1>5. /\ Len(micro') = Len(micro) /\ micro'[Len(micro)] = x
        /\ \A i \in 1 .. (Len(micro) - 1) : micro'[i] = micro[i + 1]
    BY <1>1, <1>2, <1>3, AdvanceSeq
  <1>6. ASSUME NEW i \in DOMAIN micro', micro'[i].who \in Features
        PROVE  \E k \in DOMAIN micro : micro'[i].who = micro[k].who /\ micro'[i].do = micro[k].do
    <2>1. Len(micro) \in Nat /\ DOMAIN micro = 1 .. Len(micro) /\ i \in 1 .. Len(micro)
      BY <1>3, <1>4, <1>5
    <2>2. i # Len(micro)
      BY <1>1, <1>5, <1>6
    <2>3. i \in 1 .. (Len(micro) - 1) /\ i + 1 \in DOMAIN micro
      BY <2>1, <2>2
    <2>. QED BY <1>5, <2>3
  <1>. QED
    BY <1>4, <1>6, HandledSame DEF IInv

\* It is through, or what comes next is requested separately.
LEMMA StepEnd ==
  ASSUME IInv, micro # <<>>, NEW w \in {"fast", "main"}, Head(micro).who = w
  PROVE  LET q == Tail(micro) IN
         /\ q \in Seq(Jobs) /\ Distinct(q)
         /\ \A i \in DOMAIN q : \E k \in DOMAIN micro : q[i] = micro[k]
         /\ \A v : Has(q, v) <=> Has(micro, v) /\ v # w
         /\ Ahead(micro) => Ahead(q)
         /\ notice = 0 /\ w \notin Features /\ Has(micro, w)
  <1>. DEFINE q == Tail(micro)
  <1>1. micro[1].who = w /\ micro \in Seq(Jobs) /\ Distinct(micro) /\ notice = 0 /\ Has(micro, w)
    BY HeadJob DEF IInv, TypeOK, TaskType, JobInv
  <1>2. /\ q \in Seq(Jobs) /\ Len(q) = Len(micro) - 1
        /\ \A i \in 1 .. Len(q) : q[i] = micro[i + 1]
        /\ Distinct(q)
        /\ \A v : Has(q, v) <=> Has(micro, v) /\ v # w
    BY <1>1, DropSeq
  <1>3. Ahead(micro) => Ahead(q)
    BY <1>1, AheadDrop
  <1>. HIDE DEF q
  <1>4. ASSUME NEW i \in DOMAIN q PROVE \E k \in DOMAIN micro : q[i] = micro[k]
    <2>1. i \in 1 .. Len(q) /\ i + 1 \in DOMAIN micro
      BY <1>1, <1>2
    <2>. QED BY <1>2, <2>1
  <1>5. w \notin Features
    BY LifecycleAssumption
  <1>. QED
    BY <1>1, <1>2, <1>3, <1>4, <1>5 DEF q

LEMMA StepBeginRouteKeeps ==
  ASSUME IInv, StepBeginRoute
  PROVE  IInv'
  <1>1. /\ micro # <<>> /\ Head(micro).who = "fast" /\ fast = "beginRoute" /\ fast' = "detectPage"
        /\ micro' = Append(Tail(micro), Job("step", "fast", 3))
        /\ UNCHANGED <<storage, main, hooked, watching, runtime, frozen, tear, loc, flags, notice,
                       want, timers, chain, loader, status, on, refs, budget>>
    BY DEF StepBeginRoute, Next1, Who, runVars, featureVars
  <1>2. gen = 0 /\ url = NoPage /\ main \notin {"load", "loading", "done"} /\ ~hooked /\ ~watching
    BY <1>1 DEF IInv, GenInv, BootInv
  <1>3. loc # url
    BY <1>2, LifecycleAssumption DEF IInv, TypeOK, RouteType
  <1>4. url' = loc /\ gen' = 1 /\ cut' = FALSE
    BY <1>2, <1>3 DEF StepBeginRoute, BeginRoute
  <1>5. JobInv' /\ micro' \in Seq(Jobs) /\ HandledInv' /\ notice = 0
    BY <1>1, StepOn DEF FastSteps
  <1>6. tear = "none" /\ runtime # "stopped" /\ ~frozen /\ ~cut
    BY <1>1 DEF IInv, LeaveInv, TypeOK, RunType
  <1>7. TypeOK'
    <2>1. BootType' /\ RunType' /\ FeatureType' /\ BudgetType'
      BY <1>1 DEF IInv, TypeOK, BootType, RunType, FeatureType, BudgetType
    <2>2. RouteType'
      <3>1. gen' \in 0 .. (1 + MaxMoves + MaxHides) /\ notice' \in 0 .. gen'
        BY <1>1, <1>4, <1>5, LifecycleAssumption
      <3>2. loc \in Pages /\ flags \in Pages \cup {NoPage}
        BY DEF IInv, TypeOK, RouteType
      <3>3. loc' \in Pages /\ url' \in Pages \cup {NoPage} /\ flags' \in Pages \cup {NoPage}
        BY <1>1, <1>4, <3>2
      <3>4. cut' \in BOOLEAN
        BY <1>4
      <3>. QED BY <3>1, <3>3, <3>4 DEF RouteType
    <2>3. Requested \subseteq Requested'
      BY <1>2, <1>4 DEF Requested
    <2>4. chain' \in [Features -> Seq(Requested')]
      BY <1>1, <2>3 DEF IInv, TypeOK, TaskType
    <2>5. loader' \in [left : Seq(Features), route : 0 .. gen']
      BY <1>1, <1>2, <1>4 DEF IInv, TypeOK, TaskType
    <2>. QED
      BY <1>5, <2>1, <2>2, <2>4, <2>5 DEF TypeOK, TaskType
  <1>8. BootInv'
    BY <1>1, <1>2 DEF IInv, BootInv
  <1>9. GenInv'
    BY <1>1, <1>2, <1>4, <1>6, <1>7 DEF IInv, GenInv, TypeOK, BudgetType
  <1>10. LeaveInv'
    BY <1>1, <1>4, <1>6 DEF LeaveInv
  <1>11. RouteInv'
    BY <1>1, <1>2, <1>4 DEF IInv, RouteInv
  <1>12. FlagsInv' /\ \A f \in Features : FollowInv(f)'
    <2>1. FlagsInv /\ \A f \in Features : FollowInv(f)
      BY <1>1 DEF IInv, Observed
    <2>2. FlagsInv'
      BY <1>1, <1>4, <2>1 DEF FlagsInv
    <2>3. ASSUME NEW f \in Features PROVE FollowInv(f)'
      <3>1. FollowInv(f) /\ main' \notin {"loading", "done"}
        BY <1>1, <1>2, <2>1
      <3>. QED
        BY <1>1, <3>1 DEF FollowInv, Scope, EndsDisabled
    <2>. QED BY <2>2, <2>3
  <1>. QED
    BY <1>5, <1>7, <1>8, <1>9, <1>10, <1>11, <1>12 DEF IInv

LEMMA StepHooksKeeps ==
  ASSUME IInv, StepHooks
  PROVE  IInv'
  <1>1. /\ micro # <<>> /\ Head(micro).who = "fast" /\ fast = "hooks" /\ fast' = "observer"
        /\ hooked' = TRUE
        /\ micro' = Append(Tail(micro), Job("step", "fast", 7))
        /\ UNCHANGED <<storage, main, watching, runtime, frozen, tear, url, gen, cut, loc, flags,
                       notice, want, timers, chain, loader, status, on, refs, budget>>
    BY DEF StepHooks, Next1, Who, runVars, routeVars, featureVars
  <1>2. JobInv' /\ micro' \in Seq(Jobs) /\ HandledInv' /\ notice = 0
    BY <1>1, StepOn DEF FastSteps
  <1>3. tear = "none" /\ runtime # "stopped" /\ ~frozen /\ ~cut /\ ~watching
    BY <1>1 DEF IInv, LeaveInv, BootInv, TypeOK, RunType
  <1>4. TypeOK'
    <2>1. BootType'
      BY <1>1 DEF IInv, TypeOK, BootType
    <2>2. RunType' /\ FeatureType' /\ BudgetType' /\ RouteType'
      BY <1>1 DEF IInv, TypeOK, RunType, FeatureType, BudgetType, RouteType
    <2>3. TaskType'
      BY <1>1, <1>2 DEF IInv, TypeOK, TaskType, Requested
    <2>. QED
      BY <2>1, <2>2, <2>3 DEF TypeOK
  <1>5. BootInv'
    BY <1>1, <1>3 DEF IInv, BootInv
  <1>6. GenInv'
    BY <1>1 DEF IInv, GenInv
  <1>7. LeaveInv'
    BY <1>1, <1>3 DEF LeaveInv
  <1>8. RouteInv'
    BY <1>1 DEF IInv, RouteInv
  <1>9. FlagsInv' /\ \A f \in Features : FollowInv(f)'
    <2>1. FlagsInv /\ \A f \in Features : FollowInv(f)
      BY <1>1 DEF IInv, Observed
    <2>2. FlagsInv'
      BY <1>1, <2>1 DEF FlagsInv
    <2>3. ASSUME NEW f \in Features PROVE FollowInv(f)'
      BY <1>1, <2>1, FollowStays
    <2>. QED BY <2>2, <2>3
  <1>. QED
    BY <1>2, <1>4, <1>5, <1>6, <1>7, <1>8, <1>9 DEF IInv

LEMMA StepObserverKeeps ==
  ASSUME IInv, StepObserver
  PROVE  IInv'
  <1>. DEFINE q == Tail(micro)
  <1>1. /\ micro # <<>> /\ Head(micro).who = "fast" /\ fast = "observer" /\ fast' = "done"
        /\ micro' = q
        /\ UNCHANGED <<storage, main, hooked, runtime, frozen, tear, url, gen, cut, loc, flags,
                       notice, want, timers, chain, loader, status, on, refs>>
    BY DEF StepObserver, Next1, Who, runVars, routeVars, featureVars
  <1>2. /\ watching' \in BOOLEAN
        /\ UNCHANGED <<budget.moves, budget.hides>> /\ BudgetType'
    <2>1. BudgetType
      BY DEF IInv, TypeOK
    <2>2. CASE watching' = TRUE /\ UNCHANGED budget
      BY <2>1, <2>2 DEF BudgetType
    <2>3. CASE watching' = FALSE /\ Spend("faults", MaxFaults)
      BY <2>1, <2>3, Spending
    <2>. QED BY <2>2, <2>3 DEF StepObserver
  <1>3. /\ q \in Seq(Jobs) /\ Distinct(q) /\ notice = 0
        /\ \A i \in DOMAIN q : \E k \in DOMAIN micro : q[i] = micro[k]
        /\ micro[1].who = "fast" /\ "fast" \notin Features
    BY <1>1, StepEnd, HeadJob DEF IInv
  <1>. HIDE DEF q
  <1>4. JobInv' /\ micro' \in Seq(Jobs)
    <2>1. /\ fast' \in FastSteps <=> fast \in FastSteps /\ micro[1].who # "fast"
          /\ main' \in MainSteps <=> main \in MainSteps /\ micro[1].who # "main"
      BY <1>1, <1>3 DEF FastSteps
    <2>2. \A f \in Features : chain'[f] # <<>> <=> chain[f] # <<>> /\ micro[1].who # f
      BY <1>1, <1>3
    <2>. QED BY <1>1, <1>3, <2>1, <2>2, DropJobs DEF IInv, q
  <1>5. HandledInv'
    BY <1>1, <1>3, HandledSame DEF IInv
  <1>6. tear = "none" /\ runtime # "stopped" /\ ~frozen /\ ~cut /\ hooked /\ gen # 0
    BY <1>1 DEF IInv, LeaveInv, BootInv, GenInv, TypeOK, RunType
  <1>7. TypeOK'
    <2>1. BootType'
      BY <1>1, <1>2 DEF IInv, TypeOK, BootType
    <2>2. RunType' /\ FeatureType' /\ RouteType'
      BY <1>1 DEF IInv, TypeOK, RunType, FeatureType, RouteType
    <2>3. TaskType'
      BY <1>1, <1>4 DEF IInv, TypeOK, TaskType, Requested
    <2>. QED
      BY <1>2, <2>1, <2>2, <2>3 DEF TypeOK
  <1>8. BootInv'
    BY <1>1, <1>6 DEF IInv, BootInv
  <1>9. GenInv'
    BY <1>1, <1>2 DEF IInv, GenInv
  <1>10. LeaveInv'
    BY <1>1, <1>6 DEF LeaveInv
  <1>11. RouteInv'
    BY <1>1 DEF IInv, RouteInv
  <1>12. FlagsInv' /\ \A f \in Features : FollowInv(f)'
    <2>1. FlagsInv /\ \A f \in Features : FollowInv(f)
      BY <1>1 DEF IInv, Observed
    <2>2. FlagsInv'
      BY <1>1, <2>1 DEF FlagsInv
    <2>3. ASSUME NEW f \in Features PROVE FollowInv(f)'
      BY <1>1, <2>1, FollowStays
    <2>. QED BY <2>2, <2>3
  <1>. QED
    BY <1>4, <1>5, <1>7, <1>8, <1>9, <1>10, <1>11, <1>12 DEF IInv

\* The page is detected: for the first time, or it is the same.
LEMMA FollowDetected ==
  ASSUME IInv, NEW f \in Features, FollowInv(f), flags' = loc, flags = loc \/ flags = NoPage,
         (flags = loc /\ main' = main) \/ main' \notin {"loading", "done"},
         UNCHANGED <<want, timers, tear, notice, cut, gen, loader, chain, status, on>>
  PROVE  FollowInv(f)'
  <1>1. f \notin Scope' => f \notin Scope
    BY DEF Scope
  <1>2. (EndsDisabled(f)' <=> EndsDisabled(f)) /\ (EndsEnabled(f)' <=> EndsEnabled(f))
        /\ (Awaited(f)' <=> Awaited(f))
    BY DEF EndsDisabled, EndsEnabled, Awaited, Aborted, Current
  <1>3. f \in want' \cap Scope' /\ main' \in {"loading", "done"} => f \in want \cap Scope /\ main \in {"loading", "done"}
    BY DEF Scope
  <1>. QED
    BY <1>1, <1>2, <1>3 DEF FollowInv

LEMMA StepDetectFastKeeps ==
  ASSUME IInv, StepDetectPage("fast")
  PROVE  IInv'
  <1>1. /\ micro # <<>> /\ Head(micro).who = "fast" /\ fast = "detectPage" /\ fast' = "hooks"
        /\ micro' = Append(Tail(micro), Job("step", "fast", 7))
        /\ UNCHANGED <<storage, main, hooked, watching, runtime, frozen, tear, url, gen, cut, loc,
                       notice, want, timers, chain, loader, status, on, refs, budget>>
    BY DEF StepDetectPage, Next1, Who, runVars, routeVars, featureVars
  <1>2. JobInv' /\ micro' \in Seq(Jobs) /\ HandledInv' /\ notice = 0
    BY <1>1, StepOn DEF FastSteps
  <1>3. tear = "none" /\ runtime # "stopped" /\ ~frozen /\ ~cut /\ ~watching /\ gen # 0 /\ ~hooked
    BY <1>1 DEF IInv, LeaveInv, BootInv, GenInv, TypeOK, RunType
  <1>4. flags' = loc
    BY <1>3 DEF StepDetectPage, Detect
  <1>5. TypeOK'
    <2>1. BootType'
      BY <1>1 DEF IInv, TypeOK, BootType
    <2>2. RunType' /\ FeatureType' /\ BudgetType' /\ RouteType'
      BY <1>1, <1>4 DEF IInv, TypeOK, RunType, FeatureType, BudgetType, RouteType
    <2>3. TaskType'
      BY <1>1, <1>2 DEF IInv, TypeOK, TaskType, Requested
    <2>. QED
      BY <2>1, <2>2, <2>3 DEF TypeOK
  <1>6. BootInv'
    BY <1>1, <1>3 DEF IInv, BootInv
  <1>7. GenInv'
    BY <1>1 DEF IInv, GenInv
  <1>8. LeaveInv'
    BY <1>1, <1>3 DEF LeaveInv
  <1>9. RouteInv'
    BY <1>1 DEF IInv, RouteInv
  <1>10. FlagsInv' /\ \A f \in Features : FollowInv(f)'
    <2>1. FlagsInv /\ \A f \in Features : FollowInv(f)
      BY <1>1 DEF IInv, Observed
    <2>2. FlagsInv'
      BY <1>1, <1>3, <1>4, <2>1 DEF FlagsInv
    <2>3. (flags = loc /\ main' = main) \/ (flags = NoPage /\ main' \notin {"loading", "done"})
      BY <1>1, <1>2, <2>1 DEF FlagsInv
    <2>4. ASSUME NEW f \in Features PROVE FollowInv(f)'
      BY <1>1, <1>4, <2>1, <2>3, FollowDetected
    <2>. QED BY <2>2, <2>4
  <1>. QED
    BY <1>2, <1>5, <1>6, <1>7, <1>8, <1>9, <1>10 DEF IInv

LEMMA StepDetectMainKeeps ==
  ASSUME IInv, StepDetectPage("main")
  PROVE  IInv'
  <1>1. /\ micro # <<>> /\ Head(micro).who = "main" /\ main = "detectPage" /\ main' = "load"
        /\ Head(micro).hops = 0
        /\ micro' = Append(Tail(micro), Job("step", "main", 11))
        /\ UNCHANGED <<storage, fast, hooked, watching, runtime, frozen, tear, url, gen, cut, loc,
                       notice, want, timers, chain, loader, status, on, refs, budget>>
    BY DEF StepDetectPage, Next1, Who, runVars, routeVars, featureVars
  <1>2. JobInv' /\ micro' \in Seq(Jobs) /\ HandledInv' /\ notice = 0
    BY <1>1, StepOn DEF MainSteps
  <1>3. fast # "storage" /\ fast # "beginRoute"
    <2>1. fast # "storage"
      BY <1>1 DEF IInv, BootInv, TypeOK, BootType
    <2>2. ASSUME fast = "beginRoute" PROVE FALSE
      <3>1. Ahead(micro) /\ Has(micro, "fast")
        BY <2>2 DEF IInv, BootInv, JobInv, FastSteps
      <3>2. PICK i \in DOMAIN micro : micro[i].who = "fast"
        BY <3>1 DEF Has
      <3>3. micro[1].who = "main" /\ micro[1].hops = 0 /\ 1 \in DOMAIN micro /\ micro \in Seq(Jobs)
        BY <1>1, HeadJob DEF IInv, TypeOK, TaskType
      <3>4. i \in Nat /\ 1 < i
        BY <3>2, <3>3
      <3>5. micro[i] \in Jobs
        BY <3>3
      <3>6. micro[i].hops \in Nat
        BY <3>5 DEF Jobs
      <3>7. micro[i].hops < 0
        BY <3>1, <3>2, <3>3, <3>4 DEF Ahead
      <3>. QED BY <3>6, <3>7
    <2>. QED BY <2>1, <2>2
  <1>4. tear # "features" /\ ~frozen
    BY <1>1 DEF IInv, LeaveInv, MainSteps
  <1>5. TypeOK'
    <2>1. BootType'
      BY <1>1 DEF IInv, TypeOK, BootType
    <2>2. RunType' /\ FeatureType' /\ BudgetType'
      BY <1>1 DEF IInv, TypeOK, RunType, FeatureType, BudgetType
    <2>3. RouteType'
      <3>1. flags' = flags \/ flags' = loc
        BY DEF StepDetectPage, Detect
      <3>. QED BY <1>1, <3>1 DEF IInv, TypeOK, RouteType
    <2>4. TaskType'
      BY <1>1, <1>2 DEF IInv, TypeOK, TaskType, Requested
    <2>. QED
      BY <2>1, <2>2, <2>3, <2>4 DEF TypeOK
  <1>6. BootInv'
    BY <1>1, <1>3 DEF IInv, BootInv
  <1>7. GenInv'
    BY <1>1 DEF IInv, GenInv
  <1>8. LeaveInv'
    BY <1>1, <1>4 DEF IInv, LeaveInv
  <1>9. RouteInv'
    BY <1>1 DEF IInv, RouteInv
  <1>10. ASSUME Observed
         PROVE  FlagsInv' /\ \A f \in Features : FollowInv(f)'
    <2>1. FlagsInv /\ \A f \in Features : FollowInv(f)
      BY <1>10 DEF IInv
    <2>2. gen # 0 /\ ~cut
      <3>1. fast # "failed"
        BY <1>10 DEF Observed, IInv, BootInv
      <3>2. tear = "none"
        BY <1>4, <1>10 DEF Observed, IInv, LeaveInv, TypeOK, RunType
      <3>. QED
        BY <1>3, <1>4, <3>1, <3>2 DEF IInv, GenInv, LeaveInv, TypeOK, RouteType
    <2>3. flags' = loc
      BY <2>2 DEF StepDetectPage, Detect
    <2>4. FlagsInv'
      BY <1>1, <2>1, <2>2, <2>3 DEF FlagsInv
    <2>5. flags = loc \/ flags = NoPage
      BY <1>2, <2>1 DEF FlagsInv
    <2>6. ASSUME NEW f \in Features PROVE FollowInv(f)'
      BY <1>1, <2>1, <2>3, <2>5, FollowDetected
    <2>. QED BY <2>4, <2>6
  <1>11. Observed' <=> Observed
    BY <1>1 DEF Observed
  <1>. QED
    BY <1>2, <1>5, <1>6, <1>7, <1>8, <1>9, <1>10, <1>11 DEF IInv

-----------------------------
(* What a request does to the transitions and the queue.                   *)

\* Whatever is requested on a route that goes on, after q is queued.
LEMMA RequestTasks ==
  ASSUME IInv, NEW asked, DOMAIN asked \subseteq Features, gen' \in Nat, gen <= gen',
         \A f \in DOMAIN asked : asked[f] \in Seq(Requested') /\ asked[f] # <<>>,
         \A f \in DOMAIN asked : \A i \in DOMAIN asked[f] :
           asked[f][i].route = 0 \/ (asked[f][i].route = gen' /\ ~cut'),
         \A f \in Features : \A i \in DOMAIN chain[f] :
           chain[f][i].route = 0 \/ (chain[f][i].route = gen' /\ ~cut'),
         NEW q \in Seq(Jobs), Distinct(q), \A i \in DOMAIN q : Shape(q[i]),
         \A f \in Features : Has(q, f) <=> Has(micro, f),
         \A i \in DOMAIN q : q[i].who \in Features => \E k \in DOMAIN micro : q[i] = micro[k],
         Has(q, "fast") <=> fast' \in FastSteps, Has(q, "main") <=> main' \in MainSteps,
         ~Has(q, "route"), notice' = 0, on' = on, Request(asked, q)
  PROVE  /\ Joined(Requested', asked)
         /\ chain' \in [Features -> Seq(Requested')] /\ micro' \in Seq(Jobs)
         /\ JobInv' /\ HandledInv' /\ RouteInv'
         /\ Ahead(q) => Ahead(micro')
  <1>1. chain \in [Features -> Seq(Requested')]
    <2>1. gen \in Nat
      BY LifecycleAssumption DEF IInv, TypeOK, RouteType
    <2>2. Requested \subseteq Requested'
      BY <2>1 DEF Requested
    <2>. QED BY <2>2 DEF IInv, TypeOK, TaskType
  <1>. DEFINE R == Requested'
  <1>2. chain \in [Features -> Seq(R)] /\ \A f \in DOMAIN asked : asked[f] \in Seq(R) /\ asked[f] # <<>>
    BY <1>1
  <1>. HIDE DEF R
  <1>3. Joined(R, asked)
    BY <1>2, RequestChain
  <1>4. /\ JobInv' /\ micro' \in Seq(Jobs)
        /\ \A i \in DOMAIN q : i \in DOMAIN micro' /\ micro'[i] = q[i]
        /\ \A i \in DOMAIN micro' : i \notin DOMAIN q =>
             micro'[i].who \in Features /\ micro'[i].do = "begin"
    BY <1>2, <1>3, RequestJobs DEF IInv, Joined
  <1>5. HandledInv'
    <2>. SUFFICES ASSUME NEW i \in DOMAIN micro', micro'[i].who \in Features,
                         micro'[i].do \in {"fail", "finish"}
                  PROVE  /\ micro'[i].do = "fail" => chain'[micro'[i].who][1].action = "enable"
                         /\ micro'[i].do = "finish" =>
                              (micro'[i].who \in on <=> chain'[micro'[i].who][1].action = "enable")
      BY DEF HandledInv
    <2>1. i \in DOMAIN q /\ micro'[i] = q[i]
      BY <1>4
    <2>2. PICK k \in DOMAIN micro : micro'[i] = micro[k]
      BY <2>1
    <2>. DEFINE f == micro[k].who
    <2>3. f \in Features /\ Has(micro, f)
      BY <2>2 DEF Has
    <2>4. chain[f] # <<>>
      BY <2>3 DEF IInv, JobInv
    <2>5. chain'[f][1] = chain[f][1]
      BY <1>3, <2>3, <2>4 DEF Joined
    <2>. QED
      BY <2>2, <2>3, <2>5 DEF IInv, HandledInv
  <1>6. RouteInv'
    <2>. SUFFICES ASSUME NEW f \in Features, NEW i \in DOMAIN chain'[f]
                  PROVE  chain'[f][i].route = 0 \/ (chain'[f][i].route = gen' /\ ~cut')
      BY DEF RouteInv
    <2>1. CASE f \in DOMAIN asked
      BY <1>3, <2>1 DEF Joined
    <2>2. CASE f \notin DOMAIN asked
      <3>1. chain'[f] = chain[f]
        BY <1>3, <2>2 DEF Joined
      <3>. QED BY <3>1
    <2>. QED BY <2>1, <2>2
  <1>7. ASSUME Ahead(q) PROVE Ahead(micro')
    <2>1. \A i \in DOMAIN micro' : i \notin DOMAIN q => micro'[i].who \notin {"fast", "main"}
      BY <1>4, LifecycleAssumption
    <2>. QED BY <1>4, <1>7, <2>1, AheadBegin
  <1>. QED
    BY <1>3, <1>4, <1>5, <1>6, <1>7 DEF R, Joined

\* No microtask is left: no transition, no move to reconcile, no step.
LEMMA AtRest ==
  ASSUME IInv, micro = <<>>
  PROVE  /\ \A f \in Features : chain[f] = <<>>
         /\ notice = 0 /\ fast \notin FastSteps /\ main \notin MainSteps
         /\ \A w : ~Has(micro, w)
         /\ Distinct(micro)
  BY DEF IInv, JobInv, Has, Distinct

\* A move is to be reconciled: no transition is under way, no step either.
LEMMA AtNotice ==
  ASSUME IInv, micro = <<RouteJob>>
  PROVE  /\ \A f \in Features : chain[f] = <<>>
         /\ notice = gen /\ notice # 0 /\ ~cut /\ fast \notin FastSteps /\ main \notin MainSteps
  <1>1. DOMAIN micro = {1} /\ micro[1].who = "route"
    BY DEF RouteJob, Job
  <1>2. \A w : Has(micro, w) <=> w = "route"
    BY <1>1 DEF Has
  <1>. QED
    BY <1>2, LifecycleAssumption DEF IInv, JobInv

\* What sync() asks for: to be enabled if wanted, otherwise to be disabled.
Asked(f, wanted) == Transition(IF f \in wanted THEN "enable" ELSE "disable", 0)

Syncs(asked, fs, wanted) ==
  /\ DOMAIN asked = (fs \ wanted) \cup (fs \cap Scope)
  /\ \A f \in DOMAIN asked :
       /\ asked[f] \in Seq({Asked(f, wanted)}) /\ asked[f] # <<>>
       /\ \A i \in DOMAIN asked[f] : asked[f][i] = Asked(f, wanted)
       /\ f \notin Refreshable => Len(asked[f]) = 1
  /\ status' = [f \in Features |-> IF f \in fs \ DOMAIN asked THEN "disabled" ELSE status[f]]

LEMMA SyncAsks ==
  ASSUME NEW fs \in SUBSET Features, NEW wanted, NEW q, Sync(fs, wanted, q)
  PROVE  \E asked : Syncs(asked, fs, wanted) /\ Request(asked, q)
  <1>. DEFINE fd == (fs \ wanted) \cup (fs \cap Scope)
              once(f) == <<Transition(IF f \in wanted THEN "enable" ELSE "disable", 0)>>
              fn(twice) == [f \in fd |-> IF f \in twice THEN once(f) \o once(f) ELSE once(f)]
  <1>1. PICK twice \in SUBSET Refreshable : Request(fn(twice), q)
    BY DEF Sync
  <1>2. status' = [f \in Features |-> IF f \in fs \ fd THEN "disabled" ELSE status[f]]
    BY DEF Sync
  <1>3. ASSUME NEW f \in fd
        PROVE  LET a == fn(twice)[f] IN
               /\ a \in Seq({Asked(f, wanted)}) /\ a # <<>>
               /\ \A i \in DOMAIN a : a[i] = Asked(f, wanted)
               /\ f \notin Refreshable => Len(a) = 1
    <2>. DEFINE t == Asked(f, wanted)
    <2>1. once(f) = <<t>>
      BY DEF Asked
    <2>2. fn(twice)[f] = <<t>> \/ (fn(twice)[f] = <<t>> \o <<t>> /\ f \in Refreshable)
      BY <1>3, <2>1
    <2>. HIDE DEF t, fn, once, fd
    <2>. DEFINE c == <<t>>
    <2>3. c \in Seq({t}) /\ Len(c) = 1 /\ c # <<>> /\ \A i \in DOMAIN c : c[i] = t
      OBVIOUS
    <2>. HIDE DEF c
    <2>4. /\ c \o c \in Seq({t}) /\ Len(c \o c) = 2
          /\ \A i \in 1 .. 2 : (c \o c)[i] = IF i <= 1 THEN c[i] ELSE c[i - 1]
      BY <2>3, ConcatProperties
    <2>5. c \o c # <<>> /\ DOMAIN (c \o c) = 1 .. 2 /\ DOMAIN c = 1 .. 1
      BY <2>3, <2>4
    <2>6. \A i \in DOMAIN (c \o c) : (c \o c)[i] = t
      BY <2>3, <2>4, <2>5
    <2>. QED
      BY <2>2, <2>3, <2>4, <2>5, <2>6 DEF t, c
  <1>4. DOMAIN fn(twice) = fd
    OBVIOUS
  <1>. HIDE DEF fn
  <1>. WITNESS fn(twice)
  <1>. QED
    BY <1>1, <1>2, <1>3, <1>4 DEF Syncs

\* A change of the configuration is followed, or a timer is due that will.
LEMMA SyncFollow ==
  ASSUME IInv, NEW fs \in SUBSET Features, NEW q, NEW f \in Features, FollowInv(f),
         NEW asked, Syncs(asked, fs, want'), Joined(Requested', asked),
         UNCHANGED <<flags, tear, notice, cut, gen, loader, on>>,
         main' \in {"loading", "done"} => main \in {"loading", "done"},
         f \notin fs /\ f \notin timers' => f \notin timers /\ (f \in want' <=> f \in want)
  PROVE  FollowInv(f)'
  <1>1. Scope' = Scope /\ (Awaited(f)' <=> Awaited(f))
    BY DEF Scope, Awaited, Aborted, Current
  <1>2. CASE f \notin fs
    <2>1. chain'[f] = chain[f] /\ status'[f] = status[f]
      BY <1>2 DEF Joined, Syncs
    <2>2. (EndsDisabled(f)' <=> EndsDisabled(f)) /\ (EndsEnabled(f)' <=> EndsEnabled(f))
      BY <2>1 DEF EndsDisabled, EndsEnabled
    <2>. QED
      BY <1>1, <1>2, <2>1, <2>2 DEF FollowInv
  <1>3. CASE f \in fs \ DOMAIN asked
    <2>1. chain'[f] = chain[f] /\ status'[f] = "disabled" /\ f \notin Scope
      BY <1>3 DEF Joined, Syncs
    <2>2. chain[f] = <<>> => f \notin on
      BY <2>1 DEF FollowInv
    <2>3. EndsDisabled(f)'
      <3>1. CASE chain[f] = <<>>
        BY <2>1, <3>1 DEF EndsDisabled
      <3>2. CASE chain[f] # <<>>
        <4>1. chain[f] \in Seq(Requested)
          BY DEF IInv, TypeOK, TaskType
        <4>2. Len(chain[f]) \in DOMAIN chain[f]
          BY <3>2, <4>1
        <4>3. chain[f][Len(chain[f])].action = "disable"
          BY <2>1, <4>2 DEF FollowInv
        <4>. QED BY <2>1, <3>2, <4>3 DEF EndsDisabled
      <3>. QED BY <3>1, <3>2
    <2>. QED
      BY <1>1, <2>1, <2>2, <2>3 DEF FollowInv
  <1>4. CASE f \in DOMAIN asked
    <2>1. /\ chain'[f] # <<>> /\ chain'[f][Len(chain'[f])] = asked[f][Len(asked[f])]
          /\ \A i \in DOMAIN chain'[f] :
               \/ \E k \in DOMAIN chain[f] : chain'[f][i] = chain[f][k]
               \/ \E k \in DOMAIN asked[f] : chain'[f][i] = asked[f][k]
      BY <1>4 DEF Joined
    <2>2. asked[f][Len(asked[f])] = Asked(f, want')
      <3>1. asked[f] \in Seq({Asked(f, want')}) /\ asked[f] # <<>>
        BY <1>4 DEF Syncs
      <3>2. Len(asked[f]) \in DOMAIN asked[f]
        BY <3>1
      <3>. QED BY <1>4, <3>2 DEF Syncs
    <2>3. Asked(f, want').action = IF f \in want' THEN "enable" ELSE "disable"
      BY DEF Asked, Transition
    <2>4. f \notin Scope => f \notin want'
      BY <1>4 DEF Syncs
    <2>5. f \notin Scope => \A i \in DOMAIN chain'[f] : chain'[f][i].action = "disable"
      <3>. SUFFICES ASSUME f \notin Scope, NEW i \in DOMAIN chain'[f]
                    PROVE  chain'[f][i].action = "disable"
        OBVIOUS
      <3>1. CASE \E k \in DOMAIN chain[f] : chain'[f][i] = chain[f][k]
        BY <3>1 DEF FollowInv
      <3>2. CASE \E k \in DOMAIN asked[f] : chain'[f][i] = asked[f][k]
        BY <1>4, <2>3, <2>4, <3>2 DEF Syncs
      <3>. QED BY <2>1, <3>1, <3>2
    <2>6. /\ f \notin want' => EndsDisabled(f)'
          /\ f \in want' => EndsEnabled(f)'
      BY <2>1, <2>2, <2>3 DEF EndsDisabled, EndsEnabled
    <2>. QED
      BY <1>1, <2>1, <2>5, <2>6 DEF FollowInv
  <1>. QED
    BY <1>2, <1>3, <1>4

LEMMA AskedType ==
  ASSUME gen' \in Nat, NEW f, NEW wanted, NEW s \in Seq({Asked(f, wanted)}),
         \A i \in DOMAIN s : s[i] = Asked(f, wanted)
  PROVE  s \in Seq(Requested') /\ \A i \in DOMAIN s : s[i].route = 0
  <1>. DEFINE a == Asked(f, wanted)
  <1>1. a \in Requested' /\ a.route = 0
    BY DEF Asked, Transition, Requested
  <1>2. s \in Seq({a}) /\ \A i \in DOMAIN s : s[i] = a
    OBVIOUS
  <1>. HIDE DEF a
  <1>3. \A i \in DOMAIN s : s[i] \in Requested'
    BY <1>1, <1>2
  <1>4. Len(s) \in Nat /\ s \in [1 .. Len(s) -> Requested']
    BY <1>2, <1>3
  <1>. QED
    BY <1>1, <1>2, <1>4

\* A task that only changes the settings and syncs what depends on them.
LEMMA SyncKeeps ==
  ASSUME IInv, micro = <<>>, ~frozen, tear = "none", NEW fs \in SUBSET Features, Sync(fs, want', micro),
         UNCHANGED <<bootVars, runVars, routeVars, loc, flags, notice, loader, on, refs>>,
         want' \subseteq Features, timers' \subseteq Features, BudgetType',
         UNCHANGED <<budget.moves, budget.hides>>,
         \A f \in Features \ fs : f \notin timers' => f \notin timers /\ (f \in want' <=> f \in want)
  PROVE  IInv'
  <1>1. PICK asked : Syncs(asked, fs, want') /\ Request(asked, micro)
    BY SyncAsks
  <1>2. UNCHANGED <<storage, fast, main, hooked, watching, runtime, frozen, tear, url, gen, cut>>
    BY DEF bootVars, runVars, routeVars
  <1>3. /\ \A f \in Features : chain[f] = <<>>
        /\ notice = 0 /\ fast \notin FastSteps /\ main \notin MainSteps
        /\ \A w : ~Has(micro, w)
        /\ Distinct(micro) /\ micro \in Seq(Jobs) /\ DOMAIN micro = {}
    BY AtRest DEF IInv, TypeOK, TaskType
  <1>4. gen \in Nat /\ gen' \in Nat /\ gen <= gen'
    BY <1>2, LifecycleAssumption DEF IInv, TypeOK, RouteType
  <1>5. \A f \in DOMAIN asked :
          /\ asked[f] \in Seq(Requested') /\ asked[f] # <<>>
          /\ \A i \in DOMAIN asked[f] : asked[f][i].route = 0
    <2>. TAKE f \in DOMAIN asked
    <2>1. PICK a : a = asked[f]
      OBVIOUS
    <2>2. a \in Seq({Asked(f, want')}) /\ a # <<>> /\ \A i \in DOMAIN a : a[i] = Asked(f, want')
      BY <1>1, <2>1 DEF Syncs
    <2>3. a \in Seq(Requested') /\ \A i \in DOMAIN a : a[i].route = 0
      BY <1>4, <2>2, AskedType
    <2>. QED BY <2>1, <2>2, <2>3
  <1>6. /\ Joined(Requested', asked)
        /\ chain' \in [Features -> Seq(Requested')] /\ micro' \in Seq(Jobs)
        /\ JobInv' /\ HandledInv' /\ RouteInv'
    <2>1. DOMAIN asked \subseteq Features
      BY <1>1 DEF Syncs
    <2>2. \A f \in Features : \A i \in DOMAIN chain[f] :
            chain[f][i].route = 0 \/ (chain[f][i].route = gen' /\ ~cut')
      BY <1>3
    <2>3. Has(micro, "fast") <=> fast' \in FastSteps
      BY <1>2, <1>3
    <2>4. Has(micro, "main") <=> main' \in MainSteps
      BY <1>2, <1>3
    <2>. QED
      BY <1>1, <1>2, <1>3, <1>4, <1>5, <2>1, <2>2, <2>3, <2>4, RequestTasks
  <1>7. TypeOK'
    <2>1. BootType' /\ RunType' /\ RouteType'
      BY <1>2 DEF IInv, TypeOK, BootType, RunType, RouteType
    <2>2. TaskType'
      BY <1>2, <1>6 DEF IInv, TypeOK, TaskType
    <2>3. FeatureType'
      BY <1>1 DEF IInv, TypeOK, FeatureType, Syncs
    <2>. QED
      BY <2>1, <2>2, <2>3 DEF TypeOK
  <1>8. BootInv'
    BY <1>2, <1>3 DEF IInv, BootInv, FastSteps
  <1>9. GenInv'
    BY <1>2 DEF IInv, GenInv
  <1>10. LeaveInv'
    BY <1>2 DEF IInv, LeaveInv
  <1>11. ASSUME Observed PROVE FlagsInv' /\ \A f \in Features : FollowInv(f)'
    <2>1. FlagsInv /\ \A f \in Features : FollowInv(f)
      BY <1>11 DEF IInv
    <2>2. FlagsInv'
      BY <1>2, <2>1 DEF FlagsInv
    <2>3. ASSUME NEW f \in Features PROVE FollowInv(f)'
      BY <1>1, <1>2, <1>6, <2>1, SyncFollow
    <2>. QED BY <2>2, <2>3
  <1>12. Observed' <=> Observed
    BY <1>2 DEF Observed
  <1>. QED
    BY <1>6, <1>7, <1>8, <1>9, <1>10, <1>11, <1>12 DEF IInv

LEMMA ToggleKeeps ==
  ASSUME IInv, NEW fs \in SUBSET Features, Toggle(fs)
  PROVE  IInv'
  <1>1. /\ micro = <<>> /\ ~frozen /\ tear = "none"
        /\ Sync(fs \ Debounced, want', micro)
        /\ UNCHANGED <<bootVars, runVars, routeVars, loc, flags, notice, loader, on, refs>>
    BY DEF Toggle, Editable, Idle
  <1>2. want' = (want \ fs) \cup (fs \ want) /\ timers' = timers \cup (fs \cap Debounced)
    BY DEF Toggle
  <1>3. want' \subseteq Features /\ timers' \subseteq Features
    BY <1>2 DEF IInv, TypeOK, FeatureType
  <1>4. BudgetType' /\ UNCHANGED <<budget.moves, budget.hides>>
    BY LifecycleAssumption DEF Toggle, Spend, IInv, TypeOK, BudgetType
  <1>5. \A f \in Features \ (fs \ Debounced) :
          f \notin timers' => f \notin timers /\ (f \in want' <=> f \in want)
    BY <1>2
  <1>6. fs \ Debounced \in SUBSET Features
    OBVIOUS
  <1>. QED
    BY <1>1, <1>3, <1>4, <1>5, <1>6, SyncKeeps

LEMMA RefreshKeeps ==
  ASSUME IInv, NEW f \in Refreshable, Refresh(f)
  PROVE  IInv'
  <1>1. /\ micro = <<>> /\ ~frozen /\ tear = "none" /\ want' = want
        /\ UNCHANGED <<bootVars, runVars, routeVars, loc, flags, notice, loader, on, refs>>
    BY DEF Refresh, Editable, Idle
  <1>2. BudgetType' /\ UNCHANGED <<budget.moves, budget.hides>>
    BY LifecycleAssumption DEF Refresh, Spend, IInv, TypeOK, BudgetType
  <1>3. f \in Features /\ want \subseteq Features /\ timers \subseteq Features
    BY LifecycleAssumption DEF IInv, TypeOK, FeatureType
  <1>4. CASE f \notin Debounced
    <2>1. timers' = timers /\ Sync({f}, want, micro)
      BY <1>4 DEF Refresh
    <2>2. Sync({f}, want', micro)
      BY <1>1, <2>1
    <2>3. \A g \in Features \ {f} :
            g \notin timers' => g \notin timers /\ (g \in want' <=> g \in want)
      BY <1>1, <2>1
    <2>4. {f} \in SUBSET Features /\ want' \subseteq Features /\ timers' \subseteq Features
      BY <1>1, <1>3, <2>1
    <2>. QED
      BY <1>1, <1>2, <2>2, <2>3, <2>4, SyncKeeps
  <1>5. CASE f \in Debounced
    <2>1. timers' = timers \cup {f} /\ UNCHANGED <<chain, micro, status>>
      BY <1>5 DEF Refresh
    <2>2. UNCHANGED <<storage, fast, main, hooked, watching, runtime, frozen, tear, url, gen, cut,
                      loc, flags, notice, loader, on, refs, want, chain, micro, status>>
      BY <1>1, <2>1 DEF bootVars, runVars, routeVars
    <2>3. TypeOK'
      <3>1. BootType' /\ RunType' /\ RouteType' /\ FeatureType'
        BY <1>3, <2>1, <2>2 DEF IInv, TypeOK, BootType, RunType, RouteType, FeatureType
      <3>2. TaskType'
        BY <2>2 DEF IInv, TypeOK, TaskType, Requested
      <3>. QED BY <1>2, <3>1, <3>2 DEF TypeOK
    <2>4. JobInv' /\ BootInv' /\ RouteInv' /\ HandledInv'
      BY <2>2 DEF IInv, JobInv, BootInv, RouteInv, HandledInv
    <2>5. GenInv' /\ LeaveInv'
      BY <1>1, <1>2, <2>2 DEF IInv, GenInv, LeaveInv
    <2>6. ASSUME Observed PROVE FlagsInv' /\ \A g \in Features : FollowInv(g)'
      <3>1. FlagsInv /\ \A g \in Features : FollowInv(g)
        BY <2>6 DEF IInv
      <3>2. FlagsInv'
        BY <2>2, <3>1 DEF FlagsInv
      <3>3. ASSUME NEW g \in Features PROVE FollowInv(g)'
        <4>1. FollowInv(g) /\ (g \notin timers' => g \notin timers)
          BY <2>1, <3>1
        <4>2. /\ Scope' = Scope /\ (EndsDisabled(g)' <=> EndsDisabled(g))
              /\ (EndsEnabled(g)' <=> EndsEnabled(g)) /\ (Awaited(g)' <=> Awaited(g))
          BY <2>2 DEF Scope, EndsDisabled, EndsEnabled, Awaited, Aborted, Current
        <4>. QED BY <2>2, <4>1, <4>2 DEF FollowInv
      <3>. QED BY <3>2, <3>3
    <2>7. Observed' <=> Observed
      BY <2>2 DEF Observed
    <2>. QED
      BY <2>3, <2>4, <2>5, <2>6, <2>7 DEF IInv
  <1>. QED
    BY <1>4, <1>5

LEMMA DebounceKeeps ==
  ASSUME IInv, NEW f \in Debounced, Debounce(f)
  PROVE  IInv'
  <1>1. /\ micro = <<>> /\ ~frozen /\ want' = want /\ f \in timers /\ timers' = timers \ {f}
        /\ Sync({f}, want, micro)
        /\ UNCHANGED <<bootVars, runVars, routeVars, loc, flags, notice, loader, on, refs, budget>>
    BY DEF Debounce, Idle
  <1>2. tear = "none"
    BY <1>1 DEF Debounce, Idle, IInv, LeaveInv, TypeOK, RunType
  <1>3. want' \subseteq Features /\ timers' \subseteq Features /\ {f} \in SUBSET Features
    BY <1>1, LifecycleAssumption DEF IInv, TypeOK, FeatureType
  <1>4. BudgetType' /\ UNCHANGED <<budget.moves, budget.hides>>
    BY <1>1 DEF IInv, TypeOK, BudgetType
  <1>5. Sync({f}, want', micro)
    BY <1>1
  <1>6. \A g \in Features \ {f} :
          g \notin timers' => g \notin timers /\ (g \in want' <=> g \in want)
    BY <1>1
  <1>. QED
    BY <1>1, <1>2, <1>3, <1>4, <1>5, <1>6, SyncKeeps

\* The pipelines that waited for the storage go on, the first one first.
LEMMA ResumeJobs ==
  LET q == Resume("fast", fast) \o Resume("main", main) IN
  /\ q \in Seq(Jobs) /\ Distinct(q) /\ \A i \in DOMAIN q : Shape(q[i])
  /\ Has(q, "fast") <=> fast = "storage"
  /\ Has(q, "main") <=> main = "storage"
  /\ \A w : w \notin {"fast", "main"} => ~Has(q, w)
  /\ Ahead(q)
  <1>. DEFINE F == Job("step", "fast", 8)
              M == Job("step", "main", 8)
              c == Resume("fast", fast)
              d == Resume("main", main)
              q == c \o d
  <1>1. F \in Jobs /\ F.who = "fast" /\ F.hops = 8 /\ Shape(F)
    BY LifecycleAssumption DEF Job, Jobs, Shape
  <1>2. M \in Jobs /\ M.who = "main" /\ M.hops = 8 /\ Shape(M)
    BY LifecycleAssumption DEF Job, Jobs, Shape
  <1>3. /\ fast = "storage" => c = <<F>>
        /\ fast # "storage" => c = <<>>
        /\ main = "storage" => d = <<M>>
        /\ main # "storage" => d = <<>>
    BY DEF Resume
  <1>. HIDE DEF F, M, c, d
  <1>4. /\ c \in Seq(Jobs) /\ Len(c) = (IF fast = "storage" THEN 1 ELSE 0)
        /\ \A i \in 1 .. Len(c) : c[i] = F
    <2>1. <<F>> \in Seq(Jobs) /\ Len(<<F>>) = 1 /\ \A i \in 1 .. 1 : <<F>>[i] = F
      BY <1>1
    <2>2. <<>> \in Seq(Jobs) /\ Len(<<>>) = 0
      OBVIOUS
    <2>3. CASE fast = "storage"
      BY <1>3, <2>1, <2>3
    <2>4. CASE fast # "storage"
      <3>1. c = <<>>
        BY <1>3, <2>4
      <3>. QED BY <2>2, <2>4, <3>1
    <2>. QED BY <2>3, <2>4
  <1>5. /\ d \in Seq(Jobs) /\ Len(d) = (IF main = "storage" THEN 1 ELSE 0)
        /\ \A i \in 1 .. Len(d) : d[i] = M
    <2>1. <<M>> \in Seq(Jobs) /\ Len(<<M>>) = 1 /\ \A i \in 1 .. 1 : <<M>>[i] = M
      BY <1>2
    <2>2. <<>> \in Seq(Jobs) /\ Len(<<>>) = 0
      OBVIOUS
    <2>3. CASE main = "storage"
      BY <1>3, <2>1, <2>3
    <2>4. CASE main # "storage"
      <3>1. d = <<>>
        BY <1>3, <2>4
      <3>. QED BY <2>2, <2>4, <3>1
    <2>. QED BY <2>3, <2>4
  <1>6. /\ q \in Seq(Jobs) /\ DOMAIN q = 1 .. (Len(c) + Len(d))
        /\ \A i \in 1 .. (Len(c) + Len(d)) : q[i] = IF i <= Len(c) THEN c[i] ELSE d[i - Len(c)]
    BY <1>4, <1>5, ConcatProperties
  <1>. HIDE DEF q
  <1>7. \A i \in DOMAIN q : \/ i <= Len(c) /\ i = 1 /\ q[i] = F /\ fast = "storage"
                            \/ i > Len(c) /\ i = Len(c) + 1 /\ q[i] = M /\ main = "storage"
    BY <1>4, <1>5, <1>6
  <1>8. fast = "storage" => 1 \in DOMAIN q /\ q[1] = F
    BY <1>4, <1>5, <1>6
  <1>9. main = "storage" => Len(c) + 1 \in DOMAIN q /\ q[Len(c) + 1] = M
    BY <1>4, <1>5, <1>6
  <1>10. Distinct(q)
    BY <1>1, <1>2, <1>7 DEF Distinct
  <1>11. \A i \in DOMAIN q : Shape(q[i])
    BY <1>1, <1>2, <1>7
  <1>12. Has(q, "fast") <=> fast = "storage"
    BY <1>1, <1>2, <1>7, <1>8 DEF Has
  <1>13. Has(q, "main") <=> main = "storage"
    BY <1>1, <1>2, <1>7, <1>9 DEF Has
  <1>14. \A w : w \notin {"fast", "main"} => ~Has(q, w)
    BY <1>1, <1>2, <1>7 DEF Has
  <1>15. Ahead(q)
    <2>. SUFFICES ASSUME NEW i \in DOMAIN q, NEW j \in DOMAIN q,
                         q[i].who = "fast", q[j].who = "main"
                  PROVE  q[i].hops <= q[j].hops /\ ~(j < i)
      BY DEF Ahead
    <2>1. q[i] = F /\ i = 1 /\ i <= Len(c) /\ q[j] = M /\ j > Len(c) /\ j = Len(c) + 1
      BY <1>1, <1>2, <1>7
    <2>2. Len(c) \in Nat
      BY <1>4
    <2>. QED BY <1>1, <1>2, <2>1, <2>2
  <1>. QED
    BY <1>6, <1>10, <1>11, <1>12, <1>13, <1>14, <1>15 DEF q, c, d

LEMMA StorageReadyKeeps ==
  ASSUME IInv, StorageReady
  PROVE  IInv'
  <1>. DEFINE changed == (want \ want') \cup (want' \ want)
              fs == changed \ Debounced
              steps == Resume("fast", fast) \o Resume("main", main)
  <1>1. /\ micro = <<>> /\ ~frozen /\ storage = "pending" /\ storage' = "ready"
        /\ want' \subseteq Features /\ timers' = timers \cup (changed \cap Debounced)
        /\ Sync(fs, want', steps)
        /\ fast' = (IF fast = "storage" THEN "beginRoute" ELSE fast)
        /\ main' = (IF main = "storage" THEN "detectPage" ELSE main)
        /\ UNCHANGED <<hooked, watching, runtime, frozen, tear, url, gen, cut, loc, flags, notice,
                       loader, on, refs, budget>>
    BY DEF StorageReady, Idle, runVars, routeVars
  <1>2. /\ fast \in {"storage", "failed"} /\ main \in {"body", "storage", "failed"}
        /\ tear = "none" /\ ~hooked /\ ~watching /\ gen = 0 /\ ~cut /\ loader.left = <<>>
    BY <1>1 DEF IInv, BootInv, LeaveInv, GenInv, TypeOK, RunType
  <1>3. /\ \A f \in Features : chain[f] = <<>>
        /\ notice = 0 /\ \A w : ~Has(micro, w)
    BY <1>1, AtRest
  <1>4. /\ steps \in Seq(Jobs) /\ Distinct(steps) /\ \A i \in DOMAIN steps : Shape(steps[i])
        /\ Has(steps, "fast") <=> fast = "storage"
        /\ Has(steps, "main") <=> main = "storage"
        /\ \A w : w \notin {"fast", "main"} => ~Has(steps, w)
        /\ Ahead(steps)
    BY ResumeJobs
  <1>5. PICK q : q = steps
    OBVIOUS
  <1>6. fs \in SUBSET Features /\ Sync(fs, want', q)
    BY <1>1, <1>5 DEF IInv, TypeOK, FeatureType
  <1>7. \A f \in Features : f \notin fs /\ f \notin timers' => f \notin timers /\ (f \in want' <=> f \in want)
    BY <1>1
  <1>. HIDE DEF steps, fs
  <1>8. PICK asked : Syncs(asked, fs, want') /\ Request(asked, q)
    BY <1>6, SyncAsks
  <1>9. gen \in Nat /\ gen' \in Nat /\ gen <= gen'
    BY <1>1, <1>2
  <1>10. \A f \in DOMAIN asked :
          /\ asked[f] \in Seq(Requested') /\ asked[f] # <<>>
          /\ \A i \in DOMAIN asked[f] : asked[f][i].route = 0
    <2>. TAKE f \in DOMAIN asked
    <2>1. PICK a : a = asked[f]
      OBVIOUS
    <2>2. a \in Seq({Asked(f, want')}) /\ a # <<>> /\ \A i \in DOMAIN a : a[i] = Asked(f, want')
      BY <1>8, <2>1 DEF Syncs
    <2>3. a \in Seq(Requested') /\ \A i \in DOMAIN a : a[i].route = 0
      BY <1>9, <2>2, AskedType
    <2>. QED BY <2>1, <2>2, <2>3
  <1>11. /\ Joined(Requested', asked)
         /\ chain' \in [Features -> Seq(Requested')] /\ micro' \in Seq(Jobs)
         /\ JobInv' /\ HandledInv' /\ RouteInv' /\ Ahead(micro')
    <2>1. DOMAIN asked \subseteq Features
      BY <1>6, <1>8 DEF Syncs
    <2>2. \A f \in Features : \A i \in DOMAIN chain[f] :
            chain[f][i].route = 0 \/ (chain[f][i].route = gen' /\ ~cut')
      BY <1>3
    <2>3. Has(q, "fast") <=> fast' \in FastSteps
      BY <1>1, <1>2, <1>4, <1>5 DEF FastSteps
    <2>4. Has(q, "main") <=> main' \in MainSteps
      BY <1>1, <1>2, <1>4, <1>5 DEF MainSteps
    <2>5. \A f \in Features : Has(q, f) <=> Has(micro, f)
      BY <1>3, <1>4, <1>5, LifecycleAssumption
    <2>6. ~Has(q, "route") /\ \A i \in DOMAIN q : q[i].who \notin Features
      <3>1. \A f \in Features : ~Has(q, f)
        BY <1>3, <2>5
      <3>. QED BY <1>4, <1>5, <3>1 DEF Has
    <2>7. q \in Seq(Jobs) /\ Distinct(q) /\ (\A i \in DOMAIN q : Shape(q[i])) /\ Ahead(q)
      BY <1>4, <1>5
    <2>8. notice' = 0 /\ on' = on
      BY <1>1, <1>3
    <2>. QED
      BY <1>8, <1>9, <1>10, <2>1, <2>2, <2>3, <2>4, <2>5, <2>6, <2>7, <2>8, RequestTasks
  <1>12. TypeOK'
    <2>1. BootType'
      BY <1>1 DEF IInv, TypeOK, BootType
    <2>2. RunType' /\ RouteType' /\ BudgetType'
      BY <1>1 DEF IInv, TypeOK, RunType, RouteType, BudgetType
    <2>3. TaskType'
      BY <1>1, <1>11 DEF IInv, TypeOK, TaskType
    <2>4. FeatureType'
      <3>1. timers' \subseteq Features
        BY <1>1 DEF IInv, TypeOK, FeatureType
      <3>2. status' \in [Features -> {"disabled", "running", "failing"}]
        BY <1>8 DEF IInv, TypeOK, FeatureType, Syncs
      <3>. QED BY <1>1, <3>1, <3>2 DEF IInv, TypeOK, FeatureType
    <2>. QED
      BY <2>1, <2>2, <2>3, <2>4 DEF TypeOK
  <1>13. BootInv'
    BY <1>1, <1>2, <1>11 DEF BootInv
  <1>14. GenInv'
    BY <1>1, <1>2 DEF IInv, GenInv
  <1>15. LeaveInv'
    BY <1>1, <1>2 DEF IInv, LeaveInv
  <1>16. ASSUME Observed PROVE FlagsInv' /\ \A f \in Features : FollowInv(f)'
    <2>1. FlagsInv /\ \A f \in Features : FollowInv(f)
      BY <1>16 DEF IInv
    <2>2. FlagsInv'
      BY <1>1, <1>2, <2>1 DEF FlagsInv
    <2>3. main' \in {"loading", "done"} => main \in {"loading", "done"}
      BY <1>1
    <2>4. ASSUME NEW f \in Features PROVE FollowInv(f)'
      BY <1>1, <1>6, <1>7, <1>8, <1>11, <2>1, <2>3, SyncFollow
    <2>. QED BY <2>2, <2>4
  <1>17. Observed' => Observed
    BY <1>1, <1>2 DEF Observed
  <1>. QED
    BY <1>11, <1>12, <1>13, <1>14, <1>15, <1>16, <1>17 DEF IInv

LEMMA StorageUnavailableKeeps ==
  ASSUME IInv, StorageUnavailable
  PROVE  IInv'
  <1>1. /\ micro = <<>> /\ ~frozen /\ storage = "pending" /\ storage' \in {"unavailable", "upgrade"}
        /\ fast' = (IF fast = "storage" THEN "failed" ELSE fast)
        /\ main' = (IF main = "storage" THEN "failed" ELSE main)
        /\ UNCHANGED <<hooked, watching, runtime, frozen, tear, url, gen, cut, loc, flags, notice,
                       want, timers, chain, micro, loader, status, on, refs, budget>>
    BY DEF StorageUnavailable, Idle, runVars, routeVars, featureVars
  <1>2. /\ fast \in {"storage", "failed"} /\ main \in {"body", "storage", "failed"}
        /\ tear = "none" /\ ~hooked /\ ~watching /\ gen = 0 /\ ~cut /\ loader.left = <<>>
    BY <1>1 DEF IInv, BootInv, LeaveInv, GenInv, TypeOK, RunType
  <1>3. fast' = "failed" /\ main' \in {"body", "failed"}
    BY <1>1, <1>2
  <1>4. TypeOK'
    <2>1. BootType'
      BY <1>1, <1>3 DEF IInv, TypeOK, BootType
    <2>2. RunType' /\ RouteType' /\ FeatureType' /\ BudgetType'
      BY <1>1 DEF IInv, TypeOK, RunType, RouteType, FeatureType, BudgetType
    <2>3. TaskType'
      BY <1>1 DEF IInv, TypeOK, TaskType, Requested
    <2>. QED BY <2>1, <2>2, <2>3 DEF TypeOK
  <1>5. JobInv'
    <2>1. fast \notin FastSteps /\ fast' \notin FastSteps /\ main \notin MainSteps /\ main' \notin MainSteps
      BY <1>2, <1>3 DEF FastSteps, MainSteps
    <2>. QED BY <1>1, <2>1 DEF IInv, JobInv
  <1>6. BootInv' /\ GenInv' /\ LeaveInv'
    BY <1>1, <1>2, <1>3 DEF IInv, BootInv, GenInv, LeaveInv
  <1>7. RouteInv' /\ HandledInv'
    BY <1>1 DEF IInv, RouteInv, HandledInv
  <1>8. ~Observed'
    BY <1>1, <1>2, <1>3 DEF Observed
  <1>. QED
    BY <1>4, <1>5, <1>6, <1>7, <1>8 DEF IInv

LEMMA StorageLateKeeps ==
  ASSUME IInv, StorageLate
  PROVE  IInv'
  <1>1. /\ micro = <<>> /\ ~frozen /\ storage = "pending"
        /\ \/ fast = "storage" /\ fast' = "failed" /\ main' = main
           \/ main = "storage" /\ main' = "failed" /\ fast' = fast
        /\ UNCHANGED <<storage, hooked, watching, runtime, frozen, tear, url, gen, cut, loc, flags,
                       notice, want, timers, chain, micro, loader, status, on, refs, budget>>
    BY DEF StorageLate, Idle, runVars, routeVars, featureVars
  <1>2. /\ fast \in {"storage", "failed"} /\ main \in {"body", "storage", "failed"}
        /\ tear = "none" /\ ~hooked /\ ~watching /\ gen = 0 /\ ~cut /\ loader.left = <<>>
    BY <1>1 DEF IInv, BootInv, LeaveInv, GenInv, TypeOK, RunType
  <1>3. fast' \in {"storage", "failed"} /\ main' \in {"body", "storage", "failed"}
    BY <1>1, <1>2
  <1>4. TypeOK'
    <2>1. BootType'
      BY <1>1, <1>3 DEF IInv, TypeOK, BootType
    <2>2. RunType' /\ RouteType' /\ FeatureType' /\ BudgetType'
      BY <1>1 DEF IInv, TypeOK, RunType, RouteType, FeatureType, BudgetType
    <2>3. TaskType'
      BY <1>1 DEF IInv, TypeOK, TaskType, Requested
    <2>. QED BY <2>1, <2>2, <2>3 DEF TypeOK
  <1>5. JobInv'
    <2>1. fast \notin FastSteps /\ fast' \notin FastSteps /\ main \notin MainSteps /\ main' \notin MainSteps
      BY <1>2, <1>3 DEF FastSteps, MainSteps
    <2>. QED BY <1>1, <2>1 DEF IInv, JobInv
  <1>6. BootInv' /\ GenInv' /\ LeaveInv'
    BY <1>1, <1>2, <1>3 DEF IInv, BootInv, GenInv, LeaveInv
  <1>7. RouteInv' /\ HandledInv'
    BY <1>1 DEF IInv, RouteInv, HandledInv
  <1>8. ASSUME Observed' PROVE FlagsInv' /\ \A f \in Features : FollowInv(f)'
    <2>1. fast' = "storage" /\ fast = "storage"
      BY <1>1, <1>2, <1>3, <1>8 DEF Observed
    <2>2. FlagsInv /\ \A f \in Features : FollowInv(f)
      BY <2>1 DEF IInv, Observed
    <2>3. FlagsInv'
      BY <1>1, <1>3, <2>1, <2>2 DEF FlagsInv
    <2>4. ASSUME NEW f \in Features PROVE FollowInv(f)'
      <3>1. FollowInv(f) /\ main' \notin {"loading", "done"}
        BY <1>3, <2>2
      <3>. QED BY <1>1, <3>1 DEF FollowInv, Scope, EndsDisabled
    <2>. QED BY <2>3, <2>4
  <1>. QED
    BY <1>4, <1>5, <1>6, <1>7, <1>8 DEF IInv

LEMMA BodyReadyKeeps ==
  ASSUME IInv, BodyReady
  PROVE  IInv'
  <1>. DEFINE x == Job("step", "main", 3)
  <1>1. /\ micro = <<>> /\ ~frozen /\ tear # "features" /\ main = "body"
        /\ main' = (CASE storage = "pending" -> "storage"
                      [] storage = "upgrade" -> "failed"
                      [] OTHER -> "detectPage")
        /\ micro' = (IF main' = "detectPage" THEN Append(micro, x) ELSE micro)
        /\ UNCHANGED <<storage, fast, hooked, watching, runtime, frozen, tear, url, gen, cut, loc,
                       flags, notice, want, timers, chain, loader, status, on, refs, budget>>
    BY DEF BodyReady, Idle, runVars, routeVars, featureVars
  <1>2. /\ \A f \in Features : chain[f] = <<>>
        /\ notice = 0 /\ fast \notin FastSteps /\ \A w : ~Has(micro, w)
    BY <1>1, AtRest
  <1>3. /\ main' \in {"storage", "failed", "detectPage"}
        /\ storage = "pending" => main' = "storage"
        /\ storage # "pending" => main' # "storage"
    BY <1>1 DEF IInv, TypeOK, BootType
  <1>4. x \in Jobs /\ x.who = "main" /\ x.do = "step" /\ Shape(x)
    BY LifecycleAssumption DEF Job, Jobs, Shape
  <1>. HIDE DEF x
  <1>5. JobInv' /\ micro' \in Seq(Jobs) /\ HandledInv'
    <2>1. CASE main' # "detectPage"
      <3>1. micro' = micro /\ main' \notin MainSteps /\ main \notin MainSteps
        BY <1>1, <1>3, <2>1 DEF MainSteps
      <3>2. JobInv'
        BY <1>1, <3>1 DEF IInv, JobInv
      <3>3. HandledInv' /\ micro' \in Seq(Jobs)
        BY <1>1, <3>1 DEF IInv, HandledInv, TypeOK, TaskType
      <3>. QED BY <3>2, <3>3
    <2>2. CASE main' = "detectPage"
      <3>1. micro' = <<x>> /\ main' \in MainSteps
        <4>1. micro' = Append(<<>>, x)
          BY <1>1, <2>2
        <4>. QED BY <2>2, <4>1 DEF MainSteps
      <3>2. DOMAIN micro' = {1} /\ micro'[1] = x /\ micro' \in Seq(Jobs)
        BY <1>4, <3>1
      <3>3. Distinct(micro') /\ (\A i \in DOMAIN micro' : Shape(micro'[i])) /\ \A w : Has(micro', w) <=> w = "main"
        BY <1>4, <3>2 DEF Distinct, Has
      <3>4. "main" \notin Features
        BY LifecycleAssumption
      <3>5. JobInv'
        BY <1>1, <1>2, <3>1, <3>3, <3>4 DEF JobInv
      <3>6. HandledInv'
        BY <1>4, <3>2, <3>4 DEF HandledInv
      <3>. QED BY <3>2, <3>5, <3>6
    <2>. QED BY <2>1, <2>2
  <1>6. TypeOK'
    <2>1. BootType'
      BY <1>1, <1>3 DEF IInv, TypeOK, BootType
    <2>2. RunType' /\ RouteType' /\ FeatureType' /\ BudgetType'
      BY <1>1 DEF IInv, TypeOK, RunType, RouteType, FeatureType, BudgetType
    <2>3. TaskType'
      BY <1>1, <1>5 DEF IInv, TypeOK, TaskType, Requested
    <2>. QED BY <2>1, <2>2, <2>3 DEF TypeOK
  <1>7. BootInv'
    <2>1. fast # "beginRoute"
      BY <1>2 DEF FastSteps
    <2>. QED BY <1>1, <1>3, <2>1 DEF IInv, BootInv
  <1>8. GenInv' /\ LeaveInv'
    BY <1>1, <1>3 DEF IInv, GenInv, LeaveInv
  <1>9. RouteInv'
    BY <1>1 DEF IInv, RouteInv
  <1>10. ASSUME Observed PROVE FlagsInv' /\ \A f \in Features : FollowInv(f)'
    <2>1. FlagsInv /\ \A f \in Features : FollowInv(f)
      BY <1>10 DEF IInv
    <2>2. FlagsInv'
      BY <1>1, <1>3, <2>1 DEF FlagsInv
    <2>3. ASSUME NEW f \in Features PROVE FollowInv(f)'
      <3>1. FollowInv(f) /\ main' \notin {"loading", "done"}
        BY <1>3, <2>1
      <3>. QED BY <1>1, <3>1 DEF FollowInv, Scope, EndsDisabled
    <2>. QED BY <2>2, <2>3
  <1>11. Observed' <=> Observed
    BY <1>1 DEF Observed
  <1>. QED
    BY <1>5, <1>6, <1>7, <1>8, <1>9, <1>10, <1>11 DEF IInv

LEMMA LoadedKeeps ==
  ASSUME IInv, Loaded
  PROVE  IInv'
  <1>1. /\ micro = <<>> /\ ~frozen /\ main = "loading" /\ main' = "done"
        /\ runtime' = (IF runtime \in {"stopped", "suspended"} THEN runtime ELSE "running")
        /\ UNCHANGED <<storage, fast, hooked, watching, frozen, tear, url, gen, cut, loc, flags,
                       notice, want, timers, chain, micro, loader, status, on, refs, budget>>
    BY DEF Loaded, MarkRunning, routeVars, featureVars
  <1>2. runtime' \in {"starting", "running", "suspended", "stopping", "stopped"}
        /\ (runtime' = "stopped" <=> runtime = "stopped")
    BY <1>1 DEF IInv, TypeOK, RunType
  <1>3. TypeOK'
    <2>1. BootType' /\ RunType'
      BY <1>1, <1>2 DEF IInv, TypeOK, BootType, RunType
    <2>2. RouteType' /\ FeatureType' /\ BudgetType'
      BY <1>1 DEF IInv, TypeOK, RouteType, FeatureType, BudgetType
    <2>3. TaskType'
      BY <1>1 DEF IInv, TypeOK, TaskType, Requested
    <2>. QED BY <2>1, <2>2, <2>3 DEF TypeOK
  <1>4. JobInv' /\ HandledInv' /\ RouteInv'
    BY <1>1 DEF IInv, JobInv, HandledInv, RouteInv, MainSteps
  <1>5. BootInv' /\ GenInv'
    BY <1>1 DEF IInv, BootInv, GenInv
  <1>6. LeaveInv'
    BY <1>1, <1>2 DEF IInv, LeaveInv, MainSteps
  <1>7. ASSUME Observed PROVE FlagsInv' /\ \A f \in Features : FollowInv(f)'
    <2>1. FlagsInv /\ \A f \in Features : FollowInv(f)
      BY <1>7 DEF IInv
    <2>2. FlagsInv'
      BY <1>1, <2>1 DEF FlagsInv
    <2>3. ASSUME NEW f \in Features PROVE FollowInv(f)'
      <3>1. FollowInv(f) /\ main \in {"loading", "done"}
        BY <1>1, <2>1
      <3>2. /\ Scope' = Scope /\ (EndsDisabled(f)' <=> EndsDisabled(f))
            /\ (EndsEnabled(f)' <=> EndsEnabled(f)) /\ (Awaited(f)' <=> Awaited(f))
        BY <1>1 DEF Scope, EndsDisabled, EndsEnabled, Awaited, Aborted, Current
      <3>. QED BY <1>1, <3>1, <3>2 DEF FollowInv
    <2>. QED BY <2>2, <2>3
  <1>8. Observed' <=> Observed
    BY <1>1 DEF Observed
  <1>. QED
    BY <1>3, <1>4, <1>5, <1>6, <1>7, <1>8 DEF IInv

LEMMA StopKeeps ==
  ASSUME IInv, Stop
  PROVE  IInv'
  <1>1. /\ micro = <<>> /\ tear = "features" /\ tear' = "done" /\ runtime' = "stopped"
        /\ hooked' = FALSE /\ watching' = FALSE /\ timers' = {} /\ refs' = [s \in Styles |-> 0]
        /\ UNCHANGED <<storage, fast, main, frozen, url, gen, cut, loc, flags, notice, want,
                       chain, micro, loader, status, on, budget>>
    BY DEF Stop, routeVars
  <1>2. fast = "done" /\ cut /\ storage # "pending" /\ notice = 0 /\ ~frozen
    BY <1>1 DEF IInv, LeaveInv
  <1>3. \A f \in Features : chain[f] = <<>>
    BY <1>1, AtRest
  <1>4. on = {}
    BY <1>1, <1>3 DEF IInv, LeaveInv, TypeOK, FeatureType
  <1>5. TypeOK'
    <2>1. BootType' /\ RunType'
      BY <1>1 DEF IInv, TypeOK, BootType, RunType
    <2>2. RouteType' /\ BudgetType'
      BY <1>1 DEF IInv, TypeOK, RouteType, BudgetType
    <2>3. FeatureType'
      <3>1. refs' \in [Styles -> Nat]
        BY <1>1
      <3>. QED BY <1>1, <3>1 DEF IInv, TypeOK, FeatureType
    <2>4. TaskType'
      BY <1>1 DEF IInv, TypeOK, TaskType, Requested
    <2>. QED BY <2>1, <2>2, <2>3, <2>4 DEF TypeOK
  <1>6. JobInv' /\ HandledInv' /\ RouteInv'
    BY <1>1 DEF IInv, JobInv, HandledInv, RouteInv
  <1>7. BootInv' /\ GenInv'
    BY <1>1, <1>2 DEF IInv, BootInv, GenInv
  <1>8. LeaveInv'
    BY <1>1, <1>2, <1>3, <1>4 DEF LeaveInv
  <1>9. ~Observed'
    BY <1>1, <1>2 DEF Observed
  <1>. QED
    BY <1>5, <1>6, <1>7, <1>8, <1>9 DEF IInv

LEMMA HideKeeps ==
  ASSUME IInv, Hide
  PROVE  IInv'
  <1>1. /\ micro = <<>> /\ ~frozen /\ tear = "none" /\ frozen' = TRUE
        /\ Spend("hides", MaxHides)
        /\ IF hooked THEN cut' = TRUE /\ runtime' = "suspended" ELSE cut' = cut /\ runtime' = runtime
        /\ UNCHANGED <<storage, fast, main, hooked, watching, tear, url, gen, loc, flags, notice,
                       want, timers, chain, micro, loader, status, on, refs>>
    BY DEF Hide, Idle, bootVars, featureVars
  <1>2. /\ \A f \in Features : chain[f] = <<>>
        /\ notice = 0 /\ fast \notin FastSteps
    BY <1>1, AtRest
  <1>3. hooked => fast = "done"
    BY <1>2 DEF IInv, BootInv, FastSteps
  <1>4. ~cut /\ runtime # "stopped"
    BY <1>1 DEF IInv, LeaveInv
  <1>5. cut' \in BOOLEAN /\ (cut' => hooked) /\ runtime' # "stopped"
        /\ runtime' \in {"starting", "running", "suspended", "stopping", "stopped"}
        /\ (~cut' => cut' = cut)
    <2>1. runtime \in {"starting", "running", "suspended", "stopping", "stopped"} /\ cut \in BOOLEAN
      BY DEF IInv, TypeOK, RunType, RouteType
    <2>2. CASE hooked
      <3>1. cut' = TRUE /\ runtime' = "suspended"
        BY <1>1, <2>2
      <3>. QED BY <2>2, <3>1
    <2>3. CASE ~hooked
      <3>1. cut' = cut /\ runtime' = runtime
        BY <1>1, <2>3
      <3>2. cut' \in BOOLEAN /\ ~cut'
        BY <1>4, <2>1, <3>1
      <3>. QED BY <1>4, <2>1, <3>1, <3>2
    <2>. QED BY <2>2, <2>3
  <1>6. BudgetType' /\ budget'.moves = budget.moves /\ budget'.hides = budget.hides + 1
    BY <1>1, LifecycleAssumption DEF Spend, IInv, TypeOK, BudgetType
  <1>7. TypeOK'
    <2>1. BootType' /\ RunType'
      BY <1>1, <1>5 DEF IInv, TypeOK, BootType, RunType
    <2>2. RouteType' /\ FeatureType'
      BY <1>1, <1>5 DEF IInv, TypeOK, RouteType, FeatureType
    <2>3. TaskType'
      BY <1>1 DEF IInv, TypeOK, TaskType, Requested
    <2>. QED BY <1>6, <2>1, <2>2, <2>3 DEF TypeOK
  <1>8. JobInv'
    BY <1>1, <1>2 DEF IInv, JobInv
  <1>9. HandledInv' /\ RouteInv'
    BY <1>1, <1>2 DEF IInv, HandledInv, RouteInv
  <1>10. BootInv'
    BY <1>1 DEF IInv, BootInv
  <1>11. GenInv'
    <2>1. gen \in Nat /\ gen <= 1 + budget.moves + budget.hides
      BY <1>1, LifecycleAssumption DEF IInv, GenInv, TypeOK, RouteType
    <2>2. budget.moves \in Nat /\ budget.hides \in Nat
      BY LifecycleAssumption DEF IInv, TypeOK, BudgetType
    <2>3. gen' + (IF frozen' THEN 1 ELSE 0) <= 1 + budget'.moves + budget'.hides
      BY <1>1, <1>6, <2>1, <2>2
    <2>. QED BY <1>1, <2>3 DEF IInv, GenInv
  <1>12. LeaveInv'
    BY <1>1, <1>3, <1>5 DEF LeaveInv
  <1>13. ASSUME Observed PROVE FlagsInv' /\ \A f \in Features : FollowInv(f)'
    <2>1. FlagsInv /\ \A f \in Features : FollowInv(f)
      BY <1>13 DEF IInv
    <2>2. FlagsInv'
      BY <1>1, <2>1 DEF FlagsInv
    <2>3. ASSUME NEW f \in Features PROVE FollowInv(f)'
      <3>1. FollowInv(f) /\ (~cut' => cut' = cut)
        BY <1>5, <2>1
      <3>2. /\ Scope' = Scope /\ (EndsDisabled(f)' <=> EndsDisabled(f))
            /\ (EndsEnabled(f)' <=> EndsEnabled(f))
            /\ ~cut' => (Awaited(f)' <=> Awaited(f))
        BY <1>1, <3>1 DEF Scope, EndsDisabled, EndsEnabled, Awaited, Aborted, Current
      <3>. QED BY <1>1, <1>4, <3>1, <3>2 DEF FollowInv
    <2>. QED BY <2>2, <2>3
  <1>14. Observed' <=> Observed
    BY <1>1 DEF Observed
  <1>. QED
    BY <1>7, <1>8, <1>9, <1>10, <1>11, <1>12, <1>13, <1>14 DEF IInv

LEMMA LeaveKeeps ==
  ASSUME IInv, Leave
  PROVE  IInv'
  <1>1. /\ micro = <<>> /\ ~frozen /\ hooked /\ tear = "none"
        /\ runtime' = "stopping" /\ tear' = "features" /\ cut' = TRUE
        /\ Request([f \in Features |-> <<Transition("disable", 0)>>], micro)
        /\ UNCHANGED <<storage, fast, main, hooked, watching, frozen, url, gen, loc, flags, notice,
                       want, timers, loader, status, on, refs, budget>>
    BY DEF Leave, Idle, bootVars, featureVars
  <1>2. /\ \A f \in Features : chain[f] = <<>>
        /\ notice = 0 /\ fast \notin FastSteps /\ main \notin MainSteps
        /\ \A w : ~Has(micro, w)
        /\ Distinct(micro) /\ micro \in Seq(Jobs) /\ DOMAIN micro = {}
    BY <1>1, AtRest DEF IInv, TypeOK, TaskType
  <1>3. fast = "done" /\ storage # "pending"
    BY <1>1, <1>2 DEF IInv, BootInv, FastSteps
  <1>4. gen \in Nat /\ gen' \in Nat /\ gen <= gen'
    BY <1>1, LifecycleAssumption DEF IInv, TypeOK, RouteType
  <1>. DEFINE t == Transition("disable", 0)
              asked == [f \in Features |-> <<t>>]
  <1>5. t \in Requested' /\ t.route = 0 /\ t.action = "disable"
    BY <1>4 DEF Transition, Requested
  <1>6. Request(asked, micro)
    BY <1>1
  <1>. HIDE DEF t
  <1>7. /\ DOMAIN asked = Features
        /\ \A f \in Features : /\ asked[f] = <<t>> /\ asked[f] \in Seq(Requested') /\ asked[f] # <<>>
                               /\ \A i \in DOMAIN asked[f] : asked[f][i].route = 0
    BY <1>5
  <1>. HIDE DEF asked
  <1>8. /\ Joined(Requested', asked)
        /\ chain' \in [Features -> Seq(Requested')] /\ micro' \in Seq(Jobs)
        /\ JobInv' /\ HandledInv' /\ RouteInv'
    <2>1. \A f \in Features : \A i \in DOMAIN chain[f] :
            chain[f][i].route = 0 \/ (chain[f][i].route = gen' /\ ~cut')
      <3>1. \A f \in Features : DOMAIN chain[f] = {}
        BY <1>2
      <3>. QED BY <3>1
    <2>2. Has(micro, "fast") <=> fast' \in FastSteps
      BY <1>1, <1>2
    <2>3. Has(micro, "main") <=> main' \in MainSteps
      BY <1>1, <1>2
    <2>4. /\ \A i \in DOMAIN micro : Shape(micro[i])
          /\ \A i \in DOMAIN micro : micro[i].who \in Features => \E k \in DOMAIN micro : micro[i] = micro[k]
          /\ ~Has(micro, "route") /\ notice' = 0 /\ on' = on
      BY <1>1, <1>2
    <2>5. /\ DOMAIN asked \subseteq Features
          /\ \A f \in DOMAIN asked : asked[f] \in Seq(Requested') /\ asked[f] # <<>>
          /\ \A f \in DOMAIN asked : \A i \in DOMAIN asked[f] :
               asked[f][i].route = 0 \/ (asked[f][i].route = gen' /\ ~cut')
      BY <1>7
    <2>6. PICK q : q = micro
      OBVIOUS
    <2>7. /\ q \in Seq(Jobs) /\ Distinct(q) /\ (\A i \in DOMAIN q : Shape(q[i]))
          /\ (\A f \in Features : Has(q, f) <=> Has(micro, f))
          /\ (\A i \in DOMAIN q : q[i].who \in Features => \E k \in DOMAIN micro : q[i] = micro[k])
          /\ (Has(q, "fast") <=> fast' \in FastSteps) /\ (Has(q, "main") <=> main' \in MainSteps)
          /\ ~Has(q, "route") /\ Request(asked, q)
      BY <1>2, <1>6, <2>2, <2>3, <2>4, <2>6
    <2>. QED
      BY <1>4, <2>1, <2>4, <2>5, <2>7, RequestTasks
  <1>9. \A f \in Features : chain'[f] = <<t>>
    BY <1>2, <1>7, <1>8 DEF Joined
  <1>10. TypeOK'
    <2>1. BootType' /\ RunType'
      BY <1>1 DEF IInv, TypeOK, BootType, RunType
    <2>2. RouteType' /\ FeatureType' /\ BudgetType'
      BY <1>1 DEF IInv, TypeOK, RouteType, FeatureType, BudgetType
    <2>3. TaskType'
      BY <1>1, <1>8 DEF IInv, TypeOK, TaskType
    <2>. QED BY <2>1, <2>2, <2>3 DEF TypeOK
  <1>11. BootInv' /\ GenInv'
    BY <1>1, <1>3 DEF IInv, BootInv, GenInv
  <1>12. LeaveInv'
    BY <1>1, <1>2, <1>3, <1>9 DEF LeaveInv, t
  <1>13. ASSUME Observed PROVE FlagsInv' /\ \A f \in Features : FollowInv(f)'
    <2>1. FlagsInv
      BY <1>13 DEF IInv
    <2>2. FlagsInv'
      BY <1>1, <2>1 DEF FlagsInv
    <2>3. ASSUME NEW f \in Features PROVE FollowInv(f)'
      <3>1. chain'[f] # <<>> /\ \A i \in DOMAIN chain'[f] : chain'[f][i].action = "disable"
        BY <1>5, <1>9
      <3>. QED BY <1>1, <3>1 DEF FollowInv
    <2>. QED BY <2>2, <2>3
  <1>14. Observed' <=> Observed
    BY <1>1 DEF Observed
  <1>. QED
    BY <1>8, <1>10, <1>11, <1>12, <1>13, <1>14 DEF IInv

LEMMA MoveKeeps ==
  ASSUME IInv, NEW page \in Pages, Move(page)
  PROVE  IInv'
  <1>1. /\ (micro = <<>> /\ ~frozen) \/ micro = <<RouteJob>>
        /\ tear = "none" /\ page # loc /\ loc' = page
        /\ Spend("moves", MaxMoves)
        /\ IF watching /\ page # url
           THEN /\ url' = page /\ gen' = gen + 1 /\ cut' = FALSE /\ notice' = gen + 1
                /\ micro' = micro \o IF notice = 0 THEN <<RouteJob>> ELSE <<>>
           ELSE UNCHANGED <<url, gen, cut, notice, micro>>
        /\ UNCHANGED <<storage, fast, main, hooked, watching, runtime, frozen, tear, flags, want,
                       timers, chain, loader, status, on, refs>>
    BY DEF Move, Idle, bootVars, runVars, routeVars, featureVars
  <1>2. /\ \A f \in Features : chain[f] = <<>>
        /\ fast \notin FastSteps /\ main \notin MainSteps
        /\ notice # 0 => notice = gen
        /\ micro = IF notice = 0 THEN <<>> ELSE <<RouteJob>>
    BY <1>1, AtRest, AtNotice
  <1>3. ~frozen
    <2>1. frozen => micro = <<>>
      BY DEF IInv, LeaveInv
    <2>2. micro = <<RouteJob>> => micro # <<>>
      OBVIOUS
    <2>. QED BY <1>1, <2>1, <2>2
  <1>4. ~cut /\ runtime # "stopped"
    BY <1>1, <1>3 DEF IInv, LeaveInv
  <1>5. BudgetType' /\ budget'.moves = budget.moves + 1 /\ budget'.hides = budget.hides
    BY <1>1, LifecycleAssumption DEF Spend, IInv, TypeOK, BudgetType
  <1>6. /\ gen \in Nat /\ gen + 1 <= 1 + budget'.moves + budget'.hides
        /\ gen + 1 <= 1 + MaxMoves + MaxHides
    <2>1. gen \in Nat /\ gen <= 1 + budget.moves + budget.hides
      BY <1>3, LifecycleAssumption DEF IInv, GenInv, TypeOK, RouteType
    <2>2. budget.moves \in Nat /\ budget.hides \in Nat
      BY LifecycleAssumption DEF IInv, TypeOK, BudgetType
    <2>3. budget'.moves \in 0 .. MaxMoves /\ budget'.hides \in 0 .. MaxHides
      BY <1>5 DEF BudgetType
    <2>. QED BY <1>5, <2>1, <2>2, <2>3, LifecycleAssumption
  <1>7. HandledInv' /\ RouteInv'
    <2>1. \A i \in DOMAIN micro' : micro'[i].who \notin Features
      <3>1. micro' = <<>> \/ micro' = <<RouteJob>>
        <4>1. <<>> \o <<RouteJob>> = <<RouteJob>> /\ <<RouteJob>> \o <<>> = <<RouteJob>>
          BY ConcatEmptySeq
        <4>. QED BY <1>1, <1>2, <4>1
      <3>. QED BY <3>1, LifecycleAssumption DEF RouteJob, Job
    <2>. QED BY <1>1, <1>2, <2>1 DEF HandledInv, RouteInv
  <1>8. CASE watching /\ page # url
    <2>1. url' = page /\ gen' = gen + 1 /\ cut' = FALSE /\ notice' = gen + 1 /\ micro' = <<RouteJob>>
      <3>1. <<>> \o <<RouteJob>> = <<RouteJob>> /\ <<RouteJob>> \o <<>> = <<RouteJob>>
        BY ConcatEmptySeq
      <3>. QED BY <1>1, <1>2, <1>8, <3>1
    <2>2. fast = "done" /\ gen # 0
      BY <1>8 DEF IInv, BootInv, GenInv
    <2>3. /\ DOMAIN micro' = {1} /\ micro'[1] = RouteJob /\ micro' \in Seq(Jobs)
          /\ RouteJob.who = "route" /\ RouteJob.do = "notify"
      <3>1. RouteJob \in Jobs /\ RouteJob.who = "route" /\ RouteJob.do = "notify"
        BY DEF RouteJob, Job, Jobs
      <3>. QED BY <2>1, <3>1
    <2>4. JobInv'
      <3>1. \A w : Has(micro', w) <=> w = "route"
        BY <2>3 DEF Has
      <3>2. Distinct(micro') /\ \A i \in DOMAIN micro' : Shape(micro'[i])
        BY <2>3, LifecycleAssumption DEF Distinct, Shape
      <3>3. \A f \in Features : f # "route"
        BY LifecycleAssumption
      <3>4. gen' # 0 /\ notice' = gen' /\ notice' # 0
        BY <1>6, <2>1
      <3>. QED BY <1>1, <1>2, <2>1, <3>1, <3>2, <3>3, <3>4 DEF JobInv
    <2>5. TypeOK'
      <3>1. BootType' /\ RunType' /\ FeatureType'
        BY <1>1 DEF IInv, TypeOK, BootType, RunType, FeatureType
      <3>2. RouteType'
        <4>1. gen' \in 0 .. (1 + MaxMoves + MaxHides) /\ notice' \in 0 .. gen'
          BY <1>6, <2>1, LifecycleAssumption
        <4>2. loc' \in Pages /\ url' \in Pages \cup {NoPage} /\ flags' \in Pages \cup {NoPage} /\ cut' \in BOOLEAN
          BY <1>1, <2>1 DEF IInv, TypeOK, RouteType
        <4>. QED BY <4>1, <4>2 DEF RouteType
      <3>3. TaskType'
        <4>1. Requested \subseteq Requested'
          BY <1>6, <2>1 DEF Requested
        <4>2. chain' \in [Features -> Seq(Requested')]
          BY <1>1, <4>1 DEF IInv, TypeOK, TaskType
        <4>3. loader' \in [left : Seq(Features), route : 0 .. gen']
          BY <1>1, <1>6, <2>1 DEF IInv, TypeOK, TaskType
        <4>. QED BY <2>3, <4>2, <4>3 DEF TaskType
      <3>. QED BY <1>5, <3>1, <3>2, <3>3 DEF TypeOK
    <2>6. BootInv'
      BY <1>1, <2>2 DEF IInv, BootInv
    <2>7. GenInv'
      <3>1. gen' + (IF frozen' THEN 1 ELSE 0) <= 1 + budget'.moves + budget'.hides
        BY <1>1, <1>3, <1>5, <1>6, <2>1
      <3>2. gen' # 0
        BY <1>6, <2>1
      <3>. QED BY <1>1, <2>1, <2>2, <3>1, <3>2 DEF IInv, GenInv
    <2>8. LeaveInv'
      BY <1>1, <1>3, <1>4, <2>1 DEF LeaveInv
    <2>9. FlagsInv' /\ \A f \in Features : FollowInv(f)'
      <3>1. FlagsInv /\ \A f \in Features : FollowInv(f)
        BY <1>8 DEF IInv, Observed
      <3>2. notice' # 0 /\ gen' # 0
        BY <1>6, <2>1
      <3>3. FlagsInv'
        BY <1>1, <2>1, <3>2 DEF FlagsInv
      <3>4. ASSUME NEW f \in Features PROVE FollowInv(f)'
        BY <1>1, <2>1, <3>1, <3>2 DEF FollowInv, Scope, EndsDisabled
      <3>. QED BY <3>3, <3>4
    <2>. QED
      BY <1>7, <2>4, <2>5, <2>6, <2>7, <2>8, <2>9 DEF IInv
  <1>9. CASE ~(watching /\ page # url)
    <2>1. UNCHANGED <<url, gen, cut, notice, micro>>
      BY <1>1, <1>9
    <2>2. JobInv' /\ BootInv' /\ LeaveInv'
      BY <1>1, <2>1 DEF IInv, JobInv, BootInv, LeaveInv
    <2>3. TypeOK'
      <3>1. BootType' /\ RunType' /\ FeatureType'
        BY <1>1 DEF IInv, TypeOK, BootType, RunType, FeatureType
      <3>2. RouteType'
        BY <1>1, <2>1 DEF IInv, TypeOK, RouteType
      <3>3. TaskType'
        BY <1>1, <2>1 DEF IInv, TypeOK, TaskType, Requested
      <3>. QED BY <1>5, <3>1, <3>2, <3>3 DEF TypeOK
    <2>4. GenInv'
      <3>1. gen' + (IF frozen' THEN 1 ELSE 0) <= 1 + budget'.moves + budget'.hides
        <4>1. budget'.moves \in Nat /\ budget'.hides \in Nat
          BY <1>5, LifecycleAssumption DEF BudgetType
        <4>. QED BY <1>1, <1>3, <1>6, <2>1, <4>1
      <3>. QED BY <1>1, <2>1, <3>1 DEF IInv, GenInv
    <2>5. ASSUME Observed PROVE FlagsInv' /\ \A f \in Features : FollowInv(f)'
      <3>1. FlagsInv /\ \A f \in Features : FollowInv(f)
        BY <2>5 DEF IInv
      <3>2. gen = 0
        <4>1. ASSUME gen # 0 PROVE FALSE
          <5>1. url = loc
            BY <3>1, <4>1 DEF FlagsInv
          <5>2. ~watching
            BY <1>1, <1>9, <5>1
          <5>3. fast \notin {"done", "failed", "storage", "beginRoute"}
            BY <2>5, <4>1, <5>2 DEF Observed, IInv, GenInv
          <5>. QED BY <1>2, <5>3 DEF FastSteps, IInv, TypeOK, BootType
        <4>. QED BY <4>1
      <3>3. /\ fast = "storage" /\ flags = NoPage
        BY <1>2, <2>5, <3>1, <3>2 DEF FlagsInv, Observed, FastSteps, IInv, BootInv, GenInv
      <3>4. main \notin {"load", "loading", "done"}
        BY <3>3 DEF IInv, BootInv
      <3>5. FlagsInv'
        BY <1>1, <2>1, <3>2, <3>3, <3>4 DEF FlagsInv
      <3>6. ASSUME NEW f \in Features PROVE FollowInv(f)'
        BY <1>1, <2>1, <3>1, FollowStays
      <3>. QED BY <3>5, <3>6
    <2>6. Observed' <=> Observed
      BY <1>1 DEF Observed
    <2>. QED
      BY <1>7, <2>2, <2>3, <2>4, <2>5, <2>6 DEF IInv
  <1>. QED
    BY <1>8, <1>9

\* What a route change asks of each feature it asks something of.
Wanted(f, page, route) ==
  Transition(IF f \in want \cap InScope[page] THEN "enable" ELSE "disable", route)

Reconciles(asked, page, route) ==
  /\ DOMAIN asked \subseteq Features
  /\ \A f \in DOMAIN asked : asked[f] = <<Wanted(f, page, route)>>
  /\ \A f \in Features \ DOMAIN asked :
       status[f] = IF f \in want \cap InScope[page] THEN "running" ELSE "disabled"
  /\ \A f \in DOMAIN asked : f \notin want \cap InScope[page] => status[f] # "disabled"

LEMMA ReconcileAsks ==
  ASSUME want \subseteq Features, NEW page, NEW route, NEW q, Reconcile(page, route, q)
  PROVE  \E asked : Reconciles(asked, page, route) /\ Request(asked, q)
  <1>. DEFINE should == want \cap InScope[page]
              start == {f \in should : status[f] # "running"}
              stop == {f \in Features \ should : status[f] # "disabled"}
              asked == [f \in start \cup stop |->
                          <<Transition(IF f \in start THEN "enable" ELSE "disable", route)>>]
  <1>1. Request(asked, q)
    BY DEF Reconcile
  <1>2. /\ DOMAIN asked = start \cup stop
        /\ \A f \in start \cup stop : f \in start <=> f \in should
        /\ \A f \in start \cup stop :
             asked[f] = <<Transition(IF f \in start THEN "enable" ELSE "disable", route)>>
    OBVIOUS
  <1>3. start \cup stop \subseteq Features
    OBVIOUS
  <1>4. ASSUME NEW f \in Features \ (start \cup stop)
        PROVE  status[f] = IF f \in should THEN "running" ELSE "disabled"
    OBVIOUS
  <1>5. \A f \in DOMAIN asked : asked[f] = <<Wanted(f, page, route)>>
    BY <1>2 DEF Wanted
  <1>6. \A f \in DOMAIN asked : f \notin should => status[f] # "disabled"
    BY <1>2
  <1>. HIDE DEF asked
  <1>7. Reconciles(asked, page, route)
    BY <1>2, <1>3, <1>4, <1>5, <1>6 DEF Reconciles
  <1>. QED
    BY <1>1, <1>7

\* A route change is followed at once.
LEMMA ReconcileFollow ==
  ASSUME NEW f \in Features, chain[f] = <<>>, FollowInv(f), NEW page \in Pages, NEW route, NEW asked,
         Reconciles(asked, page, route), Joined(Requested', asked), flags' = page,
         UNCHANGED <<want, timers, tear, status, on>>
  PROVE  FollowInv(f)'
  <1>1. Scope' = InScope[page]
    BY LifecycleAssumption DEF Scope
  <1>2. (status[f] = "running" => f \in on) /\ (status[f] = "disabled" => f \notin on)
    BY DEF FollowInv
  <1>3. CASE f \notin DOMAIN asked
    <2>1. chain'[f] = <<>> /\ status'[f] = IF f \in want \cap InScope[page] THEN "running" ELSE "disabled"
      BY <1>3 DEF Joined, Reconciles
    <2>2. DOMAIN chain'[f] = {}
      BY <2>1
    <2>3. (f \notin want \cap InScope[page] => EndsDisabled(f)') /\ (f \in want \cap InScope[page] => EndsEnabled(f)')
      BY <2>1 DEF EndsDisabled, EndsEnabled
    <2>. QED
      BY <1>1, <1>2, <2>1, <2>2, <2>3 DEF FollowInv
  <1>4. CASE f \in DOMAIN asked
    <2>. DEFINE t == Wanted(f, page, route)
    <2>1. chain'[f] = <<t>>
      BY <1>4 DEF Joined, Reconciles
    <2>2. t.action = IF f \in want \cap InScope[page] THEN "enable" ELSE "disable"
      BY DEF Wanted, Transition
    <2>. HIDE DEF t
    <2>3. chain'[f] # <<>> /\ Len(chain'[f]) = 1 /\ DOMAIN chain'[f] = {1} /\ chain'[f][1] = t
      BY <2>1
    <2>4. (f \notin want \cap InScope[page] => EndsDisabled(f)') /\ (f \in want \cap InScope[page] => EndsEnabled(f)')
      BY <2>2, <2>3 DEF EndsDisabled, EndsEnabled
    <2>. QED
      BY <1>1, <2>2, <2>3, <2>4 DEF FollowInv
  <1>. QED
    BY <1>3, <1>4

\* What both ways to a reconciliation share: every queue is empty.
LEMMA ReconcileTasks ==
  ASSUME IInv, NEW page \in Pages, Reconcile(page, gen', <<>>), ~cut', gen' \in Nat, gen <= gen',
         \A f \in Features : chain[f] = <<>>, \A f \in Features : ~Has(micro, f),
         fast' \notin FastSteps, main' \notin MainSteps, notice' = 0, on' = on
  PROVE  /\ chain' \in [Features -> Seq(Requested')] /\ micro' \in Seq(Jobs)
         /\ JobInv' /\ HandledInv' /\ RouteInv'
         /\ \E asked : Reconciles(asked, page, gen') /\ Joined(Requested', asked)
  <1>1. PICK route : route = gen'
    OBVIOUS
  <1>2. PICK q : q = <<>>
    OBVIOUS
  <1>3. Reconcile(page, route, q)
    BY <1>1, <1>2
  <1>4. PICK asked : Reconciles(asked, page, route) /\ Request(asked, q)
    BY <1>3, ReconcileAsks DEF IInv, TypeOK, FeatureType
  <1>5. /\ DOMAIN asked \subseteq Features
        /\ \A f \in DOMAIN asked :
             /\ asked[f] \in Seq(Requested') /\ asked[f] # <<>>
             /\ \A i \in DOMAIN asked[f] : asked[f][i].route = gen'
    <2>1. DOMAIN asked \subseteq Features
      BY <1>4 DEF Reconciles
    <2>2. ASSUME NEW f \in DOMAIN asked
          PROVE  /\ asked[f] \in Seq(Requested') /\ asked[f] # <<>>
                 /\ \A i \in DOMAIN asked[f] : asked[f][i].route = gen'
      <3>. DEFINE t == Wanted(f, page, route)
      <3>1. t \in Requested' /\ t.route = gen'
        BY <1>1 DEF Wanted, Transition, Requested
      <3>2. asked[f] = <<t>>
        BY <1>4 DEF Reconciles
      <3>. HIDE DEF t
      <3>. QED BY <3>1, <3>2
    <2>. QED BY <2>1, <2>2
  <1>6. /\ q \in Seq(Jobs) /\ DOMAIN q = {} /\ Distinct(q) /\ \A w : ~Has(q, w)
    BY <1>2 DEF Distinct, Has
  <1>7. /\ Joined(Requested', asked)
        /\ chain' \in [Features -> Seq(Requested')] /\ micro' \in Seq(Jobs)
        /\ JobInv' /\ HandledInv' /\ RouteInv'
    <2>1. \A f \in Features : \A i \in DOMAIN chain[f] :
            chain[f][i].route = 0 \/ (chain[f][i].route = gen' /\ ~cut')
      OBVIOUS
    <2>2. \A f \in DOMAIN asked : \A i \in DOMAIN asked[f] :
            asked[f][i].route = 0 \/ (asked[f][i].route = gen' /\ ~cut')
      BY <1>5
    <2>3. (\A i \in DOMAIN q : Shape(q[i])) /\ (\A f \in Features : Has(q, f) <=> Has(micro, f))
          /\ (\A i \in DOMAIN q : q[i].who \in Features => \E k \in DOMAIN micro : q[i] = micro[k])
      BY <1>6
    <2>4. (Has(q, "fast") <=> fast' \in FastSteps) /\ (Has(q, "main") <=> main' \in MainSteps) /\ ~Has(q, "route")
      BY <1>6
    <2>. QED
      BY <1>4, <1>5, <1>6, <2>1, <2>2, <2>3, <2>4, RequestTasks
  <1>. QED
    BY <1>1, <1>4, <1>7

LEMMA NotifyKeeps ==
  ASSUME IInv, Notify
  PROVE  IInv'
  <1>1. /\ micro # <<>> /\ Head(micro).do = "notify" /\ notice' = 0
        /\ IF Current(notice)
           THEN flags' = loc /\ Reconcile(loc, notice, Tail(micro))
           ELSE micro' = Tail(micro) /\ UNCHANGED <<flags, chain>>
        /\ UNCHANGED <<storage, fast, main, hooked, watching, runtime, frozen, tear, url, gen, cut,
                       loc, want, timers, loader, status, on, refs, budget>>
    BY DEF Notify, Next1, bootVars, runVars, routeVars, featureVars
  <1>2. micro = <<RouteJob>>
    <2>1. Head(micro) = micro[1] /\ micro[1] \in Jobs /\ Shape(micro[1]) /\ Has(micro, micro[1].who)
      BY <1>1, HeadJob DEF IInv
    <2>2. micro[1].who \in Features \cup {"fast", "main", "route"}
      BY <2>1 DEF Jobs
    <2>3. micro[1].who = "route"
      BY <1>1, <2>1, <2>2 DEF Shape
    <2>. QED BY <2>1, <2>3 DEF IInv, JobInv
  <1>3. /\ \A f \in Features : chain[f] = <<>>
        /\ notice = gen /\ notice # 0 /\ ~cut /\ fast \notin FastSteps /\ main \notin MainSteps
    BY <1>2, AtNotice
  <1>4. gen \in Nat /\ gen # 0 /\ loc \in Pages
    BY <1>3, LifecycleAssumption DEF IInv, TypeOK, RouteType
  <1>5. flags' = loc /\ Reconcile(loc, gen', <<>>)
    <2>1. Tail(micro) = <<>>
      BY <1>2
    <2>. QED BY <1>1, <1>3, <2>1 DEF Current
  <1>6. \A f \in Features : ~Has(micro, f)
    BY <1>3 DEF IInv, JobInv
  <1>7. /\ chain' \in [Features -> Seq(Requested')] /\ micro' \in Seq(Jobs)
        /\ JobInv' /\ HandledInv' /\ RouteInv'
        /\ \E asked : Reconciles(asked, loc, gen') /\ Joined(Requested', asked)
    <2>1. fast' \notin FastSteps /\ main' \notin MainSteps /\ ~cut' /\ gen' \in Nat /\ gen <= gen'
      BY <1>1, <1>3, <1>4
    <2>. QED BY <1>1, <1>3, <1>4, <1>5, <1>6, <2>1, ReconcileTasks
  <1>8. TypeOK'
    <2>1. BootType' /\ RunType' /\ FeatureType' /\ BudgetType'
      BY <1>1 DEF IInv, TypeOK, BootType, RunType, FeatureType, BudgetType
    <2>2. RouteType'
      BY <1>1, <1>4, <1>5 DEF IInv, TypeOK, RouteType
    <2>3. TaskType'
      BY <1>1, <1>7 DEF IInv, TypeOK, TaskType
    <2>. QED BY <2>1, <2>2, <2>3 DEF TypeOK
  <1>9. BootInv' /\ GenInv'
    BY <1>1, <1>3 DEF IInv, BootInv, GenInv, FastSteps
  <1>10. LeaveInv'
    <2>1. tear = "none"
      BY <1>3 DEF IInv, LeaveInv
    <2>2. ~frozen /\ runtime # "stopped"
      BY <1>1, <2>1 DEF IInv, LeaveInv
    <2>. QED BY <1>1, <1>3, <2>1, <2>2 DEF LeaveInv
  <1>11. ASSUME Observed PROVE FlagsInv' /\ \A f \in Features : FollowInv(f)'
    <2>1. FlagsInv /\ \A f \in Features : FollowInv(f)
      BY <1>11 DEF IInv
    <2>2. FlagsInv'
      BY <1>1, <1>4, <1>5, <2>1 DEF FlagsInv
    <2>3. PICK asked : Reconciles(asked, loc, gen') /\ Joined(Requested', asked)
      BY <1>7
    <2>4. ASSUME NEW f \in Features PROVE FollowInv(f)'
      BY <1>1, <1>3, <1>4, <1>5, <2>1, <2>3, ReconcileFollow
    <2>. QED BY <2>2, <2>4
  <1>12. Observed' <=> Observed
    BY <1>1 DEF Observed
  <1>. QED
    BY <1>7, <1>8, <1>9, <1>10, <1>11, <1>12 DEF IInv

LEMMA ShowKeeps ==
  ASSUME IInv, Show
  PROVE  IInv'
  <1>1. /\ frozen /\ frozen' = FALSE
        /\ UNCHANGED <<storage, fast, main, hooked, watching, tear, loc, notice, want, timers,
                       loader, status, on, refs, budget>>
    BY DEF Show, bootVars, featureVars
  <1>2. micro = <<>> /\ tear = "none"
    BY <1>1 DEF IInv, LeaveInv
  <1>3. /\ \A f \in Features : chain[f] = <<>>
        /\ notice = 0 /\ fast \notin FastSteps /\ main \notin MainSteps
        /\ \A w : ~Has(micro, w)
    BY <1>2, AtRest
  <1>4. gen \in Nat /\ loc \in Pages
    BY LifecycleAssumption DEF IInv, TypeOK, RouteType
  <1>5. BudgetType' /\ budget.moves \in Nat /\ budget.hides \in Nat
        /\ budget.moves <= MaxMoves /\ budget.hides <= MaxHides
    BY <1>1, LifecycleAssumption DEF IInv, TypeOK, BudgetType
  <1>6. CASE hooked
    <2>1. /\ url' = loc /\ gen' = gen + 1 /\ cut' = FALSE /\ runtime' = "running" /\ flags' = loc
          /\ Reconcile(loc, gen', <<>>)
      BY <1>2, <1>6 DEF Show, BeginRoute
    <2>2. fast = "done" /\ gen # 0
      BY <1>3, <1>6 DEF IInv, BootInv, GenInv, FastSteps
    <2>3. gen + 1 <= 1 + budget.moves + budget.hides
      BY <1>1 DEF IInv, GenInv
    <2>4. /\ chain' \in [Features -> Seq(Requested')] /\ micro' \in Seq(Jobs)
          /\ JobInv' /\ HandledInv' /\ RouteInv'
          /\ \E asked : Reconciles(asked, loc, gen') /\ Joined(Requested', asked)
      <3>1. fast' \notin FastSteps /\ main' \notin MainSteps /\ ~cut' /\ gen' \in Nat /\ gen <= gen'
        BY <1>1, <1>3, <1>4, <2>1
      <3>. QED BY <1>1, <1>3, <1>4, <2>1, <3>1, ReconcileTasks
    <2>5. TypeOK'
      <3>1. BootType' /\ RunType' /\ FeatureType'
        BY <1>1, <2>1 DEF IInv, TypeOK, BootType, RunType, FeatureType
      <3>2. RouteType'
        <4>1. gen' \in 0 .. (1 + MaxMoves + MaxHides) /\ notice' \in 0 .. gen'
          BY <1>1, <1>3, <1>4, <1>5, <2>1, <2>3, LifecycleAssumption
        <4>2. loc' \in Pages /\ url' \in Pages \cup {NoPage} /\ flags' \in Pages \cup {NoPage} /\ cut' \in BOOLEAN
          BY <1>1, <1>4, <2>1
        <4>. QED BY <4>1, <4>2 DEF RouteType
      <3>3. TaskType'
        <4>1. loader' \in [left : Seq(Features), route : 0 .. gen']
          BY <1>1, <1>4, <2>1 DEF IInv, TypeOK, TaskType
        <4>. QED BY <2>4, <4>1 DEF TaskType
      <3>. QED BY <1>5, <3>1, <3>2, <3>3 DEF TypeOK
    <2>6. BootInv'
      BY <1>1, <2>2 DEF IInv, BootInv
    <2>7. GenInv'
      <3>1. gen' + (IF frozen' THEN 1 ELSE 0) <= 1 + budget'.moves + budget'.hides
        BY <1>1, <1>4, <1>5, <2>1, <2>3
      <3>2. gen' # 0
        BY <1>4, <2>1
      <3>. QED BY <1>1, <2>1, <2>2, <3>1, <3>2 DEF IInv, GenInv
    <2>8. LeaveInv'
      BY <1>1, <1>2, <2>1 DEF LeaveInv
    <2>9. ASSUME Observed PROVE FlagsInv' /\ \A f \in Features : FollowInv(f)'
      <3>1. FlagsInv /\ \A f \in Features : FollowInv(f)
        BY <2>9 DEF IInv
      <3>2. FlagsInv'
        BY <1>1, <1>4, <2>1 DEF FlagsInv
      <3>3. PICK asked : Reconciles(asked, loc, gen') /\ Joined(Requested', asked)
        BY <2>4
      <3>4. ASSUME NEW f \in Features PROVE FollowInv(f)'
        BY <1>1, <1>3, <1>4, <2>1, <3>1, <3>3, ReconcileFollow
      <3>. QED BY <3>2, <3>4
    <2>10. Observed' <=> Observed
      BY <1>1 DEF Observed
    <2>. QED
      BY <2>4, <2>5, <2>6, <2>7, <2>8, <2>9, <2>10 DEF IInv
  <1>7. CASE ~hooked
    <2>1. UNCHANGED <<runtime, url, gen, cut, flags, chain, micro>>
      BY <1>7 DEF Show, routeVars
    <2>2. ~cut /\ runtime # "stopped"
      BY <1>2, <1>7 DEF IInv, LeaveInv
    <2>3. TypeOK'
      <3>1. BootType' /\ FeatureType' /\ RouteType'
        BY <1>1, <2>1 DEF IInv, TypeOK, BootType, FeatureType, RouteType
      <3>2. RunType'
        BY <1>1, <2>1 DEF IInv, TypeOK, RunType
      <3>3. TaskType'
        BY <1>1, <2>1 DEF IInv, TypeOK, TaskType, Requested
      <3>. QED BY <1>5, <3>1, <3>2, <3>3 DEF TypeOK
    <2>4. JobInv' /\ HandledInv' /\ RouteInv' /\ BootInv'
      BY <1>1, <2>1 DEF IInv, JobInv, HandledInv, RouteInv, BootInv
    <2>5. GenInv'
      <3>1. gen' + (IF frozen' THEN 1 ELSE 0) <= 1 + budget'.moves + budget'.hides
        <4>1. gen + 1 <= 1 + budget.moves + budget.hides
          BY <1>1 DEF IInv, GenInv
        <4>. QED BY <1>1, <1>4, <1>5, <2>1, <4>1
      <3>. QED BY <1>1, <2>1, <3>1 DEF IInv, GenInv
    <2>6. LeaveInv'
      BY <1>1, <1>2, <2>1, <2>2 DEF LeaveInv
    <2>7. ASSUME Observed PROVE FlagsInv' /\ \A f \in Features : FollowInv(f)'
      <3>1. FlagsInv /\ \A f \in Features : FollowInv(f)
        BY <2>7 DEF IInv
      <3>2. FlagsInv'
        BY <1>1, <2>1, <3>1 DEF FlagsInv
      <3>3. ASSUME NEW f \in Features PROVE FollowInv(f)'
        BY <1>1, <2>1, <3>1, FollowStays
      <3>. QED BY <3>2, <3>3
    <2>8. Observed' <=> Observed
      BY <1>1 DEF Observed
    <2>. QED
      BY <2>3, <2>4, <2>5, <2>6, <2>7, <2>8 DEF IInv
  <1>. QED
    BY <1>6, <1>7

\* The next features of the loader, as far as they are wanted on this page.
Loads(asked, left, route, k) ==
  /\ DOMAIN asked = {left[i] : i \in 1 .. k} \cap want \cap Scope
  /\ \A f \in DOMAIN asked : asked[f] = <<Transition("enable", route)>>

LoadsNext(left, route) ==
  \E k \in 1 .. Len(left) :
    /\ loader' = [left |-> SubSeq(left, k + 1, Len(left)), route |-> route]
    /\ \E asked : Loads(asked, left, route, k) /\ Joined(Requested', asked)

LEMMA LoadAsks ==
  ASSUME NEW left, NEW route, NEW q, LoadChunk(left, route, q), ~Aborted(route)
  PROVE  \E k \in 1 .. Len(left) :
           /\ loader' = [left |-> SubSeq(left, k + 1, Len(left)), route |-> route]
           /\ status' = status
           /\ \E asked : Loads(asked, left, route, k) /\ Request(asked, q)
  <1>. DEFINE now(k) == {left[i] : i \in 1 .. k} \cap want \cap Scope
              fn(k) == [f \in now(k) |-> <<Transition("enable", route)>>]
  <1>1. PICK k \in 1 .. Len(left) :
          /\ loader' = [left |-> SubSeq(left, k + 1, Len(left)), route |-> route]
          /\ Request(fn(k), q)
          /\ status' = status
    BY DEF LoadChunk
  <1>2. Loads(fn(k), left, route, k)
    BY DEF Loads
  <1>. HIDE DEF fn
  <1>. QED
    BY <1>1, <1>2

\* A feature the loader does not ask for has been asked for, or is not wanted.
LEMMA LoadFollow ==
  ASSUME IInv, NEW f \in Features, FollowInv(f), NEW left \in Seq(Features), NEW route,
         NEW k \in 1 .. Len(left), NEW asked, Loads(asked, left, route, k), Joined(Requested', asked),
         loader' = [left |-> SubSeq(left, k + 1, Len(left)), route |-> route], ~Aborted(route),
         UNCHANGED <<flags, want, timers, tear, notice, cut, gen, status, on>>,
         IF main \in {"loading", "done"} THEN left = loader.left /\ route = loader.route
                                         ELSE Features = {left[i] : i \in DOMAIN left}
  PROVE  FollowInv(f)'
  <1>1. Scope' = Scope
    BY DEF Scope
  <1>2. CASE f \in DOMAIN asked
    <2>1. f \in want \cap Scope
      BY <1>2 DEF Loads
    <2>2. /\ chain'[f] # <<>> /\ chain'[f][Len(chain'[f])] = Transition("enable", route)
      <3>1. asked[f] = <<Transition("enable", route)>>
        BY <1>2 DEF Loads
      <3>2. asked[f][Len(asked[f])] = Transition("enable", route)
        BY <3>1
      <3>. QED BY <1>2, <3>2 DEF Joined
    <2>3. EndsEnabled(f)'
      BY <2>2 DEF EndsEnabled, Transition
    <2>. QED
      BY <1>1, <2>1, <2>2, <2>3 DEF FollowInv
  <1>3. CASE f \notin DOMAIN asked
    <2>1. chain'[f] = chain[f]
      BY <1>3 DEF Joined
    <2>2. (EndsDisabled(f)' <=> EndsDisabled(f)) /\ (EndsEnabled(f)' <=> EndsEnabled(f))
      BY <2>1 DEF EndsDisabled, EndsEnabled
    <2>3. ASSUME f \in want \cap Scope, ~Awaited(f)' PROVE main \in {"loading", "done"} /\ ~Awaited(f)
      <3>1. f \notin {left[i] : i \in 1 .. k}
        BY <1>3, <2>3 DEF Loads
      <3>2. f \notin {loader'.left[i] : i \in DOMAIN loader'.left}
        BY <2>3 DEF Awaited, Aborted, Current
      <3>. DEFINE n == Len(left)
                  r == SubSeq(left, k + 1, n)
      <3>3. n \in Nat /\ k \in 1 .. n /\ DOMAIN left = 1 .. n
        OBVIOUS
      <3>4. r = loader'.left
        OBVIOUS
      <3>5. Len(r) = n - k /\ DOMAIN r = 1 .. (n - k) /\ \A i \in 1 .. (n - k) : r[i] = left[k + i]
        <4>1. /\ r \in Seq(Features)
              /\ Len(r) = (IF k + 1 <= n THEN n - (k + 1) + 1 ELSE 0)
              /\ \A i \in 1 .. (n - (k + 1) + 1) : r[i] = left[(k + 1) + i - 1]
          <5>1. k + 1 \in Int /\ n \in Int /\ \A i \in (k + 1) .. n : left[i] \in Features
            BY <3>3
          <5>. HIDE DEF n
          <5>. QED BY <5>1, SubSeqProperties
        <4>. HIDE DEF n, r
        <4>2. n - (k + 1) + 1 = n - k /\ Len(r) = n - k
          BY <3>3, <4>1
        <4>3. \A i \in 1 .. (n - k) : (k + 1) + i - 1 = k + i
          BY <3>3
        <4>. QED BY <4>1, <4>2, <4>3
      <3>. HIDE DEF n, r
      <3>6. ASSUME NEW i \in DOMAIN left PROVE left[i] # f
        <4>1. CASE i <= k
          BY <3>1, <3>3, <4>1
        <4>2. CASE i > k
          <5>1. i - k \in 1 .. (n - k) /\ k + (i - k) = i
            BY <3>3, <4>2
          <5>2. r[i - k] = left[i]
            BY <3>5, <5>1
          <5>. QED BY <3>2, <3>4, <3>5, <5>1, <5>2
        <4>. QED BY <3>3, <4>1, <4>2
      <3>7. f \notin {left[i] : i \in DOMAIN left}
        BY <3>6
      <3>. QED BY <3>7 DEF Awaited
    <2>4. f \in want' \cap Scope' /\ ~Awaited(f)' => f \in want \cap Scope
      BY <1>1
    <2>. QED
      BY <1>1, <2>1, <2>2, <2>3, <2>4 DEF FollowInv
  <1>. QED
    BY <1>2, <1>3

\* What the two ways to the next features share.
LEMMA LoadTasks ==
  ASSUME IInv, NEW left \in Seq(Features), NEW route \in 0 .. gen, ~Aborted(route),
         NEW q \in Seq(Jobs), LoadChunk(left, route, q),
         Distinct(q), \A i \in DOMAIN q : Shape(q[i]),
         \A f \in Features : Has(q, f) <=> Has(micro, f),
         \A i \in DOMAIN q : q[i].who \in Features => \E k \in DOMAIN micro : q[i] = micro[k],
         Has(q, "fast") <=> fast' \in FastSteps, Has(q, "main") <=> main' \in MainSteps,
         ~Has(q, "route"), notice' = 0, UNCHANGED <<gen, cut, on>>
  PROVE  /\ chain' \in [Features -> Seq(Requested')] /\ micro' \in Seq(Jobs)
         /\ JobInv' /\ HandledInv' /\ RouteInv' /\ (Ahead(q) => Ahead(micro'))
         /\ loader' \in [left : Seq(Features), route : 0 .. gen] /\ loader'.route = route
         /\ status' = status
         /\ LoadsNext(left, route)
  <1>1. PICK k \in 1 .. Len(left) :
           /\ loader' = [left |-> SubSeq(left, k + 1, Len(left)), route |-> route]
           /\ status' = status
           /\ \E asked : Loads(asked, left, route, k) /\ Request(asked, q)
    BY LoadAsks
  <1>2. PICK asked : Loads(asked, left, route, k) /\ Request(asked, q)
    BY <1>1
  <1>3. gen \in Nat /\ gen' \in Nat /\ gen <= gen'
    BY LifecycleAssumption DEF IInv, TypeOK, RouteType
  <1>4. route = 0 \/ (route = gen' /\ ~cut')
    BY DEF Aborted, Current
  <1>5. /\ DOMAIN asked \subseteq Features
        /\ \A f \in DOMAIN asked :
             /\ asked[f] \in Seq(Requested') /\ asked[f] # <<>>
             /\ \A i \in DOMAIN asked[f] : asked[f][i].route = route
    <2>1. DOMAIN asked \subseteq Features
      <3>1. want \subseteq Features
        BY DEF IInv, TypeOK, FeatureType
      <3>. QED BY <1>2, <3>1 DEF Loads
    <2>2. ASSUME NEW f \in DOMAIN asked
          PROVE  /\ asked[f] \in Seq(Requested') /\ asked[f] # <<>>
                 /\ \A i \in DOMAIN asked[f] : asked[f][i].route = route
      <3>. DEFINE t == Transition("enable", route)
      <3>1. t \in Requested' /\ t.route = route
        BY DEF Transition, Requested
      <3>2. asked[f] = <<t>>
        BY <1>2 DEF Loads
      <3>. HIDE DEF t
      <3>. QED BY <3>1, <3>2
    <2>. QED BY <2>1, <2>2
  <1>6. /\ Joined(Requested', asked)
        /\ chain' \in [Features -> Seq(Requested')] /\ micro' \in Seq(Jobs)
        /\ JobInv' /\ HandledInv' /\ RouteInv' /\ (Ahead(q) => Ahead(micro'))
    <2>1. \A f \in Features : \A i \in DOMAIN chain[f] :
            chain[f][i].route = 0 \/ (chain[f][i].route = gen' /\ ~cut')
      BY DEF IInv, RouteInv
    <2>2. \A f \in DOMAIN asked : \A i \in DOMAIN asked[f] :
            asked[f][i].route = 0 \/ (asked[f][i].route = gen' /\ ~cut')
      BY <1>4, <1>5
    <2>. QED
      BY <1>2, <1>3, <1>5, <2>1, <2>2, RequestTasks
  <1>7. loader' \in [left : Seq(Features), route : 0 .. gen] /\ loader'.route = route
    <2>1. SubSeq(left, k + 1, Len(left)) \in Seq(Features)
      OBVIOUS
    <2>. QED BY <1>1, <2>1
  <1>. QED
    BY <1>1, <1>2, <1>6, <1>7 DEF LoadsNext

LEMMA StepLoadKeeps ==
  ASSUME IInv, StepLoad
  PROVE  IInv'
  <1>1. /\ micro # <<>> /\ Head(micro).who = "main" /\ main = "load" /\ main' = "loading"
        /\ LoadChunk(Order, gen, Tail(micro))
        /\ UNCHANGED <<storage, fast, hooked, watching, runtime, frozen, tear, url, gen, cut, loc,
                       flags, notice, want, timers, on, refs, budget>>
    BY DEF StepLoad, Next1, Who, runVars, routeVars
  <1>2. PICK q : q = Tail(micro)
    OBVIOUS
  <1>3. /\ q \in Seq(Jobs) /\ Distinct(q)
        /\ \A i \in DOMAIN q : \E k \in DOMAIN micro : q[i] = micro[k]
        /\ \A v : Has(q, v) <=> Has(micro, v) /\ v # "main"
        /\ notice = 0 /\ "main" \notin Features
    BY <1>1, <1>2, StepEnd
  <1>4. /\ storage # "pending" /\ fast \notin {"storage", "beginRoute"}
        /\ tear # "features" /\ ~frozen
    BY <1>1 DEF IInv, BootInv, LeaveInv, MainSteps
  <1>5. /\ Order \in Seq(Features) /\ gen \in 0 .. gen /\ gen \in Nat
        /\ Features = {Order[i] : i \in DOMAIN Order}
    BY LifecycleAssumption DEF IInv, TypeOK, RouteType, Features
  <1>6. BootType' /\ RunType' /\ RouteType' /\ BudgetType'
    <2>1. BootType'
      BY <1>1 DEF IInv, TypeOK, BootType
    <2>2. RunType' /\ RouteType' /\ BudgetType'
      BY <1>1 DEF IInv, TypeOK, RunType, RouteType, BudgetType
    <2>. QED BY <2>1, <2>2
  <1>7. ASSUME loader'.route = gen PROVE GenInv'
    BY <1>1, <1>4, <1>7 DEF IInv, GenInv
  <1>8. BootInv'
    BY <1>1, <1>4 DEF IInv, BootInv
  <1>9. Observed' <=> Observed
    BY <1>1 DEF Observed
  <1>10. Observed => FlagsInv'
    <2>1. FlagsInv => FlagsInv'
      BY <1>1, <1>3, <1>4 DEF FlagsInv
    <2>. QED BY <2>1 DEF IInv
  <1>11. CASE Aborted(gen)
    <2>1. loader' = [left |-> <<>>, route |-> gen] /\ micro' = q /\ UNCHANGED <<chain, status>>
      BY <1>1, <1>2, <1>11 DEF LoadChunk
    <2>2. cut
      BY <1>11 DEF Aborted, Current
    <2>3. JobInv' /\ micro' \in Seq(Jobs)
      <3>1. micro[1].who = "main"
        BY <1>1, HeadJob DEF IInv
      <3>2. /\ fast' \in FastSteps <=> fast \in FastSteps /\ micro[1].who # "fast"
            /\ main' \in MainSteps <=> main \in MainSteps /\ micro[1].who # "main"
            /\ \A f \in Features : chain'[f] # <<>> <=> chain[f] # <<>> /\ micro[1].who # f
        BY <1>1, <1>3, <2>1, <3>1 DEF MainSteps
      <3>. QED BY <1>1, <1>2, <1>3, <2>1, <3>2, DropJobs DEF IInv
    <2>4. HandledInv'
      <3>1. \A i \in DOMAIN micro' : micro'[i].who \in Features =>
              \E k \in DOMAIN micro : micro'[i].who = micro[k].who /\ micro'[i].do = micro[k].do
        BY <1>3, <2>1
      <3>. QED BY <1>1, <2>1, <3>1, HandledSame DEF IInv
    <2>5. TypeOK'
      <3>1. FeatureType'
        BY <1>1, <2>1 DEF IInv, TypeOK, FeatureType
      <3>2. chain' \in [Features -> Seq(Requested')]
        BY <1>1, <2>1 DEF IInv, TypeOK, TaskType, Requested
      <3>3. loader' \in [left : Seq(Features), route : 0 .. gen']
        BY <1>1, <1>5, <2>1
      <3>. QED BY <1>6, <2>3, <3>1, <3>2, <3>3 DEF TypeOK, TaskType
    <2>6. LeaveInv'
      BY <1>1, <1>4, <2>1 DEF IInv, LeaveInv
    <2>7. RouteInv'
      BY <1>1, <2>1 DEF IInv, RouteInv
    <2>8. GenInv'
      BY <1>7, <2>1
    <2>9. ASSUME Observed, NEW f \in Features PROVE FollowInv(f)'
      <3>1. FollowInv(f)
        BY <2>9 DEF IInv
      <3>. QED
        BY <1>1, <2>1, <2>2, <3>1 DEF FollowInv, Scope, EndsDisabled
    <2>. QED
      BY <1>8, <1>9, <1>10, <2>3, <2>4, <2>5, <2>6, <2>7, <2>8, <2>9 DEF IInv
  <1>12. CASE ~Aborted(gen)
    <2>1. LoadChunk(Order, gen, q)
      BY <1>1, <1>2
    <2>2. /\ chain' \in [Features -> Seq(Requested')] /\ micro' \in Seq(Jobs)
          /\ JobInv' /\ HandledInv' /\ RouteInv'
          /\ loader' \in [left : Seq(Features), route : 0 .. gen] /\ loader'.route = gen
          /\ status' = status
          /\ LoadsNext(Order, gen)
      <3>1. \A i \in DOMAIN q : Shape(q[i])
        BY <1>3 DEF IInv, JobInv
      <3>2. \A f \in Features : Has(q, f) <=> Has(micro, f)
        BY <1>3
      <3>3. Has(q, "fast") <=> fast' \in FastSteps
        BY <1>1, <1>3 DEF IInv, JobInv
      <3>4. Has(q, "main") <=> main' \in MainSteps
        BY <1>1, <1>3 DEF MainSteps
      <3>5. ~Has(q, "route")
        BY <1>3 DEF IInv, JobInv
      <3>6. UNCHANGED <<gen, cut, on>> /\ notice' = 0
        BY <1>1, <1>3
      <3>. QED
        BY <1>3, <1>5, <1>12, <2>1, <3>1, <3>2, <3>3, <3>4, <3>5, <3>6, LoadTasks
    <2>3. TypeOK'
      <3>1. FeatureType'
        BY <1>1, <2>2 DEF IInv, TypeOK, FeatureType
      <3>2. TaskType'
        BY <1>1, <2>2 DEF TaskType
      <3>. QED BY <1>6, <3>1, <3>2 DEF TypeOK
    <2>4. tear = "none"
      <3>1. ASSUME tear = "done" PROVE FALSE
        <4>1. cut /\ fast = "done"
          BY <3>1 DEF IInv, LeaveInv
        <4>. QED BY <1>12, <4>1 DEF Aborted, Current, IInv, GenInv
      <3>. QED BY <1>4, <3>1 DEF IInv, TypeOK, RunType
    <2>5. LeaveInv'
      BY <1>1, <1>4, <2>4 DEF IInv, LeaveInv
    <2>6. GenInv'
      BY <1>7, <2>2
    <2>7. ASSUME Observed, NEW f \in Features PROVE FollowInv(f)'
      <3>1. FollowInv(f)
        BY <2>7 DEF IInv
      <3>2. PICK k \in 1 .. Len(Order) :
              /\ loader' = [left |-> SubSeq(Order, k + 1, Len(Order)), route |-> gen]
              /\ \E asked : Loads(asked, Order, gen, k) /\ Joined(Requested', asked)
        BY <2>2 DEF LoadsNext
      <3>3. PICK asked : Loads(asked, Order, gen, k) /\ Joined(Requested', asked)
        BY <3>2
      <3>4. main \notin {"loading", "done"}
        BY <1>1
      <3>. QED
        BY <1>1, <1>5, <1>12, <2>2, <3>1, <3>2, <3>3, <3>4, LoadFollow
    <2>. QED
      BY <1>8, <1>9, <1>10, <2>2, <2>3, <2>5, <2>6, <2>7 DEF IInv
  <1>. QED
    BY <1>11, <1>12

LEMMA FrameKeeps ==
  ASSUME IInv, Frame
  PROVE  IInv'
  <1>. DEFINE left == loader.left
              route == loader.route
  <1>1. /\ micro = <<>> /\ ~frozen /\ tear # "features" /\ left # <<>>
        /\ LoadChunk(left, route, micro)
        /\ UNCHANGED <<storage, fast, main, hooked, watching, runtime, frozen, tear, url, gen, cut,
                       loc, flags, notice, want, timers, on, refs, budget>>
    BY DEF Frame, Idle, bootVars, runVars, routeVars
  <1>2. /\ \A f \in Features : chain[f] = <<>>
        /\ notice = 0 /\ fast \notin FastSteps /\ main \notin MainSteps
        /\ \A w : ~Has(micro, w)
        /\ Distinct(micro) /\ micro \in Seq(Jobs) /\ DOMAIN micro = {}
    BY <1>1, AtRest DEF IInv, TypeOK, TaskType
  <1>3. main \in {"loading", "done"} /\ left \in Seq(Features) /\ route \in 0 .. gen
        /\ gen \in Nat /\ (gen # 0 => route # 0)
    <2>1. main \in {"loading", "done"}
      BY <1>1 DEF IInv, BootInv
    <2>2. left \in Seq(Features) /\ route \in 0 .. gen
      BY DEF IInv, TypeOK, TaskType
    <2>3. gen # 0 => route # 0
      BY <2>1 DEF IInv, GenInv
    <2>. QED
      BY <2>1, <2>2, <2>3, LifecycleAssumption DEF IInv, TypeOK, RouteType
  <1>4. BootType' /\ RunType' /\ RouteType' /\ BudgetType'
    BY <1>1 DEF IInv, TypeOK, BootType, RunType, RouteType, BudgetType
  <1>5. BootInv'
    BY <1>1, <1>2, <1>3 DEF IInv, BootInv, FastSteps
  <1>6. ASSUME loader'.route = route PROVE GenInv'
    BY <1>1, <1>6 DEF IInv, GenInv
  <1>7. Observed' <=> Observed
    BY <1>1 DEF Observed
  <1>8. Observed => FlagsInv'
    <2>1. FlagsInv => FlagsInv'
      BY <1>1 DEF FlagsInv
    <2>. QED BY <2>1 DEF IInv
  <1>9. CASE Aborted(route)
    <2>1. loader' = [left |-> <<>>, route |-> route] /\ micro' = micro /\ UNCHANGED <<chain, status>>
      BY <1>1, <1>9 DEF LoadChunk
    <2>2. JobInv' /\ HandledInv' /\ RouteInv'
      BY <1>1, <2>1 DEF IInv, JobInv, HandledInv, RouteInv
    <2>3. TypeOK'
      <3>1. FeatureType'
        BY <1>1, <2>1 DEF IInv, TypeOK, FeatureType
      <3>2. chain' \in [Features -> Seq(Requested')] /\ micro' \in Seq(Jobs)
        BY <1>1, <1>2, <2>1 DEF IInv, TypeOK, TaskType, Requested
      <3>3. loader' \in [left : Seq(Features), route : 0 .. gen']
        BY <1>1, <1>3, <2>1
      <3>. QED BY <1>4, <3>1, <3>2, <3>3 DEF TypeOK, TaskType
    <2>4. LeaveInv'
      BY <1>1, <2>1 DEF IInv, LeaveInv
    <2>5. GenInv'
      BY <1>6, <2>1
    <2>6. ASSUME Observed, NEW f \in Features PROVE FollowInv(f)'
      <3>1. FollowInv(f)
        BY <2>6 DEF IInv
      <3>2. ~Awaited(f)
        BY <1>9 DEF Awaited
      <3>3. /\ Scope' = Scope /\ (EndsDisabled(f)' <=> EndsDisabled(f))
            /\ (EndsEnabled(f)' <=> EndsEnabled(f))
        BY <1>1, <2>1 DEF Scope, EndsDisabled, EndsEnabled
      <3>. QED BY <1>1, <2>1, <3>1, <3>2, <3>3 DEF FollowInv
    <2>. QED
      BY <1>5, <1>7, <1>8, <2>2, <2>3, <2>4, <2>5, <2>6 DEF IInv
  <1>10. CASE ~Aborted(route)
    <2>1. /\ chain' \in [Features -> Seq(Requested')] /\ micro' \in Seq(Jobs)
          /\ JobInv' /\ HandledInv' /\ RouteInv'
          /\ loader' \in [left : Seq(Features), route : 0 .. gen] /\ loader'.route = route
          /\ status' = status
          /\ LoadsNext(left, route)
      <3>1. PICK l, r : l = left /\ r = route
        OBVIOUS
      <3>2. l \in Seq(Features) /\ r \in 0 .. gen /\ ~Aborted(r) /\ LoadChunk(l, r, micro)
        BY <1>1, <1>3, <1>10, <3>1
      <3>3. UNCHANGED <<gen, cut, on>> /\ notice' = 0
        BY <1>1, <1>2
      <3>4. (Has(micro, "fast") <=> fast' \in FastSteps) /\ (Has(micro, "main") <=> main' \in MainSteps)
        BY <1>1, <1>2
      <3>. HIDE DEF left, route
      <3>5. /\ chain' \in [Features -> Seq(Requested')] /\ micro' \in Seq(Jobs)
            /\ JobInv' /\ HandledInv' /\ RouteInv'
            /\ loader' \in [left : Seq(Features), route : 0 .. gen] /\ loader'.route = r
            /\ status' = status
            /\ LoadsNext(l, r)
        BY <1>2, <3>2, <3>3, <3>4, LoadTasks
      <3>. QED BY <3>1, <3>5
    <2>2. TypeOK'
      <3>1. FeatureType'
        BY <1>1, <2>1 DEF IInv, TypeOK, FeatureType
      <3>2. TaskType'
        BY <1>1, <2>1 DEF TaskType
      <3>. QED BY <1>4, <3>1, <3>2 DEF TypeOK
    <2>3. tear = "none"
      <3>1. ASSUME tear = "done" PROVE FALSE
        <4>1. cut /\ fast = "done"
          BY <3>1 DEF IInv, LeaveInv
        <4>2. gen # 0
          BY <4>1 DEF IInv, GenInv
        <4>. QED BY <1>3, <1>10, <4>1, <4>2 DEF Aborted, Current
      <3>. QED BY <1>1, <3>1 DEF IInv, TypeOK, RunType
    <2>4. LeaveInv'
      BY <1>1, <2>3 DEF IInv, LeaveInv
    <2>5. GenInv'
      BY <1>6, <2>1
    <2>6. ASSUME Observed, NEW f \in Features PROVE FollowInv(f)'
      <3>1. FollowInv(f)
        BY <2>6 DEF IInv
      <3>2. PICK l, r : l = left /\ r = route
        OBVIOUS
      <3>3. /\ l \in Seq(Features) /\ ~Aborted(r) /\ LoadsNext(l, r)
            /\ l = loader.left /\ r = loader.route
        BY <1>3, <1>10, <2>1, <3>2
      <3>. HIDE DEF left, route
      <3>4. PICK k \in 1 .. Len(l) :
              /\ loader' = [left |-> SubSeq(l, k + 1, Len(l)), route |-> r]
              /\ \E asked : Loads(asked, l, r, k) /\ Joined(Requested', asked)
        BY <3>3 DEF LoadsNext
      <3>5. PICK asked : Loads(asked, l, r, k) /\ Joined(Requested', asked)
        BY <3>4
      <3>. QED
        BY <1>1, <1>3, <2>1, <3>1, <3>3, <3>4, <3>5, LoadFollow
    <2>. QED
      BY <1>5, <1>7, <1>8, <2>1, <2>2, <2>4, <2>5, <2>6 DEF IInv
  <1>. QED
    BY <1>9, <1>10

-----------------------------
(* The theorems.                                                           *)

LEMMA InitInv ==
  Init => IInv
  <1>. SUFFICES ASSUME Init PROVE IInv
    OBVIOUS
  <1>1. /\ storage = "pending" /\ fast = "storage" /\ main = "body"
        /\ hooked = FALSE /\ watching = FALSE
        /\ runtime = "starting" /\ frozen = FALSE /\ tear = "none"
        /\ loc \in Pages /\ url = NoPage /\ gen = 0 /\ cut = FALSE /\ flags = NoPage /\ notice = 0
        /\ want = Defaults /\ timers = {} /\ chain = [f \in Features |-> <<>>]
        /\ micro = <<>> /\ loader = [left |-> <<>>, route |-> 0]
        /\ status = [f \in Features |-> "disabled"] /\ on = {} /\ refs = [s \in Styles |-> 0]
        /\ budget = [moves |-> 0, edits |-> 0, hides |-> 0, faults |-> 0]
    BY DEF Init
  <1>2. TypeOK
    <2>1. BootType /\ RunType
      BY <1>1 DEF BootType, RunType
    <2>2. RouteType
      <3>1. gen \in 0 .. (1 + MaxMoves + MaxHides) /\ notice \in 0 .. gen
        BY <1>1, LifecycleAssumption
      <3>2. cut \in BOOLEAN
        BY <1>1
      <3>. QED BY <1>1, <3>1, <3>2 DEF RouteType
    <2>3. TaskType
      BY <1>1 DEF TaskType
    <2>4. FeatureType
      BY <1>1, LifecycleAssumption DEF FeatureType
    <2>5. BudgetType
      BY <1>1, LifecycleAssumption DEF BudgetType
    <2>. QED BY <2>1, <2>2, <2>3, <2>4, <2>5 DEF TypeOK
  <1>3. \A f \in Features : chain[f] = <<>> /\ status[f] = "disabled" /\ f \notin on
    BY <1>1
  <1>4. DOMAIN micro = {} /\ \A w : ~Has(micro, w)
    BY <1>1 DEF Has
  <1>5. JobInv
    BY <1>1, <1>3, <1>4 DEF JobInv, Distinct, FastSteps, MainSteps
  <1>6. BootInv /\ LeaveInv
    BY <1>1 DEF BootInv, LeaveInv
  <1>7. GenInv
    BY <1>1 DEF GenInv
  <1>8. RouteInv /\ HandledInv
    BY <1>3, <1>4 DEF RouteInv, HandledInv
  <1>9. FlagsInv /\ \A f \in Features : FollowInv(f)
    <2>1. FlagsInv
      BY <1>1 DEF FlagsInv
    <2>2. ASSUME NEW f \in Features PROVE FollowInv(f)
      <3>1. DOMAIN chain[f] = {} /\ EndsDisabled(f)
        BY <1>3 DEF EndsDisabled
      <3>. QED BY <1>1, <1>3, <3>1 DEF FollowInv
    <2>. QED BY <2>1, <2>2
  <1>. QED
    BY <1>2, <1>5, <1>6, <1>7, <1>8, <1>9 DEF IInv

LEMMA StutterKeeps ==
  ASSUME IInv, UNCHANGED vars
  PROVE  IInv'
  <1>1. UNCHANGED <<storage, fast, main, hooked, watching, runtime, frozen, tear, url, gen, cut, loc,
                    flags, notice, want, timers, chain, micro, loader, status, on, refs, budget>>
    BY DEF vars, bootVars, runVars, routeVars, featureVars
  <1>2. TypeOK'
    <2>1. BootType' /\ RunType' /\ RouteType' /\ FeatureType' /\ BudgetType'
      BY <1>1 DEF IInv, TypeOK, BootType, RunType, RouteType, FeatureType, BudgetType
    <2>2. TaskType'
      BY <1>1 DEF IInv, TypeOK, TaskType, Requested
    <2>. QED BY <2>1, <2>2 DEF TypeOK
  <1>3. JobInv' /\ BootInv' /\ GenInv'
    BY <1>1 DEF IInv, JobInv, BootInv, GenInv
  <1>4. LeaveInv' /\ RouteInv' /\ HandledInv'
    BY <1>1 DEF IInv, LeaveInv, RouteInv, HandledInv
  <1>5. ASSUME Observed PROVE FlagsInv' /\ \A f \in Features : FollowInv(f)'
    <2>1. FlagsInv /\ \A f \in Features : FollowInv(f)
      BY <1>5 DEF IInv
    <2>2. FlagsInv'
      BY <1>1, <2>1 DEF FlagsInv
    <2>3. ASSUME NEW f \in Features PROVE FollowInv(f)'
      BY <1>1, <2>1, FollowStays
    <2>. QED BY <2>2, <2>3
  <1>6. Observed' <=> Observed
    BY <1>1 DEF Observed
  <1>. QED
    BY <1>2, <1>3, <1>4, <1>5, <1>6 DEF IInv

LEMMA StepKeeps ==
  IInv /\ [Next]_vars => IInv'
  <1>. SUFFICES ASSUME IInv, [Next]_vars PROVE IInv'
    OBVIOUS
  <1>1. CASE Transitions
    <2>1. CASE Hop
      BY <2>1, HopKeeps
    <2>2. CASE \E f \in Features :
                 Superseded(f) \/ Begin(f) \/ Handle(f) \/ HandlerThrows(f) \/ Finish(f)
      BY <2>2, SupersededKeeps, BeginKeeps, HandleKeeps, HandlerThrowsKeeps, FinishKeeps
    <2>. QED BY <1>1, <2>1, <2>2 DEF Transitions
  <1>2. CASE Notify \/ StepBeginRoute \/ StepHooks \/ StepObserver \/ StepLoad
             \/ StepDetectPage("fast") \/ StepDetectPage("main")
    BY <1>2, NotifyKeeps, StepBeginRouteKeeps, StepHooksKeeps, StepObserverKeeps, StepLoadKeeps,
       StepDetectFastKeeps, StepDetectMainKeeps
  <1>3. CASE Boot
    BY <1>3, StorageReadyKeeps, StorageUnavailableKeeps, BodyReadyKeeps, FrameKeeps, LoadedKeeps,
       StopKeeps DEF Boot
  <1>4. CASE Events
    <2>1. CASE StorageLate \/ Hide \/ Show \/ Leave
      BY <2>1, StorageLateKeeps, HideKeeps, ShowKeeps, LeaveKeeps
    <2>2. CASE \E page \in Pages : Move(page)
      BY <2>2, MoveKeeps
    <2>3. CASE \E fs \in SUBSET Features \ {{}} : Toggle(fs)
      <3>1. PICK fs \in SUBSET Features : Toggle(fs)
        BY <2>3
      <3>. QED BY <3>1, ToggleKeeps
    <2>4. CASE \E f \in Refreshable : Refresh(f)
      BY <2>4, RefreshKeeps
    <2>5. CASE \E f \in Debounced : Debounce(f)
      BY <2>5, DebounceKeeps
    <2>. QED BY <1>4, <2>1, <2>2, <2>3, <2>4, <2>5 DEF Events
  <1>5. CASE UNCHANGED vars
    BY <1>5, StutterKeeps
  <1>. QED
    BY <1>1, <1>2, <1>3, <1>4, <1>5 DEF Next, Microtask

LEMMA InvSettled ==
  IInv => Settled
  <1>. SUFFICES ASSUME IInv PROVE Settled
    OBVIOUS
  <1>1. ASSUME micro = <<>>, watching, tear # "features"
        PROVE  /\ tear = "none" /\ notice = 0 /\ fast = "done"
               /\ FlagsInv /\ \A f \in Features : FollowInv(f) /\ chain[f] = <<>>
               /\ flags = loc /\ Scope = InScope[loc]
    <2>1. tear = "none"
      BY <1>1 DEF IInv, LeaveInv, TypeOK, RunType
    <2>2. notice = 0 /\ \A f \in Features : chain[f] = <<>>
      BY <1>1, AtRest
    <2>3. FlagsInv /\ \A f \in Features : FollowInv(f)
      BY <1>1 DEF IInv, Observed
    <2>4. fast = "done"
      BY <1>1 DEF IInv, BootInv
    <2>5. flags = loc
      BY <2>2, <2>3, <2>4 DEF FlagsInv
    <2>6. Scope = InScope[loc]
      BY <2>5, LifecycleAssumption DEF Scope, IInv, TypeOK, RouteType
    <2>. QED BY <2>1, <2>2, <2>3, <2>4, <2>5, <2>6
  <1>2. QuietIsSettled
    <2>. SUFFICES ASSUME Quiet, NEW f \in Features, status[f] # "failing"
                  PROVE  /\ flags = loc
                         /\ (status[f] = "running") <=> (f \in want \cap InScope[loc])
                         /\ (status[f] = "running") <=> (f \in on)
      <3>1. Quiet => flags = loc
        BY <1>1 DEF Quiet, Idle
      <3>. QED BY <3>1 DEF QuietIsSettled
    <2>1. /\ micro = <<>> /\ ~frozen /\ tear # "features" /\ timers = {} /\ loader.left = <<>>
          /\ main = "done" /\ watching
      BY DEF Quiet, Idle
    <2>2. /\ tear = "none" /\ notice = 0 /\ FollowInv(f) /\ chain[f] = <<>>
          /\ flags = loc /\ Scope = InScope[loc]
      BY <1>1, <2>1
    <2>3. ~cut
      BY <2>1, <2>2 DEF IInv, LeaveInv
    <2>4. ~Awaited(f)
      BY <2>1 DEF Awaited
    <2>5. status[f] \in {"disabled", "running"}
      BY DEF IInv, TypeOK, FeatureType
    <2>6. f \notin want \cap Scope => status[f] = "disabled"
      BY <2>1, <2>2 DEF FollowInv, EndsDisabled
    <2>7. f \in want \cap Scope => status[f] # "disabled"
      BY <2>1, <2>2, <2>3, <2>4 DEF FollowInv, EndsEnabled
    <2>. QED
      BY <2>2, <2>5, <2>6, <2>7 DEF FollowInv
  <1>3. NoneOutOfScope
    <2>. SUFFICES ASSUME Idle, watching, NEW f \in Features, status[f] = "running"
                  PROVE  f \in on \cap InScope[loc]
      BY DEF NoneOutOfScope
    <2>1. FollowInv(f) /\ chain[f] = <<>> /\ Scope = InScope[loc]
      BY <1>1 DEF Idle
    <2>. QED BY <2>1 DEF FollowInv
  <1>4. NothingLeft
    BY DEF NothingLeft, IInv, LeaveInv
  <1>. QED
    BY <1>2, <1>3, <1>4 DEF Settled

LEMMA Invariance ==
  Spec => []IInv
  BY InitInv, StepKeeps, PTL DEF Spec

\* Every variable keeps its type: the queue holds jobs of features and of the
\* pipelines only, the route of a transition is never one to come, and no count
\* of a style is negative.
THEOREM TypeCorrect ==
  Spec => []TypeOK
  <1>1. IInv => TypeOK
    BY DEF IInv
  <1>. QED
    BY <1>1, Invariance, PTL

\* However toggles, timers, moves, suspensions, slow loading and leaving
\* overlap: when the page is quiet a feature runs exactly if the configuration
\* enables it on this page, unless its handler failed; none is left running out
\* of its scope; and the teardown leaves nothing.
THEOREM Settling ==
  Spec => []Settled
  BY Invariance, InvSettled, PTL

-----------------------------
(* The styles that features share.                                          *)

\* Who has the style s, who shares f's, and all who share one.
Users(s) == {f \in DOMAIN StyleOf : StyleOf[f] = s}
Peers(f) == Users(StyleOf[f]) \ {f}
Shared == {f \in DOMAIN StyleOf : Peers(f) # {}}

\* A transition of f has not come to its handler.
Doing(q, w, d) == \E i \in DOMAIN q : q[i].who = w /\ q[i].do = d
Unhandled(f) == Doing(micro, f, "begin") \/ Doing(micro, f, "handle")

\* Rounds of the queue until a job's transition is over.
Cost(j) == j.hops + (IF j.do = "begin" THEN 3 ELSE IF j.do = "handle" THEN 2 ELSE 0)

\* Whoever shares a style is through before the second pipeline's turn comes.
Early(q) ==
  \A i, j \in DOMAIN q : q[i].who \in Shared /\ q[j].who = "main" =>
    /\ Cost(q[i]) <= q[j].hops
    /\ j < i => Cost(q[i]) < q[j].hops

EarlyInv == Early(micro) /\ (main = "load" => \A f \in Shared : chain[f] = <<>>)

\* A feature whose handler failed has its effects on the page.
FailInv ==
  /\ \A f \in Features : chain[f] = <<>> /\ status[f] = "failing" => f \in on
  /\ \A f \in Features : Doing(micro, f, "fail") => f \in on

\* Each user that is on has a reference of its own.
CountInv == \A s \in Styles : Cardinality(on \cap Users(s)) <= refs[s]

Stops(f) == chain[f] # <<>> /\ chain[f][1].action = "disable"

\* A feature is to be stopped whose effects are not on the page: it will give back
\* a reference it does not have, so the others of its style are off and stay off.
OweInv ==
  \A f \in Shared : Unhandled(f) /\ Stops(f) /\ f \notin on =>
    \A g \in Peers(f) : g \notin on /\ (chain[g] # <<>> => Stops(g))

ShareInv ==
  /\ EarlyInv /\ CountInv /\ OweInv
  /\ \A f \in Shared : Len(chain[f]) <= 1

SInv ==
  /\ FailInv /\ timers \subseteq Debounced
  /\ tear = "none" /\ Observed => ShareInv

-----------------------------
LEMMA SharedFacts ==
  /\ Shared \subseteq Features /\ Shared \cap {"fast", "main", "route"} = {}
  /\ DOMAIN StyleOf \subseteq Features
  /\ \A f \in Shared : f \notin Debounced \cup Refreshable /\ Peers(f) \subseteq Shared
  /\ \A f \in Shared : \A g \in Peers(f) : f \in Peers(g) /\ g # f
  /\ \A f \in Shared : \A g \in Peers(f) : \A p \in Pages : f \in InScope[p] <=> g \in InScope[p]
  <1>1. Shared \subseteq DOMAIN StyleOf /\ DOMAIN StyleOf \subseteq Features
    BY LifecycleAssumption DEF Shared
  <1>2. ASSUME NEW f \in Shared, NEW g \in Peers(f)
        PROVE  /\ g \in DOMAIN StyleOf /\ g # f /\ StyleOf[f] = StyleOf[g]
               /\ f \in Peers(g) /\ g \in Shared
    BY <1>2 DEF Shared, Peers, Users
  <1>3. \A f \in Shared : f \notin Debounced \cup Refreshable
    <2>. TAKE f \in Shared
    <2>1. PICK g : g \in Peers(f)
      BY DEF Shared
    <2>. QED
      BY <1>1, <1>2, <2>1, SharingAssumption
  <1>4. \A f \in Shared : \A g \in Peers(f) : \A p \in Pages : f \in InScope[p] <=> g \in InScope[p]
    BY <1>1, <1>2, SharingAssumption
  <1>. QED
    BY <1>1, <1>2, <1>3, <1>4, LifecycleAssumption

-----------------------------
(* Transitions are over before the second pipeline loads features.          *)

LEMMA CostType == \A j \in Jobs : Cost(j) \in Nat /\ j.hops \in Nat
  BY DEF Jobs, Cost

LEMMA EarlyAdvance ==
  ASSUME NEW q \in Seq(Jobs), q # <<>>, Distinct(q), NEW x \in Jobs, x.who = q[1].who, Early(q),
         x.who = "main" => x.hops < q[1].hops /\ q[1].hops = x.hops + 1,
         x.who \in Shared => Cost(x) < Cost(q[1])
  PROVE  Early(Append(Tail(q), x))
  <1>. DEFINE r == Append(Tail(q), x)
              n == Len(q)
  <1>1. /\ r \in Seq(Jobs) /\ Len(r) = n /\ r[n] = x
        /\ \A i \in 1 .. (n - 1) : r[i] = q[i + 1] /\ r[i].who # x.who
    BY AdvanceSeq
  <1>2. n \in Nat \ {0} /\ DOMAIN q = 1 .. n /\ DOMAIN r = 1 .. n
    BY <1>1
  <1>3. /\ \A i \in 1 .. n : q[i].hops \in Nat /\ Cost(q[i]) \in Nat
        /\ x.hops \in Nat /\ Cost(x) \in Nat
    BY <1>2, CostType
  <1>. HIDE DEF r, n
  <1>4. \A i \in 1 .. (n - 1) :
          /\ i + 1 \in 1 .. n /\ 1 < i + 1 /\ r[i].hops = q[i + 1].hops
          /\ r[i].who = q[i + 1].who /\ Cost(r[i]) = Cost(q[i + 1])
    BY <1>1, <1>2
  <1>. SUFFICES ASSUME NEW i \in 1 .. n, NEW j \in 1 .. n, r[i].who \in Shared, r[j].who = "main"
                PROVE  Cost(r[i]) <= r[j].hops /\ (j < i => Cost(r[i]) < r[j].hops)
    BY <1>2 DEF Early, r
  <1>5. CASE i = n
    <2>1. x.who \in Shared /\ r[i] = x /\ 1 \in 1 .. n
      BY <1>1, <1>2, <1>5
    <2>2. j \in 1 .. (n - 1)
      <3>1. x.who # "main"
        BY <2>1, SharedFacts
      <3>. QED BY <1>1, <1>2, <3>1
    <2>3. Cost(q[1]) <= q[j + 1].hops
      BY <1>2, <1>4, <2>1, <2>2 DEF Early
    <2>. QED
      BY <1>2, <1>3, <1>4, <2>1, <2>2, <2>3
  <1>6. CASE i # n /\ j = n
    <2>1. x.who = "main" /\ q[1].hops = x.hops + 1 /\ r[j].hops = x.hops /\ 1 \in 1 .. n
      BY <1>1, <1>2, <1>6
    <2>2. i \in 1 .. (n - 1)
      BY <1>2, <1>6
    <2>3. Cost(q[i + 1]) < q[1].hops
      BY <1>2, <1>4, <2>1, <2>2 DEF Early
    <2>. QED
      BY <1>2, <1>3, <1>4, <1>6, <2>1, <2>2, <2>3
  <1>7. CASE i # n /\ j # n
    <2>1. i \in 1 .. (n - 1) /\ j \in 1 .. (n - 1)
      BY <1>2, <1>7
    <2>2. Cost(q[i + 1]) <= q[j + 1].hops /\ (j + 1 < i + 1 => Cost(q[i + 1]) < q[j + 1].hops)
      BY <1>2, <1>4, <2>1 DEF Early
    <2>. QED
      BY <1>2, <1>4, <2>1, <2>2
  <1>. QED
    BY <1>5, <1>6, <1>7

LEMMA EarlyDrop ==
  ASSUME NEW q \in Seq(Jobs), q # <<>>, Distinct(q), Early(q)
  PROVE  Early(Tail(q))
  <1>. DEFINE r == Tail(q)
              n == Len(q)
  <1>1. /\ r \in Seq(Jobs) /\ Len(r) = n - 1
        /\ \A i \in 1 .. Len(r) : r[i] = q[i + 1]
    BY DropSeq
  <1>2. n \in Nat \ {0} /\ DOMAIN q = 1 .. n /\ DOMAIN r = 1 .. (n - 1)
    BY <1>1
  <1>. HIDE DEF r, n
  <1>4. \A i \in 1 .. (n - 1) : i + 1 \in 1 .. n /\ r[i] = q[i + 1]
    BY <1>1, <1>2
  <1>. SUFFICES ASSUME NEW i \in 1 .. (n - 1), NEW j \in 1 .. (n - 1), r[i].who \in Shared, r[j].who = "main"
                PROVE  Cost(r[i]) <= r[j].hops /\ (j < i => Cost(r[i]) < r[j].hops)
    BY <1>2 DEF Early, r
  <1>5. Cost(q[i + 1]) <= q[j + 1].hops /\ (j + 1 < i + 1 => Cost(q[i + 1]) < q[j + 1].hops)
    BY <1>2, <1>4 DEF Early
  <1>. QED
    BY <1>2, <1>4, <1>5

\* The second pipeline's turn has come: no user of a shared style is under way.
LEMMA EarlyHead ==
  ASSUME IInv, EarlyInv, micro # <<>>, Head(micro).who = "main", Head(micro).hops = 0
  PROVE  \A f \in Shared : chain[f] = <<>>
  <1>. SUFFICES ASSUME NEW f \in Shared, chain[f] # <<>> PROVE FALSE
    OBVIOUS
  <1>1. micro \in Seq(Jobs) /\ 1 \in DOMAIN micro /\ micro[1] = Head(micro) /\ DOMAIN micro \subseteq Nat \ {0}
    BY DEF IInv, TypeOK, TaskType
  <1>2. PICK i \in DOMAIN micro : micro[i].who = f
    BY SharedFacts DEF IInv, JobInv, Has
  <1>3. i # 1
    BY <1>1, <1>2, SharedFacts
  <1>4. 1 < i
    BY <1>1, <1>3
  <1>5. Cost(micro[i]) < micro[1].hops
    BY <1>1, <1>2, <1>4 DEF EarlyInv, Early
  <1>6. Cost(micro[i]) \in Nat
    BY <1>1, CostType
  <1>. QED
    BY <1>1, <1>5, <1>6

\* Where the second pipeline has no job.
LEMMA EarlyElse ==
  ASSUME IInv', main' \notin MainSteps
  PROVE  EarlyInv'
  <1>1. ~Has(micro', "main") /\ main' # "load"
    BY DEF IInv, JobInv, MainSteps
  <1>. QED
    BY <1>1 DEF EarlyInv, Early, Has

-----------------------------
(* What is kept by a step that handles no transition.                       *)

LEMMA FailStays ==
  ASSUME FailInv, on' = on,
         \A f \in Features : Doing(micro, f, "fail")' => Doing(micro, f, "fail"),
         \A f \in Features : chain'[f] = <<>> =>
           chain[f] = <<>> /\ (status'[f] = "failing" => status[f] = "failing")
  PROVE  FailInv'
  BY DEF FailInv

\* Whoever is under way with a shared style still is, and has as much to do.
LEMMA ShareStays ==
  ASSUME ShareInv, UNCHANGED <<chain, on, refs>>, EarlyInv',
         \A f \in Shared : Unhandled(f)' => Unhandled(f)
  PROVE  ShareInv'
  <1>1. CountInv'
    BY DEF ShareInv, CountInv
  <1>2. OweInv'
    BY DEF ShareInv, OweInv, Stops
  <1>. QED
    BY <1>1, <1>2 DEF ShareInv

\* Transitions are requested of users of a shared style that had none.
LEMMA RequestedShare ==
  ASSUME ShareInv, UNCHANGED <<on, refs>>, EarlyInv',
         \A f \in Shared : Len(chain'[f]) <= 1,
         \A f \in Shared : Stops(f)' /\ f \notin on =>
           \A g \in Peers(f) : g \notin on /\ (chain'[g] # <<>> => Stops(g)')
  PROVE  ShareInv'
  <1>1. CountInv'
    BY DEF ShareInv, CountInv
  <1>2. OweInv'
    BY DEF OweInv, Stops
  <1>. QED
    BY <1>1, <1>2 DEF ShareInv

-----------------------------
(* The transitions.                                                         *)

LEMMA AdvanceDoing ==
  ASSUME NEW q \in Seq(Jobs), q # <<>>, Distinct(q), NEW x \in Jobs, x.who = q[1].who,
         NEW w, NEW d
  PROVE  Doing(Append(Tail(q), x), w, d) <=> IF w = x.who THEN d = x.do ELSE Doing(q, w, d)
  <1>. DEFINE r == Append(Tail(q), x)
              n == Len(q)
  <1>1. /\ r \in Seq(Jobs) /\ Len(r) = n /\ r[n] = x
        /\ \A i \in 1 .. (n - 1) : r[i] = q[i + 1] /\ r[i].who # x.who
    BY AdvanceSeq
  <1>2. n \in Nat \ {0} /\ DOMAIN q = 1 .. n /\ DOMAIN r = 1 .. n
    BY <1>1
  <1>. HIDE DEF r, n
  <1>3. ASSUME NEW i \in 1 .. n PROVE i = n \/ (i \in 1 .. (n - 1) /\ i + 1 \in 1 .. n)
    BY <1>2
  <1>4. ASSUME NEW i \in 1 .. n PROVE i = 1 \/ (i - 1 \in 1 .. (n - 1) /\ i - 1 \in 1 .. n /\ (i - 1) + 1 = i)
    BY <1>2
  <1>5. CASE w = x.who
    <2>1. n \in DOMAIN r
      BY <1>2
    <2>. QED
      BY <1>1, <1>2, <1>3, <1>5, <2>1 DEF Doing, r
  <1>6. CASE w # x.who
    <2>1. ASSUME NEW i \in 1 .. n, r[i].who = w, r[i].do = d PROVE Doing(q, w, d)
      <3>1. i \in 1 .. (n - 1) /\ i + 1 \in 1 .. n /\ r[i] = q[i + 1]
        BY <1>1, <1>3, <1>6, <2>1
      <3>. QED BY <1>2, <2>1, <3>1 DEF Doing
    <2>2. ASSUME NEW i \in 1 .. n, q[i].who = w, q[i].do = d PROVE Doing(r, w, d)
      <3>1. i - 1 \in 1 .. (n - 1) /\ i - 1 \in 1 .. n /\ r[i - 1] = q[i]
        BY <1>1, <1>4, <1>6, <2>2
      <3>. QED BY <1>2, <2>2, <3>1 DEF Doing
    <2>3. Doing(r, w, d) => Doing(q, w, d)
      BY <1>2, <2>1 DEF Doing
    <2>4. Doing(q, w, d) => Doing(r, w, d)
      BY <1>2, <2>2 DEF Doing
    <2>. QED
      BY <1>6, <2>3, <2>4 DEF r
  <1>. QED
    BY <1>5, <1>6

LEMMA DropDoing ==
  ASSUME NEW q \in Seq(Jobs), q # <<>>, Distinct(q), NEW w, NEW d
  PROVE  Doing(Tail(q), w, d) <=> w # q[1].who /\ Doing(q, w, d)
  <1>. DEFINE r == Tail(q)
              n == Len(q)
  <1>1. r \in Seq(Jobs) /\ Len(r) = n - 1 /\ \A i \in 1 .. Len(r) : r[i] = q[i + 1]
    BY DropSeq
  <1>2. n \in Nat \ {0} /\ DOMAIN q = 1 .. n /\ DOMAIN r = 1 .. (n - 1)
    BY <1>1
  <1>. HIDE DEF r, n
  <1>3. ASSUME NEW i \in 1 .. (n - 1), r[i].who = w, r[i].do = d
        PROVE  w # q[1].who /\ Doing(q, w, d)
    <2>1. i + 1 \in 1 .. n /\ 1 \in 1 .. n /\ i + 1 # 1 /\ r[i] = q[i + 1]
      BY <1>1, <1>2
    <2>. QED BY <1>2, <1>3, <2>1 DEF Doing, Distinct
  <1>4. ASSUME NEW i \in 1 .. n, q[i].who = w, q[i].do = d, w # q[1].who PROVE Doing(r, w, d)
    <2>1. i - 1 \in 1 .. (n - 1) /\ r[i - 1] = q[i]
      <3>1. i # 1
        BY <1>4
      <3>2. i - 1 \in 1 .. (n - 1) /\ (i - 1) + 1 = i
        BY <1>2, <3>1
      <3>. QED BY <1>1, <1>2, <3>2
    <2>. QED BY <1>2, <1>4, <2>1 DEF Doing
  <1>. QED
    BY <1>2, <1>3, <1>4 DEF Doing, r

\* f's job at the head goes on as x.
LEMMA AdvanceShare ==
  ASSUME IInv, NEW f \in Features, micro # <<>>, Head(micro).who = f,
         NEW x \in Jobs, x.who = f, micro' = Append(Tail(micro), x)
  PROVE  /\ \A g \in Features \ {f} : \A d : Doing(micro', g, d) <=> Doing(micro, g, d)
         /\ \A d : Doing(micro', f, d) <=> d = x.do
         /\ /\ EarlyInv /\ main' = main /\ \A g \in Shared \ {f} : chain'[g] = chain[g]
            /\ f \in Shared => Cost(x) < Cost(micro[1])
            => EarlyInv'
  <1>1. /\ micro \in Seq(Jobs) /\ Distinct(micro) /\ micro[1].who = f /\ chain[f] # <<>>
        /\ f # "main"
    BY FeatureJob DEF IInv, TypeOK, TaskType, JobInv
  <1>2. \A w, d : Doing(micro', w, d) <=> IF w = x.who THEN d = x.do ELSE Doing(micro, w, d)
    BY <1>1, AdvanceDoing
  <1>3. ASSUME EarlyInv, main' = main, \A g \in Shared \ {f} : chain'[g] = chain[g],
               f \in Shared => Cost(x) < Cost(micro[1])
        PROVE  EarlyInv'
    <2>1. Early(micro')
      BY <1>1, <1>3, EarlyAdvance DEF EarlyInv
    <2>2. ASSUME main' = "load" PROVE \A g \in Shared : chain'[g] = <<>>
      <3>1. \A g \in Shared : chain[g] = <<>>
        BY <1>3, <2>2 DEF EarlyInv
      <3>. QED BY <1>1, <1>3, <3>1
    <2>. QED BY <2>1, <2>2 DEF EarlyInv
  <1>. QED
    BY <1>2, <1>3

\* What the invariant needs of a step that leaves the pages' features alone.
Goes ==
  /\ timers' = timers /\ (Observed' <=> Observed) /\ tear' = tear /\ main' = main

LEMMA GoesOn ==
  ASSUME NoMore
  PROVE  Goes
  BY DEF Goes, NoMore, Observed, bootVars, runVars

\* A feature with more than one transition shares its style with nobody.
LEMMA OthersGo ==
  ASSUME ShareInv, NEW f \in Features, Len(chain[f]) > 1, Len(chain[f]) \in Nat,
         UNCHANGED <<on, refs, main>>,
         \A g \in Features \ {f} : chain'[g] = chain[g],
         \A g \in Features \ {f} : \A d : Doing(micro', g, d) <=> Doing(micro, g, d),
         f \notin Shared => EarlyInv'
  PROVE  ShareInv'
  <1>1. f \notin Shared
    BY DEF ShareInv
  <1>2. \A g \in Shared : g \in Features \ {f}
    BY <1>1, SharedFacts
  <1>3. \A g \in Shared : chain'[g] = chain[g] /\ (Unhandled(g)' <=> Unhandled(g))
    BY <1>2 DEF Unhandled
  <1>4. EarlyInv'
    BY <1>1
  <1>5. CountInv'
    BY DEF ShareInv, CountInv
  <1>6. OweInv'
    <2>. SUFFICES ASSUME NEW g \in Shared, Unhandled(g)', Stops(g)', g \notin on', NEW h \in Peers(g)
                  PROVE  h \notin on' /\ (chain'[h] # <<>> => Stops(h)')
      BY DEF OweInv
    <2>1. h \in Shared
      BY SharedFacts
    <2>2. chain'[g] = chain[g] /\ chain'[h] = chain[h] /\ Unhandled(g)
      BY <1>3, <2>1
    <2>3. Stops(g) /\ (Stops(h) <=> Stops(h)')
      BY <2>2 DEF Stops
    <2>. QED BY <2>2, <2>3 DEF ShareInv, OweInv
  <1>. QED BY <1>3, <1>4, <1>5, <1>6 DEF ShareInv

LEMMA SupersededShares ==
  ASSUME IInv, SInv, NEW f \in Features, Superseded(f)
  PROVE  SInv'
  <1>. DEFINE x == Job("begin", f, 3)
  <1>1. /\ micro # <<>> /\ Head(micro).who = f /\ Len(chain[f]) > 1
        /\ chain' = [chain EXCEPT ![f] = Tail(@)] /\ micro' = Append(Tail(micro), x)
        /\ NoMore /\ UNCHANGED <<status, on, refs>>
    BY DEF Superseded, Next1, Who, NoMore, featureVars, bootVars, runVars, routeVars
  <1>2. /\ chain \in [Features -> Seq(Requested)] /\ chain[f] \in Seq(Requested)
        /\ Len(chain[f]) \in Nat
    BY <1>1, FeatureJob DEF IInv, TypeOK, TaskType
  <1>3. /\ chain'[f] = Tail(chain[f]) /\ chain'[f] # <<>>
        /\ \A g \in Features \ {f} : chain'[g] = chain[g]
    BY <1>1, <1>2, TailChain
  <1>4. x \in Jobs /\ x.who = f /\ x.do = "begin"
    BY DEF Job, Jobs
  <1>. HIDE DEF x
  <1>5. /\ \A g \in Features \ {f} : \A d : Doing(micro', g, d) <=> Doing(micro, g, d)
        /\ \A d : Doing(micro', f, d) <=> d = x.do
        /\ /\ EarlyInv /\ main' = main /\ \A g \in Shared \ {f} : chain'[g] = chain[g]
           /\ f \in Shared => Cost(x) < Cost(micro[1])
           => EarlyInv'
    BY <1>1, <1>4, AdvanceShare
  <1>6. Goes
    BY <1>1, GoesOn
  <1>7. FailInv'
    <2>1. \A g \in Features : Doing(micro', g, "fail") => Doing(micro, g, "fail")
      BY <1>4, <1>5
    <2>. QED BY <1>1, <1>3, <2>1, FailStays DEF SInv
  <1>8. ASSUME ShareInv PROVE ShareInv'
    <2>1. f \notin Shared => EarlyInv'
      BY <1>3, <1>5, <1>6, <1>8, SharedFacts DEF ShareInv, Goes
    <2>. QED BY <1>1, <1>2, <1>3, <1>5, <1>6, <1>8, <2>1, OthersGo DEF Goes
  <1>. QED
    BY <1>6, <1>7, <1>8 DEF SInv, Goes

LEMMA BeginShares ==
  ASSUME IInv, SInv, NEW f \in Features, Begin(f)
  PROVE  SInv'
  <1>. DEFINE x == Job("handle", f, 0)
  <1>1. /\ micro # <<>> /\ Head(micro).who = f /\ Head(micro).hops = 0 /\ Head(micro).do = "begin"
        /\ micro' = Append(Tail(micro), x) /\ NoMore /\ UNCHANGED <<chain, status, on, refs>>
    BY DEF Begin, Next1, Who, NoMore, featureVars, bootVars, runVars, routeVars
  <1>2. x \in Jobs /\ x.who = f /\ x.do = "handle" /\ Cost(x) = 2
    BY DEF Job, Jobs, Cost
  <1>. HIDE DEF x
  <1>3. /\ \A g \in Features \ {f} : \A d : Doing(micro', g, d) <=> Doing(micro, g, d)
        /\ \A d : Doing(micro', f, d) <=> d = x.do
        /\ /\ EarlyInv /\ main' = main /\ \A g \in Shared \ {f} : chain'[g] = chain[g]
           /\ f \in Shared => Cost(x) < Cost(micro[1])
           => EarlyInv'
    BY <1>1, <1>2, AdvanceShare
  <1>4. Goes
    BY <1>1, GoesOn
  <1>5. /\ 1 \in DOMAIN micro /\ micro[1] = Head(micro) /\ Cost(micro[1]) = 3
    BY <1>1, HeadJob DEF IInv, Cost
  <1>6. FailInv'
    <2>1. \A g \in Features : Doing(micro', g, "fail") => Doing(micro, g, "fail")
      BY <1>2, <1>3
    <2>. QED BY <1>1, <2>1, FailStays DEF SInv
  <1>7. ASSUME ShareInv PROVE ShareInv'
    <2>1. Doing(micro, f, "begin")
      <3>1. micro[1].who = f /\ micro[1].do = "begin"
        BY <1>1, <1>5
      <3>. QED BY <1>5, <3>1 DEF Doing
    <2>2. \A g \in Shared : Unhandled(g)' => Unhandled(g)
      BY <1>3, <2>1, SharedFacts DEF Unhandled
    <2>3. EarlyInv'
      BY <1>1, <1>2, <1>3, <1>4, <1>5, <1>7 DEF ShareInv, Goes
    <2>. QED BY <1>1, <1>7, <2>2, <2>3, ShareStays
  <1>. QED
    BY <1>4, <1>6, <1>7 DEF SInv, Goes

LEMMA UsersFinite ==
  ASSUME NEW S, S \subseteq Features
  PROVE  IsFiniteSet(S)
  <1>1. Order \in Seq(Features) /\ Len(Order) \in Nat /\ DOMAIN Order = 1 .. Len(Order)
    BY LifecycleAssumption
  <1>2. Order \in Surjection(1 .. Len(Order), Features)
    BY <1>1 DEF Surjection, Features
  <1>3. IsFiniteSet(1 .. Len(Order))
    BY <1>1, FS_Interval
  <1>4. IsFiniteSet(Features)
    BY <1>2, <1>3, FS_Surjection
  <1>. QED
    BY <1>4, FS_Subset

\* One more user, one more reference.
LEMMA AcquiredCounts ==
  ASSUME TypeOK, CountInv, NEW f \in Features, on' = on \cup {f}, refs' = Acquired(f)
  PROVE  CountInv'
  <1>. SUFFICES ASSUME NEW s \in Styles PROVE Cardinality(on' \cap Users(s)) <= refs'[s]
    BY DEF CountInv
  <1>. DEFINE A == on \cap Users(s)
  <1>1. refs \in [Styles -> Nat] /\ A \subseteq Features /\ Cardinality(A) <= refs[s]
    BY DEF TypeOK, FeatureType, CountInv
  <1>2. IsFiniteSet(A) /\ Cardinality(A) \in Nat
    BY <1>1, UsersFinite, FS_CardinalityType
  <1>3. CASE f \in Users(s)
    <2>1. f \in DOMAIN StyleOf /\ StyleOf[f] = s
      BY <1>3 DEF Users
    <2>2. refs'[s] = refs[s] + 1
      BY <1>1, <2>1 DEF Acquired
    <2>3. Cardinality(on' \cap Users(s)) = Cardinality(A \cup {f})
      <3>1. on' \cap Users(s) = A \cup {f}
        BY <1>3
      <3>. QED BY <3>1
    <2>. HIDE DEF A
    <2>4. Cardinality(A \cup {f}) = Cardinality(A) \/ Cardinality(A \cup {f}) = Cardinality(A) + 1
      BY <1>2, FS_AddElement
    <2>5. refs[s] \in Nat
      BY <1>1
    <2>. QED BY <1>1, <1>2, <2>2, <2>3, <2>4, <2>5
  <1>4. CASE f \notin Users(s)
    <2>1. refs'[s] = refs[s]
      BY <1>1, <1>4 DEF Acquired, Users
    <2>2. on' \cap Users(s) = A
      BY <1>4
    <2>. QED BY <1>1, <2>1, <2>2
  <1>. QED
    BY <1>3, <1>4

\* Giving back what another has taken: only if nobody is left to have taken it.
LEMMA ReleasedCounts ==
  ASSUME TypeOK, CountInv, NEW f \in Features, on' = on \ {f}, refs' = Released(f),
         f \notin on /\ f \in Shared => \A g \in Peers(f) : g \notin on
  PROVE  CountInv'
  <1>. SUFFICES ASSUME NEW s \in Styles PROVE Cardinality(on' \cap Users(s)) <= refs'[s]
    BY DEF CountInv
  <1>. DEFINE A == on \cap Users(s)
  <1>1. refs \in [Styles -> Nat] /\ A \subseteq Features /\ Cardinality(A) <= refs[s] /\ refs[s] \in Nat
    BY DEF TypeOK, FeatureType, CountInv
  <1>2. IsFiniteSet(A) /\ Cardinality(A) \in Nat
    BY <1>1, UsersFinite, FS_CardinalityType
  <1>3. CASE f \in A
    <2>1. f \in DOMAIN StyleOf /\ StyleOf[f] = s
      BY <1>3 DEF Users
    <2>2. Cardinality(on' \cap Users(s)) = Cardinality(A \ {f})
      <3>1. on' \cap Users(s) = A \ {f}
        OBVIOUS
      <3>. QED BY <3>1
    <2>3. f \in A
      BY <1>3
    <2>. HIDE DEF A
    <2>4. Cardinality(A \ {f}) = Cardinality(A) - 1 /\ Cardinality(A \ {f}) \in Nat
      BY <1>2, <2>3, FS_RemoveElement, FS_CardinalityType
    <2>5. refs[s] > 0
      BY <1>1, <1>2, <2>4
    <2>6. refs'[s] = refs[s] - 1
      BY <1>1, <2>1, <2>5 DEF Released
    <2>. QED BY <1>1, <1>2, <2>2, <2>4, <2>6
  <1>4. CASE f \in Users(s) /\ f \notin A
    <2>1. f \in DOMAIN StyleOf /\ StyleOf[f] = s /\ f \notin on
      BY <1>4 DEF Users
    <2>2. \A g \in Users(s) \ {f} : g \notin on
      BY <2>1 DEF Shared, Peers
    <2>3. on' \cap Users(s) = {}
      BY <2>2
    <2>4. refs'[s] \in Nat
      BY <1>1, <2>1 DEF Released
    <2>. QED BY <2>3, <2>4, FS_EmptySet
  <1>5. CASE f \notin Users(s)
    <2>1. refs'[s] = refs[s]
      BY <1>1, <1>5 DEF Released, Users
    <2>2. on' \cap Users(s) = A
      BY <1>5
    <2>. QED BY <1>1, <2>1, <2>2
  <1>. QED
    BY <1>3, <1>4, <1>5

\* The handler has done its part: nothing that waits for its own counts on it.
LEMMA HandledShares ==
  ASSUME IInv, SInv, NEW f \in Features, Next1("handle"), Who = f, NoMore,
         UNCHANGED <<chain, status>>,
         NEW do \in {"finish", "fail"}, micro' = Append(Tail(micro), Job(do, f, 1)),
         do = "fail" => chain[f][1].action = "enable",
         \/ chain[f][1].action = "enable" /\ on' = on \cup {f} /\ refs' = Acquired(f)
         \/ chain[f][1].action = "disable" /\ on' = on \ {f} /\ refs' = Released(f)
  PROVE  SInv'
  <1>. DEFINE x == Job(do, f, 1)
  <1>1. /\ micro # <<>> /\ Head(micro).who = f /\ Head(micro).hops = 0 /\ Head(micro).do = "handle"
        /\ micro' = Append(Tail(micro), x)
    BY DEF Next1, Who
  <1>2. x \in Jobs /\ x.who = f /\ x.do = do /\ Cost(x) = 1
    BY DEF Job, Jobs, Cost
  <1>. HIDE DEF x
  <1>3. /\ \A g \in Features \ {f} : \A d : Doing(micro', g, d) <=> Doing(micro, g, d)
        /\ \A d : Doing(micro', f, d) <=> d = x.do
        /\ /\ EarlyInv /\ main' = main /\ \A g \in Shared \ {f} : chain'[g] = chain[g]
           /\ f \in Shared => Cost(x) < Cost(micro[1])
           => EarlyInv'
    BY <1>1, <1>2, AdvanceShare
  <1>4. Goes
    BY GoesOn
  <1>5. /\ 1 \in DOMAIN micro /\ micro[1] = Head(micro) /\ Cost(micro[1]) = 2 /\ chain[f] # <<>>
    BY <1>1, HeadJob, FeatureJob DEF IInv, Cost
  <1>6. \A g \in Features \ {f} : g \in on' <=> g \in on
    OBVIOUS
  <1>7. FailInv'
    <2>1. ASSUME NEW g \in Features, chain'[g] = <<>>, status'[g] = "failing" PROVE g \in on'
      <3>1. g # f /\ chain[g] = <<>> /\ status[g] = "failing"
        BY <1>5, <2>1
      <3>. QED BY <1>6, <3>1 DEF SInv, FailInv
    <2>2. ASSUME NEW g \in Features, Doing(micro', g, "fail") PROVE g \in on'
      <3>1. CASE g = f
        <4>1. do = "fail"
          BY <1>2, <1>3, <2>2, <3>1
        <4>. QED BY <3>1, <4>1
      <3>2. CASE g # f
        BY <1>3, <1>6, <2>2, <3>2 DEF SInv, FailInv
      <3>. QED BY <3>1, <3>2
    <2>. QED BY <2>1, <2>2 DEF FailInv
  <1>8. ASSUME ShareInv PROVE ShareInv'
    <2>1. Unhandled(f)
      <3>1. micro[1].who = f /\ micro[1].do = "handle"
        BY <1>1, <1>5
      <3>. QED BY <1>5, <3>1 DEF Doing, Unhandled
    <2>2. EarlyInv'
      BY <1>2, <1>3, <1>4, <1>5, <1>8 DEF ShareInv, Goes
    <2>3. CountInv'
      <3>1. CASE chain[f][1].action = "enable"
        BY <1>8, <3>1, AcquiredCounts DEF ShareInv, IInv
      <3>2. CASE chain[f][1].action = "disable"
        <4>1. f \notin on /\ f \in Shared => \A g \in Peers(f) : g \notin on
          BY <1>5, <1>8, <2>1, <3>2 DEF ShareInv, OweInv, Stops
        <4>. QED
          BY <1>8, <3>2, <4>1, ReleasedCounts DEF ShareInv, IInv
      <3>. QED BY <3>1, <3>2
    <2>4. OweInv'
      <3>. SUFFICES ASSUME NEW g \in Shared, Unhandled(g)', Stops(g)', g \notin on', NEW h \in Peers(g)
                    PROVE  h \notin on' /\ (chain'[h] # <<>> => Stops(h)')
        BY DEF OweInv
      <3>1. g # f
        BY <1>2, <1>3 DEF Unhandled
      <3>2. g \in Features \ {f} /\ Unhandled(g) /\ Stops(g) /\ g \notin on
        BY <1>3, <1>6, <3>1, SharedFacts DEF Unhandled, Stops
      <3>3. h \notin on /\ (chain[h] # <<>> => Stops(h))
        BY <1>8, <3>2 DEF ShareInv, OweInv
      <3>4. h = f => chain[f][1].action = "disable"
        BY <1>5, <3>3 DEF Stops
      <3>5. h \notin on'
        BY <3>3, <3>4
      <3>. QED BY <3>3, <3>5 DEF Stops
    <2>. QED BY <1>8, <2>2, <2>3, <2>4 DEF ShareInv
  <1>. QED
    BY <1>4, <1>7, <1>8 DEF SInv, Goes

LEMMA HandleShares ==
  ASSUME IInv, SInv, NEW f \in Features, Handle(f) \/ HandlerThrows(f)
  PROVE  SInv'
  <1>1. /\ Next1("handle") /\ Who = f /\ NoMore /\ UNCHANGED <<chain, status>>
    BY DEF Handle, HandlerThrows, NoMore, bootVars, runVars, routeVars
  <1>2. /\ Head(chain[f]) = chain[f][1] /\ chain[f][1] \in Requested
    <2>1. Head(chain[f]) = chain[f][1] /\ chain[f] \in Seq(Requested) /\ 1 \in DOMAIN chain[f]
      BY <1>1, FeatureJob DEF IInv, Next1, Who
    <2>. QED BY <2>1
  <1>3. chain[f][1].action \in {"enable", "disable"}
    BY <1>2 DEF Requested
  <1>4. CASE Handle(f)
    <2>1. /\ \/ chain[f][1].action = "enable" /\ on' = on \cup {f} /\ refs' = Acquired(f)
             \/ chain[f][1].action = "disable" /\ on' = on \ {f} /\ refs' = Released(f)
          /\ micro' = Append(Tail(micro), Job("finish", f, 1))
      BY <1>2, <1>3, <1>4 DEF Handle
    <2>. QED BY <1>1, <2>1, HandledShares
  <1>5. CASE HandlerThrows(f)
    <2>1. /\ chain[f][1].action = "enable" /\ on' = on \cup {f} /\ refs' = Acquired(f)
          /\ micro' = Append(Tail(micro), Job("fail", f, 1))
      BY <1>2, <1>5 DEF HandlerThrows
    <2>. QED BY <1>1, <2>1, HandledShares
  <1>. QED BY <1>4, <1>5

LEMMA FinishShares ==
  ASSUME IInv, SInv, NEW f \in Features, Finish(f)
  PROVE  SInv'
  <1>1. /\ micro # <<>> /\ Head(micro).who = f /\ NoMore /\ UNCHANGED <<on, refs>>
    BY DEF Finish, Next1, Who, NoMore, bootVars, runVars, routeVars
  <1>2. /\ chain[f] # <<>> /\ chain[f] \in Seq(Requested) /\ Len(chain[f]) \in Nat \ {0}
        /\ f \notin {"fast", "main", "route"} /\ micro[1].who = f /\ micro[1] = Head(micro)
        /\ 1 \in DOMAIN micro
    BY <1>1, FeatureJob, HeadJob DEF IInv
  <1>3. /\ chain \in [Features -> Seq(Requested)] /\ micro \in Seq(Jobs) /\ Distinct(micro)
        /\ status \in [Features -> {"disabled", "running", "failing"}]
    BY DEF IInv, TypeOK, TaskType, FeatureType, JobInv
  <1>4. /\ chain'[f] = Tail(chain[f])
        /\ \A g \in Features \ {f} : chain'[g] = chain[g] /\ status'[g] = status[g]
    BY <1>3 DEF Finish
  <1>5. Goes
    BY <1>1, GoesOn
  <1>6. CASE Len(chain[f]) = 1
    <2>1. /\ chain'[f] = <<>> /\ micro' = Tail(micro)
          /\ status'[f] = IF micro[1].do = "fail" THEN "failing"
                          ELSE IF chain[f][1].action = "enable" THEN "running" ELSE "disabled"
      BY <1>6, LastFinishes
    <2>2. \A w, d : Doing(micro', w, d) <=> w # f /\ Doing(micro, w, d)
      BY <1>1, <1>2, <1>3, <2>1, DropDoing
    <2>3. FailInv'
      <3>1. ASSUME NEW g \in Features, chain'[g] = <<>>, status'[g] = "failing" PROVE g \in on'
        <4>1. CASE g = f
          <5>1. Doing(micro, f, "fail")
            BY <1>2, <2>1, <3>1, <4>1 DEF Doing
          <5>. QED BY <1>1, <4>1, <5>1 DEF SInv, FailInv
        <4>2. CASE g # f
          BY <1>1, <1>4, <3>1, <4>2 DEF SInv, FailInv
        <4>. QED BY <4>1, <4>2
      <3>2. ASSUME NEW g \in Features, Doing(micro', g, "fail") PROVE g \in on'
        BY <1>1, <2>2, <3>2 DEF SInv, FailInv
      <3>. QED BY <3>1, <3>2 DEF FailInv
    <2>4. ASSUME ShareInv PROVE ShareInv'
      <3>1. Early(micro')
        BY <1>1, <1>3, <2>1, <2>4, EarlyDrop DEF ShareInv, EarlyInv
      <3>2. \A g \in Features : chain'[g] = chain[g] \/ chain'[g] = <<>>
        BY <1>4, <2>1
      <3>3. EarlyInv'
        <4>1. ASSUME main' = "load", NEW g \in Shared PROVE chain'[g] = <<>>
          <5>1. chain[g] = <<>> /\ g \in Features
            BY <1>5, <2>4, <4>1, SharedFacts DEF ShareInv, EarlyInv, Goes
          <5>. QED BY <3>2, <5>1
        <4>. QED BY <3>1, <4>1 DEF EarlyInv
      <3>4. CountInv'
        BY <1>1, <2>4 DEF ShareInv, CountInv
      <3>5. OweInv'
        <4>. SUFFICES ASSUME NEW g \in Shared, Unhandled(g)', Stops(g)', g \notin on', NEW h \in Peers(g)
                      PROVE  h \notin on' /\ (chain'[h] # <<>> => Stops(h)')
          BY DEF OweInv
        <4>1. g # f /\ g \in Features /\ h \in Features /\ Unhandled(g) /\ g \notin on
          BY <1>1, <2>2, SharedFacts DEF Unhandled
        <4>2. Stops(g)
          BY <1>4, <4>1 DEF Stops
        <4>3. h \notin on /\ (chain[h] # <<>> => Stops(h))
          BY <2>4, <4>1, <4>2 DEF ShareInv, OweInv
        <4>. QED BY <1>1, <3>2, <4>1, <4>3 DEF Stops
      <3>6. \A g \in Shared : Len(chain'[g]) <= 1
        <4>1. Len(<<>>) <= 1
          OBVIOUS
        <4>. QED BY <2>4, <3>2, <4>1, SharedFacts DEF ShareInv
      <3>. QED BY <3>3, <3>4, <3>5, <3>6 DEF ShareInv
    <2>. QED BY <1>5, <2>3, <2>4 DEF SInv, Goes
  <1>7. CASE Len(chain[f]) > 1
    <2>. DEFINE x == Job("begin", f, 2)
    <2>1. x \in Jobs /\ x.who = f /\ x.do = "begin"
      BY DEF Job, Jobs
    <2>2. micro' = Append(Tail(micro), x)
      <3>1. micro' = Tail(micro) \o <<x>>
        BY <1>7 DEF Finish
      <3>2. Tail(micro) \in Seq(Jobs)
        BY <1>1, <1>3
      <3>. HIDE DEF x
      <3>. QED BY <2>1, <3>1, <3>2
    <2>. HIDE DEF x
    <2>3. /\ \A g \in Features \ {f} : \A d : Doing(micro', g, d) <=> Doing(micro, g, d)
          /\ \A d : Doing(micro', f, d) <=> d = x.do
          /\ /\ EarlyInv /\ main' = main /\ \A g \in Shared \ {f} : chain'[g] = chain[g]
             /\ f \in Shared => Cost(x) < Cost(micro[1])
             => EarlyInv'
      BY <1>1, <2>1, <2>2, AdvanceShare
    <2>4. chain'[f] # <<>>
      BY <1>2, <1>4, <1>7, TailChain
    <2>5. FailInv'
      <3>1. ASSUME NEW g \in Features, chain'[g] = <<>>, status'[g] = "failing" PROVE g \in on'
        <4>1. g # f
          BY <2>4, <3>1
        <4>. QED BY <1>1, <1>4, <3>1, <4>1 DEF SInv, FailInv
      <3>2. ASSUME NEW g \in Features, Doing(micro', g, "fail") PROVE g \in on'
        <4>1. Doing(micro, g, "fail")
          BY <2>1, <2>3, <3>2
        <4>. QED BY <1>1, <4>1 DEF SInv, FailInv
      <3>. QED BY <3>1, <3>2 DEF FailInv
    <2>6. ASSUME ShareInv PROVE ShareInv'
      <3>1. f \notin Shared => EarlyInv'
        BY <1>4, <1>5, <2>3, <2>6, SharedFacts DEF ShareInv, Goes
      <3>. QED BY <1>1, <1>2, <1>4, <1>5, <1>7, <2>3, <2>6, <3>1, OthersGo DEF Goes
    <2>. QED BY <1>5, <2>5, <2>6 DEF SInv, Goes
  <1>. QED
    <2>1. \A n \in Nat \ {0} : n = 1 \/ n > 1
      OBVIOUS
    <2>. QED BY <1>2, <1>6, <1>7, <2>1

LEMMA HopShares ==
  ASSUME IInv, SInv, Hop
  PROVE  SInv'
  <1>1. /\ micro # <<>> /\ Head(micro).hops > 0 /\ NoMore /\ UNCHANGED <<chain, status, on, refs>>
    BY DEF Hop, NoMore, featureVars, bootVars, runVars, routeVars
  <1>2. /\ micro \in Seq(Jobs) /\ Distinct(micro) /\ Head(micro) = micro[1] /\ micro[1] \in Jobs
        /\ 1 \in DOMAIN micro
    BY <1>1, HeadJob DEF IInv, TypeOK, TaskType, JobInv
  <1>3. /\ Early(micro) => Early(micro')
        /\ \A w, d : Doing(micro', w, d) <=> Doing(micro, w, d)
    <2>1. CASE \E rounds \in {micro[i].hops : i \in DOMAIN micro} \ {0} :
          /\ \A i \in DOMAIN micro : rounds <= micro[i].hops
          /\ micro' = [i \in DOMAIN micro |-> [micro[i] EXCEPT !.hops = @ - rounds]]
      <3>1. PICK rounds \in {micro[i].hops : i \in DOMAIN micro} \ {0} :
          /\ \A i \in DOMAIN micro : rounds <= micro[i].hops
          /\ micro' = [i \in DOMAIN micro |-> [micro[i] EXCEPT !.hops = @ - rounds]]
        BY <2>1
      <3>2. rounds \in Nat
        <4>1. PICK i \in DOMAIN micro : rounds = micro[i].hops
          OBVIOUS
        <4>. QED BY <1>2, <4>1, CostType
      <3>3. \A i \in DOMAIN micro :
              /\ micro'[i].who = micro[i].who /\ micro'[i].do = micro[i].do
              /\ micro'[i].hops = micro[i].hops - rounds /\ micro[i].hops \in Nat
        <4>. TAKE i \in DOMAIN micro
        <4>. DEFINE j == micro[i]
                    e == [j EXCEPT !.hops = @ - rounds]
        <4>1. j \in Jobs /\ micro'[i] = e
          BY <1>2, <3>1
        <4>. HIDE DEF j
        <4>2. e.who = j.who /\ e.do = j.do /\ e.hops = j.hops - rounds /\ j.hops \in Nat
          BY <4>1 DEF Jobs
        <4>. HIDE DEF e
        <4>. QED BY <4>1, <4>2 DEF j
      <3>4. DOMAIN micro' = DOMAIN micro
        BY <3>1
      <3>5. \A i \in DOMAIN micro : Cost(micro'[i]) = Cost(micro[i]) - rounds /\ Cost(micro[i]) \in Nat
        <4>. TAKE i \in DOMAIN micro
        <4>1. \E c \in 0 .. 3 : Cost(micro[i]) = micro[i].hops + c /\ Cost(micro'[i]) = micro'[i].hops + c
          BY <3>3 DEF Cost
        <4>. QED BY <3>2, <3>3, <4>1
      <3>6. Early(micro) => Early(micro')
        <4>. SUFFICES ASSUME Early(micro), NEW i \in DOMAIN micro, NEW j \in DOMAIN micro,
                             micro'[i].who \in Shared, micro'[j].who = "main"
                      PROVE  /\ Cost(micro'[i]) <= micro'[j].hops
                             /\ j < i => Cost(micro'[i]) < micro'[j].hops
          BY <3>4 DEF Early
        <4>1. Cost(micro[i]) <= micro[j].hops /\ (j < i => Cost(micro[i]) < micro[j].hops)
          BY <3>3 DEF Early
        <4>. QED BY <3>2, <3>3, <3>5, <4>1
      <3>. QED BY <3>3, <3>4, <3>6 DEF Doing
    <2>2. CASE micro' = Append(Tail(micro), [Head(micro) EXCEPT !.hops = @ - 1])
      <3>. DEFINE x == [Head(micro) EXCEPT !.hops = @ - 1]
      <3>1. /\ x \in Jobs /\ x.who = micro[1].who /\ x.do = micro[1].do
            /\ x.hops = micro[1].hops - 1 /\ micro[1].hops \in Nat \ {0}
        BY <1>1, <1>2 DEF Jobs
      <3>2. micro' = Append(Tail(micro), x)
        BY <2>2
      <3>. HIDE DEF x
      <3>3. Cost(x) < Cost(micro[1]) /\ micro[1].hops = x.hops + 1 /\ x.hops < micro[1].hops
        <4>1. \E c \in 0 .. 3 : Cost(micro[1]) = micro[1].hops + c /\ Cost(x) = x.hops + c
          BY <3>1 DEF Cost
        <4>. QED BY <3>1, <4>1
      <3>4. Early(micro) => Early(micro')
        BY <1>1, <1>2, <3>1, <3>2, <3>3, EarlyAdvance
      <3>5. ASSUME NEW w, NEW d PROVE Doing(micro', w, d) <=> Doing(micro, w, d)
        <4>1. Doing(micro', w, d) <=> IF w = x.who THEN d = x.do ELSE Doing(micro, w, d)
          BY <1>1, <1>2, <3>1, <3>2, AdvanceDoing
        <4>2. ASSUME w = x.who PROVE Doing(micro, w, d) <=> d = x.do
          BY <1>2, <3>1, <4>2 DEF Doing, Distinct
        <4>. QED BY <4>1, <4>2
      <3>. QED BY <3>4, <3>5
    <2>. QED
      BY <2>1, <2>2 DEF Hop
  <1>4. Goes
    BY <1>1, GoesOn
  <1>5. FailInv'
    BY <1>1, <1>3, FailStays DEF SInv
  <1>6. ASSUME ShareInv PROVE ShareInv'
    <2>1. EarlyInv'
      BY <1>1, <1>3, <1>4, <1>6 DEF ShareInv, EarlyInv, Goes
    <2>. QED BY <1>1, <1>3, <1>6, <2>1, ShareStays DEF Unhandled
  <1>. QED
    BY <1>4, <1>5, <1>6 DEF SInv, Goes

-----------------------------
(* The pipelines.                                                           *)

\* A step that is of no feature.
LEMMA OtherShares ==
  ASSUME IInv, SInv, UNCHANGED <<chain, status, on, refs>>,
         timers' \subseteq Debounced, tear' = "none" => tear = "none", Observed' => Observed,
         \A f \in Features : \A d : Doing(micro', f, d) => Doing(micro, f, d),
         tear' = "none" /\ Observed /\ ShareInv => EarlyInv'
  PROVE  SInv'
  <1>1. FailInv'
    BY FailStays DEF SInv
  <1>2. ASSUME tear' = "none", Observed' PROVE ShareInv'
    <2>1. ShareInv /\ EarlyInv'
      BY <1>2 DEF SInv
    <2>2. \A f \in Shared : Unhandled(f)' => Unhandled(f)
      BY SharedFacts DEF Unhandled
    <2>. QED BY <2>1, <2>2, ShareStays
  <1>. QED
    BY <1>1, <1>2 DEF SInv

\* A pipeline's job at the head is done, or goes on as its next step.
LEMMA PipelineShares ==
  ASSUME IInv, SInv, UNCHANGED <<chain, status, on, refs, timers, tear>>, Observed' => Observed,
         NEW p \in {"fast", "main"}, Next1("step"), Who = p,
         \/ micro' = Tail(micro) /\ p = "fast"
         \/ \E x \in Jobs : micro' = Append(Tail(micro), x) /\ x.who = p,
         p = "fast" => main' = main
  PROVE  SInv'
  <1>1. /\ micro # <<>> /\ Head(micro).who = p /\ Head(micro).hops = 0 /\ micro[1] = Head(micro)
        /\ micro \in Seq(Jobs) /\ Distinct(micro) /\ micro[1].who = p
    BY HeadJob DEF IInv, JobInv, TypeOK, TaskType, Next1, Who
  <1>2. p \notin Features /\ p \notin Shared
    BY LifecycleAssumption, SharedFacts
  <1>3. \A f \in Features : \A d : Doing(micro', f, d) => Doing(micro, f, d)
    <2>1. CASE micro' = Tail(micro)
      BY <1>1, <2>1, DropDoing
    <2>2. CASE \E x \in Jobs : micro' = Append(Tail(micro), x) /\ x.who = p
      <3>1. PICK x \in Jobs : micro' = Append(Tail(micro), x) /\ x.who = p
        BY <2>2
      <3>2. \A w, d : Doing(micro', w, d) <=> IF w = x.who THEN d = x.do ELSE Doing(micro, w, d)
        BY <1>1, <3>1, AdvanceDoing
      <3>. QED BY <1>2, <3>1, <3>2
    <2>. QED BY <2>1, <2>2
  <1>4. ASSUME ShareInv PROVE EarlyInv'
    <2>1. CASE p = "fast"
      <3>1. Early(micro')
        <4>1. CASE micro' = Tail(micro)
          BY <1>1, <1>4, <4>1, EarlyDrop DEF ShareInv, EarlyInv
        <4>2. CASE \E x \in Jobs : micro' = Append(Tail(micro), x) /\ x.who = p
          <5>1. PICK x \in Jobs : micro' = Append(Tail(micro), x) /\ x.who = p
            BY <4>2
          <5>2. x.who = micro[1].who /\ x.who # "main" /\ x.who \notin Shared
            BY <1>1, <1>2, <2>1, <5>1
          <5>. QED BY <1>1, <1>4, <5>1, <5>2, EarlyAdvance DEF ShareInv, EarlyInv
        <4>. QED BY <4>1, <4>2
      <3>. QED BY <1>4, <2>1, <3>1 DEF ShareInv, EarlyInv
    <2>2. CASE p = "main"
      <3>1. \A f \in Shared : chain[f] = <<>>
        BY <1>1, <1>4, <2>2, EarlyHead DEF ShareInv
      <3>2. \A f \in Shared : ~Has(micro, f)
        BY <3>1, SharedFacts DEF IInv, JobInv
      <3>3. PICK x \in Jobs : micro' = Append(Tail(micro), x) /\ x.who = p
        BY <2>2
      <3>4. \A w : Has(micro', w) <=> Has(micro, w)
        BY <1>1, <3>3, AdvanceSeq
      <3>. QED BY <3>1, <3>2, <3>4 DEF EarlyInv, Early, Has
    <2>. QED BY <2>1, <2>2
  <1>. QED
    BY <1>3, <1>4, OtherShares DEF SInv

LEMMA StepsShare ==
  ASSUME IInv, SInv,
         StepBeginRoute \/ StepHooks \/ StepObserver \/ StepDetectPage("fast") \/ StepDetectPage("main")
  PROVE  SInv'
  <1>1. \A p \in {"fast", "main"} : \A n \in 0 .. 11 : Job("step", p, n) \in Jobs /\ Job("step", p, n).who = p
    BY DEF Job, Jobs
  <1>2. CASE StepBeginRoute
    <2>1. /\ Next1("step") /\ Who = "fast" /\ micro' = Append(Tail(micro), Job("step", "fast", 3))
          /\ UNCHANGED <<chain, status, on, refs, timers, tear, main, watching>> /\ fast = "beginRoute"
      BY <1>2 DEF StepBeginRoute, featureVars, runVars
    <2>. QED BY <1>1, <2>1, PipelineShares DEF Observed
  <1>3. CASE StepHooks
    <2>1. /\ Next1("step") /\ Who = "fast" /\ micro' = Append(Tail(micro), Job("step", "fast", 7))
          /\ UNCHANGED <<chain, status, on, refs, timers, tear, main, watching>> /\ fast = "hooks"
      BY <1>3 DEF StepHooks, featureVars, runVars
    <2>. QED BY <1>1, <2>1, PipelineShares DEF Observed
  <1>4. CASE StepObserver
    <2>1. /\ Next1("step") /\ Who = "fast" /\ micro' = Tail(micro)
          /\ UNCHANGED <<chain, status, on, refs, timers, tear, main>> /\ fast = "observer"
      BY <1>4 DEF StepObserver, featureVars, runVars
    <2>. QED BY <2>1, PipelineShares DEF Observed
  <1>5. CASE StepDetectPage("fast")
    <2>1. /\ Next1("step") /\ Who = "fast" /\ micro' = Append(Tail(micro), Job("step", "fast", 7))
          /\ UNCHANGED <<chain, status, on, refs, timers, tear, main, watching>> /\ fast = "detectPage"
      BY <1>5 DEF StepDetectPage, featureVars, runVars
    <2>. QED BY <1>1, <2>1, PipelineShares DEF Observed
  <1>6. CASE StepDetectPage("main")
    <2>1. /\ Next1("step") /\ Who = "main" /\ micro' = Append(Tail(micro), Job("step", "main", 11))
          /\ UNCHANGED <<chain, status, on, refs, timers, tear, fast, watching>>
      BY <1>6 DEF StepDetectPage, featureVars, runVars
    <2>. QED BY <1>1, <2>1, PipelineShares DEF Observed
  <1>. QED BY <1>2, <1>3, <1>4, <1>5, <1>6

-----------------------------
(* The requests.                                                            *)

LEMMA RequestNew ==
  ASSUME NEW q \in Seq(Jobs), NEW asked, DOMAIN asked \subseteq Features, Request(asked, q)
  PROVE  \A i \in DOMAIN micro' :
           \/ i \in DOMAIN q /\ micro'[i] = q[i]
           \/ micro'[i].do = "begin" /\ micro'[i].hops = 1
  <1>. DEFINE fs == {f \in DOMAIN asked : chain[f] = <<>>}
  <1>1. PICK idle \in InOrder[fs] : micro' = q \o [i \in DOMAIN idle |-> Job("begin", idle[i], 1)]
    BY DEF Request
  <1>2. fs \in SUBSET Features
    OBVIOUS
  <1>. HIDE DEF fs
  <1>3. idle \in Seq(Features)
    BY <1>2, InOrderFacts
  <1>. DEFINE b == [i \in DOMAIN idle |-> Job("begin", idle[i], 1)]
              m == Len(q)
              n == Len(idle)
  <1>4. m \in Nat /\ n \in Nat /\ DOMAIN q = 1 .. m /\ DOMAIN idle = 1 .. n
    BY <1>3
  <1>5. \A i \in 1 .. n : b[i] \in Jobs /\ b[i].do = "begin" /\ b[i].hops = 1
    BY <1>3, <1>4 DEF Job, Jobs
  <1>6. b \in Seq(Jobs) /\ Len(b) = n
    BY <1>4, <1>5
  <1>7. micro' = q \o b
    BY <1>1
  <1>. HIDE DEF b
  <1>. DEFINE r == q \o b
  <1>8. /\ DOMAIN micro' = 1 .. (m + n)
        /\ \A i \in 1 .. (m + n) : micro'[i] = IF i <= m THEN q[i] ELSE b[i - m]
    <2>1. /\ r \in Seq(Jobs) /\ DOMAIN r = 1 .. (m + n)
          /\ \A i \in 1 .. (m + n) : r[i] = IF i <= m THEN q[i] ELSE b[i - m]
      <3>. HIDE DEF n
      <3>1. q \in Seq(Jobs) /\ b \in Seq(Jobs) /\ Len(q) = m /\ Len(b) = n /\ m \in Nat /\ n \in Nat
        BY <1>4, <1>6
      <3>2. r \in Seq(Jobs) /\ Len(r) = m + n
        BY <3>1, ConcatProperties
      <3>3. \A i \in 1 .. (m + n) : r[i] = IF i <= m THEN q[i] ELSE b[i - m]
        BY <3>1, ConcatProperties
      <3>. QED BY <3>1, <3>2, <3>3
    <2>2. micro' = r
      BY <1>7
    <2>. HIDE DEF r
    <2>. QED BY <2>1, <2>2
  <1>. HIDE DEF m, n
  <1>. SUFFICES ASSUME NEW i \in 1 .. (m + n)
                PROVE  \/ i \in DOMAIN q /\ micro'[i] = q[i]
                       \/ micro'[i].do = "begin" /\ micro'[i].hops = 1
    BY <1>8
  <1>9. CASE i <= m
    BY <1>4, <1>8, <1>9
  <1>10. CASE ~(i <= m)
    <2>1. i - m \in 1 .. n /\ micro'[i] = b[i - m]
      BY <1>4, <1>8, <1>10
    <2>. QED BY <1>5, <2>1
  <1>. QED BY <1>9, <1>10

\* A user of a shared style that is to be disabled is on, or the others are off.
Safe(asked) ==
  \A f \in Shared \cap DOMAIN asked : asked[f][1].action = "disable" /\ f \notin on =>
    \A g \in Peers(f) : g \notin on /\ (g \in DOMAIN asked => asked[g][1].action = "disable")

\* What is common to the steps that request transitions.
Requests(asked, q) ==
  /\ q \in Seq(Jobs) /\ \A f \in Features : \A d : Doing(q, f, d) => Doing(micro, f, d)
  /\ DOMAIN asked \subseteq Features
  /\ \A f \in DOMAIN asked : asked[f] \in Seq(Requested') /\ asked[f] # <<>>
  /\ Request(asked, q) /\ on' = on
  /\ \A f \in Features : status'[f] = "failing" => status[f] = "failing"
  /\ timers' \subseteq Debounced /\ (tear' = "none" => tear = "none") /\ (Observed' => Observed)

LEMMA RequestShares ==
  ASSUME IInv, SInv, chain \in [Features -> Seq(Requested')], NEW asked, NEW q, Requests(asked, q),
         ASSUME tear' = "none", Observed, ShareInv
         PROVE  /\ refs' = refs /\ EarlyInv' /\ Safe(asked)
                /\ \A f \in Shared : chain[f] = <<>>
                /\ \A f \in Shared \cap DOMAIN asked : Len(asked[f]) = 1
  PROVE  SInv'
  <1>1. /\ DOMAIN asked \subseteq Features
        /\ \A f \in DOMAIN asked : asked[f] \in Seq(Requested') /\ asked[f] # <<>>
        /\ Request(asked, q) /\ q \in Seq(Jobs) /\ on' = on
    BY DEF Requests
  <1>2. Joined(Requested', asked)
    <2>1. PICK R : R = Requested'
      OBVIOUS
    <2>2. /\ chain \in [Features -> Seq(R)]
          /\ \A f \in DOMAIN asked : asked[f] \in Seq(R) /\ asked[f] # <<>>
      BY <1>1, <2>1
    <2>3. Joined(R, asked)
      BY <1>1, <2>2, RequestChain
    <2>. QED BY <2>1, <2>3
  <1>3. FailInv'
    <2>1. ASSUME NEW f \in Features, Doing(micro', f, "fail") PROVE Doing(micro, f, "fail")
      <3>1. PICK i \in DOMAIN micro' : micro'[i].who = f /\ micro'[i].do = "fail"
        BY <2>1 DEF Doing
      <3>2. i \in DOMAIN q /\ micro'[i] = q[i]
        BY <1>1, <3>1, RequestNew
      <3>3. Doing(q, f, "fail")
        BY <3>1, <3>2 DEF Doing
      <3>. QED BY <3>3 DEF Requests
    <2>2. ASSUME NEW f \in Features, chain'[f] = <<>> PROVE f \notin DOMAIN asked /\ chain[f] = <<>>
      BY <1>2, <2>2 DEF Joined
    <2>. QED BY <1>1, <2>1, <2>2, FailStays DEF SInv, Requests
  <1>4. ASSUME tear' = "none", Observed' PROVE ShareInv'
    <2>1. tear = "none" /\ Observed /\ ShareInv
      BY <1>4 DEF Requests, SInv
    <2>2. /\ refs' = refs /\ EarlyInv' /\ Safe(asked)
          /\ \A f \in Shared : chain[f] = <<>>
          /\ \A f \in Shared \cap DOMAIN asked : Len(asked[f]) = 1
      BY <1>4, <2>1
    <2>3. \A f \in Shared : chain'[f] = IF f \in DOMAIN asked THEN asked[f] ELSE <<>>
      BY <1>2, <2>2, SharedFacts DEF Joined
    <2>4. ASSUME NEW f \in Shared PROVE Len(chain'[f]) <= 1
      <3>1. CASE f \in DOMAIN asked
        <4>1. Len(chain'[f]) = 1
          BY <2>2, <2>3, <3>1
        <4>. QED BY <4>1
      <3>2. CASE f \notin DOMAIN asked
        <4>1. chain'[f] = <<>>
          BY <2>3, <3>2
        <4>. QED BY <4>1
      <3>. QED BY <3>1, <3>2
    <2>5. \A f \in Shared : Stops(f)' <=> f \in DOMAIN asked /\ asked[f][1].action = "disable"
      BY <1>1, <2>3 DEF Stops
    <2>6. ASSUME NEW f \in Shared, Stops(f)', f \notin on, NEW g \in Peers(f)
          PROVE  g \notin on /\ (chain'[g] # <<>> => Stops(g)')
      BY <2>2, <2>3, <2>5, <2>6, SharedFacts DEF Safe
    <2>. QED BY <1>1, <2>1, <2>2, <2>4, <2>6, RequestedShare
  <1>. QED
    BY <1>3, <1>4 DEF SInv, Requests

\* A change of the configuration: who is to be disabled runs, unless its page
\* is not shown; then nothing that shares its style runs either.
LEMMA SyncShares ==
  ASSUME IInv, SInv, micro = <<>>, gen' = gen, NEW fs \in SUBSET Features, NEW wanted,
         NEW q \in Seq(Jobs), \A f \in Features : ~Has(q, f), Sync(fs, wanted, q),
         UNCHANGED <<on, refs, tear>>, timers' \subseteq Debounced, Observed' => Observed,
         tear = "none" /\ Observed => EarlyInv',
         ASSUME tear = "none", Observed, NEW f \in fs \cap Shared, f \notin wanted, f \notin on
         PROVE  f \notin Scope
  PROVE  SInv'
  <1>1. PICK asked : Syncs(asked, fs, wanted) /\ Request(asked, q)
    BY SyncAsks
  <1>2. /\ DOMAIN asked = (fs \ wanted) \cup (fs \cap Scope) /\ DOMAIN asked \subseteq Features
        /\ \A f \in Features : status'[f] \in {"disabled", status[f]}
    BY <1>1 DEF Syncs
  <1>3. gen' \in Nat
    BY LifecycleAssumption DEF IInv, TypeOK, RouteType
  <1>4. ASSUME NEW f \in DOMAIN asked
        PROVE  /\ asked[f] \in Seq(Requested') /\ asked[f] # <<>>
               /\ asked[f][1].action = IF f \in wanted THEN "enable" ELSE "disable"
               /\ f \notin Refreshable => Len(asked[f]) = 1
    <2>1. PICK a : a = asked[f]
      OBVIOUS
    <2>2. /\ a \in Seq({Asked(f, wanted)}) /\ a # <<>> /\ \A i \in DOMAIN a : a[i] = Asked(f, wanted)
          /\ f \notin Refreshable => Len(a) = 1
      BY <1>1, <2>1 DEF Syncs
    <2>3. a \in Seq(Requested')
      BY <1>3, <2>2, AskedType
    <2>4. a[1] = Asked(f, wanted)
      BY <2>2
    <2>. QED BY <2>1, <2>2, <2>3, <2>4 DEF Asked, Transition
  <1>5. \A f \in Features : chain[f] = <<>>
    BY AtRest
  <1>6. chain \in [Features -> Seq(Requested')]
    BY DEF IInv, TypeOK, TaskType, Requested
  <1>7. Requests(asked, q)
    <2>1. \A f \in Features : \A d : Doing(q, f, d) => Doing(micro, f, d)
      BY DEF Doing, Has
    <2>. QED BY <1>1, <1>2, <1>4, <2>1 DEF Requests
  <1>8. ASSUME tear' = "none", Observed, ShareInv
        PROVE  /\ refs' = refs /\ EarlyInv' /\ Safe(asked)
               /\ \A f \in Shared : chain[f] = <<>>
               /\ \A f \in Shared \cap DOMAIN asked : Len(asked[f]) = 1
    <2>1. tear = "none"
      BY <1>8
    <2>2. Safe(asked)
      <3>. SUFFICES ASSUME NEW f \in Shared \cap DOMAIN asked, asked[f][1].action = "disable", f \notin on,
                           NEW g \in Peers(f)
                    PROVE  g \notin on /\ (g \in DOMAIN asked => asked[g][1].action = "disable")
        BY DEF Safe
      <3>1. f \notin wanted
        BY <1>4
      <3>2. f \in fs \cap Shared /\ g \in Features
        BY <1>2, SharedFacts
      <3>3. f \notin Scope
        BY <1>8, <2>1, <3>1, <3>2
      <3>4. g \notin Scope
        <4>1. CASE flags = NoPage
          BY <4>1 DEF Scope
        <4>2. CASE flags # NoPage
          <5>1. flags \in Pages /\ Scope = InScope[flags]
            BY <4>2 DEF Scope, IInv, TypeOK, RouteType
          <5>. QED BY <3>3, <5>1, SharedFacts
        <4>. QED BY <4>1, <4>2
      <3>5. FollowInv(g)
        BY <1>8, <3>2 DEF IInv
      <3>6. g \notin on
        BY <1>5, <3>2, <3>4, <3>5 DEF FollowInv
      <3>7. g \in DOMAIN asked => g \notin wanted
        BY <1>2, <3>4
      <3>. QED BY <1>4, <3>6, <3>7
    <2>. QED BY <1>2, <1>4, <1>5, <1>8, <2>1, <2>2, SharedFacts
  <1>. QED
    BY <1>6, <1>7, <1>8, RequestShares

LEMMA ToggleShares ==
  ASSUME IInv, SInv, IInv', NEW fs \in SUBSET Features, Toggle(fs)
  PROVE  SInv'
  <1>1. /\ micro = <<>> /\ ~frozen /\ tear = "none" /\ main = "done" /\ loader.left = <<>>
        /\ Sync(fs \ Debounced, want', micro) /\ want' = (want \ fs) \cup (fs \ want)
        /\ timers' = timers \cup (fs \cap Debounced)
        /\ UNCHANGED <<on, refs, tear, main, fast, watching, gen>>
    BY DEF Toggle, Editable, Idle, bootVars, runVars, routeVars
  <1>2. /\ \A f \in Features : chain[f] = <<>>
        /\ notice = 0 /\ main' \notin MainSteps /\ \A w : ~Has(micro, w)
    BY <1>1, AtRest
  <1>3. EarlyInv'
    BY <1>2, EarlyElse
  <1>4. ASSUME tear = "none", Observed, NEW f \in (fs \ Debounced) \cap Shared, f \notin want', f \notin on
        PROVE  f \notin Scope
    <2>. SUFFICES ASSUME f \in Scope PROVE FALSE
      OBVIOUS
    <2>1. FollowInv(f) /\ f \in Features /\ f \in want /\ f \notin timers
      BY <1>1, <1>4, SharedFacts DEF IInv, SInv
    <2>2. ~cut /\ ~Awaited(f)
      BY <1>1 DEF IInv, LeaveInv, Awaited
    <2>3. EndsEnabled(f)
      BY <1>1, <1>2, <2>1, <2>2 DEF FollowInv
    <2>4. chain[f] = <<>> /\ status[f] \in {"running", "failing"}
      BY <1>2, <2>1, <2>3 DEF EndsEnabled, IInv, TypeOK, FeatureType
    <2>. QED BY <1>4, <2>1, <2>4 DEF FollowInv, SInv, FailInv
  <1>5. timers' \subseteq Debounced /\ (Observed' => Observed)
    BY <1>1 DEF SInv, Observed
  <1>6. micro \in Seq(Jobs) /\ fs \ Debounced \in SUBSET Features
    BY DEF IInv, TypeOK, TaskType
  <1>. QED
    BY <1>1, <1>2, <1>3, <1>4, <1>5, <1>6, SyncShares

LEMMA OneSyncShares ==
  ASSUME IInv, SInv, IInv', micro = <<>>, NEW f \in Debounced \cup Refreshable, Sync({f}, want, micro),
         UNCHANGED <<bootVars, runVars, routeVars, on, refs>>, timers' \subseteq Debounced
  PROVE  SInv'
  <1>1. /\ main' \notin MainSteps /\ \A w : ~Has(micro, w)
    BY AtRest DEF bootVars
  <1>2. EarlyInv'
    BY <1>1, EarlyElse
  <1>3. {f} \in SUBSET Features /\ {f} \cap Shared = {} /\ micro \in Seq(Jobs)
    BY LifecycleAssumption, SharedFacts DEF IInv, TypeOK, TaskType
  <1>4. UNCHANGED <<on, refs, tear, gen>> /\ (Observed' => Observed)
    BY DEF Observed, bootVars, runVars, routeVars
  <1>. QED
    BY <1>1, <1>2, <1>3, <1>4, SyncShares

\* Where nothing changes that the styles depend on.
LEMMA StillShares ==
  ASSUME IInv, SInv, UNCHANGED <<chain, micro, status, on, refs>>, timers' \subseteq Debounced,
         Observed' => Observed, tear' = "none" => tear = "none", main' = "load" => main = "load"
  PROVE  SInv'
  <1>1. Observed /\ ShareInv => EarlyInv'
    BY DEF ShareInv, EarlyInv
  <1>. QED
    BY <1>1, OtherShares

LEMMA RefreshShares ==
  ASSUME IInv, SInv, IInv', NEW f \in Refreshable, Refresh(f)
  PROVE  SInv'
  <1>1. micro = <<>> /\ UNCHANGED <<bootVars, runVars, routeVars, on, refs>>
    BY DEF Refresh, Editable, Idle
  <1>2. CASE f \in Debounced
    <2>1. timers' = timers \cup {f} /\ UNCHANGED <<chain, micro, status>>
      BY <1>2 DEF Refresh
    <2>2. UNCHANGED <<main, tear, on, refs>> /\ (Observed' => Observed) /\ timers' \subseteq Debounced
      BY <1>1, <1>2, <2>1 DEF Observed, bootVars, runVars, SInv
    <2>. QED BY <2>1, <2>2, StillShares
  <1>3. CASE f \notin Debounced
    <2>1. timers' = timers /\ Sync({f}, want, micro)
      BY <1>3 DEF Refresh
    <2>. QED BY <1>1, <2>1, OneSyncShares DEF SInv
  <1>. QED BY <1>2, <1>3

LEMMA DebounceShares ==
  ASSUME IInv, SInv, IInv', NEW f \in Debounced, Debounce(f)
  PROVE  SInv'
  <1>1. /\ micro = <<>> /\ timers' = timers \ {f} /\ Sync({f}, want, micro)
        /\ UNCHANGED <<bootVars, runVars, routeVars, on, refs>>
    BY DEF Debounce, Idle
  <1>. QED
    BY <1>1, OneSyncShares DEF SInv

\* Before the first page is known nothing is in scope, and nothing is on.
LEMMA StorageReadyShares ==
  ASSUME IInv, SInv, IInv', StorageReady
  PROVE  SInv'
  <1>. DEFINE changed == (want \ want') \cup (want' \ want)
              fs == changed \ Debounced
              steps == Resume("fast", fast) \o Resume("main", main)
  <1>1. /\ micro = <<>> /\ storage = "pending" /\ want' \subseteq Features
        /\ timers' = timers \cup (changed \cap Debounced) /\ Sync(fs, want', steps)
        /\ fast' = (IF fast = "storage" THEN "beginRoute" ELSE fast)
        /\ main' = (IF main = "storage" THEN "detectPage" ELSE main)
        /\ UNCHANGED <<watching, tear, gen, flags, on, refs>>
    BY DEF StorageReady, Idle, runVars, routeVars
  <1>2. /\ fast \in {"storage", "failed"} /\ main \in {"body", "storage", "failed"} /\ gen = 0
    BY <1>1 DEF IInv, BootInv, GenInv
  <1>3. PICK q : q = steps
    OBVIOUS
  <1>4. /\ q \in Seq(Jobs) /\ \A w : w \notin {"fast", "main"} => ~Has(q, w)
    BY <1>3, ResumeJobs
  <1>5. \A i \in DOMAIN q : q[i].hops = 8
    <2>1. CASE fast = "storage" /\ main = "storage"
      BY <1>3, <2>1 DEF Resume, Job
    <2>2. CASE fast = "storage" /\ main # "storage"
      BY <1>3, <2>2 DEF Resume, Job
    <2>3. CASE fast # "storage" /\ main = "storage"
      BY <1>3, <2>3 DEF Resume, Job
    <2>4. CASE fast # "storage" /\ main # "storage"
      BY <1>3, <2>4 DEF Resume
    <2>. QED BY <2>1, <2>2, <2>3, <2>4
  <1>6. fs \in SUBSET Features /\ Sync(fs, want', q) /\ timers' \subseteq Debounced
    BY <1>1, <1>3 DEF IInv, TypeOK, FeatureType, SInv
  <1>. HIDE DEF steps, fs
  <1>7. Observed' => Observed
    BY <1>1 DEF Observed
  <1>8. \A f \in Features : ~Has(q, f)
    BY <1>4, LifecycleAssumption
  <1>9. EarlyInv'
    <2>1. PICK asked : Syncs(asked, fs, want') /\ Request(asked, q)
      BY <1>6, SyncAsks
    <2>2. DOMAIN asked \subseteq Features
      BY <1>6, <2>1 DEF Syncs
    <2>3. \A i \in DOMAIN micro' :
           \/ i \in DOMAIN q /\ micro'[i] = q[i]
           \/ micro'[i].do = "begin" /\ micro'[i].hops = 1
      BY <1>4, <2>1, <2>2, RequestNew
    <2>4. ASSUME NEW i \in DOMAIN micro', micro'[i].who \in Shared PROVE Cost(micro'[i]) = 4
      <3>1. ~(i \in DOMAIN q /\ micro'[i] = q[i])
        BY <1>8, <2>4, SharedFacts DEF Has
      <3>2. micro'[i].do = "begin" /\ micro'[i].hops = 1
        BY <2>3, <3>1
      <3>. QED BY <3>2 DEF Cost
    <2>5. ASSUME NEW j \in DOMAIN micro', micro'[j].who = "main" PROVE micro'[j].hops = 8
      <3>1. micro'[j].do = "step"
        BY <2>5 DEF IInv, JobInv, Shape
      <3>. QED BY <1>5, <2>3, <3>1
    <2>6. main' # "load"
      BY <1>1, <1>2
    <2>7. Early(micro')
      BY <2>4, <2>5 DEF Early
    <2>. QED BY <2>6, <2>7 DEF EarlyInv
  <1>10. ASSUME tear = "none", Observed, NEW f \in fs \cap Shared, f \notin want', f \notin on
         PROVE  f \notin Scope
    BY <1>2, <1>10 DEF IInv, FlagsInv, Scope
  <1>. QED
    BY <1>1, <1>4, <1>6, <1>7, <1>8, <1>9, <1>10, SyncShares

\* A route change: who is to be disabled has its effects on the page.
LEMMA ReconcileShares ==
  ASSUME IInv, SInv, IInv', NEW page, NEW route \in 0 .. gen', Reconcile(page, route, <<>>),
         \A f \in Features : chain[f] = <<>>, main' \notin MainSteps,
         UNCHANGED <<on, refs, status, timers, tear>>, Observed' => Observed
  PROVE  SInv'
  <1>1. PICK q : q = <<>>
    OBVIOUS
  <1>2. Reconcile(page, route, q)
    BY <1>1
  <1>3. PICK asked : Reconciles(asked, page, route) /\ Request(asked, q)
    BY <1>2, ReconcileAsks DEF IInv, TypeOK, FeatureType
  <1>4. ASSUME NEW f \in DOMAIN asked
        PROVE  /\ asked[f] \in Seq(Requested') /\ asked[f] # <<>> /\ Len(asked[f]) = 1
               /\ asked[f][1].action = IF f \in want \cap InScope[page] THEN "enable" ELSE "disable"
    <2>. DEFINE t == Wanted(f, page, route)
    <2>1. t \in Requested' /\ t.action = IF f \in want \cap InScope[page] THEN "enable" ELSE "disable"
      BY DEF Wanted, Transition, Requested
    <2>2. asked[f] = <<t>>
      BY <1>3 DEF Reconciles
    <2>. HIDE DEF t
    <2>. QED BY <2>1, <2>2
  <1>5. chain \in [Features -> Seq(Requested')]
    <2>1. chain \in [Features -> Seq(Requested)]
      BY DEF IInv, TypeOK, TaskType
    <2>2. \A R : <<>> \in Seq(R)
      OBVIOUS
    <2>3. \A f \in Features : chain[f] \in Seq(Requested')
      BY <2>2
    <2>. QED BY <2>1, <2>3
  <1>6. DOMAIN asked \subseteq Features
    BY <1>3 DEF Reconciles
  <1>7. Requests(asked, q)
    <2>1. q \in Seq(Jobs) /\ \A f \in Features : \A d : Doing(q, f, d) => Doing(micro, f, d)
      BY <1>1 DEF Doing
    <2>2. timers' \subseteq Debounced
      BY DEF SInv
    <2>. QED BY <1>3, <1>4, <1>6, <2>1, <2>2 DEF Requests
  <1>8. ASSUME Observed
        PROVE  Safe(asked)
    <2>. SUFFICES ASSUME NEW f \in Shared \cap DOMAIN asked, asked[f][1].action = "disable"
                  PROVE  f \in on
      BY DEF Safe
    <2>1. f \in Features /\ f \notin want \cap InScope[page]
      BY <1>4, <1>6
    <2>2. status[f] \in {"running", "failing"}
      BY <1>3, <2>1 DEF Reconciles, IInv, TypeOK, FeatureType
    <2>3. FollowInv(f) /\ chain[f] = <<>>
      BY <1>8, <2>1 DEF IInv
    <2>. QED BY <2>1, <2>2, <2>3 DEF FollowInv, SInv, FailInv
  <1>9. EarlyInv'
    BY EarlyElse
  <1>. QED
    BY <1>4, <1>5, <1>7, <1>8, <1>9, SharedFacts, RequestShares

LEMMA NotifyShares ==
  ASSUME IInv, SInv, IInv', Notify
  PROVE  SInv'
  <1>1. /\ micro # <<>> /\ Head(micro).do = "notify"
        /\ IF Current(notice)
           THEN Reconcile(loc, notice, Tail(micro))
           ELSE micro' = Tail(micro) /\ UNCHANGED chain
        /\ UNCHANGED <<fast, main, watching, tear, gen, timers, status, on, refs>>
    BY DEF Notify, Next1, bootVars, runVars, routeVars, featureVars
  <1>2. micro = <<RouteJob>>
    <2>1. Head(micro) = micro[1] /\ micro[1] \in Jobs /\ Shape(micro[1]) /\ Has(micro, micro[1].who)
      BY <1>1, HeadJob DEF IInv
    <2>2. micro[1].who \in Features \cup {"fast", "main", "route"}
      BY <2>1 DEF Jobs
    <2>3. micro[1].who = "route"
      BY <1>1, <2>1, <2>2 DEF Shape
    <2>. QED BY <2>1, <2>3 DEF IInv, JobInv
  <1>3. (\A f \in Features : chain[f] = <<>>) /\ notice = gen /\ ~cut /\ main \notin MainSteps
    BY <1>2, AtNotice
  <1>4. notice \in 0 .. gen' /\ Reconcile(loc, notice, <<>>)
    <2>1. Tail(micro) = <<>>
      BY <1>2
    <2>2. Current(notice)
      BY <1>3 DEF Current
    <2>3. notice \in 0 .. gen'
      BY <1>1, <1>3, LifecycleAssumption DEF IInv, TypeOK, RouteType
    <2>. QED BY <1>1, <2>1, <2>2, <2>3
  <1>5. Observed' => Observed
    BY <1>1 DEF Observed
  <1>. QED
    BY <1>1, <1>3, <1>4, <1>5, ReconcileShares

LEMMA ShowShares ==
  ASSUME IInv, SInv, IInv', Show
  PROVE  SInv'
  <1>1. /\ frozen /\ UNCHANGED <<fast, main, watching, tear, timers, status, on, refs>>
    BY DEF Show, bootVars, featureVars
  <1>2. micro = <<>>
    BY <1>1 DEF IInv, LeaveInv
  <1>3. (\A f \in Features : chain[f] = <<>>) /\ main \notin MainSteps
    BY <1>2, AtRest
  <1>4. Observed' => Observed
    BY <1>1 DEF Observed
  <1>5. CASE hooked
    <2>1. gen + 1 \in 0 .. gen' /\ Reconcile(loc, gen + 1, <<>>)
      BY <1>2, <1>5, LifecycleAssumption DEF Show, BeginRoute, IInv, TypeOK, RouteType
    <2>2. PICK route \in 0 .. gen' : Reconcile(loc, route, <<>>)
      BY <2>1
    <2>. QED BY <1>1, <1>3, <1>4, <2>2, ReconcileShares
  <1>6. CASE ~hooked
    <2>1. UNCHANGED <<chain, micro>>
      BY <1>6 DEF Show
    <2>2. timers' \subseteq Debounced
      BY <1>1 DEF SInv
    <2>. QED BY <1>1, <1>4, <2>1, <2>2, StillShares
  <1>. QED BY <1>5, <1>6

\* The loader's next features: it asks for none to be disabled.
LEMMA LoadShares ==
  ASSUME IInv, SInv, IInv', NEW left, NEW route \in 0 .. gen, NEW q \in Seq(Jobs),
         LoadChunk(left, route, q), UNCHANGED <<on, refs, timers, tear, gen>>, Observed' => Observed,
         main' \notin MainSteps,
         \A f \in Features : \A d : Doing(q, f, d) => Doing(micro, f, d),
         ShareInv => \A f \in Shared : chain[f] = <<>>
  PROVE  SInv'
  <1>1. EarlyInv'
    BY EarlyElse
  <1>2. timers' \subseteq Debounced
    BY DEF SInv
  <1>3. CASE Aborted(route)
    <2>1. micro' = q /\ UNCHANGED <<chain, status>>
      BY <1>3 DEF LoadChunk
    <2>. QED BY <1>1, <1>2, <2>1, OtherShares
  <1>4. CASE ~Aborted(route)
    <2>1. PICK k \in 1 .. Len(left) :
            /\ status' = status
            /\ \E asked : Loads(asked, left, route, k) /\ Request(asked, q)
      BY <1>4, LoadAsks
    <2>2. PICK asked : Loads(asked, left, route, k) /\ Request(asked, q)
      BY <2>1
    <2>3. DOMAIN asked \subseteq Features
      BY <2>2 DEF Loads, IInv, TypeOK, FeatureType
    <2>4. ASSUME NEW f \in DOMAIN asked
          PROVE  /\ asked[f] \in Seq(Requested') /\ asked[f] # <<>> /\ Len(asked[f]) = 1
                 /\ asked[f][1].action = "enable"
      <3>. DEFINE t == Transition("enable", route)
      <3>1. t \in Requested' /\ t.action = "enable"
        BY DEF Transition, Requested
      <3>2. asked[f] = <<t>>
        BY <2>2 DEF Loads
      <3>. HIDE DEF t
      <3>. QED BY <3>1, <3>2
    <2>5. Safe(asked)
      BY <2>4 DEF Safe
    <2>6. chain \in [Features -> Seq(Requested')]
      BY DEF IInv, TypeOK, TaskType, Requested
    <2>7. Requests(asked, q)
      BY <1>2, <2>1, <2>2, <2>3, <2>4 DEF Requests
    <2>. QED
      BY <1>1, <2>4, <2>5, <2>6, <2>7, RequestShares
  <1>. QED BY <1>3, <1>4

LEMMA StepLoadShares ==
  ASSUME IInv, SInv, IInv', StepLoad
  PROVE  SInv'
  <1>1. /\ micro # <<>> /\ main = "load" /\ main' = "loading" /\ LoadChunk(Order, gen, Tail(micro))
        /\ UNCHANGED <<fast, watching, tear, gen, timers, on, refs>>
    BY DEF StepLoad, Next1, runVars, routeVars
  <1>2. micro \in Seq(Jobs) /\ Distinct(micro) /\ Tail(micro) \in Seq(Jobs) /\ gen \in 0 .. gen
    BY <1>1, LifecycleAssumption DEF IInv, TypeOK, TaskType, JobInv, RouteType
  <1>3. \A f \in Features : \A d : Doing(Tail(micro), f, d) => Doing(micro, f, d)
    BY <1>1, <1>2, DropDoing
  <1>4. ShareInv => \A f \in Shared : chain[f] = <<>>
    BY <1>1 DEF ShareInv, EarlyInv
  <1>5. (Observed' => Observed) /\ main' \notin MainSteps
    BY <1>1 DEF Observed, MainSteps
  <1>. QED
    BY <1>1, <1>2, <1>3, <1>4, <1>5, LoadShares

LEMMA FrameShares ==
  ASSUME IInv, SInv, IInv', Frame
  PROVE  SInv'
  <1>1. /\ micro = <<>> /\ LoadChunk(loader.left, loader.route, micro)
        /\ UNCHANGED <<fast, main, watching, tear, gen, timers, on, refs>>
    BY DEF Frame, Idle, bootVars, runVars, routeVars
  <1>2. (\A f \in Features : chain[f] = <<>>) /\ main \notin MainSteps
    BY <1>1, AtRest
  <1>3. micro \in Seq(Jobs) /\ loader.route \in 0 .. gen
    BY DEF IInv, TypeOK, TaskType
  <1>4. Observed' => Observed
    BY <1>1 DEF Observed
  <1>. QED
    BY <1>1, <1>2, <1>3, <1>4, SharedFacts, LoadShares

-----------------------------
(* The other steps.                                                         *)

LEMMA LeaveShares ==
  ASSUME IInv, SInv, Leave
  PROVE  SInv'
  <1>1. /\ micro = <<>> /\ tear' = "features"
        /\ Request([f \in Features |-> <<Transition("disable", 0)>>], micro)
        /\ UNCHANGED <<fast, watching, gen, timers, status, on, refs>>
    BY DEF Leave, Idle, bootVars, featureVars
  <1>. DEFINE t == Transition("disable", 0)
              asked == [f \in Features |-> <<t>>]
  <1>2. t \in Requested'
    BY <1>1, LifecycleAssumption DEF Transition, Requested, IInv, TypeOK, RouteType
  <1>3. Request(asked, micro)
    BY <1>1
  <1>. HIDE DEF t
  <1>4. DOMAIN asked = Features /\ \A f \in Features : asked[f] \in Seq(Requested') /\ asked[f] # <<>>
    BY <1>2
  <1>. HIDE DEF asked
  <1>5. chain \in [Features -> Seq(Requested')] /\ micro \in Seq(Jobs)
    BY <1>1 DEF IInv, TypeOK, TaskType, Requested
  <1>6. Requests(asked, micro)
    <2>1. timers' \subseteq Debounced /\ (Observed' => Observed)
      BY <1>1 DEF SInv, Observed
    <2>. QED BY <1>1, <1>3, <1>4, <1>5, <2>1 DEF Requests
  <1>. QED
    BY <1>1, <1>5, <1>6, RequestShares

LEMMA StopShares ==
  ASSUME SInv, Stop
  PROVE  SInv'
  <1>1. timers' = {} /\ tear' = "done" /\ UNCHANGED <<chain, micro, status, on>>
    BY DEF Stop
  <1>2. FailInv'
    BY <1>1, FailStays DEF SInv, Doing
  <1>. QED
    BY <1>1, <1>2 DEF SInv

LEMMA MoveShares ==
  ASSUME IInv, SInv, IInv', NEW page \in Pages, Move(page)
  PROVE  SInv'
  <1>1. /\ micro = <<>> \/ micro = <<RouteJob>>
        /\ micro' = micro \/ (notice = 0 /\ micro' = micro \o <<RouteJob>>) \/ micro' = micro \o <<>>
        /\ UNCHANGED <<fast, main, watching, tear, timers, chain, status, on, refs>>
    BY DEF Move, Idle, bootVars, runVars, featureVars
  <1>2. main' \notin MainSteps
    BY <1>1, AtRest, AtNotice
  <1>3. micro' = micro \/ micro' = <<RouteJob>>
    <2>1. CASE micro = <<>>
      BY <1>1, <2>1
    <2>2. CASE micro = <<RouteJob>>
      <3>1. notice # 0
        BY <2>2, AtNotice
      <3>2. micro \o <<>> = micro
        BY <2>2
      <3>. QED BY <1>1, <3>1, <3>2
    <2>. QED BY <1>1, <2>1, <2>2
  <1>4. \A f \in Features : \A d : Doing(<<RouteJob>>, f, d) => Doing(micro, f, d)
    BY LifecycleAssumption DEF Doing, RouteJob, Job
  <1>5. (Observed' => Observed) /\ timers' \subseteq Debounced
    BY <1>1 DEF Observed, SInv
  <1>. QED
    BY <1>1, <1>2, <1>3, <1>4, <1>5, EarlyElse, OtherShares

LEMMA BodyReadyShares ==
  ASSUME IInv, SInv, BodyReady
  PROVE  SInv'
  <1>. DEFINE x == Job("step", "main", 3)
  <1>1. /\ micro = <<>> /\ main' # "load" /\ (micro' = micro \/ micro' = Append(micro, x))
        /\ UNCHANGED <<fast, watching, tear, timers, chain, status, on, refs>>
    BY DEF BodyReady, Idle, runVars, featureVars
  <1>2. DOMAIN micro' \subseteq {1} /\ \A i \in DOMAIN micro' : micro'[i].who = "main"
    <2>1. x.who = "main"
      BY DEF Job
    <2>. HIDE DEF x
    <2>. QED BY <1>1, <2>1
  <1>3. \A f \in Features : \A d : ~Doing(micro', f, d)
    BY <1>2, LifecycleAssumption DEF Doing
  <1>4. EarlyInv'
    BY <1>1, <1>2, SharedFacts DEF EarlyInv, Early
  <1>5. (Observed' => Observed) /\ timers' \subseteq Debounced
    BY <1>1 DEF Observed, SInv
  <1>. QED
    BY <1>1, <1>3, <1>4, <1>5, OtherShares

LEMMA RestShares ==
  ASSUME IInv, SInv, StorageUnavailable \/ StorageLate \/ Loaded \/ Hide \/ UNCHANGED vars
  PROVE  SInv'
  <1>1. /\ UNCHANGED <<chain, micro, status, on, refs, timers, tear, watching>>
        /\ fast' = fast \/ (fast = "storage" /\ fast' = "failed")
        /\ main' = "load" => main = "load"
    <2>1. CASE StorageUnavailable
      BY <2>1 DEF StorageUnavailable, runVars, featureVars
    <2>2. CASE StorageLate
      BY <2>2 DEF StorageLate, runVars, featureVars
    <2>3. CASE Loaded
      BY <2>3 DEF Loaded, featureVars
    <2>4. CASE Hide
      BY <2>4 DEF Hide, bootVars, featureVars
    <2>5. CASE UNCHANGED vars
      BY <2>5 DEF vars, bootVars, runVars, featureVars
    <2>. QED BY <2>1, <2>2, <2>3, <2>4, <2>5
  <1>2. (Observed' => Observed) /\ timers' \subseteq Debounced
    BY <1>1 DEF Observed, SInv
  <1>. QED
    BY <1>1, <1>2, StillShares

LEMMA InitShares ==
  Init => SInv
  <1>. SUFFICES ASSUME Init PROVE SInv
    OBVIOUS
  <1>1. /\ main = "body" /\ micro = <<>> /\ timers = {} /\ on = {} /\ refs = [s \in Styles |-> 0]
        /\ \A f \in Features : chain[f] = <<>> /\ status[f] = "disabled"
    BY DEF Init
  <1>2. \A w, d : ~Doing(micro, w, d)
    BY <1>1 DEF Doing
  <1>3. FailInv
    BY <1>1, <1>2 DEF FailInv
  <1>4. EarlyInv
    BY <1>1 DEF EarlyInv, Early
  <1>5. CountInv
    <2>. SUFFICES ASSUME NEW s \in Styles PROVE Cardinality(on \cap Users(s)) <= refs[s]
      BY DEF CountInv
    <2>1. on \cap Users(s) = {}
      BY <1>1
    <2>. QED BY <1>1, <2>1, FS_EmptySet
  <1>6. OweInv
    BY <1>2 DEF OweInv, Unhandled
  <1>7. \A f \in Shared : Len(chain[f]) <= 1
    <2>1. Len(<<>>) <= 1
      OBVIOUS
    <2>. QED BY <1>1, <2>1, SharedFacts
  <1>. QED
    BY <1>1, <1>3, <1>4, <1>5, <1>6, <1>7 DEF SInv, ShareInv

LEMMA StepShares ==
  SInv /\ IInv /\ IInv' /\ [Next]_vars => SInv'
  <1>. SUFFICES ASSUME SInv, IInv, IInv', [Next]_vars PROVE SInv'
    OBVIOUS
  <1>1. CASE Transitions
    <2>1. CASE Hop
      BY <2>1, HopShares
    <2>2. CASE \E f \in Features :
                 Superseded(f) \/ Begin(f) \/ Handle(f) \/ HandlerThrows(f) \/ Finish(f)
      BY <2>2, SupersededShares, BeginShares, HandleShares, FinishShares
    <2>. QED BY <1>1, <2>1, <2>2 DEF Transitions
  <1>2. CASE Notify \/ StepBeginRoute \/ StepHooks \/ StepObserver \/ StepLoad
             \/ StepDetectPage("fast") \/ StepDetectPage("main")
    BY <1>2, NotifyShares, StepsShare, StepLoadShares
  <1>3. CASE Boot
    BY <1>3, StorageReadyShares, RestShares, BodyReadyShares, FrameShares, StopShares DEF Boot
  <1>4. CASE Events
    <2>1. CASE StorageLate \/ Hide \/ Show \/ Leave
      BY <2>1, RestShares, ShowShares, LeaveShares
    <2>2. CASE \E page \in Pages : Move(page)
      BY <2>2, MoveShares
    <2>3. CASE \E fs \in SUBSET Features \ {{}} : Toggle(fs)
      <3>1. PICK fs \in SUBSET Features : Toggle(fs)
        BY <2>3
      <3>. QED BY <3>1, ToggleShares
    <2>4. CASE \E f \in Refreshable : Refresh(f)
      BY <2>4, RefreshShares
    <2>5. CASE \E f \in Debounced : Debounce(f)
      BY <2>5, DebounceShares
    <2>. QED BY <1>4, <2>1, <2>2, <2>3, <2>4, <2>5 DEF Events
  <1>5. CASE UNCHANGED vars
    BY <1>5, RestShares
  <1>. QED
    BY <1>1, <1>2, <1>3, <1>4, <1>5 DEF Next, Microtask

LEMMA InvStyles ==
  IInv /\ SInv => StylesFollow
  <1>. SUFFICES ASSUME IInv, SInv, micro = <<>>, tear = "none", watching,
                       NEW f \in DOMAIN StyleOf, status[f] = "running"
                PROVE  refs[StyleOf[f]] > 0
    BY DEF StylesFollow
  <1>1. f \in Features /\ chain[f] = <<>> /\ FollowInv(f)
    BY AtRest, SharedFacts DEF IInv, Observed
  <1>. DEFINE s == StyleOf[f]
              A == on \cap Users(s)
  <1>2. f \in A /\ A \subseteq Features /\ s \in Styles
    BY <1>1, LifecycleAssumption DEF FollowInv, Users, IInv, TypeOK, FeatureType
  <1>3. Cardinality(A) <= refs[s] /\ refs[s] \in Nat
    BY <1>2 DEF SInv, ShareInv, CountInv, Observed, IInv, TypeOK, FeatureType
  <1>. HIDE DEF A
  <1>4. IsFiniteSet(A)
    BY <1>2, UsersFinite
  <1>5. Cardinality(A) \in Nat /\ Cardinality(A) # 0
    BY <1>2, <1>4, FS_CardinalityType, FS_EmptySet
  <1>. QED
    BY <1>3, <1>5

\* While routes are observed, a running feature's style is on the page: however
\* the features that share one start and stop, none gives back the reference of
\* another.
THEOREM StylesHeld ==
  Spec => []StylesFollow
  <1>1. Spec => []SInv
    BY Invariance, InitShares, StepShares, PTL DEF Spec
  <1>. QED
    BY <1>1, Invariance, InvStyles, PTL
=============================================================================
