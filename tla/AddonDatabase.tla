---------------------------- MODULE AddonDatabase ----------------------------
(* The IndexedDB connections the core keeps for an add-on (idbStore.js): one  *)
(* database, one cache of connections in each tab, and the operations that    *)
(* wait for a connection and run in a transaction of it.                      *)
(*                                                                            *)
(* What IndexedDB itself does is external and modelled as its specification   *)
(* describes: requests to open are served in order; one that raises the       *)
(* version tells the open connections, waits until they are gone and reports  *)
(* that it is blocked as long as they are not; a closed connection lets its   *)
(* transactions end.  A browser that closes a connection on its own is left   *)
(* out.  What is stored is abstracted to whether an operation took effect.    *)
EXTENDS Naturals, Sequences

CONSTANTS
  Tabs,
  MaxVersion,  \* an add-on that is updated asks for a higher one
  MaxConns,    \* bound: connections asked for
  MaxOps,      \* bound: operations asked for
  MaxFaults,   \* bound: transactions and upgrades that fail
  MaxClosings  \* bound: tabs closed

VARIABLES
  version,   \* of the database on disk
  conns,     \* sequence of the connections asked for
  queue,     \* those that are not served yet; they are numbered in their order
  cache,     \* DB_CACHE of each tab: the connection per version, or 0
  ops,       \* sequence of the operations
  stored,    \* the operations whose transaction was committed
  faults, closings

vars == <<version, conns, queue, cache, ops, stored, faults, closings>>

Versions == 1 .. MaxVersion
Conns == DOMAIN conns
Ops == DOMAIN ops

Init ==
  /\ version = 0
  /\ conns = <<>> /\ queue = {} /\ ops = <<>>
  /\ cache = [t \in Tabs |-> [v \in Versions |-> 0]]
  /\ stored = {}
  /\ faults = 0 /\ closings = 0

\* A connection somebody holds: it may stand in the way of an upgrade.
Holding(c) == conns[c].state \in {"open", "closing"}

InTransaction(o) == ops[o].step \in {"inside", "done"}

\* db.close(): a connection that is not open yet is closed when it is.
CloseConn(c) ==
  IF c.state = "open" THEN [c EXCEPT !.state = "closing"] ELSE [c EXCEPT !.evicted = TRUE]

\* evictDatabase(): the other versions this tab has in its cache.
Evicted(t, v) == {cache[t][u] : u \in Versions \ {v}} \ {0}

\* openAddonDatabase(): the cached connection, or a new one.
Ask(t, v) ==
  /\ Len(ops) < MaxOps
  /\ IF cache[t][v] # 0
     THEN /\ ops' = Append(ops, [tab |-> t, conn |-> cache[t][v], step |-> "waiting"])
          /\ UNCHANGED <<conns, queue, cache>>
     ELSE LET c == Len(conns) + 1
              old == Evicted(t, v)
              new == [tab |-> t, version |-> v, state |-> "asked", promise |-> "pending",
                      evicted |-> FALSE, told |-> {}]
          IN  /\ Len(conns) < MaxConns
              /\ conns' = Append([d \in Conns |-> IF d \in old THEN CloseConn(conns[d])
                                                  ELSE conns[d]], new)
              /\ queue' = queue \cup {c}
              /\ cache' = [cache EXCEPT ![t] = [u \in Versions |-> IF u = v THEN c ELSE 0]]
              /\ ops' = Append(ops, [tab |-> t, conn |-> c, step |-> "waiting"])
  /\ UNCHANGED <<version, stored, faults, closings>>

-----------------------------------------------------------------------------
(* The request to open.                                                       *)

\* Operations that wait for a promise that is rejected fail with it.
Failing(c) == [o \in Ops |-> IF ops[o].conn = c /\ ops[o].step = "waiting"
                             THEN [ops[o] EXCEPT !.step = "failed"] ELSE ops[o]]

\* Faulty variant: a connection that could not be opened stays in the cache.
ForgetNothing(c) == cache

\* The rejection removes what the cache has under its key, whoever's it is.
Forget(c) == [cache EXCEPT ![conns[c].tab][conns[c].version] = 0]

Reject(c, state) ==
  /\ conns' = [conns EXCEPT ![c].state = state, ![c].promise = "rejected"]
  /\ cache' = Forget(c)
  /\ ops' = Failing(c)

\* onsuccess: the connection is handed out, and closed at once when the cache
\* gave it up meanwhile; one whose promise was rejected stays open for nobody.
Opened(c) ==
  IF conns[c].promise = "rejected" THEN [conns[c] EXCEPT !.state = "open"]
  ELSE [conns[c] EXCEPT !.state = IF conns[c].evicted THEN "closing" ELSE "open",
                        !.promise = "resolved"]

Served(c) == c \in queue /\ \A d \in queue : c <= d

OpenSame(c) ==
  /\ Served(c) /\ conns[c].state = "asked" /\ conns[c].version = version
  /\ conns' = [conns EXCEPT ![c] = Opened(c)]
  /\ queue' = queue \ {c}
  /\ UNCHANGED <<version, cache, ops, stored, faults, closings>>

\* The database is newer than the code of this tab.
OpenOlder(c) ==
  /\ Served(c) /\ conns[c].state = "asked" /\ conns[c].version < version
  /\ Reject(c, "gone")
  /\ queue' = queue \ {c}
  /\ UNCHANGED <<version, stored, faults, closings>>

\* Faulty variant: a connection that is working is left as it is.
LetGoIfIdle(d) ==
  IF \E o \in Ops : ops[o].conn = d /\ InTransaction(o) THEN conns[d] ELSE CloseConn(conns[d])

\* Faulty variant: the cache keeps what is closed.
UncacheNever(d) == cache

\* onversionchange of a connection: closed, and out of the cache if it is its.
LetGo(d) == CloseConn(conns[d])
Uncache(d) ==
  LET t == conns[d].tab  v == conns[d].version
  IN  IF cache[t][v] = d THEN [cache EXCEPT ![t][v] = 0] ELSE cache

Raising(c) == Served(c) /\ conns[c].version > version

\* The upgrade that waits tells an open connection.
Tell(c, d) ==
  /\ Raising(c) /\ conns[d].state = "open" /\ d \notin conns[c].told
  /\ conns' = [conns EXCEPT ![c].told = @ \cup {d}, ![d] = LetGo(d)]
  /\ cache' = Uncache(d)
  /\ UNCHANGED <<version, queue, ops, stored, faults, closings>>

\* All are told, and some are still there.
Blocked(c) ==
  /\ Raising(c) /\ conns[c].state = "asked"
  /\ \E d \in Conns : Holding(d)
  /\ \A d \in Conns : conns[d].state = "open" => d \in conns[c].told
  /\ Reject(c, "blocked")
  /\ UNCHANGED <<version, queue, stored, faults, closings>>

\* onupgradeneeded and what follows, also after onblocked.
Upgrade(c) ==
  /\ Raising(c) /\ conns[c].state \in {"asked", "blocked"}
  /\ \A d \in Conns : ~Holding(d)
  /\ queue' = queue \ {c}
  /\ \/ /\ version' = conns[c].version
        /\ conns' = [conns EXCEPT ![c] = Opened(c)]
        /\ UNCHANGED <<cache, ops, faults>>
     \/ /\ faults < MaxFaults /\ faults' = faults + 1
        /\ Reject(c, "gone")
        /\ UNCHANGED version
  /\ UNCHANGED <<stored, closings>>

\* A connection that is being closed is gone when its transactions are.
Gone(c) ==
  /\ conns[c].state = "closing"
  /\ \A o \in Ops : ops[o].conn = c => ~InTransaction(o)
  /\ conns' = [conns EXCEPT ![c].state = "gone"]
  /\ UNCHANGED <<version, queue, cache, ops, stored, faults, closings>>

-----------------------------------------------------------------------------
(* withStore(): the transaction of an operation.                              *)

Step(o, step) == ops' = [ops EXCEPT ![o].step = step]

\* The connection may be closed between its promise and the transaction.
Enter(o) ==
  /\ ops[o].step = "waiting" /\ conns[ops[o].conn].promise = "resolved"
  /\ Step(o, IF conns[ops[o].conn].state = "open" THEN "inside" ELSE "failed")
  /\ UNCHANGED <<version, conns, queue, cache, stored, faults, closings>>

\* Faulty variant: the answer does not wait for oncomplete.
RequestsAnswer(o) ==
  /\ ops[o].step = "inside"
  /\ Step(o, "ok")
  /\ stored' \in {stored, stored \cup {o}}
  /\ UNCHANGED <<version, conns, queue, cache, faults, closings>>

\* Every request of the operation has succeeded: hasResult.
RequestsDone(o) ==
  /\ ops[o].step = "inside"
  /\ Step(o, "done")
  /\ UNCHANGED <<version, conns, queue, cache, stored, faults, closings>>

\* oncomplete
Complete(o) ==
  /\ ops[o].step = "done"
  /\ Step(o, "ok")
  /\ stored' = stored \cup {o}
  /\ UNCHANGED <<version, conns, queue, cache, faults, closings>>

\* A request fails, the call itself throws, or the commit is refused: the
\* transaction is aborted and the operation answered with the error.
Abort(o) ==
  /\ InTransaction(o)
  /\ faults < MaxFaults /\ faults' = faults + 1
  /\ Step(o, "failed")
  /\ UNCHANGED <<version, conns, queue, cache, stored, closings>>

\* A tab is closed: its connections and requests go with it, and so does what
\* it waited for.
CloseTab(t) ==
  LET mine == {c \in Conns : conns[c].tab = t}
  IN  /\ closings < MaxClosings /\ closings' = closings + 1
      /\ conns' = [c \in Conns |-> IF c \in mine THEN [conns[c] EXCEPT !.state = "gone"]
                                   ELSE conns[c]]
      /\ queue' = queue \ mine
      /\ cache' = [cache EXCEPT ![t] = [v \in Versions |-> 0]]
      /\ ops' = [o \in Ops |-> IF ops[o].tab = t /\ ops[o].step \notin {"ok", "failed"}
                               THEN [ops[o] EXCEPT !.step = "dropped"] ELSE ops[o]]
      /\ UNCHANGED <<version, stored, faults>>

Next ==
  \/ \E t \in Tabs, v \in Versions : Ask(t, v)
  \/ \E c \in Conns :
       \/ OpenSame(c) \/ OpenOlder(c) \/ Blocked(c) \/ Upgrade(c) \/ Gone(c)
       \/ \E d \in Conns : Tell(c, d)
  \/ \E o \in Ops : Enter(o) \/ RequestsDone(o) \/ Complete(o) \/ Abort(o)
  \/ \E t \in Tabs : CloseTab(t)

Spec == Init /\ [][Next]_vars

-----------------------------------------------------------------------------
(* Properties.                                                                *)

ConnSet == [tab : Tabs, version : Versions,
            state : {"asked", "blocked", "open", "closing", "gone"},
            promise : {"pending", "resolved", "rejected"}, evicted : BOOLEAN,
            told : SUBSET (1 .. MaxConns)]

\* Every variable has its type.
TypeOK ==
  /\ version \in 0 .. MaxVersion
  /\ conns \in Seq(ConnSet) /\ Len(conns) <= MaxConns
  /\ queue \subseteq Conns
  /\ cache \in [Tabs -> [Versions -> 0 .. Len(conns)]]
  /\ \A o \in Ops : ops[o] \in
       [tab : Tabs, conn : Conns,
        step : {"waiting", "inside", "done", "ok", "failed", "dropped"}]
  /\ stored \subseteq Ops

\* An operation is answered with success exactly when its transaction was
\* committed: no request that succeeded in a transaction that did not, and no
\* failure over something that is stored.
AnswerIsTruth ==
  \A o \in Ops : /\ ops[o].step = "ok" => o \in stored
                 /\ ops[o].step = "failed" => o \notin stored

\* What a tab finds in its cache it can use, or will be able to: never a
\* connection that was closed or refused, which every later operation would
\* fail with.
CachedIsUsable ==
  \A t \in Tabs, v \in Versions :
    LET c == cache[t][v]
    IN  c # 0 => conns[c].promise # "rejected" /\ conns[c].state \in {"asked", "open"}

\* An upgrade waits only for connections that still have a transaction to end;
\* one that is idle, or that nobody refers to any more, is told and goes.
UpgradeWaitsForWork ==
  \A c \in Conns :
    conns[c].state = "blocked" =>
      \A d \in Conns : conns[d].state # "open"
=============================================================================
