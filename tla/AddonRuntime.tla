---------------------------- MODULE AddonRuntime ----------------------------
(* The lifecycle every core-connected add-on runs in its own userscript:     *)
(* enable, disable, refresh and teardown commands wait in one queue and are  *)
(* carried out one after the other; a newer command makes the older ones     *)
(* stale and aborts the running one; teardown is terminal and happens once.  *)
(*                                                                           *)
(* A runtime is a record and a command a function on it, because a command   *)
(* arrives inside the core's own step: dispatchEvent() calls the add-on's    *)
(* listener before it returns.  Generations are compared with the newest one *)
(* only, so a queue entry, the running operation and a mount that is under   *)
(* way carry the flag "fresh" instead of a number.                           *)
EXTENDS Naturals, Sequences

Kinds == {"enable", "disable", "refresh", "teardown"}
States == {"new", "starting", "enabled", "disabling", "disabled",
           "refreshing", "tearing-down", "terminated", "failed"}

(* part is the awaited part of the operation that is under way.              *)
Idle == [kind |-> "none", fresh |-> FALSE, aborted |-> FALSE, prev |-> "new",
         part |-> 0]

(* booted: the add-on's own start has run.  bound: it listens for commands.  *)
(* on: the add-on's own state.enabled.  mount is the interface it may put    *)
(* up: none, wanted, requested, or put up; mountFresh says whether the       *)
(* command it belongs to is still the newest.                                *)
NewRuntime ==
  [booted |-> FALSE, state |-> "new", terminal |-> FALSE, queue |-> <<>>,
   active |-> Idle, bound |-> FALSE, on |-> TRUE,
   mount |-> "none", mountFresh |-> FALSE]

Entries == [kind : Kinds, fresh : BOOLEAN]
Operations == [kind : Kinds \union {"none"}, fresh : BOOLEAN, aborted : BOOLEAN,
               prev : States, part : 0..2]
Runtimes ==
  [booted : BOOLEAN, state : States, terminal : BOOLEAN, queue : Seq(Entries),
   active : Operations, bound : BOOLEAN, on : BOOLEAN,
   mount : {"none", "wanted", "requested", "up"}, mountFresh : BOOLEAN]

RuntimeOK(r, backlog) == r \in Runtimes /\ Len(r.queue) <= backlog

Busy(r) == r.active.kind # "none"

OperationState(kind) ==
  CASE kind = "enable" -> "starting"
    [] kind = "disable" -> "disabling"
    [] kind = "refresh" -> "refreshing"
    [] OTHER -> "tearing-down"

(* A new generation: whatever was issued before is no longer current.        *)
Outdate(r) ==
  [r EXCEPT !.queue = [i \in DOMAIN @ |-> [@[i] EXCEPT !.fresh = FALSE]],
            !.active.fresh = FALSE,
            !.mountFresh = FALSE]

ShouldAbortActive(r, kind) ==
  /\ Busy(r)
  /\ ~(kind = "refresh" /\ r.state \in {"disabling", "tearing-down"})
  /\ kind \in {"disable", "refresh", "teardown"}

AbortActive(r) == IF Busy(r) THEN [r EXCEPT !.active.aborted = TRUE] ELSE r

AlreadyThere(r, kind) ==
  /\ ~Busy(r)
  /\ \/ kind = "enable" /\ r.state = "enabled"
     \/ kind = "disable" /\ r.state = "disabled"

Issue(r, kind) ==
  LET s == Outdate(IF ShouldAbortActive(r, kind) THEN AbortActive(r) ELSE r)
  IN  [s EXCEPT !.queue = Append(@, [kind |-> kind, fresh |-> TRUE])]

Teardown(r) ==
  IF r.terminal THEN r
  ELSE Issue([AbortActive(Outdate(r)) EXCEPT !.terminal = TRUE], "teardown")

(* enqueue() of the shared lifecycle and teardown() in front of it.          *)
Command(r, kind) ==
  IF kind = "teardown" THEN Teardown(r)
  ELSE IF r.terminal \/ AlreadyThere(r, kind) THEN r
  ELSE Issue(r, kind)

(* The add-on's listener: commands for a runtime that is not injected yet or *)
(* has unbound its listener are lost.                                        *)
Receive(r, kind) == IF r.bound THEN Command(r, kind) ELSE r

Startable(r) == ~Busy(r) /\ r.queue # <<>>

(* run(): an entry the terminal flag or a disabled state refuses is dropped. *)
Begin(r) ==
  LET e == Head(r.queue)
      rest == [r EXCEPT !.queue = Tail(@)]
  IN  IF \/ r.terminal /\ e.kind # "teardown"
         \/ e.kind = "refresh" /\ r.state # "enabled"
      THEN rest
      ELSE [rest EXCEPT !.active = [kind |-> e.kind, fresh |-> e.fresh,
                                    aborted |-> FALSE, prev |-> r.state,
                                    part |-> 1],
                        !.state = OperationState(e.kind)]

Resting(r) == ~Busy(r) /\ r.queue = <<>>

IsCurrent(r) == r.active.fresh /\ ~r.active.aborted /\ ~r.terminal

StateAfter(r) ==
  LET kind == r.active.kind
  IN  CASE kind \in {"enable", "refresh"} /\ IsCurrent(r) -> "enabled"
        [] kind = "disable" /\ ~r.terminal -> "disabled"
        [] kind = "teardown" -> "terminated"
        [] OTHER -> IF ~r.terminal /\ r.state = OperationState(kind)
                    THEN r.active.prev ELSE r.state

Succeed(r) == [r EXCEPT !.state = StateAfter(r), !.active = Idle]

(* An operation that throws: quietly when it was aborted, else a failure.    *)
Throw(r) ==
  [r EXCEPT !.state = IF r.active.aborted THEN @ ELSE "failed",
            !.active = Idle]
=============================================================================
