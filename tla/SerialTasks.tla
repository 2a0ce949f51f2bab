----------------------------- MODULE SerialTasks -----------------------------
(* What a queue of core/taskQueue.js promises those who call add(): a task is *)
(* accepted or refused, the accepted ones run one at a time in the order in   *)
(* which they were added, an accepted task settles once, and only the one in  *)
(* flight can complete or fail; those that wait can only be cancelled.        *)
EXTENDS Naturals

CONSTANT TaskCount

VARIABLES
  outcome, \* what the promise of each task settled to
  current  \* the task in flight, or 0

vars == <<outcome, current>>

Tasks == 1 .. TaskCount
Queued == {t \in Tasks : outcome[t] = "accepted" /\ t # current}

Init ==
  /\ outcome = [t \in Tasks |-> "new"]
  /\ current = 0

\* The outcome of some tasks becomes a given one.
Become(ts, result) == [t \in Tasks |-> IF t \in ts THEN result ELSE outcome[t]]

\* A task that is refused changes nothing else; one that is accepted may cost
\* others their place.
Add(t) ==
  /\ outcome[t] = "new" /\ \A s \in 1 .. t - 1 : outcome[s] # "new"
  /\ \/ outcome' = [outcome EXCEPT ![t] = "refused"]
     \/ \E dropped \in SUBSET Queued :
          outcome' = [Become(dropped, "cancelled") EXCEPT ![t] = "accepted"]
  /\ UNCHANGED current

Cancel ==
  /\ \E dropped \in SUBSET Queued : outcome' = Become(dropped, "cancelled")
  /\ UNCHANGED current

Start(t) ==
  /\ current = 0 /\ t \in Queued
  /\ \A s \in Queued : t <= s
  /\ current' = t
  /\ UNCHANGED outcome

End ==
  /\ current # 0
  /\ \E result \in {"completed", "failed", "cancelled"} : outcome' = Become({current}, result)
  /\ current' = 0

Next ==
  \/ \E t \in Tasks : Add(t) \/ Start(t)
  \/ Cancel
  \/ End

Spec == Init /\ [][Next]_vars
=============================================================================
