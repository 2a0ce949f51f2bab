------------------------------ MODULE HealthLog ------------------------------
(* The health log of the core in one page: the status of each feature with    *)
(* its last errors, the errors of the runtime, the events, which are counted  *)
(* by kind and of which the newest kinds are kept, and the diagnostic box in  *)
(* the settings, which is painted again whenever the log or the storage's     *)
(* readiness changes.  A report is a call that returns at once; the box is    *)
(* painted within it.                                                         *)
(*                                                                            *)
(* Times, texts and their redaction are left out, and so are the add-ons in   *)
(* the box: a change of theirs alone paints nothing.                          *)
EXTENDS Naturals, Sequences, SequencesExt, FiniteSetsExt

CONSTANTS
  Features,
  Phases,      \* where something may fail
  LogSize,     \* MAX_HEALTH_EVENTS
  ErrorSize,   \* MAX_PER_FEATURE_ERRORS
  RuntimeSize, \* MAX_RUNTIME_ERRORS
  MaxReports,  \* bound: reports
  MaxBoxes     \* bound: boxes put up and statuses set

VARIABLES
  status,   \* statuses
  errors,   \* errorLogs
  runtime,  \* runtimeErrors
  log,      \* healthEvents: kind and count, the oldest first
  storage,  \* the storage cannot be read or written
  box,      \* the diagnostic box: none, or what it says
  left,     \* boxes that are out of the document and still subscribed
  boxes,
  reports   \* ghost: the kind of every event, in order

vars == <<status, errors, runtime, log, storage, box, left, boxes, reports>>

Runtime == "runtime"
Kinds ==
  {<<"FAILURE", f, p>> : f \in Features, p \in Phases} \cup
  {<<"WARNING", f, p>> : f \in Features, p \in Phases} \cup
  {<<"SELECTOR", f, "miss">> : f \in Features} \cup {<<"RUNTIME", Runtime, p>> : p \in Phases}
Statuses == {"unknown", "running", "disabled", "degraded", "failing"}
NoBox == [there |-> FALSE]

Init ==
  /\ status = [f \in Features |-> "unknown"] /\ errors = [f \in Features |-> <<>>]
  /\ runtime = <<>> /\ log = <<>>
  /\ storage \in BOOLEAN
  /\ box = NoBox /\ left = 0 /\ boxes = 0 /\ reports = <<>>

-----------------------------------------------------------------------------
(* The lists.                                                                *)

\* One more, the oldest makes room.
Pushed(list, x, size) ==
  LET all == Append(list, x) IN IF Len(all) > size THEN Tail(all) ELSE all

\* Faulty variant: an event that is known keeps the place it has.
RecordedInPlace(kind) ==
  IF \E i \in DOMAIN log : log[i].kind = kind
  THEN [i \in DOMAIN log |-> IF log[i].kind = kind THEN [log[i] EXCEPT !.count = @ + 1] ELSE log[i]]
  ELSE Pushed(log, [kind |-> kind, count |-> 1], LogSize)

\* Faulty variant: an event that is known begins to count anew.
RecordedAnew(kind) ==
  Pushed(SelectSeq(log, LAMBDA e : e.kind # kind), [kind |-> kind, count |-> 1], LogSize)

\* recordHealthEvent(): one that is known counts up and becomes the newest.
Recorded(kind) ==
  LET known == SelectSeq(log, LAMBDA e : e.kind = kind)
      count == IF known = <<>> THEN 1 ELSE known[1].count + 1
  IN  Pushed(SelectSeq(log, LAMBDA e : e.kind # kind), [kind |-> kind, count |-> count], LogSize)

-----------------------------------------------------------------------------
(* The box.                                                                  *)

\* formatFeatureHealthReport(), and whether the button for a retry is shown.
Content(s, e, r, unavailable) ==
  [there |-> TRUE, status |-> s, errors |-> e, runtime |-> r, retry |-> unavailable]

\* notifyHealthSubscribers(): the box is painted; those that are out of the
\* document end their subscriptions.
Notified ==
  /\ left' = 0
  /\ box' = IF box.there THEN Content(status', errors', runtime', storage') ELSE box

\* showFeatureHealthBox(): the box that is there, or a new one.
ShowBox ==
  /\ boxes < MaxBoxes /\ boxes' = boxes + 1
  /\ box' = Content(status, errors, runtime, storage)
  /\ UNCHANGED <<status, errors, runtime, log, storage, left, reports>>

\* The settings are taken down, and the box with them; it is not told.
SettingsGo ==
  /\ box.there /\ box' = NoBox /\ left' = left + 1
  /\ UNCHANGED <<status, errors, runtime, log, storage, boxes, reports>>

\* storageReadiness has settled, or a retry has.
StorageSettles ==
  /\ boxes < MaxBoxes /\ boxes' = boxes + 1
  /\ storage' = ~storage
  /\ UNCHANGED <<status, errors, runtime, log, reports>>
  /\ Notified

-----------------------------------------------------------------------------
(* Reports.                                                                  *)

Reported(kind) ==
  /\ Len(reports) < MaxReports /\ reports' = Append(reports, kind)
  /\ log' = Recorded(kind)

\* reportFeatureFailure() and reportFeatureWarning(): the status and the error
\* first, then the event.
Report(code, f, p) ==
  /\ Reported(<<code, f, p>>)
  /\ status' = [status EXCEPT ![f] = IF code = "FAILURE" THEN "failing" ELSE "degraded"]
  /\ errors' = [errors EXCEPT ![f] = Pushed(@, <<code, f, p>>, ErrorSize)]
  /\ UNCHANGED <<runtime, storage, boxes>>
  /\ Notified

\* Faulty variant: the event is recorded before the error it is about.
RuntimeErrorLate(p) ==
  /\ Reported(<<"RUNTIME", Runtime, p>>)
  /\ runtime' = Pushed(runtime, p, RuntimeSize)
  /\ box' = IF box.there THEN Content(status, errors, runtime, storage) ELSE box
  /\ left' = 0
  /\ UNCHANGED <<status, errors, storage, boxes>>

\* reportRuntimeError(): nobody is told of the error but by its event.
RuntimeError(p) ==
  /\ Reported(<<"RUNTIME", Runtime, p>>)
  /\ runtime' = Pushed(runtime, p, RuntimeSize)
  /\ UNCHANGED <<status, errors, storage, boxes>>
  /\ Notified

\* recordSelectorDiagnostic(), and a cleanup of a resource that throws: the
\* event alone.
Miss(f) ==
  /\ Reported(<<"SELECTOR", f, "miss">>)
  /\ UNCHANGED <<status, errors, runtime, storage, boxes>>
  /\ Notified

\* setFeatureStatus() of a feature that has come up or gone.
SetStatus(f, s) ==
  /\ boxes < MaxBoxes /\ boxes' = boxes + 1
  /\ status[f] # s /\ status' = [status EXCEPT ![f] = s]
  /\ UNCHANGED <<errors, runtime, log, storage, reports>>
  /\ Notified

Next ==
  \/ ShowBox \/ SettingsGo \/ StorageSettles
  \/ \E f \in Features, p \in Phases, code \in {"FAILURE", "WARNING"} : Report(code, f, p)
  \/ \E p \in Phases : RuntimeError(p)
  \/ \E f \in Features : Miss(f) \/ \E s \in {"running", "disabled"} : SetStatus(f, s)

Spec == Init /\ [][Next]_vars

-----------------------------------------------------------------------------
(* Properties.                                                               *)

\* Every variable has its type.
TypeOK ==
  /\ status \in [Features -> Statuses] /\ storage \in BOOLEAN
  /\ \A f \in Features : Range(errors[f]) \subseteq Kinds /\ Len(errors[f]) <= ErrorSize
  /\ Range(runtime) \subseteq Phases /\ Len(runtime) <= RuntimeSize
  /\ \A i \in DOMAIN log : log[i].kind \in Kinds /\ log[i].count \in 1 .. MaxReports
  /\ left \in 0 .. MaxBoxes /\ boxes \in 0 .. MaxBoxes

Latest(list, size) == IF Len(list) > size THEN SubSeq(list, Len(list) - size + 1, Len(list)) ELSE list
At(kind) == {i \in DOMAIN reports : reports[i] = kind}

\* What is kept is what was reported last: the log has the newest kinds in the
\* order of their last event, an error list the newest errors, and a kind that
\* never had to make room has counted all its events.
NewestKept ==
  LET order == SetToSortSeq(Range(reports), LAMBDA a, b : Max(At(a)) < Max(At(b)))
      about(f) == SelectSeq(reports, LAMBDA k : k[1] \in {"FAILURE", "WARNING"} /\ k[2] = f)
  IN  /\ [i \in DOMAIN log |-> log[i].kind] = Latest(order, LogSize)
      /\ \A f \in Features : errors[f] = Latest(about(f), ErrorSize)
      /\ Cardinality(Range(reports)) <= LogSize =>
           \A i \in DOMAIN log : log[i].count = Cardinality(At(log[i].kind))

\* The box says what the log says, and offers a retry exactly while the
\* storage is unavailable, through every report, and across boxes.
BoxIsCurrent == box.there => box = Content(status, errors, runtime, storage)
=============================================================================
