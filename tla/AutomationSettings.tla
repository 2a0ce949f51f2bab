------------------------- MODULE AutomationSettings -------------------------
(* The choices that let the direct-download add-on act on other sites: they  *)
(* are kept by the core, read by the add-on on the pages of F95 Zone         *)
(* (masked-direct-addon app/settings.js, lifecycle.js) and mirrored in the   *)
(* userscript storage (ports/automationSettingsRepository.js), which is all  *)
(* a download page sees.  Every access is a call that answers later, or      *)
(* fails.  One host stands for the switches that travel with the settings.   *)
EXTENDS Naturals, FiniteSets

CONSTANTS MaxOps,   \* bound: commands the add-on has received
          MaxFaults \* bound: calls that fail

VARIABLES
  core,     \* the core's storage: the switch of the add-on, of the host
  mirror,   \* the mirrored record
  enabled,  \* state.enabled
  terminal,
  lastReadSucceeded,
  ops,      \* commands in progress
  made,     \* commands so far
  faults,
  chosen,   \* history: values the host's switch has had in the core
  served    \* history: a full read was answered, or the record is of one

vars == <<core, mirror, enabled, terminal, lastReadSucceeded, ops, made, faults, chosen, served>>

Choice == {"on", "off"}
Ids == 1..MaxOps

\* needs: an older record, which says nothing of the host, has to be read anew.
Mirror == [enabled : BOOLEAN, host : Choice, needs : BOOLEAN]
Steps == {"begin", "stored", "get", "mirror", "write", "done"}
\* full: the settings are mirrored, else only the switch.  got: what was read
\* or is to be written.  base: the record the change is made to.
Op == [kind : {"enable", "disable", "refresh"}, step : Steps, full : BOOLEAN,
       got : Choice, switch : BOOLEAN, base : Mirror]

TypeOK ==
  /\ core \in [enabled : BOOLEAN, host : Choice] /\ mirror \in Mirror
  /\ \A flag \in {enabled, terminal, lastReadSucceeded, served} : flag \in BOOLEAN
  /\ made \in 0..MaxOps /\ DOMAIN ops \subseteq 1..made /\ \A i \in DOMAIN ops : ops[i] \in Op
  /\ faults \in 0..MaxFaults /\ chosen \subseteq Choice

\* The record of an earlier session: this version's, or an older one's.
Init ==
  /\ core \in [enabled : {TRUE}, host : Choice]
  /\ mirror \in {[enabled |-> TRUE, host |-> core.host, needs |-> FALSE],
                 [enabled |-> TRUE, host |-> "on", needs |-> TRUE]}
  /\ enabled = TRUE /\ terminal = FALSE /\ lastReadSucceeded = FALSE
  /\ ops = [i \in {} |-> mirror] /\ made = 0 /\ faults = 0
  /\ chosen = {core.host} /\ served = ~mirror.needs

Fault == faults < MaxFaults /\ faults' = faults + 1
Goes(i, op) == ops' = IF op.step = "done" THEN [j \in DOMAIN ops \ {i} |-> ops[j]]
                      ELSE [ops EXCEPT ![i] = op]

\* A command of the core, or the add-on's own start (a refresh).
Command(kind) ==
  /\ ~terminal /\ made < MaxOps /\ made' = made + 1
  /\ LET op == [kind |-> kind, step |-> IF kind = "refresh" THEN "get" ELSE "begin",
                full |-> kind = "refresh", got |-> "on", switch |-> FALSE, base |-> mirror]
     IN  ops' = [j \in DOMAIN ops \union {made'} |-> IF j = made' THEN op ELSE ops[j]]
  /\ enabled' = CASE kind = "enable" -> TRUE [] kind = "disable" -> FALSE [] OTHER -> enabled
  \* storageGet() takes back what the read before it has said
  /\ lastReadSucceeded' = (lastReadSucceeded /\ kind # "refresh")
  /\ UNCHANGED <<core, mirror, terminal, faults, chosen, served>>

HostChosen(value) ==
  /\ core.host # value /\ core' = [core EXCEPT !.host = value] /\ chosen' = chosen \union {value}
  /\ UNCHANGED <<mirror, enabled, terminal, lastReadSucceeded, ops, faults, served, made>>

\* setEnabled(): the switch is stored, then mirrored, then the settings are.
\* storageSet() is called with the value the switch has at that moment.
SwitchStored(i) ==
  /\ ops[i].step = "begin"
  /\ core' = [core EXCEPT !.enabled = (ops[i].kind = "enable")]
  /\ Goes(i, [ops[i] EXCEPT !.step = "mirror", !.switch = (ops[i].kind = "enable")])
  /\ UNCHANGED <<mirror, enabled, terminal, lastReadSucceeded, faults, chosen, served, made>>

AfterSwitch(i) == IF enabled THEN "get" ELSE "done"

SwitchRefused(i) ==
  /\ ops[i].step = "begin" /\ Fault
  /\ Goes(i, [ops[i] EXCEPT !.step = AfterSwitch(i), !.full = TRUE])
  /\ lastReadSucceeded' = (lastReadSucceeded /\ ~enabled)
  /\ UNCHANGED <<core, mirror, enabled, terminal, chosen, served, made>>

\* read(true): the settings are asked for, and answered or not.
SettingsAnswered(i) ==
  /\ ops[i].step = "get"
  /\ lastReadSucceeded' = TRUE /\ served' = TRUE
  /\ Goes(i, [ops[i] EXCEPT !.step = "mirror", !.got = core.host, !.switch = enabled])
  /\ UNCHANGED <<core, mirror, enabled, terminal, faults, chosen, made>>

\* The defaults stand in for the answer; they are mirrored if the flag says
\* that a read succeeded.
SettingsRefused(i) ==
  /\ ops[i].step = "get" /\ Fault
  /\ Goes(i, [ops[i] EXCEPT !.step = IF lastReadSucceeded THEN "mirror" ELSE "done",
                        !.got = "on", !.switch = enabled])
  /\ UNCHANGED <<core, mirror, enabled, terminal, lastReadSucceeded, chosen, served, made>>

\* updateSettings() reads the record and writes it whole.
MirrorRead(i) ==
  /\ ops[i].step = "mirror"
  /\ Goes(i, [ops[i] EXCEPT !.step = "write", !.base = mirror])
  /\ UNCHANGED <<core, mirror, enabled, terminal, lastReadSucceeded, faults, chosen, served, made>>

\* Faulty variant: a change of the switch writes what it did not read.
ChangedWhole(op) == [enabled |-> op.switch, host |-> op.got, needs |-> FALSE]

Changed(op) ==
  [enabled |-> op.switch,
   host |-> IF op.full THEN op.got ELSE op.base.host,
   needs |-> op.base.needs /\ ~op.full]

\* A change of the switch goes on to read the settings while the add-on is on.
MirrorWritten(i) ==
  /\ ops[i].step = "write" /\ mirror' = Changed(ops[i])
  /\ Goes(i, [ops[i] EXCEPT !.step = IF ops[i].full THEN "done" ELSE AfterSwitch(i),
                        !.full = TRUE])
  /\ lastReadSucceeded' = (lastReadSucceeded /\ (ops[i].full \/ ~enabled))
  /\ UNCHANGED <<core, enabled, terminal, faults, chosen, served, made>>

MirrorRefused(i) ==
  /\ ops[i].step = "write" /\ Fault
  /\ Goes(i, [ops[i] EXCEPT !.step = IF ops[i].full THEN "done" ELSE AfterSwitch(i),
                        !.full = TRUE])
  /\ lastReadSucceeded' = (lastReadSucceeded /\ (ops[i].full \/ ~enabled))
  /\ UNCHANGED <<core, mirror, enabled, terminal, chosen, served, made>>

\* What is under way goes on.
Teardown ==
  /\ ~terminal /\ terminal' = TRUE /\ enabled' = FALSE
  /\ UNCHANGED <<core, mirror, lastReadSucceeded, ops, faults, chosen, served, made>>

Next ==
  \/ \E kind \in {"enable", "disable", "refresh"} : Command(kind)
  \/ \E value \in Choice : HostChosen(value)
  \/ \E i \in DOMAIN ops :
       \/ SwitchStored(i) \/ SwitchRefused(i) \/ SettingsAnswered(i) \/ SettingsRefused(i)
       \/ MirrorRead(i) \/ MirrorWritten(i) \/ MirrorRefused(i)
  \/ Teardown

Spec == Init /\ [][Next]_vars

(******************************** Properties *******************************)
\* A record of the older version authorizes nothing until the core has
\* answered a full read of the settings, whatever partial updates and failed
\* reads came before.
OldRecordNeedsRead == ~mirror.needs => served

\* "Fresh defaults are on; saved false choices remain false"
\* (docs/architecture/masked-direct-reliability.md:26): a host that was never
\* switched on is not on in a record that authorizes download pages.
SavedChoiceStays == ~mirror.needs /\ mirror.host = "on" => "on" \in chosen
=============================================================================
