--------------------------- MODULE DirectDownload ---------------------------
(* The direct-download add-on in one browser tab (addons/masked-direct-addon *)
(* app/contexts/downloadPageController.js, ports, hosts/shared,              *)
(* domain/directDownload).  What a page is, and which records it shares with *)
(* others, is what the routes of its host say; which control it has and when *)
(* that is ready is the page's affair.                                       *)
EXTENDS Naturals, TLAPS

CONSTANTS Files,      \* identities of files
          Sites,      \* the routes of the hosts
          Ttl,        \* minutes a continuation or a running mark lasts
          MaxVisits,  \* bound: pages loaded
          MaxTurns    \* bound: changes of settings, of the challenge and of time

\* "file": its own control downloads.  "entry": the first page of a host with
\* stages.  "next": a later page whose path names its file.  "blind": a later
\* page that names none.  "confirm": a page that may be first or later.
Kinds == {"file", "entry", "next", "blind", "confirm"}

\* A route is of a host and kind, at an origin with its own session storage;
\* path names its one-shot guard, one for all files when shared; repeats: the
\* host is scanned (startRepeat).  An origin belongs to one host.
SitesOK ==
  /\ \A s \in Sites : s.kind \in Kinds /\ s.shared \in BOOLEAN /\ s.repeats \in BOOLEAN
  /\ \A s, t \in Sites : s.origin = t.origin => s.host = t.host
  /\ Ttl \in Nat \ {0} /\ MaxVisits \in Nat /\ MaxTurns \in Nat

VARIABLES
  page,      \* the page in the tab, or Elsewhere
  phase,     \* where the page's run is; off: none, or disposed
  consuming, \* the run is authorized by a continuation it has to consume
  closes,    \* closing is on, as the settings last read said
  session,   \* continuation record of each origin's session storage, or None
  name,      \* the copy in window.name, one for all hosts
  guard,     \* one-shot record of each place
  challenge, \* a Cloudflare challenge is shown
  settings,  \* the stored settings: automation of this host, closing
  closed,    \* the add-on closed the tab
  pressed,   \* history: the run pressed the final control
  failed,    \* history: the run reported a failure
  owed,      \* history: minutes for which a first page's automation lets each
             \* origin act once for a file
  visits, turns

vars == <<page, phase, consuming, closes, session, name, guard, challenge, settings, closed,
          pressed, failed, owed, visits, turns>>
run == <<phase, consuming, closes, pressed, failed>>
records == <<session, name>>
world == <<page, challenge, settings, visits, turns>>

Origins == {s.origin : s \in Sites}
Hosts == {s.host : s \in Sites}
OriginsOf(host) == {s.origin : s \in {t \in Sites : t.host = host}}
Pages == [site : Sites, file : Files]
Elsewhere == [site |-> [host |-> "none", kind |-> "none", origin |-> "none", path |-> "none",
                        shared |-> FALSE, repeats |-> FALSE],
              file |-> "none"]
None == [host |-> "none", file |-> "none", left |-> 0]
Record == [host : Hosts, file : Files, left : 0..Ttl]
Settings == [on : BOOLEAN, close : BOOLEAN]

\* getStandaloneRunGuardKey(): the host and the path, without the query.
Place(p) == <<p.site.origin, p.site.path, IF p.site.shared THEN "any" ELSE p.file>>
Places == {Place(p) : p \in Pages}
Free == [is |-> "none", left |-> 0]
Mark == [is : {"none", "running", "complete"}, left : 0..Ttl]

TypeOK ==
  /\ page \in Pages \cup {Elsewhere}
  /\ phase \in {"off", "loading", "waiting", "step", "idle", "grace", "settled", "reading"}
  /\ phase # "off" => page \in Pages
  /\ session \in [Origins -> Record \cup {None}] /\ name \in Record \cup {None}
  /\ guard \in [Places -> Mark]
  /\ settings \in Settings /\ owed \in [Files -> [Origins -> 0..Ttl]]
  /\ consuming \in BOOLEAN /\ closes \in BOOLEAN /\ challenge \in BOOLEAN
  /\ closed \in BOOLEAN /\ pressed \in BOOLEAN /\ failed \in BOOLEAN
  /\ visits \in 0..MaxVisits /\ turns \in 0..MaxTurns

Init ==
  /\ page = Elsewhere /\ phase = "off" /\ consuming = FALSE /\ closes = FALSE
  /\ session = [o \in Origins |-> None] /\ name = None
  /\ guard = [g \in Places |-> Free]
  /\ challenge = FALSE /\ settings = [on |-> TRUE, close |-> TRUE] /\ closed = FALSE
  /\ pressed = FALSE /\ failed = FALSE /\ owed = [f \in Files |-> [o \in Origins |-> 0]]
  /\ visits = 0 /\ turns = 0

Here == page.site.origin
Later == page.site.kind \in {"next", "blind"}         \* only its first page authorizes it
MayBeLater == Later \/ page.site.kind = "confirm"

(******************************** The records ******************************)
\* A running mark goes with its run, a complete one stays.
Released == IF guard[Place(page)].is = "running"
            THEN [guard EXCEPT ![Place(page)] = Free] ELSE guard
Holding == phase \notin {"off", "loading"}
Dispose == phase' = "off" /\ guard' = IF Holding THEN Released ELSE guard

Clear == session' = [session EXCEPT ![Here] = None] /\ name' = None

\* inspect(): the session's record, else the name's; one that does not fit or
\* has expired is cleared.  A blind page compares no identity.
Found == IF session[Here] # None THEN session[Here] ELSE name
Fits ==
  /\ Found # None /\ Found.host = page.site.host /\ Found.left > 0
  /\ page.site.kind # "blind" => Found.file = page.file
Inspect == IF Fits THEN UNCHANGED records ELSE Clear

\* Faulty variant: the record is left in place.
Keep == UNCHANGED records

Consume == Clear

\* claim(): a record of this origin that is still good must be of this file;
\* it is then left as it is, and the copy in the name too.
Kept == session[Here] # None /\ session[Here].left > 0
Claimable == Kept => session[Here].file = page.file
Claim ==
  IF Kept /\ session[Here].file = page.file THEN UNCHANGED records
  ELSE LET record == [host |-> page.site.host, file |-> page.file, left |-> Ttl]
       IN  session' = [session EXCEPT ![Here] = record] /\ name' = record

(********************************** A run **********************************)
\* A page is loaded, and the run of the page before it disposed of.  Browsers
\* may clear the name when the site changes.
Load(p) ==
  /\ ~closed /\ visits < MaxVisits /\ visits' = visits + 1
  /\ page' = p /\ phase' = "loading"
  /\ guard' = IF Holding THEN Released ELSE guard
  /\ consuming' = FALSE /\ closes' = FALSE /\ pressed' = FALSE /\ failed' = FALSE
  /\ challenge' \in BOOLEAN
  /\ name' \in {name, None}
  /\ UNCHANGED <<session, settings, closed, owed, turns>>

Deciding == phase = "loading" /\ UNCHANGED <<world, closed, pressed, failed>>
Blocked == Deciding /\ phase' = "off" /\ UNCHANGED <<consuming, closes, owed>>
Allowed == settings.on /\ (Later => Fits)

\* guard.claim(): complete, or running and not yet stale.
Guarded == LET g == guard[Place(page)] IN g.is = "complete" \/ (g.is = "running" /\ g.left > 0)

\* The gate of decideHostAutomation(): automation is off, or could not be read.
NotAutomated == Blocked /\ UNCHANGED <<records, guard>>

NotOwned == Blocked /\ settings.on /\ Later /\ ~Fits /\ Clear /\ UNCHANGED guard

SkippedByGuard ==
  /\ Blocked /\ Allowed /\ Guarded
  /\ IF MayBeLater THEN Inspect ELSE UNCHANGED records
  /\ UNCHANGED guard

\* The guard is claimed and released again.
ClaimFails ==
  /\ Blocked /\ Allowed /\ ~Guarded /\ page.site.kind = "entry" /\ ~Claimable
  /\ guard' = [guard EXCEPT ![Place(page)] = Free]
  /\ UNCHANGED records

\* A first page, whose automation the later pages of its file rely on.
First == page.site.kind = "entry" \/ (page.site.kind = "confirm" /\ ~Fits)

Begin ==
  /\ Deciding /\ Allowed /\ ~Guarded
  /\ page.site.kind = "entry" => Claimable
  /\ phase' = "waiting" /\ closes' = settings.close
  /\ guard' = [guard EXCEPT ![Place(page)] = [is |-> "running", left |-> Ttl]]
  /\ consuming' = (MayBeLater /\ Fits)
  /\ IF First
     THEN /\ Claim
          /\ owed' = [owed EXCEPT ![page.file] =
                        [o \in Origins |-> IF o \in OriginsOf(page.site.host)
                                           THEN Ttl ELSE @[o]]]
     ELSE UNCHANGED <<records, owed>>

\* The challenge is over; a continuation is looked up once more and consumed.
Cleared ==
  /\ phase = "waiting" /\ ~challenge
  /\ IF ~consuming
     THEN phase' = "step" /\ UNCHANGED <<records, guard, owed>>
     ELSE IF Fits
     THEN /\ Consume /\ phase' = "step"
          /\ owed' = [owed EXCEPT ![Found.file][Here] = 0]
          /\ UNCHANGED guard
     ELSE Clear /\ Dispose /\ UNCHANGED owed
  /\ UNCHANGED <<world, consuming, closes, closed, pressed, failed>>

\* The gate waits for at most ten minutes, then the run is disposed of.
GateTimesOut ==
  /\ phase \in {"waiting", "step", "grace"} /\ challenge
  /\ Dispose
  /\ UNCHANGED <<world, consuming, closes, records, closed, pressed, failed, owed>>

\* The first page's control leads to the next page; the run stays.
PressFirst ==
  /\ phase = "step" /\ page.site.kind = "entry" /\ ~page.site.repeats /\ ~challenge
  /\ phase' = "idle"
  /\ UNCHANGED <<world, consuming, closes, records, guard, closed, pressed, failed, owed>>

\* A scanned page is taken for what its controls say, whichever it is.
PressFinal ==
  /\ phase = "step" /\ ~challenge
  /\ page.site.kind \in {"file", "blind", "confirm"} \/ page.site.repeats
  /\ phase' = "grace" /\ pressed' = TRUE
  /\ UNCHANGED <<world, consuming, closes, records, guard, closed, failed, owed>>

\* Faulty variant: the tab is closed without evidence.
HealthyAnyway(evidence) ==
  /\ Clear /\ guard' = [guard EXCEPT ![Place(page)] = [is |-> "complete", left |-> 0]]
  /\ phase' = IF closes THEN "settled" ELSE "off"

\* reportAddonHealthy(): the place is complete; only a pressed final control
\* starts the closing timer.
Healthy(evidence) ==
  /\ Clear /\ guard' = [guard EXCEPT ![Place(page)] = [is |-> "complete", left |-> 0]]
  /\ phase' = IF evidence /\ closes THEN "settled" ELSE "off"

Report ==
  /\ phase = "grace" /\ ~challenge /\ Healthy(TRUE)
  /\ UNCHANGED <<world, consuming, closes, closed, pressed, failed, owed>>

\* A start page, or one that was handled a moment ago, is only healthy.
ReportHealth ==
  /\ phase = "step" /\ page.site.kind \in {"next", "file"} /\ ~page.site.repeats /\ ~challenge
  /\ Healthy(FALSE)
  /\ UNCHANGED <<world, consuming, closes, closed, pressed, failed, owed>>

NotifyMainFailure ==
  /\ failed' = TRUE /\ Clear /\ Dispose
  /\ UNCHANGED <<world, consuming, closes, closed, pressed, owed>>

\* No control, one that is unsafe, or one that changed before its click.
Fail == phase = "step" /\ NotifyMainFailure

\* The time of a scanned host is over, also while its last click is waiting.
RepeatTimesOut ==
  /\ phase \in {"step", "grace"} /\ page.site.repeats
  /\ NotifyMainFailure

(******************************** Closing **********************************)
\* The timer has ended and the settings are read again; a failed read closes
\* nothing.
CloseDue ==
  /\ phase = "settled"
  /\ phase' = "reading"
  /\ closes' \in {settings.on /\ settings.close, FALSE}
  /\ UNCHANGED <<world, consuming, records, guard, closed, pressed, failed, owed>>

CloseNow ==
  /\ phase = "reading" /\ closed' = (closes /\ ~challenge) /\ phase' = "off"
  /\ UNCHANGED <<world, consuming, closes, records, guard, pressed, failed, owed>>

(******************************* The outside *******************************)
\* A navigation within the document; a decision under way still inspects.
RouteChanges ==
  /\ phase # "off" /\ Dispose
  /\ \/ UNCHANGED records
     \/ phase = "loading" /\ settings.on /\ MayBeLater /\ Inspect
  /\ UNCHANGED <<world, consuming, closes, closed, pressed, failed, owed>>

Turn == turns < MaxTurns /\ turns' = turns + 1

SettingsChange ==
  /\ Turn /\ settings' \in Settings \ {settings}
  /\ UNCHANGED <<page, challenge, visits, run, records, guard, closed, owed>>

ChallengeChanges ==
  /\ Turn /\ page # Elsewhere /\ challenge' = ~challenge
  /\ UNCHANGED <<page, settings, visits, run, records, guard, closed, owed>>

Less(n) == IF n > 0 THEN n - 1 ELSE 0
Aged(timed) == [timed EXCEPT !.left = Less(@)]

\* A minute passes: records expire, the mark of a run may be taken over.
TimePasses ==
  /\ Turn
  /\ session' = [o \in Origins |-> Aged(session[o])] /\ name' = Aged(name)
  /\ guard' = [g \in DOMAIN guard |-> Aged(guard[g])]
  /\ owed' = [f \in Files |-> [o \in Origins |-> Less(owed[f][o])]]
  /\ UNCHANGED <<page, challenge, settings, visits, run, closed>>

Next ==
  \/ \E p \in Pages : Load(p)
  \/ NotAutomated \/ NotOwned \/ SkippedByGuard \/ ClaimFails \/ Begin
  \/ Cleared \/ GateTimesOut \/ PressFirst \/ PressFinal \/ Report \/ ReportHealth
  \/ Fail \/ RepeatTimesOut \/ CloseDue \/ CloseNow
  \/ RouteChanges \/ SettingsChange \/ ChallengeChanges \/ TimePasses

Spec == Init /\ [][Next]_vars

(******************************** Properties *******************************)
\* A run that relies on an earlier page acts once for each time a first page of
\* its host was automated in this tab, within two minutes, and for the
\* same file where its path names one: across reloads, other files, other
\* hosts, two storages and a challenge in between.
StageIsOwned ==
  [][phase = "waiting" /\ phase' = "step" /\ (Later \/ consuming) =>
       \E f \in Files : owed[f][Here] > 0 /\ (page.site.kind # "blind" => f = page.file)]_vars

\* The add-on closes a tab only after its run has pressed the final control of
\* the page that is there, reported no failure and completed the page's guard,
\* the settings read at the end of the timer allow it, and no challenge is shown.
ClosesItsOwnDownload ==
  [][closed' /\ ~closed => /\ pressed /\ ~failed /\ guard[Place(page)].is = "complete"
                          /\ closes /\ ~challenge]_vars

(********************************* Proofs **********************************)
\* What a page is.
LEMMA PageFacts ==
  ASSUME NEW p \in Pages
  PROVE  /\ p.site \in Sites /\ p.file \in Files
         /\ p.site.origin \in OriginsOf(p.site.host)
         /\ p.site.origin \in Origins /\ p.site.host \in Hosts /\ Place(p) \in Places
BY DEF Pages, OriginsOf, Origins, Hosts, Places

\* The type invariant in parts.
RecordsOK == session \in [Origins -> Record \cup {None}] /\ name \in Record \cup {None}
MarksOK == guard \in [Places -> Mark]
OwedOK == owed \in [Files -> [Origins -> 0..Ttl]]
FlagsOK ==
  /\ consuming \in BOOLEAN /\ closes \in BOOLEAN /\ challenge \in BOOLEAN
  /\ closed \in BOOLEAN /\ pressed \in BOOLEAN /\ failed \in BOOLEAN
RestOK ==
  /\ page \in Pages \cup {Elsewhere}
  /\ phase \in {"off", "loading", "waiting", "step", "idle", "grace", "settled", "reading"}
  /\ phase # "off" => page \in Pages
  /\ settings \in Settings /\ visits \in 0..MaxVisits /\ turns \in 0..MaxTurns

LEMMA TypeParts == TypeOK <=> RecordsOK /\ MarksOK /\ OwedOK /\ FlagsOK /\ RestOK
BY DEF TypeOK, RecordsOK, MarksOK, OwedOK, FlagsOK, RestOK

LEMMA TypePartsNext ==
  ASSUME RecordsOK', MarksOK', OwedOK', FlagsOK', RestOK' PROVE TypeOK'
BY DEF TypeOK, RecordsOK, MarksOK, OwedOK, FlagsOK, RestOK

LEMMA ClearTyped == ASSUME RecordsOK, Clear PROVE RecordsOK'
BY DEF RecordsOK, Clear

LEMMA ClaimTyped == ASSUME SitesOK, RecordsOK, page \in Pages, Claim PROVE RecordsOK'
<1>1. page.file \in Files /\ page.site.host \in Hosts
  BY PageFacts
<1>2. [host |-> page.site.host, file |-> page.file, left |-> Ttl] \in Record
  BY <1>1 DEF SitesOK, Record
<1>3. QED
  BY <1>2 DEF Claim, RecordsOK, records

LEMMA SameRecords == ASSUME RecordsOK, UNCHANGED records PROVE RecordsOK'
BY DEF RecordsOK, records

LEMMA InspectTyped == ASSUME RecordsOK, Inspect PROVE RecordsOK'
BY ClearTyped, SameRecords DEF Inspect

LEMMA MarkTyped ==
  ASSUME SitesOK
  PROVE  /\ Free \in Mark /\ [is |-> "running", left |-> Ttl] \in Mark
         /\ [is |-> "complete", left |-> 0] \in Mark
BY DEF SitesOK, Free, Mark

LEMMA ReleasedTyped == ASSUME SitesOK, MarksOK PROVE Released \in [Places -> Mark]
BY MarkTyped DEF MarksOK, Released

LEMMA DisposeTyped ==
  ASSUME SitesOK, MarksOK, Dispose PROVE MarksOK' /\ phase' = "off"
BY ReleasedTyped DEF Dispose, MarksOK

LEMMA AgedTyped ==
  ASSUME SitesOK
  PROVE  /\ \A n \in 0..Ttl : Less(n) \in 0..Ttl
         /\ \A r \in Record \cup {None} : Aged(r) \in Record \cup {None}
         /\ \A m \in Mark : Aged(m) \in Mark
<1>1. \A n \in 0..Ttl : Less(n) \in 0..Ttl
  BY DEF SitesOK, Less
<1>2. \A r \in Record : Aged(r) \in Record
  BY <1>1 DEF Record, Aged
<1>3. Aged(None) = None
  BY DEF Aged, None, Less
<1>4. \A m \in Mark : Aged(m) \in Mark
  BY <1>1 DEF Mark, Aged
<1>5. QED
  BY <1>1, <1>2, <1>3, <1>4

LEMMA HealthyTyped ==
  ASSUME SitesOK, RecordsOK, MarksOK, NEW e \in BOOLEAN, Healthy(e)
  PROVE  RecordsOK' /\ MarksOK' /\ phase' \in {"settled", "off"}
<1>1. RecordsOK'
  BY ClearTyped DEF Healthy
<1>2. MarksOK'
  BY MarkTyped DEF Healthy, MarksOK
<1>3. QED
  BY <1>1, <1>2 DEF Healthy

LEMMA LoadTyped == ASSUME SitesOK, TypeOK, NEW p \in Pages, Load(p) PROVE TypeOK'
<1>0. RecordsOK /\ MarksOK /\ OwedOK /\ FlagsOK /\ RestOK
  BY TypeParts
<1>1. RecordsOK'
  BY <1>0 DEF Load, RecordsOK
<1>2. MarksOK'
  BY <1>0, ReleasedTyped DEF Load, MarksOK
<1>3. RestOK'
  BY <1>0 DEF Load, RestOK, SitesOK
<1>4. OwedOK' /\ FlagsOK'
  BY <1>0 DEF Load, OwedOK, FlagsOK
<1>5. QED
  BY <1>1, <1>2, <1>3, <1>4, TypePartsNext

LEMMA OffTyped ==
  ASSUME TypeOK, phase' = "off", UNCHANGED world PROVE RestOK'
BY DEF TypeOK, RestOK, world

LEMMA BlockedTyped ==
  ASSUME SitesOK, TypeOK, NotAutomated \/ NotOwned \/ SkippedByGuard \/ ClaimFails
  PROVE  TypeOK'
<1>0. RecordsOK /\ MarksOK /\ OwedOK /\ FlagsOK /\ RestOK /\ page \in Pages
  BY TypeParts DEF NotAutomated, NotOwned, SkippedByGuard, ClaimFails, Blocked, Deciding, RestOK
<1>1. Blocked
  BY DEF NotAutomated, NotOwned, SkippedByGuard, ClaimFails
<1>2. RecordsOK'
  BY <1>0, ClearTyped, SameRecords, InspectTyped
     DEF NotAutomated, NotOwned, SkippedByGuard, ClaimFails
<1>3. MarksOK'
  BY <1>0, MarkTyped DEF NotAutomated, NotOwned, SkippedByGuard, ClaimFails, MarksOK
<1>4. RestOK'
  BY <1>1, OffTyped DEF Blocked, Deciding
<1>5. OwedOK' /\ FlagsOK'
  BY <1>0, <1>1 DEF Blocked, Deciding, world, OwedOK, FlagsOK
<1>6. QED
  BY <1>2, <1>3, <1>4, <1>5, TypePartsNext

LEMMA BeginTyped == ASSUME SitesOK, TypeOK, Begin PROVE TypeOK'
<1>0. RecordsOK /\ MarksOK /\ OwedOK /\ FlagsOK /\ RestOK /\ page \in Pages
  BY TypeParts DEF Begin, Deciding, RestOK
<1>1. RecordsOK'
  BY <1>0, ClaimTyped, SameRecords DEF Begin
<1>2. MarksOK'
  BY <1>0, MarkTyped DEF Begin, MarksOK
<1>3. OwedOK'
  <2>1. CASE First
    <3> DEFINE given == [o \in Origins |-> IF o \in OriginsOf(page.site.host)
                                           THEN Ttl ELSE owed[page.file][o]]
    <3>1. given \in [Origins -> 0..Ttl]
      BY <1>0, PageFacts DEF OwedOK, SitesOK
    <3>2. owed' = [owed EXCEPT ![page.file] = given]
      BY <2>1, <1>0, PageFacts DEF Begin, OwedOK
    <3>3. QED
      BY <1>0, <3>1, <3>2 DEF OwedOK
  <2>2. CASE ~First
    BY <2>2, <1>0 DEF Begin, OwedOK
  <2>3. QED
    BY <2>1, <2>2
<1>4. FlagsOK'
  <2>1. consuming' \in BOOLEAN
    BY DEF Begin
  <2>2. closes' \in BOOLEAN
    BY <1>0 DEF Begin, RestOK, Settings
  <2>3. QED
    BY <1>0, <2>1, <2>2 DEF Begin, Deciding, world, FlagsOK
<1>5. RestOK'
  BY <1>0 DEF Begin, Deciding, world, RestOK
<1>6. QED
  BY <1>1, <1>2, <1>3, <1>4, <1>5, TypePartsNext

LEMMA ClearedTyped == ASSUME SitesOK, TypeOK, Cleared PROVE TypeOK'
<1>0. RecordsOK /\ MarksOK /\ OwedOK /\ FlagsOK /\ RestOK /\ page \in Pages
  BY TypeParts DEF Cleared, RestOK
<1>1. RecordsOK'
  BY <1>0, ClearTyped, SameRecords DEF Cleared, Consume
<1>2. MarksOK'
  BY <1>0, DisposeTyped DEF Cleared, MarksOK
<1>3. OwedOK'
  BY <1>0 DEF Cleared, OwedOK, SitesOK
<1>4. FlagsOK'
  BY <1>0 DEF Cleared, world, FlagsOK
<1>5. RestOK'
  BY <1>0, DisposeTyped DEF Cleared, world, RestOK
<1>6. QED
  BY <1>1, <1>2, <1>3, <1>4, <1>5, TypePartsNext

LEMMA WorkTyped ==
  ASSUME SitesOK, TypeOK,
         \/ GateTimesOut \/ PressFirst \/ PressFinal \/ Report \/ ReportHealth
         \/ Fail \/ RepeatTimesOut \/ CloseDue \/ CloseNow \/ RouteChanges
  PROVE  TypeOK'
<1>0. RecordsOK /\ MarksOK /\ OwedOK /\ FlagsOK /\ RestOK /\ page \in Pages
  BY TypeParts DEF GateTimesOut, PressFirst, PressFinal, Report, ReportHealth, Fail,
     RepeatTimesOut, NotifyMainFailure, CloseDue, CloseNow, RouteChanges, RestOK
<1>1. ASSUME RecordsOK', MarksOK', FlagsOK', UNCHANGED <<world, owed>>,
             phase' \in {"off", "idle", "grace", "settled", "reading"}
      PROVE  TypeOK'
  <2>1. RestOK'
    BY <1>0, <1>1 DEF world, RestOK
  <2>2. OwedOK'
    BY <1>0, <1>1 DEF OwedOK
  <2>3. QED
    BY <1>1, <2>1, <2>2, TypePartsNext
<1>2. CASE GateTimesOut \/ PressFirst \/ PressFinal \/ CloseDue \/ CloseNow \/ RouteChanges
  <2>1. RecordsOK'
    BY <1>0, <1>2, SameRecords, InspectTyped
       DEF GateTimesOut, PressFirst, PressFinal, CloseDue, CloseNow, RouteChanges
  <2>2. MarksOK'
    BY <1>0, <1>2, DisposeTyped
       DEF GateTimesOut, PressFirst, PressFinal, CloseDue, CloseNow, RouteChanges, MarksOK
  <2>3. FlagsOK'
    <3>1. closes' \in BOOLEAN
      BY <1>0, <1>2 DEF GateTimesOut, PressFirst, PressFinal, CloseDue, CloseNow,
         RouteChanges, FlagsOK, RestOK, Settings
    <3>2. closed' \in BOOLEAN
      BY <1>0, <1>2 DEF GateTimesOut, PressFirst, PressFinal, CloseDue, CloseNow,
         RouteChanges, FlagsOK
    <3>3. QED
      BY <1>0, <1>2, <3>1, <3>2 DEF GateTimesOut, PressFirst, PressFinal, CloseDue, CloseNow,
         RouteChanges, world, FlagsOK
  <2>4. UNCHANGED <<world, owed>>
    BY <1>2 DEF GateTimesOut, PressFirst, PressFinal, CloseDue, CloseNow, RouteChanges
  <2>5. phase' \in {"off", "idle", "grace", "settled", "reading"}
    BY <1>2 DEF GateTimesOut, PressFirst, PressFinal, CloseDue, CloseNow, RouteChanges, Dispose
  <2>6. QED
    BY <1>1, <2>1, <2>2, <2>3, <2>4, <2>5
<1>3. CASE Report \/ ReportHealth
  <2>1. Healthy(TRUE) \/ Healthy(FALSE)
    BY <1>3 DEF Report, ReportHealth
  <2>2. RecordsOK' /\ MarksOK' /\ phase' \in {"settled", "off"}
    BY <1>0, <2>1, HealthyTyped
  <2>3. FlagsOK' /\ UNCHANGED <<world, owed>>
    BY <1>0, <1>3 DEF Report, ReportHealth, world, FlagsOK
  <2>4. QED
    BY <1>1, <2>2, <2>3
<1>4. CASE Fail \/ RepeatTimesOut
  <2>1. NotifyMainFailure
    BY <1>4 DEF Fail, RepeatTimesOut
  <2>2. RecordsOK' /\ MarksOK' /\ phase' = "off"
    BY <1>0, <2>1, ClearTyped, DisposeTyped DEF NotifyMainFailure
  <2>3. FlagsOK' /\ UNCHANGED <<world, owed>>
    BY <1>0, <2>1 DEF NotifyMainFailure, world, FlagsOK
  <2>4. QED
    BY <1>1, <2>2, <2>3
<1>5. QED
  BY <1>2, <1>3, <1>4

LEMMA OutsideTyped ==
  ASSUME SitesOK, TypeOK, SettingsChange \/ ChallengeChanges \/ TimePasses PROVE TypeOK'
<1>0. RecordsOK /\ MarksOK /\ OwedOK /\ FlagsOK /\ RestOK
  BY TypeParts
<1>1. RecordsOK'
  BY <1>0, AgedTyped DEF SettingsChange, ChallengeChanges, TimePasses, records, RecordsOK
<1>2. MarksOK'
  BY <1>0, AgedTyped DEF SettingsChange, ChallengeChanges, TimePasses, MarksOK
<1>3. OwedOK'
  BY <1>0, AgedTyped DEF SettingsChange, ChallengeChanges, TimePasses, OwedOK
<1>4. FlagsOK'
  BY <1>0 DEF SettingsChange, ChallengeChanges, TimePasses, run, FlagsOK
<1>5. RestOK'
  BY <1>0 DEF SettingsChange, ChallengeChanges, TimePasses, Turn, run, RestOK, SitesOK
<1>6. QED
  BY <1>1, <1>2, <1>3, <1>4, <1>5, TypePartsNext

LEMMA TypeStep == ASSUME SitesOK, TypeOK, [Next]_vars PROVE TypeOK'
<1>1. CASE UNCHANGED vars
  BY <1>1 DEF vars, TypeOK
<1>2. QED
  BY <1>1, LoadTyped, BlockedTyped, BeginTyped, ClearedTyped, WorkTyped, OutsideTyped DEF Next

LEMMA TypeInit == ASSUME SitesOK, Init PROVE TypeOK
<1>1. RecordsOK /\ MarksOK
  BY MarkTyped DEF Init, RecordsOK, MarksOK
<1>2. OwedOK
  BY DEF SitesOK, Init, OwedOK
<1>3. FlagsOK
  BY DEF Init, FlagsOK
<1>4. RestOK
  <2>1. [on |-> TRUE, close |-> TRUE] \in Settings
    BY DEF Settings
  <2>2. 0 \in 0..MaxVisits /\ 0 \in 0..MaxTurns
    BY DEF SitesOK
  <2>3. page = Elsewhere /\ phase = "off" /\ visits = 0 /\ turns = 0
        /\ settings = [on |-> TRUE, close |-> TRUE]
    BY DEF Init
  <2>4. QED
    BY <2>1, <2>2, <2>3 DEF RestOK
<1>5. QED
  BY <1>1, <1>2, <1>3, <1>4, TypeParts

\* For any hosts, routes and files, and any number of pages and minutes, every
\* state of the tab is well typed.
THEOREM TypeCorrect == SitesOK => (Spec => []TypeOK)
<1>1. SUFFICES ASSUME SitesOK PROVE Spec => []TypeOK
  OBVIOUS
<1>2. Init => TypeOK
  BY <1>1, TypeInit
<1>3. TypeOK /\ [Next]_vars => TypeOK'
  BY <1>1, TypeStep
<1>4. QED
  BY <1>2, <1>3, PTL DEF Spec

(* What the records promise.  A record was left by a first page of its file, *)
(* so the history still owes its origins as much: the session's record one   *)
(* action at its origin, the name's copy one at each origin of its host.     *)
SessionOwed ==
  \A o \in Origins : session[o] # None => owed[session[o].file][o] >= session[o].left
NameOwed ==
  name # None => \A o \in OriginsOf(name.host) : owed[name.file][o] >= name.left

\* What a run has done when it is where it is.
RunInv ==
  /\ phase \in {"settled", "reading"} => pressed /\ guard[Place(page)].is = "complete"
  /\ phase = "grace" => pressed
  /\ phase # "off" => ~failed
  /\ phase = "waiting" /\ Later => consuming

Inv == TypeOK /\ SessionOwed /\ NameOwed /\ RunInv

\* A record that is looked up and fits is owed at the page's origin.
LEMMA FitsIsOwed ==
  ASSUME SitesOK, Inv, page \in Pages, Fits
  PROVE  /\ Found \in Record /\ owed[Found.file][Here] > 0
         /\ page.site.kind # "blind" => Found.file = page.file
<1>1. Found \in Record /\ Here \in Origins
  BY PageFacts DEF Inv, TypeOK, Fits, Found, Here
<1>2. Here \in OriginsOf(page.site.host)
  BY PageFacts DEF Here
<1>3. owed[Found.file][Here] >= Found.left
  BY <1>1, <1>2 DEF Inv, SessionOwed, NameOwed, Found, Fits
<1>4. owed[Found.file][Here] \in 0..Ttl /\ Found.left \in 0..Ttl /\ Ttl \in Nat
  BY <1>1 DEF Inv, TypeOK, Record, SitesOK
<1>5. QED
  BY <1>1, <1>3, <1>4 DEF Fits

\* Steps that only remove records, or that change none.
LEMMA FewerRecords ==
  ASSUME SitesOK, Inv, UNCHANGED owed,
         \/ UNCHANGED session
         \/ \E o \in Origins : session' = [session EXCEPT ![o] = None],
         name' = name \/ name' = None
  PROVE  SessionOwed' /\ NameOwed'
<1>1. SessionOwed'
  BY DEF Inv, TypeOK, SessionOwed
<1>2. NameOwed'
  BY DEF Inv, NameOwed, Record
<1>3. QED
  BY <1>1, <1>2

LEMMA ClearKeeps ==
  ASSUME SitesOK, Inv, page \in Pages, UNCHANGED owed, Clear \/ UNCHANGED records \/ Inspect
  PROVE  SessionOwed' /\ NameOwed'
<1>1. Here \in Origins
  BY PageFacts DEF Here
<1>2. QED
  BY <1>1, FewerRecords DEF Clear, records, Inspect

LEMMA BeginKeeps ==
  ASSUME SitesOK, Inv, Begin PROVE SessionOwed' /\ NameOwed'
<1>0. page \in Pages /\ TypeOK
  BY DEF Begin, Deciding, Inv, TypeOK
<1>1. CASE ~First
  BY <1>0, <1>1, ClearKeeps DEF Begin
<1>2. CASE First
  <2> DEFINE site == page.site
             given == [o \in Origins |-> IF o \in OriginsOf(site.host)
                                         THEN Ttl ELSE owed[page.file][o]]
  <2>1. page.file \in Files /\ Here \in Origins /\ Here \in OriginsOf(site.host)
        /\ site.host \in Hosts
    BY <1>0, PageFacts DEF Here
  <2>2. owed' = [owed EXCEPT ![page.file] = given]
    BY <1>2, <1>0, <2>1 DEF Begin, TypeOK
  <2>3. \A f \in Files, o \in Origins : owed'[f][o] >= owed[f][o] /\ owed'[f][o] \in 0..Ttl
    BY <1>0, <2>1, <2>2 DEF TypeOK, SitesOK
  <2>4. \A o \in OriginsOf(site.host) : o \in Origins /\ owed'[page.file][o] = Ttl
    BY <1>0, <2>1, <2>2 DEF TypeOK, OriginsOf, Origins
  <2>5. \A o \in Origins : session[o] # None =>
          /\ session[o] \in Record /\ owed'[session[o].file][o] >= session[o].left
    <3>1. SUFFICES ASSUME NEW o \in Origins, session[o] # None
                   PROVE  /\ session[o] \in Record
                          /\ owed'[session[o].file][o] >= session[o].left
      OBVIOUS
    <3>2. session[o] \in Record /\ owed[session[o].file][o] >= session[o].left
      BY <1>0, <3>1 DEF TypeOK, Inv, SessionOwed
    <3>3. session[o].file \in Files /\ session[o].left \in 0..Ttl
      BY <3>2 DEF Record
    <3>4. owed[session[o].file][o] \in 0..Ttl
      BY <1>0, <3>1, <3>3 DEF TypeOK
    <3>5. QED
      BY <3>2, <3>3, <3>4, <2>3 DEF SitesOK
  <2>6. CASE UNCHANGED records
    <3>1. SessionOwed'
      BY <2>5, <2>6 DEF SessionOwed, records
    <3>2. NameOwed'
      <4>1. SUFFICES ASSUME name # None, NEW o \in OriginsOf(name.host)
                     PROVE  owed'[name.file][o] >= name.left
        BY <2>6 DEF NameOwed, records
      <4>2. name \in Record /\ owed[name.file][o] >= name.left /\ o \in Origins
        BY <1>0, <4>1 DEF TypeOK, Inv, NameOwed, OriginsOf, Origins
      <4>3. name.file \in Files /\ name.left \in 0..Ttl
        BY <4>2 DEF Record
      <4>4. owed[name.file][o] \in 0..Ttl
        BY <1>0, <4>2, <4>3 DEF TypeOK
      <4>5. QED
        BY <4>2, <4>3, <4>4, <2>3 DEF SitesOK
    <3>3. QED
      BY <3>1, <3>2
  <2>7. CASE ~UNCHANGED records
    <3> DEFINE record == [host |-> site.host, file |-> page.file, left |-> Ttl]
    <3>1. session' = [session EXCEPT ![Here] = record] /\ name' = record
      BY <1>2, <2>7 DEF Begin, Claim
    <3>2. owed'[page.file][Here] >= Ttl
      BY <2>1, <2>4 DEF SitesOK
    <3>3. SessionOwed'
      BY <1>0, <2>1, <2>5, <3>1, <3>2 DEF SessionOwed, TypeOK
    <3>4. NameOwed'
      BY <2>4, <3>1 DEF NameOwed, SitesOK
    <3>5. QED
      BY <3>3, <3>4
  <2>8. QED
    BY <2>6, <2>7
<1>3. QED
  BY <1>1, <1>2

LEMMA ClearedKeeps ==
  ASSUME SitesOK, Inv, Cleared PROVE SessionOwed' /\ NameOwed'
<1>0. page \in Pages /\ TypeOK
  BY DEF Cleared, Inv, TypeOK
<1>1. CASE consuming /\ Fits
  <2>1. Found \in Record /\ Here \in Origins
    BY <1>0, <1>1, FitsIsOwed, PageFacts DEF Here
  <2>2. Clear /\ owed' = [owed EXCEPT ![Found.file][Here] = 0]
    BY <1>1 DEF Cleared, Consume
  <2>3. \A f \in Files, o \in Origins : o # Here => owed'[f][o] = owed[f][o]
    BY <1>0, <2>1, <2>2 DEF TypeOK, Record
  <2>4. \A o \in Origins : session'[o] # None => o # Here /\ session'[o] = session[o]
    BY <1>0, <2>2 DEF TypeOK, Clear
  <2>5. \A o \in Origins : session[o] # None => session[o].file \in Files
    BY <1>0 DEF TypeOK, Record
  <2>6. SessionOwed'
    BY <2>3, <2>4, <2>5 DEF Inv, SessionOwed
  <2>7. NameOwed'
    BY <2>2 DEF Clear, NameOwed
  <2>8. QED
    BY <2>6, <2>7
<1>2. CASE ~(consuming /\ Fits)
  BY <1>0, <1>2, ClearKeeps DEF Cleared
<1>3. QED
  BY <1>1, <1>2

LEMMA TimeKeeps ==
  ASSUME SitesOK, Inv, TimePasses PROVE SessionOwed' /\ NameOwed'
<1>1. \A m, n \in 0..Ttl : m >= n => Less(m) >= Less(n)
  BY DEF Less, SitesOK
<1>2. \A r \in Record : Aged(r).file = r.file /\ Aged(r).host = r.host
                        /\ Aged(r).left = Less(r.left)
  BY DEF Aged, Record
<1>3. Aged(None) = None
  BY DEF Aged, None, Less
<1>4. \A f \in Files, o \in Origins : owed'[f][o] = Less(owed[f][o]) /\ owed[f][o] \in 0..Ttl
  BY DEF TimePasses, Inv, TypeOK
<1>5. SessionOwed'
  <2>1. SUFFICES ASSUME NEW o \in Origins, session'[o] # None
                 PROVE  owed'[session'[o].file][o] >= session'[o].left
    BY DEF SessionOwed
  <2>2. session'[o] = Aged(session[o]) /\ session[o] # None
    BY <2>1, <1>3 DEF TimePasses
  <2>3. session[o] \in Record /\ owed[session[o].file][o] >= session[o].left
    BY <2>2 DEF Inv, TypeOK, SessionOwed
  <2>4. session[o].file \in Files /\ session[o].left \in 0..Ttl
    BY <2>3 DEF Record
  <2>5. QED
    BY <1>1, <1>2, <1>4, <2>2, <2>3, <2>4
<1>6. NameOwed'
  <2>1. SUFFICES ASSUME name' # None, NEW o \in OriginsOf(name'.host)
                 PROVE  owed'[name'.file][o] >= name'.left
    BY DEF NameOwed
  <2>2. name' = Aged(name) /\ name # None
    BY <2>1, <1>3 DEF TimePasses
  <2>3. name \in Record
    BY <2>2 DEF Inv, TypeOK
  <2>4. o \in OriginsOf(name.host) /\ o \in Origins
    BY <1>2, <2>1, <2>2, <2>3 DEF OriginsOf, Origins
  <2>5. owed[name.file][o] >= name.left
    BY <2>2, <2>4 DEF Inv, NameOwed
  <2>6. name.file \in Files /\ name.left \in 0..Ttl
    BY <2>3 DEF Record
  <2>7. QED
    BY <1>1, <1>2, <1>4, <2>2, <2>3, <2>4, <2>5, <2>6
<1>7. QED
  BY <1>5, <1>6

LEMMA OwedStep ==
  ASSUME SitesOK, Inv, [Next]_vars PROVE SessionOwed' /\ NameOwed'
<1>1. CASE \E p \in Pages : Load(p)
  <2>1. UNCHANGED owed /\ UNCHANGED session /\ (name' = name \/ name' = None)
    BY <1>1 DEF Load
  <2>2. QED
    BY <2>1, FewerRecords
<1>2. CASE \/ NotAutomated \/ NotOwned \/ SkippedByGuard \/ ClaimFails
  <2>1. UNCHANGED owed /\ page \in Pages
    BY <1>2 DEF NotAutomated, NotOwned, SkippedByGuard, ClaimFails, Blocked, Deciding,
       Inv, TypeOK
  <2>2. Clear \/ UNCHANGED records \/ Inspect
    BY <1>2 DEF NotAutomated, NotOwned, SkippedByGuard, ClaimFails
  <2>3. QED
    BY <2>1, <2>2, ClearKeeps
<1>3. CASE \/ GateTimesOut \/ PressFirst \/ PressFinal \/ CloseDue \/ CloseNow \/ RouteChanges
  <2>1. UNCHANGED owed /\ page \in Pages
    BY <1>3 DEF GateTimesOut, PressFirst, PressFinal, CloseDue, CloseNow, RouteChanges,
       Inv, TypeOK
  <2>2. Clear \/ UNCHANGED records \/ Inspect
    BY <1>3 DEF GateTimesOut, PressFirst, PressFinal, CloseDue, CloseNow, RouteChanges
  <2>3. QED
    BY <2>1, <2>2, ClearKeeps
<1>4. CASE Report \/ ReportHealth \/ Fail \/ RepeatTimesOut
  <2>1. UNCHANGED owed /\ page \in Pages
    BY <1>4 DEF Report, ReportHealth, Fail, RepeatTimesOut, NotifyMainFailure, Inv, TypeOK
  <2>2. Clear
    BY <1>4 DEF Report, ReportHealth, Fail, RepeatTimesOut, NotifyMainFailure, Healthy
  <2>3. QED
    BY <2>1, <2>2, ClearKeeps
<1>5. CASE UNCHANGED vars \/ SettingsChange \/ ChallengeChanges
  <2>1. UNCHANGED <<owed, session, name>>
    BY <1>5 DEF vars, SettingsChange, ChallengeChanges, records
  <2>2. QED
    BY <2>1, FewerRecords
<1>6. QED
  BY <1>1, <1>2, <1>3, <1>4, <1>5, BeginKeeps, ClearedKeeps, TimeKeeps DEF Next

\* Where there is no run, there is nothing to have done.
LEMMA OffKeeps == ASSUME phase' = "off" PROVE RunInv'
BY DEF RunInv

LEMMA RunStep ==
  ASSUME SitesOK, Inv, [Next]_vars PROVE RunInv'
<1>1. CASE \E p \in Pages : Load(p)
  BY <1>1 DEF Load, RunInv
<1>2. CASE \/ NotAutomated \/ NotOwned \/ SkippedByGuard \/ ClaimFails
           \/ GateTimesOut \/ Fail \/ RepeatTimesOut \/ CloseNow \/ RouteChanges
  BY <1>2, OffKeeps DEF NotAutomated, NotOwned, SkippedByGuard, ClaimFails, Blocked,
     GateTimesOut, Fail, RepeatTimesOut, NotifyMainFailure, CloseNow, RouteChanges, Dispose
<1>3. CASE Begin
  <2>1. phase = "loading" /\ phase' = "waiting" /\ UNCHANGED <<page, failed>>
    BY <1>3 DEF Begin, Deciding, world
  <2>2. Later => consuming'
    BY <1>3 DEF Begin, Allowed, MayBeLater
  <2>3. QED
    BY <2>1, <2>2 DEF Inv, RunInv, Later
<1>4. CASE Cleared
  <2>1. phase = "waiting" /\ phase' \in {"step", "off"} /\ UNCHANGED failed
    BY <1>4 DEF Cleared, Dispose
  <2>2. QED
    BY <2>1 DEF Inv, RunInv
<1>5. CASE PressFirst \/ PressFinal
  BY <1>5 DEF PressFirst, PressFinal, Inv, RunInv
<1>6. CASE Report \/ ReportHealth
  <2>1. page \in Pages /\ UNCHANGED <<page, pressed, failed>> /\ ~failed
    BY <1>6 DEF Report, ReportHealth, world, Inv, TypeOK, RunInv
  <2>2. guard'[Place(page)].is = "complete"
    BY <1>6, <2>1, PageFacts DEF Report, ReportHealth, Healthy, Inv, TypeOK
  <2>3. phase' = "off" \/ (phase' = "settled" /\ pressed)
    BY <1>6 DEF Report, ReportHealth, Healthy, Inv, RunInv
  <2>4. QED
    BY <2>1, <2>2, <2>3 DEF RunInv, Place
<1>7. CASE CloseDue
  <2>1. phase = "settled" /\ phase' = "reading" /\ UNCHANGED <<page, guard, pressed, failed>>
    BY <1>7 DEF CloseDue, world
  <2>2. QED
    BY <2>1 DEF Inv, RunInv, Place
<1>8. CASE UNCHANGED vars \/ SettingsChange \/ ChallengeChanges
  <2>1. UNCHANGED <<page, phase, consuming, guard, pressed, failed>>
    BY <1>8 DEF vars, SettingsChange, ChallengeChanges, run
  <2>2. QED
    BY <2>1 DEF Inv, RunInv, Place, Later
<1>9. CASE TimePasses
  <2>1. UNCHANGED <<page, phase, consuming, pressed, failed>>
        /\ guard' = [g \in DOMAIN guard |-> Aged(guard[g])]
    BY <1>9 DEF TimePasses, run
  <2>2. phase # "off" => page \in Pages /\ guard'[Place(page)].is = guard[Place(page)].is
    BY <2>1, PageFacts DEF Inv, TypeOK, Mark, Aged
  <2>3. QED
    BY <2>1, <2>2 DEF Inv, RunInv, Place, Later
<1>10. QED
  BY <1>1, <1>2, <1>3, <1>4, <1>5, <1>6, <1>7, <1>8, <1>9 DEF Next

LEMMA InvInit == ASSUME SitesOK, Init PROVE Inv
<1>1. TypeOK
  BY TypeInit
<1>2. SessionOwed /\ NameOwed /\ RunInv
  BY DEF Init, SessionOwed, NameOwed, RunInv
<1>3. QED
  BY <1>1, <1>2 DEF Inv

LEMMA InvStep == ASSUME SitesOK, Inv, [Next]_vars PROVE Inv'
<1>1. TypeOK'
  BY TypeStep DEF Inv
<1>2. QED
  BY <1>1, OwedStep, RunStep DEF Inv

\* A page whose run relies on an earlier one gets past the challenge only when
\* a record fits it, and a record that fits is owed.
LEMMA OwnedStep ==
  ASSUME SitesOK, Inv, [Next]_vars, phase = "waiting", phase' = "step", Later \/ consuming
  PROVE  \E f \in Files : owed[f][Here] > 0 /\ (page.site.kind # "blind" => f = page.file)
<1>1. consuming /\ page \in Pages
  BY DEF Inv, TypeOK, RunInv
<1>2. Cleared
  BY DEF Next, Load, NotAutomated, NotOwned, SkippedByGuard, ClaimFails, Blocked, Begin,
     Deciding, GateTimesOut, PressFirst, PressFinal, Report, ReportHealth, Healthy, Fail,
     RepeatTimesOut, NotifyMainFailure, Dispose, CloseDue, CloseNow, RouteChanges,
     SettingsChange, ChallengeChanges, TimePasses, run, vars
<1>3. Fits
  BY <1>1, <1>2 DEF Cleared, Dispose
<1>4. Found \in Record /\ owed[Found.file][Here] > 0
      /\ (page.site.kind # "blind" => Found.file = page.file)
  BY <1>1, <1>3, FitsIsOwed
<1>5. QED
  BY <1>4 DEF Record

LEMMA ClosingStep ==
  ASSUME SitesOK, Inv, [Next]_vars, closed', ~closed
  PROVE  /\ pressed /\ ~failed /\ guard[Place(page)].is = "complete"
         /\ closes /\ ~challenge
<1>1. CloseNow
  BY DEF Next, Load, NotAutomated, NotOwned, SkippedByGuard, ClaimFails, Blocked, Begin,
     Deciding, Cleared, GateTimesOut, PressFirst, PressFinal, Report, ReportHealth, Fail,
     RepeatTimesOut, NotifyMainFailure, CloseDue, RouteChanges,
     SettingsChange, ChallengeChanges, TimePasses, vars
<1>2. QED
  BY <1>1 DEF CloseNow, Inv, RunInv

\* For any hosts and routes, a page that relies on an earlier one acts only once
\* for each automated first page, in time, and for the same file where its path
\* names one: what inspect(), claim() and consume() of the two storages make of
\* the records, across reloads, other files, other hosts and challenges.
THEOREM StagesOwned == SitesOK => (Spec => StageIsOwned)
<1>1. SUFFICES ASSUME SitesOK PROVE Spec => StageIsOwned
  OBVIOUS
<1>2. Init => Inv
  BY <1>1, InvInit
<1>3. Inv /\ [Next]_vars => Inv'
  BY <1>1, InvStep
<1>4. Inv /\ [Next]_vars =>
        [phase = "waiting" /\ phase' = "step" /\ (Later \/ consuming) =>
           \E f \in Files : owed[f][Here] > 0 /\ (page.site.kind # "blind" => f = page.file)]_vars
  BY <1>1, OwnedStep
<1>5. QED
  BY <1>2, <1>3, <1>4, PTL DEF Spec, StageIsOwned

\* For any hosts and routes, the add-on closes a tab only for a download its own
\* run started on the page that is there (reportAddonHealthy(), closing timer).
THEOREM ClosingOwned == SitesOK => (Spec => ClosesItsOwnDownload)
<1>1. SUFFICES ASSUME SitesOK PROVE Spec => ClosesItsOwnDownload
  OBVIOUS
<1>2. Init => Inv
  BY <1>1, InvInit
<1>3. Inv /\ [Next]_vars => Inv'
  BY <1>1, InvStep
<1>4. Inv /\ [Next]_vars =>
        [closed' /\ ~closed => /\ pressed /\ ~failed /\ guard[Place(page)].is = "complete"
                               /\ closes /\ ~challenge]_vars
  BY <1>1, ClosingStep
<1>5. QED
  BY <1>2, <1>3, <1>4, PTL DEF Spec, ClosesItsOwnDownload
=============================================================================
