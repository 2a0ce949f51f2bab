--------------------------- MODULE ConfigTransfer ---------------------------
(* Import and export of the settings as a file, the schema that judges the    *)
(* settings of a file and of the storage, and the dialog that leads through   *)
(* it, in several tabs over one storage.                                      *)
(*                                                                            *)
(* Four sections stand for the schema's: "flags" for the objects of known     *)
(* switches (threadSettings), "latest" for latestSettings with a number of    *)
(* its own and the map of marker providers, "tags" for the catalog and        *)
(* "picks" for the lists of ids.  What is of the wrong type or out of range   *)
(* is "bad".  A commit is one step here; ConfigStore has its parts.           *)
EXTENDS Naturals, Sequences, FiniteSets, SequencesExt

CONSTANTS
  Tabs,
  Ids,         \* tag ids in their range
  Texts,       \* the id that a text of a file stands for
  Documents,   \* the files a user may choose
  Storages,    \* what the storage may hold when the tabs start
  MarkerLimit, \* providers a user may set
  MaxImports,  \* bound: files chosen
  MaxEdits     \* bound: edits of settings

VARIABLES
  stored,    \* the settings in the storage
  revision,
  known,     \* knownRevision of a tab
  live,      \* config of a tab
  picker,    \* activePicker of its dialog: a file picker is open
  reloading, \* the tab is about to be loaded again
  jobs,      \* the files chosen, in that order
  edits

vars == <<stored, revision, known, live, picker, reloading, jobs, edits>>

-----------------------------------------------------------------------------
(* The schema.                                                                *)

Sections == {"flags", "latest", "tags", "picks"}
FlagKeys == {"y"}
MarkerKeys == {"p", "q", "r"}  \* p, the library's, is always there
DefaultConfig ==
  [flags |-> [k \in FlagKeys |-> "f"], latest |-> [x |-> "f", markers |-> [k \in {"p"} |-> "t"]],
   tags |-> <<>>, picks |-> <<>>]

Valid(data, issues) == [data |-> data, valid |-> ~issues]

\* validateNode() of an object with known keys: what is missing or, when
\* tolerant, bad becomes the default.
Known(raw, default, strict) ==
  Valid([k \in DOMAIN default |-> IF k \in DOMAIN raw /\ (strict \/ raw[k] # "bad") THEN raw[k]
                                 ELSE default[k]],
        \E k \in DOMAIN raw : k \notin DOMAIN default \/ raw[k] = "bad")

ValidFlags(raw, strict) == Known(raw, DefaultConfig.flags, strict)

\* Of a map with one known key: other keys of the wrong form are dropped when
\* tolerant.
ValidMarkers(raw, strict) ==
  LET kept == {"p"} \union {k \in DOMAIN raw : strict \/ k \in MarkerKeys}
  IN  Valid([k \in kept |-> IF k \in DOMAIN raw /\ (strict \/ raw[k] # "bad") THEN raw[k] ELSE "t"],
            \/ \E k \in DOMAIN raw : k \notin MarkerKeys \/ raw[k] = "bad"
            \/ Cardinality(kept) > MarkerLimit)

\* An object with a number and a map.
ValidLatest(raw, strict) ==
  LET number == Known([k \in DOMAIN raw \ {"markers"} |-> raw[k]], [x |-> DefaultConfig.latest.x], strict)
      markers == IF "markers" \in DOMAIN raw THEN ValidMarkers(raw.markers, strict)
                 ELSE Valid(DefaultConfig.latest.markers, FALSE)
  IN  Valid([x |-> number.data.x, markers |-> markers.data], ~number.valid \/ ~markers.valid)

\* The first of each.
Distinct(list) ==
  LET first == {i \in DOMAIN list : \A j \in 1 .. i - 1 : list[j] # list[i]}
  IN  [n \in 1 .. Cardinality(first) |->
         list[CHOOSE i \in first : Cardinality({j \in first : j <= i}) = n]]

\* Faulty variant: tolerant of an id that is listed twice.
ValidListTwice(raw, strict) ==
  LET good == SelectSeq(raw, LAMBDA e : e \in Ids)
  IN  Valid(IF strict THEN raw ELSE good, good # raw \/ ~IsInjective(raw))

\* Of an array: bad items and repetitions are dropped when tolerant.
ValidList(raw, strict) ==
  LET good == SelectSeq(raw, LAMBDA e : e \in Ids)
  IN  Valid(IF strict THEN raw ELSE Distinct(good), good # raw \/ ~IsInjective(raw))

\* A tag without an id gets the default, 0, which is out of range; that is an
\* issue only when it is looked at again.
ValidTags(raw, strict) ==
  LET good == SelectSeq(raw, LAMBDA e : e # "zero")
      filled(list) == [i \in DOMAIN list |-> IF list[i] = "none" THEN "zero" ELSE list[i]]
  IN  Valid(IF strict THEN filled(raw) ELSE Distinct(filled(good)), good # raw \/ ~IsInjective(raw))

ValidateSection(s, raw, strict) ==
  CASE s = "flags" -> ValidFlags(raw, strict)
    [] s = "latest" -> ValidLatest(raw, strict)
    [] s = "tags" -> ValidTags(raw, strict)
    [] OTHER -> ValidList(raw, strict)

\* validateConfig(): of the sections that are there, or of all.
ValidateConfig(raw, strict, partial) ==
  LET judged == [s \in Sections \cap DOMAIN raw |-> ValidateSection(s, raw[s], strict)]
  IN  Valid([s \in (IF partial THEN DOMAIN judged ELSE Sections) |->
               IF s \in DOMAIN judged THEN judged[s].data ELSE DefaultConfig[s]],
            ~(DOMAIN raw \subseteq Sections) \/ \E s \in DOMAIN judged : ~judged[s].valid)

Sanitized(raw) == ValidateConfig(raw, FALSE, FALSE).data

-----------------------------------------------------------------------------
(* Documents.  min is the number that older exports keep beside the sections, *)
(* extra a field or section that cannot be imported.                          *)

FormatVersion == 1
SchemaVersion == 2

\* Faulty variant: the number of older exports is written as well.
ExportWithOld(config) ==
  [format |-> FormatVersion, schema |-> SchemaVersion, extra |-> FALSE, min |-> config.latest.x, settings |-> config]

\* buildConfigExport().
Export(config) ==
  [format |-> FormatVersion, schema |-> SchemaVersion, extra |-> FALSE, min |-> "none", settings |-> config]

\* readDocument().
Readable(doc) ==
  /\ ~doc.extra /\ doc.format <= FormatVersion /\ doc.schema <= SchemaVersion
  /\ doc.min # "none" => doc.format = 0
  /\ DOMAIN doc.settings # {} \/ doc.min # "none"

Legacy(doc) == doc.format < FormatVersion \/ doc.schema < SchemaVersion

\* normalizeImportSettings(), of every file: an id that is written as a text is
\* read as its number.
Number(e) == IF e \in DOMAIN Texts THEN Texts[e] ELSE e
Numbers(settings) ==
  [s \in DOMAIN settings |-> IF s \in {"tags", "picks"}
                            THEN [i \in DOMAIN settings[s] |-> Number(settings[s][i])] ELSE settings[s]]

\* normalizeLegacyTransferSettings(): the number of an older export moves into
\* its section unless it is there already, and switches of the past are dropped.
Normalized(doc) ==
  LET settings == Numbers(doc.settings)
      number == [k \in {"x"} |-> doc.min]
      moved == IF doc.min = "none" THEN settings
               ELSE [s \in {"latest"} |-> IF s \in DOMAIN settings THEN settings.latest @@ number ELSE number]
                    @@ settings
      flags == [k \in DOMAIN moved.flags \ {"old"} |-> moved.flags[k]]
  IN  IF ~Legacy(doc) THEN settings
      ELSE IF "flags" \in DOMAIN moved THEN [s \in {"flags"} |-> flags] @@ moved ELSE moved

\* Faulty variant: what the file does not name is forgotten.
MergeReplaced(s, previous, next) == next

\* mergePartial() of a section that was judged, so that every known key is there.
MergePartial(s, previous, next) ==
  IF s = "latest" THEN [next EXCEPT !.markers = @ @@ previous.markers] ELSE next

Refused == [ok |-> FALSE, candidate |-> DefaultConfig, changed |-> {}]

\* previewConfigImport().
Preview(doc, config) ==
  LET settings == Normalized(doc)
      read == ValidateConfig(settings, TRUE, TRUE)
      candidate == [s \in Sections |-> IF s \in DOMAIN settings THEN MergePartial(s, config[s], read.data[s])
                                       ELSE config[s]]
      complete == ValidateConfig(candidate, TRUE, FALSE)
  IN  IF Readable(doc) /\ doc.min # "bad" /\ read.valid /\ complete.valid
      THEN [ok |-> TRUE, candidate |-> complete.data,
            changed |-> {s \in Sections : complete.data[s] # config[s]}]
      ELSE Refused

-----------------------------------------------------------------------------
(* The tabs.                                                                  *)

Init ==
  /\ stored \in Storages /\ revision = 1
  /\ known = [t \in Tabs |-> 1] /\ live = [t \in Tabs |-> Sanitized(stored)]
  /\ picker = [t \in Tabs |-> FALSE]
  /\ reloading = [t \in Tabs |-> FALSE] /\ jobs = <<>> /\ edits = 0

store == <<stored, revision, known, live>>
screen == <<picker, reloading>>

\* refreshConfigIfStale().
Refreshed(t) == IF revision > known[t] THEN Sanitized(stored) ELSE live[t]

\* The draft is valid, apart from a catalog that is kept as it is.
Committable(draft, catalog) ==
  ValidateConfig(IF catalog THEN draft ELSE [draft EXCEPT !.tags = <<>>], TRUE, FALSE).valid

\* A draft is refused: the tab has been refreshed all the same.
Reject(t) ==
  /\ live' = [live EXCEPT ![t] = Refreshed(t)] /\ known' = [known EXCEPT ![t] = revision]
  /\ UNCHANGED <<stored, revision>>

\* commitConfigNow() for a tab; a write of the storage may fail before anything
\* is changed but the tab's own view, or is taken back.
Commit(t, draft, written) ==
  \/ /\ stored' = written /\ revision' = revision + 1
     /\ live' = [live EXCEPT ![t] = draft] /\ known' = [known EXCEPT ![t] = revision + 1]
  \/ Reject(t)

Waiting(t) == {i \in DOMAIN jobs : jobs[i].tab = t /\ jobs[i].phase = "queued"}

\* The user changes a setting.
Changes(config) == {[config EXCEPT !.latest.markers.p = v] : v \in {"t", "f"}} \ {config}
Edit(t) ==
  /\ edits < MaxEdits /\ edits' = edits + 1 /\ Waiting(t) = {}
  /\ \E draft \in Changes(Refreshed(t)) :
       IF Committable(draft, FALSE) THEN Commit(t, draft, [draft EXCEPT !.tags = stored.tags])
       ELSE Reject(t)
  /\ UNCHANGED <<screen, jobs>>

\* "Import" in the dialog: a picker of files takes the place of the one before.
ClickImport(t) ==
  /\ Len(jobs) < MaxImports /\ picker' = [picker EXCEPT ![t] = TRUE]
  /\ UNCHANGED <<store, reloading, jobs, edits>>

\* The user dismisses it, the focus is back for too long, or the dialog ends.
PickerEnds(t) ==
  /\ picker[t] /\ picker' = [picker EXCEPT ![t] = FALSE]
  /\ UNCHANGED <<store, reloading, jobs, edits>>

\* A file that has no plan (any more).
Job(t, doc, phase) ==
  [tab |-> t, doc |-> doc, phase |-> phase, plan |-> Refused, base |-> DefaultConfig, clean |-> TRUE,
   at |-> 0, turn |-> 0]
Ended(job) == Job(job.tab, job.doc, "refused")

Choose(t, doc) ==
  /\ picker[t] /\ picker' = [picker EXCEPT ![t] = FALSE]
  /\ jobs' = Append(jobs, Job(t, doc, "reading"))
  /\ UNCHANGED <<store, reloading, edits>>

\* The file is read: commitConfigImport() looks at it and waits for its turn,
\* which a file that is read sooner has before one that was chosen before it.
Read(i) ==
  /\ jobs[i].phase = "reading"
  /\ LET plan == Preview(jobs[i].doc, live[jobs[i].tab])
         turn == 1 + Cardinality({j \in DOMAIN jobs : jobs[j].phase # "reading"})
     IN  jobs' = [jobs EXCEPT ![i] = IF ~plan.ok THEN Ended(@)
                                     ELSE [@ EXCEPT !.phase = "queued", !.plan = plan,
                                                    !.base = live[jobs[i].tab], !.turn = turn]]
  /\ UNCHANGED <<store, screen, edits>>

\* Faulty variant: what was looked at is written as it is.
DraftAsSeen(i) == jobs[i].plan.candidate

\* The sections that were to change, over the settings of now.
Draft(i) ==
  [s \in Sections |-> IF s \in jobs[i].plan.changed THEN jobs[i].plan.candidate[s] ELSE Refreshed(jobs[i].tab)[s]]

\* Its turn has come.
Import(i) ==
  LET t == jobs[i].tab
      draft == Draft(i)
  IN  /\ i \in Waiting(t) /\ \A j \in Waiting(t) : jobs[i].turn <= jobs[j].turn
      /\ IF Committable(draft, "tags" \in jobs[i].plan.changed) THEN Commit(t, draft, draft)
         ELSE Reject(t)
      /\ jobs' = [jobs EXCEPT ![i] = IF revision' = revision THEN Ended(@)
                                     ELSE [Job(t, @.doc, "done") EXCEPT !.base = jobs[i].base, !.at = revision',
                                                                        !.clean = (Refreshed(t) = jobs[i].base)]]
      /\ reloading' = [reloading EXCEPT ![t] = @ \/ revision' > revision]
      /\ UNCHANGED <<picker, edits>>

\* The page is loaded again: what was under way in it ends.
Reload(t) ==
  /\ reloading[t] /\ reloading' = [reloading EXCEPT ![t] = FALSE]
  /\ live' = [live EXCEPT ![t] = Sanitized(stored)] /\ known' = [known EXCEPT ![t] = revision]
  /\ picker' = [picker EXCEPT ![t] = FALSE]
  /\ jobs' = [i \in DOMAIN jobs |-> IF jobs[i].tab = t /\ jobs[i].phase \in {"reading", "queued"}
                                    THEN Ended(jobs[i]) ELSE jobs[i]]
  /\ UNCHANGED <<stored, revision, edits>>

Next ==
  \/ \E t \in Tabs :
       \/ Edit(t) \/ ClickImport(t) \/ PickerEnds(t) \/ Reload(t)
       \/ \E doc \in Documents : Choose(t, doc)
  \/ \E i \in DOMAIN jobs : Read(i) \/ Import(i)

Spec == Init /\ [][Next]_vars

-----------------------------------------------------------------------------
(* Properties.                                                                *)

\* Every variable has its type.
TypeOK ==
  /\ \A t \in Tabs : DOMAIN live[t] = Sections /\ known[t] <= revision
  /\ {picker, reloading} \subseteq [Tabs -> BOOLEAN]
  /\ \A i \in DOMAIN jobs : jobs[i].phase \in {"reading", "queued", "refused", "done"}

Numbered(config) == \A i \in DOMAIN config.tags : config.tags[i] # "zero"

\* Whatever the storage held, what a tab works with can be saved again: no
\* issue is left in it, but for a catalog, which a save leaves alone.
LiveCanBeSaved == \A t \in Tabs : Committable(live[t], Numbered(live[t]))

\* An export can be imported where it was made, and then changes nothing, if
\* every tag of the catalog has its id.
ExportComesBack ==
  \A t \in Tabs : Numbered(live[t]) =>
    LET plan == Preview(Export(live[t]), live[t]) IN plan.ok /\ plan.changed = {}

\* What a file says of a section: a list is replaced, a map gains its entries,
\* and of the known keys those it does not name have their defaults.
Means(doc, base, s) ==
  LET said == Numbers(doc.settings)
      named == s \in DOMAIN said
      says(key) == named /\ key \in DOMAIN said[s]
      entries == IF says("markers") THEN said.latest.markers ELSE [k \in {} |-> "t"]
  IN  CASE s = "flags" /\ named ->
             [k \in FlagKeys |-> IF says(k) THEN said.flags[k] ELSE DefaultConfig.flags[k]]
        [] s = "latest" /\ (named \/ doc.min # "none") ->
             [x |-> IF says("x") THEN said.latest.x
                    ELSE IF doc.min # "none" THEN doc.min ELSE DefaultConfig.latest.x,
              markers |-> [k \in DOMAIN entries \union DOMAIN base.latest.markers |->
                             IF k \in DOMAIN entries THEN entries[k]
                             ELSE IF k = "p" THEN "t" ELSE base.latest.markers[k]]]
        [] s \in {"tags", "picks"} /\ named -> said[s]
        [] OTHER -> base[s]

\* After an import the settings are what the file says over what the user had,
\* unless they had changed since the file was looked at.
ImportIsWhole ==
  \A i \in DOMAIN jobs :
    jobs[i].phase = "done" /\ jobs[i].clean /\ jobs[i].at = revision =>
      \A s \in Sections : stored[s] = Means(jobs[i].doc, jobs[i].base, s)

\* A step of an import changes no section that its file does not speak of.
OnlyItsSections ==
  [][\A i \in DOMAIN jobs :
       jobs[i].phase = "queued" /\ jobs'[i].phase = "done" =>
         \A s \in Sections \ DOMAIN jobs[i].doc.settings :
           (s = "latest" => jobs[i].doc.min = "none") => Sanitized(stored')[s] = Sanitized(stored)[s]]_vars
=============================================================================
