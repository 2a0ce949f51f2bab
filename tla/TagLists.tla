------------------------------ MODULE TagLists ------------------------------
(***************************************************************************)
(* The lists of preferred, excluded and marked tags: the search, the chips *)
(* and their dragging (ui/components/tag-search), the mutations they queue *)
(* and the refresh of the catalogs, which prunes the lists when the        *)
(* settings are opened (tagsService.js, prefixService.js).                 *)
(*                                                                         *)
(* What happens inside one queued request is ConfigStore's; here a request *)
(* is answered in one step.  A catalog is the set of its tags.             *)
(***************************************************************************)
EXTENDS Naturals, Sequences, FiniteSets, SequencesExt

CONSTANTS
  Tabs, Tags, Lists,
  MaxTurns \* bound: what the user does to the lists, and requests that fail

VARIABLES
  site,     \* the catalog the page offers, empty when there is none
  stored,   \* the tags' cache and the lists in storage
  live,     \* the configuration each tab works with
  queue,    \* its requests
  shown,    \* its chips
  results,  \* the tags its search shows
  drag,     \* its activePointerDrag
  refresh,  \* how far its updateTags() is
  turns,
  catalogs, \* history: the catalogs there have been
  pruned    \* history: what the prunes have taken out

vars == <<site, stored, live, queue, shown, results, drag, refresh, turns, catalogs, pruned>>

NoDrag == [list |-> "none", at |-> 0]
Views == [tags : SUBSET Tags, lists : [Lists -> Seq(Tags)], rev : Nat]
Phases == {"idle", "bridge", "saving", "doomed", "pruning", "complete", "failed"}
Places == 1..Cardinality(Tags)

TypeOK ==
  /\ site \subseteq Tags /\ stored \in Views /\ live \in [Tabs -> Views]
  /\ \A t \in Tabs : \A l \in Lists : shown[t][l] \subseteq (Places \X Tags)
  /\ results \in [Tabs -> SUBSET Tags]
  /\ drag \in [Tabs -> [list : Lists \union {"none"}, at : 0..Cardinality(Tags)]]
  /\ refresh \in [Tabs -> Phases] /\ turns \in 0..MaxTurns
  /\ catalogs \subseteq SUBSET Tags /\ pruned \subseteq Tags

Elements(seq) == {seq[i] : i \in DOMAIN seq}
Selected(v) == UNION {Elements(v.lists[l]) : l \in Lists}

\* renderTagList(): a chip keeps the place its tag has in the list; a tag that
\* the catalog does not name has no chip.
Chips(v, l) == {<<i, v.lists[l][i]>> : i \in {j \in DOMAIN v.lists[l] : v.lists[l][j] \in v.tags}}
Render(t, v, touched) ==
  shown' = [shown EXCEPT ![t] = [l \in Lists |-> IF l \in touched THEN Chips(v, l) ELSE @[l]]]

\* renderList(), for an empty search; the others show fewer tags.
Found(v) == v.tags \ Selected(v)

\* The catalog of the last visit, and at most one selection, perhaps of an
\* earlier catalog.
Init ==
  /\ site \in SUBSET Tags
  /\ \E tags \in SUBSET Tags, l \in Lists, kept \in SeqOf(Tags, 1) :
       stored = [tags |-> tags, lists |-> [k \in Lists |-> IF k = l THEN kept ELSE <<>>], rev |-> 0]
  /\ live = [t \in Tabs |-> stored] /\ queue = [t \in Tabs |-> <<>>]
  /\ shown = [t \in Tabs |-> [l \in Lists |-> {}]] /\ results = [t \in Tabs |-> {}]
  /\ drag = [t \in Tabs |-> NoDrag] /\ refresh = [t \in Tabs |-> "idle"]
  /\ turns = 0 /\ catalogs = {stored.tags} \ {{}} /\ pruned = {}

Enqueue(t, request) == queue' = [queue EXCEPT ![t] = Append(@, request)]
Turn == turns < MaxTurns /\ turns' = turns + 1

-----------------------------------------------------------------------------
(* The panel.                                                              *)

Search(t) ==
  /\ Turn /\ results[t] # Found(live[t]) /\ results' = [results EXCEPT ![t] = Found(live[t])]
  /\ UNCHANGED <<site, stored, live, queue, shown, drag, refresh, catalogs, pruned>>

HideResults(t) ==
  /\ results[t] # {} /\ results' = [results EXCEPT ![t] = {}]
  /\ UNCHANGED <<site, stored, live, queue, shown, drag, refresh, turns, catalogs, pruned>>

\* handleDelegatedResultClick()
Add(t, l, tag) ==
  /\ tag \in results[t] /\ tag \in live[t].tags /\ Turn
  /\ Enqueue(t, [kind |-> "add", list |-> l, tag |-> tag])
  /\ UNCHANGED <<site, stored, live, shown, results, drag, refresh, catalogs, pruned>>

RemoveChip(t, l) ==
  /\ Turn
  /\ \E chip \in shown[t][l] : Enqueue(t, [kind |-> "remove", list |-> l, at |-> chip[1]])
  /\ UNCHANGED <<site, stored, live, shown, results, drag, refresh, catalogs, pruned>>

PointerDown(t, l) ==
  /\ drag[t] = NoDrag /\ Turn
  /\ \E chip \in shown[t][l] : drag' = [drag EXCEPT ![t] = [list |-> l, at |-> chip[1]]]
  /\ UNCHANGED <<site, stored, live, queue, shown, results, refresh, catalogs, pruned>>

\* The pointer is cancelled, the window loses the focus or is hidden.
CancelDrag(t) ==
  /\ drag[t] # NoDrag /\ drag' = [drag EXCEPT ![t] = NoDrag]
  /\ UNCHANGED <<site, stored, live, queue, shown, results, refresh, turns, catalogs, pruned>>

Dropped(t, l, into) ==
  IF drag[t].list = l THEN [kind |-> "reorder", list |-> l, at |-> drag[t].at, into |-> into]
  ELSE [kind |-> "move", from |-> drag[t].list, list |-> l, at |-> drag[t].at, into |-> into]

DropOnItem(t, l) ==
  /\ drag[t] # NoDrag /\ drag' = [drag EXCEPT ![t] = NoDrag]
  /\ \E chip \in shown[t][l] : Enqueue(t, Dropped(t, l, chip[1]))
  /\ UNCHANGED <<site, stored, live, shown, results, refresh, turns, catalogs, pruned>>

\* handleListContainerDrop(): to the end of the list.
DropOnContainer(t, l) ==
  /\ drag[t] # NoDrag /\ drag' = [drag EXCEPT ![t] = NoDrag]
  /\ LET size == Len(live[t].lists[l])
     IN  IF drag[t].list = l /\ size = 0 THEN UNCHANGED queue
         ELSE Enqueue(t, Dropped(t, l, IF drag[t].list = l THEN size ELSE size + 1))
  /\ UNCHANGED <<site, stored, live, shown, results, refresh, turns, catalogs, pruned>>

-----------------------------------------------------------------------------
(* The mutations, applied to the configuration as it is then.              *)

\* Faulty variant: the list is not searched first.
AddTwice(lists, r) == [lists EXCEPT ![r.list] = Append(@, r.tag)]

AddTag(lists, r) == IF Contains(lists[r.list], r.tag) THEN lists
                    ELSE [lists EXCEPT ![r.list] = Append(@, r.tag)]
RemoveTag(lists, r) == IF r.at > Len(lists[r.list]) THEN lists
                       ELSE [lists EXCEPT ![r.list] = RemoveAt(@, r.at)]
Reorder(lists, r) ==
  IF {r.at, r.into} \subseteq DOMAIN lists[r.list] /\ r.at # r.into
  THEN [lists EXCEPT ![r.list] = InsertAt(RemoveAt(@, r.at), r.into, @[r.at])] ELSE lists
Move(lists, r) ==
  LET source == lists[r.from]  target == lists[r.list]
  IN  IF r.at > Len(source) \/ Contains(target, source[r.at]) THEN lists
      ELSE [lists EXCEPT ![r.from] = RemoveAt(@, r.at),
              ![r.list] = IF r.into <= Len(@) + 1 THEN InsertAt(@, r.into, source[r.at])
                          ELSE Append(@, source[r.at])]

Mutated(lists, r) ==
  CASE r.kind = "add" -> AddTag(lists, r)
    [] r.kind = "remove" -> RemoveTag(lists, r)
    [] r.kind = "reorder" -> Reorder(lists, r)
    [] r.kind = "move" -> Move(lists, r)
Touched(r) == {r.list} \union (IF r.kind = "move" THEN {r.from} ELSE {})

-----------------------------------------------------------------------------
(* updateTags()                                                            *)

PruneOf(v) == [l \in Lists |-> SelectSeq(v.lists[l], LAMBDA tag : tag \in v.tags)]

\* Faulty variant: an empty catalog prunes everything.
PruneEvenWithoutCatalog(v) ==
  IF PruneOf(v) = v.lists THEN <<>> ELSE <<[kind |-> "prune", lists |-> PruneOf(v)]>>

\* buildPrunedTagLists(): nothing without a catalog.
Prune(v) ==
  IF v.tags = {} \/ PruneOf(v) = v.lists THEN <<>> ELSE <<[kind |-> "prune", lists |-> PruneOf(v)]>>

Waits(q, kinds) == \E i \in DOMAIN q : q[i].kind \in kinds

\* What becomes of the refresh when a request of it was answered: both saves
\* are awaited, then the lists are pruned, and at the end they are shown.
Proceed(t, phase, rest, v, touched) ==
  LET saved  == phase \in {"saving", "doomed"} /\ ~Waits(rest, {"tags", "prefixes"})
      prune  == IF saved /\ phase = "saving" THEN Prune(v) ELSE <<>>
      next   == IF saved
                THEN IF phase = "doomed" THEN "failed" ELSE IF prune # <<>> THEN "pruning" ELSE "complete"
                ELSE IF phase = "pruning" /\ ~Waits(rest, {"prune"}) THEN "complete" ELSE phase
      ended  == next # refresh[t] /\ next \in {"complete", "failed"}
  IN  /\ queue' = [queue EXCEPT ![t] = rest \o prune]
      /\ refresh' = [refresh EXCEPT ![t] = next]
      /\ Render(t, v, IF ended THEN Lists ELSE touched)

\* Of the two catalogs the tags are compared with the stored ones; whether
\* the prefixes have changed is left open.
SaveCatalogs(t, tags) ==
  LET saves == IF tags \notin {{}, live[t].tags} THEN <<[kind |-> "tags", tags |-> tags]>> ELSE <<>>
  IN  \E more \in {<<>>, <<[kind |-> "prefixes"]>>} : Proceed(t, "saving", queue[t] \o saves \o more, live[t], {})

\* ensureTagsPanelDataLoaded(), once: the catalog is read from the window.
OpenPanel(t) ==
  /\ refresh[t] = "idle"
  /\ \/ site # {} /\ SaveCatalogs(t, site)
     \/ refresh' = [refresh EXCEPT ![t] = "bridge"] /\ UNCHANGED <<queue, shown>>
  /\ UNCHANGED <<site, stored, live, results, drag, turns, catalogs, pruned>>

\* The page bridge answers, or it cannot be installed or runs out of time.
BridgeAnswers(t) ==
  /\ refresh[t] = "bridge"
  /\ \E tags \in {site, {}} : SaveCatalogs(t, tags)
  /\ UNCHANGED <<site, stored, live, results, drag, turns, catalogs, pruned>>

-----------------------------------------------------------------------------
(* Answering a request.                                                    *)

Refused(t) == Proceed(t, refresh[t], Tail(queue[t]), live[t], {})

\* updateConfig(): on the configuration another tab may have left.
Update(t) ==
  LET r == Head(queue[t])  v == [stored EXCEPT !.lists = Mutated(@, r), !.rev = @ + 1]
      changed == v.lists # stored.lists
  IN  /\ queue[t] # <<>> /\ r.kind \in {"add", "remove", "reorder", "move"}
      /\ live' = [live EXCEPT ![t] = IF changed THEN v ELSE stored]
      /\ stored' = IF changed THEN v ELSE stored
      /\ Proceed(t, refresh[t], Tail(queue[t]), live'[t], IF changed THEN Touched(r) ELSE {})
      /\ results' = IF changed /\ r.kind = "add" /\ results[t] # {}
                    THEN [results EXCEPT ![t] = Found(v)] ELSE results
      /\ UNCHANGED <<site, drag, turns, catalogs, pruned>>

\* saveConfigKeys({tags}), refused when another tab has replaced the cache.
SaveTags(t) ==
  LET r == Head(queue[t])  v == [stored EXCEPT !.tags = r.tags]
      current == stored.tags = live[t].tags
  IN  /\ queue[t] # <<>> /\ r.kind = "tags"
      /\ stored' = IF current THEN v ELSE stored
      /\ live' = [live EXCEPT ![t] = IF current THEN v ELSE @]
      /\ catalogs' = IF current THEN catalogs \union {r.tags} ELSE catalogs
      /\ Proceed(t, refresh[t], Tail(queue[t]), live'[t], {})
      /\ UNCHANGED <<site, results, drag, turns, pruned>>

SavePrefixes(t) ==
  /\ queue[t] # <<>> /\ Head(queue[t]).kind = "prefixes"
  /\ live' = [live EXCEPT ![t] = stored]
  /\ Proceed(t, refresh[t], Tail(queue[t]), stored, {})
  /\ UNCHANGED <<site, stored, results, drag, turns, catalogs, pruned>>

\* saveConfigKeys() with the three lists, refused when another tab has
\* committed since.
SavePruned(t) ==
  LET r == Head(queue[t])  v == [stored EXCEPT !.lists = r.lists, !.rev = @ + 1]
      current == stored.rev = live[t].rev
  IN  /\ queue[t] # <<>> /\ r.kind = "prune"
      /\ stored' = IF current THEN v ELSE stored
      /\ live' = [live EXCEPT ![t] = IF current THEN v ELSE @]
      /\ pruned' = IF current THEN pruned \union (Selected(stored) \ Selected(v)) ELSE pruned
      /\ Proceed(t, refresh[t], Tail(queue[t]), live'[t], {})
      /\ UNCHANGED <<site, results, drag, turns, catalogs>>

\* A write is rejected: nothing is committed.
RequestFails(t) ==
  /\ queue[t] # <<>> /\ Turn /\ Refused(t)
  /\ UNCHANGED <<site, stored, live, results, drag, catalogs, pruned>>

\* The storage cannot be read: the request throws, and with the tags' or the
\* prune's request the refresh ends.
RequestThrows(t) ==
  LET kind == Head(queue[t]).kind
      phase == CASE kind = "tags" -> "doomed" [] kind = "prune" -> "failed" [] OTHER -> refresh[t]
  IN  /\ queue[t] # <<>> /\ Turn
      /\ Proceed(t, phase, Tail(queue[t]), live[t], {})
      /\ UNCHANGED <<site, stored, live, results, drag, catalogs, pruned>>

Next == \E t \in Tabs :
  \/ Search(t) \/ HideResults(t) \/ CancelDrag(t)
  \/ \E l \in Lists :
       \/ \E tag \in Tags : Add(t, l, tag)
       \/ RemoveChip(t, l) \/ PointerDown(t, l) \/ DropOnItem(t, l) \/ DropOnContainer(t, l)
  \/ OpenPanel(t) \/ BridgeAnswers(t)
  \/ Update(t) \/ SaveTags(t) \/ SavePrefixes(t) \/ SavePruned(t)
  \/ RequestFails(t) \/ RequestThrows(t)

Spec == Init /\ [][Next]_vars

(******************************** Properties *******************************)
\* However the places of chips, the drags and the prunes of two tabs meet, no
\* list names a tag twice: the schema would reject the next candidate.
NoTagTwice == \A l \in Lists : IsInjective(stored.lists[l])

\* "An unavailable catalog is not evidence that the user's selections are
\* invalid" (tagsService.js:197): without any catalog nothing was pruned,
\* whatever failed or timed out.
NoPruneWithoutCatalog == pruned # {} => catalogs # {}

\* The prune takes out what a catalog lacks, and no selection that was confirmed
\* to the user: "Ensure `pruneObsolete()` does not remove user-configured tags
\* without explicit confirmation" (docs/services/tags-and-safety.md:36).
PruneHasEvidence == \A tag \in pruned : \E c \in catalogs : tag \notin c
=============================================================================
