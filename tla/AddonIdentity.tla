---------------------------- MODULE AddonIdentity ----------------------------
(* What the core keeps about one add-on whose identity was renamed (state.js  *)
(* and the aliases of catalog.js): the state bucket and the installation data *)
(* under its legacy and its canonical ID, which every commit merges into the  *)
(* canonical one, and the candidate that storage actions stage and commit as  *)
(* a difference later.                                                        *)
(*                                                                            *)
(* Every commit goes through updateConfig() and works on the settings as they *)
(* are then; it is one step, or refused.  A bucket is abstracted to the flag  *)
(* "enabled" and one value of the add-on's own; of the installation data only *)
(* the two instants are kept.                                                 *)
EXTENDS Naturals, Sequences

CONSTANTS
  MaxClock,   \* bound: instants of a sighting
  MaxOps,     \* bound: operations
  Legacy      \* what may be stored under the legacy ID in the beginning

VARIABLES
  known,    \* the catalog with the alias is loaded
  root,     \* config.addons: states and metas by ID
  staged,   \* pendingAddonConfig and pendingAddonBase
  pending,  \* calls of persistAddonsState() whose commit is to come
  clock, ops,
  chosen,   \* ghost: what the user chose last, by ID
  sighted,  \* ghost: the first sighting, by ID
  blind     \* ghost: a candidate older than the stored buckets made or moved one

vars == <<known, root, staged, pending, clock, ops, chosen, sighted, blind>>

Ids == {"old", "new"}
Unset == "unset"
NoBucket == [has |-> FALSE, enabled |-> Unset, value |-> Unset]
NoMeta == [has |-> FALSE, first |-> 0, last |-> 0]
NotStaged == [on |-> FALSE, base |-> [states |-> [i \in Ids |-> NoBucket],
                                      metas |-> [i \in Ids |-> NoMeta]],
              cand |-> [states |-> [i \in Ids |-> NoBucket], metas |-> [i \in Ids |-> NoMeta]]]

Earliest(m, n) == IF m = 0 \/ (n # 0 /\ n < m) THEN n ELSE m
Latest(m, n) == IF m > n THEN m ELSE n

\* Faulty variant: legacy fields win.
MergedStateLegacyFirst(legacy, canonical) ==
  [has |-> TRUE,
   enabled |-> IF legacy.enabled # Unset THEN legacy.enabled ELSE canonical.enabled,
   value |-> IF legacy.value # Unset THEN legacy.value ELSE canonical.value]

\* mergeObjectState(): canonical fields win.
MergedState(legacy, canonical) ==
  [has |-> TRUE,
   enabled |-> IF canonical.enabled # Unset THEN canonical.enabled ELSE legacy.enabled,
   value |-> IF canonical.value # Unset THEN canonical.value ELSE legacy.value]

\* Faulty variant: the canonical sighting is kept as it is.
MergedMetaCanonical(legacy, canonical) ==
  IF canonical.has THEN canonical ELSE legacy

\* mergeInstalledMeta()
MergedMeta(legacy, canonical) ==
  [has |-> TRUE, first |-> Earliest(legacy.first, canonical.first),
   last |-> Latest(legacy.last, canonical.last)]

\* canonicalizeAddonIdentityRoot(), with the aliases that are known.
Canonical(r) ==
  IF ~known THEN r
  ELSE [states |-> IF ~r.states["old"].has THEN r.states
                   ELSE [r.states EXCEPT !["old"] = NoBucket,
                                         !["new"] = MergedState(r.states["old"], @)],
        metas |-> IF ~r.metas["old"].has THEN r.metas
                  ELSE [r.metas EXCEPT !["old"] = NoMeta,
                                       !["new"] = MergedMeta(r.metas["old"], @)]]

Resolve(i) == IF known THEN "new" ELSE i

Init ==
  /\ known \in BOOLEAN
  /\ root \in [states : [Ids -> {NoBucket}], metas : [Ids -> {NoMeta}]]
       \cup {[states |-> [i \in Ids |-> IF i = "old" THEN b ELSE NoBucket],
              metas |-> [i \in Ids |-> IF i = "old" THEN [has |-> TRUE, first |-> 1, last |-> 1]
                                       ELSE NoMeta]] : b \in Legacy}
  /\ staged = NotStaged /\ pending = <<>>
  /\ clock = 1 /\ ops = 0
  /\ chosen = [i \in Ids |-> root.states[i].enabled]
  /\ sighted = [i \in Ids |-> root.metas[i].first]
  /\ blind = FALSE

Count == ops < MaxOps /\ ops' = ops + 1

\* applyInstalledAddonMeta()
Seen(meta) ==
  [has |-> TRUE, first |-> IF meta.first > 0 THEN meta.first ELSE clock, last |-> clock]

SightedNow(i) == [sighted EXCEPT ![i] = IF @ = 0 THEN clock ELSE @]

\* upsertInstalledAddonMeta(): the add-on has registered.
Upsert(i) ==
  /\ Count
  /\ root' = [Canonical(root) EXCEPT !.metas[Resolve(i)] = Seen(@)]
  /\ sighted' = SightedNow(Resolve(i))
  /\ UNCHANGED <<known, staged, pending, clock, chosen, blind>>

\* setAddonEnabledState(): the flag and the status in one commit.
SetEnabled(i, choice) ==
  /\ Count
  /\ root' = [Canonical(root) EXCEPT !.metas[Resolve(i)] = Seen(@),
                                     !.states[Resolve(i)].has = TRUE,
                                     !.states[Resolve(i)].enabled = choice]
  /\ chosen' = [chosen EXCEPT ![Resolve(i)] = choice]
  /\ sighted' = SightedNow(Resolve(i))
  /\ UNCHANGED <<known, staged, pending, clock, blind>>

\* Faulty variant: the legacy bucket is not moved first.
RemoveCanonicalOnly(i) ==
  /\ Count
  /\ root' = [root EXCEPT !.states[Resolve(i)] = NoBucket, !.metas[Resolve(i)] = NoMeta]
  /\ chosen' = [j \in Ids |-> IF known \/ j = i THEN Unset ELSE chosen[j]]
  /\ sighted' = [j \in Ids |-> IF known \/ j = i THEN 0 ELSE sighted[j]]
  /\ UNCHANGED <<known, staged, pending, clock, blind>>

\* removeAddonInstallationTrace()
RemoveTrace(i) ==
  /\ Count
  /\ root' = [Canonical(root) EXCEPT !.states[Resolve(i)] = NoBucket, !.metas[Resolve(i)] = NoMeta]
  /\ chosen' = [j \in Ids |-> IF known \/ j = i THEN Unset ELSE chosen[j]]
  /\ sighted' = [j \in Ids |-> IF known \/ j = i THEN 0 ELSE sighted[j]]
  /\ UNCHANGED <<known, staged, pending, clock, blind>>

-----------------------------------------------------------------------------
(* ensureAddonStateBucket() and persistAddonsState().                         *)

\* The candidate an earlier action staged, or a fresh one.
Staged(i) ==
  LET s == IF staged.on THEN staged
           ELSE [on |-> TRUE, base |-> root, cand |-> Canonical(root)]
  IN  [s EXCEPT !.cand.states[Resolve(i)].has = TRUE]

\* storage.get and storage.getUsage stage a candidate and leave it.
Read(i) ==
  /\ Count
  /\ staged' = Staged(i)
  /\ UNCHANGED <<known, root, pending, clock, chosen, sighted, blind>>

\* storage.set
Put(i, v) ==
  /\ Count
  /\ LET s == [Staged(i) EXCEPT !.cand.states[Resolve(i)].value = v]
     IN  pending' = Append(pending, [base |-> s.base, cand |-> Canonical(s.cand)])
  /\ staged' = NotStaged
  /\ UNCHANGED <<known, root, clock, chosen, sighted, blind>>

\* applyAddonChanges() for one entry: what changed between before and after.
\* An entry that both have is made in the target when it is gone there.
Field(f, target, before, after) == IF before[f] = after[f] THEN target[f] ELSE after[f]
ChangedState(target, before, after) ==
  IF before.has /\ after.has
  THEN [has |-> TRUE, enabled |-> Field("enabled", target, before, after),
        value |-> Field("value", target, before, after)]
  ELSE IF before.has \/ after.has THEN after ELSE target
ChangedMeta(target, before, after) ==
  IF before.has /\ after.has
  THEN [has |-> TRUE, first |-> Field("first", target, before, after),
        last |-> Field("last", target, before, after)]
  ELSE IF before.has \/ after.has THEN after ELSE target

\* Faulty variant: the whole candidate is written, not what changed in it.
AppliedWhole(target, p) == p.cand

Applied(target, p) ==
  [states |-> [i \in Ids |-> ChangedState(target.states[i], p.base.states[i], p.cand.states[i])],
   metas |-> [i \in Ids |-> ChangedMeta(target.metas[i], p.base.metas[i], p.cand.metas[i])]]

\* A difference that is empty is skipped; a commit may be refused.
Persist ==
  /\ pending # <<>>
  /\ pending' = Tail(pending)
  /\ LET p == Head(pending)
     IN  \/ /\ p.base # p.cand
            /\ root' = Applied(root, p)
            /\ blind' = (blind \/ (root # p.base /\ \E i \in Ids :
                 \/ p.base.states[i].has # p.cand.states[i].has
                 \/ p.base.metas[i].has # p.cand.metas[i].has))
         \/ UNCHANGED <<root, blind>>
  /\ UNCHANGED <<known, staged, clock, ops, chosen, sighted>>

-----------------------------------------------------------------------------
\* rebuildCatalogCache(): the catalog names the alias.
LearnAlias ==
  /\ ~known /\ known' = TRUE
  /\ UNCHANGED <<root, staged, pending, clock, ops, chosen, sighted, blind>>

\* The page is loaded anew.
Reload ==
  /\ staged' = NotStaged /\ pending' = <<>>
  /\ UNCHANGED <<known, root, clock, ops, chosen, sighted, blind>>

Tick ==
  /\ clock < MaxClock /\ clock' = clock + 1
  /\ UNCHANGED <<known, root, staged, pending, ops, chosen, sighted, blind>>

Next ==
  \/ \E i \in Ids :
       \/ Upsert(i) \/ RemoveTrace(i) \/ Read(i)
       \/ \E c \in {"on", "off"} : SetEnabled(i, c)
       \/ \E v \in {"x", "y"} : Put(i, v)
  \/ Persist \/ LearnAlias \/ Reload \/ Tick

Spec == Init /\ [][Next]_vars

-----------------------------------------------------------------------------
(* Properties.                                                                *)

Buckets == [has : BOOLEAN, enabled : {Unset, "on", "off"}, value : {Unset, "x", "y"}]
Metas == [has : BOOLEAN, first : 0 .. MaxClock, last : 0 .. MaxClock]
Roots == [states : [Ids -> Buckets], metas : [Ids -> Metas]]

\* Every variable has its type.
TypeOK ==
  /\ known \in BOOLEAN /\ blind \in BOOLEAN
  /\ root \in Roots
  /\ staged \in [on : BOOLEAN, base : Roots, cand : Roots]
  /\ \A i \in DOMAIN pending : pending[i] \in [base : Roots, cand : Roots]
  /\ clock \in 1 .. MaxClock /\ ops \in 0 .. MaxOps
  /\ chosen \in [Ids -> {Unset, "on", "off"}] /\ sighted \in [Ids -> 0 .. MaxClock]

\* What every listing shows: the root as it is merged for it.
View == Canonical(root)

Chosen == IF chosen["new"] # Unset THEN chosen["new"] ELSE chosen["old"]

\* "Canonical state fields win conflicts": an add-on that was installed under
\* its legacy ID is, once the alias is known, enabled or not as the user last
\* chose, and as the legacy ID has it where nothing was chosen since.
CanonicalFieldsWin ==
  known /\ sighted["old"] # 0 => View.states["new"].enabled = Chosen

\* A candidate, however old it is when it is committed, undoes no choice of the
\* user that was made after it was staged, unless it makes or moves a whole
\* bucket.
ChoiceHolds == known /\ ~blind => View.states["new"].enabled = Chosen

\* The earliest sighting of an installation is retained over the renaming.
FirstSightingHolds ==
  known /\ ~blind => View.metas["new"].first = Earliest(sighted["old"], sighted["new"])
=============================================================================
