--------------------------- MODULE MCConfigStore ---------------------------
(* Small instances of ConfigStore for TLC.                                 *)
EXTENDS ConfigStore, TLC

Start(c, b, m, l) == [canonical |-> c, backup |-> b, marker |-> m, legacy |-> l]

CONSTANT Old   \* an edit an earlier release stored

Fresh == Start(NoEnvelope, NoEnvelope, FALSE, FALSE)
Schema1 == Start(Envelope(1, 1, {Old}), NoEnvelope, TRUE, FALSE)

\* Every kind of content the load distinguishes and no damage explains.
AllStarts ==
  {Fresh, Schema1,
   Start(NoEnvelope, NoEnvelope, FALSE, TRUE),
   Start(Envelope(1, 2, {Old}), Envelope(1, 1, {}), FALSE, FALSE)}

FreshOrSchema1 == {Fresh, Schema1}

CurrentStart ==
  {Start(Envelope(2, 2, {Old}), Envelope(2, 1, {Old}), TRUE, FALSE)}

Perms == Permutations(Tabs) \cup Permutations(Edits \ {Old})

LockPerms == Permutations(LockTabs) \cup Permutations(Edits \ {Old})
=============================================================================
