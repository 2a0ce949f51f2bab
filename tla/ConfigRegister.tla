--------------------------- MODULE ConfigRegister ---------------------------
(***************************************************************************)
(* What the configuration store promises its tabs: one versioned register. *)
(* Each edit is added to the value in one atomic step under a new revision *)
(* number; a format change takes a new number too and keeps the value.     *)
(***************************************************************************)
EXTENDS Naturals

CONSTANT Edits

VARIABLES value, revision

Init == value \in SUBSET Edits /\ revision \in Nat

Commit(e) ==
  /\ e \in Edits \ value
  /\ value' = value \cup {e}
  /\ revision' = revision + 1

Reformat == revision' = revision + 1 /\ UNCHANGED value

Next == (\E e \in Edits : Commit(e)) \/ Reformat

Spec == Init /\ [][Next]_<<value, revision>>
=============================================================================
