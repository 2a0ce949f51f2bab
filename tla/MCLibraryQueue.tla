--------------------------- MODULE MCLibraryQueue ---------------------------
(* Small instances of LibraryQueue for TLC.                                *)
EXTENDS LibraryQueue, TLC

CONSTANTS t1, p1, p2, a, b

OneTab == [p \in Runs |-> t1]

\* One scheduler over days, cycles and closings, and no command beside its run.
Alone == [runs |-> {p1}, threads |-> {a, b}, cap |-> 2, attempts |-> 2, days |-> 2,
          cycles |-> 2, closings |-> 1, freezes |-> 0, commands |-> {}, asks |-> 0]

\* One record in one cycle, a frozen tab, and a command of the user beside the run.
Commanded == [runs |-> {p1, p2}, threads |-> {a}, cap |-> 1, attempts |-> 1, days |-> 1,
              cycles |-> 1, closings |-> 0, freezes |-> 1,
              commands |-> {"stop", "pause", "restart", "save", "unblock"}, asks |-> 1]

BothScenes == {Alone, Commanded}
LiveScenes == {[Alone EXCEPT !.cap = 1, !.cycles = 1]}
PartialScenes == {[Commanded EXCEPT !.attempts = 2, !.freezes = 0, !.commands = {"pause"}]}

Perms == Permutations({a, b}) \cup Permutations({p1, p2})
=============================================================================
