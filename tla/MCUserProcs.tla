--------------------------- MODULE MCUserProcs ---------------------------
(* Small instances of UserProcs for TLC. *)
EXTENDS UserProcs

ThreeSlots == 0 .. 2
FourSlots == 0 .. 3
FiveSlots == 0 .. 4

\* start3 and its first child.
Start3AndChild == {2, 3}
EverySlot == Procs
=============================================================================
