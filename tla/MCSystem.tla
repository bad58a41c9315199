------------------------------ MODULE MCSystem ------------------------------
(* The tests of the repository, for TLC. *)
EXTENDS SystemRefinement

NineSlots == 0 .. 8

\* What MboxCondReceive of the library returns if there is no message.
LibraryNoMsg == -2

AllTests == DOMAIN Programs \ {"zappedWaiter"}
ZappedWaiter == {"zappedWaiter"}
=============================================================================
