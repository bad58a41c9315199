---------------------------- MODULE MCSemaphores ----------------------------
(***************************************************************************)
(* Small instances of Semaphores for TLC.                                  *)
(***************************************************************************)
EXTENDS SemaphoreRefinement, TLC

CONSTANTS p1, p2, p3

TwoProcs == {p1, p2}
ThreeProcs == {p1, p2, p3}

\* What MboxCondReceive returns if there is no message: the library of the
\* repository returns -2, the comment in phase2.h says 1.
LibraryNoMsg == -2
DocumentedNoMsg == 1

\* Handles outside the table; 1 is the slot behind a table of one.
BadHandles == {-1, 2}

\* A process is as good as any other.
Symmetry == Permutations(Procs)
=============================================================================
