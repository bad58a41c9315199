-------------------------- MODULE SystemRefinement --------------------------
(***************************************************************************)
(* What each component sees of the whole.  The processes of phase 3 have   *)
(* the mailboxes of the handshakes and ProcTableMutex, the semaphores have *)
(* all others; a process that is in a handler of one component is, for the *)
(* other, in its program.                                                  *)
(***************************************************************************)
EXTENDS System

\* The mailboxes of the processes: ProcTableMutex and those of handshakes.
UserBoxes == {1} \cup ({mboxID[p] : p \in Procs} \ {EMPTY})

\* UserProcs, of which the whole is seen through those mailboxes and labels.
userMbox == [b \in Boxes |-> IF b \in UserBoxes THEN mbox[b] ELSE ClosedBox]
userPc == [p \in Procs |-> IF pc[p] \in P!Labels THEN pc[p] ELSE "user"]
userReady == ready \cup {p \in Procs : userPc[p] = "user"}

Users == INSTANCE ChildListProofs
    WITH mbox <- userMbox, pc <- userPc, ready <- userReady,
         FirstFree <- FALSE, ProcTableMutex <- 1, MaxPid <- Unbounded,
         Spawners <- Procs

\* Semaphores, of which it is seen through the others.
semMbox == [b \in Boxes |-> IF b \in UserBoxes THEN ClosedBox ELSE mbox[b]]
semPc == [p \in Procs |-> IF pc[p] \in S!Labels THEN pc[p] ELSE "user"]
semReady == ready \cup {p \in Procs : semPc[p] = "user"}

Sems == INSTANCE SemUnitProofs
    WITH mbox <- semMbox, pc <- semPc, ready <- semReady,
         FirstFree <- FALSE, InitValues <- Int, Calls <- {"SemCreate", "SemP", "SemV"},
         WildHandles <- {}, Zappable <- Procs, MaxUnits <- Unbounded,
         MaxTableCalls <- Unbounded

----------------------------------------------------------------------------
(* Programs that do as the semaphores expect: whoever is about to make a   *)
(* call makes none to SemFree, passes SemP and SemV a handle that a        *)
(* SemCreate has returned, and SemCreate a number.                         *)
WellBehaved ==
    \A p \in Procs :
        P!At(p, "user") =>
            LET call == NextCall(p) IN
            /\ call.call # "SemFree"
            /\ call.call = "SemCreate" => call.value \in Int
            /\ call.call \in {"SemP", "SemV"} => handles[call.sem] \in known

\* In these, a semaphore is freed; in errors, handles are made up as well.
FreeingTests == {"test08", "test09", "test16", "errors"}

(* All other tests are such programs: the handle that semCreate puts into  *)
(* arg1 and SemCreate stores (src/phase3.c:289, src/libuser.c:124) is that *)
(* of the semaphore which it has created, and of none that does not exist  *)
(* when the program comes to use it.                                       *)
HandlesGood == test \in FreeingTests \/ WellBehaved

(* spawnReal, spawnLaunch, waitReal and terminateReal do, in the whole of  *)
(* phase 3, what they do with the mailboxes to themselves: every step of   *)
(* System is one of UserProcs or does not concern it.                      *)
UsersRefined == Users!Spec

(* What UserProcs promises holds in the whole, where MboxCreate gives the  *)
(* handshakes of spawnReal ids among those of semaphores: a process runs   *)
(* the program it was spawned for, the child lists are those of the        *)
(* kernel, and terminateReal zaps its own children and passes over none.   *)
Promises ==
    /\ P!OwnProgram
    /\ P!ChildListsMatch
    /\ P!ZapsOwnChildren
    /\ P!ChildrenFirst

(* What Semaphores promises holds in the whole, where processes are zapped *)
(* and terminate in the middle of semPReal and handshakes send to mailboxes *)
(* next to blockingMbox: the mutex of a semaphore excludes, nobody gets    *)
(* through SemP without a unit, and currentNumSems is right.               *)
SemPromises ==
    /\ S!SemMutexExclusion
    /\ S!NoPhantomUnit
    /\ S!TableAccounting
=============================================================================
