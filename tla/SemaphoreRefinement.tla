------------------------ MODULE SemaphoreRefinement ------------------------
(***************************************************************************)
(* As long as nothing frees a semaphore and programs use handles that      *)
(* SemCreate gave them, Semaphores implements CountingSemaphore: the count *)
(* is the number of units, and the step that moves a unit is the store to  *)
(* the count or the mailbox operation that wakes a blocked process.        *)
(***************************************************************************)
EXTENDS Semaphores

\* The steps before the one at which a call has its effect.
PPending == {"p_arg1", "p_lock", "p_test", "p_dec", "p_arg3", "p_open",
             "p_arg4", "p_block"}
VPending == {"v_arg1", "v_lock", "v_test", "v_arg2", "v_wake", "v_inc"}

AbstractCall(p) ==
    IF pc[p] \in PPending \/ (pc[p] = "p_check" /\ p \notin ready)
    THEN [op |-> "P", sem |-> sem[p]]
    ELSE IF pc[p] \in VPending THEN [op |-> "V", sem |-> sem[p]]
    ELSE [op |-> "none", sem |-> EMPTY]

Counting == INSTANCE CountingSemaphore
    WITH Sems <- Slots, MayLose <- NoMsg # 1,
         value <- count, call <- [p \in Procs |-> AbstractCall(p)]

(* SemCreate, SemP and SemV are a counting semaphore: every unit that SemP *)
(* takes was put there by SemCreate or SemV, one process at a time.  Units *)
(* are never lost if MboxCondReceive answers 1 for want of a message, as   *)
(* src/phase2.h:30 has it and semVReal expects (src/phase3.c:762).         *)
CountingSpec == Counting!Spec
=============================================================================
