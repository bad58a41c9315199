----------------------------- MODULE UserProcs -----------------------------
(***************************************************************************)
(* The user processes of phase 3: Spawn with its handshake between         *)
(* spawnReal and spawnLaunch, Wait, Terminate, and the table ProcTable of  *)
(* child lists that they share (src/phase3.c, src/phase3utility.c), on top *)
(* of the phase 1 kernel calls fork1, join, zap and quit.                  *)
(*                                                                         *)
(* A process is named by its slot, pid % MAXPROC.  Handlers run with       *)
(* interrupts enabled: every access to the table and every kernel call is  *)
(* a step of its own.                                                      *)
(***************************************************************************)
EXTENDS Mailboxes, FiniteSets

CONSTANTS
    MAXPROC,        \* the size of the process tables
    Start2,         \* the pid of start2, which runs when start3 is spawned
    ProcTableMutex, \* a mailbox id; the global never changes
    MaxPid,         \* bound: no Spawn when the next pid is higher than this
    Spawners        \* bound: the slots whose programs call Spawn

ASSUME UserProcsAssumption ==
    /\ MAXPROC \in Nat \ {0, 1}
    /\ Procs = 0 .. MAXPROC - 1
    /\ Start2 \in 1 .. MAXPROC - 1
    /\ ProcTableMutex \in Boxes
    /\ MaxPid \in Nat
    /\ Spawners \subseteq Procs

VARIABLES
    \* The kernel's process table.
    kstate,         \* "free"; "active"; "quit" until the parent joins or quits
    kpid,
    kparent,
    zapped,         \* the processes that have been zapped
    nextPid,
    halted,         \* USLOSS_Halt was called
    \* ProcTable.
    pid, startFunc, child, nextSibling, parent,
    \* The processes.
    pc,             \* the next step of the process
    mboxID,         \* spawnReal's mbox, spawnLaunch's mboxID
    newPid,         \* spawnReal's pid
    childToZap, pidToZap,
    program         \* what spawnLaunch found in the table to run

kernelVars == <<kstate, kpid, kparent, zapped, nextPid, halted>>
tableVars == <<pid, startFunc, child, nextSibling, parent>>
localVars == <<mboxID, newPid, childToZap, pidToZap, program>>
vars == <<mailboxVars, kernelVars, tableVars, pc, localVars>>

NULL == -1

Slot(id) == id % MAXPROC

SpawnSteps == {"s_create", "s_fork", "s_release", "s_lock", "s_init", "s_link",
               "s_parent", "s_unlock", "s_send"}
LaunchSteps == {"l_receive", "l_release", "l_lock", "l_read", "l_unlock"}
\* The first child; then for each child its pid, zap, and its sibling; then
\* out of the parent's list.
TerminateSteps == {"t_lock", "t_child", "t_unlock",
                   "z_lock", "z_pid", "z_unlock", "z_zap", "z_wait",
                   "n_lock", "n_next", "n_unlock",
                   "r_lock", "r_remove", "r_unlock", "t_quit"}
Labels == SpawnSteps \cup LaunchSteps \cup TerminateSteps
            \cup {"none", "user", "w_join", "return"}

LockSteps == {"s_lock", "l_lock", "t_lock", "z_lock", "n_lock", "r_lock"}
UnlockSteps == {"s_unlock", "l_unlock", "t_unlock", "z_unlock", "n_unlock",
                "r_unlock"}

AfterLock == [s_lock |-> "s_init", l_lock |-> "l_read", t_lock |-> "t_child",
              z_lock |-> "z_pid", n_lock |-> "n_next", r_lock |-> "r_remove"]

\* The while loop of terminateReal ends at the end of the list.
AfterUnlock(p) ==
    [s_unlock |-> "s_send", l_unlock |-> "return", z_unlock |-> "z_zap",
     t_unlock |-> IF childToZap[p] = NULL THEN "r_lock" ELSE "z_lock",
     n_unlock |-> IF childToZap[p] = NULL THEN "r_lock" ELSE "z_lock",
     r_unlock |-> "t_quit"]

At(p, label) == pc[p] = label /\ p \in ready /\ ~halted

Goto(p, label) == pc' = [pc EXCEPT ![p] = label]

\* A list of the table, and what is in it.
Walk(p) ==
    LET walk[n \in 0 .. MAXPROC] ==
            IF n = 0 THEN child[p]
            ELSE IF walk[n - 1] = NULL THEN NULL ELSE nextSibling[walk[n - 1]]
    IN  walk

ChildList(p) == {Walk(p)[n] : n \in 0 .. MAXPROC} \ {NULL}

Kids(p) == {c \in Procs : kparent[c] = p /\ kstate[c] # "free"}
ActiveKids(p) == {c \in Kids(p) : kstate[c] = "active"}

----------------------------------------------------------------------------
(* Faulty variants of the steps below.  Each stands in for its original in *)
(* an experiment that a property has to notice; no specification uses them. *)

\* start2 that makes a mailbox of two slots.
TwoSlots == 2

\* terminateReal without its first unlock().
FirstUnlockForgotten(p) ==
    \E l \in UnlockSteps :
        /\ At(p, l)
        /\ IF l = "t_unlock" THEN UNCHANGED mailboxVars
           ELSE MboxReceive(p, ProcTableMutex)
        /\ Goto(p, AfterUnlock(p)[l])
        /\ UNCHANGED <<kernelVars, tableVars, localVars>>

\* spawnReal that takes the slot modulo a table that is too large.
InitOutside(p) ==
    LET c == newPid[p] % (MAXPROC + 1) IN
    /\ At(p, "s_init")
    /\ pid' = [s \in Procs \cup {c} |-> IF s = c THEN newPid[p] ELSE pid[s]]
    /\ Goto(p, "s_link")
    /\ UNCHANGED <<mailboxVars, kernelVars, startFunc, child, nextSibling, parent,
                   localVars>>

\* spawnReal that does not reset nextSibling.
InitKeepsSibling(p) ==
    LET c == Slot(newPid[p]) IN
    /\ At(p, "s_init")
    /\ pid' = [pid EXCEPT ![c] = newPid[p]]
    /\ startFunc' = [startFunc EXCEPT ![c] = newPid[p]]
    /\ child' = [child EXCEPT ![c] = NULL]
    /\ Goto(p, "s_link")
    /\ UNCHANGED <<mailboxVars, kernelVars, nextSibling, parent, localVars>>

\* spawnLaunch that does not wait for spawnReal, or keeps the mailbox.
ReceiveNothing(p) ==
    /\ At(p, "l_receive")
    /\ Goto(p, "l_release")
    /\ UNCHANGED <<mailboxVars, kernelVars, tableVars, localVars>>

ReleaseNothing(p) ==
    /\ At(p, "l_release")
    /\ mboxID' = [mboxID EXCEPT ![p] = EMPTY]
    /\ Goto(p, "l_lock")
    /\ UNCHANGED <<mailboxVars, kernelVars, tableVars, newPid, childToZap,
                   pidToZap, program>>

\* terminateReal that zaps the first child only, or does not leave the list.
NoSibling(p) ==
    /\ At(p, "n_next")
    /\ childToZap' = [childToZap EXCEPT ![p] = NULL]
    /\ Goto(p, "n_unlock")
    /\ UNCHANGED <<mailboxVars, kernelVars, tableVars, mboxID, newPid, pidToZap,
                   program>>

RemoveNothing(p) ==
    /\ At(p, "r_remove")
    /\ Goto(p, "r_unlock")
    /\ UNCHANGED <<mailboxVars, kernelVars, tableVars, localVars>>

----------------------------------------------------------------------------
\* ProcTableMutex = MboxCreate(1, 0)
ProcTableMutexSlots == 1

(* start2 has set up the table and calls spawnReal for start3.  The        *)
(* processes that the kernel has started before it only take their slots.  *)
ProcInit ==
    /\ kstate = [p \in Procs |-> IF p \in 1 .. Start2 THEN "active" ELSE "free"]
    /\ kpid = [p \in Procs |-> IF p \in 1 .. Start2 THEN p ELSE EMPTY]
    /\ kparent = [p \in Procs |-> NULL]
    /\ zapped = {}
    /\ nextPid = Start2 + 1
    /\ halted = FALSE
    /\ pid = [p \in Procs |-> EMPTY]
    /\ startFunc = [p \in Procs |-> NULL]
    /\ child = [p \in Procs |-> NULL]
    /\ nextSibling = [p \in Procs |-> NULL]
    /\ parent = [p \in Procs |-> NULL]
    /\ ready = Procs
    /\ pc = [p \in Procs |-> IF p = Start2 THEN "s_create" ELSE "none"]
    /\ mboxID = [p \in Procs |-> EMPTY]
    /\ newPid = [p \in Procs |-> EMPTY]
    /\ childToZap = [p \in Procs |-> NULL]
    /\ pidToZap = [p \in Procs |-> EMPTY]
    /\ program = [p \in Procs |-> NULL]

Init ==
    /\ ProcInit
    /\ mbox = [b \in Boxes |-> IF b = ProcTableMutex
                               THEN NewBox(ProcTableMutexSlots)
                               ELSE ClosedBox]

Lock(p) ==
    \E l \in LockSteps :
        /\ At(p, l)
        /\ MboxSend(p, ProcTableMutex)
        /\ Goto(p, AfterLock[l])
        /\ UNCHANGED <<kernelVars, tableVars, localVars>>

Unlock(p) ==
    \E l \in UnlockSteps :
        /\ At(p, l)
        /\ MboxReceive(p, ProcTableMutex)
        /\ Goto(p, AfterUnlock(p)[l])
        /\ UNCHANGED <<kernelVars, tableVars, localVars>>

----------------------------------------------------------------------------
(* Spawn.                                                                  *)

SpawnCreate(p) ==
    /\ At(p, "s_create")
    /\ \E id \in Boxes \cup {EMPTY} :
        /\ MboxCreate(1, id)
        /\ mboxID' = [mboxID EXCEPT ![p] = id]
    /\ Goto(p, "s_fork")
    /\ UNCHANGED <<kernelVars, tableVars, newPid, childToZap, pidToZap, program>>

(* fork1 gives the next pid whose slot is free.  It counts the active      *)
(* processes to find out whether there is one, so it halts when all slots  *)
(* are taken but some by processes that have quit.                         *)
FreePid(id) == id >= nextPid /\ kstate[Slot(id)] = "free"

SpawnFork(p) ==
    /\ At(p, "s_fork")
    /\ \/ \E id \in nextPid .. nextPid + MAXPROC - 1 :
            /\ FreePid(id)
            /\ \A i \in nextPid .. id - 1 : ~FreePid(i)
            /\ kstate' = [kstate EXCEPT ![Slot(id)] = "active"]
            /\ kpid' = [kpid EXCEPT ![Slot(id)] = id]
            /\ kparent' = [kparent EXCEPT ![Slot(id)] = p]
            /\ nextPid' = id + 1
            /\ newPid' = [newPid EXCEPT ![p] = id]
            /\ mboxID' = [mboxID EXCEPT ![Slot(id)] = mboxID[p]]
            /\ pc' = [pc EXCEPT ![p] = "s_lock", ![Slot(id)] = "l_receive"]
            /\ UNCHANGED halted
       \/ /\ \A q \in Procs : kstate[q] = "active"
          /\ Goto(p, "s_release")
          /\ UNCHANGED <<kstate, kpid, kparent, nextPid, newPid, mboxID, halted>>
       \/ /\ \A q \in Procs : kstate[q] # "free"
          /\ \E q \in Procs : kstate[q] # "active"
          /\ halted' = TRUE
          /\ UNCHANGED <<kstate, kpid, kparent, nextPid, newPid, mboxID, pc>>
    /\ UNCHANGED <<mailboxVars, zapped, tableVars, childToZap, pidToZap, program>>

SpawnRelease(p) ==
    /\ At(p, "s_release")
    /\ MboxRelease(mboxID[p])
    /\ mboxID' = [mboxID EXCEPT ![p] = EMPTY]
    /\ Goto(p, "return")
    /\ UNCHANGED <<kernelVars, tableVars, newPid, childToZap, pidToZap, program>>

SpawnInit(p) ==
    LET c == Slot(newPid[p]) IN
    /\ At(p, "s_init")
    /\ pid' = [pid EXCEPT ![c] = newPid[p]]
    /\ startFunc' = [startFunc EXCEPT ![c] = newPid[p]]
    /\ child' = [child EXCEPT ![c] = NULL]
    /\ nextSibling' = [nextSibling EXCEPT ![c] = NULL]
    /\ Goto(p, "s_link")
    /\ UNCHANGED <<mailboxVars, kernelVars, parent, localVars>>

(* addChild: at the end of the list.                                       *)
addChild(p) ==
    LET c == Slot(newPid[p]) IN
    /\ At(p, "s_link")
    /\ \/ /\ child[p] = NULL
          /\ child' = [child EXCEPT ![p] = c]
          /\ UNCHANGED nextSibling
       \/ \E olderSibling \in ChildList(p) :
            /\ nextSibling[olderSibling] = NULL
            /\ nextSibling' = [nextSibling EXCEPT ![olderSibling] = c]
            /\ UNCHANGED child
    /\ Goto(p, "s_parent")
    /\ UNCHANGED <<mailboxVars, kernelVars, pid, startFunc, parent, localVars>>

SpawnParent(p) ==
    /\ At(p, "s_parent")
    /\ parent' = [parent EXCEPT ![Slot(newPid[p])] = p]
    /\ Goto(p, "s_unlock")
    /\ UNCHANGED <<mailboxVars, kernelVars, pid, startFunc, child, nextSibling,
                   localVars>>

SpawnSend(p) ==
    /\ At(p, "s_send")
    /\ MboxSend(p, mboxID[p])
    /\ mboxID' = [mboxID EXCEPT ![p] = EMPTY]
    /\ newPid' = [newPid EXCEPT ![p] = EMPTY]
    /\ Goto(p, "return")
    /\ UNCHANGED <<kernelVars, tableVars, childToZap, pidToZap, program>>

(* spawnLaunch, the new process.                                           *)
LaunchReceive(p) ==
    /\ At(p, "l_receive")
    /\ MboxReceive(p, mboxID[p])
    /\ Goto(p, "l_release")
    /\ UNCHANGED <<kernelVars, tableVars, localVars>>

LaunchRelease(p) ==
    /\ At(p, "l_release")
    /\ MboxRelease(mboxID[p])
    /\ mboxID' = [mboxID EXCEPT ![p] = EMPTY]
    /\ Goto(p, "l_lock")
    /\ UNCHANGED <<kernelVars, tableVars, newPid, childToZap, pidToZap, program>>

LaunchRead(p) ==
    /\ At(p, "l_read")
    /\ program' = [program EXCEPT ![p] = startFunc[p]]
    /\ Goto(p, "l_unlock")
    /\ UNCHANGED <<mailboxVars, kernelVars, tableVars, mboxID, newPid, childToZap,
                   pidToZap>>

----------------------------------------------------------------------------
(* Wait: join returns a child that has quit and frees its slot, or returns *)
(* at once if there is no child.                                           *)
waitReal(p) ==
    /\ At(p, "w_join")
    /\ \/ /\ Kids(p) = {}
          /\ UNCHANGED kstate
       \/ \E c \in Kids(p) \ ActiveKids(p) :
            kstate' = [kstate EXCEPT ![c] = "free"]
    /\ Goto(p, "return")
    /\ UNCHANGED <<mailboxVars, kpid, kparent, zapped, nextPid, halted, tableVars,
                   localVars>>

(* The end of spawnLaunch and of every handler but Terminate's.  start2    *)
(* waits for start3 and returns to the kernel, which makes it quit.        *)
Return(p) ==
    /\ At(p, "return")
    /\ Goto(p, IF p = Start2 THEN IF Kids(p) = {} THEN "t_quit" ELSE "w_join"
               ELSE IF p \in zapped THEN "t_lock" ELSE "user")
    /\ UNCHANGED <<mailboxVars, kernelVars, tableVars, localVars>>

----------------------------------------------------------------------------
(* Terminate.                                                              *)

ReadChild(p) ==
    /\ At(p, "t_child")
    /\ childToZap' = [childToZap EXCEPT ![p] = child[p]]
    /\ Goto(p, "t_unlock")
    /\ UNCHANGED <<mailboxVars, kernelVars, tableVars, mboxID, newPid, pidToZap,
                   program>>

ReadPid(p) ==
    /\ At(p, "z_pid")
    /\ pidToZap' = [pidToZap EXCEPT ![p] = pid[childToZap[p]]]
    /\ Goto(p, "z_unlock")
    /\ UNCHANGED <<mailboxVars, kernelVars, tableVars, mboxID, newPid, childToZap,
                   program>>

(* zap returns at once if the process has quit, otherwise when it quits;   *)
(* it halts if there is no such process.                                   *)
IsLive(id) == id \in Nat /\ kstate[Slot(id)] = "active" /\ kpid[Slot(id)] = id
HasQuit(id) == id \in Nat /\ kstate[Slot(id)] = "quit" /\ kpid[Slot(id)] = id

zap(p) ==
    LET live == IsLive(pidToZap[p]) IN
    /\ At(p, "z_zap")
    /\ zapped' = IF live THEN zapped \cup {Slot(pidToZap[p])} ELSE zapped
    /\ halted' = (~live /\ ~HasQuit(pidToZap[p]))
    /\ Goto(p, IF live THEN "z_wait" ELSE "n_lock")
    /\ UNCHANGED <<mailboxVars, kstate, kpid, kparent, nextPid, tableVars,
                   localVars>>

zapReturn(p) ==
    /\ At(p, "z_wait")
    /\ ~IsLive(pidToZap[p])
    /\ Goto(p, "n_lock")
    /\ UNCHANGED <<mailboxVars, kernelVars, tableVars, localVars>>

ReadSibling(p) ==
    /\ At(p, "n_next")
    /\ childToZap' = [childToZap EXCEPT ![p] = nextSibling[childToZap[p]]]
    /\ pidToZap' = [pidToZap EXCEPT ![p] = EMPTY]
    /\ Goto(p, "n_unlock")
    /\ UNCHANGED <<mailboxVars, kernelVars, tableVars, mboxID, newPid, program>>

(* removeChild.  It follows a null pointer if the list is empty or the     *)
(* process has no parent, and leaves a list without the child as it is.    *)
removeChild(p) ==
    LET q == parent[p]
        list == IF q = NULL THEN {} ELSE ChildList(q)
    IN
    /\ At(p, "r_remove")
    /\ \/ /\ p \in list /\ child[q] = p
          /\ child' = [child EXCEPT ![q] = nextSibling[p]]
          /\ UNCHANGED <<nextSibling, halted>>
       \/ /\ ~(p \in list /\ child[q] = p)
          /\ nextSibling' = [s \in Procs |->
                                IF s \in list /\ nextSibling[s] = p
                                THEN nextSibling[p] ELSE nextSibling[s]]
          /\ halted' = (list = {})
          /\ UNCHANGED child
    /\ Goto(p, "r_unlock")
    /\ UNCHANGED <<mailboxVars, kstate, kpid, kparent, zapped, nextPid, pid,
                   startFunc, parent, localVars>>

(* quit halts if there are active children.  It frees the slots of those   *)
(* that have quit, and wakes a parent that joins or zaps.                  *)
quit(p) ==
    /\ At(p, "t_quit")
    /\ IF ActiveKids(p) # {}
       THEN /\ halted' = TRUE
            /\ UNCHANGED <<kstate, zapped, pc, localVars>>
       ELSE /\ kstate' = [q \in Procs |-> IF q = p THEN "quit"
                                         ELSE IF q \in Kids(p) THEN "free"
                                         ELSE kstate[q]]
            /\ zapped' = zapped \ {p}
            /\ Goto(p, "none")
            /\ childToZap' = [childToZap EXCEPT ![p] = NULL]
            /\ pidToZap' = [pidToZap EXCEPT ![p] = EMPTY]
            /\ program' = [program EXCEPT ![p] = NULL]
            /\ UNCHANGED <<mboxID, newPid, halted>>
    /\ UNCHANGED <<mailboxVars, kpid, kparent, nextPid, tableVars>>

----------------------------------------------------------------------------
(* What programs do: Spawn; Wait; Terminate, which nullsys3 and the return *)
(* from the program's function amount to; any other system call, a Spawn   *)
(* with invalid arguments among them, which may notice that it was zapped. *)

Call(p, first) ==
    /\ At(p, "user")
    /\ Goto(p, first)
    /\ UNCHANGED <<mailboxVars, kernelVars, tableVars, localVars>>

spawn(p) == p \in Spawners /\ nextPid <= MaxPid /\ Call(p, "s_create")
waitHandler(p) == Call(p, "w_join")
terminate(p) == Call(p, "t_lock")
otherCall(p) == Call(p, "return")

HandlerStep(p) ==
    \/ Lock(p) \/ Unlock(p) \/ Return(p)
    \/ SpawnCreate(p) \/ SpawnFork(p) \/ SpawnRelease(p) \/ SpawnInit(p)
    \/ addChild(p) \/ SpawnParent(p) \/ SpawnSend(p)
    \/ LaunchReceive(p) \/ LaunchRelease(p) \/ LaunchRead(p)
    \/ waitReal(p)
    \/ ReadChild(p) \/ ReadPid(p) \/ zap(p) \/ zapReturn(p) \/ ReadSibling(p)
    \/ removeChild(p) \/ quit(p)

Next ==
    \E p \in Procs :
        HandlerStep(p) \/ spawn(p) \/ waitHandler(p) \/ terminate(p) \/ otherCall(p)

Spec == Init /\ [][Next]_vars

(* A handler that can go on does.  A program that keeps coming back from   *)
(* its system calls terminates some day: nothing in phase 3 ends one that   *)
(* makes no calls, and a zapped process may be in Wait for a child that has *)
(* not been zapped itself.                                                 *)
Fairness == \A p \in Procs : WF_vars(HandlerStep(p)) /\ SF_vars(terminate(p))

FairSpec == Spec /\ Fairness

----------------------------------------------------------------------------
(* Properties.                                                             *)

TypeOK ==
    /\ MailboxTypeOK
    /\ kstate \in [Procs -> {"free", "active", "quit"}]
    /\ kpid \in [Procs -> Nat \cup {EMPTY}]
    /\ kparent \in [Procs -> Procs \cup {NULL}]
    /\ zapped \subseteq Procs
    /\ nextPid \in Nat
    /\ halted \in BOOLEAN
    /\ pid \in [Procs -> Nat \cup {EMPTY}]
    /\ startFunc \in [Procs -> Nat \cup {NULL}]
    /\ child \in [Procs -> Procs \cup {NULL}]
    /\ nextSibling \in [Procs -> Procs \cup {NULL}]
    /\ parent \in [Procs -> Procs \cup {NULL}]
    /\ pc \in [Procs -> Labels]
    /\ mboxID \in [Procs -> Boxes \cup {EMPTY}]
    /\ newPid \in [Procs -> Nat \cup {EMPTY}]
    /\ childToZap \in [Procs -> Procs \cup {NULL}]
    /\ pidToZap \in [Procs -> Nat \cup {EMPTY}]
    /\ program \in [Procs -> Nat \cup {NULL}]

\* Between lock() and unlock(), the process is not waiting for the lock.
InsideSteps == {"s_init", "s_link", "s_parent", "s_unlock", "l_read", "l_unlock",
                "t_child", "t_unlock", "z_pid", "z_unlock", "n_next", "n_unlock",
                "r_remove", "r_unlock"}

HoldsProcTable(p) == p \in ready /\ pc[p] \in InsideSteps

\* Its parent has put p into the table, and it has not taken itself out.
Listed(p) ==
    /\ kstate[p] = "active"
    /\ pc[p] \notin {"r_unlock", "t_quit"}
    /\ ~(pc[kparent[p]] \in {"s_lock", "s_init", "s_link"}
            /\ newPid[kparent[p]] = kpid[p])

(* The ProcTable is read and written by one process at a time.             *)
ProcTableExclusion ==
    \A p, q \in Procs : HoldsProcTable(p) /\ HoldsProcTable(q) => p = q

(* A process runs the program that it was spawned for: spawnLaunch does    *)
(* not read its slot before spawnReal has written it, though the child may *)
(* run before fork1 returns in the parent, and the slot may have belonged  *)
(* to another process (src/phase3.c:537-572 and 588-621).                  *)
OwnProgram == \A p \in Procs : program[p] \in {NULL, kpid[p]}

(* The children in the list of a process are its children in the kernel's  *)
(* table that are not about to quit: none is missing, none is left over    *)
(* from a process that had the slot before, and removeChild always finds   *)
(* the child that it looks for.                                            *)
ChildListsMatch ==
    ~halted =>
        \A p \in Procs :
            kstate[p] = "active" => ChildList(p) = {c \in Kids(p) : Listed(c)}

(* terminateReal zaps processes that exist, and are its children: the pid  *)
(* that it read is not out of date when it calls zap, which would halt.    *)
ZapsOwnChildren ==
    \A p \in Procs :
        pc[p] = "z_zap" =>
            /\ IsLive(pidToZap[p]) \/ HasQuit(pidToZap[p])
            /\ kparent[Slot(pidToZap[p])] = p

(* When a process quits, all of its children have quit or have come to     *)
(* quit() themselves: terminateReal passes over no child.                  *)
ChildrenFirst ==
    \A p \in Procs :
        pc[p] = "t_quit" =>
            \A c \in ActiveKids(p) : pc[c] \in {"r_unlock", "t_quit"}

(* As long as a process has an active child, it does not come to quit(),   *)
(* which would halt the system ("Zap all the children of this process.",   *)
(* src/phase3.c:660).                                                      *)
QuitsWithoutChildren ==
    \A p \in Procs : pc[p] = "t_quit" => ActiveKids(p) = {}

(* Spawn returns -1 if it cannot create a process (src/phase3.c:485): it   *)
(* does not halt the system.                                               *)
SpawnNeverHalts ==
    \A p \in Procs : halted => pc[p] # "s_fork"

(* Nothing else halts the system: the table never leads removeChild to an  *)
(* empty list, or zap to a process that does not exist (both halt).        *)
HaltsOnlyInForkOrQuit ==
    [][halted' # halted => \E p \in Procs : SpawnFork(p) \/ quit(p)]_vars

(* Every mailbox that spawnReal creates is released: by spawnLaunch when it *)
(* has received the message, or by spawnReal when fork1 fails.             *)
NoMailboxLeft ==
    \A b \in Boxes \ {ProcTableMutex} :
        mbox[b].open => \E p \in Procs : mboxID[p] = b

(* When start2 has quit, nothing of phase 3 is left: every process that    *)
(* was spawned has quit too, no mailbox of a handshake is open, and the    *)
(* list of start2's children is empty.                                     *)
NothingLeft ==
    kstate[Start2] = "quit" =>
        /\ \A p \in Procs : kstate[p] = "active" => p \in 1 .. Start2 - 1
        /\ {b \in Boxes : mbox[b].open} = {ProcTableMutex}
        /\ child[Start2] = NULL

(* A process that begins to terminate quits, and so do all its descendants *)
(* before it, provided that their programs keep coming to Terminate (the   *)
(* strong fairness of terminate): no lock, handshake or zap of the         *)
(* handlers themselves waits for ever (src/phase3.c:653-686).              *)
TerminateEnds ==
    \A p \in Procs : pc[p] = "t_lock" ~> kstate[p] # "active" \/ halted
=============================================================================
