----------------------------- MODULE Semaphores -----------------------------
(***************************************************************************)
(* The counting semaphores of phase 3: the semaphore table and the system  *)
(* calls SemCreate, SemP, SemV and SemFree (src/phase3.c), with the helpers *)
(* of src/phase3utility.c.                                                 *)
(*                                                                         *)
(* The kernel enables interrupts before it calls a handler, so a handler   *)
(* can be preempted anywhere outside a mailbox operation.  Each access to  *)
(* shared memory and each mailbox operation is therefore a step of its own, *)
(* the evaluation of an argument such as sem->mutex included.  pc[p] names *)
(* the step that process p takes next; a process that is not ready is      *)
(* blocked in the mailbox operation before that step.                      *)
(***************************************************************************)
EXTENDS Mailboxes, FiniteSets

CONSTANTS
    MAXSEMS,        \* the size of the semaphore table
    InitValues,     \* the initial values that programs pass to SemCreate
    Calls,          \* the system calls that programs make
    WildHandles,    \* handles that programs pass though SemCreate never gave them
    Zappable,       \* the processes that a terminating parent may zap
    NoMsg,          \* what MboxCondReceive returns if there is no message
    MaxUnits,       \* bound: no SemV on a semaphore with this many units, no
                    \* SemP on one that is short of this many
    MaxTableCalls   \* bound: the number of SemCreate and SemFree calls accepted

SysCalls == {"SemCreate", "SemP", "SemV", "SemFree"}

ASSUME SemaphoreAssumption ==
    /\ MAXSEMS \in Nat \ {0}
    /\ MAXMBOX > 0
    /\ InitValues \subseteq Int
    /\ Calls \subseteq SysCalls
    /\ WildHandles \subseteq Int
    /\ Zappable \subseteq Procs
    /\ NoMsg \in Int
    /\ MaxUnits \in Int
    /\ MaxTableCalls \in Nat

VARIABLES
    \* The semaphore table and its globals.
    count,          \* Semaphores[h].count; EMPTY if slot h is free
    mutex,          \* Semaphores[h].mutex, a mailbox id or EMPTY
    blockingMbox,   \* Semaphores[h].blockingMbox, a mailbox id or EMPTY
    currentNumSems,
    \* The processes.
    pc,             \* the next step of the process
    sem,            \* the handle its handler works on
    box,            \* the mailbox id evaluated for the next mailbox operation
    val,            \* initSemValue, the count that was read, or a status
    zapped,         \* the processes that have been zapped
    \* What the programs have seen.
    known,          \* the handles SemCreate has returned
    units,          \* initial value + V's called - P's done, for each slot
    tableCalls      \* how many SemCreate and SemFree calls have been accepted

tableVars == <<count, mutex, blockingMbox, currentNumSems>>
seenVars == <<known, units, tableCalls>>
vars == <<mailboxVars, tableVars, pc, sem, box, val, zapped, seenVars>>

Slots == 0 .. MAXSEMS - 1

\* The first mailbox that phase 3 creates; the global semsMutex never changes.
semsMutex == 0

----------------------------------------------------------------------------
(* The steps of the handlers, in the order the code takes them.            *)

CreateSteps == {"c_lock", "c_slot", "c_count", "c_mutex", "c_block", "c_num",
                "c_unlock", "c_ret"}
PSteps == {"p_arg1", "p_lock", "p_test", "p_dec", "p_arg2", "p_unlock",
           "p_arg3", "p_open", "p_arg4", "p_block", "p_check", "p_ret"}
VSteps == {"v_arg1", "v_lock", "v_test", "v_arg2", "v_wake", "v_inc",
           "v_arg3", "v_unlock", "v_ret"}
FreeSteps == {"f_lock", "f_count", "f_mutex", "f_nomutex", "f_probe", "f_block",
              "f_noblock", "f_num", "f_unlock", "f_ret"}

Steps == CreateSteps \cup PSteps \cup VSteps \cup FreeSteps

\* "quit": the process has terminated.  "undefined": it has used memory outside
\* the semaphore table, and nothing is said of what it does after that.
Labels == Steps \cup {"user", "quit", "undefined"}

LockSteps == {"c_lock", "p_lock", "v_lock", "f_lock"}
UnlockSteps == {"c_unlock", "p_unlock", "p_open", "v_unlock", "f_unlock"}
MutexArgSteps == {"p_arg1", "p_arg2", "p_arg3", "v_arg1", "v_arg3"}
BlockingArgSteps == {"p_arg4", "v_arg2"}
RetSteps == {"c_ret", "p_ret", "v_ret", "f_ret"}

\* The step after each step that does not branch.
After == [c_lock |-> "c_slot", p_lock |-> "p_test", v_lock |-> "v_test",
          f_lock |-> "f_count", c_unlock |-> "c_ret", p_unlock |-> "p_check",
          p_open |-> "p_arg4", v_unlock |-> "v_ret", f_unlock |-> "f_ret",
          p_arg1 |-> "p_lock", p_arg2 |-> "p_unlock", p_arg3 |-> "p_open",
          v_arg1 |-> "v_lock", v_arg3 |-> "v_unlock", p_arg4 |-> "p_block",
          v_arg2 |-> "v_wake"]

At(p, label) == pc[p] = label /\ p \in ready

Goto(p, label) == pc' = [pc EXCEPT ![p] = label]

----------------------------------------------------------------------------
(* Faulty variants of the steps below.  Each stands in for its original in *)
(* an experiment that a property has to notice; no specification uses them. *)

\* lock() and unlock() that do not touch the mailbox.
LockNothing(p) ==
    \E l \in LockSteps :
        /\ At(p, l)
        /\ Goto(p, After[l])
        /\ UNCHANGED <<mailboxVars, tableVars, sem, box, val, zapped, seenVars>>

UnlockNothing(p) ==
    \E l \in UnlockSteps :
        /\ At(p, l)
        /\ Goto(p, After[l])
        /\ UNCHANGED <<mailboxVars, tableVars, sem, box, val, zapped, seenVars>>

\* A scan that looks at one slot too many.
ScanOneTooFar(p) ==
    /\ At(p, "c_slot")
    /\ \E h \in 0 .. MAXSEMS :
        /\ h \in Slots => count[h] = EMPTY
        /\ \A i \in Slots : i < h => count[i] # EMPTY
        /\ sem' = [sem EXCEPT ![p] = h]
        /\ Goto(p, "c_count")
    /\ UNCHANGED <<mailboxVars, tableVars, box, val, zapped, seenVars>>

\* initSem that makes a mutex for two.
MutexForTwo(p) ==
    /\ At(p, "c_mutex")
    /\ \E id \in Boxes \cup {EMPTY} :
        /\ MboxCreate(2, id)
        /\ mutex' = [mutex EXCEPT ![sem[p]] = id]
    /\ Goto(p, "c_block")
    /\ UNCHANGED <<count, blockingMbox, currentNumSems, sem, box, val, zapped,
                   seenVars>>

\* semCreateReal without currentNumSems++.
CountForgotten(p) ==
    /\ At(p, "c_num")
    /\ Goto(p, "c_unlock")
    /\ UNCHANGED <<mailboxVars, tableVars, sem, box, val, zapped, seenVars>>

\* semPReal with count >= 0 for count > 0.
TestOffByOne(p) ==
    /\ At(p, "p_test")
    /\ val' = [val EXCEPT ![p] = count[sem[p]]]
    /\ Goto(p, IF count[sem[p]] >= 0 THEN "p_dec" ELSE "p_arg3")
    /\ UNCHANGED <<mailboxVars, tableVars, sem, box, zapped, seenVars>>

\* semVReal that counts its unit even if it woke somebody up, or never.
WakeAndCount(p) ==
    /\ At(p, "v_wake")
    /\ MboxCondReceive(box[p])
    /\ Goto(p, "v_inc")
    /\ UNCHANGED <<tableVars, sem, box, val, zapped, seenVars>>

WakeNeverCount(p) ==
    /\ At(p, "v_wake")
    /\ MboxCondReceive(box[p])
    /\ Goto(p, "v_arg3")
    /\ UNCHANGED <<tableVars, sem, box, val, zapped, seenVars>>

\* freeSem that leaves the id of the released mailbox in the table.
MutexIdKept(p) ==
    /\ At(p, "f_nomutex")
    /\ Goto(p, "f_probe")
    /\ UNCHANGED <<mailboxVars, tableVars, sem, box, val, zapped, seenVars>>

----------------------------------------------------------------------------
(* genericSemaphoreInitialization, before the first process runs.          *)
SemInit ==
    /\ count = [h \in Slots |-> EMPTY]
    /\ mutex = [h \in Slots |-> EMPTY]
    /\ blockingMbox = [h \in Slots |-> EMPTY]
    /\ currentNumSems = 0
    /\ sem = [p \in Procs |-> EMPTY]
    /\ box = [p \in Procs |-> EMPTY]
    /\ val = [p \in Procs |-> 0]
    /\ known = {}
    /\ units = [h \in Slots |-> 0]
    /\ tableCalls = 0

Init ==
    /\ SemInit
    /\ mbox = [b \in Boxes |-> IF b = semsMutex THEN NewBox(1) ELSE ClosedBox]
    /\ ready = Procs
    /\ pc = [p \in Procs |-> "user"]
    /\ zapped = {}

(* lock(): a process may block here; whoever unlocks hands it the mailbox. *)
Lock(p) ==
    \E l \in LockSteps :
        /\ At(p, l)
        /\ MboxSend(p, box[p])
        /\ Goto(p, After[l])
        /\ UNCHANGED <<tableVars, sem, box, val, zapped, seenVars>>

(* unlock(): this can block too, on a mutex that nobody holds.             *)
Unlock(p) ==
    \E l \in UnlockSteps :
        /\ At(p, l)
        /\ MboxReceive(p, box[p])
        /\ Goto(p, After[l])
        /\ UNCHANGED <<tableVars, sem, box, val, zapped, seenVars>>

(* Evaluating the argument sem->mutex or sem->blockingMbox of a call.      *)
ReadMutex(p) ==
    \E l \in MutexArgSteps :
        /\ At(p, l)
        /\ box' = [box EXCEPT ![p] = mutex[sem[p]]]
        /\ Goto(p, After[l])
        /\ UNCHANGED <<mailboxVars, tableVars, sem, val, zapped, seenVars>>

ReadBlockingMbox(p) ==
    \E l \in BlockingArgSteps :
        /\ At(p, l)
        /\ box' = [box EXCEPT ![p] = blockingMbox[sem[p]]]
        /\ Goto(p, After[l])
        /\ UNCHANGED <<mailboxVars, tableVars, sem, val, zapped, seenVars>>

(* The end of every handler: a process that was zapped meanwhile terminates, *)
(* another goes back to its program.                                       *)
Return(p) ==
    \E l \in RetSteps :
        /\ At(p, l)
        /\ Goto(p, IF p \in zapped THEN "quit" ELSE "user")
        /\ known' = IF l = "c_ret" /\ p \notin zapped
                    THEN known \cup {sem[p]} ELSE known
        /\ sem' = [sem EXCEPT ![p] = EMPTY]
        /\ box' = [box EXCEPT ![p] = EMPTY]
        /\ val' = [val EXCEPT ![p] = 0]
        /\ UNCHANGED <<mailboxVars, tableVars, zapped, units, tableCalls>>

----------------------------------------------------------------------------
(* SemCreate(v).  The test for a free slot is made without the lock.       *)

isSemAvailable == currentNumSems # MAXSEMS

semCreate(p, v) ==
    /\ "SemCreate" \in Calls
    /\ At(p, "user")
    /\ tableCalls < MaxTableCalls
    /\ IF v >= 0 /\ isSemAvailable
       THEN /\ Goto(p, "c_lock")
            /\ val' = [val EXCEPT ![p] = v]
            /\ box' = [box EXCEPT ![p] = semsMutex]
            /\ tableCalls' = tableCalls + 1
       ELSE UNCHANGED <<pc, val, box, tableCalls>>
    /\ UNCHANGED <<mailboxVars, tableVars, sem, zapped, known, units>>

(* The first free slot, or -1: initSem then writes before the table.       *)
getAvailableSemHandle(p) ==
    /\ At(p, "c_slot")
    /\ \/ \E h \in Slots :
            /\ count[h] = EMPTY
            /\ \A i \in Slots : i < h => count[i] # EMPTY
            /\ sem' = [sem EXCEPT ![p] = h]
            /\ Goto(p, "c_count")
       \/ /\ \A h \in Slots : count[h] # EMPTY
          /\ Goto(p, "undefined")
          /\ UNCHANGED sem
    /\ UNCHANGED <<mailboxVars, tableVars, box, val, zapped, seenVars>>

(* initSem: the count comes first, the two mailboxes after it.             *)
initSemCount(p) ==
    /\ At(p, "c_count")
    /\ count' = [count EXCEPT ![sem[p]] = val[p]]
    /\ units' = [units EXCEPT ![sem[p]] = val[p]]
    /\ Goto(p, "c_mutex")
    /\ UNCHANGED <<mailboxVars, mutex, blockingMbox, currentNumSems, sem, box,
                   val, zapped, known, tableCalls>>

initSemMutex(p) ==
    /\ At(p, "c_mutex")
    /\ \E id \in Boxes \cup {EMPTY} :
        /\ MboxCreate(1, id)
        /\ mutex' = [mutex EXCEPT ![sem[p]] = id]
    /\ Goto(p, "c_block")
    /\ UNCHANGED <<count, blockingMbox, currentNumSems, sem, box, val, zapped,
                   seenVars>>

initSemBlocking(p) ==
    /\ At(p, "c_block")
    /\ \E id \in Boxes \cup {EMPTY} :
        /\ MboxCreate(0, id)
        /\ blockingMbox' = [blockingMbox EXCEPT ![sem[p]] = id]
    /\ Goto(p, "c_num")
    /\ UNCHANGED <<count, mutex, currentNumSems, sem, box, val, zapped, seenVars>>

semCreateCount(p) ==
    /\ At(p, "c_num")
    /\ currentNumSems' = currentNumSems + 1
    /\ Goto(p, "c_unlock")
    /\ UNCHANGED <<mailboxVars, count, mutex, blockingMbox, sem, box, val, zapped,
                   seenVars>>

----------------------------------------------------------------------------
(* The calls that take a handle start with the same unlocked test.  Handle *)
(* MAXSEMS passes the range check, and the word read behind the table may  *)
(* hold anything.                                                          *)
doesGivenSemExist(h) ==
    IF h < 0 \/ h > MAXSEMS THEN {FALSE}
    ELSE IF h = MAXSEMS THEN BOOLEAN ELSE {count[h] # EMPTY}

\* p makes the system call on h: its handler goes on with first, or returns -1.
EnterHandler(p, call, h, first) ==
    /\ call \in Calls
    /\ At(p, "user")
    /\ h \in known \cup WildHandles
    /\ \E exists \in doesGivenSemExist(h) :
        IF exists
        THEN /\ Goto(p, IF h \in Slots THEN first ELSE "undefined")
             /\ sem' = [sem EXCEPT ![p] = IF h \in Slots THEN h ELSE EMPTY]
        ELSE UNCHANGED <<pc, sem>>
    /\ UNCHANGED <<mailboxVars, tableVars, val, zapped, known>>

(* SemP(h).  Between unlock() and MboxSend the process holds nothing.      *)
semP(p, h) ==
    /\ h \in Slots => units[h] > -MaxUnits
    /\ EnterHandler(p, "SemP", h, "p_arg1")
    /\ UNCHANGED <<box, units, tableCalls>>

semPTest(p) ==
    /\ At(p, "p_test")
    /\ val' = [val EXCEPT ![p] = count[sem[p]]]
    /\ Goto(p, IF count[sem[p]] > 0 THEN "p_dec" ELSE "p_arg3")
    /\ UNCHANGED <<mailboxVars, tableVars, sem, box, zapped, seenVars>>

\* count-- and count++ are a load and a store: the value that is stored may
\* come from the count as it was at the test before.
semPDecrement(p) ==
    /\ At(p, "p_dec")
    /\ \E loaded \in {val[p], count[sem[p]]} :
        count' = [count EXCEPT ![sem[p]] = loaded - 1]
    /\ Goto(p, "p_arg2")
    /\ UNCHANGED <<mailboxVars, mutex, blockingMbox, currentNumSems, sem, box,
                   val, zapped, seenVars>>

semPBlock(p) ==
    /\ At(p, "p_block")
    /\ MboxSend(p, box[p])
    /\ Goto(p, "p_check")
    /\ UNCHANGED <<tableVars, sem, box, val, zapped, seenVars>>

\* A count of EMPTY is how the process learns that the semaphore was freed.
semPCheck(p) ==
    /\ At(p, "p_check")
    /\ IF count[sem[p]] = EMPTY
       THEN /\ Goto(p, "quit")
            /\ sem' = [sem EXCEPT ![p] = EMPTY]
            /\ box' = [box EXCEPT ![p] = EMPTY]
            /\ val' = [val EXCEPT ![p] = 0]
            /\ UNCHANGED units
       ELSE /\ Goto(p, "p_ret")
            /\ units' = [units EXCEPT ![sem[p]] = @ - 1]
            /\ UNCHANGED <<sem, box, val>>
    /\ UNCHANGED <<mailboxVars, tableVars, zapped, known, tableCalls>>

(* SemV(h).                                                                *)
semV(p, h) ==
    /\ h \in Slots => units[h] < MaxUnits /\ count[h] < MaxUnits
    /\ EnterHandler(p, "SemV", h, "v_arg1")
    /\ units' = IF pc'[p] = "v_arg1" THEN [units EXCEPT ![h] = @ + 1] ELSE units
    /\ UNCHANGED <<box, tableCalls>>

semVTest(p) ==
    /\ At(p, "v_test")
    /\ val' = [val EXCEPT ![p] = count[sem[p]]]
    /\ Goto(p, IF count[sem[p]] = 0 THEN "v_arg2" ELSE "v_inc")
    /\ UNCHANGED <<mailboxVars, tableVars, sem, box, zapped, seenVars>>

\* The status of a receive: NoMsg; 0, the size of the message; -3 for a process
\* that was zapped; -1 for a mailbox that does not exist.
ReceiveStatus(p, b) ==
    IF ~IsOpen(b) THEN -1
    ELSE IF ~HasMessage(b) THEN NoMsg
    ELSE IF p \in zapped THEN -3 ELSE 0

\* Only a status of 1 makes semVReal count the unit.
semVWake(p) ==
    /\ At(p, "v_wake")
    /\ MboxCondReceive(box[p])
    /\ Goto(p, IF ReceiveStatus(p, box[p]) = 1 THEN "v_inc" ELSE "v_arg3")
    /\ UNCHANGED <<tableVars, sem, box, val, zapped, seenVars>>

semVIncrement(p) ==
    /\ At(p, "v_inc")
    /\ \E loaded \in {val[p], count[sem[p]]} :
        count' = [count EXCEPT ![sem[p]] = loaded + 1]
    /\ Goto(p, "v_arg3")
    /\ UNCHANGED <<mailboxVars, mutex, blockingMbox, currentNumSems, sem, box,
                   val, zapped, seenVars>>

----------------------------------------------------------------------------
(* SemFree(h).  It holds semsMutex, never the mutex of the semaphore.      *)
semFree(p, h) ==
    /\ tableCalls < MaxTableCalls
    /\ EnterHandler(p, "SemFree", h, "f_lock")
    /\ IF pc'[p] = "f_lock"
       THEN /\ box' = [box EXCEPT ![p] = semsMutex]
            /\ tableCalls' = tableCalls + 1
       ELSE UNCHANGED <<box, tableCalls>>
    /\ UNCHANGED units

freeSemCount(p) ==
    /\ At(p, "f_count")
    /\ count' = [count EXCEPT ![sem[p]] = EMPTY]
    /\ Goto(p, "f_mutex")
    /\ UNCHANGED <<mailboxVars, mutex, blockingMbox, currentNumSems, sem, box,
                   val, zapped, seenVars>>

\* The processes that MboxRelease wakes up may run before the id of the mailbox,
\* which phase 2 may give out again, is out of the table.
freeSemMutex(p) ==
    /\ At(p, "f_mutex")
    /\ MboxRelease(mutex[sem[p]])
    /\ Goto(p, "f_nomutex")
    /\ UNCHANGED <<tableVars, sem, box, val, zapped, seenVars>>

freeSemMutexId(p) ==
    /\ At(p, "f_nomutex")
    /\ mutex' = [mutex EXCEPT ![sem[p]] = EMPTY]
    /\ Goto(p, "f_probe")
    /\ UNCHANGED <<mailboxVars, count, blockingMbox, currentNumSems, sem, box, val,
                   zapped, seenVars>>

\* A conditional receive finds out whether anybody is blocked, and wakes the
\* first one up; its status decides what SemFree returns.
freeSemProbe(p) ==
    LET status == ReceiveStatus(p, blockingMbox[sem[p]]) IN
    /\ At(p, "f_probe")
    /\ MboxCondReceive(blockingMbox[sem[p]])
    /\ val' = [val EXCEPT ![p] = IF status = -2 THEN 0
                                 ELSE IF status >= 0 THEN 1
                                 ELSE IF status = -1 THEN -1 ELSE -5]
    /\ Goto(p, "f_block")
    /\ UNCHANGED <<tableVars, sem, box, zapped, seenVars>>

freeSemBlocking(p) ==
    /\ At(p, "f_block")
    /\ MboxRelease(blockingMbox[sem[p]])
    /\ Goto(p, "f_noblock")
    /\ UNCHANGED <<tableVars, sem, box, val, zapped, seenVars>>

freeSemBlockingId(p) ==
    /\ At(p, "f_noblock")
    /\ blockingMbox' = [blockingMbox EXCEPT ![sem[p]] = EMPTY]
    /\ Goto(p, "f_num")
    /\ UNCHANGED <<mailboxVars, count, mutex, currentNumSems, sem, box, val, zapped,
                   seenVars>>

semFreeCount(p) ==
    /\ At(p, "f_num")
    /\ currentNumSems' = currentNumSems - 1
    /\ Goto(p, "f_unlock")
    /\ UNCHANGED <<mailboxVars, count, mutex, blockingMbox, sem, box, val, zapped,
                   seenVars>>

----------------------------------------------------------------------------
(* The parent of p zaps it (terminateReal).  It goes on to the end of its  *)
(* handler, and stays blocked if it is blocked.                            *)
Zap(p) ==
    /\ p \in Zappable \ zapped
    /\ pc[p] # "quit"
    /\ zapped' = zapped \cup {p}
    /\ UNCHANGED <<mailboxVars, tableVars, pc, sem, box, val, seenVars>>

SystemCall(p) ==
    \/ \E v \in InitValues : semCreate(p, v)
    \/ \E h \in known \cup WildHandles :
        semP(p, h) \/ semV(p, h) \/ semFree(p, h)

HandlerStep(p) ==
    \/ Lock(p) \/ Unlock(p) \/ ReadMutex(p) \/ ReadBlockingMbox(p) \/ Return(p)
    \/ getAvailableSemHandle(p) \/ initSemCount(p) \/ initSemMutex(p)
    \/ initSemBlocking(p) \/ semCreateCount(p)
    \/ semPTest(p) \/ semPDecrement(p) \/ semPBlock(p) \/ semPCheck(p)
    \/ semVTest(p) \/ semVWake(p) \/ semVIncrement(p)
    \/ freeSemCount(p) \/ freeSemMutex(p) \/ freeSemMutexId(p) \/ freeSemProbe(p)
    \/ freeSemBlocking(p) \/ freeSemBlockingId(p) \/ semFreeCount(p)

Next == \E p \in Procs : SystemCall(p) \/ HandlerStep(p) \/ Zap(p)

Spec == Init /\ [][Next]_vars

(* A handler that can go on does: the dispatcher is round robin among equal *)
(* priorities.  Nothing makes a program call.                              *)
Fairness == \A p \in Procs : WF_vars(HandlerStep(p))

FairSpec == Spec /\ Fairness

----------------------------------------------------------------------------
(* Properties.                                                             *)

TypeOK ==
    /\ MailboxTypeOK
    /\ count \in [Slots -> Int]
    /\ mutex \in [Slots -> Boxes \cup {EMPTY}]
    /\ blockingMbox \in [Slots -> Boxes \cup {EMPTY}]
    /\ currentNumSems \in Int
    /\ pc \in [Procs -> Labels]
    /\ sem \in [Procs -> Slots \cup {EMPTY}]
    /\ box \in [Procs -> Boxes \cup {EMPTY}]
    /\ val \in [Procs -> Int]
    /\ zapped \subseteq Procs
    /\ known \subseteq Slots
    /\ units \in [Slots -> Int]
    /\ tableCalls \in Nat
    /\ \A p \in Procs :
        pc[p] \in Steps \ {"c_lock", "c_slot"} => sem[p] \in Slots

\* Between lock() and unlock(), the process is not waiting for the lock.
TableSteps == {"c_slot", "c_count", "c_mutex", "c_block", "c_num", "c_unlock",
               "f_count", "f_mutex", "f_nomutex", "f_probe", "f_block", "f_noblock",
               "f_num", "f_unlock"}
SemaphoreSteps == {"p_test", "p_dec", "p_arg2", "p_unlock", "p_arg3", "p_open",
                   "v_test", "v_arg2", "v_wake", "v_inc", "v_arg3", "v_unlock"}

HoldsTable(p) == p \in ready /\ pc[p] \in TableSteps
HoldsSemaphore(p) == p \in ready /\ pc[p] \in SemaphoreSteps

BlockedInP(p, h) == p \notin ready /\ pc[p] = "p_check" /\ sem[p] = h

\* Nobody is at work on h; processes may be blocked in SemP.
Quiet(h) == \A p \in Procs : sem[p] = h => BlockedInP(p, h)

(* The semaphore table changes under semsMutex only: at no time are two    *)
(* processes inside semCreateReal or semFreeReal (src/phase3.c:698-702 and *)
(* 784-787), whoever is freed, zapped or blocked meanwhile.                *)
SemsMutexExclusion ==
    \A p, q \in Procs : HoldsTable(p) /\ HoldsTable(q) => p = q

\* The slots of which freeSem has released the mailbox and not yet cleared the id.
StaleMutex == {sem[p] : p \in {q \in Procs : At(q, "f_nomutex")}}
StaleBlockingMbox == {sem[p] : p \in {q \in Procs : At(q, "f_noblock")}}

(* No two mailboxes in the table, and none of them and semsMutex, are the  *)
(* same mailbox, and each is open unless freeSem is between its release and *)
(* the assignment that takes it out: a lock or a wake-up never reaches     *)
(* another semaphore through the table, although phase 2 gives the id out  *)
(* again and whoever the release wakes up may run at once.                 *)
MailboxesOwned ==
    /\ IsOpen(semsMutex)
    /\ \A h \in Slots :
        /\ mutex[h] # EMPTY => IsOpen(mutex[h]) \/ h \in StaleMutex
        /\ blockingMbox[h] # EMPTY => IsOpen(blockingMbox[h]) \/ h \in StaleBlockingMbox
        /\ {mutex[h], blockingMbox[h]} \cap {semsMutex} = {}
        /\ mutex[h] # EMPTY => mutex[h] # blockingMbox[h]
        /\ \A i \in Slots \ {h} :
            {mutex[h], blockingMbox[h]} \cap {mutex[i], blockingMbox[i]}
                \subseteq {EMPTY}

(* The count of a semaphore is read and written by one process at a time:  *)
(* of all processes inside SemP and SemV of one semaphore at most one is   *)
(* between lock(sem->mutex) and unlock(sem->mutex).                        *)
SemMutexExclusion ==
    \A p, q \in Procs :
        HoldsSemaphore(p) /\ HoldsSemaphore(q) /\ sem[p] = sem[q] => p = q

(* A semaphore never lets more processes through SemP than its initial     *)
(* value and the SemV calls made on it allow.                              *)
NoPhantomUnit == \A h \in Slots : units[h] >= 0

(* When nobody is at work on a semaphore, its count is what the calls so   *)
(* far amount to: no SemV was forgotten, none counted twice.               *)
NoLostUnit ==
    \A h \in known : Quiet(h) => count[h] = units[h]

(* When nobody is at work on a semaphore and a process is blocked on it,   *)
(* there is no unit it could have had.                                     *)
NoStrandedWaiter ==
    \A h \in known, p \in Procs :
        Quiet(h) /\ BlockedInP(p, h) => count[h] <= 0

(* currentNumSems, which isSemAvailable reads without a lock, is the number *)
(* of slots in use whenever nobody is changing the table.                  *)
TableAccounting ==
    (\A p \in Procs : ~HoldsTable(p)) =>
        currentNumSems = Cardinality({h \in Slots : count[h] # EMPTY})

(* No handler leaves the semaphore table: getAvailableSemHandle finds a    *)
(* slot, and doesGivenSemExist accepts handles of slots only.              *)
InsideTable == \A p \in Procs : pc[p] # "undefined"

(* A handler comes to its end, unless it is blocked in SemP for want of a  *)
(* unit: nobody waits for a lock for ever.                                 *)
HandlersEnd ==
    \A p \in Procs :
        pc[p] \in Steps ~> \/ pc[p] \in {"user", "quit"}
                           \/ \E h \in Slots : BlockedInP(p, h)

(* SemCreate and SemFree always come to their end, whatever P and V do.    *)
TableHandlersEnd ==
    \A p \in Procs :
        pc[p] \in CreateSteps \cup FreeSteps
            ~> pc[p] \in {"user", "quit"} \/ ~InsideTable
=============================================================================
