------------------------------ MODULE System ------------------------------
(***************************************************************************)
(* Phase 3 as a whole, running a program: the semaphores and the processes *)
(* on one kernel and one mailbox table, the system call interface of       *)
(* src/libuser.c with its registers, and the dispatcher of phase 1, which  *)
(* runs a process of the highest priority that can run and may switch      *)
(* among those of equal priority at any time (a time slice ends).          *)
(***************************************************************************)
EXTENDS TestPrograms, Mailboxes, FiniteSets, TLC

CONSTANTS
    Start2,     \* the pid of start2
    NoMsg,      \* what MboxCondReceive returns if there is no message
    Tests,      \* the names of the programs to run, one at a time
    Unbounded   \* the bounds of the two components: no program here comes near

ASSUME SystemAssumption ==
    /\ MAXPROC \in Nat \ {0, 1}
    /\ MAXSEMS \in Nat \ {0}
    /\ Procs = 0 .. MAXPROC - 1
    /\ MAXMBOX >= 2
    /\ Start2 \in 1 .. MAXPROC - 1
    /\ Tests \subseteq DOMAIN Programs
    /\ NoMsg \in Int
    /\ Unbounded \in Nat

VARIABLES
    \* Of the semaphores.
    count, mutex, blockingMbox, currentNumSems, sem, box, val,
    known, units, tableCalls,
    \* Of the processes.
    kstate, kpid, kparent, zapped, nextPid, halted, pid, startFunc, child,
    nextSibling, parent, pc, mboxID, newPid, childToZap, pidToZap, program,
    \* Of the programs.
    test,       \* the name of the program that runs
    func,       \* the function that start3 and its descendants were spawned for
    calls,      \* the number of system calls that a process has made
    regs,       \* the registers of its system call
    handles,    \* what the SemCreate calls of the program have stored
    status,     \* the status that a process terminates with
    priority

S == INSTANCE Semaphores
        WITH InitValues <- {}, Calls <- {"SemCreate", "SemP", "SemV", "SemFree"},
             WildHandles <- Int, Zappable <- {}, MaxUnits <- Unbounded,
             MaxTableCalls <- Unbounded

\* start2 creates semsMutex first and ProcTableMutex after it.
P == INSTANCE UserProcs
        WITH ProcTableMutex <- 1, MaxPid <- Unbounded, Spawners <- Procs

semVars == <<count, mutex, blockingMbox, currentNumSems, sem, box, val, known,
             units, tableCalls>>
procVars == <<kstate, kpid, kparent, nextPid, halted, pid, startFunc, child,
              nextSibling, parent, mboxID, newPid, childToZap, pidToZap, program>>
userVars == <<test, func, calls, regs, handles, status, priority>>
vars == <<mailboxVars, semVars, procVars, userVars, pc, zapped>>

\* What is left on the stack where no stub and no handler writes.
Garbage == -999

NoRegs == [arg1 |-> Garbage, arg2 |-> Garbage, arg4 |-> Garbage]

start2 == P!Slot(Start2)

----------------------------------------------------------------------------
(* The dispatcher.                                                         *)

\* A process is blocked on a mailbox, in join or in zap.  Nobody runs once the
\* system has halted.
CanRun(p) ==
    /\ ~halted
    /\ kstate[p] = "active"
    /\ pc[p] # "none"
    /\ p \in ready
    /\ pc[p] = "w_join" => P!Kids(p) = {} \/ P!Kids(p) # P!ActiveKids(p)
    /\ pc[p] = "z_wait" => ~P!IsLive(pidToZap[p])

Dispatched ==
    LET Runnable == {p \in Procs : CanRun(p)} IN
    {p \in Runnable : \A q \in Runnable : priority[p] <= priority[q]}

----------------------------------------------------------------------------
(* The programs.                                                           *)

\* The function that spawnLaunch has found for the process.
Code(p) == Programs[test][func[program[p]]]

NextCall(p) == Code(p)[calls[p] + 1]

\* start2 spawns start3 with priority 3.
Spawning(p) == IF p = start2 THEN Fork("start3", 3, Anything) ELSE Code(p)[calls[p]]

----------------------------------------------------------------------------
(* Faulty variants of the steps below.  Each stands in for its original in *)
(* an experiment that a property has to notice; no specification uses them. *)

\* waitHandler that gives the status of the parent.
OwnStatus(p) ==
    /\ P!waitReal(p)
    /\ regs' = [regs EXCEPT ![p].arg2 = status[p]]
    /\ UNCHANGED <<semVars, test, func, calls, handles, status, priority>>

\* semCreate that stores a handle counted from 1.
HandleFromOne(p) ==
    /\ S!Return(p)
    /\ regs' = [regs EXCEPT ![p].arg4 = IF pc[p] = "f_ret" THEN val[p] ELSE 0]
    /\ handles' = IF pc[p] = "c_ret" /\ pc'[p] = "user"
                  THEN Append(handles, sem[p] + 1) ELSE handles
    /\ status' = IF pc'[p] = "quit" THEN [status EXCEPT ![p] = 0] ELSE status
    /\ UNCHANGED <<procVars, test, func, calls, priority>>

\* A handler of the semaphores that calls quit, not terminateReal.
QuitAtOnce(p) ==
    /\ P!At(p, "quit")
    /\ P!Goto(p, "t_quit")
    /\ UNCHANGED <<mailboxVars, semVars, procVars, zapped, userVars>>

----------------------------------------------------------------------------
(* start2 has created the two mutexes and calls spawnReal for start3.      *)
Init ==
    /\ S!SemInit
    /\ P!ProcInit
    /\ mbox = [b \in Boxes |-> IF b = S!semsMutex THEN NewBox(1)
                               ELSE IF b = 1 THEN NewBox(P!ProcTableMutexSlots)
                               ELSE ClosedBox]
    /\ test \in Tests
    /\ func = << >>
    /\ calls = [p \in Procs |-> 0]
    /\ regs = [p \in Procs |-> NoRegs]
    /\ handles = << >>
    /\ status = [p \in Procs |-> Garbage]
    /\ priority = [p \in Procs |-> 1]

----------------------------------------------------------------------------
(* The handlers: the steps of the components, and what is put into the     *)
(* registers when spawnReal, waitReal and the others return.               *)

Fork1(p) ==
    /\ P!SpawnFork(p)
    /\ IF pc'[p] = "s_lock"
       THEN LET c == P!Slot(newPid'[p]) IN
            /\ func' = func @@ (newPid'[p] :> Spawning(p).func)
            /\ priority' = [priority EXCEPT ![c] = Spawning(p).priority]
            /\ calls' = [calls EXCEPT ![c] = 0]
            /\ regs' = [regs EXCEPT ![c] = NoRegs]
       ELSE UNCHANGED <<func, priority, calls, regs>>
    /\ UNCHANGED <<semVars, test, handles, status>>

Spawned(p) ==
    /\ P!SpawnSend(p)
    /\ regs' = [regs EXCEPT ![p].arg1 = newPid[p], ![p].arg4 = 0]
    /\ UNCHANGED <<semVars, test, func, calls, handles, status, priority>>

\* No process was created.  The handler says so in arg1 only.
NotSpawned(p) ==
    /\ P!SpawnRelease(p)
    /\ regs' = [regs EXCEPT ![p].arg1 = -1, ![p].arg4 = 0]
    /\ UNCHANGED <<semVars, test, func, calls, handles, status, priority>>

\* join gives -2 and a status of 0 if there is no child.  arg4 is never set.
Waited(p) ==
    /\ P!waitReal(p)
    /\ \/ /\ P!Kids(p) = {}
          /\ regs' = [regs EXCEPT ![p].arg1 = -2, ![p].arg2 = 0]
       \/ \E c \in P!Kids(p) :
            /\ kstate'[c] # kstate[c]
            /\ regs' = [regs EXCEPT ![p].arg1 = kpid[c], ![p].arg2 = status[c]]
    /\ UNCHANGED <<semVars, test, func, calls, handles, status, priority>>

\* A process that was zapped terminates with a status of 0.
ProcReturn(p) ==
    /\ P!Return(p)
    /\ status' = IF pc'[p] = "t_lock" THEN [status EXCEPT ![p] = 0] ELSE status
    /\ UNCHANGED <<semVars, test, func, calls, regs, handles, priority>>

SemReturn(p) ==
    /\ S!Return(p)
    /\ regs' = [regs EXCEPT
            ![p].arg1 = IF pc[p] = "c_ret" THEN sem[p] ELSE @,
            ![p].arg4 = IF pc[p] = "f_ret" THEN val[p] ELSE 0]
    /\ handles' = IF pc[p] = "c_ret" /\ pc'[p] = "user"
                  THEN Append(handles, sem[p]) ELSE handles
    /\ status' = IF pc'[p] = "quit" THEN [status EXCEPT ![p] = 0] ELSE status
    /\ UNCHANGED <<procVars, test, func, calls, priority>>

SemPCheck(p) ==
    /\ S!semPCheck(p)
    /\ status' = IF pc'[p] = "quit" THEN [status EXCEPT ![p] = 1] ELSE status
    /\ UNCHANGED <<procVars, test, func, calls, regs, handles, priority>>

\* terminateReal is called in the middle of a semaphore's handler.
terminateReal(p) ==
    /\ P!At(p, "quit")
    /\ P!Goto(p, "t_lock")
    /\ UNCHANGED <<mailboxVars, semVars, procVars, zapped, userVars>>

ProcStep(p) ==
    /\ \/ P!Lock(p) \/ P!Unlock(p)
       \/ P!SpawnCreate(p) \/ P!SpawnInit(p) \/ P!addChild(p) \/ P!SpawnParent(p)
       \/ P!LaunchReceive(p) \/ P!LaunchRelease(p) \/ P!LaunchRead(p)
       \/ P!ReadChild(p) \/ P!ReadPid(p) \/ P!zap(p) \/ P!zapReturn(p)
       \/ P!ReadSibling(p) \/ P!removeChild(p) \/ P!quit(p)
    /\ UNCHANGED <<semVars, userVars>>

SemStep(p) ==
    /\ \/ S!Lock(p) \/ S!Unlock(p) \/ S!ReadMutex(p) \/ S!ReadBlockingMbox(p)
       \/ S!getAvailableSemHandle(p) \/ S!initSemCount(p) \/ S!initSemMutex(p)
       \/ S!initSemBlocking(p) \/ S!semCreateCount(p)
       \/ S!semPTest(p) \/ S!semPDecrement(p) \/ S!semPBlock(p)
       \/ S!semVTest(p) \/ S!semVWake(p) \/ S!semVIncrement(p)
       \/ S!freeSemCount(p) \/ S!freeSemMutex(p) \/ S!freeSemMutexId(p)
       \/ S!freeSemProbe(p) \/ S!freeSemBlocking(p) \/ S!freeSemBlockingId(p)
       \/ S!semFreeCount(p)
    /\ UNCHANGED <<procVars, userVars>>

----------------------------------------------------------------------------
(* The system calls of the programs.                                       *)

\* p makes its next call, which is one of names.
Makes(p, names) == P!At(p, "user") /\ NextCall(p).call \in names

\* The registers as they are when the handler returns, or before it sets them.
Called(p, registers) ==
    /\ calls' = [calls EXCEPT ![p] = @ + 1]
    /\ regs' = [regs EXCEPT ![p] = registers]
    /\ UNCHANGED <<test, func, priority>>

ValidSpawn(call) == call.priority \in 1 .. 5

spawn(p) ==
    /\ Makes(p, {"Spawn"})
    /\ \/ /\ ValidSpawn(NextCall(p))
          /\ P!spawn(p)
          /\ Called(p, NoRegs)
       \/ /\ ~ValidSpawn(NextCall(p))
          /\ P!Call(p, "return")
          /\ Called(p, [NoRegs EXCEPT !.arg1 = -1, !.arg4 = -1])
    /\ UNCHANGED <<semVars, handles, status>>

waitHandler(p) ==
    /\ Makes(p, {"Wait"})
    /\ P!Call(p, "w_join")
    /\ Called(p, NoRegs)
    /\ UNCHANGED <<semVars, handles, status>>

terminate(p) ==
    /\ Makes(p, {"Terminate"})
    /\ P!Call(p, "t_lock")
    /\ Called(p, NoRegs)
    /\ status' = [status EXCEPT ![p] = NextCall(p).status]
    /\ UNCHANGED <<semVars, handles>>

nullsys3(p) ==
    /\ Makes(p, {"Undefined"})
    /\ P!Call(p, "t_lock")
    /\ Called(p, NoRegs)
    /\ status' = [status EXCEPT ![p] = 1]
    /\ UNCHANGED <<semVars, handles>>

getPID(p) ==
    /\ Makes(p, {"GetPID"})
    /\ P!Call(p, "return")
    /\ Called(p, [NoRegs EXCEPT !.arg1 = kpid[p]])
    /\ UNCHANGED <<semVars, handles, status>>

\* The clock and the CPU times are not modelled: arg1 is some number.
ClockReading == 0

getTimeOfDay(p) ==
    /\ Makes(p, {"GetTimeofDay"})
    /\ P!Call(p, "return")
    /\ Called(p, [NoRegs EXCEPT !.arg1 = ClockReading])
    /\ UNCHANGED <<semVars, handles, status>>

cpuTime(p) ==
    /\ Makes(p, {"CPUTime"})
    /\ P!Call(p, "return")
    /\ Called(p, [NoRegs EXCEPT !.arg1 = ClockReading])
    /\ UNCHANGED <<semVars, handles, status>>

(* The handlers of the semaphores return at once if there is an error: arg1 *)
(* is what it was, and a zapped process goes back to its program.          *)
SemRegisters(p, arg) ==
    [arg1 |-> arg, arg2 |-> Garbage,
     arg4 |-> IF pc'[p] = "user" THEN -1 ELSE Garbage]

semCreate(p) ==
    LET v == NextCall(p).value IN
    /\ Makes(p, {"SemCreate"})
    /\ S!semCreate(p, v)
    /\ Called(p, SemRegisters(p, v))
    /\ handles' = IF pc'[p] = "user" THEN Append(handles, v) ELSE handles
    /\ UNCHANGED <<procVars, status>>

semP(p) ==
    LET h == handles[NextCall(p).sem] IN
    /\ Makes(p, {"SemP"})
    /\ S!semP(p, h)
    /\ Called(p, SemRegisters(p, h))
    /\ UNCHANGED <<procVars, handles, status>>

semV(p) ==
    LET h == handles[NextCall(p).sem] IN
    /\ Makes(p, {"SemV"})
    /\ S!semV(p, h)
    /\ Called(p, SemRegisters(p, h))
    /\ UNCHANGED <<procVars, handles, status>>

semFree(p) ==
    LET h == handles[NextCall(p).sem] IN
    /\ Makes(p, {"SemFree"})
    /\ S!semFree(p, h)
    /\ Called(p, SemRegisters(p, h))
    /\ UNCHANGED <<procVars, handles, status>>

Step(p) ==
    \/ Fork1(p) \/ Spawned(p) \/ NotSpawned(p) \/ Waited(p) \/ ProcReturn(p)
    \/ SemReturn(p) \/ SemPCheck(p) \/ terminateReal(p)
    \/ ProcStep(p) \/ SemStep(p)
    \/ spawn(p) \/ waitHandler(p) \/ terminate(p) \/ nullsys3(p)
    \/ getPID(p) \/ getTimeOfDay(p) \/ cpuTime(p)
    \/ semCreate(p) \/ semP(p) \/ semV(p) \/ semFree(p)

Next == \E p \in Dispatched : Step(p)

Spec == Init /\ [][Next]_vars

(* The processor is not idle as long as a process can run.  No program has  *)
(* a loop without end, so nothing need be said of who gets the processor.  *)
Fairness == WF_vars(Next)

FairSpec == Spec /\ Fairness

----------------------------------------------------------------------------
(* Properties.                                                             *)

(* What the system calls give back is what the recorded outputs of the     *)
(* tests show (src/testResults): pids, the statuses of the children that   *)
(* are waited for, handles, and the results that report an error, however  *)
(* processes of equal priority take turns.                                 *)
AsRecorded ==
    \A p \in Procs :
        pc[p] = "user" /\ calls[p] > 0 =>
            LET call == Code(p)[calls[p]] IN
            /\ regs[p].arg1 \in call.arg1
            /\ regs[p].arg2 \in call.arg2
            /\ regs[p].arg4 \in call.arg4

Completed == kstate[start2] = "quit"

\* In these, a process terminates while two of its children of one priority are
\* active: the time slice of one can end when it has left the list of its parent
\* and has not quit, and the quit() of the parent halts.
RacyTests == {"test18", "test23", "test24", "test25", "zappedWorkers"}

QuitRace ==
    /\ halted
    /\ \E p \in Procs :
        /\ pc[p] = "t_quit"
        /\ \E c \in P!ActiveKids(p) : pc[c] \in {"r_unlock", "t_quit"}

(* A program comes to its end and all of its processes with it: the system *)
(* does not halt, and nobody is left blocked on a semaphore, a mutex, a    *)
(* child or a zap.                                                         *)
Completes == <>(Completed \/ (test \in RacyTests /\ QuitRace))

(* Semaphores and handshakes share one mailbox table, and an id may be of  *)
(* a mailbox that was released and is now another's: a process in SemP may *)
(* send to the mailbox of a handshake once the semaphore was freed.  For   *)
(* all that, the semaphore table and ProcTable are each changed by one     *)
(* process at a time.                                                      *)
TablesLocked == S!SemsMutexExclusion /\ P!ProcTableExclusion

(* When start2 has quit, phase 3 is as it was before start3: of the        *)
(* mailboxes only the two mutexes and those of the semaphores that were    *)
(* not freed are left, empty, and no process is.                           *)
CleanEnd ==
    Completed =>
        /\ {b \in Boxes : mbox[b].open} =
             ({S!semsMutex, 1} \cup {mutex[h] : h \in S!Slots}
                \cup {blockingMbox[h] : h \in S!Slots}) \ {EMPTY}
        /\ \A b \in Boxes : mbox[b].used = 0 /\ Waiting(b) = {}
        /\ \A p \in Procs : kstate[p] = "active" => p \in 1 .. Start2 - 1
        /\ child[start2] = P!NULL
        /\ currentNumSems = Cardinality({h \in S!Slots : count[h] # EMPTY})

(* Terminate ends "the invoking process and its children"                  *)
(* (src/libuser.c:90): a process that begins to terminate quits.           *)
TerminateEnds == P!TerminateEnds
=============================================================================
