# Phase 3, verified

TLA+ models of the system call layer ("phase 3") of this teaching kernel, their
TLC runs, and proofs for TLAPS. Phase 3 gives user programs processes (Spawn,
Wait, Terminate) and semaphores (SemCreate, SemP, SemV, SemFree). It stands on
two binary libraries, `src/libraries/*/libpatrickphase1.a` (processes) and
`libpatrickphase2.a` (mailboxes); of these only the headers are source.

## The system

| Component | State | Operations | What makes it correct |
|---|---|---|---|
| Semaphores (`phase3.c`, `phase3utility.c`) | `Semaphores[]` (count, mutex, blockingMbox), `currentNumSems`, `semsMutex` | `semCreate`, `semP`, `semV`, `semFree` and their `...Real` functions, `initSem`, `freeSem` | no unit appears or disappears; the count and the table change under their locks; nobody waits for a unit that is there; mailboxes are never shared |
| User processes (same files) | `ProcTable[]` (pid, startFunc, child, nextSibling, parent), `ProcTableMutex` | `spawnReal`, `spawnLaunch`, `waitReal`, `terminateReal`, `addChild`, `removeChild` | a process runs what it was spawned for; the child lists agree with the kernel's; terminating ends all descendants and never halts the machine |
| Mutexes (`lock`, `unlock`) | a mailbox with one slot | send to lock, receive to unlock | mutual exclusion, and everybody gets it some day |
| Boot (`start2`) | the system call vector | fills the tables, spawns `start3`, waits for it | quits when `start3` has, with nothing left over |
| System call interface (`libuser.c`) | registers of the trap | one stub for each call | returns what the handler put there |
| GetTimeofDay, CPUTime, GetPID | none | read one kernel value | notice a zap |
| Test programs (`testcases`, `testResults`) | none | 26 programs with their recorded outputs | the outputs hold on every schedule |
| Mailboxes (phase 2, external) | mailbox table, queues of blocked processes | create, release, send, receive, conditional receive | |
| Kernel (phase 1, external) | process table | fork1, join, quit, zap, isZapped, dispatcher | |

How they interact. A user program traps into a handler, with interrupts enabled:
a handler can be preempted between any two accesses to shared memory, and any
other process may run there. Handlers share the two tables. They exclude each
other with `lock`/`unlock` on mailboxes, wait for units on mailboxes without
slots, and hand a new process its start signal through a mailbox. A parent that
terminates zaps its children, which learn of it at the end of their handlers
(`isZapped`), and are not woken up if they are blocked.

What is hard: preemption between a check and the act it allows (`isSemAvailable`,
`doesGivenSemExist`, the count after a wake-up, the child lists around `zap` and
`quit`); mailbox ids, slots and pids that are used again; processes zapped while
they hold or wait for a lock; full tables. `PROJECT.json` lists each hazard at
its line, with the properties that would show it.

## Modules

| Module | Models | Uses |
|---|---|---|
| `Mailboxes` | the phase 2 operations that phase 3 uses (external) | |
| `Semaphores` | the semaphore table and the four handlers | extends `Mailboxes` |
| `CountingSemaphore` | what SemCreate, SemP and SemV promise, in six actions | |
| `SemaphoreRefinement` | the mapping from `Semaphores` to `CountingSemaphore` | extends `Semaphores`, instantiates `CountingSemaphore` |
| `UserProcs` | ProcTable, Spawn, Wait, Terminate, and the kernel calls under them (external) | extends `Mailboxes` |
| `TestPrograms` | the programs of `src/testcases` as sequences of system calls, each with the results its recorded output shows; the stubs of `libuser.c` | |
| `System` | semaphores and processes on one kernel and one mailbox table, registers, exit statuses, priorities and the dispatcher, running those programs | extends `TestPrograms`, `Mailboxes`; instantiates `Semaphores` and `UserProcs` |
| `SystemRefinement` | what each component sees of `System`, and its promises there | extends `System`, instantiates `ChildListProofs` (and with it `UserProcs`) and `SemUnitProofs` (`Semaphores`, `CountingSemaphore`) |
| `MCSemaphores`, `MCUserProcs`, `MCSystem` | sets of values for the configurations | |
| `MailboxProofs` | lemmas on sequences and on what a mailbox operation does | extends `Mailboxes`, `TLAPS` |
| `SemaphoreProofs` | theorems about `Semaphores` | extends `Semaphores`, `MailboxProofs` |
| `SemMutexProofs` | theorems about the mutex of a semaphore and the size of the table | extends `SemaphoreProofs`, `FiniteSetTheorems` |
| `SemUnitProofs` | theorems about the units, and the refinement | extends `SemMutexProofs`, `SemaphoreRefinement` |
| `UserProcProofs` | theorems about `UserProcs`: types, the lock of ProcTable, the handshake of `spawnReal` and `spawnLaunch` | extends `UserProcs`, `MailboxProofs`, `FiniteSetTheorems` |
| `ChildListProofs` | theorems about the child lists and the loop of `terminateReal` | extends `UserProcProofs` |
| `SystemProofs` | the theorem about the two tables in `System` | extends `System`, `MailboxProofs` |
| `CompositionProofs` | the theorems that what holds of the components holds of the whole | extends `SystemRefinement`, `SystemProofs`, `FiniteSetTheorems` |

**Steps.** `pc[p]` names the next step of process `p`. One access to shared
memory, or one mailbox or kernel operation, is one step; computations on locals
belong to the step before them. In `UserProcs`, consecutive writes to one slot
of ProcTable inside the lock are one step where nothing outside the lock reads
them. `box[p]` of `Semaphores` is the value of an argument such as `sem->mutex`
between its evaluation and the call. Arguments that programs choose (initial
values, handles) are quantified in the actions; a failing test of an argument
changes nothing.

**Mailboxes.** Phase 3 sends empty messages only, so a mailbox is its number of
slots, how many are used, and two queues of processes. An operation is atomic
(phase 2 disables interrupts). A process that blocks leaves `ready` and already
has the `pc` of its next step, which it takes when somebody puts it back.
Release wakes up everybody. Which closed mailbox MboxCreate opens is the lowest one if `FirstFree`, as in
the library, and any if not: the runs take the first, the proofs cover both. `NoMsg`, what the conditional receive returns if
there is no message, is a constant: the library of the repository returns -2,
`phase2.h` documents 1, and `semVReal` and `freeSem` disagree about it.

**Semaphores.** Labels `c_`, `p_`, `v_`, `f_` are the handlers of SemCreate, SemP,
SemV and SemFree. `count--` and `count++` are a load and a store: the store may be
of the value seen by the test before or of the current one. A handler that
leaves the table (`Semaphores[-1]`, handle `MAXSEMS`) goes to "undefined" and the
model says nothing more of that process. `known`, `units` and `tableCalls` are
history: the handles given out, initial value + V's begun - P's finished of each
slot since its SemCreate, and a bound on the calls.  A process that finds itself
zapped, or its semaphore freed, goes to "quit". In freeSem the release of a mailbox
("f_mutex", "f_block") and the assignment of `EMPTY` ("f_nomutex", "f_noblock") are separate
steps: whoever the release wakes up may run in between, with the old id still in the table.

**UserProcs.** A process is its slot, pid modulo `MAXPROC`. Labels `s_` are
`spawnReal`, `l_` `spawnLaunch`, `t_`, `z_`, `n_`, `r_` the four critical sections
of `terminateReal`, `w_` `waitReal`. The kernel, as phase 3 sees it: fork1 takes
the next pid with a free slot, fails when all processes are active, and halts
when slots are missing otherwise; join frees one child that has quit; quit halts
with active children, else frees those that have quit and wakes its parent and
whoever zaps it; zap returns when the process has quit and halts if there is
none. `start2` spawns `start3`, waits for it and quits. A program may make any call
at any time. `otherCall` is any call that leaves the table alone: it only notices
a zap.

**System.** `System` runs one program of `TestPrograms` from `start2` to the end of
`start2`. Its steps are those of the two components, with what the handlers put
into the registers (`regs`: arg1, arg2 and arg4, the ones a stub reads when it comes
back) when `spawnReal`, `waitReal` and the others return. A register that nobody
sets holds `Garbage`, as the `sysArg` on a stub's stack does. `func` is what
`startFunc` points to, `calls[p]` how far the program has got, `handles` what the
SemCreate calls have stored in the globals of the program. "quit" of `Semaphores`, a
`terminateReal` in the middle of a handler, goes on at "t_lock" of `UserProcs`.
`Dispatched` is the dispatcher: the processes that can run and have none of a higher priority beside them. A
time slice may end at any step, so processes of equal priority interleave in
every way. A mailbox operation is still one step: a release readies all that
were blocked at once, where the library may let the first of them run before it
has woken up the last.

A call of `TestPrograms` names its handler and the sets of values that may be in the
registers when it returns, taken from `src/testResults`; `Anything` where the program
neither prints nor tests the value. The delay loops of the tests are left out: a
time slice that may end anywhere stands for them. Pids are as recorded: the sentinel, `start1`
and `start2` have pids 1 to 3, `start3` has 4. Three programs are not of the repository:
`errors` makes every call fail in every way the handlers test for, and a call that has no
handler; `zappedWorkers` terminates children that are anywhere in SemP, SemV and SemCreate;
`zappedWaiter` terminates one that is blocked in SemP.

**External behaviour.** That fork1 halts on a table full of quit processes, that quit
frees its quit children, that zap of a process that has quit returns at once and
that the conditional receive returns -2 is what the libraries in `src/libraries`
do; their sources are not in the repository. Nor is that of what a mailbox operation has
done when it returns -3 to a zapped process: the models take it as done, as `lock` and
`unlock`, which ignore the answer, rely on. What is said here of the locks and of the ends of handlers with zapped
processes rests on that.

## Runs

| Run | Instance | Shows |
|---|---|---|
| `sem_pv` | the library's answer, P and V | the mutex of a semaphore excludes, no process passes P without a unit, `currentNumSems` is right, and P and V implement `CountingSemaphore` with `MayLose` |
| `sem_documented` | the documented answer, a zapped process, wrong handles | no unit is lost, `CountingSemaphore` without `MayLose`, every handler ends unless it waits for a unit |
| `sem_free` | all calls, two slots | types, the table lock, mailboxes owned by one slot, SemCreate and SemFree end |
| `procs_reuse` | four slots used again | own program, the table lock, child lists, zap only of own children that exist and no child passed over, no mailbox left over, nothing of phase 3 outlives `start2`, Terminate ends, the machine halts in fork1 and quit only |
| `tests` | nine slots, three semaphores, 26 tests and `errors` and `zappedWorkers` | on every schedule each call gives what is recorded, the two tables stay locked, the program ends, and the tables and mailboxes are as they were before it (`AsRecorded`, `TablesLocked`, `Completes`, `CleanEnd`); every step is one of `UserProcs` (`UsersRefined`), and the main promises of the components hold of the whole (`Promises`, `SemPromises`) |

Runs that end in a violation, each a disagreement of the code with what it says
(quoted in `PROJECT.json`, "findings"):

| Run | What happens |
|---|---|
| `sem_lost_v` | V on count 0 with nobody blocked: MboxCondReceive returns -2, `semVReal` (line 762) expects 1, the unit is lost |
| `sem_lost_wakeup` | V between P's unlock (728) and its send (730): P blocks although the semaphore has a unit. Shown with the documented answer, so it is a fault of its own |
| `sem_table_race` | two SemCreate with one slot left both pass the unlocked test (277); the second gets handle -1 and writes before the table |
| `sem_freed_waiter` | a process blocked in P, woken up by SemFree, runs only when the count is no longer EMPTY (736): it returns from P instead of terminating |
| `procs_quit_race` | a child has left the list (682) but not quit (685); the parent sees no child, quits, and the kernel halts |
| `procs_spawn_halt` | children that quit and were not waited for fill the table; Spawn halts instead of returning -1 |
| `tests_zapped_waiter` | a parent terminates while its child is blocked in SemP (730): zap (671) does not wake the child, and both stay for ever |

`tests` finds that four tests of the repository are not safe from `procs_quit_race`:
in 18, 23, 24 and 25 a process terminates while it has two or more active children of one
priority, and if the time slice of a child ends between `removeChild` and `quit` the
machine halts (`RacyTests`). `Completes` allows that end for these and for
`zappedWorkers`, and for no other program.

**Bounds.** `MaxUnits`, `MaxTableCalls`, `MaxPid` and `Spawners` are guards of the
*calls* only: they bound what programs ask for, never what a handler does. Three
processes are needed for a waiter, a signaller and a third that interferes; two
slots for mailboxes that move between semaphores; `MAXMBOX` of `sem_free` is
exactly what two semaphores and `semsMutex` need, so that ids are used again at once.
Four process slots hold `start2`, `start3` and either two siblings or a grandchild,
and `MaxPid` makes slots be used again. `MAXMBOX` of `procs_reuse` is 5, one mailbox more
than slots, which is the assumption of the proofs and no more than it: ids are used again as well. Lists of three siblings, with a middle,
are those of tests 18, 21, 24 and 25 in `tests`. There MAXPROC is 9, so that three
siblings fit below six ancestors; only in tests 18 and 25 do pids depend on the size of
the table (50 in the code), and the expected ones are those of the next free slot.
Test25 fills whatever table there is. MAXSEMS is 3: tests 05 and 08 fill the semaphore table, whatever its size. `MAXMBOX` is 18,
enough for two mutexes, three semaphores and a handshake of every process at once, which is the
assumption of the proofs (`RoomEnough`) and no more than it; `CleanEnd` would miss one that was not released.
`Unbounded`, the value of `MaxUnits`,
`MaxTableCalls` and `MaxPid` in `System`, is out of reach of the programs. `sem_pv` and the two-call runs leave out SemFree because with it
the properties do not hold, as `sem_freed_waiter` shows. Symmetry is used only in
runs without liveness in which every process is treated alike. Deadlock is not
checked: programs need not call, and may block in SemP or in Wait for good.

**Fairness.** `WF(HandlerStep(p))`: a handler that can go on does. The kernel is
preemptive and round robin among equal priorities, and the lock mailboxes are
FIFO; with different priorities this assumes that the higher ones do not run for
ever. System calls are not fair in `Semaphores`. In `UserProcs` a program that keeps
calling terminates some day (`SF(terminate(p))`). This is an assumption about
programs: phase 3 cannot end a zapped process that makes no calls, and `zap` does not
wake one that is in Wait for a child nobody has zapped. `TerminateEnds` therefore
says that the handlers themselves add no waiting for ever; it does not show that a zapped
process ends by itself (`tests_zapped_waiter` shows one that does not). `System` needs only
`WF(Next)`, that the processor is not idle while a process can run: its programs have
no loops without end. The dispatcher's priorities are part of its steps.

**Mutants.** Each module has a section of faulty variants of its actions (a missing
lock, a forgotten reset, an off-by-one). Each property of a passing run is
violated when its variant stands in for the original (`PROJECT.json`, "mutants").

## Proofs

`SemaphoreProofs` proves, for every number of processes, slots, mailboxes, any
initial values, handles and calls, and any answer `NoMsg`, assuming only
`SemaphoreAssumption` and `MailboxAssumption` (the tables are not empty):

- `TypeCorrect`: `Spec => []TypeOK`
- `MailboxesStayOwned`: `Spec => []MailboxesOwned`
- `TableExclusion`: `Spec => []SemsMutexExclusion`

The inductive invariant is `IInv == TypeOK /\ QueuesOK /\ MailboxesOwned /\ LockInv`.
Mutual exclusion alone is not inductive: the next process could get past the
lock if the mailbox were released, or received from by a process that believes
it to be the mutex of its semaphore. `MailboxesOwned` excludes that the id is in
the table; `LockInv` adds that a process has `semsMutex` as its evaluated argument
exactly while it is in a handler of the table, that the mailbox holds a message
while somebody is inside, and that nobody ever waits to receive from it.
`QueuesOK` says that a blocked process is in one queue only, so that a wake-up
readies the process it is meant for. `MailboxesOwned` in turn needs the lock. freeSem
releases a mailbox before it takes the id out of the table, and in between phase 2 may give
the same id out again: the property therefore says of a slot in that state (`StaleMutex`,
`StaleBlockingMbox`) only whose id it is, not that it is open. That no other slot gets the id meanwhile is
because initSem runs under `semsMutex` too (`CreateOwned`), so the two are proved as one invariant. The lemmas of
`MailboxProofs` say for each mailbox operation which mailbox it changes, whom it
may wake up, and that it keeps `QueuesOK`; the proofs have one step for each action.
TLC checked `IInv` on the instance of `sem_free` before it was proved.

`SemMutexProofs` and `SemUnitProofs` prove the rest of what the semaphores promise,
under `NothingFreed`, which is an assumption about programs and table sizes:

- nobody calls SemFree. Otherwise a handler may hold, test or count under a mutex
  that is released, or of another semaphore by now (`sem_freed_waiter`);
- handles come from SemCreate. `SemP` of a slot that semCreateReal is still filling
  finds a count but no mutex yet, and `lock` of mailbox -1 locks nothing;
- `MAXMBOX > 2 * MAXSEMS`, mailboxes for the whole table and for `semsMutex` (2000
  and 200 in the code). semCreateReal goes on when MboxCreate fails, after a line on the console.

For every number of processes, initial value and handle, any processes being zapped
at any time, and any answer `NoMsg`:

- `CountExclusion`: `NothingFreed /\ Spec => []SemMutexExclusion`
- `CountAccounting`: `NothingFreed /\ Spec => []TableAccounting`
- `Implements`: `NothingFreed /\ Spec => CountingSpec`
- `NoUnitTwice`: if there are finitely many processes, `[]NoPhantomUnit`
- `NoUnitLost`: if moreover `NoMsg = 1`, `[]NoLostUnit`. With the proof of `NoUnitTwice`
  it pins `sem_lost_v` on the answer of MboxCondReceive: there is no other way to lose a unit.

The argument is in layers, each inductive relative to `MInv`:

1. `MInv`: `IInv` of `SemaphoreProofs` with `CountInv`. The progress of a process tells what its
   semaphore has: a count from "c_mutex" on, a mutex from "c_block" on. Since no count
   ever becomes `EMPTY` again, no slot is given out twice. Every open mailbox but `semsMutex`
   is in the table, so a slot without one leaves some closed (counting), and MboxCreate
   cannot fail. The mailbox of a mutex is full while some process
   is inside, and `blockingMbox` never keeps a message; so the process inside is
   alone, and the count it read at the test is still the count when it stores it.
2. `NumInv`: the slots in use number `currentNumSems`, plus one while a process is between its
   store to the count and `currentNumSems++`. `semsMutex` admits one such process.
3. `UnitInv`: the units of a slot are its count and the units on their way (`Pending`: V's that
   have not had their effect, P's that have), or more where a V found nobody to wake; exactly these if `NoMsg = 1`.
4. `HeldInv`: a mutex that is taken has a holder, a process between its lock and its unlock. The converse is
   part of `MInv`; this direction says that no lock is lost: unlock hands it to a process that waits for this very semaphore
   (`WaiterOfMutex`) or leaves the mailbox empty. No theorem above needs it; `EndsClean` does, below.

Each step of a handler is then one of a few moves (`QuietMove`, `CountMove`, `CreateMove`,
`HandMove`, `DropMove`, `BeginMove`), which serve both the count of the units and the refinement: a
step maps to `Create`, `Take`, `Give`, `HandOver`, `Lose` or `Begin` of `CountingSemaphore`, or to a
stutter. TLC checked `MInv`, `NumInv`, `UnitInv` and `HeldInv` on the instance of `sem_pv` before they were proved,
`UnitInv` also with `NoMsg = 1`.

`UserProcProofs` proves, for every number of processes and mailboxes, every
`MaxPid`, `Spawners` and place of `start2` and `ProcTableMutex` in their tables,
assuming only `UserProcsAssumption` and `MailboxAssumption`:

- `TypeCorrect`: `Spec => []TypeOK`
- `TableExclusion`: `Spec => []ProcTableExclusion`

Its inductive invariant is `IInv == TypeInv /\ LockInv`. `TypeInv` is `TypeOK`, `QueuesOK`
and `ZapInv`, that `terminateReal` has a child while it is in its loop: without it the
read of `ProcTable[child->pid]` could be one of no slot. `LockInv` is the counterpart
of the one above, with one more hazard: `spawnReal` and `spawnLaunch` send to, receive from
and release mailboxes that they have just created, and the lock would be lost if one
of these were `ProcTableMutex` (it stays open, so MboxCreate never returns it), or if
their message readied a process that is blocked on its way into a critical section (it
waits on `ProcTableMutex`, and `QueuesOK` has it in no other queue).
TLC checked this `IInv` too, on the instance of `procs_reuse`.

The second half of `UserProcProofs`, and `ChildListProofs`, prove all the other invariants of `UserProcs` that
`procs_reuse` checks, and its action property. They assume `EnoughMailboxes`, that is `MAXMBOX > MAXPROC`
(2000 and 50 in the code). It is needed: spawnReal goes on when MboxCreate fails, after a line on
the console, and its child, without a mailbox to wait at, reads `startFunc` of its slot before the
parent has written it. With two mailboxes for four slots TLC finds `OwnProgram` violated.

- `RunsOwnProgram`: `Spec => []OwnProgram`
- `MailboxesReleased`: `Spec => []NoMailboxLeft`
- `ListsMatch`: `Spec => []ChildListsMatch`
- `ZapsChildren`: `Spec => []ZapsOwnChildren`
- `ChildrenQuitFirst`: `Spec => []ChildrenFirst`
- `NothingIsLeft`: `Spec => []NothingLeft`
- `OnlyForkOrQuitHalts`: `Spec => HaltsOnlyInForkOrQuit`. The two ways for phase 3 to halt the
  machine are those that `procs_spawn_halt` and `procs_quit_race` show.

The inductive invariant is `UserInv == IInv /\ HandInv /\ ListInv /\ TerminateInv /\ PidInv`, each part
inductive relative to the ones before it:

1. `HandInv`. What the kernel keeps (`KernelInv`): a slot is that of
   its pid, pids are below the next one, and a parent is active until its child's slot is free. A process
   between fork1 and its message has a child that waits (`ForkInv`), at "l_receive" or "l_release". The
   mailbox of a handshake belongs to this pair (`OwnerInv`), holds no message before the parent has
   filled in the slot and sent one (`BoxInv`), and every open mailbox but `ProcTableMutex` has such a
   pair. So each process accounts for one mailbox at most, and by counting MboxCreate always
   finds one. The slot of a process past the handshake is its own (`EntryInv`), since nobody gets the slot
   until it has quit and been freed.
2. `ListInv`. The lists are sorted by pid, because addChild appends and the child it appends is
   the youngest; `child[p]` and each `nextSibling` point to the next child in the list, whoever had the slot
   before. `ChildList`, the walk along the pointers, is then the set of listed children: it stays in
   the list, leaves none out, and ends within the length of the table (the slots of a sorted list are
   distinct, so a longer walk contradicts the pigeonhole principle). What the recursive function
   `Walk` is at each index comes from the well-foundedness of finite subsets, which the library states
   without an operator parameter.
3. `TerminateInv`. terminateReal keeps a pointer to a child while that child and others take themselves
   out. There is a set `S` of siblings which holds the pointer and all that are still in the list, is
   closed under `nextSibling`, and in which no pointer skips a listed sibling (`Reach`). A child that has
   taken itself out keeps its `nextSibling`, so the same `S` will do when one leaves. Since no listed
   sibling is behind the pointer, none is left when it is null.
4. `PidInv`. A process has a parent in the kernel, with a smaller pid, unless it was there before `start3`. That
   a parent is active as long as its child is (`KernelInv`) says little of grandchildren by itself; with the order of the pids, the
   active process with the smallest pid above that of `start2` has no parent left to be active, so that none is when
   `start2` has quit (`AllQuit`), however deep the tree was. What `HandInv` and `ListInv` say of processes that are gone
   is then that no mailbox is open and no list has an entry.

TLC checked the parts of `UserInv` on the instance of `procs_reuse` before they were proved.

`SystemProofs` puts the two halves on one mailbox table. The theorems above are of a component
with the mailboxes to itself, and what they say of ids does not carry over: once a semaphore has been
freed, a process in SemP may hold the id of what is now the mailbox of a handshake, send to it and so
start a child before its slot is filled in, or take the message meant for it. No program of the tests does
this, but any might. The theorem says what survives in any case:

- `TablesStayLocked`: `Spec => []TablesLocked`, for all sizes of the tables and, since no step of the
  proof looks at what `Programs` has, for every program. It assumes `SystemAssumption` and `MailboxAssumption`.

The inductive invariant is `TypeInv /\ LocksInv`. `TypeInv` has the types of the ids: those in
`Semaphores[]`, those of the handshakes, and the ones that handlers have evaluated are never one of the
`Mutexes` (`OtherBoxes`), but for a handler that is about to lock or unlock the table (`TableSide`). Whose
they are is left open. `LockInv(m)` is that of the components for either mutex: open, one slot,
full exactly while somebody is inside (or has left the table with "undefined", the lock in hand), never waited at to receive, and whoever is blocked on the way in, and nobody else, is blocked there. A
step that touches another mailbox (`MailAside`) may block the process itself or ready some that wait
elsewhere, neither of which is on the way in (`MoveLocks`); the others are `lock()` (`EnterLock`) and
`unlock()` (`LeaveLock`). TLC checked the invariant on the instance of `tests`. The lemmas `SameSend` to
`SameTables` say that the operations of the two instances of `Mailboxes` are one and the same.

`CompositionProofs` says when everything else survives: in programs that free no semaphore, pass SemP and SemV a handle
that SemCreate has returned, and SemCreate a number (`WellBehaved`), with `RoomEnough`, that is
`MAXMBOX > 2 * MAXSEMS + MAXPROC + 2` (2000, 200 and 50 in the code).

- `ProcessesRefined`: `Spec /\ []WellBehaved => UsersRefined`, the whole implements `UserProcs`
- `SemaphoresRefined`: `Spec /\ []WellBehaved => Sems!CountingSpec`, and a counting semaphore
- `ProcessesKeepPromises`: `Spec /\ []WellBehaved => []Promises`
- `SemaphoresKeepPromises`: `Spec /\ []WellBehaved => []SemPromises`
- `EndsClean`: `Spec /\ []WellBehaved => []CleanEnd`

`WellBehaved` is an assumption about programs, the one under which the theorems about the semaphores are proved
(`NothingFreed`, above). Which of the modelled programs satisfy it is checked: all but `FreeingTests`,
which is test08, test09, test16 and `errors` (`HandlesGood`). For these, too, `UsersRefined` and the promises hold in the run, but no theorem says so.

The components take the mailboxes apart. `UserBoxes` are `ProcTableMutex` and those of handshakes; `userMbox`
is the mailbox table as the processes know it, with all others closed, and `semMbox` the table as the semaphores know
it, with these closed. A process in a handler of one component is, for the other, in its program (`userPc`, `semPc`)
and ready (`userReady`, `semReady`), whatever it is blocked on. A mailbox that is closed for both is closed for either, so a
MboxCreate of one is a MboxCreate of the other view, of any free id: this is why the proofs of the components are for
`FirstFree = FALSE`. The inductive invariant is the invariants of both components, of their views,
with that of `SystemProofs`: `Inv == TypeInv /\ LocksInv /\ Users!UserInv /\ Sems!UInv /\ Sems!NumInv /\ Sems!HeldInv`. The steps:

1. A mailbox operation of a process on one of its own mailboxes is the same operation in its view, and nothing in the other:
   whoever waits on a mailbox is in a handler of the component whose mailbox it is (`WaitingSides`). That the ids which the handlers
   hold are of their own component comes from the invariants of the components (`SemBoxes`). There is always a mailbox left
   (`MailboxLeft`), by the pigeonhole principle: each open one is somebody's.
2. So a step of a handler is a step of its component. For `UserProcs`, everything the semaphores do is nothing, since what a
   program does between its calls does not concern it, and the end of a process that was zapped in SemP is
   a `terminate`. For `Semaphores`, a step of the processes is `Elsewhere`, a process that is zapped, dies or gets a slot while
   it is in no handler, which keeps its invariants (`ElsewhereStep` of `SemUnitProofs`).
3. `UserInv` and the invariants of the semaphores give `Promises` and `SemPromises` in terms of the whole.
4. For `CleanEnd`, all processes are gone when `start2` has quit (`AllGone`, from `AllQuit`), those that were zapped inside
   a handler of the semaphores included. So nobody is between lock and unlock, and a mailbox
   that held a message would be a mutex that somebody had taken with him: `LockInv` excludes it for the two tables, `HeldInv`
   for the semaphores (`EmptyAtEnd`). Nobody waits, since whoever waits is in a handler; and what is open is a semaphore's or a mutex (`OpenAtEnd`).

TLC checked `Inv` but for its parts `HeldInv` and `PidInv` on the instance of `tests`, without `FreeingTests`, before it was
proved; those two it checked on the instances of `sem_pv` and `procs_reuse`.

Only model-checked: `AsRecorded` and `HandlesGood`, which are about the recorded programs and their values, so that the
instance is all there is to them; `CleanEnd` for `FreeingTests`; and liveness, since `ENABLED` and fairness are beyond the prover.

## Not modelled

- `setToUserMode`: the bits of the PSR. The error returns of the semaphore handlers
  skip it; that this is harmless shows in the recorded output of test05, where a
  Terminate after two failed SemCreate calls passes CHECKMODE.
- The time: GetTimeofDay and CPUTime return some number.
- In `Semaphores` and `UserProcs`, priorities and time slices: any interleaving is
  allowed, which includes theirs. `System` has them.
- Names, arguments and stack sizes: of the tests of `spawnReal` only the one of the
  priority can fail in a program here; the others return the same -2.
- The register that Wait returns is modelled (nobody sets it) and no property says
  anything of it; likewise that Spawn returns 0 with a pid of -1 if no process was
  created (`NotSpawned`), against "-1 means error occurs" (`src/libuser.c:34`).
- `p1.c`, whose three functions are empty, and the build scripts.

Modelled, but without a property that would show it going wrong (`PROJECT.json`, "hazards", the ones with a
note): what happens to the count and to the callers when P, V or SemFree use a semaphore that is being
created or freed, `currentNumSems` after two SemFree of one handle, and a
zapped program of failing calls only, which no `isZapped` ends. The handle `MAXSEMS` is in no run.

## Plan

Done: mailboxes, semaphores with their abstraction, user processes, the system call
interface, the composition of all of them running the repository's tests, and the
theorems above: every invariant and action property of `Semaphores` and `UserProcs` that the passing runs
check, the refinements, the locks of the composition, and that what holds of the components holds of the
whole for programs that free no semaphore, down to the state in which they leave phase 3. Left: what holds of a semaphore that is freed while nobody uses
it, as in tests 08, 09 and 16; and properties for the hazards that have none.
