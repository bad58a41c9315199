--------------------------- MODULE TestPrograms ---------------------------
(***************************************************************************)
(* The programs that the repository runs on phase 3 (src/testcases), each  *)
(* a sequence of system calls for every function that it spawns, and the   *)
(* calls as src/libuser.c offers them.                                     *)
(*                                                                         *)
(* A call carries the values that the program may find in the registers    *)
(* arg1, arg2 and arg4 when it comes back: what src/testResults shows, or  *)
(* Anything where nothing is printed or tested.  A function that returns a *)
(* value passes it to Terminate.                                           *)
(***************************************************************************)
EXTENDS Integers, Sequences

CONSTANTS
    MAXPROC,    \* the size of the process tables
    MAXSEMS     \* the size of the semaphore table

Anything == Int

Spawn(func, priority, pids, results) ==
    [call |-> "Spawn", func |-> func, priority |-> priority,
     arg1 |-> pids, arg2 |-> Anything, arg4 |-> results]

Wait(pids, statuses) ==
    [call |-> "Wait", arg1 |-> pids, arg2 |-> statuses, arg4 |-> Anything]

Terminate(status) == [call |-> "Terminate", status |-> status]

SemCreate(value, results, handles) ==
    [call |-> "SemCreate", value |-> value,
     arg1 |-> handles, arg2 |-> Anything, arg4 |-> results]

\* The semaphore is the one that the i-th SemCreate of the program stored.
SemP(i, results) ==
    [call |-> "SemP", sem |-> i, arg1 |-> Anything, arg2 |-> Anything, arg4 |-> results]
SemV(i, results) ==
    [call |-> "SemV", sem |-> i, arg1 |-> Anything, arg2 |-> Anything, arg4 |-> results]
SemFree(i, results) ==
    [call |-> "SemFree", sem |-> i, arg1 |-> Anything, arg2 |-> Anything, arg4 |-> results]

GetTimeofDay == [call |-> "GetTimeofDay", arg1 |-> Anything, arg2 |-> Anything, arg4 |-> Anything]
CPUTime == [call |-> "CPUTime", arg1 |-> Anything, arg2 |-> Anything, arg4 |-> Anything]
GetPID(pids) == [call |-> "GetPID", arg1 |-> pids, arg2 |-> Anything, arg4 |-> Anything]

\* A system call number that no handler is for.
Undefined == [call |-> "Undefined"]

\* USLOSS priorities: 1 is the highest.
Fork(func, priority, pids) == Spawn(func, priority, pids, Anything)

Times(n, call) == [i \in 1 .. n |-> call]

----------------------------------------------------------------------------
(* Spawn, Wait and Terminate.                                              *)

test00 == [
    start3 |-> <<Fork("Child1", 5, {5}), Wait({5}, {9}), Terminate(8)>>,
    Child1 |-> <<Terminate(9)>>]

test01 == [
    start3 |-> <<Fork("Child1", 2, {5}), Terminate(8)>>,
    Child1 |-> <<Terminate(9)>>]

test02 == [start3 |-> <<Terminate(-3)>>]

test03 == [
    start3 |-> <<Fork("Child1", 2, {5}), Terminate(8)>>,
    Child1 |-> <<Fork("Child2", 1, Anything), Terminate(9)>>,
    Child2 |-> <<Terminate(7)>>]

test14 == [
    start3 |-> <<Fork("Child1", 4, {5}), Wait(Anything, {32}), Terminate(0)>>,
    Child1 |-> <<Terminate(32)>>]

test15 == [
    start3 |-> <<Fork("Child1", 4, Anything), Wait(Anything, {32}), Terminate(0)>>,
    Child1 |-> <<Terminate(32)>>]

test17 == [
    start3 |-> <<Fork("Child1", 4, {5}), Wait({5}, {9}), Terminate(8)>>,
    Child1 |-> <<Fork("Child2", 5, {6}), Wait({6}, {9}),
                 Fork("Child3", 5, {7}), Wait({7}, {10}), Terminate(9)>>,
    Child2 |-> <<Terminate(9)>>,
    Child3 |-> <<Terminate(10)>>]

\* The pid recorded for the last child is 10.  With less than ten slots it is the
\* next one whose slot is free, that of Child2.
test18 ==
    LET last == IF MAXPROC >= 10 THEN 10 ELSE MAXPROC + 6 IN [
    start3 |-> <<Fork("Child1", 4, {5}), Wait({5}, {9}), Terminate(8)>>,
    Child1 |-> <<GetPID({5}), Fork("Child2", 2, {6}), Wait({6}, {10}),
                 Fork("Child3", 5, {last}), Wait({last}, {11}), Terminate(9)>>,
    Child2 |-> <<GetPID({6}), Fork("Child3", 5, {7}), Fork("Child3", 5, {8}),
                 Fork("Child3", 5, {9}), Terminate(10)>>,
    Child3 |-> <<Terminate(11)>>]

test21 == [
    start3 |-> <<Fork("Child1", 4, {5}), Wait({5}, {9}), Terminate(8)>>,
    Child1 |-> <<GetPID({5}), Fork("Child2", 2, {6}), Wait({6}, {10}),
                 Terminate(9)>>,
    Child2 |-> <<GetPID({6}), Fork("Child2a", 5, {7}), Fork("Child2b", 5, {8}),
                 Fork("Child2c", 5, {9})>>
               \o Times(3, Wait({7, 8, 9}, {11})) \o <<Terminate(10)>>,
    Child2a |-> <<Terminate(11)>>,
    Child2b |-> <<Terminate(11)>>,
    Child2c |-> <<Terminate(11)>>]

test22 == [
    start3 |-> <<Fork("Child1", 4, {5}), Wait({5}, {9}), Terminate(8)>>,
    Child1 |-> <<GetPID({5}), Fork("Child2", 2, {6}), Wait({6}, {10}),
                 Terminate(9)>>,
    Child2 |-> <<GetPID({6}), Fork("Child2a", 5, {7}), Terminate(10)>>,
    Child2a |-> <<Terminate(11)>>]

test23 == [
    start3 |-> <<Fork("Child1", 4, {5}), Wait({5}, {9}), Terminate(8)>>,
    Child1 |-> <<GetPID({5}), Fork("Child2", 2, {6}), Wait({6}, {10}),
                 Terminate(9)>>,
    Child2 |-> <<GetPID({6}), Fork("Child2a", 5, {7}), Fork("Child2b", 5, {8}),
                 Terminate(10)>>,
    Child2a |-> <<Terminate(11)>>,
    Child2b |-> <<Terminate(11)>>]

test24 == [
    start3 |-> <<Fork("Child1", 4, {5}), Wait({5}, {9}), Terminate(8)>>,
    Child1 |-> <<GetPID({5}), Fork("Child2", 2, {6}), Wait({6}, {10}),
                 Terminate(9)>>,
    Child2 |-> <<GetPID({6}), Fork("Child2a", 5, {7}), Fork("Child2b", 5, {8}),
                 Fork("Child2c", 5, {9}), Terminate(10)>>,
    Child2a |-> <<Terminate(11)>>,
    Child2b |-> <<Terminate(11)>>,
    Child2c |-> <<Terminate(11)>>]

\* Six slots are taken when Child2 fills the table.
test25 == [
    start3 |-> <<Fork("Child1", 4, {5}), Wait({5}, {9}), Terminate(8)>>,
    Child1 |-> <<GetPID({5}), Fork("Child2", 2, {6}), Wait(Anything, Anything),
                 Fork("Child2b", 2, {MAXPROC + 6}), Wait({MAXPROC + 6}, {50}),
                 Terminate(9)>>,
    Child2 |-> <<GetPID({6})>>
               \o [i \in 1 .. MAXPROC |->
                    Fork("Child2a", 3, IF i <= MAXPROC - 6 THEN {6 + i} ELSE {-1})]
               \o <<Terminate(10)>>,
    Child2a |-> <<GetPID(Anything), Terminate(11)>>,
    Child2b |-> <<GetPID({MAXPROC + 6}), Fork("Child2c", 1, {MAXPROC + 7}),
                  Wait(Anything, Anything), Terminate(50)>>,
    Child2c |-> <<Terminate(11)>>]

----------------------------------------------------------------------------
(* Time and process ids.                                                   *)

ThreeChildren == <<Fork("Child1", 1, Anything), Fork("Child1", 1, Anything),
                   Fork("Child1", 1, Anything)>>
                 \o Times(3, Wait(Anything, Anything)) \o <<Terminate(8)>>

test10 == [start3 |-> ThreeChildren,
           Child1 |-> Times(3, GetTimeofDay) \o <<Terminate(9)>>]

test11 == [start3 |-> ThreeChildren,
           Child1 |-> Times(3, CPUTime) \o <<Terminate(9)>>]

test12 == [
    start3 |-> ThreeChildren,
    Child1 |-> <<GetTimeofDay, CPUTime, GetTimeofDay, CPUTime, GetTimeofDay,
                 CPUTime, Terminate(9)>>]

test13 == [start3 |-> ThreeChildren,
           Child1 |-> <<GetPID({5, 6, 7}), Terminate(9)>>]

test19 == [start3 |-> Times(3, GetTimeofDay) \o <<Terminate(0)>>]

----------------------------------------------------------------------------
(* Semaphores.                                                             *)

test04 == [start3 |-> <<SemCreate(0, {0}, {0}), SemCreate(0, {0}, {1}),
                        Terminate(8)>>]

test05 == [start3 |-> Times(MAXSEMS, SemCreate(0, {0}, Anything))
                      \o Times(2, SemCreate(0, {-1}, Anything)) \o <<Terminate(8)>>]

test06 == [
    start3 |-> <<SemCreate(0, {0}, Anything), Fork("Child1", 2, {5}),
                 Fork("Child2", 2, {6}), Wait(Anything, Anything), Wait(Anything, Anything),
                 Terminate(8)>>,
    Child1 |-> <<SemP(1, Anything), Terminate(9)>>,
    Child2 |-> <<SemV(1, Anything), Terminate(9)>>]

test07 == [
    start3 |-> <<SemCreate(0, {0}, Anything), Fork("Child1", 2, Anything),
                 Fork("Child1", 2, Anything), Fork("Child1", 2, {7}),
                 Fork("Child2", 2, {8}), Terminate(8)>>,
    Child1 |-> <<SemP(1, Anything), Terminate(9)>>,
    Child2 |-> <<GetPID({8})>> \o Times(3, SemV(1, Anything)) \o <<Terminate(9)>>]

\* One in the middle is freed and created again.
test08 == [start3 |-> Times(MAXSEMS, SemCreate(0, {0}, Anything))
                      \o <<SemCreate(0, {-1}, Anything), SemFree(MAXSEMS \div 2 + 1, {0}),
                           SemCreate(0, {0}, Anything), Terminate(8)>>]

test09 == [
    start3 |-> <<SemCreate(0, {0}, Anything), Fork("Child1", 1, Anything),
                 Fork("Child1", 1, Anything), Fork("Child1", 1, Anything),
                 Fork("Child2", 2, Anything), Terminate(8)>>,
    Child1 |-> <<SemP(1, Anything), Terminate(9)>>,
    Child2 |-> <<SemFree(1, Anything), Terminate(9)>>]

test16 == [
    start3 |-> <<SemCreate(1, Anything, Anything), SemP(1, Anything), Fork("Child1", 2, {5}),
                 Fork("Child1", 2, {6}), SemFree(1, {1}), Wait(Anything, {1}),
                 Wait(Anything, {1}), Terminate(8)>>,
    Child1 |-> <<SemP(1, Anything), SemV(1, Anything), Terminate(9)>>]

test20 == [
    start3 |-> <<SemCreate(3, {0}, Anything), SemP(1, Anything), Fork("Child1", 2, {5}),
                 Fork("Child2", 3, {6}), SemV(1, Anything), Wait(Anything, {9, 10}),
                 Wait(Anything, {9, 10}), Terminate(8)>>,
    Child1 |-> Times(5, SemP(1, Anything)) \o <<Terminate(9)>>,
    Child2 |-> Times(5, SemV(1, Anything)) \o <<Terminate(10)>>]

----------------------------------------------------------------------------
(* Programs that the repository does not have.                             *)

\* Every error that a handler reports, and a call that there is no handler for.
errors == [
    start3 |-> <<Spawn("Child1", 0, {-1}, {-1}), Spawn("Child1", 6, {-1}, {-1}),
                 SemCreate(-1, {-1}, {-1}), SemP(1, {-1}), SemV(1, {-1}),
                 SemFree(1, {-1}), Wait({-2}, Anything),
                 Spawn("Child1", 2, {5}, {0}), Wait({5}, {1}),
                 SemCreate(1, {0}, {0}), SemV(2, {0}), SemP(2, {0}),
                 SemFree(2, {0}), SemP(2, {-1}), Terminate(0)>>,
    Child1 |-> <<Undefined>>]

\* A parent terminates while its children, at the same priority, are anywhere in
\* their handlers.
zappedWorkers == [
    start3 |-> <<SemCreate(1, {0}, {0}), Fork("Child1", 3, {5}),
                 Fork("Child2", 3, {6}), Terminate(8)>>,
    Child1 |-> <<SemP(1, {0}), SemV(1, {0}), Terminate(9)>>,
    Child2 |-> <<SemCreate(0, {0}, {1}), Terminate(10)>>]

\* A parent terminates while its child is blocked on a semaphore.
zappedWaiter == [
    start3 |-> <<SemCreate(0, {0}, {0}), Spawn("Child1", 2, {5}, {0}),
                 Terminate(8)>>,
    Child1 |-> <<SemP(1, {0}), Terminate(9)>>]

Programs ==
    [test00 |-> test00, test01 |-> test01, test02 |-> test02, test03 |-> test03,
     test04 |-> test04, test05 |-> test05, test06 |-> test06, test07 |-> test07,
     test08 |-> test08, test09 |-> test09, test10 |-> test10, test11 |-> test11,
     test12 |-> test12, test13 |-> test13, test14 |-> test14, test15 |-> test15,
     test16 |-> test16, test17 |-> test17, test18 |-> test18, test19 |-> test19,
     test20 |-> test20, test21 |-> test21, test22 |-> test22, test23 |-> test23,
     test24 |-> test24, test25 |-> test25, errors |-> errors,
     zappedWorkers |-> zappedWorkers, zappedWaiter |-> zappedWaiter]
=============================================================================
