--------------------------- MODULE SemUnitProofs ---------------------------
(***************************************************************************)
(* Theorems about the units of the semaphores of programs that free none   *)
(* of them: P and V implement CountingSemaphore, no SemP gets through      *)
(* without a unit, and, if MboxCondReceive returned 1 for want of a        *)
(* message, as semVReal assumes, no SemV would be lost.                    *)
(***************************************************************************)
EXTENDS SemMutexProofs, SemaphoreRefinement

\* SemP has taken its unit out of the count.
TakingSteps == {"p_arg2", "p_unlock"}

\* The steps of SemP and SemV at which the unit of the call matters.
UnitSteps == PPending \cup VPending \cup TakingSteps \cup {"p_check"}

(* A unit on its way through the handler of p: neither in the count nor    *)
(* used up.                                                                *)
Carries(p, h) ==
    /\ sem[p] = h
    /\ \/ pc[p] \in VPending \cup TakingSteps
       \/ pc[p] = "p_check" /\ p \in ready

Pending(h) == {p \in Procs : Carries(p, h)}

(* Every unit is in the count or on its way.  A SemV that finds nobody to  *)
(* wake up loses its unit, unless MboxCondReceive returns the 1 it expects. *)
UnitsOf(h) ==
    IF count[h] = EMPTY THEN units[h] >= 0
    ELSE /\ units[h] >= count[h] + Cardinality(Pending(h))
         /\ NoMsg = 1 => units[h] = count[h] + Cardinality(Pending(h))

UnitInv == \A h \in Slots : UnitsOf(h)

UInv == MInv /\ IsFiniteSet(Procs) /\ UnitInv

----------------------------------------------------------------------------
(* The steps that move no unit.                                            *)

\* Nobody wakes up from the wait in semPReal.
NoneWoken == \A q \in ready' \ ready : pc[q] # "p_check"

\* p is where it was: before the effect of its call, or after it.
SameSide(p) ==
    \/ /\ pc[p] \in VPending /\ pc'[p] \in VPending
       /\ sem'[p] = sem[p]
    \/ /\ pc[p] \in PPending
       /\ pc'[p] \in PPending \/ (pc'[p] = "p_check" /\ p \notin ready')
       /\ sem'[p] = sem[p]
    \/ /\ pc[p] \in TakingSteps
       /\ pc'[p] \in TakingSteps \/ (pc'[p] = "p_check" /\ p \in ready')
       /\ sem'[p] = sem[p]
    \/ /\ pc[p] \notin UnitSteps
       /\ pc'[p] \notin UnitSteps

QuietMove(p) ==
    /\ StepBy(p)
    /\ NoneWoken
    /\ SameSide(p)
    /\ UNCHANGED <<count, units>>

\* lock() and unlock() wake up nobody who waits for a unit.
LEMMA LockQuiet ==
    ASSUME MInv, NEW p \in Procs, Lock(p) \/ Unlock(p)
    PROVE  QuietMove(p)
<1> USE DEF MInv, IInv
<1> DEFINE b == box[p]
<1>1. /\ p \in ready
      /\ MboxSend(p, b) \/ MboxReceive(p, b)
      /\ UNCHANGED <<sem, box, val, count, units>>
      /\ \A q \in Procs \ {p} : pc'[q] = pc[q]
  <2>1. CASE Lock(p)
    BY <2>1 DEF Lock, At, Goto, TypeOK, tableVars, seenVars
  <2>2. CASE Unlock(p)
    BY <2>2 DEF Unlock, At, Goto, TypeOK, tableVars, seenVars
  <2> QED BY <2>1, <2>2
<1>2. \/ pc[p] \in {"c_lock", "c_unlock"} /\ pc'[p] \in {"c_slot", "c_ret"}
      \/ pc[p] = "p_lock" /\ pc'[p] = "p_test"
      \/ pc[p] = "v_lock" /\ pc'[p] = "v_test"
      \/ pc[p] = "p_unlock" /\ pc'[p] = "p_check" /\ MboxReceive(p, b)
      \/ pc[p] = "p_open" /\ pc'[p] = "p_arg4"
      \/ pc[p] = "v_unlock" /\ pc'[p] = "v_ret"
  <2>1. pc[p] \notin FreeSteps
    BY DEF CountInv, ProcInv
  <2> QED BY <2>1 DEF Lock, Unlock, At, Goto, TypeOK, LockSteps, UnlockSteps, After,
                      FreeSteps
<1>3. Affects(b, {p}) /\ StepBy(p)
  BY <1>1, SendEffect, ReceiveEffect, ReadyKept DEF TypeOK, StepBy
<1>4. b = semsMutex \/ (sem[p] \in Slots /\ b = mutex[sem[p]] /\ b # EMPTY)
  <2>1. CASE pc[p] \in {"c_lock", "c_unlock"}
    BY <2>1 DEF LockInv, TableSide, TableSteps
  <2>2. CASE pc[p] \in {"p_lock", "v_lock", "p_unlock", "p_open", "v_unlock"}
    BY <2>2, InsideLemma DEF CountInv, ProcInv, OnMutexSteps, PSteps, VSteps
  <2> QED BY <1>2, <2>1, <2>2
<1>5. \A h \in Slots : blockingMbox[h] # b
  BY <1>4, SemMailboxes, BoxIds DEF MailboxesOwned
<1>6. NoneWoken
  <2> SUFFICES ASSUME NEW q \in ready' \ ready, pc[q] = "p_check" PROVE FALSE
    BY DEF NoneWoken
  <2>1. q \in Procs /\ box[q] = b
    <3>1. q \in Waiting(b) /\ b \in Boxes
      BY <1>3 DEF Affects
    <3> QED BY <3>1, WaitingLemma DEF LockInv
  <2>2. box[q] = blockingMbox[sem[q]] /\ sem[q] \in Slots
    BY <2>1, InsideLemma DEF CountInv, ProcInv, PSteps
  <2> QED BY <1>5, <2>1, <2>2
<1>7. pc[p] = "p_unlock" => p \in ready'
  <2> HAVE pc[p] = "p_unlock"
  <2>1. HoldsSemaphore(p)
    BY <1>1 DEF HoldsSemaphore, SemaphoreSteps
  <2>2. sem[p] \in Slots /\ b = mutex[sem[p]] /\ b # EMPTY
    BY InsideLemma DEF CountInv, ProcInv, OnMutexSteps, PSteps
  <2>3. mbox[b].used = 1 /\ IsOpen(b)
    BY <2>1, <2>2, SemMailboxes DEF CountInv, HolderInv, IsOpen
  <2> QED BY <1>1, <1>2, <2>3, UnlockTakes
<1>8. SameSide(p)
  BY <1>1, <1>2, <1>7 DEF SameSide, UnitSteps, PPending, VPending, TakingSteps
<1> QED BY <1>1, <1>3, <1>6, <1>8 DEF QuietMove

\* The steps that touch no mailbox and no count.
LEMMA LocalQuiet ==
    ASSUME MInv, NEW p \in Procs,
           \/ ReadMutex(p) \/ ReadBlockingMbox(p) \/ Return(p)
           \/ getAvailableSemHandle(p) \/ semCreateCount(p)
           \/ semPTest(p) \/ semVTest(p)
    PROVE  QuietMove(p)
<1> USE DEF MInv, IInv
<1>1. /\ p \in ready /\ ready' = ready
      /\ UNCHANGED <<count, units>>
      /\ \A q \in Procs \ {p} : pc'[q] = pc[q] /\ sem'[q] = sem[q]
                                /\ box'[q] = box[q] /\ val'[q] = val[q]
  BY DEF ReadMutex, ReadBlockingMbox, Return, getAvailableSemHandle, semCreateCount,
         semPTest, semVTest, At, Goto, TypeOK, mailboxVars, tableVars, seenVars
<1>2. StepBy(p) /\ NoneWoken
  BY <1>1 DEF StepBy, NoneWoken
<1>3. SameSide(p)
  <2> USE DEF SameSide, UnitSteps, PPending, VPending, TakingSteps
  <2>1. CASE ReadMutex(p) \/ ReadBlockingMbox(p)
    BY <2>1 DEF ReadMutex, ReadBlockingMbox, At, Goto, TypeOK, MutexArgSteps,
                BlockingArgSteps, After
  <2>2. CASE Return(p)
    BY <2>2 DEF Return, At, Goto, TypeOK, RetSteps
  <2>3. CASE \/ getAvailableSemHandle(p) \/ semCreateCount(p)
             \/ semPTest(p) \/ semVTest(p)
    BY <2>3 DEF getAvailableSemHandle, semCreateCount, semPTest, semVTest, At, Goto,
                TypeOK
  <2> QED BY <2>1, <2>2, <2>3
<1> QED BY <1>1, <1>2, <1>3 DEF QuietMove

\* A new mailbox wakes up nobody.
LEMMA MailboxQuiet ==
    ASSUME MInv, NEW p \in Procs, initSemMutex(p) \/ initSemBlocking(p)
    PROVE  QuietMove(p)
<1> USE DEF MInv, IInv
<1>1. /\ p \in ready /\ ready' = ready
      /\ UNCHANGED <<sem, box, val, count, units>>
      /\ pc[p] \in {"c_mutex", "c_block"} /\ pc'[p] \in {"c_block", "c_num"}
      /\ \A q \in Procs \ {p} : pc'[q] = pc[q]
  BY DEF initSemMutex, initSemBlocking, MboxCreate, At, Goto, TypeOK, mailboxVars,
         seenVars
<1>2. StepBy(p) /\ NoneWoken
  BY <1>1 DEF StepBy, NoneWoken
<1>3. SameSide(p)
  BY <1>1 DEF SameSide, UnitSteps, PPending, VPending, TakingSteps
<1> QED BY <1>1, <1>2, <1>3 DEF QuietMove

\* The blockingMbox that p works on: nobody receives there, nothing is kept.
LEMMA BlockingFacts ==
    ASSUME MInv, NEW p \in Procs, pc[p] \in OnBlockingSteps
    PROVE  LET b == box[p] IN
           /\ sem[p] \in Slots /\ count[sem[p]] # EMPTY
           /\ b = blockingMbox[sem[p]]
           /\ b \in Boxes /\ IsOpen(b) /\ b # semsMutex
           /\ mbox[b].slots = 0 /\ mbox[b].used = 0 /\ mbox[b].receivers = << >>
           /\ \A h \in Slots : b # mutex[h] /\ (b = blockingMbox[h] => h = sem[p])
<1> USE DEF MInv, IInv
<1>1. /\ sem[p] \in Slots /\ count[sem[p]] # EMPTY
      /\ box[p] = blockingMbox[sem[p]] /\ blockingMbox[sem[p]] # EMPTY
  BY InsideLemma DEF CountInv, ProcInv, OnBlockingSteps, PSteps, VSteps
<1>2. SlotInv(sem[p])
  BY <1>1 DEF CountInv
<1> QED BY <1>1, <1>2, SemMailboxes DEF SlotInv, IsOpen

\* MboxSend of semPReal always blocks.
LEMMA BlockQuiet ==
    ASSUME MInv, NEW p \in Procs, semPBlock(p)
    PROVE  QuietMove(p)
<1> USE DEF MInv, IInv
<1>1. /\ p \in ready /\ MboxSend(p, box[p])
      /\ UNCHANGED <<sem, box, val, count, units>>
      /\ pc[p] = "p_block" /\ pc'[p] = "p_check"
      /\ \A q \in Procs \ {p} : pc'[q] = pc[q]
  BY DEF semPBlock, At, Goto, TypeOK, tableVars, seenVars
<1>2. ready' = ready \ {p}
  <2>1. /\ IsOpen(box[p]) /\ mbox[box[p]].receivers = << >>
        /\ mbox[box[p]].used = 0 /\ mbox[box[p]].slots = 0
    BY <1>1, BlockingFacts DEF OnBlockingSteps
  <2> QED BY <1>1, <2>1 DEF MboxSend
<1>3. StepBy(p) /\ NoneWoken
  BY <1>1, <1>2 DEF StepBy, NoneWoken
<1>4. SameSide(p)
  BY <1>1, <1>2 DEF SameSide, PPending
<1> QED BY <1>1, <1>3, <1>4 DEF QuietMove

\* SemCreate, and the calls that fail, with a wrong argument or handle.
LEMMA CallQuiet ==
    ASSUME MInv, NEW p \in Procs, SystemCall(p), pc'[p] \notin {"p_arg1", "v_arg1"}
    PROVE  QuietMove(p)
<1> USE DEF MInv, IInv
<1>1. p \in ready /\ ready' = ready /\ pc[p] = "user" /\ UNCHANGED count
  BY DEF SystemCall, semCreate, semP, semV, semFree, EnterHandler, At, mailboxVars,
         tableVars
<1>2. ASSUME NEW v, semCreate(p, v)
      PROVE  /\ StepBy(p) /\ pc'[p] \in {"user", "c_lock"}
             /\ units' = units
  BY <1>1, <1>2 DEF semCreate, StepBy, Goto, TypeOK
<1>3. ASSUME NEW h, semP(p, h) \/ semV(p, h)
      PROVE  /\ StepBy(p) /\ pc'[p] \in {"user", "undefined"}
             /\ units' = units
  BY <1>1, <1>3 DEF semP, semV, EnterHandler, StepBy, Goto, TypeOK
<1>4. \A h : ~semFree(p, h)
  BY DEF NothingFreed, semFree, EnterHandler
<1>5. StepBy(p) /\ pc'[p] \in {"user", "c_lock", "undefined"} /\ units' = units
  BY <1>2, <1>3, <1>4 DEF SystemCall
<1>6. SameSide(p)
  BY <1>1, <1>5 DEF SameSide, UnitSteps, PPending, VPending, TakingSteps
<1> QED BY <1>1, <1>5, <1>6 DEF QuietMove, NoneWoken

----------------------------------------------------------------------------
(* The steps that move one.                                                *)

\* initSem writes the initial value into a free slot nobody works on.
LEMMA CreateMove ==
    ASSUME MInv, NEW p \in Procs, initSemCount(p)
    PROVE  /\ sem[p] \in Slots /\ count[sem[p]] = EMPTY /\ val[p] \in Nat
           /\ count' = [count EXCEPT ![sem[p]] = val[p]]
           /\ units' = [units EXCEPT ![sem[p]] = val[p]]
           /\ ready' = ready /\ sem' = sem
           /\ pc[p] \notin UnitSteps /\ pc'[p] \notin UnitSteps
           /\ \A q \in Procs \ {p} : pc'[q] = pc[q]
           /\ \A q \in Procs : pc[q] \in UnitSteps => sem[q] # sem[p]
<1> USE DEF MInv, IInv
<1>1. /\ count' = [count EXCEPT ![sem[p]] = val[p]]
      /\ units' = [units EXCEPT ![sem[p]] = val[p]]
      /\ ready' = ready /\ sem' = sem
      /\ pc[p] = "c_count" /\ pc'[p] = "c_mutex"
      /\ \A q \in Procs \ {p} : pc'[q] = pc[q]
  BY DEF initSemCount, At, Goto, TypeOK, mailboxVars
<1>2. sem[p] \in Slots
  BY <1>1, SemStepsLemma DEF SemSteps
<1>3. count[sem[p]] = EMPTY /\ val[p] \in Nat
  BY <1>1 DEF CountInv, ProcInv, TypeOK
<1>4. pc[p] \notin UnitSteps /\ pc'[p] \notin UnitSteps
  BY <1>1 DEF UnitSteps, PPending, VPending, TakingSteps
<1>5. ASSUME NEW q \in Procs, pc[q] \in UnitSteps
      PROVE  sem[q] # sem[p]
  <2>1. q # p
    BY <1>4, <1>5
  <2>2. pc[q] \in SemSteps
    BY <1>5 DEF UnitSteps, PPending, VPending, TakingSteps, SemSteps, PSteps, VSteps
  <2> QED BY <1>1, <2>1, <2>2, MakerAlone
<1> QED BY <1>1, <1>2, <1>3, <1>4, <1>5

\* count-- and count++, and the end of SemP.
LEMMA CountMove ==
    ASSUME MInv, NEW p \in Procs,
           semPDecrement(p) \/ semVIncrement(p) \/ semPCheck(p)
    PROVE  /\ sem[p] \in Slots /\ count[sem[p]] \in Nat
           /\ ready' = ready /\ sem' = sem /\ StepBy(p)
           /\ \/ /\ semPDecrement(p) /\ count[sem[p]] > 0
                 /\ count' = [count EXCEPT ![sem[p]] = @ - 1]
                 /\ units' = units /\ pc[p] = "p_dec" /\ pc'[p] = "p_arg2"
              \/ /\ semVIncrement(p)
                 /\ count' = [count EXCEPT ![sem[p]] = @ + 1]
                 /\ units' = units /\ pc[p] = "v_inc" /\ pc'[p] = "v_arg3"
              \/ /\ semPCheck(p)
                 /\ units' = [units EXCEPT ![sem[p]] = @ - 1]
                 /\ count' = count /\ pc[p] = "p_check" /\ pc'[p] = "p_ret"
<1> USE DEF MInv, IInv
<1>1. /\ p \in ready /\ ready' = ready
      /\ \A q \in Procs \ {p} : pc'[q] = pc[q] /\ sem'[q] = sem[q]
                                /\ box'[q] = box[q] /\ val'[q] = val[q]
      /\ pc[p] \in {"p_dec", "v_inc", "p_check"}
  BY DEF semPDecrement, semVIncrement, semPCheck, At, Goto, TypeOK, mailboxVars
<1>2. sem[p] \in Slots /\ count[sem[p]] # EMPTY
  BY <1>1, InsideLemma DEF PSteps, VSteps
<1>3. count[sem[p]] \in Nat
  <2>1. SlotInv(sem[p]) /\ count[sem[p]] \in Int
    BY <1>2 DEF TypeOK, CountInv
  <2> QED BY <1>2, <2>1 DEF SlotInv, EMPTY
<1>4. ProcInv(p)
  BY DEF CountInv
<1>5. CASE semPDecrement(p)
  <2>1. pc[p] = "p_dec" /\ val[p] = count[sem[p]] /\ val[p] > 0
    BY <1>4, <1>5 DEF semPDecrement, At, ProcInv, FreshSteps
  <2>2. count' = [count EXCEPT ![sem[p]] = @ - 1]
    BY <1>2, <1>5, <2>1 DEF semPDecrement
  <2> QED BY <1>1, <1>2, <1>3, <1>5, <2>1, <2>2
          DEF semPDecrement, StepBy, Goto, TypeOK, seenVars
<1>6. CASE semVIncrement(p)
  <2>1. pc[p] = "v_inc" /\ val[p] = count[sem[p]]
    BY <1>4, <1>6 DEF semVIncrement, At, ProcInv, FreshSteps
  <2>2. count' = [count EXCEPT ![sem[p]] = @ + 1]
    BY <1>2, <1>6, <2>1 DEF semVIncrement
  <2> QED BY <1>1, <1>2, <1>3, <1>6, <2>1, <2>2
          DEF semVIncrement, StepBy, Goto, TypeOK, seenVars
<1>7. CASE semPCheck(p)
  BY <1>1, <1>2, <1>3, <1>7 DEF semPCheck, StepBy, At, Goto, TypeOK, tableVars
<1> QED BY <1>5, <1>6, <1>7

\* A SemV that finds a process blocked wakes it up, and does not count.
LEMMA HandMove ==
    ASSUME MInv, NEW p \in Procs, semVWake(p), HasMessage(box[p])
    PROVE  /\ sem[p] \in Slots /\ count[sem[p]] = 0
           /\ UNCHANGED <<sem, count, units>>
           /\ p \in ready /\ pc[p] = "v_wake" /\ pc'[p] = "v_arg3"
           /\ \A q \in Procs \ {p} : pc'[q] = pc[q]
           /\ \E q \in Procs \ {p} :
                /\ q \notin ready /\ ready' = ready \cup {q}
                /\ pc[q] = "p_check" /\ sem[q] = sem[p]
<1> USE DEF MInv, IInv
<1> DEFINE b == box[p]
<1>1. /\ p \in ready /\ TakeMessage(b)
      /\ UNCHANGED <<sem, count, units>>
      /\ pc[p] = "v_wake" /\ pc'[p] = "v_arg3"
      /\ \A q \in Procs \ {p} : pc'[q] = pc[q]
  <2>1. ReceiveStatus(p, b) # 1
    BY DEF ReceiveStatus, HasMessage
  <2> QED BY <2>1 DEF semVWake, MboxCondReceive, At, Goto, TypeOK, tableVars, seenVars
<1>2. /\ sem[p] \in Slots
      /\ b \in Boxes /\ b # semsMutex /\ mbox[b].used = 0
      /\ \A h \in Slots : b # mutex[h] /\ (b = blockingMbox[h] => h = sem[p])
  BY <1>1, BlockingFacts DEF OnBlockingSteps
<1>3. count[sem[p]] = 0
  BY <1>1 DEF CountInv, ProcInv, FreshSteps
<1>4. PICK q : ready' = ready \cup {q} /\ q \in Waiting(b)
  <2>1. mbox[b].senders # << >>
    BY <1>2 DEF HasMessage
  <2>2. mbox[b].senders \in Seq(Procs)
    BY <1>2 DEF TypeOK, MailboxTypeOK, Mailbox
  <2>3. Head(mbox[b].senders) \in Members(mbox[b].senders)
    BY <2>1, <2>2, TailLemma
  <2>4. ready' = ready \cup {Head(mbox[b].senders)}
    BY <1>1, <2>1 DEF TakeMessage
  <2> QED BY <2>3, <2>4 DEF Waiting
<1>5. q \in Procs \ ready /\ box[q] = b /\ q # p
  BY <1>1, <1>2, <1>4, WaitingLemma DEF LockInv
<1>6. pc[q] = "p_check" /\ sem[q] = sem[p]
  <2>1. ProcInv(q)
    BY <1>5 DEF CountInv
  <2>2. pc[q] # "c_slot"
    BY <1>2, <1>5 DEF LockInv, TableSide, TableSteps
  <2>3. pc[q] \notin {"p_test", "v_test"}
    BY <1>2, <1>5, <2>1, InsideLemma DEF ProcInv, OnMutexSteps, PSteps, VSteps
  <2>4. pc[q] = "p_check" /\ box[q] = blockingMbox[sem[q]]
    BY <1>5, <2>1, <2>2, <2>3 DEF ProcInv
  <2>5. sem[q] \in Slots
    BY <1>5, <2>4, InsideLemma DEF PSteps
  <2> QED BY <1>2, <1>5, <2>4, <2>5
<1> QED BY <1>1, <1>2, <1>3, <1>4, <1>5, <1>6

\* A SemV that finds nobody goes on to count, or forgets its unit.
LEMMA DropMove ==
    ASSUME MInv, NEW p \in Procs, semVWake(p), ~HasMessage(box[p])
    PROVE  /\ sem[p] \in Slots /\ count[sem[p]] = 0
           /\ UNCHANGED <<ready, sem, count, units>>
           /\ StepBy(p) /\ NoneWoken
           /\ pc[p] = "v_wake" /\ pc'[p] = IF NoMsg = 1 THEN "v_inc" ELSE "v_arg3"
<1> USE DEF MInv, IInv
<1>1. /\ p \in ready /\ ready' = ready
      /\ UNCHANGED <<sem, box, val, count, units>>
      /\ pc[p] = "v_wake"
      /\ \A q \in Procs \ {p} : pc'[q] = pc[q]
  BY DEF semVWake, MboxCondReceive, At, Goto, TypeOK, mailboxVars, tableVars, seenVars
<1>2. IsOpen(box[p]) /\ sem[p] \in Slots
  BY <1>1, BlockingFacts DEF OnBlockingSteps
<1>3. pc'[p] = IF NoMsg = 1 THEN "v_inc" ELSE "v_arg3"
  BY <1>2 DEF semVWake, ReceiveStatus, Goto, TypeOK
<1>4. count[sem[p]] = 0
  BY <1>1 DEF CountInv, ProcInv, FreshSteps
<1> QED BY <1>1, <1>2, <1>3, <1>4 DEF StepBy, NoneWoken

\* The SemP and SemV calls with a handle of a semaphore.
LEMMA BeginMove ==
    ASSUME MInv, NEW p \in Procs, SystemCall(p), pc'[p] \in {"p_arg1", "v_arg1"}
    PROVE  /\ sem'[p] \in Slots /\ count[sem'[p]] # EMPTY
           /\ ready' = ready /\ count' = count /\ StepBy(p)
           /\ pc[p] = "user"
           /\ units' = IF pc'[p] = "v_arg1" THEN [units EXCEPT ![sem'[p]] = @ + 1]
                       ELSE units
<1> USE DEF MInv, IInv
<1>1. p \in ready /\ ready' = ready /\ pc[p] = "user" /\ UNCHANGED count
  BY DEF SystemCall, semCreate, semP, semV, semFree, EnterHandler, At, mailboxVars,
         tableVars
<1>2. PICK h \in known \cup WildHandles : semP(p, h) \/ semV(p, h)
  <2>1. \A v : ~semCreate(p, v)
    BY <1>1 DEF semCreate, Goto, TypeOK
  <2>2. \A h : ~semFree(p, h)
    BY DEF NothingFreed, semFree, EnterHandler
  <2> QED BY <2>1, <2>2 DEF SystemCall
<1>3. h \in Slots /\ count[h] # EMPTY
  BY <1>2 DEF NothingFreed, CountInv, SlotInv, TypeOK
<1>4. sem'[p] = h /\ StepBy(p)
  BY <1>1, <1>2, <1>3 DEF semP, semV, EnterHandler, StepBy, Goto, TypeOK
<1>5. units' = IF pc'[p] = "v_arg1" THEN [units EXCEPT ![h] = @ + 1] ELSE units
  BY <1>1, <1>2 DEF semP, semV, EnterHandler, Goto, TypeOK
<1> QED BY <1>1, <1>3, <1>4, <1>5

----------------------------------------------------------------------------
(* The units.                                                              *)

LEMMA PendingFinite ==
    ASSUME IsFiniteSet(Procs), NEW h
    PROVE  IsFiniteSet(Pending(h)) /\ Cardinality(Pending(h)) \in Nat
BY FS_Subset, FS_CardinalityType DEF Pending

LEMMA OthersCarry ==
    ASSUME NEW p \in Procs, StepBy(p), NoneWoken, NEW q \in Procs \ {p}, NEW h
    PROVE  Carries(q, h)' <=> Carries(q, h)
BY DEF StepBy, NoneWoken, Carries

\* The slots whose units no step touches.
LEMMA SameUnits ==
    ASSUME UInv, NEW h \in Slots, Pending(h)' = Pending(h),
           count'[h] = count[h], units'[h] = units[h]
    PROVE  UnitsOf(h)'
BY DEF UInv, UnitInv, UnitsOf

LEMMA QuietUnits ==
    ASSUME UInv, NEW p \in Procs, QuietMove(p)
    PROVE  UnitInv'
<1>1. ASSUME NEW h \in Slots
      PROVE  UnitsOf(h)'
  <2>1. Carries(p, h)' <=> Carries(p, h)
    BY DEF QuietMove, StepBy, SameSide, Carries, UnitSteps, PPending, VPending,
           TakingSteps
  <2>2. Pending(h)' = Pending(h)
    BY <2>1, OthersCarry DEF Pending, QuietMove
  <2> QED BY <2>2, SameUnits DEF QuietMove
<1> QED BY <1>1 DEF UnitInv

\* A step by which p takes up a unit of h, or puts it down.
LEMMA MovedUnit ==
    ASSUME UInv, NEW p \in Procs, StepBy(p), NoneWoken, NEW h \in Slots,
           count[h] # EMPTY, count'[h] # EMPTY,
           units'[h] \in Int, count'[h] \in Int,
           \A i \in Slots \ {h} : /\ units'[i] = units[i] /\ count'[i] = count[i]
                                  /\ ~Carries(p, i) /\ ~Carries(p, i)',
           \/ /\ Carries(p, h) /\ ~Carries(p, h)'
              /\ units'[h] - count'[h] = units[h] - count[h] - 1
           \/ /\ ~Carries(p, h) /\ Carries(p, h)'
              /\ units'[h] - count'[h] = units[h] - count[h] + 1
    PROVE  UnitInv'
<1>1. IsFiniteSet(Pending(h)) /\ Cardinality(Pending(h)) \in Nat
  BY PendingFinite DEF UInv
<1>2. /\ count[h] \in Int /\ units[h] \in Int
      /\ UnitsOf(h)
  BY DEF UInv, MInv, IInv, TypeOK, UnitInv
<1>3. UnitsOf(h)'
  <2>1. CASE /\ Carries(p, h) /\ ~Carries(p, h)'
             /\ units'[h] - count'[h] = units[h] - count[h] - 1
    <3>1. Pending(h)' = Pending(h) \ {p} /\ p \in Pending(h)
      BY <2>1, OthersCarry DEF Pending
    <3>2. Cardinality(Pending(h)') = Cardinality(Pending(h)) - 1
      BY <1>1, <3>1, FS_RemoveElement
    <3> QED BY <1>1, <1>2, <2>1, <3>2 DEF UnitsOf
  <2>2. CASE /\ ~Carries(p, h) /\ Carries(p, h)'
             /\ units'[h] - count'[h] = units[h] - count[h] + 1
    <3>1. Pending(h)' = Pending(h) \cup {p} /\ p \notin Pending(h)
      BY <2>2, OthersCarry DEF Pending
    <3>2. Cardinality(Pending(h)') = Cardinality(Pending(h)) + 1
      BY <1>1, <3>1, FS_AddElement
    <3> QED BY <1>1, <1>2, <2>2, <3>2 DEF UnitsOf
  <2> QED BY <2>1, <2>2
<1>4. ASSUME NEW i \in Slots \ {h}
      PROVE  UnitsOf(i)'
  <2>1. Pending(i)' = Pending(i)
    BY OthersCarry DEF Pending
  <2> QED BY <2>1, SameUnits
<1> QED BY <1>3, <1>4 DEF UnitInv

LEMMA CreateUnits ==
    ASSUME UInv, NEW p \in Procs, initSemCount(p)
    PROVE  UnitInv'
<1> USE DEF UInv, MInv, IInv
<1>1. PICK h \in Slots :
        /\ h = sem[p] /\ val[p] \in Nat
        /\ count' = [count EXCEPT ![h] = val[p]]
        /\ units' = [units EXCEPT ![h] = val[p]]
        /\ ready' = ready /\ sem' = sem
        /\ pc[p] \notin UnitSteps /\ pc'[p] \notin UnitSteps
        /\ \A q \in Procs \ {p} : pc'[q] = pc[q]
        /\ \A q \in Procs : pc[q] \in UnitSteps => sem[q] # h
  BY CreateMove
<1>2. \A i : Pending(i)' = Pending(i)
  BY <1>1 DEF Pending, Carries, UnitSteps
<1>3. Pending(h) = {}
  BY <1>1 DEF Pending, Carries, UnitSteps
<1>4. Cardinality(Pending(h)') = 0
  BY <1>2, <1>3, FS_EmptySet
<1>5. count'[h] = val[p] /\ units'[h] = val[p]
  BY <1>1 DEF TypeOK
<1>6. UnitsOf(h)'
  BY <1>1, <1>4, <1>5 DEF UnitsOf
<1>7. ASSUME NEW i \in Slots \ {h}
      PROVE  UnitsOf(i)'
  BY <1>1, <1>2, SameUnits DEF TypeOK
<1> QED BY <1>6, <1>7 DEF UnitInv

LEMMA CountUnits ==
    ASSUME UInv, NEW p \in Procs,
           semPDecrement(p) \/ semVIncrement(p) \/ semPCheck(p)
    PROVE  UnitInv'
<1> USE DEF UInv, MInv, IInv
<1>1. PICK h \in Slots :
        /\ h = sem[p] /\ count[h] \in Nat
        /\ ready' = ready /\ sem' = sem /\ StepBy(p)
        /\ \/ /\ count[h] > 0 /\ count' = [count EXCEPT ![h] = @ - 1]
              /\ units' = units /\ pc[p] = "p_dec" /\ pc'[p] = "p_arg2"
           \/ /\ count' = [count EXCEPT ![h] = @ + 1]
              /\ units' = units /\ pc[p] = "v_inc" /\ pc'[p] = "v_arg3"
           \/ /\ units' = [units EXCEPT ![h] = @ - 1]
              /\ count' = count /\ pc[p] = "p_check" /\ pc'[p] = "p_ret"
  BY CountMove
<1>2. NoneWoken /\ p \in ready
  BY <1>1 DEF NoneWoken, StepBy
<1>3. /\ units[h] \in Int /\ count[h] # EMPTY
      /\ units'[h] \in Int /\ count'[h] \in Int /\ count'[h] # EMPTY
      /\ \A i \in Slots \ {h} : units'[i] = units[i] /\ count'[i] = count[i]
  BY <1>1 DEF TypeOK, EMPTY
<1>4. \A i \in Slots \ {h} : ~Carries(p, i) /\ ~Carries(p, i)'
  BY <1>1 DEF Carries
<1>5. CASE pc[p] = "p_dec"
  <2>1. ~Carries(p, h) /\ Carries(p, h)'
    BY <1>1, <1>5 DEF Carries, VPending, TakingSteps
  <2>2. units'[h] - count'[h] = units[h] - count[h] + 1
    BY <1>1, <1>3, <1>5 DEF TypeOK
  <2> QED BY <1>1, <1>2, <1>3, <1>4, <2>1, <2>2, MovedUnit
<1>6. CASE pc[p] \in {"v_inc", "p_check"}
  <2>1. Carries(p, h) /\ ~Carries(p, h)'
    BY <1>1, <1>2, <1>6 DEF Carries, VPending, TakingSteps
  <2>2. units'[h] - count'[h] = units[h] - count[h] - 1
    BY <1>1, <1>3, <1>6 DEF TypeOK
  <2> QED BY <1>1, <1>2, <1>3, <1>4, <2>1, <2>2, MovedUnit
<1> QED BY <1>1, <1>5, <1>6

LEMMA HandUnits ==
    ASSUME UInv, NEW p \in Procs, semVWake(p), HasMessage(box[p])
    PROVE  UnitInv'
<1> USE DEF UInv, MInv, IInv
<1>1. PICK h \in Slots, q \in Procs \ {p} :
        /\ h = sem[p] /\ UNCHANGED <<sem, count, units>>
        /\ pc[p] = "v_wake" /\ pc'[p] = "v_arg3"
        /\ \A r \in Procs \ {p} : pc'[r] = pc[r]
        /\ q \notin ready /\ ready' = ready \cup {q}
        /\ pc[q] = "p_check" /\ sem[q] = h
  BY HandMove
<1>2. ASSUME NEW i \in Slots
      PROVE  /\ i # h => Pending(i)' = Pending(i)
             /\ i = h => Pending(i)' = (Pending(i) \ {p}) \cup {q}
                         /\ p \in Pending(i) /\ q \notin Pending(i)
  <2>1. \A r \in Procs \ {p, q} : Carries(r, i)' <=> Carries(r, i)
    BY <1>1 DEF Carries
  <2>2. /\ ~Carries(p, i)' /\ ~Carries(q, i)
        /\ Carries(p, i) <=> i = h
        /\ Carries(q, i)' <=> i = h
    BY <1>1 DEF Carries, VPending, TakingSteps
  <2> QED BY <2>1, <2>2 DEF Pending
<1>3. Cardinality(Pending(h)') = Cardinality(Pending(h))
  <2>1. IsFiniteSet(Pending(h)) /\ Cardinality(Pending(h)) \in Nat
    BY PendingFinite
  <2>2. /\ IsFiniteSet(Pending(h) \ {p})
        /\ Cardinality(Pending(h) \ {p}) = Cardinality(Pending(h)) - 1
    BY <1>2, <2>1, FS_RemoveElement
  <2>3. /\ Pending(h)' = (Pending(h) \ {p}) \cup {q}
        /\ q \notin Pending(h) \ {p}
    BY <1>2
  <2>4. Cardinality(Pending(h)') = Cardinality(Pending(h) \ {p}) + 1
    BY <2>2, <2>3, FS_AddElement
  <2> QED BY <2>1, <2>2, <2>4
<1>4. UnitsOf(h)'
  BY <1>1, <1>3 DEF UnitInv, UnitsOf
<1>5. \A i \in Slots \ {h} : UnitsOf(i)'
  BY <1>1, <1>2, SameUnits
<1> QED BY <1>4, <1>5 DEF UnitInv

LEMMA DropUnits ==
    ASSUME UInv, NEW p \in Procs, semVWake(p), ~HasMessage(box[p])
    PROVE  UnitInv'
<1> USE DEF UInv, MInv, IInv
<1>1. /\ UNCHANGED <<ready, sem, count, units>> /\ StepBy(p) /\ NoneWoken
      /\ pc[p] = "v_wake" /\ pc'[p] = IF NoMsg = 1 THEN "v_inc" ELSE "v_arg3"
  BY DropMove
<1>2. CASE NoMsg = 1
  <2>1. SameSide(p)
    BY <1>1, <1>2 DEF SameSide, VPending
  <2> QED BY <1>1, <2>1, QuietUnits DEF QuietMove
<1>3. CASE NoMsg # 1
  <2>1. ASSUME NEW h \in Slots
        PROVE  UnitsOf(h)'
    <3>1. ~Carries(p, h)'
      BY <1>1, <1>3 DEF Carries, VPending, TakingSteps
    <3>2. Pending(h)' \in SUBSET Pending(h)
      BY <1>1, <3>1, OthersCarry DEF Pending
    <3>3. /\ Cardinality(Pending(h)') <= Cardinality(Pending(h))
          /\ Cardinality(Pending(h)') \in Nat /\ Cardinality(Pending(h)) \in Nat
      BY <3>2, PendingFinite, FS_Subset, FS_CardinalityType
    <3>4. UnitsOf(h) /\ count[h] \in Int /\ units[h] \in Int
      BY DEF UnitInv, TypeOK
    <3> QED BY <1>1, <1>3, <3>3, <3>4 DEF UnitsOf
  <2> QED BY <2>1 DEF UnitInv
<1> QED BY <1>2, <1>3

LEMMA CallUnits ==
    ASSUME UInv, NEW p \in Procs, SystemCall(p)
    PROVE  UnitInv'
<1> USE DEF UInv, MInv, IInv
<1>1. CASE pc'[p] \notin {"p_arg1", "v_arg1"}
  BY <1>1, CallQuiet, QuietUnits
<1>2. CASE pc'[p] \in {"p_arg1", "v_arg1"}
  <2>1. PICK h \in Slots :
          /\ h = sem'[p] /\ count[h] # EMPTY
          /\ ready' = ready /\ count' = count /\ StepBy(p)
          /\ pc[p] = "user"
          /\ units' = IF pc'[p] = "v_arg1" THEN [units EXCEPT ![h] = @ + 1] ELSE units
    BY <1>2, BeginMove
  <2>2. NoneWoken /\ \A i : ~Carries(p, i)
    BY <2>1 DEF NoneWoken, Carries, VPending, TakingSteps
  <2>3. CASE pc'[p] = "p_arg1"
    <3>1. \A i : ~Carries(p, i)'
      BY <2>3 DEF Carries, VPending, TakingSteps
    <3>2. \A i : Pending(i)' = Pending(i)
      BY <2>1, <2>2, <3>1, OthersCarry DEF Pending
    <3> QED BY <2>1, <2>3, <3>2, SameUnits DEF UnitInv
  <2>4. CASE pc'[p] = "v_arg1"
    <3>1. Carries(p, h)' /\ \A i \in Slots \ {h} : ~Carries(p, i)'
      BY <2>1, <2>4 DEF Carries, VPending
    <3>2. /\ units'[h] - count'[h] = units[h] - count[h] + 1
          /\ units'[h] \in Int /\ count'[h] \in Int /\ count'[h] # EMPTY
          /\ \A i \in Slots \ {h} : units'[i] = units[i] /\ count'[i] = count[i]
      BY <2>1, <2>4 DEF TypeOK
    <3> QED BY <2>1, <2>2, <3>1, <3>2, MovedUnit
  <2> QED BY <1>2, <2>3, <2>4
<1> QED BY <1>1, <1>2

----------------------------------------------------------------------------
(* All steps together.                                                     *)

LEMMA NoFreeing ==
    ASSUME MInv, NEW p \in Procs
    PROVE  ~(\/ freeSemCount(p) \/ freeSemMutex(p) \/ freeSemMutexId(p)
             \/ freeSemProbe(p) \/ freeSemBlocking(p) \/ freeSemBlockingId(p)
             \/ semFreeCount(p))
BY DEF MInv, CountInv, ProcInv, freeSemCount, freeSemMutex, freeSemMutexId,
       freeSemProbe, freeSemBlocking, freeSemBlockingId, semFreeCount, At, FreeSteps

LEMMA InitUnits == Init => UnitInv
BY DEF Init, SemInit, UnitInv, UnitsOf

LEMMA NextUnits == UInv /\ [Next]_vars => UInv'
<1> SUFFICES ASSUME UInv, [Next]_vars PROVE UnitInv'
  BY NextCount DEF UInv
<1>1. CASE UNCHANGED vars \/ \E p \in Procs : Zap(p)
  <2>1. UNCHANGED <<pc, sem, ready, count, units>>
    BY <1>1 DEF vars, Zap, mailboxVars, tableVars, seenVars
  <2>2. \A h : Pending(h)' = Pending(h)
    BY <2>1 DEF Pending, Carries
  <2> QED BY <2>1, <2>2, SameUnits DEF UnitInv
<1>2. ASSUME NEW p \in Procs, HandlerStep(p)
      PROVE  UnitInv'
  BY <1>2, NoFreeing, LockQuiet, LocalQuiet, MailboxQuiet, BlockQuiet, QuietUnits,
     CreateUnits, CountUnits, HandUnits, DropUnits DEF HandlerStep, UInv
<1> QED BY <1>1, <1>2, CallUnits DEF Next

LEMMA UnitsHold == NothingFreed /\ IsFiniteSet(Procs) /\ Spec => []UInv
<1>1. NothingFreed /\ IsFiniteSet(Procs) /\ Init => UInv
  BY InitCount, InitUnits DEF UInv
<1> QED BY <1>1, NextUnits, PTL DEF Spec

(* A semaphore never lets more processes through SemP (src/phase3.c:710-747) *)
(* than its initial value and the SemV calls made on it allow: for any     *)
(* number of processes and semaphores, whoever is zapped, and whatever     *)
(* MboxCondReceive returns, as long as programs free no semaphore.         *)
THEOREM NoUnitTwice == NothingFreed /\ IsFiniteSet(Procs) /\ Spec => []NoPhantomUnit
<1>1. UInv => NoPhantomUnit
  <2> SUFFICES ASSUME UInv, NEW h \in Slots PROVE units[h] >= 0
    BY DEF NoPhantomUnit
  <2>1. /\ UnitsOf(h) /\ SlotInv(h) /\ count[h] \in Int /\ units[h] \in Int
        /\ Cardinality(Pending(h)) \in Nat
    BY PendingFinite DEF UInv, UnitInv, MInv, IInv, CountInv, TypeOK
  <2> QED BY <2>1 DEF UnitsOf, SlotInv, EMPTY
<1> QED BY <1>1, UnitsHold, PTL

(* If MboxCondReceive returned 1 for want of a message, as semVReal assumes *)
(* (src/phase3.c:761-766), then no SemV would be lost: the count of a      *)
(* semaphore that nobody is at work on would be what the calls amount to.  *)
THEOREM NoUnitLost ==
    NoMsg = 1 /\ NothingFreed /\ IsFiniteSet(Procs) /\ Spec => []NoLostUnit
<1>1. NoMsg = 1 /\ UInv => NoLostUnit
  <2> SUFFICES ASSUME NoMsg = 1, UInv, NEW h \in known, Quiet(h)
               PROVE  count[h] = units[h]
    BY DEF NoLostUnit
  <2>1. h \in Slots /\ count[h] # EMPTY
    BY DEF UInv, MInv, IInv, TypeOK, CountInv, SlotInv
  <2>2. Pending(h) = {}
    BY DEF Quiet, BlockedInP, Pending, Carries, VPending, TakingSteps
  <2>3. Cardinality(Pending(h)) = 0
    BY <2>2, FS_EmptySet
  <2>4. UnitsOf(h) /\ count[h] \in Int
    BY <2>1 DEF UInv, UnitInv, MInv, IInv, TypeOK
  <2> QED BY <2>1, <2>3, <2>4 DEF UnitsOf
<1>2. NoMsg = 1 /\ NothingFreed /\ IsFiniteSet(Procs) /\ Init => NoMsg = 1 /\ UInv
  BY InitCount, InitUnits DEF UInv
<1>3. NoMsg = 1 /\ UInv /\ [Next]_vars => (NoMsg = 1 /\ UInv)'
  BY NextUnits
<1> QED BY <1>1, <1>2, <1>3, PTL DEF Spec

----------------------------------------------------------------------------
(* P and V implement CountingSemaphore.                                    *)

call == [p \in Procs |-> AbstractCall(p)]

(* What the call of p is to CountingSemaphore.                             *)
LEMMA CallFacts ==
    ASSUME NEW p \in Procs
    PROVE  /\ pc[p] \in PPending => call[p] = Counting!P(sem[p])
           /\ pc[p] = "p_check" /\ p \notin ready => call[p] = Counting!P(sem[p])
           /\ pc[p] \in VPending => call[p] = Counting!V(sem[p])
           /\ pc[p] \in TakingSteps => call[p] = Counting!NoCall
           /\ pc[p] = "p_check" /\ p \in ready => call[p] = Counting!NoCall
           /\ pc[p] \notin UnitSteps => call[p] = Counting!NoCall
BY DEF call, AbstractCall, PPending, VPending, TakingSteps, UnitSteps, EMPTY,
       Counting!P, Counting!V, Counting!NoCall, Counting!Absent

LEMMA CallFactsNext ==
    ASSUME NEW p \in Procs
    PROVE  /\ pc'[p] \in PPending => call'[p] = Counting!P(sem'[p])
           /\ pc'[p] = "p_check" /\ p \notin ready' => call'[p] = Counting!P(sem'[p])
           /\ pc'[p] \in VPending => call'[p] = Counting!V(sem'[p])
           /\ pc'[p] \in TakingSteps => call'[p] = Counting!NoCall
           /\ pc'[p] = "p_check" /\ p \in ready' => call'[p] = Counting!NoCall
           /\ pc'[p] \notin UnitSteps => call'[p] = Counting!NoCall
BY DEF call, AbstractCall, PPending, VPending, TakingSteps, UnitSteps, EMPTY,
       Counting!P, Counting!V, Counting!NoCall, Counting!Absent

LEMMA OthersCall ==
    ASSUME NEW p \in Procs, StepBy(p), NoneWoken, NEW q \in Procs \ {p}
    PROVE  call'[q] = call[q]
BY DEF StepBy, NoneWoken, call, AbstractCall

LEMMA CallFunctions ==
    /\ call = [q \in Procs |-> call[q]]
    /\ call' = [q \in Procs |-> call'[q]]
BY DEF call

LEMMA SameCalls ==
    ASSUME count' = count, \A q \in Procs : call'[q] = call[q]
    PROVE  UNCHANGED Counting!vars
<1>1. call' = call
  BY CallFunctions
<1> QED BY <1>1 DEF call, Counting!vars

LEMMA QuietCounting ==
    ASSUME NEW p \in Procs, QuietMove(p)
    PROVE  UNCHANGED Counting!vars
<1>1. call'[p] = call[p]
  BY CallFacts, CallFactsNext DEF QuietMove, SameSide, StepBy
<1>2. \A q \in Procs : call'[q] = call[q]
  BY <1>1, OthersCall DEF QuietMove
<1> QED BY <1>2, SameCalls DEF QuietMove

LEMMA CreateCounting ==
    ASSUME MInv, NEW p \in Procs, initSemCount(p)
    PROVE  Counting!Next
<1> USE DEF MInv, IInv
<1>1. PICK h \in Slots :
        /\ h = sem[p] /\ count[h] = EMPTY /\ val[p] \in Nat
        /\ count' = [count EXCEPT ![h] = val[p]]
        /\ ready' = ready /\ sem' = sem
        /\ pc[p] \notin UnitSteps /\ pc'[p] \notin UnitSteps
        /\ \A q \in Procs \ {p} : pc'[q] = pc[q]
  BY CreateMove
<1>2. call' = call
  <2>1. \A q \in Procs \ {p} : call'[q] = call[q]
    BY <1>1 DEF call, AbstractCall
  <2>2. call'[p] = call[p]
    BY <1>1, CallFacts, CallFactsNext
  <2> QED BY <2>1, <2>2, CallFunctions
<1>3. count'[h] = val[p]
  BY <1>1 DEF TypeOK
<1>4. Counting!Create(h)
  BY <1>1, <1>2, <1>3 DEF Counting!Create, Counting!Absent, EMPTY, call
<1> QED BY <1>4 DEF Counting!Next

LEMMA TakeCounting ==
    ASSUME MInv, NEW p \in Procs, semPDecrement(p)
    PROVE  Counting!Next
<1>1. PICK h \in Slots :
        /\ h = sem[p] /\ count[h] > 0
        /\ count' = [count EXCEPT ![h] = @ - 1]
        /\ ready' = ready /\ StepBy(p)
        /\ pc[p] = "p_dec" /\ pc'[p] = "p_arg2"
  BY CountMove DEF semPDecrement, semVIncrement, semPCheck, At
<1>2. /\ call[p] = Counting!P(h) /\ call'[p] = Counting!NoCall
      /\ \A q \in Procs \ {p} : call'[q] = call[q]
  BY <1>1, CallFacts, CallFactsNext, OthersCall DEF PPending, TakingSteps, NoneWoken
<1>3. call' = [call EXCEPT ![p] = Counting!NoCall]
  BY <1>2, CallFunctions
<1>4. Counting!Take(p, h)
  BY <1>1, <1>2, <1>3 DEF Counting!Take, call
<1> QED BY <1>4 DEF Counting!Next

LEMMA GiveCounting ==
    ASSUME MInv, NEW p \in Procs, semVIncrement(p)
    PROVE  Counting!Next
<1>1. PICK h \in Slots :
        /\ h = sem[p]
        /\ count' = [count EXCEPT ![h] = @ + 1]
        /\ ready' = ready /\ StepBy(p)
        /\ pc[p] = "v_inc" /\ pc'[p] = "v_arg3"
  BY CountMove DEF semPDecrement, semVIncrement, semPCheck, At
<1>2. /\ call[p] = Counting!V(h) /\ call'[p] = Counting!NoCall
      /\ \A q \in Procs \ {p} : call'[q] = call[q]
  BY <1>1, CallFacts, CallFactsNext, OthersCall
     DEF VPending, PPending, TakingSteps, UnitSteps, NoneWoken
<1>3. call' = [call EXCEPT ![p] = Counting!NoCall]
  BY <1>2, CallFunctions
<1>4. Counting!Give(p, h)
  BY <1>1, <1>2, <1>3 DEF Counting!Give, call
<1> QED BY <1>4 DEF Counting!Next

LEMMA HandCounting ==
    ASSUME MInv, NEW p \in Procs, semVWake(p), HasMessage(box[p])
    PROVE  Counting!Next
<1>1. PICK h \in Slots, q \in Procs \ {p} :
        /\ h = sem[p] /\ count[h] = 0 /\ UNCHANGED <<sem, count>>
        /\ pc[p] = "v_wake" /\ pc'[p] = "v_arg3"
        /\ \A r \in Procs \ {p} : pc'[r] = pc[r]
        /\ q \notin ready /\ ready' = ready \cup {q}
        /\ pc[q] = "p_check" /\ sem[q] = h
  BY HandMove
<1>2. /\ call[p] = Counting!V(h) /\ call[q] = Counting!P(h)
      /\ call'[p] = Counting!NoCall /\ call'[q] = Counting!NoCall
  BY <1>1, CallFacts, CallFactsNext DEF VPending, PPending, TakingSteps, UnitSteps
<1>3. \A r \in Procs \ {p, q} : call'[r] = call[r]
  BY <1>1 DEF call, AbstractCall
<1>4. call' = [call EXCEPT ![p] = Counting!NoCall, ![q] = Counting!NoCall]
  BY <1>2, <1>3, CallFunctions
<1>5. Counting!HandOver(p, q, h)
  BY <1>1, <1>2, <1>4 DEF Counting!HandOver, call
<1> QED BY <1>5 DEF Counting!Next

LEMMA DropCounting ==
    ASSUME MInv, NEW p \in Procs, semVWake(p), ~HasMessage(box[p])
    PROVE  Counting!Next \/ UNCHANGED Counting!vars
<1>1. PICK h \in Slots :
        /\ h = sem[p] /\ count[h] = 0
        /\ UNCHANGED <<ready, sem, count, units>> /\ StepBy(p) /\ NoneWoken
        /\ pc[p] = "v_wake" /\ pc'[p] = IF NoMsg = 1 THEN "v_inc" ELSE "v_arg3"
  BY DropMove
<1>2. CASE NoMsg = 1
  <2>1. SameSide(p)
    BY <1>1, <1>2 DEF SameSide, VPending
  <2> QED BY <1>1, <2>1, QuietCounting DEF QuietMove
<1>3. CASE NoMsg # 1
  <2>1. /\ call[p] = Counting!V(h) /\ call'[p] = Counting!NoCall
        /\ \A q \in Procs \ {p} : call'[q] = call[q]
    BY <1>1, <1>3, CallFacts, CallFactsNext, OthersCall
       DEF VPending, PPending, TakingSteps, UnitSteps
  <2>2. call' = [call EXCEPT ![p] = Counting!NoCall]
    BY <2>1, CallFunctions
  <2>3. Counting!Lose(p, h)
    BY <1>1, <1>3, <2>1, <2>2 DEF Counting!Lose, call
  <2> QED BY <2>3 DEF Counting!Next
<1> QED BY <1>2, <1>3

LEMMA BeginCounting ==
    ASSUME MInv, NEW p \in Procs, SystemCall(p)
    PROVE  Counting!Next \/ UNCHANGED Counting!vars
<1>1. CASE pc'[p] \notin {"p_arg1", "v_arg1"}
  BY <1>1, CallQuiet, QuietCounting
<1>2. CASE pc'[p] \in {"p_arg1", "v_arg1"}
  <2>1. PICK h \in Slots :
          /\ h = sem'[p] /\ count[h] # EMPTY
          /\ ready' = ready /\ count' = count /\ StepBy(p)
          /\ pc[p] = "user"
    BY <1>2, BeginMove
  <2>2. PICK c \in {Counting!P(h), Counting!V(h)} : call'[p] = c
    BY <1>2, <2>1, CallFactsNext DEF VPending, PPending
  <2>3. /\ call[p] = Counting!NoCall
        /\ \A q \in Procs \ {p} : call'[q] = call[q]
    BY <2>1, CallFacts, OthersCall
       DEF VPending, PPending, TakingSteps, UnitSteps, NoneWoken
  <2>4. call' = [call EXCEPT ![p] = c]
    BY <2>2, <2>3, CallFunctions
  <2>5. c.sem = h
    BY DEF Counting!P, Counting!V
  <2>6. Counting!Begin(p, c)
    BY <2>1, <2>3, <2>4, <2>5 DEF Counting!Begin, Counting!Absent, EMPTY, call
  <2> QED BY <2>6 DEF Counting!Next
<1> QED BY <1>1, <1>2

LEMMA CheckCounting ==
    ASSUME MInv, NEW p \in Procs, semPCheck(p)
    PROVE  UNCHANGED Counting!vars
<1>1. /\ count' = count /\ ready' = ready /\ StepBy(p) /\ p \in ready
      /\ pc[p] = "p_check" /\ pc'[p] = "p_ret"
  BY CountMove DEF semPDecrement, semVIncrement, semPCheck, At, StepBy
<1>2. \A q \in Procs : call'[q] = call[q]
  BY <1>1, CallFacts, CallFactsNext, OthersCall
     DEF VPending, PPending, TakingSteps, UnitSteps, NoneWoken
<1> QED BY <1>1, <1>2, SameCalls

LEMMA InitCounting == Init => Counting!Init
<1> SUFFICES ASSUME Init PROVE Counting!Init
  OBVIOUS
<1>1. \A p \in Procs : call[p] = Counting!NoCall
  BY CallFacts DEF Init, VPending, PPending, TakingSteps, UnitSteps
<1>2. call = [p \in Procs |-> Counting!NoCall]
  BY <1>1, CallFunctions
<1> QED BY <1>2 DEF Init, SemInit, Counting!Init, Counting!Absent, EMPTY, call

LEMMA NextCounting == MInv /\ [Next]_vars => [Counting!Next]_(Counting!vars)
<1> SUFFICES ASSUME MInv, [Next]_vars
             PROVE  Counting!Next \/ UNCHANGED Counting!vars
  OBVIOUS
<1>1. CASE UNCHANGED vars \/ \E p \in Procs : Zap(p)
  <2>1. UNCHANGED <<pc, sem, ready, count>>
    BY <1>1 DEF vars, Zap, mailboxVars, tableVars
  <2>2. \A q \in Procs : call'[q] = call[q]
    BY <2>1 DEF call, AbstractCall
  <2> QED BY <2>1, <2>2, SameCalls
<1>2. ASSUME NEW p \in Procs, HandlerStep(p)
      PROVE  Counting!Next \/ UNCHANGED Counting!vars
  BY <1>2, NoFreeing, LockQuiet, LocalQuiet, MailboxQuiet, BlockQuiet, QuietCounting,
     CreateCounting, TakeCounting, GiveCounting, HandCounting, DropCounting,
     CheckCounting DEF HandlerStep
<1> QED BY <1>1, <1>2, BeginCounting DEF Next

(* P and V implement a counting semaphore (src/phase3.c:710-773): every    *)
(* unit that SemP takes was put there by SemCreate or SemV, one process at *)
(* a time, and the only unit that may get lost is that of a SemV which     *)
(* finds the count 0 and nobody blocked, when MboxCondReceive does not     *)
(* return 1.  For any number of processes and semaphores, as long as       *)
(* programs free none.                                                     *)
THEOREM Implements == NothingFreed /\ Spec => CountingSpec
<1>1. NothingFreed /\ Init => MInv /\ Counting!Init
  BY InitCount, InitCounting
<1> QED BY <1>1, NextCount, NextCounting, PTL DEF Spec, CountingSpec, Counting!Spec

----------------------------------------------------------------------------
(* The semaphores in a larger system.                                      *)

(* p does something else: it is in no handler of the semaphores, its       *)
(* program may end and another begin in its slot, and processes may be     *)
(* zapped or quit.                                                         *)
Elsewhere(p) ==
    /\ pc[p] \in {"user", "quit"}
    /\ Goto(p, "user")
    /\ zapped' \subseteq Procs
    /\ UNCHANGED <<mailboxVars, tableVars, sem, box, val, seenVars>>

LEMMA ElsewhereStep ==
    ASSUME MInv, NEW p \in Procs, Elsewhere(p)
    PROVE  /\ MInv'
           /\ UInv => UInv'
           /\ NumInv => NumInv'
           /\ HeldInv => HeldInv'
           /\ UNCHANGED Counting!vars
<1> USE DEF MInv
<1>1. /\ UNCHANGED <<mbox, ready, count, mutex, blockingMbox, currentNumSems, sem, box, val,
                     known, units, tableCalls>>
      /\ pc[p] \in {"user", "quit"} /\ pc'[p] = "user"
      /\ \A q \in Procs \ {p} : pc'[q] = pc[q]
      /\ pc' \in [Procs -> Labels]
  BY DEF Elsewhere, Goto, IInv, TypeOK, mailboxVars, tableVars, seenVars, Labels
<1>2. p \in ready /\ StepBy(p)
  BY <1>1 DEF CountInv, ProcInv, StepBy
<1>3. TypeOK' /\ QueuesOK' /\ MailboxesOwned'
  <2>1. TypeOK'
    BY <1>1 DEF Elsewhere, IInv, TypeOK, MailboxTypeOK, Steps, CreateSteps, PSteps, VSteps,
                FreeSteps
  <2>2. QueuesOK'
    BY <1>1, StutterLemma DEF IInv, TypeOK, mailboxVars
  <2>3. MailboxesOwned'
    <3>1. Alone(p) /\ pc[p] \notin {"f_nomutex", "f_noblock"}
      BY <1>1, <1>2 DEF Alone
    <3> QED BY <1>1, <3>1, StaleKept, OwnedKept DEF IInv
  <2> QED BY <2>1, <2>2, <2>3
<1>4. LockInv'
  <2>1. {"user", "quit"} \subseteq OtherSide \ (TableSide \cup TableSteps)
    BY DEF OtherSide, TableSide, TableSteps
  <2>2. \A b \in Boxes : Waiting(b)' = Waiting(b)
    BY <1>1 DEF Waiting
  <2>3. \A q \in Procs : HoldsTable(q)' => HoldsTable(q)
    BY <1>1, <2>1 DEF HoldsTable
  <2> QED BY <1>1, <2>1, <2>2, <2>3 DEF IInv, LockInv, SemsMutexExclusion
<1>5. CountInv'
  <2>1. ProcInv(p)'
    BY <1>1, <1>2 DEF ProcInv, FreeSteps, PSteps, VSteps, OnMutexSteps, OnBlockingSteps,
                      FreshSteps
  <2>2. ~HoldsSemaphore(p)'
    BY <1>1 DEF HoldsSemaphore, SemaphoreSteps
  <2> QED BY <1>1, <1>2, <2>1, <2>2, QuietStep DEF Elsewhere
<1>6. MInv'
  BY <1>3, <1>4, <1>5 DEF IInv, NothingFreed
<1>7. NumInv => NumInv'
  <2>1. pc'[p] \notin MakeSteps /\ pc[p] \notin MakeSteps
    BY <1>1 DEF MakeSteps
  <2> QED BY <1>1, <2>1, NumKept
<1>8. QuietMove(p)
  BY <1>1, <1>2 DEF QuietMove, NoneWoken, SameSide, UnitSteps, PPending, VPending, TakingSteps
<1>9. HeldInv => HeldInv'
  <2>1. ~HoldsSemaphore(p)
    BY <1>1 DEF HoldsSemaphore, SemaphoreSteps
  <2> QED BY <1>1, <2>1, HeldKept
<1> QED BY <1>6, <1>7, <1>8, <1>9, QuietUnits, QuietCounting DEF UInv

=============================================================================
