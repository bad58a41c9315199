-------------------------- MODULE SemaphoreProofs --------------------------
(***************************************************************************)
(* Theorems about the semaphores, for every number of processes, slots and *)
(* mailboxes: types, and the mutual exclusion on the semaphore table.      *)
(***************************************************************************)
EXTENDS Semaphores, MailboxProofs

(* The steps of a handler that works with the mutex semsMutex, and those   *)
(* during which it has nothing to do with it.                              *)
TableSide == {"c_lock", "f_lock"} \cup TableSteps
OtherSide == PSteps \cup VSteps \cup {"user", "quit"}

(* What keeps two processes out of the table.  The mailbox semsMutex holds *)
(* a message while a process holds the table, and no other process gets at *)
(* it: a process is blocked on the mailbox that it evaluated, and only the *)
(* table's handlers have evaluated semsMutex.                              *)
LockInv ==
    /\ mbox[semsMutex].slots = 1
    /\ mbox[semsMutex].used <= 1
    /\ mbox[semsMutex].receivers = << >>
    /\ \A p \in Procs :
        /\ pc[p] \in TableSide => box[p] = semsMutex
        /\ pc[p] \in OtherSide => box[p] # semsMutex
        /\ HoldsTable(p) => mbox[semsMutex].used = 1
    /\ \A b \in Boxes : \A q \in Waiting(b) : box[q] = b
    /\ SemsMutexExclusion

IInv == TypeOK /\ QueuesOK /\ MailboxesOwned /\ LockInv

----------------------------------------------------------------------------
(* Types.                                                                  *)

LEMMA StepsLemma ==
    /\ Steps \cup {"user", "quit", "undefined"} = Labels
    /\ \A l \in LockSteps :
        /\ l \in Steps /\ After[l] \in Steps
        /\ After[l] \in {"c_slot", "p_test", "v_test", "f_count"}
        /\ l = "c_lock" <=> After[l] = "c_slot"
    /\ \A l \in UnlockSteps \cup MutexArgSteps \cup BlockingArgSteps :
        /\ l \in Steps /\ After[l] \in Steps
        /\ l \notin {"c_lock", "c_slot"}
BY DEF Labels, Steps, CreateSteps, PSteps, VSteps, FreeSteps, LockSteps,
       UnlockSteps, MutexArgSteps, BlockingArgSteps, After

(* The initial state.                                                      *)
LEMMA InitTypes == Init => TypeOK /\ QueuesOK
<1> SUFFICES ASSUME Init PROVE TypeOK /\ QueuesOK
  OBVIOUS
<1> USE SemaphoreAssumption, MailboxAssumption
<1>1. NewBox(1) \in Mailbox /\ ClosedBox \in Mailbox
  BY DEF NewBox, ClosedBox, Mailbox
<1>2. semsMutex \in Boxes
  BY DEF semsMutex, Boxes
<1>3. MailboxTypeOK
  BY <1>1 DEF Init, SemInit, MailboxTypeOK
<1>4. \A b \in Boxes : mbox[b].senders = << >> /\ mbox[b].receivers = << >>
  BY <1>1 DEF Init, SemInit, NewBox, ClosedBox
<1>5. QueuesOK
  <2>1. \A b \in Boxes : Waiting(b) = {}
    BY <1>4 DEF Waiting, Members
  <2>2. \A b \in Boxes : ~mbox[b].open => mbox[b] = ClosedBox
    BY DEF Init, SemInit, NewBox
  <2>3. NoRepeats(<< >>)
    BY DEF NoRepeats
  <2> QED BY <1>4, <2>1, <2>2, <2>3 DEF QueuesOK
<1>6. TypeOK
  BY <1>3 DEF Init, SemInit, TypeOK, Labels, Steps, CreateSteps, PSteps, VSteps,
              FreeSteps, EMPTY, Slots
<1> QED BY <1>5, <1>6

(* A process goes to another step, with another handle or the same one.    *)
PcTypeOK ==
    /\ pc \in [Procs -> Labels]
    /\ sem \in [Procs -> Slots \cup {EMPTY}]
    /\ \A p \in Procs :
        pc[p] \in Steps \ {"c_lock", "c_slot"} => sem[p] \in Slots

LEMMA GotoLemma ==
    ASSUME TypeOK, NEW p \in Procs, NEW l \in Labels,
           NEW h \in Slots \cup {EMPTY},
           l \in Steps \ {"c_lock", "c_slot"} => h \in Slots,
           Goto(p, l), sem' = [sem EXCEPT ![p] = h]
    PROVE  PcTypeOK'
BY DEF TypeOK, Goto, PcTypeOK

LEMMA GotoSameLemma ==
    ASSUME TypeOK, NEW p \in Procs, NEW l \in Labels,
           l \in Steps \ {"c_lock", "c_slot"} => sem[p] \in Slots,
           Goto(p, l), sem' = sem
    PROVE  PcTypeOK'
BY DEF TypeOK, Goto, PcTypeOK

(* The mailbox operations, one after the other.                            *)
LEMMA LockTypes ==
    ASSUME TypeOK, QueuesOK, NEW p \in Procs, Lock(p)
    PROVE  TypeOK' /\ QueuesOK'
<1>1. PICK l \in LockSteps :
        /\ At(p, l)
        /\ MboxSend(p, box[p])
        /\ Goto(p, After[l])
        /\ UNCHANGED <<tableVars, sem, box, val, zapped, seenVars>>
  BY DEF Lock
<1>2. MailboxTypeOK' /\ QueuesOK'
  BY <1>1, SendLemma DEF TypeOK, At
<1>3. PcTypeOK'
  <2>1. l \in Steps /\ After[l] \in Labels /\ l # "c_slot" /\ pc[p] = l
    BY <1>1, StepsLemma DEF At, LockSteps
  <2>2. After[l] \in Steps \ {"c_lock", "c_slot"} => sem[p] \in Slots
    BY <2>1, StepsLemma DEF TypeOK
  <2> QED BY <1>1, <2>1, <2>2, GotoSameLemma
<1> QED BY <1>1, <1>2, <1>3 DEF TypeOK, PcTypeOK, tableVars, seenVars

LEMMA UnlockTypes ==
    ASSUME TypeOK, QueuesOK, NEW p \in Procs, Unlock(p)
    PROVE  TypeOK' /\ QueuesOK'
<1>1. PICK l \in UnlockSteps :
        /\ At(p, l)
        /\ MboxReceive(p, box[p])
        /\ Goto(p, After[l])
        /\ UNCHANGED <<tableVars, sem, box, val, zapped, seenVars>>
  BY DEF Unlock
<1>2. MailboxTypeOK' /\ QueuesOK'
  BY <1>1, ReceiveLemma DEF TypeOK, At
<1>3. PcTypeOK'
  <2>1. /\ l \in Steps \ {"c_lock", "c_slot"} /\ After[l] \in Labels
        /\ pc[p] = l
    BY <1>1, StepsLemma DEF At
  <2> QED BY <1>1, <2>1, GotoSameLemma DEF TypeOK
<1> QED BY <1>1, <1>2, <1>3 DEF TypeOK, PcTypeOK, tableVars, seenVars

(* Every step of a handler but the lock of semsMutex and the search for a  *)
(* slot works on a slot of the table.                                      *)
LEMMA OnSlotLemma ==
    ASSUME TypeOK, NEW p \in Procs, pc[p] \in Steps \ {"c_lock", "c_slot"}
    PROVE  sem[p] \in Slots
BY DEF TypeOK

LEMMA StepLemma ==
    ASSUME TypeOK, NEW p \in Procs, NEW l \in Steps \ {"c_lock", "c_slot"},
           NEW m \in Labels, At(p, l), Goto(p, m), sem' = sem
    PROVE  sem[p] \in Slots /\ PcTypeOK'
<1>1. sem[p] \in Slots
  BY OnSlotLemma DEF At
<1> QED BY <1>1, GotoSameLemma

(* The steps that do not touch a mailbox.                                  *)
LEMMA ReadTypes ==
    ASSUME TypeOK, QueuesOK, NEW p \in Procs,
           ReadMutex(p) \/ ReadBlockingMbox(p)
    PROVE  TypeOK' /\ QueuesOK'
<1>1. PICK l \in MutexArgSteps \cup BlockingArgSteps :
        /\ At(p, l)
        /\ \/ box' = [box EXCEPT ![p] = mutex[sem[p]]]
           \/ box' = [box EXCEPT ![p] = blockingMbox[sem[p]]]
        /\ Goto(p, After[l])
        /\ UNCHANGED <<mailboxVars, tableVars, sem, val, zapped, seenVars>>
  BY DEF ReadMutex, ReadBlockingMbox
<1>2. MailboxTypeOK' /\ QueuesOK'
  BY <1>1, StutterLemma DEF TypeOK
<1>3. /\ l \in Steps \ {"c_lock", "c_slot"} /\ After[l] \in Labels
      /\ pc[p] = l
  BY <1>1, StepsLemma DEF At
<1>4. sem[p] \in Slots
  BY <1>3, OnSlotLemma
<1>5. PcTypeOK'
  BY <1>1, <1>3, <1>4, GotoSameLemma
<1>6. box' \in [Procs -> Boxes \cup {EMPTY}]
  BY <1>1, <1>4 DEF TypeOK
<1> QED BY <1>1, <1>2, <1>5, <1>6 DEF TypeOK, PcTypeOK, tableVars, seenVars

LEMMA ReturnTypes ==
    ASSUME TypeOK, QueuesOK, NEW p \in Procs, Return(p)
    PROVE  TypeOK' /\ QueuesOK'
<1>1. MailboxTypeOK' /\ QueuesOK'
  BY StutterLemma DEF Return, TypeOK
<1>2. PICK l \in RetSteps :
        /\ At(p, l)
        /\ Goto(p, IF p \in zapped THEN "quit" ELSE "user")
        /\ known' = IF l = "c_ret" /\ p \notin zapped
                    THEN known \cup {sem[p]} ELSE known
  BY DEF Return
<1>3. sem[p] \in Slots
  BY <1>2, OnSlotLemma DEF At, RetSteps, Labels, Steps, CreateSteps, PSteps, VSteps, FreeSteps
<1>4. PcTypeOK'
  <2> DEFINE l2 == IF p \in zapped THEN "quit" ELSE "user"
  <2>1. l2 \in Labels \ Steps
    BY DEF Labels, Steps, CreateSteps, PSteps, VSteps, FreeSteps
  <2>2. EMPTY \in Slots \cup {EMPTY} /\ sem' = [sem EXCEPT ![p] = EMPTY]
    BY DEF Return
  <2>3. Goto(p, l2)
    BY <1>2
  <2> HIDE DEF l2
  <2> QED BY <2>1, <2>2, <2>3, GotoLemma
<1>5. /\ known' \subseteq Slots
      /\ box' \in [Procs -> Boxes \cup {EMPTY}]
      /\ val' \in [Procs -> Int]
  BY <1>2, <1>3 DEF Return, TypeOK
<1> QED BY <1>1, <1>4, <1>5 DEF Return, TypeOK, PcTypeOK, tableVars

LEMMA SlotTypes ==
    ASSUME TypeOK, QueuesOK, NEW p \in Procs, getAvailableSemHandle(p)
    PROVE  TypeOK' /\ QueuesOK'
<1>1. MailboxTypeOK' /\ QueuesOK'
  BY StutterLemma DEF getAvailableSemHandle, TypeOK
<1>2. PcTypeOK'
  <2>1. "c_count" \in Labels /\ "undefined" \in Labels \ Steps
    BY DEF Labels, Steps, CreateSteps, PSteps, VSteps, FreeSteps
  <2>2. ASSUME NEW h \in Slots, sem' = [sem EXCEPT ![p] = h], Goto(p, "c_count")
        PROVE  PcTypeOK'
    BY <2>1, <2>2, GotoLemma
  <2>3. ASSUME Goto(p, "undefined"), sem' = sem
        PROVE  PcTypeOK'
    BY <2>1, <2>3, GotoSameLemma
  <2> QED BY <2>2, <2>3 DEF getAvailableSemHandle
<1> QED BY <1>1, <1>2
        DEF getAvailableSemHandle, TypeOK, PcTypeOK, tableVars, seenVars

LEMMA CreateTypes ==
    ASSUME TypeOK, QueuesOK, NEW p \in Procs,
           \/ initSemCount(p)
           \/ initSemMutex(p)
           \/ initSemBlocking(p)
           \/ semCreateCount(p)
    PROVE  TypeOK' /\ QueuesOK'
<1>1. CASE initSemCount(p)
  <2>1. sem[p] \in Slots /\ PcTypeOK'
    BY <1>1, StepLemma DEF initSemCount, Labels, Steps, CreateSteps
  <2>2. MailboxTypeOK' /\ QueuesOK'
    BY <1>1, StutterLemma DEF initSemCount, TypeOK
  <2> QED BY <1>1, <2>1, <2>2
          DEF initSemCount, TypeOK, PcTypeOK, tableVars, seenVars
<1>2. CASE initSemMutex(p)
  <2>1. sem[p] \in Slots /\ PcTypeOK'
    BY <1>2, StepLemma DEF initSemMutex, Labels, Steps, CreateSteps
  <2>2. PICK id \in Boxes \cup {EMPTY} :
            MboxCreate(1, id) /\ mutex' = [mutex EXCEPT ![sem[p]] = id]
    BY <1>2 DEF initSemMutex
  <2>3. MailboxTypeOK' /\ QueuesOK'
    BY <2>2, CreateLemma DEF TypeOK
  <2> QED BY <1>2, <2>1, <2>2, <2>3
          DEF initSemMutex, TypeOK, PcTypeOK, seenVars
<1>3. CASE initSemBlocking(p)
  <2>1. sem[p] \in Slots /\ PcTypeOK'
    BY <1>3, StepLemma DEF initSemBlocking, Labels, Steps, CreateSteps
  <2>2. PICK id \in Boxes \cup {EMPTY} :
            MboxCreate(0, id) /\ blockingMbox' = [blockingMbox EXCEPT ![sem[p]] = id]
    BY <1>3 DEF initSemBlocking
  <2>3. MailboxTypeOK' /\ QueuesOK'
    BY <2>2, CreateLemma DEF TypeOK
  <2> QED BY <1>3, <2>1, <2>2, <2>3
          DEF initSemBlocking, TypeOK, PcTypeOK, seenVars
<1>4. CASE semCreateCount(p)
  <2>1. sem[p] \in Slots /\ PcTypeOK'
    BY <1>4, StepLemma DEF semCreateCount, Labels, Steps, CreateSteps
  <2>2. MailboxTypeOK' /\ QueuesOK'
    BY <1>4, StutterLemma DEF semCreateCount, TypeOK
  <2> QED BY <1>4, <2>1, <2>2
          DEF semCreateCount, TypeOK, PcTypeOK, tableVars, seenVars
<1> QED BY <1>1, <1>2, <1>3, <1>4

LEMMA PTypes ==
    ASSUME TypeOK, QueuesOK, NEW p \in Procs,
           \/ semPTest(p)
           \/ semPDecrement(p)
           \/ semPBlock(p)
    PROVE  TypeOK' /\ QueuesOK'
<1>1. CASE semPTest(p)
  <2>1. sem[p] \in Slots /\ PcTypeOK'
    BY <1>1, StepLemma DEF semPTest, Labels, Steps, PSteps
  <2>2. MailboxTypeOK' /\ QueuesOK'
    BY <1>1, StutterLemma DEF semPTest, TypeOK
  <2> QED BY <1>1, <2>1, <2>2
          DEF semPTest, TypeOK, PcTypeOK, tableVars, seenVars
<1>2. CASE semPDecrement(p)
  <2>1. sem[p] \in Slots /\ PcTypeOK'
    BY <1>2, StepLemma DEF semPDecrement, Labels, Steps, PSteps
  <2>2. MailboxTypeOK' /\ QueuesOK'
    BY <1>2, StutterLemma DEF semPDecrement, TypeOK
  <2> QED BY <1>2, <2>1, <2>2
          DEF semPDecrement, TypeOK, PcTypeOK, tableVars, seenVars
<1>3. CASE semPBlock(p)
  <2>1. sem[p] \in Slots /\ PcTypeOK'
    BY <1>3, StepLemma DEF semPBlock, Labels, Steps, PSteps
  <2>2. MailboxTypeOK' /\ QueuesOK'
    BY <1>3, SendLemma DEF semPBlock, TypeOK, At
  <2> QED BY <1>3, <2>1, <2>2
          DEF semPBlock, TypeOK, PcTypeOK, tableVars, seenVars
<1> QED BY <1>1, <1>2, <1>3

LEMMA VTypes ==
    ASSUME TypeOK, QueuesOK, NEW p \in Procs,
           \/ semVTest(p)
           \/ semVWake(p)
           \/ semVIncrement(p)
    PROVE  TypeOK' /\ QueuesOK'
<1>1. CASE semVTest(p)
  <2>1. sem[p] \in Slots /\ PcTypeOK'
    BY <1>1, StepLemma DEF semVTest, Labels, Steps, VSteps
  <2>2. MailboxTypeOK' /\ QueuesOK'
    BY <1>1, StutterLemma DEF semVTest, TypeOK
  <2> QED BY <1>1, <2>1, <2>2
          DEF semVTest, TypeOK, PcTypeOK, tableVars, seenVars
<1>2. CASE semVWake(p)
  <2>1. sem[p] \in Slots /\ PcTypeOK'
    BY <1>2, StepLemma DEF semVWake, Labels, Steps, VSteps
  <2>2. MailboxTypeOK' /\ QueuesOK'
    BY <1>2, CondReceiveLemma DEF semVWake, TypeOK, At
  <2> QED BY <1>2, <2>1, <2>2
          DEF semVWake, TypeOK, PcTypeOK, tableVars, seenVars
<1>3. CASE semVIncrement(p)
  <2>1. sem[p] \in Slots /\ PcTypeOK'
    BY <1>3, StepLemma DEF semVIncrement, Labels, Steps, VSteps
  <2>2. MailboxTypeOK' /\ QueuesOK'
    BY <1>3, StutterLemma DEF semVIncrement, TypeOK
  <2> QED BY <1>3, <2>1, <2>2
          DEF semVIncrement, TypeOK, PcTypeOK, tableVars, seenVars
<1> QED BY <1>1, <1>2, <1>3

LEMMA FreeTypes ==
    ASSUME TypeOK, QueuesOK, NEW p \in Procs,
           \/ freeSemCount(p)
           \/ freeSemMutex(p) \/ freeSemMutexId(p)
           \/ freeSemProbe(p)
           \/ freeSemBlocking(p) \/ freeSemBlockingId(p)
           \/ semFreeCount(p)
    PROVE  TypeOK' /\ QueuesOK'
<1>1. CASE freeSemCount(p)
  <2>1. sem[p] \in Slots /\ PcTypeOK'
    BY <1>1, StepLemma DEF freeSemCount, Labels, Steps, FreeSteps
  <2>2. MailboxTypeOK' /\ QueuesOK'
    BY <1>1, StutterLemma DEF freeSemCount, TypeOK
  <2> QED BY <1>1, <2>1, <2>2
          DEF freeSemCount, TypeOK, PcTypeOK, tableVars, seenVars, EMPTY
<1>2. CASE freeSemMutex(p)
  <2>1. sem[p] \in Slots /\ PcTypeOK'
    BY <1>2, StepLemma DEF freeSemMutex, Labels, Steps, FreeSteps
  <2>2. MailboxTypeOK' /\ QueuesOK'
    BY <1>2, ReleaseLemma DEF freeSemMutex, TypeOK, At
  <2> QED BY <1>2, <2>1, <2>2
          DEF freeSemMutex, TypeOK, PcTypeOK, tableVars, seenVars
<1>3. CASE freeSemProbe(p)
  <2>1. sem[p] \in Slots /\ PcTypeOK'
    BY <1>3, StepLemma DEF freeSemProbe, Labels, Steps, FreeSteps
  <2>2. MailboxTypeOK' /\ QueuesOK'
    BY <1>3, CondReceiveLemma DEF freeSemProbe, TypeOK, At
  <2>3. PICK i \in {0, 1, -1, -5} : val' = [val EXCEPT ![p] = i]
    BY <1>3 DEF freeSemProbe
  <2>4. UNCHANGED <<tableVars, sem, box, zapped, seenVars>>
    BY <1>3 DEF freeSemProbe
  <2> QED BY <2>1, <2>2, <2>3, <2>4
          DEF TypeOK, PcTypeOK, tableVars, seenVars
<1>4. CASE freeSemBlocking(p)
  <2>1. sem[p] \in Slots /\ PcTypeOK'
    BY <1>4, StepLemma DEF freeSemBlocking, Labels, Steps, FreeSteps
  <2>2. MailboxTypeOK' /\ QueuesOK'
    BY <1>4, ReleaseLemma DEF freeSemBlocking, TypeOK, At
  <2> QED BY <1>4, <2>1, <2>2
          DEF freeSemBlocking, TypeOK, PcTypeOK, tableVars, seenVars
<1>5. CASE semFreeCount(p)
  <2>1. sem[p] \in Slots /\ PcTypeOK'
    BY <1>5, StepLemma DEF semFreeCount, Labels, Steps, FreeSteps
  <2>2. MailboxTypeOK' /\ QueuesOK'
    BY <1>5, StutterLemma DEF semFreeCount, TypeOK
  <2> QED BY <1>5, <2>1, <2>2
          DEF semFreeCount, TypeOK, PcTypeOK, tableVars, seenVars
<1>6. CASE freeSemMutexId(p) \/ freeSemBlockingId(p)
  <2>1. sem[p] \in Slots /\ PcTypeOK'
    BY <1>6, StepLemma DEF freeSemMutexId, freeSemBlockingId, Labels, Steps, FreeSteps
  <2>2. MailboxTypeOK' /\ QueuesOK'
    BY <1>6, StutterLemma DEF freeSemMutexId, freeSemBlockingId, TypeOK
  <2> QED BY <1>6, <2>1, <2>2
          DEF freeSemMutexId, freeSemBlockingId, TypeOK, PcTypeOK, seenVars
<1> QED BY <1>1, <1>2, <1>3, <1>4, <1>5, <1>6

LEMMA CheckTypes ==
    ASSUME TypeOK, QueuesOK, NEW p \in Procs, semPCheck(p)
    PROVE  TypeOK' /\ QueuesOK'
<1>1. MailboxTypeOK' /\ QueuesOK'
  BY StutterLemma DEF semPCheck, TypeOK
<1>2. sem[p] \in Slots
  BY OnSlotLemma DEF semPCheck, At, Steps, PSteps
<1>3. CASE /\ Goto(p, "quit")
           /\ sem' = [sem EXCEPT ![p] = EMPTY]
           /\ box' = [box EXCEPT ![p] = EMPTY]
           /\ val' = [val EXCEPT ![p] = 0]
           /\ UNCHANGED units
  <2>1. "quit" \in Labels \ Steps
    BY DEF Labels, Steps, CreateSteps, PSteps, VSteps, FreeSteps
  <2>2. PcTypeOK'
    BY <1>3, <2>1, GotoLemma
  <2> QED BY <1>1, <1>3, <2>2 DEF semPCheck, TypeOK, PcTypeOK, tableVars
<1>4. CASE /\ Goto(p, "p_ret")
           /\ units' = [units EXCEPT ![sem[p]] = @ - 1]
           /\ UNCHANGED <<sem, box, val>>
  <2>1. PcTypeOK'
    BY <1>2, <1>4, GotoSameLemma DEF Labels, Steps, PSteps
  <2> QED BY <1>1, <1>2, <1>4, <2>1 DEF semPCheck, TypeOK, PcTypeOK, tableVars
<1> QED BY <1>3, <1>4 DEF semPCheck

(* The programs' calls.                                                    *)
LEMMA semCreateTypes ==
    ASSUME TypeOK, QueuesOK, NEW p \in Procs, NEW v \in InitValues, semCreate(p, v)
    PROVE  TypeOK' /\ QueuesOK'
<1>1. MailboxTypeOK' /\ QueuesOK'
  BY StutterLemma DEF semCreate, TypeOK
<1>2. PcTypeOK'
  <2>1. "c_lock" \in Labels
    BY DEF Labels, Steps, CreateSteps
  <2> QED BY <2>1, GotoSameLemma DEF semCreate, TypeOK, PcTypeOK
<1>3. semsMutex \in Boxes /\ InitValues \subseteq Int
  BY MailboxAssumption, SemaphoreAssumption DEF semsMutex, Boxes
<1> QED BY <1>1, <1>2, <1>3 DEF semCreate, TypeOK, PcTypeOK, tableVars

LEMMA EnterTypes ==
    ASSUME TypeOK, QueuesOK, NEW p \in Procs, NEW call, NEW h,
           NEW first \in Steps, EnterHandler(p, call, h, first)
    PROVE  /\ MailboxTypeOK' /\ QueuesOK' /\ PcTypeOK'
           /\ pc'[p] = first => h \in Slots \/ pc[p] = first
<1>1. MailboxTypeOK' /\ QueuesOK'
  BY StutterLemma DEF EnterHandler, TypeOK
<1>2. CASE UNCHANGED <<pc, sem>>
  BY <1>1, <1>2 DEF TypeOK, PcTypeOK
<1>3. CASE h \in Slots /\ Goto(p, first) /\ sem' = [sem EXCEPT ![p] = h]
  <2>1. first \in Labels
    BY DEF Labels
  <2> QED BY <1>1, <1>3, <2>1, GotoLemma
<1>4. CASE /\ h \notin Slots /\ Goto(p, "undefined")
           /\ sem' = [sem EXCEPT ![p] = EMPTY]
  <2>1. "undefined" \in Labels \ Steps
    BY DEF Labels, Steps, CreateSteps, PSteps, VSteps, FreeSteps
  <2>2. PcTypeOK'
    BY <1>4, <2>1, GotoLemma
  <2>3. pc'[p] = "undefined"
    BY <1>4 DEF Goto, TypeOK
  <2> QED BY <1>1, <2>1, <2>2, <2>3
<1> QED BY <1>2, <1>3, <1>4 DEF EnterHandler

LEMMA CallTypes ==
    ASSUME TypeOK, QueuesOK, NEW p \in Procs, NEW h,
           semP(p, h) \/ semV(p, h) \/ semFree(p, h)
    PROVE  TypeOK' /\ QueuesOK'
<1>1. "p_arg1" \in Steps /\ "v_arg1" \in Steps /\ "f_lock" \in Steps
  BY DEF Steps, PSteps, VSteps, FreeSteps
<1>2. CASE semP(p, h)
  <2>1. EnterHandler(p, "SemP", h, "p_arg1") /\ UNCHANGED <<box, units, tableCalls>>
    BY <1>2 DEF semP
  <2>2. MailboxTypeOK' /\ QueuesOK' /\ PcTypeOK'
    BY <1>1, <2>1, EnterTypes
  <2> QED BY <2>1, <2>2 DEF EnterHandler, TypeOK, PcTypeOK, tableVars
<1>3. CASE semV(p, h)
  <2>1. EnterHandler(p, "SemV", h, "v_arg1") /\ UNCHANGED <<box, tableCalls>>
    BY <1>3 DEF semV
  <2>2. MailboxTypeOK' /\ QueuesOK' /\ PcTypeOK'
    BY <1>1, <2>1, EnterTypes
  <2>3. units' \in [Slots -> Int]
    <3>1. pc[p] # "v_arg1"
      BY <2>1 DEF EnterHandler, At
    <3>2. pc'[p] = "v_arg1" => h \in Slots
      BY <1>1, <2>1, <3>1, EnterTypes
    <3> QED BY <1>3, <3>2 DEF semV, TypeOK
  <2> QED BY <2>1, <2>2, <2>3 DEF EnterHandler, TypeOK, PcTypeOK, tableVars
<1>4. CASE semFree(p, h)
  <2>1. /\ EnterHandler(p, "SemFree", h, "f_lock")
        /\ UNCHANGED units
        /\ box' = [box EXCEPT ![p] = semsMutex] \/ UNCHANGED box
        /\ tableCalls' = tableCalls + 1 \/ UNCHANGED tableCalls
    BY <1>4 DEF semFree
  <2>2. MailboxTypeOK' /\ QueuesOK' /\ PcTypeOK'
    BY <1>1, <2>1, EnterTypes
  <2>3. semsMutex \in Boxes
    BY MailboxAssumption, SemaphoreAssumption DEF semsMutex, Boxes
  <2> QED BY <2>1, <2>2, <2>3 DEF EnterHandler, TypeOK, PcTypeOK, tableVars
<1> QED BY <1>2, <1>3, <1>4

(* Every step keeps the types and the queues in order.                     *)
LEMMA NextTypes ==
    TypeOK /\ QueuesOK /\ [Next]_vars => (TypeOK /\ QueuesOK)'
<1> SUFFICES ASSUME TypeOK, QueuesOK, [Next]_vars
             PROVE  TypeOK' /\ QueuesOK'
  OBVIOUS
<1>1. CASE UNCHANGED vars
  <2>1. MailboxTypeOK' /\ QueuesOK'
    BY <1>1, StutterLemma DEF TypeOK, vars
  <2> QED BY <1>1, <2>1 DEF TypeOK, vars, tableVars, seenVars
<1>2. ASSUME NEW p \in Procs, SystemCall(p)
      PROVE  TypeOK' /\ QueuesOK'
  BY <1>2, semCreateTypes, CallTypes DEF SystemCall
<1>3. ASSUME NEW p \in Procs, HandlerStep(p)
      PROVE  TypeOK' /\ QueuesOK'
  BY <1>3, LockTypes, UnlockTypes, ReadTypes, ReturnTypes, SlotTypes, CreateTypes,
     PTypes, CheckTypes, VTypes, FreeTypes DEF HandlerStep
<1>4. ASSUME NEW p \in Procs, Zap(p)
      PROVE  TypeOK' /\ QueuesOK'
  <2>1. MailboxTypeOK' /\ QueuesOK'
    BY <1>4, StutterLemma DEF Zap, TypeOK
  <2> QED BY <1>4, <2>1 DEF Zap, TypeOK, tableVars, seenVars
<1> QED BY <1>1, <1>2, <1>3, <1>4 DEF Next

(* Variables keep their types, whatever the programs call: in particular a *)
(* handler that has passed doesGivenSemExist or getAvailableSemHandle      *)
(* (src/phase3utility.c:57-77 and 152-166) works on a slot of the table, or *)
(* has left the model as "undefined".                                      *)
THEOREM TypeCorrect == Spec => []TypeOK
<1>1. TypeOK /\ QueuesOK /\ [Next]_vars => (TypeOK /\ QueuesOK)'
  BY NextTypes
<1> QED BY <1>1, InitTypes, PTL DEF Spec

----------------------------------------------------------------------------
(* The mailboxes of the semaphores.                                        *)

\* A step of p: no other process goes to another step, nor is it blocked.
Alone(p) ==
    /\ p \in ready
    /\ ready \ {p} \subseteq ready'
    /\ \A q \in Procs \ {p} : pc'[q] = pc[q] /\ sem'[q] = sem[q]

LEMMA AloneLemma ==
    ASSUME TypeOK, QueuesOK, NEW p \in Procs, SystemCall(p) \/ HandlerStep(p)
    PROVE  Alone(p)
<1>1. p \in ready
  BY DEF SystemCall, semCreate, semP, semV, semFree, EnterHandler, HandlerStep, Lock,
         Unlock, ReadMutex, ReadBlockingMbox, Return, getAvailableSemHandle,
         initSemCount, initSemMutex, initSemBlocking, semCreateCount, semPTest,
         semPDecrement, semPBlock, semPCheck, semVTest, semVWake, semVIncrement,
         freeSemCount, freeSemMutex, freeSemMutexId, freeSemProbe, freeSemBlocking,
         freeSemBlockingId, semFreeCount, At
<1>2. \A q \in Procs \ {p} : pc'[q] = pc[q] /\ sem'[q] = sem[q]
  <2> USE DEF Goto, TypeOK
  <2>1. CASE SystemCall(p)
    BY <2>1 DEF SystemCall, semCreate, semP, semV, semFree, EnterHandler
  <2>2. CASE Lock(p) \/ Unlock(p) \/ ReadMutex(p) \/ ReadBlockingMbox(p) \/ Return(p)
    BY <2>2 DEF Lock, Unlock, ReadMutex, ReadBlockingMbox, Return
  <2>3. CASE \/ getAvailableSemHandle(p) \/ initSemCount(p) \/ initSemMutex(p)
             \/ initSemBlocking(p) \/ semCreateCount(p)
    BY <2>3 DEF getAvailableSemHandle, initSemCount, initSemMutex, initSemBlocking,
                semCreateCount
  <2>4. CASE \/ semPTest(p) \/ semPDecrement(p) \/ semPBlock(p) \/ semPCheck(p)
             \/ semVTest(p) \/ semVWake(p) \/ semVIncrement(p)
    BY <2>4 DEF semPTest, semPDecrement, semPBlock, semPCheck, semVTest, semVWake,
                semVIncrement
  <2>5. CASE \/ freeSemCount(p) \/ freeSemMutex(p) \/ freeSemMutexId(p)
             \/ freeSemProbe(p) \/ freeSemBlocking(p) \/ freeSemBlockingId(p)
             \/ semFreeCount(p)
    BY <2>5 DEF freeSemCount, freeSemMutex, freeSemMutexId, freeSemProbe,
                freeSemBlocking, freeSemBlockingId, semFreeCount
  <2> QED BY <2>1, <2>2, <2>3, <2>4, <2>5 DEF HandlerStep
<1>3. ready \ {p} \subseteq ready'
  <2>1. CASE UNCHANGED mailboxVars
    BY <2>1 DEF mailboxVars
  <2>2. CASE Lock(p) \/ semPBlock(p) \/ Unlock(p) \/ semVWake(p) \/ freeSemProbe(p)
    BY <2>2, ReadyKept DEF Lock, semPBlock, Unlock, semVWake, freeSemProbe
  <2>3. CASE initSemMutex(p) \/ initSemBlocking(p)
    BY <2>3, ReadyKept DEF initSemMutex, initSemBlocking
  <2>4. CASE freeSemMutex(p) \/ freeSemBlocking(p)
    BY <2>4, ReadyKept DEF freeSemMutex, freeSemBlocking
  <2> QED BY <2>1, <2>2, <2>3, <2>4
          DEF SystemCall, semCreate, semP, semV, semFree, EnterHandler, HandlerStep,
              ReadMutex, ReadBlockingMbox, Return, getAvailableSemHandle,
              initSemCount, semCreateCount, semPTest, semPDecrement, semPCheck,
              semVTest, semVIncrement, freeSemCount, freeSemMutexId,
              freeSemBlockingId, semFreeCount
<1> QED BY <1>1, <1>2, <1>3 DEF Alone

LEMMA StaleKept ==
    ASSUME NEW p \in Procs, Alone(p), pc[p] \notin {"f_nomutex", "f_noblock"}
    PROVE  /\ StaleMutex \subseteq StaleMutex'
           /\ StaleBlockingMbox \subseteq StaleBlockingMbox'
BY DEF StaleMutex, StaleBlockingMbox, At, Alone

LEMMA OwnedKept ==
    ASSUME MailboxesOwned, UNCHANGED <<mutex, blockingMbox>>,
           \A c \in Boxes : mbox'[c].open = mbox[c].open,
           /\ StaleMutex \subseteq StaleMutex'
           /\ StaleBlockingMbox \subseteq StaleBlockingMbox'
    PROVE  MailboxesOwned'
<1>1. mutex' = mutex /\ blockingMbox' = blockingMbox
  OBVIOUS
<1> QED BY <1>1 DEF MailboxesOwned, IsOpen

LEMMA InitOwned == Init => MailboxesOwned
BY MailboxAssumption, SemaphoreAssumption
   DEF Init, SemInit, MailboxesOwned, IsOpen, NewBox, Boxes, semsMutex, EMPTY

(* initSem takes mailboxes that were closed.  Nobody else is in the table, *)
(* so every mailbox whose id is there is open: no semaphore has these.     *)
LEMMA CreateOwned ==
    ASSUME TypeOK, QueuesOK, MailboxesOwned, SemsMutexExclusion, NEW p \in Procs,
           initSemMutex(p) \/ initSemBlocking(p)
    PROVE  MailboxesOwned'
<1>1. sem[p] \in Slots
  BY OnSlotLemma DEF initSemMutex, initSemBlocking, At, Steps, CreateSteps
<1>2. StaleMutex = {} /\ StaleBlockingMbox = {}
  <2>1. HoldsTable(p) /\ pc[p] \in {"c_mutex", "c_block"}
    BY DEF initSemMutex, initSemBlocking, At, HoldsTable, TableSteps
  <2>2. ASSUME NEW q \in Procs, At(q, "f_nomutex") \/ At(q, "f_noblock")
        PROVE  FALSE
    <3>1. HoldsTable(q)
      BY <2>2 DEF At, HoldsTable, TableSteps
    <3>2. q = p
      BY <2>1, <3>1 DEF SemsMutexExclusion
    <3> QED BY <2>1, <2>2, <3>2 DEF At
  <2> QED BY <2>2 DEF StaleMutex, StaleBlockingMbox
<1>3. ASSUME NEW slots \in Nat, NEW id, MboxCreate(slots, id),
             \/ /\ mutex' = [mutex EXCEPT ![sem[p]] = id]
                /\ UNCHANGED blockingMbox
             \/ /\ blockingMbox' = [blockingMbox EXCEPT ![sem[p]] = id]
                /\ UNCHANGED mutex
      PROVE  MailboxesOwned'
  <2>1. \/ id = EMPTY /\ mbox' = mbox
        \/ /\ id \in Boxes /\ ~mbox[id].open /\ mbox'[id].open
           /\ \A c \in Boxes \ {id} : mbox'[c] = mbox[c]
    BY <1>3, CreateEffect DEF TypeOK
  <2>2. EMPTY \notin Boxes /\ semsMutex \in Boxes
    BY MailboxAssumption, SemaphoreAssumption DEF Boxes, EMPTY, semsMutex
  <2>3. \A c \in Boxes : mbox[c].open => mbox'[c].open
    BY <2>1
  <2>4. id # semsMutex /\ (id # EMPTY => id \in Boxes /\ ~mbox[id].open)
    BY <2>1, <2>2 DEF MailboxesOwned, IsOpen
  <2>5. \A h \in Slots : id = mutex[h] \/ id = blockingMbox[h] => id = EMPTY
    BY <1>2, <2>4 DEF MailboxesOwned, IsOpen
  <2>6. id # EMPTY => mbox'[id].open
    BY <2>1
  <2>7. \A c : c # EMPTY /\ IsOpen(c) => IsOpen(c)'
    BY <2>3 DEF IsOpen
  <2>8. id # EMPTY => IsOpen(id)'
    BY <2>4, <2>6 DEF IsOpen
  <2>9. /\ IsOpen(semsMutex)'
        /\ \A h \in Slots :
            /\ mutex'[h] # EMPTY => IsOpen(mutex[h])'
            /\ blockingMbox'[h] # EMPTY => IsOpen(blockingMbox[h])'
    BY <1>1, <1>2, <1>3, <2>2, <2>7, <2>8 DEF MailboxesOwned, TypeOK
  <2> QED BY <1>1, <1>3, <2>4, <2>5, <2>9 DEF MailboxesOwned, TypeOK
<1> QED BY <1>3 DEF initSemMutex, initSemBlocking

(* freeSem closes mailboxes that no other semaphore has, and says so as    *)
(* long as their ids are in the table.                                     *)
LEMMA FreeOwned ==
    ASSUME TypeOK, QueuesOK, MailboxesOwned, NEW p \in Procs, Alone(p),
           freeSemMutex(p) \/ freeSemBlocking(p)
    PROVE  MailboxesOwned'
<1>1. sem[p] \in Slots
  BY OnSlotLemma DEF freeSemMutex, freeSemBlocking, At, Steps, FreeSteps
<1>2. /\ UNCHANGED <<mutex, blockingMbox, sem>>
      /\ StaleMutex \subseteq StaleMutex'
      /\ StaleBlockingMbox \subseteq StaleBlockingMbox'
  BY StaleKept DEF freeSemMutex, freeSemBlocking, At, tableVars
<1>3. p \in ready /\ p \in ready'
  BY ReadyKept DEF freeSemMutex, freeSemBlocking, MboxRelease, mailboxVars, At
<1>4. PICK b \in {mutex[sem[p]], blockingMbox[sem[p]]} :
        /\ \A c \in Boxes \ {b} : mbox'[c] = mbox[c]
        /\ \/ b = mutex[sem[p]] /\ sem[p] \in StaleMutex'
           \/ b = blockingMbox[sem[p]] /\ sem[p] \in StaleBlockingMbox'
  <2>1. CASE freeSemMutex(p)
    <3>1. At(p, "f_nomutex")' /\ sem'[p] = sem[p]
      BY <1>2, <1>3, <2>1 DEF freeSemMutex, At, Goto, TypeOK
    <3>2. sem[p] \in StaleMutex'
      BY <1>2, <3>1 DEF StaleMutex
    <3>3. \A c \in Boxes \ {mutex[sem[p]]} : mbox'[c] = mbox[c]
      BY <2>1, ReleaseEffect DEF freeSemMutex, TypeOK
    <3> QED BY <3>2, <3>3
  <2>2. CASE freeSemBlocking(p)
    <3>1. At(p, "f_noblock")' /\ sem'[p] = sem[p]
      BY <1>2, <1>3, <2>2 DEF freeSemBlocking, At, Goto, TypeOK
    <3>2. sem[p] \in StaleBlockingMbox'
      BY <1>2, <3>1 DEF StaleBlockingMbox
    <3>3. \A c \in Boxes \ {blockingMbox[sem[p]]} : mbox'[c] = mbox[c]
      BY <2>2, ReleaseEffect DEF freeSemBlocking, TypeOK
    <3> QED BY <3>2, <3>3
  <2> QED BY <2>1, <2>2
<1>5. \A c : IsOpen(c) /\ c # b => IsOpen(c)'
  BY <1>4 DEF IsOpen
<1>6. IsOpen(semsMutex)'
  BY <1>1, <1>4, <1>5 DEF MailboxesOwned
<1>7. mutex' = mutex /\ blockingMbox' = blockingMbox
  BY <1>2
<1>8. \A h \in Slots :
        /\ mutex[h] # EMPTY => \/ mutex[h] \in Boxes /\ mbox'[mutex[h]].open
                              \/ h \in StaleMutex'
        /\ blockingMbox[h] # EMPTY =>
              \/ blockingMbox[h] \in Boxes /\ mbox'[blockingMbox[h]].open
              \/ h \in StaleBlockingMbox'
  <2> TAKE h \in Slots
  <2>1. /\ mutex[h] # EMPTY =>
            \/ mutex[h] \in Boxes /\ mbox[mutex[h]].open
            \/ h \in StaleMutex'
        /\ blockingMbox[h] # EMPTY =>
            \/ blockingMbox[h] \in Boxes /\ mbox[blockingMbox[h]].open
            \/ h \in StaleBlockingMbox'
    BY <1>2 DEF MailboxesOwned, IsOpen
  <2>2. /\ mutex[h] # EMPTY /\ mutex[h] = b => h \in StaleMutex'
        /\ blockingMbox[h] # EMPTY /\ blockingMbox[h] = b => h \in StaleBlockingMbox'
    <3>1. CASE h = sem[p]
      BY <1>4, <3>1 DEF MailboxesOwned
    <3>2. CASE h # sem[p]
      BY <1>1, <1>4, <3>2 DEF MailboxesOwned
    <3> QED BY <3>1, <3>2
  <2> QED BY <1>4, <2>1, <2>2
<1> QED BY <1>6, <1>7, <1>8 DEF MailboxesOwned, IsOpen

(* The assignment after the release takes the id out.                      *)
LEMMA IdOwned ==
    ASSUME TypeOK, QueuesOK, MailboxesOwned, NEW p \in Procs, Alone(p),
           freeSemMutexId(p) \/ freeSemBlockingId(p)
    PROVE  MailboxesOwned'
<1>1. sem[p] \in Slots
  BY OnSlotLemma DEF freeSemMutexId, freeSemBlockingId, At, Steps, FreeSteps
<1>2. /\ mbox' = mbox /\ sem' = sem
      /\ \A h \in Slots : /\ mutex'[h] \in {mutex[h], EMPTY}
                         /\ blockingMbox'[h] \in {blockingMbox[h], EMPTY}
  BY DEF freeSemMutexId, freeSemBlockingId, mailboxVars, TypeOK
<1>3. \A b : IsOpen(b)' <=> IsOpen(b)
  BY <1>2 DEF IsOpen
<1>4. \A h \in Slots :
        /\ mutex'[h] # EMPTY => mutex[h] # EMPTY /\ (h \in StaleMutex => h \in StaleMutex')
        /\ blockingMbox'[h] # EMPTY =>
             /\ blockingMbox[h] # EMPTY
             /\ h \in StaleBlockingMbox => h \in StaleBlockingMbox'
  <2> TAKE h \in Slots
  <2>1. mutex'[h] # EMPTY =>
            mutex[h] # EMPTY /\ ~(At(p, "f_nomutex") /\ sem[p] = h)
    <3>1. CASE freeSemMutexId(p)
      <4>1. mutex' = [mutex EXCEPT ![sem[p]] = EMPTY]
        BY <3>1 DEF freeSemMutexId
      <4> QED BY <1>2, <4>1 DEF TypeOK
    <3>2. CASE freeSemBlockingId(p)
      BY <1>2, <3>2 DEF freeSemBlockingId, At
    <3> QED BY <3>1, <3>2
  <2>2. blockingMbox'[h] # EMPTY =>
            blockingMbox[h] # EMPTY /\ ~(At(p, "f_noblock") /\ sem[p] = h)
    <3>1. CASE freeSemBlockingId(p)
      <4>1. blockingMbox' = [blockingMbox EXCEPT ![sem[p]] = EMPTY]
        BY <3>1 DEF freeSemBlockingId
      <4> QED BY <1>2, <4>1 DEF TypeOK
    <3>2. CASE freeSemMutexId(p)
      BY <1>2, <3>2 DEF freeSemMutexId, At
    <3> QED BY <3>1, <3>2
  <2>3. ASSUME mutex'[h] # EMPTY, h \in StaleMutex
        PROVE  h \in StaleMutex'
    <3>1. PICK q \in Procs : At(q, "f_nomutex") /\ sem[q] = h
      BY <2>3 DEF StaleMutex
    <3>2. q # p
      BY <2>1, <2>3, <3>1
    <3>3. At(q, "f_nomutex")' /\ sem'[q] = h
      BY <1>2, <3>1, <3>2 DEF Alone, At
    <3> QED BY <3>3 DEF StaleMutex
  <2>4. ASSUME blockingMbox'[h] # EMPTY, h \in StaleBlockingMbox
        PROVE  h \in StaleBlockingMbox'
    <3>1. PICK q \in Procs : At(q, "f_noblock") /\ sem[q] = h
      BY <2>4 DEF StaleBlockingMbox
    <3>2. q # p
      BY <2>2, <2>4, <3>1
    <3>3. At(q, "f_noblock")' /\ sem'[q] = h
      BY <1>2, <3>1, <3>2 DEF Alone, At
    <3> QED BY <3>3 DEF StaleBlockingMbox
  <2> QED BY <2>1, <2>2, <2>3, <2>4
<1>5. \A h \in Slots :
        /\ mutex'[h] # EMPTY =>
             /\ mutex'[h] = mutex[h]
             /\ IsOpen(mutex'[h]) \/ h \in StaleMutex'
        /\ blockingMbox'[h] # EMPTY =>
             /\ blockingMbox'[h] = blockingMbox[h]
             /\ IsOpen(blockingMbox'[h]) \/ h \in StaleBlockingMbox'
  BY <1>2, <1>4 DEF MailboxesOwned
<1>6. EMPTY # semsMutex
  BY DEF EMPTY, semsMutex
<1> QED BY <1>2, <1>3, <1>5, <1>6 DEF MailboxesOwned

LEMMA NextOwned ==
    ASSUME TypeOK, QueuesOK, MailboxesOwned, SemsMutexExclusion, [Next]_vars
    PROVE  MailboxesOwned'
<1> USE DEF TypeOK
<1>1. ASSUME UNCHANGED <<mailboxVars, mutex, blockingMbox, pc, sem>>
      PROVE  MailboxesOwned'
  <2>1. StaleMutex' = StaleMutex /\ StaleBlockingMbox' = StaleBlockingMbox
    BY <1>1 DEF StaleMutex, StaleBlockingMbox, At, mailboxVars
  <2> QED BY <1>1, <2>1, OwnedKept DEF mailboxVars
<1>2. CASE \/ UNCHANGED vars
           \/ \E p \in Procs : Zap(p)
  BY <1>1, <1>2 DEF Zap, vars, tableVars
<1>3. ASSUME NEW p \in Procs, SystemCall(p)
      PROVE  MailboxesOwned'
  <2>1. /\ pc[p] = "user"
        /\ UNCHANGED <<mailboxVars, mutex, blockingMbox>>
    BY <1>3 DEF SystemCall, semCreate, semP, semV, semFree, EnterHandler, At, tableVars
  <2> QED BY <1>3, <2>1, AloneLemma, StaleKept, OwnedKept DEF mailboxVars
<1>4. ASSUME NEW p \in Procs, HandlerStep(p)
      PROVE  MailboxesOwned'
  <2>1. Alone(p)
    BY <1>4, AloneLemma
  <2>2. ASSUME UNCHANGED <<mutex, blockingMbox>>,
               \A c \in Boxes : mbox'[c].open = mbox[c].open,
               pc[p] \notin {"f_nomutex", "f_noblock"}
        PROVE  MailboxesOwned'
    BY <2>1, <2>2, StaleKept, OwnedKept
  <2>3. \A l \in LockSteps \cup UnlockSteps \cup MutexArgSteps \cup BlockingArgSteps
                 \cup RetSteps : l \notin {"f_nomutex", "f_noblock"}
    BY DEF LockSteps, UnlockSteps, MutexArgSteps, BlockingArgSteps, RetSteps
  <2>4. CASE Lock(p) \/ semPBlock(p)
    BY <2>2, <2>3, <2>4, SendEffect DEF Lock, semPBlock, Affects, tableVars, At
  <2>5. CASE Unlock(p)
    BY <2>2, <2>3, <2>5, ReceiveEffect DEF Unlock, Affects, tableVars, At
  <2>6. CASE semVWake(p) \/ freeSemProbe(p)
    <3>1. PICK b : MboxCondReceive(b)
      BY <2>6 DEF semVWake, freeSemProbe
    <3>2. UNCHANGED <<mutex, blockingMbox>> /\ pc[p] \in {"v_wake", "f_probe"}
      BY <2>6 DEF semVWake, freeSemProbe, tableVars, At
    <3> QED BY <2>2, <3>1, <3>2, CondReceiveEffect DEF Affects
  <2>7. CASE initSemMutex(p) \/ initSemBlocking(p)
    BY <2>7, CreateOwned
  <2>8. CASE freeSemMutex(p) \/ freeSemBlocking(p)
    BY <2>1, <2>8, FreeOwned
  <2>9. CASE freeSemMutexId(p) \/ freeSemBlockingId(p)
    BY <2>1, <2>9, IdOwned
  <2>10. CASE \/ ReadMutex(p) \/ ReadBlockingMbox(p) \/ Return(p)
              \/ getAvailableSemHandle(p) \/ initSemCount(p) \/ semCreateCount(p)
    BY <2>2, <2>3, <2>10
       DEF ReadMutex, ReadBlockingMbox, Return, getAvailableSemHandle,
           initSemCount, semCreateCount, mailboxVars, tableVars, At
  <2>11. CASE \/ semPTest(p) \/ semPDecrement(p) \/ semPCheck(p)
              \/ semVTest(p) \/ semVIncrement(p)
              \/ freeSemCount(p) \/ semFreeCount(p)
    BY <2>2, <2>11
       DEF semPTest, semPDecrement, semPCheck, semVTest, semVIncrement,
           freeSemCount, semFreeCount, mailboxVars, tableVars, At
  <2> QED BY <1>4, <2>4, <2>5, <2>6, <2>7, <2>8, <2>9, <2>10, <2>11 DEF HandlerStep
<1> QED BY <1>2, <1>3, <1>4 DEF Next

----------------------------------------------------------------------------
(* The mutual exclusion on the table.                                      *)

LEMMA SidesLemma ==
    /\ TableSteps \subseteq TableSide
    /\ TableSide \cap OtherSide = {}
    /\ \A l \in LockSteps :
        \/ l \in {"c_lock", "f_lock"} /\ After[l] \in TableSteps
        \/ l \in OtherSide /\ After[l] \in OtherSide
    /\ \A l \in UnlockSteps :
        /\ After[l] \notin TableSide
        /\ \/ l \in TableSteps /\ After[l] \notin OtherSide
           \/ l \in OtherSide
    /\ \A l \in MutexArgSteps \cup BlockingArgSteps : After[l] \in OtherSide
    /\ \A l \in {"c_ret", "p_ret", "v_ret", "f_ret"} : l \notin TableSide
BY DEF TableSide, OtherSide, TableSteps, PSteps, VSteps, LockSteps, UnlockSteps,
       MutexArgSteps, BlockingArgSteps, After

LEMMA WaitingLemma ==
    ASSUME TypeOK, QueuesOK, NEW b \in Boxes
    PROVE  Waiting(b) \subseteq Procs /\ Waiting(b) \cap ready = {}
<1>1. mbox[b].senders \in Seq(Procs) /\ mbox[b].receivers \in Seq(Procs)
  BY DEF TypeOK, MailboxTypeOK, Mailbox
<1> QED BY <1>1 DEF Waiting, Members, QueuesOK

(* A step of p: only p goes to another step or mailbox, and only p begins  *)
(* to wait, on the mailbox that it evaluated.                              *)
StepOf(p) ==
    /\ p \in ready
    /\ \A q \in Procs \ {p} : pc'[q] = pc[q] /\ box'[q] = box[q]
    /\ pc'[p] \in TableSide => box'[p] = semsMutex
    /\ pc'[p] \in OtherSide => box'[p] # semsMutex
    /\ \A c \in Boxes : \A q \in Waiting(c)' :
            q \in Waiting(c) \/ (q = p /\ c = box'[p])

LEMMA StepOfLemma ==
    ASSUME TypeOK, QueuesOK, LockInv, NEW p \in Procs, StepOf(p),
           mbox'[semsMutex].slots = 1,
           mbox'[semsMutex].used <= 1,
           mbox'[semsMutex].receivers = << >>,
           \A q \in Procs : HoldsTable(q)' => mbox'[semsMutex].used = 1,
           SemsMutexExclusion'
    PROVE  LockInv'
<1>1. \A b \in Boxes : \A q \in Waiting(b)' : box'[q] = b
  <2> TAKE b \in Boxes
  <2> TAKE q \in Waiting(b)'
  <2>1. CASE q \in Waiting(b)
    <3>1. q \in Procs \ {p} /\ box[q] = b
      BY <2>1, WaitingLemma DEF LockInv, StepOf
    <3> QED BY <3>1 DEF StepOf
  <2>2. CASE q = p /\ b = box'[p]
    BY <2>2
  <2> QED BY <2>1, <2>2 DEF StepOf
<1>2. \A q \in Procs :
        /\ pc'[q] \in TableSide => box'[q] = semsMutex
        /\ pc'[q] \in OtherSide => box'[q] # semsMutex
  BY DEF StepOf, LockInv
<1> QED BY <1>1, <1>2 DEF LockInv

(* A step that leaves the mailbox semsMutex alone and does not enter the   *)
(* table lets nobody else enter it.                                        *)
LEMMA AsideLemma ==
    ASSUME TypeOK, QueuesOK, LockInv, NEW p \in Procs, StepOf(p),
           mbox'[semsMutex] = mbox[semsMutex],
           \A q \in ready' \ ready :
                \E b \in Boxes \ {semsMutex} : q \in Waiting(b),
           pc'[p] \in TableSteps => pc[p] \in TableSteps
    PROVE  LockInv'
<1>1. ASSUME NEW q \in Procs, HoldsTable(q)'
      PROVE  HoldsTable(q)
  <2>1. pc[q] \in TableSteps /\ q \in ready'
    BY <1>1 DEF HoldsTable, StepOf
  <2>2. box[q] = semsMutex
    BY <2>1, SidesLemma DEF LockInv
  <2>3. q \in ready
    BY <2>1, <2>2 DEF LockInv
  <2> QED BY <2>1, <2>3 DEF HoldsTable
<1>2. /\ \A q \in Procs : HoldsTable(q)' => mbox'[semsMutex].used = 1
      /\ SemsMutexExclusion'
  BY <1>1 DEF LockInv, SemsMutexExclusion
<1> QED BY <1>2, StepOfLemma DEF LockInv

LEMMA InitLock == Init => LockInv
<1> SUFFICES ASSUME Init PROVE LockInv
  OBVIOUS
<1>1. semsMutex \in Boxes
  BY MailboxAssumption, SemaphoreAssumption DEF Boxes, semsMutex
<1>2. mbox[semsMutex] = NewBox(1)
  BY <1>1 DEF Init, SemInit
<1>3. \A b \in Boxes : Waiting(b) = {}
  BY DEF Init, SemInit, NewBox, ClosedBox, Waiting, Members
<1>4. \A p \in Procs : pc[p] \notin TableSide /\ box[p] # semsMutex
  <2>1. "user" \notin TableSide /\ EMPTY # semsMutex
    BY DEF TableSide, TableSteps, semsMutex, EMPTY
  <2> QED BY <2>1 DEF Init, SemInit
<1>5. \A p \in Procs : ~HoldsTable(p)
  BY <1>4, SidesLemma DEF HoldsTable
<1> QED BY <1>2, <1>3, <1>4, <1>5 DEF LockInv, NewBox, SemsMutexExclusion

(* lock(semsMutex) and unlock(semsMutex).                                  *)
LEMMA TableLock ==
    ASSUME IInv, NEW p \in Procs, Lock(p)
    PROVE  LockInv'
<1> USE DEF IInv
<1>1. PICK l \in LockSteps :
        /\ At(p, l) /\ MboxSend(p, box[p]) /\ Goto(p, After[l]) /\ UNCHANGED box
  BY DEF Lock
<1>2. /\ pc'[p] = After[l] /\ pc[p] = l /\ p \in ready /\ box' = box
      /\ \A q \in Procs \ {p} : pc'[q] = pc[q]
      /\ Affects(box[p], {p})
  BY <1>1, SendEffect DEF At, Goto, TypeOK
<1>3. \A c \in Boxes : \A q \in Waiting(c)' :
            q \in Waiting(c) \/ (q = p /\ c = box'[p])
  BY <1>2 DEF Affects
<1>4. semsMutex \in Boxes /\ IsOpen(semsMutex)
  BY DEF MailboxesOwned, IsOpen
<1>5. CASE l \in {"c_lock", "f_lock"} /\ After[l] \in TableSteps
  <2>1. box[p] = semsMutex
    BY <1>2, <1>5 DEF LockInv, TableSide
  <2>2. StepOf(p)
    BY <1>2, <1>3, <1>5, <2>1, SidesLemma DEF StepOf
  <2>3. /\ mbox'[semsMutex].slots = mbox[semsMutex].slots
        /\ mbox'[semsMutex].receivers = << >>
        /\ \/ /\ mbox[semsMutex].used < mbox[semsMutex].slots
              /\ mbox'[semsMutex].used = mbox[semsMutex].used + 1
              /\ ready' = ready
           \/ /\ mbox[semsMutex].used >= mbox[semsMutex].slots
              /\ mbox'[semsMutex].used = mbox[semsMutex].used
              /\ ready' = ready \ {p}
    BY <1>1, <1>4, <2>1, SendEffect DEF LockInv, TypeOK
  <2>4. mbox[semsMutex].used \in Nat
    BY <1>4 DEF TypeOK, MailboxTypeOK, Mailbox
  <2>5. \A q \in Procs : HoldsTable(q)' => HoldsTable(q) \/ q = p
    BY <1>2, <2>3 DEF HoldsTable
  <2>6. CASE mbox[semsMutex].used < mbox[semsMutex].slots
    <3>1. \A q \in Procs : HoldsTable(q)' => q = p
      BY <2>4, <2>5, <2>6 DEF LockInv
    <3>2. mbox'[semsMutex].used = 1
      BY <1>2, <1>5, <2>3, <2>4, <2>6 DEF LockInv, HoldsTable
    <3>3. SemsMutexExclusion'
      BY <3>1 DEF SemsMutexExclusion
    <3> QED BY <2>2, <2>3, <3>2, <3>3, StepOfLemma DEF LockInv
  <2>7. CASE ready' = ready \ {p} /\ mbox'[semsMutex].used = mbox[semsMutex].used
    <3>1. \A q \in Procs : HoldsTable(q)' => HoldsTable(q)
      BY <2>5, <2>7 DEF HoldsTable
    <3>2. SemsMutexExclusion'
      BY <3>1 DEF LockInv, SemsMutexExclusion
    <3> QED BY <2>2, <2>3, <2>7, <3>1, <3>2, StepOfLemma DEF LockInv
  <2> QED BY <2>3, <2>6, <2>7
<1>6. CASE l \in OtherSide /\ After[l] \in OtherSide
  <2>1. box[p] # semsMutex
    BY <1>2, <1>6 DEF LockInv
  <2>2. StepOf(p)
    BY <1>2, <1>3, <1>6, <2>1, SidesLemma DEF StepOf
  <2>3. /\ mbox'[semsMutex] = mbox[semsMutex]
        /\ \A q \in ready' \ ready :
                \E b \in Boxes \ {semsMutex} : q \in Waiting(b)
    BY <1>2, <1>4, <2>1 DEF Affects
  <2> QED BY <1>2, <1>6, <2>2, <2>3, SidesLemma, AsideLemma
<1> QED BY <1>5, <1>6, SidesLemma

LEMMA TableUnlock ==
    ASSUME IInv, NEW p \in Procs, Unlock(p)
    PROVE  LockInv'
<1> USE DEF IInv
<1>1. PICK l \in UnlockSteps :
        /\ At(p, l) /\ MboxReceive(p, box[p]) /\ Goto(p, After[l]) /\ UNCHANGED box
  BY DEF Unlock
<1>2. /\ pc'[p] = After[l] /\ pc[p] = l /\ p \in ready /\ box' = box
      /\ \A q \in Procs \ {p} : pc'[q] = pc[q]
      /\ Affects(box[p], {p})
  BY <1>1, ReceiveEffect DEF At, Goto, TypeOK
<1>3. \A c \in Boxes : \A q \in Waiting(c)' :
            q \in Waiting(c) \/ (q = p /\ c = box'[p])
  BY <1>2 DEF Affects
<1>4. semsMutex \in Boxes /\ IsOpen(semsMutex)
  BY DEF MailboxesOwned, IsOpen
<1>5. CASE l \in TableSteps /\ After[l] \notin OtherSide
  <2>1. box[p] = semsMutex /\ HoldsTable(p)
    BY <1>2, <1>5, SidesLemma DEF LockInv, HoldsTable
  <2>2. StepOf(p)
    BY <1>2, <1>3, <1>5, SidesLemma DEF StepOf
  <2>3. mbox[semsMutex].used = 1 /\ HasMessage(semsMutex)
    BY <1>4, <2>1 DEF LockInv, HasMessage
  <2>4. TakeMessage(semsMutex)
    BY <1>1, <1>4, <2>1, <2>3 DEF MboxReceive
  <2>5. /\ mbox'[semsMutex].slots = mbox[semsMutex].slots
        /\ mbox'[semsMutex].receivers = mbox[semsMutex].receivers
        /\ \/ /\ mbox'[semsMutex].used = mbox[semsMutex].used
              /\ ready' = ready \cup {Head(mbox[semsMutex].senders)}
           \/ /\ mbox'[semsMutex].used = mbox[semsMutex].used - 1
              /\ ready' = ready
    BY <2>3, <2>4, TakeEffect DEF TypeOK
  <2>6. \A q \in Procs : HoldsTable(q)' => q \notin ready
    <3>1. \A q \in Procs : HoldsTable(q)' => q # p /\ pc[q] \in TableSteps
      BY <1>2, SidesLemma DEF HoldsTable
    <3> QED BY <2>1, <3>1 DEF HoldsTable, LockInv, SemsMutexExclusion
  <2>7. CASE /\ mbox'[semsMutex].used = mbox[semsMutex].used
             /\ ready' = ready \cup {Head(mbox[semsMutex].senders)}
    <3>1. SemsMutexExclusion'
      BY <2>6, <2>7 DEF SemsMutexExclusion, HoldsTable
    <3> QED BY <2>2, <2>3, <2>5, <2>7, <3>1, StepOfLemma DEF LockInv
  <2>8. CASE /\ mbox'[semsMutex].used = mbox[semsMutex].used - 1
             /\ ready' = ready
    <3>1. \A q \in Procs : ~HoldsTable(q)'
      BY <2>6, <2>8 DEF HoldsTable
    <3> QED BY <2>2, <2>3, <2>5, <2>8, <3>1, StepOfLemma
            DEF LockInv, SemsMutexExclusion
  <2> QED BY <2>5, <2>7, <2>8
<1>6. CASE l \in OtherSide
  <2>1. box[p] # semsMutex
    BY <1>2, <1>6 DEF LockInv
  <2>2. StepOf(p)
    BY <1>2, <1>3, <2>1, SidesLemma DEF StepOf
  <2>3. /\ mbox'[semsMutex] = mbox[semsMutex]
        /\ \A q \in ready' \ ready :
                \E b \in Boxes \ {semsMutex} : q \in Waiting(b)
    BY <1>2, <1>4, <2>1 DEF Affects
  <2>4. pc'[p] \notin TableSteps
    BY <1>2, SidesLemma
  <2> QED BY <2>2, <2>3, <2>4, AsideLemma
<1> QED BY <1>5, <1>6, SidesLemma

(* A step of p that does not touch the mailbox semsMutex.                  *)
MailAside(p) ==
    /\ mbox'[semsMutex] = mbox[semsMutex]
    /\ \A c \in Boxes : \A q \in Waiting(c)' :
            q \in Waiting(c) \/ (q = p /\ c = box[p])
    /\ \A q \in ready' \ ready :
            \E b \in Boxes \ {semsMutex} : q \in Waiting(b)

LEMMA SemsMutexOpen ==
    ASSUME MailboxesOwned
    PROVE  semsMutex \in Boxes /\ mbox[semsMutex].open
BY DEF MailboxesOwned, IsOpen

LEMMA StutterAside ==
    ASSUME NEW p, UNCHANGED mailboxVars
    PROVE  MailAside(p)
BY DEF MailAside, mailboxVars, Waiting

LEMMA OperationAside ==
    ASSUME MailboxesOwned, NEW p, NEW b, NEW W, Affects(b, W), b # semsMutex,
           W = {} \/ (W = {p} /\ b = box[p])
    PROVE  MailAside(p)
BY SemsMutexOpen DEF MailAside, Affects

\* The process stays on its side of the table, or leaves the handlers.
LEMMA SameBoxLemma ==
    ASSUME IInv, NEW p \in Procs, NEW l, NEW m, At(p, l), Goto(p, m), box' = box,
           MailAside(p),
           \/ l \in TableSteps /\ m \in TableSteps
           \/ l \in OtherSide /\ m \in OtherSide
           \/ m \notin TableSide \cup OtherSide
    PROVE  LockInv'
<1> USE DEF IInv
<1>1. /\ pc[p] = l /\ pc'[p] = m /\ p \in ready
      /\ \A q \in Procs \ {p} : pc'[q] = pc[q]
  BY DEF At, Goto, TypeOK
<1>2. /\ pc'[p] \in TableSide => box'[p] = semsMutex
      /\ pc'[p] \in OtherSide => box'[p] # semsMutex
      /\ pc'[p] \in TableSteps => pc[p] \in TableSteps
  BY <1>1, SidesLemma DEF LockInv
<1>3. StepOf(p)
  BY <1>1, <1>2 DEF StepOf, MailAside
<1> QED BY <1>2, <1>3, AsideLemma DEF MailAside

\* The process evaluates another mailbox, or forgets the one it had.
LEMMA NewBoxLemma ==
    ASSUME IInv, NEW p \in Procs, NEW l, NEW m, NEW b, At(p, l), Goto(p, m),
           box' = [box EXCEPT ![p] = b],
           UNCHANGED mailboxVars,
           m \notin TableSteps,
           m \in TableSide => b = semsMutex,
           m \in OtherSide => b # semsMutex
    PROVE  LockInv'
<1> USE DEF IInv
<1>1. /\ pc[p] = l /\ pc'[p] = m /\ p \in ready /\ box'[p] = b
      /\ \A q \in Procs \ {p} : pc'[q] = pc[q] /\ box'[q] = box[q]
  BY DEF At, Goto, TypeOK
<1>2. \A c : Waiting(c)' = Waiting(c)
  BY DEF mailboxVars, Waiting
<1>3. StepOf(p)
  BY <1>1, <1>2 DEF StepOf
<1>4. mbox' = mbox /\ ready' = ready
  BY DEF mailboxVars
<1> QED BY <1>1, <1>3, <1>4, AsideLemma

(* The steps of the handlers one after the other.                          *)
LEMMA TableSideSteps ==
    ASSUME IInv, NEW p \in Procs,
           \/ getAvailableSemHandle(p) \/ initSemCount(p) \/ initSemMutex(p)
           \/ initSemBlocking(p) \/ semCreateCount(p)
           \/ freeSemCount(p) \/ freeSemMutex(p) \/ freeSemMutexId(p)
           \/ freeSemProbe(p) \/ freeSemBlocking(p) \/ freeSemBlockingId(p)
           \/ semFreeCount(p)
    PROVE  LockInv'
<1> USE DEF IInv
<1>1. box' = box
  BY DEF getAvailableSemHandle, initSemCount, initSemMutex, initSemBlocking,
         semCreateCount, freeSemCount, freeSemMutex, freeSemMutexId, freeSemProbe,
         freeSemBlocking, freeSemBlockingId, semFreeCount
<1>2. ASSUME NEW slots \in Nat, NEW id, MboxCreate(slots, id)
      PROVE  MailAside(p)
  BY <1>2, CreateEffect, SemsMutexOpen DEF MailAside, TypeOK
<1>3. ASSUME NEW b, b # semsMutex, MboxRelease(b)
      PROVE  MailAside(p)
  BY <1>3, ReleaseEffect, SemsMutexOpen DEF MailAside, TypeOK
<1>4. ASSUME NEW b, b # semsMutex, MboxCondReceive(b)
      PROVE  MailAside(p)
  BY <1>4, CondReceiveEffect, OperationAside DEF TypeOK
<1>5. pc[p] \in FreeSteps \ {"f_lock", "f_ret"} =>
        mutex[sem[p]] # semsMutex /\ blockingMbox[sem[p]] # semsMutex
  BY OnSlotLemma DEF Steps, MailboxesOwned, FreeSteps
<1>6. MailAside(p)
  <2>1. CASE \/ getAvailableSemHandle(p) \/ initSemCount(p) \/ semCreateCount(p)
             \/ freeSemCount(p) \/ freeSemMutexId(p) \/ freeSemBlockingId(p)
             \/ semFreeCount(p)
    BY <2>1, StutterAside DEF getAvailableSemHandle, initSemCount, semCreateCount,
                              freeSemCount, freeSemMutexId, freeSemBlockingId,
                              semFreeCount
  <2>2. CASE initSemMutex(p) \/ initSemBlocking(p)
    BY <2>2, <1>2 DEF initSemMutex, initSemBlocking
  <2>3. CASE freeSemMutex(p)
    BY <2>3, <1>3, <1>5 DEF freeSemMutex, At, FreeSteps
  <2>4. CASE freeSemProbe(p)
    BY <2>4, <1>4, <1>5 DEF freeSemProbe, At, FreeSteps
  <2>5. CASE freeSemBlocking(p)
    BY <2>5, <1>3, <1>5 DEF freeSemBlocking, At, FreeSteps
  <2> QED BY <2>1, <2>2, <2>3, <2>4, <2>5
<1>7. \E l \in TableSteps, m \in TableSteps \cup {"undefined"} :
        At(p, l) /\ Goto(p, m)
  BY DEF getAvailableSemHandle, initSemCount, initSemMutex, initSemBlocking,
         semCreateCount, freeSemCount, freeSemMutex, freeSemMutexId, freeSemProbe,
         freeSemBlocking, freeSemBlockingId, semFreeCount, TableSteps
<1>8. "undefined" \notin TableSide \cup OtherSide
  BY DEF TableSide, OtherSide, TableSteps, PSteps, VSteps
<1> QED BY <1>1, <1>6, <1>7, <1>8, SameBoxLemma

LEMMA OtherSideSteps ==
    ASSUME IInv, NEW p \in Procs,
           \/ semPTest(p) \/ semPDecrement(p) \/ semPBlock(p)
           \/ semVTest(p) \/ semVWake(p) \/ semVIncrement(p)
    PROVE  LockInv'
<1> USE DEF IInv
<1>1. box' = box
  BY DEF semPTest, semPDecrement, semPBlock, semVTest, semVWake, semVIncrement
<1>2. \E l \in OtherSide, m \in OtherSide : At(p, l) /\ Goto(p, m)
  BY DEF semPTest, semPDecrement, semPBlock, semVTest, semVWake, semVIncrement,
         OtherSide, PSteps, VSteps
<1>3. box[p] # semsMutex
  BY <1>2 DEF At, LockInv
<1>4. MailAside(p)
  <2>1. CASE semPTest(p) \/ semPDecrement(p) \/ semVTest(p) \/ semVIncrement(p)
    BY <2>1, StutterAside DEF semPTest, semPDecrement, semVTest, semVIncrement
  <2>2. CASE semPBlock(p)
    BY <2>2, <1>3, SendEffect, OperationAside DEF semPBlock, TypeOK
  <2>3. CASE semVWake(p)
    BY <2>3, <1>3, CondReceiveEffect, OperationAside DEF semVWake, TypeOK
  <2> QED BY <2>1, <2>2, <2>3
<1> QED BY <1>1, <1>2, <1>4, SameBoxLemma

LEMMA OutsideSteps ==
    ASSUME IInv, NEW p \in Procs,
           \/ ReadMutex(p) \/ ReadBlockingMbox(p) \/ Return(p) \/ semPCheck(p)
    PROVE  LockInv'
<1> USE DEF IInv
<1>1. /\ EMPTY # semsMutex
      /\ {"quit", "user"} \subseteq OtherSide \ TableSide
      /\ "p_check" \in OtherSide /\ "p_ret" \in OtherSide
  BY DEF EMPTY, semsMutex, TableSide, OtherSide, TableSteps, PSteps, VSteps
<1>2. CASE ReadMutex(p) \/ ReadBlockingMbox(p)
  <2>1. PICK l \in MutexArgSteps \cup BlockingArgSteps,
                 b \in {mutex[sem[p]], blockingMbox[sem[p]]} :
            /\ At(p, l) /\ Goto(p, After[l])
            /\ box' = [box EXCEPT ![p] = b]
            /\ UNCHANGED mailboxVars
    BY <1>2 DEF ReadMutex, ReadBlockingMbox
  <2>2. sem[p] \in Slots
    BY <2>1, StepsLemma, OnSlotLemma DEF At
  <2>3. b # semsMutex
    BY <2>1, <2>2 DEF MailboxesOwned
  <2>4. After[l] \in OtherSide
    BY <2>1, SidesLemma
  <2> QED BY <2>1, <2>3, <2>4, SidesLemma, NewBoxLemma
<1>3. CASE Return(p)
  <2>1. PICK l \in RetSteps, m \in {"quit", "user"} : At(p, l) /\ Goto(p, m)
    BY <1>3 DEF Return
  <2>2. box' = [box EXCEPT ![p] = EMPTY] /\ UNCHANGED mailboxVars
    BY <1>3 DEF Return
  <2> QED BY <1>1, <2>1, <2>2, SidesLemma, NewBoxLemma
<1>4. CASE semPCheck(p)
  <2>1. CASE Goto(p, "quit") /\ box' = [box EXCEPT ![p] = EMPTY]
    BY <1>1, <1>4, <2>1, SidesLemma, NewBoxLemma DEF semPCheck
  <2>2. CASE Goto(p, "p_ret") /\ box' = box
    BY <1>1, <1>4, <2>2, StutterAside, SameBoxLemma DEF semPCheck
  <2> QED BY <1>4, <2>1, <2>2 DEF semPCheck
<1> QED BY <1>2, <1>3, <1>4

LEMMA CallSteps ==
    ASSUME IInv, NEW p \in Procs, SystemCall(p)
    PROVE  LockInv'
<1> USE DEF IInv
<1>1. /\ {"c_lock", "f_lock"} \subseteq TableSide \ TableSteps
      /\ {"user", "p_arg1", "v_arg1"} \subseteq OtherSide
      /\ "undefined" \notin TableSide \cup OtherSide
  BY DEF TableSide, OtherSide, TableSteps, PSteps, VSteps
<1>2. At(p, "user") /\ UNCHANGED mailboxVars
  BY DEF SystemCall, semCreate, semP, semV, semFree, EnterHandler
<1>3. CASE UNCHANGED <<pc, box>>
  <2>1. Goto(p, "user")
    BY <1>2, <1>3 DEF At, Goto, TypeOK
  <2> QED BY <1>1, <1>2, <1>3, <2>1, StutterAside, SameBoxLemma
<1>4. CASE Goto(p, "c_lock") /\ box' = [box EXCEPT ![p] = semsMutex]
  BY <1>1, <1>2, <1>4, SidesLemma, NewBoxLemma
<1>5. CASE Goto(p, "f_lock") /\ box' = [box EXCEPT ![p] = semsMutex]
  BY <1>1, <1>2, <1>5, SidesLemma, NewBoxLemma
<1>6. CASE /\ Goto(p, "p_arg1") \/ Goto(p, "v_arg1") \/ Goto(p, "undefined")
           /\ box' = box
  BY <1>1, <1>2, <1>6, StutterAside, SameBoxLemma
<1>7. \A l : Goto(p, l) => pc'[p] = l
  BY DEF Goto, TypeOK
<1>8. pc[p] # "f_lock"
  BY <1>2 DEF At
<1>9. ASSUME NEW v, semCreate(p, v)
      PROVE  LockInv'
  BY <1>9, <1>3, <1>4 DEF semCreate
<1>10. ASSUME NEW h, semP(p, h) \/ semV(p, h)
       PROVE  LockInv'
  BY <1>10, <1>3, <1>6 DEF semP, semV, EnterHandler
<1>11. ASSUME NEW h, semFree(p, h)
       PROVE  LockInv'
  <2>1. \/ Goto(p, "f_lock") \/ Goto(p, "undefined") \/ pc' = pc
    BY <1>11 DEF semFree, EnterHandler
  <2> QED BY <1>3, <1>5, <1>6, <1>7, <1>8, <1>11, <2>1 DEF semFree
<1> QED BY <1>9, <1>10, <1>11 DEF SystemCall

LEMMA NextInv == IInv /\ [Next]_vars => IInv'
<1> SUFFICES ASSUME IInv, [Next]_vars PROVE IInv'
  OBVIOUS
<1>1. ASSUME UNCHANGED <<mailboxVars, pc, box>>
      PROVE  LockInv'
  BY <1>1 DEF IInv, LockInv, mailboxVars, Waiting, SemsMutexExclusion, HoldsTable
<1>2. ASSUME NEW p \in Procs, HandlerStep(p)
      PROVE  LockInv'
  BY <1>2, TableLock, TableUnlock, TableSideSteps, OtherSideSteps, OutsideSteps
     DEF HandlerStep
<1>3. LockInv'
  <2>1. CASE UNCHANGED vars
    BY <1>1, <2>1 DEF vars
  <2>2. CASE \E p \in Procs : Zap(p)
    BY <1>1, <2>2 DEF Zap
  <2> QED BY <1>2, <2>1, <2>2, CallSteps DEF Next
<1> QED BY <1>3, NextTypes, NextOwned DEF IInv, LockInv

LEMMA InitInv == Init => IInv
BY InitTypes, InitOwned, InitLock DEF IInv

(* At no time are two processes inside semCreateReal or semFreeReal        *)
(* (src/phase3.c:698-702 and 784-787), however many processes call, are    *)
(* zapped or blocked, and whatever handles they pass.                      *)
THEOREM TableExclusion == Spec => []SemsMutexExclusion
<1>1. IInv => SemsMutexExclusion
  BY DEF IInv, LockInv
<1> QED BY <1>1, InitInv, NextInv, PTL DEF Spec

(* No semaphore ever has a mailbox of another one, nor semsMutex, and what *)
(* it has is open until freeSem has released it: initSem and freeSem       *)
(* (src/phase3utility.c:82-146) keep the table and the mailboxes together  *)
(* although phase 2 gives ids out again, any number of handlers run, and   *)
(* the processes that a release wakes up may run before the id is out of   *)
(* the table.  The lock keeps initSem away meanwhile.                      *)
THEOREM MailboxesStayOwned == Spec => []MailboxesOwned
<1>1. IInv => MailboxesOwned
  BY DEF IInv
<1> QED BY <1>1, InitInv, NextInv, PTL DEF Spec
=============================================================================
