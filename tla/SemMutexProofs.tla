-------------------------- MODULE SemMutexProofs --------------------------
(***************************************************************************)
(* Theorems about the semaphores of programs that free none of them, for   *)
(* every number of processes, slots and mailboxes: the mutual exclusion on *)
(* the count of a semaphore, and currentNumSems.                           *)
(***************************************************************************)
EXTENDS SemaphoreProofs, FiniteSetTheorems

(* What is assumed of the programs and of the mailbox table: nobody calls  *)
(* SemFree, handles come from SemCreate, and there are mailboxes for the   *)
(* whole semaphore table.  Without the first and second, the count of a    *)
(* semaphore changes under a mutex that is not there (any more, or yet);   *)
(* without the third, lock() locks nothing.                                *)
NothingFreed ==
    /\ "SemFree" \notin Calls
    /\ WildHandles = {}
    /\ MAXMBOX > 2 * MAXSEMS

\* The steps with the argument sem->mutex, and those with sem->blockingMbox.
OnMutexSteps == {"p_lock", "p_test", "p_unlock", "p_open",
                 "v_lock", "v_test", "v_unlock"}
OnBlockingSteps == {"p_block", "v_wake"}

\* The count that was read is still the count.
FreshSteps == {"p_dec", "v_arg2", "v_wake", "v_inc"}

(* How far p has got tells what there is of its semaphore.                 *)
ProcInv(p) ==
    /\ pc[p] \notin FreeSteps
    /\ pc[p] \in {"c_lock", "c_slot", "c_count"} => val[p] >= 0
    /\ pc[p] = "c_count" => count[sem[p]] = EMPTY
    /\ pc[p] \in {"c_mutex", "c_block", "c_num", "c_unlock", "c_ret"} =>
        count[sem[p]] # EMPTY
    /\ pc[p] = "c_mutex" => mutex[sem[p]] = EMPTY
    /\ pc[p] \in {"c_mutex", "c_block"} => blockingMbox[sem[p]] = EMPTY
    /\ pc[p] \in {"c_block", "c_num", "c_unlock", "c_ret"} =>
        mutex[sem[p]] # EMPTY
    /\ pc[p] \in {"c_num", "c_unlock", "c_ret"} => blockingMbox[sem[p]] # EMPTY
    /\ pc[p] \in PSteps \cup VSteps => sem[p] \in known
    /\ pc[p] \in OnMutexSteps => box[p] = mutex[sem[p]]
    /\ pc[p] \in OnBlockingSteps => box[p] = blockingMbox[sem[p]]
    /\ pc[p] \in FreshSteps => val[p] = count[sem[p]]
    /\ pc[p] = "p_dec" => val[p] > 0
    /\ pc[p] \in {"v_arg2", "v_wake"} => val[p] = 0
    /\ p \notin ready =>
        \/ pc[p] \in {"c_slot", "p_test", "v_test"}
        \/ pc[p] = "p_check" /\ box[p] = blockingMbox[sem[p]]

(* A slot in use has a count; a semaphore that programs know has its two   *)
(* mailboxes, a mutex with one slot and a blockingMbox with none.          *)
SlotInv(h) ==
    /\ count[h] >= EMPTY
    /\ count[h] = EMPTY =>
        mutex[h] = EMPTY /\ blockingMbox[h] = EMPTY /\ h \notin known
    /\ h \in known => mutex[h] # EMPTY /\ blockingMbox[h] # EMPTY
    /\ mutex[h] # EMPTY =>
        /\ mbox[mutex[h]].slots = 1
        /\ mbox[mutex[h]].used <= 1
        /\ mbox[mutex[h]].receivers = << >>
    /\ blockingMbox[h] # EMPTY =>
        /\ mbox[blockingMbox[h]].slots = 0
        /\ mbox[blockingMbox[h]].used = 0
        /\ mbox[blockingMbox[h]].receivers = << >>

(* Every open mailbox is one of phase 3, so that there are some left.      *)
Owned(b) ==
    \/ b = semsMutex
    \/ \E h \in Slots : b = mutex[h] \/ b = blockingMbox[h]

OwnedInv == \A b \in Boxes : mbox[b].open => Owned(b)

HolderInv ==
    /\ \A p \in Procs : HoldsSemaphore(p) => mbox[mutex[sem[p]]].used = 1
    /\ SemMutexExclusion

CountInv ==
    /\ \A p \in Procs : ProcInv(p)
    /\ \A h \in Slots : SlotInv(h)
    /\ OwnedInv
    /\ HolderInv

MInv == IInv /\ NothingFreed /\ CountInv

MakeSteps == {"c_mutex", "c_block", "c_num"}

Making == \E p \in Procs : pc[p] \in MakeSteps

InUse == {h \in Slots : count[h] # EMPTY}

(* currentNumSems is behind while a process is between count and           *)
(* currentNumSems++.                                                       *)
NumInv == Cardinality(InUse) = currentNumSems + IF Making THEN 1 ELSE 0

----------------------------------------------------------------------------
(* There is a mailbox left for a slot that lacks one.                      *)

LEMMA BoxIds ==
    /\ EMPTY \notin Boxes /\ semsMutex \in Boxes
    /\ Boxes \subseteq Nat
BY MailboxAssumption, SemaphoreAssumption DEF Boxes, EMPTY, semsMutex

LEMMA MailboxLeft ==
    ASSUME TypeOK, MailboxesOwned, NothingFreed,
           OwnedInv, NEW h \in Slots, mutex[h] = EMPTY \/ blockingMbox[h] = EMPTY
    PROVE  FreeBoxes # {}
<1> SUFFICES ASSUME FreeBoxes = {} PROVE FALSE
  OBVIOUS
<1>1. MAXSEMS \in Nat \ {0} /\ MAXMBOX \in Nat /\ MAXMBOX > 2 * MAXSEMS
  BY SemaphoreAssumption, MailboxAssumption DEF NothingFreed
<1> DEFINE missing == IF mutex[h] = EMPTY THEN 2 * h + 1 ELSE 2 * h + 2
           T == (0 .. 2 * MAXSEMS) \ {missing}
           place(b, n) ==
               \/ b = semsMutex /\ n = 0
               \/ \E i \in Slots : \/ b = mutex[i] /\ n = 2 * i + 1
                                   \/ b = blockingMbox[i] /\ n = 2 * i + 2
           f == [b \in Boxes |-> CHOOSE n \in T : place(b, n)]
<1>2. \A i \in Slots : i \in Nat /\ i < MAXSEMS
  BY <1>1 DEF Slots
<1>3. \A b \in Boxes : \E n \in T : place(b, n)
  <2> TAKE b \in Boxes
  <2>1. Owned(b) /\ b # EMPTY
    BY BoxIds DEF FreeBoxes, OwnedInv
  <2>2. CASE b = semsMutex
    <3>1. 0 \in T
      BY <1>1, <1>2
    <3> QED BY <2>2, <3>1
  <2>3. ASSUME NEW i \in Slots, b = mutex[i]
        PROVE  \E n \in T : place(b, n)
    <3>1. i # h \/ mutex[h] # EMPTY
      BY <2>1, <2>3
    <3>2. 2 * i + 1 \in T
      BY <1>1, <1>2, <3>1
    <3>3. \E j \in Slots : b = mutex[j] /\ 2 * i + 1 = 2 * j + 1
      BY <2>3
    <3> QED BY <3>2, <3>3
  <2>4. ASSUME NEW i \in Slots, b = blockingMbox[i]
        PROVE  \E n \in T : place(b, n)
    <3>1. i # h \/ mutex[h] = EMPTY
      BY <2>1, <2>4
    <3>2. 2 * i + 2 \in T
      BY <1>1, <1>2, <3>1
    <3>3. place(b, 2 * i + 2)
      BY <2>4
    <3> QED BY <3>2, <3>3
  <2> QED BY <2>1, <2>2, <2>3, <2>4 DEF Owned
<1>4. \A b \in Boxes : f[b] \in T /\ place(b, f[b])
  BY <1>3
<1>5. \A b, c \in Boxes : \A n : place(b, n) /\ place(c, n) => b = c
  BY <1>2 DEF semsMutex
<1>6. /\ IsFiniteSet(Boxes) /\ Cardinality(Boxes) = MAXMBOX
      /\ IsFiniteSet(0 .. 2 * MAXSEMS)
      /\ Cardinality(0 .. 2 * MAXSEMS) = 2 * MAXSEMS + 1
  BY <1>1, FS_Interval DEF Boxes
<1>7. missing \in 0 .. 2 * MAXSEMS
  BY <1>1, <1>2
<1>8. IsFiniteSet(T) /\ Cardinality(T) = 2 * MAXSEMS
  <2> HIDE DEF missing
  <2>1. Cardinality(T) = Cardinality(0 .. 2 * MAXSEMS) - 1 /\ IsFiniteSet(T)
    BY <1>6, <1>7, FS_RemoveElement
  <2> QED BY <1>1, <1>6, <2>1
<1>9. f \in [Boxes -> T]
  BY <1>4
<1>10. PICK b, c \in Boxes : b # c /\ f[b] = f[c]
  <2> HIDE DEF f, T
  <2>1. Cardinality(T) < Cardinality(Boxes)
    BY <1>1, <1>6, <1>8
  <2>2. \A g \in [Boxes -> T] : \E b, c \in Boxes : b # c /\ g[b] = g[c]
    BY <1>6, <1>8, <2>1, FS_PigeonHole
  <2> QED BY <1>9, <2>2
<1> HIDE DEF f, place
<1> QED BY <1>4, <1>5, <1>10

----------------------------------------------------------------------------
(* What a step of p leaves alone.                                          *)

\* The steps that work on the slot sem[p].
SemSteps == PSteps \cup VSteps \cup
            {"c_count", "c_mutex", "c_block", "c_num", "c_unlock", "c_ret"}

StepBy(p) ==
    /\ p \in ready
    /\ ready \ {p} \subseteq ready'
    /\ \A q \in Procs \ {p} : /\ pc'[q] = pc[q] /\ sem'[q] = sem[q]
                              /\ box'[q] = box[q] /\ val'[q] = val[q]

LEMMA SemStepsLemma ==
    ASSUME TypeOK, NEW p \in Procs, pc[p] \in SemSteps
    PROVE  sem[p] \in Slots
BY OnSlotLemma DEF SemSteps, Steps, CreateSteps, PSteps, VSteps

LEMMA OthersInv ==
    ASSUME TypeOK, NEW p \in Procs, NEW q \in Procs \ {p}, StepBy(p), ProcInv(q),
           known \subseteq known',
           pc[q] \in SemSteps =>
                /\ count'[sem[q]] = count[sem[q]]
                /\ mutex'[sem[q]] = mutex[sem[q]]
                /\ blockingMbox'[sem[q]] = blockingMbox[sem[q]]
    PROVE  ProcInv(q)'
BY DEF ProcInv, StepBy, SemSteps, OnMutexSteps, OnBlockingSteps, FreshSteps,
       PSteps, VSteps

\* The mailboxes of the semaphores are not those of others, and they are open.
LEMMA SemMailboxes ==
    ASSUME MailboxesOwned, TypeOK, CountInv, NEW h \in Slots
    PROVE  /\ mutex[h] # EMPTY =>
                /\ mutex[h] \in Boxes /\ mbox[mutex[h]].open
                /\ mutex[h] # semsMutex
                /\ \A i \in Slots : /\ mutex[h] # blockingMbox[i]
                                    /\ mutex[h] = mutex[i] => h = i
           /\ blockingMbox[h] # EMPTY =>
                /\ blockingMbox[h] \in Boxes /\ mbox[blockingMbox[h]].open
                /\ blockingMbox[h] # semsMutex
                /\ \A i \in Slots : /\ blockingMbox[h] # mutex[i]
                                    /\ blockingMbox[h] = blockingMbox[i] => h = i
<1>1. StaleMutex = {} /\ StaleBlockingMbox = {}
  BY DEF CountInv, ProcInv, StaleMutex, StaleBlockingMbox, At, FreeSteps
<1>2. /\ mutex[h] # EMPTY => IsOpen(mutex[h])
      /\ blockingMbox[h] # EMPTY => IsOpen(blockingMbox[h])
  BY <1>1 DEF MailboxesOwned
<1> QED BY <1>2 DEF MailboxesOwned, IsOpen, TypeOK

\* A process inside P or V works on a semaphore that has its mailboxes.
LEMMA InsideLemma ==
    ASSUME TypeOK, CountInv, NEW p \in Procs, pc[p] \in PSteps \cup VSteps
    PROVE  /\ sem[p] \in Slots /\ count[sem[p]] # EMPTY
           /\ mutex[sem[p]] # EMPTY /\ blockingMbox[sem[p]] # EMPTY
BY SemStepsLemma DEF CountInv, ProcInv, SlotInv, SemSteps

\* Nobody gets at the count by a step on another mailbox than the mutex.
LEMMA HolderAside ==
    ASSUME MInv, NEW p \in Procs, StepBy(p), NEW b,
           \A q \in ready' \ ready : b \in Boxes /\ q \in Waiting(b),
           \A h \in Slots : mutex[h] # EMPTY =>
                /\ b # mutex[h] /\ mutex'[h] = mutex[h]
                /\ mbox'[mutex[h]] = mbox[mutex[h]],
           HoldsSemaphore(p)' => HoldsSemaphore(p) /\ sem'[p] = sem[p]
    PROVE  HolderInv'
<1> USE DEF MInv, IInv
<1>1. ASSUME NEW q \in Procs, HoldsSemaphore(q)'
      PROVE  HoldsSemaphore(q) /\ sem'[q] = sem[q]
  <2>1. CASE q = p
    BY <1>1, <2>1
  <2>2. CASE q # p
    <3>1. pc[q] \in SemaphoreSteps /\ q \in ready' /\ sem'[q] = sem[q]
      BY <1>1, <2>2 DEF HoldsSemaphore, StepBy
    <3>2. q \in ready
      <4> SUFFICES ASSUME q \notin ready PROVE FALSE
        OBVIOUS
      <4>1. q \in Waiting(b) /\ b \in Boxes
        BY <3>1
      <4>2. box[q] = b
        BY <4>1 DEF LockInv
      <4>3. pc[q] \in {"p_test", "v_test"}
        BY <3>1 DEF CountInv, ProcInv, SemaphoreSteps
      <4>4. box[q] = mutex[sem[q]]
        BY <4>3 DEF CountInv, ProcInv, OnMutexSteps
      <4>5. sem[q] \in Slots /\ mutex[sem[q]] # EMPTY
        BY <4>3, InsideLemma DEF PSteps, VSteps
      <4> QED BY <4>2, <4>4, <4>5
    <3> QED BY <3>1, <3>2 DEF HoldsSemaphore
  <2> QED BY <2>1, <2>2
<1>2. ASSUME NEW q \in Procs, HoldsSemaphore(q)
      PROVE  sem[q] \in Slots /\ mutex[sem[q]] # EMPTY
  BY <1>2, InsideLemma DEF HoldsSemaphore, SemaphoreSteps, PSteps, VSteps
<1>3. \A q \in Procs : HoldsSemaphore(q)' => mbox'[mutex'[sem'[q]]].used = 1
  BY <1>1, <1>2 DEF CountInv, HolderInv
<1>4. SemMutexExclusion'
  BY <1>1 DEF CountInv, HolderInv, SemMutexExclusion
<1> QED BY <1>3, <1>4 DEF HolderInv

LEMMA SlotsAside ==
    ASSUME \A h \in Slots : SlotInv(h),
           UNCHANGED <<count, mutex, blockingMbox, known>>,
           \A h \in Slots :
                /\ mutex[h] # EMPTY => mbox'[mutex[h]] = mbox[mutex[h]]
                /\ blockingMbox[h] # EMPTY =>
                    mbox'[blockingMbox[h]] = mbox[blockingMbox[h]]
    PROVE  \A h \in Slots : SlotInv(h)'
BY DEF SlotInv

LEMMA OwnedAside ==
    ASSUME OwnedInv, UNCHANGED <<mutex, blockingMbox>>,
           \A c \in Boxes : mbox'[c].open = mbox[c].open
    PROVE  OwnedInv'
BY DEF OwnedInv, Owned

\* A step that changes nothing of the semaphores and of the mailboxes.
LEMMA QuietStep ==
    ASSUME MInv, NEW p \in Procs, StepBy(p), ProcInv(p)',
           UNCHANGED <<mailboxVars, count, mutex, blockingMbox, known>>,
           HoldsSemaphore(p)' => HoldsSemaphore(p) /\ sem'[p] = sem[p]
    PROVE  CountInv'
<1> USE DEF MInv, IInv
<1>1. mbox' = mbox /\ ready' = ready
  BY DEF mailboxVars
<1>2. \A q \in Procs : ProcInv(q)'
  BY OthersInv DEF CountInv
<1>3. \A h \in Slots : SlotInv(h)'
  BY <1>1, SlotsAside DEF CountInv
<1>4. OwnedInv'
  BY <1>1, OwnedAside DEF CountInv
<1>5. HolderInv'
  BY <1>1, HolderAside, BoxIds
<1> QED BY <1>2, <1>3, <1>4, <1>5 DEF CountInv

----------------------------------------------------------------------------
(* The steps that touch no mailbox.                                        *)

LEMMA LabelFacts ==
    /\ \A l \in MutexArgSteps \cup BlockingArgSteps :
        /\ l \in PSteps \cup VSteps /\ After[l] \in PSteps \cup VSteps
        /\ l \in SemaphoreSteps <=> After[l] \in SemaphoreSteps
        /\ l \in MutexArgSteps => After[l] \notin OnBlockingSteps
        /\ l \in BlockingArgSteps => After[l] \notin OnMutexSteps
        /\ l \notin {"p_check", "p_test", "v_test", "p_dec"}
        /\ After[l] \notin {"p_check", "p_test", "v_test", "p_dec"}
        /\ After[l] \in FreshSteps => l \in FreshSteps
    /\ (PSteps \cup VSteps) \cap (FreeSteps \cup CreateSteps) = {}
    /\ "user" \notin PSteps \cup VSteps \cup FreeSteps
    /\ "quit" \notin PSteps \cup VSteps \cup FreeSteps
    /\ "undefined" \notin PSteps \cup VSteps \cup FreeSteps
    /\ SemaphoreSteps \cup OnMutexSteps \cup OnBlockingSteps \cup FreshSteps
        \subseteq PSteps \cup VSteps
BY DEF MutexArgSteps, BlockingArgSteps, PSteps, VSteps, FreeSteps, CreateSteps,
       After, SemaphoreSteps, OnMutexSteps, OnBlockingSteps, FreshSteps

LEMMA ReadStep ==
    ASSUME MInv, NEW p \in Procs, ReadMutex(p) \/ ReadBlockingMbox(p)
    PROVE  CountInv'
<1> USE DEF MInv, IInv
<1>1. PICK l \in MutexArgSteps \cup BlockingArgSteps :
        /\ At(p, l) /\ Goto(p, After[l])
        /\ \/ l \in MutexArgSteps /\ box' = [box EXCEPT ![p] = mutex[sem[p]]]
           \/ l \in BlockingArgSteps
              /\ box' = [box EXCEPT ![p] = blockingMbox[sem[p]]]
        /\ UNCHANGED <<mailboxVars, tableVars, sem, val, zapped, seenVars>>
  BY DEF ReadMutex, ReadBlockingMbox
<1>2. /\ mbox' = mbox /\ ready' = ready /\ sem' = sem /\ val' = val
      /\ count' = count /\ mutex' = mutex /\ blockingMbox' = blockingMbox
      /\ known' = known
  BY <1>1 DEF mailboxVars, tableVars, seenVars
<1>3. /\ p \in ready /\ pc[p] = l /\ pc'[p] = After[l]
      /\ l \in MutexArgSteps => box'[p] = mutex[sem[p]]
      /\ l \in BlockingArgSteps => box'[p] = blockingMbox[sem[p]]
      /\ l \in MutexArgSteps \/ l \in BlockingArgSteps
  BY <1>1, LabelFacts DEF At, Goto, TypeOK, MutexArgSteps, BlockingArgSteps
<1>4. StepBy(p)
  BY <1>1, <1>2, <1>3 DEF StepBy, Goto, TypeOK
<1>5. /\ sem[p] \in known
      /\ l \in FreshSteps => val[p] = count[sem[p]]
  BY <1>3, LabelFacts DEF CountInv, ProcInv
<1>6. ProcInv(p)'
  <2>1. l # "v_wake" /\ (After[l] = "v_wake" => l = "v_arg2") /\ After[l] # "v_arg2"
    BY DEF MutexArgSteps, BlockingArgSteps, After
  <2>2. pc[p] = "v_arg2" => val[p] = 0
    BY DEF CountInv, ProcInv
  <2> QED BY <1>2, <1>3, <1>5, <2>1, <2>2, LabelFacts DEF ProcInv, CreateSteps
<1>7. HoldsSemaphore(p)' => HoldsSemaphore(p)
  BY <1>2, <1>3, LabelFacts DEF HoldsSemaphore
<1> QED BY <1>1, <1>2, <1>4, <1>6, <1>7, QuietStep

LEMMA TestStep ==
    ASSUME MInv, NEW p \in Procs,
           \/ getAvailableSemHandle(p) \/ semCreateCount(p)
           \/ semPTest(p) \/ semVTest(p) \/ semPCheck(p)
    PROVE  CountInv'
<1> USE DEF MInv, IInv
<1>1. /\ UNCHANGED <<mailboxVars, count, mutex, blockingMbox, known>>
      /\ mbox' = mbox /\ ready' = ready
  BY DEF getAvailableSemHandle, semCreateCount, semPTest, semVTest, semPCheck,
         mailboxVars, tableVars, seenVars
<1>2. StepBy(p)
  BY <1>1 DEF getAvailableSemHandle, semCreateCount, semPTest, semVTest, semPCheck,
              StepBy, At, Goto, TypeOK
<1>3. ProcInv(p)
  BY DEF CountInv
<1>4. ProcInv(p)' /\ (HoldsSemaphore(p)' => HoldsSemaphore(p) /\ sem'[p] = sem[p])
  <2>1. CASE getAvailableSemHandle(p)
    <3>1. /\ pc[p] = "c_slot" /\ p \in ready /\ val' = val
          /\ \/ /\ pc'[p] = "c_count"
                /\ sem'[p] \in Slots /\ count[sem'[p]] = EMPTY
             \/ pc'[p] = "undefined"
      BY <2>1 DEF getAvailableSemHandle, At, Goto, TypeOK
    <3> QED BY <1>1, <1>3, <3>1
            DEF ProcInv, HoldsSemaphore, SemaphoreSteps, FreeSteps, OnMutexSteps,
                OnBlockingSteps, FreshSteps, PSteps, VSteps
  <2>2. CASE semCreateCount(p)
    <3>1. /\ pc[p] = "c_num" /\ p \in ready /\ pc'[p] = "c_unlock" /\ sem' = sem
      BY <2>2 DEF semCreateCount, At, Goto, TypeOK
    <3> QED BY <1>1, <1>3, <3>1
            DEF ProcInv, HoldsSemaphore, SemaphoreSteps, FreeSteps, OnMutexSteps,
                OnBlockingSteps, FreshSteps, PSteps, VSteps
  <2>3. CASE semPTest(p) \/ semVTest(p)
    <3>1. /\ p \in ready /\ sem' = sem /\ box' = box /\ val'[p] = count[sem[p]]
          /\ \/ pc[p] = "p_test" /\ pc'[p] = "p_dec" /\ count[sem[p]] > 0
             \/ pc[p] = "p_test" /\ pc'[p] = "p_arg3"
             \/ pc[p] = "v_test" /\ pc'[p] = "v_arg2" /\ count[sem[p]] = 0
             \/ pc[p] = "v_test" /\ pc'[p] = "v_inc"
      BY <2>3 DEF semPTest, semVTest, At, Goto, TypeOK
    <3> QED BY <1>1, <1>3, <3>1, LabelFacts
            DEF ProcInv, HoldsSemaphore, SemaphoreSteps, FreeSteps, OnMutexSteps,
                OnBlockingSteps, PSteps, VSteps
  <2>4. CASE semPCheck(p)
    <3>1. /\ p \in ready /\ pc[p] = "p_check"
          /\ \/ pc'[p] = "quit"
             \/ pc'[p] = "p_ret" /\ sem' = sem
      BY <2>4 DEF semPCheck, At, Goto, TypeOK
    <3>2. CASE pc'[p] = "quit"
      BY <1>1, <3>1, <3>2, LabelFacts DEF ProcInv, HoldsSemaphore
    <3>3. CASE pc'[p] = "p_ret" /\ sem' = sem
      BY <1>1, <1>3, <3>1, <3>3
         DEF ProcInv, HoldsSemaphore, SemaphoreSteps, FreeSteps, OnMutexSteps,
             OnBlockingSteps, FreshSteps, PSteps, VSteps
    <3> QED BY <3>1, <3>2, <3>3
  <2> QED BY <2>1, <2>2, <2>3, <2>4
<1> QED BY <1>1, <1>2, <1>4, QuietStep

LEMMA ReturnStep ==
    ASSUME MInv, NEW p \in Procs, Return(p)
    PROVE  CountInv'
<1> USE DEF MInv, IInv
<1>1. PICK l \in RetSteps :
        /\ At(p, l) /\ Goto(p, IF p \in zapped THEN "quit" ELSE "user")
        /\ known' = IF l = "c_ret" /\ p \notin zapped
                    THEN known \cup {sem[p]} ELSE known
        /\ sem' = [sem EXCEPT ![p] = EMPTY]
        /\ box' = [box EXCEPT ![p] = EMPTY]
        /\ val' = [val EXCEPT ![p] = 0]
        /\ UNCHANGED <<mailboxVars, tableVars, zapped, units, tableCalls>>
  BY DEF Return
<1>2. /\ mbox' = mbox /\ ready' = ready
      /\ count' = count /\ mutex' = mutex /\ blockingMbox' = blockingMbox
  BY <1>1 DEF mailboxVars, tableVars
<1>3. p \in ready /\ pc[p] = l /\ pc'[p] \in {"user", "quit"}
  BY <1>1 DEF At, Goto, TypeOK
<1>4. StepBy(p)
  BY <1>1, <1>2, <1>3 DEF StepBy, Goto, TypeOK
<1>5. ProcInv(p)'
  BY <1>2, <1>3, LabelFacts DEF ProcInv
<1>6. ~HoldsSemaphore(p)'
  BY <1>3, LabelFacts DEF HoldsSemaphore
<1>7. \A q \in Procs : ProcInv(q)'
  BY <1>1, <1>2, <1>4, <1>5, OthersInv DEF CountInv
<1>8. \A h \in Slots : SlotInv(h)'
  <2>1. \A h \in known' \ known :
            count[h] # EMPTY /\ mutex[h] # EMPTY /\ blockingMbox[h] # EMPTY
    BY <1>1, <1>3 DEF CountInv, ProcInv
  <2> QED BY <1>2, <2>1 DEF CountInv, SlotInv
<1>9. OwnedInv'
  BY <1>2, OwnedAside DEF CountInv
<1>10. HolderInv'
  BY <1>2, <1>4, <1>6, HolderAside, BoxIds
<1> QED BY <1>7, <1>8, <1>9, <1>10 DEF CountInv

LEMMA CallStep ==
    ASSUME MInv, NEW p \in Procs, SystemCall(p)
    PROVE  CountInv'
<1> USE DEF MInv, IInv
<1>1. /\ At(p, "user")
      /\ UNCHANGED <<mailboxVars, count, mutex, blockingMbox, known>>
  BY DEF SystemCall, semCreate, semP, semV, semFree, EnterHandler, tableVars
<1>2. /\ mbox' = mbox /\ ready' = ready /\ p \in ready /\ pc[p] = "user"
  BY <1>1 DEF mailboxVars, At
<1>3. ASSUME NEW v, semCreate(p, v)
      PROVE  /\ StepBy(p)
             /\ \/ pc'[p] = "user"
                \/ pc'[p] = "c_lock" /\ val'[p] >= 0
  <2>1. CASE UNCHANGED <<pc, val, box, tableCalls>>
    BY <1>2, <1>3, <2>1 DEF semCreate, StepBy
  <2>2. CASE /\ v >= 0 /\ Goto(p, "c_lock") /\ val' = [val EXCEPT ![p] = v]
             /\ box' = [box EXCEPT ![p] = semsMutex]
    BY <1>2, <1>3, <2>2 DEF semCreate, StepBy, Goto, TypeOK
  <2> QED BY <1>3, <2>1, <2>2 DEF semCreate
<1>4. ASSUME NEW h, semP(p, h) \/ semV(p, h) \/ semFree(p, h)
      PROVE  /\ StepBy(p)
             /\ \/ pc'[p] \in {"user", "undefined"}
                \/ pc'[p] \in {"p_arg1", "v_arg1"} /\ sem'[p] \in known
  <2>1. ~semFree(p, h)
    BY DEF NothingFreed, semFree, EnterHandler
  <2>2. /\ h \in known /\ box' = box /\ val' = val
        /\ \/ /\ pc' = pc /\ sem' = sem
           \/ /\ Goto(p, "p_arg1") \/ Goto(p, "v_arg1") \/ Goto(p, "undefined")
              /\ sem' = [sem EXCEPT ![p] = IF h \in Slots THEN h ELSE EMPTY]
    BY <1>4, <2>1 DEF semP, semV, EnterHandler, NothingFreed
  <2>3. h \in Slots
    BY <2>2 DEF TypeOK
  <2> QED BY <1>2, <2>2, <2>3 DEF StepBy, Goto, TypeOK
<1>5. /\ StepBy(p)
      /\ \/ pc'[p] \in {"user", "undefined"}
         \/ pc'[p] = "c_lock" /\ val'[p] >= 0
         \/ pc'[p] \in {"p_arg1", "v_arg1"} /\ sem'[p] \in known'
  BY <1>1, <1>3, <1>4 DEF SystemCall
<1>6. ProcInv(p)' /\ ~HoldsSemaphore(p)'
  BY <1>2, <1>5, LabelFacts
     DEF ProcInv, HoldsSemaphore, SemaphoreSteps, OnMutexSteps, OnBlockingSteps,
         FreshSteps, PSteps, VSteps, FreeSteps
<1> QED BY <1>1, <1>5, <1>6, QuietStep

----------------------------------------------------------------------------
(* The steps that change the count, or give a slot its mailboxes.          *)

\* While a process makes a semaphore, no other works on its slot.
LEMMA MakerAlone ==
    ASSUME MInv, NEW p \in Procs, NEW q \in Procs \ {p},
           pc[p] \in {"c_count", "c_mutex", "c_block"}, sem[q] = sem[p]
    PROVE  pc[q] \notin SemSteps
<1> USE DEF MInv, IInv
<1> SUFFICES ASSUME pc[q] \in SemSteps PROVE FALSE
  OBVIOUS
<1>1. ProcInv(p) /\ ProcInv(q)
  BY DEF CountInv
<1>2. p \in ready
  BY <1>1 DEF ProcInv
<1>3. sem[p] \in Slots
  BY SemStepsLemma DEF SemSteps
<1>4. SlotInv(sem[p])
  BY <1>3 DEF CountInv
<1>5. sem[q] \notin known
  BY <1>1, <1>4 DEF ProcInv, SlotInv
<1>6. CASE pc[q] \in PSteps \cup VSteps
  BY <1>1, <1>5, <1>6 DEF ProcInv
<1>7. CASE pc[q] \in {"c_count", "c_mutex", "c_block", "c_num", "c_unlock"}
  <2>1. q \in ready
    BY <1>1, <1>7 DEF ProcInv
  <2>2. HoldsTable(p) /\ HoldsTable(q)
    BY <1>2, <1>7, <2>1 DEF HoldsTable, TableSteps
  <2> QED BY <2>2 DEF LockInv, SemsMutexExclusion
<1>8. CASE pc[q] = "c_ret"
  BY <1>1, <1>8 DEF ProcInv
<1> QED BY <1>6, <1>7, <1>8 DEF SemSteps

LEMMA InitCountStep ==
    ASSUME MInv, NEW p \in Procs, initSemCount(p)
    PROVE  CountInv'
<1> USE DEF MInv, IInv
<1>1. /\ mbox' = mbox /\ ready' = ready /\ val' = val /\ sem' = sem
      /\ mutex' = mutex /\ blockingMbox' = blockingMbox /\ known' = known
      /\ p \in ready /\ pc[p] = "c_count" /\ pc'[p] = "c_mutex"
      /\ StepBy(p)
  BY DEF initSemCount, mailboxVars, At, Goto, TypeOK, StepBy
<1>2. ProcInv(p)
  BY DEF CountInv
<1>3. sem[p] \in Slots
  BY <1>1, SemStepsLemma DEF SemSteps
<1>4. /\ count'[sem[p]] = val[p]
      /\ \A h \in Slots \ {sem[p]} : count'[h] = count[h]
      /\ val[p] >= 0 /\ val[p] \in Int /\ EMPTY = -1
      /\ count[sem[p]] = EMPTY
  BY <1>1, <1>2, <1>3 DEF initSemCount, TypeOK, ProcInv, EMPTY
<1>5. SlotInv(sem[p])
  BY <1>3 DEF CountInv
<1>6. ProcInv(p)'
  BY <1>1, <1>4, <1>5, LabelFacts
     DEF ProcInv, SlotInv, FreeSteps, PSteps, VSteps, OnMutexSteps,
         OnBlockingSteps, FreshSteps
<1>7. ASSUME NEW q \in Procs \ {p}
      PROVE  ProcInv(q)'
  BY <1>1, <1>4, MakerAlone, OthersInv, SemStepsLemma DEF CountInv
<1>8. \A h \in Slots : SlotInv(h)'
  <2> TAKE h \in Slots
  <2>1. SlotInv(h)
    BY DEF CountInv
  <2> QED BY <1>1, <1>4, <2>1 DEF SlotInv
<1>9. OwnedInv'
  BY <1>1, OwnedAside DEF CountInv
<1>10. HolderInv'
  <2>1. ~HoldsSemaphore(p)'
    BY <1>1 DEF HoldsSemaphore, SemaphoreSteps
  <2> QED BY <1>1, <2>1, HolderAside, BoxIds
<1> QED BY <1>6, <1>7, <1>8, <1>9, <1>10 DEF CountInv

\* count-- and count++ of the only process that has the mutex.
LEMMA ArithmeticStep ==
    ASSUME MInv, NEW p \in Procs, semPDecrement(p) \/ semVIncrement(p)
    PROVE  /\ CountInv'
           /\ sem[p] \in Slots
           /\ \/ semPDecrement(p) /\ count'[sem[p]] = count[sem[p]] - 1
              \/ semVIncrement(p) /\ count'[sem[p]] = count[sem[p]] + 1
<1> USE DEF MInv, IInv
<1>1. /\ mbox' = mbox /\ ready' = ready /\ val' = val /\ sem' = sem /\ box' = box
      /\ mutex' = mutex /\ blockingMbox' = blockingMbox /\ known' = known
      /\ p \in ready
      /\ \/ pc[p] = "p_dec" /\ pc'[p] = "p_arg2"
         \/ pc[p] = "v_inc" /\ pc'[p] = "v_arg3"
      /\ StepBy(p)
  <2>1. CASE semPDecrement(p)
    BY <2>1 DEF semPDecrement, mailboxVars, seenVars, At, Goto, TypeOK, StepBy
  <2>2. CASE semVIncrement(p)
    BY <2>2 DEF semVIncrement, mailboxVars, seenVars, At, Goto, TypeOK, StepBy
  <2> QED BY <2>1, <2>2
<1>2. ProcInv(p)
  BY DEF CountInv
<1>3. pc[p] \in PSteps \cup VSteps /\ pc[p] \in FreshSteps
  BY <1>1 DEF PSteps, VSteps, FreshSteps
<1>4. sem[p] \in Slots /\ count[sem[p]] # EMPTY /\ SlotInv(sem[p])
  BY <1>3, InsideLemma DEF CountInv
<1>5. val[p] = count[sem[p]] /\ count[sem[p]] >= 0 /\ EMPTY = -1
      /\ count \in [Slots -> Int]
  BY <1>2, <1>3, <1>4 DEF ProcInv, SlotInv, EMPTY, TypeOK
<1>6. \/ semPDecrement(p) /\ count'[sem[p]] = count[sem[p]] - 1
                          /\ count[sem[p]] > 0
      \/ semVIncrement(p) /\ count'[sem[p]] = count[sem[p]] + 1
  <2>1. CASE semPDecrement(p)
    BY <1>2, <1>4, <1>5, <2>1 DEF semPDecrement, At, ProcInv
  <2>2. CASE semVIncrement(p)
    BY <1>4, <1>5, <2>2 DEF semVIncrement
  <2> QED BY <2>1, <2>2
<1>7. /\ count'[sem[p]] >= 0 /\ count'[sem[p]] \in Int
      /\ \A h \in Slots \ {sem[p]} : count'[h] = count[h]
  BY <1>4, <1>5, <1>6 DEF semPDecrement, semVIncrement
<1>8. HoldsSemaphore(p)
  BY <1>1 DEF HoldsSemaphore, SemaphoreSteps
<1>9. ASSUME NEW q \in Procs \ {p}
      PROVE  ProcInv(q)'
  <2>1. ProcInv(q)
    BY DEF CountInv
  <2>2. CASE sem[q] # sem[p]
    BY <1>1, <1>7, <2>1, <2>2, OthersInv, SemStepsLemma
  <2>3. CASE sem[q] = sem[p]
    <3>1. pc[q] \notin FreshSteps
      <4>1. pc[q] \in FreshSteps => HoldsSemaphore(q)
        BY <2>1 DEF ProcInv, HoldsSemaphore, FreshSteps, SemaphoreSteps
      <4> QED BY <1>8, <2>3, <4>1 DEF CountInv, HolderInv, SemMutexExclusion
    <3>2. pc[q] # "c_count"
      BY <1>4, <2>1, <2>3 DEF ProcInv
    <3>3. count'[sem[p]] # EMPTY
      BY <1>5, <1>7
    <3>4. /\ pc'[q] = pc[q] /\ sem'[q] = sem[q] /\ box'[q] = box[q]
          /\ val'[q] = val[q]
      BY <1>1 DEF StepBy
    <3> QED BY <1>1, <2>1, <2>3, <3>1, <3>2, <3>3, <3>4
            DEF ProcInv, FreshSteps
  <2> QED BY <2>2, <2>3
<1>10. ProcInv(p)'
  BY <1>1, <1>2 DEF ProcInv, FreeSteps, PSteps, VSteps, OnMutexSteps,
                    OnBlockingSteps, FreshSteps
<1>11. \A h \in Slots : SlotInv(h)'
  <2> TAKE h \in Slots
  <2>1. SlotInv(h)
    BY DEF CountInv
  <2> QED BY <1>1, <1>4, <1>5, <1>7, <2>1 DEF SlotInv
<1>12. OwnedInv'
  BY <1>1, OwnedAside DEF CountInv
<1>13. HolderInv'
  BY <1>1, <1>8, HolderAside, BoxIds
<1> QED BY <1>4, <1>6, <1>9, <1>10, <1>11, <1>12, <1>13 DEF CountInv

\* initSem finds a mailbox that was closed, and nobody has its id.
LEMMA NewMailbox ==
    ASSUME MInv, NEW h \in Slots, mutex[h] = EMPTY \/ blockingMbox[h] = EMPTY,
           NEW slots, NEW id, MboxCreate(slots, id)
    PROVE  /\ id \in Boxes /\ id # EMPTY
           /\ ready' = ready
           /\ mbox'[id] = NewBox(slots)
           /\ \A b \in Boxes \ {id} : mbox'[b] = mbox[b]
           /\ \A i \in Slots : mutex[i] # id /\ blockingMbox[i] # id
<1> USE DEF MInv, IInv
<1>1. FreeBoxes # {}
  BY MailboxLeft DEF CountInv
<1>2. /\ id \in FreeBoxes /\ ready' = ready
      /\ mbox' = [mbox EXCEPT ![id] = NewBox(slots)]
  BY <1>1 DEF MboxCreate
<1>3. id \in Boxes /\ ~mbox[id].open /\ id # EMPTY
  BY <1>2, BoxIds DEF FreeBoxes
<1>4. \A i \in Slots : mutex[i] # id /\ blockingMbox[i] # id
  BY <1>3, SemMailboxes
<1> QED BY <1>2, <1>3, <1>4 DEF TypeOK, MailboxTypeOK

LEMMA InitMailboxStep ==
    ASSUME MInv, NEW p \in Procs, initSemMutex(p) \/ initSemBlocking(p)
    PROVE  CountInv'
<1> USE DEF MInv, IInv
<1> DEFINE h == sem[p]
<1>1. PICK id \in Boxes \cup {EMPTY}, slots \in {0, 1} :
        /\ MboxCreate(slots, id)
        /\ \/ /\ slots = 1 /\ mutex' = [mutex EXCEPT ![h] = id]
              /\ initSemMutex(p)
           \/ /\ slots = 0 /\ blockingMbox' = [blockingMbox EXCEPT ![h] = id]
              /\ initSemBlocking(p)
  BY DEF initSemMutex, initSemBlocking
<1>2. /\ val' = val /\ sem' = sem /\ box' = box /\ count' = count /\ known' = known
      /\ p \in ready
      /\ \/ /\ pc[p] = "c_mutex" /\ pc'[p] = "c_block"
            /\ initSemMutex(p) /\ slots = 1
            /\ mutex' = [mutex EXCEPT ![h] = id] /\ blockingMbox' = blockingMbox
         \/ /\ pc[p] = "c_block" /\ pc'[p] = "c_num"
            /\ initSemBlocking(p) /\ slots = 0
            /\ blockingMbox' = [blockingMbox EXCEPT ![h] = id] /\ mutex' = mutex
      /\ \A q \in Procs \ {p} : pc'[q] = pc[q]
  <2>1. CASE initSemMutex(p) /\ slots = 1 /\ mutex' = [mutex EXCEPT ![h] = id]
    BY <2>1 DEF initSemMutex, At, Goto, TypeOK, seenVars
  <2>2. CASE /\ initSemBlocking(p) /\ slots = 0
             /\ blockingMbox' = [blockingMbox EXCEPT ![h] = id]
    BY <2>2 DEF initSemBlocking, At, Goto, TypeOK, seenVars
  <2> QED BY <1>1, <2>1, <2>2
<1>3. h \in Slots
  BY <1>2, SemStepsLemma DEF SemSteps
<1>4. ProcInv(p) /\ SlotInv(h)
  BY <1>3 DEF CountInv
<1>5. /\ count[h] # EMPTY /\ blockingMbox[h] = EMPTY
      /\ pc[p] = "c_mutex" => mutex[h] = EMPTY
      /\ pc[p] = "c_block" => mutex[h] # EMPTY
      /\ h \notin known
  BY <1>2, <1>4 DEF ProcInv, SlotInv
<1>6. /\ id \in Boxes /\ id # EMPTY
      /\ ready' = ready
      /\ mbox'[id] = NewBox(slots)
      /\ \A b \in Boxes \ {id} : mbox'[b] = mbox[b]
      /\ \A i \in Slots : mutex[i] # id /\ blockingMbox[i] # id
  BY <1>1, <1>3, <1>5, NewMailbox
<1>7. /\ \A i \in Slots \ {h} :
            mutex'[i] = mutex[i] /\ blockingMbox'[i] = blockingMbox[i]
      /\ pc[p] = "c_mutex" => mutex'[h] = id /\ blockingMbox'[h] = EMPTY
      /\ pc[p] = "c_block" => mutex'[h] = mutex[h] /\ blockingMbox'[h] = id
      /\ \A i \in Slots : mutex[i] # EMPTY => mutex'[i] = mutex[i]
      /\ \A i \in Slots :
            blockingMbox[i] # EMPTY => blockingMbox'[i] = blockingMbox[i]
  BY <1>2, <1>3, <1>5 DEF TypeOK
<1>8. StepBy(p)
  BY <1>2, <1>6 DEF StepBy
<1>9. ProcInv(p)'
  BY <1>2, <1>5, <1>6, <1>7
     DEF ProcInv, FreeSteps, PSteps, VSteps, OnMutexSteps, OnBlockingSteps,
         FreshSteps
<1>10. ASSUME NEW q \in Procs \ {p}
       PROVE  ProcInv(q)'
  BY <1>2, <1>7, <1>8, MakerAlone, OthersInv, SemStepsLemma DEF CountInv
<1>11. ASSUME NEW i \in Slots
       PROVE  SlotInv(i)'
  <2>1. SlotInv(i)
    BY DEF CountInv
  <2>2. /\ mutex[i] # EMPTY => mbox'[mutex[i]] = mbox[mutex[i]]
        /\ blockingMbox[i] # EMPTY => mbox'[blockingMbox[i]] = mbox[blockingMbox[i]]
    BY <1>6, SemMailboxes
  <2>3. CASE i # h
    BY <1>2, <1>7, <2>1, <2>2, <2>3 DEF SlotInv
  <2>4. CASE i = h /\ pc[p] = "c_mutex"
    BY <1>2, <1>5, <1>6, <1>7, <2>1, <2>4 DEF SlotInv, NewBox
  <2>5. CASE i = h /\ pc[p] = "c_block"
    BY <1>2, <1>5, <1>6, <1>7, <2>1, <2>2, <2>5 DEF SlotInv, NewBox
  <2> QED BY <1>2, <2>3, <2>4, <2>5
<1>12. OwnedInv'
  <2>1. ASSUME NEW b \in Boxes, mbox'[b].open
        PROVE  Owned(b)'
    <3>1. CASE b = id
      BY <1>2, <1>3, <1>7, <3>1 DEF Owned
    <3>2. CASE b # id
      <4>1. Owned(b) /\ b # EMPTY
        BY <1>6, <2>1, <3>2, BoxIds DEF CountInv, OwnedInv
      <4> QED BY <1>7, <4>1 DEF Owned
    <3> QED BY <3>1, <3>2
  <2> QED BY <2>1 DEF OwnedInv
<1>13. HolderInv'
  <2>1. ~HoldsSemaphore(p)'
    BY <1>2 DEF HoldsSemaphore, SemaphoreSteps
  <2>2. \A i \in Slots : mutex[i] # EMPTY =>
            id # mutex[i] /\ mutex'[i] = mutex[i]
            /\ mbox'[mutex[i]] = mbox[mutex[i]]
    BY <1>6, <1>7, SemMailboxes
  <2> QED BY <1>6, <1>8, <2>1, <2>2, HolderAside
<1> QED BY <1>9, <1>10, <1>11, <1>12, <1>13 DEF CountInv

----------------------------------------------------------------------------
(* The steps on a mailbox.                                                 *)

\* unlock() by the process that has the lock does not block.
LEMMA UnlockTakes ==
    ASSUME TypeOK, NEW p, NEW b, IsOpen(b), mbox[b].used = 1, MboxReceive(p, b)
    PROVE  HasMessage(b) /\ TakeMessage(b) /\ ready \subseteq ready'
<1>1. HasMessage(b)
  BY DEF HasMessage
<1>2. TakeMessage(b)
  BY <1>1 DEF MboxReceive
<1> QED BY <1>1, <1>2 DEF TakeMessage

\* An operation on semsMutex or on a blockingMbox.
LEMMA OperationStep ==
    ASSUME MInv, NEW p \in Procs, StepBy(p), ProcInv(p)', NEW b, NEW W,
           Affects(b, W), \A h \in Slots : mutex[h] # EMPTY => b # mutex[h],
           UNCHANGED <<count, mutex, blockingMbox, known>>,
           \A h \in Slots : blockingMbox[h] # EMPTY /\ blockingMbox[h] = b =>
                /\ mbox'[b].slots = 0
                /\ mbox'[b].used = 0
                /\ mbox'[b].receivers = << >>,
           HoldsSemaphore(p)' => HoldsSemaphore(p) /\ sem'[p] = sem[p]
    PROVE  CountInv'
<1> USE DEF MInv, IInv
<1>1. \A q \in Procs : ProcInv(q)'
  BY OthersInv DEF CountInv
<1>2. \A h \in Slots :
        /\ mutex[h] # EMPTY => mbox'[mutex[h]] = mbox[mutex[h]]
        /\ blockingMbox[h] # EMPTY /\ blockingMbox[h] # b =>
                mbox'[blockingMbox[h]] = mbox[blockingMbox[h]]
  BY SemMailboxes DEF Affects
<1>3. ASSUME NEW h \in Slots
      PROVE  SlotInv(h)'
  <2>1. SlotInv(h)
    BY DEF CountInv
  <2> QED BY <1>2, <2>1 DEF SlotInv
<1>4. OwnedInv'
  BY OwnedAside DEF CountInv, Affects
<1>5. HolderInv'
  <2>1. \A q \in ready' \ ready : b \in Boxes /\ q \in Waiting(b)
    BY DEF Affects
  <2> QED BY <1>2, <2>1, HolderAside
<1> QED BY <1>1, <1>3, <1>4, <1>5 DEF CountInv

\* lock(semsMutex) and unlock(semsMutex) of semCreateReal.
LEMMA TableMutexStep ==
    ASSUME MInv, NEW p \in Procs, Lock(p) \/ Unlock(p),
           pc[p] \in {"c_lock", "c_unlock"}
    PROVE  CountInv'
<1> USE DEF MInv, IInv
<1>1. /\ p \in ready
      /\ \/ MboxSend(p, box[p]) /\ pc[p] = "c_lock" /\ Goto(p, "c_slot")
         \/ MboxReceive(p, box[p]) /\ pc[p] = "c_unlock" /\ Goto(p, "c_ret")
      /\ UNCHANGED <<tableVars, sem, box, val, zapped, seenVars>>
  BY DEF Lock, Unlock, At, LockSteps, UnlockSteps, After
<1>2. box[p] = semsMutex /\ (pc[p] = "c_unlock" => mbox[semsMutex].used = 1)
  BY <1>1 DEF LockInv, TableSide, TableSteps, HoldsTable
<1>3. IsOpen(semsMutex)
  BY DEF MailboxesOwned
<1>4. Affects(semsMutex, {p}) /\ ready \ {p} \subseteq ready'
  BY <1>1, <1>2, SendEffect, ReceiveEffect, ReadyKept DEF TypeOK
<1>5. pc[p] = "c_unlock" => p \in ready'
  BY <1>1, <1>2, <1>3, UnlockTakes
<1>6. /\ val' = val /\ sem' = sem /\ box' = box
      /\ UNCHANGED <<count, mutex, blockingMbox, known>>
      /\ \/ pc[p] = "c_lock" /\ pc'[p] = "c_slot"
         \/ pc[p] = "c_unlock" /\ pc'[p] = "c_ret"
      /\ \A q \in Procs \ {p} : pc'[q] = pc[q]
  BY <1>1 DEF tableVars, seenVars, Goto, TypeOK
<1>7. StepBy(p)
  BY <1>1, <1>4, <1>6 DEF StepBy
<1>8. ProcInv(p)'
  <2>1. ProcInv(p)
    BY DEF CountInv
  <2> QED BY <1>5, <1>6, <2>1
          DEF ProcInv, FreeSteps, PSteps, VSteps, OnMutexSteps, OnBlockingSteps,
              FreshSteps
<1>9. \A h \in Slots : mutex[h] # semsMutex /\ blockingMbox[h] # semsMutex
  BY DEF MailboxesOwned
<1>10. ~HoldsSemaphore(p)'
  BY <1>6 DEF HoldsSemaphore, SemaphoreSteps
<1> QED BY <1>4, <1>6, <1>7, <1>8, <1>9, <1>10, OperationStep

\* MboxSend of semPReal, which always blocks, and MboxCondReceive of semVReal.
LEMMA BlockingStep ==
    ASSUME MInv, NEW p \in Procs, semPBlock(p) \/ semVWake(p)
    PROVE  CountInv'
<1> USE DEF MInv, IInv
<1> DEFINE b == box[p]
<1>1. /\ p \in ready
      /\ \/ pc[p] = "p_block" /\ pc'[p] = "p_check" /\ MboxSend(p, b)
         \/ /\ pc[p] = "v_wake" /\ pc'[p] \in {"v_inc", "v_arg3"}
            /\ MboxCondReceive(b)
      /\ \A q \in Procs \ {p} : pc'[q] = pc[q]
      /\ val' = val /\ sem' = sem /\ box' = box
      /\ UNCHANGED <<count, mutex, blockingMbox, known>>
  <2>1. CASE semPBlock(p)
    BY <2>1 DEF semPBlock, At, Goto, TypeOK, tableVars, seenVars
  <2>2. CASE semVWake(p)
    BY <2>2 DEF semVWake, At, Goto, TypeOK, tableVars, seenVars
  <2> QED BY <2>1, <2>2
<1>2. ProcInv(p)
  BY DEF CountInv
<1>3. /\ sem[p] \in Slots /\ blockingMbox[sem[p]] # EMPTY
      /\ b = blockingMbox[sem[p]] /\ SlotInv(sem[p])
  BY <1>1, <1>2, InsideLemma DEF ProcInv, OnBlockingSteps, PSteps, VSteps, CountInv
<1>4. /\ IsOpen(b) /\ mbox[b].slots = 0 /\ mbox[b].used = 0
      /\ mbox[b].receivers = << >>
      /\ \A h \in Slots : b # mutex[h]
  BY <1>3, SemMailboxes DEF SlotInv, IsOpen
<1>5. CASE MboxSend(p, b) /\ pc[p] = "p_block"
  <2>1. /\ Affects(b, {p}) /\ ready' = ready \ {p}
        /\ mbox'[b].slots = 0 /\ mbox'[b].used = 0 /\ mbox'[b].receivers = << >>
    <3>1. /\ Affects(b, {p})
          /\ mbox'[b].slots = mbox[b].slots
          /\ mbox'[b].receivers = << >>
          /\ \/ mbox[b].used < mbox[b].slots
             \/ mbox'[b].used = mbox[b].used /\ ready' = ready \ {p}
      BY <1>4, <1>5, SendEffect DEF TypeOK
    <3> QED BY <1>4, <3>1
  <2>2. StepBy(p)
    BY <1>1, <2>1 DEF StepBy
  <2>3. ProcInv(p)'
    BY <1>1, <1>2, <1>3, <1>5
       DEF ProcInv, FreeSteps, PSteps, VSteps, OnMutexSteps, OnBlockingSteps,
           FreshSteps
  <2>4. ~HoldsSemaphore(p)'
    BY <1>1, <1>5 DEF HoldsSemaphore, SemaphoreSteps
  <2> QED BY <1>1, <1>4, <2>1, <2>2, <2>3, <2>4, OperationStep
<1>6. CASE MboxCondReceive(b) /\ pc[p] = "v_wake"
  <2>1. Affects(b, {}) /\ ready \subseteq ready'
    BY <1>6, CondReceiveEffect DEF TypeOK, MboxCondReceive, TakeMessage, mailboxVars
  <2>2. mbox'[b].slots = 0 /\ mbox'[b].used = 0 /\ mbox'[b].receivers = << >>
    <3>1. CASE HasMessage(b)
      BY <1>4, <1>6, <3>1, TakeEffect DEF MboxCondReceive, TypeOK
    <3>2. CASE ~HasMessage(b)
      BY <1>4, <1>6, <3>2 DEF MboxCondReceive, mailboxVars
    <3> QED BY <3>1, <3>2
  <2>3. StepBy(p)
    BY <1>1, <2>1 DEF StepBy
  <2>4. ProcInv(p)'
    BY <1>1, <1>2, <1>6, <2>1
       DEF ProcInv, FreeSteps, PSteps, VSteps, OnMutexSteps, OnBlockingSteps,
           FreshSteps
  <2>5. HoldsSemaphore(p)
    BY <1>1, <1>6 DEF HoldsSemaphore, SemaphoreSteps
  <2> QED BY <1>1, <1>4, <2>1, <2>2, <2>3, <2>4, <2>5, OperationStep
<1> QED BY <1>1, <1>5, <1>6

\* lock(sem->mutex): the process has it, or waits for it.
LEMMA MutexLockStep ==
    ASSUME MInv, NEW p \in Procs, Lock(p), pc[p] \in {"p_lock", "v_lock"}
    PROVE  CountInv'
<1> USE DEF MInv, IInv
<1> DEFINE h == sem[p]
           b == mutex[h]
<1>1. /\ p \in ready /\ MboxSend(p, box[p])
      /\ \/ pc[p] = "p_lock" /\ pc'[p] = "p_test"
         \/ pc[p] = "v_lock" /\ pc'[p] = "v_test"
      /\ \A q \in Procs \ {p} : pc'[q] = pc[q]
      /\ val' = val /\ sem' = sem /\ box' = box
      /\ UNCHANGED <<count, mutex, blockingMbox, known>>
  BY DEF Lock, At, LockSteps, After, Goto, TypeOK, tableVars, seenVars
<1>2. ProcInv(p)
  BY DEF CountInv
<1>3. h \in Slots /\ b # EMPTY /\ box[p] = b /\ SlotInv(h)
  BY <1>1, <1>2, InsideLemma DEF ProcInv, OnMutexSteps, PSteps, VSteps, CountInv
<1>4. /\ b \in Boxes /\ IsOpen(b) /\ mbox[b].slots = 1 /\ mbox[b].used <= 1
      /\ mbox[b].receivers = << >> /\ mbox[b].used \in Nat
      /\ \A i \in Slots : b # blockingMbox[i] /\ (b = mutex[i] => i = h)
  BY <1>3, SemMailboxes DEF SlotInv, IsOpen, TypeOK, MailboxTypeOK, Mailbox
<1>5. /\ Affects(b, {p}) /\ ready \ {p} \subseteq ready'
      /\ mbox'[b].slots = 1 /\ mbox'[b].receivers = << >> /\ mbox'[b].used = 1
      /\ \/ mbox[b].used = 0 /\ ready' = ready
         \/ mbox[b].used = 1 /\ ready' = ready \ {p}
  <2>1. /\ Affects(b, {p})
        /\ mbox'[b].slots = mbox[b].slots
        /\ mbox'[b].receivers = << >>
        /\ \/ /\ mbox[b].used < mbox[b].slots
              /\ mbox'[b].used = mbox[b].used + 1
              /\ ready' = ready
           \/ /\ mbox[b].used >= mbox[b].slots
              /\ mbox'[b].used = mbox[b].used
              /\ ready' = ready \ {p}
    BY <1>1, <1>3, <1>4, SendEffect DEF TypeOK
  <2> QED BY <1>4, <2>1
<1>6. StepBy(p)
  BY <1>1, <1>5 DEF StepBy
<1>7. \A q \in Procs : ProcInv(q)'
  <2>1. ProcInv(p)'
    BY <1>1, <1>2 DEF ProcInv, FreeSteps, PSteps, VSteps, OnMutexSteps,
                      OnBlockingSteps, FreshSteps
  <2> QED BY <1>1, <1>6, <2>1, OthersInv DEF CountInv
<1>8. \A i \in Slots :
        /\ mutex[i] # EMPTY /\ i # h => mbox'[mutex[i]] = mbox[mutex[i]]
        /\ blockingMbox[i] # EMPTY =>
                mbox'[blockingMbox[i]] = mbox[blockingMbox[i]]
  BY <1>4, <1>5, SemMailboxes DEF Affects
<1>9. ASSUME NEW i \in Slots
      PROVE  SlotInv(i)'
  <2>1. SlotInv(i)
    BY DEF CountInv
  <2> QED BY <1>1, <1>5, <1>8, <2>1 DEF SlotInv
<1>10. OwnedInv'
  BY <1>1, <1>5, OwnedAside DEF CountInv, Affects
<1>11. \A q \in Procs : HoldsSemaphore(q)' =>
            HoldsSemaphore(q) \/ (q = p /\ mbox[b].used = 0)
  <2> TAKE q \in Procs
  <2> HAVE HoldsSemaphore(q)'
  <2>1. CASE q = p
    BY <1>5, <2>1 DEF HoldsSemaphore
  <2>2. CASE q # p
    BY <1>1, <1>5, <2>2 DEF HoldsSemaphore
  <2> QED BY <2>1, <2>2
<1>12. ASSUME NEW q \in Procs, HoldsSemaphore(q)
       PROVE  /\ sem[q] \in Slots /\ mutex[sem[q]] # EMPTY
              /\ mbox[mutex[sem[q]]].used = 1
              /\ mbox[b].used = 0 => sem[q] # h
  BY <1>12, InsideLemma
     DEF HoldsSemaphore, SemaphoreSteps, PSteps, VSteps, CountInv, HolderInv
<1>13. HolderInv'
  <2>1. \A q \in Procs : HoldsSemaphore(q)' => mbox'[mutex'[sem'[q]]].used = 1
    BY <1>1, <1>5, <1>8, <1>11, <1>12
  <2>2. SemMutexExclusion'
    BY <1>1, <1>11, <1>12 DEF SemMutexExclusion, CountInv, HolderInv
  <2> QED BY <2>1, <2>2 DEF HolderInv
<1> QED BY <1>7, <1>9, <1>10, <1>13 DEF CountInv

\* unlock(sem->mutex): at most the first process that waits gets it.
LEMMA MutexUnlockStep ==
    ASSUME MInv, NEW p \in Procs, Unlock(p), pc[p] \in {"p_unlock", "p_open", "v_unlock"}
    PROVE  CountInv'
<1> USE DEF MInv, IInv
<1> DEFINE h == sem[p]
           b == mutex[h]
<1>1. /\ p \in ready /\ MboxReceive(p, box[p])
      /\ pc'[p] \in {"p_check", "p_arg4", "v_ret"}
      /\ \A q \in Procs \ {p} : pc'[q] = pc[q]
      /\ val' = val /\ sem' = sem /\ box' = box
      /\ UNCHANGED <<count, mutex, blockingMbox, known>>
  BY DEF Unlock, At, UnlockSteps, After, Goto, TypeOK, tableVars, seenVars
<1>2. ProcInv(p) /\ HoldsSemaphore(p)
  BY <1>1 DEF CountInv, HoldsSemaphore, SemaphoreSteps
<1>3. h \in Slots /\ b # EMPTY /\ box[p] = b /\ SlotInv(h)
  BY <1>2, InsideLemma DEF ProcInv, OnMutexSteps, PSteps, VSteps, CountInv
<1>4. /\ b \in Boxes /\ IsOpen(b) /\ mbox[b].slots = 1 /\ mbox[b].used = 1
      /\ mbox[b].receivers = << >>
      /\ \A i \in Slots : b # blockingMbox[i] /\ (b = mutex[i] => i = h)
  BY <1>2, <1>3, SemMailboxes DEF SlotInv, IsOpen, CountInv, HolderInv
<1>5. /\ Affects(b, {}) /\ ready \subseteq ready'
      /\ mbox'[b].slots = 1 /\ mbox'[b].receivers = << >>
      /\ \/ /\ mbox'[b].used = 1
            /\ ready' = ready \cup {Head(mbox[b].senders)}
         \/ /\ mbox'[b].used = 0
            /\ ready' = ready
  <2>1. HasMessage(b) /\ TakeMessage(b) /\ ready \subseteq ready'
    BY <1>1, <1>3, <1>4, UnlockTakes
  <2>2. /\ Affects(b, {})
        /\ mbox'[b].slots = mbox[b].slots
        /\ mbox'[b].receivers = mbox[b].receivers
        /\ \/ /\ mbox'[b].used = mbox[b].used
              /\ ready' = ready \cup {Head(mbox[b].senders)}
           \/ /\ mbox'[b].used = mbox[b].used - 1
              /\ ready' = ready
    BY <2>1, TakeEffect DEF TypeOK
  <2> QED BY <1>4, <2>1, <2>2
<1>6. StepBy(p)
  BY <1>1, <1>5 DEF StepBy
<1>7. \A q \in Procs : ProcInv(q)'
  <2>1. ProcInv(p)'
    BY <1>1, <1>2, <1>5 DEF ProcInv, FreeSteps, PSteps, VSteps, OnMutexSteps,
                            OnBlockingSteps, FreshSteps
  <2> QED BY <1>1, <1>6, <2>1, OthersInv DEF CountInv
<1>8. \A i \in Slots :
        /\ mutex[i] # EMPTY /\ i # h => mbox'[mutex[i]] = mbox[mutex[i]]
        /\ blockingMbox[i] # EMPTY =>
                mbox'[blockingMbox[i]] = mbox[blockingMbox[i]]
  BY <1>4, <1>5, SemMailboxes DEF Affects
<1>9. ASSUME NEW i \in Slots
      PROVE  SlotInv(i)'
  <2>1. SlotInv(i)
    BY DEF CountInv
  <2> QED BY <1>1, <1>5, <1>8, <2>1 DEF SlotInv
<1>10. OwnedInv'
  BY <1>1, <1>5, OwnedAside DEF CountInv, Affects
<1>11. ASSUME NEW q \in Procs, HoldsSemaphore(q)
       PROVE  /\ sem[q] \in Slots /\ mutex[sem[q]] # EMPTY
              /\ mbox[mutex[sem[q]]].used = 1
              /\ q # p => sem[q] # h
  BY <1>2, <1>11, InsideLemma
     DEF HoldsSemaphore, SemaphoreSteps, PSteps, VSteps, CountInv, HolderInv,
         SemMutexExclusion
<1>12. ASSUME NEW q \in Procs, HoldsSemaphore(q)'
       PROVE  /\ q # p
              /\ \/ HoldsSemaphore(q)
                 \/ /\ q = Head(mbox[b].senders) /\ sem[q] = h
                    /\ mbox'[b].used = 1
  <2>1. q # p
    BY <1>1, <1>12 DEF HoldsSemaphore, SemaphoreSteps
  <2>2. pc[q] \in SemaphoreSteps /\ q \in ready'
    BY <1>1, <1>12, <2>1 DEF HoldsSemaphore
  <2>3. CASE q \notin ready
    <3>1. q \in Waiting(b) /\ box[q] = b
      BY <1>5, <2>2, <2>3 DEF Affects, LockInv
    <3>2. pc[q] \in {"p_test", "v_test"} /\ box[q] = mutex[sem[q]]
      BY <2>2, <2>3 DEF CountInv, ProcInv, SemaphoreSteps, OnMutexSteps
    <3>3. sem[q] \in Slots
      BY <3>2, InsideLemma DEF PSteps, VSteps
    <3>4. sem[q] = h
      BY <1>4, <3>1, <3>2, <3>3
    <3> QED BY <1>5, <2>1, <2>2, <2>3, <3>4
  <2> QED BY <2>1, <2>2, <2>3 DEF HoldsSemaphore
<1>13. HolderInv'
  <2>1. \A q \in Procs : HoldsSemaphore(q)' => mbox'[mutex'[sem'[q]]].used = 1
    BY <1>1, <1>8, <1>11, <1>12
  <2>2. SemMutexExclusion'
    BY <1>1, <1>11, <1>12 DEF SemMutexExclusion, CountInv, HolderInv
  <2> QED BY <2>1, <2>2 DEF HolderInv
<1> QED BY <1>7, <1>9, <1>10, <1>13 DEF CountInv

----------------------------------------------------------------------------
(* All steps together.                                                     *)

LEMMA InitCount == Init /\ NothingFreed => MInv
<1> SUFFICES ASSUME Init, NothingFreed PROVE MInv
  OBVIOUS
<1>1. IInv
  BY InitInv
<1>2. \A p \in Procs : ProcInv(p) /\ ~HoldsSemaphore(p)
  BY LabelFacts DEF Init, SemInit, ProcInv, HoldsSemaphore
<1>3. \A h \in Slots : SlotInv(h)
  BY DEF Init, SemInit, SlotInv, EMPTY
<1>4. OwnedInv
  BY DEF Init, ClosedBox, OwnedInv, Owned
<1> QED BY <1>1, <1>2, <1>3, <1>4 DEF MInv, CountInv, HolderInv, SemMutexExclusion

LEMMA NextCount == MInv /\ [Next]_vars => MInv'
<1> SUFFICES ASSUME MInv, [Next]_vars PROVE MInv'
  OBVIOUS
<1>1. IInv'
  BY NextInv DEF MInv
<1>2. ASSUME UNCHANGED <<mailboxVars, tableVars, pc, sem, box, val, known>>
      PROVE  CountInv'
  <2>1. /\ mbox' = mbox /\ ready' = ready /\ count' = count /\ mutex' = mutex
        /\ blockingMbox' = blockingMbox /\ pc' = pc /\ sem' = sem /\ box' = box
        /\ val' = val /\ known' = known
    BY <1>2 DEF mailboxVars, tableVars
  <2>2. \A p \in Procs : ProcInv(p)'
    BY <2>1 DEF MInv, CountInv, ProcInv
  <2>3. \A h \in Slots : SlotInv(h)'
    BY <2>1 DEF MInv, CountInv, SlotInv
  <2>4. OwnedInv' /\ HolderInv'
    BY <2>1 DEF MInv, CountInv, OwnedInv, Owned, HolderInv, HoldsSemaphore,
                SemMutexExclusion
  <2> QED BY <2>2, <2>3, <2>4 DEF CountInv
<1>3. ASSUME NEW p \in Procs, HandlerStep(p)
      PROVE  CountInv'
  <2>1. pc[p] \notin FreeSteps
    BY DEF MInv, CountInv, ProcInv
  <2>2. CASE Lock(p) \/ Unlock(p)
    <3>1. pc[p] \in (LockSteps \cup UnlockSteps) \ FreeSteps
      BY <2>1, <2>2 DEF Lock, Unlock, At
    <3>2. /\ Lock(p) => pc[p] \in LockSteps
          /\ Unlock(p) => pc[p] \in UnlockSteps
      BY DEF Lock, Unlock, At
    <3> QED BY <2>2, <3>1, <3>2, TableMutexStep, MutexLockStep, MutexUnlockStep
            DEF LockSteps, UnlockSteps, FreeSteps
  <2>3. ~(\/ freeSemCount(p) \/ freeSemMutex(p) \/ freeSemMutexId(p)
          \/ freeSemProbe(p) \/ freeSemBlocking(p) \/ freeSemBlockingId(p)
          \/ semFreeCount(p))
    BY <2>1 DEF freeSemCount, freeSemMutex, freeSemMutexId, freeSemProbe,
                freeSemBlocking, freeSemBlockingId, semFreeCount, At, FreeSteps
  <2> QED BY <1>3, <2>2, <2>3, ReadStep, TestStep, ReturnStep, InitCountStep,
             ArithmeticStep, InitMailboxStep, BlockingStep DEF HandlerStep
<1>4. CountInv'
  <2>1. CASE UNCHANGED vars
    BY <1>2, <2>1 DEF vars, seenVars
  <2>2. CASE \E p \in Procs : Zap(p)
    BY <1>2, <2>2 DEF Zap, seenVars
  <2> QED BY <1>3, <2>1, <2>2, CallStep DEF Next
<1> QED BY <1>1, <1>4 DEF MInv, NothingFreed

(* The count of a semaphore is read and written by one process at a time   *)
(* (src/phase3.c:719-728 and 756-773), however many processes there are,   *)
(* whoever is zapped, and whatever MboxCondReceive returns, as long as     *)
(* programs keep to handles that SemCreate returned and free none.         *)
THEOREM CountExclusion == NothingFreed /\ Spec => []SemMutexExclusion
<1>1. NothingFreed /\ Init => MInv
  BY InitCount
<1>2. MInv => SemMutexExclusion
  BY DEF MInv, CountInv, HolderInv
<1> QED BY <1>1, <1>2, NextCount, PTL DEF Spec

----------------------------------------------------------------------------
(* currentNumSems.                                                         *)

LEMMA NumKept ==
    ASSUME NumInv, NEW p \in Procs,
           \A q \in Procs \ {p} : pc'[q] = pc[q],
           pc'[p] \in MakeSteps <=> pc[p] \in MakeSteps,
           currentNumSems' = currentNumSems,
           \A h \in Slots : count'[h] = EMPTY <=> count[h] = EMPTY
    PROVE  NumInv'
<1>1. Making' <=> Making
  BY DEF Making
<1>2. InUse' = InUse
  BY DEF InUse
<1> QED BY <1>1, <1>2 DEF NumInv

\* The processes between count and currentNumSems++ hold semsMutex.
LEMMA MakersHold ==
    ASSUME MInv, NEW p \in Procs, pc[p] \in MakeSteps \cup {"c_count"}
    PROVE  HoldsTable(p) /\ \A q \in Procs \ {p} : pc[q] \notin MakeSteps
<1>1. \A q \in Procs : pc[q] \in MakeSteps \cup {"c_count"} => HoldsTable(q)
  <2> TAKE q \in Procs
  <2>1. ProcInv(q)
    BY DEF MInv, CountInv
  <2> QED BY <2>1 DEF ProcInv, HoldsTable, TableSteps, MakeSteps
<1> QED BY <1>1 DEF MInv, IInv, LockInv, SemsMutexExclusion

\* initSem takes the slot, and semCreateReal counts it afterwards.
LEMMA NumMake ==
    ASSUME MInv, NumInv, NEW p \in Procs, initSemCount(p) \/ semCreateCount(p)
    PROVE  NumInv'
<1> USE DEF MInv, IInv
<1>1. /\ \A q \in Procs \ {p} : pc'[q] = pc[q]
      /\ pc[p] \in MakeSteps \cup {"c_count"}
      /\ \/ /\ initSemCount(p) /\ pc[p] = "c_count" /\ pc'[p] = "c_mutex"
            /\ currentNumSems' = currentNumSems
         \/ /\ semCreateCount(p) /\ pc[p] = "c_num" /\ pc'[p] = "c_unlock"
            /\ currentNumSems' = currentNumSems + 1 /\ count' = count
  BY DEF initSemCount, semCreateCount, At, Goto, TypeOK, MakeSteps
<1>2. /\ \A q \in Procs \ {p} : pc[q] \notin MakeSteps
      /\ currentNumSems \in Int
  BY <1>1, MakersHold DEF TypeOK
<1>3. ProcInv(p)
  BY DEF CountInv
<1>4. CASE initSemCount(p) /\ pc[p] = "c_count" /\ pc'[p] = "c_mutex"
  <2>1. ~Making /\ Making'
    BY <1>1, <1>2, <1>4 DEF Making, MakeSteps
  <2>2. /\ sem[p] \in Slots /\ count[sem[p]] = EMPTY /\ val[p] # EMPTY
        /\ count' = [count EXCEPT ![sem[p]] = val[p]]
    BY <1>3, <1>4, SemStepsLemma DEF ProcInv, initSemCount, SemSteps, EMPTY, TypeOK
  <2>3. InUse' = InUse \cup {sem[p]} /\ sem[p] \notin InUse
    BY <2>2 DEF InUse, TypeOK
  <2>4. IsFiniteSet(InUse)
    <3>1. MAXSEMS - 1 \in Int /\ 0 \in Int
      BY SemaphoreAssumption
    <3>2. IsFiniteSet(Slots)
      BY <3>1, FS_Interval DEF Slots
    <3>3. InUse \in SUBSET Slots
      BY DEF InUse
    <3> QED BY <3>2, <3>3, FS_Subset
  <2>5. Cardinality(InUse') = Cardinality(InUse) + 1
    BY <2>3, <2>4, FS_AddElement
  <2> QED BY <1>1, <1>2, <1>4, <2>1, <2>5 DEF NumInv
<1>5. CASE semCreateCount(p) /\ pc[p] = "c_num" /\ pc'[p] = "c_unlock"
  <2>1. Making /\ ~Making'
    BY <1>1, <1>2, <1>5 DEF Making, MakeSteps
  <2>2. currentNumSems' = currentNumSems + 1 /\ InUse' = InUse
    BY <1>1, <1>5 DEF InUse
  <2> QED BY <1>2, <2>1, <2>2 DEF NumInv
<1> QED BY <1>1, <1>4, <1>5

LEMMA NumSteps ==
    ASSUME MInv, NumInv, NEW p \in Procs, HandlerStep(p)
    PROVE  NumInv'
<1> USE DEF MInv, IInv
<1>1. ProcInv(p)
  BY DEF CountInv
<1>2. CASE Lock(p) \/ Unlock(p) \/ ReadMutex(p) \/ ReadBlockingMbox(p) \/ Return(p)
  <2>1. PICK l \in LockSteps \cup UnlockSteps \cup MutexArgSteps
                   \cup BlockingArgSteps \cup RetSteps,
             m \in {After[k] : k \in LockSteps \cup UnlockSteps \cup MutexArgSteps
                                     \cup BlockingArgSteps} \cup {"user", "quit"} :
            At(p, l) /\ Goto(p, m) /\ UNCHANGED tableVars
    BY <1>2 DEF Lock, Unlock, ReadMutex, ReadBlockingMbox, Return
  <2>2. l \notin MakeSteps /\ m \notin MakeSteps
    BY DEF LockSteps, UnlockSteps, MutexArgSteps, BlockingArgSteps, RetSteps,
           After, MakeSteps
  <2> QED BY <2>1, <2>2, NumKept DEF At, Goto, TypeOK, tableVars
<1>3. CASE \/ getAvailableSemHandle(p)
           \/ semPTest(p) \/ semPBlock(p) \/ semPCheck(p)
           \/ semVTest(p) \/ semVWake(p)
  <2>1. /\ \A q \in Procs \ {p} : pc'[q] = pc[q]
        /\ pc[p] \notin MakeSteps /\ pc'[p] \notin MakeSteps
        /\ UNCHANGED tableVars
    BY <1>3 DEF getAvailableSemHandle, semPTest, semPBlock, semPCheck, semVTest,
                semVWake, At, Goto, TypeOK, MakeSteps
  <2> QED BY <2>1, NumKept DEF tableVars
<1>4. CASE initSemMutex(p) \/ initSemBlocking(p)
  <2>1. /\ \A q \in Procs \ {p} : pc'[q] = pc[q]
        /\ pc[p] \in MakeSteps /\ pc'[p] \in MakeSteps
        /\ count' = count /\ currentNumSems' = currentNumSems
    BY <1>4 DEF initSemMutex, initSemBlocking, At, Goto, TypeOK, MakeSteps
  <2> QED BY <2>1, NumKept
<1>5. CASE semPDecrement(p) \/ semVIncrement(p)
  <2>1. /\ \A q \in Procs \ {p} : pc'[q] = pc[q]
        /\ pc[p] \notin MakeSteps /\ pc'[p] \notin MakeSteps
        /\ currentNumSems' = currentNumSems
        /\ pc[p] \in PSteps \cup VSteps
    BY <1>5 DEF semPDecrement, semVIncrement, At, Goto, TypeOK, MakeSteps, PSteps,
                VSteps
  <2>2. sem[p] \in Slots /\ count[sem[p]] # EMPTY /\ count'[sem[p]] # EMPTY
    <3>1. sem[p] \in Slots /\ count[sem[p]] # EMPTY
      BY <2>1, InsideLemma
    <3>2. CountInv' /\ sem'[p] = sem[p] /\ pc'[p] \in PSteps \cup VSteps
      BY <1>5, ArithmeticStep
         DEF semPDecrement, semVIncrement, Goto, TypeOK, PSteps, VSteps
    <3>3. sem[p] \in known' /\ SlotInv(sem[p])'
      BY <3>1, <3>2 DEF CountInv, ProcInv
    <3> QED BY <3>1, <3>2, <3>3 DEF SlotInv
  <2>3. \A h \in Slots \ {sem[p]} : count'[h] = count[h]
    BY <1>5 DEF semPDecrement, semVIncrement, TypeOK
  <2> QED BY <2>1, <2>2, <2>3, NumKept
<1>6. ~(\/ freeSemCount(p) \/ freeSemMutex(p) \/ freeSemMutexId(p)
        \/ freeSemProbe(p) \/ freeSemBlocking(p) \/ freeSemBlockingId(p)
        \/ semFreeCount(p))
  BY <1>1 DEF ProcInv, freeSemCount, freeSemMutex, freeSemMutexId, freeSemProbe,
              freeSemBlocking, freeSemBlockingId, semFreeCount, At, FreeSteps
<1> QED BY <1>2, <1>3, <1>4, <1>5, <1>6, NumMake DEF HandlerStep

LEMMA InitNum == Init => NumInv
<1> SUFFICES ASSUME Init PROVE NumInv
  OBVIOUS
<1>1. ~Making
  BY DEF Init, Making, MakeSteps
<1>2. InUse = {} /\ currentNumSems = 0
  BY DEF Init, SemInit, InUse
<1> QED BY <1>1, <1>2, FS_EmptySet DEF NumInv

LEMMA NextNum == MInv /\ NumInv /\ [Next]_vars => NumInv'
<1> SUFFICES ASSUME MInv, NumInv, [Next]_vars PROVE NumInv'
  OBVIOUS
<1>1. CASE UNCHANGED vars \/ \E p \in Procs : Zap(p)
  <2>1. UNCHANGED <<pc, count, currentNumSems>>
    BY <1>1 DEF vars, Zap, tableVars
  <2> QED BY <2>1 DEF NumInv, InUse, Making
<1>2. ASSUME NEW p \in Procs, SystemCall(p)
      PROVE  NumInv'
  <2>1. /\ \A q \in Procs \ {p} : pc'[q] = pc[q]
        /\ pc[p] \notin MakeSteps /\ pc'[p] \notin MakeSteps
        /\ UNCHANGED tableVars
    <3>1. pc[p] = "user" /\ UNCHANGED tableVars
      BY <1>2 DEF SystemCall, semCreate, semP, semV, semFree, EnterHandler, At
    <3>2. PICK l \in {"user", "c_lock", "p_arg1", "v_arg1", "f_lock", "undefined"} :
            Goto(p, l) \/ pc' = pc
      BY <1>2 DEF SystemCall, semCreate, semP, semV, semFree, EnterHandler
    <3> QED BY <3>1, <3>2 DEF Goto, MInv, IInv, TypeOK, MakeSteps
  <2> QED BY <2>1, NumKept DEF tableVars
<1> QED BY <1>1, <1>2, NumSteps DEF Next

(* When nobody is inside semCreateReal, currentNumSems, which              *)
(* isSemAvailable reads without a lock (src/phase3utility.c), is the number *)
(* of slots in use: however large the table and whoever is zapped, as long *)
(* as programs free no semaphore.                                          *)
THEOREM CountAccounting == NothingFreed /\ Spec => []TableAccounting
<1>1. NothingFreed /\ Init => MInv /\ NumInv
  BY InitCount, InitNum
<1>2. MInv /\ NumInv /\ [Next]_vars => (MInv /\ NumInv)'
  BY NextCount, NextNum
<1>3. MInv /\ NumInv => TableAccounting
  <2> SUFFICES ASSUME MInv, NumInv, \A p \in Procs : ~HoldsTable(p)
               PROVE  currentNumSems = Cardinality(InUse)
    BY DEF TableAccounting, InUse
  <2>1. ~Making
    BY MakersHold DEF Making
  <2>2. currentNumSems \in Int
    BY DEF MInv, IInv, TypeOK
  <2> QED BY <2>1, <2>2 DEF NumInv
<1> QED BY <1>1, <1>2, <1>3, PTL DEF Spec

----------------------------------------------------------------------------
(* A mutex that is taken has a holder, who will give it back.              *)
HeldInv ==
    \A h \in Slots : mutex[h] # EMPTY /\ mbox[mutex[h]].used = 1 =>
        \E q \in Procs : HoldsSemaphore(q) /\ sem[q] = h

LEMMA InitHeld == Init => HeldInv
BY DEF Init, SemInit, HeldInv

\* A step that takes no mutex, and of which the holder of a mutex stays holder.
LEMMA HeldKept ==
    ASSUME HeldInv, NEW p \in Procs, ready \ {p} \subseteq ready',
           \A q \in Procs \ {p} : pc'[q] = pc[q] /\ sem'[q] = sem[q],
           HoldsSemaphore(p) => HoldsSemaphore(p)' /\ sem'[p] = sem[p],
           \A h \in Slots : (mutex[h] # EMPTY /\ mbox[mutex[h]].used = 1)' =>
                mutex[h] # EMPTY /\ mbox[mutex[h]].used = 1
    PROVE  HeldInv'
<1>1. \A q \in Procs : HoldsSemaphore(q) => HoldsSemaphore(q)' /\ sem'[q] = sem[q]
  BY DEF HoldsSemaphore
<1>2. Slots' = Slots
  BY DEF Slots
<1> QED BY <1>1, <1>2 DEF HeldInv

\* Whoever waits for a mutex waits in lock(sem->mutex) of its semaphore.
LEMMA WaiterOfMutex ==
    ASSUME MInv, NEW h \in Slots, mutex[h] # EMPTY, NEW q \in Waiting(mutex[h])
    PROVE  q \in Procs /\ pc[q] \in {"p_test", "v_test"} /\ sem[q] = h
<1> USE DEF MInv, IInv
<1>1. /\ mutex[h] \in Boxes /\ mutex[h] # semsMutex
      /\ \A i \in Slots : mutex[h] # blockingMbox[i] /\ (mutex[h] = mutex[i] => h = i)
  BY SemMailboxes
<1>2. q \in Procs /\ q \notin ready /\ box[q] = mutex[h]
  BY <1>1, WaitingLemma DEF LockInv, QueuesOK
<1>3. ProcInv(q)
  BY <1>2 DEF CountInv
<1>4. pc[q] # "c_slot"
  BY <1>1, <1>2 DEF LockInv, TableSide, TableSteps
<1>5. pc[q] \in {"p_test", "v_test", "p_check"}
  BY <1>2, <1>3, <1>4 DEF ProcInv
<1>6. sem[q] \in Slots
  BY <1>2, <1>5, InsideLemma DEF PSteps, VSteps
<1> QED BY <1>1, <1>2, <1>3, <1>4, <1>6 DEF ProcInv, OnMutexSteps

\* The steps that touch no mailbox.
LEMMA HeldQuiet ==
    ASSUME MInv, HeldInv, NEW p \in Procs,
           \/ ReadMutex(p) \/ ReadBlockingMbox(p) \/ Return(p) \/ SystemCall(p)
           \/ getAvailableSemHandle(p) \/ initSemCount(p) \/ semCreateCount(p)
           \/ semPTest(p) \/ semPDecrement(p) \/ semPCheck(p)
           \/ semVTest(p) \/ semVIncrement(p)
    PROVE  HeldInv'
<1> USE DEF MInv, IInv
<1>1. \/ ReadMutex(p) \/ ReadBlockingMbox(p) \/ Return(p) \/ SystemCall(p)
      \/ getAvailableSemHandle(p) \/ initSemCount(p) \/ semCreateCount(p)
      \/ semPTest(p) \/ semPDecrement(p) \/ semPCheck(p)
      \/ semVTest(p) \/ semVIncrement(p)
  OBVIOUS
<1>2. mbox' = mbox /\ ready' = ready /\ mutex' = mutex
  <2>1. CASE SystemCall(p)
    BY <2>1 DEF SystemCall, semCreate, semP, semV, semFree, EnterHandler,
                mailboxVars, tableVars
  <2>2. CASE ~SystemCall(p)
    BY <1>1, <2>2
       DEF ReadMutex, ReadBlockingMbox, Return, getAvailableSemHandle, initSemCount,
           semCreateCount, semPTest, semPDecrement, semPCheck, semVTest,
           semVIncrement, mailboxVars, tableVars
  <2> QED BY <2>1, <2>2
<1>3. /\ \A q \in Procs \ {p} : pc'[q] = pc[q] /\ sem'[q] = sem[q]
      /\ pc[p] \in SemaphoreSteps => pc'[p] \in SemaphoreSteps /\ sem'[p] = sem[p]
  <2>1. CASE ReadMutex(p) \/ ReadBlockingMbox(p)
    <3>1. PICK l \in MutexArgSteps \cup BlockingArgSteps :
            pc[p] = l /\ Goto(p, After[l]) /\ sem' = sem
      BY <2>1 DEF ReadMutex, ReadBlockingMbox, At
    <3> QED BY <3>1, LabelFacts DEF Goto, TypeOK
  <2>2. CASE Return(p)
    <3>1. PICK l \in RetSteps :
            /\ pc[p] = l /\ Goto(p, IF p \in zapped THEN "quit" ELSE "user")
            /\ sem' = [sem EXCEPT ![p] = EMPTY]
      BY <2>2 DEF Return, At
    <3> QED BY <3>1 DEF Goto, TypeOK, RetSteps, SemaphoreSteps
  <2>3. CASE SystemCall(p)
    <3>1. pc[p] = "user"
      BY <2>3 DEF SystemCall, semCreate, semP, semV, semFree, EnterHandler, At
    <3>2. /\ pc' = pc \/ \E l : Goto(p, l)
          /\ sem' = sem \/ \E h : sem' = [sem EXCEPT ![p] = h]
      BY <2>3 DEF SystemCall, semCreate, semP, semV, semFree, EnterHandler
    <3> QED BY <3>1, <3>2 DEF Goto, TypeOK, SemaphoreSteps
  <2>4. CASE getAvailableSemHandle(p) \/ initSemCount(p) \/ semCreateCount(p)
    BY <2>4 DEF getAvailableSemHandle, initSemCount, semCreateCount, At, Goto, TypeOK,
                SemaphoreSteps
  <2>5. CASE semPTest(p) \/ semPDecrement(p) \/ semVTest(p) \/ semVIncrement(p)
    BY <2>5 DEF semPTest, semPDecrement, semVTest, semVIncrement, At, Goto, TypeOK,
                SemaphoreSteps
  <2>6. CASE semPCheck(p)
    BY <2>6 DEF semPCheck, At, Goto, TypeOK, SemaphoreSteps
  <2> QED BY <1>1, <2>1, <2>2, <2>3, <2>4, <2>5, <2>6
<1>4. HoldsSemaphore(p) => HoldsSemaphore(p)' /\ sem'[p] = sem[p]
  BY <1>2, <1>3 DEF HoldsSemaphore
<1> QED BY <1>2, <1>3, <1>4, HeldKept

\* A new mailbox is empty.
LEMMA HeldMake ==
    ASSUME MInv, HeldInv, NEW p \in Procs, initSemMutex(p) \/ initSemBlocking(p)
    PROVE  HeldInv'
<1> USE DEF MInv, IInv
<1> DEFINE h == sem[p]
<1>1. PICK id \in Boxes \cup {EMPTY}, slots \in {0, 1} :
        /\ MboxCreate(slots, id)
        /\ mutex' = [mutex EXCEPT ![h] = id] \/ mutex' = mutex
  BY DEF initSemMutex, initSemBlocking
<1>2. /\ sem' = sem /\ pc[p] \in {"c_mutex", "c_block"}
      /\ \A q \in Procs \ {p} : pc'[q] = pc[q]
  BY DEF initSemMutex, initSemBlocking, At, Goto, TypeOK
<1>3. h \in Slots /\ ProcInv(p)
  BY <1>2, SemStepsLemma DEF SemSteps, CountInv
<1>4. mutex[h] = EMPTY \/ blockingMbox[h] = EMPTY
  BY <1>2, <1>3 DEF ProcInv
<1>5. /\ id \in Boxes /\ ready' = ready
      /\ mbox'[id] = NewBox(slots)
      /\ \A b \in Boxes \ {id} : mbox'[b] = mbox[b]
  BY <1>1, <1>3, <1>4, NewMailbox
<1>6. ASSUME NEW i \in Slots, (mutex[i] # EMPTY /\ mbox[mutex[i]].used = 1)'
      PROVE  mutex[i] # EMPTY /\ mbox[mutex[i]].used = 1
  <2>1. mutex'[i] # id /\ mutex'[i] # EMPTY
    BY <1>5, <1>6 DEF NewBox
  <2>2. mutex'[i] = mutex[i]
    BY <1>1, <1>3, <2>1 DEF TypeOK
  <2>3. mutex[i] \in Boxes
    BY <2>1, <2>2, SemMailboxes
  <2> QED BY <1>5, <1>6, <2>1, <2>2, <2>3
<1>7. ~HoldsSemaphore(p)
  BY <1>2 DEF HoldsSemaphore, SemaphoreSteps
<1> QED BY <1>2, <1>5, <1>6, <1>7, HeldKept

\* An operation on semsMutex or on a blockingMbox.
LEMMA HeldAside ==
    ASSUME MInv, HeldInv, NEW p \in Procs, NEW b, NEW W, Affects(b, W),
           ready \ {p} \subseteq ready',
           \A q \in Procs \ {p} : pc'[q] = pc[q],
           sem' = sem, mutex' = mutex,
           \A h \in Slots : mutex[h] # EMPTY => b # mutex[h],
           HoldsSemaphore(p) => HoldsSemaphore(p)'
    PROVE  HeldInv'
<1>1. \A h \in Slots : mutex[h] # EMPTY => mbox'[mutex[h]] = mbox[mutex[h]]
  BY SemMailboxes DEF Affects, MInv, IInv
<1> QED BY <1>1, HeldKept

LEMMA HeldTable ==
    ASSUME MInv, HeldInv, NEW p \in Procs, Lock(p) \/ Unlock(p),
           pc[p] \in {"c_lock", "c_unlock"}
    PROVE  HeldInv'
<1> USE DEF MInv, IInv
<1>1. /\ \/ MboxSend(p, box[p]) /\ pc[p] = "c_lock"
         \/ MboxReceive(p, box[p]) /\ pc[p] = "c_unlock"
      /\ \A q \in Procs \ {p} : pc'[q] = pc[q]
      /\ sem' = sem /\ mutex' = mutex
  BY DEF Lock, Unlock, At, LockSteps, UnlockSteps, After, tableVars, Goto, TypeOK
<1>2. box[p] = semsMutex
  BY <1>1 DEF LockInv, TableSide, TableSteps
<1>3. IsOpen(semsMutex) /\ \A h \in Slots : mutex[h] # semsMutex
  BY DEF MailboxesOwned
<1>4. Affects(semsMutex, {p}) /\ ready \ {p} \subseteq ready'
  BY <1>1, <1>2, <1>3, SendEffect, ReceiveEffect, ReadyKept DEF TypeOK
<1>5. ~HoldsSemaphore(p)
  BY <1>1 DEF HoldsSemaphore, SemaphoreSteps
<1> QED BY <1>1, <1>3, <1>4, <1>5, HeldAside

LEMMA HeldBlocking ==
    ASSUME MInv, HeldInv, NEW p \in Procs, semPBlock(p) \/ semVWake(p)
    PROVE  HeldInv'
<1> USE DEF MInv, IInv
<1> DEFINE b == box[p]
<1>1. /\ \/ pc[p] = "p_block" /\ MboxSend(p, b)
         \/ /\ pc[p] = "v_wake" /\ pc'[p] \in {"v_inc", "v_arg3"}
            /\ MboxCondReceive(b)
      /\ \A q \in Procs \ {p} : pc'[q] = pc[q]
      /\ sem' = sem /\ mutex' = mutex
  <2>1. CASE semPBlock(p)
    BY <2>1 DEF semPBlock, At, Goto, TypeOK, tableVars
  <2>2. CASE semVWake(p)
    BY <2>2 DEF semVWake, At, Goto, TypeOK, tableVars
  <2> QED BY <2>1, <2>2
<1>2. ProcInv(p)
  BY DEF CountInv
<1>3. /\ sem[p] \in Slots /\ blockingMbox[sem[p]] # EMPTY
      /\ b = blockingMbox[sem[p]] /\ SlotInv(sem[p])
  BY <1>1, <1>2, InsideLemma DEF ProcInv, OnBlockingSteps, PSteps, VSteps, CountInv
<1>4. /\ IsOpen(b) /\ mbox[b].receivers = << >>
      /\ \A h \in Slots : b # mutex[h]
  BY <1>3, SemMailboxes DEF SlotInv, IsOpen
<1>5. CASE pc[p] = "p_block" /\ MboxSend(p, b)
  <2>1. Affects(b, {p}) /\ ready \ {p} \subseteq ready'
    BY <1>4, <1>5, SendEffect, ReadyKept DEF TypeOK
  <2>2. ~HoldsSemaphore(p)
    BY <1>5 DEF HoldsSemaphore, SemaphoreSteps
  <2> QED BY <1>1, <1>4, <2>1, <2>2, HeldAside
<1>6. CASE pc[p] = "v_wake" /\ pc'[p] \in {"v_inc", "v_arg3"} /\ MboxCondReceive(b)
  <2>1. Affects(b, {}) /\ ready \subseteq ready'
    BY <1>6, CondReceiveEffect DEF TypeOK, MboxCondReceive, TakeMessage, mailboxVars
  <2>2. HoldsSemaphore(p) => HoldsSemaphore(p)'
    BY <1>6, <2>1 DEF HoldsSemaphore, SemaphoreSteps
  <2> QED BY <1>1, <1>4, <2>1, <2>2, HeldAside
<1> QED BY <1>1, <1>5, <1>6

\* lock(sem->mutex): a process that finds the mutex free is the holder.
LEMMA HeldLock ==
    ASSUME MInv, HeldInv, NEW p \in Procs, Lock(p), pc[p] \in {"p_lock", "v_lock"}
    PROVE  HeldInv'
<1> USE DEF MInv, IInv
<1> DEFINE h == sem[p]
           b == mutex[h]
<1>1. /\ p \in ready /\ MboxSend(p, box[p])
      /\ pc'[p] \in {"p_test", "v_test"}
      /\ \A q \in Procs \ {p} : pc'[q] = pc[q]
      /\ sem' = sem /\ mutex' = mutex
  BY DEF Lock, At, LockSteps, After, Goto, TypeOK, tableVars
<1>2. ProcInv(p)
  BY DEF CountInv
<1>3. h \in Slots /\ b # EMPTY /\ box[p] = b /\ SlotInv(h)
  BY <1>1, <1>2, InsideLemma DEF ProcInv, OnMutexSteps, PSteps, VSteps, CountInv
<1>4. /\ b \in Boxes /\ IsOpen(b) /\ mbox[b].slots = 1 /\ mbox[b].used <= 1
      /\ mbox[b].receivers = << >> /\ mbox[b].used \in Nat
      /\ \A i \in Slots : b = mutex[i] => i = h
  BY <1>3, SemMailboxes DEF SlotInv, IsOpen, TypeOK, MailboxTypeOK, Mailbox
<1>5. /\ Affects(b, {p}) /\ ready \ {p} \subseteq ready'
      /\ mbox[b].used = 1 \/ ready' = ready
  <2>1. /\ Affects(b, {p})
        /\ mbox[b].used >= 1 \/ ready' = ready
    BY <1>1, <1>3, <1>4, SendEffect DEF TypeOK
  <2> QED BY <1>1, <1>3, <1>4, <2>1, ReadyKept
<1>6. ~HoldsSemaphore(p)
  BY <1>1, <1>2 DEF Lock, At, LockSteps, HoldsSemaphore, SemaphoreSteps
<1>7. ASSUME NEW i \in Slots, (mutex[i] # EMPTY /\ mbox[mutex[i]].used = 1)',
             i # h \/ mbox[b].used = 1
      PROVE  \E q \in Procs : HoldsSemaphore(q)' /\ sem'[q] = i
  <2>1. mutex[i] # EMPTY /\ mbox[mutex[i]].used = 1
    BY <1>1, <1>3, <1>4, <1>5, <1>7, SemMailboxes DEF Affects
  <2>2. PICK q \in Procs : HoldsSemaphore(q) /\ sem[q] = i
    BY <2>1 DEF HeldInv
  <2> QED BY <1>1, <1>5, <1>6, <2>2 DEF HoldsSemaphore
<1>8. mbox[b].used # 1 => HoldsSemaphore(p)' /\ sem'[p] = h
  BY <1>1, <1>5 DEF HoldsSemaphore, SemaphoreSteps
<1>9. Slots' = Slots
  BY DEF Slots
<1> QED BY <1>7, <1>8, <1>9 DEF HeldInv

\* unlock(sem->mutex): the first process that waits is the next holder.
LEMMA HeldUnlock ==
    ASSUME MInv, HeldInv, NEW p \in Procs, Unlock(p),
           pc[p] \in {"p_unlock", "p_open", "v_unlock"}
    PROVE  HeldInv'
<1> USE DEF MInv, IInv
<1> DEFINE h == sem[p]
           b == mutex[h]
<1>1. /\ p \in ready /\ MboxReceive(p, box[p])
      /\ \A q \in Procs \ {p} : pc'[q] = pc[q]
      /\ sem' = sem /\ mutex' = mutex
  BY DEF Unlock, At, Goto, TypeOK, tableVars
<1>2. ProcInv(p) /\ HoldsSemaphore(p)
  BY <1>1 DEF CountInv, HoldsSemaphore, SemaphoreSteps
<1>3. h \in Slots /\ b # EMPTY /\ box[p] = b /\ SlotInv(h)
  BY <1>2, InsideLemma DEF ProcInv, OnMutexSteps, PSteps, VSteps, CountInv
<1>4. /\ b \in Boxes /\ IsOpen(b) /\ mbox[b].used = 1
      /\ \A i \in Slots : b = mutex[i] => i = h
  BY <1>2, <1>3, SemMailboxes DEF IsOpen, CountInv, HolderInv
<1>5. TakeMessage(b) /\ Affects(b, {}) /\ ready \subseteq ready'
  <2>1. HasMessage(b) /\ TakeMessage(b) /\ ready \subseteq ready'
    BY <1>1, <1>3, <1>4, UnlockTakes
  <2> QED BY <2>1, TakeEffect DEF TypeOK
<1>6. ASSUME NEW i \in Slots \ {h}, (mutex[i] # EMPTY /\ mbox[mutex[i]].used = 1)'
      PROVE  \E q \in Procs : HoldsSemaphore(q)' /\ sem'[q] = i
  <2>1. mutex[i] # EMPTY /\ mbox[mutex[i]].used = 1
    BY <1>1, <1>3, <1>4, <1>5, <1>6, SemMailboxes DEF Affects
  <2>2. PICK q \in Procs : HoldsSemaphore(q) /\ sem[q] = i
    BY <2>1 DEF HeldInv
  <2>3. q # p
    BY <2>2
  <2> QED BY <1>1, <1>5, <2>2, <2>3 DEF HoldsSemaphore
<1>7. ASSUME mbox'[b].used = 1
      PROVE  \E q \in Procs : HoldsSemaphore(q)' /\ sem'[q] = h
  <2>1. mbox[b].senders # << >> /\ ready' = ready \cup {Head(mbox[b].senders)}
    <3>1. mbox \in [Boxes -> Mailbox]
      BY DEF TypeOK, MailboxTypeOK
    <3>2. mbox' = [mbox EXCEPT ![b].used = @ - 1] => mbox'[b].used = 0
      BY <1>4, <3>1
    <3> QED BY <1>5, <1>7, <3>2 DEF TakeMessage
  <2> DEFINE q == Head(mbox[b].senders)
  <2>2. q \in Waiting(b)
    <3>1. mbox[b].senders \in Seq(Procs)
      BY <1>4 DEF TypeOK, MailboxTypeOK, Mailbox
    <3> QED BY <2>1, <3>1 DEF Waiting, Members
  <2>3. q \in Procs /\ pc[q] \in {"p_test", "v_test"} /\ sem[q] = h
    BY <1>3, <2>2, WaiterOfMutex
  <2>4. q # p
    BY <2>3
  <2> QED BY <1>1, <2>1, <2>3, <2>4 DEF HoldsSemaphore, SemaphoreSteps
<1>8. Slots' = Slots
  BY DEF Slots
<1> QED BY <1>1, <1>6, <1>7, <1>8 DEF HeldInv

LEMMA NextHeld == MInv /\ HeldInv /\ [Next]_vars => HeldInv'
<1> SUFFICES ASSUME MInv, HeldInv, [Next]_vars PROVE HeldInv'
  OBVIOUS
<1>1. CASE UNCHANGED vars \/ \E p \in Procs : Zap(p)
  <2>1. UNCHANGED <<mbox, ready, mutex, pc, sem>>
    BY <1>1 DEF vars, Zap, tableVars, mailboxVars
  <2> QED BY <2>1 DEF HeldInv, HoldsSemaphore
<1>2. ASSUME NEW p \in Procs, HandlerStep(p)
      PROVE  HeldInv'
  <2>1. pc[p] \notin FreeSteps
    BY DEF MInv, CountInv, ProcInv
  <2>2. CASE Lock(p) \/ Unlock(p)
    <3>1. pc[p] \in (LockSteps \cup UnlockSteps) \ FreeSteps
      BY <2>1, <2>2 DEF Lock, Unlock, At
    <3>2. /\ Lock(p) => pc[p] \in LockSteps
          /\ Unlock(p) => pc[p] \in UnlockSteps
      BY DEF Lock, Unlock, At
    <3> QED BY <2>2, <3>1, <3>2, HeldTable, HeldLock, HeldUnlock
            DEF LockSteps, UnlockSteps, FreeSteps
  <2>3. ~(\/ freeSemCount(p) \/ freeSemMutex(p) \/ freeSemMutexId(p)
          \/ freeSemProbe(p) \/ freeSemBlocking(p) \/ freeSemBlockingId(p)
          \/ semFreeCount(p))
    BY <2>1 DEF freeSemCount, freeSemMutex, freeSemMutexId, freeSemProbe,
                freeSemBlocking, freeSemBlockingId, semFreeCount, At, FreeSteps
  <2> QED BY <1>2, <2>2, <2>3, HeldQuiet, HeldMake, HeldBlocking DEF HandlerStep
<1> QED BY <1>1, <1>2, HeldQuiet DEF Next
=============================================================================
