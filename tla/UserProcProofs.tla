-------------------------- MODULE UserProcProofs --------------------------
(***************************************************************************)
(* Theorems about the user processes, for every number of processes and    *)
(* mailboxes and whatever the programs call: types, the mutual exclusion   *)
(* on ProcTable, and the handshake between spawnReal and spawnLaunch, by   *)
(* which a process runs the program that it was spawned for and the        *)
(* mailboxes of handshakes are all released.                               *)
(***************************************************************************)
EXTENDS UserProcs, MailboxProofs, FiniteSetTheorems

(* While terminateReal is in its loop, it has a child.                     *)
LoopSteps == {"z_lock", "z_pid", "z_unlock", "z_zap", "z_wait", "n_lock", "n_next"}

ZapInv == \A p \in Procs : pc[p] \in LoopSteps => childToZap[p] # NULL

TypeInv == TypeOK /\ QueuesOK /\ ZapInv

(* What keeps two processes out of ProcTable.  The mailbox ProcTableMutex  *)
(* holds a message while a process is inside, nobody waits to receive from *)
(* it, and nobody releases it: it is not the mailbox of any handshake.  A  *)
(* process that is blocked on the way in waits on this mailbox, so that    *)
(* the message of another mailbox does not let it in.                      *)
LockInv ==
    /\ mbox[ProcTableMutex].open
    /\ mbox[ProcTableMutex].slots = 1
    /\ mbox[ProcTableMutex].used <= 1
    /\ mbox[ProcTableMutex].receivers = << >>
    /\ \A p \in Procs :
        /\ mboxID[p] # ProcTableMutex
        /\ pc[p] \in InsideSteps /\ p \notin ready => p \in Waiting(ProcTableMutex)
        /\ HoldsProcTable(p) => mbox[ProcTableMutex].used = 1
    /\ ProcTableExclusion

IInv == TypeInv /\ LockInv

----------------------------------------------------------------------------
(* Types.                                                                  *)

LEMMA SlotLemma == \A id \in Int : Slot(id) \in Procs
BY UserProcsAssumption DEF Slot

(* Where lock and unlock lead: to a label, and into the loop of            *)
(* terminateReal only from the loop, or with a child.                      *)
LEMMA LabelsLemma ==
    /\ \A l \in LockSteps : AfterLock[l] \in Labels
    /\ \A l \in LockSteps : AfterLock[l] \in LoopSteps => l \in LoopSteps
    /\ LoopSteps \subseteq Labels
BY DEF LockSteps, AfterLock, Labels, SpawnSteps, LaunchSteps, TerminateSteps,
       LoopSteps

LEMMA UnlockLabels ==
    ASSUME NEW p \in Procs, NEW l \in UnlockSteps
    PROVE  /\ AfterUnlock(p)[l] \in Labels
           /\ AfterUnlock(p)[l] \in LoopSteps =>
                l \in LoopSteps \/ childToZap[p] # NULL
BY DEF UnlockSteps, AfterUnlock, Labels, SpawnSteps, LaunchSteps, TerminateSteps,
       LoopSteps

LEMMA InitTypes == Init => TypeInv
<1> SUFFICES ASSUME Init PROVE TypeInv
  OBVIOUS
<1> USE UserProcsAssumption, MailboxAssumption
<1>1. NewBox(1) \in Mailbox /\ ClosedBox \in Mailbox
  BY DEF NewBox, ClosedBox, Mailbox
<1>2. MailboxTypeOK
  BY <1>1 DEF Init, ProcInit, ProcTableMutexSlots, MailboxTypeOK
<1>3. \A b \in Boxes : mbox[b].senders = << >> /\ mbox[b].receivers = << >>
  BY DEF Init, NewBox, ClosedBox
<1>4. QueuesOK
  <2>1. \A b \in Boxes : Waiting(b) = {}
    BY <1>3 DEF Waiting, Members
  <2>2. \A b \in Boxes : ~mbox[b].open => mbox[b] = ClosedBox
    BY DEF Init, NewBox
  <2>3. NoRepeats(<< >>)
    BY DEF NoRepeats
  <2> QED BY <1>3, <2>1, <2>2, <2>3 DEF QueuesOK
<1>5. /\ kpid \in [Procs -> Nat \cup {EMPTY}]
      /\ nextPid \in Nat
  BY DEF Init, ProcInit
<1>6. pc \in [Procs -> Labels]
  BY DEF Init, ProcInit, Labels, SpawnSteps
<1>8. /\ kstate \in [Procs -> {"free", "active", "quit"}]
      /\ halted \in BOOLEAN
      /\ zapped \subseteq Procs
  BY DEF Init, ProcInit
<1>9. TypeOK
  BY <1>2, <1>5, <1>6, <1>8 DEF Init, ProcInit, TypeOK
<1>7. ZapInv
  BY DEF Init, ProcInit, ZapInv, LoopSteps
<1> QED BY <1>4, <1>7, <1>9 DEF TypeInv

(* The steps on the lock and on the mailbox of a handshake.                *)
LEMMA LockTypes ==
    ASSUME TypeInv, NEW p \in Procs, Lock(p)
    PROVE  TypeInv'
<1>1. PICK l \in LockSteps :
        /\ At(p, l)
        /\ MboxSend(p, ProcTableMutex)
        /\ Goto(p, AfterLock[l])
        /\ UNCHANGED <<kernelVars, tableVars, localVars>>
  BY DEF Lock
<1>2. MailboxTypeOK' /\ QueuesOK'
  BY <1>1, SendLemma DEF TypeInv, TypeOK, At
<1>3. TypeOK'
  BY <1>1, <1>2, LabelsLemma
     DEF TypeInv, TypeOK, Goto, kernelVars, tableVars, localVars
<1>4. ZapInv'
  BY <1>1, LabelsLemma DEF TypeInv, TypeOK, ZapInv, At, Goto, localVars
<1> QED BY <1>2, <1>3, <1>4 DEF TypeInv

LEMMA UnlockTypes ==
    ASSUME TypeInv, NEW p \in Procs, Unlock(p)
    PROVE  TypeInv'
<1>1. PICK l \in UnlockSteps :
        /\ At(p, l)
        /\ MboxReceive(p, ProcTableMutex)
        /\ Goto(p, AfterUnlock(p)[l])
        /\ UNCHANGED <<kernelVars, tableVars, localVars>>
  BY DEF Unlock
<1>2. MailboxTypeOK' /\ QueuesOK'
  BY <1>1, ReceiveLemma DEF TypeInv, TypeOK, At
<1>3. TypeOK'
  BY <1>1, <1>2, UnlockLabels
     DEF TypeInv, TypeOK, Goto, kernelVars, tableVars, localVars
<1>4. ZapInv'
  BY <1>1, UnlockLabels DEF TypeInv, TypeOK, ZapInv, At, Goto, localVars
<1> QED BY <1>2, <1>3, <1>4 DEF TypeInv

LEMMA HandshakeTypes ==
    ASSUME TypeInv, NEW p \in Procs,
           \/ SpawnCreate(p) \/ SpawnRelease(p) \/ SpawnSend(p)
           \/ LaunchReceive(p) \/ LaunchRelease(p)
    PROVE  TypeInv'
<1> USE DEF At, Goto, kernelVars, tableVars, localVars
<1>1. CASE SpawnCreate(p)
  <2>1. PICK id \in Boxes \cup {EMPTY} :
            /\ MboxCreate(1, id)
            /\ mboxID' = [mboxID EXCEPT ![p] = id]
    BY <1>1 DEF SpawnCreate
  <2>2. MailboxTypeOK' /\ QueuesOK'
    BY <2>1, CreateLemma DEF TypeInv, TypeOK
  <2>3. TypeOK' /\ ZapInv'
    BY <1>1, <2>1, <2>2
       DEF SpawnCreate, TypeInv, TypeOK, ZapInv, Labels, SpawnSteps, LoopSteps
  <2> QED BY <2>2, <2>3 DEF TypeInv
<1>2. CASE SpawnRelease(p)
  <2>1. MailboxTypeOK' /\ QueuesOK'
    BY <1>2, ReleaseLemma DEF SpawnRelease, TypeInv, TypeOK
  <2>2. TypeOK' /\ ZapInv'
    BY <1>2, <2>1
       DEF SpawnRelease, TypeInv, TypeOK, ZapInv, Labels, LoopSteps
  <2> QED BY <2>1, <2>2 DEF TypeInv
<1>3. CASE SpawnSend(p)
  <2>1. MailboxTypeOK' /\ QueuesOK'
    BY <1>3, SendLemma DEF SpawnSend, TypeInv, TypeOK
  <2>2. TypeOK' /\ ZapInv'
    BY <1>3, <2>1 DEF SpawnSend, TypeInv, TypeOK, ZapInv, Labels, LoopSteps
  <2> QED BY <2>1, <2>2 DEF TypeInv
<1>4. CASE LaunchReceive(p)
  <2>1. MailboxTypeOK' /\ QueuesOK'
    BY <1>4, ReceiveLemma DEF LaunchReceive, TypeInv, TypeOK
  <2>2. TypeOK' /\ ZapInv'
    BY <1>4, <2>1
       DEF LaunchReceive, TypeInv, TypeOK, ZapInv, Labels, LaunchSteps, LoopSteps
  <2> QED BY <2>1, <2>2 DEF TypeInv
<1>5. CASE LaunchRelease(p)
  <2>1. MailboxTypeOK' /\ QueuesOK'
    BY <1>5, ReleaseLemma DEF LaunchRelease, TypeInv, TypeOK
  <2>2. TypeOK' /\ ZapInv'
    BY <1>5, <2>1
       DEF LaunchRelease, TypeInv, TypeOK, ZapInv, Labels, LaunchSteps, LoopSteps
  <2> QED BY <2>1, <2>2 DEF TypeInv
<1> QED BY <1>1, <1>2, <1>3, <1>4, <1>5

(* The other steps of Spawn.                                               *)
LEMMA ForkTypes ==
    ASSUME TypeInv, NEW p \in Procs, SpawnFork(p)
    PROVE  TypeInv'
<1>1. MailboxTypeOK' /\ QueuesOK'
  BY StutterLemma DEF SpawnFork, TypeInv, TypeOK
<1>2. ASSUME NEW id \in nextPid .. nextPid + MAXPROC - 1,
             kstate' = [kstate EXCEPT ![Slot(id)] = "active"],
             kpid' = [kpid EXCEPT ![Slot(id)] = id],
             kparent' = [kparent EXCEPT ![Slot(id)] = p],
             nextPid' = id + 1,
             newPid' = [newPid EXCEPT ![p] = id],
             mboxID' = [mboxID EXCEPT ![Slot(id)] = mboxID[p]],
             pc' = [pc EXCEPT ![p] = "s_lock", ![Slot(id)] = "l_receive"],
             UNCHANGED halted
      PROVE  TypeInv'
  <2>1. id \in Nat /\ Slot(id) \in Procs
    BY <1>2, SlotLemma, UserProcsAssumption DEF TypeInv, TypeOK
  <2>2. {"s_lock", "l_receive"} \subseteq Labels \ LoopSteps
    BY DEF Labels, SpawnSteps, LaunchSteps, LoopSteps
  <2>3. pc' \in [Procs -> Labels]
    BY <1>2, <2>2 DEF TypeInv, TypeOK
  <2>4. ZapInv'
    BY <1>2, <2>2 DEF SpawnFork, TypeInv, TypeOK, ZapInv
  <2>5. /\ kstate' \in [Procs -> {"free", "active", "quit"}]
        /\ kpid' \in [Procs -> Nat \cup {EMPTY}]
        /\ kparent' \in [Procs -> Procs \cup {NULL}]
    BY <1>2, <2>1 DEF TypeInv, TypeOK
  <2>6. /\ nextPid' \in Nat
        /\ newPid' \in [Procs -> Nat \cup {EMPTY}]
        /\ mboxID' \in [Procs -> Boxes \cup {EMPTY}]
    BY <1>2, <2>1 DEF TypeInv, TypeOK
  <2>7. TypeOK'
    BY <1>1, <1>2, <2>3, <2>5, <2>6 DEF SpawnFork, TypeInv, TypeOK, tableVars
  <2> QED BY <1>1, <2>4, <2>7 DEF TypeInv
<1>3. ASSUME Goto(p, "s_release") \/ (pc' = pc /\ halted' = TRUE),
             UNCHANGED <<kstate, kpid, kparent, nextPid, newPid, mboxID>>,
             halted' \in BOOLEAN
      PROVE  TypeInv'
  <2>1. "s_release" \in Labels \ LoopSteps
    BY DEF Labels, SpawnSteps, LoopSteps
  <2>2. pc' \in [Procs -> Labels] /\ ZapInv'
    BY <1>3, <2>1 DEF SpawnFork, TypeInv, TypeOK, ZapInv, Goto
  <2>3. TypeOK'
    BY <1>1, <1>3, <2>2 DEF SpawnFork, TypeInv, TypeOK, tableVars
  <2> QED BY <1>1, <2>2, <2>3 DEF TypeInv
<1> QED BY <1>2, <1>3 DEF SpawnFork, TypeInv, TypeOK

LEMMA SpawnTableTypes ==
    ASSUME TypeInv, NEW p \in Procs,
           SpawnInit(p) \/ addChild(p) \/ SpawnParent(p)
    PROVE  TypeInv'
<1> USE DEF At, Goto, kernelVars, tableVars, localVars
<1>1. MailboxTypeOK' /\ QueuesOK'
  BY StutterLemma DEF SpawnInit, addChild, SpawnParent, TypeInv, TypeOK
<1>2. newPid[p] \in Nat \cup {NULL} /\ Slot(newPid[p]) \in Procs
  BY SlotLemma DEF TypeInv, TypeOK, EMPTY, NULL
<1>3. EMPTY = NULL
  BY DEF EMPTY, NULL
<1>4. {"s_link", "s_parent", "s_unlock"} \subseteq Labels \ LoopSteps
  BY DEF Labels, SpawnSteps, LoopSteps
<1>5. ZapInv'
  BY <1>4 DEF SpawnInit, addChild, SpawnParent, TypeInv, TypeOK, ZapInv
<1>6. CASE SpawnInit(p)
  BY <1>1, <1>2, <1>3, <1>4, <1>5, <1>6 DEF SpawnInit, TypeInv, TypeOK
<1>7. CASE addChild(p)
  <2>1. child' \in [Procs -> Procs \cup {NULL}]
    BY <1>2, <1>7 DEF addChild, TypeInv, TypeOK
  <2>2. nextSibling' \in [Procs -> Procs \cup {NULL}]
    BY <1>2, <1>7 DEF addChild, TypeInv, TypeOK
  <2> QED BY <1>1, <1>4, <1>5, <1>7, <2>1, <2>2 DEF addChild, TypeInv, TypeOK
<1>8. CASE SpawnParent(p)
  BY <1>1, <1>4, <1>5, <1>8 DEF SpawnParent, TypeInv, TypeOK
<1> QED BY <1>6, <1>7, <1>8

(* The other steps of the new process, of Wait, and of the end of a        *)
(* handler; and the calls of the programs.                                 *)
LEMMA SimpleTypes ==
    ASSUME TypeInv, NEW p \in Procs,
           \/ LaunchRead(p) \/ waitReal(p) \/ Return(p)
           \/ spawn(p) \/ waitHandler(p) \/ terminate(p) \/ otherCall(p)
    PROVE  TypeInv'
<1> USE DEF At, Goto, kernelVars, tableVars, localVars
<1>1. MailboxTypeOK' /\ QueuesOK'
  BY StutterLemma DEF LaunchRead, waitReal, Return, spawn, waitHandler, terminate,
                      otherCall, Call, TypeInv, TypeOK
<1>2. {"l_unlock", "return", "t_quit", "w_join", "t_lock", "user", "s_create"}
        \subseteq Labels \ LoopSteps
  BY DEF Labels, SpawnSteps, LaunchSteps, TerminateSteps, LoopSteps
<1>3. CASE LaunchRead(p)
  BY <1>1, <1>2, <1>3 DEF LaunchRead, TypeInv, TypeOK, ZapInv
<1>4. CASE waitReal(p)
  <2>1. kstate' \in [Procs -> {"free", "active", "quit"}]
    <3>1. CASE kstate' = kstate
      BY <3>1 DEF TypeInv, TypeOK
    <3>2. CASE \E c \in Procs : kstate' = [kstate EXCEPT ![c] = "free"]
      BY <3>2 DEF TypeInv, TypeOK
    <3> QED BY <1>4, <3>1, <3>2 DEF waitReal, Kids
  <2>2. ZapInv' /\ pc' \in [Procs -> Labels]
    BY <1>2, <1>4 DEF waitReal, TypeInv, TypeOK, ZapInv
  <2> QED BY <1>1, <1>4, <2>1, <2>2 DEF waitReal, TypeInv, TypeOK
<1>5. ASSUME NEW l \in Labels \ LoopSteps, Goto(p, l),
             UNCHANGED <<kernelVars, tableVars, localVars>>
      PROVE  TypeInv'
  BY <1>1, <1>5 DEF TypeInv, TypeOK, ZapInv
<1>6. CASE Return(p)
  BY <1>2, <1>5, <1>6 DEF Return
<1>7. CASE spawn(p) \/ waitHandler(p) \/ terminate(p) \/ otherCall(p)
  BY <1>2, <1>5, <1>7 DEF spawn, waitHandler, terminate, otherCall, Call
<1> QED BY <1>3, <1>4, <1>6, <1>7

(* Terminate.                                                              *)
LEMMA TerminateTypes ==
    ASSUME TypeInv, NEW p \in Procs,
           \/ ReadChild(p) \/ ReadPid(p) \/ zap(p) \/ zapReturn(p) \/ ReadSibling(p)
           \/ removeChild(p) \/ quit(p)
    PROVE  TypeInv'
<1> USE DEF At, Goto, kernelVars, tableVars, localVars
<1>1. MailboxTypeOK' /\ QueuesOK'
  BY StutterLemma DEF ReadChild, ReadPid, zap, zapReturn, ReadSibling, removeChild,
                      quit, TypeInv, TypeOK
<1>2. TerminateSteps \cup {"none"} \subseteq Labels
  BY DEF Labels
<1>3. CASE ReadChild(p)
  BY <1>1, <1>2, <1>3
     DEF ReadChild, TypeInv, TypeOK, ZapInv, TerminateSteps, LoopSteps
<1>4. CASE ReadPid(p)
  <2>1. childToZap[p] \in Procs
    BY <1>4 DEF ReadPid, TypeInv, TypeOK, ZapInv, LoopSteps
  <2> QED BY <1>1, <1>2, <1>4, <2>1
             DEF ReadPid, TypeInv, TypeOK, ZapInv, TerminateSteps, LoopSteps
<1>5. CASE zap(p)
  <2>1. zapped' \subseteq Procs /\ halted' \in BOOLEAN
    BY <1>5, SlotLemma DEF zap, TypeInv, TypeOK, EMPTY
  <2>2. ZapInv' /\ pc' \in [Procs -> Labels]
    BY <1>2, <1>5 DEF zap, TypeInv, TypeOK, ZapInv, TerminateSteps, LoopSteps
  <2> QED BY <1>1, <1>5, <2>1, <2>2 DEF zap, TypeInv, TypeOK
<1>6. CASE zapReturn(p)
  BY <1>1, <1>2, <1>6
     DEF zapReturn, TypeInv, TypeOK, ZapInv, TerminateSteps, LoopSteps
<1>7. CASE ReadSibling(p)
  <2>1. childToZap[p] \in Procs
    BY <1>7 DEF ReadSibling, TypeInv, TypeOK, ZapInv, LoopSteps
  <2> QED BY <1>1, <1>2, <1>7, <2>1
             DEF ReadSibling, TypeInv, TypeOK, ZapInv, TerminateSteps, LoopSteps
<1>8. CASE removeChild(p)
  <2>1. ZapInv' /\ pc' \in [Procs -> Labels]
    BY <1>2, <1>8 DEF removeChild, TypeInv, TypeOK, ZapInv, TerminateSteps, LoopSteps
  <2>2. child' \in [Procs -> Procs \cup {NULL}]
    BY <1>8 DEF removeChild, TypeInv, TypeOK
  <2>3. nextSibling' \in [Procs -> Procs \cup {NULL}]
    BY <1>8 DEF removeChild, TypeInv, TypeOK
  <2>4. halted' \in BOOLEAN
    BY <1>8 DEF removeChild, TypeInv, TypeOK
  <2> QED BY <1>1, <1>8, <2>1, <2>2, <2>3, <2>4 DEF removeChild, TypeInv, TypeOK
<1>9. CASE quit(p)
  <2>1. CASE ActiveKids(p) # {}
    BY <1>1, <1>9, <2>1 DEF quit, TypeInv, TypeOK, ZapInv
  <2>2. CASE ActiveKids(p) = {}
    <3>1. kstate' \in [Procs -> {"free", "active", "quit"}]
      BY <1>9, <2>2 DEF quit, TypeInv, TypeOK
    <3>2. ZapInv'
      BY <1>9, <2>2 DEF quit, TypeInv, TypeOK, ZapInv, LoopSteps
    <3> QED BY <1>1, <1>2, <1>9, <2>2, <3>1, <3>2 DEF quit, TypeInv, TypeOK
  <2> QED BY <2>1, <2>2
<1> QED BY <1>3, <1>4, <1>5, <1>6, <1>7, <1>8, <1>9

LEMMA NextTypes == TypeInv /\ [Next]_vars => TypeInv'
<1> SUFFICES ASSUME TypeInv, [Next]_vars PROVE TypeInv'
  OBVIOUS
<1>1. CASE UNCHANGED vars
  <2>1. MailboxTypeOK' /\ QueuesOK'
    BY <1>1, StutterLemma DEF vars, TypeInv, TypeOK
  <2> QED BY <1>1, <2>1 DEF vars, TypeInv, TypeOK, ZapInv, kernelVars, tableVars,
                          localVars
<1>2. CASE Next
  BY <1>2, LockTypes, UnlockTypes, HandshakeTypes, ForkTypes, SpawnTableTypes,
     SimpleTypes, TerminateTypes DEF Next, HandlerStep
<1> QED BY <1>1, <1>2

(* Every variable has its type in every reachable state, and terminateReal *)
(* follows no null pointer in its loop.                                    *)
THEOREM TypeCorrect == Spec => []TypeOK
<1>1. TypeInv => TypeOK
  BY DEF TypeInv
<1> QED BY <1>1, InitTypes, NextTypes, PTL DEF Spec

----------------------------------------------------------------------------
(* Mutual exclusion.                                                       *)

LEMMA MutexLemma ==
    ASSUME TypeInv
    PROVE  /\ ProcTableMutex \in Boxes
           /\ mbox[ProcTableMutex] \in Mailbox
           /\ \A b \in Boxes \ {ProcTableMutex} :
                Waiting(b) \cap Waiting(ProcTableMutex) = {}
BY UserProcsAssumption DEF TypeInv, TypeOK, MailboxTypeOK, QueuesOK

LEMMA InitLock == Init => LockInv
<1> SUFFICES ASSUME Init PROVE LockInv
  OBVIOUS
<1>1. mbox[ProcTableMutex] = NewBox(1)
  BY UserProcsAssumption DEF Init, ProcTableMutexSlots
<1>2. ready = Procs /\ \A p \in Procs : pc[p] \notin InsideSteps /\ mboxID[p] = EMPTY
  BY DEF Init, ProcInit, InsideSteps
<1>3. ProcTableMutex # EMPTY
  BY UserProcsAssumption, MailboxAssumption DEF Boxes, EMPTY
<1> QED BY <1>1, <1>2, <1>3 DEF LockInv, NewBox, HoldsProcTable, ProcTableExclusion

(* A step that leaves ProcTableMutex alone, lets nobody into the table, and *)
(* wakes up only processes that wait elsewhere.                            *)
AsideStep ==
    /\ mbox'[ProcTableMutex] = mbox[ProcTableMutex]
    /\ \A q \in ready' \ ready :
            \E b \in Boxes \ {ProcTableMutex} : q \in Waiting(b)
    /\ \A q \in Procs :
            pc'[q] \in InsideSteps =>
                pc[q] \in InsideSteps /\ (q \in ready => q \in ready')
    /\ \A q \in Procs : mboxID'[q] # ProcTableMutex

LEMMA AsideLemma ==
    ASSUME IInv, AsideStep
    PROVE  LockInv'
<1>1. Waiting(ProcTableMutex)' = Waiting(ProcTableMutex)
  BY DEF AsideStep, Waiting
<1>2. ASSUME NEW q \in Procs, HoldsProcTable(q)'
      PROVE  HoldsProcTable(q)
  <2>1. pc[q] \in InsideSteps /\ q \in ready'
    BY <1>2 DEF HoldsProcTable, AsideStep
  <2>2. CASE q \notin ready
    <3>1. q \in Waiting(ProcTableMutex)
      BY <2>1, <2>2 DEF IInv, LockInv
    <3> QED BY <2>1, <2>2, <3>1, MutexLemma DEF AsideStep, IInv
  <2> QED BY <2>1, <2>2 DEF HoldsProcTable
<1>3. ASSUME NEW q \in Procs, pc'[q] \in InsideSteps, q \notin ready'
      PROVE  q \in Waiting(ProcTableMutex)
  BY <1>3 DEF AsideStep, IInv, LockInv
<1>4. ProcTableExclusion'
  BY <1>2 DEF IInv, LockInv, ProcTableExclusion
<1> QED BY <1>1, <1>2, <1>3, <1>4 DEF AsideStep, IInv, LockInv

LEMMA LabelSides ==
    /\ \A l \in LockSteps : l \notin InsideSteps
    /\ UnlockSteps \subseteq InsideSteps
    /\ \A p \in Procs, l \in UnlockSteps : AfterUnlock(p)[l] \notin InsideSteps
BY DEF LockSteps, UnlockSteps, InsideSteps, AfterUnlock

LEMMA LockExclusion ==
    ASSUME IInv, NEW p \in Procs, Lock(p)
    PROVE  LockInv'
<1>1. PICK l \in LockSteps :
        /\ At(p, l)
        /\ MboxSend(p, ProcTableMutex)
        /\ Goto(p, AfterLock[l])
        /\ UNCHANGED <<kernelVars, tableVars, localVars>>
  BY DEF Lock
<1> DEFINE m == mbox[ProcTableMutex]
<1>2. /\ m.open /\ m.slots = 1 /\ m.used \in {0, 1} /\ m.receivers = << >>
      /\ m.senders \in Seq(Procs)
      /\ ProcTableMutex \in Boxes
  BY MutexLemma DEF IInv, LockInv, Mailbox
<1>3. p \in ready /\ pc[p] \notin InsideSteps
  BY <1>1, LabelSides DEF At
<1>4. \A q \in Procs \ {p} : pc'[q] = pc[q]
  BY <1>1 DEF Goto, IInv, TypeInv, TypeOK
<1>5. \A q \in Procs : mboxID'[q] # ProcTableMutex
  BY <1>1 DEF IInv, LockInv, localVars
<1>6. CASE m.used = 0
  <2>1. /\ mbox' = [mbox EXCEPT ![ProcTableMutex].used = 1]
        /\ ready' = ready
    BY <1>1, <1>2, <1>6 DEF MboxSend, IsOpen
  <2>2. /\ mbox'[ProcTableMutex] = [m EXCEPT !.used = 1]
        /\ Waiting(ProcTableMutex)' = Waiting(ProcTableMutex)
    BY <1>2, <2>1, MutexLemma DEF IInv, TypeInv, TypeOK, MailboxTypeOK, Mailbox, Waiting
  <2>3. \A q \in Procs : HoldsProcTable(q)' => q = p
    BY <1>4, <1>6, <2>1 DEF HoldsProcTable, IInv, LockInv
  <2>4. /\ mbox'[ProcTableMutex].open /\ mbox'[ProcTableMutex].slots = 1
        /\ mbox'[ProcTableMutex].used = 1
        /\ mbox'[ProcTableMutex].receivers = << >>
    BY <1>2, <2>2, MutexLemma DEF IInv, Mailbox
  <2>5. \A q \in Procs : pc'[q] \in InsideSteps /\ q \notin ready'
                            => q \in Waiting(ProcTableMutex)
    BY <1>3, <1>4, <2>1 DEF IInv, LockInv
  <2> QED BY <1>5, <2>2, <2>3, <2>4, <2>5 DEF LockInv, ProcTableExclusion
<1>7. CASE m.used = 1
  <2>1. /\ mbox' = [mbox EXCEPT ![ProcTableMutex].senders = Append(@, p)]
        /\ ready' = ready \ {p}
    BY <1>1, <1>2, <1>7 DEF MboxSend, IsOpen
  <2>2. mbox'[ProcTableMutex] = [m EXCEPT !.senders = Append(@, p)]
    BY <1>2, <2>1, MutexLemma DEF IInv, TypeInv, TypeOK, MailboxTypeOK, Mailbox
  <2>3. /\ mbox'[ProcTableMutex].open /\ mbox'[ProcTableMutex].slots = 1
        /\ mbox'[ProcTableMutex].used = 1
        /\ mbox'[ProcTableMutex].receivers = << >>
        /\ mbox'[ProcTableMutex].senders = Append(m.senders, p)
    BY <1>2, <1>7, <2>2, MutexLemma DEF IInv, Mailbox
  <2>4. Waiting(ProcTableMutex)' = Waiting(ProcTableMutex) \cup {p}
    <3>1. Members(Append(m.senders, p)) = Members(m.senders) \cup {p}
      BY <1>2, AppendLemma
    <3> QED BY <1>2, <2>3, <3>1 DEF Waiting
  <2>5. \A q \in Procs : HoldsProcTable(q)' => HoldsProcTable(q)
    BY <1>4, <2>1 DEF HoldsProcTable
  <2>6. \A q \in Procs : pc'[q] \in InsideSteps /\ q \notin ready'
                            => q \in Waiting(ProcTableMutex)'
    BY <1>4, <2>1, <2>4 DEF IInv, LockInv
  <2>7. ProcTableExclusion'
    BY <2>5 DEF IInv, LockInv, ProcTableExclusion
  <2> QED BY <1>5, <2>3, <2>6, <2>7 DEF LockInv
<1> QED BY <1>2, <1>6, <1>7

LEMMA UnlockExclusion ==
    ASSUME IInv, NEW p \in Procs, Unlock(p)
    PROVE  LockInv'
<1>1. PICK l \in UnlockSteps :
        /\ At(p, l)
        /\ MboxReceive(p, ProcTableMutex)
        /\ Goto(p, AfterUnlock(p)[l])
        /\ UNCHANGED <<kernelVars, tableVars, localVars>>
  BY DEF Unlock
<1> DEFINE m == mbox[ProcTableMutex]
<1>2. HoldsProcTable(p) /\ \A q \in Procs : HoldsProcTable(q) => q = p
  BY <1>1, LabelSides DEF At, HoldsProcTable, IInv, LockInv, ProcTableExclusion
<1>3. /\ m.open /\ m.slots = 1 /\ m.used = 1 /\ m.receivers = << >>
      /\ m.senders \in Seq(Procs)
      /\ ProcTableMutex \in Boxes
  BY <1>2, MutexLemma DEF IInv, LockInv, Mailbox
<1>4. /\ \A q \in Procs \ {p} : pc'[q] = pc[q]
      /\ pc'[p] \notin InsideSteps
  BY <1>1, LabelSides DEF Goto, IInv, TypeInv, TypeOK
<1>5. \A q \in Procs : mboxID'[q] # ProcTableMutex
  BY <1>1 DEF IInv, LockInv, localVars
<1>6. HasMessage(ProcTableMutex) /\ TakeMessage(ProcTableMutex)
  BY <1>1, <1>3 DEF MboxReceive, HasMessage, IsOpen
<1>7. mbox'[ProcTableMutex].open
  BY <1>3, <1>6, TakeEffect DEF Affects, IInv, TypeInv, TypeOK
<1>8. CASE m.senders # << >>
  <2>1. /\ mbox' = [mbox EXCEPT ![ProcTableMutex].senders = Tail(@)]
        /\ ready' = ready \cup {Head(m.senders)}
    BY <1>6, <1>8 DEF TakeMessage
  <2>2. mbox'[ProcTableMutex] = [m EXCEPT !.senders = Tail(@)]
    BY <1>3, <2>1, MutexLemma DEF IInv, TypeInv, TypeOK, MailboxTypeOK, Mailbox
  <2>3. /\ mbox'[ProcTableMutex].slots = 1
        /\ mbox'[ProcTableMutex].used = 1
        /\ mbox'[ProcTableMutex].receivers = << >>
        /\ mbox'[ProcTableMutex].senders = Tail(m.senders)
    BY <1>3, <2>2, MutexLemma DEF IInv, Mailbox
  <2>4. Waiting(ProcTableMutex) \subseteq
            Waiting(ProcTableMutex)' \cup {Head(m.senders)}
    <3>1. Members(m.senders) = Members(Tail(m.senders)) \cup {Head(m.senders)}
      BY <1>3, <1>8, TailLemma
    <3> QED BY <1>3, <2>3, <3>1 DEF Waiting
  <2>5. \A q \in Procs : HoldsProcTable(q)' => q = Head(m.senders)
    BY <1>2, <1>4, <2>1 DEF HoldsProcTable
  <2>6. \A q \in Procs : pc'[q] \in InsideSteps /\ q \notin ready'
                            => q \in Waiting(ProcTableMutex)'
    BY <1>4, <2>1, <2>4 DEF IInv, LockInv
  <2>7. ProcTableExclusion'
    BY <2>5 DEF ProcTableExclusion
  <2> QED BY <1>5, <1>7, <2>3, <2>6, <2>7 DEF LockInv
<1>9. CASE m.senders = << >>
  <2>1. /\ mbox' = [mbox EXCEPT ![ProcTableMutex].used = 0]
        /\ ready' = ready
    BY <1>3, <1>6, <1>9 DEF TakeMessage
  <2>2. mbox'[ProcTableMutex] = [m EXCEPT !.used = 0]
    BY <1>3, <2>1, MutexLemma DEF IInv, TypeInv, TypeOK, MailboxTypeOK, Mailbox
  <2>3. /\ mbox'[ProcTableMutex].slots = 1
        /\ mbox'[ProcTableMutex].used = 0
        /\ mbox'[ProcTableMutex].receivers = << >>
        /\ Waiting(ProcTableMutex)' = Waiting(ProcTableMutex)
    BY <1>3, <2>2, MutexLemma DEF IInv, Mailbox, Waiting
  <2>4. \A q \in Procs : ~HoldsProcTable(q)'
    BY <1>2, <1>4, <2>1 DEF HoldsProcTable
  <2>5. \A q \in Procs : pc'[q] \in InsideSteps /\ q \notin ready'
                            => q \in Waiting(ProcTableMutex)'
    BY <1>4, <2>1, <2>3 DEF IInv, LockInv
  <2>6. ProcTableExclusion'
    BY <2>4 DEF ProcTableExclusion
  <2> QED BY <1>5, <1>7, <2>3, <2>4, <2>5, <2>6 DEF LockInv
<1> QED BY <1>8, <1>9

(* The steps on the mailbox of a handshake, which is another one.          *)
LEMMA HandshakeExclusion ==
    ASSUME IInv, NEW p \in Procs,
           \/ SpawnCreate(p) \/ SpawnRelease(p) \/ SpawnSend(p)
           \/ LaunchReceive(p) \/ LaunchRelease(p)
    PROVE  LockInv'
<1>1. mboxID[p] # ProcTableMutex /\ EMPTY # ProcTableMutex
  BY UserProcsAssumption, MailboxAssumption DEF IInv, LockInv, Boxes, EMPTY
<1>2. ASSUME NEW l, l \notin InsideSteps, Goto(p, l)
      PROVE  \A q \in Procs : pc'[q] \in InsideSteps =>
                pc[q] \in InsideSteps /\ q # p
  BY <1>2 DEF Goto, IInv, TypeInv, TypeOK
<1>3. {"s_fork", "return", "l_release", "l_lock"} \cap InsideSteps = {}
  BY DEF InsideSteps
<1>4. CASE SpawnCreate(p)
  <2>1. PICK id \in Boxes \cup {EMPTY} :
            /\ MboxCreate(1, id)
            /\ mboxID' = [mboxID EXCEPT ![p] = id]
    BY <1>4 DEF SpawnCreate
  <2>2. /\ ready' = ready
        /\ mbox'[ProcTableMutex] = mbox[ProcTableMutex]
        /\ id # ProcTableMutex
    BY <1>1, <2>1, CreateEffect, MutexLemma DEF IInv, LockInv, TypeInv, TypeOK
  <2>3. AsideStep
    BY <1>2, <1>3, <1>4, <2>1, <2>2
       DEF SpawnCreate, AsideStep, IInv, LockInv, TypeInv, TypeOK
  <2> QED BY <2>3, AsideLemma
<1>5. CASE SpawnRelease(p) \/ LaunchRelease(p)
  <2>1. MboxRelease(mboxID[p]) /\ mboxID' = [mboxID EXCEPT ![p] = EMPTY]
    BY <1>5 DEF SpawnRelease, LaunchRelease
  <2>2. /\ mbox'[ProcTableMutex] = mbox[ProcTableMutex]
        /\ \A q \in ready' \ ready :
                \E b \in Boxes \ {ProcTableMutex} : q \in Waiting(b)
    BY <1>1, <2>1, ReleaseEffect, MutexLemma DEF IInv, TypeInv, TypeOK
  <2>3. ready \subseteq ready'
    BY <2>1 DEF MboxRelease, mailboxVars
  <2>4. AsideStep
    BY <1>1, <1>2, <1>3, <1>5, <2>1, <2>2, <2>3
       DEF SpawnRelease, LaunchRelease, AsideStep, IInv, LockInv, TypeInv, TypeOK
  <2> QED BY <2>4, AsideLemma
<1>6. CASE SpawnSend(p)
  <2>1. MboxSend(p, mboxID[p]) /\ mboxID' = [mboxID EXCEPT ![p] = EMPTY]
    BY <1>6 DEF SpawnSend
  <2>2. /\ mbox'[ProcTableMutex] = mbox[ProcTableMutex]
        /\ \A q \in ready' \ ready :
                \E b \in Boxes \ {ProcTableMutex} : q \in Waiting(b)
    BY <1>1, <2>1, SendEffect, MutexLemma DEF Affects, IInv, TypeInv, TypeOK
  <2>3. ready \ {p} \subseteq ready'
    BY <2>1 DEF MboxSend, mailboxVars
  <2>4. AsideStep
    BY <1>1, <1>2, <1>3, <1>6, <2>1, <2>2, <2>3
       DEF SpawnSend, AsideStep, IInv, LockInv, TypeInv, TypeOK
  <2> QED BY <2>4, AsideLemma
<1>7. CASE LaunchReceive(p)
  <2>1. MboxReceive(p, mboxID[p]) /\ mboxID' = mboxID
    BY <1>7 DEF LaunchReceive, localVars
  <2>2. /\ mbox'[ProcTableMutex] = mbox[ProcTableMutex]
        /\ \A q \in ready' \ ready :
                \E b \in Boxes \ {ProcTableMutex} : q \in Waiting(b)
    BY <1>1, <2>1, ReceiveEffect, MutexLemma DEF Affects, IInv, TypeInv, TypeOK
  <2>3. ready \ {p} \subseteq ready'
    BY <2>1 DEF MboxReceive, TakeMessage, mailboxVars
  <2>4. AsideStep
    BY <1>2, <1>3, <1>7, <2>1, <2>2, <2>3
       DEF LaunchReceive, AsideStep, IInv, LockInv
  <2> QED BY <2>4, AsideLemma
<1> QED BY <1>4, <1>5, <1>6, <1>7

(* All other steps leave the mailboxes alone.                              *)
LEMMA OtherExclusion ==
    ASSUME IInv, UNCHANGED mailboxVars,
           \A q \in Procs : pc'[q] \in InsideSteps => pc[q] \in InsideSteps,
           \A q \in Procs : mboxID'[q] # ProcTableMutex
    PROVE  LockInv'
<1>1. AsideStep
  BY DEF AsideStep, mailboxVars
<1> QED BY <1>1, AsideLemma

LEMMA ForkExclusion ==
    ASSUME IInv, NEW p \in Procs, SpawnFork(p)
    PROVE  LockInv'
<1>1. {"s_lock", "l_receive", "s_release"} \cap InsideSteps = {}
  BY DEF InsideSteps
<1>2. UNCHANGED mailboxVars
  BY DEF SpawnFork
<1>3. ASSUME NEW c,
             mboxID' = [mboxID EXCEPT ![c] = mboxID[p]],
             pc' = [pc EXCEPT ![p] = "s_lock", ![c] = "l_receive"]
      PROVE  LockInv'
  <2>1. \A q \in Procs : pc'[q] \in InsideSteps => pc[q] \in InsideSteps
    BY <1>1, <1>3 DEF IInv, TypeInv, TypeOK
  <2>2. \A q \in Procs : mboxID'[q] # ProcTableMutex
    BY <1>3 DEF IInv, LockInv, TypeInv, TypeOK
  <2> QED BY <1>2, <2>1, <2>2, OtherExclusion
<1>4. ASSUME mboxID' = mboxID, Goto(p, "s_release") \/ pc' = pc
      PROVE  LockInv'
  <2>1. \A q \in Procs : pc'[q] \in InsideSteps => pc[q] \in InsideSteps
    BY <1>1, <1>4 DEF Goto, IInv, TypeInv, TypeOK
  <2>2. \A q \in Procs : mboxID'[q] # ProcTableMutex
    BY <1>4 DEF IInv, LockInv
  <2> QED BY <1>2, <2>1, <2>2, OtherExclusion
<1> QED BY <1>3, <1>4 DEF SpawnFork

LEMMA LocalExclusion ==
    ASSUME IInv, NEW p \in Procs,
           \/ SpawnInit(p) \/ addChild(p) \/ SpawnParent(p) \/ LaunchRead(p)
           \/ waitReal(p) \/ Return(p)
           \/ ReadChild(p) \/ ReadPid(p) \/ zap(p) \/ zapReturn(p) \/ ReadSibling(p)
           \/ removeChild(p) \/ quit(p)
           \/ spawn(p) \/ waitHandler(p) \/ terminate(p) \/ otherCall(p)
    PROVE  LockInv'
<1>1. UNCHANGED mailboxVars /\ mboxID' = mboxID
  BY DEF SpawnInit, addChild, SpawnParent, LaunchRead, waitReal, Return, ReadChild,
         ReadPid, zap, zapReturn, ReadSibling, removeChild, quit, spawn, waitHandler,
         terminate, otherCall, Call, localVars
<1>2. CASE \/ SpawnInit(p) \/ addChild(p) \/ SpawnParent(p) \/ LaunchRead(p)
           \/ ReadChild(p) \/ ReadPid(p) \/ ReadSibling(p) \/ removeChild(p)
  <2>1. PICK l : pc[p] \in InsideSteps /\ Goto(p, l)
    BY <1>2 DEF SpawnInit, addChild, SpawnParent, LaunchRead, ReadChild, ReadPid,
                ReadSibling, removeChild, At, InsideSteps
  <2>2. \A q \in Procs : pc'[q] \in InsideSteps => pc[q] \in InsideSteps
    BY <2>1 DEF Goto, IInv, TypeInv, TypeOK
  <2> QED BY <1>1, <2>2, OtherExclusion DEF IInv, LockInv
<1>3. CASE \/ waitReal(p) \/ Return(p) \/ zap(p) \/ zapReturn(p) \/ quit(p)
           \/ spawn(p) \/ waitHandler(p) \/ terminate(p) \/ otherCall(p)
  <2>1. pc' = pc \/ \E l : l \notin InsideSteps /\ Goto(p, l)
    BY <1>3 DEF waitReal, Return, zap, zapReturn, quit, spawn, waitHandler, terminate,
                otherCall, Call, InsideSteps
  <2>2. \A q \in Procs : pc'[q] \in InsideSteps => pc[q] \in InsideSteps
    BY <2>1 DEF Goto, IInv, TypeInv, TypeOK
  <2> QED BY <1>1, <2>2, OtherExclusion DEF IInv, LockInv
<1> QED BY <1>2, <1>3

LEMMA NextInv == IInv /\ [Next]_vars => IInv'
<1> SUFFICES ASSUME IInv, [Next]_vars PROVE IInv'
  OBVIOUS
<1>1. CASE UNCHANGED vars
  <2>1. UNCHANGED mailboxVars /\ pc' = pc /\ mboxID' = mboxID
    BY <1>1 DEF vars, localVars
  <2>2. LockInv'
    BY <2>1, OtherExclusion DEF IInv, LockInv
  <2> QED BY <2>2, NextTypes DEF IInv
<1>2. CASE Next
  <2>1. LockInv'
    BY <1>2, LockExclusion, UnlockExclusion, HandshakeExclusion, ForkExclusion,
       LocalExclusion DEF Next, HandlerStep
  <2> QED BY <2>1, NextTypes DEF IInv
<1> QED BY <1>1, <1>2

(* ProcTable is read and written by one process at a time (src/phase3.c    *)
(* 554-566, 615-619, 661-683), however many processes there are, whatever  *)
(* they call, and whichever mailboxes are created and released meanwhile.  *)
THEOREM TableExclusion == Spec => []ProcTableExclusion
<1>1. Init => IInv
  BY InitTypes, InitLock DEF IInv
<1>2. IInv => ProcTableExclusion
  BY DEF IInv, LockInv
<1> QED BY <1>1, <1>2, NextInv, PTL DEF Spec

----------------------------------------------------------------------------
(* The handshake.                                                          *)


(* There is a mailbox for every process beside ProcTableMutex (2000 for 50 *)
(* in the code).  spawnReal goes on without one if MboxCreate fails, and   *)
(* then the child does not wait for it.                                    *)
EnoughMailboxes == MAXMBOX > MAXPROC

\* From fork1, whose child exists, to the message that lets it go on.
AfterFork == {"s_lock", "s_init", "s_link", "s_parent", "s_unlock", "s_send"}

\* The steps of a process with the mailbox of a handshake.
OwnerSteps == AfterFork \cup {"s_fork", "s_release", "l_receive", "l_release"}

\* The first process of phase 3 has no parent; it spawns, waits and quits.
OrphanSteps == SpawnSteps \cup {"return", "w_join", "t_quit"}

Mail(p) == mbox[mboxID[p]]

\* The parent of c has yet to send the message that c waits for.
Spawning(c) ==
    /\ kparent[c] # NULL
    /\ pc[kparent[c]] \in AfterFork
    /\ newPid[kparent[c]] = kpid[c]

----------------------------------------------------------------------------
(* The inductive invariant.                                                *)

(* The kernel's table.  A process is active while it has steps to take;    *)
(* its parent is active until its slot is free again.                      *)
KernelInv ==
    /\ kparent[Start2] = NULL /\ kstate[Start2] # "free"
    /\ \A p \in Procs :
        /\ kstate[p] # "free" =>
            kpid[p] \in Nat /\ Slot(kpid[p]) = p /\ kpid[p] < nextPid
        /\ kstate[p] # "free" /\ kparent[p] # NULL => pc[kparent[p]] # "none"
        /\ kstate[p] = "active" /\ kparent[p] # NULL => pc[p] # "none"
        /\ pc[p] # "none" => kstate[p] = "active"
        /\ pc[p] # "none" /\ kparent[p] = NULL =>
            p = Start2 /\ pc[p] \in OrphanSteps

(* What spawnReal has done for its child so far, and where the child is.   *)
ChildOf(p, c) ==
    /\ kstate[c] = "active" /\ kpid[c] = newPid[p] /\ kparent[c] = p
    /\ mboxID[c] = mboxID[p]
    /\ pc[c] \in {"l_receive", "l_release"}
    /\ pc[p] \notin {"s_lock", "s_init"} =>
        startFunc[c] = kpid[c] /\ pid[c] = kpid[c]
    /\ pc[p] \in {"s_unlock", "s_send"} => parent[c] = p

ForkInv ==
    \A p \in Procs :
        pc[p] \in AfterFork => newPid[p] \in Nat /\ ChildOf(p, Slot(newPid[p]))

(* The mailbox of a handshake is open and has no senders; before fork1 it  *)
(* is unused.  The child finds the message in it, or waits to receive it,  *)
(* or, with the message, is about to release the mailbox.                  *)
BoxInv ==
    \A p \in Procs :
        /\ pc[p] \in OwnerSteps <=> mboxID[p] # EMPTY
        /\ pc[p] \in OwnerSteps =>
            /\ Mail(p).open /\ Mail(p).slots = 1 /\ Mail(p).senders = << >>
        /\ pc[p] \in AfterFork \cup {"s_fork", "s_release"} => Mail(p).used = 0
        /\ pc[p] \in {"s_fork", "s_release", "l_receive"} =>
            Mail(p).receivers = << >>
        /\ pc[p] = "l_receive" /\ ~Spawning(p) => Mail(p).used = 1
        /\ pc[p] = "l_release" =>
            IF p \in ready THEN ~Spawning(p) /\ Mail(p).receivers = << >>
                           ELSE Spawning(p) /\ Mail(p).receivers = <<p>>

(* Nobody else has it, and no other mailbox is open.                       *)
OwnerInv ==
    /\ \A p, q \in Procs :
        mboxID[p] = mboxID[q] /\ mboxID[p] # EMPTY =>
            \/ p = q
            \/ pc[p] \in AfterFork /\ q = Slot(newPid[p])
            \/ pc[q] \in AfterFork /\ p = Slot(newPid[q])
    /\ NoMailboxLeft

(* The entry of a process in ProcTable, from the message on, is its own.   *)
EntryInv ==
    \A p \in Procs :
        /\ kstate[p] # "free" /\ kparent[p] # NULL /\ ~Spawning(p) =>
            startFunc[p] = kpid[p] /\ pid[p] = kpid[p] /\ parent[p] = kparent[p]
        /\ pc[p] = "none" => program[p] = NULL

HandInv ==
    KernelInv /\ ForkInv /\ BoxInv /\ OwnerInv /\ EntryInv /\ OwnProgram

----------------------------------------------------------------------------
(* Steps that leave the mailboxes of handshakes alone.                     *)

MutexFacts == ProcTableMutex \in Boxes /\ EMPTY \notin Boxes

LEMMA MutexIsOpen ==
    ASSUME TypeInv
    PROVE  MutexFacts
BY UserProcsAssumption, MailboxAssumption, MutexLemma DEF MutexFacts, Boxes, EMPTY

LEMMA OrphanLemma ==
    ASSUME HandInv, NEW p \in Procs, kparent[p] = NULL, pc[p] # "none"
    PROVE  p = Start2 /\ pc[p] \in OrphanSteps
BY DEF HandInv, KernelInv

(* A child that is being spawned is the one of its parent's spawnReal.     *)
LEMMA SpawningChild ==
    ASSUME IInv, HandInv, NEW c \in Procs, kstate[c] # "free"
    PROVE  /\ Spawning(c) =>
                \E q \in Procs : /\ q = kparent[c] /\ c = Slot(newPid[q])
                                 /\ pc[q] \in AfterFork /\ ChildOf(q, c)
           /\ \A q \in Procs :
                pc[q] \in AfterFork /\ c = Slot(newPid[q]) => Spawning(c)
<1>1. ASSUME Spawning(c)
      PROVE  \E q \in Procs : /\ q = kparent[c] /\ c = Slot(newPid[q])
                              /\ pc[q] \in AfterFork /\ ChildOf(q, c)
  <2>1. /\ kparent[c] \in Procs
        /\ pc[kparent[c]] \in AfterFork /\ newPid[kparent[c]] = kpid[c]
    BY <1>1 DEF Spawning, IInv, TypeInv, TypeOK
  <2>2. Slot(newPid[kparent[c]]) = c
    BY <2>1 DEF HandInv, KernelInv
  <2> QED BY <2>1, <2>2 DEF HandInv, ForkInv
<1>2. ASSUME NEW q \in Procs, pc[q] \in AfterFork, c = Slot(newPid[q])
      PROVE  Spawning(c)
  <2>1. q # NULL
    BY UserProcsAssumption DEF NULL
  <2> QED BY <1>2, <2>1 DEF HandInv, ForkInv, ChildOf, Spawning
<1> QED BY <1>1, <1>2

(* What a step of p may do.  Only spawnReal writes into an entry, that of  *)
(* its child.                                                              *)
QuietEntries(p) ==
    LET c == Slot(newPid[p]) IN
    /\ \A s \in Procs :
        \/ pc[p] \in AfterFork /\ s = c
        \/ /\ pid'[s] = pid[s] /\ startFunc'[s] = startFunc[s]
           /\ parent'[s] = parent[s]
    /\ pc[p] \in AfterFork =>
        /\ pc'[p] \in AfterFork
        /\ pc'[p] \notin {"s_lock", "s_init"} =>
            startFunc'[c] = kpid[c] /\ pid'[c] = kpid[c]
        /\ pc'[p] \in {"s_unlock", "s_send"} => parent'[c] = p

QuietLabels(p) ==
    /\ \A q \in Procs \ {p} : pc'[q] = pc[q]
    /\ pc[p] # "none" /\ pc'[p] # "none"
    /\ \/ pc[p] \notin OwnerSteps /\ pc'[p] \notin OwnerSteps
       \/ pc[p] \in AfterFork /\ pc'[p] \in AfterFork
       \/ pc[p] = "s_fork" /\ pc'[p] \in {"s_fork", "s_release"}
    /\ kparent[p] = NULL => pc'[p] \in OrphanSteps

QuietStep(p) ==
    /\ UNCHANGED <<kpid, kparent, nextPid, newPid, mboxID>>
    /\ \A q \in Procs :
        kstate'[q] # kstate[q] =>
            kstate[q] = "quit" /\ kstate'[q] = "free" /\ kparent[q] # NULL
    /\ \/ program' = program
       \/ program' = [program EXCEPT ![p] = kpid[p]]
    /\ \A b \in Boxes \ {ProcTableMutex} : mbox'[b] = mbox[b]
    /\ \A q \in Procs : pc[q] = "l_release" => (q \in ready' <=> q \in ready)
    /\ QuietLabels(p)
    /\ QuietEntries(p)

LEMMA QuietHand ==
    ASSUME IInv, HandInv, NEW p \in Procs, QuietStep(p)
    PROVE  HandInv'
<1> USE DEF HandInv
<1>1. \A q \in Procs :
        /\ pc'[q] \in OwnerSteps <=> pc[q] \in OwnerSteps
        /\ pc'[q] \in AfterFork <=> pc[q] \in AfterFork
        /\ pc'[q] = "none" <=> pc[q] = "none"
        /\ pc[q] \in {"l_receive", "l_release"} => pc'[q] = pc[q]
        /\ pc'[q] \in {"l_receive", "l_release"} => pc'[q] = pc[q]
        /\ pc'[q] \in {"s_fork", "s_release"} => pc[q] \in {"s_fork", "s_release"}
  BY DEF QuietStep, QuietLabels, OwnerSteps, AfterFork
<1>2. \A c \in Procs : Spawning(c)' <=> Spawning(c)
  BY <1>1 DEF QuietStep, Spawning, IInv, TypeInv, TypeOK
<1>3. \A q \in Procs : pc[q] \in OwnerSteps => Mail(q)' = Mail(q)
  BY DEF QuietStep, Mail, BoxInv, IInv, LockInv, TypeInv, TypeOK
<1>4. /\ kpid' = kpid /\ kparent' = kparent /\ nextPid' = nextPid
      /\ newPid' = newPid /\ mboxID' = mboxID
      /\ \A q \in Procs : kstate'[q] # "free" => kstate'[q] = kstate[q]
      /\ \A q \in Procs : kstate[q] = "active" => kstate'[q] = kstate[q]
  BY DEF QuietStep, IInv, TypeInv, TypeOK
<1>5. KernelInv'
  <2>1. kparent'[Start2] = NULL /\ kstate'[Start2] # "free"
    BY <1>4, UserProcsAssumption DEF KernelInv, QuietStep
  <2>2. \A q \in Procs :
            pc'[q] # "none" /\ kparent[q] = NULL => pc'[q] \in OrphanSteps
    BY <1>1 DEF KernelInv, QuietStep, QuietLabels
  <2> QED BY <1>1, <1>4, <2>1, <2>2 DEF KernelInv, IInv, TypeInv, TypeOK
<1>6. ForkInv'
  <2> SUFFICES ASSUME NEW q \in Procs, pc'[q] \in AfterFork
               PROVE  newPid[q] \in Nat /\ ChildOf(q, Slot(newPid[q]))'
    BY <1>4 DEF ForkInv
  <2>1. newPid[q] \in Nat /\ ChildOf(q, Slot(newPid[q]))
    BY <1>1 DEF ForkInv
  <2>2. PICK c \in Procs : c = Slot(newPid[q])
    BY <2>1, SlotLemma
  <2>3. pc'[c] = pc[c] /\ kstate'[c] = kstate[c]
    BY <1>1, <1>4, <2>1, <2>2 DEF ChildOf
  <2>4. CASE q = p
    BY <1>1, <1>4, <2>1, <2>2, <2>3, <2>4 DEF QuietStep, QuietEntries, ChildOf
  <2>5. CASE q # p
    <3>1. pc[p] \in AfterFork => c # Slot(newPid[p])
      BY <2>1, <2>2, <2>5 DEF ForkInv, ChildOf
    <3>2. pid'[c] = pid[c] /\ startFunc'[c] = startFunc[c] /\ parent'[c] = parent[c]
      BY <3>1 DEF QuietStep, QuietEntries
    <3>3. pc'[q] = pc[q]
      BY <2>5 DEF QuietStep, QuietLabels
    <3> QED BY <1>4, <2>1, <2>2, <2>3, <3>2, <3>3 DEF ChildOf
  <2> QED BY <2>4, <2>5
<1>7. BoxInv'
  BY <1>1, <1>2, <1>3, <1>4 DEF BoxInv, QuietStep, OwnerSteps
<1>8. OwnerInv'
  <2>1. NoMailboxLeft'
    BY DEF OwnerInv, NoMailboxLeft, QuietStep
  <2> QED BY <1>1, <1>4, <2>1 DEF OwnerInv
<1>9. EntryInv' /\ OwnProgram'
  <2>1. ASSUME NEW s \in Procs, kstate'[s] # "free", kparent[s] # NULL, ~Spawning(s)'
        PROVE  startFunc'[s] = kpid[s] /\ pid'[s] = kpid[s] /\ parent'[s] = kparent[s]
    <3>1. kstate[s] # "free" /\ ~Spawning(s)
      BY <1>2, <1>4, <2>1
    <3>2. ~(pc[p] \in AfterFork /\ s = Slot(newPid[p]))
      BY <3>1, SpawningChild
    <3> QED BY <2>1, <3>1, <3>2 DEF QuietStep, QuietEntries, EntryInv
  <2>2. \A s \in Procs : pc'[s] = "none" => program'[s] = NULL
    BY <1>1 DEF QuietStep, QuietLabels, EntryInv, IInv, TypeInv, TypeOK
  <2>3. OwnProgram'
    BY <1>4 DEF QuietStep, OwnProgram, IInv, TypeInv, TypeOK
  <2> QED BY <1>4, <2>1, <2>2, <2>3 DEF EntryInv
<1> QED BY <1>5, <1>6, <1>7, <1>8, <1>9

(* A step that writes no entry.                                            *)
LEMMA SameEntries ==
    ASSUME HandInv, NEW p \in Procs, UNCHANGED <<pid, startFunc, parent>>,
           pc[p] \in AfterFork =>
                /\ pc'[p] \in AfterFork
                /\ pc'[p] \notin {"s_lock", "s_init"} =>
                        pc[p] \notin {"s_lock", "s_init"}
                /\ pc'[p] \in {"s_unlock", "s_send"} =>
                        pc[p] \in {"s_unlock", "s_send"}
    PROVE  QuietEntries(p)
BY DEF QuietEntries, HandInv, ForkInv, ChildOf

(* Only the child waits for the message of its parent, elsewhere than for  *)
(* ProcTableMutex.                                                         *)
LEMMA LockQuiet ==
    ASSUME IInv, HandInv, NEW p \in Procs, Lock(p)
    PROVE  QuietStep(p)
<1>1. PICK l \in LockSteps :
        /\ At(p, l)
        /\ MboxSend(p, ProcTableMutex)
        /\ Goto(p, AfterLock[l])
        /\ UNCHANGED <<kernelVars, tableVars, localVars>>
  BY DEF Lock
<1>2. pc[p] = l /\ pc' = [pc EXCEPT ![p] = AfterLock[l]]
  BY <1>1 DEF At, Goto
<1>3. /\ \A b \in Boxes \ {ProcTableMutex} : mbox'[b] = mbox[b]
      /\ ready' = ready \/ ready' = ready \ {p}
  <2>1. Affects(ProcTableMutex, {p})
    BY <1>1, SendEffect DEF IInv, TypeInv, TypeOK
  <2>2. IsOpen(ProcTableMutex) /\ mbox[ProcTableMutex].receivers = << >>
    BY MutexIsOpen DEF MutexFacts, IInv, LockInv, IsOpen
  <2>3. ready' = ready \/ ready' = ready \ {p}
    BY <1>1, <2>2 DEF MboxSend
  <2> QED BY <2>1, <2>3 DEF Affects
<1>4. kparent[p] = NULL => l = "s_lock"
  BY <1>2 DEF HandInv, KernelInv, LockSteps, OrphanSteps, SpawnSteps
<1>5. QuietLabels(p)
  BY <1>1, <1>2, <1>4
     DEF QuietLabels, LockSteps, AfterLock, AfterFork, OwnerSteps, OrphanSteps,
         SpawnSteps, IInv, TypeInv, TypeOK
<1>6. QuietEntries(p)
  <2>1. pc[p] \in AfterFork => pc[p] = "s_lock" /\ pc'[p] = "s_init"
    BY <1>2 DEF LockSteps, AfterLock, AfterFork, IInv, TypeInv, TypeOK
  <2> QED BY <1>1, <2>1, SameEntries DEF AfterFork, tableVars
<1>7. \A q \in Procs : pc[q] = "l_release" => (q \in ready' <=> q \in ready)
  BY <1>2, <1>3 DEF LockSteps
<1> QED BY <1>1, <1>3, <1>5, <1>6, <1>7 DEF QuietStep, kernelVars, localVars

LEMMA UnlockQuiet ==
    ASSUME IInv, HandInv, NEW p \in Procs, Unlock(p)
    PROVE  QuietStep(p)
<1>1. PICK l \in UnlockSteps :
        /\ At(p, l)
        /\ MboxReceive(p, ProcTableMutex)
        /\ Goto(p, AfterUnlock(p)[l])
        /\ UNCHANGED <<kernelVars, tableVars, localVars>>
  BY DEF Unlock
<1>2. pc[p] = l /\ pc' = [pc EXCEPT ![p] = AfterUnlock(p)[l]]
  BY <1>1 DEF At, Goto
<1>3. Affects(ProcTableMutex, {p})
  BY <1>1, ReceiveEffect DEF IInv, TypeInv, TypeOK
<1>4. \A q \in Procs : pc[q] = "l_release" => (q \in ready' <=> q \in ready)
  <2> SUFFICES ASSUME NEW q \in Procs, pc[q] = "l_release"
               PROVE  q \in ready' <=> q \in ready
    OBVIOUS
  <2>1. q # p
    BY <1>2 DEF UnlockSteps
  <2>2. ready \ {p} \subseteq ready'
    BY <1>1 DEF MboxReceive, TakeMessage, mailboxVars
  <2>3. CASE q \notin ready
    <3>1. /\ Mail(q).receivers = <<q>>
          /\ mboxID[q] \in Boxes \ {ProcTableMutex}
      BY <2>3, MutexIsOpen
         DEF MutexFacts, HandInv, BoxInv, OwnerSteps, IInv, LockInv, TypeInv, TypeOK
    <3>2. q \in Waiting(mboxID[q])
      BY <3>1 DEF Waiting, Mail, Members
    <3>3. q \notin Waiting(ProcTableMutex)
      BY <3>1, <3>2, MutexLemma DEF IInv
    <3> QED BY <1>3, <2>3, <3>3 DEF Affects
  <2> QED BY <2>1, <2>2, <2>3
<1>5. kparent[p] = NULL => l = "s_unlock"
  BY <1>2 DEF HandInv, KernelInv, UnlockSteps, OrphanSteps, SpawnSteps
<1>6. QuietLabels(p)
  BY <1>1, <1>2, <1>5
     DEF QuietLabels, UnlockSteps, AfterUnlock, AfterFork, OwnerSteps, OrphanSteps,
         SpawnSteps, IInv, TypeInv, TypeOK
<1>7. QuietEntries(p)
  <2>1. pc[p] \in AfterFork => pc[p] = "s_unlock" /\ pc'[p] = "s_send"
    BY <1>2 DEF UnlockSteps, AfterUnlock, AfterFork, IInv, TypeInv, TypeOK
  <2> QED BY <1>1, <2>1, SameEntries DEF AfterFork, tableVars
<1> QED BY <1>1, <1>3, <1>4, <1>6, <1>7 DEF QuietStep, Affects, kernelVars, localVars

(* The steps that use no mailbox.                                          *)
LEMMA LocalQuiet ==
    ASSUME IInv, HandInv, NEW p \in Procs,
           \/ addChild(p) \/ Return(p)
           \/ ReadChild(p) \/ ReadPid(p) \/ zap(p) \/ zapReturn(p) \/ ReadSibling(p)
           \/ removeChild(p)
           \/ spawn(p) \/ waitHandler(p) \/ terminate(p) \/ otherCall(p)
    PROVE  QuietStep(p)
<1> USE DEF kernelVars, tableVars, localVars, mailboxVars, At, Goto
<1>1. /\ UNCHANGED <<kstate, kpid, kparent, nextPid, newPid, mboxID, pid, startFunc,
                     parent, program>>
      /\ mbox' = mbox /\ ready' = ready
  BY DEF addChild, Return, ReadChild, ReadPid, zap, zapReturn, ReadSibling, removeChild,
         spawn, waitHandler, terminate, otherCall, Call
<1>2. \A q \in Procs \ {p} : pc'[q] = pc[q]
  <2>1. PICK l : Goto(p, l)
    BY DEF addChild, Return, ReadChild, ReadPid, zap, zapReturn, ReadSibling,
           removeChild, spawn, waitHandler, terminate, otherCall, Call
  <2> QED BY <2>1 DEF IInv, TypeInv, TypeOK
<1>3. kparent[p] = NULL /\ pc[p] # "none" => p = Start2 /\ pc[p] \in OrphanSteps
  BY OrphanLemma
<1>4. QuietLabels(p) /\ QuietEntries(p)
  <2>1. CASE addChild(p)
    <3>1. pc[p] = "s_link" /\ pc'[p] = "s_parent"
      BY <2>1 DEF addChild, IInv, TypeInv, TypeOK
    <3>2. QuietEntries(p)
      BY <1>1, <3>1, SameEntries DEF AfterFork
    <3> QED BY <1>2, <3>1, <3>2
               DEF QuietLabels, AfterFork, OwnerSteps, OrphanSteps, SpawnSteps
  <2>2. CASE Return(p)
    <3>1. /\ pc[p] = "return" /\ pc'[p] \in {"t_quit", "w_join", "t_lock", "user"}
          /\ p = Start2 => pc'[p] \in {"t_quit", "w_join"}
      BY <2>2 DEF Return, IInv, TypeInv, TypeOK
    <3>2. QuietEntries(p)
      BY <1>1, <3>1, SameEntries DEF AfterFork
    <3> QED BY <1>2, <1>3, <3>1, <3>2
               DEF QuietLabels, AfterFork, OwnerSteps, OrphanSteps
  <2>3. CASE \/ ReadChild(p) \/ ReadPid(p) \/ zap(p) \/ zapReturn(p)
             \/ ReadSibling(p) \/ removeChild(p)
             \/ spawn(p) \/ waitHandler(p) \/ terminate(p) \/ otherCall(p)
    <3>1. /\ pc[p] \in (TerminateSteps \ {"t_quit"}) \cup {"user"}
          /\ pc'[p] \in (TerminateSteps \ {"t_quit"})
                          \cup {"s_create", "w_join", "return"}
      BY <2>3 DEF ReadChild, ReadPid, zap, zapReturn, ReadSibling, removeChild, spawn,
           waitHandler, terminate, otherCall, Call, TerminateSteps, IInv, TypeInv, TypeOK
    <3>2. QuietEntries(p)
      BY <1>1, <3>1, SameEntries DEF AfterFork, TerminateSteps
    <3> QED BY <1>2, <1>3, <3>1, <3>2
               DEF QuietLabels, AfterFork, OwnerSteps, OrphanSteps, SpawnSteps,
                   TerminateSteps
  <2> QED BY <2>1, <2>2, <2>3
<1> QED BY <1>1, <1>4 DEF QuietStep

(* spawnLaunch reads the entry when its parent has sent the message.       *)
LEMMA ReadQuiet ==
    ASSUME IInv, HandInv, NEW p \in Procs, LaunchRead(p)
    PROVE  QuietStep(p)
<1>1. /\ pc[p] = "l_read" /\ pc' = [pc EXCEPT ![p] = "l_unlock"]
      /\ program' = [program EXCEPT ![p] = startFunc[p]]
  BY DEF LaunchRead, At, Goto
<1>2. kparent[p] # NULL /\ kstate[p] = "active"
  BY <1>1, OrphanLemma DEF OrphanSteps, SpawnSteps, HandInv, KernelInv
<1>3. ~Spawning(p)
  BY <1>1, <1>2, SpawningChild DEF ChildOf
<1>4. startFunc[p] = kpid[p]
  BY <1>2, <1>3 DEF HandInv, EntryInv
<1>5. QuietLabels(p)
  BY <1>1, <1>2 DEF QuietLabels, OwnerSteps, AfterFork, IInv, TypeInv, TypeOK
<1>6. QuietEntries(p)
  BY <1>1, SameEntries DEF LaunchRead, tableVars, AfterFork
<1> QED BY <1>1, <1>4, <1>5, <1>6
           DEF QuietStep, LaunchRead, mailboxVars, kernelVars

(* spawnReal writes the entry of its child.                                *)
LEMMA WriteQuiet ==
    ASSUME IInv, HandInv, NEW p \in Procs, SpawnInit(p) \/ SpawnParent(p)
    PROVE  QuietStep(p)
<1>1. PICK c \in Procs : c = Slot(newPid[p]) /\ ChildOf(p, c)
  BY SlotLemma DEF SpawnInit, SpawnParent, At, AfterFork, HandInv, ForkInv
<1>2. \/ pc[p] = "s_init" /\ pc' = [pc EXCEPT ![p] = "s_link"]
      \/ pc[p] = "s_parent" /\ pc' = [pc EXCEPT ![p] = "s_unlock"]
  BY DEF SpawnInit, SpawnParent, At, Goto
<1>3. QuietLabels(p)
  BY <1>2 DEF QuietLabels, OwnerSteps, AfterFork, OrphanSteps, SpawnSteps, IInv,
              TypeInv, TypeOK
<1>4. QuietEntries(p)
  <2>1. CASE SpawnInit(p)
    BY <1>1, <1>2, <2>1
       DEF SpawnInit, At, QuietEntries, ChildOf, AfterFork, IInv, TypeInv, TypeOK
  <2>2. CASE SpawnParent(p)
    BY <1>1, <1>2, <2>2
       DEF SpawnParent, At, QuietEntries, ChildOf, AfterFork, IInv, TypeInv, TypeOK
  <2> QED BY <2>1, <2>2
<1> QED BY <1>3, <1>4
           DEF QuietStep, SpawnInit, SpawnParent, mailboxVars, kernelVars, localVars

(* Wait frees the slot of a child that has quit.                           *)
LEMMA WaitQuiet ==
    ASSUME IInv, HandInv, NEW p \in Procs, waitReal(p)
    PROVE  QuietStep(p)
<1>1. pc[p] = "w_join" /\ pc' = [pc EXCEPT ![p] = "return"]
  BY DEF waitReal, At, Goto
<1>2. \A q \in Procs :
        kstate'[q] # kstate[q] =>
            kstate[q] = "quit" /\ kstate'[q] = "free" /\ kparent[q] # NULL
  <2>1. CASE \E c \in Kids(p) \ ActiveKids(p) :
                kstate' = [kstate EXCEPT ![c] = "free"]
    BY <2>1, UserProcsAssumption DEF Kids, ActiveKids, NULL, IInv, TypeInv, TypeOK
  <2> QED BY <2>1 DEF waitReal
<1>3. QuietLabels(p)
  BY <1>1 DEF QuietLabels, OwnerSteps, AfterFork, OrphanSteps, IInv, TypeInv, TypeOK
<1>4. QuietEntries(p)
  BY <1>1, SameEntries DEF waitReal, tableVars, AfterFork
<1> QED BY <1>2, <1>3, <1>4
           DEF QuietStep, waitReal, mailboxVars, localVars

(* fork1 that creates no process.                                          *)
ForkFails(p) ==
    /\ At(p, "s_fork")
    /\ Goto(p, "s_release") \/ pc' = pc
    /\ UNCHANGED <<kstate, kpid, kparent, nextPid, newPid, mboxID>>
    /\ UNCHANGED <<mailboxVars, tableVars, program, childToZap, pidToZap>>

LEMMA ForkFailsQuiet ==
    ASSUME IInv, HandInv, NEW p \in Procs, ForkFails(p)
    PROVE  QuietStep(p)
<1>1. /\ pc[p] = "s_fork" /\ pc'[p] \in {"s_fork", "s_release"}
      /\ \A q \in Procs \ {p} : pc'[q] = pc[q]
  BY DEF ForkFails, At, Goto, IInv, TypeInv, TypeOK
<1>2. QuietLabels(p)
  BY <1>1 DEF QuietLabels, OrphanSteps, SpawnSteps
<1>3. QuietEntries(p)
  BY <1>1, SameEntries DEF ForkFails, tableVars, AfterFork
<1> QED BY <1>2, <1>3 DEF QuietStep, ForkFails, mailboxVars

----------------------------------------------------------------------------
(* fork1, quit, and the steps on the mailbox of a handshake.               *)

\* The child c of p is process id.
ForkedStep(p, c, id) ==
    /\ At(p, "s_fork")
    /\ id \in Nat /\ id >= nextPid /\ c = Slot(id) /\ kstate[c] = "free"
    /\ kstate' = [kstate EXCEPT ![c] = "active"]
    /\ kpid' = [kpid EXCEPT ![c] = id]
    /\ kparent' = [kparent EXCEPT ![c] = p]
    /\ nextPid' = id + 1
    /\ newPid' = [newPid EXCEPT ![p] = id]
    /\ mboxID' = [mboxID EXCEPT ![c] = mboxID[p]]
    /\ pc' = [pc EXCEPT ![p] = "s_lock", ![c] = "l_receive"]
    /\ UNCHANGED <<mailboxVars, tableVars, program, childToZap, pidToZap, halted>>

LEMMA ForkLemma ==
    ASSUME IInv, NEW p \in Procs, SpawnFork(p)
    PROVE  ForkFails(p) \/ \E c \in Procs, id \in Nat : ForkedStep(p, c, id)
<1>1. ASSUME NEW id \in nextPid .. nextPid + MAXPROC - 1, FreePid(id)
      PROVE  id \in Nat /\ id >= nextPid /\ Slot(id) \in Procs
  BY SlotLemma, UserProcsAssumption DEF IInv, TypeInv, TypeOK
<1> QED BY <1>1 DEF SpawnFork, ForkFails, ForkedStep, FreePid

LEMMA ForkHand ==
    ASSUME IInv, HandInv, NEW p \in Procs, NEW c \in Procs, NEW id \in Nat,
           ForkedStep(p, c, id)
    PROVE  HandInv'
<1> USE DEF HandInv
<1>1. /\ pc[p] = "s_fork" /\ kstate[p] = "active" /\ p # NULL
      /\ pc[c] = "none" /\ mboxID[c] = EMPTY /\ c # p
      /\ c # Start2 /\ program[c] = NULL
  <2>1. pc[p] = "s_fork" /\ p # NULL /\ kstate[c] = "free"
    BY UserProcsAssumption DEF ForkedStep, At, NULL
  <2>2. /\ kstate[p] = "active" /\ pc[c] = "none" /\ c # Start2
    BY <2>1 DEF KernelInv
  <2>3. mboxID[c] = EMPTY /\ program[c] = NULL
    BY <2>2 DEF BoxInv, OwnerSteps, AfterFork, EntryInv
  <2> QED BY <2>1, <2>2, <2>3
<1>2. /\ pc'[p] = "s_lock" /\ pc'[c] = "l_receive"
      /\ kstate'[c] = "active" /\ kpid'[c] = id /\ kparent'[c] = p
      /\ newPid'[p] = id /\ mboxID'[c] = mboxID[p] /\ mboxID'[p] = mboxID[p]
      /\ kpid'[p] = kpid[p] /\ kparent'[p] = kparent[p] /\ kstate'[p] = kstate[p]
      /\ nextPid' = id + 1 /\ id \in Nat /\ id >= nextPid /\ c = Slot(id)
      /\ \A q \in Procs \ {p, c} : pc'[q] = pc[q]
      /\ \A q \in Procs \ {p} : newPid'[q] = newPid[q]
      /\ \A q \in Procs \ {c} :
            /\ kstate'[q] = kstate[q] /\ kpid'[q] = kpid[q]
            /\ kparent'[q] = kparent[q] /\ mboxID'[q] = mboxID[q]
  BY <1>1 DEF ForkedStep, IInv, TypeInv, TypeOK
<1>3. mbox' = mbox /\ ready' = ready /\ UNCHANGED <<pid, startFunc, parent, program>>
  BY DEF ForkedStep, mailboxVars, tableVars
<1>4. "s_lock" \in AfterFork /\ {"s_fork", "l_receive", "none"} \cap AfterFork = {}
  BY DEF AfterFork
<1>5. Spawning(c)'
  BY <1>1, <1>2, <1>4 DEF Spawning
<1>6. \A d \in Procs \ {c} : kstate[d] # "free" => (Spawning(d)' <=> Spawning(d))
  BY <1>1, <1>2, <1>4 DEF Spawning, KernelInv, IInv, TypeInv, TypeOK
<1>7. KernelInv'
  <2>1. kparent'[Start2] = NULL /\ kstate'[Start2] # "free"
    BY <1>1, <1>2, UserProcsAssumption DEF KernelInv
  <2>2. ASSUME NEW q \in Procs, kstate'[q] # "free"
        PROVE  kpid'[q] \in Nat /\ Slot(kpid'[q]) = q /\ kpid'[q] < nextPid'
    <3>1. CASE q = c
      BY <1>2, <3>1
    <3>2. CASE q # c
      BY <1>2, <2>2, <3>2 DEF KernelInv, IInv, TypeInv, TypeOK
    <3> QED BY <3>1, <3>2
  <2>3. ASSUME NEW q \in Procs, kstate'[q] # "free", kparent'[q] # NULL
        PROVE  /\ pc'[kparent'[q]] # "none"
               /\ kstate'[q] = "active" => pc'[q] # "none"
    <3>1. CASE q = c
      BY <1>2, <3>1
    <3>2. CASE q # c
      BY <1>1, <1>2, <2>3, <3>2 DEF KernelInv, IInv, TypeInv, TypeOK
    <3> QED BY <3>1, <3>2
  <2>4. ASSUME NEW q \in Procs, pc'[q] # "none"
        PROVE  /\ kstate'[q] = "active"
               /\ kparent'[q] = NULL => q = Start2 /\ pc'[q] \in OrphanSteps
    <3>1. CASE q = c
      BY <1>1, <1>2, <3>1
    <3>2. CASE q # c
      BY <1>1, <1>2, <2>4, <3>2 DEF KernelInv, OrphanSteps, SpawnSteps
    <3> QED BY <3>1, <3>2
  <2> QED BY <2>1, <2>2, <2>3, <2>4 DEF KernelInv
<1>8. ForkInv'
  <2> SUFFICES ASSUME NEW q \in Procs, pc'[q] \in AfterFork
               PROVE  newPid'[q] \in Nat /\ ChildOf(q, Slot(newPid[q]))'
    BY DEF ForkInv
  <2>1. CASE q = p
    BY <1>1, <1>2, <2>1 DEF ChildOf
  <2>2. CASE q # p
    <3>1. q # c /\ pc'[q] = pc[q] /\ newPid'[q] = newPid[q]
      BY <1>2, <1>4, <2>2
    <3>2. newPid[q] \in Nat /\ ChildOf(q, Slot(newPid[q]))
      BY <3>1 DEF ForkInv
    <3>3. PICK d \in Procs : d = Slot(newPid[q])
      BY <3>2, SlotLemma
    <3>4. d # c /\ d # p
      BY <1>1, <3>2, <3>3 DEF ChildOf
    <3> QED BY <1>2, <1>3, <3>1, <3>2, <3>3, <3>4 DEF ChildOf
  <2> QED BY <2>1, <2>2
<1>9. BoxInv'
  <2>1. Mail(c)' = Mail(p) /\ \A q \in Procs \ {c} : Mail(q)' = Mail(q)
    BY <1>2, <1>3 DEF Mail
  <2>2. \A q \in Procs : pc[q] # "none" => kstate[q] # "free"
    BY DEF KernelInv
  <2>3. ASSUME NEW q \in Procs \ {p, c} PROVE pc'[q] = pc[q] /\ Mail(q)' = Mail(q)
            /\ mboxID'[q] = mboxID[q]
            /\ (pc[q] # "none" => (Spawning(q)' <=> Spawning(q)))
    BY <1>2, <1>6, <2>1, <2>2
  <2>4. /\ mboxID[p] # EMPTY /\ Mail(p).open /\ Mail(p).slots = 1 /\ Mail(p).used = 0
        /\ Mail(p).senders = << >> /\ Mail(p).receivers = << >>
    BY <1>1 DEF BoxInv, OwnerSteps
  <2> QED BY <1>2, <1>3, <1>4, <1>5, <2>1, <2>3, <2>4 DEF BoxInv, OwnerSteps
<1>10. OwnerInv'
  <2>1. \A q \in Procs : mboxID[q] = mboxID[p] => q = p
    BY <1>1, <1>4 DEF OwnerInv, ForkInv, ChildOf, BoxInv, OwnerSteps
  <2>2. NoMailboxLeft'
    BY <1>1, <1>2, <1>3, MutexIsOpen DEF OwnerInv, NoMailboxLeft, MutexFacts, IInv
  <2> QED BY <1>1, <1>2, <1>4, <2>1, <2>2 DEF OwnerInv
<1>11. EntryInv' /\ OwnProgram'
  BY <1>1, <1>2, <1>3, <1>5, <1>6 DEF EntryInv, OwnProgram
<1> QED BY <1>7, <1>8, <1>9, <1>10, <1>11

(* quit, and what it leaves of the process and its children.               *)
LEMMA QuitHand ==
    ASSUME IInv, HandInv, NEW p \in Procs, quit(p)
    PROVE  HandInv'
<1> USE DEF HandInv
<1>1. CASE ActiveKids(p) # {}
  <2>1. /\ pc[p] = "t_quit" /\ pc' = pc
        /\ UNCHANGED <<kstate, kpid, kparent, nextPid, newPid, mboxID, pid, startFunc,
                       parent, program, mbox, ready>>
    BY <1>1 DEF quit, At, localVars, mailboxVars, tableVars
  <2>2. QuietEntries(p)
    BY <2>1, SameEntries DEF AfterFork
  <2>3. QuietLabels(p)
    BY <2>1 DEF QuietLabels, OwnerSteps, AfterFork, OrphanSteps
  <2> QED BY <2>1, <2>2, <2>3, QuietHand DEF QuietStep
<1>2. CASE ActiveKids(p) = {}
  <2>1. /\ pc[p] = "t_quit" /\ pc'[p] = "none"
        /\ \A q \in Procs \ {p} : pc'[q] = pc[q] /\ program'[q] = program[q]
        /\ program'[p] = NULL
    BY <1>2 DEF quit, At, Goto, IInv, TypeInv, TypeOK
  <2>2. UNCHANGED <<kpid, kparent, nextPid, newPid, mboxID, pid, startFunc, parent,
                    mbox, ready>>
    BY <1>2 DEF quit, mailboxVars, tableVars
  <2>3. /\ kstate'[p] = "quit" /\ p # NULL
        /\ \A q \in Procs \ {p} :
                IF kparent[q] = p THEN kstate[q] # "active" /\ kstate'[q] = "free"
                ELSE kstate'[q] = kstate[q]
    <3>1. p # NULL /\ kstate \in [Procs -> {"free", "active", "quit"}]
      BY UserProcsAssumption DEF NULL, IInv, TypeInv, TypeOK
    <3>2. kstate' = [q \in Procs |-> IF q = p THEN "quit"
                                    ELSE IF q \in Kids(p) THEN "free" ELSE kstate[q]]
      BY <1>2 DEF quit
    <3> QED BY <1>2, <3>1, <3>2 DEF Kids, ActiveKids
  <2>4. /\ kstate[p] = "active" /\ kparent[p] # p
    BY <1>2, <2>1 DEF KernelInv, ActiveKids, Kids
  <2>5. {"t_quit", "none"} \cap OwnerSteps = {} /\ AfterFork \subseteq OwnerSteps
    BY DEF OwnerSteps, AfterFork
  <2>6. \A q \in Procs : Spawning(q)' <=> Spawning(q)
    BY <2>1, <2>2, <2>5 DEF Spawning, IInv, TypeInv, TypeOK
  <2>7. KernelInv'
    <3>1. kparent'[Start2] = NULL /\ kstate'[Start2] # "free"
      BY <2>2, <2>3, UserProcsAssumption DEF KernelInv
    <3> QED BY <2>1, <2>2, <2>3, <2>4, <3>1 DEF KernelInv, IInv, TypeInv, TypeOK
  <2>8. ForkInv'
    <3> SUFFICES ASSUME NEW q \in Procs, pc'[q] \in AfterFork
                 PROVE  newPid[q] \in Nat /\ ChildOf(q, Slot(newPid[q]))'
      BY <2>2 DEF ForkInv
    <3>1. q # p /\ pc'[q] = pc[q]
      BY <2>1, <2>5
    <3>2. newPid[q] \in Nat /\ ChildOf(q, Slot(newPid[q]))
      BY <3>1 DEF ForkInv
    <3>3. PICK d \in Procs : d = Slot(newPid[q])
      BY <3>2, SlotLemma
    <3>4. d # p /\ kstate'[d] = kstate[d] /\ pc'[d] = pc[d]
      BY <2>1, <2>3, <3>1, <3>2, <3>3 DEF ChildOf
    <3> QED BY <2>2, <3>1, <3>2, <3>3, <3>4 DEF ChildOf
  <2>9. BoxInv'
    BY <2>1, <2>2, <2>5, <2>6 DEF BoxInv, Mail, OwnerSteps
  <2>10. OwnerInv'
    BY <2>1, <2>2, <2>5 DEF OwnerInv, NoMailboxLeft
  <2>11. EntryInv' /\ OwnProgram'
    <3>1. \A q \in Procs : kstate'[q] # "free" => kstate[q] # "free"
      BY <2>3, <2>4
    <3> QED BY <2>1, <2>2, <2>6, <3>1 DEF EntryInv, OwnProgram
  <2> QED BY <2>7, <2>8, <2>9, <2>10, <2>11
<1> QED BY <1>1, <1>2

(* What the steps on the mailbox of a handshake have in common.            *)
HandshakeFrame(p) ==
    /\ UNCHANGED <<kstate, kpid, kparent, nextPid, pid, startFunc, parent, program>>
    /\ \A q \in Procs \ {p} :
        pc'[q] = pc[q] /\ mboxID'[q] = mboxID[q] /\ newPid'[q] = newPid[q]
    /\ pc[p] # "none" /\ pc'[p] # "none" /\ pc'[p] \notin AfterFork
    /\ kparent[p] = NULL => pc'[p] \in OrphanSteps
    /\ Spawning(p) /\ pc[p] \in {"l_receive", "l_release"} =>
        pc'[p] = "l_release" /\ mboxID'[p] = mboxID[p]

LEMMA FrameLemma ==
    ASSUME IInv, HandInv, NEW p \in Procs, HandshakeFrame(p)
    PROVE  /\ \A c \in Procs :
                Spawning(c)' <=> /\ Spawning(c)
                                 /\ ~(pc[p] \in AfterFork /\ kparent[c] = p)
           /\ KernelInv' /\ ForkInv' /\ OwnProgram'
<1> USE DEF HandInv
<1>1. \A c \in Procs :
        Spawning(c)' <=> Spawning(c) /\ ~(pc[p] \in AfterFork /\ kparent[c] = p)
  BY DEF HandshakeFrame, Spawning, IInv, TypeInv, TypeOK
<1>2. KernelInv'
  BY DEF HandshakeFrame, KernelInv, IInv, TypeInv, TypeOK
<1>3. ForkInv'
  <2> SUFFICES ASSUME NEW q \in Procs, pc'[q] \in AfterFork
               PROVE  newPid'[q] \in Nat /\ ChildOf(q, Slot(newPid[q]))'
    BY DEF ForkInv
  <2>1. /\ q # p /\ pc'[q] = pc[q] /\ newPid'[q] = newPid[q]
        /\ newPid[q] \in Nat /\ ChildOf(q, Slot(newPid[q]))
    BY DEF HandshakeFrame, ForkInv
  <2>2. PICK d \in Procs : d = Slot(newPid[q])
    BY <2>1, SlotLemma
  <2>3. kstate[d] # "free"
    BY <2>1, <2>2 DEF ChildOf
  <2>4. Spawning(d)
    BY <2>1, <2>2, <2>3, SpawningChild
  <2>5. pc'[d] \in {"l_receive", "l_release"} /\ mboxID'[d] = mboxID[d]
    BY <2>1, <2>2, <2>4 DEF ChildOf, HandshakeFrame
  <2> QED BY <2>1, <2>2, <2>5 DEF ChildOf, HandshakeFrame
<1>4. OwnProgram'
  BY DEF HandshakeFrame, OwnProgram
<1> QED BY <1>1, <1>2, <1>3, <1>4

(* A mailbox whose owner is neither a spawning parent nor its child.       *)
LEMMA SoleOwner ==
    ASSUME IInv, HandInv, NEW p \in Procs, mboxID[p] # EMPTY,
           pc[p] \notin AfterFork, ~Spawning(p), NEW q \in Procs \ {p}
    PROVE  mboxID[q] # mboxID[p]
<1>1. kstate[p] # "free"
  BY DEF HandInv, BoxInv, OwnerSteps, AfterFork, KernelInv
<1>2. ~(pc[q] \in AfterFork /\ p = Slot(newPid[q]))
  BY <1>1, SpawningChild
<1> QED BY <1>2 DEF HandInv, OwnerInv

(* Every open mailbox but ProcTableMutex has an owner of its own.          *)
LEMMA FreeMailbox ==
    ASSUME IInv, HandInv, EnoughMailboxes, NEW p \in Procs, mboxID[p] = EMPTY
    PROVE  FreeBoxes # {}
<1> SUFFICES ASSUME FreeBoxes = {} PROVE FALSE
  OBVIOUS
<1> DEFINE S == Boxes \ {ProcTableMutex}
           T == Procs \ {p}
<1>1. \A b \in S : \E q \in T : mboxID[q] = b
  <2> SUFFICES ASSUME NEW b \in S PROVE \E q \in T : mboxID[q] = b
    OBVIOUS
  <2>1. PICK q \in Procs : mboxID[q] = b
    BY DEF FreeBoxes, HandInv, OwnerInv, NoMailboxLeft
  <2>2. b # EMPTY
    BY MutexIsOpen DEF MutexFacts, IInv
  <2> QED BY <2>1, <2>2
<1>2. PICK owner \in [S -> T] : \A b \in S : mboxID[owner[b]] = b
  <2> DEFINE o == [b \in S |-> CHOOSE q \in T : mboxID[q] = b]
  <2> HIDE DEF T
  <2>1. o \in [S -> T] /\ \A b \in S : mboxID[o[b]] = b
    BY <1>1
  <2> QED BY <2>1
<1>3. IsFiniteSet(Boxes) /\ Cardinality(Boxes) = MAXMBOX
  <2>1. 0 \in Int /\ MAXMBOX - 1 \in Int /\ ~(0 > MAXMBOX - 1)
    BY UserProcsAssumption, MailboxAssumption DEF EnoughMailboxes
  <2>2. IsFiniteSet(0 .. MAXMBOX - 1) /\ Cardinality(0 .. MAXMBOX - 1) = MAXMBOX - 1 - 0 + 1
    BY ONLY <2>1, FS_Interval
  <2> QED BY <2>2, MailboxAssumption DEF Boxes
<1>4. IsFiniteSet(S) /\ Cardinality(S) = MAXMBOX - 1
  BY <1>3, FS_RemoveElement, MutexIsOpen DEF MutexFacts, IInv
<1>5. IsFiniteSet(Procs) /\ Cardinality(Procs) = MAXPROC
  BY FS_Interval, UserProcsAssumption
<1>6. IsFiniteSet(T) /\ Cardinality(T) = MAXPROC - 1
  BY <1>5, FS_RemoveElement
<1>7. Cardinality(T) < Cardinality(S)
  BY <1>4, <1>6, UserProcsAssumption, MailboxAssumption DEF EnoughMailboxes
<1>8. PICK x \in S, y \in S : x # y /\ owner[x] = owner[y]
  <2> HIDE DEF S, T
  <2> QED BY <1>2, <1>4, <1>6, <1>7, FS_PigeonHole
<1> QED BY <1>2, <1>8

(* spawnReal gets a mailbox, which nobody else uses.                       *)
LEMMA CreateHand ==
    ASSUME IInv, HandInv, EnoughMailboxes, NEW p \in Procs, SpawnCreate(p)
    PROVE  HandInv'
<1> USE DEF HandInv
<1>1. /\ pc[p] = "s_create" /\ mboxID[p] = EMPTY
      /\ pc'[p] = "s_fork" /\ \A q \in Procs \ {p} : pc'[q] = pc[q]
  BY DEF SpawnCreate, At, Goto, BoxInv, OwnerSteps, AfterFork, IInv, TypeInv, TypeOK
<1>2. PICK b \in Boxes :
        /\ MboxCreate(1, b) /\ ~mbox[b].open
        /\ mbox' = [mbox EXCEPT ![b] = NewBox(1)] /\ ready' = ready
        /\ mboxID' = [mboxID EXCEPT ![p] = b]
  BY <1>1, FreeMailbox DEF SpawnCreate, MboxCreate, FreeBoxes
<1>3. /\ mboxID'[p] = b /\ \A q \in Procs \ {p} : mboxID'[q] = mboxID[q]
      /\ mbox'[b] = NewBox(1) /\ \A d \in Boxes \ {b} : mbox'[d] = mbox[d]
      /\ b # EMPTY
  BY <1>2, MutexIsOpen DEF MutexFacts, IInv, TypeInv, TypeOK, MailboxTypeOK
<1>4. newPid' = newPid /\ UNCHANGED <<pid, startFunc, parent, program, kstate, kpid,
                                      kparent, nextPid>>
  BY DEF SpawnCreate, kernelVars, tableVars
<1>5. "s_fork" \notin AfterFork /\ "s_create" \notin AfterFork
      /\ AfterFork \subseteq OwnerSteps
  BY DEF AfterFork, OwnerSteps
<1>6. HandshakeFrame(p)
  BY <1>1, <1>3, <1>4, <1>5 DEF HandshakeFrame, OrphanSteps, SpawnSteps
<1>7. /\ \A c \in Procs : Spawning(c)' <=> Spawning(c)
      /\ KernelInv' /\ ForkInv' /\ OwnProgram'
  BY <1>1, <1>5, <1>6, FrameLemma
<1>8. \A q \in Procs \ {p} : pc[q] \in OwnerSteps => Mail(q)' = Mail(q) /\ mboxID[q] # b
  <2> SUFFICES ASSUME NEW q \in Procs \ {p}, pc[q] \in OwnerSteps
               PROVE  mboxID[q] # b /\ mboxID[q] \in Boxes
    BY <1>3 DEF Mail
  <2> QED BY <1>2 DEF BoxInv, Mail, IInv, TypeInv, TypeOK
<1>9. BoxInv'
  <2>1. Mail(p)' = NewBox(1)
    BY <1>3 DEF Mail
  <2> QED BY <1>1, <1>2, <1>3, <1>5, <1>7, <1>8, <2>1 DEF BoxInv, NewBox, OwnerSteps
<1>10. OwnerInv'
  <2>1. \A q \in Procs \ {p} : mboxID[q] # b
    BY <1>3, <1>8 DEF BoxInv
  <2>2. NoMailboxLeft'
    <3> SUFFICES ASSUME NEW d \in Boxes \ {ProcTableMutex}, mbox'[d].open
                 PROVE  \E q \in Procs : mboxID'[q] = d
      BY DEF NoMailboxLeft
    <3>1. CASE d = b
      BY <1>3, <3>1
    <3>2. CASE d # b
      <4>1. PICK q \in Procs : mboxID[q] = d
        BY <1>3, <3>2 DEF OwnerInv, NoMailboxLeft
      <4>2. q # p
        BY <1>1, <4>1, MutexIsOpen DEF MutexFacts, IInv
      <4> QED BY <1>3, <4>1, <4>2
    <3> QED BY <3>1, <3>2
  <2>3. ASSUME NEW q \in Procs, NEW r \in Procs, q # r,
               mboxID'[q] = mboxID'[r], mboxID'[q] # EMPTY
        PROVE  q # p /\ r # p
    BY <1>3, <2>1, <2>3
  <2> QED BY <1>1, <1>3, <1>4, <2>2, <2>3 DEF OwnerInv
<1>11. EntryInv'
  BY <1>1, <1>4, <1>7 DEF EntryInv
<1> QED BY <1>7, <1>9, <1>10, <1>11

(* The last one that uses the mailbox of a handshake releases it.          *)
LEMMA ReleaseHand ==
    ASSUME IInv, HandInv, NEW p \in Procs, SpawnRelease(p) \/ LaunchRelease(p)
    PROVE  HandInv'
<1> USE DEF HandInv
<1>1. /\ p \in ready /\ pc[p] \in {"s_release", "l_release"}
      /\ pc'[p] = IF pc[p] = "s_release" THEN "return" ELSE "l_lock"
      /\ \A q \in Procs \ {p} : pc'[q] = pc[q]
  BY DEF SpawnRelease, LaunchRelease, At, Goto, IInv, TypeInv, TypeOK
<1>2. PICK b \in Boxes : b = mboxID[p]
  BY <1>1 DEF BoxInv, OwnerSteps, IInv, TypeInv, TypeOK
<1>3. kstate[p] # "free" /\ ~Spawning(p)
  BY <1>1, SpawningChild DEF KernelInv, BoxInv, ChildOf
<1>4. /\ mbox[b].open /\ mbox[b].senders = << >> /\ mbox[b].receivers = << >>
  BY <1>1, <1>2, <1>3 DEF BoxInv, Mail, OwnerSteps
<1>5. mbox' = [mbox EXCEPT ![b] = ClosedBox] /\ ready' = ready
  <2>1. Waiting(b) = {}
    BY <1>4 DEF Waiting, Members
  <2> QED BY <1>2, <1>4, <2>1 DEF SpawnRelease, LaunchRelease, MboxRelease, IsOpen
<1>6. /\ mboxID'[p] = EMPTY /\ \A q \in Procs \ {p} : mboxID'[q] = mboxID[q]
      /\ newPid' = newPid
      /\ UNCHANGED <<pid, startFunc, parent, program, kstate, kpid, kparent, nextPid>>
  BY DEF SpawnRelease, LaunchRelease, kernelVars, tableVars, IInv, TypeInv, TypeOK
<1>7. {"s_release", "l_release", "return", "l_lock", "none"} \cap AfterFork = {}
  BY DEF AfterFork
<1>8. HandshakeFrame(p)
  <2>1. kparent[p] = NULL => pc'[p] \in OrphanSteps
    BY <1>1, OrphanLemma DEF OrphanSteps, SpawnSteps
  <2> QED BY <1>1, <1>3, <1>6, <1>7, <2>1 DEF HandshakeFrame
<1>9. /\ \A c \in Procs : Spawning(c)' <=> Spawning(c)
      /\ KernelInv' /\ ForkInv' /\ OwnProgram'
  BY <1>1, <1>7, <1>8, FrameLemma
<1>10. \A q \in Procs \ {p} : mboxID[q] # b
  BY <1>1, <1>2, <1>3, <1>7, SoleOwner, MutexIsOpen DEF MutexFacts, IInv
<1>11. BoxInv'
  <2>1. ASSUME NEW q \in Procs \ {p}, pc[q] \in OwnerSteps PROVE Mail(q)' = Mail(q)
    BY <1>5, <1>6, <1>10, <2>1 DEF Mail, BoxInv, IInv, TypeInv, TypeOK
  <2>2. pc'[p] \notin OwnerSteps
    BY <1>1, <1>7 DEF OwnerSteps
  <2>3. \A q \in Procs : pc'[q] \in AfterFork => pc'[q] \in OwnerSteps
    BY DEF OwnerSteps
  <2> QED BY <1>1, <1>5, <1>6, <1>9, <2>1, <2>2, <2>3 DEF BoxInv, OwnerSteps
<1>12. OwnerInv'
  <2>1. NoMailboxLeft'
    <3> SUFFICES ASSUME NEW d \in Boxes \ {ProcTableMutex}, mbox'[d].open
                 PROVE  \E q \in Procs : mboxID'[q] = d
      BY DEF NoMailboxLeft
    <3>1. d # b
      BY <1>5 DEF ClosedBox, IInv, TypeInv, TypeOK, MailboxTypeOK
    <3>2. mbox[d].open
      BY <1>5, <3>1 DEF IInv, TypeInv, TypeOK, MailboxTypeOK
    <3> QED BY <1>2, <1>6, <3>1, <3>2 DEF OwnerInv, NoMailboxLeft
  <2> QED BY <1>1, <1>6, <2>1 DEF OwnerInv
<1>13. EntryInv'
  BY <1>1, <1>6, <1>9 DEF EntryInv
<1> QED BY <1>9, <1>11, <1>12, <1>13

(* The message lets the child go on, whose entry is complete.              *)
LEMMA SendHand ==
    ASSUME IInv, HandInv, NEW p \in Procs, SpawnSend(p)
    PROVE  HandInv'
<1> USE DEF HandInv
<1>1. /\ pc[p] = "s_send" /\ pc'[p] = "return" /\ p # NULL
      /\ \A q \in Procs \ {p} : pc'[q] = pc[q]
  BY UserProcsAssumption DEF SpawnSend, At, Goto, NULL, IInv, TypeInv, TypeOK
<1>2. {"return", "none", "l_receive", "l_release"} \cap AfterFork = {}
      /\ "s_send" \in AfterFork /\ AfterFork \subseteq OwnerSteps
  BY DEF AfterFork, OwnerSteps
<1>3. PICK c \in Procs : c = Slot(newPid[p]) /\ newPid[p] \in Nat /\ ChildOf(p, c)
  BY <1>1, <1>2, SlotLemma DEF ForkInv
<1>4. /\ kstate[c] = "active" /\ kpid[c] = newPid[p] /\ kparent[c] = p /\ c # p
      /\ mboxID[c] = mboxID[p] /\ pc[c] \in {"l_receive", "l_release"}
      /\ startFunc[c] = kpid[c] /\ pid[c] = kpid[c] /\ parent[c] = p
      /\ pc'[c] = pc[c] /\ Spawning(c)
  BY <1>1, <1>2, <1>3 DEF ChildOf, Spawning
<1>5. PICK b \in Boxes : b = mboxID[p]
  BY <1>1, <1>2 DEF BoxInv, IInv, TypeInv, TypeOK
<1>6. /\ mbox[b].open /\ mbox[b].slots = 1 /\ mbox[b].used = 0 /\ mbox[b] \in Mailbox
      /\ mbox[b].senders = << >> /\ Mail(c) = mbox[b] /\ b # EMPTY
  BY <1>1, <1>2, <1>4, <1>5, MutexIsOpen
     DEF BoxInv, Mail, MutexFacts, IInv, TypeInv, TypeOK, MailboxTypeOK
<1>7. /\ mboxID'[p] = EMPTY /\ \A q \in Procs \ {p} : mboxID'[q] = mboxID[q]
      /\ newPid'[p] = EMPTY /\ \A q \in Procs \ {p} : newPid'[q] = newPid[q]
      /\ UNCHANGED <<pid, startFunc, parent, program, kstate, kpid, kparent, nextPid>>
  BY DEF SpawnSend, kernelVars, tableVars, IInv, TypeInv, TypeOK
<1>8. HandshakeFrame(p)
  <2>1. ~Spawning(p)
    BY <1>1, SpawningChild DEF KernelInv, ChildOf
  <2> QED BY <1>1, <1>2, <1>7, <2>1 DEF HandshakeFrame, OrphanSteps
<1>9. /\ \A d \in Procs : Spawning(d)' <=> Spawning(d) /\ kparent[d] # p
      /\ KernelInv' /\ ForkInv' /\ OwnProgram'
  BY <1>1, <1>2, <1>8, FrameLemma
<1>10. \A d \in Procs : Spawning(d) /\ kstate[d] # "free" /\ kparent[d] = p => d = c
  BY <1>3 DEF KernelInv, Spawning
<1>11. \A q \in Procs \ {p, c} : mboxID[q] # b
  <2> SUFFICES ASSUME NEW q \in Procs \ {p, c}, mboxID[q] = b PROVE FALSE
    OBVIOUS
  <2>1. pc[q] \in AfterFork /\ p = Slot(newPid[q])
    BY <1>3, <1>5, <1>6 DEF OwnerInv
  <2> QED BY <1>1, <2>1 DEF ForkInv, ChildOf
<1>12. /\ \A d \in Boxes \ {b} : mbox'[d] = mbox[d]
       /\ mbox'[b].open /\ mbox'[b].slots = 1 /\ mbox'[b].senders = << >>
       /\ mbox'[b].receivers = << >>
       /\ \/ pc[c] = "l_receive" /\ mbox'[b].used = 1 /\ ready' = ready
          \/ pc[c] = "l_release" /\ mbox'[b].used = 0 /\ ready' = ready \cup {c}
  <2>1. IsOpen(b) /\ MboxSend(p, b)
    BY <1>5, <1>6 DEF SpawnSend, IsOpen
  <2>2. CASE pc[c] = "l_receive"
    <3>1. mbox[b].receivers = << >>
      BY <1>6, <2>2 DEF BoxInv
    <3>2. mbox' = [mbox EXCEPT ![b].used = @ + 1] /\ ready' = ready
      BY <1>6, <2>1, <3>1 DEF MboxSend
    <3> QED BY <1>6, <2>2, <3>1, <3>2 DEF IInv, TypeInv, TypeOK, MailboxTypeOK, Mailbox
  <2>3. CASE pc[c] = "l_release"
    <3>1. mbox[b].receivers = <<c>>
      BY <1>4, <1>6, <2>3 DEF BoxInv
    <3>2. <<c>> # << >> /\ Head(<<c>>) = c /\ Tail(<<c>>) = << >>
      OBVIOUS
    <3>3. mbox' = [mbox EXCEPT ![b].receivers = Tail(@)] /\ ready' = ready \cup {c}
      BY <2>1, <3>1, <3>2 DEF MboxSend
    <3> QED BY <1>6, <2>3, <3>1, <3>2, <3>3
            DEF IInv, TypeInv, TypeOK, MailboxTypeOK, Mailbox
  <2> QED BY <1>4, <2>2, <2>3
<1>13. BoxInv'
  <2>1. pc'[p] \notin OwnerSteps /\ mboxID'[p] = EMPTY
    BY <1>1, <1>2, <1>7 DEF OwnerSteps
  <2>2. Mail(c)' = mbox'[b] /\ ~Spawning(c)' /\ mboxID'[c] # EMPTY
    BY <1>4, <1>5, <1>6, <1>7, <1>9 DEF Mail
  <2>3. ASSUME NEW q \in Procs \ {p, c}, pc[q] \in OwnerSteps
        PROVE  /\ Mail(q)' = Mail(q) /\ (Spawning(q)' <=> Spawning(q))
               /\ pc[q] = "l_release" => (q \in ready' <=> q \in ready)
    <3>1. mboxID[q] \in Boxes \ {b} /\ kstate[q] # "free"
      BY <1>11, <2>3 DEF BoxInv, KernelInv, OwnerSteps, AfterFork, IInv, TypeInv, TypeOK
    <3> QED BY <1>7, <1>9, <1>10, <1>12, <3>1 DEF Mail
  <2>4. /\ pc'[c] \in OwnerSteps /\ Mail(c)'.open /\ Mail(c)'.slots = 1
        /\ Mail(c)'.senders = << >> /\ Mail(c)'.receivers = << >>
        /\ pc'[c] = "l_receive" => Mail(c)'.used = 1
        /\ pc'[c] = "l_release" => c \in ready'
    BY <1>4, <1>12, <2>2 DEF OwnerSteps
  <2>5. \A q \in Procs \ {p, c} : pc'[q] = pc[q] /\ mboxID'[q] = mboxID[q]
    BY <1>1, <1>7
  <2> QED BY <1>2, <1>4, <2>1, <2>2, <2>3, <2>4, <2>5 DEF BoxInv, OwnerSteps
<1>14. OwnerInv'
  <2>1. NoMailboxLeft'
    <3> SUFFICES ASSUME NEW d \in Boxes \ {ProcTableMutex}, mbox'[d].open
                 PROVE  \E q \in Procs : mboxID'[q] = d
      BY DEF NoMailboxLeft
    <3>1. CASE d = b
      BY <1>4, <1>5, <1>7, <3>1
    <3>2. CASE d # b
      BY <1>5, <1>7, <1>12, <3>2 DEF OwnerInv, NoMailboxLeft
    <3> QED BY <3>1, <3>2
  <2>2. ASSUME NEW q \in Procs, NEW r \in Procs, q # r,
               mboxID'[q] = mboxID'[r], mboxID'[q] # EMPTY
        PROVE  q # p /\ r # p
    BY <1>7, <2>2
  <2> QED BY <1>1, <1>7, <2>1, <2>2 DEF OwnerInv
<1>15. EntryInv'
  <2>1. ASSUME NEW s \in Procs, kstate[s] # "free", kparent[s] # NULL, ~Spawning(s)'
        PROVE  startFunc[s] = kpid[s] /\ pid[s] = kpid[s] /\ parent[s] = kparent[s]
    BY <1>4, <1>9, <1>10, <2>1 DEF EntryInv
  <2> QED BY <1>1, <1>7, <2>1 DEF EntryInv
<1> QED BY <1>9, <1>13, <1>14, <1>15

(* The child takes the message, or waits for it.                           *)
LEMMA ReceiveHand ==
    ASSUME IInv, HandInv, NEW p \in Procs, LaunchReceive(p)
    PROVE  HandInv'
<1> USE DEF HandInv
<1>1. /\ pc[p] = "l_receive" /\ pc'[p] = "l_release" /\ p \in ready
      /\ \A q \in Procs \ {p} : pc'[q] = pc[q]
      /\ newPid' = newPid /\ mboxID' = mboxID
      /\ UNCHANGED <<pid, startFunc, parent, program, kstate, kpid, kparent, nextPid>>
  BY DEF LaunchReceive, At, Goto, kernelVars, tableVars, localVars, IInv, TypeInv, TypeOK
<1>2. {"l_receive", "l_release", "none"} \cap AfterFork = {}
      /\ AfterFork \subseteq OwnerSteps
  BY DEF AfterFork, OwnerSteps
<1>3. PICK b \in Boxes : b = mboxID[p]
  BY <1>1 DEF BoxInv, OwnerSteps, IInv, TypeInv, TypeOK
<1>4. /\ mbox[b].open /\ mbox[b].slots = 1 /\ mbox[b].senders = << >>
      /\ mbox[b].receivers = << >> /\ Mail(p) = mbox[b] /\ mbox[b] \in Mailbox
      /\ b # EMPTY
  BY <1>1, <1>3, MutexIsOpen
     DEF BoxInv, Mail, OwnerSteps, MutexFacts, IInv, TypeInv, TypeOK, MailboxTypeOK
<1>5. HandshakeFrame(p)
  <2>1. kparent[p] # NULL
    BY <1>1, OrphanLemma DEF OrphanSteps, SpawnSteps
  <2> QED BY <1>1, <1>2, <2>1 DEF HandshakeFrame
<1>6. /\ \A c \in Procs : Spawning(c)' <=> Spawning(c)
      /\ KernelInv' /\ ForkInv' /\ OwnProgram'
  BY <1>1, <1>2, <1>5, FrameLemma
<1>7. kstate[p] # "free"
  BY <1>1 DEF KernelInv
<1>8. Spawning(p) => mbox[b].used = 0
  <2> SUFFICES ASSUME Spawning(p) PROVE mbox[b].used = 0
    OBVIOUS
  <2>1. PICK q \in Procs : pc[q] \in AfterFork /\ ChildOf(q, p)
    BY <1>7, SpawningChild
  <2> QED BY <1>4, <2>1 DEF ChildOf, BoxInv, Mail
<1>9. /\ \A d \in Boxes \ {b} : mbox'[d] = mbox[d]
      /\ mbox'[b].open /\ mbox'[b].slots = 1 /\ mbox'[b].senders = << >>
      /\ mbox'[b].used = 0
      /\ IF Spawning(p) THEN mbox'[b].receivers = <<p>> /\ ready' = ready \ {p}
                        ELSE mbox'[b].receivers = << >> /\ ready' = ready
  <2>1. IsOpen(b) /\ MboxReceive(p, b)
    BY <1>3, <1>4 DEF LaunchReceive, IsOpen
  <2>2. CASE Spawning(p)
    <3>1. ~HasMessage(b)
      BY <1>4, <1>8, <2>2 DEF HasMessage
    <3>2. ready' = ready \ {p} /\ mbox' = [mbox EXCEPT ![b].receivers = Append(@, p)]
      BY <2>1, <3>1 DEF MboxReceive
    <3>3. Append(mbox[b].receivers, p) = <<p>>
      BY <1>4
    <3> QED BY <1>4, <1>8, <2>2, <3>2, <3>3
            DEF IInv, TypeInv, TypeOK, MailboxTypeOK, Mailbox
  <2>3. CASE ~Spawning(p)
    <3>1. mbox[b].used = 1
      BY <1>1, <1>4, <2>3 DEF BoxInv
    <3>2. mbox' = [mbox EXCEPT ![b].used = @ - 1] /\ ready' = ready
      BY <1>4, <2>1, <3>1 DEF MboxReceive, HasMessage, TakeMessage
    <3> QED BY <1>4, <2>3, <3>1, <3>2 DEF IInv, TypeInv, TypeOK, MailboxTypeOK, Mailbox
  <2> QED BY <2>2, <2>3
<1>10. BoxInv'
  <2>1. Mail(p)' = mbox'[b] /\ pc'[p] \in OwnerSteps /\ mboxID'[p] # EMPTY
    BY <1>1, <1>3, <1>4 DEF Mail, OwnerSteps
  <2>2. p \in ready' <=> ~Spawning(p)
    BY <1>1, <1>9
  <2>3. ASSUME NEW q \in Procs \ {p}, pc[q] \in OwnerSteps
        PROVE  /\ pc[q] = "l_release" => (q \in ready' <=> q \in ready)
               /\ \/ Mail(q)' = Mail(q)
                  \/ /\ pc[q] \in AfterFork /\ Mail(q)'.open /\ Mail(q)'.slots = 1
                     /\ Mail(q)'.senders = << >> /\ Mail(q)'.used = 0
    <3>1. mboxID[q] \in Boxes
      BY <2>3 DEF BoxInv, IInv, TypeInv, TypeOK
    <3>2. CASE mboxID[q] = b
      <4>1. pc[q] \in AfterFork
        <5>1. \/ pc[q] \in AfterFork
              \/ pc[p] \in AfterFork
          BY <1>3, <1>4, <3>2 DEF OwnerInv
        <5> QED BY <1>1, <1>2, <5>1
      <4> QED BY <1>1, <1>2, <1>9, <3>2, <4>1 DEF Mail
    <3>3. CASE mboxID[q] # b
      BY <1>1, <1>9, <3>1, <3>3 DEF Mail
    <3> QED BY <3>2, <3>3
  <2>4. \A q \in Procs \ {p} : pc'[q] = pc[q] /\ mboxID'[q] = mboxID[q]
    BY <1>1
  <2>5. {"s_fork", "s_release"} \cap AfterFork = {}
    BY DEF AfterFork
  <2> QED BY <1>1, <1>2, <1>6, <1>9, <2>1, <2>2, <2>3, <2>4, <2>5
          DEF BoxInv, OwnerSteps
<1>11. OwnerInv'
  <2>1. NoMailboxLeft'
    <3> SUFFICES ASSUME NEW d \in Boxes \ {ProcTableMutex}, mbox'[d].open
                 PROVE  \E q \in Procs : mboxID'[q] = d
      BY DEF NoMailboxLeft
    <3> QED BY <1>1, <1>3, <1>9 DEF OwnerInv, NoMailboxLeft
  <2>2. \A q \in Procs : pc[q] \in AfterFork => pc'[q] \in AfterFork
    BY <1>1, <1>2
  <2> QED BY <1>1, <2>1, <2>2 DEF OwnerInv
<1>12. EntryInv'
  BY <1>1, <1>6 DEF EntryInv
<1> QED BY <1>6, <1>10, <1>11, <1>12

----------------------------------------------------------------------------
LEMMA InitHand == Init => HandInv
<1> SUFFICES ASSUME Init PROVE HandInv
  OBVIOUS
<1>1. /\ \A p \in Procs : /\ kparent[p] = NULL /\ mboxID[p] = EMPTY
                          /\ program[p] = NULL
                          /\ pc[p] = IF p = Start2 THEN "s_create" ELSE "none"
                          /\ kstate[p] = IF p \in 1 .. Start2 THEN "active" ELSE "free"
                          /\ kpid[p] = IF p \in 1 .. Start2 THEN p ELSE EMPTY
      /\ nextPid = Start2 + 1
      /\ \A b \in Boxes \ {ProcTableMutex} : mbox[b] = ClosedBox
  BY DEF Init, ProcInit
<1>2. {"s_create", "none"} \cap OwnerSteps = {} /\ AfterFork \subseteq OwnerSteps
  BY DEF OwnerSteps, AfterFork
<1>3. KernelInv
  <2>1. Start2 \in Procs /\ Start2 \in 1 .. Start2
    BY UserProcsAssumption
  <2>2. ASSUME NEW p \in Procs, p \in 1 .. Start2
        PROVE  kpid[p] \in Nat /\ Slot(kpid[p]) = p /\ kpid[p] < nextPid
    BY <1>1, <2>2, UserProcsAssumption DEF Slot
  <2> QED BY <1>1, <2>1, <2>2 DEF KernelInv, OrphanSteps, SpawnSteps
<1>4. ForkInv /\ BoxInv
  BY <1>1, <1>2 DEF ForkInv, BoxInv, OwnerSteps
<1>5. OwnerInv
  BY <1>1 DEF OwnerInv, NoMailboxLeft, ClosedBox
<1>6. EntryInv /\ OwnProgram
  BY <1>1 DEF EntryInv, OwnProgram
<1> QED BY <1>3, <1>4, <1>5, <1>6 DEF HandInv

LEMMA NextHand == EnoughMailboxes /\ IInv /\ HandInv /\ [Next]_vars => HandInv'
<1> SUFFICES ASSUME EnoughMailboxes, IInv, HandInv, [Next]_vars PROVE HandInv'
  OBVIOUS
<1>1. CASE UNCHANGED vars
  BY <1>1 DEF HandInv, KernelInv, ForkInv, ChildOf, BoxInv, OwnerInv, NoMailboxLeft,
              EntryInv, OwnProgram, Spawning, Mail, vars, mailboxVars, kernelVars,
              tableVars, localVars
<1>2. CASE Next
  <2>1. PICK p \in Procs :
            HandlerStep(p) \/ spawn(p) \/ waitHandler(p) \/ terminate(p) \/ otherCall(p)
    BY <1>2 DEF Next
  <2>2. CASE Lock(p) \/ Unlock(p) \/ SpawnInit(p) \/ SpawnParent(p)
                \/ LaunchRead(p) \/ waitReal(p)
    BY <2>2, LockQuiet, UnlockQuiet, WriteQuiet, ReadQuiet, WaitQuiet, QuietHand
  <2>3. CASE \/ addChild(p) \/ Return(p)
             \/ ReadChild(p) \/ ReadPid(p) \/ zap(p) \/ zapReturn(p) \/ ReadSibling(p)
             \/ removeChild(p)
             \/ spawn(p) \/ waitHandler(p) \/ terminate(p) \/ otherCall(p)
    BY <2>3, LocalQuiet, QuietHand
  <2>4. CASE SpawnFork(p)
    BY <2>4, ForkLemma, ForkFailsQuiet, QuietHand, ForkHand
  <2>5. CASE \/ SpawnCreate(p) \/ SpawnRelease(p) \/ SpawnSend(p)
             \/ LaunchReceive(p) \/ LaunchRelease(p) \/ quit(p)
    BY <2>5, CreateHand, ReleaseHand, SendHand, ReceiveHand, QuitHand
  <2> QED BY <2>1, <2>2, <2>3, <2>4, <2>5 DEF HandlerStep
<1> QED BY <1>1, <1>2

LEMMA HandAlways ==
    ASSUME EnoughMailboxes
    PROVE  Spec => [](IInv /\ HandInv)
<1>1. Init => IInv /\ HandInv
  BY InitTypes, InitLock, InitHand DEF IInv
<1>2. IInv /\ HandInv /\ [Next]_vars => (IInv /\ HandInv)'
  BY NextInv, NextHand
<1> QED BY <1>1, <1>2, PTL DEF Spec

(* A process runs the program that it was spawned for: between fork1 and    *)
(* the message of spawnReal, the child has not read its slot of ProcTable  *)
(* yet, and nobody but spawnReal writes into it (src/phase3.c:537-572 and  *)
(* 588-621).                                                               *)
THEOREM RunsOwnProgram ==
    ASSUME EnoughMailboxes
    PROVE  Spec => []OwnProgram
<1>1. HandInv => OwnProgram
  BY DEF HandInv
<1> QED BY <1>1, HandAlways, PTL

(* The mailbox that spawnReal creates for the handshake is released: by    *)
(* spawnLaunch, or by spawnReal when fork1 fails.  Whenever one is open,    *)
(* some process has it and is on its way to the release.                   *)
THEOREM MailboxesReleased ==
    ASSUME EnoughMailboxes
    PROVE  Spec => []NoMailboxLeft
<1>1. HandInv => NoMailboxLeft
  BY DEF HandInv, OwnerInv
<1> QED BY <1>1, HandAlways, PTL

=============================================================================
