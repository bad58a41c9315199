--------------------------- MODULE SystemProofs ---------------------------
(***************************************************************************)
(* Theorems about phase 3 as a whole: the locks of the two tables hold     *)
(* whatever programs run, and whatever becomes of the mailboxes that       *)
(* semaphores and handshakes give back.  Nothing here depends on what the  *)
(* programs of TestPrograms do.                                            *)
(***************************************************************************)
EXTENDS System, MailboxProofs

\* semsMutex and ProcTableMutex.
Mutexes == {S!semsMutex, 1}

\* Any id but those of the two mutexes.
OtherBoxes == (Boxes \cup {EMPTY}) \ Mutexes

\* The steps between lock() and unlock() of a mutex.
Inside(m) == IF m = S!semsMutex THEN S!TableSteps ELSE P!InsideSteps

\* A process that finds no free slot in the semaphore table never unlocks it.
Within(m) == Inside(m) \cup {"undefined"}

\* The steps of a process that has evaluated semsMutex.
TableSide == {"c_lock", "f_lock"} \cup S!TableSteps

\* The steps of a process that has no more use for the id that it evaluated.
DoneSteps == {"c_ret", "f_ret", "undefined"}

Labels == S!Labels \cup P!Labels

----------------------------------------------------------------------------
(* The inductive invariant.                                                *)

\* The semaphore table and the processes never hold the id of a mutex, but for
\* a handler of the table that is about to lock or unlock it.
SemTypes ==
    /\ mutex \in [S!Slots -> OtherBoxes]
    /\ blockingMbox \in [S!Slots -> OtherBoxes]
    /\ sem \in [Procs -> S!Slots \cup {EMPTY}]
    /\ box \in [Procs -> Boxes \cup {EMPTY}]
    /\ \A p \in Procs :
        /\ pc[p] \in S!Steps \ {"c_lock", "c_slot"} => sem[p] \in S!Slots
        /\ pc[p] \in TableSide => box[p] = S!semsMutex
        /\ pc[p] \notin TableSide \cup DoneSteps => box[p] \in OtherBoxes

ProcTypes ==
    /\ mboxID \in [Procs -> OtherBoxes]
    /\ kstate \in [Procs -> {"free", "active", "quit"}]
    /\ nextPid \in Nat
    /\ \A p \in Procs : kstate[p] # "active" => pc[p] = "none"

TypeInv ==
    /\ MailboxTypeOK /\ QueuesOK
    /\ pc \in [Procs -> Labels]
    /\ SemTypes /\ ProcTypes

Holds(p, m) == p \in ready /\ pc[p] \in Inside(m)

(* The mailbox m is open and holds a message as long as somebody is inside *)
(* or on the way in, and who is blocked on the way in, and nobody else,    *)
(* waits for this mailbox.                                                 *)
LockInv(m) ==
    /\ m \in Boxes /\ mbox[m].open
    /\ mbox[m].slots = 1 /\ mbox[m].used <= 1 /\ mbox[m].receivers = << >>
    /\ \A p \in Procs : Holds(p, m) => mbox[m].used = 1
    /\ \A p, q \in Procs : Holds(p, m) /\ Holds(q, m) => p = q
    /\ \A b \in Boxes : \A q \in Waiting(b) : pc[q] \in Inside(m) <=> b = m
    /\ mbox[m].used = 1 => \E p \in Procs : pc[p] \in Within(m)

LocksInv == \A m \in Mutexes : LockInv(m)

----------------------------------------------------------------------------
(* The operations on mailboxes are the same in both components.            *)
LEMMA SameSend ==
    ASSUME NEW p, NEW b
    PROVE  /\ S!MboxSend(p, b) <=> MboxSend(p, b)
           /\ P!MboxSend(p, b) <=> MboxSend(p, b)
BY DEF S!MboxSend, P!MboxSend, MboxSend, S!IsOpen, P!IsOpen, IsOpen,
       S!Boxes, P!Boxes, Boxes, S!mailboxVars, P!mailboxVars, mailboxVars

LEMMA SameReceive ==
    ASSUME NEW p, NEW b
    PROVE  /\ S!MboxReceive(p, b) <=> MboxReceive(p, b)
           /\ P!MboxReceive(p, b) <=> MboxReceive(p, b)
           /\ S!MboxCondReceive(b) <=> MboxCondReceive(b)
BY DEF S!MboxReceive, P!MboxReceive, MboxReceive, S!MboxCondReceive, MboxCondReceive,
       S!TakeMessage, P!TakeMessage, TakeMessage,
       S!HasMessage, P!HasMessage, HasMessage, S!IsOpen, P!IsOpen, IsOpen,
       S!Boxes, P!Boxes, Boxes, S!mailboxVars, P!mailboxVars, mailboxVars

LEMMA SameCreate ==
    ASSUME NEW slots, NEW id
    PROVE  /\ S!MboxCreate(slots, id) <=> MboxCreate(slots, id)
           /\ P!MboxCreate(slots, id) <=> MboxCreate(slots, id)
BY DEF S!MboxCreate, P!MboxCreate, MboxCreate, S!FreeBoxes, P!FreeBoxes, FreeBoxes,
       S!NewBox, P!NewBox, NewBox, S!EMPTY, P!EMPTY, EMPTY,
       S!Boxes, P!Boxes, Boxes, S!mailboxVars, P!mailboxVars, mailboxVars

LEMMA SameRelease ==
    ASSUME NEW b
    PROVE  /\ S!MboxRelease(b) <=> MboxRelease(b)
           /\ P!MboxRelease(b) <=> MboxRelease(b)
BY DEF S!MboxRelease, P!MboxRelease, MboxRelease, S!Waiting, P!Waiting, Waiting,
       S!Members, P!Members, Members, S!ClosedBox, P!ClosedBox, ClosedBox,
       S!IsOpen, P!IsOpen, IsOpen,
       S!Boxes, P!Boxes, Boxes, S!mailboxVars, P!mailboxVars, mailboxVars

LEMMA SameTables ==
    /\ S!Boxes = Boxes /\ P!Boxes = Boxes
    /\ S!mailboxVars = mailboxVars /\ P!mailboxVars = mailboxVars
    /\ S!EMPTY = EMPTY /\ P!EMPTY = EMPTY
BY DEF S!Boxes, P!Boxes, Boxes, S!mailboxVars, P!mailboxVars, mailboxVars,
       S!EMPTY, P!EMPTY, EMPTY

----------------------------------------------------------------------------
(* Operations on other mailboxes than the mutexes.                         *)
MailAside(p) ==
    /\ MailboxTypeOK' /\ QueuesOK'
    /\ \A m \in Mutexes : mbox'[m] = mbox[m]
    /\ \A c \in Boxes : \A q \in Waiting(c)' : q \in Waiting(c) \/ q = p
    /\ \A q \in ready' \ ready : \E c \in Boxes \ Mutexes : q \in Waiting(c)

NobodyBlocks == \A c \in Boxes : Waiting(c)' \subseteq Waiting(c)

LEMMA MutexesOpen ==
    ASSUME LocksInv
    PROVE  Mutexes \subseteq Boxes /\ \A m \in Mutexes : mbox[m].open
BY DEF LocksInv, LockInv

LEMMA AffectsAside ==
    ASSUME LocksInv, MailboxTypeOK', QueuesOK', NEW p, NEW b \in OtherBoxes,
           NEW W \in SUBSET {p}, Affects(b, W)
    PROVE  MailAside(p) /\ (W = {} => NobodyBlocks)
BY MutexesOpen DEF Affects, MailAside, NobodyBlocks, OtherBoxes

LEMMA NoMail ==
    ASSUME TypeInv, NEW p, UNCHANGED mailboxVars
    PROVE  MailAside(p) /\ NobodyBlocks
BY StutterLemma DEF TypeInv, MailAside, NobodyBlocks, mailboxVars, Waiting

LEMMA SendAside ==
    ASSUME TypeInv, LocksInv, NEW p \in ready, NEW b \in OtherBoxes, MboxSend(p, b)
    PROVE  MailAside(p)
BY SendLemma, SendEffect, AffectsAside DEF TypeInv

LEMMA ReceiveAside ==
    ASSUME TypeInv, LocksInv, NEW p \in ready, NEW b \in OtherBoxes, MboxReceive(p, b)
    PROVE  MailAside(p)
BY ReceiveLemma, ReceiveEffect, AffectsAside DEF TypeInv

LEMMA CondReceiveAside ==
    ASSUME TypeInv, LocksInv, NEW p, NEW b \in OtherBoxes, MboxCondReceive(b)
    PROVE  MailAside(p) /\ NobodyBlocks
BY CondReceiveLemma, CondReceiveEffect, AffectsAside DEF TypeInv

LEMMA CreateAside ==
    ASSUME TypeInv, LocksInv, NEW p, NEW slots \in Nat, NEW id, MboxCreate(slots, id)
    PROVE  MailAside(p) /\ NobodyBlocks /\ id \in OtherBoxes
<1>1. MailboxTypeOK' /\ QueuesOK' /\ id \in Boxes \cup {EMPTY}
  BY CreateLemma DEF TypeInv
<1>2. /\ ready' = ready /\ NobodyBlocks
      /\ \/ id = EMPTY /\ mbox' = mbox
         \/ /\ id \in Boxes /\ ~mbox[id].open
            /\ \A c \in Boxes \ {id} : mbox'[c] = mbox[c]
  BY CreateEffect DEF TypeInv, NobodyBlocks
<1>3. id \notin Mutexes
  BY <1>2, MutexesOpen, SystemAssumption DEF EMPTY, Mutexes, S!semsMutex
<1> QED BY <1>1, <1>2, <1>3, MutexesOpen DEF MailAside, OtherBoxes, NobodyBlocks

LEMMA ReleaseAside ==
    ASSUME TypeInv, LocksInv, NEW p, NEW b \in OtherBoxes, MboxRelease(b)
    PROVE  MailAside(p) /\ NobodyBlocks
<1>1. MailboxTypeOK' /\ QueuesOK'
  BY ReleaseLemma DEF TypeInv
<1>2. /\ NobodyBlocks
      /\ \A c \in Boxes \ {b} : mbox'[c] = mbox[c]
      /\ \A q \in ready' \ ready : b \in Boxes /\ q \in Waiting(b)
  BY ReleaseEffect DEF TypeInv, NobodyBlocks
<1> QED BY <1>1, <1>2, MutexesOpen DEF MailAside, NobodyBlocks, OtherBoxes

----------------------------------------------------------------------------
(* What a step does to the locks.                                          *)

LEMMA LabelsLemma ==
    /\ TableSide = {"c_lock", "f_lock"} \cup S!TableSteps
    /\ TableSide \subseteq S!Steps /\ S!Steps \subseteq S!Labels \ {"undefined"}
    /\ S!TableSteps \cap P!Labels = {} /\ TableSide \cap P!Labels = {}
    /\ S!Steps \cap P!Labels = {} /\ DoneSteps \cap P!Labels = {}
    /\ P!InsideSteps \subseteq P!Labels /\ P!InsideSteps \cap S!Labels = {}
    /\ S!TableSteps \cap P!InsideSteps = {}
BY DEF TableSide, DoneSteps, S!TableSteps, S!Steps, S!CreateSteps, S!PSteps, S!VSteps,
       S!FreeSteps, S!Labels, P!Labels, P!SpawnSteps, P!LaunchSteps,
       P!TerminateSteps, P!InsideSteps

\* A process that can run is blocked nowhere.
LEMMA ReadyLemma ==
    ASSUME TypeInv, NEW b \in Boxes
    PROVE  Waiting(b) \subseteq Procs /\ Waiting(b) \cap ready = {}
<1>1. mbox[b].senders \in Seq(Procs) /\ mbox[b].receivers \in Seq(Procs)
  BY DEF TypeInv, MailboxTypeOK, Mailbox
<1> QED BY <1>1 DEF Waiting, Members, TypeInv, QueuesOK

(* p goes on without entering m, and leaves the mailbox m alone.           *)
Aside(p, m) ==
    /\ p \in ready
    /\ mbox'[m] = mbox[m]
    /\ \A q \in Procs \ {p} : pc'[q] = pc[q] \/ (pc[q] = "none" /\ pc'[q] = "l_receive")
    /\ pc'[p] \in Inside(m) => pc[p] \in Inside(m)
    /\ pc[p] \in Within(m) => pc'[p] \in Within(m)
    /\ \A c \in Boxes : \A q \in Waiting(c)' :
            q \in Waiting(c) \/ (q = p /\ pc'[p] \notin Inside(m))
    /\ \A q \in ready' \ ready : \E c \in Boxes \ {m} : q \in Waiting(c)

LEMMA AsideLemma ==
    ASSUME TypeInv, NEW m \in Mutexes, LockInv(m), NEW p \in Procs, Aside(p, m)
    PROVE  LockInv(m)'
<1>1. "l_receive" \notin Inside(m) /\ "none" \notin Within(m)
  BY DEF Within, Inside, S!TableSteps, P!InsideSteps
<1>2. ASSUME NEW q \in Procs, Holds(q, m)'
      PROVE  Holds(q, m)
  <2>1. pc[q] \in Inside(m) /\ q \in ready'
    BY <1>1, <1>2 DEF Holds, Aside, Inside
  <2>2. q \in ready
    BY <2>1 DEF Aside, LockInv
  <2> QED BY <2>1, <2>2 DEF Holds
<1>3. ASSUME NEW b \in Boxes, NEW q \in Waiting(b)'
      PROVE  pc'[q] \in Inside(m) <=> b = m
  <2>1. q \in Waiting(m) /\ b = m => q \in Procs \ {p} /\ pc[q] \in Inside(m)
    BY ReadyLemma DEF Aside, LockInv
  <2>2. b = m => q \in Waiting(m)
    BY <1>3 DEF Aside, Waiting
  <2>3. b = m => pc'[q] \in Inside(m)
    BY <1>1, <2>1, <2>2 DEF Aside, Within
  <2>4. ASSUME pc'[q] \in Inside(m) PROVE b = m
    <3>1. q \in Waiting(b)
      BY <1>3, <2>4 DEF Aside
    <3>2. q \in Procs \ {p}
      BY <3>1, ReadyLemma DEF Aside
    <3> QED BY <1>1, <2>4, <3>1, <3>2 DEF Aside, LockInv
  <2> QED BY <2>3, <2>4
<1>4. \A q \in Procs : Holds(q, m)' => mbox'[m].used = 1
  BY <1>2 DEF LockInv, Aside
<1>5. \A q, r \in Procs : Holds(q, m)' /\ Holds(r, m)' => q = r
  BY <1>2 DEF LockInv
<1>6. ASSUME mbox'[m].used = 1 PROVE \E q \in Procs : pc'[q] \in Within(m)
  <2>1. PICK q \in Procs : pc[q] \in Within(m)
    BY <1>6 DEF LockInv, Aside
  <2>2. pc'[q] \in Within(m)
    BY <1>1, <2>1 DEF Aside
  <2> QED BY <2>2
<1> QED BY <1>3, <1>4, <1>5, <1>6 DEF LockInv, Aside, Inside, Within

LEMMA MoveLocks ==
    ASSUME TypeInv, LocksInv, NEW p \in Procs, p \in ready, MailAside(p),
           \A q \in Procs \ {p} :
                pc'[q] = pc[q] \/ (pc[q] = "none" /\ pc'[q] = "l_receive"),
           \A m \in Mutexes :
                /\ pc'[p] \in Inside(m) => pc[p] \in Inside(m) /\ NobodyBlocks
                /\ pc[p] \in Within(m) => pc'[p] \in Within(m)
    PROVE  LocksInv'
<1> SUFFICES ASSUME NEW m \in Mutexes PROVE LockInv(m)'
  BY DEF LocksInv, Mutexes, S!semsMutex
<1>1. Aside(p, m)
  BY DEF MailAside, NobodyBlocks, Aside
<1> QED BY <1>1, AsideLemma DEF LocksInv

(* lock() and unlock() of m.                                               *)
LEMMA EnterLock ==
    ASSUME TypeInv, LocksInv, NEW m \in Mutexes, NEW p \in Procs, p \in ready,
           \A n \in Mutexes : pc[p] \notin Within(n),
           MboxSend(p, m), NEW l \in Inside(m), pc' = [pc EXCEPT ![p] = l]
    PROVE  LocksInv' /\ MailboxTypeOK' /\ QueuesOK'
<1>1. MailboxTypeOK' /\ QueuesOK'
  BY SendLemma DEF TypeInv
<1>2. m \in Boxes /\ mbox[m].open /\ mbox[m].receivers = << >> /\ LockInv(m)
  BY DEF LocksInv, LockInv
<1>3. /\ Affects(m, {p})
      /\ mbox'[m].slots = 1 /\ mbox'[m].receivers = << >>
      /\ \/ /\ mbox[m].used < 1
            /\ mbox'[m].used = mbox[m].used + 1
            /\ ready' = ready
         \/ /\ mbox[m].used >= 1
            /\ mbox'[m].used = mbox[m].used
            /\ ready' = ready \ {p}
  BY <1>2, SendEffect DEF TypeInv, IsOpen, LockInv
<1>4. pc'[p] = l /\ \A q \in Procs \ {p} : pc'[q] = pc[q]
  BY DEF TypeInv
<1>5. mbox[m].used \in Nat
  BY <1>2 DEF TypeInv, MailboxTypeOK, Mailbox
<1>6. ASSUME NEW n \in Mutexes, n # m PROVE LockInv(n)'
  <2>1. l \notin Inside(n)
    BY <1>6, LabelsLemma DEF Mutexes, Inside
  <2>2. n \in Boxes /\ LockInv(n)
    BY DEF LocksInv, LockInv
  <2>3. Aside(p, n)
    BY <1>2, <1>3, <1>4, <1>6, <2>1, <2>2 DEF Affects, Aside
  <2> QED BY <2>2, <2>3, AsideLemma
<1>7. LockInv(m)'
  <2>1. \A q \in Procs \ {p} : Holds(q, m)' => Holds(q, m)
    BY <1>3, <1>4 DEF Holds, Inside
  <2>2. ASSUME NEW b \in Boxes, NEW q \in Waiting(b)'
        PROVE  pc'[q] \in Inside(m) <=> b = m
    <3>1. q \in Waiting(b) \/ (b = m /\ q = p)
      BY <1>3 DEF Affects
    <3>2. q \in Waiting(b) => q \in Procs \ {p}
      BY ReadyLemma
    <3> QED BY <1>2, <1>4, <2>2, <3>1, <3>2 DEF LockInv
  <2>3. pc'[p] \in Within(m)
    BY <1>4 DEF Within
  <2>4. CASE mbox[m].used < 1 /\ mbox'[m].used = mbox[m].used + 1
    <3>1. mbox'[m].used = 1 /\ \A q \in Procs : ~Holds(q, m)
      BY <1>2, <1>5, <2>4 DEF LockInv
    <3> QED BY <1>2, <1>3, <2>1, <2>2, <2>3, <3>1 DEF LockInv, Affects, Inside, Within
  <2>5. CASE mbox[m].used >= 1 /\ mbox'[m].used = mbox[m].used /\ ready' = ready \ {p}
    <3>1. mbox'[m].used = 1 /\ ~Holds(p, m)'
      BY <1>2, <1>5, <2>5 DEF LockInv, Holds
    <3> QED BY <1>2, <1>3, <2>1, <2>2, <2>3, <3>1 DEF LockInv, Affects, Inside, Within
  <2> QED BY <1>3, <2>4, <2>5
<1> QED BY <1>1, <1>6, <1>7 DEF LocksInv, Mutexes, S!semsMutex

LEMMA LeaveLock ==
    ASSUME TypeInv, LocksInv, NEW m \in Mutexes, NEW p \in Procs, p \in ready,
           pc[p] \in Inside(m), MboxReceive(p, m),
           NEW l, pc' = [pc EXCEPT ![p] = l], \A n \in Mutexes : l \notin Inside(n)
    PROVE  LocksInv' /\ MailboxTypeOK' /\ QueuesOK'
<1>1. MailboxTypeOK' /\ QueuesOK'
  BY ReceiveLemma DEF TypeInv
<1>2. m \in Boxes /\ mbox[m].open /\ mbox[m].used = 1 /\ LockInv(m)
  BY DEF LocksInv, LockInv, Holds
<1>3. /\ Affects(m, {})
      /\ mbox'[m].slots = 1 /\ mbox'[m].receivers = << >>
      /\ \/ /\ mbox'[m].used = 1
            /\ mbox[m].senders # << >>
            /\ ready' = ready \cup {Head(mbox[m].senders)}
         \/ /\ mbox'[m].used = 0
            /\ ready' = ready
  <2>1. HasMessage(m)
    BY <1>2 DEF HasMessage, IsOpen
  <2>2. TakeMessage(m)
    BY <1>2, <2>1 DEF MboxReceive, IsOpen
  <2> QED BY <1>2, <2>1, <2>2, TakeEffect DEF TypeInv, LockInv
<1>4. pc'[p] = l /\ \A q \in Procs \ {p} : pc'[q] = pc[q]
  BY DEF TypeInv
<1>5. ASSUME NEW n \in Mutexes, n # m PROVE LockInv(n)'
  <2>1. n \in Boxes /\ LockInv(n)
    BY DEF LocksInv, LockInv
  <2>2. pc[p] \notin Within(n)
    BY <1>5, LabelsLemma DEF Mutexes, Inside, Within, DoneSteps
  <2>3. Aside(p, n)
    BY <1>2, <1>3, <1>4, <1>5, <2>1, <2>2 DEF Affects, Aside
  <2> QED BY <2>1, <2>3, AsideLemma
<1>6. LockInv(m)'
  <2>1. \A q \in Procs : Holds(q, m)' => q # p /\ q \notin ready
    BY <1>2, <1>4 DEF Holds, Inside, LockInv
  <2>2. ASSUME NEW b \in Boxes, NEW q \in Waiting(b)'
        PROVE  pc'[q] \in Inside(m) <=> b = m
    <3>1. q \in Waiting(b)
      BY <1>3 DEF Affects
    <3>2. q \in Procs \ {p}
      BY <3>1, ReadyLemma
    <3> QED BY <1>2, <1>4, <2>2, <3>1, <3>2 DEF LockInv
  <2>3. CASE mbox'[m].used = 1 /\ ready' = ready \cup {Head(mbox[m].senders)}
    <3>1. \A q \in Procs : Holds(q, m)' => q = Head(mbox[m].senders)
      BY <2>1, <2>3 DEF Holds
    <3>2. Head(mbox[m].senders) \in Waiting(m)
      BY <1>2, <1>3, <2>3, TailLemma DEF TypeInv, MailboxTypeOK, Mailbox, Waiting
    <3>3. \E q \in Procs : pc'[q] \in Within(m)
      <4>1. Head(mbox[m].senders) \in Procs \ {p}
        BY <1>2, <3>2, ReadyLemma
      <4>2. pc'[Head(mbox[m].senders)] \in Inside(m)
        BY <1>2, <1>4, <3>2, <4>1 DEF LockInv
      <4> QED BY <4>1, <4>2 DEF Within
    <3> QED BY <1>2, <1>3, <2>2, <2>3, <3>1, <3>3 DEF LockInv, Affects, Inside, Within
  <2>4. CASE mbox'[m].used = 0 /\ ready' = ready
    <3>1. \A q \in Procs : ~Holds(q, m)'
      BY <2>1, <2>4 DEF Holds
    <3> QED BY <1>2, <1>3, <2>2, <2>4, <3>1 DEF LockInv, Affects, Inside, Within
  <2> QED BY <1>3, <2>3, <2>4
<1> QED BY <1>1, <1>5, <1>6 DEF LocksInv, Mutexes, S!semsMutex

----------------------------------------------------------------------------
(* The steps of the semaphores.                                            *)

Running(p) == p \in Procs /\ p \in ready /\ kstate[p] = "active"

SemGoes(p, l, h, b) ==
    /\ pc' = [pc EXCEPT ![p] = l]
    /\ sem' = [sem EXCEPT ![p] = h]
    /\ box' = [box EXCEPT ![p] = b]

\* A process at step l may have h and b as its handle and mailbox.
Fits(l, h, b) ==
    /\ l \in S!Labels /\ h \in S!Slots \cup {EMPTY} /\ b \in Boxes \cup {EMPTY}
    /\ l \in S!Steps \ {"c_lock", "c_slot"} => h \in S!Slots
    /\ l \in TableSide => b = S!semsMutex
    /\ l \notin TableSide \cup DoneSteps => b \in OtherBoxes

LEMMA SemGoesTypes ==
    ASSUME TypeInv, NEW p, Running(p), NEW l, NEW h, NEW b,
           SemGoes(p, l, h, b), Fits(l, h, b), UNCHANGED procVars,
           MailboxTypeOK', QueuesOK',
           mutex' \in [S!Slots -> OtherBoxes],
           blockingMbox' \in [S!Slots -> OtherBoxes]
    PROVE  TypeInv'
<1>1. pc' \in [Procs -> Labels]
  BY DEF TypeInv, SemGoes, Fits, Labels
<1>2. SemTypes'
  BY DEF TypeInv, SemTypes, SemGoes, Fits, Running, OtherBoxes, Boxes
<1>3. ProcTypes'
  BY DEF TypeInv, ProcTypes, SemGoes, Running, procVars, OtherBoxes, Boxes
<1> QED BY <1>1, <1>2, <1>3 DEF TypeInv

LEMMA SemStays ==
    ASSUME TypeInv, NEW p \in Procs, NEW l, pc' = [pc EXCEPT ![p] = l],
           UNCHANGED <<sem, box>>
    PROVE  SemGoes(p, l, sem[p], box[p])
BY DEF SemGoes, TypeInv, SemTypes

\* What a process has at its step.
LEMMA FitsLemma ==
    ASSUME TypeInv, NEW p \in Procs
    PROVE  pc[p] \in S!Labels => Fits(pc[p], sem[p], box[p])
BY DEF Fits, TypeInv, SemTypes

\* A step of a semaphore that does not lock or unlock semsMutex.
LEMMA SemGoesAside ==
    ASSUME TypeInv, LocksInv, NEW p, Running(p), NEW l, NEW h, NEW b,
           SemGoes(p, l, h, b), Fits(l, h, b), UNCHANGED procVars,
           MailAside(p),
           l \in TableSide \ {"c_lock", "f_lock"} =>
                pc[p] \in S!TableSteps /\ NobodyBlocks,
           pc[p] \in S!Labels \ {"undefined"},
           pc[p] \in S!TableSteps => l \in S!TableSteps \cup {"undefined"},
           mutex' \in [S!Slots -> OtherBoxes],
           blockingMbox' \in [S!Slots -> OtherBoxes]
    PROVE  TypeInv' /\ LocksInv'
<1>1. TypeInv'
  BY SemGoesTypes DEF MailAside
<1>2. pc'[p] = l /\ \A q \in Procs \ {p} : pc'[q] = pc[q]
  BY DEF SemGoes, TypeInv, Running
<1>3. \A m \in Mutexes : l \in Inside(m) => m = S!semsMutex /\ l \in S!TableSteps
  BY LabelsLemma DEF Inside, Fits
<1>4. \A m \in Mutexes : l \in Inside(m) => pc[p] \in Inside(m) /\ NobodyBlocks
  BY <1>3 DEF Inside, TableSide, S!TableSteps
<1>5. \A m \in Mutexes : pc[p] \in Within(m) => l \in Within(m)
  <2>1. pc[p] \notin P!InsideSteps
    BY LabelsLemma
  <2> QED BY <2>1 DEF Within, Inside
<1> QED BY <1>1, <1>2, <1>4, <1>5, MoveLocks DEF Running

LEMMA AfterLemma ==
    /\ \A l \in S!LockSteps :
        /\ S!After[l] \in S!Steps \ {"c_lock"}
        /\ IF l \in {"c_lock", "f_lock"} THEN S!After[l] \in S!TableSteps
           ELSE l \in S!Steps \ (TableSide \cup DoneSteps \cup {"c_lock", "c_slot"})
                /\ S!After[l] \notin TableSide \cup DoneSteps
        /\ S!After[l] = "c_slot" <=> l = "c_lock"
    /\ \A l \in S!UnlockSteps :
        /\ l \in S!Steps \ {"c_lock", "c_slot"}
        /\ S!After[l] \in S!Steps \ {"c_lock", "c_slot"}
        /\ IF l \in {"c_unlock", "f_unlock"}
           THEN l \in S!TableSteps /\ S!After[l] \in DoneSteps
           ELSE l \notin TableSide \cup DoneSteps
                /\ S!After[l] \notin TableSide \cup DoneSteps
    /\ \A l \in S!MutexArgSteps \cup S!BlockingArgSteps :
        /\ l \in S!Steps \ (TableSide \cup {"c_lock", "c_slot"})
        /\ S!After[l] \in S!Steps \ (TableSide \cup DoneSteps)
    /\ S!LockSteps \subseteq S!Steps /\ S!UnlockSteps \subseteq S!Steps
    /\ S!Steps \subseteq S!Labels \ {"undefined"} /\ DoneSteps \cap TableSide = {}
    /\ S!TableSteps \subseteq TableSide
BY DEF S!LockSteps, S!UnlockSteps, S!MutexArgSteps, S!BlockingArgSteps, S!After,
       S!Steps, S!CreateSteps, S!PSteps, S!VSteps, S!FreeSteps, S!Labels,
       TableSide, S!TableSteps, DoneSteps

LEMMA SemLock ==
    ASSUME TypeInv, LocksInv, NEW p, Running(p), S!Lock(p), UNCHANGED procVars
    PROVE  TypeInv' /\ LocksInv'
<1>1. PICK l \in S!LockSteps :
        /\ pc[p] = l
        /\ MboxSend(p, box[p])
        /\ pc' = [pc EXCEPT ![p] = S!After[l]]
        /\ UNCHANGED <<mutex, blockingMbox, sem, box>>
  BY SameSend DEF S!Lock, S!At, S!Goto, S!tableVars
<1>2. /\ SemGoes(p, S!After[l], sem[p], box[p])
      /\ mutex' \in [S!Slots -> OtherBoxes]
      /\ blockingMbox' \in [S!Slots -> OtherBoxes]
  BY <1>1, SemStays DEF TypeInv, SemTypes, Running, OtherBoxes, Boxes
<1>3. Fits(l, sem[p], box[p])
  BY <1>1, FitsLemma, AfterLemma DEF Running
<1>4. CASE l \in {"c_lock", "f_lock"}
  <2>1. box[p] = S!semsMutex /\ S!semsMutex \in Mutexes
    BY <1>3, <1>4 DEF Fits, TableSide, Mutexes
  <2>2. \A n \in Mutexes : pc[p] \notin Within(n)
    <3>1. {"c_lock", "f_lock"} \cap (S!TableSteps \cup P!InsideSteps \cup {"undefined"}) = {}
      BY DEF S!TableSteps, P!InsideSteps
    <3> QED BY <1>1, <1>4, <3>1 DEF Within, Inside
  <2>3. LocksInv' /\ MailboxTypeOK' /\ QueuesOK'
    <3>1. S!After[l] \in Inside(S!semsMutex)
      BY <1>4, AfterLemma DEF Inside
    <3> QED BY <1>1, <2>1, <2>2, <3>1, EnterLock DEF Running
  <2>4. Fits(S!After[l], sem[p], box[p])
    BY <1>3, <1>4, <2>1, AfterLemma DEF Fits
  <2> QED BY <1>2, <2>3, <2>4, SemGoesTypes
<1>5. CASE l \notin {"c_lock", "f_lock"}
  <2>1. box[p] \in OtherBoxes /\ sem[p] \in S!Slots
    BY <1>3, <1>5, AfterLemma DEF Fits
  <2>2. Fits(S!After[l], sem[p], box[p])
    BY <1>3, <1>5, <2>1, AfterLemma DEF Fits
  <2>3. S!After[l] \notin TableSide /\ l \in S!Labels \ (S!TableSteps \cup {"undefined"})
    BY <1>5, AfterLemma
  <2>4. MailAside(p)
    BY <1>1, <2>1, SendAside DEF Running
  <2> QED BY <1>1, <1>2, <2>2, <2>3, <2>4, SemGoesAside
<1> QED BY <1>4, <1>5

LEMMA SemUnlock ==
    ASSUME TypeInv, LocksInv, NEW p, Running(p), S!Unlock(p), UNCHANGED procVars
    PROVE  TypeInv' /\ LocksInv'
<1>1. PICK l \in S!UnlockSteps :
        /\ pc[p] = l
        /\ MboxReceive(p, box[p])
        /\ pc' = [pc EXCEPT ![p] = S!After[l]]
        /\ UNCHANGED <<mutex, blockingMbox, sem, box>>
  BY SameReceive DEF S!Unlock, S!At, S!Goto, S!tableVars
<1>2. /\ SemGoes(p, S!After[l], sem[p], box[p])
      /\ mutex' \in [S!Slots -> OtherBoxes]
      /\ blockingMbox' \in [S!Slots -> OtherBoxes]
  BY <1>1, SemStays DEF TypeInv, SemTypes, Running, OtherBoxes, Boxes
<1>3. Fits(l, sem[p], box[p]) /\ sem[p] \in S!Slots
  BY <1>1, FitsLemma, AfterLemma DEF Running, Fits
<1>4. CASE l \in {"c_unlock", "f_unlock"}
  <2>1. box[p] = S!semsMutex /\ S!semsMutex \in Mutexes
    BY <1>3, <1>4, AfterLemma DEF Fits, Mutexes
  <2>2. \A n \in Mutexes : S!After[l] \notin Inside(n)
    BY <1>4, AfterLemma, LabelsLemma DEF Inside
  <2>3. LocksInv' /\ MailboxTypeOK' /\ QueuesOK'
    <3>1. pc[p] \in Inside(S!semsMutex) /\ MboxReceive(p, S!semsMutex)
      BY <1>1, <1>4, <2>1, AfterLemma DEF Inside
    <3> QED BY <1>1, <2>1, <2>2, <3>1, LeaveLock DEF Running
  <2>4. Fits(S!After[l], sem[p], box[p])
    BY <1>3, <1>4, <2>1, AfterLemma DEF Fits
  <2> QED BY <1>2, <2>3, <2>4, SemGoesTypes
<1>5. CASE l \notin {"c_unlock", "f_unlock"}
  <2>1. box[p] \in OtherBoxes
    BY <1>3, <1>5, AfterLemma DEF Fits
  <2>2. Fits(S!After[l], sem[p], box[p])
    BY <1>3, <1>5, <2>1, AfterLemma DEF Fits
  <2>3. S!After[l] \notin TableSide /\ l \in S!Labels \ (S!TableSteps \cup {"undefined"})
    BY <1>5, AfterLemma
  <2>4. MailAside(p)
    BY <1>1, <2>1, ReceiveAside DEF Running
  <2> QED BY <1>1, <1>2, <2>2, <2>3, <2>4, SemGoesAside
<1> QED BY <1>4, <1>5

(* A step within a handler, with the handle and the mailbox that it has.   *)
OnSlot == S!Steps \ {"c_lock", "c_slot"}
Beside == OnSlot \ (TableSide \cup DoneSteps)

LEMMA SidesLemma ==
    /\ S!TableSteps \subseteq TableSide /\ OnSlot \subseteq S!Labels
    /\ {"c_count", "c_mutex", "c_block", "c_num", "c_unlock", "f_count", "f_mutex",
        "f_nomutex", "f_probe", "f_block", "f_noblock", "f_num", "f_unlock"}
            \subseteq S!TableSteps \cap OnSlot
    /\ {"p_arg1", "p_test", "p_dec", "p_arg2", "p_arg3", "p_block", "p_check", "p_ret",
        "v_arg1", "v_test", "v_arg2", "v_wake", "v_inc", "v_arg3", "v_ret"}
            \subseteq Beside
BY DEF Beside, OnSlot, S!Steps, S!CreateSteps, S!PSteps, S!VSteps, S!FreeSteps,
       S!Labels, TableSide, S!TableSteps, DoneSteps

LEMMA SemWithin ==
    ASSUME TypeInv, LocksInv, NEW p, Running(p), NEW l,
           pc' = [pc EXCEPT ![p] = l], UNCHANGED <<sem, box, procVars>>,
           MailAside(p),
           \/ pc[p] \in OnSlot /\ {pc[p], l} \subseteq S!TableSteps /\ l \in OnSlot
                /\ NobodyBlocks
           \/ {pc[p], l} \subseteq Beside,
           mutex' \in [S!Slots -> OtherBoxes],
           blockingMbox' \in [S!Slots -> OtherBoxes]
    PROVE  TypeInv' /\ LocksInv'
<1>1. SemGoes(p, l, sem[p], box[p])
  BY SemStays DEF Running
<1>2. pc[p] \in S!Labels /\ l \in S!Labels
  BY SidesLemma DEF Beside
<1>3. Fits(pc[p], sem[p], box[p])
  BY <1>2, FitsLemma DEF Running
<1>4. Fits(l, sem[p], box[p])
  BY <1>2, <1>3, SidesLemma DEF Fits, Beside, OnSlot
<1>5. pc[p] \in S!Labels \ {"undefined"}
  BY LabelsLemma DEF Beside, OnSlot
<1>6. pc[p] \in S!TableSteps => l \in S!TableSteps
  BY SidesLemma DEF Beside
<1> QED BY <1>1, <1>4, <1>5, <1>6, SidesLemma, SemGoesAside DEF Beside

LEMMA SemCreates ==
    ASSUME TypeInv, LocksInv, NEW p, Running(p), UNCHANGED procVars,
           \/ S!initSemCount(p) \/ S!initSemMutex(p) \/ S!initSemBlocking(p)
           \/ S!semCreateCount(p)
    PROVE  TypeInv' /\ LocksInv'
<1> USE DEF S!At, S!Goto
<1>1. mutex \in [S!Slots -> OtherBoxes] /\ blockingMbox \in [S!Slots -> OtherBoxes]
  BY DEF TypeInv, SemTypes
<1>2. CASE S!initSemCount(p) \/ S!semCreateCount(p)
  <2>1. UNCHANGED <<mailboxVars, mutex, blockingMbox, sem, box>>
    BY <1>2 DEF S!initSemCount, S!semCreateCount, S!mailboxVars, mailboxVars
  <2>2. \/ pc[p] = "c_count" /\ pc' = [pc EXCEPT ![p] = "c_mutex"]
        \/ pc[p] = "c_num" /\ pc' = [pc EXCEPT ![p] = "c_unlock"]
    BY <1>2 DEF S!initSemCount, S!semCreateCount
  <2> QED BY <1>1, <2>1, <2>2, NoMail, SidesLemma, SemWithin
<1>3. CASE S!initSemMutex(p)
  <2>1. PICK id : MboxCreate(1, id) /\ mutex' = [mutex EXCEPT ![sem[p]] = id]
    BY <1>3, SameCreate DEF S!initSemMutex
  <2>2. pc[p] = "c_mutex" /\ pc' = [pc EXCEPT ![p] = "c_block"]
        /\ UNCHANGED <<blockingMbox, sem, box>>
    BY <1>3 DEF S!initSemMutex
  <2>3. MailAside(p) /\ NobodyBlocks /\ id \in OtherBoxes
    BY <2>1, CreateAside
  <2> QED BY <1>1, <2>1, <2>2, <2>3, SidesLemma, SemWithin
<1>4. CASE S!initSemBlocking(p)
  <2>1. PICK id : MboxCreate(0, id) /\ blockingMbox' = [blockingMbox EXCEPT ![sem[p]] = id]
    BY <1>4, SameCreate DEF S!initSemBlocking
  <2>2. pc[p] = "c_block" /\ pc' = [pc EXCEPT ![p] = "c_num"]
        /\ UNCHANGED <<mutex, sem, box>>
    BY <1>4 DEF S!initSemBlocking
  <2>3. MailAside(p) /\ NobodyBlocks /\ id \in OtherBoxes
    BY <2>1, CreateAside
  <2> QED BY <1>1, <2>1, <2>2, <2>3, SidesLemma, SemWithin
<1> QED BY <1>2, <1>3, <1>4

LEMMA SemFrees ==
    ASSUME TypeInv, LocksInv, NEW p, Running(p), UNCHANGED procVars,
           \/ S!freeSemCount(p) \/ S!freeSemMutex(p) \/ S!freeSemMutexId(p)
           \/ S!freeSemProbe(p) \/ S!freeSemBlocking(p) \/ S!freeSemBlockingId(p)
           \/ S!semFreeCount(p)
    PROVE  TypeInv' /\ LocksInv'
<1> USE DEF S!At, S!Goto
<1>1. mutex \in [S!Slots -> OtherBoxes] /\ blockingMbox \in [S!Slots -> OtherBoxes]
  BY DEF TypeInv, SemTypes
<1>2. EMPTY \in OtherBoxes /\ S!EMPTY = EMPTY
  BY DEF OtherBoxes, Mutexes, S!semsMutex, EMPTY, S!EMPTY
<1>3. pc[p] \in OnSlot => sem[p] \in S!Slots
  BY DEF TypeInv, SemTypes, OnSlot, Running
<1>4. CASE S!freeSemCount(p) \/ S!semFreeCount(p)
  <2>1. UNCHANGED <<mailboxVars, mutex, blockingMbox, sem, box>>
    BY <1>4 DEF S!freeSemCount, S!semFreeCount, S!mailboxVars, mailboxVars
  <2>2. \/ pc[p] = "f_count" /\ pc' = [pc EXCEPT ![p] = "f_mutex"]
        \/ pc[p] = "f_num" /\ pc' = [pc EXCEPT ![p] = "f_unlock"]
    BY <1>4 DEF S!freeSemCount, S!semFreeCount
  <2> QED BY <1>1, <2>1, <2>2, NoMail, SidesLemma, SemWithin
<1>5. CASE S!freeSemMutex(p)
  <2>1. /\ pc[p] = "f_mutex" /\ pc' = [pc EXCEPT ![p] = "f_nomutex"]
        /\ MboxRelease(mutex[sem[p]])
        /\ UNCHANGED <<mutex, blockingMbox, sem, box>>
    BY <1>5, SameRelease DEF S!freeSemMutex, S!tableVars
  <2>2. mutex[sem[p]] \in OtherBoxes
    BY <1>1, <1>3, <2>1, SidesLemma
  <2> QED BY <1>1, <2>1, <2>2, ReleaseAside, SidesLemma, SemWithin
<1>6. CASE S!freeSemBlocking(p)
  <2>1. /\ pc[p] = "f_block" /\ pc' = [pc EXCEPT ![p] = "f_noblock"]
        /\ MboxRelease(blockingMbox[sem[p]])
        /\ UNCHANGED <<mutex, blockingMbox, sem, box>>
    BY <1>6, SameRelease DEF S!freeSemBlocking, S!tableVars
  <2>2. blockingMbox[sem[p]] \in OtherBoxes
    BY <1>1, <1>3, <2>1, SidesLemma
  <2> QED BY <1>1, <2>1, <2>2, ReleaseAside, SidesLemma, SemWithin
<1>7. CASE S!freeSemProbe(p)
  <2>1. /\ pc[p] = "f_probe" /\ pc' = [pc EXCEPT ![p] = "f_block"]
        /\ MboxCondReceive(blockingMbox[sem[p]])
        /\ UNCHANGED <<mutex, blockingMbox, sem, box>>
    BY <1>7, SameReceive DEF S!freeSemProbe, S!tableVars
  <2>2. blockingMbox[sem[p]] \in OtherBoxes
    BY <1>1, <1>3, <2>1, SidesLemma
  <2> QED BY <1>1, <2>1, <2>2, CondReceiveAside, SidesLemma, SemWithin
<1>8. CASE S!freeSemMutexId(p) \/ S!freeSemBlockingId(p)
  <2>1. /\ UNCHANGED <<mailboxVars, sem, box>>
        /\ mutex' \in [S!Slots -> OtherBoxes] /\ blockingMbox' \in [S!Slots -> OtherBoxes]
    BY <1>1, <1>2, <1>8 DEF S!freeSemMutexId, S!freeSemBlockingId, S!mailboxVars,
                            mailboxVars
  <2>2. \/ pc[p] = "f_nomutex" /\ pc' = [pc EXCEPT ![p] = "f_probe"]
        \/ pc[p] = "f_noblock" /\ pc' = [pc EXCEPT ![p] = "f_num"]
    BY <1>8 DEF S!freeSemMutexId, S!freeSemBlockingId
  <2> QED BY <2>1, <2>2, NoMail, SidesLemma, SemWithin
<1> QED BY <1>4, <1>5, <1>6, <1>7, <1>8

LEMMA SemCounts ==
    ASSUME TypeInv, LocksInv, NEW p, Running(p), UNCHANGED procVars,
           \/ S!semPTest(p) \/ S!semPDecrement(p) \/ S!semPBlock(p)
           \/ S!semVTest(p) \/ S!semVWake(p) \/ S!semVIncrement(p)
    PROVE  TypeInv' /\ LocksInv'
<1> USE DEF S!At, S!Goto
<1>1. /\ UNCHANGED <<mutex, blockingMbox, sem, box>>
      /\ mutex \in [S!Slots -> OtherBoxes] /\ blockingMbox \in [S!Slots -> OtherBoxes]
  BY DEF TypeInv, SemTypes, S!semPTest, S!semPDecrement, S!semPBlock, S!semVTest,
         S!semVWake, S!semVIncrement, S!tableVars
<1>2. pc[p] \in Beside => box[p] \in OtherBoxes
  BY DEF TypeInv, SemTypes, Beside, Running
<1>3. PICK l : pc' = [pc EXCEPT ![p] = l] /\ {pc[p], l} \subseteq Beside
  BY SidesLemma DEF S!semPTest, S!semPDecrement, S!semPBlock, S!semVTest,
                    S!semVWake, S!semVIncrement
<1>4. CASE S!semPTest(p) \/ S!semPDecrement(p) \/ S!semVTest(p) \/ S!semVIncrement(p)
  <2>1. UNCHANGED mailboxVars
    BY <1>4 DEF S!semPTest, S!semPDecrement, S!semVTest, S!semVIncrement,
                S!mailboxVars, mailboxVars
  <2> QED BY <1>1, <1>3, <2>1, NoMail, SemWithin
<1>5. CASE S!semPBlock(p)
  <2>1. MboxSend(p, box[p])
    BY <1>5, SameSend DEF S!semPBlock
  <2> QED BY <1>1, <1>2, <1>3, <2>1, SendAside, SemWithin DEF Running
<1>6. CASE S!semVWake(p)
  <2>1. MboxCondReceive(box[p])
    BY <1>6, SameReceive DEF S!semVWake
  <2> QED BY <1>1, <1>2, <1>3, <2>1, CondReceiveAside, SemWithin
<1> QED BY <1>4, <1>5, <1>6

\* Reading the id of a mailbox out of the table.
LEMMA SemReads ==
    ASSUME TypeInv, LocksInv, NEW p, Running(p), UNCHANGED procVars,
           S!ReadMutex(p) \/ S!ReadBlockingMbox(p)
    PROVE  TypeInv' /\ LocksInv'
<1>1. PICK l \in S!MutexArgSteps \cup S!BlockingArgSteps :
        /\ pc[p] = l /\ pc' = [pc EXCEPT ![p] = S!After[l]]
        /\ \/ box' = [box EXCEPT ![p] = mutex[sem[p]]]
           \/ box' = [box EXCEPT ![p] = blockingMbox[sem[p]]]
        /\ UNCHANGED <<mailboxVars, mutex, blockingMbox, sem>>
  BY DEF S!ReadMutex, S!ReadBlockingMbox, S!At, S!Goto, S!tableVars, S!mailboxVars,
         mailboxVars
<1>2. /\ mutex \in [S!Slots -> OtherBoxes] /\ blockingMbox \in [S!Slots -> OtherBoxes]
      /\ sem[p] \in S!Slots
  BY <1>1, AfterLemma DEF TypeInv, SemTypes, Running
<1>3. PICK b \in OtherBoxes : box' = [box EXCEPT ![p] = b]
  BY <1>1, <1>2
<1>4. SemGoes(p, S!After[l], sem[p], b)
  BY <1>1, <1>3 DEF SemGoes, TypeInv, SemTypes
<1>5. Fits(S!After[l], sem[p], b) /\ S!After[l] \notin TableSide
  BY <1>1, <1>2, AfterLemma DEF Fits, OtherBoxes
<1>6. l \in S!Labels \ (S!TableSteps \cup {"undefined"})
  BY AfterLemma
<1> QED BY <1>1, <1>2, <1>4, <1>5, <1>6, NoMail, SemGoesAside

LEMMA SemLeaves ==
    ASSUME TypeInv, LocksInv, NEW p, Running(p), UNCHANGED procVars,
           S!Return(p) \/ S!semPCheck(p)
    PROVE  TypeInv' /\ LocksInv'
<1> USE DEF S!At, S!Goto
<1>1. /\ UNCHANGED <<mailboxVars, mutex, blockingMbox>>
      /\ mutex \in [S!Slots -> OtherBoxes] /\ blockingMbox \in [S!Slots -> OtherBoxes]
  BY DEF TypeInv, SemTypes, S!Return, S!semPCheck, S!tableVars, S!mailboxVars, mailboxVars
<1>2. CASE /\ pc[p] = "p_check" /\ pc' = [pc EXCEPT ![p] = "p_ret"]
           /\ UNCHANGED <<sem, box>>
  BY <1>1, <1>2, NoMail, SidesLemma, SemWithin
<1>3. ASSUME NEW l \in {"quit", "user"}, SemGoes(p, l, EMPTY, EMPTY),
             pc[p] \in S!RetSteps \cup {"p_check"}
      PROVE  TypeInv' /\ LocksInv'
  <2>1. Fits(l, EMPTY, EMPTY) /\ l \notin TableSide
    BY DEF Fits, S!Labels, S!Steps, S!CreateSteps, S!PSteps, S!VSteps, S!FreeSteps,
           TableSide, S!TableSteps, OtherBoxes, Mutexes, S!semsMutex, EMPTY
  <2>2. pc[p] \in S!Labels \ (S!TableSteps \cup {"undefined"})
    BY <1>3 DEF S!RetSteps, S!TableSteps, S!Labels, S!Steps, S!CreateSteps, S!PSteps,
                S!VSteps, S!FreeSteps
  <2> QED BY <1>1, <1>3, <2>1, <2>2, NoMail, SemGoesAside
<1>4. CASE S!semPCheck(p)
  BY <1>2, <1>3, <1>4 DEF S!semPCheck, SemGoes, S!EMPTY, EMPTY
<1>5. CASE S!Return(p)
  BY <1>3, <1>5 DEF S!Return, SemGoes, S!EMPTY, EMPTY
<1> QED BY <1>4, <1>5

LEMMA SemFinds ==
    ASSUME TypeInv, LocksInv, NEW p, Running(p), UNCHANGED procVars,
           S!getAvailableSemHandle(p)
    PROVE  TypeInv' /\ LocksInv'
<1> USE DEF S!At, S!Goto
<1>1. /\ pc[p] = "c_slot" /\ UNCHANGED <<mailboxVars, mutex, blockingMbox, box>>
      /\ mutex \in [S!Slots -> OtherBoxes] /\ blockingMbox \in [S!Slots -> OtherBoxes]
  BY DEF TypeInv, SemTypes, S!getAvailableSemHandle, S!tableVars, S!mailboxVars,
         mailboxVars
<1>2. /\ "c_slot" \in S!TableSteps /\ "c_slot" \in S!Steps /\ "c_slot" \in S!Labels
      /\ "c_count" \in S!TableSteps \cap OnSlot
      /\ "c_slot" # "undefined"
      /\ "undefined" \in S!Labels /\ "undefined" \notin TableSide \cup S!Steps
      /\ "undefined" \in DoneSteps
  BY SidesLemma DEF S!TableSteps, S!Steps, S!CreateSteps, S!PSteps, S!VSteps,
     S!FreeSteps, S!Labels, TableSide, DoneSteps
<1>3. Fits("c_slot", sem[p], box[p]) /\ box[p] = S!semsMutex
  BY <1>1, <1>2, FitsLemma, SidesLemma DEF Running, Fits
<1>4. CASE \E h \in S!Slots : sem' = [sem EXCEPT ![p] = h]
                               /\ pc' = [pc EXCEPT ![p] = "c_count"]
  <2>1. PICK h \in S!Slots : sem' = [sem EXCEPT ![p] = h]
                             /\ pc' = [pc EXCEPT ![p] = "c_count"]
    BY <1>4
  <2>2. SemGoes(p, "c_count", h, box[p])
    BY <1>1, <2>1 DEF SemGoes, TypeInv, SemTypes
  <2>3. Fits("c_count", h, box[p])
    BY <1>2, <1>3, SidesLemma DEF Fits
  <2> QED BY <1>1, <1>2, <2>2, <2>3, NoMail, SemGoesAside
<1>5. CASE pc' = [pc EXCEPT ![p] = "undefined"] /\ UNCHANGED sem
  <2>1. SemGoes(p, "undefined", sem[p], box[p])
    BY <1>1, <1>5, SemStays DEF Running
  <2>2. Fits("undefined", sem[p], box[p])
    BY <1>2, <1>3 DEF Fits
  <2> QED BY <1>1, <1>2, <2>1, <2>2, NoMail, SemGoesAside
<1> QED BY <1>4, <1>5 DEF S!getAvailableSemHandle

(* A call of a program leads to the first step of a handler, or back.      *)
LEMMA SemCalls ==
    ASSUME TypeInv, LocksInv, NEW p, Running(p), UNCHANGED procVars, NEW v, NEW h,
           S!semCreate(p, v) \/ S!semP(p, h) \/ S!semV(p, h) \/ S!semFree(p, h)
    PROVE  TypeInv' /\ LocksInv'
<1> USE DEF S!At, S!Goto
<1>1. /\ pc[p] = "user" /\ UNCHANGED <<mailboxVars, mutex, blockingMbox>>
      /\ mutex \in [S!Slots -> OtherBoxes] /\ blockingMbox \in [S!Slots -> OtherBoxes]
  BY DEF TypeInv, SemTypes, S!semCreate, S!semP, S!semV, S!semFree, S!EnterHandler,
         S!tableVars, S!mailboxVars, mailboxVars
<1>2. /\ "user" \in S!Labels \ (S!TableSteps \cup {"undefined"})
      /\ "user" \notin TableSide \cup DoneSteps \cup S!Steps
      /\ "undefined" \in S!Labels \ (TableSide \cup S!Steps) /\ "undefined" \in DoneSteps
      /\ {"c_lock", "f_lock"} \subseteq TableSide /\ "c_lock" \in S!Labels
      /\ "f_lock" \in S!Labels
      /\ {"p_arg1", "v_arg1"} \subseteq Beside
  BY SidesLemma DEF S!TableSteps, S!Steps, S!CreateSteps, S!PSteps, S!VSteps,
     S!FreeSteps, S!Labels, TableSide, DoneSteps
<1>3. Fits("user", sem[p], box[p]) /\ box[p] \in OtherBoxes
  BY <1>1, <1>2, FitsLemma DEF Running, Fits
<1>4. pc = [pc EXCEPT ![p] = "user"] /\ sem = [sem EXCEPT ![p] = sem[p]]
      /\ box = [box EXCEPT ![p] = box[p]]
  BY <1>1 DEF TypeInv, SemTypes
<1>5. S!semsMutex \in Boxes
  BY MutexesOpen DEF Mutexes
<1>6. \E l, i, b : SemGoes(p, l, i, b) /\ Fits(l, i, b) /\ l \notin S!TableSteps
  <2>1. CASE S!semCreate(p, v)
    <3>1. CASE UNCHANGED <<pc, box>>
      BY <1>2, <1>3, <1>4, <2>1, <3>1, SidesLemma DEF S!semCreate, SemGoes
    <3>2. CASE pc' = [pc EXCEPT ![p] = "c_lock"] /\ box' = [box EXCEPT ![p] = S!semsMutex]
      <4>1. SemGoes(p, "c_lock", sem[p], S!semsMutex)
        BY <1>4, <2>1, <3>2 DEF S!semCreate, SemGoes
      <4>2. Fits("c_lock", sem[p], S!semsMutex) /\ "c_lock" \notin S!TableSteps
        BY <1>2, <1>3, <1>5 DEF Fits, S!TableSteps
      <4> QED BY <4>1, <4>2
    <3> QED BY <2>1, <3>1, <3>2 DEF S!semCreate
  <2>2. ASSUME NEW call, NEW first, first \in {"p_arg1", "v_arg1", "f_lock"},
               S!EnterHandler(p, call, h, first),
               IF pc'[p] = "f_lock" THEN box' = [box EXCEPT ![p] = S!semsMutex]
               ELSE UNCHANGED box
        PROVE  \E l, i, b : SemGoes(p, l, i, b) /\ Fits(l, i, b) /\ l \notin S!TableSteps
    <3>1. CASE UNCHANGED <<pc, sem>>
      <4>1. UNCHANGED box
        BY <1>1, <2>2, <3>1
      <4> QED BY <1>2, <1>3, <1>4, <3>1, <4>1, SidesLemma DEF SemGoes
    <3>2. CASE h \in S!Slots /\ pc' = [pc EXCEPT ![p] = first] /\ sem' = [sem EXCEPT ![p] = h]
      <4>1. pc'[p] = first
        BY <3>2 DEF TypeInv, Running
      <4>2. CASE first = "f_lock"
        <5>1. SemGoes(p, "f_lock", h, S!semsMutex)
          BY <2>2, <3>2, <4>1, <4>2 DEF SemGoes
        <5>2. Fits("f_lock", h, S!semsMutex) /\ "f_lock" \notin S!TableSteps
          BY <1>2, <1>5, <3>2 DEF Fits, S!TableSteps
        <5> QED BY <5>1, <5>2
      <4>3. CASE first \in {"p_arg1", "v_arg1"}
        <5>1. SemGoes(p, first, h, box[p])
          BY <1>4, <2>2, <3>2, <4>1, <4>3 DEF SemGoes
        <5>2. Fits(first, h, box[p]) /\ first \notin S!TableSteps
          BY <1>2, <1>3, <3>2, <4>3, SidesLemma DEF Fits, Beside
        <5> QED BY <5>1, <5>2
      <4> QED BY <2>2, <4>2, <4>3
    <3>3. CASE pc' = [pc EXCEPT ![p] = "undefined"] /\ sem' = [sem EXCEPT ![p] = S!EMPTY]
      <4>1. SemGoes(p, "undefined", EMPTY, box[p])
        BY <1>4, <2>2, <3>3, SameTables DEF SemGoes, TypeInv, Running
      <4>2. Fits("undefined", EMPTY, box[p]) /\ "undefined" \notin S!TableSteps
        BY <1>2, <1>3, SidesLemma DEF Fits
      <4> QED BY <4>1, <4>2
    <3> QED BY <2>2, <3>1, <3>2, <3>3 DEF S!EnterHandler
  <2>3. CASE S!semP(p, h) \/ S!semV(p, h)
    <3>1. \A m : pc' = [pc EXCEPT ![p] = m] => pc'[p] = m
      BY DEF TypeInv, Running
    <3>2. pc'[p] # "f_lock"
      BY <1>1, <2>3, <3>1 DEF S!semP, S!semV, S!EnterHandler
    <3> QED BY <2>2, <2>3, <3>2 DEF S!semP, S!semV
  <2>4. CASE S!semFree(p, h)
    BY <2>2, <2>4 DEF S!semFree
  <2> QED BY <2>1, <2>3, <2>4
<1>7. PICK l, i, b : SemGoes(p, l, i, b) /\ Fits(l, i, b) /\ l \notin S!TableSteps
  BY <1>6
<1> QED BY <1>1, <1>2, <1>7, NoMail, SemGoesAside DEF TableSide

----------------------------------------------------------------------------
(* The steps of the processes.                                             *)

\* What phase 3's processes leave alone of the semaphores.
semsAlone == <<mutex, blockingMbox, sem, box>>

ProcsKept ==
    /\ mboxID' \in [Procs -> OtherBoxes]
    /\ kstate' \in [Procs -> {"free", "active", "quit"}]
    /\ nextPid' \in Nat

LEMMA ProcGoesAside ==
    ASSUME TypeInv, LocksInv, NEW p, Running(p), NEW l \in P!Labels,
           pc[p] \in P!Labels \cup {"quit"}, pc' = [pc EXCEPT ![p] = l],
           UNCHANGED semsAlone, MailAside(p), ProcsKept,
           l \in P!InsideSteps => pc[p] \in P!InsideSteps /\ NobodyBlocks,
           pc[p] \in P!InsideSteps => l \in P!InsideSteps,
           \A q \in Procs : kstate'[q] # "active" => kstate[q] # "active" \/ (l = "none" /\ q = p)
    PROVE  TypeInv' /\ LocksInv'
<1>1. pc' \in [Procs -> Labels] /\ pc'[p] = l /\ \A q \in Procs \ {p} : pc'[q] = pc[q]
  BY DEF TypeInv, Labels, Running
<1>2. pc[p] \notin TableSide \cup DoneSteps
  BY LabelsLemma DEF TableSide, DoneSteps, S!TableSteps
<1>3. SemTypes'
  <2>1. l \notin TableSide \cup DoneSteps \cup S!Steps
    BY LabelsLemma
  <2> QED BY <1>1, <1>2, <2>1 DEF TypeInv, SemTypes, semsAlone, OtherBoxes, Boxes, Running
<1>4. ProcTypes'
  BY <1>1 DEF TypeInv, ProcTypes, ProcsKept, OtherBoxes, Boxes, Running
<1>5. \A m \in Mutexes :
        /\ l \in Inside(m) => pc[p] \in Inside(m) /\ NobodyBlocks
        /\ pc[p] \in Within(m) => l \in Within(m)
  <2>1. pc[p] \notin S!TableSteps \cup {"undefined"}
    BY <1>2, LabelsLemma DEF TableSide, DoneSteps
  <2> QED BY <2>1, LabelsLemma DEF Within, Inside
<1>6. LocksInv'
  BY <1>1, <1>5, MoveLocks DEF Running
<1> QED BY <1>1, <1>3, <1>4, <1>6 DEF TypeInv, MailAside

LEMMA ProcGoesOn ==
    ASSUME TypeInv, LocksInv, NEW p, Running(p), NEW l \in P!Labels \ P!InsideSteps,
           pc[p] \in (P!Labels \cup {"quit"}) \ P!InsideSteps,
           pc' = [pc EXCEPT ![p] = l],
           UNCHANGED semsAlone, MailAside(p), ProcsKept, kstate' = kstate
    PROVE  TypeInv' /\ LocksInv'
<1>1. /\ l \in P!Labels /\ (l \in P!InsideSteps => pc[p] \in P!InsideSteps /\ NobodyBlocks)
      /\ pc[p] \in P!Labels \cup {"quit"} /\ (pc[p] \in P!InsideSteps => l \in P!InsideSteps)
  OBVIOUS
<1>2. \A q \in Procs : kstate'[q] # "active" => kstate[q] # "active" \/ (l = "none" /\ q = p)
  OBVIOUS
<1> HIDE DEF ProcsKept, MailAside, TypeInv, LocksInv, semsAlone
<1> QED BY <1>1, <1>2, ProcGoesAside

LEMMA ProcLock ==
    ASSUME TypeInv, LocksInv, NEW p, Running(p), UNCHANGED semsAlone,
           P!Lock(p) \/ P!Unlock(p)
    PROVE  TypeInv' /\ LocksInv'
<1> USE DEF P!At, P!Goto
<1>1. PICK l \in P!Labels :
        /\ pc' = [pc EXCEPT ![p] = l]
        /\ \/ /\ MboxSend(p, 1) /\ l \in P!InsideSteps /\ pc[p] \notin P!InsideSteps
           \/ /\ MboxReceive(p, 1) /\ l \notin P!InsideSteps /\ pc[p] \in P!InsideSteps
  <2>1. CASE P!Lock(p)
    <3>1. PICK k \in P!LockSteps : /\ pc[p] = k /\ P!MboxSend(p, 1)
                                   /\ pc' = [pc EXCEPT ![p] = P!AfterLock[k]]
      BY <2>1 DEF P!Lock
    <3>2. P!AfterLock[k] \in P!InsideSteps /\ k \notin P!InsideSteps
      BY DEF P!LockSteps, P!AfterLock, P!InsideSteps
    <3> QED BY <3>1, <3>2, SameSend, LabelsLemma
  <2>2. CASE P!Unlock(p)
    <3>1. PICK k \in P!UnlockSteps : /\ pc[p] = k /\ P!MboxReceive(p, 1)
                                     /\ pc' = [pc EXCEPT ![p] = P!AfterUnlock(p)[k]]
      BY <2>2 DEF P!Unlock
    <3>2. /\ P!AfterUnlock(p)[k] \in P!Labels \ P!InsideSteps
          /\ k \in P!InsideSteps
      BY DEF P!UnlockSteps, P!AfterUnlock, P!InsideSteps, P!Labels, P!SpawnSteps,
             P!LaunchSteps, P!TerminateSteps
    <3> QED BY <3>1, <3>2, SameReceive
  <2> QED BY <2>1, <2>2
<1>2. UNCHANGED <<mboxID, kstate, nextPid>> /\ pc[p] \in P!Labels \ {"none"}
  BY DEF P!Lock, P!Unlock, P!kernelVars, P!localVars, P!LockSteps, P!UnlockSteps, P!Labels,
         P!SpawnSteps, P!LaunchSteps, P!TerminateSteps
<1>3. 1 \in Mutexes /\ Inside(1) = P!InsideSteps
  BY DEF Mutexes, Inside, S!semsMutex
<1>4. \A n \in Mutexes : /\ l \notin P!InsideSteps => l \notin Inside(n)
                         /\ pc[p] \notin P!InsideSteps => pc[p] \notin Within(n)
  <2>1. pc[p] \notin S!TableSteps \cup {"undefined"}
    BY <1>2, LabelsLemma DEF DoneSteps
  <2> QED BY <2>1, LabelsLemma DEF Inside, Within
<1>5. LocksInv' /\ MailboxTypeOK' /\ QueuesOK'
  BY <1>1, <1>3, <1>4, EnterLock, LeaveLock DEF Running
<1>6. pc' \in [Procs -> Labels] /\ pc'[p] = l /\ \A q \in Procs \ {p} : pc'[q] = pc[q]
  BY <1>1 DEF TypeInv, Labels, Running
<1>7. SemTypes'
  <2>1. l \notin TableSide \cup DoneSteps \cup S!Steps /\ pc[p] \notin TableSide \cup DoneSteps
    BY <1>2, LabelsLemma
  <2> QED BY <1>6, <2>1 DEF TypeInv, SemTypes, semsAlone, OtherBoxes, Boxes, Running
<1>8. ProcTypes'
  BY <1>2, <1>6 DEF TypeInv, ProcTypes, OtherBoxes, Boxes, Running
<1> QED BY <1>5, <1>6, <1>7, <1>8 DEF TypeInv

LEMMA ProcMail ==
    ASSUME TypeInv, LocksInv, NEW p, Running(p), UNCHANGED semsAlone,
           \/ P!SpawnCreate(p) \/ P!SpawnRelease(p) \/ P!SpawnSend(p)
           \/ P!LaunchReceive(p) \/ P!LaunchRelease(p)
    PROVE  TypeInv' /\ LocksInv'
<1> USE DEF P!At, P!Goto
<1>1. /\ mboxID \in [Procs -> OtherBoxes] /\ mboxID[p] \in OtherBoxes
      /\ kstate \in [Procs -> {"free", "active", "quit"}] /\ nextPid \in Nat
  BY DEF TypeInv, ProcTypes, Running
<1>2. UNCHANGED <<kstate, nextPid>>
  BY DEF P!SpawnCreate, P!SpawnRelease, P!SpawnSend, P!LaunchReceive, P!LaunchRelease,
         P!kernelVars
<1>3. EMPTY \in OtherBoxes /\ P!EMPTY = EMPTY
  BY DEF OtherBoxes, Mutexes, S!semsMutex, EMPTY, P!EMPTY
<1>4. {"s_create", "s_fork", "s_release", "s_send", "return", "l_receive", "l_release",
       "l_lock"} \subseteq P!Labels \ P!InsideSteps
  BY DEF P!Labels, P!SpawnSteps, P!LaunchSteps, P!InsideSteps
<1>5. CASE P!SpawnCreate(p)
  <2>1. PICK id : MboxCreate(1, id) /\ mboxID' = [mboxID EXCEPT ![p] = id]
    BY <1>5, SameCreate DEF P!SpawnCreate
  <2>2. pc[p] = "s_create" /\ pc' = [pc EXCEPT ![p] = "s_fork"]
    BY <1>5 DEF P!SpawnCreate
  <2>3. MailAside(p) /\ id \in OtherBoxes
    BY <2>1, CreateAside
  <2>4. ProcsKept
    BY <1>1, <1>2, <2>1, <2>3 DEF ProcsKept
  <2> QED BY <1>2, <1>4, <2>2, <2>3, <2>4, ProcGoesOn
<1>6. CASE P!SpawnRelease(p) \/ P!LaunchRelease(p)
  <2>1. /\ MboxRelease(mboxID[p]) /\ mboxID' = [mboxID EXCEPT ![p] = EMPTY]
        /\ \/ pc[p] = "s_release" /\ pc' = [pc EXCEPT ![p] = "return"]
           \/ pc[p] = "l_release" /\ pc' = [pc EXCEPT ![p] = "l_lock"]
    BY <1>3, <1>6, SameRelease DEF P!SpawnRelease, P!LaunchRelease
  <2>2. MailAside(p)
    BY <1>1, <2>1, ReleaseAside
  <2>3. ProcsKept
    BY <1>1, <1>2, <1>3, <2>1 DEF ProcsKept
  <2> QED BY <1>2, <1>4, <2>1, <2>2, <2>3, ProcGoesOn
<1>7. CASE P!SpawnSend(p)
  <2>1. /\ MboxSend(p, mboxID[p]) /\ mboxID' = [mboxID EXCEPT ![p] = EMPTY]
        /\ pc[p] = "s_send" /\ pc' = [pc EXCEPT ![p] = "return"]
    BY <1>3, <1>7, SameSend DEF P!SpawnSend
  <2>2. MailAside(p)
    BY <1>1, <2>1, SendAside DEF Running
  <2>3. ProcsKept
    BY <1>1, <1>2, <1>3, <2>1 DEF ProcsKept
  <2> QED BY <1>2, <1>4, <2>1, <2>2, <2>3, ProcGoesOn
<1>8. CASE P!LaunchReceive(p)
  <2>1. /\ MboxReceive(p, mboxID[p]) /\ mboxID' = mboxID
        /\ pc[p] = "l_receive" /\ pc' = [pc EXCEPT ![p] = "l_release"]
    BY <1>8, SameReceive DEF P!LaunchReceive, P!localVars
  <2>2. MailAside(p)
    BY <1>1, <2>1, ReceiveAside DEF Running
  <2>3. ProcsKept
    BY <1>1, <1>2, <2>1 DEF ProcsKept
  <2> QED BY <1>2, <1>4, <2>1, <2>2, <2>3, ProcGoesOn
<1> QED BY <1>5, <1>6, <1>7, <1>8

\* Steps that concern neither a mailbox nor the kernel's table of processes.
LEMMA ProcQuiet ==
    ASSUME TypeInv, LocksInv, NEW p, Running(p), UNCHANGED semsAlone,
           \/ P!SpawnInit(p) \/ P!addChild(p) \/ P!SpawnParent(p) \/ P!LaunchRead(p)
           \/ P!ReadChild(p) \/ P!ReadPid(p) \/ P!zap(p) \/ P!zapReturn(p)
           \/ P!ReadSibling(p) \/ P!removeChild(p) \/ P!Return(p)
           \/ \E l \in {"s_create", "return", "w_join", "t_lock"} : P!Call(p, l)
    PROVE  TypeInv' /\ LocksInv'
<1> USE DEF P!At, P!Goto
<1>1. /\ UNCHANGED <<mbox, ready, mboxID, kstate, nextPid>>
      /\ \E l \in P!Labels :
            /\ pc' = [pc EXCEPT ![p] = l]
            /\ l \in P!InsideSteps <=> pc[p] \in P!InsideSteps
            /\ pc[p] \in P!Labels
  <2>1. {"s_init", "s_link", "s_parent", "s_unlock", "l_read", "l_unlock", "t_child",
         "t_unlock", "z_pid", "z_unlock", "z_zap", "z_wait", "n_lock", "n_next",
         "n_unlock", "r_remove", "r_unlock", "return", "t_quit", "w_join", "t_lock",
         "user", "s_create"} \subseteq P!Labels
    BY DEF P!Labels, P!SpawnSteps, P!LaunchSteps, P!TerminateSteps
  <2>2. {"s_init", "s_link", "s_parent", "s_unlock", "l_read", "l_unlock", "t_child",
         "t_unlock", "z_pid", "z_unlock", "n_next", "n_unlock", "r_remove", "r_unlock"}
            \subseteq P!InsideSteps
        /\ {"z_zap", "z_wait", "n_lock", "return", "t_quit", "w_join", "t_lock",
            "user", "s_create"} \cap P!InsideSteps = {}
    BY DEF P!InsideSteps
  <2> USE DEF P!mailboxVars, P!kernelVars, P!tableVars, P!localVars
  <2>3. CASE P!SpawnInit(p) \/ P!addChild(p) \/ P!SpawnParent(p) \/ P!LaunchRead(p)
    BY <2>1, <2>2, <2>3 DEF P!SpawnInit, P!addChild, P!SpawnParent, P!LaunchRead
  <2>4. CASE P!ReadChild(p) \/ P!ReadPid(p) \/ P!ReadSibling(p) \/ P!removeChild(p)
    BY <2>1, <2>2, <2>4 DEF P!ReadChild, P!ReadPid, P!ReadSibling, P!removeChild
  <2>5. CASE P!zap(p) \/ P!zapReturn(p)
    BY <2>1, <2>2, <2>5 DEF P!zap, P!zapReturn
  <2>6. CASE P!Return(p) \/ \E l \in {"s_create", "return", "w_join", "t_lock"} : P!Call(p, l)
    BY <2>1, <2>2, <2>6 DEF P!Return, P!Call
  <2> QED BY <2>3, <2>4, <2>5, <2>6
<1>2. PICK l \in P!Labels :
        /\ pc' = [pc EXCEPT ![p] = l]
        /\ l \in P!InsideSteps <=> pc[p] \in P!InsideSteps
        /\ pc[p] \in P!Labels
  BY <1>1
<1>3. MailAside(p) /\ NobodyBlocks
  <2>1. UNCHANGED mailboxVars
    BY <1>1 DEF mailboxVars
  <2> QED BY <2>1, NoMail
<1>4. ProcsKept
  BY <1>1 DEF ProcsKept, TypeInv, ProcTypes
<1> QED BY <1>1, <1>2, <1>3, <1>4, ProcGoesAside

\* fork1 takes a slot that nobody uses.
LEMMA ProcForks ==
    ASSUME TypeInv, LocksInv, NEW p, Running(p), UNCHANGED semsAlone, P!SpawnFork(p)
    PROVE  TypeInv' /\ LocksInv'
<1> USE DEF P!At, P!Goto
<1>1. /\ mboxID \in [Procs -> OtherBoxes] /\ mboxID[p] \in OtherBoxes
      /\ kstate \in [Procs -> {"free", "active", "quit"}] /\ nextPid \in Nat
      /\ pc \in [Procs -> Labels] /\ p \in Procs
      /\ pc[p] = "s_fork" /\ UNCHANGED mailboxVars
  BY DEF TypeInv, ProcTypes, Running, P!SpawnFork, P!mailboxVars, mailboxVars
<1>2. MailAside(p) /\ NobodyBlocks
  BY <1>1, NoMail
<1>3. {"s_fork", "s_release", "s_lock", "l_receive"} \subseteq P!Labels \ P!InsideSteps
  BY DEF P!Labels, P!SpawnSteps, P!LaunchSteps, P!InsideSteps
<1>4. ASSUME NEW id \in nextPid .. nextPid + MAXPROC - 1, P!FreePid(id),
             kstate' = [kstate EXCEPT ![P!Slot(id)] = "active"],
             nextPid' = id + 1,
             mboxID' = [mboxID EXCEPT ![P!Slot(id)] = mboxID[p]],
             pc' = [pc EXCEPT ![p] = "s_lock", ![P!Slot(id)] = "l_receive"]
      PROVE  TypeInv' /\ LocksInv'
  <2> DEFINE c == P!Slot(id)
  <2>1. c \in Procs /\ id \in Nat /\ kstate[c] = "free"
    BY <1>1, <1>4, SystemAssumption DEF P!Slot, P!FreePid
  <2> HIDE DEF c
  <2>2. pc[c] = "none" /\ c # p
    BY <1>1, <2>1 DEF TypeInv, ProcTypes
  <2>3. /\ kstate' = [kstate EXCEPT ![c] = "active"]
        /\ mboxID' = [mboxID EXCEPT ![c] = mboxID[p]]
        /\ pc' = [pc EXCEPT ![p] = "s_lock", ![c] = "l_receive"]
    BY <1>4 DEF c
  <2>4. /\ pc'[p] = "s_lock" /\ pc'[c] = "l_receive"
        /\ \A q \in Procs \ {p, c} : pc'[q] = pc[q]
        /\ pc' \in [Procs -> Labels]
    BY <1>1, <1>3, <2>1, <2>2, <2>3 DEF Labels
  <2>5. ProcTypes'
    <3>1. /\ mboxID' \in [Procs -> OtherBoxes]
          /\ kstate' \in [Procs -> {"free", "active", "quit"}] /\ nextPid' \in Nat
      BY <1>1, <1>4, <2>1, <2>3
    <3>2. \A q \in Procs : kstate'[q] # "active" => pc'[q] = "none"
      BY <1>1, <2>1, <2>3, <2>4 DEF TypeInv, ProcTypes, Running
    <3> QED BY <3>1, <3>2 DEF ProcTypes, OtherBoxes, Boxes
  <2>6. SemTypes'
    <3>1. \A q \in {p, c} : /\ pc[q] \in P!Labels /\ pc'[q] \in P!Labels
      BY <1>1, <1>3, <2>2, <2>4 DEF P!Labels
    <3>2. P!Labels \cap (TableSide \cup DoneSteps \cup S!Steps) = {}
      BY LabelsLemma
    <3> QED BY <1>1, <2>1, <2>4, <3>1, <3>2 DEF TypeInv, SemTypes, semsAlone, OtherBoxes, Boxes
  <2>7. LocksInv'
    <3>1. \A m \in Mutexes : pc'[p] \notin Inside(m) /\ pc[p] \notin Within(m)
      BY <1>1, <1>3, <2>4, LabelsLemma DEF Inside, Within
    <3>2. \A q \in Procs \ {p} : pc'[q] = pc[q] \/ (pc[q] = "none" /\ pc'[q] = "l_receive")
      BY <2>2, <2>4
    <3> QED BY <1>1, <1>2, <3>1, <3>2, MoveLocks DEF Running
  <2> QED BY <1>2, <2>4, <2>5, <2>6, <2>7 DEF TypeInv, MailAside
<1>5. ASSUME UNCHANGED <<kstate, nextPid, mboxID>>, NEW l \in {"s_release", "s_fork"},
             pc' = [pc EXCEPT ![p] = l]
      PROVE  TypeInv' /\ LocksInv'
  <2>1. ProcsKept
    BY <1>1, <1>5 DEF ProcsKept, OtherBoxes, Boxes
  <2> QED BY <1>1, <1>2, <1>3, <1>5, <2>1, ProcGoesOn
<1>6. CASE /\ UNCHANGED <<kstate, nextPid, mboxID>>
           /\ pc' = [pc EXCEPT ![p] = "s_release"] \/ pc' = pc
  <2>1. pc = [pc EXCEPT ![p] = "s_fork"]
    BY <1>1
  <2> QED BY <1>5, <1>6, <2>1
<1>7. \/ \E id \in nextPid .. nextPid + MAXPROC - 1 :
            /\ P!FreePid(id)
            /\ kstate' = [kstate EXCEPT ![P!Slot(id)] = "active"]
            /\ nextPid' = id + 1
            /\ mboxID' = [mboxID EXCEPT ![P!Slot(id)] = mboxID[p]]
            /\ pc' = [pc EXCEPT ![p] = "s_lock", ![P!Slot(id)] = "l_receive"]
      \/ /\ UNCHANGED <<kstate, nextPid, mboxID>>
         /\ pc' = [pc EXCEPT ![p] = "s_release"] \/ pc' = pc
  BY DEF P!SpawnFork
<1> QED BY <1>4, <1>6, <1>7

LEMMA ProcEnds ==
    ASSUME TypeInv, LocksInv, NEW p, Running(p), UNCHANGED semsAlone,
           P!waitReal(p) \/ P!quit(p)
    PROVE  TypeInv' /\ LocksInv'
<1> USE DEF P!At, P!Goto
<1>1. /\ mboxID \in [Procs -> OtherBoxes] /\ UNCHANGED <<mboxID, nextPid, mailboxVars>>
      /\ kstate \in [Procs -> {"free", "active", "quit"}] /\ nextPid \in Nat
      /\ pc \in [Procs -> Labels] /\ p \in Procs
  BY DEF TypeInv, ProcTypes, Running, P!waitReal, P!quit, P!localVars, P!mailboxVars,
         mailboxVars
<1>2. MailAside(p)
  BY <1>1, NoMail
<1>3. {"w_join", "return", "t_quit", "none"} \subseteq P!Labels \ P!InsideSteps
  BY DEF P!Labels, P!TerminateSteps, P!InsideSteps
<1>4. \E l \in {"return", "t_quit", "none"} :
        /\ pc' = [pc EXCEPT ![p] = l] /\ pc[p] \in {"w_join", "t_quit"}
        /\ kstate' \in [Procs -> {"free", "active", "quit"}]
        /\ \A q \in Procs :
            kstate'[q] # "active" => kstate[q] # "active" \/ (l = "none" /\ q = p)
  <2>1. CASE P!waitReal(p)
    <3>1. pc[p] = "w_join" /\ pc' = [pc EXCEPT ![p] = "return"]
      BY <2>1 DEF P!waitReal
    <3>2. kstate' = kstate \/ \E c \in Procs : /\ kstate[c] # "active"
                                               /\ kstate' = [kstate EXCEPT ![c] = "free"]
      BY <2>1 DEF P!waitReal, P!ActiveKids, P!Kids
    <3> QED BY <1>1, <3>1, <3>2
  <2>2. CASE P!quit(p) /\ P!ActiveKids(p) # {}
    <3>1. pc[p] = "t_quit" /\ UNCHANGED <<pc, kstate>>
      BY <2>2 DEF P!quit
    <3>2. pc' = [pc EXCEPT ![p] = "t_quit"]
      BY <1>1, <3>1
    <3> QED BY <1>1, <3>1, <3>2
  <2>3. CASE P!quit(p) /\ P!ActiveKids(p) = {}
    <3>1. /\ pc[p] = "t_quit" /\ pc' = [pc EXCEPT ![p] = "none"]
          /\ kstate' = [q \in Procs |-> IF q = p THEN "quit"
                                        ELSE IF q \in P!Kids(p) THEN "free"
                                        ELSE kstate[q]]
      BY <2>3 DEF P!quit
    <3>2. \A q \in P!Kids(p) : kstate[q] # "active"
      BY <2>3 DEF P!ActiveKids
    <3> QED BY <1>1, <3>1, <3>2
  <2> QED BY <2>1, <2>2, <2>3
<1>5. PICK l \in {"return", "t_quit", "none"} :
        /\ pc' = [pc EXCEPT ![p] = l] /\ pc[p] \in {"w_join", "t_quit"}
        /\ kstate' \in [Procs -> {"free", "active", "quit"}]
        /\ \A q \in Procs :
            kstate'[q] # "active" => kstate[q] # "active" \/ (l = "none" /\ q = p)
  BY <1>4
<1>6. ProcsKept
  BY <1>1, <1>5 DEF ProcsKept, OtherBoxes, Boxes
<1> QED BY <1>2, <1>3, <1>5, <1>6, ProcGoesAside

----------------------------------------------------------------------------
(* The system.                                                             *)
LEMMA InitLocks == Init => TypeInv /\ LocksInv
<1> SUFFICES ASSUME Init PROVE TypeInv /\ LocksInv
  OBVIOUS
<1> USE SystemAssumption, MailboxAssumption
<1> USE DEF P!EMPTY, S!EMPTY, EMPTY
<1>1. NewBox(1) \in Mailbox /\ ClosedBox \in Mailbox /\ Mutexes \subseteq Boxes
  BY DEF NewBox, ClosedBox, Mailbox, Mutexes, S!semsMutex, Boxes
<1>2. /\ mbox = [b \in Boxes |-> IF b \in Mutexes THEN NewBox(1) ELSE ClosedBox]
      /\ ready = Procs
  BY DEF Init, P!ProcInit, P!ProcTableMutexSlots, Mutexes
<1>3. MailboxTypeOK
  BY <1>1, <1>2 DEF MailboxTypeOK
<1>4. \A b \in Boxes : Waiting(b) = {} /\ mbox[b].senders = << >> /\ mbox[b].receivers = << >>
  BY <1>2 DEF NewBox, ClosedBox, Waiting, Members
<1>5. QueuesOK
  <2>1. \A b \in Boxes : ~mbox[b].open => mbox[b] = ClosedBox
    BY <1>2 DEF NewBox
  <2>2. NoRepeats(<< >>)
    BY DEF NoRepeats
  <2> QED BY <1>4, <2>1, <2>2 DEF QueuesOK
<1>6. /\ pc = [p \in Procs |-> IF p = Start2 THEN "s_create" ELSE "none"]
      /\ {"s_create", "none"} \subseteq P!Labels \ P!InsideSteps
      /\ EMPTY \in OtherBoxes
  BY DEF Init, P!ProcInit, P!Labels, P!SpawnSteps, P!InsideSteps, OtherBoxes,
         Mutexes, S!semsMutex
<1>7. \A p \in Procs : pc[p] \in P!Labels \ P!InsideSteps
  BY <1>6
<1>8. SemTypes
  <2>1. \A p \in Procs : pc[p] \notin TableSide \cup DoneSteps \cup S!Steps
    BY <1>7, LabelsLemma
  <2> QED BY <1>6, <2>1 DEF Init, S!SemInit, SemTypes
<1>9. ProcTypes
  BY <1>6 DEF Init, P!ProcInit, ProcTypes
<1>10. TypeInv
  BY <1>3, <1>5, <1>6, <1>7, <1>8, <1>9 DEF TypeInv, Labels
<1>11. LocksInv
  <2> SUFFICES ASSUME NEW m \in Mutexes PROVE LockInv(m)
    BY DEF LocksInv
  <2>1. mbox[m] = NewBox(1) /\ m \in Boxes
    BY <1>1, <1>2
  <2>2. \A p \in Procs : ~Holds(p, m)
    BY <1>7, LabelsLemma DEF Holds, Inside
  <2> QED BY <1>4, <2>1, <2>2 DEF LockInv, NewBox
<1> QED BY <1>10, <1>11

LEMMA StutterLocks ==
    ASSUME TypeInv, LocksInv, UNCHANGED vars
    PROVE  TypeInv' /\ LocksInv'
<1>1. /\ UNCHANGED mailboxVars
      /\ UNCHANGED <<mbox, ready, mutex, blockingMbox, sem, box, kstate, nextPid, mboxID, pc>>
  BY DEF vars, mailboxVars, semVars, procVars
<1>2. MailboxTypeOK' /\ QueuesOK'
  BY <1>1, StutterLemma DEF TypeInv
<1>3. TypeInv'
  BY <1>1, <1>2 DEF TypeInv, SemTypes, ProcTypes, OtherBoxes, Boxes
<1>4. \A b \in Boxes : Waiting(b)' = Waiting(b)
  BY <1>1 DEF Waiting
<1>5. LocksInv'
  BY <1>1, <1>4 DEF LocksInv, LockInv, Holds, Boxes, Inside, Within
<1> QED BY <1>3, <1>5

\* The steps of the handlers and the calls that a program makes.
LEMMA StepLocks ==
    ASSUME TypeInv, LocksInv, NEW p, Running(p), Step(p)
    PROVE  TypeInv' /\ LocksInv'
<1>1. CASE SemStep(p)
  BY <1>1, SemLock, SemUnlock, SemReads, SemFinds, SemCreates, SemCounts, SemFrees
     DEF SemStep
<1>2. CASE SemReturn(p) \/ SemPCheck(p)
  BY <1>2, SemLeaves DEF SemReturn, SemPCheck
<1>3. CASE semCreate(p) \/ semP(p) \/ semV(p) \/ semFree(p)
  <2>1. CASE semCreate(p)
    BY <2>1, SemCalls DEF semCreate
  <2>2. CASE semP(p)
    BY <2>2, SemCalls DEF semP
  <2>3. CASE semV(p)
    BY <2>3, SemCalls DEF semV
  <2>4. CASE semFree(p)
    BY <2>4, SemCalls DEF semFree
  <2> QED BY <1>3, <2>1, <2>2, <2>3, <2>4
<1>4. UNCHANGED semVars => UNCHANGED semsAlone
  BY DEF semVars, semsAlone
<1>5. CASE ProcStep(p)
  BY <1>4, <1>5, ProcLock, ProcMail, ProcQuiet, ProcEnds DEF ProcStep
<1>6. CASE Fork1(p) \/ Waited(p)
  BY <1>4, <1>6, ProcForks, ProcEnds DEF Fork1, Waited
<1>7. CASE Spawned(p) \/ NotSpawned(p)
  BY <1>4, <1>7, ProcMail DEF Spawned, NotSpawned
<1>8. CASE ProcReturn(p) \/ spawn(p) \/ waitHandler(p) \/ terminate(p) \/ nullsys3(p)
           \/ getPID(p) \/ getTimeOfDay(p) \/ cpuTime(p)
  <2>1. UNCHANGED semVars
    BY <1>8 DEF ProcReturn, spawn, waitHandler, terminate, nullsys3, getPID, getTimeOfDay,
                cpuTime
  <2>2. P!Return(p) \/ \E l \in {"s_create", "return", "w_join", "t_lock"} : P!Call(p, l)
    BY <1>8 DEF ProcReturn, spawn, P!spawn, waitHandler, terminate, nullsys3, getPID,
                getTimeOfDay, cpuTime
  <2> QED BY <1>4, <2>1, <2>2, ProcQuiet
<1>9. CASE terminateReal(p)
  <2>1. /\ pc[p] = "quit" /\ pc' = [pc EXCEPT ![p] = "t_lock"]
        /\ UNCHANGED semsAlone /\ UNCHANGED mailboxVars /\ kstate' = kstate
    BY <1>4, <1>9 DEF terminateReal, P!At, P!Goto, procVars
  <2>2. ProcsKept
    BY <1>9 DEF terminateReal, procVars, ProcsKept, TypeInv, ProcTypes, OtherBoxes, Boxes
  <2>3. "t_lock" \in P!Labels \ P!InsideSteps /\ "quit" \notin P!InsideSteps
    BY DEF P!Labels, P!TerminateSteps, P!InsideSteps
  <2> QED BY <2>1, <2>2, <2>3, NoMail, ProcGoesOn
<1> QED BY <1>1, <1>2, <1>3, <1>5, <1>6, <1>7, <1>8, <1>9 DEF Step

(* Whatever program runs, and whichever process the dispatcher takes, the  *)
(* semaphore table and ProcTable are each changed by one process at a time:*)
(* nobody holds the id of a mutex but who is about to lock or unlock it,   *)
(* though the ids of the other mailboxes go from one owner to the next.    *)
THEOREM TablesStayLocked == Spec => []TablesLocked
<1>1. Init => TypeInv /\ LocksInv
  BY InitLocks
<1>2. TypeInv /\ LocksInv /\ [Next]_vars => TypeInv' /\ LocksInv'
  <2> SUFFICES ASSUME TypeInv, LocksInv, [Next]_vars PROVE TypeInv' /\ LocksInv'
    OBVIOUS
  <2>1. CASE Next
    <3>1. PICK p \in Dispatched : Step(p)
      BY <2>1 DEF Next
    <3>2. Running(p)
      BY <3>1 DEF Dispatched, CanRun, Running
    <3> QED BY <3>1, <3>2, StepLocks
  <2>2. CASE UNCHANGED vars
    BY <2>2, StutterLocks
  <2> QED BY <2>1, <2>2
<1>3. TypeInv /\ LocksInv => TablesLocked
  <2> SUFFICES ASSUME TypeInv, LocksInv PROVE TablesLocked
    OBVIOUS
  <2>1. LockInv(S!semsMutex) /\ LockInv(1)
    BY DEF LocksInv, Mutexes
  <2>2. Inside(S!semsMutex) = S!TableSteps /\ Inside(1) = P!InsideSteps
    BY DEF Inside, S!semsMutex
  <2> QED BY <2>1, <2>2 DEF LockInv, Holds, TablesLocked, S!SemsMutexExclusion,
             S!HoldsTable, P!ProcTableExclusion, P!HoldsProcTable
<1> QED BY <1>1, <1>2, <1>3, PTL DEF Spec
=============================================================================
