------------------------- MODULE CompositionProofs -------------------------
(***************************************************************************)
(* Theorems about phase 3 as a whole, for any programs that free no        *)
(* semaphore and make up no handles: what holds of each component with the *)
(* mailboxes to itself holds of both on one mailbox table.                 *)
(***************************************************************************)
EXTENDS SystemRefinement, SystemProofs, FiniteSetTheorems

(* There is a mailbox for everything at once: two mutexes, two mailboxes   *)
(* for each semaphore and one for each process (2000 for 200 semaphores    *)
(* and 50 processes in the code).                                          *)
RoomEnough == MAXMBOX > 2 * MAXSEMS + MAXPROC + 2

SemInv == Sems!UInv /\ Sems!NumInv /\ Sems!HeldInv

(* The two invariants of the components, of their own mailboxes and labels, *)
(* with the types of the ids.                                              *)
Inv == TypeInv /\ LocksInv /\ Users!UserInv /\ SemInv

----------------------------------------------------------------------------
(* What is proved of the components.                                       *)

LEMMA UsersConstants ==
    /\ 1 \in Users!Boxes
    /\ RoomEnough => Users!EnoughMailboxes
BY SystemAssumption, MailboxAssumption DEF Users!Boxes, RoomEnough, Users!EnoughMailboxes

LEMMA UsersNext ==
    ASSUME RoomEnough, Users!UserInv, [Users!Next]_(Users!vars)
    PROVE  Users!UserInv'
<1>1. Users!IInv'
  BY Users!NextInv, SystemAssumption, MailboxAssumption, UsersConstants DEF Users!UserInv
<1>2. Users!HandInv'
  BY Users!NextHand, SystemAssumption, MailboxAssumption, UsersConstants DEF Users!UserInv
<1>3. Users!ListInv' /\ Users!TerminateInv'
  BY Users!NextLists, SystemAssumption, MailboxAssumption, UsersConstants DEF Users!UserInv
<1>4. Users!PidInv'
  BY Users!NextPids, SystemAssumption, MailboxAssumption, UsersConstants DEF Users!UserInv
<1> QED BY <1>1, <1>2, <1>3, <1>4 DEF Users!UserInv

LEMMA SemsConstants ==
    /\ MAXMBOX > 0
    /\ {"SemCreate", "SemP", "SemV"} \subseteq Sems!SysCalls
    /\ {} \subseteq Int /\ Int \subseteq Int /\ Procs \subseteq Procs
    /\ Unbounded \in Int /\ MAXMBOX \in Nat /\ FALSE \in BOOLEAN
    /\ MAXSEMS \in Nat \ {0} /\ NoMsg \in Int /\ Unbounded \in Nat
BY SystemAssumption, MailboxAssumption DEF Sems!SysCalls

LEMMA SemsNext ==
    ASSUME SemInv, [Sems!Next]_(Sems!vars)
    PROVE  SemInv' /\ [Sems!Counting!Next]_(Sems!Counting!vars)
<1>1. Sems!UInv'
  BY Sems!NextUnits, SemsConstants DEF SemInv
<1>2. Sems!MInv
  BY DEF SemInv, Sems!UInv
<1>3. Sems!NumInv'
  BY <1>2, Sems!NextNum, SemsConstants DEF SemInv
<1>4. [Sems!Counting!Next]_(Sems!Counting!vars)
  BY <1>2, Sems!NextCounting, SemsConstants
<1>5. Sems!HeldInv'
  BY <1>2, Sems!NextHeld, SemsConstants DEF SemInv
<1> QED BY <1>1, <1>3, <1>4, <1>5 DEF SemInv

LEMMA SemsElsewhere ==
    ASSUME SemInv, NEW p \in Procs, Sems!Elsewhere(p)
    PROVE  SemInv' /\ UNCHANGED Sems!Counting!vars
<1>1. Sems!MInv
  BY DEF SemInv, Sems!UInv
<1> QED BY <1>1, Sems!ElsewhereStep, SemsConstants DEF SemInv

----------------------------------------------------------------------------
(* The mailboxes: which are whose, and who waits on them.                  *)

LEMMA Ids ==
    /\ Users!Boxes = Boxes /\ Sems!Boxes = Boxes
    /\ Users!EMPTY = EMPTY /\ Sems!EMPTY = EMPTY /\ S!EMPTY = EMPTY /\ P!EMPTY = EMPTY
    /\ Users!ClosedBox = ClosedBox /\ Sems!ClosedBox = ClosedBox
    /\ ~ClosedBox.open
    /\ S!semsMutex = 0 /\ Sems!semsMutex = 0
    /\ 0 \in Boxes /\ 1 \in Boxes /\ EMPTY \notin Boxes
    /\ Sems!Slots = S!Slots
    /\ Sems!Labels = S!Labels /\ Users!Labels = P!Labels
BY SystemAssumption, MailboxAssumption
   DEF Users!Boxes, Sems!Boxes, Boxes, Users!EMPTY, Sems!EMPTY, S!EMPTY, P!EMPTY, EMPTY,
       Users!ClosedBox, Sems!ClosedBox, ClosedBox, S!semsMutex, Sems!semsMutex,
       Sems!Slots, S!Slots, Sems!Labels, S!Labels, Sems!Steps, S!Steps,
       Sems!CreateSteps, S!CreateSteps, Sems!PSteps, S!PSteps, Sems!VSteps, S!VSteps,
       Sems!FreeSteps, S!FreeSteps, Users!Labels, P!Labels, Users!SpawnSteps, P!SpawnSteps,
       Users!LaunchSteps, P!LaunchSteps, Users!TerminateSteps, P!TerminateSteps

LEMMA LabelSides ==
    /\ S!Labels \cap P!Labels = {"user"}
    /\ Labels = S!Labels \cup P!Labels
BY DEF Labels, S!Labels, S!Steps, S!CreateSteps, S!PSteps, S!VSteps, S!FreeSteps,
       P!Labels, P!SpawnSteps, P!LaunchSteps, P!TerminateSteps

(* The mailboxes of the processes are open, of one slot each.              *)
LEMMA UserBoxesOpen ==
    ASSUME Inv
    PROVE  /\ UserBoxes \subseteq Boxes
           /\ \A b \in UserBoxes : mbox[b].open
<1>1. UserBoxes \subseteq Boxes
  BY Ids DEF Inv, TypeInv, ProcTypes, OtherBoxes, UserBoxes
<1>2. mbox[1].open
  BY DEF Inv, LocksInv, Mutexes, LockInv
<1>3. ASSUME NEW p \in Procs, mboxID[p] # EMPTY
      PROVE  mbox[mboxID[p]].open
  <2>1. pc[p] \in P!Labels => userPc[p] = pc[p]
    BY DEF userPc
  <2>2. Users!Mail(p).open
    BY <1>3, Ids DEF Inv, Users!UserInv, Users!HandInv, Users!BoxInv
  <2>3. mboxID[p] \in UserBoxes /\ mboxID[p] \in Boxes
    BY <1>1, <1>3 DEF UserBoxes
  <2>4. Users!Mail(p) = mbox[mboxID[p]]
    BY <2>3 DEF Users!Mail, userMbox
  <2> QED BY <2>2, <2>4
<1> QED BY <1>1, <1>2, <1>3 DEF UserBoxes

(* Whoever waits is in a handler of the component that the mailbox is of.  *)
LEMMA WaitingSides ==
    ASSUME Inv, NEW b \in Boxes, NEW q \in Waiting(b)
    PROVE  /\ q \in Procs
           /\ b \in UserBoxes => pc[q] \in P!Labels /\ semPc[q] = "user"
           /\ b \notin UserBoxes => pc[q] \in S!Labels /\ userPc[q] = "user"
<1>1. q \in Procs /\ pc[q] \in S!Labels \cup P!Labels
  BY ReadyLemma, LabelSides DEF Inv, TypeInv
<1>2. CASE b \in UserBoxes
  <2>1. q \in Users!Waiting(b)
    BY <1>2 DEF Users!Waiting, Users!Members, Waiting, Members, userMbox
  <2>2. q \notin userReady
    BY <2>1, Ids DEF Inv, Users!UserInv, Users!IInv, Users!TypeInv, Users!QueuesOK
  <2>3. userPc[q] # "user"
    BY <1>1, <2>2 DEF userReady
  <2> QED BY <1>1, <1>2, <2>3, LabelSides DEF userPc, semPc
<1>3. CASE b \notin UserBoxes
  <2>1. q \in Sems!Waiting(b)
    BY <1>3 DEF Sems!Waiting, Sems!Members, Waiting, Members, semMbox
  <2>2. q \notin semReady
    BY <2>1, Ids DEF Inv, SemInv, Sems!UInv, Sems!MInv, Sems!IInv, Sems!QueuesOK
  <2>3. semPc[q] # "user"
    BY <1>1, <2>2 DEF semReady
  <2> QED BY <1>1, <1>3, <2>3, LabelSides DEF userPc, semPc
<1> QED BY <1>1, <1>2, <1>3

(* The mailboxes of the semaphores are none of the processes'.             *)
LEMMA SemMailboxApart ==
    ASSUME Inv, NEW b, Sems!IsOpen(b)
    PROVE  b \in Boxes /\ b \notin UserBoxes
BY Ids DEF Sems!IsOpen, semMbox

LEMMA SemMailboxesOpen ==
    ASSUME Inv, NEW h \in S!Slots
    PROVE  /\ mutex[h] # EMPTY => Sems!IsOpen(mutex[h])
           /\ blockingMbox[h] # EMPTY => Sems!IsOpen(blockingMbox[h])
<1>1. Sems!MailboxesOwned /\ Sems!CountInv
  BY DEF Inv, SemInv, Sems!UInv, Sems!MInv, Sems!IInv
<1>2. Sems!StaleMutex = {} /\ Sems!StaleBlockingMbox = {}
  BY <1>1 DEF Sems!CountInv, Sems!ProcInv, Sems!StaleMutex, Sems!StaleBlockingMbox,
              Sems!At, Sems!FreeSteps
<1> QED BY <1>1, <1>2, Ids DEF Sems!MailboxesOwned

LEMMA SemMailboxesApart ==
    ASSUME Inv
    PROVE  /\ 0 \notin UserBoxes
           /\ \A h \in S!Slots :
                /\ mutex[h] # EMPTY => mutex[h] \in Boxes /\ mutex[h] \notin UserBoxes
                /\ blockingMbox[h] # EMPTY =>
                        blockingMbox[h] \in Boxes /\ blockingMbox[h] \notin UserBoxes
BY Ids, SemMailboxApart, SemMailboxesOpen
   DEF Inv, SemInv, Sems!UInv, Sems!MInv, Sems!IInv, Sems!MailboxesOwned

(* Every open mailbox is somebody's.                                       *)
LEMMA MailboxOwners ==
    ASSUME Inv, NEW b \in Boxes, mbox[b].open
    PROVE  \/ b \in UserBoxes
           \/ b = 0
           \/ \E h \in S!Slots : b = mutex[h] \/ b = blockingMbox[h]
<1> SUFFICES ASSUME b \notin UserBoxes
             PROVE  b = 0 \/ \E h \in S!Slots : b = mutex[h] \/ b = blockingMbox[h]
  OBVIOUS
<1>1. semMbox[b].open
  BY DEF semMbox
<1> QED BY <1>1, Ids DEF Inv, SemInv, Sems!UInv, Sems!MInv, Sems!CountInv, Sems!OwnedInv,
           Sems!Owned

LEMMA MailboxLeft ==
    ASSUME Inv, RoomEnough
    PROVE  FreeBoxes # {}
<1> SUFFICES ASSUME FreeBoxes = {} PROVE FALSE
  OBVIOUS
<1> DEFINE last == 2 * MAXSEMS + MAXPROC + 1
           T == 0 .. last
           place(b, n) ==
               \/ b = 0 /\ n = 0
               \/ b = 1 /\ n = 1
               \/ \E h \in S!Slots : \/ b = mutex[h] /\ n = 2 * h + 2
                                     \/ b = blockingMbox[h] /\ n = 2 * h + 3
               \/ \E p \in Procs : b = mboxID[p] /\ n = 2 * MAXSEMS + 2 + p
           f == [b \in Boxes |-> CHOOSE n \in T : place(b, n)]
<1>1. /\ MAXSEMS \in Nat \ {0} /\ MAXPROC \in Nat /\ MAXMBOX \in Nat
      /\ MAXMBOX > last + 1
  BY SystemAssumption, MailboxAssumption DEF RoomEnough
<1>2. \A h \in S!Slots : h \in Nat /\ h < MAXSEMS
  BY <1>1 DEF S!Slots
<1>3. \A p \in Procs : p \in Nat /\ p < MAXPROC
  BY <1>1, SystemAssumption
<1>4. \A b \in Boxes : \E n \in T : place(b, n)
  <2> TAKE b \in Boxes
  <2>1. mbox[b].open
    BY DEF FreeBoxes
  <2>2. CASE b = 0 \/ b = 1
    <3>1. 0 \in T /\ 1 \in T
      BY <1>1
    <3>2. place(0, 0) /\ place(1, 1)
      OBVIOUS
    <3> HIDE DEF place, T
    <3> QED BY <2>2, <3>1, <3>2
  <2>3. ASSUME NEW p \in Procs, b = mboxID[p]
        PROVE  \E n \in T : place(b, n)
    <3>1. 2 * MAXSEMS + 2 + p \in T
      BY <1>1, <1>3
    <3>2. place(b, 2 * MAXSEMS + 2 + p)
      BY <2>3
    <3> HIDE DEF place, T
    <3> QED BY <3>1, <3>2
  <2>4. ASSUME NEW h \in S!Slots, b = mutex[h] \/ b = blockingMbox[h]
        PROVE  \E n \in T : place(b, n)
    <3>1. 2 * h + 2 \in T /\ 2 * h + 3 \in T
      BY <1>1, <1>2
    <3>2. place(b, 2 * h + 2) \/ place(b, 2 * h + 3)
      BY <2>4
    <3> HIDE DEF place, T
    <3> QED BY <3>1, <3>2
  <2> QED BY <2>1, <2>2, <2>3, <2>4, MailboxOwners DEF UserBoxes
<1>5. \A b \in Boxes : f[b] \in T /\ place(b, f[b])
  BY <1>4
<1>6. \A b, c \in Boxes : \A n : place(b, n) /\ place(c, n) => b = c
  <2> SUFFICES ASSUME NEW b, NEW c, NEW n, place(b, n), place(c, n) PROVE b = c
    OBVIOUS
  <2> QED BY <1>1, <1>2, <1>3
<1>7. IsFiniteSet(Boxes) /\ Cardinality(Boxes) = MAXMBOX
  BY <1>1, FS_Interval DEF Boxes
<1>8. IsFiniteSet(T) /\ Cardinality(T) = last + 1
  BY <1>1, FS_Interval
<1>9. f \in [Boxes -> T]
  BY <1>5
<1>10. PICK b, c \in Boxes : b # c /\ f[b] = f[c]
  <2>1. Cardinality(T) < Cardinality(Boxes)
    BY <1>1, <1>7, <1>8
  <2> HIDE DEF f, T
  <2>2. \A g \in [Boxes -> T] : \E b, c \in Boxes : b # c /\ g[b] = g[c]
    BY <1>7, <1>8, <2>1, FS_PigeonHole
  <2> QED BY <1>9, <2>2
<1> HIDE DEF f, place
<1> QED BY <1>5, <1>6, <1>10

----------------------------------------------------------------------------
(* An operation of a semaphore is the same operation on the mailboxes of   *)
(* the semaphores, and the processes see nothing of it.                    *)

\* p is in a handler of the semaphores, or calls one, or comes back from it.
SemMove(p) ==
    /\ p \in Procs /\ p \in ready
    /\ pc[p] \in S!Labels /\ pc'[p] \in S!Labels
    /\ pc' = [pc EXCEPT ![p] = pc'[p]]
    /\ mboxID' = mboxID

InSem(p) == SemMove(p) /\ pc[p] # "user" /\ pc'[p] # "user"

LEMMA SemMoveLemma ==
    ASSUME Inv, NEW p, SemMove(p)
    PROVE  /\ UserBoxes' = UserBoxes /\ userPc' = userPc
           /\ semPc[p] = pc[p]
           /\ \A l : pc' = [pc EXCEPT ![p] = l] => semPc' = [semPc EXCEPT ![p] = l]
           /\ UNCHANGED mailboxVars => UNCHANGED <<userMbox, userReady, semMbox, semReady>>
<1> USE DEF SemMove
<1>1. UserBoxes' = UserBoxes
  BY DEF UserBoxes, EMPTY
<1>2. userPc' = userPc
  BY LabelSides DEF Inv, TypeInv, userPc
<1>3. pc \in [Procs -> Labels] /\ semPc[p] = pc[p]
  BY DEF semPc, Inv, TypeInv
<1>4. ASSUME NEW l, pc' = [pc EXCEPT ![p] = l]
      PROVE  semPc' = [semPc EXCEPT ![p] = l]
  <2>1. pc'[p] = l /\ \A q \in Procs \ {p} : pc'[q] = pc[q]
    BY <1>3, <1>4
  <2> QED BY <2>1 DEF semPc
<1>5. ASSUME UNCHANGED mailboxVars
      PROVE  UNCHANGED <<userMbox, userReady, semMbox, semReady>>
  <2>1. \A q \in Procs \ {p} : semPc'[q] = semPc[q]
    BY <1>3 DEF semPc
  <2> QED BY <1>1, <1>2, <1>5, <2>1
          DEF mailboxVars, userMbox, userReady, semMbox, semReady, Boxes
<1> QED BY <1>1, <1>2, <1>3, <1>4, <1>5

LEMMA SemView ==
    ASSUME Inv, NEW p, SemMove(p), NEW b \in Boxes \ UserBoxes
    PROVE  /\ semMbox[b] = mbox[b] /\ Sems!IsOpen(b) = IsOpen(b)
           /\ \A r : mbox' = [mbox EXCEPT ![b] = r] =>
                    semMbox' = [semMbox EXCEPT ![b] = r] /\ userMbox' = userMbox
<1>1. UserBoxes' = UserBoxes
  BY SemMoveLemma
<1>2. mbox \in [Boxes -> Mailbox]
  BY DEF Inv, TypeInv, MailboxTypeOK
<1>3. semMbox[b] = mbox[b]
  BY DEF semMbox
<1>4. ASSUME NEW r, mbox' = [mbox EXCEPT ![b] = r]
      PROVE  semMbox' = [semMbox EXCEPT ![b] = r] /\ userMbox' = userMbox
  <2>1. mbox'[b] = r /\ \A c \in Boxes \ {b} : mbox'[c] = mbox[c]
    BY <1>2, <1>4
  <2>2. Boxes' = Boxes /\ ClosedBox' = ClosedBox
    BY DEF Boxes, ClosedBox
  <2>3. semMbox' = [c \in Boxes |-> IF c \in UserBoxes THEN ClosedBox ELSE mbox'[c]]
    BY <1>1, <2>2 DEF semMbox
  <2>4. userMbox' = [c \in Boxes |-> IF c \in UserBoxes THEN mbox'[c] ELSE ClosedBox]
    BY <1>1, <2>2 DEF userMbox
  <2> QED BY <2>1, <2>3, <2>4 DEF semMbox, userMbox
<1> QED BY <1>3, <1>4, Ids DEF Sems!IsOpen, IsOpen

LEMMA SemReadyView ==
    ASSUME Inv, NEW p, InSem(p)
    PROVE  /\ ready' = ready => UNCHANGED <<semReady, userReady>>
           /\ ready' = ready \ {p} =>
                semReady' = semReady \ {p} /\ userReady' = userReady
           /\ \A b \in Boxes \ UserBoxes : \A q \in Waiting(b) :
                ready' = ready \cup {q} =>
                    semReady' = semReady \cup {q} /\ userReady' = userReady
<1>1. userPc' = userPc /\ semPc' = [semPc EXCEPT ![p] = pc'[p]] /\ p \in Procs
  BY SemMoveLemma DEF InSem, SemMove
<1>2. {q \in Procs : semPc'[q] = "user"} = {q \in Procs : semPc[q] = "user"}
  BY <1>1, SemMoveLemma DEF InSem, semPc
<1>3. p \notin {q \in Procs : semPc[q] = "user"} /\ userPc[p] = "user"
  BY SemMoveLemma, LabelSides DEF InSem, SemMove, userPc
<1> QED BY <1>1, <1>2, <1>3, WaitingSides DEF semReady, userReady

LEMMA SemTakes ==
    ASSUME Inv, NEW p, InSem(p), NEW b \in Boxes \ UserBoxes, HasMessage(b), TakeMessage(b)
    PROVE  Sems!HasMessage(b) /\ Sems!TakeMessage(b) /\ UNCHANGED <<userMbox, userReady>>
<1>1. SemMove(p) /\ semMbox[b] = mbox[b] /\ mbox[b] \in Mailbox
  BY SemView DEF InSem, Inv, TypeInv, MailboxTypeOK
<1>2. Sems!HasMessage(b)
  BY <1>1, Ids DEF Sems!HasMessage, Sems!IsOpen, HasMessage, IsOpen
<1>3. CASE mbox[b].senders # << >>
  <2>1. Head(mbox[b].senders) \in Waiting(b)
    <3>1. mbox[b].senders \in Seq(Procs)
      BY <1>1 DEF Mailbox
    <3> QED BY <1>3, <3>1, TailLemma DEF Waiting
  <2>2. ready' = ready \cup {Head(mbox[b].senders)}
    BY <1>3 DEF TakeMessage
  <2>3. /\ semReady' = semReady \cup {Head(mbox[b].senders)}
        /\ userReady' = userReady
    BY <2>1, <2>2, SemReadyView
  <2>4. mbox' = [mbox EXCEPT ![b].senders = Tail(@)]
    BY <1>3 DEF TakeMessage
  <2> QED BY <1>1, <1>2, <1>3, <2>3, <2>4, SemView DEF Sems!TakeMessage
<1>4. CASE mbox[b].senders = << >>
  <2>1. mbox' = [mbox EXCEPT ![b].used = @ - 1] /\ ready' = ready
    BY <1>4 DEF TakeMessage
  <2>2. UNCHANGED <<semReady, userReady>>
    BY <2>1, SemReadyView
  <2> QED BY <1>1, <1>2, <1>4, <2>1, <2>2, SemView DEF Sems!TakeMessage
<1> QED BY <1>3, <1>4

LEMMA SemStutter ==
    ASSUME Inv, NEW p, SemMove(p), UNCHANGED mailboxVars
    PROVE  UNCHANGED <<userMbox, userReady>> /\ UNCHANGED Sems!mailboxVars
BY SemMoveLemma DEF Sems!mailboxVars

LEMMA SemSend ==
    ASSUME Inv, NEW p, InSem(p), NEW b \in Boxes \ UserBoxes, MboxSend(p, b)
    PROVE  Sems!MboxSend(p, b) /\ UNCHANGED <<userMbox, userReady>>
<1>1. SemMove(p) /\ semMbox[b] = mbox[b] /\ mbox[b] \in Mailbox /\ Sems!IsOpen(b) = IsOpen(b)
  BY SemView DEF InSem, Inv, TypeInv, MailboxTypeOK
<1>2. CASE ~IsOpen(b)
  BY <1>1, <1>2, SemStutter DEF MboxSend, Sems!MboxSend
<1>3. CASE IsOpen(b)
  <2>1. CASE mbox[b].receivers # << >>
    <3>1. Head(mbox[b].receivers) \in Waiting(b)
      <4>1. mbox[b].receivers \in Seq(Procs)
        BY <1>1 DEF Mailbox
      <4> QED BY <2>1, <4>1, TailLemma DEF Waiting
    <3>2. /\ ready' = ready \cup {Head(mbox[b].receivers)}
          /\ mbox' = [mbox EXCEPT ![b].receivers = Tail(@)]
      BY <1>3, <2>1 DEF MboxSend
    <3>3. /\ semReady' = semReady \cup {Head(mbox[b].receivers)}
          /\ userReady' = userReady
      BY <3>1, <3>2, SemReadyView
    <3> QED BY <1>1, <1>3, <2>1, <3>2, <3>3, SemView DEF Sems!MboxSend
  <2>2. CASE mbox[b].receivers = << >> /\ mbox[b].used < mbox[b].slots
    <3>1. ready' = ready /\ mbox' = [mbox EXCEPT ![b].used = @ + 1]
      BY <1>1, <1>3, <2>2 DEF MboxSend, Mailbox
    <3>2. UNCHANGED <<semReady, userReady>>
      BY <3>1, SemReadyView
    <3> QED BY <1>1, <1>3, <2>2, <3>1, <3>2, SemView DEF Sems!MboxSend
  <2>3. CASE mbox[b].receivers = << >> /\ mbox[b].used >= mbox[b].slots
    <3>1. ready' = ready \ {p} /\ mbox' = [mbox EXCEPT ![b].senders = Append(@, p)]
      BY <1>1, <1>3, <2>3 DEF MboxSend, Mailbox
    <3>2. semReady' = semReady \ {p} /\ userReady' = userReady
      BY <3>1, SemReadyView
    <3> QED BY <1>1, <1>3, <2>3, <3>1, <3>2, SemView DEF Sems!MboxSend
  <2> QED BY <1>3, <2>1, <2>2, <2>3 DEF MboxSend
<1> QED BY <1>2, <1>3

LEMMA SemHasMessage ==
    ASSUME Inv, NEW b \in Boxes \ UserBoxes
    PROVE  Sems!HasMessage(b) = HasMessage(b) /\ Sems!IsOpen(b) = IsOpen(b)
BY Ids DEF Sems!HasMessage, Sems!IsOpen, HasMessage, IsOpen, semMbox

LEMMA SemReceive ==
    ASSUME Inv, NEW p, InSem(p), NEW b \in Boxes \ UserBoxes, MboxReceive(p, b)
    PROVE  Sems!MboxReceive(p, b) /\ UNCHANGED <<userMbox, userReady>>
<1>1. SemMove(p) /\ semMbox[b] = mbox[b]
  BY SemView DEF InSem
<1>2. CASE ~IsOpen(b) /\ UNCHANGED mailboxVars
  BY <1>1, <1>2, SemStutter, SemHasMessage DEF Sems!MboxReceive
<1>3. CASE HasMessage(b) /\ TakeMessage(b)
  BY <1>3, SemTakes DEF Sems!MboxReceive
<1>4. CASE IsOpen(b) /\ ~HasMessage(b) /\ ready' = ready \ {p}
           /\ mbox' = [mbox EXCEPT ![b].receivers = Append(@, p)]
  <2>1. semReady' = semReady \ {p} /\ userReady' = userReady
    BY <1>4, SemReadyView
  <2> QED BY <1>1, <1>4, <2>1, SemView, SemHasMessage DEF Sems!MboxReceive
<1> QED BY <1>2, <1>3, <1>4 DEF MboxReceive

LEMMA SemCondReceive ==
    ASSUME Inv, NEW p, InSem(p), NEW b \in Boxes \ UserBoxes, MboxCondReceive(b)
    PROVE  Sems!MboxCondReceive(b) /\ UNCHANGED <<userMbox, userReady>>
BY SemTakes, SemStutter, SemHasMessage DEF MboxCondReceive, Sems!MboxCondReceive, InSem

LEMMA SemMboxCreate ==
    ASSUME Inv, RoomEnough, NEW p, InSem(p), NEW slots, NEW id, MboxCreate(slots, id)
    PROVE  Sems!MboxCreate(slots, id) /\ UNCHANGED <<userMbox, userReady>>
<1>1. /\ id \in FreeBoxes
      /\ mbox' = [mbox EXCEPT ![id] = NewBox(slots)]
      /\ ready' = ready
  BY MailboxLeft DEF MboxCreate
<1>2. id \in Boxes \ UserBoxes /\ ~mbox[id].open
  BY <1>1, UserBoxesOpen DEF FreeBoxes
<1>3. /\ semMbox' = [semMbox EXCEPT ![id] = NewBox(slots)] /\ userMbox' = userMbox
      /\ semMbox[id] = mbox[id]
  BY <1>1, <1>2, SemView DEF InSem
<1>4. UNCHANGED <<semReady, userReady>>
  BY <1>1, SemReadyView
<1>5. Sems!NewBox(slots) = NewBox(slots)
  BY DEF Sems!NewBox, NewBox
<1> QED BY <1>2, <1>3, <1>4, <1>5, Ids DEF Sems!MboxCreate, Sems!FreeBoxes

----------------------------------------------------------------------------
(* A step of a semaphore is one of the semaphores, and the processes see   *)
(* nothing of it.                                                          *)

LEMMA SemNames ==
    /\ Sems!After = S!After
    /\ Sems!LockSteps = S!LockSteps /\ Sems!UnlockSteps = S!UnlockSteps
    /\ Sems!MutexArgSteps = S!MutexArgSteps
    /\ Sems!BlockingArgSteps = S!BlockingArgSteps
    /\ Sems!RetSteps = S!RetSteps
    /\ Sems!isSemAvailable = S!isSemAvailable
    /\ \A h : Sems!doesGivenSemExist(h) = S!doesGivenSemExist(h)
BY DEF Sems!After, S!After, Sems!LockSteps, S!LockSteps, Sems!UnlockSteps, S!UnlockSteps,
       Sems!MutexArgSteps, S!MutexArgSteps, Sems!BlockingArgSteps, S!BlockingArgSteps,
       Sems!RetSteps, S!RetSteps, Sems!isSemAvailable, S!isSemAvailable,
       Sems!doesGivenSemExist, S!doesGivenSemExist, Sems!EMPTY, S!EMPTY

LEMMA StepLabels ==
    /\ S!LockSteps \cup S!UnlockSteps \cup S!MutexArgSteps \cup S!BlockingArgSteps
        \cup S!RetSteps \subseteq S!Steps
    /\ S!Steps \subseteq S!Labels \ {"user"}
    /\ {"user", "quit", "undefined"} \subseteq S!Labels
    /\ \A l \in S!LockSteps \cup S!UnlockSteps \cup S!MutexArgSteps \cup S!BlockingArgSteps :
            S!After[l] \in S!Steps
BY DEF S!LockSteps, S!UnlockSteps, S!MutexArgSteps, S!BlockingArgSteps, S!RetSteps,
       S!Steps, S!CreateSteps, S!PSteps, S!VSteps, S!FreeSteps, S!Labels, S!After

LEMMA SemBoxes ==
    ASSUME Inv, NEW p \in Procs, pc[p] \in S!Labels
    PROVE  /\ pc[p] \notin S!FreeSteps
           /\ pc[p] \in S!LockSteps \cup S!UnlockSteps \cup {"p_block", "v_wake"} =>
                box[p] \in Boxes \ UserBoxes
<1>1. semPc[p] = pc[p]
  BY DEF semPc
<1>2. Sems!ProcInv(p) /\ \A h \in S!Slots : Sems!SlotInv(h)
  BY Ids DEF Inv, SemInv, Sems!UInv, Sems!MInv, Sems!CountInv
<1>3. pc[p] \notin S!FreeSteps
  BY <1>1, <1>2 DEF Sems!ProcInv, S!FreeSteps, Sems!FreeSteps
<1>4. CASE pc[p] \in TableSide
  BY <1>3, <1>4, Ids, SemMailboxesApart DEF Inv, TypeInv, SemTypes
<1>5. CASE pc[p] \in S!PSteps \cup S!VSteps
  <2>1. sem[p] \in known /\ known \subseteq S!Slots
    BY <1>1, <1>2, <1>5, Ids
       DEF Sems!ProcInv, S!PSteps, S!VSteps, Sems!PSteps, Sems!VSteps,
           Inv, SemInv, Sems!UInv, Sems!MInv, Sems!IInv, Sems!TypeOK
  <2>2. mutex[sem[p]] # EMPTY /\ blockingMbox[sem[p]] # EMPTY
    BY <1>2, <2>1, Ids DEF Sems!SlotInv
  <2>3. /\ mutex[sem[p]] \in Boxes \ UserBoxes
        /\ blockingMbox[sem[p]] \in Boxes \ UserBoxes
    BY <2>1, <2>2, SemMailboxesApart
  <2>4. /\ pc[p] \in Sems!OnMutexSteps => box[p] = mutex[sem[p]]
        /\ pc[p] \in Sems!OnBlockingSteps => box[p] = blockingMbox[sem[p]]
    BY <1>1, <1>2 DEF Sems!ProcInv
  <2> QED BY <1>3, <1>5, <2>3, <2>4
          DEF Sems!OnMutexSteps, Sems!OnBlockingSteps, S!LockSteps, S!UnlockSteps,
              S!PSteps, S!VSteps
<1> QED BY <1>3, <1>4, <1>5
        DEF TableSide, S!TableSteps, S!LockSteps, S!UnlockSteps, S!PSteps, S!VSteps

LEMMA UsersStay ==
    ASSUME Inv, NEW p, SemMove(p), UNCHANGED <<userMbox, userReady>>,
           UNCHANGED procVars, zapped' = zapped
    PROVE  UNCHANGED Users!vars
BY SemMoveLemma
   DEF procVars, Users!vars, Users!mailboxVars, Users!kernelVars, Users!tableVars,
       Users!localVars

LEMMA SemAt ==
    ASSUME Inv, NEW p \in Procs, NEW l \in S!Labels
    PROVE  S!At(p, l) => Sems!At(p, l) /\ pc[p] = l /\ p \in ready
BY DEF S!At, Sems!At, semPc, semReady

LEMMA SemGoto ==
    ASSUME Inv, NEW p \in Procs, p \in ready, pc[p] \in S!Labels, NEW l \in S!Labels,
           S!Goto(p, l), UNCHANGED procVars
    PROVE  /\ Sems!Goto(p, l)
           /\ pc'[p] = l /\ semPc'[p] = l
           /\ SemMove(p)
           /\ pc[p] # "user" /\ l # "user" => InSem(p)
<1>1. pc' = [pc EXCEPT ![p] = l] /\ pc'[p] = l /\ mboxID' = mboxID
  BY DEF S!Goto, procVars, Inv, TypeInv
<1>2. SemMove(p)
  BY <1>1 DEF SemMove
<1>3. semPc' = [semPc EXCEPT ![p] = l]
  BY <1>1, <1>2, SemMoveLemma
<1>4. semPc'[p] = l
  BY <1>3 DEF semPc
<1> QED BY <1>1, <1>2, <1>3, <1>4 DEF Sems!Goto, InSem

LEMMA SemsLock ==
    ASSUME Inv, NEW p \in Procs, S!Lock(p), UNCHANGED procVars
    PROVE  Sems!Lock(p) /\ UNCHANGED Users!vars
<1>1. PICK l \in S!LockSteps :
        /\ S!At(p, l)
        /\ S!MboxSend(p, box[p])
        /\ S!Goto(p, S!After[l])
        /\ UNCHANGED <<S!tableVars, sem, box, val, zapped, S!seenVars>>
  BY DEF S!Lock
<1>2. l \in S!Labels \ {"user"} /\ S!After[l] \in S!Labels \ {"user"}
  BY StepLabels
<1>3. Sems!At(p, l) /\ pc[p] = l /\ p \in ready
  BY <1>1, <1>2, SemAt
<1>4. Sems!Goto(p, S!After[l]) /\ InSem(p) /\ SemMove(p)
  BY <1>1, <1>2, <1>3, SemGoto
<1>5. box[p] \in Boxes \ UserBoxes /\ MboxSend(p, box[p])
  BY <1>1, <1>2, <1>3, SemBoxes, SameSend
<1>6. Sems!MboxSend(p, box[p]) /\ UNCHANGED <<userMbox, userReady>>
  BY <1>4, <1>5, SemSend
<1> QED BY <1>1, <1>3, <1>4, <1>6, SemNames, UsersStay
        DEF Sems!Lock, S!tableVars, S!seenVars, Sems!tableVars, Sems!seenVars

LEMMA SemsUnlock ==
    ASSUME Inv, NEW p \in Procs, S!Unlock(p), UNCHANGED procVars
    PROVE  Sems!Unlock(p) /\ UNCHANGED Users!vars
<1>1. PICK l \in S!UnlockSteps :
        /\ S!At(p, l)
        /\ S!MboxReceive(p, box[p])
        /\ S!Goto(p, S!After[l])
        /\ UNCHANGED <<S!tableVars, sem, box, val, zapped, S!seenVars>>
  BY DEF S!Unlock
<1>2. l \in S!Labels \ {"user"} /\ S!After[l] \in S!Labels \ {"user"}
  BY StepLabels
<1>3. Sems!At(p, l) /\ pc[p] = l /\ p \in ready
  BY <1>1, <1>2, SemAt
<1>4. Sems!Goto(p, S!After[l]) /\ InSem(p) /\ SemMove(p)
  BY <1>1, <1>2, <1>3, SemGoto
<1>5. box[p] \in Boxes \ UserBoxes /\ MboxReceive(p, box[p])
  BY <1>1, <1>2, <1>3, SemBoxes, SameReceive
<1>6. Sems!MboxReceive(p, box[p]) /\ UNCHANGED <<userMbox, userReady>>
  BY <1>4, <1>5, SemReceive
<1> QED BY <1>1, <1>3, <1>4, <1>6, SemNames, UsersStay
        DEF Sems!Unlock, S!tableVars, S!seenVars, Sems!tableVars, Sems!seenVars

(* Steps that do not touch a mailbox.                                      *)
LEMMA SemsReads ==
    ASSUME Inv, NEW p \in Procs, S!ReadMutex(p) \/ S!ReadBlockingMbox(p),
           UNCHANGED procVars
    PROVE  (Sems!ReadMutex(p) \/ Sems!ReadBlockingMbox(p)) /\ UNCHANGED Users!vars
<1>1. PICK l \in S!MutexArgSteps \cup S!BlockingArgSteps :
        /\ S!At(p, l)
        /\ S!Goto(p, S!After[l])
        /\ UNCHANGED <<S!mailboxVars, zapped>>
  BY DEF S!ReadMutex, S!ReadBlockingMbox
<1>2. l \in S!Labels \ {"user"} /\ S!After[l] \in S!Labels \ {"user"}
  BY StepLabels
<1>3. pc[p] = l /\ p \in ready
  BY <1>1, <1>2, SemAt
<1>4. SemMove(p) /\ \A k \in S!Labels : S!Goto(p, k) => Sems!Goto(p, k)
  BY <1>1, <1>2, <1>3, SemGoto
<1>5. UNCHANGED <<userMbox, userReady>> /\ UNCHANGED Sems!mailboxVars
  BY <1>1, <1>4, SemStutter DEF S!mailboxVars, mailboxVars
<1>6. UNCHANGED Users!vars
  BY <1>1, <1>4, <1>5, UsersStay
<1>7. CASE S!ReadMutex(p)
  <2>1. PICK k \in S!MutexArgSteps :
          /\ S!At(p, k)
          /\ box' = [box EXCEPT ![p] = mutex[sem[p]]]
          /\ S!Goto(p, S!After[k])
          /\ UNCHANGED <<S!tableVars, sem, val, zapped, S!seenVars>>
    BY <1>7 DEF S!ReadMutex
  <2>2. Sems!At(p, k) /\ Sems!Goto(p, S!After[k])
    BY <1>4, <2>1, StepLabels, SemAt
  <2> QED BY <1>5, <1>6, <2>1, <2>2, SemNames
          DEF Sems!ReadMutex, S!tableVars, S!seenVars, Sems!tableVars, Sems!seenVars
<1>8. CASE S!ReadBlockingMbox(p)
  <2>1. PICK k \in S!BlockingArgSteps :
          /\ S!At(p, k)
          /\ box' = [box EXCEPT ![p] = blockingMbox[sem[p]]]
          /\ S!Goto(p, S!After[k])
          /\ UNCHANGED <<S!tableVars, sem, val, zapped, S!seenVars>>
    BY <1>8 DEF S!ReadBlockingMbox
  <2>2. Sems!At(p, k) /\ Sems!Goto(p, S!After[k])
    BY <1>4, <2>1, StepLabels, SemAt
  <2> QED BY <1>5, <1>6, <2>1, <2>2, SemNames
          DEF Sems!ReadBlockingMbox, S!tableVars, S!seenVars, Sems!tableVars, Sems!seenVars
<1> QED BY <1>7, <1>8

(* A step from l to one of the labels in to, without an operation on a     *)
(* mailbox.                                                                *)
SemLocal(p, l, to) ==
    /\ S!At(p, l)
    /\ \E k \in to : S!Goto(p, k)
    /\ UNCHANGED mailboxVars /\ zapped' = zapped /\ UNCHANGED procVars

LEMMA SemsLocal ==
    ASSUME Inv, NEW p \in Procs, NEW l \in S!Labels, NEW to \in SUBSET S!Labels,
           SemLocal(p, l, to)
    PROVE  /\ Sems!At(p, l) /\ p \in ready /\ pc[p] = l
           /\ \A k \in S!Labels : S!Goto(p, k) => Sems!Goto(p, k)
           /\ SemMove(p) /\ semPc'[p] = pc'[p]
           /\ UNCHANGED Sems!mailboxVars /\ UNCHANGED Users!vars
<1>1. Sems!At(p, l) /\ pc[p] = l /\ p \in ready
  BY SemAt DEF SemLocal
<1>2. /\ SemMove(p) /\ semPc'[p] = pc'[p]
      /\ \A k \in S!Labels : S!Goto(p, k) => Sems!Goto(p, k)
  BY <1>1, SemGoto DEF SemLocal
<1>3. UNCHANGED <<userMbox, userReady>> /\ UNCHANGED Sems!mailboxVars
  BY <1>2, SemStutter DEF SemLocal
<1> QED BY <1>1, <1>2, <1>3, UsersStay DEF SemLocal

LEMMA SemsCreateSteps ==
    ASSUME Inv, NEW p \in Procs, UNCHANGED procVars
    PROVE  /\ S!getAvailableSemHandle(p) =>
                Sems!getAvailableSemHandle(p) /\ UNCHANGED Users!vars
           /\ S!initSemCount(p) => Sems!initSemCount(p) /\ UNCHANGED Users!vars
           /\ S!semCreateCount(p) => Sems!semCreateCount(p) /\ UNCHANGED Users!vars
<1>0. /\ {"c_slot", "c_count", "c_mutex", "c_num", "c_unlock", "undefined"} \subseteq S!Labels
      /\ Sems!Slots = S!Slots /\ Sems!EMPTY = S!EMPTY
  BY Ids DEF S!Labels, S!Steps, S!CreateSteps
<1> USE DEF S!tableVars, S!seenVars, Sems!tableVars, Sems!seenVars
<1>1. ASSUME S!getAvailableSemHandle(p)
      PROVE  Sems!getAvailableSemHandle(p) /\ UNCHANGED Users!vars
  <2>1. SemLocal(p, "c_slot", {"c_count", "undefined"})
    BY <1>1 DEF S!getAvailableSemHandle, SemLocal, S!mailboxVars, mailboxVars
  <2>2. /\ Sems!At(p, "c_slot")
        /\ \A k \in S!Labels : S!Goto(p, k) => Sems!Goto(p, k)
        /\ UNCHANGED Sems!mailboxVars /\ UNCHANGED Users!vars
    BY <1>0, <2>1, SemsLocal
  <2> QED BY <1>0, <1>1, <2>2 DEF S!getAvailableSemHandle, Sems!getAvailableSemHandle
<1>2. ASSUME S!initSemCount(p)
      PROVE  Sems!initSemCount(p) /\ UNCHANGED Users!vars
  <2>1. SemLocal(p, "c_count", {"c_mutex"})
    BY <1>2 DEF S!initSemCount, SemLocal, S!mailboxVars, mailboxVars
  <2>2. /\ Sems!At(p, "c_count")
        /\ \A k \in S!Labels : S!Goto(p, k) => Sems!Goto(p, k)
        /\ UNCHANGED Sems!mailboxVars /\ UNCHANGED Users!vars
    BY <1>0, <2>1, SemsLocal
  <2> QED BY <1>0, <1>2, <2>2 DEF S!initSemCount, Sems!initSemCount
<1>3. ASSUME S!semCreateCount(p)
      PROVE  Sems!semCreateCount(p) /\ UNCHANGED Users!vars
  <2>1. SemLocal(p, "c_num", {"c_unlock"})
    BY <1>3 DEF S!semCreateCount, SemLocal, S!mailboxVars, mailboxVars
  <2>2. /\ Sems!At(p, "c_num")
        /\ \A k \in S!Labels : S!Goto(p, k) => Sems!Goto(p, k)
        /\ UNCHANGED Sems!mailboxVars /\ UNCHANGED Users!vars
    BY <1>0, <2>1, SemsLocal
  <2> QED BY <1>0, <1>3, <2>2 DEF S!semCreateCount, Sems!semCreateCount
<1> QED BY <1>1, <1>2, <1>3

LEMMA SemsMakes ==
    ASSUME Inv, RoomEnough, NEW p \in Procs, UNCHANGED procVars
    PROVE  /\ S!initSemMutex(p) => Sems!initSemMutex(p) /\ UNCHANGED Users!vars
           /\ S!initSemBlocking(p) => Sems!initSemBlocking(p) /\ UNCHANGED Users!vars
<1>0. {"c_mutex", "c_block", "c_num"} \subseteq S!Labels \ {"user"}
  BY DEF S!Labels, S!Steps, S!CreateSteps
<1> USE DEF S!tableVars, S!seenVars, Sems!tableVars, Sems!seenVars
<1>1. ASSUME S!initSemMutex(p)
      PROVE  Sems!initSemMutex(p) /\ UNCHANGED Users!vars
  <2>1. PICK id \in S!Boxes \cup {S!EMPTY} :
          S!MboxCreate(1, id) /\ mutex' = [mutex EXCEPT ![sem[p]] = id]
    BY <1>1 DEF S!initSemMutex
  <2>2. Sems!At(p, "c_mutex") /\ pc[p] = "c_mutex" /\ p \in ready
    BY <1>0, <1>1, SemAt DEF S!initSemMutex
  <2>3. Sems!Goto(p, "c_block") /\ InSem(p) /\ SemMove(p)
    BY <1>0, <1>1, <2>2, SemGoto DEF S!initSemMutex
  <2>4. Sems!MboxCreate(1, id) /\ UNCHANGED <<userMbox, userReady>>
    BY <2>1, <2>3, SemMboxCreate, SameCreate
  <2>5. id \in Sems!Boxes \cup {Sems!EMPTY}
    BY <2>1, Ids, SameTables
  <2>6. UNCHANGED Users!vars
    BY <1>1, <2>3, <2>4, UsersStay DEF S!initSemMutex
  <2> QED BY <1>1, <2>1, <2>2, <2>3, <2>4, <2>5, <2>6 DEF S!initSemMutex, Sems!initSemMutex
<1>2. ASSUME S!initSemBlocking(p)
      PROVE  Sems!initSemBlocking(p) /\ UNCHANGED Users!vars
  <2>1. PICK id \in S!Boxes \cup {S!EMPTY} :
          S!MboxCreate(0, id) /\ blockingMbox' = [blockingMbox EXCEPT ![sem[p]] = id]
    BY <1>2 DEF S!initSemBlocking
  <2>2. Sems!At(p, "c_block") /\ pc[p] = "c_block" /\ p \in ready
    BY <1>0, <1>2, SemAt DEF S!initSemBlocking
  <2>3. Sems!Goto(p, "c_num") /\ InSem(p) /\ SemMove(p)
    BY <1>0, <1>2, <2>2, SemGoto DEF S!initSemBlocking
  <2>4. Sems!MboxCreate(0, id) /\ UNCHANGED <<userMbox, userReady>>
    BY <2>1, <2>3, SemMboxCreate, SameCreate
  <2>5. id \in Sems!Boxes \cup {Sems!EMPTY}
    BY <2>1, Ids, SameTables
  <2>6. UNCHANGED Users!vars
    BY <1>2, <2>3, <2>4, UsersStay DEF S!initSemBlocking
  <2> QED BY <1>2, <2>1, <2>2, <2>3, <2>4, <2>5, <2>6
          DEF S!initSemBlocking, Sems!initSemBlocking
<1> QED BY <1>1, <1>2

LEMMA SemsPSteps ==
    ASSUME Inv, NEW p \in Procs, UNCHANGED procVars
    PROVE  /\ S!semPTest(p) => Sems!semPTest(p) /\ UNCHANGED Users!vars
           /\ S!semPDecrement(p) => Sems!semPDecrement(p) /\ UNCHANGED Users!vars
           /\ S!semPBlock(p) => Sems!semPBlock(p) /\ UNCHANGED Users!vars
           /\ S!semPCheck(p) => Sems!semPCheck(p) /\ UNCHANGED Users!vars
<1>0. /\ {"p_test", "p_dec", "p_arg2", "p_arg3", "p_block", "p_check", "p_ret"}
            \subseteq S!Labels \ {"user"}
      /\ "quit" \in S!Labels /\ Sems!EMPTY = S!EMPTY
  BY Ids DEF S!Labels, S!Steps, S!PSteps
<1> USE DEF S!tableVars, S!seenVars, Sems!tableVars, Sems!seenVars
<1>1. ASSUME S!semPTest(p)
      PROVE  Sems!semPTest(p) /\ UNCHANGED Users!vars
  <2>1. SemLocal(p, "p_test", {"p_dec", "p_arg3"})
    BY <1>1 DEF S!semPTest, SemLocal, S!mailboxVars, mailboxVars
  <2>2. /\ Sems!At(p, "p_test")
        /\ \A k \in S!Labels : S!Goto(p, k) => Sems!Goto(p, k)
        /\ UNCHANGED Sems!mailboxVars /\ UNCHANGED Users!vars
    BY <1>0, <2>1, SemsLocal
  <2> QED BY <1>0, <1>1, <2>2 DEF S!semPTest, Sems!semPTest
<1>2. ASSUME S!semPDecrement(p)
      PROVE  Sems!semPDecrement(p) /\ UNCHANGED Users!vars
  <2>1. SemLocal(p, "p_dec", {"p_arg2"})
    BY <1>2 DEF S!semPDecrement, SemLocal, S!mailboxVars, mailboxVars
  <2>2. /\ Sems!At(p, "p_dec")
        /\ \A k \in S!Labels : S!Goto(p, k) => Sems!Goto(p, k)
        /\ UNCHANGED Sems!mailboxVars /\ UNCHANGED Users!vars
    BY <1>0, <2>1, SemsLocal
  <2> QED BY <1>0, <1>2, <2>2 DEF S!semPDecrement, Sems!semPDecrement
<1>3. ASSUME S!semPBlock(p)
      PROVE  Sems!semPBlock(p) /\ UNCHANGED Users!vars
  <2>1. Sems!At(p, "p_block") /\ pc[p] = "p_block" /\ p \in ready
    BY <1>0, <1>3, SemAt DEF S!semPBlock
  <2>2. Sems!Goto(p, "p_check") /\ InSem(p) /\ SemMove(p)
    BY <1>0, <1>3, <2>1, SemGoto DEF S!semPBlock
  <2>3. box[p] \in Boxes \ UserBoxes /\ MboxSend(p, box[p])
    BY <1>0, <1>3, <2>1, SemBoxes, SameSend DEF S!semPBlock
  <2>4. Sems!MboxSend(p, box[p]) /\ UNCHANGED <<userMbox, userReady>>
    BY <2>2, <2>3, SemSend
  <2>5. UNCHANGED Users!vars
    BY <1>3, <2>2, <2>4, UsersStay DEF S!semPBlock
  <2> QED BY <1>3, <2>1, <2>2, <2>4, <2>5 DEF S!semPBlock, Sems!semPBlock
<1>4. ASSUME S!semPCheck(p)
      PROVE  Sems!semPCheck(p) /\ UNCHANGED Users!vars
  <2>1. SemLocal(p, "p_check", {"p_ret", "quit"})
    BY <1>4 DEF S!semPCheck, SemLocal, S!mailboxVars, mailboxVars
  <2>2. /\ Sems!At(p, "p_check")
        /\ \A k \in S!Labels : S!Goto(p, k) => Sems!Goto(p, k)
        /\ UNCHANGED Sems!mailboxVars /\ UNCHANGED Users!vars
    BY <1>0, <2>1, SemsLocal
  <2> QED BY <1>0, <1>4, <2>2 DEF S!semPCheck, Sems!semPCheck
<1> QED BY <1>1, <1>2, <1>3, <1>4

LEMMA SemsVSteps ==
    ASSUME Inv, NEW p \in Procs, UNCHANGED procVars
    PROVE  /\ S!semVTest(p) => Sems!semVTest(p) /\ UNCHANGED Users!vars
           /\ S!semVWake(p) => Sems!semVWake(p) /\ UNCHANGED Users!vars
           /\ S!semVIncrement(p) => Sems!semVIncrement(p) /\ UNCHANGED Users!vars
<1>0. {"v_test", "v_arg2", "v_wake", "v_inc", "v_arg3"} \subseteq S!Labels \ {"user"}
  BY DEF S!Labels, S!Steps, S!VSteps
<1> USE DEF S!tableVars, S!seenVars, Sems!tableVars, Sems!seenVars
<1>1. ASSUME S!semVTest(p)
      PROVE  Sems!semVTest(p) /\ UNCHANGED Users!vars
  <2>1. SemLocal(p, "v_test", {"v_arg2", "v_inc"})
    BY <1>1 DEF S!semVTest, SemLocal, S!mailboxVars, mailboxVars
  <2>2. /\ Sems!At(p, "v_test")
        /\ \A k \in S!Labels : S!Goto(p, k) => Sems!Goto(p, k)
        /\ UNCHANGED Sems!mailboxVars /\ UNCHANGED Users!vars
    BY <1>0, <2>1, SemsLocal
  <2> QED BY <1>0, <1>1, <2>2 DEF S!semVTest, Sems!semVTest
<1>2. ASSUME S!semVWake(p)
      PROVE  Sems!semVWake(p) /\ UNCHANGED Users!vars
  <2>1. Sems!At(p, "v_wake") /\ pc[p] = "v_wake" /\ p \in ready
    BY <1>0, <1>2, SemAt DEF S!semVWake
  <2>2. PICK l \in {"v_inc", "v_arg3"} :
          S!Goto(p, l) /\ l = IF S!ReceiveStatus(p, box[p]) = 1 THEN "v_inc" ELSE "v_arg3"
    BY <1>2 DEF S!semVWake
  <2>3. Sems!Goto(p, l) /\ InSem(p) /\ SemMove(p)
    BY <1>0, <2>1, <2>2, SemGoto
  <2>4. box[p] \in Boxes \ UserBoxes /\ MboxCondReceive(box[p])
    BY <1>0, <1>2, <2>1, SemBoxes, SameReceive DEF S!semVWake
  <2>5. Sems!MboxCondReceive(box[p]) /\ UNCHANGED <<userMbox, userReady>>
    BY <2>3, <2>4, SemCondReceive
  <2>6. UNCHANGED Users!vars
    BY <1>2, <2>3, <2>5, UsersStay DEF S!semVWake
  <2>7. Sems!ReceiveStatus(p, box[p]) = S!ReceiveStatus(p, box[p])
    <3>1. S!IsOpen(box[p]) = IsOpen(box[p]) /\ S!HasMessage(box[p]) = HasMessage(box[p])
      BY DEF S!IsOpen, IsOpen, S!HasMessage, HasMessage, S!Boxes, Boxes
    <3> QED BY <2>4, <3>1, SemHasMessage DEF Sems!ReceiveStatus, S!ReceiveStatus
  <2> QED BY <1>2, <2>1, <2>2, <2>3, <2>5, <2>6, <2>7 DEF S!semVWake, Sems!semVWake
<1>3. ASSUME S!semVIncrement(p)
      PROVE  Sems!semVIncrement(p) /\ UNCHANGED Users!vars
  <2>1. SemLocal(p, "v_inc", {"v_arg3"})
    BY <1>3 DEF S!semVIncrement, SemLocal, S!mailboxVars, mailboxVars
  <2>2. /\ Sems!At(p, "v_inc")
        /\ \A k \in S!Labels : S!Goto(p, k) => Sems!Goto(p, k)
        /\ UNCHANGED Sems!mailboxVars /\ UNCHANGED Users!vars
    BY <1>0, <2>1, SemsLocal
  <2> QED BY <1>0, <1>3, <2>2 DEF S!semVIncrement, Sems!semVIncrement
<1> QED BY <1>1, <1>2, <1>3

LEMMA SemsReturn ==
    ASSUME Inv, NEW p \in Procs, S!Return(p), UNCHANGED procVars
    PROVE  Sems!Return(p) /\ UNCHANGED Users!vars
<1>1. PICK l \in S!RetSteps :
        /\ S!At(p, l)
        /\ S!Goto(p, IF p \in zapped THEN "quit" ELSE "user")
        /\ known' = IF l = "c_ret" /\ p \notin zapped
                    THEN known \cup {sem[p]} ELSE known
        /\ sem' = [sem EXCEPT ![p] = S!EMPTY]
        /\ box' = [box EXCEPT ![p] = S!EMPTY]
        /\ val' = [val EXCEPT ![p] = 0]
        /\ UNCHANGED <<S!mailboxVars, S!tableVars, zapped, units, tableCalls>>
  BY DEF S!Return
<1>2. l \in S!Labels /\ {"quit", "user"} \subseteq S!Labels
  BY StepLabels
<1>3. SemLocal(p, l, {"quit", "user"})
  BY <1>1 DEF SemLocal, S!mailboxVars, mailboxVars
<1>4. /\ Sems!At(p, l)
      /\ \A k \in S!Labels : S!Goto(p, k) => Sems!Goto(p, k)
      /\ UNCHANGED Sems!mailboxVars /\ UNCHANGED Users!vars
  BY <1>2, <1>3, SemsLocal
<1>5. Sems!Goto(p, IF p \in zapped THEN "quit" ELSE "user")
  BY <1>1, <1>2, <1>4
<1> QED BY <1>1, <1>4, <1>5, SemNames, Ids DEF Sems!Return, S!tableVars, Sems!tableVars

LEMMA SemsStep ==
    ASSUME Inv, RoomEnough, NEW p \in Procs,
           SemStep(p) \/ SemReturn(p) \/ SemPCheck(p)
    PROVE  Sems!Next /\ UNCHANGED Users!vars
<1>1. UNCHANGED procVars
  BY DEF SemStep, SemReturn, SemPCheck
<1>2. /\ ~S!freeSemCount(p) /\ ~S!freeSemMutex(p) /\ ~S!freeSemMutexId(p)
      /\ ~S!freeSemProbe(p) /\ ~S!freeSemBlocking(p) /\ ~S!freeSemBlockingId(p)
      /\ ~S!semFreeCount(p)
  <2>1. {"f_count", "f_mutex", "f_nomutex", "f_probe", "f_block", "f_noblock", "f_num"}
            \subseteq S!FreeSteps \cap S!Labels
    BY DEF S!FreeSteps, S!Labels, S!Steps
  <2>2. pc[p] \notin {"f_count", "f_mutex", "f_nomutex", "f_probe", "f_block",
                     "f_noblock", "f_num"}
    BY <2>1, SemBoxes
  <2> QED BY <2>2 DEF S!freeSemCount, S!freeSemMutex, S!freeSemMutexId, S!freeSemProbe,
             S!freeSemBlocking, S!freeSemBlockingId, S!semFreeCount, S!At
<1>3. Sems!HandlerStep(p) /\ UNCHANGED Users!vars
  BY <1>1, <1>2, SemsLock, SemsUnlock, SemsReads, SemsCreateSteps, SemsMakes, SemsPSteps,
     SemsVSteps, SemsReturn DEF SemStep, SemReturn, SemPCheck, Sems!HandlerStep
<1> QED BY <1>3 DEF Sems!Next

(* The calls of a program.                                                 *)
LEMMA SemCallMove ==
    ASSUME Inv, NEW p \in Procs, S!At(p, "user"), NEW l \in S!Labels,
           S!Goto(p, l) \/ pc' = pc, UNCHANGED mailboxVars, zapped' = zapped,
           UNCHANGED procVars
    PROVE  /\ Sems!At(p, "user") /\ UNCHANGED Sems!mailboxVars /\ UNCHANGED Users!vars
           /\ semPc'[p] = pc'[p]
           /\ \A k \in S!Labels : S!Goto(p, k) => Sems!Goto(p, k)
           /\ pc' = pc => semPc' = semPc
<1>1. Sems!At(p, "user") /\ pc[p] = "user" /\ p \in ready /\ "user" \in S!Labels
  BY SemAt, StepLabels
<1>2. SemMove(p) /\ semPc'[p] = pc'[p]
  <2>1. CASE pc' = pc
    <3>1. SemMove(p)
      BY <1>1, <2>1 DEF SemMove, procVars, Inv, TypeInv
    <3> QED BY <1>1, <2>1, <3>1 DEF semPc
  <2>2. CASE S!Goto(p, l)
    BY <1>1, <2>2, SemGoto
  <2> QED BY <2>1, <2>2
<1>3. UNCHANGED <<userMbox, userReady>> /\ UNCHANGED Sems!mailboxVars
  BY <1>2, SemStutter
<1>4. UNCHANGED Users!vars
  BY <1>2, <1>3, UsersStay
<1>5. \A k \in S!Labels : S!Goto(p, k) => Sems!Goto(p, k)
  BY <1>1, SemGoto
<1>6. pc' = pc => semPc' = semPc
  BY DEF semPc
<1> QED BY <1>1, <1>2, <1>3, <1>4, <1>5, <1>6

LEMMA SemCreateCall ==
    ASSUME Inv, NEW p \in Procs, NEW v \in Int, S!semCreate(p, v), UNCHANGED procVars
    PROVE  Sems!semCreate(p, v) /\ UNCHANGED Users!vars
<1>1. "c_lock" \in S!Labels
  BY DEF S!Labels, S!Steps, S!CreateSteps
<1>2. /\ Sems!At(p, "user") /\ UNCHANGED Sems!mailboxVars /\ UNCHANGED Users!vars
      /\ S!Goto(p, "c_lock") => Sems!Goto(p, "c_lock")
      /\ pc' = pc => semPc' = semPc
  <2>1. /\ S!At(p, "user") /\ zapped' = zapped /\ UNCHANGED mailboxVars
        /\ S!Goto(p, "c_lock") \/ pc' = pc
    BY DEF S!semCreate, S!mailboxVars, mailboxVars
  <2> QED BY <1>1, <2>1, SemCallMove
<1> QED BY <1>2, SemNames, Ids DEF S!semCreate, Sems!semCreate, S!tableVars, Sems!tableVars

LEMMA EnterCall ==
    ASSUME Inv, NEW p \in Procs, NEW call \in {"SemP", "SemV"}, NEW h \in known,
           NEW first \in S!Labels, S!EnterHandler(p, call, h, first), UNCHANGED procVars
    PROVE  /\ Sems!EnterHandler(p, call, h, first) /\ UNCHANGED Users!vars
           /\ semPc'[p] = pc'[p]
<1>1. PICK exists \in S!doesGivenSemExist(h) :
        IF exists
        THEN /\ S!Goto(p, IF h \in S!Slots THEN first ELSE "undefined")
             /\ sem' = [sem EXCEPT ![p] = IF h \in S!Slots THEN h ELSE S!EMPTY]
        ELSE UNCHANGED <<pc, sem>>
  BY DEF S!EnterHandler
<1>2. PICK l \in S!Labels : l = IF h \in S!Slots THEN first ELSE "undefined"
  BY StepLabels
<1>3. /\ Sems!At(p, "user") /\ UNCHANGED Sems!mailboxVars /\ UNCHANGED Users!vars
      /\ S!Goto(p, l) => Sems!Goto(p, l)
      /\ semPc'[p] = pc'[p]
      /\ pc' = pc => semPc' = semPc
  <2>1. /\ S!At(p, "user") /\ zapped' = zapped /\ UNCHANGED mailboxVars
        /\ S!Goto(p, l) \/ pc' = pc
    BY <1>1, <1>2 DEF S!EnterHandler, S!mailboxVars, mailboxVars
  <2> QED BY <2>1, SemCallMove
<1>4. IF exists
      THEN /\ Sems!Goto(p, IF h \in Sems!Slots THEN first ELSE "undefined")
           /\ sem' = [sem EXCEPT ![p] = IF h \in Sems!Slots THEN h ELSE Sems!EMPTY]
      ELSE UNCHANGED <<semPc, sem>>
  BY <1>1, <1>2, <1>3, Ids
<1>5. exists \in Sems!doesGivenSemExist(h)
  BY SemNames
<1> QED BY <1>3, <1>4, <1>5 DEF S!EnterHandler, Sems!EnterHandler, S!tableVars, Sems!tableVars

LEMMA SemsCall ==
    ASSUME Inv, WellBehaved, NEW p \in Procs,
           semCreate(p) \/ semP(p) \/ semV(p) \/ semFree(p)
    PROVE  Sems!Next /\ UNCHANGED Users!vars
<1>1. /\ P!At(p, "user") /\ UNCHANGED procVars
      /\ \/ semCreate(p) /\ NextCall(p).call = "SemCreate"
         \/ semP(p) /\ NextCall(p).call = "SemP"
         \/ semV(p) /\ NextCall(p).call = "SemV"
         \/ semFree(p) /\ NextCall(p).call = "SemFree"
  BY DEF semCreate, semP, semV, semFree, Makes
<1>2. /\ NextCall(p).call # "SemFree"
      /\ NextCall(p).call = "SemCreate" => NextCall(p).value \in Int
      /\ NextCall(p).call \in {"SemP", "SemV"} => handles[NextCall(p).sem] \in known
  BY <1>1 DEF WellBehaved
<1>3. {"p_arg1", "v_arg1"} \subseteq S!Labels
  BY DEF S!Labels, S!Steps, S!PSteps, S!VSteps
<1>4. CASE semCreate(p) /\ NextCall(p).call = "SemCreate"
  <2>1. PICK v \in Int : S!semCreate(p, v)
    BY <1>2, <1>4 DEF semCreate
  <2> QED BY <1>1, <2>1, SemCreateCall DEF Sems!Next, Sems!SystemCall
<1>5. CASE semP(p) /\ NextCall(p).call = "SemP"
  <2>1. PICK h \in known : S!semP(p, h)
    BY <1>2, <1>5 DEF semP
  <2>2. Sems!EnterHandler(p, "SemP", h, "p_arg1") /\ UNCHANGED Users!vars
    BY <1>1, <1>3, <2>1, EnterCall DEF S!semP
  <2>3. Sems!semP(p, h)
    BY <2>1, <2>2, Ids DEF S!semP, Sems!semP
  <2> QED BY <2>2, <2>3 DEF Sems!Next, Sems!SystemCall
<1>6. CASE semV(p) /\ NextCall(p).call = "SemV"
  <2>1. PICK h \in known : S!semV(p, h)
    BY <1>2, <1>6 DEF semV
  <2>2. /\ Sems!EnterHandler(p, "SemV", h, "v_arg1") /\ UNCHANGED Users!vars
        /\ semPc'[p] = pc'[p]
    BY <1>1, <1>3, <2>1, EnterCall DEF S!semV
  <2>3. Sems!semV(p, h)
    BY <2>1, <2>2, Ids DEF S!semV, Sems!semV
  <2> QED BY <2>2, <2>3 DEF Sems!Next, Sems!SystemCall
<1> QED BY <1>1, <1>2, <1>4, <1>5, <1>6

----------------------------------------------------------------------------
(* An operation of a process is the same operation on the mailboxes of the *)
(* processes, and the semaphores see nothing of it.                        *)

ProcMove(p) ==
    /\ p \in Procs /\ p \in ready
    /\ pc[p] \in P!Labels \cup {"quit"} /\ pc'[p] \in P!Labels
    /\ pc' = [pc EXCEPT ![p] = pc'[p]]

InProc(p) == ProcMove(p) /\ pc[p] \notin {"user", "quit"} /\ pc'[p] # "user"

\* p is in no handler of the semaphores, and no mailbox of theirs changes.
Unseen(p) ==
    /\ semPc[p] \in {"user", "quit"}
    /\ semPc' = [semPc EXCEPT ![p] = "user"]
    /\ UNCHANGED <<semMbox, semReady>>

LEMMA ProcMoveLemma ==
    ASSUME Inv, NEW p, ProcMove(p)
    PROVE  /\ semPc[p] \in {"user", "quit"}
           /\ semPc' = [semPc EXCEPT ![p] = "user"]
           /\ pc[p] \in P!Labels => userPc[p] = pc[p] /\ semPc[p] = "user"
           /\ pc[p] = "quit" => userPc[p] = "user"
           /\ \A l : pc' = [pc EXCEPT ![p] = l] => userPc' = [userPc EXCEPT ![p] = l]
           /\ UNCHANGED mailboxVars /\ mboxID' = mboxID =>
                UNCHANGED <<userMbox, userReady, semMbox, semReady>>
<1> USE DEF ProcMove
<1>1. pc \in [Procs -> Labels] /\ "quit" \notin P!Labels
  BY LabelSides, StepLabels DEF Inv, TypeInv
<1>2. semPc[p] \in {"user", "quit"} /\ semPc' = [semPc EXCEPT ![p] = "user"]
  BY <1>1, LabelSides DEF semPc
<1>3. /\ pc[p] \in P!Labels => userPc[p] = pc[p] /\ semPc[p] = "user"
      /\ pc[p] = "quit" => userPc[p] = "user"
  BY <1>1, LabelSides DEF semPc, userPc
<1>4. ASSUME NEW l, pc' = [pc EXCEPT ![p] = l]
      PROVE  userPc' = [userPc EXCEPT ![p] = l]
  <2>1. pc'[p] = l /\ \A q \in Procs \ {p} : pc'[q] = pc[q]
    BY <1>1, <1>4
  <2> QED BY <2>1 DEF userPc
<1>5. ASSUME UNCHANGED mailboxVars, mboxID' = mboxID
      PROVE  UNCHANGED <<userMbox, userReady, semMbox, semReady>>
  <2>1. UserBoxes' = UserBoxes
    BY <1>5 DEF UserBoxes, EMPTY
  <2>2. \A q \in Procs \ {p} : semPc'[q] = semPc[q] /\ userPc'[q] = userPc[q]
    BY <1>1 DEF semPc, userPc
  <2> QED BY <1>5, <2>1, <2>2 DEF mailboxVars, userMbox, userReady, semMbox, semReady, Boxes
<1> QED BY <1>1, <1>2, <1>3, <1>4, <1>5

LEMMA ProcView ==
    ASSUME Inv, UserBoxes' = UserBoxes, NEW b \in UserBoxes
    PROVE  /\ userMbox[b] = mbox[b] /\ Users!IsOpen(b) = IsOpen(b)
           /\ \A r : mbox' = [mbox EXCEPT ![b] = r] =>
                    userMbox' = [userMbox EXCEPT ![b] = r] /\ semMbox' = semMbox
<1>1. b \in Boxes
  BY UserBoxesOpen
<1>2. mbox \in [Boxes -> Mailbox]
  BY DEF Inv, TypeInv, MailboxTypeOK
<1>3. userMbox[b] = mbox[b]
  BY <1>1 DEF userMbox
<1>4. ASSUME NEW r, mbox' = [mbox EXCEPT ![b] = r]
      PROVE  userMbox' = [userMbox EXCEPT ![b] = r] /\ semMbox' = semMbox
  <2>1. mbox'[b] = r /\ \A c \in Boxes \ {b} : mbox'[c] = mbox[c]
    BY <1>1, <1>2, <1>4
  <2>2. Boxes' = Boxes /\ ClosedBox' = ClosedBox
    BY DEF Boxes, ClosedBox
  <2>3. semMbox' = [c \in Boxes |-> IF c \in UserBoxes THEN ClosedBox ELSE mbox'[c]]
    BY <2>2 DEF semMbox
  <2>4. userMbox' = [c \in Boxes |-> IF c \in UserBoxes THEN mbox'[c] ELSE ClosedBox]
    BY <2>2 DEF userMbox
  <2> QED BY <1>1, <2>1, <2>3, <2>4 DEF semMbox, userMbox
<1> QED BY <1>1, <1>3, <1>4, Ids DEF Users!IsOpen, IsOpen

LEMMA ProcReadyView ==
    ASSUME Inv, NEW p, InProc(p)
    PROVE  /\ ready' = ready => UNCHANGED <<semReady, userReady>>
           /\ ready' = ready \ {p} =>
                semReady' = semReady /\ userReady' = userReady \ {p}
           /\ \A b \in UserBoxes : \A W \in SUBSET Waiting(b) :
                ready' = ready \cup W =>
                    semReady' = semReady /\ userReady' = userReady \cup W
<1>1. /\ semPc[p] = "user" /\ semPc' = [semPc EXCEPT ![p] = "user"] /\ p \in Procs
      /\ userPc' = [userPc EXCEPT ![p] = pc'[p]] /\ userPc[p] = pc[p]
      /\ pc[p] # "user" /\ pc'[p] # "user"
  BY ProcMoveLemma DEF InProc, ProcMove
<1>2. semPc' = semPc
  BY <1>1 DEF semPc
<1>3. {q \in Procs : userPc'[q] = "user"} = {q \in Procs : userPc[q] = "user"}
  BY <1>1 DEF userPc
<1>4. p \notin {q \in Procs : userPc[q] = "user"} /\ p \in {q \in Procs : semPc[q] = "user"}
  BY <1>1
<1>5. \A b \in UserBoxes : \A q \in Waiting(b) : q \in {r \in Procs : semPc[r] = "user"}
  BY WaitingSides, UserBoxesOpen
<1> QED BY <1>2, <1>3, <1>4, <1>5 DEF semReady, userReady

LEMMA ProcTakes ==
    ASSUME Inv, NEW p, InProc(p), UserBoxes' = UserBoxes, NEW b \in UserBoxes,
           HasMessage(b), TakeMessage(b)
    PROVE  Users!TakeMessage(b) /\ UNCHANGED <<semMbox, semReady>>
<1>1. userMbox[b] = mbox[b] /\ mbox[b] \in Mailbox
  BY ProcView, UserBoxesOpen DEF Inv, TypeInv, MailboxTypeOK
<1>2. CASE mbox[b].senders # << >>
  <2>1. Head(mbox[b].senders) \in Waiting(b)
    <3>1. mbox[b].senders \in Seq(Procs)
      BY <1>1 DEF Mailbox
    <3> QED BY <1>2, <3>1, TailLemma DEF Waiting
  <2>2. /\ ready' = ready \cup {Head(mbox[b].senders)}
        /\ mbox' = [mbox EXCEPT ![b].senders = Tail(@)]
    BY <1>2 DEF TakeMessage
  <2>3. /\ userReady' = userReady \cup {Head(mbox[b].senders)}
        /\ semReady' = semReady
    <3>1. {Head(mbox[b].senders)} \in SUBSET Waiting(b)
      BY <2>1
    <3> QED BY <2>2, <3>1, ProcReadyView
  <2> QED BY <1>1, <1>2, <2>2, <2>3, ProcView DEF Users!TakeMessage
<1>3. CASE mbox[b].senders = << >>
  <2>1. mbox' = [mbox EXCEPT ![b].used = @ - 1] /\ ready' = ready
    BY <1>3 DEF TakeMessage
  <2>2. UNCHANGED <<semReady, userReady>>
    BY <2>1, ProcReadyView
  <2> QED BY <1>1, <1>3, <2>1, <2>2, ProcView DEF Users!TakeMessage
<1> QED BY <1>2, <1>3

LEMMA ProcSend ==
    ASSUME Inv, NEW p, InProc(p), UserBoxes' = UserBoxes, NEW b \in UserBoxes, MboxSend(p, b)
    PROVE  Users!MboxSend(p, b) /\ UNCHANGED <<semMbox, semReady>>
<1>1. /\ userMbox[b] = mbox[b] /\ mbox[b] \in Mailbox
      /\ IsOpen(b) /\ Users!IsOpen(b)
  BY ProcView, UserBoxesOpen DEF Inv, TypeInv, MailboxTypeOK, IsOpen
<1>2. CASE mbox[b].receivers # << >>
  <2>1. {Head(mbox[b].receivers)} \in SUBSET Waiting(b)
    <3>1. mbox[b].receivers \in Seq(Procs)
      BY <1>1 DEF Mailbox
    <3> QED BY <1>2, <3>1, TailLemma DEF Waiting
  <2>2. /\ ready' = ready \cup {Head(mbox[b].receivers)}
        /\ mbox' = [mbox EXCEPT ![b].receivers = Tail(@)]
    BY <1>1, <1>2 DEF MboxSend
  <2>3. /\ userReady' = userReady \cup {Head(mbox[b].receivers)}
        /\ semReady' = semReady
    BY <2>1, <2>2, ProcReadyView
  <2> QED BY <1>1, <1>2, <2>2, <2>3, ProcView DEF Users!MboxSend
<1>3. CASE mbox[b].receivers = << >> /\ mbox[b].used < mbox[b].slots
  <2>1. ready' = ready /\ mbox' = [mbox EXCEPT ![b].used = @ + 1]
    BY <1>1, <1>3 DEF MboxSend, Mailbox
  <2>2. UNCHANGED <<semReady, userReady>>
    BY <2>1, ProcReadyView
  <2> QED BY <1>1, <1>3, <2>1, <2>2, ProcView DEF Users!MboxSend
<1>4. CASE mbox[b].receivers = << >> /\ mbox[b].used >= mbox[b].slots
  <2>1. ready' = ready \ {p} /\ mbox' = [mbox EXCEPT ![b].senders = Append(@, p)]
    BY <1>1, <1>4 DEF MboxSend, Mailbox
  <2>2. userReady' = userReady \ {p} /\ semReady' = semReady
    BY <2>1, ProcReadyView
  <2> QED BY <1>1, <1>4, <2>1, <2>2, ProcView DEF Users!MboxSend
<1> QED BY <1>1, <1>2, <1>3, <1>4 DEF MboxSend

LEMMA ProcReceive ==
    ASSUME Inv, NEW p, InProc(p), UserBoxes' = UserBoxes, NEW b \in UserBoxes,
           MboxReceive(p, b)
    PROVE  Users!MboxReceive(p, b) /\ UNCHANGED <<semMbox, semReady>>
<1>1. userMbox[b] = mbox[b] /\ IsOpen(b) /\ Users!IsOpen(b)
  BY ProcView, UserBoxesOpen DEF IsOpen
<1>2. Users!HasMessage(b) = HasMessage(b)
  BY <1>1 DEF Users!HasMessage, HasMessage
<1>3. CASE HasMessage(b) /\ TakeMessage(b)
  BY <1>2, <1>3, ProcTakes DEF Users!MboxReceive
<1>4. CASE IsOpen(b) /\ ~HasMessage(b) /\ ready' = ready \ {p}
           /\ mbox' = [mbox EXCEPT ![b].receivers = Append(@, p)]
  <2>1. userReady' = userReady \ {p} /\ semReady' = semReady
    BY <1>4, ProcReadyView
  <2> QED BY <1>1, <1>2, <1>4, <2>1, ProcView DEF Users!MboxReceive
<1> QED BY <1>1, <1>3, <1>4 DEF MboxReceive

LEMMA ProcMboxCreate ==
    ASSUME Inv, RoomEnough, NEW p, InProc(p), mboxID[p] = EMPTY, NEW id,
           MboxCreate(1, id), mboxID' = [mboxID EXCEPT ![p] = id]
    PROVE  Users!MboxCreate(1, id) /\ id \in Boxes /\ UNCHANGED <<semMbox, semReady>>
<1>1. /\ id \in FreeBoxes
      /\ mbox' = [mbox EXCEPT ![id] = NewBox(1)]
      /\ ready' = ready
  BY MailboxLeft DEF MboxCreate
<1>2. id \in Boxes /\ id \notin UserBoxes /\ ~mbox[id].open /\ id # EMPTY
  BY <1>1, UserBoxesOpen, Ids DEF FreeBoxes
<1>3. UserBoxes' = UserBoxes \cup {id}
  <2>1. mboxID \in [Procs -> OtherBoxes] /\ p \in Procs
    BY DEF Inv, TypeInv, ProcTypes, InProc, ProcMove
  <2>2. mboxID'[p] = id /\ \A q \in Procs \ {p} : mboxID'[q] = mboxID[q]
    BY <2>1
  <2>3. EMPTY' = EMPTY
    BY DEF EMPTY
  <2> QED BY <1>2, <2>1, <2>2, <2>3 DEF UserBoxes
<1>4. /\ mbox'[id] = NewBox(1) /\ \A c \in Boxes \ {id} : mbox'[c] = mbox[c]
      /\ mbox[id] = ClosedBox
  BY <1>1, <1>2 DEF Inv, TypeInv, MailboxTypeOK, QueuesOK
<1>5. Boxes' = Boxes /\ ClosedBox' = ClosedBox
  BY DEF Boxes, ClosedBox
<1>6. semMbox' = semMbox
  BY <1>2, <1>3, <1>4, <1>5 DEF semMbox
<1>7. userMbox' = [userMbox EXCEPT ![id] = NewBox(1)] /\ userMbox[id] = ClosedBox
  BY <1>2, <1>3, <1>4, <1>5 DEF userMbox
<1>8. UNCHANGED <<semReady, userReady>>
  BY <1>1, ProcReadyView
<1>9. Users!NewBox(1) = NewBox(1)
  BY DEF Users!NewBox, NewBox
<1> QED BY <1>2, <1>6, <1>7, <1>8, <1>9, Ids DEF Users!MboxCreate, Users!FreeBoxes

LEMMA ProcRelease ==
    ASSUME Inv, NEW p, InProc(p), mboxID[p] # EMPTY, MboxRelease(mboxID[p]),
           mboxID' = [mboxID EXCEPT ![p] = EMPTY]
    PROVE  Users!MboxRelease(mboxID[p]) /\ UNCHANGED <<semMbox, semReady>>
<1> DEFINE b == mboxID[p]
<1>1. p \in Procs /\ mboxID \in [Procs -> OtherBoxes] /\ b \in UserBoxes
  BY DEF Inv, TypeInv, ProcTypes, InProc, ProcMove, UserBoxes
<1>2. b \in Boxes /\ IsOpen(b) /\ userMbox[b] = mbox[b]
  BY <1>1, UserBoxesOpen DEF IsOpen, userMbox
<1>3. /\ ready' = ready \cup Waiting(b)
      /\ mbox' = [mbox EXCEPT ![b] = ClosedBox]
  BY <1>2 DEF MboxRelease
<1>4. mbox'[b] = ClosedBox /\ \A c \in Boxes \ {b} : mbox'[c] = mbox[c]
  BY <1>2, <1>3 DEF Inv, TypeInv, MailboxTypeOK
<1>5. \A c \in Boxes \ {b} : c \in UserBoxes' <=> c \in UserBoxes
  <2>1. mboxID'[p] = EMPTY /\ \A q \in Procs \ {p} : mboxID'[q] = mboxID[q]
    BY <1>1
  <2>2. EMPTY' = EMPTY
    BY DEF EMPTY
  <2> QED BY <1>1, <2>1, <2>2, Ids DEF UserBoxes
<1>6. Boxes' = Boxes /\ ClosedBox' = ClosedBox
  BY DEF Boxes, ClosedBox
<1> HIDE DEF b
<1>7. semMbox' = semMbox
  BY <1>1, <1>4, <1>5, <1>6 DEF semMbox
<1>8. userMbox' = [userMbox EXCEPT ![b] = ClosedBox]
  BY <1>1, <1>2, <1>4, <1>5, <1>6 DEF userMbox
<1>9. semReady' = semReady /\ userReady' = userReady \cup Waiting(b)
  BY <1>1, <1>3, ProcReadyView
<1>10. Users!IsOpen(b) /\ Users!Waiting(b) = Waiting(b)
  BY <1>2, Ids DEF IsOpen, Users!IsOpen, Users!Waiting, Waiting, Users!Members, Members
<1> QED BY <1>7, <1>8, <1>9, <1>10, Ids DEF Users!MboxRelease, b

----------------------------------------------------------------------------
(* A step of a process is one of the processes, and the semaphores see     *)
(* nothing of it.                                                          *)

LEMMA ProcNames ==
    /\ Users!LockSteps = P!LockSteps /\ Users!UnlockSteps = P!UnlockSteps
    /\ Users!AfterLock = P!AfterLock
    /\ \A p : Users!AfterUnlock(p) = P!AfterUnlock(p)
    /\ Users!NULL = P!NULL /\ \A id : Users!Slot(id) = P!Slot(id)
    /\ \A p : Users!Kids(p) = P!Kids(p) /\ Users!ActiveKids(p) = P!ActiveKids(p)
    /\ \A p : Users!ChildList(p) = P!ChildList(p)
    /\ \A id : Users!IsLive(id) = P!IsLive(id) /\ Users!HasQuit(id) = P!HasQuit(id)
    /\ \A id : Users!FreePid(id) = P!FreePid(id)
BY DEF Users!LockSteps, P!LockSteps, Users!UnlockSteps, P!UnlockSteps,
       Users!AfterLock, P!AfterLock, Users!AfterUnlock, P!AfterUnlock,
       Users!NULL, P!NULL, Users!Slot, P!Slot, Users!Kids, P!Kids,
       Users!ActiveKids, P!ActiveKids, Users!ChildList, P!ChildList, Users!Walk, P!Walk,
       Users!IsLive, P!IsLive, Users!HasQuit, P!HasQuit, Users!FreePid, P!FreePid

LEMMA ProcLabels ==
    /\ P!LockSteps \cup P!UnlockSteps \cup P!SpawnSteps \cup P!LaunchSteps
         \cup P!TerminateSteps \cup {"w_join", "return"} \subseteq P!Labels \ {"user"}
    /\ {"none", "user", "w_join", "return"} \subseteq P!Labels
    /\ "quit" \notin P!Labels
    /\ \A l \in P!LockSteps : P!AfterLock[l] \in P!Labels \ {"user"}
    /\ \A p : \A l \in P!UnlockSteps : P!AfterUnlock(p)[l] \in P!Labels \ {"user"}
    /\ {"s_create", "s_fork", "s_release", "s_lock", "s_init", "s_link", "s_parent",
        "s_unlock", "s_send"} \subseteq P!Labels \ {"user"}
    /\ {"l_receive", "l_release", "l_lock", "l_read", "l_unlock"} \subseteq P!Labels \ {"user"}
    /\ {"t_lock", "t_child", "t_unlock", "z_lock", "z_pid", "z_unlock", "z_zap", "z_wait",
        "n_lock", "n_next", "n_unlock", "r_lock", "r_remove", "r_unlock", "t_quit"}
            \subseteq P!Labels \ {"user"}
BY DEF P!Labels, P!SpawnSteps, P!LaunchSteps, P!TerminateSteps, P!LockSteps,
       P!UnlockSteps, P!AfterLock, P!AfterUnlock

LEMMA ProcAt ==
    ASSUME Inv, NEW p \in Procs, NEW l \in P!Labels, P!At(p, l)
    PROVE  /\ Users!At(p, l) /\ pc[p] = l /\ p \in ready /\ ~halted
           /\ userPc[p] = l
<1>1. pc[p] = l /\ p \in ready /\ ~halted
  BY DEF P!At
<1>2. userPc[p] = l
  BY <1>1 DEF userPc
<1> QED BY <1>1, <1>2 DEF Users!At, userReady

LEMMA ProcGoto ==
    ASSUME Inv, NEW p \in Procs, p \in ready, pc[p] \in P!Labels \cup {"quit"},
           NEW l \in P!Labels, P!Goto(p, l)
    PROVE  /\ Users!Goto(p, l) /\ ProcMove(p) /\ pc'[p] = l
           /\ pc[p] \notin {"user", "quit"} /\ l # "user" => InProc(p)
<1>1. pc \in [Procs -> Labels]
  BY DEF Inv, TypeInv
<1>2. pc' = [pc EXCEPT ![p] = l] /\ pc'[p] = l
  BY <1>1 DEF P!Goto
<1>3. ProcMove(p)
  BY <1>1, <1>2 DEF ProcMove
<1>4. userPc' = [userPc EXCEPT ![p] = l]
  BY <1>2, <1>3, ProcMoveLemma
<1> QED BY <1>2, <1>3, <1>4 DEF Users!Goto, InProc

(* A step from l to one of the labels in to, or to no other, without an    *)
(* operation on a mailbox.                                                 *)
ProcLocal(p, l, to) ==
    /\ P!At(p, l)
    /\ pc' = pc \/ \E k \in to : P!Goto(p, k)
    /\ UNCHANGED mailboxVars /\ mboxID' = mboxID

LEMMA ProcsLocal ==
    ASSUME Inv, NEW p \in Procs, NEW l \in P!Labels, NEW to \in SUBSET P!Labels,
           ProcLocal(p, l, to)
    PROVE  /\ Users!At(p, l) /\ Unseen(p)
           /\ \A k \in P!Labels : P!Goto(p, k) => Users!Goto(p, k)
           /\ pc' = pc => userPc' = userPc
           /\ UNCHANGED Users!mailboxVars
<1>1. /\ Users!At(p, l) /\ pc[p] = l /\ p \in ready /\ userPc[p] = l
  BY ProcAt DEF ProcLocal
<1>2. ProcMove(p)
  <2>1. CASE pc' = pc
    BY <1>1, <2>1 DEF ProcMove, Inv, TypeInv
  <2>2. CASE \E k \in to : P!Goto(p, k)
    BY <1>1, <2>2, ProcGoto
  <2> QED BY <2>1, <2>2 DEF ProcLocal
<1>3. \A k \in P!Labels : P!Goto(p, k) => Users!Goto(p, k)
  BY <1>1, ProcGoto
<1>4. /\ semPc[p] \in {"user", "quit"} /\ semPc' = [semPc EXCEPT ![p] = "user"]
      /\ UNCHANGED <<userMbox, userReady, semMbox, semReady>>
  BY <1>2, ProcMoveLemma DEF ProcLocal
<1>5. pc' = pc => userPc' = userPc
  BY DEF userPc
<1> QED BY <1>1, <1>3, <1>4, <1>5 DEF Unseen, Users!mailboxVars

LEMMA ProcsLock ==
    ASSUME Inv, NEW p \in Procs, P!Lock(p)
    PROVE  Users!Lock(p) /\ Unseen(p)
<1>1. PICK l \in P!LockSteps :
        /\ P!At(p, l)
        /\ P!MboxSend(p, 1)
        /\ P!Goto(p, P!AfterLock[l])
        /\ UNCHANGED <<P!kernelVars, P!tableVars, P!localVars>>
  BY DEF P!Lock
<1>2. l \in P!Labels \ {"user"} /\ P!AfterLock[l] \in P!Labels \ {"user"} /\ l # "quit"
  BY ProcLabels
<1>3. Users!At(p, l) /\ pc[p] = l /\ p \in ready
  BY <1>1, <1>2, ProcAt
<1>4. Users!Goto(p, P!AfterLock[l]) /\ ProcMove(p) /\ InProc(p)
  BY <1>1, <1>2, <1>3, ProcGoto
<1>5. 1 \in UserBoxes /\ UserBoxes' = UserBoxes
  BY <1>1 DEF UserBoxes, EMPTY, P!localVars
<1>6. Users!MboxSend(p, 1) /\ UNCHANGED <<semMbox, semReady>>
  BY <1>1, <1>4, <1>5, ProcSend, SameSend
<1>7. Unseen(p)
  BY <1>4, <1>6, ProcMoveLemma DEF Unseen
<1> QED BY <1>1, <1>3, <1>4, <1>6, <1>7, ProcNames
        DEF Users!Lock, P!kernelVars, P!tableVars, P!localVars,
            Users!kernelVars, Users!tableVars, Users!localVars

LEMMA ProcsUnlock ==
    ASSUME Inv, NEW p \in Procs, P!Unlock(p)
    PROVE  Users!Unlock(p) /\ Unseen(p)
<1>1. PICK l \in P!UnlockSteps :
        /\ P!At(p, l)
        /\ P!MboxReceive(p, 1)
        /\ P!Goto(p, P!AfterUnlock(p)[l])
        /\ UNCHANGED <<P!kernelVars, P!tableVars, P!localVars>>
  BY DEF P!Unlock
<1>2. l \in P!Labels \ {"user"} /\ P!AfterUnlock(p)[l] \in P!Labels \ {"user"} /\ l # "quit"
  BY ProcLabels
<1>3. Users!At(p, l) /\ pc[p] = l /\ p \in ready
  BY <1>1, <1>2, ProcAt
<1>4. Users!Goto(p, P!AfterUnlock(p)[l]) /\ ProcMove(p) /\ InProc(p)
  BY <1>1, <1>2, <1>3, ProcGoto
<1>5. 1 \in UserBoxes /\ UserBoxes' = UserBoxes
  BY <1>1 DEF UserBoxes, EMPTY, P!localVars
<1>6. Users!MboxReceive(p, 1) /\ UNCHANGED <<semMbox, semReady>>
  BY <1>1, <1>4, <1>5, ProcReceive, SameReceive
<1>7. Unseen(p)
  BY <1>4, <1>6, ProcMoveLemma DEF Unseen
<1> QED BY <1>1, <1>3, <1>4, <1>6, <1>7, ProcNames
        DEF Users!Unlock, P!kernelVars, P!tableVars, P!localVars,
            Users!kernelVars, Users!tableVars, Users!localVars

(* The handshake of spawnReal and spawnLaunch.                             *)
LEMMA ProcOwner ==
    ASSUME Inv, NEW p \in Procs
    PROVE  /\ userPc[p] = "s_create" => mboxID[p] = EMPTY
           /\ userPc[p] \in {"s_fork", "s_release", "s_send", "l_receive", "l_release"}
                => mboxID[p] # EMPTY /\ mboxID[p] \in UserBoxes
           /\ userPc[p] = "s_send" =>
                \E c \in Procs \ {p} : mboxID[c] = mboxID[p]
<1>1. userPc[p] \in Users!OwnerSteps <=> mboxID[p] # EMPTY
  BY Ids DEF Inv, Users!UserInv, Users!HandInv, Users!BoxInv
<1>2. /\ "s_create" \notin Users!OwnerSteps
      /\ {"s_fork", "s_release", "s_send", "l_receive", "l_release"} \subseteq Users!OwnerSteps
  BY DEF Users!OwnerSteps, Users!AfterFork
<1>3. mboxID[p] # EMPTY => mboxID[p] \in UserBoxes
  BY DEF UserBoxes
<1>4. ASSUME userPc[p] = "s_send"
      PROVE  \E c \in Procs \ {p} : mboxID[c] = mboxID[p]
  <2> DEFINE c == Users!Slot(newPid[p])
  <2>1. newPid[p] \in Nat /\ Users!ChildOf(p, c)
    BY <1>4 DEF Inv, Users!UserInv, Users!HandInv, Users!ForkInv, Users!AfterFork
  <2>2. c \in Procs
    BY <2>1, SystemAssumption DEF Users!Slot
  <2>3. mboxID[c] = mboxID[p] /\ userPc[c] \in {"l_receive", "l_release"}
    BY <2>1 DEF Users!ChildOf
  <2> QED BY <1>4, <2>2, <2>3
<1> QED BY <1>1, <1>2, <1>3, <1>4

LEMMA ProcsCreate ==
    ASSUME Inv, RoomEnough, NEW p \in Procs, P!SpawnCreate(p)
    PROVE  Users!SpawnCreate(p) /\ Unseen(p)
<1>1. PICK id \in P!Boxes \cup {P!EMPTY} :
        P!MboxCreate(1, id) /\ mboxID' = [mboxID EXCEPT ![p] = id]
  BY DEF P!SpawnCreate
<1>2. {"s_create", "s_fork"} \subseteq P!Labels \ {"user"}
  BY ProcLabels
<1>3. /\ Users!At(p, "s_create") /\ pc[p] = "s_create" /\ p \in ready
      /\ userPc[p] = "s_create"
  BY <1>2, ProcAt DEF P!SpawnCreate
<1>4. Users!Goto(p, "s_fork") /\ ProcMove(p) /\ InProc(p)
  BY <1>2, <1>3, ProcGoto DEF P!SpawnCreate
<1>5. Users!MboxCreate(1, id) /\ id \in Boxes /\ UNCHANGED <<semMbox, semReady>>
  BY <1>1, <1>3, <1>4, ProcMboxCreate, ProcOwner, SameCreate
<1>6. Unseen(p)
  BY <1>4, <1>5, ProcMoveLemma DEF Unseen
<1>7. id \in Users!Boxes \cup {Users!EMPTY}
  BY <1>5, Ids
<1> QED BY <1>1, <1>3, <1>4, <1>5, <1>6, <1>7
        DEF P!SpawnCreate, Users!SpawnCreate, P!kernelVars, P!tableVars,
            Users!kernelVars, Users!tableVars

LEMMA ProcsRelease ==
    ASSUME Inv, NEW p \in Procs
    PROVE  /\ P!SpawnRelease(p) => Users!SpawnRelease(p) /\ Unseen(p)
           /\ P!LaunchRelease(p) => Users!LaunchRelease(p) /\ Unseen(p)
<1>0. {"s_release", "return", "l_release", "l_lock"} \subseteq P!Labels \ {"user"}
  BY ProcLabels
<1>1. ASSUME P!SpawnRelease(p)
      PROVE  Users!SpawnRelease(p) /\ Unseen(p)
  <2>1. /\ Users!At(p, "s_release") /\ pc[p] = "s_release" /\ p \in ready
        /\ userPc[p] = "s_release"
    BY <1>0, <1>1, ProcAt DEF P!SpawnRelease
  <2>2. Users!Goto(p, "return") /\ ProcMove(p) /\ InProc(p)
    BY <1>0, <1>1, <2>1, ProcGoto DEF P!SpawnRelease
  <2>3. mboxID[p] # EMPTY
    BY <2>1, ProcOwner
  <2>4. MboxRelease(mboxID[p]) /\ mboxID' = [mboxID EXCEPT ![p] = EMPTY]
    BY <1>1, SameRelease, Ids DEF P!SpawnRelease
  <2>5. Users!MboxRelease(mboxID[p]) /\ UNCHANGED <<semMbox, semReady>>
    BY <2>2, <2>3, <2>4, ProcRelease
  <2>6. Unseen(p)
    BY <2>2, <2>5, ProcMoveLemma DEF Unseen
  <2> QED BY <1>1, <2>1, <2>2, <2>4, <2>5, <2>6, Ids
          DEF P!SpawnRelease, Users!SpawnRelease, P!kernelVars, P!tableVars,
              Users!kernelVars, Users!tableVars
<1>2. ASSUME P!LaunchRelease(p)
      PROVE  Users!LaunchRelease(p) /\ Unseen(p)
  <2>1. /\ Users!At(p, "l_release") /\ pc[p] = "l_release" /\ p \in ready
        /\ userPc[p] = "l_release"
    BY <1>0, <1>2, ProcAt DEF P!LaunchRelease
  <2>2. Users!Goto(p, "l_lock") /\ ProcMove(p) /\ InProc(p)
    BY <1>0, <1>2, <2>1, ProcGoto DEF P!LaunchRelease
  <2>3. mboxID[p] # EMPTY
    BY <2>1, ProcOwner
  <2>4. MboxRelease(mboxID[p]) /\ mboxID' = [mboxID EXCEPT ![p] = EMPTY]
    BY <1>2, SameRelease, Ids DEF P!LaunchRelease
  <2>5. Users!MboxRelease(mboxID[p]) /\ UNCHANGED <<semMbox, semReady>>
    BY <2>2, <2>3, <2>4, ProcRelease
  <2>6. Unseen(p)
    BY <2>2, <2>5, ProcMoveLemma DEF Unseen
  <2> QED BY <1>2, <2>1, <2>2, <2>4, <2>5, <2>6, Ids
          DEF P!LaunchRelease, Users!LaunchRelease, P!kernelVars, P!tableVars,
              Users!kernelVars, Users!tableVars
<1> QED BY <1>1, <1>2

LEMMA ProcsSend ==
    ASSUME Inv, NEW p \in Procs, P!SpawnSend(p)
    PROVE  Users!SpawnSend(p) /\ Unseen(p)
<1>0. {"s_send", "return"} \subseteq P!Labels \ {"user"}
  BY ProcLabels
<1>1. /\ Users!At(p, "s_send") /\ pc[p] = "s_send" /\ p \in ready
      /\ userPc[p] = "s_send"
  BY <1>0, ProcAt DEF P!SpawnSend
<1>2. Users!Goto(p, "return") /\ ProcMove(p) /\ InProc(p)
  BY <1>0, <1>1, ProcGoto DEF P!SpawnSend
<1>3. PICK c \in Procs \ {p} : mboxID[c] = mboxID[p]
  BY <1>1, ProcOwner
<1>4. mboxID[p] \in UserBoxes
  BY <1>1, ProcOwner
<1>5. UserBoxes' = UserBoxes
  <2>1. mboxID' = [mboxID EXCEPT ![p] = EMPTY] /\ mboxID \in [Procs -> OtherBoxes]
    BY Ids DEF P!SpawnSend, Inv, TypeInv, ProcTypes
  <2>2. mboxID'[p] = EMPTY /\ \A q \in Procs \ {p} : mboxID'[q] = mboxID[q]
    BY <2>1
  <2>3. EMPTY' = EMPTY
    BY DEF EMPTY
  <2> QED BY <1>3, <2>2, <2>3 DEF UserBoxes
<1>6. Users!MboxSend(p, mboxID[p]) /\ UNCHANGED <<semMbox, semReady>>
  BY <1>2, <1>4, <1>5, ProcSend, SameSend DEF P!SpawnSend
<1>7. Unseen(p)
  BY <1>2, <1>6, ProcMoveLemma DEF Unseen
<1> QED BY <1>1, <1>2, <1>6, <1>7, Ids
        DEF P!SpawnSend, Users!SpawnSend, P!kernelVars, P!tableVars,
            Users!kernelVars, Users!tableVars

LEMMA ProcsReceive ==
    ASSUME Inv, NEW p \in Procs, P!LaunchReceive(p)
    PROVE  Users!LaunchReceive(p) /\ Unseen(p)
<1>0. {"l_receive", "l_release"} \subseteq P!Labels \ {"user"}
  BY ProcLabels
<1>1. /\ Users!At(p, "l_receive") /\ pc[p] = "l_receive" /\ p \in ready
      /\ userPc[p] = "l_receive"
  BY <1>0, ProcAt DEF P!LaunchReceive
<1>2. Users!Goto(p, "l_release") /\ ProcMove(p) /\ InProc(p)
  BY <1>0, <1>1, ProcGoto DEF P!LaunchReceive
<1>3. mboxID[p] \in UserBoxes /\ UserBoxes' = UserBoxes
  BY <1>1, ProcOwner DEF P!LaunchReceive, P!localVars, UserBoxes, EMPTY
<1>4. Users!MboxReceive(p, mboxID[p]) /\ UNCHANGED <<semMbox, semReady>>
  BY <1>2, <1>3, ProcReceive, SameReceive DEF P!LaunchReceive
<1>5. Unseen(p)
  BY <1>2, <1>4, ProcMoveLemma DEF Unseen
<1> QED BY <1>1, <1>2, <1>4, <1>5
        DEF P!LaunchReceive, Users!LaunchReceive, P!kernelVars, P!tableVars, P!localVars,
            Users!kernelVars, Users!tableVars, Users!localVars

LEMMA ProcsFork ==
    ASSUME Inv, NEW p \in Procs, P!SpawnFork(p)
    PROVE  Users!SpawnFork(p) /\ Unseen(p)
<1>0. {"s_fork", "s_release", "s_lock", "l_receive", "none"} \subseteq P!Labels \ {"user"}
  BY ProcLabels DEF P!Labels
<1>1. /\ Users!At(p, "s_fork") /\ pc[p] = "s_fork" /\ p \in ready
      /\ userPc[p] = "s_fork"
  BY <1>0, ProcAt DEF P!SpawnFork
<1>2. UNCHANGED mailboxVars /\ UNCHANGED <<zapped, childToZap, pidToZap, program>>
      /\ UNCHANGED Users!tableVars
  BY DEF P!SpawnFork, P!mailboxVars, mailboxVars, P!tableVars, Users!tableVars
<1>3. CASE \E id \in nextPid .. nextPid + MAXPROC - 1 :
            /\ P!FreePid(id)
            /\ \A i \in nextPid .. id - 1 : ~P!FreePid(i)
            /\ kstate' = [kstate EXCEPT ![P!Slot(id)] = "active"]
            /\ kpid' = [kpid EXCEPT ![P!Slot(id)] = id]
            /\ kparent' = [kparent EXCEPT ![P!Slot(id)] = p]
            /\ nextPid' = id + 1
            /\ newPid' = [newPid EXCEPT ![p] = id]
            /\ mboxID' = [mboxID EXCEPT ![P!Slot(id)] = mboxID[p]]
            /\ pc' = [pc EXCEPT ![p] = "s_lock", ![P!Slot(id)] = "l_receive"]
            /\ UNCHANGED halted
  <2>1. PICK id \in nextPid .. nextPid + MAXPROC - 1 :
            /\ P!FreePid(id)
            /\ \A i \in nextPid .. id - 1 : ~P!FreePid(i)
            /\ kstate' = [kstate EXCEPT ![P!Slot(id)] = "active"]
            /\ kpid' = [kpid EXCEPT ![P!Slot(id)] = id]
            /\ kparent' = [kparent EXCEPT ![P!Slot(id)] = p]
            /\ nextPid' = id + 1
            /\ newPid' = [newPid EXCEPT ![p] = id]
            /\ mboxID' = [mboxID EXCEPT ![P!Slot(id)] = mboxID[p]]
            /\ pc' = [pc EXCEPT ![p] = "s_lock", ![P!Slot(id)] = "l_receive"]
            /\ UNCHANGED halted
    BY <1>3
  <2> DEFINE c == P!Slot(id)
  <2>2. c \in Procs
    <3>1. nextPid \in Nat /\ id \in Int
      BY DEF Inv, TypeInv, ProcTypes
    <3> QED BY <3>1, SystemAssumption DEF P!Slot
  <2>3. kstate[c] = "free"
    BY <2>1 DEF P!FreePid
  <2> HIDE DEF c
  <2>4. pc[c] = "none" /\ c # p
    BY <1>1, <2>2, <2>3 DEF Inv, TypeInv, ProcTypes
  <2>5. userPc[c] = "none" /\ semPc[c] = "user" /\ semPc[p] = "user"
    BY <1>0, <1>1, <2>2, <2>4, LabelSides DEF userPc, semPc
  <2>6. mboxID[c] = EMPTY
    <3>1. userPc[c] \notin Users!OwnerSteps
      BY <2>5 DEF Users!OwnerSteps, Users!AfterFork
    <3> QED BY <2>2, <3>1, Ids DEF Inv, Users!UserInv, Users!HandInv, Users!BoxInv
  <2>7. UserBoxes' = UserBoxes
    <3>1. mboxID' = [mboxID EXCEPT ![c] = mboxID[p]] /\ mboxID \in [Procs -> OtherBoxes]
      BY <2>1 DEF c, Inv, TypeInv, ProcTypes
    <3>2. mboxID'[c] = mboxID[p] /\ \A q \in Procs \ {c} : mboxID'[q] = mboxID[q]
      BY <2>2, <3>1
    <3>3. EMPTY' = EMPTY
      BY DEF EMPTY
    <3> QED BY <2>2, <2>4, <2>6, <3>2, <3>3 DEF UserBoxes
  <2>8. /\ pc'[p] = "s_lock" /\ pc'[c] = "l_receive"
        /\ \A q \in Procs \ {p, c} : pc'[q] = pc[q]
    <3>1. pc' = [pc EXCEPT ![p] = "s_lock", ![c] = "l_receive"] /\ pc \in [Procs -> Labels]
      BY <2>1 DEF c, Inv, TypeInv
    <3> QED BY <2>2, <2>4, <3>1
  <2>9. semPc' = semPc
    BY <1>0, <2>2, <2>5, <2>8, LabelSides DEF semPc
  <2>10. userPc' = [userPc EXCEPT ![p] = "s_lock", ![c] = "l_receive"]
    BY <1>0, <2>2, <2>4, <2>8 DEF userPc
  <2>11. {q \in Procs : userPc'[q] = "user"} = {q \in Procs : userPc[q] = "user"}
    <3>1. \A q \in Procs : userPc'[q] = "user" <=> userPc[q] = "user"
      BY <1>1, <2>2, <2>4, <2>5, <2>10 DEF userPc
    <3> QED BY <3>1
  <2>12. UNCHANGED <<userMbox, userReady, semMbox, semReady>>
    <3>1. Boxes' = Boxes /\ ClosedBox' = ClosedBox
      BY DEF Boxes, ClosedBox
    <3> QED BY <1>2, <2>7, <2>9, <2>11, <3>1
            DEF mailboxVars, userMbox, userReady, semMbox, semReady
  <2>13. Unseen(p)
    BY <2>5, <2>9, <2>12 DEF Unseen, semPc
  <2>14. UNCHANGED Users!mailboxVars
    BY <2>12 DEF Users!mailboxVars
  <2> QED BY <1>1, <1>2, <2>1, <2>10, <2>13, <2>14, ProcNames DEF Users!SpawnFork, c
<1>4. CASE /\ \A q \in Procs : kstate[q] = "active"
           /\ P!Goto(p, "s_release")
           /\ UNCHANGED <<kstate, kpid, kparent, nextPid, newPid, mboxID, halted>>
  <2>1. ProcLocal(p, "s_fork", {"s_release"})
    BY <1>2, <1>4 DEF ProcLocal, P!SpawnFork
  <2>2. /\ Unseen(p) /\ UNCHANGED Users!mailboxVars
        /\ P!Goto(p, "s_release") => Users!Goto(p, "s_release")
    BY <1>0, <2>1, ProcsLocal
  <2> QED BY <1>1, <1>2, <1>4, <2>2 DEF Users!SpawnFork
<1>5. CASE /\ \A q \in Procs : kstate[q] # "free"
           /\ \E q \in Procs : kstate[q] # "active"
           /\ halted' = TRUE
           /\ UNCHANGED <<kstate, kpid, kparent, nextPid, newPid, mboxID, pc>>
  <2>1. ProcLocal(p, "s_fork", {})
    BY <1>2, <1>5 DEF ProcLocal, P!SpawnFork
  <2>2. Unseen(p) /\ UNCHANGED Users!mailboxVars /\ userPc' = userPc
    BY <1>0, <1>5, <2>1, ProcsLocal
  <2> QED BY <1>1, <1>2, <1>5, <2>2 DEF Users!SpawnFork
<1> QED BY <1>3, <1>4, <1>5 DEF P!SpawnFork

(* Steps without an operation on a mailbox.                                *)
LEMMA ProcsSpawnSteps ==
    ASSUME Inv, NEW p \in Procs
    PROVE  /\ P!SpawnInit(p) => Users!SpawnInit(p) /\ Unseen(p)
           /\ P!addChild(p) => Users!addChild(p) /\ Unseen(p)
           /\ P!SpawnParent(p) => Users!SpawnParent(p) /\ Unseen(p)
           /\ P!LaunchRead(p) => Users!LaunchRead(p) /\ Unseen(p)
<1>0. {"s_init", "s_link", "s_parent", "s_unlock", "l_read", "l_unlock"} \subseteq P!Labels
  BY ProcLabels
<1> USE DEF P!mailboxVars, mailboxVars, P!localVars, P!kernelVars, P!tableVars,
            Users!localVars, Users!kernelVars, Users!tableVars
<1>1. ASSUME P!SpawnInit(p)
      PROVE  Users!SpawnInit(p) /\ Unseen(p)
  <2>1. ProcLocal(p, "s_init", {"s_link"})
    BY <1>1 DEF P!SpawnInit, ProcLocal
  <2>2. /\ Users!At(p, "s_init") /\ Unseen(p) /\ UNCHANGED Users!mailboxVars
        /\ P!Goto(p, "s_link") => Users!Goto(p, "s_link")
    BY <1>0, <2>1, ProcsLocal
  <2> QED BY <1>1, <2>2, ProcNames DEF P!SpawnInit, Users!SpawnInit
<1>2. ASSUME P!addChild(p)
      PROVE  Users!addChild(p) /\ Unseen(p)
  <2>1. ProcLocal(p, "s_link", {"s_parent"})
    BY <1>2 DEF P!addChild, ProcLocal
  <2>2. /\ Users!At(p, "s_link") /\ Unseen(p) /\ UNCHANGED Users!mailboxVars
        /\ P!Goto(p, "s_parent") => Users!Goto(p, "s_parent")
    BY <1>0, <2>1, ProcsLocal
  <2> QED BY <1>2, <2>2, ProcNames DEF P!addChild, Users!addChild
<1>3. ASSUME P!SpawnParent(p)
      PROVE  Users!SpawnParent(p) /\ Unseen(p)
  <2>1. ProcLocal(p, "s_parent", {"s_unlock"})
    BY <1>3 DEF P!SpawnParent, ProcLocal
  <2>2. /\ Users!At(p, "s_parent") /\ Unseen(p) /\ UNCHANGED Users!mailboxVars
        /\ P!Goto(p, "s_unlock") => Users!Goto(p, "s_unlock")
    BY <1>0, <2>1, ProcsLocal
  <2> QED BY <1>3, <2>2, ProcNames DEF P!SpawnParent, Users!SpawnParent
<1>4. ASSUME P!LaunchRead(p)
      PROVE  Users!LaunchRead(p) /\ Unseen(p)
  <2>1. ProcLocal(p, "l_read", {"l_unlock"})
    BY <1>4 DEF P!LaunchRead, ProcLocal
  <2>2. /\ Users!At(p, "l_read") /\ Unseen(p) /\ UNCHANGED Users!mailboxVars
        /\ P!Goto(p, "l_unlock") => Users!Goto(p, "l_unlock")
    BY <1>0, <2>1, ProcsLocal
  <2> QED BY <1>4, <2>2 DEF P!LaunchRead, Users!LaunchRead
<1> QED BY <1>1, <1>2, <1>3, <1>4

LEMMA ProcsEnds ==
    ASSUME Inv, NEW p \in Procs
    PROVE  /\ P!waitReal(p) => Users!waitReal(p) /\ Unseen(p)
           /\ P!Return(p) => Users!Return(p) /\ Unseen(p)
           /\ P!quit(p) => Users!quit(p) /\ Unseen(p)
<1>0. {"w_join", "return", "user", "t_quit", "t_lock", "none"} \subseteq P!Labels
  BY ProcLabels
<1> USE DEF P!mailboxVars, mailboxVars, P!localVars, P!kernelVars, P!tableVars,
            Users!localVars, Users!kernelVars, Users!tableVars
<1>1. ASSUME P!waitReal(p)
      PROVE  Users!waitReal(p) /\ Unseen(p)
  <2>1. ProcLocal(p, "w_join", {"return"})
    BY <1>1 DEF P!waitReal, ProcLocal
  <2>2. /\ Users!At(p, "w_join") /\ Unseen(p) /\ UNCHANGED Users!mailboxVars
        /\ P!Goto(p, "return") => Users!Goto(p, "return")
    BY <1>0, <2>1, ProcsLocal
  <2> QED BY <1>1, <2>2, ProcNames DEF P!waitReal, Users!waitReal
<1>2. ASSUME P!Return(p)
      PROVE  Users!Return(p) /\ Unseen(p)
  <2> DEFINE next == IF p = Start2 THEN IF P!Kids(p) = {} THEN "t_quit" ELSE "w_join"
                     ELSE IF p \in zapped THEN "t_lock" ELSE "user"
  <2>1. next \in {"t_quit", "w_join", "t_lock", "user"}
    OBVIOUS
  <2>2. P!Goto(p, next)
    BY <1>2 DEF P!Return
  <2> HIDE DEF next
  <2>3. ProcLocal(p, "return", {"t_quit", "w_join", "t_lock", "user"})
    BY <1>2, <2>1, <2>2 DEF P!Return, ProcLocal
  <2>4. /\ Users!At(p, "return") /\ Unseen(p) /\ UNCHANGED Users!mailboxVars
        /\ \A k \in P!Labels : P!Goto(p, k) => Users!Goto(p, k)
    BY <1>0, <2>3, ProcsLocal
  <2>5. Users!Goto(p, next)
    BY <1>0, <2>1, <2>2, <2>4
  <2> QED BY <1>2, <2>4, <2>5, ProcNames DEF P!Return, Users!Return, next
<1>3. ASSUME P!quit(p)
      PROVE  Users!quit(p) /\ Unseen(p)
  <2>1. ProcLocal(p, "t_quit", {"none"})
    BY <1>3 DEF P!quit, ProcLocal
  <2>2. /\ Users!At(p, "t_quit") /\ Unseen(p) /\ UNCHANGED Users!mailboxVars
        /\ P!Goto(p, "none") => Users!Goto(p, "none")
        /\ pc' = pc => userPc' = userPc
    BY <1>0, <2>1, ProcsLocal
  <2>3. CASE P!ActiveKids(p) # {}
    BY <1>3, <2>2, <2>3, ProcNames DEF P!quit, Users!quit
  <2>4. CASE P!ActiveKids(p) = {}
    BY <1>3, <2>2, <2>4, ProcNames, Ids DEF P!quit, Users!quit
  <2> QED BY <2>3, <2>4
<1> QED BY <1>1, <1>2, <1>3

LEMMA ProcsTerminateSteps ==
    ASSUME Inv, NEW p \in Procs
    PROVE  /\ P!ReadChild(p) => Users!ReadChild(p) /\ Unseen(p)
           /\ P!ReadPid(p) => Users!ReadPid(p) /\ Unseen(p)
           /\ P!zap(p) => Users!zap(p) /\ Unseen(p)
           /\ P!zapReturn(p) => Users!zapReturn(p) /\ Unseen(p)
           /\ P!ReadSibling(p) => Users!ReadSibling(p) /\ Unseen(p)
           /\ P!removeChild(p) => Users!removeChild(p) /\ Unseen(p)
<1>0. {"t_child", "t_unlock", "z_pid", "z_unlock", "z_zap", "z_wait", "n_lock", "n_next",
       "n_unlock", "r_remove", "r_unlock"} \subseteq P!Labels
  BY ProcLabels
<1> USE DEF P!mailboxVars, mailboxVars, P!localVars, P!kernelVars, P!tableVars,
            Users!localVars, Users!kernelVars, Users!tableVars
<1>1. ASSUME P!ReadChild(p)
      PROVE  Users!ReadChild(p) /\ Unseen(p)
  <2>1. ProcLocal(p, "t_child", {"t_unlock"})
    BY <1>1 DEF P!ReadChild, ProcLocal
  <2>2. /\ Users!At(p, "t_child") /\ Unseen(p) /\ UNCHANGED Users!mailboxVars
        /\ P!Goto(p, "t_unlock") => Users!Goto(p, "t_unlock")
    BY <1>0, <2>1, ProcsLocal
  <2> QED BY <1>1, <2>2 DEF P!ReadChild, Users!ReadChild
<1>2. ASSUME P!ReadPid(p)
      PROVE  Users!ReadPid(p) /\ Unseen(p)
  <2>1. ProcLocal(p, "z_pid", {"z_unlock"})
    BY <1>2 DEF P!ReadPid, ProcLocal
  <2>2. /\ Users!At(p, "z_pid") /\ Unseen(p) /\ UNCHANGED Users!mailboxVars
        /\ P!Goto(p, "z_unlock") => Users!Goto(p, "z_unlock")
    BY <1>0, <2>1, ProcsLocal
  <2> QED BY <1>2, <2>2 DEF P!ReadPid, Users!ReadPid
<1>3. ASSUME P!zap(p)
      PROVE  Users!zap(p) /\ Unseen(p)
  <2>1. PICK l \in {"z_wait", "n_lock"} :
          P!Goto(p, l) /\ l = IF P!IsLive(pidToZap[p]) THEN "z_wait" ELSE "n_lock"
    BY <1>3 DEF P!zap
  <2>2. ProcLocal(p, "z_zap", {"z_wait", "n_lock"})
    BY <1>3, <2>1 DEF P!zap, ProcLocal
  <2>3. /\ Users!At(p, "z_zap") /\ Unseen(p) /\ UNCHANGED Users!mailboxVars
        /\ Users!Goto(p, l)
    BY <1>0, <2>1, <2>2, ProcsLocal
  <2> QED BY <1>3, <2>1, <2>3, ProcNames DEF P!zap, Users!zap
<1>4. ASSUME P!zapReturn(p)
      PROVE  Users!zapReturn(p) /\ Unseen(p)
  <2>1. ProcLocal(p, "z_wait", {"n_lock"})
    BY <1>4 DEF P!zapReturn, ProcLocal
  <2>2. /\ Users!At(p, "z_wait") /\ Unseen(p) /\ UNCHANGED Users!mailboxVars
        /\ P!Goto(p, "n_lock") => Users!Goto(p, "n_lock")
    BY <1>0, <2>1, ProcsLocal
  <2> QED BY <1>4, <2>2, ProcNames DEF P!zapReturn, Users!zapReturn
<1>5. ASSUME P!ReadSibling(p)
      PROVE  Users!ReadSibling(p) /\ Unseen(p)
  <2>1. ProcLocal(p, "n_next", {"n_unlock"})
    BY <1>5 DEF P!ReadSibling, ProcLocal
  <2>2. /\ Users!At(p, "n_next") /\ Unseen(p) /\ UNCHANGED Users!mailboxVars
        /\ P!Goto(p, "n_unlock") => Users!Goto(p, "n_unlock")
    BY <1>0, <2>1, ProcsLocal
  <2> QED BY <1>5, <2>2, Ids DEF P!ReadSibling, Users!ReadSibling
<1>6. ASSUME P!removeChild(p)
      PROVE  Users!removeChild(p) /\ Unseen(p)
  <2>1. ProcLocal(p, "r_remove", {"r_unlock"})
    BY <1>6 DEF P!removeChild, ProcLocal
  <2>2. /\ Users!At(p, "r_remove") /\ Unseen(p) /\ UNCHANGED Users!mailboxVars
        /\ P!Goto(p, "r_unlock") => Users!Goto(p, "r_unlock")
    BY <1>0, <2>1, ProcsLocal
  <2> QED BY <1>6, <2>2, ProcNames DEF P!removeChild, Users!removeChild
<1> QED BY <1>1, <1>2, <1>3, <1>4, <1>5, <1>6

(* What the programs call, and what ends one in the middle of SemP.        *)
LEMMA ProcsCall ==
    ASSUME Inv, NEW p \in Procs, NEW first \in P!Labels, P!Call(p, first)
    PROVE  Users!Call(p, first) /\ Unseen(p)
<1>1. "user" \in P!Labels
  BY ProcLabels
<1>2. ProcLocal(p, "user", {first})
  BY DEF P!Call, ProcLocal, P!mailboxVars, mailboxVars, P!localVars
<1>3. /\ Users!At(p, "user") /\ Unseen(p) /\ UNCHANGED Users!mailboxVars
      /\ P!Goto(p, first) => Users!Goto(p, first)
  BY <1>1, <1>2, ProcsLocal
<1> QED BY <1>3 DEF P!Call, Users!Call, P!localVars, P!kernelVars, P!tableVars,
           Users!localVars, Users!kernelVars, Users!tableVars

LEMMA ProcsQuit ==
    ASSUME Inv, NEW p \in Procs, terminateReal(p)
    PROVE  Users!terminate(p) /\ Unseen(p)
<1>1. pc[p] = "quit" /\ p \in ready /\ ~halted
  BY DEF terminateReal, P!At
<1>2. "t_lock" \in P!Labels
  BY ProcLabels
<1>3. Users!Goto(p, "t_lock") /\ ProcMove(p)
  BY <1>1, <1>2, ProcGoto DEF terminateReal
<1>4. /\ userPc[p] = "user"
      /\ semPc[p] \in {"user", "quit"} /\ semPc' = [semPc EXCEPT ![p] = "user"]
      /\ UNCHANGED <<userMbox, userReady, semMbox, semReady>>
  BY <1>1, <1>3, ProcMoveLemma DEF terminateReal, procVars
<1>5. Users!At(p, "user")
  BY <1>1, <1>4 DEF Users!At, userReady
<1> QED BY <1>3, <1>4, <1>5
        DEF terminateReal, Unseen, procVars, Users!terminate, Users!Call, Users!mailboxVars,
            Users!localVars, Users!kernelVars, Users!tableVars

LEMMA ProcsStep ==
    ASSUME Inv, RoomEnough, NEW p \in Procs,
           \/ Fork1(p) \/ Spawned(p) \/ NotSpawned(p) \/ Waited(p) \/ ProcReturn(p)
           \/ terminateReal(p) \/ ProcStep(p)
           \/ spawn(p) \/ waitHandler(p) \/ terminate(p) \/ nullsys3(p)
           \/ getPID(p) \/ getTimeOfDay(p) \/ cpuTime(p)
    PROVE  Users!Next /\ Unseen(p) /\ UNCHANGED semVars
<1>1. UNCHANGED semVars
  BY DEF Fork1, Spawned, NotSpawned, Waited, ProcReturn, terminateReal, ProcStep,
         spawn, waitHandler, terminate, nullsys3, getPID, getTimeOfDay, cpuTime
<1>2. CASE Fork1(p) \/ Spawned(p) \/ NotSpawned(p) \/ Waited(p) \/ ProcReturn(p)
           \/ ProcStep(p)
  <2>1. Users!HandlerStep(p) /\ Unseen(p)
    BY <1>2, ProcsFork, ProcsSend, ProcsRelease, ProcsEnds, ProcsLock, ProcsUnlock,
       ProcsCreate, ProcsSpawnSteps, ProcsReceive, ProcsTerminateSteps
       DEF Fork1, Spawned, NotSpawned, Waited, ProcReturn, ProcStep, Users!HandlerStep
  <2> QED BY <1>1, <2>1 DEF Users!Next
<1>3. CASE terminateReal(p)
  BY <1>1, <1>3, ProcsQuit DEF Users!Next
<1>4. CASE spawn(p) \/ waitHandler(p) \/ terminate(p) \/ nullsys3(p)
           \/ getPID(p) \/ getTimeOfDay(p) \/ cpuTime(p)
  <2>0. {"s_create", "w_join", "t_lock", "return"} \subseteq P!Labels
    BY ProcLabels
  <2>1. P!spawn(p) \/ \E l \in {"w_join", "t_lock", "return"} : P!Call(p, l)
    BY <1>4 DEF spawn, waitHandler, terminate, nullsys3, getPID, getTimeOfDay, cpuTime
  <2>2. CASE P!spawn(p)
    <3>1. Users!Call(p, "s_create") /\ Unseen(p)
      BY <2>0, <2>2, ProcsCall DEF P!spawn
    <3> QED BY <1>1, <2>2, <3>1 DEF P!spawn, Users!spawn, Users!Next
  <2>3. ASSUME NEW l \in {"w_join", "t_lock", "return"}, P!Call(p, l)
        PROVE  Users!Next /\ Unseen(p)
    <3>1. Users!Call(p, l) /\ Unseen(p)
      BY <2>0, <2>3, ProcsCall
    <3> QED BY <3>1 DEF Users!waitHandler, Users!terminate, Users!otherCall, Users!Next
  <2> QED BY <1>1, <2>1, <2>2, <2>3
<1> QED BY <1>1, <1>2, <1>3, <1>4

----------------------------------------------------------------------------
(* The invariant.                                                          *)

LEMMA UnseenElsewhere ==
    ASSUME NEW p \in Procs, Unseen(p), UNCHANGED semVars, Users!UserInv'
    PROVE  Sems!Elsewhere(p)
<1>1. zapped' \subseteq Procs
  BY DEF Users!UserInv, Users!IInv, Users!TypeInv, Users!TypeOK
<1> QED BY <1>1 DEF Unseen, semVars, Sems!Elsewhere, Sems!Goto, Sems!mailboxVars,
           Sems!tableVars, Sems!seenVars

LEMMA StutterViews ==
    ASSUME UNCHANGED vars
    PROVE  UNCHANGED Users!vars /\ UNCHANGED Sems!vars
<1>1. /\ UNCHANGED mailboxVars /\ UNCHANGED <<pc, zapped>>
      /\ UNCHANGED semVars /\ UNCHANGED procVars
  BY DEF vars
<1>2. UserBoxes' = UserBoxes
  BY <1>1 DEF UserBoxes, EMPTY, procVars
<1>3. /\ UNCHANGED <<userMbox, userPc, userReady, semMbox, semPc, semReady>>
  BY <1>1, <1>2 DEF mailboxVars, userMbox, userPc, userReady, semMbox, semPc, semReady,
                    Boxes, ClosedBox
<1> QED BY <1>1, <1>3 DEF semVars, procVars, Users!vars, Users!mailboxVars,
           Users!kernelVars, Users!tableVars, Users!localVars, Sems!vars, Sems!mailboxVars,
           Sems!tableVars, Sems!seenVars

LEMMA CompositionStep ==
    ASSUME Inv, RoomEnough, WellBehaved, [Next]_vars
    PROVE  /\ Inv'
           /\ [Users!Next]_(Users!vars)
           /\ [Sems!Counting!Next]_(Sems!Counting!vars)
<1>1. TypeInv' /\ LocksInv'
  <2>1. CASE Next
    <3>1. PICK p \in Dispatched : Step(p)
      BY <2>1 DEF Next
    <3>2. Running(p)
      BY <3>1 DEF Dispatched, CanRun, Running
    <3> QED BY <3>1, <3>2, StepLocks DEF Inv
  <2>2. CASE UNCHANGED vars
    BY <2>2, StutterLocks DEF Inv
  <2> QED BY <2>1, <2>2
<1>2. CASE UNCHANGED vars
  <2>1. UNCHANGED Users!vars /\ UNCHANGED Sems!vars
    BY <1>2, StutterViews
  <2>2. Users!UserInv'
    BY <2>1, UsersNext DEF Inv
  <2>3. SemInv' /\ [Sems!Counting!Next]_(Sems!Counting!vars)
    BY <2>1, SemsNext DEF Inv
  <2> QED BY <1>1, <2>1, <2>2, <2>3 DEF Inv
<1>3. ASSUME NEW p \in Procs, Step(p)
      PROVE  /\ Users!UserInv' /\ SemInv'
             /\ [Users!Next]_(Users!vars)
             /\ [Sems!Counting!Next]_(Sems!Counting!vars)
  <2>1. CASE SemStep(p) \/ SemReturn(p) \/ SemPCheck(p)
             \/ semCreate(p) \/ semP(p) \/ semV(p) \/ semFree(p)
    <3>1. Sems!Next /\ UNCHANGED Users!vars
      BY <2>1, SemsStep, SemsCall
    <3>2. Users!UserInv'
      BY <3>1, UsersNext DEF Inv
    <3>3. SemInv' /\ [Sems!Counting!Next]_(Sems!Counting!vars)
      BY <3>1, SemsNext DEF Inv
    <3> QED BY <3>1, <3>2, <3>3
  <2>2. CASE \/ Fork1(p) \/ Spawned(p) \/ NotSpawned(p) \/ Waited(p) \/ ProcReturn(p)
             \/ terminateReal(p) \/ ProcStep(p)
             \/ spawn(p) \/ waitHandler(p) \/ terminate(p) \/ nullsys3(p)
             \/ getPID(p) \/ getTimeOfDay(p) \/ cpuTime(p)
    <3>1. Users!Next /\ Unseen(p) /\ UNCHANGED semVars
      BY <2>2, ProcsStep
    <3>2. Users!UserInv'
      BY <3>1, UsersNext DEF Inv
    <3>3. SemInv' /\ UNCHANGED Sems!Counting!vars
      BY <3>1, <3>2, UnseenElsewhere, SemsElsewhere DEF Inv
    <3> QED BY <3>1, <3>2, <3>3
  <2> QED BY <1>3, <2>1, <2>2 DEF Step
<1>4. Dispatched \subseteq Procs
  BY DEF Dispatched
<1> QED BY <1>1, <1>2, <1>3, <1>4 DEF Next, Inv

LEMMA InitViews ==
    ASSUME Init
    PROVE  Users!Init /\ Sems!Init
<1>1. /\ mbox = [b \in Boxes |-> IF b = 0 THEN NewBox(1)
                                 ELSE IF b = 1 THEN NewBox(1) ELSE ClosedBox]
      /\ ready = Procs /\ zapped = {}
      /\ mboxID = [p \in Procs |-> P!EMPTY]
      /\ pc = [p \in Procs |-> IF p = Start2 THEN "s_create" ELSE "none"]
  BY DEF Init, P!ProcInit, P!ProcTableMutexSlots, S!semsMutex
<1>2. UserBoxes = {1}
  BY <1>1, Ids DEF UserBoxes
<1>3. Start2 \in Procs
  BY SystemAssumption
<1>4. \A p \in Procs : /\ userPc[p] = IF p = Start2 THEN "s_create" ELSE "none"
                       /\ semPc[p] = "user"
  <2>1. {"s_create", "none"} \subseteq P!Labels \ {"user"}
    BY ProcLabels DEF P!Labels
  <2> QED BY <1>1, <2>1, LabelSides DEF userPc, semPc
<1>5. /\ userPc = [p \in Procs |-> IF p = Start2 THEN "s_create" ELSE "none"]
      /\ semPc = [p \in Procs |-> "user"]
  <2>1. userPc = [p \in Procs |-> userPc[p]] /\ semPc = [p \in Procs |-> semPc[p]]
    BY DEF userPc, semPc
  <2> QED BY <1>4, <2>1
<1>6. userReady = Procs /\ semReady = Procs
  BY <1>1 DEF userReady, semReady
<1>7. /\ userMbox = [b \in Boxes |-> IF b = 1 THEN NewBox(1) ELSE ClosedBox]
      /\ semMbox = [b \in Boxes |-> IF b = 0 THEN NewBox(1) ELSE ClosedBox]
  <2>1. \A b \in Boxes : /\ userMbox[b] = IF b = 1 THEN NewBox(1) ELSE ClosedBox
                         /\ semMbox[b] = IF b = 0 THEN NewBox(1) ELSE ClosedBox
    BY <1>1, <1>2 DEF userMbox, semMbox
  <2>2. /\ userMbox = [b \in Boxes |-> userMbox[b]]
        /\ semMbox = [b \in Boxes |-> semMbox[b]]
    BY DEF userMbox, semMbox
  <2> QED BY <2>1, <2>2
<1>8. Users!NewBox(1) = NewBox(1) /\ Sems!NewBox(1) = NewBox(1)
      /\ Sems!ClosedBox = ClosedBox
  BY DEF Users!NewBox, Sems!NewBox, NewBox, Sems!ClosedBox, ClosedBox
<1>9. Users!Init
  BY <1>1, <1>5, <1>6, <1>7, <1>8, Ids, ProcNames
     DEF Init, P!ProcInit, Users!Init, Users!ProcInit, Users!ProcTableMutexSlots
<1>10. Sems!Init
  BY <1>1, <1>5, <1>6, <1>7, <1>8, Ids DEF Init, S!SemInit, Sems!Init, Sems!SemInit
<1> QED BY <1>9, <1>10

LEMMA ProcsFinite ==
    /\ IsFiniteSet(Procs) /\ Sems!IsFiniteSet(Procs)
<1>1. MAXPROC \in Nat
  BY SystemAssumption
<1>2. IsFiniteSet(Procs)
  BY <1>1, SystemAssumption, FS_Interval
<1>3. Sems!IsFiniteSet(Procs) <=> IsFiniteSet(Procs)
  BY DEF Sems!IsFiniteSet, IsFiniteSet
<1> QED BY <1>2, <1>3

LEMMA CompositionInit ==
    ASSUME Init, RoomEnough
    PROVE  Inv /\ Users!Init /\ Sems!Counting!Init
<1>1. Users!Init /\ Sems!Init
  BY InitViews
<1>2. TypeInv /\ LocksInv
  BY InitLocks
<1>3. Users!UserInv
  <2>1. Users!TypeInv
    BY <1>1, Users!InitTypes, SystemAssumption, MailboxAssumption, UsersConstants
  <2>2. Users!LockInv
    BY <1>1, Users!InitLock, SystemAssumption, MailboxAssumption, UsersConstants
  <2>3. Users!HandInv
    BY <1>1, Users!InitHand, SystemAssumption, MailboxAssumption, UsersConstants
  <2>4. Users!ListInv /\ Users!TerminateInv
    BY <1>1, Users!StartLists, SystemAssumption, MailboxAssumption, UsersConstants
  <2>5. Users!PidInv
    BY <1>1, Users!StartPids, SystemAssumption, MailboxAssumption, UsersConstants
  <2> QED BY <2>1, <2>2, <2>3, <2>4, <2>5 DEF Users!UserInv, Users!IInv
<1>4. Sems!NothingFreed
  BY SystemAssumption, MailboxAssumption DEF RoomEnough, Sems!NothingFreed
<1>5. Sems!MInv
  BY <1>1, <1>4, Sems!InitCount, SemsConstants
<1>6. Sems!UnitInv
  BY <1>1, Sems!InitUnits, SemsConstants
<1>7. Sems!NumInv
  BY <1>1, Sems!InitNum, SemsConstants
<1>8. Sems!Counting!Init
  BY <1>1, Sems!InitCounting, SemsConstants
<1>9. Sems!HeldInv
  BY <1>1, Sems!InitHeld, SemsConstants
<1>10. SemInv
  BY <1>5, <1>6, <1>7, <1>9, ProcsFinite DEF SemInv, Sems!UInv
<1> QED BY <1>1, <1>2, <1>3, <1>8, <1>10 DEF Inv

LEMMA InvAlways ==
    ASSUME RoomEnough
    PROVE  Spec /\ []WellBehaved => []Inv
<1>1. Init => Inv
  BY CompositionInit
<1>2. Inv /\ WellBehaved /\ [Next]_vars => Inv'
  BY CompositionStep
<1> QED BY <1>1, <1>2, PTL DEF Spec

(* The processes of phase 3 behave in the whole as UserProcs describes:    *)
(* every step of the handlers of phase3.c, those of the semaphores         *)
(* included, is a step of UserProcs on the mailboxes of the processes, or  *)
(* leaves them alone.  The end of a process that is zapped inside SemP     *)
(* (src/phase3.c:330) is the call of terminateReal that UserProcs has.     *)
THEOREM ProcessesRefined ==
    ASSUME RoomEnough
    PROVE  Spec /\ []WellBehaved => UsersRefined
<1>1. Init => Inv /\ Users!Init
  BY CompositionInit
<1>2. Inv /\ WellBehaved /\ [Next]_vars => Inv' /\ [Users!Next]_(Users!vars)
  BY CompositionStep
<1> QED BY <1>1, <1>2, PTL DEF Spec, UsersRefined, Users!Spec

(* semPReal and semVReal (src/phase3.c:710-773) implement a counting       *)
(* semaphore in the whole too, one that may lose a unit where              *)
(* MboxCondReceive does not return 1, though their mailboxes come from the *)
(* table that spawnReal and spawnLaunch take theirs from and give back.    *)
THEOREM SemaphoresRefined ==
    ASSUME RoomEnough
    PROVE  Spec /\ []WellBehaved => Sems!CountingSpec
<1>1. Init => Inv /\ Sems!Counting!Init
  BY CompositionInit
<1>2. Inv /\ WellBehaved /\ [Next]_vars => Inv' /\ [Sems!Counting!Next]_(Sems!Counting!vars)
  BY CompositionStep
<1> QED BY <1>1, <1>2, PTL DEF Spec, Sems!CountingSpec, Sems!Counting!Spec

----------------------------------------------------------------------------
(* What the components promise, in terms of the whole.                     *)

(* A label of a handler is the label of the component.                     *)
LEMMA SameLabel ==
    ASSUME Inv, NEW p \in Procs
    PROVE  /\ \A l \in P!Labels \ {"user"} : userPc[p] = l <=> pc[p] = l
           /\ \A l \in S!Labels \ {"user"} : semPc[p] = l <=> pc[p] = l
           /\ \A l \in P!Labels \ {"user"} : pc[p] = l => semPc[p] = "user"
           /\ \A l \in S!Labels \ {"user"} : pc[p] = l => userPc[p] = "user"
<1>1. pc[p] \in S!Labels \cup P!Labels
  BY LabelSides DEF Inv, TypeInv
<1> QED BY <1>1, LabelSides DEF userPc, semPc

LEMMA PromisesHold == Inv => Promises
<1> SUFFICES ASSUME Inv PROVE Promises
  OBVIOUS
<1>1. /\ {"r_unlock", "t_quit", "z_zap", "s_lock", "s_init", "s_link"} \subseteq P!Labels \ {"user"}
  BY ProcLabels
<1>2. Users!UserInv /\ Users!IInv /\ Users!HandInv /\ Users!TypeOK
  BY DEF Inv, Users!UserInv, Users!IInv, Users!TypeInv
<1>3. P!OwnProgram
  BY <1>2, ProcNames DEF Users!HandInv, Users!OwnProgram, P!OwnProgram
<1>4. P!ChildListsMatch
  <2> SUFFICES ASSUME ~halted, NEW p \in Procs, kstate[p] = "active"
               PROVE  P!ChildList(p) = {c \in P!Kids(p) : P!Listed(c)}
    BY DEF P!ChildListsMatch
  <2>1. Users!ChildList(p) = Users!List(p)
    BY <1>2, Users!ChildListLemma, SystemAssumption, MailboxAssumption, UsersConstants
       DEF Users!UserInv
  <2>2. ASSUME NEW c \in P!Kids(p)
        PROVE  Users!Listed(c) <=> P!Listed(c)
    <3>1. c \in Procs /\ kparent[c] = p
      BY <2>2 DEF P!Kids
    <3>2. /\ userPc[c] \in {"r_unlock", "t_quit"} <=> pc[c] \in {"r_unlock", "t_quit"}
          /\ userPc[p] \in {"s_lock", "s_init", "s_link"}
                <=> pc[p] \in {"s_lock", "s_init", "s_link"}
      BY <1>1, <3>1, SameLabel
    <3> QED BY <3>1, <3>2 DEF Users!Listed, P!Listed
  <2> QED BY <2>1, <2>2, ProcNames DEF Users!List
<1>5. P!ZapsOwnChildren
  <2> SUFFICES ASSUME NEW p \in Procs, pc[p] = "z_zap"
               PROVE  /\ P!IsLive(pidToZap[p]) \/ P!HasQuit(pidToZap[p])
                      /\ kparent[P!Slot(pidToZap[p])] = p
    BY DEF P!ZapsOwnChildren
  <2>1. userPc[p] = "z_zap"
    BY <1>1, SameLabel
  <2>2. /\ Users!IsLive(pidToZap[p]) \/ Users!HasQuit(pidToZap[p])
        /\ Users!Slot(pidToZap[p]) \in Users!Kids(p)
    BY <1>2, <2>1, Users!ZapsKid, SystemAssumption, MailboxAssumption, UsersConstants
       DEF Users!UserInv
  <2> QED BY <2>2, ProcNames DEF P!Kids
<1>6. P!ChildrenFirst
  <2> SUFFICES ASSUME NEW p \in Procs, pc[p] = "t_quit", NEW c \in P!ActiveKids(p)
               PROVE  pc[c] \in {"r_unlock", "t_quit"}
    BY DEF P!ChildrenFirst
  <2>1. userPc[p] = "t_quit" /\ c \in Procs /\ c \in Users!ActiveKids(p)
    BY <1>1, SameLabel, ProcNames DEF P!ActiveKids, P!Kids
  <2>2. Users!List(p) = {}
    BY <1>2, <2>1 DEF Users!UserInv, Users!TerminateInv, Users!LoopInv, Users!LeaveSteps
  <2>3. ~Users!Listed(c) /\ kstate[c] = "active" /\ kparent[c] = p
    BY <2>1, <2>2 DEF Users!List, Users!ActiveKids, Users!Kids
  <2>4. userPc[c] \in {"r_unlock", "t_quit"}
    BY <2>1, <2>3 DEF Users!Listed
  <2> QED BY <1>1, <2>1, <2>4, SameLabel
<1> QED BY <1>3, <1>4, <1>5, <1>6 DEF Promises

LEMMA SemPromisesHold == Inv => SemPromises
<1> SUFFICES ASSUME Inv PROVE SemPromises
  OBVIOUS
<1>1. Sems!MInv /\ Sems!UnitInv /\ Sems!NumInv /\ Sems!IsFiniteSet(Procs) /\ Sems!TypeOK
  BY DEF Inv, SemInv, Sems!UInv, Sems!MInv, Sems!IInv
<1>2. S!SemMutexExclusion
  <2> SUFFICES ASSUME NEW p \in Procs, NEW q \in Procs,
                      S!HoldsSemaphore(p), S!HoldsSemaphore(q), sem[p] = sem[q]
               PROVE  p = q
    BY DEF S!SemMutexExclusion
  <2>1. S!SemaphoreSteps \subseteq S!Labels \ {"user"} /\ Sems!SemaphoreSteps = S!SemaphoreSteps
    BY DEF S!SemaphoreSteps, S!Labels, S!Steps, S!PSteps, S!VSteps, Sems!SemaphoreSteps
  <2>2. \A r \in {p, q} : Sems!HoldsSemaphore(r)
    BY <2>1, SameLabel DEF S!HoldsSemaphore, Sems!HoldsSemaphore, semReady
  <2> QED BY <1>1, <2>2 DEF Sems!MInv, Sems!CountInv, Sems!HolderInv, Sems!SemMutexExclusion
<1>3. S!NoPhantomUnit
  <2> SUFFICES ASSUME NEW h \in S!Slots PROVE units[h] >= 0
    BY DEF S!NoPhantomUnit
  <2>1. /\ Sems!UnitsOf(h) /\ Sems!SlotInv(h) /\ count[h] \in Int /\ units[h] \in Int
    BY <1>1, Ids DEF Sems!UnitInv, Sems!MInv, Sems!CountInv, Sems!TypeOK
  <2>2. Sems!Cardinality(Sems!Pending(h)) \in Nat
    BY <1>1, Ids, Sems!PendingFinite, SemsConstants
  <2> QED BY <2>1, <2>2, Ids DEF Sems!UnitsOf, Sems!SlotInv, Sems!EMPTY
<1>4. S!TableAccounting
  <2> SUFFICES ASSUME \A p \in Procs : ~S!HoldsTable(p)
               PROVE  currentNumSems = S!Cardinality({h \in S!Slots : count[h] # S!EMPTY})
    BY DEF S!TableAccounting
  <2>1. ~Sems!Making
    <3>1. Sems!MakeSteps \subseteq S!Labels \ {"user"} /\ Sems!MakeSteps \subseteq S!TableSteps
          /\ Sems!MakeSteps \cap {"c_slot", "p_test", "v_test", "p_check"} = {}
      BY DEF Sems!MakeSteps, S!Labels, S!Steps, S!CreateSteps, S!TableSteps
    <3> SUFFICES ASSUME NEW p \in Procs, semPc[p] \in Sems!MakeSteps PROVE FALSE
      BY DEF Sems!Making
    <3>2. pc[p] \in Sems!MakeSteps
      BY <3>1, SameLabel
    <3>3. semPc[p] # "user"
      BY <3>1
    <3>4. p \in semReady
      BY <1>1, <3>1 DEF Sems!MInv, Sems!CountInv, Sems!ProcInv
    <3> QED BY <3>1, <3>2, <3>3, <3>4 DEF semReady, S!HoldsTable
  <2>2. currentNumSems = Sems!Cardinality(Sems!InUse)
    BY <1>1, <2>1, Sems!PendingFinite DEF Sems!NumInv, Sems!MInv, Sems!IInv, Sems!TypeOK
  <2>3. Sems!InUse = {h \in S!Slots : count[h] # S!EMPTY}
    BY Ids DEF Sems!InUse
  <2>4. \A Q : Sems!Cardinality(Q) = S!Cardinality(Q)
    BY Zenon DEF Sems!Cardinality, S!Cardinality
  <2> QED BY <2>2, <2>3, <2>4
<1> QED BY <1>2, <1>3, <1>4 DEF SemPromises

(* In the whole, a process runs the program it was spawned for, the child  *)
(* lists are the kernel's, and terminateReal (src/phase3.c:653-686) zaps   *)
(* its own children and passes over none.                                  *)
THEOREM ProcessesKeepPromises ==
    ASSUME RoomEnough
    PROVE  Spec /\ []WellBehaved => []Promises
BY InvAlways, PromisesHold, PTL

(* In the whole, one process at a time is between lock and unlock of a     *)
(* semaphore (src/phase3.c:716-771), whoever is zapped there, nobody gets  *)
(* through SemP without a unit, and currentNumSems counts the semaphores.  *)
THEOREM SemaphoresKeepPromises ==
    ASSUME RoomEnough
    PROVE  Spec /\ []WellBehaved => []SemPromises
BY InvAlways, SemPromisesHold, PTL

----------------------------------------------------------------------------
(* The end of start2.                                                      *)

LEMMA Start2Slot == start2 = Start2 /\ start2 \in Procs
BY SystemAssumption DEF start2, P!Slot

(* No process has anything left to do, and the mailboxes of the handshakes *)
(* have been released.                                                     *)
LEMMA AllGone ==
    ASSUME Inv, Completed
    PROVE  /\ \A p \in Procs : pc[p] = "none"
           /\ UserBoxes = {1}
<1>1. Users!UserInv /\ kstate[Start2] = "quit"
  BY Start2Slot DEF Inv, Completed
<1>2. \A p \in Procs : userPc[p] = "none"
  BY <1>1, Users!AllQuit, SystemAssumption, MailboxAssumption, UsersConstants
<1>3. "none" \in P!Labels \ {"user"}
  BY DEF P!Labels
<1>4. {b \in Users!Boxes : userMbox[b].open} = {1}
  BY <1>1, Users!NothingLeftHolds, SystemAssumption, MailboxAssumption, UsersConstants
     DEF Users!NothingLeft
<1>5. ASSUME NEW b \in UserBoxes PROVE b = 1
  <2>1. b \in Boxes /\ mbox[b].open
    BY UserBoxesOpen
  <2>2. userMbox[b].open
    BY <2>1 DEF userMbox
  <2> QED BY <1>4, <2>1, <2>2, Ids
<1>6. 1 \in UserBoxes
  BY DEF UserBoxes
<1> QED BY <1>2, <1>3, <1>5, <1>6, SameLabel

(* Every mailbox that is open then is a mutex of a table or a semaphore's. *)
LEMMA OpenAtEnd ==
    ASSUME Inv, Completed
    PROVE  {b \in Boxes : mbox[b].open} =
             ({S!semsMutex, 1} \cup {mutex[h] : h \in S!Slots}
                \cup {blockingMbox[h] : h \in S!Slots}) \ {EMPTY}
<1>1. /\ mbox[0].open /\ mbox[1].open
      /\ 0 \in Boxes /\ 1 \in Boxes /\ EMPTY \notin Boxes /\ S!semsMutex = 0
  BY Ids DEF Inv, LocksInv, Mutexes, LockInv
<1>2. ASSUME NEW b \in Boxes, mbox[b].open
      PROVE  b \in {0, 1} \/ \E h \in S!Slots : b = mutex[h] \/ b = blockingMbox[h]
  BY <1>2, MailboxOwners, AllGone
<1>3. ASSUME NEW h \in S!Slots, NEW b \in {mutex[h], blockingMbox[h]}, b # EMPTY
      PROVE  b \in Boxes /\ mbox[b].open
  <2>1. Sems!IsOpen(b)
    BY <1>3, SemMailboxesOpen
  <2>2. b \in Boxes /\ b \notin UserBoxes
    BY <2>1, SemMailboxApart
  <2> QED BY <2>1, <2>2 DEF Sems!IsOpen, semMbox
<1> QED BY <1>1, <1>2, <1>3

(* All mailboxes are empty then: who was inside a mutex has left it.       *)
LEMMA EmptyAtEnd ==
    ASSUME Inv, Completed, NEW b \in Boxes
    PROVE  mbox[b].used = 0
<1>1. mbox[b].used \in Nat
  BY DEF Inv, TypeInv, MailboxTypeOK, Mailbox
<1>2. CASE ~mbox[b].open
  BY <1>2 DEF Inv, TypeInv, QueuesOK, ClosedBox
<1>3. CASE b \in Mutexes
  <2>1. \A p \in Procs : pc[p] \notin Within(b)
    BY AllGone DEF Within, Inside, S!TableSteps, P!InsideSteps
  <2> QED BY <1>1, <1>3, <2>1 DEF Inv, LocksInv, LockInv
<1>4. ASSUME NEW h \in S!Slots, b = mutex[h] \/ b = blockingMbox[h]
      PROVE  mbox[b].used = 0
  <2>1. b # EMPTY /\ b \notin UserBoxes /\ semMbox[b] = mbox[b]
    BY <1>4, Ids, SemMailboxesApart DEF semMbox
  <2>2. Sems!SlotInv(h) /\ h \in Sems!Slots
    BY Ids DEF Inv, SemInv, Sems!UInv, Sems!MInv, Sems!CountInv
  <2>3. CASE b = blockingMbox[h]
    BY <2>1, <2>2, <2>3, Ids DEF Sems!SlotInv
  <2>4. CASE b = mutex[h]
    <3>1. mbox[b].used <= 1
      BY <2>1, <2>2, <2>4, Ids DEF Sems!SlotInv
    <3>2. \A q \in Procs : semPc[q] \notin Sems!SemaphoreSteps
      <4>1. "none" \notin S!Labels
        BY DEF S!Labels, S!Steps, S!CreateSteps, S!PSteps, S!VSteps, S!FreeSteps
      <4> QED BY <4>1, AllGone DEF semPc, Sems!SemaphoreSteps
    <3>3. mbox[b].used # 1
      BY <2>1, <2>2, <2>4, <3>2, Ids DEF Inv, SemInv, Sems!HeldInv, Sems!HoldsSemaphore
    <3> QED BY <1>1, <3>1, <3>3
  <2> QED BY <1>4, <2>3, <2>4
<1>5. CASE mbox[b].open
  BY <1>3, <1>4, <1>5, MailboxOwners, AllGone, Ids DEF Mutexes
<1> QED BY <1>2, <1>5

LEMMA CleanEndHolds == Inv => CleanEnd
<1> SUFFICES ASSUME Inv, Completed PROVE CleanEnd
  BY DEF CleanEnd
<1>1. \A p \in Procs : pc[p] = "none"
  BY AllGone
<1>2. ASSUME NEW b \in Boxes, NEW q \in Waiting(b) PROVE FALSE
  <2>1. q \in Procs /\ pc[q] = "none"
    BY <1>1, WaitingSides
  <2>2. b \in UserBoxes
    BY <2>1, WaitingSides
       DEF S!Labels, S!Steps, S!CreateSteps, S!PSteps, S!VSteps, S!FreeSteps
  <2>3. b = 1
    BY <2>2, AllGone
  <2>4. pc[q] \in Inside(1)
    BY <2>3 DEF Inv, LocksInv, Mutexes, LockInv
  <2> QED BY <2>1, <2>4 DEF Inside, S!TableSteps, P!InsideSteps
<1>3. /\ \A p \in Procs : kstate[p] = "active" => p \in 1 .. Start2 - 1
      /\ child[start2] = P!NULL
  <2>1. Users!NothingLeft
    BY Users!NothingLeftHolds, SystemAssumption, MailboxAssumption, UsersConstants DEF Inv
  <2> QED BY <2>1, Start2Slot, ProcNames DEF Users!NothingLeft, Completed
<1>4. currentNumSems = Cardinality({h \in S!Slots : count[h] # EMPTY})
  <2>1. \A p \in Procs : ~S!HoldsTable(p)
    BY <1>1 DEF S!HoldsTable, S!TableSteps
  <2>2. \A Q : S!Cardinality(Q) = Cardinality(Q)
    BY Zenon DEF S!Cardinality, Cardinality
  <2> QED BY <2>1, <2>2, SemPromisesHold, Ids DEF SemPromises, S!TableAccounting
<1> QED BY <1>1, <1>2, <1>3, <1>4, OpenAtEnd, EmptyAtEnd DEF CleanEnd

(* When start2 has quit, nothing is left of what ran: the mailboxes that   *)
(* are open are the two mutexes and those of the semaphores, all of them   *)
(* are free and nobody waits, no process of phase 3 is active or in the    *)
(* child list of start2, and currentNumSems is the number of semaphores,   *)
(* whoever was zapped in the middle of its handler and quit there          *)
(* (src/phase3.c:653-686).                                                 *)
THEOREM EndsClean ==
    ASSUME RoomEnough
    PROVE  Spec /\ []WellBehaved => []CleanEnd
BY InvAlways, CleanEndHolds, PTL
=============================================================================
