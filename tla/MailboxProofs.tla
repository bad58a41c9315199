--------------------------- MODULE MailboxProofs ---------------------------
(***************************************************************************)
(* What the mailbox operations preserve: the types of the mailbox table    *)
(* and QueuesOK.                                                           *)
(***************************************************************************)
EXTENDS Mailboxes, TLAPS

(* Dropping the first element of a queue without repetitions removes that  *)
(* process and no other.                                                   *)
LEMMA TailLemma ==
    ASSUME NEW S, NEW s \in Seq(S), s # << >>
    PROVE  /\ Head(s) \in Members(s)
           /\ Members(s) \subseteq S
           /\ Tail(s) \in Seq(S)
           /\ Members(Tail(s)) \subseteq Members(s)
           /\ Members(s) = Members(Tail(s)) \cup {Head(s)}
           /\ NoRepeats(s) => /\ NoRepeats(Tail(s))
                              /\ Head(s) \notin Members(Tail(s))
<1>1. /\ Len(s) \in Nat \ {0}
      /\ Head(s) = s[1]
      /\ Tail(s) \in Seq(S)
      /\ Len(Tail(s)) = Len(s) - 1
      /\ \A i \in 1 .. Len(s) - 1 : Tail(s)[i] = s[i + 1]
  OBVIOUS
<1>2. \A i \in 1 .. Len(s) : s[i] \in S
  OBVIOUS
<1>3. Members(s) = Members(Tail(s)) \cup {Head(s)}
  <2>1. \A x \in Members(s) : x = Head(s) \/ x \in Members(Tail(s))
    <3> SUFFICES ASSUME NEW i \in 1 .. Len(s), i # 1
                 PROVE  s[i] \in Members(Tail(s))
      BY <1>1 DEF Members
    <3>1. i - 1 \in 1 .. Len(s) - 1
      BY <1>1
    <3>2. Tail(s)[i - 1] = s[i]
      BY <1>1, <3>1
    <3> QED BY <1>1, <3>1, <3>2 DEF Members
  <2>2. Members(Tail(s)) \cup {Head(s)} \subseteq Members(s)
    BY <1>1 DEF Members
  <2> QED BY <2>1, <2>2
<1>4. ASSUME NoRepeats(s)
      PROVE  NoRepeats(Tail(s)) /\ Head(s) \notin Members(Tail(s))
  BY <1>1, <1>4 DEF NoRepeats, Members
<1> QED BY <1>1, <1>2, <1>3, <1>4 DEF Members

(* Appending a process that is not in the queue.                           *)
LEMMA AppendLemma ==
    ASSUME NEW S, NEW s \in Seq(S), NEW x \in S
    PROVE  /\ Append(s, x) \in Seq(S)
           /\ Append(s, x) # << >>
           /\ Members(Append(s, x)) = Members(s) \cup {x}
           /\ NoRepeats(s) /\ x \notin Members(s) => NoRepeats(Append(s, x))
<1> DEFINE t == Append(s, x)
<1>1. /\ Len(s) \in Nat
      /\ t \in Seq(S)
      /\ Len(t) = Len(s) + 1
      /\ \A i \in 1 .. Len(s) : t[i] = s[i]
      /\ t[Len(s) + 1] = x
  OBVIOUS
<1>2. t # << >>
  BY <1>1
<1> HIDE DEF t
<1>3. Members(t) = Members(s) \cup {x}
  BY <1>1 DEF Members
<1>4. ASSUME NoRepeats(s), x \notin Members(s)
      PROVE  NoRepeats(t)
  BY <1>1, <1>4 DEF NoRepeats, Members
<1> QED BY <1>1, <1>2, <1>3, <1>4 DEF t

LEMMA StutterLemma ==
    ASSUME MailboxTypeOK, QueuesOK, UNCHANGED mailboxVars
    PROVE  MailboxTypeOK' /\ QueuesOK'
<1>1. mbox' = mbox /\ ready' = ready
  BY DEF mailboxVars
<1>2. \A b : Waiting(b)' = Waiting(b)
  BY <1>1 DEF Waiting
<1> QED BY <1>1, <1>2 DEF MailboxTypeOK, QueuesOK

(* Replacing one mailbox by r, whose queues are in order, and waking or    *)
(* blocking processes that are in no other queue.                          *)
LEMMA UpdateLemma ==
    ASSUME MailboxTypeOK, QueuesOK,
           NEW b \in Boxes, NEW r \in Mailbox,
           mbox' = [mbox EXCEPT ![b] = r],
           ready' \subseteq Procs,
           NoRepeats(r.senders), NoRepeats(r.receivers),
           r.senders = << >> \/ r.receivers = << >>,
           ~r.open => r = ClosedBox,
           (Members(r.senders) \cup Members(r.receivers)) \cap ready' = {},
           \A c \in Boxes \ {b} :
               /\ Waiting(c) \cap ready' = {}
               /\ Waiting(c) \cap (Members(r.senders) \cup Members(r.receivers))
                    = {}
    PROVE  MailboxTypeOK' /\ QueuesOK'
<1>1. /\ mbox'[b] = r
      /\ \A c \in Boxes \ {b} : mbox'[c] = mbox[c]
      /\ mbox' \in [Boxes -> Mailbox]
  BY DEF MailboxTypeOK
<1>2. /\ Waiting(b)' = Members(r.senders) \cup Members(r.receivers)
      /\ \A c \in Boxes \ {b} : Waiting(c)' = Waiting(c)
  BY <1>1 DEF Waiting, Members
<1>3. \A c, d \in Boxes : c # d => Waiting(c)' \cap Waiting(d)' = {}
  <2> TAKE c, d \in Boxes
  <2> HAVE c # d
  <2>1. CASE c = b
    BY <1>2, <2>1
  <2>2. CASE d = b
    BY <1>2, <2>2
  <2>3. CASE c # b /\ d # b
    BY <1>2, <2>3 DEF QueuesOK
  <2> QED BY <2>1, <2>2, <2>3
<1>4. ASSUME NEW c \in Boxes
      PROVE  /\ NoRepeats(mbox'[c].senders)
             /\ NoRepeats(mbox'[c].receivers)
             /\ mbox'[c].senders = << >> \/ mbox'[c].receivers = << >>
             /\ Waiting(c)' \cap ready' = {}
             /\ ~mbox'[c].open => mbox'[c] = ClosedBox
  <2>1. CASE c = b
    BY <1>1, <1>2, <2>1
  <2>2. CASE c # b
    BY <1>1, <1>2, <2>2 DEF QueuesOK
  <2> QED BY <2>1, <2>2
<1> QED BY <1>1, <1>3, <1>4 DEF MailboxTypeOK, QueuesOK, NoRepeats

(* A message taken from b wakes the first sender blocked on b, if any.     *)
LEMMA TakeLemma ==
    ASSUME MailboxTypeOK, QueuesOK, NEW b, HasMessage(b), TakeMessage(b)
    PROVE  MailboxTypeOK' /\ QueuesOK'
<1>1. b \in Boxes /\ mbox[b] \in Mailbox /\ mbox[b].open
  BY DEF HasMessage, IsOpen, MailboxTypeOK
<1>2. CASE mbox[b].senders # << >>
  <2> DEFINE s == mbox[b].senders
             r == [mbox[b] EXCEPT !.senders = Tail(s)]
  <2>1. /\ mbox' = [mbox EXCEPT ![b] = r]
        /\ ready' = ready \cup {Head(s)}
    BY <1>1, <1>2 DEF TakeMessage, MailboxTypeOK, Mailbox
  <2>2. /\ Head(s) \in Members(s)
        /\ Members(s) \subseteq Procs
        /\ Tail(s) \in Seq(Procs)
        /\ Members(Tail(s)) \subseteq Members(s)
        /\ NoRepeats(Tail(s))
        /\ Head(s) \notin Members(Tail(s))
    <3>1. s \in Seq(Procs) /\ NoRepeats(s)
      BY <1>1 DEF QueuesOK, Mailbox
    <3> HIDE DEF s
    <3> QED BY <3>1, <1>2, TailLemma DEF s
  <2>3. /\ mbox[b].receivers = << >>
        /\ Members(s) \subseteq Waiting(b)
        /\ Waiting(b) \cap ready = {}
    BY <1>1, <1>2 DEF QueuesOK, Waiting
  <2>4. /\ r \in Mailbox
        /\ r.senders = Tail(s) /\ r.receivers = << >> /\ r.open
    BY <1>1, <2>2, <2>3 DEF Mailbox
  <2>5. NoRepeats(<< >>) /\ Members(<< >>) = {}
    BY DEF NoRepeats, Members
  <2>6. ASSUME NEW c \in Boxes \ {b}
        PROVE  /\ Waiting(c) \cap ready' = {}
               /\ Waiting(c) \cap (Members(r.senders) \cup Members(r.receivers))
                    = {}
    <3>1. Waiting(c) \cap Waiting(b) = {} /\ Waiting(c) \cap ready = {}
      BY <1>1, <2>6 DEF QueuesOK
    <3> HIDE DEF r, s
    <3> QED BY <3>1, <2>1, <2>2, <2>3, <2>4, <2>5
  <2>7. (Members(r.senders) \cup Members(r.receivers)) \cap ready' = {}
    <3> HIDE DEF r, s
    <3> QED BY <2>1, <2>2, <2>3, <2>4, <2>5
  <2>8. ready' \subseteq Procs
    BY <2>1, <2>2 DEF MailboxTypeOK
  <2>9. NoRepeats(r.senders) /\ NoRepeats(r.receivers)
    BY <2>2, <2>4, <2>5
  <2> HIDE DEF r, s
  <2> QED BY <1>1, <2>1, <2>4, <2>6, <2>7, <2>8, <2>9, UpdateLemma
<1>3. CASE mbox[b].senders = << >>
  <2> DEFINE r == [mbox[b] EXCEPT !.used = @ - 1]
  <2>1. mbox' = [mbox EXCEPT ![b] = r] /\ ready' = ready
    BY <1>1, <1>3 DEF TakeMessage, MailboxTypeOK, Mailbox
  <2>2. /\ r \in Mailbox /\ r.open
        /\ r.senders = mbox[b].senders /\ r.receivers = mbox[b].receivers
    BY <1>1, <1>3 DEF HasMessage, Mailbox
  <2>3. /\ NoRepeats(r.senders) /\ NoRepeats(r.receivers)
        /\ r.senders = << >> \/ r.receivers = << >>
        /\ Members(r.senders) \cup Members(r.receivers) = Waiting(b)
        /\ ready' \subseteq Procs
    BY <1>1, <2>1, <2>2 DEF QueuesOK, Waiting, MailboxTypeOK
  <2>4. /\ Waiting(b) \cap ready' = {}
        /\ \A c \in Boxes \ {b} :
            Waiting(c) \cap ready' = {} /\ Waiting(c) \cap Waiting(b) = {}
    BY <1>1, <2>1 DEF QueuesOK
  <2> HIDE DEF r
  <2> QED BY <1>1, <2>1, <2>2, <2>3, <2>4, UpdateLemma
<1> QED BY <1>2, <1>3

(* Every operation keeps the table and the queues in order.  A process that *)
(* sends or receives is running, so it is in no queue yet.                 *)
LEMMA SendLemma ==
    ASSUME MailboxTypeOK, QueuesOK, NEW p \in ready, NEW b, MboxSend(p, b)
    PROVE  MailboxTypeOK' /\ QueuesOK'
<1>1. CASE ~IsOpen(b)
  BY <1>1, StutterLemma DEF MboxSend
<1>2. CASE IsOpen(b)
  <2>1. b \in Boxes /\ mbox[b] \in Mailbox /\ mbox[b].open /\ p \in Procs
    BY <1>2 DEF IsOpen, MailboxTypeOK
  <2>2. /\ NoRepeats(mbox[b].senders) /\ NoRepeats(mbox[b].receivers)
        /\ mbox[b].senders \in Seq(Procs) /\ mbox[b].receivers \in Seq(Procs)
        /\ Waiting(b) = Members(mbox[b].senders) \cup Members(mbox[b].receivers)
        /\ Waiting(b) \cap ready = {}
        /\ p \notin Waiting(b)
        /\ ready \subseteq Procs
    BY <2>1 DEF QueuesOK, Mailbox, Waiting, MailboxTypeOK
  <2>3. /\ \A c \in Boxes \ {b} :
            /\ Waiting(c) \cap ready = {}
            /\ Waiting(c) \cap Waiting(b) = {}
            /\ p \notin Waiting(c)
    BY <2>1 DEF QueuesOK
  <2>4. NoRepeats(<< >>) /\ Members(<< >>) = {}
    BY DEF NoRepeats, Members
  <2>5. CASE mbox[b].receivers # << >>
    <3> DEFINE s == mbox[b].receivers
               r == [mbox[b] EXCEPT !.receivers = Tail(s)]
    <3>1. mbox' = [mbox EXCEPT ![b] = r] /\ ready' = ready \cup {Head(s)}
      BY <1>2, <2>1, <2>5 DEF MboxSend, MailboxTypeOK, Mailbox
    <3>2. /\ Head(s) \in Members(s)
          /\ Members(s) \subseteq Procs
          /\ Tail(s) \in Seq(Procs)
          /\ Members(Tail(s)) \subseteq Members(s)
          /\ NoRepeats(Tail(s))
          /\ Head(s) \notin Members(Tail(s))
      <4>1. s \in Seq(Procs) /\ NoRepeats(s)
        BY <2>2
      <4> HIDE DEF s
      <4> QED BY <4>1, <2>5, TailLemma DEF s
    <3>3. mbox[b].senders = << >>
      BY <2>1, <2>5 DEF QueuesOK
    <3>4. /\ r \in Mailbox
          /\ r.senders = << >> /\ r.receivers = Tail(s) /\ r.open
      BY <2>1, <3>2, <3>3 DEF Mailbox
    <3> HIDE DEF r
    <3>5. /\ (Members(r.senders) \cup Members(r.receivers)) \cap ready' = {}
          /\ NoRepeats(r.senders) /\ NoRepeats(r.receivers)
          /\ ready' \subseteq Procs
      BY <2>2, <2>4, <3>1, <3>2, <3>4
    <3>6. ASSUME NEW c \in Boxes \ {b}
          PROVE  /\ Waiting(c) \cap ready' = {}
                 /\ Waiting(c) \cap
                        (Members(r.senders) \cup Members(r.receivers)) = {}
      BY <2>2, <2>3, <2>4, <3>1, <3>2, <3>4, <3>6
    <3> QED BY <2>1, <3>1, <3>4, <3>5, <3>6, UpdateLemma
  <2>6. CASE mbox[b].receivers = << >> /\ mbox[b].used < mbox[b].slots
    <3> DEFINE r == [mbox[b] EXCEPT !.used = @ + 1]
    <3>1. mbox' = [mbox EXCEPT ![b] = r] /\ ready' = ready
      BY <1>2, <2>1, <2>6 DEF MboxSend, MailboxTypeOK, Mailbox
    <3>2. /\ r \in Mailbox /\ r.open
          /\ r.senders = mbox[b].senders /\ r.receivers = mbox[b].receivers
      BY <2>1 DEF Mailbox
    <3> HIDE DEF r
    <3>3. Members(r.senders) \cup Members(r.receivers) = Waiting(b)
      BY <2>2, <3>2
    <3> QED BY <2>1, <2>2, <2>3, <2>6, <3>1, <3>2, <3>3, UpdateLemma
  <2>7. CASE mbox[b].receivers = << >> /\ mbox[b].used >= mbox[b].slots
    <3> DEFINE s == Append(mbox[b].senders, p)
               r == [mbox[b] EXCEPT !.senders = s]
    <3>1. mbox' = [mbox EXCEPT ![b] = r] /\ ready' = ready \ {p}
      BY <1>2, <2>1, <2>7 DEF MboxSend, MailboxTypeOK, Mailbox
    <3>2. /\ s \in Seq(Procs)
          /\ Members(s) = Members(mbox[b].senders) \cup {p}
          /\ NoRepeats(s)
      BY <2>1, <2>2, AppendLemma
    <3>3. /\ r \in Mailbox
          /\ r.senders = s /\ r.receivers = << >> /\ r.open
      BY <2>1, <2>7, <3>2 DEF Mailbox
    <3> HIDE DEF r, s
    <3>4. /\ Members(r.senders) \cup Members(r.receivers) = Waiting(b) \cup {p}
          /\ NoRepeats(r.senders) /\ NoRepeats(r.receivers)
      BY <2>2, <2>4, <2>7, <3>2, <3>3
    <3>5. /\ (Members(r.senders) \cup Members(r.receivers)) \cap ready' = {}
          /\ ready' \subseteq Procs
      BY <2>2, <3>1, <3>4
    <3>6. ASSUME NEW c \in Boxes \ {b}
          PROVE  /\ Waiting(c) \cap ready' = {}
                 /\ Waiting(c) \cap
                        (Members(r.senders) \cup Members(r.receivers)) = {}
      BY <2>3, <3>1, <3>4, <3>6
    <3> QED BY <2>1, <3>1, <3>3, <3>4, <3>5, <3>6, UpdateLemma
  <2> QED BY <1>2, <2>5, <2>6, <2>7 DEF MboxSend
<1> QED BY <1>1, <1>2

LEMMA ReceiveLemma ==
    ASSUME MailboxTypeOK, QueuesOK, NEW p \in ready, NEW b, MboxReceive(p, b)
    PROVE  MailboxTypeOK' /\ QueuesOK'
<1>1. CASE UNCHANGED mailboxVars
  BY <1>1, StutterLemma
<1>2. CASE HasMessage(b) /\ TakeMessage(b)
  BY <1>2, TakeLemma
<1>3. CASE /\ IsOpen(b)
           /\ ~HasMessage(b)
           /\ ready' = ready \ {p}
           /\ mbox' = [mbox EXCEPT ![b].receivers = Append(@, p)]
  <2>1. b \in Boxes /\ mbox[b] \in Mailbox /\ mbox[b].open /\ p \in Procs
    BY <1>3 DEF IsOpen, MailboxTypeOK
  <2>2. /\ NoRepeats(mbox[b].receivers)
        /\ mbox[b].receivers \in Seq(Procs)
        /\ mbox[b].senders = << >>
        /\ Waiting(b) = Members(mbox[b].senders) \cup Members(mbox[b].receivers)
        /\ Waiting(b) \cap ready = {}
        /\ p \notin Waiting(b)
        /\ ready \subseteq Procs
    BY <1>3, <2>1 DEF QueuesOK, Mailbox, Waiting, MailboxTypeOK, HasMessage
  <2>3. \A c \in Boxes \ {b} :
            /\ Waiting(c) \cap ready = {}
            /\ Waiting(c) \cap Waiting(b) = {}
            /\ p \notin Waiting(c)
    BY <2>1 DEF QueuesOK
  <2>4. NoRepeats(<< >>) /\ Members(<< >>) = {}
    BY DEF NoRepeats, Members
  <2> DEFINE s == Append(mbox[b].receivers, p)
             r == [mbox[b] EXCEPT !.receivers = s]
  <2>5. mbox' = [mbox EXCEPT ![b] = r] /\ ready' = ready \ {p}
    BY <1>3, <2>1 DEF MailboxTypeOK, Mailbox
  <2>6. /\ s \in Seq(Procs)
        /\ Members(s) = Members(mbox[b].receivers) \cup {p}
        /\ NoRepeats(s)
    BY <2>1, <2>2, AppendLemma
  <2>7. /\ r \in Mailbox
        /\ r.senders = << >> /\ r.receivers = s /\ r.open
    BY <2>1, <2>2, <2>6 DEF Mailbox
  <2> HIDE DEF r, s
  <2>8. /\ Members(r.senders) \cup Members(r.receivers) = Waiting(b) \cup {p}
        /\ NoRepeats(r.senders) /\ NoRepeats(r.receivers)
    BY <2>2, <2>4, <2>6, <2>7
  <2>9. /\ (Members(r.senders) \cup Members(r.receivers)) \cap ready' = {}
        /\ ready' \subseteq Procs
    BY <2>2, <2>5, <2>8
  <2>10. ASSUME NEW c \in Boxes \ {b}
         PROVE  /\ Waiting(c) \cap ready' = {}
                /\ Waiting(c) \cap
                        (Members(r.senders) \cup Members(r.receivers)) = {}
    BY <2>3, <2>5, <2>8, <2>10
  <2> QED BY <2>1, <2>5, <2>7, <2>8, <2>9, <2>10, UpdateLemma
<1> QED BY <1>1, <1>2, <1>3 DEF MboxReceive

LEMMA CondReceiveLemma ==
    ASSUME MailboxTypeOK, QueuesOK, NEW b, MboxCondReceive(b)
    PROVE  MailboxTypeOK' /\ QueuesOK'
<1>1. CASE UNCHANGED mailboxVars
  BY <1>1, StutterLemma
<1> QED BY <1>1, TakeLemma DEF MboxCondReceive

LEMMA CreateLemma ==
    ASSUME MailboxTypeOK, QueuesOK, NEW slots \in Nat, NEW id,
           MboxCreate(slots, id)
    PROVE  /\ MailboxTypeOK' /\ QueuesOK'
           /\ id \in Boxes \cup {EMPTY}
<1>1. CASE id = EMPTY /\ UNCHANGED mailboxVars
  BY <1>1, StutterLemma
<1>2. CASE /\ id \in FreeBoxes
           /\ mbox' = [mbox EXCEPT ![id] = NewBox(slots)]
           /\ UNCHANGED ready
  <2>1. id \in Boxes
    BY <1>2 DEF FreeBoxes
  <2> DEFINE r == NewBox(slots)
  <2>2. /\ r \in Mailbox
        /\ r.senders = << >> /\ r.receivers = << >> /\ r.open
    BY DEF NewBox, Mailbox
  <2>3. NoRepeats(<< >>) /\ Members(<< >>) = {}
    BY DEF NoRepeats, Members
  <2>4. \A c \in Boxes : Waiting(c) \cap ready' = {}
    BY <1>2 DEF QueuesOK
  <2>5. ready' \subseteq Procs /\ mbox' = [mbox EXCEPT ![id] = r]
    BY <1>2 DEF MailboxTypeOK
  <2> HIDE DEF r
  <2>6. MailboxTypeOK' /\ QueuesOK'
    BY <2>1, <2>2, <2>3, <2>4, <2>5, UpdateLemma
  <2> QED BY <2>1, <2>6
<1> QED BY <1>1, <1>2 DEF MboxCreate

LEMMA ReleaseLemma ==
    ASSUME MailboxTypeOK, QueuesOK, NEW b, MboxRelease(b)
    PROVE  MailboxTypeOK' /\ QueuesOK'
<1>1. CASE ~IsOpen(b)
  BY <1>1, StutterLemma DEF MboxRelease
<1>2. CASE IsOpen(b)
  <2>1. b \in Boxes
    BY <1>2 DEF IsOpen
  <2>2. /\ ClosedBox \in Mailbox
        /\ ClosedBox.senders = << >> /\ ClosedBox.receivers = << >>
    BY DEF ClosedBox, Mailbox
  <2>3. NoRepeats(<< >>) /\ Members(<< >>) = {}
    BY DEF NoRepeats, Members
  <2>4. /\ mbox' = [mbox EXCEPT ![b] = ClosedBox]
        /\ ready' = ready \cup Waiting(b)
    BY <1>2 DEF MboxRelease
  <2>5. \A c \in Boxes \ {b} : Waiting(c) \cap ready' = {}
    BY <2>1, <2>4 DEF QueuesOK
  <2>6. ready' \subseteq Procs
    <3>1. mbox[b].senders \in Seq(Procs) /\ mbox[b].receivers \in Seq(Procs)
      BY <2>1 DEF MailboxTypeOK, Mailbox
    <3>2. Waiting(b) \subseteq Procs
      BY <3>1 DEF Waiting, Members
    <3> QED BY <2>4, <3>2 DEF MailboxTypeOK
  <2> QED BY <2>1, <2>2, <2>3, <2>4, <2>5, <2>6, UpdateLemma
<1> QED BY <1>1, <1>2

----------------------------------------------------------------------------
(* What an operation on mailbox b leaves alone: every other mailbox, which *)
(* mailboxes are open, and all queues but for the processes W that begin to *)
(* wait on b; only processes that waited on b wake up.                     *)
Affects(b, W) ==
    /\ \A c \in Boxes : mbox'[c].open = mbox[c].open
    /\ \A c \in Boxes \ {b} : mbox'[c] = mbox[c]
    /\ \A c \in Boxes : \A q \in Waiting(c)' :
            q \in Waiting(c) \/ (c = b /\ q \in W)
    /\ \A q \in ready' \ ready : b \in Boxes /\ q \in Waiting(b)

LEMMA StutterEffect ==
    ASSUME NEW b, NEW W, UNCHANGED mailboxVars
    PROVE  Affects(b, W)
<1>1. mbox' = mbox /\ ready' = ready
  BY DEF mailboxVars
<1>2. \A c : Waiting(c)' = Waiting(c)
  BY <1>1 DEF Waiting
<1> QED BY <1>1, <1>2 DEF Affects

LEMMA UpdateEffect ==
    ASSUME MailboxTypeOK, NEW b \in Boxes, NEW W, NEW r,
           mbox' = [mbox EXCEPT ![b] = r],
           r.open = mbox[b].open,
           Members(r.senders) \subseteq Members(mbox[b].senders) \cup W,
           Members(r.receivers) \subseteq Members(mbox[b].receivers) \cup W,
           ready' \subseteq ready \cup Waiting(b)
    PROVE  Affects(b, W) /\ mbox'[b] = r
<1>1. /\ mbox'[b] = r
      /\ \A c \in Boxes \ {b} : mbox'[c] = mbox[c]
  BY DEF MailboxTypeOK
<1>2. \A c \in Boxes \ {b} : Waiting(c)' = Waiting(c)
  BY <1>1 DEF Waiting
<1>3. Waiting(b)' \subseteq Waiting(b) \cup W
  BY <1>1 DEF Waiting
<1> QED BY <1>1, <1>2, <1>3 DEF Affects

LEMMA TakeEffect ==
    ASSUME MailboxTypeOK, NEW b, HasMessage(b), TakeMessage(b)
    PROVE  /\ Affects(b, {})
           /\ mbox'[b].slots = mbox[b].slots
           /\ mbox'[b].receivers = mbox[b].receivers
           /\ \/ /\ mbox'[b].used = mbox[b].used
                 /\ mbox[b].senders # << >>
                 /\ ready' = ready \cup {Head(mbox[b].senders)}
              \/ /\ mbox[b].used > 0
                 /\ mbox'[b].used = mbox[b].used - 1
                 /\ ready' = ready
<1>1. b \in Boxes /\ mbox[b] \in Mailbox
  BY DEF HasMessage, IsOpen, MailboxTypeOK
<1>2. CASE mbox[b].senders # << >>
  <2> DEFINE s == mbox[b].senders
             r == [mbox[b] EXCEPT !.senders = Tail(s)]
  <2>1. mbox' = [mbox EXCEPT ![b] = r] /\ ready' = ready \cup {Head(s)}
    BY <1>1, <1>2 DEF TakeMessage, MailboxTypeOK, Mailbox
  <2>2. Head(s) \in Members(s) /\ Members(Tail(s)) \subseteq Members(s)
    <3>1. s \in Seq(Procs)
      BY <1>1 DEF Mailbox
    <3> HIDE DEF s
    <3> QED BY <3>1, <1>2, TailLemma DEF s
  <2>3. /\ r.open = mbox[b].open /\ r.slots = mbox[b].slots
        /\ r.used = mbox[b].used /\ r.senders = Tail(s)
        /\ r.receivers = mbox[b].receivers
    BY <1>1 DEF Mailbox
  <2> HIDE DEF r
  <2>4. /\ Members(r.senders) \subseteq Members(mbox[b].senders) \cup {}
        /\ Members(r.receivers) \subseteq Members(mbox[b].receivers) \cup {}
        /\ ready' \subseteq ready \cup Waiting(b)
    BY <2>1, <2>2, <2>3 DEF Waiting
  <2>5. Affects(b, {}) /\ mbox'[b] = r
    BY <1>1, <2>1, <2>3, <2>4, UpdateEffect
  <2> QED BY <1>2, <2>1, <2>3, <2>5
<1>3. CASE mbox[b].senders = << >>
  <2> DEFINE r == [mbox[b] EXCEPT !.used = @ - 1]
  <2>1. mbox' = [mbox EXCEPT ![b] = r] /\ ready' = ready /\ mbox[b].used > 0
    BY <1>1, <1>3 DEF TakeMessage, HasMessage, MailboxTypeOK, Mailbox
  <2>2. /\ r.open = mbox[b].open /\ r.slots = mbox[b].slots
        /\ r.used = mbox[b].used - 1 /\ r.senders = mbox[b].senders
        /\ r.receivers = mbox[b].receivers
    BY <1>1 DEF Mailbox
  <2> HIDE DEF r
  <2>3. Affects(b, {}) /\ mbox'[b] = r
    BY <1>1, <2>1, <2>2, UpdateEffect
  <2> QED BY <2>1, <2>2, <2>3
<1> QED BY <1>2, <1>3

LEMMA CondReceiveEffect ==
    ASSUME MailboxTypeOK, NEW b, MboxCondReceive(b)
    PROVE  Affects(b, {})
BY TakeEffect, StutterEffect DEF MboxCondReceive

LEMMA ReceiveEffect ==
    ASSUME MailboxTypeOK, NEW p, NEW b, MboxReceive(p, b)
    PROVE  Affects(b, {p})
<1>1. CASE ~IsOpen(b) /\ UNCHANGED mailboxVars
  BY <1>1, StutterEffect
<1>2. CASE HasMessage(b) /\ TakeMessage(b)
  BY <1>2, TakeEffect DEF Affects
<1>3. CASE /\ IsOpen(b)
           /\ ready' = ready \ {p}
           /\ mbox' = [mbox EXCEPT ![b].receivers = Append(@, p)]
  <2> DEFINE s == mbox[b].receivers
             r == [mbox[b] EXCEPT !.receivers = Append(s, p)]
  <2>1. b \in Boxes /\ mbox[b] \in Mailbox
    BY <1>3 DEF IsOpen, MailboxTypeOK
  <2>2. mbox' = [mbox EXCEPT ![b] = r]
    BY <1>3, <2>1 DEF MailboxTypeOK, Mailbox
  <2>3. /\ r.open = mbox[b].open
        /\ r.senders = mbox[b].senders /\ r.receivers = Append(s, p)
        /\ s \in Seq(Procs)
    BY <2>1 DEF Mailbox
  <2>4. Members(Append(s, p)) = Members(s) \cup {p}
    <3>1. s \in Seq(Procs \cup {p})
      BY <2>3
    <3> HIDE DEF s
    <3> QED BY <3>1, AppendLemma
  <2> HIDE DEF r
  <2> QED BY <1>3, <2>1, <2>2, <2>3, <2>4, UpdateEffect
<1> QED BY <1>1, <1>2, <1>3 DEF MboxReceive

LEMMA SendEffect ==
    ASSUME MailboxTypeOK, NEW p, NEW b, MboxSend(p, b)
    PROVE  /\ Affects(b, {p})
           /\ IsOpen(b) /\ mbox[b].receivers = << >> =>
                /\ mbox'[b].slots = mbox[b].slots
                /\ mbox'[b].receivers = << >>
                /\ \/ /\ mbox[b].used < mbox[b].slots
                      /\ mbox'[b].used = mbox[b].used + 1
                      /\ ready' = ready
                   \/ /\ mbox[b].used >= mbox[b].slots
                      /\ mbox'[b].used = mbox[b].used
                      /\ ready' = ready \ {p}
<1>1. CASE ~IsOpen(b)
  BY <1>1, StutterEffect DEF MboxSend
<1>2. CASE IsOpen(b)
  <2>1. b \in Boxes /\ mbox[b] \in Mailbox
    BY <1>2 DEF IsOpen, MailboxTypeOK
  <2>2. CASE mbox[b].receivers # << >>
    <3> DEFINE s == mbox[b].receivers
               r == [mbox[b] EXCEPT !.receivers = Tail(s)]
    <3>1. mbox' = [mbox EXCEPT ![b] = r] /\ ready' = ready \cup {Head(s)}
      BY <1>2, <2>1, <2>2 DEF MboxSend, MailboxTypeOK, Mailbox
    <3>2. Head(s) \in Members(s) /\ Members(Tail(s)) \subseteq Members(s)
      <4>1. s \in Seq(Procs)
        BY <2>1 DEF Mailbox
      <4> HIDE DEF s
      <4> QED BY <4>1, <2>2, TailLemma DEF s
    <3>3. /\ r.open = mbox[b].open
          /\ r.senders = mbox[b].senders /\ r.receivers = Tail(s)
      BY <2>1 DEF Mailbox
    <3> HIDE DEF r
    <3>4. /\ Members(r.senders) \subseteq Members(mbox[b].senders) \cup {p}
          /\ Members(r.receivers) \subseteq Members(mbox[b].receivers) \cup {p}
          /\ ready' \subseteq ready \cup Waiting(b)
      BY <3>1, <3>2, <3>3 DEF Waiting
    <3>5. Affects(b, {p})
      BY <2>1, <3>1, <3>3, <3>4, UpdateEffect
    <3> QED BY <2>2, <3>5
  <2>3. CASE mbox[b].receivers = << >> /\ mbox[b].used < mbox[b].slots
    <3> DEFINE r == [mbox[b] EXCEPT !.used = @ + 1]
    <3>1. mbox' = [mbox EXCEPT ![b] = r] /\ ready' = ready
      BY <1>2, <2>1, <2>3 DEF MboxSend, MailboxTypeOK, Mailbox
    <3>2. /\ r.open = mbox[b].open /\ r.slots = mbox[b].slots
          /\ r.used = mbox[b].used + 1 /\ r.senders = mbox[b].senders
          /\ r.receivers = mbox[b].receivers
      BY <2>1 DEF Mailbox
    <3> HIDE DEF r
    <3>3. Affects(b, {p}) /\ mbox'[b] = r
      BY <2>1, <3>1, <3>2, UpdateEffect
    <3> QED BY <2>3, <3>1, <3>2, <3>3
  <2>4. CASE mbox[b].receivers = << >> /\ mbox[b].used >= mbox[b].slots
    <3> DEFINE s == mbox[b].senders
               r == [mbox[b] EXCEPT !.senders = Append(s, p)]
    <3>1. mbox' = [mbox EXCEPT ![b] = r] /\ ready' = ready \ {p}
      BY <1>2, <2>1, <2>4 DEF MboxSend, MailboxTypeOK, Mailbox
    <3>2. /\ r.open = mbox[b].open /\ r.slots = mbox[b].slots
          /\ r.used = mbox[b].used /\ r.senders = Append(s, p)
          /\ r.receivers = mbox[b].receivers
          /\ s \in Seq(Procs)
      BY <2>1 DEF Mailbox
    <3>3. Members(Append(s, p)) = Members(s) \cup {p}
      <4>1. s \in Seq(Procs \cup {p})
        BY <3>2
      <4> HIDE DEF s
      <4> QED BY <4>1, AppendLemma
    <3> HIDE DEF r
    <3>4. Affects(b, {p}) /\ mbox'[b] = r
      BY <2>1, <3>1, <3>2, <3>3, UpdateEffect
    <3> QED BY <2>4, <3>1, <3>2, <3>4
  <2> QED BY <1>2, <2>2, <2>3, <2>4 DEF MboxSend
<1> QED BY <1>1, <1>2

LEMMA CreateEffect ==
    ASSUME MailboxTypeOK, QueuesOK, NEW slots \in Nat, NEW id,
           MboxCreate(slots, id)
    PROVE  /\ ready' = ready
           /\ \A c \in Boxes : Waiting(c)' \subseteq Waiting(c)
           /\ \/ id = EMPTY /\ mbox' = mbox
              \/ /\ id \in Boxes /\ ~mbox[id].open /\ mbox'[id].open
                 /\ \A c \in Boxes \ {id} : mbox'[c] = mbox[c]
<1>1. CASE id = EMPTY /\ UNCHANGED mailboxVars
  BY <1>1 DEF mailboxVars, Waiting
<1>2. CASE /\ id \in FreeBoxes
           /\ mbox' = [mbox EXCEPT ![id] = NewBox(slots)]
           /\ UNCHANGED ready
  <2>1. /\ id \in Boxes /\ ~mbox[id].open /\ mbox'[id] = NewBox(slots)
        /\ \A c \in Boxes \ {id} : mbox'[c] = mbox[c]
    BY <1>2 DEF FreeBoxes, MailboxTypeOK
  <2>2. mbox'[id].open /\ Waiting(id)' = {}
    BY <2>1 DEF NewBox, Waiting, Members
  <2>3. \A c \in Boxes : Waiting(c)' \subseteq Waiting(c)
    BY <2>1, <2>2 DEF Waiting
  <2> QED BY <1>2, <2>1, <2>2, <2>3
<1> QED BY <1>1, <1>2 DEF MboxCreate

LEMMA ReleaseEffect ==
    ASSUME MailboxTypeOK, NEW b, MboxRelease(b)
    PROVE  /\ \A c \in Boxes : Waiting(c)' \subseteq Waiting(c)
           /\ \A c \in Boxes \ {b} : mbox'[c] = mbox[c]
           /\ \A q \in ready' \ ready : b \in Boxes /\ q \in Waiting(b)
<1>1. CASE ~IsOpen(b)
  BY <1>1 DEF MboxRelease, mailboxVars, Waiting
<1>2. CASE IsOpen(b)
  <2>1. /\ b \in Boxes /\ mbox'[b] = ClosedBox
        /\ \A c \in Boxes \ {b} : mbox'[c] = mbox[c]
        /\ ready' = ready \cup Waiting(b)
    BY <1>2 DEF IsOpen, MboxRelease, MailboxTypeOK
  <2>2. Waiting(b)' = {}
    BY <2>1 DEF ClosedBox, Waiting, Members
  <2>3. \A c \in Boxes : Waiting(c)' \subseteq Waiting(c)
    BY <2>1, <2>2 DEF Waiting
  <2> QED BY <2>1, <2>3
<1> QED BY <1>1, <1>2


\* An operation of p blocks nobody but p.
LEMMA ReadyKept ==
    ASSUME NEW p, NEW b,
           \/ MboxSend(p, b) \/ MboxReceive(p, b) \/ MboxCondReceive(b)
           \/ MboxRelease(b) \/ \E slots, id : MboxCreate(slots, id)
    PROVE  ready \ {p} \subseteq ready'
BY DEF MboxSend, MboxReceive, MboxCondReceive, MboxRelease, MboxCreate, TakeMessage,
       mailboxVars
=============================================================================
