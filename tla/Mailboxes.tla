----------------------------- MODULE Mailboxes -----------------------------
(***************************************************************************)
(* The phase 2 mailboxes, as far as phase 3 uses them.  Phase 2 is a       *)
(* binary library of the repository (src/libraries); only its interface,   *)
(* src/phase2.h, is source.  Phase 3 sends and receives zero-length        *)
(* messages only, so a mailbox is a number of slots, how many of them are  *)
(* in use, and the processes blocked on it in arrival order.               *)
(*                                                                         *)
(* Every operation runs in the kernel with interrupts disabled: one step.  *)
(***************************************************************************)
EXTENDS Integers, Sequences

CONSTANTS
    Procs,      \* the processes
    MAXMBOX,    \* the size of the mailbox table
    FirstFree   \* whether MboxCreate always gives the lowest id that is free

ASSUME MailboxAssumption == MAXMBOX \in Nat /\ FirstFree \in BOOLEAN

VARIABLES
    mbox,       \* the mailbox table
    ready       \* the processes that are not blocked in the kernel

mailboxVars == <<mbox, ready>>

EMPTY == -1

Boxes == 0 .. MAXMBOX - 1

Mailbox == [open : BOOLEAN, slots : Nat, used : Nat,
            senders : Seq(Procs), receivers : Seq(Procs)]

ClosedBox == [open |-> FALSE, slots |-> 0, used |-> 0,
              senders |-> << >>, receivers |-> << >>]

NewBox(slots) == [open |-> TRUE, slots |-> slots, used |-> 0,
                  senders |-> << >>, receivers |-> << >>]

MailboxTypeOK == /\ mbox \in [Boxes -> Mailbox]
                 /\ ready \subseteq Procs

\* A mailbox id names a mailbox; operations on any other id return -1.
IsOpen(b) == b \in Boxes /\ mbox[b].open

Members(seq) == {seq[i] : i \in 1 .. Len(seq)}

Waiting(b) == Members(mbox[b].senders) \cup Members(mbox[b].receivers)

----------------------------------------------------------------------------
(* MboxCreate(slots, _) returns id, a free one, or EMPTY.  The library of  *)
(* the repository gives the lowest; src/phase2.h does not say which.       *)

FreeBoxes == {b \in Boxes : ~mbox[b].open}

MboxCreate(slots, id) ==
    \/ /\ id \in FreeBoxes
       /\ FirstFree => \A b \in FreeBoxes : id <= b
       /\ mbox' = [mbox EXCEPT ![id] = NewBox(slots)]
       /\ UNCHANGED ready
    \/ /\ FreeBoxes = {}
       /\ id = EMPTY
       /\ UNCHANGED mailboxVars

(* MboxRelease(b): everybody blocked on the mailbox wakes up (with -3).    *)
MboxRelease(b) ==
    IF IsOpen(b)
    THEN /\ ready' = ready \cup Waiting(b)
         /\ mbox' = [mbox EXCEPT ![b] = ClosedBox]
    ELSE UNCHANGED mailboxVars

(* MboxSend by p: hand the message to the first blocked receiver, or put   *)
(* it in a free slot, or block.                                            *)
MboxSend(p, b) ==
    IF ~IsOpen(b) THEN UNCHANGED mailboxVars
    ELSE \/ /\ mbox[b].receivers # << >>
            /\ ready' = ready \cup {Head(mbox[b].receivers)}
            /\ mbox' = [mbox EXCEPT ![b].receivers = Tail(@)]
         \/ /\ mbox[b].receivers = << >>
            /\ mbox[b].used < mbox[b].slots
            /\ mbox' = [mbox EXCEPT ![b].used = @ + 1]
            /\ UNCHANGED ready
         \/ /\ mbox[b].receivers = << >>
            /\ mbox[b].used >= mbox[b].slots
            /\ ready' = ready \ {p}
            /\ mbox' = [mbox EXCEPT ![b].senders = Append(@, p)]

HasMessage(b) ==
    IsOpen(b) /\ (mbox[b].used > 0 \/ mbox[b].senders # << >>)

(* Take one message from a mailbox that has one.  The first blocked sender *)
(* goes on: its message takes over the slot that was emptied, or, in a     *)
(* mailbox without slots, is the one received.                             *)
TakeMessage(b) ==
    \/ /\ mbox[b].senders # << >>
       /\ ready' = ready \cup {Head(mbox[b].senders)}
       /\ mbox' = [mbox EXCEPT ![b].senders = Tail(@)]
    \/ /\ mbox[b].senders = << >>
       /\ mbox' = [mbox EXCEPT ![b].used = @ - 1]
       /\ UNCHANGED ready

(* MboxReceive by p: take a message, or block until there is one.          *)
MboxReceive(p, b) ==
    \/ /\ ~IsOpen(b)
       /\ UNCHANGED mailboxVars
    \/ /\ HasMessage(b)
       /\ TakeMessage(b)
    \/ /\ IsOpen(b)
       /\ ~HasMessage(b)
       /\ ready' = ready \ {p}
       /\ mbox' = [mbox EXCEPT ![b].receivers = Append(@, p)]

(* MboxCondReceive never blocks.                                           *)
MboxCondReceive(b) ==
    IF HasMessage(b) THEN TakeMessage(b) ELSE UNCHANGED mailboxVars

----------------------------------------------------------------------------
NoRepeats(seq) == \A i, j \in 1 .. Len(seq) : seq[i] = seq[j] => i = j

\* A process is blocked in one place at most, nobody waits to send where
\* somebody waits to receive, and nobody waits on a closed mailbox.
QueuesOK ==
    /\ \A b \in Boxes :
        /\ NoRepeats(mbox[b].senders)
        /\ NoRepeats(mbox[b].receivers)
        /\ mbox[b].senders = << >> \/ mbox[b].receivers = << >>
        /\ Waiting(b) \cap ready = {}
        /\ ~mbox[b].open => mbox[b] = ClosedBox
    /\ \A b, c \in Boxes : b # c => Waiting(b) \cap Waiting(c) = {}
=============================================================================
