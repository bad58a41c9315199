------------------------- MODULE CountingSemaphore -------------------------
(***************************************************************************)
(* What the semaphore calls promise, without locks, mailboxes or steps: a  *)
(* table of semaphores, each a number of units.  SemP takes a unit, or is  *)
(* handed the unit of a SemV that found none left; SemV adds a unit.       *)
(* MayLose says whether a SemV that finds no unit left and nobody waiting  *)
(* may be forgotten.                                                       *)
(***************************************************************************)
EXTENDS Integers

CONSTANTS
    Procs,      \* the processes
    Sems,       \* the handles
    MayLose     \* may a SemV on a semaphore without units do nothing?

VARIABLES
    value,      \* the units of each semaphore, Absent before it is created
    call        \* the call each process is in and has not had the effect of

vars == <<value, call>>

Absent == -1
NoCall == [op |-> "none", sem |-> Absent]
P(h) == [op |-> "P", sem |-> h]
V(h) == [op |-> "V", sem |-> h]

TypeOK ==
    /\ value \in [Sems -> Nat \cup {Absent}]
    /\ call \in [Procs -> [op : {"none", "P", "V"}, sem : Sems \cup {Absent}]]

Init ==
    /\ value = [h \in Sems |-> Absent]
    /\ call = [p \in Procs |-> NoCall]

Create(h) ==
    /\ value[h] = Absent
    /\ value'[h] \in Nat
    /\ value' = [value EXCEPT ![h] = value'[h]]
    /\ UNCHANGED call

Begin(p, c) ==
    /\ call[p] = NoCall
    /\ value[c.sem] # Absent
    /\ call' = [call EXCEPT ![p] = c]
    /\ UNCHANGED value

Take(p, h) ==
    /\ call[p] = P(h)
    /\ value[h] > 0
    /\ value' = [value EXCEPT ![h] = @ - 1]
    /\ call' = [call EXCEPT ![p] = NoCall]

Give(p, h) ==
    /\ call[p] = V(h)
    /\ value' = [value EXCEPT ![h] = @ + 1]
    /\ call' = [call EXCEPT ![p] = NoCall]

HandOver(p, q, h) ==
    /\ call[p] = V(h)
    /\ call[q] = P(h)
    /\ value[h] = 0
    /\ call' = [call EXCEPT ![p] = NoCall, ![q] = NoCall]
    /\ UNCHANGED value

Lose(p, h) ==
    /\ MayLose
    /\ call[p] = V(h)
    /\ value[h] = 0
    /\ call' = [call EXCEPT ![p] = NoCall]
    /\ UNCHANGED value

Next ==
    \E h \in Sems :
        \/ Create(h)
        \/ \E p \in Procs :
            \/ Begin(p, P(h)) \/ Begin(p, V(h))
            \/ Take(p, h) \/ Give(p, h) \/ Lose(p, h)
            \/ \E q \in Procs : HandOver(p, q, h)

Spec == Init /\ [][Next]_vars
=============================================================================
