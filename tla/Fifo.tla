-------------------------------- MODULE Fifo --------------------------------
(***************************************************************************)
(* Class FIFO (src/fifo.cpp): a ring buffer, in which the serial          *)
(* controller keeps its queues and the printer its commands.               *)
(* write_not_push(), which nothing calls, is left out.                     *)
(***************************************************************************)
EXTENDS Integers, Sequences

CONSTANTS
    size,     \* of the buffer
    Values    \* what is written

ASSUME RingAssumption == size \in Nat \ {0}
ASSUME ValuesAssumption == Values \subseteq Nat

VARIABLES
    buf,            \* the buffer
    cnt, rpt, wpt,  \* how many values, where the next is read and written
    result          \* what was read last

fvars == <<buf, cnt, rpt, wpt, result>>

Places == 0 .. size - 1

\* What malloc() returns is not initialized.
Garbage == -1

FifoInit ==
    /\ buf = [p \in Places |-> Garbage]
    /\ cnt = 0 /\ rpt = 0 /\ wpt = 0
    /\ result = 0

Clear ==
    /\ cnt' = 0 /\ rpt' = 0 /\ wpt' = 0
    /\ UNCHANGED <<buf, result>>

\* Mutant: the last place is not used.
AdvanceTooSoon(pt) == IF pt + 1 >= size - 1 THEN 0 ELSE pt + 1

\* The next place of the ring.
Advance(pt) == IF pt + 1 >= size THEN 0 ELSE pt + 1

Write(val) ==
    /\ IF cnt < size
       THEN buf' = [buf EXCEPT ![wpt] = val] /\ wpt' = Advance(wpt) /\ cnt' = cnt + 1
       ELSE UNCHANGED <<buf, wpt, cnt>>
    /\ UNCHANGED <<rpt, result>>

Read ==
    /\ IF cnt > 0
       THEN result' = buf[rpt] /\ rpt' = Advance(rpt) /\ cnt' = cnt - 1
       ELSE result' = 0 /\ UNCHANGED <<rpt, cnt>>
    /\ UNCHANGED <<buf, wpt>>

\* The place of the value after pt others.
Place(pt) == IF pt + rpt >= size THEN pt + rpt - size ELSE pt + rpt

ReadNotRemove(pt) ==
    /\ result' = IF pt < cnt THEN buf[Place(pt)] ELSE 0
    /\ UNCHANGED <<buf, cnt, rpt, wpt>>

FifoNext ==
    \/ Clear \/ Read
    \/ \E val \in Values : Write(val)
    \/ \E pt \in 0 .. size : ReadNotRemove(pt)

FifoSpec == FifoInit /\ [][FifoNext]_fvars
-----------------------------------------------------------------------------
\* The values from the next that is read to the last that was written.
Contents == [i \in 1 .. cnt |-> buf[Place(i - 1)]]

TypeOK ==
    /\ buf \in [Places -> Values \cup {Garbage}]
    /\ cnt \in 0 .. size /\ rpt \in Places /\ wpt \in Places
    /\ result \in Values \cup {0}

(***************************************************************************)
(* The ring buffer is a bounded queue: it gives back what was written, in  *)
(* order, once, across the end of the buffer and when it is full or empty. *)
(***************************************************************************)
Queue == INSTANCE BoundedQueue WITH queue <- Contents
ImplementsQueue == Queue!Spec
=============================================================================
