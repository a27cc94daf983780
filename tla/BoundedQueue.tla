---------------------------- MODULE BoundedQueue ----------------------------
(***************************************************************************)
(* What class FIFO (src/fifo.h) promises: a queue of at most size values.  *)
(* What is written when it is full is dropped; reading from it when it is  *)
(* empty, or past its end, gives 0.                                        *)
(***************************************************************************)
EXTENDS Naturals, Sequences

CONSTANTS size, Values

VARIABLES queue, result   \* result: what was read last

qvars == <<queue, result>>

Init == queue = <<>> /\ result = 0

Clear == queue' = <<>> /\ UNCHANGED result

Write(val) ==
    /\ queue' = IF Len(queue) < size THEN Append(queue, val) ELSE queue
    /\ UNCHANGED result

Read ==
    IF queue = <<>> THEN result' = 0 /\ UNCHANGED queue
    ELSE result' = Head(queue) /\ queue' = Tail(queue)

ReadNotRemove(pt) ==
    /\ result' = IF pt < Len(queue) THEN queue[pt + 1] ELSE 0
    /\ UNCHANGED queue

Next ==
    \/ Clear \/ Read
    \/ \E val \in Values : Write(val)
    \/ \E pt \in 0 .. size : ReadNotRemove(pt)

Spec == Init /\ [][Next]_qvars
=============================================================================
