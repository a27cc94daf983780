------------------------------ MODULE MCI8253 -------------------------------
(***************************************************************************)
(* Two programs for TLC: one uses counter 0 in every way, the other chains *)
(* counters 1 and 2.  Latching does not change how chained counters count, *)
(* as neither has an event: the view leaves it out.                        *)
(***************************************************************************)
EXTENDS I8253

MCPrograms ==
    {[channels |-> {0}, modes |-> 0 .. 5, accesses |-> {1, 2, 3}],
     [channels |-> {1, 2}, modes |-> {0, 2, 3}, accesses |-> {3}]}

View ==
    IF 0 \in program.channels THEN vars
    ELSE [ch \in 1 .. 2 |->
             [counter[ch] EXCEPT !.latch = 0, !.count_latched = FALSE,
                                 !.low_read = FALSE, !.high_read = FALSE]]
=============================================================================
