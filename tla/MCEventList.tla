---------------------------- MODULE MCEventList -----------------------------
(***************************************************************************)
(* An instance for the pointers of the lists: the two timers of one device *)
(* (the transmitter and the receiver of Z80SIO), a periodic event and the  *)
(* anonymous event of the next scanline compete for three descriptors.     *)
(***************************************************************************)
EXTENDS EventList

MCOwner ==
    [c \in Clients |->
        CASE c \in {"send", "recv"} -> "sio" [] c = "tape" -> "drec" [] OTHER -> "event"]

\* Nothing reads the clocks of a descriptor that is free; its pointers count.
Used ==
    [s \in Slots |->
        IF active[s]
        THEN <<client[s], expired_clock[s], loop_clock[s], accum_clocks[s]>>
        ELSE <<>>]

View == <<Used, links, fire, free, event_clocks, target, register_id, pc, scan, unreset>>
=============================================================================
