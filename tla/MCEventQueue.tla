---------------------------- MODULE MCEventQueue ----------------------------
(***************************************************************************)
(* The instances of the event manager that TLC checks: the counter of      *)
(* I8253, the acknowledge of a printer and the periodic signal of DATAREC  *)
(* compete for three descriptors.                                          *)
(***************************************************************************)
EXTENDS EventQueueHistory

MCOwner ==
    [c \in Clients |->
        CASE c = "ack" -> "printer" [] c = "tape" -> "drec"
          [] OTHER -> c]

\* Nothing reads the clocks of a descriptor that is free.
Used ==
    [s \in Slots |->
        IF active[s]
        THEN <<client[s], expired_clock[s], loop_clock[s], accum_clocks[s]>>
        ELSE <<>>]

View == <<Used, fire, free, event_clocks, target, register_id, pc, scan, unreset, inserted>>
=============================================================================
