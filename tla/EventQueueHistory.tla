------------------------- MODULE EventQueueHistory --------------------------
(***************************************************************************)
(* The event manager implements the timers of module Timers.  The order in *)
(* which events were inserted is not kept by the code, whose list is       *)
(* sorted; a history variable records it for the refinement mapping.       *)
(***************************************************************************)
EXTENDS EventQueue

VARIABLE inserted   \* the registered slots, in the order of their insertions

historyVars == <<vars, inserted>>

HInit == Init /\ inserted = <<>>

\* What a step adds to the fire list and what it takes from it.
Added == {s \in Slots : ~active[s] /\ active'[s]}
Taken == {s \in Slots : active[s] /\ ~active'[s]}

\* Each step adds or takes one slot at most, or inserts the head again.
HNext ==
    \/ /\ FireLoop
       /\ \E i \in 1 .. Len(inserted) :
            /\ inserted[i] = Head(fire)
            /\ inserted' = Append(RemoveAt(inserted, i), Head(fire))
    \/ /\ Next /\ ~FireLoop
       /\ \/ Added = {} /\ Taken = {} /\ UNCHANGED inserted
          \/ \E s \in Added : inserted' = Append(inserted, s)
          \/ \E i \in 1 .. Len(inserted) :
               inserted[i] \in Taken /\ inserted' = RemoveAt(inserted, i)

HSpec == HInit /\ [][HNext]_historyVars

\* An event's exact due time is its expiry and the remainder it carries.
TimersOfEvents ==
    [s \in {t \in Slots : active[t]} |->
        [due |-> expired_clock[s] * Scale + accum_clocks[s],
         period |-> loop_clock[s],
         client |-> client[s]]]

Abstract == INSTANCE Timers WITH
    Timer <- Slots, Client <- Clients, Delays <- Clocks,
    Periods <- LoopClocks \cup {clock * Scale : clock \in Clocks \ {0}},
    timer <- TimersOfEvents, order <- inserted, clock <- event_clocks, goal <- target

(***************************************************************************)
(* The event manager implements Timers: events fire at the clock of their  *)
(* exact due time, in the order of these clocks, the earlier registered    *)
(* first among equals, and a periodic event does not accumulate error.     *)
(***************************************************************************)
ImplementsTimers == Abstract!Spec
=============================================================================
