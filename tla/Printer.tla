------------------------------ MODULE Printer -------------------------------
(***************************************************************************)
(* The printer that prints into a file (src/vm/prnfile.cpp).  The program  *)
(* sets data, strobe and reset through a parallel port (the wiring in      *)
(* src/vm/mz700/mz700.cpp) and sees busy there; acknowledge is not wired.  *)
(*                                                                         *)
(* Busy and acknowledge end with events of the event manager.  A reset     *)
(* forgets the ids of the events and leaves the events registered: they    *)
(* still call back, and there may be so many of them that no descriptor is *)
(* left.  What is printed does not matter, and nothing in this machine     *)
(* calls read_signal().                                                    *)
(***************************************************************************)
EXTENDS Integers, FiniteSets, FiniteSetsExt

CONSTANTS
    BUSY_TIME, ACK_TIME,   \* clocks that the events take (those of 10000 and 10 usec)
    WAIT_FRAMES,           \* frames that a file stays open (those of a second)
    MAX_EVENT              \* descriptors that other devices leave to the printer

ASSUME TimeAssumption ==
    /\ BUSY_TIME \in Nat \ {0} /\ ACK_TIME \in Nat \ {0}
    /\ ACK_TIME < BUSY_TIME
    /\ WAIT_FRAMES \in Nat \ {0}
\* There are more descriptors than clocks in an acknowledge (36 in the code).
ASSUME DescriptorAssumption == MAX_EVENT \in Nat /\ ACK_TIME < MAX_EVENT

VARIABLES
    strobe, res,       \* the signals of the port
    value,             \* whether data has been set (value is not -1)
    busy, ack,
    busy_id, ack_id,   \* descriptors, or -1
    event,             \* descriptor -> kind and time left of the printer's event
    size,              \* bytes in the file, up to 2; -1: it is not open
    wait_frames,
    busy_age, ack_age, \* history: time since the last byte and since busy ended
    idle_frames        \* history: frames since the last byte

port == <<strobe, res, value>>
handshake == <<busy, ack, busy_id, ack_id, event, busy_age, ack_age>>
file == <<size, wait_frames, idle_frames>>
vars == <<port, handshake, file>>

Slots == 0 .. MAX_EVENT - 1
Free == [kind |-> "free", left |-> 0]

Init ==
    /\ strobe = TRUE /\ res = FALSE /\ value = FALSE
    /\ busy = FALSE /\ ack = TRUE
    /\ busy_id = -1 /\ ack_id = -1
    /\ event = [s \in Slots |-> Free]
    /\ size = -1 /\ wait_frames = -1
    /\ busy_age = 0 /\ ack_age = 0 /\ idle_frames = 0
-----------------------------------------------------------------------------
(* The event manager, as the printer sees it. *)

Cancelled(e, id) == IF id = -1 THEN e ELSE [e EXCEPT ![id] = Free]

\* Mutant: it is not looked whether there is a descriptor left.
FreeSlotUnchecked(e) == Min({s \in Slots : e[s] = Free} \cup {MAX_EVENT})

\* The descriptor that register_event() takes, or -1 if there is none.
FreeSlot(e) ==
    LET free == {s \in Slots : e[s] = Free}
    IN IF free = {} THEN -1 ELSE Min(free)

Registered(e, kind, time) ==
    IF FreeSlot(e) = -1 THEN e
    ELSE [e EXCEPT ![FreeSlot(e)] = [kind |-> kind, left |-> time]]
-----------------------------------------------------------------------------
(* Busy and acknowledge. *)

\* Mutant: the old event is cancelled by the id of the new one.
BusyEndsTooLate(e, id) ==
    /\ busy' = FALSE
    /\ IF busy
       THEN LET added == Registered(e, "ack", ACK_TIME)
            IN /\ ack_id' = FreeSlot(e) /\ event' = Cancelled(added, FreeSlot(e))
               /\ ack' = FALSE /\ ack_age' = 0
       ELSE ack_id' = id /\ event' = e /\ UNCHANGED <<ack, ack_age>>

\* set_busy(false), when the events are e and the acknowledge event is id.
BusyEnds(e, id) ==
    /\ busy' = FALSE
    /\ IF busy
       THEN LET rest == Cancelled(e, id)
            IN /\ ack_id' = FreeSlot(rest) /\ event' = Registered(rest, "ack", ACK_TIME)
               /\ ack' = FALSE /\ ack_age' = 0
       ELSE ack_id' = id /\ event' = e /\ UNCHANGED <<ack, ack_age>>

\* A byte is printed: busy, for a while.
BusyBegins ==
    LET rest == Cancelled(event, busy_id)
    IN /\ busy_id' = FreeSlot(rest) /\ event' = Registered(rest, "busy", BUSY_TIME)
       /\ busy' = TRUE /\ busy_age' = 0
       /\ UNCHANGED <<ack, ack_id, ack_age>>

\* Mutant: the file stays open.
FileKept == size' = size /\ wait_frames' = -1 /\ UNCHANGED idle_frames

\* close_file(), and no more waiting for it.
FileCloses == size' = -1 /\ wait_frames' = -1 /\ UNCHANGED idle_frames
-----------------------------------------------------------------------------
(* The actions. *)

Due == \E s \in Slots : event[s] # Free /\ event[s].left = 0

\* Device code runs when no event is due.
ProgramRuns == ~Due

WriteData ==
    /\ ProgramRuns /\ value' = TRUE
    /\ UNCHANGED <<strobe, res, handshake, file>>

\* SIG_PRINTER_STROBE: its falling edge prints a byte.
WriteStrobe(level) ==
    /\ ProgramRuns /\ strobe' = level
    /\ IF strobe /\ ~level /\ value
       THEN /\ BusyBegins
            /\ size' = Min({Max({size, 0}) + 1, 2})
            /\ wait_frames' = WAIT_FRAMES /\ idle_frames' = 0
       ELSE UNCHANGED <<handshake, file>>
    /\ UNCHANGED <<res, value>>

\* SIG_PRINTER_RESET: its falling edge is reset(), which forgets the ids and
\* acknowledges at once.
WriteReset(level) ==
    /\ ProgramRuns /\ res' = level
    /\ IF res /\ ~level
       THEN /\ FileCloses
            /\ busy_id' = -1 /\ busy' = FALSE /\ ack' = TRUE
            /\ IF busy
               THEN ack_id' = FreeSlot(event) /\ event' = Registered(event, "ack", ACK_TIME)
               ELSE ack_id' = -1 /\ UNCHANGED event
            /\ UNCHANGED <<busy_age, ack_age>>
       ELSE UNCHANGED <<handshake, file>>
    /\ UNCHANGED <<strobe, value>>

\* Mutant: the id of the event that calls back is kept.
EventCallbackKeepId(s) ==
    /\ event[s] # Free /\ event[s].left = 0
    /\ LET rest == Cancelled(event, s)
       IN IF event[s].kind = "busy"
          THEN BusyEnds(rest, ack_id) /\ UNCHANGED <<busy_id, busy_age>>
          ELSE /\ event' = rest /\ ack' = TRUE
               /\ UNCHANGED <<busy, busy_id, ack_id, busy_age, ack_age>>
    /\ UNCHANGED <<port, file>>

\* event_callback(), of an event of which the printer may know nothing more.
EventCallback(s) ==
    /\ event[s] # Free /\ event[s].left = 0
    /\ LET rest == Cancelled(event, s)
       IN IF event[s].kind = "busy"
          THEN busy_id' = -1 /\ BusyEnds(rest, ack_id) /\ UNCHANGED busy_age
          ELSE /\ event' = rest /\ ack_id' = -1 /\ ack' = TRUE
               /\ UNCHANGED <<busy, busy_id, busy_age, ack_age>>
    /\ UNCHANGED <<port, file>>

\* event_frame() closes a file into which nothing is printed for a while.
EventFrame ==
    /\ ProgramRuns /\ size # -1
    /\ IF wait_frames > 0
       THEN /\ wait_frames' = wait_frames - 1
            /\ size' = IF wait_frames = 1 THEN -1 ELSE size
       ELSE UNCHANGED <<size, wait_frames>>
    /\ idle_frames' = idle_frames + 1
    /\ UNCHANGED <<port, handshake>>

Older(age, limit) == Min({age + 1, limit + 1})

\* A clock passes.  The ages are counted while they matter.
Tick ==
    /\ ~Due
    /\ event' = [s \in Slots |->
                    IF event[s] = Free THEN Free ELSE [event[s] EXCEPT !.left = @ - 1]]
    /\ busy_age' = IF busy THEN Older(busy_age, BUSY_TIME) ELSE busy_age
    /\ ack_age' = IF ~ack THEN Older(ack_age, BUSY_TIME) ELSE ack_age
    /\ UNCHANGED <<port, busy, ack, busy_id, ack_id, file>>

Next ==
    \/ WriteData
    \/ \E level \in BOOLEAN : WriteStrobe(level) \/ WriteReset(level)
    \/ \E s \in Slots : EventCallback(s)
    \/ EventFrame \/ Tick

Spec == Init /\ [][Next]_vars
-----------------------------------------------------------------------------
TypeOK ==
    /\ {strobe, res, value, busy, ack} \subseteq BOOLEAN
    /\ {busy_id, ack_id} \subseteq Slots \cup {-1}
    /\ event \in [Slots -> [kind : {"free", "busy", "ack"}, left : 0 .. BUSY_TIME]]
    /\ size \in -1 .. 2 /\ wait_frames \in -1 .. WAIT_FRAMES
    /\ busy_age \in Nat /\ ack_age \in Nat /\ idle_frames \in Nat

(***************************************************************************)
(* The ids of the printer name events of its own that are still to come:   *)
(* it never cancels another event, although it forgets ids and is called   *)
(* back by events that it has forgotten.                                   *)
(***************************************************************************)
IdsLive ==
    /\ busy_id # -1 => event[busy_id].kind = "busy"
    /\ ack_id # -1 => event[ack_id].kind = "ack"

(***************************************************************************)
(* Busy and acknowledge always end in time, even when the event that       *)
(* should end busy could not be registered, as resets have left events in  *)
(* all descriptors: one of those ends it (DescriptorAssumption is needed). *)
(***************************************************************************)
HandshakeInTime ==
    /\ busy => busy_age <= BUSY_TIME
    /\ ~ack => ack_age <= ACK_TIME

\* "wait 1sec and finish printing" (prnfile.cpp:84): the file is closed then.
FileClosedInTime == size # -1 => idle_frames < WAIT_FRAMES
=============================================================================
