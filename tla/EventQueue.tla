----------------------------- MODULE EventQueue -----------------------------
(***************************************************************************)
(* The event manager of the virtual machine: the timer queue of class      *)
(* EVENT (src/vm/event.cpp, src/vm/event.h).                               *)
(*                                                                         *)
(* Devices register events that expire a number of CPU clocks later, once  *)
(* or periodically.  The descriptors live in a fixed array; a free one is  *)
(* on a stack (first_free_event), a registered one on the fire list        *)
(* (first_fire_event), sorted by expiry.  update_event() moves the machine *)
(* clock forward and calls back every event that expires on the way; the   *)
(* callbacks register and cancel events themselves.                        *)
(*                                                                         *)
(* Here both lists are sequences of slots; module EventList gives them     *)
(* their pointers.  A periodic event keeps its remainder in 1/1024 clocks. *)
(* The 64-bit clocks are unbounded naturals (they wrap after 10^5 years).  *)
(***************************************************************************)
EXTENDS Naturals, Integers, Sequences, SequencesExt

CONSTANTS
    MAX_EVENT,    \* number of descriptors (64 in the code)
    Clients,      \* one per (device, event id) pair that registers events
    Anonymous,    \* the clients that pass NULL as their register_id
    Periodic,     \* the clients that ask for loop = true
    Latching,     \* the clients that may keep the id of what they cancelled
    Forgetting,   \* the clients that may drop an id without cancelling
    Devices,
    Owner,        \* the device of a client
    NoClient,     \* the owner field of a descriptor that was never used
    Clocks,       \* delays, in clocks, that clients ask for
    LoopClocks,   \* periods, in 1/1024 clocks, that clients ask for
    MaxClock      \* bound of the machine clock in a behaviour

ASSUME SizeAssumption == MAX_EVENT \in Nat \ {0}
ASSUME ClientAssumption ==
    /\ Anonymous \subseteq Clients
    /\ Periodic \subseteq Clients
    /\ Owner \in [Clients -> Devices]
    /\ NoClient \notin Clients
ASSUME HabitAssumption ==
    /\ Latching \cup Forgetting \subseteq Clients \ (Anonymous \cup Periodic)
    /\ \A c \in Latching, d \in Clients : Owner[d] = Owner[c] => d = c
ASSUME ClockAssumption == Clocks \subseteq Nat /\ LoopClocks \subseteq Nat \ {0}

Slots == 0 .. MAX_EVENT - 1
Holders == Clients \ Anonymous   \* the clients that keep a register_id
None == -1                       \* a register_id that names no event
Scale == 1024                    \* loop_clock and accum_clocks are in 1/Scale

\* Mutant: the device is not compared.
AnyOwner(c, owner) == owner \in Clients

\* cancel_event() compares the device that calls with the one that registered.
IsOwner(c, owner) == owner \in Clients /\ Owner[owner] = Owner[c]

VARIABLES
    client,         \* slot -> the (device, event id) that it calls back
    expired_clock,  \* slot -> machine clock of its next callback
    loop_clock,     \* slot -> its period (0: it fires once)
    accum_clocks,   \* slot -> remainder of a periodic event
    active,         \* slot -> is it registered
    fire,           \* the list at first_fire_event
    free,           \* the list at first_free_event
    event_clocks,   \* the machine clock
    target,         \* event_clocks_tmp of the update_event in progress
    register_id,    \* holder -> the id it was given, or None
    pc,             \* what the manager is doing
    scan,           \* next slot that reset() looks at
    unreset         \* devices with ids that VM::reset() has not yet come to

descriptors == <<client, expired_clock, loop_clock, accum_clocks, active>>
lists == <<fire, free>>
resetting == <<scan, unreset>>
vars == <<client, expired_clock, loop_clock, accum_clocks, active, fire, free,
          event_clocks, target, register_id, pc, scan, unreset>>

TypeOK ==
    /\ client \in [Slots -> Clients \cup {NoClient}]
    /\ expired_clock \in [Slots -> Nat]
    /\ loop_clock \in [Slots -> Nat]
    /\ accum_clocks \in [Slots -> Nat]
    /\ active \in [Slots -> BOOLEAN]
    /\ fire \in Seq(Slots)
    /\ free \in Seq(Slots)
    /\ event_clocks \in Nat
    /\ target \in Nat
    /\ register_id \in [Holders -> Slots \cup {None}]
    /\ pc \in {"run", "update", "callback", "reset"}
    /\ scan \in 0 .. MAX_EVENT
    /\ unreset \subseteq Devices

Init ==
    /\ client = [s \in Slots |-> NoClient]
    /\ expired_clock = [s \in Slots |-> 0]
    /\ loop_clock = [s \in Slots |-> 0]
    /\ accum_clocks = [s \in Slots |-> 0]
    /\ active = [s \in Slots |-> FALSE]
    /\ fire = <<>>
    /\ free = [i \in 1 .. MAX_EVENT |-> i - 1]
    /\ event_clocks = 0
    /\ target = 0
    /\ register_id = [c \in Holders |-> None]
    /\ pc = "run"
    /\ scan = MAX_EVENT
    /\ unreset = {}
-----------------------------------------------------------------------------
(* The lists. *)

\* Mutant: only the head of the list is compared.
InsertByHeadOnly(list, expiry, p) ==
    p = IF list # <<>> /\ expired_clock[list[1]] > expiry THEN 1 ELSE Len(list) + 1

\* insert_event() puts an event with this expiry before the first one that
\* expires strictly later: events that expire together keep their order.
InsertPosition(list, expiry, p) ==
    /\ p \in 1 .. Len(list) + 1
    /\ \A i \in 1 .. p - 1 : expired_clock[list[i]] <= expiry
    /\ p <= Len(list) => expired_clock[list[p]] > expiry

\* Mutant: the freed descriptor stays marked as active.
ReleaseStillActive(s) ==
    /\ \E p \in 1 .. Len(fire) : fire[p] = s /\ fire' = RemoveAt(fire, p)
    /\ free' = <<s>> \o free
    /\ UNCHANGED active

\* cancel_event() unlinks a slot from the fire list and pushes it on the stack.
Release(s) ==
    /\ \E p \in 1 .. Len(fire) : fire[p] = s /\ fire' = RemoveAt(fire, p)
    /\ free' = <<s>> \o free
    /\ active' = [active EXCEPT ![s] = FALSE]

\* A device's code runs while the CPU executes an instruction and in callbacks.
DeviceCodeRuns == pc \in {"run", "callback"}

\* VM::reset() has reset the event manager and is resetting the devices.
DevicesReset == pc = "reset" /\ scan = MAX_EVENT

\* The reset() of a printer that was busy acknowledges, by an event.
MayRegister(c) == DeviceCodeRuns \/ (DevicesReset /\ c \in Forgetting /\ Owner[c] \notin unreset)

\* DATAREC and NOISE, whose events are periodic, cancel in their reset().
MayCancel(c) == DeviceCodeRuns \/ (DevicesReset /\ c \in Periodic /\ Owner[c] \in unreset)

\* The part of register_event() and register_event_by_clock() that they share.
\* With no free descriptor the caller is told by an id of -1.
Register(c, clock, loop, accum) ==
    /\ MayRegister(c)
    /\ c \in Holders => register_id[c] = None
    /\ IF free = <<>>
       THEN UNCHANGED <<descriptors, lists, register_id>>
       ELSE LET s == Head(free)
                expiry == event_clocks + clock
            IN /\ free' = Tail(free)
               /\ client' = [client EXCEPT ![s] = c]
               /\ expired_clock' = [expired_clock EXCEPT ![s] = expiry]
               /\ loop_clock' = [loop_clock EXCEPT ![s] = loop]
               /\ accum_clocks' = [accum_clocks EXCEPT ![s] = accum]
               /\ active' = [active EXCEPT ![s] = TRUE]
               /\ \E p \in 1 .. Len(fire) + 1 :
                    InsertPosition(fire, expiry, p) /\ fire' = InsertAt(fire, p, s)
               /\ register_id' =
                    IF c \in Holders THEN [register_id EXCEPT ![c] = s] ELSE register_id
    /\ UNCHANGED <<event_clocks, target, pc, resetting>>

\* register_event(), once and periodic; the caller's microseconds are already
\* rounded to clocks or to 1/1024 clocks.
RegisterEvent(c) ==
    \/ /\ c \notin Periodic
       /\ \E clock \in Clocks : Register(c, clock, 0, 0)
    \/ /\ c \in Periodic
       /\ \E loop \in LoopClocks : Register(c, loop \div Scale, loop, loop % Scale)

\* register_event_by_clock(); no client asks for a period of no clock.
RegisterEventByClock(c) ==
    \E clock \in Clocks :
        \/ c \notin Periodic /\ Register(c, clock, 0, 0)
        \/ c \in Periodic /\ clock # 0 /\ Register(c, clock, clock * Scale, 0)

\* cancel_event(this, register_id), after which the callers forget the id: all
\* but I8253::latch_count(), when the counter expired and is not started again.
CancelEvent(c) ==
    /\ MayCancel(c)
    /\ register_id[c] # None
    /\ LET s == register_id[c]
       IN IF IsOwner(c, client[s]) /\ active[s]
          THEN Release(s)
          ELSE UNCHANGED <<active, lists>>
    /\ \/ register_id' = [register_id EXCEPT ![c] = None]
       \/ c \in Latching /\ UNCHANGED register_id
    /\ UNCHANGED <<client, expired_clock, loop_clock, accum_clocks, event_clocks,
                   target, pc, resetting>>

\* A printer that is reset by its reset line, or by a control code, sets its
\* ids to -1 and leaves its events registered.
ForgetId(c) ==
    /\ DeviceCodeRuns
    /\ c \in Forgetting
    /\ register_id' = [register_id EXCEPT ![c] = None]
    /\ UNCHANGED <<descriptors, lists, event_clocks, target, pc, resetting>>
-----------------------------------------------------------------------------
(* update_event(): the clock moves to target, callback by callback. *)

BeginUpdate ==
    /\ pc = "run"
    /\ \E clock \in 1 .. MaxClock :
         /\ event_clocks + clock <= MaxClock
         /\ target' = event_clocks + clock
    /\ pc' = "update"
    /\ UNCHANGED <<descriptors, lists, event_clocks, register_id, resetting>>

\* Mutant: what expires exactly at the end of the update is left for the next.
DueBefore == fire # <<>> /\ expired_clock[Head(fire)] < target

Due == fire # <<>> /\ expired_clock[Head(fire)] <= target

\* Mutant: the periodic event is inserted again without a later expiry.
FireLoopAgain ==
    /\ pc = "update" /\ Due
    /\ LET s == Head(fire)
       IN /\ loop_clock[s] # 0
          /\ \E p \in 1 .. Len(fire) :
               /\ InsertPosition(Tail(fire), expired_clock[s], p)
               /\ fire' = InsertAt(Tail(fire), p, s)
          /\ event_clocks' = expired_clock[s]
    /\ pc' = "callback"
    /\ UNCHANGED <<descriptors, free, target, register_id, resetting>>

\* The event at the head is popped; a periodic one is inserted again at its
\* next expiry before the callback runs.
FireLoop ==
    /\ pc = "update" /\ Due
    /\ LET s == Head(fire)
           total == accum_clocks[s] + loop_clock[s]
           next == expired_clock[s] + total \div Scale
       IN /\ loop_clock[s] # 0
          /\ accum_clocks' = [accum_clocks EXCEPT ![s] = total % Scale]
          /\ expired_clock' = [expired_clock EXCEPT ![s] = next]
          /\ \E p \in 1 .. Len(fire) :
               /\ InsertPosition(Tail(fire), next, p)
               /\ fire' = InsertAt(Tail(fire), p, s)
          /\ event_clocks' = expired_clock[s]
    /\ pc' = "callback"
    /\ UNCHANGED <<client, loop_clock, active, free, target, register_id, resetting>>

\* An event that fires once is freed before its callback runs, and the
\* callback starts by forgetting the id.
FireOnce ==
    /\ pc = "update" /\ Due
    /\ LET s == Head(fire)
       IN /\ loop_clock[s] = 0
          /\ active' = [active EXCEPT ![s] = FALSE]
          /\ fire' = Tail(fire)
          /\ free' = <<s>> \o free
          /\ event_clocks' = expired_clock[s]
          /\ register_id' = IF client[s] \in Holders
                            THEN [register_id EXCEPT ![client[s]] = None]
                            ELSE register_id
    /\ pc' = "callback"
    /\ UNCHANGED <<client, expired_clock, loop_clock, accum_clocks, target, resetting>>

CallbackReturns ==
    /\ pc = "callback"
    /\ pc' = "update"
    /\ UNCHANGED <<descriptors, lists, event_clocks, target, register_id, resetting>>

EndUpdate ==
    /\ pc = "update" /\ ~Due
    /\ event_clocks' = target
    /\ pc' = "run"
    /\ UNCHANGED <<descriptors, lists, target, register_id, resetting>>
-----------------------------------------------------------------------------
(* VM::reset(): the event manager's reset() cancels every event that fires *)
(* once, slot by slot; then the devices' own reset() forget their ids.     *)

BeginReset ==
    /\ pc = "run"
    /\ pc' = "reset"
    /\ scan' = 0
    /\ unreset' = {Owner[c] : c \in Holders}
    /\ UNCHANGED <<descriptors, lists, event_clocks, target, register_id>>

\* Mutant: the loop over the descriptors runs one too far.
ResetSlotTooFar ==
    /\ pc = "reset" /\ scan <= MAX_EVENT
    /\ scan' = scan + 1
    /\ UNCHANGED <<descriptors, lists, event_clocks, target, register_id, pc, unreset>>

ResetSlot ==
    /\ pc = "reset" /\ scan < MAX_EVENT
    /\ IF active[scan] /\ loop_clock[scan] = 0
       THEN Release(scan)
       ELSE UNCHANGED <<active, lists>>
    /\ scan' = scan + 1
    /\ UNCHANGED <<client, expired_clock, loop_clock, accum_clocks, event_clocks,
                   target, register_id, pc, unreset>>

\* Mutant: the device keeps the ids of events that were cancelled.
ResetDeviceKeepIds(d) ==
    /\ DevicesReset /\ d \in unreset
    /\ unreset' = unreset \ {d}
    /\ UNCHANGED <<descriptors, lists, event_clocks, target, register_id, pc, scan>>

\* The reset() of a device.  A periodic event that the device did not cancel
\* is still registered, and the device keeps the id (CMU800).
ResetDevice(d) ==
    /\ DevicesReset /\ d \in unreset
    /\ register_id' = [c \in Holders |->
            IF Owner[c] # d \/ c \in Periodic THEN register_id[c] ELSE None]
    /\ unreset' = unreset \ {d}
    /\ UNCHANGED <<descriptors, lists, event_clocks, target, pc, scan>>

EndReset ==
    /\ DevicesReset /\ unreset = {}
    /\ pc' = "run"
    /\ UNCHANGED <<descriptors, lists, event_clocks, target, register_id, resetting>>
-----------------------------------------------------------------------------
Next ==
    \/ \E c \in Clients : RegisterEvent(c) \/ RegisterEventByClock(c)
    \/ \E c \in Holders : CancelEvent(c) \/ ForgetId(c)
    \/ BeginUpdate \/ FireLoop \/ FireOnce \/ CallbackReturns \/ EndUpdate
    \/ BeginReset \/ ResetSlot \/ EndReset
    \/ \E d \in Devices : ResetDevice(d)

Spec == Init /\ [][Next]_vars

-----------------------------------------------------------------------------
(***************************************************************************)
(* Every descriptor is on exactly one of the two lists, once, and its      *)
(* active flag says which: no sequence of registrations, callbacks,        *)
(* cancellations (from a callback, of the event that is calling back) and  *)
(* resets loses a descriptor or links it twice.                            *)
(***************************************************************************)
ListsPartitionSlots ==
    /\ IsInjective(fire) /\ ToSet(fire) = {s \in Slots : active[s]}
    /\ IsInjective(free) /\ ToSet(free) = {s \in Slots : ~active[s]}

(***************************************************************************)
(* A device's id names a registered event of its own, so that no stale id  *)
(* cancels an event that reuses the descriptor.  Exceptions: an id that    *)
(* latch_count() kept, and, during a reset, the ids of one-shot events of  *)
(* devices that are not reset yet.  And each registered event of a holder  *)
(* is named by its id, so that none is left that nobody can cancel, except *)
(* of printers that forget ids.                                            *)
(***************************************************************************)
MayBeStale(c) ==
    \/ c \in Latching
    \/ pc = "reset" /\ c \notin Periodic /\ Owner[c] \in unreset

HeldIdsNameEvents ==
    \A c \in Holders :
        \/ register_id[c] = None
        \/ active[register_id[c]] /\ client[register_id[c]] = c
        \/ MayBeStale(c)

EventsAreHeld ==
    \A s \in Slots :
        active[s] /\ client[s] \in Holders \ Forgetting => register_id[client[s]] = s

IdsMatchEvents == HeldIdsNameEvents /\ EventsAreHeld

(***************************************************************************)
(* update_event, which looks at the head of the list only, calls every     *)
(* event back at its own clock although callbacks insert new ones while it *)
(* walks: the list stays sorted, nothing on it expired in the past, and    *)
(* when no update is in progress the clock has reached its target, with    *)
(* every registered event in the future or due in this instant.            *)
(***************************************************************************)
FireOrdered ==
    \A i, j \in 1 .. Len(fire) : i < j => expired_clock[fire[i]] <= expired_clock[fire[j]]

NeverLate ==
    /\ event_clocks <= target
    /\ \A s \in Slots : active[s] => event_clocks <= expired_clock[s]

QuiescentAtTarget == pc \in {"run", "reset"} => event_clocks = target

EventsOnTime == FireOrdered /\ NeverLate /\ QuiescentAtTarget

(***************************************************************************)
(* An event stops being registered only by firing at its time, by a        *)
(* cancellation of its own holder, or in a reset that finds it not to be   *)
(* periodic: a stale id cancels nothing, whoever uses the descriptor now.  *)
(***************************************************************************)
Cancelled(s) ==
    \E c \in Holders :
        /\ register_id[c] = s /\ client[s] = c
        /\ register_id'[c] = None \/ c \in Latching

LeavesLegally(s) ==
    active[s] /\ ~active'[s] =>
        \/ event_clocks' = expired_clock[s] /\ pc' = "callback"
        \/ Cancelled(s)
        \/ pc = "reset" /\ loop_clock[s] = 0

OnlyLegalRemovals == [][\A s \in Slots : LeavesLegally(s)]_vars

\* The machine clock never runs back, and jumps over no registered event.
ClockJumpsOverNothing ==
    [][/\ event_clocks <= event_clocks'
       /\ \A s \in Slots :
            active[s] /\ expired_clock[s] < event_clocks' =>
                event_clocks' = event_clocks]_vars
=============================================================================
