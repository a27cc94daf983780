----------------------------- MODULE FrameClock -----------------------------
(***************************************************************************)
(* How EVENT::drive() runs the machine for one frame (src/vm/event.cpp).   *)
(*                                                                         *)
(* A frame is a fixed number of clocks, divided into scanlines.  The CPU   *)
(* is run one instruction at a time and may run 2^power times faster than  *)
(* the clock of the events.  An instruction overshoots the end of the      *)
(* frame, and it reports clocks in its middle (update_event_in_op), so     *)
(* what was run and what was applied to the events are accounted for       *)
(* separately.  update_event() is the one of module EventQueue, with the   *)
(* scanline event as its only event.                                       *)
(***************************************************************************)
EXTENDS Integers, Sequences, FiniteSetsExt

CONSTANTS
    FrameClocks,  \* possible values of clocks_per_frame
    Lines,        \* possible values of lines_per_frame
    Powers,       \* possible values of config.cpu_power
    MaxOp,        \* the longest instruction, in CPU clocks
    Width,        \* the width of a device's clock (32 in the code)
    MaxFrame      \* bound of the number of frames in a behaviour

ASSUME FrameAssumption ==
    /\ FrameClocks \subseteq Nat /\ Lines \subseteq Nat \ {0}
    /\ \A f \in FrameClocks, l \in Lines : l <= f
ASSUME WidthAssumption == 2 ^ Width \in Nat /\ \A f \in FrameClocks : f < 2 ^ Width
ASSUME PowerAssumption == Powers \subseteq 0 .. 4
ASSUME BoundAssumption == MaxOp \in Nat \ {0} /\ Width \in Nat /\ MaxFrame \in Nat

VARIABLES
    clocks_per_frame,
    clocks_per_vline,     \* scanline -> its clocks
    power,
    in_opecode,           \* config.drive_vm_in_opecode
    event_clocks,         \* the machine clock
    event_clocks_remain,  \* event clocks left in the frame; negative: overshoot
    cpu_clocks_remain,    \* the same in CPU clocks
    cpu_clocks_accum,     \* CPU clocks that are not yet a whole event clock
    cpu_clocks_in_op,     \* CPU clocks applied while the instruction runs
    spent,                \* CPU clocks the running instruction has reported
    cur_vline,
    vline_start_clock,    \* start of the current scanline, Width bits wide
    vline_events,         \* expiries of the registered scanline events
    target,               \* the clock that update_event leads to
    pc,
    after,                \* where update_event returns to
    frames,               \* frames completed
    repowered             \* history: the power has changed since the last reset

config == <<clocks_per_frame, clocks_per_vline, in_opecode>>
speed == <<power, repowered>>
account == <<event_clocks_remain, cpu_clocks_remain, cpu_clocks_accum>>
vline == <<cur_vline, vline_start_clock, vline_events>>
vars == <<config, speed, event_clocks, account, cpu_clocks_in_op, spent, vline,
          target, pc, after, frames>>

CpuClocksPerEventClock == <<1, 2, 4, 8, 16>>[power + 1]    \* 1 << power
LastLine == Cardinality(DOMAIN clocks_per_vline) - 1

\* drive() deals the clocks of a frame out to its scanlines: the quotient to
\* each, and the remainder one clock each to lines spread over the frame.
ClocksPerVline(f, l) ==
    LET remain == f - (f \div l) * l
    IN [line \in 0 .. l - 1 |->
            f \div l + Cardinality({i \in 0 .. remain - 1 : (l * i) \div remain = line})]

Init ==
    /\ clocks_per_frame \in FrameClocks
    /\ \E l \in Lines : clocks_per_vline = ClocksPerVline(clocks_per_frame, l)
    /\ power \in Powers
    /\ in_opecode \in BOOLEAN
    /\ event_clocks = 0
    /\ event_clocks_remain = 0 /\ cpu_clocks_remain = 0 /\ cpu_clocks_accum = 0
    /\ cpu_clocks_in_op = 0 /\ spent = 0
    /\ cur_vline = 0 /\ vline_start_clock = 0 /\ vline_events = {}
    /\ target = 0
    /\ pc = "idle" /\ after = "idle"
    /\ frames = 0 /\ repowered = FALSE

CurrentClock == event_clocks % (2 ^ Width)    \* get_current_clock()

\* Mutant: one clock is lost when the counter has wrapped.
PassedClockShort(prev) ==
    IF CurrentClock > prev
    THEN CurrentClock - prev
    ELSE (CurrentClock + (2 ^ Width - 1 - prev)) % (2 ^ Width)

\* get_passed_clock(), in unsigned arithmetic of Width bits.
PassedClock(prev) ==
    IF CurrentClock > prev
    THEN CurrentClock - prev
    ELSE (CurrentClock + (2 ^ Width - 1 - prev) + 1) % (2 ^ Width)

\* start_vline(): the scanline begins now, and an event will begin the next.
StartVline(line, events) ==
    /\ cur_vline' = line
    /\ vline_start_clock' = CurrentClock'
    /\ vline_events' = IF line < LastLine
                       THEN events \cup {event_clocks' + clocks_per_vline[line]}
                       ELSE events

UpdateEvent(clock, return) ==
    /\ target' = event_clocks + clock
    /\ pc' = "update" /\ after' = return

GoTo(label) == pc' = label /\ UNCHANGED <<target, after>>
-----------------------------------------------------------------------------
\* The frame begins with its first scanline; what the last instruction of the
\* previous frame overshot is applied to the events of this one.
BeginFrame ==
    /\ pc = "idle" /\ frames < MaxFrame
    /\ UNCHANGED event_clocks
    /\ StartVline(0, vline_events)
    /\ IF event_clocks_remain < 0
       THEN UpdateEvent(Min({-event_clocks_remain, clocks_per_frame}), "enter")
       ELSE GoTo("enter")
    /\ UNCHANGED <<config, speed, account, cpu_clocks_in_op, spent, frames>>

\* Mutant: the clocks of the CPU are not scaled by its power.
EnterFrameUnscaled ==
    /\ pc = "enter"
    /\ event_clocks_remain' = event_clocks_remain + clocks_per_frame
    /\ cpu_clocks_remain' = cpu_clocks_remain + clocks_per_frame
    /\ GoTo("loop")
    /\ UNCHANGED <<config, speed, event_clocks, cpu_clocks_accum, cpu_clocks_in_op, spent,
                   vline, frames>>

EnterFrame ==
    /\ pc = "enter"
    /\ event_clocks_remain' = event_clocks_remain + clocks_per_frame
    /\ cpu_clocks_remain' = cpu_clocks_remain + clocks_per_frame * CpuClocksPerEventClock
    /\ GoTo("loop")
    /\ UNCHANGED <<config, speed, event_clocks, cpu_clocks_accum, cpu_clocks_in_op, spent,
                   vline, frames>>

RunOpecode ==
    /\ pc = "loop" /\ event_clocks_remain > 0 /\ cpu_clocks_remain > 0
    /\ cpu_clocks_in_op' = 0 /\ spent' = 0
    /\ GoTo("op")
    /\ UNCHANGED <<config, speed, event_clocks, account, vline, frames>>

\* Mutant: the overshoot of an instruction is applied in this frame.
ApplyAll(clock, return) ==
    LET accum == cpu_clocks_accum + clock
        done == accum \div CpuClocksPerEventClock
    IN /\ cpu_clocks_remain' = cpu_clocks_remain - clock
       /\ cpu_clocks_accum' = accum % CpuClocksPerEventClock
       /\ event_clocks_remain' = event_clocks_remain - done
       /\ IF done > 0 THEN UpdateEvent(done, return) ELSE GoTo(return)

\* CPU clocks become event clocks; never more than the frame has left.
Apply(clock, return) ==
    LET accum == cpu_clocks_accum + clock
        done == accum \div CpuClocksPerEventClock
    IN /\ cpu_clocks_remain' = cpu_clocks_remain - clock
       /\ cpu_clocks_accum' = accum % CpuClocksPerEventClock
       /\ event_clocks_remain' = event_clocks_remain - done
       /\ IF done > 0 /\ event_clocks_remain > 0
          THEN UpdateEvent(Min({done, event_clocks_remain}), return)
          ELSE GoTo(return)

\* update_event_in_op(), called by the CPU in the middle of an instruction.
UpdateInOp ==
    /\ pc = "op"
    /\ \E clock \in 1 .. MaxOp - spent :
         /\ spent' = spent + clock
         /\ IF in_opecode
            THEN /\ cpu_clocks_in_op' = cpu_clocks_in_op + clock
                 /\ Apply(clock, "op")
            ELSE /\ GoTo("op")
                 /\ UNCHANGED <<account, cpu_clocks_in_op>>
    /\ UNCHANGED <<config, speed, event_clocks, vline, frames>>

\* The instruction ends; what it has not reported yet is applied now.
OpecodeDone ==
    /\ pc = "op"
    /\ \E total \in Max({1, spent}) .. MaxOp :
         IF total > cpu_clocks_in_op
         THEN Apply(total - cpu_clocks_in_op, "loop")
         ELSE GoTo("loop") /\ UNCHANGED account
    /\ UNCHANGED <<config, speed, event_clocks, cpu_clocks_in_op, spent, vline, frames>>

\* Nothing is left for the CPU: the rest of the frame passes without it.
SkipCpu ==
    /\ pc = "loop" /\ event_clocks_remain > 0 /\ cpu_clocks_remain <= 0
    /\ event_clocks_remain' = 0
    /\ UpdateEvent(event_clocks_remain, "loop")
    /\ UNCHANGED <<config, speed, event_clocks, cpu_clocks_remain, cpu_clocks_accum,
                   cpu_clocks_in_op, spent, vline, frames>>

\* Mutant: the frame must end exactly.
EndFrameExactly ==
    /\ pc = "loop" /\ event_clocks_remain = 0
    /\ frames' = frames + 1
    /\ GoTo("idle")
    /\ UNCHANGED <<config, speed, event_clocks, account, cpu_clocks_in_op, spent, vline>>

EndFrame ==
    /\ pc = "loop" /\ event_clocks_remain <= 0
    /\ frames' = frames + 1
    /\ GoTo("idle")
    /\ UNCHANGED <<config, speed, event_clocks, account, cpu_clocks_in_op, spent, vline>>

Earliest == Min(vline_events)
Due == vline_events # {} /\ Earliest <= target

\* update_event() reaches a scanline event.
NextVline ==
    /\ pc = "update" /\ Due
    /\ event_clocks' = Earliest
    /\ StartVline(cur_vline + 1, vline_events \ {Earliest})
    /\ UNCHANGED <<config, speed, account, cpu_clocks_in_op, spent, target, pc, after, frames>>

EndUpdate ==
    /\ pc = "update" /\ ~Due
    /\ event_clocks' = target
    /\ pc' = after
    /\ UNCHANGED <<config, speed, account, cpu_clocks_in_op, spent, vline, target, after, frames>>

\* update_config(), between two frames.
UpdateConfig ==
    /\ pc = "idle"
    /\ power' \in Powers \ {power}
    /\ cpu_clocks_accum' = 0
    /\ repowered' = TRUE
    /\ UNCHANGED <<config, event_clocks, event_clocks_remain, cpu_clocks_remain,
                   cpu_clocks_in_op, spent, vline, target, pc, after, frames>>

\* EVENT::reset(), between two frames: the overshoot is forgotten.
Reset ==
    /\ pc = "idle"
    /\ event_clocks_remain' = 0 /\ cpu_clocks_remain' = 0 /\ cpu_clocks_accum' = 0
    /\ repowered' = FALSE
    /\ UNCHANGED <<config, power, event_clocks, cpu_clocks_in_op, spent, vline, target, pc,
                   after, frames>>

Drive ==
    \/ EnterFrame \/ RunOpecode \/ UpdateInOp \/ OpecodeDone \/ SkipCpu \/ EndFrame
    \/ NextVline \/ EndUpdate

Next == BeginFrame \/ Drive \/ UpdateConfig \/ Reset

Spec == Init /\ [][Next]_vars

\* drive() is straight-line code: it never pauses.
FairSpec == Spec /\ WF_vars(Drive)
-----------------------------------------------------------------------------
TypeOK ==
    /\ clocks_per_frame \in FrameClocks
    /\ \E l \in Lines : clocks_per_vline \in [0 .. l - 1 -> Nat]
    /\ power \in Powers
    /\ in_opecode \in BOOLEAN
    /\ event_clocks \in Nat /\ target \in Nat
    /\ event_clocks_remain \in Int /\ cpu_clocks_remain \in Int
    /\ cpu_clocks_accum \in Nat /\ cpu_clocks_in_op \in Nat /\ spent \in Nat
    /\ cur_vline \in DOMAIN clocks_per_vline
    /\ vline_start_clock \in 0 .. 2 ^ Width - 1
    /\ vline_events \subseteq Nat
    /\ pc \in {"idle", "enter", "loop", "op", "update"}
    /\ after \in {"idle", "enter", "loop", "op"}
    /\ frames \in Nat /\ repowered \in BOOLEAN

(***************************************************************************)
(* A frame lasts exactly clocks_per_frame clocks of the events: however    *)
(* far instructions overshoot, and whatever they report in their middle,   *)
(* the clock is at a multiple of it when drive() returns.                  *)
(***************************************************************************)
FrameExact == pc = "idle" => event_clocks = frames * clocks_per_frame

(***************************************************************************)
(* Each scanline begins at its place in the frame, also when one update    *)
(* crosses several of them, and the clock that a device reads since then   *)
(* is right although it wraps.  A frame leaves no scanline to the next:    *)
(* their clocks, which differ by at most one, add up to those of the frame *)
(* (event.cpp:97-121, 128-140, 230-260).                                    *)
(***************************************************************************)
LineStarts(clocks) ==
    LET start[line \in 0 .. Cardinality(DOMAIN clocks)] ==
            IF line = 0 THEN 0 ELSE start[line - 1] + clocks[line - 1]
    IN start
LineStart(line) == LineStarts(clocks_per_vline)[line]

VlinesTileFrame ==
    /\ LineStart(LastLine + 1) = clocks_per_frame
    /\ \A i, j \in DOMAIN clocks_per_vline : clocks_per_vline[i] <= clocks_per_vline[j] + 1

BeganInPlace ==
    frames > 0 \/ pc # "idle" =>
        LET frame == IF pc = "idle" THEN frames - 1 ELSE frames
            start == frame * clocks_per_frame + LineStart(cur_vline)
        IN /\ vline_start_clock = start % (2 ^ Width)
           /\ PassedClock(vline_start_clock) = event_clocks - start
           /\ event_clocks - start <= clocks_per_vline[cur_vline]
           /\ pc = "idle" => cur_vline = LastLine /\ vline_events = {}

VlineInPlace == VlinesTileFrame /\ BeganInPlace

(***************************************************************************)
(* The clocks that the CPU has left are those the events have left, times  *)
(* the power: neither runs away from the other over any number of frames.  *)
(* A change of the power breaks this, until the next reset: what the CPU   *)
(* has left stays in clocks of the old power (event.cpp:668-674, 77).      *)
(***************************************************************************)
PowerBalance ==
    ~repowered =>
        cpu_clocks_remain + cpu_clocks_accum = event_clocks_remain * CpuClocksPerEventClock

\* drive() returns.
FrameEnds == (pc # "idle") ~> (pc = "idle")
=============================================================================
