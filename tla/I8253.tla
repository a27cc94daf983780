------------------------------- MODULE I8253 --------------------------------
(***************************************************************************)
(* The programmable interval timer (src/vm/i8253.cpp), as it is wired in   *)
(* src/vm/mz700/mz700.cpp: three 16-bit counters.                          *)
(*                                                                         *)
(* Counter 0 has a constant clock.  It is not counted clock by clock: an   *)
(* event is registered for the next change of its output, and in between   *)
(* a program that reads the count makes latch_count() count what has       *)
(* passed and register the event again.  Counter 1 counts the blanking of  *)
(* the screen, and its output is the clock of counter 2.                   *)
(*                                                                         *)
(* Beside counter 0 runs an ideal one, a history variable: it is given the *)
(* same commands and counts its clocks one by one.  The event manager      *)
(* always has a free descriptor here; a byte has Base values.              *)
(***************************************************************************)
EXTENDS Naturals, Integers, Sequences

CONSTANTS
    Base,        \* the number of values of a byte (256 in the code)
    cpu_clocks,  \* CPU clocks per second
    freq,        \* clocks of counter 0 per second
    Programs,    \* which counters a program uses, in which modes, and with which
                 \* bytes of the count: 1 low, 2 high, 3 low and high
    Bytes        \* the bytes that it writes

ASSUME RateAssumption == freq \in Nat \ {0} /\ cpu_clocks \in Nat /\ freq <= cpu_clocks
ASSUME ProgramAssumption ==
    /\ Base \in Nat \ {0, 1} /\ Bytes \subseteq 0 .. Base - 1
    /\ Programs \subseteq [channels : SUBSET (0 .. 2), modes : SUBSET (0 .. 5),
                             accesses : SUBSET (1 .. 3)]

Full == Base * Base   \* 0x10000: what a count register of 0 stands for
Ratio == cpu_clocks \div freq

\* A clock of counter 0 is Ratio CPU clocks, but for a rest that even the longest
\* count does not notice: 3579545 = 4 * 894886 + 1, and 65537 < 894886.
ASSUME ExactAssumption == (cpu_clocks - Ratio * freq) * (Full + 1) < freq

VARIABLES
    program,    \* the program that runs
    counter,    \* channel -> the counter
    timer,      \* the event of counter 0
    ideal,      \* history: counter 0, counted clock by clock
    phase,      \* history: CPU clocks since the last clock of ideal
    rewritten   \* history: the count is written anew while counter 0 runs

vars == <<program, counter, timer, ideal, phase, rewritten>>


\* After initialize() and reset().
PowerOn ==
    [prev_out |-> TRUE, prev_in |-> FALSE, gate |-> TRUE, count |-> Full, latch |-> 0,
     count_reg |-> 0, access |-> 3, mode |-> 3, count_latched |-> FALSE,
     low_read |-> FALSE, high_read |-> FALSE, low_write |-> FALSE, high_write |-> FALSE,
     delay |-> 0, start |-> FALSE,
     levels |-> <<>>]    \* what the output changed to in the step in progress

\* id: register_id is not -1; pending: such an event is registered;
\* elapsed: get_passed_clock(prev_clk).
NoTimer == [id |-> FALSE, pending |-> FALSE, input_clk |-> 0, period |-> 0, elapsed |-> 0]

Init ==
    /\ program \in Programs
    /\ counter = [ch \in 0 .. 2 |-> PowerOn]
    /\ timer = NoTimer
    /\ ideal = PowerOn /\ phase = 0 /\ rewritten = FALSE

COUNT_VALUE(k) ==
    IF k.count_reg = 0 THEN Full
    ELSE IF k.mode = 3 /\ k.count_reg = 1 THEN Full + 1
    ELSE k.count_reg

Half(k) == COUNT_VALUE(k) \div 2
-----------------------------------------------------------------------------
(* Counting. *)

SetSignal(k, level) ==
    [k EXCEPT !.prev_out = level,
              !.levels = IF level = k.prev_out THEN @ ELSE Append(@, level)]

\* What the count does to the output, in input_clock().
Output(k) ==
    IF k.mode = 3 THEN SetSignal(k, k.count > Half(k))
    ELSE LET low == IF k.count <= 1 /\ k.mode \in {2, 4, 5} THEN SetSignal(k, FALSE) ELSE k
         IN IF k.count <= 0 THEN SetSignal(low, TRUE) ELSE low

\* Mutant: the count is not loaded again.
CountDownOnce(k, clock) ==
    LET done == Output([k EXCEPT !.count = @ - clock])
    IN IF done.count > 0 \/ k.mode \in {2, 3} THEN done
       ELSE [done EXCEPT !.start = FALSE, !.count = Full]

\* The rest of input_clock().  A count that runs out is loaded again, or the
\* counter stops.  (Loading once is enough: see RunningHasEvent.)
CountDown(k, clock) ==
    LET done == Output([k EXCEPT !.count = @ - clock])
    IN IF done.count > 0 THEN done
       ELSE IF k.mode \in {2, 3} THEN Output([done EXCEPT !.count = @ + COUNT_VALUE(k)])
       ELSE [done EXCEPT !.start = FALSE, !.count = Full]

\* input_clock(): the first clocks after a start load the count.
InputClock(k, clock) ==
    IF ~k.start \/ clock = 0 THEN k
    ELSE IF k.delay = 0 THEN CountDown(k, clock)
    ELSE LET loaded == [k EXCEPT !.delay = @ - 1,
                                 !.count = IF k.delay = 1 THEN COUNT_VALUE(k) ELSE @]
         IN IF clock = 1 THEN loaded ELSE CountDown(loaded, clock - 1)

\* Mutant: the output of modes 2, 4 and 5 is forgotten.
NextCountToZero(k) ==
    IF k.mode = 3 /\ k.count > Half(k) THEN k.count - Half(k) ELSE k.count

\* get_next_count(): clocks until the output changes.
NextCount(k) ==
    IF k.mode \in {2, 4, 5} THEN IF k.count > 1 THEN k.count - 1 ELSE 1
    ELSE IF k.mode = 3 /\ k.count > Half(k) THEN k.count - Half(k)
    ELSE k.count

\* Registers the event for the next change of the output.
Schedule(k) ==
    LET clocks == IF k.delay > 0 THEN 1 ELSE NextCount(k)
    IN [id |-> TRUE, pending |-> TRUE, input_clk |-> clocks,
        period |-> (cpu_clocks * clocks) \div freq, elapsed |-> 0]

\* start_count() and stop_count(); the event is the timer's part of them.
Started(k) ==
    IF k.low_write \/ k.high_write \/ ~k.gate THEN k ELSE [k EXCEPT !.start = TRUE]
Stopped(k) == [k EXCEPT !.start = FALSE]
-----------------------------------------------------------------------------
(* Commands of the program, on one counter. *)

\* A byte of the count, in the order low, high.
ByteWritten(k, data) ==
    LET fresh == ~k.low_write /\ ~k.high_write
        low == IF fresh THEN k.access \in {1, 3} ELSE k.low_write
        high == IF fresh THEN k.access \in {2, 3} ELSE k.high_write
    IN IF low
       THEN [k EXCEPT !.count_reg = data, !.low_write = FALSE, !.high_write = high]
       ELSE [k EXCEPT !.count_reg = data * Base + IF k.access = 2 THEN 0 ELSE @,
                      !.low_write = FALSE, !.high_write = FALSE]

\* Modes 0 and 4 start again with a new count; modes 2 and 3 start with it, or
\* go on and load it when the current one is finished.
Restarts(k) == k.mode \in {0, 4} \/ (k.mode \in {2, 3} /\ ~k.start)

CountWritten(k, data) ==
    LET written == SetSignal(ByteWritten(k, data), k.mode # 0)
    IN IF Restarts(k)
       THEN Started([Stopped(written) EXCEPT !.delay = IF k.prev_in THEN 2 ELSE 1])
       ELSE written

ControlWritten(k, access, mode) ==
    LET set == SetSignal([k EXCEPT !.mode = mode], mode # 0)
    IN [Stopped(set) EXCEPT
            !.access = access, !.count_reg = 0, !.count_latched = FALSE,
            !.low_read = FALSE, !.high_read = FALSE,
            !.low_write = FALSE, !.high_write = FALSE]

GateChanged(k, signal) ==
    IF k.gate /\ ~signal THEN
        LET stopped == IF k.mode \in {1, 5} THEN k ELSE Stopped(k)
            low == [stopped EXCEPT !.gate = FALSE]
        IN IF k.mode \in {2, 3} THEN SetSignal(low, TRUE) ELSE low
    ELSE IF ~k.gate /\ signal THEN
        LET started == Started([Stopped(k) EXCEPT
                            !.gate = TRUE,
                            !.delay = IF k.mode \in {0, 4} THEN @ ELSE 1])
        IN IF k.mode = 1 THEN SetSignal(started, FALSE) ELSE started
    ELSE k

\* CPU clocks that have passed, in clocks of counter 0.
InputPassed(passed) == (freq * passed) \div cpu_clocks

\* latch_count(): the count is brought up to date, and so is the event.
Refreshed(k) ==
    IF timer.id THEN InputClock(k, InputPassed(timer.elapsed)) ELSE k

\* Mutant: the event is registered for the rest of its clocks, not of its time.
RefreshedTimerByInput(k) ==
    LET input == InputPassed(timer.elapsed)
        rest == timer.input_clk - input
    IN IF ~timer.id \/ input = 0 THEN timer
       ELSE [timer EXCEPT !.pending = TRUE, !.elapsed = 0, !.input_clk = rest,
                          !.period = (cpu_clocks * rest) \div freq]

\* Mutant: the clocks that were counted are not taken from the event.
RefreshedTimerKeepsClocks(k) ==
    LET input == InputPassed(timer.elapsed)
    IN IF ~timer.id \/ input = 0 THEN timer
       ELSE [timer EXCEPT !.pending = TRUE, !.elapsed = 0, !.period = @ - timer.elapsed]

RefreshedTimer(k) ==
    LET input == InputPassed(timer.elapsed)
    IN IF ~timer.id \/ input = 0 THEN timer
       ELSE IF timer.input_clk <= input    \* expired
       THEN IF k.start THEN Schedule(k) ELSE [timer EXCEPT !.pending = FALSE]
       ELSE [timer EXCEPT !.pending = TRUE, !.elapsed = 0,
                          !.input_clk = @ - input, !.period = @ - timer.elapsed]

Latched(k) ==
    [k EXCEPT !.latch = k.count % Full, !.count_latched = TRUE,
              !.low_read = k.access # 2, !.high_read = k.access # 1]

ByteRead(k) ==
    IF k.low_read
    THEN [k EXCEPT !.low_read = FALSE, !.count_latched = @ /\ k.high_read]
    ELSE [k EXCEPT !.high_read = FALSE, !.count_latched = @ /\ ~k.high_read]
-----------------------------------------------------------------------------
(* The actions. *)

\* Mutant: the other edge counts.
ClockSignalRising(k, level) ==
    [IF ~k.prev_in /\ level THEN InputClock(k, 1) ELSE k EXCEPT !.prev_in = level]

\* write_signal() of a clock.
ClockSignal(k, level) ==
    [IF k.prev_in /\ ~level THEN InputClock(k, 1) ELSE k EXCEPT !.prev_in = level]

Settled(k) == [k EXCEPT !.levels = <<>>]

\* The clock of c follows the i-th change of an output, if there is one.
Follows(c, levels, i) ==
    IF i \in DOMAIN levels THEN ClockSignal(c, levels[i]) ELSE c

\* An output changes at most three times in a step (see ThreeLevels).
FollowsAll(c, levels) == Follows(Follows(Follows(c, levels, 1), levels, 2), levels, 3)

\* Counter ch becomes k, and what its output did is passed on to the others.
Becomes(ch, k) ==
    counter' =
        [counter EXCEPT
            ![ch] = Settled(k),
            ![2] = IF ch = 1 THEN Settled(FollowsAll(counter[2], k.levels))
                   ELSE IF ch = 2 THEN Settled(k) ELSE @]

Due == timer.pending /\ timer.elapsed >= timer.period

\* Device code does not run before the events that are due.
ProgramRuns == ~Due

IdealBecomes(k) == ideal' = Settled(k)

\* A counter that is stopped forgets the clocks since its last event, and the
\* ideal one must do as it does.
IdealSetBack == [ideal EXCEPT !.count = counter[0].count]

WriteCount(ch, data) ==
    LET k == CountWritten(counter[ch], data)
        restarts == Restarts(counter[ch])
    IN /\ ProgramRuns
       /\ Becomes(ch, k)
       /\ IF ch = 0
          THEN /\ timer' = IF restarts /\ k.start THEN Schedule(k)
                           ELSE IF k.mode \in {0, 4} THEN NoTimer ELSE timer
               /\ IdealBecomes(CountWritten(ideal, data))
               /\ phase' = IF restarts THEN 0 ELSE phase
               /\ rewritten' = ~restarts
          ELSE UNCHANGED <<timer, ideal, phase, rewritten>>

WriteControl(ch, access, mode) ==
    /\ ProgramRuns
    /\ Becomes(ch, ControlWritten(counter[ch], access, mode))
    /\ IF ch = 0
       THEN /\ timer' = NoTimer
            /\ IdealBecomes(ControlWritten(IdealSetBack, access, mode))
            /\ phase' = 0 /\ rewritten' = FALSE
       ELSE UNCHANGED <<timer, ideal, phase, rewritten>>

\* Mutant: a count that is already latched is latched again.
LatchCommandAgain(ch) ==
    LET k == IF ch = 0 THEN Refreshed(counter[ch]) ELSE counter[ch]
    IN /\ ProgramRuns
       /\ Becomes(ch, Latched(k))
       /\ timer' = IF ch = 0 THEN RefreshedTimer(k) ELSE timer
       /\ UNCHANGED <<ideal, phase, rewritten>>

\* The latch command, a control word with no access bits.
LatchCommand(ch) ==
    LET k == IF ch = 0 THEN Refreshed(counter[ch]) ELSE counter[ch]
    IN /\ ProgramRuns /\ ~counter[ch].count_latched
       /\ Becomes(ch, Latched(k))
       /\ timer' = IF ch = 0 THEN RefreshedTimer(k) ELSE timer
       /\ UNCHANGED <<ideal, phase, rewritten>>

\* read_io8(): what is not latched is latched now.
ReadCount(ch) ==
    LET c == counter[ch]
        latches == ~c.count_latched /\ ~c.low_read /\ ~c.high_read
        k == IF ch = 0 /\ latches THEN Refreshed(c) ELSE c
    IN /\ ProgramRuns
       /\ Becomes(ch, ByteRead(IF latches THEN Latched(k) ELSE k))
       /\ timer' = IF ch = 0 /\ latches THEN RefreshedTimer(k) ELSE timer
       /\ UNCHANGED <<ideal, phase, rewritten>>

\* The program changes the gate of counter 0.
WriteGate(signal) ==
    LET c == counter[0]
        k == GateChanged(c, signal)
        falls == c.gate /\ ~signal /\ c.mode \notin {1, 5}
        rises == ~c.gate /\ signal
    IN /\ ProgramRuns /\ 0 \in program.channels
       /\ Becomes(0, k)
       /\ timer' = IF rises /\ k.start THEN Schedule(k)
                   ELSE IF rises \/ falls THEN NoTimer ELSE timer
       /\ IdealBecomes(GateChanged(IF falls THEN IdealSetBack ELSE ideal, signal))
       /\ phase' = IF rises \/ falls THEN 0 ELSE phase
       /\ rewritten' = (rewritten /\ ~rises /\ ~falls)

\* The screen is blanked or shown: MEMORY::set_blank().
Blank ==
    /\ 1 \in program.channels
    /\ Becomes(1, ClockSignal(counter[1], ~counter[1].prev_in))
    /\ UNCHANGED <<timer, ideal, phase, rewritten>>

\* The next event of counter 0.
EventCallback ==
    LET k == InputClock(counter[0], timer.input_clk)
    IN /\ Due
       /\ Becomes(0, k)
       /\ timer' = IF k.start THEN Schedule(k) ELSE NoTimer
       /\ rewritten' = (rewritten /\ k.count <= counter[0].count)
       /\ UNCHANGED <<ideal, phase>>

\* A CPU clock passes.
Tick ==
    /\ timer.pending /\ ~Due
    /\ timer' = [timer EXCEPT !.elapsed = @ + 1]
    /\ IF phase + 1 = Ratio
       THEN IdealBecomes(InputClock(ideal, 1)) /\ phase' = 0
       ELSE phase' = phase + 1 /\ UNCHANGED ideal
    /\ UNCHANGED <<counter, rewritten>>

Next ==
    /\ UNCHANGED program
    /\ \/ \E ch \in program.channels :
            \/ \E data \in Bytes : WriteCount(ch, data)
            \/ \E access \in program.accesses, mode \in program.modes :
                   WriteControl(ch, access, mode)
            \/ LatchCommand(ch) \/ ReadCount(ch)
       \/ \E signal \in BOOLEAN : WriteGate(signal)
       \/ Blank \/ EventCallback \/ Tick

Spec == Init /\ [][Next]_vars
-----------------------------------------------------------------------------
Counter ==
    [prev_out : BOOLEAN, prev_in : BOOLEAN, gate : BOOLEAN, count : 1 .. Full + 1,
     latch : 0 .. Full - 1, count_reg : 0 .. Full - 1, access : 1 .. 3, mode : 0 .. 5,
     count_latched : BOOLEAN, low_read : BOOLEAN, high_read : BOOLEAN,
     low_write : BOOLEAN, high_write : BOOLEAN, delay : 0 .. 2, start : BOOLEAN,
     levels : {<<>>}]

TypeOK ==
    /\ program \in Programs
    /\ counter \in [0 .. 2 -> Counter]
    /\ timer \in [id : BOOLEAN, pending : BOOLEAN, input_clk : Nat, period : Nat, elapsed : Nat]
    /\ ideal \in Counter /\ phase \in 0 .. Ratio - 1 /\ rewritten \in BOOLEAN

(***************************************************************************)
(* Counter 0 runs if and only if its event is registered, and it holds no  *)
(* id of an event that is not: latch_count(), which would keep such an id  *)
(* of an event that has expired, never meets one.  The event is never for  *)
(* more clocks than the count has left, so that its callback skips no end  *)
(* of the count, however the counter was latched and written.              *)
(***************************************************************************)
RunningHasEvent ==
    /\ timer.pending <=> counter[0].start
    /\ timer.id <=> timer.pending
    /\ timer.pending /\ counter[0].delay = 0 =>
          timer.input_clk \in 1 .. counter[0].count

(***************************************************************************)
(* Reading the count does not disturb what counter 0 will have counted at  *)
(* its event: the event comes at the very clock at which a counter that is *)
(* counted clock by clock, and never latched, has come to the same count.  *)
(* Between events a count that is read may lag, but it is never ahead.     *)
(* (It lags as latch_count() starts a clock anew at each read, although it *)
(* was in the middle of one, i8253.cpp:368-373; only the event makes up    *)
(* for it.)                                                                *)
(***************************************************************************)
ClocksLeft == (timer.period - timer.elapsed + Ratio - 1) \div Ratio
CountToRead == counter[0].count - InputPassed(timer.elapsed)

CountInStep ==
    ~Due =>
        /\ counter[0].start = ideal.start
        /\ ideal.start /\ ideal.delay = 0 =>
              /\ counter[0].count - timer.input_clk = ideal.count - ClocksLeft
              /\ CountToRead >= ideal.count

(***************************************************************************)
(* The output of counter 0 changes at the right clocks, although it is     *)
(* only looked at in events and when the count is read; unless the program *)
(* wrote a new count into the running counter, until it is loaded.         *)
(***************************************************************************)
OutputOnTime ==
    ~Due /\ ~rewritten => counter[0].prev_out = ideal.prev_out

(***************************************************************************)
(* A program that reads a count byte by byte reads one count, although the *)
(* counter goes on between the bytes.                                      *)
(***************************************************************************)
ReadsOneCount ==
    [][\A ch \in 0 .. 2 :
        counter[ch].count_latched /\ counter'[ch].count_latched =>
            counter'[ch].latch = counter[ch].latch]_vars

(***************************************************************************)
(* What i8253.cpp:90 says of modes 2 and 3: "start with new counter after  *)
(* the current count is finished".  The count that a running counter loads *)
(* when it runs out is one that the program has written, never half of it. *)
(* It may be half of it, as the low byte clears the high byte of count_reg.*)
(***************************************************************************)
LoadsWholeCount ==
    [][\A ch \in 0 .. 2 :
        /\ counter[ch].start /\ counter[ch].delay = 0 /\ counter[ch].mode \in {2, 3}
        /\ counter'[ch].count > counter[ch].count
        => ~counter[ch].high_write]_vars

(***************************************************************************)
(* Chained counters count together: when the clock of counter 1 falls, the *)
(* number of such clocks until counter 2 has finished goes down by one,    *)
(* whichever of them is loaded on the way.                                 *)
(***************************************************************************)
FallsAt(k) == IF k.mode = 2 THEN 1 ELSE Half(k)

\* Clocks until the output of counter 1 falls, and until counter 2 finishes.
ToFall(k) == ((k.count - FallsAt(k) - 1) % COUNT_VALUE(k)) + 1
Remaining(c) == (c[2].count - 1) * COUNT_VALUE(c[1]) + ToFall(c[1])

Chained(c) ==
    /\ c[1].start /\ c[1].delay = 0 /\ c[1].mode \in {2, 3} /\ COUNT_VALUE(c[1]) > 1
    /\ c[1].count <= COUNT_VALUE(c[1]) /\ c[1].prev_out = (c[1].count > FallsAt(c[1]))
    /\ c[2].prev_in = c[1].prev_out
    /\ c[2].start /\ c[2].delay = 0

ChainCountsTogether ==
    [][counter[1].prev_in /\ ~counter'[1].prev_in /\ Chained(counter) /\ Remaining(counter) > 1 =>
        Remaining(counter') = Remaining(counter) - 1]_vars
=============================================================================
