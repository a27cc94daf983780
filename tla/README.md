# A TLA+ verification of EmuZ-1500 for Solaris

EmuZ-1500 emulates the SHARP MZ-1500.  This directory holds TLA+ models of its
core, the TLC configurations that check them on small instances, and TLAPS proofs
of their main properties for every value of their constants.  Paths below are
relative to the repository.  Every definition is translated from the C++ code of
the Solaris build (`src/g++/Makefile.mz1500`, `-D_MZ1500`); `PROJECT.json` maps
each of them to its lines.

## 1. The system

The program has three layers.

* **Host** (`src/solaris`).  The *main thread* polls an SDL window, executes
  commands, resets and runs the machine, creates sound and presents the picture.
  A *control window* runs the GTK loop in a thread of its own and talks to the
  main thread through a queue of command strings under a mutex and two atomic
  flags (reset requested, stop requested).
* **Event manager** (`src/vm/event.cpp`).  Owns the machine clock.  `drive()` runs
  the CPU for one frame and moves the clock with `update_event()`, which calls back
  the devices whose timers expire.
* **Devices** (`src/vm`, `src/vm/mz700`).  CPU, timer, serial and parallel ports,
  floppy controller, quick disk, tape, printer, memory, sound sources, wired in
  `src/vm/mz700/mz700.cpp`.

### Inventory

| Component | State | Operations | Interacts by | Hard because | Correct when |
|---|---|---|---|---|---|
| EVENT: timer queue | descriptors, fire list, free list, clock | register, cancel, update, reset | callbacks into devices that register and cancel again | the list changes while it is walked; ids are reused; ids go stale at a reset | lists intact, events on time and in order, ids never name another device's event |
| EVENT: frame driver | two clock budgets, remainder, scanline | drive, update_event_in_op, update_config, reset | runs the CPU, updates the queue | instructions overshoot; clocks are reported twice; 32-bit clock wraps | frames and scanlines exact, budgets proportional |
| EVENT: sound | mix counter, buffer pointer | mix event, touch_sound, create_sound | drives extra frames | overrun of the buffer, skipping | no sample lost or written past the buffer |
| Main loop | initial media, flags | poll, command, reset, run | owns the machine | reset and commands take different ways | reset waits for commands; media survive it |
| Control window | queue, flags, labels, open dialog | clicks, dialog, stop | queue, flags, join | nested callbacks, join during a dialog | nothing lost, labels true, program ends |
| SDL window | key table, quit, audio queue | poll, present, queue_audio | key table read by the keyboard | aliased and unknown keys, reset while keys are held | no key sticks |
| Data recorder | file, position, remote, play/rec | play, rec, close, buttons, frame event | one periodic event, signal to the 8255 | remote and buttons in any order, end of tape | position in the tape, file saved |
| Quick disk | track, head, motor, write gate | insert, remove, RTS, DTR, data, breaks, restore and end events | calls into Z80SIO in the middle of its handlers, and is called back by them | the drive sends when it is told that the receiver is empty, in the middle of whatever else happens; anything may end a block | bytes neither pile up nor vanish, blocks are framed, breaks are announced |
| I8253 | three counters | write, read, latch, gate, clock | one event for counter 0, chained outputs | count computed from the clock when latched | however it is latched, its event comes at the right clock |
| Z80SIO, Z80PIO, AND gate, Z80 | request and service flags, signals between the devices, request bits of the CPU | register access, serial events, acknowledge, EI, DI, RET, RETI | daisy chain | requests, acknowledges and returns in any order; the CPU's bits are a copy | the bits are true, services nest by priority |
| I8255 | ports, directions | write port, bit set/reset | outputs to devices | partial masks | outputs equal the latches |
| MB8877, disk | command state, drives | commands, timers | events, DMA-less transfer | commands that interrupt each other | status and data in the right order |
| Memory | banks, CRTC counters | bank switching, blanking events | scanline events | anonymous events at each scanline | banks always mapped consistently |
| MZ-1P17, PRNFILE | busy, acknowledge | strobe, reset line, timers | events, 2 ids each | reset forgets ids | acknowledge follows busy |
| CMOS, EMM, RAM file, kanji | pointers | port access | none | auto-increment at the end | pointer stays inside |
| PSG, 1-bit PCM, noise | registers | write, mix | sound mixing | fixed-point arithmetic | - |
| FIFO | ring buffer | write, read | none | full and empty | a bounded queue |
| CMU-800, MIDI | tempo | writes | one periodic event that survives a reset | - | - |

Other machines of the same code base, the Windows front end, the debugger, zlib,
resources and tools are not part of this build.

Two facts about the environment matter.  The devices run on one thread, so what
interleaves in the machine are *callbacks*, not threads.  And on Solaris the host
creates a new machine for a reset, so that `VM::reset()` runs once for each
machine; `EMU::reset()` of the shared front end (`src/emu.cpp`), for which the
event manager is written, calls it between any two frames.  The model follows
the event manager's code and allows it at any time when no update is in progress.

## 2. The plan

Most important behaviour first.

1. Done: **EventQueue** with its abstract specification **Timers** (refined through
   **EventQueueHistory**), its pointers **EventList**; **FrameClock**; **Host**.
   Proofs: EventQueueProofs, FrameClockProofs, HostProofs.
2. Done: **I8253** against an ideal counter that is counted clock by clock, with
   I8253Proofs; **SoundMix** (mix events, create_sound, audio queue) with
   SoundMixProofs; **Printer** (the handshake of `prnfile.cpp`) with PrinterProofs;
   **Fifo** with its abstract specification **BoundedQueue**.
3. Done: **QuickDisk**, composed with the data path of Z80SIO, with SerialProofs, which has
   the proofs about Fifo too (the queues of the controller are such buffers); **DaisyChain**: the
   interrupts of Z80PIO, Z80SIO, the AND gate and the CPU, with DaisyChainProofs.
4. To do: **Datarec** (buttons, remote, tape position, recording) with the port of the
   8255 that it hangs on; **HostKeys** (key table); **MB8877**; bank switching and
   blanking events of **Memory**; pointers of the memory extensions.
5. Every safety property of a run is proved.  The modules of item 4 would come with their
   proofs.

Bounds of the runs still to come will follow those of section 4: two or three
actors, queues one element longer than the number of actors, two frames or
revolutions.

## 3. The modules

Each module says at its head which code it models; `PROJECT.json` ("map") names the
lines of every definition.  A definition whose comment begins with "Mutant:" is a
plausible mistake in the definition that follows it.  No specification uses it:
put in the place of that definition, it makes a property fail, which shows that
the property depends on the code.

### EventQueue, EventQueueHistory, Timers, EventList

`EventQueue` is the timer queue of class `EVENT`.  A descriptor is a *slot*; its
fields are functions from slots (`client`, `expired_clock`, `loop_clock`,
`accum_clocks`, `active`), the two linked lists are the sequences `fire` and
`free`, and `register_id` holds the id that each device keeps.  `pc` is "update"
in the loop of `update_event()`, "callback" while a device is called back, "reset"
during `VM::reset()`.

| Action | Code |
|---|---|
| RegisterEvent, RegisterEventByClock | `register_event`, `register_event_by_clock`, `insert_event`, and the device that stores the id |
| CancelEvent | `cancel_event`, and the device that stores -1 or (I8253) may keep the id |
| ForgetId | the printers' reset, which drops ids of events that stay registered |
| BeginUpdate, FireLoop, FireOnce, CallbackReturns, EndUpdate | `update_event` and the start of a callback |
| BeginReset, ResetSlot, ResetDevice, EndReset | `VM::reset`: `EVENT::reset` first, then every device |

Devices run code in "run" (between updates, when the CPU accesses a port), in
"callback", and in "reset".  The assumptions on the clients (`HabitAssumption`) are
read from the devices: three habits exist.  *Anonymous* clients pass no id; a
*Forgetting* client (the printers) drops ids; a *Latching* client (I8253) may keep
the id of an event that it has cancelled.  Module I8253 shows that the last never
happens in this machine, as the branch of `latch_count()` for an expired event is
never entered; EventQueue allows it all the same.

`Timers` is what the queue promises: timers in exact fractional time, without
slots, lists, ids and remainders.  `EventQueueHistory` adds the order of insertions
as a history variable and gives the refinement mapping.  `EventList` runs the
`next` and `prev` pointers in lockstep with `EventQueue`.  Its operations use only
the pointers, and stale values stay where the code leaves them.  `EventsOnTime` joins
three facts about the times of events: the fire list is sorted (*FireOrdered*), no
registered event lies behind the clock (*NeverLate*), and between updates the clock
is where the last update was to lead (*QuiescentAtTarget*).

### FrameClock

`EVENT::drive()` with the single CPU of this machine.  The budgets keep their names
(`event_clocks_remain`, `cpu_clocks_remain`, `cpu_clocks_accum`); `spent` is what the
running instruction has reported through `update_event_in_op()`.  `EnterFrame`
charges the overshoot of the last frame, `RunOpecode`/`UpdateInOp`/`OpecodeDone` are an
instruction, `SkipCpu` a CPU whose budget is used up, `EndFrame` the end, and
`NextVline`/`EndUpdate` the callbacks of an update.  `Apply` turns CPU clocks into clocks
of the events.  `Width` is the width of the clock that devices read (32).
`repowered` is a history variable: whether the power of the CPU was changed since
the last reset, after which the two budgets need no longer be proportional.

### SoundMix

`Machine` is what the main thread does by itself: the sample events of a frame,
`create_sound()`, the frames that it drives, and the chunks of
`queue_sound_chunks()`.  Devices touch the sound (`TouchSound`) and ask for realtime
rendering (`SetRealtime`) in between; SDL takes samples (`Play`) at any time.  The
history variable `owed` counts sample events whose sound has not been taken.

### Host

The main thread (`pc`: poll, pop_reset, drain, reset, run, stop, join, done) and the
GTK thread (`handlers`: the callbacks in progress, innermost first, as GTK
dispatches events while a file dialog is open).  They share `commands`,
`reset_requested` and `stop_requested`.  `files` are the image files that exist; the
media are what the data recorder and the quick disk hold and what a reset mounts
again.  A mutex section is one step.  A file that exists may still not load (`Unreadable`):
the main loop only asks whether it exists (`solaris_main.cpp:306-313`, `223-228`), the
tape or the disk that was in the drive has then been closed, and the drive is empty,
while `initial_qd` and the label name the file.

### I8253

The three counters as records with the fields of the code; `timer` is the event
of counter 0 (`elapsed` stands for `get_passed_clock(prev_clk)`).  Beside it, `ideal` is the
same counter, given the same commands and counted clock by clock.  A byte has
`Base` values.  Where the code deviates on purpose or by its construction from a
real chip, the ideal counter is set back in the same way: a counter that is
stopped, by its gate or a control word, forgets the clocks since its last event
(`i8253.cpp:300`).  What an output changes to in a step is at most three levels
(lemma ThreeLevels), which `FollowsAll` passes on to the chained counter one by one.
Rewriting the count of a running counter
disturbs its output until the count is loaded again (`rewritten`), as in the code
and in the chip.  In the code cpu_clocks / freq is 3579545 / 894886, a little less
than four, and each event starts anew from a whole CPU clock; `ExactAssumption` says
that the rest of the ratio is too small to be noticed within the longest count.  `program` is which of
`Programs` uses the counters; MCI8253 has two, one for counter 0, one for the chain of
counters 1 and 2.  `CountInStep` compares the counters at the event of counter 0.  In
between it says less, because the code does less: a count that is read is never ahead
of the ideal one (`CountToRead`), but it may lag (section 4, findings).
ChainCountsTogether is about a counter 1 that divides by two or more.

### Printer, Fifo, BoundedQueue

`Printer` is the printer that prints to a file: strobe, reset and data arrive from a
parallel port, and busy and acknowledge end by events, of which a reset may leave
some behind.  Each acknowledge that a reset starts takes a descriptor, and no two
begin in the same clock.  `DescriptorAssumption` says that there are more descriptors
than clocks in an acknowledge (10 us are 36 clocks, and there are 64 descriptors):
without it acknowledges could take them all, and a byte would find none for the end
of busy.  `Fifo` is the ring buffer and
`BoundedQueue` what it promises.  A value that was never written is `Garbage` in
the buffer, which `FIFO::FIFO` leaves uninitialized.

### QuickDisk

The drive (`drive`) and channel A of the serial controller (`sio`), with DTR of
channel B.  The two objects call each other in the middle of their handlers: the
receiver tells the drive that it is empty (RXDONE), which sends a byte, which may
be refused; a change of WR3 to the hunt phase nudges the drive, which looks for the
next break.  A handler with all its calls is one action: operators such as
`SendData`, `Received`, `WriteCrc` and `EndOfDisk` map a whole state (`M`) to the next one, and
the action takes the result (`Becomes`).

| Action | Code |
|---|---|
| WriteReceive, WriteSend, WriteMotor, ResetSender, ResetMotor, WriteData, ReadData | the program, through `Z80SIO::write_io8`, `read_io8` |
| EventRecv, EventSend | `Z80SIO::event_callback`, with the drive's `write_signal` |
| EventRestore, EventEnd | `QUICKDISK::event_callback` |
| OpenDisk, CloseDisk | `open_disk`, `close_disk`, called by the host |

A byte of the track is `data`, `sync`, `crc`, `break`, `empty` or a member of `Bytes` that the
program wrote.  `log` is history: how often the drive was nudged since rtmp was
last emptied, whether the last break was announced while a byte still waited
(`early`), and the block that is being written.  A block is followed until what comes
next goes onto the track at another place: data that the program sends after the END
event, with the gate still open, begin no block that BlockFramed speaks of.

`release_disk()` saves a disk that was written to, and in doing so moves the head over
the blocks by the sizes it finds on the track, without comparing it to the length of
the buffer (`quickdisk.cpp:682-684, 740`): `Closed` puts it anywhere up to `Walk`, which
is beyond `Size`.  Nothing is read through it there until the head goes home or the next
image is loaded, as the drive's other operations compare first.  The bytes that
`release_disk()` itself reads beyond the buffer go only into the file that it saves.
Images are assumed to fit into the buffer, which `open_disk()` does not check.

### DaisyChain

`port` holds the channels (fields of the code, without data), `iei` and `oei` the signals
between the devices, `vector` the cause that a controller's vector names.
`UpdateIntr` is `update_intr()` of a device and, through `Signals`, of the children whose input
changes.  `GetIntrAck` and `Ended` walk the chain as `get_intr_ack()` and `notify_intr_reti()` do.
`cpu.irq` is `intr_req_bit`.

An instruction is one action.  `MayInterrupt` has the conditions of `run_one_opecode()`, with
the delay of EI.  `stack` is a history variable: the handlers the CPU is in, each
named by the channel that was acknowledged, or `Plain` for one that was answered 0xff
and so belongs to the timer.  The program may write any register at any time, with
this discipline: a handler of the chain returns with RETI, or ends the interrupt by
a command to WR0 with interrupts off and then returns with EI and RET; so does the
handler of the timer.  Without it no chain of this kind works.

| Action | Code |
|---|---|
| Interrupt | `Z80::check_interrupt`, `get_intr_ack` of each device |
| EnableInterrupts, DisableInterrupts, Other, Return, ReturnFromInterrupt | EI, DI, any instruction, RET, RETI and `notify_intr_reti` |
| WriteExpected, WriteIntrControl, WriteMode, PioWriteData, PioInput | `Z80PIO::write_io8`, `write_signal` |
| WriteWr1, ResetCause, ResetChannel, EndOfInterrupt, SioWriteData, SioReadData | `Z80SIO::write_io8`, `read_io8` |
| StatusChange, SendEvent, RecvEvent | `Z80SIO::write_signal`, `event_callback` |
| TimerOutput, WriteMask | `AND::write_signal` for the timer's output and the program's mask |
| Reset | `VM::reset` |

## 4. The runs

| Run | Module | Bounds | Distinct states | Shows |
|---|---|---|---|---|
| event_queue | MCEventQueue | 3 descriptors; a latching, a forgetting and a periodic client; delays 1, 2, period 1.5; clock to 4 | 363,118 | lists, order, ids and clock stay right; Timers is implemented |
| event_list | MCEventList | 3 descriptors, 4 clients on 3 devices; clock to 3 | 137,736 | the pointers hold the lists; updates end |
| frame_clock | FrameClock | frames of 6 and 7 clocks, 3 and 4 lines, powers 0 and 2, instructions to 9 clocks, 3-bit device clock, 3 frames | 713,777 | frames and scanlines are exact, the budgets stay proportional, every frame ends |
| host | Host | 2 tapes, 2 disks, 2 recordings, unreadable, unwritable and deleted files; 2 clicks | 6,545,670 | resets wait for commands, media survive, labels are true |
| host_live | Host | 1 tape, 2 clicks | 44,340 | the program ends, no request is lost |
| i8253 | MCI8253 | counter 0 in all modes and accesses, or counters 1 and 2 in modes 0, 2, 3; bytes of 2 values, 4 CPU clocks for each clock | 329,644 | events, outputs and bytes are right however the count is read; chained counters count together |
| i8253_torn | MCI8253 | as i8253 | (violation) | a half-written count is loaded |
| sound_mix | SoundMix | chunks of 4 samples, limit 3, frames of 1 or 3 samples, 2 renderers | 26,080 | each sample once, in time; bounded queue; sound is created |
| printer | Printer | 3 descriptors, busy 4, acknowledge 2, 2 frames | 86,124 | the handshake ends, ids are right |
| fifo | Fifo | size 4, 3 values | 6,331 | a bounded queue |
| quickdisk | MCQuickDisk | track of 8 bytes with one block, head to 10 when a disk is saved, recv of 1 and rtmp of 2 entries, 6 commands | 1,996,401 | bytes do not pile up, blocks are framed, breaks are announced, but for the exception below |
| daisy_chain | MCDaisyChain | a parallel port and two serial controllers, 4 channels in use, 3 register writes and calls of devices | 179,626 | the CPU's bits are true, services nest, causes match |

Why the bounds are enough:

* *event_queue*: three descriptors are the least with a middle of the list, and
  are fewer than the events that the clients want at times, so that registrations
  fail.  A clock of 4 lets the period of 1.5 clocks carry its remainder twice and
  meet both delays in the same clock.  The VIEW hides the fields of free
  descriptors, which no action reads before it writes them.  The invariants
  checked there are proved for all sizes.
* *event_list*: two anonymous scanline events and the timers of one device can be
  queued in any order, so that the head, the middle and the tail are cancelled.
  Pointers of free descriptors are in the view.  The view equates only states that
  differ in fields that nothing reads, so that they have the same behaviours from
  there on, and liveness may be checked with it.  Delays are at least a clock: that an
  event registered again and again for the very clock of its callback would keep
  update_event() from returning is not excluded by the code, and is not examined.
* *frame_clock*: an instruction (9) is longer than a frame (6 or 7) and so
  overshoots by more than one, an update crosses several scanlines, clocks do not
  divide evenly, and 2^3 lets the device clock wrap in every second frame.
* *host*: two clicks nest their callbacks and meet the resets of F12, which are not
  bounded; with two tapes, and two disks, one can replace the other, and one of each
  cannot be loaded.
* *i8253*: 25 CPU clocks to 6 clocks of the counter keeps the remainder of the real
  ratio and the truncations in both directions, and satisfies ExactAssumption, which
  every count of two values to a byte needs; each wraps through both bytes.
* *sound_mix*: a frame may end anywhere in a chunk, and four samples to a chunk
  against frames of three fill the buffer to its end.
  SDL plays at any time, or not at all, so that the run bounds the queue from above only;
  that it does not run dry depends on rates that the model does not have.
* *printer*: resets can fill the descriptors, with acknowledges of two clocks that
  overlap, as far as DescriptorAssumption lets them.
* *quickdisk*: a block that the program writes (two sync characters, data, a
  trailer of five) fits into the track of 8 or is cut off by its end, depending on
  where the head is; rtmp of 2 is the least that can hold more than the one byte
  that is asked for.  Six commands switch the motor and both directions on, enter
  the hunt phase and leave two to disturb what then runs by itself; events, reading
  and revolutions are not bounded.
* *daisy_chain*: the order of the devices in the machine.  Three positions have a
  head, a middle and a tail, and one controller with both channels in use has
  priorities of its own.  Writes to WR1 and whatever
  takes a cause away are not counted, nor is what the CPU does: three events let two
  channels request one after the other, with a timer's request in between, or fill
  the FIFO of one and overflow it.

The cfgs of FrameClock and QuickDisk say CHECK_DEADLOCK FALSE because the number of
frames (MaxFrame) and of commands (MaxCommands) is bounded, those of Host because
the program ends.  Everywhere else deadlock is checked.

### Findings

* **A half-written count is loaded** (run *i8253_torn*).  Writing the low byte of a
  16-bit count assigns it to the whole of `count_reg` (`i8253.cpp:64`), so that a
  running counter of mode 2 or 3 whose count runs out before the high byte is
  written loads a count that the program never wrote.  The comment at
  `i8253.cpp:90` says that the new count starts "after the current count is finished".
* Noted without a run: the printer registers 10000.0 usec for busy (`prnfile.cpp:81`)
  while the comment above it (`prnfile.cpp:77`) says "busy 1msec"; the MZ-1P17 registers
  1000.0.
* **The motor is stopped when it is to be started** (noted without a run).
  `quickdisk.cpp:85` says of DTR "MTON" and "H->L: start motor".  When the motor
  still runs and the head is at the end of the disk, `write_signal` calls `send_data()`
  (`quickdisk.cpp:146`) before it stores the new value of mton: `end_of_disk()` finds the
  old one and stops the motor.  It stays off until DTR is toggled.
* A timer's request is lost when a device of the chain asks at the same time: it
  has no vector, the device is acknowledged, and all request bits are cleared
  (`z80.cpp:2433`).  `AckNamesCause` shows the converse, that 0xff means the timer alone.
* **A count that is read often lags** (noted without a run).  `latch_count()` takes the
  whole clocks that have passed off the count and begins the next one "now"
  (`i8253.cpp:368-373`): the CPU clocks of the one in progress no longer count.  A program
  that reads counter 0 every 7 CPU clocks sees it fall by one each time, once in 7
  CPU clocks where it should in 4.  Its event keeps the right time (`period` is kept in
  CPU clocks), and the count is right again there: this is what CountInStep says.
  That the count lags, and never leads, is its second conjunct.
* **A break is announced once, and may be lost** (the exception `ToldEarly` of
  `BreakAnnounced`).  A nudge, by DTR (`quickdisk.cpp:144-147`) or by the head's arrival at
  home, makes the drive look on while a byte still waits in rtmp.  If it finds a break,
  it sets break/abort and clears `send_break`.  Storing the byte that waited clears
  break/abort (`z80sio.cpp:669-671`), and the receiver that then runs dry is not told
  again: a program that polls for either waits until the END event.
* The status handler of CTS falls through into that of SYNC (`z80sio.cpp:517`), and a
  channel reset neither ends its service nor tells the drive that RTS and DTR
  have changed.  `VM::reset()` writes to the parallel port, whose channel then has a
  request before it is programmed.  The models have all of these.
* Exceptions that the properties of Host name: a tape that was deleted ends the
  remounting before the quick disk (`MediaSurviveReset`), a recording is given
  up by a reset, and a quick disk that exists but cannot be opened leaves its drive
  empty, although the label shows it and `initial_qd` names it
  (`solaris_main.cpp:309-313`, `quickdisk.cpp:354-365`); so does a tape that does not load.
* Exceptions that `SamplesKept` names: samples that no longer fit into the two
  chunks of the buffer are lost, and one is gained when realtime rendering begins
  right after a touch.

## 5. Fairness

* EventList (`LFairSpec`), FrameClock and SoundMix: weak fairness of the steps that
  straight-line code takes by itself (the loop of `update_event`, `drive`,
  `create_sound`).  The emulator's machine runs on one thread, which never blocks
  there.  Nothing is assumed of devices, the CPU's choice of instructions or SDL.
* Host: weak fairness of the main loop and of the callbacks of GTK, two scheduled
  threads.  Nothing is assumed of the user, except that clicks do not come so fast
  that the loops `while (gtk_events_pending())` never end: strong fairness of
  leaving them (`GtkDrains`).

## 6. The proofs

TLAPS checks all proofs for every value of the constants, from the named
assumptions beside their declarations.

**EventQueueProofs** (any number of descriptors, clients and devices).  `IInv` is
TypeOK, ListsPartitionSlots, the three parts of EventsOnTime, IdsMatchEvents,
and two conjuncts no run needs by name: *KindsAgree* (an event's loop_clock says
whether its client is periodic, so that a reset cancels exactly the one-shot
events) and *ResetProgress* (slots before `scan` are free of one-shot events, so
that a device may forget its ids).  The ids need the lists (a slot that is taken from
the free list is named by no id), and the clock needs the order (only the head is
compared).  From IInv follow the action properties OnlyLegalRemovals and
ClockJumpsOverNothing (theorem ClockNeverSkips, which no run checks by name).  The
first section has what inserting and removing does to injective sequences.

`QueueIsTimers` is the refinement, HSpec => ImplementsTimers.  Beside IInv it needs
`HInv`: the insertions recorded are those of registered events (*InsertedAreLive*), the
fire list keeps their order among equal times (*FireOrderKept*), and remainders are
less than a clock (*RemaindersSmall*).  Every action of the queue is then one of Timers
or leaves its variables alone: the head of the fire list is the timer that Timers
would call back, and a periodic one goes to the end of its order.  Timers removes
from its order by position, as a recursive operator could not be reasoned about.

`PointersAreLists` is about EventList.  Its invariant is IInv and *Threaded*: each list
is linked from its first pointer to NULL (*Linked*), and prev of an entry is the entry
before it (*FireLinked*).  IInv is needed as no entry may be on both lists or twice on
one: what an operation writes would else change the other list.  The walk along next
is recursive; that it returns a list that is linked (ReachedIs) is by least
counterexample, and the pigeonhole principle bounds its length.

**FrameClockProofs** (any rate, power, number of scanlines and length of
instructions).  `IInv` is *Numbers* (the types that arithmetic needs) and *Account*:
at each point of `drive()`, the clock and the clocks left in the frame add up to the
frames begun; an overshoot is clocks that the next frame has already had.
FrameExact follows.  PowerBalance (theorem CpuKeepsPace) is inductive for any powers,
as it speaks of the time until the power is changed (`repowered`).

VlineInPlace (theorem VlinesAreInPlace) adds `Vlines`: the scanlines are those dealt out
for the frame (*Dealt*), the current one began at its place, the clock is within it, and
its event lies at its end (*Began*).  That the scanlines tile the frame is lemma
DealtOut: the lines that get one clock more are different lines (ExtraLines, where the
code adds 1 at `lines * i / remainder`), so that as many clocks are added as remain;
the sums are by least counterexample.  Account bounds the target of an update
(TargetInFrame), so that no update leads past the last scanline.  A device that
reads the wrapped clock finds the clocks passed (PassedSince), as long as a frame is
shorter than the range of that clock (`WidthAssumption`, in the code some sixty thousand
clocks against 2^32).

**SoundMixProofs** (any size of chunk, limit and frames): the four invariants are
inductive together.

**HostProofs** (any number of clicks and files).  ResetAfterItsCommands with *Counts*
(queued = executed + waiting) and the type of the queue; MediaSurviveReset with the
types of the media (`MInv`); LabelsShowMedia with `LInv`: only the innermost callback
is past its dialog (*Nested*), and once what is queued has been executed and the label
of the innermost callback set, tape and disk are those that the labels show
(*TapeSettles*, *DiskSettles*).  Callbacks may nest as deep as GTK lets them.

**SerialProofs**, first part (any size and values of a ring buffer): `RingInv` is TypeOK,
*Linked* (wpt is cnt places after rpt) and *Filled* (values in between).  `RingIsQueue` shows
FifoSpec => Queue!Spec: the initial state maps to the empty queue, and each operation to
one of the queue.  QuickDisk may therefore have sequences for the controller's queues.

**SerialProofs**, second part (any length of the track, any disks, any sizes of recv and
rtmp, one sync character or two).  QuickDisk's operators map a record of the whole state
to another, and so do the lemmas: `Good` is what each signal and callback, given a
record that has it, returns with it (DataStep, BreakStep, GateStep, SyncStep, MotorStep, SendStep,
RecvStep ...), and a handler follows from the operators it calls, in their order.  Good
is Machine (the types), and

* *Within*: while a disk is in the drive, the head is in the buffer or just behind it.
  Without one it may be beyond it, where release_disk() leaves it; an image that is
  loaded puts it back.
* *Drawn*: the block is on the track (*Shown*, which is BlockFramed); while it is open, the
  gate is open and write_ptr is the place after its last character, where the head is too
  unless it has gone home (*Writing*); and whenever write_ptr is not 0, the block is open or
  unknown, so that a trailer is written over nothing but the place behind the block
  (*Ended*).  Without the last two, BlockFramed is not inductive: a trailer could land
  anywhere.  What a break overwrites (BreakStep) is the break at the end of the trailer.
* write_ptr is never the end of the buffer: a byte that reaches it ends the disk at once
  (WrittenStep), which resets write_ptr.
* *Stored*: rtmp holds no more than its size, and a callback of the receiver is due only
  if there is a byte for it.
* *Asked*: InFlight, and send_break is set whenever a byte waits, as the head has passed
  it since the last break, unless the break was announced while it waited (`early`), which
  takes a nudge since rtmp was empty.  So the next send_data(), which a receiver that
  runs dry causes, announces a break that it meets (SendStep), but for this
  exception, which is BreakAnnounced: *Told* says it of every step.

PastBreaks and EndOfImage choose positions; that these exist is by the well-foundedness of
the naturals (LeastOfNats).  TLC had checked the invariant on the instance of run
*quickdisk*.

**PrinterProofs** (any times, frames and number of descriptors).  `IInv`: an event
expires within the time of its kind (*EventsTimed*), the acknowledge in progress has
its own, whose age and rest make up ACK_TIME (*AckHasEvent*), busy has one that ends it
in time (*BusyHasEvent*), events of acknowledges are some clocks apart (*AcksApart*)
and all begun since busy ended (*BusyAfterAck*), and frames add up (*FileTimed*).  That
a byte finds a descriptor is the pigeonhole lemma FullHasBusy: if all were taken by
acknowledges, they would have more different times than an acknowledge has clocks.
This proof failed for the assumption that the model had before (that the
acknowledges of all descriptors fit into one busy time), which allows just that.

**I8253Proofs** (any size of a byte, any pair of rates that ExactAssumption admits, any
program).  `IInv` has *Typed* (with *BytesInOrder*: only a high byte is ever waited for)
and *Timed*: the event of a running counter lies no later than its clocks take.  So
less than input_clk clocks have passed whenever latch_count() looks (lemma
PassedBeforeDue), and its branch for an expired event is dead.  TypeCorrect,
EventKeepsUp and CountReadIsOne follow.

`Pace` relates counter 0 to the ideal one.  *InStep*: the CPU clocks until the event
are a whole number of clocks (ClocksLeft) but for the phase; when they have passed, both
counters will have come to the same count, and both have the same setting.  *SameOutput*:
the outputs are the same between events, in mode 3 the output is where the count puts
it (*Square*), and the event passes over no change of it (*NextChange*).  Two counters
that come to the same count in different steps do the same from there (CountedAlike,
DelayedAlike).  CountInStep (theorem CountKeepsStep) and OutputOnTime (OutputKeepsTime)
follow, for programs that latch, gate and rewrite at any time.  That a count read before
the event is never ahead of the ideal one is lemma NotAhead: each latch rounds the
clocks that have passed down.  TLC had checked Pace on
the instance of run *i8253*.

ChainCountsTogether (theorem ChainKeepsCount) needs only `Typed`: nothing but the clock
changes the clock input of counter 1 (ClockInputKept), a clock changes the output of a
counter that divides at most once (DividerClockIs), and in each of the three cases (it
counts, falls, is loaded) the clocks that remain are one less (ChainSteps).

**DaisyChainProofs** (any chain of parallel ports and serial controllers, any
program that keeps the discipline).  `IInv` is ServicesNest and PlainOnTop with *Shapes* (the
types they need) and *PlainIsAlone*: while a handler that returns with RET is on top,
interrupts are off, or EI was the last instruction.  An acknowledge is answered by
the first channel that asks or serves (lemma FirstIsFirst, by the well-foundedness
of the naturals), so that it precedes all in service; the return reaches the first
in service, which is the handler on top (TopIsFirst).  No update of signals changes a
port (SignalsLeavePorts), so that this proof needs nothing of the recursive
function Signals.  It shows that nesting does not rest on the signals IEI and IEO
at all, but on the order in which the chain is asked.

LinesTrue and AckNamesCause do rest on the signals.  `ChainIInv` adds the types of the
ports and *Settled*: the signals are those of the channels in service (*SignalsShow*),
each bit of the CPU is right and each vector names its cause (*BitTrue*, *VectorTrue*).
A step changes the ports of one device, and what update_intr() then sends along
the chain (SignalsAre) settles it, even if that device's own signals were not right before
(UpdateSettles).  That an acknowledge clears all bits is right because nobody asks
then: all behind the channel taken into service are silent, and none before it asks
(ServiceSilences).  At RETI several devices update in turn; the first update settles the
chain, and the others keep it so (UpdateAllSettles).  UpdateAll is a recursive
function for this proof.


## 7. Only model-checked

Liveness (UpdateTerminates, FrameEnds, ProgramEnds, RequestsServed, SoundCreated), which is out
of the prover's reach.  All safety properties of the passing runs are proved as well.

## 8. Not modelled

* The devices' other logic: the CPU's instructions, floppy controller, tape
  position, memory, keys.  Planned in section 2, with the reasons in `PROJECT.json`
  ("components").
* Save states, the debugger and its console, sub-CPUs, other machines and the
  Windows front end: not reachable in this build.
* Signal synthesis, rendering, file formats (disk and tape images among them),
  configuration: data and I/O.
* In the serial controller: external clocks, automatic enables, asynchronous modes,
  CRC; in the parallel port: the bidirectional mode and the ready signals.
* In the modelled files: `get_event_remaining_clock` (`event.cpp:488` reads the
  descriptor of another event; no device of this machine calls it),
  `is_frame_skippable` (never called, so that `prev_skip` stays false),
  `FIFO::write_not_push` (nothing calls it, and it counts from the write
  index), `PRNFILE::read_signal`, the removal of files of one byte and names of
  files that are opened in the same second.  A counter of the 8253 that is stopped
  forgets the clocks since its last event; I8253 has this, but no property objects.
