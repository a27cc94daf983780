----------------------------- MODULE DaisyChain -----------------------------
(***************************************************************************)
(* The interrupts of the machine: the daisy chain of a parallel port       *)
(* (src/vm/z80pio.cpp) and serial controllers (src/vm/z80sio.cpp), the     *)
(* gate that adds the timer's interrupt (src/vm/and.cpp) and the CPU that  *)
(* takes them (src/vm/z80.cpp), wired as in src/vm/mz700/mz700.cpp.        *)
(*                                                                         *)
(* A device that has a request sets its own bit in intr_req_bit, unless a  *)
(* channel of higher priority is in service.  The CPU does not look at the *)
(* bits: it asks the head of the chain, which answers or asks its child.   *)
(* The timer's bit, bit 0, has no device in the chain.                     *)
(*                                                                         *)
(* The program may do anything the hardware allows, with this discipline:  *)
(* handlers of the chain return with RETI; what answers the timer returns  *)
(* with EI and RET.  No non-maskable interrupt is wired.  Data, timing and *)
(* the bidirectional mode of the parallel port are left out; a byte may    *)
(* come or go at any time.                                                 *)
(***************************************************************************)
EXTENDS Integers, SequencesExt, FiniteSetsExt

CONSTANTS
    Chain,         \* the devices, "pio" or "sio", highest priority first
    RecvSize,      \* entries of the FIFO recv (4 in the code)
    Wr1Values,     \* what the program writes into WR1
    Active,        \* bound: the channels that are programmed or have something to tell
    MaxEvents      \* bound: what the program writes (but WR1 and what clears a cause) and what
                   \* reaches a device or the gate

Pos == 1 .. Len(Chain)
Channel == 0 .. 1
Slots == Pos \X Channel

Wr1 == [ext : BOOLEAN, tx : BOOLEAN, affects : BOOLEAN, rx : {"none", "first", "all"}]
NoInterrupts == [ext |-> FALSE, tx |-> FALSE, affects |-> FALSE, rx |-> "none"]

ASSUME ChainAssumption == Chain \in Seq({"pio", "sio"}) \ {<<>>}
ASSUME ProgramAssumption ==
    /\ RecvSize \in Nat \ {0} /\ MaxEvents \in Nat
    /\ Wr1Values \subseteq Wr1 /\ Active \subseteq Slots

VARIABLES
    port,      \* slot -> the port of that device
    iei, oei,  \* position -> the signals between the devices
    vector,    \* position -> the cause that a serial controller's vector names
    cpu,       \* intr_req_bit, iff1 (which is iff2) and after_ei
    bits_in,   \* the inputs of the gate: 0 the timer's output, 1 the mask
    stack,     \* the handlers the CPU is in, the innermost last
    events

chain == <<port, iei, oei, vector>>
vars == <<chain, cpu, bits_in, stack, events>>
M == [port |-> port, iei |-> iei, oei |-> oei, vector |-> vector, irq |-> cpu.irq]

Plain == <<0, 0>>    \* the frame of a handler that returns with RET
NoCause == <<0, "none">>

Pio == [mode |-> "input", expects |-> "none", enb |-> FALSE, tmp |-> FALSE, req |-> FALSE,
        in_service |-> FALSE]
Sio == [err |-> FALSE, recv |-> 0, stat |-> FALSE, send |-> FALSE, over_flow |-> FALSE,
        fifo |-> 0, wr1 |-> NoInterrupts, in_service |-> FALSE]
IsPio(i) == Chain[i] = "pio"

\* Z80PIO::reset(), Z80SIO::reset(), Z80::special_reset()
Resetted(m) ==
    [m EXCEPT !.port = [s \in Slots |-> IF IsPio(s[1]) THEN Pio ELSE Sio],
              !.iei = [i \in Pos |-> TRUE], !.oei = [i \in Pos |-> TRUE], !.irq = {}]
-----------------------------------------------------------------------------
(* Requests. *)

\* What the channel of a serial controller asks for: an error, a byte received,
\* a change of status, an empty buffer.
Cause(p) ==
    IF p.err THEN "err"
    ELSE IF p.recv > 0 /\ p.wr1.rx # "none" THEN "recv"
    ELSE IF p.stat /\ p.wr1.ext THEN "stat"
    ELSE IF p.send /\ p.wr1.tx THEN "send" ELSE "none"

Requests(m, s) ==
    IF IsPio(s[1]) THEN m.port[s].enb /\ m.port[s].req ELSE Cause(m.port[s]) # "none"

InService(m, i) == \E c \in Channel : m.port[<<i, c>>].in_service

\* The channels whose request no channel in service keeps back.
Asking(m, i) ==
    {c \in Channel : Requests(m, <<i, c>>) /\ \A b \in 0 .. c : ~m.port[<<i, b>>].in_service}

\* The cause in the vector, if the program wants it there.
Affect(m, i) ==
    IF Asking(m, i) = {} \/ ~m.port[<<i, 1>>].wr1.affects THEN NoCause
    ELSE LET c == Min(Asking(m, i)) IN <<c, Cause(m.port[<<i, c>>])>>

\* The signals between the devices when i has set its output: a child that
\* sees its input change sets its own output.
Signals(m, i) ==
    LET signals[j \in Pos] ==
            LET parent == IF j > i THEN signals[j - 1].oei ELSE TRUE
                in == IF j > i /\ parent # m.oei[j - 1] THEN parent ELSE m.iei[j]
            IN [iei |-> in,
                oei |-> IF j = i \/ in # m.iei[j] THEN in /\ ~InService(m, j) ELSE m.oei[j]]
    IN signals

\* update_intr() of device i, and of the children it reaches.
UpdateIntr(m, i) ==
    LET signals == Signals(m, i)
        reached == {j \in Pos : j = i \/ signals[j].iei # m.iei[j]}
        asking == {j \in reached : signals[j].iei /\ Asking(m, j) # {}}
    IN [m EXCEPT !.iei = [j \in Pos |-> signals[j].iei],
                 !.oei = [j \in Pos |-> signals[j].oei],
                 !.vector = [j \in Pos |-> IF j \in reached /\ ~IsPio(j) THEN Affect(m, j) ELSE @[j]],
                 !.irq = (@ \ reached) \cup asking]
-----------------------------------------------------------------------------
(* The chain answers the CPU. *)

\* Mutant: the acknowledge looks at the status before the bytes received.
AckCauseStatusFirst(p) ==
    IF p.err THEN "err"
    ELSE IF p.stat /\ p.wr1.ext THEN "stat"
    ELSE IF p.recv > 0 /\ p.wr1.rx # "none" THEN "recv"
    ELSE IF p.send /\ p.wr1.tx THEN "send" ELSE "none"

\* The acknowledge of a serial controller finds the cause anew.
AckCause(p) ==
    IF p.err THEN "err"
    ELSE IF p.recv > 0 /\ p.wr1.rx # "none" THEN "recv"
    ELSE IF p.stat /\ p.wr1.ext THEN "stat"
    ELSE IF p.send /\ p.wr1.tx THEN "send" ELSE "none"

\* The channels that answer before the rest is asked.
Answering(m) ==
    {s \in Slots : \/ m.port[s].in_service
                   \/ IF IsPio(s[1]) THEN Requests(m, s) ELSE AckCause(m.port[s]) # "none"}
Before(s, t) == s[1] < t[1] \/ (s[1] = t[1] /\ s[2] < t[2])
First(slots) == CHOOSE s \in slots : \A t \in slots \ {s} : Before(s, t)

\* A channel that is in service answers 0xff; so does the end of the chain.
Answers(m) ==
    IF Answering(m) = {} \/ m.port[First(Answering(m))].in_service
    THEN Plain ELSE First(Answering(m))

\* The channel forgets what it is acknowledged for, except bytes received.
Taken(p, pio) ==
    IF pio THEN [p EXCEPT !.req = FALSE, !.in_service = TRUE]
    ELSE [p EXCEPT !.in_service = TRUE,
                   !.err = FALSE,
                   !.stat = @ /\ AckCause(p) # "stat",
                   !.send = @ /\ AckCause(p) # "send"]

\* get_intr_ack()
GetIntrAck(m) ==
    LET s == Answers(m)
    IN IF s = Plain THEN m
       ELSE UpdateIntr([m EXCEPT !.port[s] = Taken(@, IsPio(s[1]))], s[1])

\* The devices update their signals in the order of seq; no port changes.
UpdateAll(m, seq) ==
    LET updated[k \in 0 .. Len(seq)] ==
            IF k = 0 THEN m ELSE UpdateIntr(updated[k - 1], seq[k])
        w == updated[Len(seq)]
    IN [port |-> m.port, iei |-> w.iei, oei |-> w.oei, vector |-> w.vector, irq |-> w.irq]

\* Mutant: every device hears of the return.
EndedEverywhere(m) ==
    LET ended == {s \in Slots : m.port[s].in_service}
    IN UpdateAll([m EXCEPT !.port = [s \in ended |-> [@[s] EXCEPT !.in_service = FALSE]] @@ @],
                 Reverse([i \in Pos |-> i]))

\* notify_intr_reti(): the first channel in service is it no longer; then the
\* devices it was passed on by update their signals, the head last.
Ended(m) ==
    LET ended == {s \in Slots : m.port[s].in_service}
        last == IF ended = {} THEN Len(Chain) ELSE First(ended)[1]
        e == IF ended = {} THEN m ELSE [m EXCEPT !.port[First(ended)].in_service = FALSE]
    IN UpdateAll(e, Reverse([i \in 1 .. last |-> i]))
-----------------------------------------------------------------------------
(* The gate. *)

GateOpen(in) == in = {0, 1}

\* AND::write_signal(): the CPU hears of changes.
GateChanged(m, in) ==
    [m EXCEPT !.irq = IF GateOpen(in) = GateOpen(bits_in) THEN @
                      ELSE IF GateOpen(in) THEN @ \cup {0} ELSE @ \ {0}]

\* VM::reset() writes to the parallel port, which is in the input mode.
StrobedAtReset(m) ==
    IF IsPio(1) THEN UpdateIntr([m EXCEPT !.port[<<1, 0>>].req = TRUE], 1) ELSE m

Blank == [port |-> <<>>, iei |-> <<>>, oei |-> <<>>, vector |-> [i \in Pos |-> NoCause], irq |-> {}]

Init ==
    /\ LET m == StrobedAtReset(Resetted(Blank))
       IN port = m.port /\ iei = m.iei /\ oei = m.oei /\ vector = m.vector
    /\ cpu = [irq |-> {}, iff1 |-> FALSE, after_ei |-> FALSE]
    /\ bits_in = {1} /\ stack = <<>> /\ events = 0
-----------------------------------------------------------------------------
(* The CPU (z80.cpp).  Before each instruction but the one after EI it looks *)
(* for requests; an instruction is one action.                              *)

\* Mutant: the instruction after EI can be interrupted.
MayInterruptAtOnce == cpu.iff1 /\ cpu.irq # {}

\* check_interrupt(), when it takes an interrupt.
MayInterrupt == ~cpu.after_ei /\ cpu.iff1 /\ cpu.irq # {}

Interrupt ==
    /\ MayInterrupt
    /\ LET m == GetIntrAck(M)
       IN port' = m.port /\ iei' = m.iei /\ oei' = m.oei /\ vector' = m.vector
    /\ cpu' = [cpu EXCEPT !.irq = {}, !.iff1 = FALSE]
    /\ stack' = Append(stack, Answers(M))
    /\ UNCHANGED <<bits_in, events>>

Top == IF stack = <<>> THEN Plain ELSE Last(stack)

\* Something else than EI, and no EI and RET in between.
Executes ==
    /\ ~MayInterrupt
    /\ ~(stack # <<>> /\ Top = Plain /\ cpu.after_ei)

\* The instruction leaves the devices in state m.
Executed(m) ==
    /\ port' = m.port /\ iei' = m.iei /\ oei' = m.oei /\ vector' = m.vector
    /\ cpu' = [cpu EXCEPT !.irq = m.irq, !.after_ei = FALSE]

EnableInterrupts ==
    /\ Executes
    /\ cpu' = [cpu EXCEPT !.iff1 = TRUE, !.after_ei = TRUE]
    /\ UNCHANGED <<chain, bits_in, stack, events>>

DisableInterrupts ==
    /\ Executes
    /\ cpu' = [cpu EXCEPT !.iff1 = FALSE, !.after_ei = FALSE]
    /\ UNCHANGED <<chain, bits_in, stack, events>>

\* Any other instruction.
Other ==
    /\ Executes /\ cpu.after_ei
    /\ Executed(M)
    /\ UNCHANGED <<bits_in, stack, events>>

\* RET, after EI.
Return ==
    /\ stack # <<>> /\ Top = Plain /\ cpu.after_ei
    /\ stack' = Front(stack)
    /\ Executed(M)
    /\ UNCHANGED <<bits_in, events>>

\* RETI
ReturnFromInterrupt ==
    /\ Executes /\ Top # Plain
    /\ stack' = Front(stack)
    /\ Executed(Ended(M))
    /\ UNCHANGED <<bits_in, events>>

Counted == events < MaxEvents /\ events' = events + 1

\* An instruction that writes to a register; one that changes nothing is Other.
Command(m) ==
    /\ Executes /\ Counted /\ m # M
    /\ Executed(m)
    /\ UNCHANGED <<bits_in, stack>>

\* A device is called, at any time.
Becomes(m) ==
    /\ Counted
    /\ port' = m.port /\ iei' = m.iei /\ oei' = m.oei /\ vector' = m.vector
    /\ cpu' = [cpu EXCEPT !.irq = m.irq]
-----------------------------------------------------------------------------
(* Z80PIO *)

PioSlots == {s \in Active : IsPio(s[1])}

Set(s, p) == [M EXCEPT !.port[s] = p]
Update(s, p) == UpdateIntr(Set(s, p), s[1])

\* The data of a port in the control mode satisfy the program's condition, or not.
Monitored(s, met) == Update(s, [port[s] EXCEPT !.req = met])
Strobed(s) == Update(s, [port[s] EXCEPT !.req = TRUE])
DataChanged(s, met) == IF port[s].mode = "control" THEN Monitored(s, met) ELSE Strobed(s)

\* The word that comes when a mask or the directions are expected.
WriteExpected(s) ==
    LET p == port[s]
    IN /\ p.expects # "none"
       /\ Command(IF p.expects = "dir" THEN Set(s, [p EXCEPT !.expects = "none"])
                  ELSE Update(s, [p EXCEPT !.expects = "none", !.enb = p.tmp]))

\* An interrupt control word, which a mask may follow: 0x03, 0x07, 0x17.
WriteIntrControl(s) ==
    /\ port[s].expects = "none"
    /\ \E on, mask \in BOOLEAN :
          Command(Update(s, IF mask
                            THEN [port[s] EXCEPT !.expects = "mask", !.req = FALSE,
                                                 !.tmp = on, !.enb = FALSE]
                            ELSE [port[s] EXCEPT !.enb = on]))

\* A mode control word: 0x0f.
WriteMode(s) ==
    /\ port[s].expects = "none"
    /\ \E mode \in {"input", "output", "control"} :
          Command(Set(s, [port[s] EXCEPT !.mode = mode,
                                         !.expects = IF mode = "control" THEN "dir" ELSE "none"]))

\* The program writes data; in the output mode the peripheral takes them at once.
PioWriteData(s) ==
    /\ port[s].mode # "input"
    /\ \E met \in BOOLEAN : Command(DataChanged(s, met))

\* The peripheral changes the data: SIG_Z80PIO_PORT_A, _B.
PioInput(s) ==
    /\ port[s].mode # "output"
    /\ \E met \in BOOLEAN : DataChanged(s, met) # M /\ Becomes(DataChanged(s, met))
    /\ UNCHANGED <<bits_in, stack>>
-----------------------------------------------------------------------------
(* Z80SIO *)

SioSlots == {s \in Active : ~IsPio(s[1])}

\* The device updates its interrupts if the channel now has p and must tell.
UpdateIf(required, s, p) == IF required THEN Update(s, p) ELSE Set(s, p)

\* Mutant: the new value of WR1 has no effect until something else changes.
Wr1WrittenUnseen(s, value) == Set(s, [port[s] EXCEPT !.wr1 = value])

\* WR1
Wr1Written(s, value) == UpdateIf(port[s].wr1 # value, s, [port[s] EXCEPT !.wr1 = value])

WriteWr1(s) ==
    /\ Executes
    /\ \E value \in Wr1Values : value # port[s].wr1 /\ Executed(Wr1Written(s, value))
    /\ UNCHANGED <<bits_in, stack, events>>

\* WR0: reset the status, the empty buffer or the error.
ResetCause(s) ==
    LET p == port[s]
    IN /\ Executes
       /\ \/ p.stat /\ Executed(Update(s, [p EXCEPT !.stat = FALSE]))
          \/ p.send /\ Executed(Update(s, [p EXCEPT !.send = FALSE]))
          \/ /\ p.over_flow
             /\ Executed(UpdateIf(p.err, s, [p EXCEPT !.err = FALSE, !.over_flow = FALSE]))
       /\ UNCHANGED <<bits_in, stack, events>>

\* WR0: channel reset.  The channel remains in service.
ResetChannel(s) ==
    LET p == port[s]
    IN Command(UpdateIf(p.err \/ p.recv > 0 \/ p.stat \/ p.send, s,
                        [Sio EXCEPT !.in_service = p.in_service]))

\* WR0 of channel A: end of interrupt, by a handler that then returns with RET.
EndOfInterrupt(i) ==
    LET served == {c \in Channel : port[<<i, c>>].in_service}
    IN /\ ~cpu.iff1 /\ Top # Plain /\ Top[1] = i
       /\ Executes /\ Counted
       /\ Executed(IF served = {} THEN M
                   ELSE Update(<<i, Min(served)>>,
                               [port[<<i, Min(served)>>] EXCEPT !.in_service = FALSE]))
       /\ stack' = [stack EXCEPT ![Len(stack)] = Plain]
       /\ UNCHANGED bits_in

SioWriteData(s) ==
    /\ Executes /\ port[s].send
    /\ Executed(Update(s, [port[s] EXCEPT !.send = FALSE]))
    /\ UNCHANGED <<bits_in, stack, events>>

\* A byte read takes back a request, until there are none.
SioReadData(s) ==
    LET p == port[s]
        left == IF p.recv > 0 THEN p.recv - 1 ELSE 0
    IN /\ Executes /\ p.fifo > 0
       /\ Executed(UpdateIf(p.recv = 1, s, [p EXCEPT !.recv = left, !.fifo = @ - 1]))
       /\ UNCHANGED <<bits_in, stack, events>>

\* BREAK, DCD, CTS, SYNC.
StatusChange(s) ==
    /\ ~port[s].stat
    /\ Becomes(Update(s, [port[s] EXCEPT !.stat = TRUE]))
    /\ UNCHANGED <<bits_in, stack>>

\* EVENT_SEND, when the buffer has become empty; it may have been the first
\* underrun.
SendEvent(s) ==
    LET p == port[s]
    IN /\ ~p.send \/ ~p.stat
       /\ \E under_run \in BOOLEAN :
             Becomes(UpdateIf((under_run /\ ~p.stat) \/ ~p.send, s,
                              [p EXCEPT !.stat = @ \/ under_run, !.send = TRUE]))
       /\ UNCHANGED <<bits_in, stack>>

\* EVENT_RECV.  The byte may be the first one, and end an abort.
RecvEvent(s) ==
    LET p == port[s]
        Received(first, abort) ==
            LET req == p.wr1.rx = "all" \/ (p.wr1.rx = "first" /\ first)
            IN UpdateIf((req /\ p.recv = 0) \/ (abort /\ ~p.stat), s,
                        [p EXCEPT !.fifo = @ + 1, !.recv = IF req THEN @ + 1 ELSE @,
                                  !.stat = @ \/ abort])
    IN /\ p.fifo < RecvSize \/ ~p.over_flow
       /\ IF p.fifo = RecvSize
          THEN Becomes(UpdateIf(~p.over_flow /\ ~p.err, s,
                                [p EXCEPT !.over_flow = TRUE, !.err = @ \/ ~p.over_flow]))
          ELSE \E first, abort \in BOOLEAN : Becomes(Received(first, abort))
       /\ UNCHANGED <<bits_in, stack>>
-----------------------------------------------------------------------------
\* The timer's output (0) changes.
TimerOutput ==
    LET in == IF 0 \in bits_in THEN bits_in \ {0} ELSE bits_in \cup {0}
    IN /\ Becomes(GateChanged(M, in))
       /\ bits_in' = in
       /\ UNCHANGED stack

\* The program sets or clears the mask, bit 2 of the 8255's port C.
WriteMask ==
    LET in == IF 1 \in bits_in THEN bits_in \ {1} ELSE bits_in \cup {1}
    IN /\ Executes /\ Counted
       /\ Executed(GateChanged(M, in))
       /\ bits_in' = in
       /\ UNCHANGED stack

\* VM::reset()
Reset ==
    /\ Counted
    /\ LET m == StrobedAtReset(Resetted(M))
       IN port' = m.port /\ iei' = m.iei /\ oei' = m.oei /\ vector' = m.vector
    /\ cpu' = [irq |-> {}, iff1 |-> FALSE, after_ei |-> FALSE]
    /\ bits_in' = {1} /\ stack' = <<>>

Next ==
    \/ Interrupt \/ EnableInterrupts \/ DisableInterrupts \/ Other \/ Return \/ ReturnFromInterrupt
    \/ \E s \in PioSlots : \/ WriteExpected(s) \/ WriteIntrControl(s) \/ WriteMode(s)
                           \/ PioWriteData(s) \/ PioInput(s)
    \/ \E s \in SioSlots : \/ WriteWr1(s) \/ ResetCause(s) \/ ResetChannel(s)
                           \/ SioWriteData(s) \/ SioReadData(s)
                           \/ StatusChange(s) \/ SendEvent(s) \/ RecvEvent(s)
    \/ \E i \in Pos : ~IsPio(i) /\ EndOfInterrupt(i)
    \/ TimerOutput \/ WriteMask \/ Reset

Spec == Init /\ [][Next]_vars
-----------------------------------------------------------------------------
(* Properties. *)

\* The CPU's bits, which an acknowledge clears without looking, always say
\* which devices ask for an interrupt: no request of the chain is lost with
\* another one, and none outlives its cause (z80.cpp:2433, z80pio.cpp:284).
LinesTrue == \A i \in Pos : i \in cpu.irq <=> iei[i] /\ Asking(M, i) # {}

\* The channels in service are those whose handlers have not ended, and each
\* handler has interrupted one of lower priority: the return that the chain
\* gives to the first channel in service ends the innermost handler
\* (z80pio.cpp:311, z80sio.cpp:903).
ServicesNest ==
    LET handlers == {k \in 1 .. Len(stack) : stack[k] # Plain}
    IN /\ {stack[k] : k \in handlers} = {s \in Slots : port[s].in_service}
       /\ \A j, k \in handlers : j < k => Before(stack[k], stack[j])

\* Only a handler that returns with EI and RET can be at the top of the stack
\* and it is never interrupted: however fast the timer asks, its handlers do
\* not pile up (z80.cpp:2269).
PlainOnTop == \A k \in 1 .. Len(stack) - 1 : stack[k] # Plain

\* The CPU is answered 0xff only when the timer asks and nobody in the chain
\* does, and a vector that names a cause names the one that is acknowledged
\* (z80sio.cpp:869, where the vector is the one made before).
AckNamesCause ==
    [][LET f == Last(stack')
       IN Len(stack') > Len(stack) =>
              IF f = Plain THEN cpu.irq = {0}
              ELSE IsPio(f[1]) \/ vector[f[1]] \in {NoCause, <<f[2], AckCause(port[f])>>}]_vars
=============================================================================
