----------------------------- MODULE QuickDisk ------------------------------
(***************************************************************************)
(* The quick disk (src/vm/mz700/quickdisk.cpp) and the data path of the    *)
(* serial controller it hangs on (src/vm/z80sio.cpp), which call each      *)
(* other in the middle of their handlers.                                  *)
(*                                                                         *)
(* The disk is one spiral track.  The controller asks for the next byte    *)
(* when its receiver has emptied rtmp (RXDONE) or enters the hunt phase;   *)
(* blocks are separated by breaks, which the head passes only in the hunt  *)
(* phase.  RTS of channel A opens the write gate, DTR of channel B turns   *)
(* the motor on; both are low when the bit in WR5 is set.                  *)
(*                                                                         *)
(* The program is free to write any register at any time, in a synchronous *)
(* mode, without automatic enables; it reads data only when there is some. *)
(* Flags that only make interrupts or status bits are left out here, and   *)
(* the files of disk images are not modelled.                              *)
(***************************************************************************)
EXTENDS Integers, Sequences

CONSTANTS
    Size,          \* QUICKDISK_BUFFER_SIZE (65536 in the code)
    RecvSize,      \* entries of the FIFO recv (4 in the code)
    RtmpSize,      \* entries of the FIFO rtmp (8 in the code)
    Bisync,        \* whether the program chose two sync characters, or one
    Inhibit,       \* whether it lets sync characters into recv in the hunt phase
    Images,        \* the disk images: functions from Track to Chars
    Bytes,         \* what the program writes
    Walk,          \* bound: the farthest place at which saving a disk leaves the head
    MaxCommands    \* bound: how often a register is written or the disk changed

Track == 0 .. Size - 1
\* The entries of the buffer: data, DATA_SYNC, DATA_CRC, DATA_BREAK, DATA_EMPTY.
Chars == Bytes \cup {"data", "sync", "crc", "break", "empty"}
None == Size    \* no position

ASSUME SizeAssumption ==
    /\ Size \in Nat \ {0} /\ RecvSize \in Nat \ {0} /\ RtmpSize \in Nat \ {0}
    /\ Walk \in Nat
ASSUME ImageAssumption == Bisync \in BOOLEAN /\ Inhibit \in BOOLEAN /\ \A image \in Images : image \in [Track -> Chars]

VARIABLES
    drive,   \* QUICKDISK
    sio,     \* Z80SIO: channel A, and DTR of channel B
    log      \* history: what the properties speak of

vars == <<drive, sio, log>>
M == [d |-> drive, s |-> sio, h |-> log]
Becomes(m) == drive' = m.d /\ sio' = m.s /\ log' = m.h

NoBlock == [from |-> None, data |-> <<>>, open |-> FALSE]

\* Where the loader of disk images leaves buffer_ptr.
EndOfImage(image) ==
    LET empty == {p \in Track : image[p] = "empty"}
    IN IF empty = {} THEN Size ELSE CHOOSE p \in empty : \A q \in empty : p <= q

\* What open_disk() leaves in the buffer when the file cannot be read.
Zeros == [p \in Track |-> "data"]

\* A disk in the drive d, as open_disk() leaves it.
Inserted(d, image) ==
    [d EXCEPT !.insert = TRUE, !.modified = FALSE, !.buffer = image,
              !.buffer_ptr = EndOfImage(image), !.home = TRUE]

NoDisk ==
    [insert |-> FALSE, modified |-> FALSE, buffer |-> Zeros, buffer_ptr |-> 0,
     home |-> TRUE, write_ptr |-> 0, first_data |-> TRUE, send_break |-> TRUE,
     wrga |-> TRUE, mton |-> TRUE, sync |-> FALSE, motor_on |-> FALSE,
     restore |-> FALSE, end |-> FALSE]

\* initialize() and reset(), and perhaps the initial disk.
Init ==
    /\ drive \in {NoDisk} \cup {Inserted(NoDisk, image) : image \in Images}
    /\ sio = [rx |-> FALSE, hunt |-> {}, recv |-> 0, rtmp |-> <<>>,
              recv_due |-> FALSE, tx |-> FALSE, rts |-> FALSE, dtr |-> FALSE,
              send |-> <<>>, shift |-> <<>>, send_due |-> FALSE, abort |-> FALSE]
    /\ log = [nudges |-> 0, early |-> FALSE, block |-> NoBlock, commands |-> 0]
-----------------------------------------------------------------------------
(* Events are called back at any time after their registration, in any      *)
(* order; a byte takes 80 usec, the way home 100 usec, the end of the disk  *)
(* comes a second after the last byte.                                      *)

RegisterEnd(m) == [m EXCEPT !.d.end = TRUE]
CancelEnd(m) == [m EXCEPT !.d.end = FALSE]

Nudged(m) == [m EXCEPT !.h.nudges = IF @ < RtmpSize THEN @ + 1 ELSE @]
-----------------------------------------------------------------------------
(* Writing (quickdisk.cpp). *)

\* Where writing n characters takes the head from p.
HeadAfter(p, n) == IF p >= Size THEN p ELSE IF p + n < Size THEN p + n ELSE Size

\* WRITE_BUFFER of each of chars: what does not fit is not written.
WriteBuffer(m, chars) ==
    LET p == m.d.buffer_ptr
        after == HeadAfter(p, Len(chars))
        buffer == [t \in Track |-> IF p <= t /\ t < after THEN chars[t - p + 1]
                                   ELSE m.d.buffer[t]]
    IN [m EXCEPT !.d.buffer = buffer, !.d.buffer_ptr = after,
                 !.d.modified = @ \/ buffer # m.d.buffer]

Trailer == <<"crc", "crc", "sync", "sync", "break">>

\* Mutant: the last byte of the block is overwritten.
EndOfBlockEarly(m) == m.d.write_ptr - 1

EndOfBlock(m) == m.d.write_ptr

\* write_crc(): the head stays on the break.
WriteCrc(m) ==
    IF m.d.wrga \/ m.d.write_ptr = 0 THEN [m EXCEPT !.d.write_ptr = 0]
    ELSE [WriteBuffer([m EXCEPT !.d.buffer_ptr = EndOfBlock(m)], Trailer)
             EXCEPT !.d.buffer_ptr = @ - 1, !.d.write_ptr = 0, !.h.block.open = FALSE]

\* end_of_disk()
EndOfDisk(m) ==
    LET w == WriteCrc(m)
        stops == w.d.mton \/ ~w.d.wrga
    IN [w EXCEPT !.d.motor_on = @ /\ ~stops, !.d.restore = @ \/ ~stops, !.d.home = TRUE]

\* Something has been written.
Written(m) ==
    IF m.d.buffer_ptr < Size THEN RegisterEnd(m) ELSE EndOfDisk(CancelEnd(m))

\* QUICKDISK_SIO_DATA
DataSignal(m, b) ==
    IF ~m.d.motor_on \/ m.d.wrga THEN m
    ELSE LET chars == IF m.d.first_data THEN <<"sync", "sync", b>> ELSE <<b>>
             block == IF m.d.first_data
                      THEN [from |-> m.d.buffer_ptr, data |-> <<b>>, open |-> TRUE]
                      ELSE IF m.h.block.open
                      THEN [m.h.block EXCEPT !.data = Append(@, b)] ELSE NoBlock
             w == WriteBuffer(m, chars)
         IN Written([w EXCEPT !.d.first_data = FALSE, !.d.write_ptr = w.d.buffer_ptr,
                              !.h.block = block])

\* QUICKDISK_SIO_BREAK
BreakSignal(m) ==
    IF ~m.d.motor_on \/ m.d.wrga THEN m
    ELSE Written([WriteBuffer(WriteCrc(m), <<"break">>)
                     EXCEPT !.d.first_data = TRUE, !.d.write_ptr = 0,
                            !.h.block = IF m.d.write_ptr = 0 THEN NoBlock ELSE @])
-----------------------------------------------------------------------------
(* Reading. *)

\* Z80SIO: SIG_Z80SIO_RECV_CH0.
Received(m, v) ==
    [m EXCEPT !.s.recv_due = TRUE,
              !.s.rtmp = IF Len(@) = RtmpSize THEN @ ELSE Append(@, v)]

\* The head passes the breaks from p on.
PastBreaks(buffer, p) ==
    IF p >= Size THEN p
    ELSE CHOOSE q \in p .. Size :
             /\ \A r \in p .. q - 1 : buffer[r] = "break"
             /\ q = Size \/ buffer[q] # "break"

\* The drive sends nothing.
Silent(m) == ~m.d.motor_on \/ ~m.d.wrga \/ m.d.restore

\* Mutant: the next break is not announced.
BehindQuietly(m) == [m EXCEPT !.d.buffer_ptr = @ + 1, !.h.early = FALSE]

\* The head is behind the byte it has sent.
Behind(m) == [m EXCEPT !.d.buffer_ptr = @ + 1, !.d.send_break = TRUE, !.h.early = FALSE]

\* The break is announced, once; too early if bytes before it still wait in rtmp.
Announce(m) ==
    [m EXCEPT !.s.abort = TRUE, !.d.send_break = FALSE, !.h.early = m.s.rtmp # <<>>]

\* send_data()
SendData(m) ==
    LET p == m.d.buffer_ptr
        at_break == p < Size /\ m.d.buffer[p] = "break"
        announced == IF at_break /\ m.d.send_break THEN Announce(m) ELSE m
        passed == [announced EXCEPT !.d.buffer_ptr = PastBreaks(m.d.buffer, p)]
        q == passed.d.buffer_ptr
    IN IF Silent(m) THEN m
       ELSE IF at_break /\ ~m.d.sync THEN announced
       ELSE IF q < Size /\ m.d.buffer[q] # "empty"
       THEN RegisterEnd(Behind(Received(passed, m.d.buffer[q])))
       ELSE EndOfDisk(CancelEnd(passed))

\* QUICKDISK_SIO_SYNC: the controller enters the hunt phase.
SyncSignal(m) ==
    LET read == IF m.d.wrga THEN m ELSE [WriteCrc(m) EXCEPT !.d.wrga = TRUE]
    IN SendData(Nudged([read EXCEPT !.d.sync = TRUE]))

\* QUICKDISK_SIO_RTSA
GateSignal(m, next) ==
    LET w == IF m.d.wrga /\ ~next
             THEN [m EXCEPT !.d.first_data = TRUE, !.d.write_ptr = 0]
             ELSE IF ~m.d.wrga /\ next THEN WriteCrc(m) ELSE m
    IN [w EXCEPT !.d.wrga = next]

\* QUICKDISK_SIO_DTRB
MotorSignal(m, next) ==
    LET started ==
            IF m.d.motor_on /\ m.d.wrga
            THEN RegisterEnd(SendData(Nudged(m)))
            ELSE CancelEnd([m EXCEPT !.d.motor_on = TRUE, !.d.restore = TRUE])
        moved == IF m.d.mton /\ ~next THEN started
                 ELSE IF ~m.d.mton /\ next THEN [m EXCEPT !.d.home = TRUE] ELSE m
    IN [moved EXCEPT !.d.mton = next]
-----------------------------------------------------------------------------
(* The receiver (z80sio.cpp). *)

SyncBits == IF Bisync THEN {1, 2} ELSE {1}

\* The sync characters that are still awaited after v.
Awaited(hunt, v) ==
    IF 1 \in hunt THEN (IF v = "sync" THEN hunt \ {1} ELSE hunt)
    ELSE IF 2 \in hunt /\ v # "sync" THEN {1, 2} ELSE {}

\* The receiver takes the first byte of rtmp.
Take(m) ==
    LET v == Head(m.s.rtmp)
        hunting == m.s.hunt # {}
        left == Awaited(m.s.hunt, v)
        stored == ~hunting \/ (v = "sync" /\ ~Inhibit)
    IN [m EXCEPT !.s.rtmp = Tail(@), !.s.hunt = left,
                 !.d.sync = @ /\ ~(hunting /\ left = {}),
                 !.s.recv = IF stored THEN @ + 1 ELSE @,
                 !.s.abort = @ /\ ~stored]

\* Mutant: the receiver asks for the next byte whenever it has taken one.
EmptiedAlways(m) == TRUE

\* The receiver has taken every byte it was sent.
Emptied(m) == m.s.rtmp = <<>>

\* EVENT_RECV
RecvEvent(m) ==
    LET over == [m EXCEPT !.s.recv_due = FALSE]
        taken == IF m.s.recv = RecvSize THEN over ELSE Take(over)
        asked == IF Emptied(taken)
                 THEN SendData([taken EXCEPT !.h.nudges = 0]) ELSE taken
    IN IF ~m.s.rx THEN [over EXCEPT !.s.recv_due = TRUE]
       ELSE [asked EXCEPT !.s.recv_due = asked.s.rtmp # <<>>]

\* EVENT_SEND
SendEvent(m) ==
    LET out == IF m.s.shift = <<>> THEN m ELSE DataSignal(m, Head(m.s.shift))
    IN [out EXCEPT !.s.shift = m.s.send, !.s.send = <<>>, !.s.send_due = TRUE]
-----------------------------------------------------------------------------
(* What the program does. *)

\* A command that changes nothing is no step.
Command(m) == m # M /\ log.commands < MaxCommands /\ Becomes([m EXCEPT !.h.commands = @ + 1])

\* WR3; bits 0 and 4 together enter the hunt phase.
WriteReceive(rx, enter) ==
    /\ enter => rx
    /\ LET m == IF enter THEN SyncSignal([M EXCEPT !.s.hunt = SyncBits]) ELSE M
       IN Command([m EXCEPT !.s.rx = rx])

\* WR5 of channel A.
WriteSend(tx, rts, break) ==
    LET gated == IF rts # sio.rts THEN GateSignal(M, ~rts) ELSE M
        m == IF break THEN BreakSignal(gated) ELSE gated
    IN Command([m EXCEPT !.s.send_due = tx, !.s.tx = tx, !.s.rts = rts])

\* WR5 of channel B.
WriteMotor(dtr) ==
    LET m == IF dtr # sio.dtr THEN MotorSignal(M, ~dtr) ELSE M
    IN Command([m EXCEPT !.s.dtr = dtr])

\* WR0, channel reset: no signal tells the drive that RTS or DTR has gone.
ResetSender ==
    Command([M EXCEPT !.s.recv_due = FALSE, !.s.send_due = FALSE, !.s.send = <<>>,
                      !.s.shift = <<>>, !.s.recv = 0, !.s.rtmp = <<>>, !.s.rx = FALSE,
                      !.s.tx = FALSE, !.s.rts = FALSE, !.h.nudges = 0])
ResetMotor == Command([M EXCEPT !.s.dtr = FALSE])

WriteData(b) == Command([M EXCEPT !.s.send_due = sio.tx, !.s.send = <<b>>])

\* The program reads only when there is data.
ReadData == sio.recv > 0 /\ Becomes([M EXCEPT !.s.recv = @ - 1])
-----------------------------------------------------------------------------
(* What the event manager calls back. *)

EventRecv == sio.recv_due /\ Becomes(RecvEvent(M))
EventSend == sio.send_due /\ Becomes(SendEvent(M))

\* restore()
EventRestore ==
    /\ drive.restore
    /\ LET m == [M EXCEPT !.d.restore = FALSE, !.d.home = FALSE, !.d.buffer_ptr = 0,
                               !.d.first_data = TRUE, !.d.send_break = TRUE]
       IN Becomes(SendData(Nudged(m)))

EventEnd ==
    /\ drive.end
    /\ Becomes(EndOfDisk(CancelEnd(M)))
-----------------------------------------------------------------------------
(* What the user does. *)

\* close_disk(); release_disk() walks over the blocks of a disk it saves, by the
\* sizes that it finds on the track, and may leave the buffer.
Closed(m) ==
    {[CancelEnd(m) EXCEPT !.d.insert = FALSE, !.d.home = TRUE, !.d.restore = FALSE,
                          !.d.buffer_ptr = p, !.h.block = NoBlock] :
        p \in {m.d.buffer_ptr} \cup (IF m.d.modified THEN 0 .. Walk ELSE {})}

CloseDisk == drive.insert /\ \E m \in Closed(M) : Command(m)

\* open_disk(); the file may not open.
OpenDisk ==
    \E m \in IF drive.insert THEN Closed(M) ELSE {M} :
        \/ \E image \in Images :
               Command([m EXCEPT !.d = Inserted(@, image), !.h.block = NoBlock])
        \/ Command([m EXCEPT !.d.buffer = Zeros, !.h.block = NoBlock])
-----------------------------------------------------------------------------
Program ==
    \/ \E rx, enter \in BOOLEAN : WriteReceive(rx, enter)
    \/ \E tx, rts, break \in BOOLEAN : WriteSend(tx, rts, break)
    \/ \E dtr \in BOOLEAN : WriteMotor(dtr)
    \/ ResetSender
    \/ ResetMotor
    \/ \E b \in Bytes : WriteData(b)
    \/ ReadData

Next ==
    \/ Program
    \/ EventRecv \/ EventSend \/ EventRestore \/ EventEnd
    \/ CloseDisk \/ OpenDisk

Spec == Init /\ [][Next]_vars
-----------------------------------------------------------------------------
\* The drive sends only when it is asked: when the receiver has emptied rtmp, and
\* once more at every hunt phase, start of the motor and arrival at home.  So the
\* bytes of a block never pile up, and rtmp overflows, losing bytes without an
\* error, only for a program that enters the hunt phase again and again while
\* the receiver is off (FIFO::write drops what does not fit).
InFlight == Len(sio.rtmp) <= 1 + log.nudges

\* What a block looks like on the track; its trailer only if there is room for it.
Framed(block) ==
    LET begun == <<"sync", "sync">> \o block.data
    IN IF block.open \/ block.from + Len(begun) + Len(Trailer) > Size
       THEN begun ELSE begun \o Trailer

\* A block lies on the track as the program sent it, between its sync characters
\* and the trailer, wherever the head was and whatever ended it: RTS, a break, the
\* hunt phase, the END event or the end of the buffer (quickdisk.cpp:296-310).
BlockFramed ==
    LET all == Framed(log.block)
    IN log.block # NoBlock =>
           \A i \in 1 .. Len(all) :
               log.block.from + i <= Size => drive.buffer[log.block.from + i - 1] = all[i]

AtBreak == drive.buffer_ptr < Size /\ drive.buffer[drive.buffer_ptr] = "break"
RunsDry == sio.rtmp # <<>> /\ sio'.rtmp = <<>> /\ sio'.rx

\* The break was announced while a byte before it waited in rtmp; this takes a
\* program that nudges the drive (DTR, or the way home) while it receives.
ToldEarly == log.nudges > 0 /\ log'.early

\* When the receiver runs dry because the head waits at a break, the program can
\* see why: break/abort is set, so a loop that polls for the next byte ends
\* (quickdisk.cpp:251-260, z80sio.cpp:477-482).  The exception is a break that was
\* announced too early: the byte that waited clears break/abort when it is taken
\* (z80sio.cpp:669-671), and as send_break is false nothing announces it again.
BreakAnnounced ==
    [][RunsDry /\ AtBreak' /\ ~Silent(M)' /\ ~drive'.sync => sio'.abort \/ ToldEarly]_vars
=============================================================================
