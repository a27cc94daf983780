---------------------------- MODULE SerialProofs ----------------------------
(***************************************************************************)
(* Proofs about the data path of the serial controller: for every size,    *)
(* the ring buffers its queues are kept in (module Fifo) implement bounded *)
(* queues; and for every size of the track and of the queues, the quick    *)
(* disk (module QuickDisk) sends what it is asked for, announces breaks    *)
(* and lays blocks on the track as the program sent them.                  *)
(*                                                                         *)
(* The quick disk works on the record of its whole state, M: every signal  *)
(* and every callback is an operator on such a record.  Its lemmas say     *)
(* what each of them does to any record with the invariant Good, so that   *)
(* a handler follows from the operators it calls, in their order.          *)
(***************************************************************************)
EXTENDS Fifo, QuickDisk, SequenceTheorems, WellFoundedInduction, TLAPS

(***************************************************************************)
(* The ring buffer: wpt is cnt places after rpt, and there are values in   *)
(* between.                                                                *)
(***************************************************************************)
\* Where the next value is written.
Linked == wpt = Place(cnt)


\* No value that can be read is Garbage.
Filled == \A i \in Nat : i < cnt => buf[Place(i)] \in Values

RingInv == TypeOK /\ Linked /\ Filled

\* Places are in the buffer, and different for different values.
LEMMA PlacesDiffer ==
    ASSUME TypeOK
    PROVE  /\ \A i \in 0 .. size : Place(i) \in Places
           /\ \A i, j \in 0 .. size - 1 : Place(i) = Place(j) => i = j
BY RingAssumption DEF TypeOK, Places, Place

\* The buffer starts empty.
LEMMA RingInit == FifoInit => RingInv
BY RingAssumption DEF FifoInit, RingInv, TypeOK, Linked, Filled, Place, Places

\* A value that fits is written cnt places after rpt, and moves no other.
LEMMA WriteStep ==
    ASSUME RingInv, NEW val \in Values, Write(val), cnt < size
    PROVE  /\ rpt' = rpt /\ cnt' = cnt + 1 /\ result' = result
           /\ wpt' \in Places /\ Linked'
           /\ buf' \in [Places -> Values \cup {Garbage}]
           /\ \A i \in 0 .. cnt : Place(i)' = Place(i)
           /\ \A i \in 0 .. cnt - 1 : buf'[Place(i)] = buf[Place(i)]
           /\ buf'[Place(cnt)] = val
<1>1. /\ rpt' = rpt /\ cnt' = cnt + 1 /\ result' = result
      /\ wpt' = Advance(wpt) /\ buf' = [buf EXCEPT ![wpt] = val]
  BY DEF Write
<1>2. /\ rpt \in Places /\ wpt \in Places /\ cnt \in 0 .. size - 1 /\ size \in Nat \ {0}
      /\ buf \in [Places -> Values \cup {Garbage}] /\ wpt = Place(cnt)
  BY RingAssumption DEF RingInv, TypeOK, Linked
<1>3. wpt' \in Places
  BY <1>1, <1>2 DEF Advance, Places
<1>4. Linked'
  BY <1>1, <1>2 DEF Advance, Linked, Place, Places
<1>5. \A i \in 0 .. cnt : Place(i)' = Place(i)
  BY <1>1 DEF Place
<1>6. \A i \in 0 .. cnt - 1 : Place(i) # wpt /\ Place(i) \in Places
  BY <1>2, PlacesDiffer DEF RingInv
<1>7. \A i \in 0 .. cnt - 1 : buf'[Place(i)] = buf[Place(i)]
  BY <1>1, <1>2, <1>6
<1>8. buf'[Place(cnt)] = val
  BY <1>1, <1>2
<1>9. buf' \in [Places -> Values \cup {Garbage}]
  BY <1>1, <1>2
<1> QED
  BY <1>1, <1>3, <1>4, <1>5, <1>7, <1>8, <1>9

\* When a value is read, the others come one place nearer.
LEMMA ReadStep ==
    ASSUME RingInv, Read, cnt > 0
    PROVE  /\ cnt' = cnt - 1 /\ buf' = buf /\ wpt' = wpt /\ result' = buf[Place(0)]
           /\ rpt' \in Places /\ Linked'
           /\ \A i \in 0 .. cnt - 1 : Place(i)' = Place(i + 1)
<1>1. cnt' = cnt - 1 /\ buf' = buf /\ wpt' = wpt /\ result' = buf[rpt] /\ rpt' = Advance(rpt)
  BY DEF Read
<1>2. /\ rpt \in Places /\ wpt \in Places /\ cnt \in 1 .. size /\ size \in Nat \ {0}
      /\ wpt = Place(cnt)
  BY RingAssumption DEF RingInv, TypeOK, Linked
<1>3. Place(0) = rpt
  BY <1>2 DEF Place, Places
<1>4. rpt' \in Places
  BY <1>1, <1>2 DEF Advance, Places
<1>5. Linked'
  BY <1>1, <1>2 DEF Advance, Linked, Place, Places
<1>6. \A i \in 0 .. cnt - 1 : Place(i)' = Place(i + 1)
  BY <1>1, <1>2 DEF Advance, Place, Places
<1> QED
  BY <1>1, <1>3, <1>4, <1>5, <1>6

\* Every operation keeps the ring linked and filled.
LEMMA RingNext == RingInv /\ [FifoNext]_fvars => RingInv'
<1> SUFFICES ASSUME RingInv, [FifoNext]_fvars PROVE RingInv'
  OBVIOUS
<1>0. TypeOK /\ Linked /\ Filled
  BY DEF RingInv
<1>1. CASE Clear
  BY <1>0, <1>1, RingAssumption
  DEF Clear, RingInv, TypeOK, Linked, Filled, Place, Places
<1>2. CASE Read
  <2>1. CASE cnt > 0
    <3>0. cnt \in 1 .. size /\ size \in Nat /\ buf[Place(0)] \in Values
      BY <1>0, <2>1, RingAssumption DEF TypeOK, Filled
    <3>1. cnt' \in 0 .. size /\ result' \in Values \cup {0}
      BY <1>2, <2>1, <3>0, ReadStep
    <3>2. ASSUME NEW i \in Nat, i < cnt' PROVE buf'[Place(i)'] \in Values
      <4>1. i \in 0 .. cnt - 1 /\ i + 1 < cnt /\ i + 1 \in Nat /\ buf' = buf
        BY <1>0, <1>2, <2>1, <3>2, ReadStep DEF TypeOK, RingInv
      <4>2. Place(i)' = Place(i + 1)
        BY <1>0, <1>2, <2>1, <4>1, ReadStep DEF RingInv
      <4> QED
        BY <1>0, <4>1, <4>2 DEF Filled
    <3>3. Filled'
      BY <3>2 DEF Filled
    <3> QED
      BY <1>0, <1>2, <2>1, <3>1, <3>3, ReadStep DEF RingInv, TypeOK
  <2>2. CASE ~(cnt > 0)
    BY <1>0, <1>2, <2>2 DEF Read, RingInv, TypeOK, Linked, Filled, Place
  <2> QED
    BY <2>1, <2>2
<1>3. ASSUME NEW val \in Values, Write(val) PROVE RingInv'
  <2>1. CASE cnt < size
    <3>0. cnt \in 0 .. size - 1 /\ size \in Nat
      BY <1>0, <2>1, RingAssumption DEF TypeOK
    <3>1. cnt' \in 0 .. size
      BY <1>3, <2>1, <3>0, WriteStep
    <3>2. ASSUME NEW i \in Nat, i < cnt' PROVE buf'[Place(i)'] \in Values
      <4>1. i \in 0 .. cnt /\ (i = cnt \/ i \in 0 .. cnt - 1)
        BY <1>0, <1>3, <2>1, <3>2, WriteStep DEF TypeOK, RingInv
      <4>2. Place(i)' = Place(i)
        BY <1>0, <1>3, <2>1, <4>1, WriteStep DEF RingInv
      <4>3. CASE i = cnt
        BY <1>0, <1>3, <2>1, <4>2, <4>3, WriteStep DEF RingInv
      <4>4. CASE i \in 0 .. cnt - 1
        <5>1. i < cnt /\ buf'[Place(i)] = buf[Place(i)]
          BY <1>3, <2>1, <3>0, <4>4, WriteStep
        <5> QED
          BY <1>0, <4>2, <5>1 DEF Filled
      <4> QED
        BY <4>1, <4>3, <4>4
    <3>3. Filled'
      BY <3>2 DEF Filled
    <3> QED
      BY <1>0, <1>3, <2>1, <3>1, <3>3, WriteStep DEF RingInv, TypeOK
  <2>2. CASE ~(cnt < size)
    BY <1>0, <1>3, <2>2 DEF Write, RingInv, TypeOK, Linked, Filled, Place
  <2> QED
    BY <2>1, <2>2
<1>4. ASSUME NEW pt \in 0 .. size, ReadNotRemove(pt) PROVE RingInv'
  <2>1. result' \in Values \cup {0}
    BY <1>0, <1>4 DEF ReadNotRemove, Filled
  <2> QED
    BY <1>0, <1>4, <2>1 DEF ReadNotRemove, RingInv, TypeOK, Linked, Filled, Place
<1>5. CASE UNCHANGED fvars
  BY <1>0, <1>5 DEF fvars, RingInv, TypeOK, Linked, Filled, Place
<1> QED
  BY <1>1, <1>2, <1>3, <1>4, <1>5 DEF FifoNext

\* The contents are a sequence of cnt values.
LEMMA ContentsType ==
    ASSUME RingInv
    PROVE  /\ Contents \in Seq(Values) /\ Len(Contents) = cnt
           /\ \A i \in 1 .. cnt : Contents[i] = buf[Place(i - 1)]
<1>1. cnt \in Nat
  BY RingAssumption DEF RingInv, TypeOK
<1>2. \A i \in 1 .. cnt : buf[Place(i - 1)] \in Values
  BY <1>1 DEF RingInv, Filled
<1>3. Contents \in [1 .. cnt -> Values]
  BY <1>2 DEF Contents
<1> QED
  BY <1>1, <1>3 DEF Contents

\* So they are after a step.
LEMMA ContentsTypeNext ==
    ASSUME RingInv'
    PROVE  Contents' \in Seq(Values) /\ Len(Contents') = cnt'
<1>1. cnt' \in Nat
  BY RingAssumption DEF RingInv, TypeOK
<1>2. \A i \in 1 .. cnt' : buf'[Place(i - 1)'] \in Values
  BY <1>1 DEF RingInv, Filled
<1>3. Contents' \in [1 .. cnt' -> Values]
  BY <1>2 DEF Contents
<1> QED
  BY <1>1, <1>3 DEF Contents

\* Sequences with the same length and the same elements are the same.
LEMMA SameSequence ==
    ASSUME NEW s \in Seq(Values), NEW t \in Seq(Values), Len(s) = Len(t),
           \A i \in 1 .. Len(s) : s[i] = t[i]
    PROVE  s = t
OBVIOUS

\* A step that leaves cnt, rpt and buf alone leaves the contents alone.
LEMMA ContentsKept ==
    ASSUME cnt' = cnt, rpt' = rpt, buf' = buf
    PROVE  Contents' = Contents
BY DEF Contents, Place

\* A new buffer is an empty queue.
LEMMA InitQueue == FifoInit => Queue!Init
<1> SUFFICES ASSUME FifoInit PROVE Queue!Init
  OBVIOUS
<1>1. Contents \in Seq(Values) /\ Len(Contents) = 0
  BY RingInit, ContentsType DEF FifoInit
<1> QED
  BY <1>1 DEF FifoInit, Queue!Init

\* write() appends to the queue, unless it is full.
LEMMA WriteQueue ==
    ASSUME RingInv, RingInv', NEW val \in Values, Write(val)
    PROVE  Queue!Write(val)
<1>1. Contents \in Seq(Values) /\ Len(Contents) = cnt
  BY ContentsType
<1>2. CASE cnt < size
  <2> DEFINE longer == Append(Contents, val)
             after == Contents'
  <2>0. cnt \in 0 .. size - 1 /\ size \in Nat
    BY <1>2, RingAssumption DEF RingInv, TypeOK
  <2>1. cnt' = cnt + 1 /\ result' = result
    BY <1>2, WriteStep
  <2>2. longer \in Seq(Values) /\ Len(longer) = cnt + 1
    BY <1>1
  <2>3. after \in Seq(Values) /\ Len(after) = cnt + 1
    BY <2>1, ContentsTypeNext
  <2>4. ASSUME NEW i \in 1 .. cnt + 1 PROVE after[i] = longer[i]
    <3>1. after[i] = buf'[Place(i - 1)']
      BY <2>0, <2>1, <2>4 DEF Contents
    <3>2. Place(i - 1)' = Place(i - 1)
      BY <1>2, <2>0, <2>4, WriteStep
    <3>3. CASE i = cnt + 1
      <4>1. longer[i] = val
        BY <1>1, <3>3
      <4>2. i - 1 = cnt
        BY <2>0, <3>3
      <4>3. buf'[Place(cnt)] = val
        BY <1>2, WriteStep
      <4> QED
        BY <3>1, <3>2, <4>1, <4>2, <4>3
    <3>4. CASE i \in 1 .. cnt
      <4>1. longer[i] = Contents[i]
        BY <1>1, <3>4
      <4>2. Contents[i] = buf[Place(i - 1)]
        BY <3>4, ContentsType
      <4>3. i - 1 \in 0 .. cnt - 1
        BY <2>0, <3>4
      <4>4. buf'[Place(i - 1)] = buf[Place(i - 1)]
        BY <1>2, <4>3, WriteStep
      <4> QED
        BY <3>1, <3>2, <4>1, <4>2, <4>4
    <3>5. i = cnt + 1 \/ i \in 1 .. cnt
      BY <2>0
    <3> QED
      BY <3>3, <3>4, <3>5
  <2> HIDE DEF longer, after
  <2>5. after = longer
    BY <2>2, <2>3, <2>4, SameSequence
  <2> QED
    BY <1>1, <1>2, <2>1, <2>5 DEF Queue!Write, longer, after
<1>3. CASE ~(cnt < size)
  <2>1. cnt' = cnt /\ rpt' = rpt /\ buf' = buf /\ result' = result
    BY <1>3 DEF Write
  <2> QED
    BY <1>1, <1>3, <2>1, ContentsKept DEF Queue!Write
<1> QED
  BY <1>2, <1>3

\* read() takes the head of the queue, or 0 when there is none.
LEMMA ReadQueue ==
    ASSUME RingInv, RingInv', Read
    PROVE  Queue!Read
<1>1. Contents \in Seq(Values) /\ Len(Contents) = cnt /\ cnt \in Nat
  BY ContentsType DEF RingInv, TypeOK
<1>2. CASE cnt > 0
  <2> DEFINE rest == Tail(Contents)
             after == Contents'
  <2>1. cnt' = cnt - 1 /\ buf' = buf
    BY <1>2, ReadStep
  <2>2. rest \in Seq(Values) /\ Len(rest) = cnt - 1 /\ Contents # <<>>
    BY <1>1, <1>2
  <2>3. after \in Seq(Values) /\ Len(after) = cnt - 1
    BY <2>1, ContentsTypeNext
  <2>4. ASSUME NEW i \in 1 .. cnt - 1 PROVE after[i] = rest[i]
    <3>1. after[i] = buf'[Place(i - 1)']
      BY <2>1, <2>4 DEF Contents
    <3>2. i - 1 \in 0 .. cnt - 1 /\ (i - 1) + 1 = i /\ i + 1 \in 1 .. cnt /\ (i + 1) - 1 = i
      BY <1>1, <2>4
    <3>3. Place(i - 1)' = Place((i - 1) + 1)
      BY <1>2, <3>2, ReadStep
    <3>4. rest[i] = Contents[i + 1]
      BY <1>1, <1>2, <2>4
    <3>5. Contents[i + 1] = buf[Place((i + 1) - 1)]
      BY <3>2, ContentsType
    <3> QED
      BY <2>1, <3>1, <3>2, <3>3, <3>4, <3>5
  <2>5. result' = Head(Contents)
    <3>1. Head(Contents) = Contents[1] /\ 1 \in 1 .. cnt /\ 1 - 1 = 0
      BY <1>1, <1>2
    <3>2. Contents[1] = buf[Place(1 - 1)]
      BY <3>1, ContentsType
    <3> QED
      BY <1>2, <3>1, <3>2, ReadStep
  <2> HIDE DEF rest, after
  <2>6. after = rest
    BY <2>2, <2>3, <2>4, SameSequence
  <2> QED
    BY <2>2, <2>5, <2>6 DEF Queue!Read, rest, after
<1>3. CASE ~(cnt > 0)
  <2>1. cnt' = cnt /\ rpt' = rpt /\ buf' = buf /\ result' = 0
    BY <1>3 DEF Read
  <2>2. Contents = <<>>
    BY <1>1, <1>3
  <2> QED
    BY <2>1, <2>2, ContentsKept DEF Queue!Read
<1> QED
  BY <1>2, <1>3

\* Every step of the ring buffer is one of the queue.
LEMMA StepQueue == RingInv /\ RingInv' /\ [FifoNext]_fvars => [Queue!Next]_(Queue!qvars)
<1> SUFFICES ASSUME RingInv, RingInv', [FifoNext]_fvars PROVE [Queue!Next]_(Queue!qvars)
  OBVIOUS
<1>0. Contents \in Seq(Values) /\ Len(Contents) = cnt
  BY ContentsType
<1>1. CASE Clear
  <2>1. Contents' \in Seq(Values) /\ Len(Contents') = cnt' /\ cnt' = 0 /\ result' = result
    BY <1>1, ContentsTypeNext DEF Clear
  <2>2. Contents' = <<>>
    BY <2>1
  <2> QED
    BY <2>1, <2>2 DEF Queue!Next, Queue!Clear
<1>2. CASE Read
  BY <1>2, ReadQueue DEF Queue!Next
<1>3. ASSUME NEW val \in Values, Write(val) PROVE Queue!Next
  BY <1>3, WriteQueue DEF Queue!Next
<1>4. ASSUME NEW pt \in 0 .. size, ReadNotRemove(pt) PROVE Queue!Next
  <2>1. /\ cnt' = cnt /\ rpt' = rpt /\ buf' = buf
        /\ result' = IF pt < cnt THEN buf[Place(pt)] ELSE 0
    BY <1>4 DEF ReadNotRemove
  <2>2. ASSUME pt < cnt PROVE Contents[pt + 1] = buf[Place(pt)]
    <3>1. pt + 1 \in 1 .. cnt /\ (pt + 1) - 1 = pt
      BY <2>2, RingAssumption DEF RingInv, TypeOK
    <3> QED
      BY <3>1, ContentsType
  <2>3. Contents' = Contents
    BY <2>1, ContentsKept
  <2>4. Queue!ReadNotRemove(pt)
    BY <1>0, <2>1, <2>2, <2>3 DEF Queue!ReadNotRemove
  <2> QED
    BY <2>4 DEF Queue!Next
<1>5. CASE UNCHANGED fvars
  BY <1>5, ContentsKept DEF fvars, Queue!qvars
<1> QED
  BY <1>1, <1>2, <1>3, <1>4, <1>5 DEF FifoNext

\* The inductive invariant holds in every state.
LEMMA RingInvariant == FifoSpec => []RingInv
BY RingInit, RingNext, PTL DEF FifoSpec

\* The indices stay in the buffer, and no uninitialized value is ever read.
THEOREM RingTypeCorrect == FifoSpec => []TypeOK
<1>1. RingInv => TypeOK
  BY DEF RingInv
<1> QED
  BY <1>1, RingInvariant, PTL

\* For every size, the ring buffer is a bounded queue.
THEOREM RingIsQueue == FifoSpec => ImplementsQueue
<1>1. FifoInit => Queue!Init
  BY InitQueue
<1>2. RingInv /\ RingInv' /\ [FifoNext]_fvars => [Queue!Next]_(Queue!qvars)
  BY StepQueue
<1> QED
  BY <1>1, <1>2, RingInvariant, PTL DEF FifoSpec, ImplementsQueue, Queue!Spec

-----------------------------------------------------------------------------
(* The state of the quick disk and the parts of its invariant.              *)

\* What the fields of M can be.
Drive ==
    [insert : BOOLEAN, modified : BOOLEAN, buffer : [Track -> Chars], buffer_ptr : Nat,
     home : BOOLEAN, write_ptr : Nat, first_data : BOOLEAN, send_break : BOOLEAN,
     wrga : BOOLEAN, mton : BOOLEAN, sync : BOOLEAN, motor_on : BOOLEAN,
     restore : BOOLEAN, end : BOOLEAN]

Channel ==
    [rx : BOOLEAN, hunt : SUBSET {1, 2}, recv : 0 .. RecvSize, rtmp : Seq(Chars),
     recv_due : BOOLEAN, tx : BOOLEAN, rts : BOOLEAN, dtr : BOOLEAN,
     send : Seq(Bytes), shift : Seq(Bytes), send_due : BOOLEAN, abort : BOOLEAN]

Block == [from : Nat, data : Seq(Bytes), open : BOOLEAN]

History == [nudges : 0 .. RtmpSize, early : BOOLEAN, block : Block, commands : Nat]

Machine == [d : Drive, s : Channel, h : History]

\* rtmp holds no more than it has room for, and a callback is due only if it holds something.
Stored(m) == Len(m.s.rtmp) <= RtmpSize /\ (m.s.recv_due => m.s.rtmp # <<>>)

\* Every byte but one came with a nudge; so did a break that is announced while bytes wait.
Asked(m) ==
    /\ Len(m.s.rtmp) <= 1 + m.h.nudges
    /\ ~m.d.send_break /\ m.s.rtmp # <<>> => m.h.early
    /\ m.h.early /\ m.s.rtmp # <<>> => m.h.nudges > 0

\* The last character that has been written of the open block.
Reached(block) == HeadAfter(block.from, 2 + Len(block.data))

\* The characters of the block are on the track.
Shown(m) ==
    LET all == Framed(m.h.block)
    IN m.h.block # NoBlock =>
           \A i \in 1 .. Len(all) :
               m.h.block.from + i <= Size => m.d.buffer[m.h.block.from + i - 1] = all[i]

\* While a block is open, write_ptr is its end, and so is the head unless it has gone home.
Writing(m) ==
    m.h.block.open =>
        /\ ~m.d.wrga /\ m.d.write_ptr = Reached(m.h.block) /\ m.d.write_ptr > 0
        /\ ~m.d.first_data => m.d.buffer_ptr = m.d.write_ptr

\* Only an open block can still get a trailer.
Ended(m) == m.d.write_ptr # 0 => m.h.block.open \/ m.h.block = NoBlock

\* While a disk is in the drive, the positions are in its buffer or just behind it.
Within(m) == m.d.insert => m.d.buffer_ptr <= Size /\ m.d.write_ptr <= Size

\* The parts of a machine.
LEMMA Parts ==
    ASSUME NEW m \in Machine
    PROVE  /\ m.d \in Drive /\ m.s \in Channel /\ m.h \in History
           /\ m.d.buffer \in [Track -> Chars] /\ m.d.buffer_ptr \in Nat
           /\ m.d.write_ptr \in Nat /\ m.s.rtmp \in Seq(Chars)
           /\ m.s.send \in Seq(Bytes) /\ m.s.shift \in Seq(Bytes)
           /\ m.s.recv \in 0 .. RecvSize /\ m.s.hunt \in SUBSET {1, 2}
           /\ m.h.nudges \in 0 .. RtmpSize /\ m.h.block \in Block
           /\ m.h.block.from \in Nat /\ m.h.block.data \in Seq(Bytes)
           /\ m.h.early \in BOOLEAN
BY DEF Machine, Drive, Channel, History, Block

\* The head goes forward, and not out of the buffer.
LEMMA HeadMoves ==
    ASSUME NEW p \in Nat, NEW n \in Nat, NEW after, after = HeadAfter(p, n)
    PROVE  /\ after \in Nat /\ p <= after /\ after - p <= n
           /\ p <= Size => after <= Size
BY SizeAssumption DEF HeadAfter

\* WRITE_BUFFER keeps the types ...
LEMMA WriteMachine ==
    ASSUME NEW m \in Machine, NEW chars \in Seq(Chars)
    PROVE  WriteBuffer(m, chars) \in Machine
<1> DEFINE p == m.d.buffer_ptr
           after == HeadAfter(p, Len(chars))
           buffer == [t \in Track |-> IF p <= t /\ t < after THEN chars[t - p + 1]
                                     ELSE m.d.buffer[t]]
           modified == m.d.modified \/ buffer # m.d.buffer
<1>1. p \in Nat /\ Size \in Nat \ {0} /\ Len(chars) \in Nat /\ m.d.buffer \in [Track -> Chars]
  BY SizeAssumption, Parts
<1>2. after \in Nat /\ p <= after /\ after - p <= Len(chars)
  BY <1>1, HeadMoves
<1>3. buffer \in [Track -> Chars]
  <2> SUFFICES ASSUME NEW t \in Track, p <= t, t < after
               PROVE  chars[t - p + 1] \in Chars
    BY <1>1
  <2> t - p + 1 \in 1 .. Len(chars)
    <3> HIDE DEF after, p
    <3> QED
      BY <1>1, <1>2 DEF Track
  <2> QED
    OBVIOUS
<1>4. WriteBuffer(m, chars) = [m EXCEPT !.d.buffer = buffer, !.d.buffer_ptr = after,
                 !.d.modified = modified]
  BY DEF WriteBuffer
<1>5. modified \in BOOLEAN /\ after \in Nat
  BY <1>1, <1>2
<1> HIDE DEF buffer, after, p, modified
<1>6. [m.d EXCEPT !.buffer = buffer, !.buffer_ptr = after, !.modified = modified] \in Drive
  BY <1>3, <1>5, Parts, ZenonT(60) DEF Drive
<1>7. WriteBuffer(m, chars) = [m EXCEPT !.d = [m.d EXCEPT !.buffer = buffer, !.buffer_ptr = after, !.modified = modified]]
  BY <1>4 DEF Machine, Drive
<1> QED
  BY <1>6, <1>7 DEF Machine

\* The parts of the drive that writing leaves alone.
Steady(m, n) ==
    /\ n.s = m.s /\ n.h.nudges = m.h.nudges /\ n.h.early = m.h.early
    /\ n.d.send_break = m.d.send_break /\ n.d.wrga = m.d.wrga
    /\ n.d.first_data = m.d.first_data /\ n.d.motor_on = m.d.motor_on
    /\ n.d.insert = m.d.insert

\* What WriteBuffer changes.
Overwritten(m, chars, after, w) ==
    /\ w.d.buffer_ptr = after
    /\ \A t \in Track : w.d.buffer[t] =
           IF m.d.buffer_ptr <= t /\ t < after THEN chars[t - m.d.buffer_ptr + 1]
           ELSE m.d.buffer[t]

\* ... and changes the characters from the head on, as many as fit.
LEMMA WriteEffect ==
    ASSUME NEW m \in Machine, NEW chars \in Seq(Chars), NEW w, w = WriteBuffer(m, chars),
           NEW after, after = HeadAfter(m.d.buffer_ptr, Len(chars))
    PROVE  /\ w \in Machine /\ Steady(m, w) /\ w.h = m.h
           /\ w.d.write_ptr = m.d.write_ptr /\ Overwritten(m, chars, after, w)
<1> DEFINE p == m.d.buffer_ptr
           buffer == [t \in Track |-> IF p <= t /\ t < after THEN chars[t - p + 1]
                                     ELSE m.d.buffer[t]]
           modified == m.d.modified \/ buffer # m.d.buffer
<1>1. w = [m EXCEPT !.d.buffer = buffer, !.d.buffer_ptr = after, !.d.modified = modified]
  BY DEF WriteBuffer
<1>2. \A t \in Track : buffer[t] =
                  IF m.d.buffer_ptr <= t /\ t < after THEN chars[t - m.d.buffer_ptr + 1]
                  ELSE m.d.buffer[t]
  OBVIOUS
<1> HIDE DEF buffer, modified
<1>3. w = [m EXCEPT !.d = [m.d EXCEPT !.buffer = buffer, !.buffer_ptr = after, !.modified = modified]]
  BY <1>1 DEF Machine, Drive
<1>4. /\ w.s = m.s /\ w.h = m.h
      /\ w.d = [m.d EXCEPT !.buffer = buffer, !.buffer_ptr = after, !.modified = modified]
  BY <1>3, Zenon DEF Machine
<1>5. /\ w.d.send_break = m.d.send_break /\ w.d.wrga = m.d.wrga
      /\ w.d.first_data = m.d.first_data /\ w.d.motor_on = m.d.motor_on
      /\ w.d.insert = m.d.insert
      /\ w.d.write_ptr = m.d.write_ptr /\ w.d.buffer_ptr = after /\ w.d.buffer = buffer
  BY <1>4, Parts, ZenonT(60) DEF Drive
<1>6. w \in Machine
  BY WriteMachine
<1> QED
  BY <1>2, <1>4, <1>5, <1>6 DEF Steady, Overwritten

\* write_crc() writes a trailer after the block, or nothing.
LEMMA CrcEffect ==
    ASSUME NEW m \in Machine, NEW w, w = WriteCrc(m)
    PROVE  /\ w \in Machine /\ Steady(m, w) /\ w.d.write_ptr = 0
           /\ m.d.wrga \/ m.d.write_ptr = 0 =>
                  w.d.buffer = m.d.buffer /\ w.d.buffer_ptr = m.d.buffer_ptr /\ w.h = m.h
           /\ ~(m.d.wrga \/ m.d.write_ptr = 0) =>
                  \E after :
                      /\ after = HeadAfter(m.d.write_ptr, 5)
                      /\ w.d.buffer_ptr = after - 1
                      /\ \A t \in Track : w.d.buffer[t] =
                             IF m.d.write_ptr <= t /\ t < after
                             THEN Trailer[t - m.d.write_ptr + 1] ELSE m.d.buffer[t]
                      /\ w.h.block = [m.h.block EXCEPT !.open = FALSE]
<1>0. Size \in Nat \ {0}
  BY SizeAssumption
<1>1. CASE m.d.wrga \/ m.d.write_ptr = 0
  <2>1. w = [m EXCEPT !.d.write_ptr = 0]
    BY <1>1 DEF WriteCrc
  <2>2. w \in Machine
    BY <2>1, <1>0 DEF Machine, Drive
  <2>3. /\ Steady(m, w) /\ w.d.write_ptr = 0
        /\ w.d.buffer = m.d.buffer /\ w.d.buffer_ptr = m.d.buffer_ptr /\ w.h = m.h
    BY <2>1 DEF Machine, Drive, Steady
  <2> QED
    BY <1>1, <2>2, <2>3
<1>2. CASE ~(m.d.wrga \/ m.d.write_ptr = 0)
  <2> DEFINE o == [m EXCEPT !.d.buffer_ptr = m.d.write_ptr]
             n == WriteBuffer(o, Trailer)
             after == HeadAfter(m.d.write_ptr, 5)
  <2>1. /\ o \in Machine /\ o.s = m.s /\ o.h = m.h /\ o.d.buffer = m.d.buffer
        /\ o.d = [m.d EXCEPT !.buffer_ptr = m.d.write_ptr]
        /\ o.d.buffer_ptr = m.d.write_ptr /\ o.d.first_data = m.d.first_data
        /\ o.d.send_break = m.d.send_break /\ o.d.wrga = m.d.wrga /\ o.d.motor_on = m.d.motor_on
        /\ o.d.insert = m.d.insert
    BY Parts DEF Machine, Drive
  <2>2. Trailer \in Seq(Chars) /\ Len(Trailer) = 5
    BY DEF Trailer, Chars
  <2>3. w = [n EXCEPT !.d.buffer_ptr = @ - 1, !.d.write_ptr = 0, !.h.block.open = FALSE]
    BY <1>2 DEF WriteCrc, EndOfBlock
  <2>4. after = HeadAfter(o.d.buffer_ptr, Len(Trailer))
    BY <2>1, <2>2
  <2>5. o \in Machine /\ Trailer \in Seq(Chars) /\ n = WriteBuffer(o, Trailer)
    BY <2>1, <2>2
  <2> HIDE DEF o, n, after
  <2>6. /\ n \in Machine /\ Steady(o, n) /\ n.h = o.h
        /\ n.d.write_ptr = o.d.write_ptr /\ n.d.buffer_ptr = after
        /\ \A t \in Track : n.d.buffer[t] =
               IF o.d.buffer_ptr <= t /\ t < after THEN Trailer[t - o.d.buffer_ptr + 1]
               ELSE o.d.buffer[t]
    <3>1. /\ n \in Machine /\ Steady(o, n) /\ n.h = o.h
          /\ n.d.write_ptr = o.d.write_ptr /\ Overwritten(o, Trailer, after, n)
      BY <2>4, <2>5, WriteEffect, Zenon
    <3> QED
      BY <3>1, Zenon DEF Overwritten
  <2>7. after - 1 \in Nat
    <3>1. m.d.write_ptr \in Nat /\ m.d.write_ptr > 0
      BY <1>2, Parts
    <3> QED
      BY <1>0, <3>1 DEF after, HeadAfter
  <2>8. w = [n EXCEPT !.d = [n.d EXCEPT !.buffer_ptr = after - 1, !.write_ptr = 0],
                      !.h = [n.h EXCEPT !.block = [n.h.block EXCEPT !.open = FALSE]]]
    BY <2>3, <2>6 DEF Machine, Drive, History, Block
  <2>9. /\ w.s = n.s
        /\ w.d = [n.d EXCEPT !.buffer_ptr = after - 1, !.write_ptr = 0]
        /\ w.h = [n.h EXCEPT !.block = [n.h.block EXCEPT !.open = FALSE]]
    BY <2>6, <2>8, Zenon DEF Machine
  <2>10. /\ w.d.send_break = n.d.send_break /\ w.d.wrga = n.d.wrga
         /\ w.d.first_data = n.d.first_data /\ w.d.motor_on = n.d.motor_on
         /\ w.d.insert = n.d.insert
         /\ w.d.write_ptr = 0 /\ w.d.buffer_ptr = after - 1 /\ w.d.buffer = n.d.buffer
    BY <2>9, <2>6, Parts, ZenonT(60) DEF Drive
  <2>11. /\ w.h.nudges = n.h.nudges /\ w.h.early = n.h.early
         /\ w.h.block = [n.h.block EXCEPT !.open = FALSE]
    BY <2>9, <2>6, Parts, Zenon DEF History
  <2>12. w \in Machine
    <3>1. [n.d EXCEPT !.buffer_ptr = after - 1, !.write_ptr = 0] \in Drive
      <4> 0 \in Nat
        OBVIOUS
      <4> QED
        BY <2>6, <2>7, ZenonT(60) DEF Machine, Drive
    <3>2. [n.h EXCEPT !.block = [n.h.block EXCEPT !.open = FALSE]] \in History
      <4>1. n.h \in History /\ n.h.block \in Block
        BY <2>6, Parts
      <4>2. [n.h.block EXCEPT !.open = FALSE] \in Block
        BY <4>1, ZenonT(60) DEF Block
      <4> QED
        BY <4>1, <4>2, ZenonT(60) DEF History
    <3>3. \A d \in Drive, h \in History : [n EXCEPT !.d = d, !.h = h] \in Machine
      BY <2>6, Zenon DEF Machine
    <3> QED
      BY <2>8, <3>1, <3>2, <3>3, Zenon
  <2>13. Steady(m, w)
    BY <2>1, <2>6, <2>9, <2>10, <2>11, Zenon DEF Steady
  <2> QED
    BY <1>2, <2>1, <2>6, <2>10, <2>11, <2>12, <2>13 DEF after
<1> QED
  BY <1>1, <1>2

\* What BlockFramed rests on, and where the positions are.
Drawn(m) == Shown(m) /\ Writing(m) /\ Ended(m) /\ Within(m)

\* It depends on the buffer, the positions and the block alone.
LEMMA SamePen ==
    ASSUME NEW m, NEW n, Drawn(m),
           n.d.buffer = m.d.buffer, n.d.buffer_ptr = m.d.buffer_ptr,
           n.d.write_ptr = m.d.write_ptr, n.d.first_data = m.d.first_data,
           n.d.wrga = m.d.wrga, n.h.block = m.h.block, n.d.insert = m.d.insert
    PROVE  Drawn(n)
BY Zenon DEF Drawn, Shown, Writing, Ended, Within

\* The characters of a block.
Begun(block) == <<"sync", "sync">> \o block.data

\* The characters of a block without its trailer are these.
LEMMA BegunChars ==
    ASSUME NEW block \in Block
    PROVE  /\ Begun(block) \in Seq(Chars) /\ Len(Begun(block)) = 2 + Len(block.data)
           /\ Begun(block)[1] = "sync" /\ Begun(block)[2] = "sync"
           /\ \A i \in 1 .. Len(block.data) : Begun(block)[2 + i] = block.data[i]
<1>1. <<"sync", "sync">> \in Seq(Chars) /\ block.data \in Seq(Chars) /\ block.data \in Seq(Bytes)
  BY DEF Block, Chars
<1> QED
  BY <1>1 DEF Begun

\* The trailer is there when the block is closed and there is room for it.
LEMMA FramedChars ==
    ASSUME NEW block \in Block, NEW n \in Nat, n = Len(Begun(block))
    PROVE  /\ block.open \/ block.from + n + 5 > Size => Framed(block) = Begun(block)
           /\ ~(block.open \/ block.from + n + 5 > Size) =>
                  /\ Len(Framed(block)) = n + 5
                  /\ \A i \in 1 .. n : Framed(block)[i] = Begun(block)[i]
                  /\ \A i \in 1 .. 5 : Framed(block)[n + i] = Trailer[i]
<1>1. Trailer \in Seq(Chars) /\ Len(Trailer) = 5
  BY DEF Trailer, Chars
<1>2. Framed(block) = IF block.open \/ block.from + n + 5 > Size
                      THEN Begun(block) ELSE Begun(block) \o Trailer
  BY <1>1 DEF Framed, Begun
<1>3. Begun(block) \in Seq(Chars)
  BY BegunChars
<1>4. CASE block.open \/ block.from + n + 5 > Size
  BY <1>2, <1>4
<1>5. CASE ~(block.open \/ block.from + n + 5 > Size)
  <2>1. Framed(block) = Begun(block) \o Trailer
    BY <1>2, <1>5
  <2>2. /\ Len(Begun(block) \o Trailer) = n + 5
        /\ \A i \in 1 .. n : (Begun(block) \o Trailer)[i] = Begun(block)[i]
        /\ \A i \in 1 .. 5 : (Begun(block) \o Trailer)[n + i] = Trailer[i]
    <3> HIDE DEF Begun
    <3> DEFINE b == Begun(block)  t == Trailer
    <3>1. b \in Seq(Chars) /\ t \in Seq(Chars) /\ Len(b) = n /\ Len(t) = 5
      BY <1>1, <1>3
    <3> HIDE DEF b, t
    <3>2. /\ Len(b \o t) = Len(b) + Len(t)
          /\ \A i \in 1 .. Len(b) + Len(t) :
                 (b \o t)[i] = IF i <= Len(b) THEN b[i] ELSE t[i - Len(b)]
      BY <3>1, ConcatProperties, Zenon
    <3>3. \A i \in 1 .. n : (b \o t)[i] = b[i]
      BY <3>1, <3>2
    <3>4. \A i \in 1 .. 5 : (b \o t)[n + i] = t[i]
      <4> SUFFICES ASSUME NEW i \in 1 .. 5 PROVE (b \o t)[n + i] = t[i]
        OBVIOUS
      <4>1. n + i \in 1 .. n + 5 /\ ~(n + i <= n) /\ (n + i) - n = i
        OBVIOUS
      <4> QED
        BY <3>1, <3>2, <4>1
    <3> QED
      BY <3>1, <3>2, <3>3, <3>4 DEF b, t
  <2> QED
    BY <1>5, <2>1, <2>2
<1> QED
  BY <1>4, <1>5

-----------------------------------------------------------------------------
(* Writing (quickdisk.cpp).                                                 *)

\* Where the characters of a block that starts at f and has n of them lie, when p is
\* its end and after that of its trailer.
Fits(f, n, p, after) ==
    /\ p \in Nat /\ after \in Nat /\ p <= after
    /\ \A i \in 1 .. n : f + i <= Size => f + i - 1 \in Track /\ ~(p <= f + i - 1)
    /\ f + n + 5 <= Size =>
           /\ p = f + n /\ after = p + 5
           /\ \A i \in 1 .. 5 :
                  /\ f + n + i - 1 \in Track /\ p <= f + n + i - 1
                  /\ f + n + i - 1 < after /\ (f + n + i - 1) - p + 1 = i
           /\ \A i \in 1 .. n + 5 : f + i - 1 = after - 1 => i = n + 5
    /\ f + n + 5 > Size /\ p < Size => \A i \in 1 .. n : f + i - 1 # after - 1

LEMMA Positions ==
    ASSUME NEW f \in Nat, NEW n \in Nat, NEW p, NEW after,
           p = HeadAfter(f, n), after = HeadAfter(p, 5)
    PROVE  Fits(f, n, p, after)
<1> Size \in Nat \ {0}
  BY SizeAssumption
<1>1. CASE f + n + 5 <= Size
  <2> p = f + n /\ after = p + 5
    BY <1>1 DEF HeadAfter
  <2> QED
    BY <1>1 DEF Track, Fits
<1>2. CASE f + n + 5 > Size
  BY <1>2 DEF Track, Fits, HeadAfter
<1> QED
  BY <1>1, <1>2

\* A block that is closed is still what it was, with its trailer if there is room for it.
LEMMA CrcDrawn ==
    ASSUME NEW m \in Machine, Drawn(m), NEW w, w = WriteCrc(m)
    PROVE  /\ Drawn(w) /\ ~w.h.block.open
           /\ ~m.d.wrga /\ m.d.write_ptr # 0 /\ m.d.write_ptr < Size /\ w.h.block # NoBlock =>
                  \A i \in 1 .. Len(Framed(w.h.block)) :
                      w.h.block.from + i - 1 = w.d.buffer_ptr => Framed(w.h.block)[i] = "break"
<1>0. /\ Size \in Nat \ {0} /\ m.d.write_ptr \in Nat /\ m.h.block \in Block
      /\ m.d.buffer \in [Track -> Chars] /\ m.h.block.from \in Nat
      /\ m.h.block.data \in Seq(Bytes) /\ Len(m.h.block.data) \in Nat
      /\ w \in Machine /\ Steady(m, w) /\ w.d.write_ptr = 0 /\ w.d.wrga = m.d.wrga
      /\ w.d.insert = m.d.insert
  <2>1. w \in Machine /\ Steady(m, w) /\ w.d.write_ptr = 0
    BY CrcEffect
  <2>2. w.d.wrga = m.d.wrga /\ w.d.insert = m.d.insert
    BY <2>1, Zenon DEF Steady
  <2> QED
    BY <2>1, <2>2, SizeAssumption, Parts
<1>1. CASE m.d.wrga \/ m.d.write_ptr = 0
  <2>1. w.d.buffer = m.d.buffer /\ w.h = m.h /\ w.d.buffer_ptr = m.d.buffer_ptr
    BY <1>1, CrcEffect
  <2>2. ~m.h.block.open
    BY <1>1 DEF Drawn, Writing
  <2>3. Shown(w)
    BY <2>1 DEF Drawn, Shown
  <2>4. Within(w)
    BY <1>0, <2>1 DEF Drawn, Within
  <2> QED
    BY <1>0, <1>1, <2>1, <2>2, <2>3, <2>4 DEF Drawn, Writing, Ended
<1>2. CASE ~(m.d.wrga \/ m.d.write_ptr = 0)
  <2> DEFINE block == m.h.block
             closed == [block EXCEPT !.open = FALSE]
             p == m.d.write_ptr
  <2>1. PICK after :
            /\ after = HeadAfter(p, 5)
            /\ w.d.buffer_ptr = after - 1
            /\ \A t \in Track : w.d.buffer[t] =
                   IF p <= t /\ t < after THEN Trailer[t - p + 1] ELSE m.d.buffer[t]
            /\ w.h.block = closed
    BY <1>2, CrcEffect
  <2>2. closed \in Block /\ ~closed.open /\ closed.from = block.from /\ closed.data = block.data
    BY <1>0 DEF Block
  <2>3. Writing(w) /\ Ended(w) /\ Within(w)
    <3>1. Within(w)
      <4>1. m.d.insert => p <= Size
        BY DEF Drawn, Within
      <4>2. m.d.insert => after <= Size
        BY <1>0, <2>1, <4>1, HeadMoves
      <4>3. after \in Nat
        BY <1>0, <2>1, HeadMoves
      <4> QED
        BY <1>0, <2>1, <4>2, <4>3 DEF Within
    <3> QED
      BY <1>0, <2>1, <2>2, <3>1 DEF Writing, Ended
  <2>4. block.open \/ block = NoBlock
    BY <1>2 DEF Drawn, Ended
  <2>5. CASE ~block.open
    <3>1. closed = NoBlock
      <4>1. closed = [NoBlock EXCEPT !.open = FALSE]
        BY <2>4, <2>5
      <4>2. NoBlock \in Block /\ NoBlock.open = FALSE
        BY SizeAssumption DEF NoBlock, Block, None
      <4>3. closed = NoBlock
        BY <4>1, <4>2, Zenon DEF Block
      <4> QED
        BY <4>3
    <3> QED
      BY <2>1, <2>2, <2>3, <3>1 DEF Drawn, Shown
  <2>6. CASE block.open
    <3> DEFINE n == Len(Begun(block))
    <3>0. /\ block.from \in Nat /\ p \in Nat /\ Size \in Nat \ {0}
          /\ Len(block.data) \in Nat /\ after = HeadAfter(p, 5)
      BY <1>0, <2>1
    <3>1. Begun(closed) = Begun(block) /\ n = 2 + Len(block.data) /\ n \in Nat
      <4>1. Begun(closed) = Begun(block)
        BY <2>2, Zenon DEF Begun
      <4>2. Len(Begun(block)) = 2 + Len(block.data)
        BY <1>0, BegunChars, Zenon
      <4> QED
        BY <3>0, <4>1, <4>2
    <3>2. Framed(block) = Begun(block)
      BY <1>0, <2>6, <3>1, FramedChars
    <3>3. p = HeadAfter(block.from, n)
      <4>1. p = Reached(block)
        BY <2>6, Zenon DEF Drawn, Writing
      <4> QED
        BY <3>1, <4>1, Zenon DEF Reached
    <3>4. block # NoBlock
      BY <2>6 DEF NoBlock
    <3>5. \A i \in 1 .. n : block.from + i <= Size => m.d.buffer[block.from + i - 1] = Begun(block)[i]
      BY <3>2, <3>4 DEF Drawn, Shown
    <3>6. /\ block.from + n + 5 > Size => Framed(closed) = Begun(block)
          /\ ~(block.from + n + 5 > Size) =>
                  /\ Len(Framed(closed)) = n + 5
                  /\ \A i \in 1 .. n : Framed(closed)[i] = Begun(block)[i]
                  /\ \A i \in 1 .. 5 : Framed(closed)[n + i] = Trailer[i]
      BY <2>2, <3>1, FramedChars
    <3> DEFINE f == block.from
    <3>a. f \in Nat /\ closed.from = f /\ block.from = f
      BY <3>0, <2>2
    <3> HIDE DEF closed, block, p, n, f
    <3>q. Fits(f, n, p, after)
      <4>1. p = HeadAfter(f, n)
        BY <3>3, <3>a, Zenon
      <4>2. after = HeadAfter(p, 5)
        BY <3>0, Zenon
      <4> QED
        BY <3>1, <3>a, <4>1, <4>2, Positions, Zenon
    <3>p. /\ \A i \in 1 .. n : f + i <= Size => f + i - 1 \in Track /\ ~(p <= f + i - 1)
          /\ f + n + 5 <= Size =>
                 /\ p = f + n /\ after = p + 5
                 /\ \A i \in 1 .. 5 :
                        /\ f + n + i - 1 \in Track /\ p <= f + n + i - 1
                        /\ f + n + i - 1 < after /\ (f + n + i - 1) - p + 1 = i
                 /\ \A i \in 1 .. n + 5 : f + i - 1 = after - 1 => i = n + 5
          /\ f + n + 5 > Size /\ p < Size => \A i \in 1 .. n : f + i - 1 # after - 1
      BY <3>q, Zenon DEF Fits
    <3>7. \A i \in 1 .. n : f + i <= Size => w.d.buffer[f + i - 1] = Begun(block)[i]
      BY <2>1, <3>5, <3>a, <3>p
    <3>8. f + n + 5 <= Size => \A i \in 1 .. 5 : w.d.buffer[f + n + i - 1] = Trailer[i]
      BY <2>1, <3>p
    <3>b. f + n + 5 <= Size \/ f + n + 5 > Size
      BY <3>1, <3>a, <3>0
    <3>c. f + n + 5 > Size => Framed(closed) = Begun(block)
      BY <3>6, <3>a
    <3>d. f + n + 5 <= Size =>
              /\ Len(Framed(closed)) = n + 5
              /\ \A i \in 1 .. n : Framed(closed)[i] = Begun(block)[i]
              /\ \A i \in 1 .. 5 : Framed(closed)[n + i] = Trailer[i]
      BY <3>6, <3>a, <3>0, <3>1
    <3>9. Shown(w)
      <4> SUFFICES ASSUME NEW i \in 1 .. Len(Framed(closed)), f + i <= Size
                   PROVE  w.d.buffer[f + i - 1] = Framed(closed)[i]
        BY <2>1, <3>a DEF Shown
      <4>1. CASE f + n + 5 > Size
        BY <3>7, <3>c, <4>1 DEF n
      <4>2. CASE f + n + 5 <= Size /\ i \in 1 .. n
        BY <3>7, <3>d, <4>2
      <4>3. CASE f + n + 5 <= Size /\ i \in n + 1 .. n + 5
        <5>1. i - n \in 1 .. 5 /\ n + (i - n) = i /\ f + n + (i - n) - 1 = f + i - 1
          <6> n \in Nat /\ f \in Nat
            BY <3>1, <3>a, <3>0
          <6> QED
            BY <4>3
        <5>2. Framed(closed)[n + (i - n)] = Trailer[i - n]
          BY <3>d, <4>3, <5>1
        <5>3. w.d.buffer[f + n + (i - n) - 1] = Trailer[i - n]
          BY <3>8, <4>3, <5>1
        <5> QED
          BY <5>1, <5>2, <5>3
      <4>4. f + n + 5 <= Size => i \in 1 .. n \/ i \in n + 1 .. n + 5
        BY <3>d, <3>1
      <4> QED
        BY <4>1, <4>2, <4>3, <4>4, <3>b
    <3>10. ASSUME p < Size, NEW i \in 1 .. Len(Framed(closed)), f + i - 1 = after - 1
           PROVE  Framed(closed)[i] = "break"
      <4>1. f + n + 5 <= Size
        BY <3>10, <3>b, <3>c, <3>p DEF n
      <4>2. i = n + 5
        BY <3>10, <4>1, <3>d, <3>p
      <4>3. Framed(closed)[n + 5] = Trailer[5]
        BY <3>d, <4>1
      <4> QED
        BY <4>2, <4>3 DEF Trailer
    <3> QED
      BY <2>1, <2>2, <2>3, <3>9, <3>10, <3>a DEF Drawn, p
  <2> QED
    BY <2>5, <2>6
<1> QED
  BY <1>1, <1>2

\* A machine with another drive.
LEMMA NewDrive ==
    ASSUME NEW m \in Machine, NEW d \in Drive, NEW n, n = [m EXCEPT !.d = d]
    PROVE  n \in Machine /\ n.d = d /\ n.s = m.s /\ n.h = m.h
BY Zenon DEF Machine

\* A drive that differs from d in nothing that the properties speak of.
Spared(d, e) ==
    /\ e.buffer = d.buffer /\ e.buffer_ptr = d.buffer_ptr /\ e.write_ptr = d.write_ptr
    /\ e.first_data = d.first_data /\ e.wrga = d.wrga /\ e.send_break = d.send_break
    /\ e.insert = d.insert

LEMMA SparedDrive ==
    ASSUME NEW m \in Machine, Drawn(m), NEW d \in Drive, Spared(m.d, d),
           NEW n, n = [m EXCEPT !.d = d]
    PROVE  n \in Machine /\ n.d = d /\ n.s = m.s /\ n.h = m.h /\ Drawn(n)
<1>1. n \in Machine /\ n.d = d /\ n.s = m.s /\ n.h = m.h
  BY NewDrive
<1>2. Drawn(n)
  BY <1>1, SamePen, Zenon DEF Spared
<1> QED
  BY <1>1, <1>2, Zenon

\* What no writing changes.
Apart(m, n) ==
    /\ n.s = m.s /\ n.h.nudges = m.h.nudges /\ n.h.early = m.h.early
    /\ n.d.send_break = m.d.send_break

\* end_of_disk()
LEMMA EndOfDiskStep ==
    ASSUME NEW m \in Machine, Drawn(m), NEW n, n = EndOfDisk(m)
    PROVE  /\ n \in Machine /\ Apart(m, n) /\ Drawn(n) /\ n.d.write_ptr = 0
           /\ n.d.wrga = m.d.wrga
           /\ m.d.wrga => n.d.buffer = m.d.buffer /\ n.d.buffer_ptr = m.d.buffer_ptr
<1> DEFINE w == WriteCrc(m)
           stops == w.d.mton \/ ~w.d.wrga
           motor_on == w.d.motor_on /\ ~stops
           restore == w.d.restore \/ ~stops
           d == [w.d EXCEPT !.motor_on = motor_on, !.restore = restore, !.home = TRUE]
<1>1. /\ w \in Machine /\ Steady(m, w) /\ w.d.write_ptr = 0
      /\ m.d.wrga \/ m.d.write_ptr = 0 =>
             w.d.buffer = m.d.buffer /\ w.d.buffer_ptr = m.d.buffer_ptr /\ w.h = m.h
  BY CrcEffect
<1>2. Drawn(w)
  BY CrcDrawn
<1>3. n = [w EXCEPT !.d.motor_on = motor_on, !.d.restore = restore, !.d.home = TRUE]
  BY DEF EndOfDisk
<1>4. motor_on \in BOOLEAN /\ restore \in BOOLEAN
  BY <1>1, Zenon DEF Machine, Drive
<1> HIDE DEF w, stops, motor_on, restore
<1>5. n = [w EXCEPT !.d = d]
  BY <1>1, <1>3 DEF Machine, Drive
<1>6. d \in Drive /\ Spared(w.d, d)
  <2> w.d \in Drive
    BY <1>1, Parts
  <2> QED
    BY <1>4, ZenonT(60) DEF Drive, Spared
<1> HIDE DEF d
<1>7. n \in Machine /\ n.d = d /\ n.s = w.s /\ n.h = w.h /\ Drawn(n)
  BY <1>1, <1>2, <1>5, <1>6, SparedDrive, Zenon
<1>8. Apart(m, n) /\ n.d.wrga = m.d.wrga
  BY <1>1, <1>6, <1>7, Zenon DEF Apart, Steady, Spared
<1> QED
  BY <1>1, <1>6, <1>7, <1>8, Zenon DEF Spared

\* A machine whose drive differs in nothing that the properties speak of.
LEMMA SameDrive ==
    ASSUME NEW m \in Machine, NEW d \in Drive, NEW n, n = [m EXCEPT !.d = d], Spared(m.d, d)
    PROVE  /\ n \in Machine /\ Apart(m, n) /\ (Drawn(m) => Drawn(n))
           /\ n.d.buffer = m.d.buffer /\ n.d.buffer_ptr = m.d.buffer_ptr
           /\ n.d.write_ptr = m.d.write_ptr /\ n.d.wrga = m.d.wrga
           /\ n.h = m.h
<1>1. n \in Machine /\ n.d = d /\ n.s = m.s /\ n.h = m.h
  BY NewDrive
<1>2. Drawn(m) => Drawn(n)
  BY SparedDrive, Zenon
<1> QED
  BY <1>1, <1>2, Zenon DEF Apart, Spared

\* REGISTER_END_EVENT and CANCEL_END_EVENT
LEMMA EndEventStep ==
    ASSUME NEW m \in Machine, NEW n, n = RegisterEnd(m) \/ n = CancelEnd(m)
    PROVE  /\ n \in Machine /\ Apart(m, n) /\ (Drawn(m) => Drawn(n))
           /\ n.d.buffer = m.d.buffer /\ n.d.buffer_ptr = m.d.buffer_ptr
           /\ n.d.write_ptr = m.d.write_ptr /\ n.d.wrga = m.d.wrga
           /\ n.h = m.h
<1> DEFINE D(e) == [m.d EXCEPT !.end = e]
<1>1. n = [m EXCEPT !.d = D(TRUE)] \/ n = [m EXCEPT !.d = D(FALSE)]
  BY Zenon DEF RegisterEnd, CancelEnd
<1>2. ASSUME NEW e \in BOOLEAN
      PROVE  D(e) \in Drive /\ Spared(m.d, D(e))
  <2> m.d \in Drive
    BY Parts
  <2> QED
    BY ZenonT(60) DEF Drive, Spared
<1> HIDE DEF D
<1>3. PICK d \in Drive : n = [m EXCEPT !.d = d] /\ Spared(m.d, d)
  BY <1>1, <1>2, Zenon
<1> QED
  BY <1>3, SameDrive, ZenonT(60)

\* After a character the end of the disk is announced, or reached.
LEMMA WrittenStep ==
    ASSUME NEW m \in Machine, Drawn(m), m.d.buffer_ptr < Size => m.d.write_ptr < Size,
           NEW n, n = Written(m)
    PROVE  n \in Machine /\ Apart(m, n) /\ Drawn(n) /\ n.d.write_ptr < Size
<1>1. CASE m.d.buffer_ptr < Size
  <2>1. n = RegisterEnd(m)
    BY <1>1 DEF Written
  <2> QED
    BY <1>1, <2>1, EndEventStep
<1>2. CASE ~(m.d.buffer_ptr < Size)
  <2> DEFINE c == CancelEnd(m)
  <2>1. n = EndOfDisk(c)
    BY <1>2 DEF Written
  <2>2. c \in Machine /\ Apart(m, c) /\ Drawn(c)
    BY EndEventStep
  <2> HIDE DEF c
  <2>3. n \in Machine /\ Apart(c, n) /\ Drawn(n) /\ n.d.write_ptr = 0
    BY <2>1, <2>2, EndOfDiskStep
  <2> QED
    BY <2>2, <2>3, SizeAssumption DEF Apart
<1> QED
  BY <1>1, <1>2

\* A block that begins at f when the head is there.
LEMMA BlockBegins ==
    ASSUME NEW m \in Machine, NEW b \in Bytes, NEW x \in Machine, NEW chars, NEW w,
           chars = <<"sync", "sync", b>>, w = WriteBuffer(m, chars),
           x.d.buffer = w.d.buffer, x.d.buffer_ptr = w.d.buffer_ptr,
           x.d.write_ptr = w.d.buffer_ptr, ~x.d.wrga,
           x.h.block = [from |-> m.d.buffer_ptr, data |-> <<b>>, open |-> TRUE], Within(x)
    PROVE  Drawn(x)
<1> DEFINE f == m.d.buffer_ptr
           after == HeadAfter(f, 3)
           block == [from |-> f, data |-> <<b>>, open |-> TRUE]
<1>1. Size \in Nat \ {0} /\ f \in Nat
  BY SizeAssumption, Parts
<1>2. chars \in Seq(Chars) /\ Len(chars) = 3 /\ chars[1] = "sync" /\ chars[2] = "sync" /\ chars[3] = b
  BY DEF Chars
<1>3. /\ w.d.buffer_ptr = after
      /\ \A t \in Track : w.d.buffer[t] =
             IF f <= t /\ t < after THEN chars[t - f + 1] ELSE m.d.buffer[t]
  <2>1. chars \in Seq(Chars) /\ after = HeadAfter(f, Len(chars))
    BY <1>2
  <2> HIDE DEF after
  <2> QED
    <3>1. Overwritten(m, chars, after, w)
      BY <2>1, WriteEffect, Zenon
    <3> QED
      BY <3>1, Zenon DEF Overwritten
<1>4. <<b>> \in Seq(Bytes) /\ Len(<<b>>) = 1 /\ <<b>>[1] = b
  OBVIOUS
<1>5. block \in Block /\ block.from = f /\ block.open /\ block.data = <<b>>
  BY <1>1, <1>4 DEF Block
<1>6. /\ Len(Begun(block)) = 3 /\ Begun(block)[1] = "sync" /\ Begun(block)[2] = "sync"
      /\ Begun(block)[3] = b
  <2> /\ Len(Begun(block)) = 2 + Len(block.data) /\ Begun(block)[1] = "sync" /\ Begun(block)[2] = "sync"
      /\ \A i \in 1 .. Len(block.data) : Begun(block)[2 + i] = block.data[i]
    BY <1>5, BegunChars
  <2> QED
    <3> HIDE DEF block
    <3> Len(block.data) = 1 /\ block.data[1] = b
      BY <1>4, <1>5, Zenon
    <3> QED
      OBVIOUS
<1>7. Framed(block) = Begun(block)
  <2> HIDE DEF block
  <2> 3 \in Nat
    OBVIOUS
  <2> QED
    BY <1>5, <1>6, FramedChars, Zenon
<1> HIDE DEF f, block
<1>8. Shown(x)
  <2> SUFFICES ASSUME NEW i \in 1 .. 3, f + i <= Size
               PROVE  w.d.buffer[f + i - 1] = Begun(block)[i]
    BY <1>5, <1>6, <1>7 DEF Shown, block, f
  <2>1. f + i - 1 \in Track /\ f <= f + i - 1 /\ f + i - 1 < after /\ (f + i - 1) - f + 1 = i
    BY <1>1 DEF Track, HeadAfter
  <2>2. w.d.buffer[f + i - 1] = chars[i]
    BY <1>3, <2>1
  <2> QED
    BY <1>2, <1>6, <2>2
<1>9. after = Reached(block) /\ after > 0
  BY <1>1, <1>4, <1>5 DEF Reached, HeadAfter
<1> QED
  BY <1>3, <1>5, <1>8, <1>9 DEF Drawn, Writing, Ended, block, f

\* The block with another byte.
Longer(old, b, block) ==
    /\ block \in Block /\ block.from = old.from /\ block.open = old.open
    /\ Len(block.data) = Len(old.data) + 1
    /\ Len(Begun(block)) = Len(Begun(old)) + 1
    /\ \A i \in 1 .. Len(Begun(old)) : Begun(block)[i] = Begun(old)[i]
    /\ Begun(block)[Len(Begun(old)) + 1] = b

LEMMA BegunLonger ==
    ASSUME NEW old \in Block, NEW b \in Bytes, NEW block, block = [old EXCEPT !.data = Append(@, b)]
    PROVE  Longer(old, b, block)
<1> DEFINE data == Append(old.data, b)  n == Len(old.data)
<1>1. old.data \in Seq(Bytes) /\ n \in Nat
  BY DEF Block
<1>2. /\ data \in Seq(Bytes) /\ Len(data) = n + 1
      /\ \A i \in 1 .. n : data[i] = old.data[i]
      /\ data[n + 1] = b
  BY <1>1, AppendProperties
<1>3. block.from = old.from /\ block.open = old.open /\ block.data = data
  BY DEF Block
<1>4. block \in Block
  BY <1>2 DEF Block
<1> HIDE DEF data
<1>5. /\ Len(Begun(old)) = 2 + n /\ Begun(old)[1] = "sync" /\ Begun(old)[2] = "sync"
      /\ \A i \in 1 .. n : Begun(old)[2 + i] = old.data[i]
  BY BegunChars
<1>6. /\ Len(Begun(block)) = 2 + (n + 1) /\ Begun(block)[1] = "sync" /\ Begun(block)[2] = "sync"
      /\ \A i \in 1 .. n + 1 : Begun(block)[2 + i] = data[i]
  BY <1>2, <1>3, <1>4, BegunChars, ZenonT(60)
<1> HIDE DEF n
<1>7. ASSUME NEW i \in 1 .. 2 + n PROVE Begun(block)[i] = Begun(old)[i]
  <2>1. CASE i \in 1 .. 2
    BY <1>5, <1>6, <2>1
  <2>2. CASE i \in 3 .. 2 + n
    <3>1. i - 2 \in 1 .. n /\ i - 2 \in 1 .. n + 1 /\ 2 + (i - 2) = i
      BY <2>2, <1>1
    <3> QED
      BY <1>2, <1>5, <1>6, <3>1
  <2> QED
    BY <2>1, <2>2, <1>1
<1>8. Begun(block)[(2 + n) + 1] = b
  <2> n + 1 \in 1 .. n + 1 /\ 2 + (n + 1) = (2 + n) + 1
    BY <1>1
  <2> QED
    BY <1>2, <1>6
<1>9. Len(Begun(block)) = (2 + n) + 1
  BY <1>1, <1>6
<1> QED
  <2>1. Len(block.data) = Len(old.data) + 1
    BY <1>2, <1>3, Zenon DEF n
  <2> QED
    BY <1>3, <1>4, <1>5, <1>7, <1>8, <1>9, <2>1, Zenon DEF Longer

\* A byte that is written behind an open block belongs to it.
LEMMA BlockGoesOn ==
    ASSUME NEW m \in Machine, Drawn(m), m.d.write_ptr < Size, m.h.block.open, ~m.d.first_data,
           NEW b \in Bytes, NEW x \in Machine, NEW w, w = WriteBuffer(m, <<b>>),
           x.d.buffer = w.d.buffer, x.d.buffer_ptr = w.d.buffer_ptr,
           x.d.write_ptr = w.d.buffer_ptr, ~x.d.wrga,
           x.h.block = [m.h.block EXCEPT !.data = Append(@, b)], Within(x)
    PROVE  Drawn(x)
<1> DEFINE old == m.h.block
           block == [old EXCEPT !.data = Append(@, b)]
           f == old.from
           p == m.d.buffer_ptr
           n == Len(Begun(old))
<1>1. Size \in Nat \ {0} /\ p \in Nat /\ f \in Nat /\ old \in Block /\ n \in Nat
  BY SizeAssumption, Parts, BegunChars
<1>2. <<b>> \in Seq(Chars) /\ Len(<<b>>) = 1 /\ <<b>>[1] = b
  BY DEF Chars
<1>3. n = 2 + Len(old.data) /\ Len(old.data) \in Nat
  <2>1. n = 2 + Len(old.data)
    BY <1>1, BegunChars, Zenon
  <2>2. old.data \in Seq(Bytes)
    BY Parts, Zenon
  <2> QED
    BY <2>1, <2>2
<1>4. p = m.d.write_ptr /\ m.d.write_ptr = Reached(old)
  BY DEF Drawn, Writing
<1>5. p = f + n /\ p < Size
  <2>1. Reached(old) = HeadAfter(f, n)
    BY <1>3, Zenon DEF Reached
  <2> HIDE DEF f, p, n, old
  <2>2. p = HeadAfter(f, n)
    BY <1>4, <2>1, Zenon
  <2>3. p < Size
    BY <1>4 DEF old
  <2> QED
    BY <1>1, <2>2, <2>3 DEF HeadAfter
<1>6. /\ block \in Block /\ block.from = f /\ block.open = old.open
      /\ Len(block.data) = Len(old.data) + 1
      /\ Len(Begun(block)) = n + 1
      /\ \A i \in 1 .. n : Begun(block)[i] = Begun(old)[i]
      /\ Begun(block)[n + 1] = b
  <2>1. block = [old EXCEPT !.data = Append(@, b)]
    OBVIOUS
  <2> HIDE DEF block, old
  <2> QED
    <3>1. Longer(old, b, block)
      BY <1>1, <2>1, BegunLonger, Zenon
    <3> QED
      BY <3>1, Zenon DEF Longer, n, f
<1>7. block.open
  BY <1>6
<1>8. /\ w.d.buffer_ptr = p + 1
      /\ \A t \in Track : w.d.buffer[t] = IF p <= t /\ t < p + 1 THEN <<b>>[t - p + 1] ELSE m.d.buffer[t]
  <2> DEFINE chars == <<b>>  after == p + 1
  <2>1. after = HeadAfter(p, Len(chars))
    BY <1>1, <1>2, <1>5 DEF HeadAfter
  <2>2. chars \in Seq(Chars) /\ w = WriteBuffer(m, chars)
    BY <1>2
  <2> HIDE DEF chars, after
  <2>3. /\ w.d.buffer_ptr = after
        /\ \A t \in Track : w.d.buffer[t] = IF p <= t /\ t < after THEN chars[t - p + 1] ELSE m.d.buffer[t]
    <3>1. Overwritten(m, chars, after, w)
      BY <2>1, <2>2, WriteEffect, Zenon
    <3> QED
      BY <3>1, Zenon DEF Overwritten
  <2> QED
    BY <2>3 DEF chars, after
<1>9. Framed(old) = Begun(old) /\ Framed(block) = Begun(block)
  <2>1. old.open /\ n + 1 \in Nat
    BY <1>1
  <2> HIDE DEF block, old
  <2> QED
    BY <1>1, <1>6, <1>7, <2>1, FramedChars, Zenon DEF n
<1>10. old # NoBlock
  BY DEF NoBlock
<1>11. \A i \in 1 .. n : f + i <= Size => m.d.buffer[f + i - 1] = Begun(old)[i]
  BY <1>9, <1>10 DEF Drawn, Shown
<1> HIDE DEF old, block, f, p, n
<1>12. Shown(x)
  <2>3. x.h.block = block /\ x.d.buffer = w.d.buffer
    BY DEF block, old
  <2>4. Len(Framed(block)) = n + 1
    BY <1>6, <1>9, Zenon
  <2>5. ASSUME \A i \in 1 .. n + 1 : f + i <= Size => w.d.buffer[f + i - 1] = Framed(block)[i]
        PROVE  Shown(x)
    BY <1>6, <2>3, <2>4, <2>5, ZenonT(60) DEF Shown
  <2> SUFFICES ASSUME NEW i \in 1 .. n + 1, f + i <= Size
               PROVE  w.d.buffer[f + i - 1] = Begun(block)[i]
    BY <1>9, <2>5, Zenon
  <2>1. CASE i \in 1 .. n
    <3>1. f + i - 1 \in Track /\ ~(p <= f + i - 1)
      BY <1>1, <1>5, <2>1 DEF Track
    <3> QED
      BY <1>6, <1>8, <1>11, <2>1, <3>1
  <2>2. CASE i = n + 1
    <3>1. f + i - 1 = p /\ p \in Track /\ p - p + 1 = 1 /\ p < p + 1
      BY <1>1, <1>5, <2>2 DEF Track
    <3> QED
      <4>1. w.d.buffer[p] = <<b>>[1]
        <5> p - p + 1 = 1 /\ p <= p
          BY <1>1
        <5> QED
          BY <1>8, <3>1
      <4> QED
        BY <1>2, <1>6, <2>2, <3>1, <4>1
  <2> QED
    BY <2>1, <2>2, <1>1
<1>13. Reached(block) = p + 1 /\ p + 1 > 0
  <2> DEFINE k == Len(old.data)
  <2>0. block.from = f /\ Len(block.data) = k + 1 /\ n = 2 + k /\ k \in Nat
    BY <1>3, <1>6, Zenon
  <2> HIDE DEF k
  <2>1. Reached(block) = HeadAfter(f, 2 + (k + 1))
    BY <2>0, Zenon DEF Reached
  <2>2. f + (2 + (k + 1)) = p + 1 /\ f < Size
    <3> n = 2 + k /\ k \in Nat
      BY <2>0
    <3> QED
      BY <1>1, <1>5
  <2>3. p + 1 <= Size /\ p + 1 > 0
    BY <1>1, <1>5
  <2> QED
    BY <1>1, <2>1, <2>2, <2>3 DEF HeadAfter
<1> QED
  BY <1>6, <1>7, <1>8, <1>12, <1>13 DEF Drawn, Writing, Ended, block, old

\* A machine with another drive and another block.
Becoming(m, d, block, n) == n = [m EXCEPT !.d = d, !.h = [m.h EXCEPT !.block = block]]
Became(m, d, block, n) ==
    /\ n \in Machine /\ n.d = d /\ n.s = m.s
    /\ n.h.block = block /\ n.h.nudges = m.h.nudges /\ n.h.early = m.h.early

LEMMA NewBlock ==
    ASSUME NEW m \in Machine, NEW d \in Drive, NEW block \in Block,
           NEW n, Becoming(m, d, block, n)
    PROVE  Became(m, d, block, n)
<1> DEFINE h == [m.h EXCEPT !.block = block]
<1>1. h \in History /\ h.block = block /\ h.nudges = m.h.nudges /\ h.early = m.h.early
  BY Parts, Zenon DEF History
<1>2. n = [m EXCEPT !.d = d, !.h = h]
  BY DEF Becoming
<1> HIDE DEF h
<1>3. n \in Machine /\ n.d = d /\ n.s = m.s /\ n.h = h
  BY <1>1, <1>2, Zenon DEF Machine
<1> QED
  BY <1>1, <1>3, Zenon DEF Became

\* No block is a block that is closed.
LEMMA NoBlockType == NoBlock \in Block /\ NoBlock.open = FALSE
BY SizeAssumption DEF NoBlock, Block, None

\* A byte that is written begins a block, or makes it longer, or belongs to none.
LEMMA DataStep ==
    ASSUME NEW m \in Machine, Drawn(m), m.d.write_ptr < Size, NEW b \in Bytes,
           NEW n, n = DataSignal(m, b)
    PROVE  n \in Machine /\ Apart(m, n) /\ Drawn(n) /\ n.d.write_ptr < Size
<1>1. CASE ~m.d.motor_on \/ m.d.wrga
  BY <1>1, Zenon DEF DataSignal, Apart
<1>2. CASE ~(~m.d.motor_on \/ m.d.wrga)
  <2> DEFINE chars == IF m.d.first_data THEN <<"sync", "sync", b>> ELSE <<b>>
             block == IF m.d.first_data
                      THEN [from |-> m.d.buffer_ptr, data |-> <<b>>, open |-> TRUE]
                      ELSE IF m.h.block.open
                      THEN [m.h.block EXCEPT !.data = Append(@, b)] ELSE NoBlock
             w == WriteBuffer(m, chars)
             d == [w.d EXCEPT !.first_data = FALSE, !.write_ptr = w.d.buffer_ptr]
             x == [w EXCEPT !.d = d, !.h = [w.h EXCEPT !.block = block]]
             after == HeadAfter(m.d.buffer_ptr, Len(chars))
  <2>1. chars \in Seq(Chars)
    <3> "sync" \in Chars /\ b \in Chars
      BY DEF Chars
    <3> <<"sync", "sync", b>> \in Seq(Chars) /\ <<b>> \in Seq(Chars)
      OBVIOUS
    <3> QED
      BY Zenon
  <2>2. m.d.first_data => chars = <<"sync", "sync", b>>
    OBVIOUS
  <2>3. ~m.d.first_data => chars = <<b>>
    OBVIOUS
  <2>4. w = WriteBuffer(m, chars) /\ after = HeadAfter(m.d.buffer_ptr, Len(chars))
    OBVIOUS
  <2>5. block \in Block
    <3>1. [from |-> m.d.buffer_ptr, data |-> <<b>>, open |-> TRUE] \in Block
      <4> <<b>> \in Seq(Bytes)
        OBVIOUS
      <4> QED
        BY Parts DEF Block
    <3>2. [m.h.block EXCEPT !.data = Append(@, b)] \in Block
      BY Parts, BegunLonger, Zenon DEF Longer
    <3> QED
      BY <3>1, <3>2, NoBlockType, Zenon
  <2>6. /\ m.d.first_data => block = [from |-> m.d.buffer_ptr, data |-> <<b>>, open |-> TRUE]
        /\ ~m.d.first_data /\ m.h.block.open => block = [m.h.block EXCEPT !.data = Append(@, b)]
        /\ ~m.d.first_data /\ ~m.h.block.open => block = NoBlock
    BY Zenon
  <2>7. w \in Machine
    BY <2>1, WriteMachine
  <2>8. n = Written(x)
    <3>1. n = Written([w EXCEPT !.d.first_data = FALSE, !.d.write_ptr = w.d.buffer_ptr, !.h.block = block])
      BY <1>2 DEF DataSignal
    <3> HIDE DEF w, block
    <3> [w EXCEPT !.d.first_data = FALSE, !.d.write_ptr = w.d.buffer_ptr, !.h.block = block] = x
      BY <2>7 DEF Machine, Drive, History
    <3> QED
      BY <3>1
  <2> HIDE DEF chars, w, after, block
  <2>9. Steady(m, w) /\ w.h = m.h /\ w.d.buffer_ptr = after
    <3>1. Steady(m, w) /\ w.h = m.h /\ Overwritten(m, chars, after, w)
      BY <2>1, <2>4, WriteEffect, Zenon
    <3> QED
      BY <3>1, Zenon DEF Overwritten
  <2>10. /\ d \in Drive /\ d.buffer = w.d.buffer /\ d.buffer_ptr = w.d.buffer_ptr
         /\ d.write_ptr = w.d.buffer_ptr /\ d.wrga = w.d.wrga /\ d.send_break = w.d.send_break
         /\ d.insert = w.d.insert
    BY <2>7, Parts, ZenonT(60) DEF Drive
  <2>11. Becoming(w, d, block, x)
    BY DEF Becoming
  <2> HIDE DEF d, x
  <2>12. /\ x \in Machine /\ x.d = d /\ x.s = w.s
         /\ x.h.block = block /\ x.h.nudges = w.h.nudges /\ x.h.early = w.h.early
    <3>1. w \in Machine /\ d \in Drive /\ block \in Block
      BY <2>5, <2>7, <2>10, Zenon
    <3>2. Became(w, d, block, x)
      BY <3>1, <2>11, NewBlock, Zenon
    <3> QED
      BY <3>2, Zenon DEF Became
  <2>13. Apart(m, x) /\ ~x.d.wrga
    BY <1>2, <2>9, <2>10, <2>12, Zenon DEF Apart, Steady
  <2>14. /\ x.d.buffer = w.d.buffer /\ x.d.buffer_ptr = w.d.buffer_ptr
         /\ x.d.write_ptr = w.d.buffer_ptr
    BY <2>10, <2>12, Zenon
  <2>15. Within(x)
    <3>1. x.d.insert = m.d.insert
      BY <2>9, <2>10, <2>12, Zenon DEF Steady
    <3>2. m.d.insert => m.d.buffer_ptr <= Size
      BY Zenon DEF Drawn, Within
    <3>3. m.d.buffer_ptr \in Nat /\ Len(chars) \in Nat
      BY <2>1, Parts
    <3>4. m.d.insert => after <= Size
      BY <2>4, <3>2, <3>3, HeadMoves
    <3> QED
      BY <2>9, <2>14, <3>1, <3>4, Zenon DEF Within
  <2>16. Drawn(x)
    <3>1. CASE m.d.first_data
      BY <2>2, <2>4, <2>6, <2>12, <2>13, <2>14, <2>15, <3>1, BlockBegins, Zenon
    <3>2. CASE ~m.d.first_data /\ m.h.block.open
      BY <2>3, <2>4, <2>6, <2>12, <2>13, <2>14, <2>15, <3>2, BlockGoesOn, Zenon
    <3>3. CASE ~m.d.first_data /\ ~m.h.block.open
      <4> x.h.block = NoBlock
        BY <2>6, <2>12, <3>3, Zenon
      <4> QED
        BY <2>15, NoBlockType, Zenon DEF Drawn, Shown, Writing, Ended
    <3> QED
      BY <3>1, <3>2, <3>3, Zenon
  <2>17. n \in Machine /\ Apart(x, n) /\ Drawn(n) /\ n.d.write_ptr < Size
    BY <2>8, <2>12, <2>14, <2>16, WrittenStep
  <2> QED
    BY <2>13, <2>17, Zenon DEF Apart
<1> QED
  BY <1>1, <1>2, Zenon

\* A break after a block does not touch it: it overwrites one that is there already.
LEMMA BreakStep ==
    ASSUME NEW m \in Machine, Drawn(m), m.d.write_ptr < Size, NEW n, n = BreakSignal(m)
    PROVE  n \in Machine /\ Apart(m, n) /\ Drawn(n) /\ n.d.write_ptr < Size
<1>1. CASE ~m.d.motor_on \/ m.d.wrga
  BY <1>1, Zenon DEF BreakSignal, Apart
<1>2. CASE ~(~m.d.motor_on \/ m.d.wrga)
  <2> DEFINE chars == <<"break">>
             c == WriteCrc(m)
             block == IF m.d.write_ptr = 0 THEN NoBlock ELSE c.h.block
             w == WriteBuffer(c, chars)
             p == c.d.buffer_ptr
             after == HeadAfter(p, Len(chars))
             d == [w.d EXCEPT !.first_data = TRUE, !.write_ptr = 0]
             x == [w EXCEPT !.d = d, !.h = [w.h EXCEPT !.block = block]]
  <2>1. chars \in Seq(Chars) /\ Len(chars) = 1 /\ chars[1] = "break"
    BY DEF Chars
  <2>2. c \in Machine /\ Steady(m, c)
    BY CrcEffect
  <2>3. Drawn(c) /\ ~c.h.block.open
    BY CrcDrawn
  <2>4. ~m.d.wrga /\ m.d.write_ptr # 0 /\ c.h.block # NoBlock =>
            \A i \in 1 .. Len(Framed(c.h.block)) :
                c.h.block.from + i - 1 = p => Framed(c.h.block)[i] = "break"
    BY CrcDrawn
  <2>5. w = WriteBuffer(c, chars) /\ after = HeadAfter(p, Len(chars))
    OBVIOUS
  <2>6. w \in Machine
    BY <2>1, <2>2, WriteMachine
  <2>7. block \in Block /\ ~block.open
    BY <2>2, <2>3, Parts, NoBlockType, Zenon
  <2> HIDE DEF chars, c, w
  <2>8. Steady(c, w) /\ w.h = c.h /\ Overwritten(c, chars, after, w)
    <3> HIDE DEF after
    <3> QED
      BY <2>1, <2>2, <2>5, WriteEffect, Zenon
  <2>9. n = Written(x)
    <3>1. n = Written([w EXCEPT !.d.first_data = TRUE, !.d.write_ptr = 0,
                                !.h.block = IF m.d.write_ptr = 0 THEN NoBlock ELSE @])
      BY <1>2 DEF BreakSignal, w, c, chars
    <3> [w EXCEPT !.d.first_data = TRUE, !.d.write_ptr = 0,
                  !.h.block = IF m.d.write_ptr = 0 THEN NoBlock ELSE @] = x
      BY <2>6, <2>8 DEF Machine, Drive, History
    <3> QED
      BY <3>1
  <2> HIDE DEF block, after
  <2>10. /\ d \in Drive /\ d.buffer = w.d.buffer /\ d.buffer_ptr = w.d.buffer_ptr
         /\ d.write_ptr = 0 /\ d.wrga = w.d.wrga /\ d.send_break = w.d.send_break
         /\ d.insert = w.d.insert
    <3> 0 \in Nat
      OBVIOUS
    <3> QED
      BY <2>6, Parts, ZenonT(60) DEF Drive
  <2>11. Becoming(w, d, block, x)
    BY DEF Becoming
  <2> HIDE DEF d, x
  <2>12. Became(w, d, block, x)
    <3> w \in Machine /\ d \in Drive /\ block \in Block
      BY <2>6, <2>7, <2>10, Zenon
    <3> QED
      BY <2>11, NewBlock, Zenon
  <2>13. /\ x \in Machine /\ x.d = d /\ x.s = w.s
         /\ x.h.block = block /\ x.h.nudges = w.h.nudges /\ x.h.early = w.h.early
    BY <2>12, Zenon DEF Became
  <2>14. Apart(m, x) /\ ~x.d.wrga /\ x.d.write_ptr = 0
    BY <1>2, <2>2, <2>8, <2>10, <2>13, Zenon DEF Apart, Steady
  <2>15. Shown(x)
    <3>1. CASE m.d.write_ptr = 0
      <4> x.h.block = NoBlock
        BY <2>13, <3>1, Zenon DEF block
      <4> QED
        BY Zenon DEF Shown
    <3>2. CASE m.d.write_ptr # 0
      <4>1. block = c.h.block
        BY <3>2, Zenon DEF block
      <4> DEFINE f == block.from
      <4>2. f \in Nat /\ Size \in Nat \ {0} /\ p \in Nat
        BY <2>2, <2>7, Parts, SizeAssumption DEF Block
      <4> SUFFICES ASSUME block # NoBlock, NEW i \in 1 .. Len(Framed(block)), f + i <= Size
                   PROVE  w.d.buffer[f + i - 1] = Framed(block)[i]
        BY <2>10, <2>13, Zenon DEF Shown
      <4>3. c.d.buffer[f + i - 1] = Framed(block)[i]
        BY <2>3, <4>1, Zenon DEF Drawn, Shown
      <4>4. f + i - 1 = p => Framed(block)[i] = "break"
        BY <1>2, <2>4, <3>2, <4>1, Zenon
      <4> HIDE DEF f, p
      <4>5. i \in Nat \ {0}
        OBVIOUS
      <4>6. f + i - 1 \in Track
        BY <4>2, <4>5 DEF Track
      <4>7. CASE f + i - 1 = p
        <5>1. p <= f + i - 1 /\ f + i - 1 < after /\ (f + i - 1) - p + 1 = 1
          BY <2>1, <4>2, <4>5, <4>6, <4>7 DEF after, HeadAfter, Track
        <5> QED
          BY <2>1, <2>8, <4>4, <4>6, <4>7, <5>1 DEF Overwritten, p
      <4>8. CASE f + i - 1 # p
        <5>1. ~(p <= f + i - 1 /\ f + i - 1 < after)
          BY <2>1, <4>2, <4>5, <4>8 DEF after, HeadAfter
        <5> QED
          BY <2>8, <4>3, <4>6, <5>1 DEF Overwritten, p
      <4> QED
        BY <4>7, <4>8
    <3> QED
      BY <3>1, <3>2
  <2>16. Within(x)
    <3>1. x.d.insert = c.d.insert /\ x.d.buffer_ptr = after
      BY <2>8, <2>10, <2>13, Zenon DEF Steady, Overwritten
    <3>2. c.d.insert => p <= Size
      BY <2>3, Zenon DEF Drawn, Within
    <3>3. p \in Nat /\ Len(chars) \in Nat /\ 0 <= Size
      BY <2>1, <2>2, Parts, SizeAssumption
    <3>4. c.d.insert => after <= Size
      BY <2>5, <3>2, <3>3, HeadMoves
    <3> QED
      BY <2>14, <3>1, <3>3, <3>4, Zenon DEF Within
  <2>17. Drawn(x)
    BY <2>7, <2>13, <2>14, <2>15, <2>16, Zenon DEF Drawn, Writing, Ended
  <2>18. x.d.write_ptr < Size
    BY <2>14, SizeAssumption
  <2>19. n \in Machine /\ Apart(x, n) /\ Drawn(n) /\ n.d.write_ptr < Size
    BY <2>9, <2>13, <2>17, <2>18, WrittenStep
  <2> QED
    BY <2>14, <2>19, Zenon DEF Apart
<1> QED
  BY <1>1, <1>2, Zenon

\* Where the head goes does not matter when no block is open.
LEMMA SameTrack ==
    ASSUME NEW m, NEW n, Drawn(m), ~m.h.block.open,
           n.d.buffer = m.d.buffer, n.h.block = m.h.block,
           n.d.write_ptr = m.d.write_ptr \/ n.d.write_ptr = 0,
           n.d.insert = m.d.insert, n.d.insert => n.d.buffer_ptr <= Size
    PROVE  Drawn(n)
<1>1. 0 <= Size
  BY SizeAssumption
<1> QED
  BY <1>1, Zenon DEF Drawn, Shown, Writing, Ended, Within

\* The head of a disk in the drive.
LEMMA HeadWithin == ASSUME NEW m, Drawn(m) PROVE m.d.insert => m.d.buffer_ptr <= Size
BY Zenon DEF Drawn, Within

\* No block is open while the gate is closed.
LEMMA NoneOpen == ASSUME NEW m, Drawn(m), m.d.wrga PROVE ~m.h.block.open
BY Zenon DEF Drawn, Writing

\* QUICKDISK_SIO_RTSA
LEMMA GateStep ==
    ASSUME NEW m \in Machine, Drawn(m), m.d.write_ptr < Size, NEW next \in BOOLEAN,
           NEW n, n = GateSignal(m, next)
    PROVE  n \in Machine /\ Apart(m, n) /\ Drawn(n) /\ n.d.write_ptr < Size
<1> DEFINE d1 == [m.d EXCEPT !.first_data = TRUE, !.write_ptr = 0]
           m1 == [m EXCEPT !.d = d1]
           w == IF m.d.wrga /\ ~next THEN m1 ELSE IF ~m.d.wrga /\ next THEN WriteCrc(m) ELSE m
           d == [w.d EXCEPT !.wrga = next]
<1>1. Size \in Nat \ {0} /\ m.d.wrga \in BOOLEAN
  BY SizeAssumption, Zenon DEF Machine, Drive
<1>2. n = [w EXCEPT !.d = d]
  <2>1. m1 = [m EXCEPT !.d.first_data = TRUE, !.d.write_ptr = 0]
    BY DEF Machine, Drive
  <2>2. n = [w EXCEPT !.d.wrga = next]
    BY <2>1 DEF GateSignal
  <2> QED
    BY <2>2
<1>3. /\ w \in Machine /\ Apart(m, w) /\ Drawn(w) /\ w.d.write_ptr < Size
      /\ w.d.wrga # next => ~w.h.block.open
  <2>1. CASE m.d.wrga /\ ~next
    <3>1. /\ d1 \in Drive /\ d1.buffer = m.d.buffer /\ d1.write_ptr = 0
          /\ d1.send_break = m.d.send_break /\ d1.insert = m.d.insert
          /\ d1.buffer_ptr = m.d.buffer_ptr
      <4> 0 \in Nat
        OBVIOUS
      <4> QED
        BY Parts, ZenonT(60) DEF Drive
    <3>2. m1 = [m EXCEPT !.d = d1] /\ w = m1
      BY <2>1
    <3> HIDE DEF d1, m1, w
    <3>3. m1 \in Machine /\ m1.d = d1 /\ m1.s = m.s /\ m1.h = m.h
      BY <3>1, <3>2, NewDrive
    <3>4. ~m.h.block.open
      BY <2>1, NoneOpen, Zenon
    <3>5. Drawn(m1)
      BY <3>1, <3>3, <3>4, HeadWithin, SameTrack, Zenon
    <3>6. Apart(m, m1)
      BY <3>1, <3>3, Zenon DEF Apart
    <3>7. m1.d.write_ptr < Size
      BY <3>1, <3>3, <1>1
    <3> QED
      BY <3>2, <3>3, <3>4, <3>5, <3>6, <3>7, Zenon
  <2>2. CASE ~m.d.wrga /\ next
    <3> DEFINE c == WriteCrc(m)
    <3>1. w = c
      BY <2>2
    <3>2. c \in Machine /\ Steady(m, c) /\ c.d.write_ptr = 0
      BY CrcEffect
    <3>3. Drawn(c) /\ ~c.h.block.open
      BY CrcDrawn
    <3> HIDE DEF c, w
    <3>4. Apart(m, c)
      BY <3>2, Zenon DEF Apart, Steady
    <3>5. c.d.write_ptr < Size
      BY <3>2, <1>1
    <3> QED
      BY <3>1, <3>2, <3>3, <3>4, <3>5, Zenon
  <2>3. CASE ~(m.d.wrga /\ ~next) /\ ~(~m.d.wrga /\ next)
    <3> w = m /\ m.d.wrga = next
      BY <1>1, <2>3, Zenon
    <3> QED
      BY Zenon DEF Apart
  <2> QED
    BY <2>1, <2>2, <2>3, Zenon
<1> HIDE DEF w
<1>4. /\ d \in Drive /\ d.buffer = w.d.buffer /\ d.buffer_ptr = w.d.buffer_ptr
      /\ d.write_ptr = w.d.write_ptr /\ d.first_data = w.d.first_data
      /\ d.send_break = w.d.send_break /\ d.wrga = next /\ d.insert = w.d.insert
  BY <1>3, Parts, ZenonT(60) DEF Drive
<1> HIDE DEF d
<1>5. n \in Machine /\ n.d = d /\ n.s = w.s /\ n.h = w.h
  BY <1>2, <1>3, <1>4, NewDrive
<1>6. Drawn(n)
  <2>1. CASE w.d.wrga = next
    BY <1>3, <1>4, <1>5, <2>1, SamePen, Zenon
  <2>2. CASE w.d.wrga # next
    <3>1. n.d.insert = w.d.insert /\ (n.d.insert => n.d.buffer_ptr <= Size)
      BY <1>3, <1>4, <1>5, HeadWithin, Zenon
    <3>2. ~w.h.block.open /\ n.d.buffer = w.d.buffer /\ n.d.write_ptr = w.d.write_ptr
          /\ n.h.block = w.h.block
      BY <1>3, <1>4, <1>5, <2>2, Zenon
    <3> QED
      BY <1>3, <3>1, <3>2, SameTrack, Zenon
  <2> QED
    BY <2>1, <2>2
<1>7. Apart(m, n)
  BY <1>3, <1>4, <1>5, Zenon DEF Apart
<1>8. n.d.write_ptr < Size
  BY <1>3, <1>4, <1>5
<1> QED
  BY <1>5, <1>6, <1>7, <1>8

-----------------------------------------------------------------------------
(* Reading.                                                                 *)

\* Every set of naturals has a least member, so that what CHOOSE asks for exists.
LEMMA LeastOfNats ==
    ASSUME NEW T \in SUBSET Nat, T # {}
    PROVE  \E x \in T : \A y \in T : x <= y
<1> DEFINE R == OpToRel(<, Nat)
<1>1. IsWellFoundedOn(R, Nat)
  BY NatLessThanWellFounded
<1>2. \A x, y \in Nat : <<x, y>> \in R <=> x < y
  BY DEF OpToRel
<1> HIDE DEF R
<1>3. PICK x \in T : \A y \in T : ~(<<y, x>> \in R)
  BY <1>1, WFMin, Zenon
<1>4. \A y \in T : ~(y < x)
  BY <1>2, <1>3, Zenon
<1> QED
  BY <1>4

\* The head stops behind the breaks.
LEMMA BreaksEnd ==
    ASSUME NEW buffer, NEW p \in Nat, NEW q, q = PastBreaks(buffer, p)
    PROVE  q \in Nat /\ (p <= Size => q <= Size) /\ (q >= Size \/ buffer[q] # "break")
<1>0. CASE p >= Size
  BY <1>0, SizeAssumption DEF PastBreaks
<1> SUFFICES ASSUME ~(p >= Size) PROVE q \in p .. Size /\ (q = Size \/ buffer[q] # "break")
  BY <1>0, SizeAssumption
<1> DEFINE T == {r \in p .. Size : r = Size \/ buffer[r] # "break"}
<1>1. Size \in Nat
  BY SizeAssumption
<1>2. T \in SUBSET Nat /\ Size \in T
  BY <1>1
<1>3. PICK r \in T : \A y \in T : r <= y
  BY <1>2, LeastOfNats
<1>4. /\ \A y \in p .. r - 1 : buffer[y] = "break"
      /\ r \in p .. Size /\ (r = Size \/ buffer[r] # "break")
  BY <1>1, <1>3
<1> QED
  BY <1>4, Zenon DEF PastBreaks

\* The loader leaves the head in the buffer, or just behind it.
LEMMA EndOfImageType ==
    ASSUME NEW image
    PROVE  EndOfImage(image) \in 0 .. Size
<1> DEFINE T == {p \in Track : image[p] = "empty"}
<1>1. Size \in Nat
  BY SizeAssumption
<1>2. CASE T = {}
  BY <1>1, <1>2 DEF EndOfImage
<1>3. CASE T # {}
  <2>1. T \in SUBSET Nat
    BY <1>1 DEF Track
  <2>2. \E x \in T : \A y \in T : x <= y
    BY <1>3, <2>1, LeastOfNats
  <2>3. EndOfImage(image) \in T
    BY <1>3, <2>2 DEF EndOfImage
  <2> QED
    BY <1>1, <2>3 DEF Track
<1> QED
  BY <1>2, <1>3

\* There is room in rtmp for what the drive is asked to send.
Room(m) == Len(m.s.rtmp) <= m.h.nudges

\* The head is at a break.
AtHead(m) == m.d.buffer_ptr < Size /\ m.d.buffer[m.d.buffer_ptr] = "break"

\* The program can see why nothing has been sent.
Announced(m) == m.s.rtmp = <<>> /\ AtHead(m) /\ ~Silent(m) /\ ~m.d.sync => m.s.abort

\* A machine with another drive and another controller.
Replacing(m, d, s, n) == n = [m EXCEPT !.d = d, !.s = s]
Replaced(m, d, s, n) == n \in Machine /\ n.d = d /\ n.s = s /\ n.h = m.h

LEMMA NewParts ==
    ASSUME NEW m \in Machine, NEW d \in Drive, NEW s \in Channel, NEW n, Replacing(m, d, s, n)
    PROVE  Replaced(m, d, s, n)
BY Zenon DEF Machine, Replacing, Replaced

\* What the drive has sent is one byte at most, and a break that it waits at is announced
\* unless that has been done before.
Sent(m, n) ==
    /\ n \in Machine /\ Drawn(n) /\ n.d.write_ptr < Size
    /\ Stored(n) /\ Asked(n) /\ n.h.nudges = m.h.nudges
    /\ m.s.rtmp # <<>> => n.s.rtmp # <<>>
    /\ Announced(n) \/ (~m.d.send_break /\ n.h.early = m.h.early)

\* A drive that is silent sends nothing.
LEMMA SilentSent ==
    ASSUME NEW m \in Machine, Drawn(m), m.d.write_ptr < Size, Stored(m), Asked(m), Silent(m)
    PROVE  Sent(m, m)
BY Zenon DEF Sent, Announced

\* Two machines that differ in what is announced.
Alike(m, a) ==
    /\ a \in Machine /\ Drawn(a)
    /\ a.h.nudges = m.h.nudges /\ a.h.block = m.h.block /\ a.d.insert = m.d.insert
    /\ a.s.rtmp = m.s.rtmp /\ a.s.recv_due = m.s.recv_due
    /\ a.d.buffer = m.d.buffer /\ a.d.buffer_ptr = m.d.buffer_ptr
    /\ a.d.write_ptr = m.d.write_ptr /\ a.d.wrga = m.d.wrga

\* A break is announced instead of a byte.
LEMMA BreakSent ==
    ASSUME NEW m \in Machine, Drawn(m), m.d.write_ptr < Size, Stored(m), Room(m),
           NEW n, n = Announce(m)
    PROVE  Sent(m, n) /\ Alike(m, n)
<1> DEFINE early == (m.s.rtmp # <<>>)
           d == [m.d EXCEPT !.send_break = FALSE]
           s == [m.s EXCEPT !.abort = TRUE]
           h == [m.h EXCEPT !.early = early]
<1>1. n = [m EXCEPT !.d = d, !.s = s, !.h = h]
  <2>1. n = [m EXCEPT !.s.abort = TRUE, !.d.send_break = FALSE, !.h.early = early]
    BY Zenon DEF Announce
  <2> HIDE DEF early
  <2> QED
    BY <2>1 DEF Machine, Drive, Channel, History
<1>2. /\ d \in Drive /\ d.buffer = m.d.buffer /\ d.buffer_ptr = m.d.buffer_ptr
      /\ d.write_ptr = m.d.write_ptr /\ d.first_data = m.d.first_data /\ d.wrga = m.d.wrga
      /\ d.insert = m.d.insert
  BY Parts, ZenonT(60) DEF Drive
<1>3. /\ s \in Channel /\ s.rtmp = m.s.rtmp /\ s.recv_due = m.s.recv_due /\ s.abort = TRUE
  BY Parts, ZenonT(60) DEF Channel
<1>4. early \in BOOLEAN /\ (early <=> m.s.rtmp # <<>>)
  BY Zenon
<1> HIDE DEF early
<1>5. /\ h \in History /\ h.nudges = m.h.nudges /\ h.block = m.h.block /\ h.early = early
  BY <1>4, Parts, ZenonT(60) DEF History
<1> HIDE DEF d, s, h
<1>6. n \in Machine /\ n.d = d /\ n.s = s /\ n.h = h
  BY <1>1, <1>2, <1>3, <1>5, Zenon DEF Machine
<1>7. Drawn(n)
  BY <1>2, <1>5, <1>6, SamePen, Zenon
<1>8. /\ m.s.rtmp \in Seq(Chars) /\ m.h.nudges \in 0 .. RtmpSize /\ RtmpSize \in Nat
  BY Parts, SizeAssumption
<1>9. m.s.rtmp # <<>> => m.h.nudges > 0
  BY <1>8 DEF Room
<1>10. Len(m.s.rtmp) <= 1 + m.h.nudges
  BY <1>8 DEF Room
<1>11. Asked(n) /\ Stored(n) /\ Announced(n)
  BY <1>3, <1>4, <1>5, <1>6, <1>9, <1>10, Zenon DEF Asked, Stored, Announced
<1>12. Sent(m, n)
  BY <1>2, <1>3, <1>5, <1>6, <1>7, <1>11, Zenon DEF Sent
<1>13. Alike(m, n)
  BY <1>2, <1>3, <1>5, <1>6, <1>7, Zenon DEF Alike
<1> QED
  BY <1>12, <1>13

\* A byte is sent; rtmp has room for it.
LEMMA ByteSent ==
    ASSUME NEW a \in Machine, Drawn(a), a.d.write_ptr < Size, Room(a), ~a.h.block.open,
           NEW q \in 0 .. Size - 1, NEW v \in Chars,
           NEW n, n = RegisterEnd(Behind(Received([a EXCEPT !.d.buffer_ptr = q], v)))
    PROVE  Sent(a, n) /\ Announced(n)
<1> DEFINE rtmp == IF Len(a.s.rtmp) = RtmpSize THEN a.s.rtmp ELSE Append(a.s.rtmp, v)
           s == [a.s EXCEPT !.recv_due = TRUE, !.rtmp = rtmp]
           d0 == [a.d EXCEPT !.buffer_ptr = q]
           d == [d0 EXCEPT !.buffer_ptr = q + 1, !.send_break = TRUE]
           h == [a.h EXCEPT !.early = FALSE]
           y == [a EXCEPT !.d = d0]
           z == Received(y, v)
           x == Behind(z)
<1>1. /\ a.s.rtmp \in Seq(Chars) /\ a.h.nudges \in 0 .. RtmpSize /\ RtmpSize \in Nat \ {0}
      /\ Size \in Nat \ {0}
  BY Parts, SizeAssumption
<1>2. rtmp \in Seq(Chars) /\ rtmp # <<>> /\ Len(rtmp) <= 1 + a.h.nudges /\ Len(rtmp) <= RtmpSize
  <2>1. CASE Len(a.s.rtmp) = RtmpSize
    <3>1. rtmp = a.s.rtmp
      BY <2>1
    <3> HIDE DEF rtmp
    <3> QED
      BY <1>1, <2>1, <3>1 DEF Room
  <2>2. CASE Len(a.s.rtmp) # RtmpSize
    <3>1. rtmp = Append(a.s.rtmp, v)
      BY <2>2
    <3> HIDE DEF rtmp
    <3>2. rtmp \in Seq(Chars) /\ rtmp # <<>> /\ Len(rtmp) = Len(a.s.rtmp) + 1
      BY <1>1, <3>1, AppendProperties
    <3>3. Len(a.s.rtmp) <= a.h.nudges
      BY DEF Room
    <3>4. Len(a.s.rtmp) \in Nat
      BY <1>1
    <3> QED
      BY <1>1, <2>2, <3>2, <3>3, <3>4
  <2> QED
    BY <2>1, <2>2
<1>3. n = RegisterEnd(x)
  BY DEF Machine, Drive
<1> HIDE DEF rtmp
<1>4. /\ d0 \in Drive /\ d0.buffer = a.d.buffer /\ d0.write_ptr = a.d.write_ptr
      /\ d0.wrga = a.d.wrga /\ d0.buffer_ptr = q /\ d0.insert = a.d.insert
  <2> q \in Nat
    BY <1>1
  <2> QED
    BY Parts, ZenonT(60) DEF Drive
<1>5. s \in Channel /\ s.rtmp = rtmp /\ s.recv_due = TRUE
  BY <1>2, Parts, ZenonT(60) DEF Channel
<1>6. y = [a EXCEPT !.d = d0]
  OBVIOUS
<1> HIDE DEF d0, y
<1>7. y \in Machine /\ y.d = d0 /\ y.s = a.s /\ y.h = a.h
  BY <1>4, <1>6, NewDrive
<1>8. z = [y EXCEPT !.s = s]
  <2>1. z = [y EXCEPT !.s.recv_due = TRUE,
                      !.s.rtmp = IF Len(y.s.rtmp) = RtmpSize THEN y.s.rtmp ELSE Append(y.s.rtmp, v)]
    BY <1>7 DEF Received, Machine, Channel
  <2>2. (IF Len(y.s.rtmp) = RtmpSize THEN y.s.rtmp ELSE Append(y.s.rtmp, v)) = rtmp
    BY <1>7, Zenon DEF rtmp
  <2>3. z = [y EXCEPT !.s.recv_due = TRUE, !.s.rtmp = rtmp]
    BY <2>1, <2>2, Zenon
  <2> QED
    BY <1>7, <2>3 DEF Machine, Channel
<1> HIDE DEF s, z
<1>9. z \in Machine /\ z.d = d0 /\ z.s = s /\ z.h = a.h
  <2> z \in Machine /\ z.d = y.d /\ z.s = s /\ z.h = y.h
    BY <1>5, <1>7, <1>8, Zenon DEF Machine
  <2> QED
    BY <1>7, Zenon
<1>10. x = [z EXCEPT !.d = d, !.h = h]
  BY <1>4, <1>9 DEF Behind, Machine, Drive, History
<1>11. /\ d \in Drive /\ d.buffer = d0.buffer /\ d.write_ptr = d0.write_ptr
       /\ d.wrga = d0.wrga /\ d.send_break = TRUE /\ d.insert = d0.insert
       /\ d.buffer_ptr <= Size
  <2>1. q + 1 \in Nat /\ q + 1 <= Size
    BY <1>1
  <2>2. d \in Drive /\ d.buffer = d0.buffer /\ d.write_ptr = d0.write_ptr
        /\ d.wrga = d0.wrga /\ d.send_break = TRUE /\ d.insert = d0.insert
        /\ d.buffer_ptr = q + 1
    BY <1>4, <2>1, ZenonT(60) DEF Drive
  <2> QED
    BY <2>1, <2>2
<1>12. h \in History /\ h.nudges = a.h.nudges /\ h.block = a.h.block /\ h.early = FALSE
  BY Parts, ZenonT(60) DEF History
<1> HIDE DEF d, h, x
<1>13. x \in Machine /\ x.d = d /\ x.s = s /\ x.h = h
  <2> x \in Machine /\ x.d = d /\ x.s = z.s /\ x.h = h
    <3> z \in Machine /\ d \in Drive /\ h \in History
      BY <1>9, <1>11, <1>12, Zenon
    <3> QED
      BY <1>10, Zenon DEF Machine
  <2> QED
    BY <1>9, Zenon
<1>14. Drawn(x)
  BY <1>4, <1>11, <1>12, <1>13, SameTrack, ZenonT(60)
<1>15. /\ n \in Machine /\ Apart(x, n) /\ Drawn(n) /\ n.d.write_ptr = x.d.write_ptr /\ n.h = x.h
  BY <1>3, <1>14, <1>13, EndEventStep
<1>16. n.s = s /\ n.d.send_break = TRUE /\ n.h = h /\ n.d.write_ptr = a.d.write_ptr
  BY <1>4, <1>15, <1>11, <1>13, Zenon DEF Apart
<1>17. Stored(n) /\ Asked(n) /\ Announced(n)
  BY <1>2, <1>5, <1>16, <1>12, Zenon DEF Stored, Asked, Announced
<1>18. n.d.write_ptr < Size /\ n.s.rtmp # <<>> /\ n.h.nudges = a.h.nudges
  BY <1>2, <1>5, <1>16, <1>12, Zenon
<1> QED
  BY <1>15, <1>17, <1>18, Zenon DEF Sent

\* The end of the disk is found.
LEMMA EndSent ==
    ASSUME NEW a \in Machine, Drawn(a), a.d.write_ptr < Size, Stored(a), Asked(a), a.d.wrga,
           NEW q \in Nat, q >= Size \/ a.d.buffer[q] = "empty", a.d.insert => q <= Size,
           NEW n, n = EndOfDisk(CancelEnd([a EXCEPT !.d.buffer_ptr = q]))
    PROVE  Sent(a, n) /\ Announced(n)
<1> DEFINE d == [a.d EXCEPT !.buffer_ptr = q]
           y == [a EXCEPT !.d = d]
           c == CancelEnd(y)
<1>1. Size \in Nat \ {0}
  BY SizeAssumption
<1>2. /\ d \in Drive /\ d.buffer = a.d.buffer /\ d.write_ptr = a.d.write_ptr
      /\ d.wrga = a.d.wrga /\ d.buffer_ptr = q /\ d.send_break = a.d.send_break
      /\ d.insert = a.d.insert
  BY Parts, ZenonT(60) DEF Drive
<1>3. n = EndOfDisk(c) /\ c = CancelEnd(y) /\ y = [a EXCEPT !.d = d]
  BY DEF Machine, Drive
<1> HIDE DEF d, y, c
<1>4. y \in Machine /\ y.d = d /\ y.s = a.s /\ y.h = a.h
  <2>1. d \in Drive /\ y = [a EXCEPT !.d = d]
    BY <1>2, <1>3, Zenon
  <2> QED
    BY <2>1, Zenon DEF Machine
<1>5. ~a.h.block.open
  BY NoneOpen, Zenon
<1>6. Drawn(y)
  BY <1>2, <1>4, <1>5, SameTrack, Zenon
<1>7. /\ c \in Machine /\ Apart(y, c) /\ Drawn(c) /\ c.d.wrga = y.d.wrga
      /\ c.d.buffer = y.d.buffer /\ c.d.buffer_ptr = y.d.buffer_ptr
  BY <1>3, <1>4, <1>6, EndEventStep
<1>8. /\ n \in Machine /\ Apart(c, n) /\ Drawn(n) /\ n.d.write_ptr = 0
      /\ n.d.wrga = c.d.wrga
      /\ c.d.wrga => n.d.buffer = c.d.buffer /\ n.d.buffer_ptr = c.d.buffer_ptr
  BY <1>3, <1>7, EndOfDiskStep
<1>9. /\ n.s = a.s /\ n.h.nudges = a.h.nudges /\ n.h.early = a.h.early
      /\ n.d.send_break = a.d.send_break
      /\ n.d.buffer = a.d.buffer /\ n.d.buffer_ptr = q
  BY <1>2, <1>4, <1>7, <1>8, Zenon DEF Apart
<1>10. Asked(n) /\ Stored(n)
  BY <1>9, Zenon DEF Asked, Stored
<1>11. ~AtHead(n)
  BY <1>1, <1>9 DEF AtHead
<1>12. Announced(n)
  BY <1>11, Zenon DEF Announced
<1>13. n.d.write_ptr < Size
  BY <1>1, <1>8
<1> QED
  BY <1>8, <1>9, <1>10, <1>12, <1>13, Zenon DEF Sent

\* send_data()
LEMMA SendStep ==
    ASSUME NEW m \in Machine, Drawn(m), m.d.write_ptr < Size, Stored(m), Asked(m), Room(m),
           NEW n, n = SendData(m)
    PROVE  Sent(m, n)
<1> DEFINE p == m.d.buffer_ptr
           at_break == p < Size /\ m.d.buffer[p] = "break"
           b == Announce(m)
           a == IF at_break /\ m.d.send_break THEN b ELSE m
           q == PastBreaks(m.d.buffer, p)
           passed == [a EXCEPT !.d.buffer_ptr = q]
<1>1. CASE Silent(m)
  <2> n = m
    BY <1>1 DEF SendData
  <2> QED
    BY <1>1, SilentSent
<1>2. CASE ~Silent(m)
  <2>1. m.d.wrga /\ ~m.h.block.open
    BY <1>2, NoneOpen DEF Silent
  <2>2. Size \in Nat \ {0} /\ p \in Nat /\ m.d.buffer \in [Track -> Chars]
    BY Parts, SizeAssumption
  <2>3. q \in Nat /\ (m.d.insert => q <= Size)
    <3>1. q = PastBreaks(m.d.buffer, p)
      OBVIOUS
    <3>2. m.d.insert => p <= Size
      BY HeadWithin, Zenon
    <3> HIDE DEF q, p
    <3>3. q \in Nat /\ (p <= Size => q <= Size)
      BY <2>2, <3>1, BreaksEnd
    <3> QED
      BY <3>2, <3>3, Zenon
  <2>4. Sent(m, b) /\ Alike(m, b)
    BY BreakSent
  <2>5. Alike(m, a)
    <3> Alike(m, m)
      BY Zenon DEF Alike
    <3> HIDE DEF b
    <3> QED
      BY <2>4
  <2>6. passed.d.buffer_ptr = q
    <3> HIDE DEF a, q
    <3> QED
      BY <2>5 DEF Alike, Machine, Drive
  <2>7. CASE at_break /\ ~m.d.sync
    <3>1. n = a
      BY <1>2, <2>7 DEF SendData
    <3>2. CASE m.d.send_break
      BY <2>4, <2>7, <3>1, <3>2
    <3>3. CASE ~m.d.send_break
      <4>1. n = m
        BY <3>1, <3>3
      <4> QED
        BY <3>3, <4>1, Zenon DEF Sent
    <3> QED
      BY <3>2, <3>3
  <2>8. /\ a \in Machine /\ Drawn(a) /\ a.d.write_ptr < Size /\ Stored(a) /\ Room(a) /\ a.d.wrga
        /\ ~a.h.block.open /\ a.d.buffer = m.d.buffer /\ a.d.insert = m.d.insert
        /\ a.h.nudges = m.h.nudges /\ a.s.rtmp = m.s.rtmp
    <3> HIDE DEF a
    <3> QED
      BY <2>1, <2>5, Zenon DEF Alike, Stored, Room
  <2>11. Asked(a)
    <3> HIDE DEF b
    <3> QED
      BY <2>4, Zenon DEF Sent
  <2>9. CASE ~(at_break /\ ~m.d.sync) /\ (q < Size /\ m.d.buffer[q] # "empty")
    <3>1. n = RegisterEnd(Behind(Received(passed, m.d.buffer[q])))
      <4> HIDE DEF q
      <4> QED
        BY <1>2, <2>6, <2>9 DEF SendData, q
    <3>2. q \in 0 .. Size - 1 /\ m.d.buffer[q] \in Chars
      <4> HIDE DEF q, p
      <4> QED
        BY <2>2, <2>3, <2>9 DEF Track
    <3> HIDE DEF a, q
    <3>3. Sent(a, n) /\ Announced(n)
      BY <2>8, <3>1, <3>2, ByteSent
    <3> QED
      BY <2>8, <3>3, Zenon DEF Sent
  <2>10. CASE ~(at_break /\ ~m.d.sync) /\ ~(q < Size /\ m.d.buffer[q] # "empty")
    <3>1. n = EndOfDisk(CancelEnd(passed))
      BY <1>2, <2>6, <2>10 DEF SendData
    <3>2. q >= Size \/ a.d.buffer[q] = "empty"
      <4> HIDE DEF q, p, a
      <4> QED
        BY <2>2, <2>3, <2>8, <2>10
    <3> HIDE DEF a, q
    <3>3. a.d.insert => q <= Size
      BY <2>3, <2>8, Zenon
    <3>4. Sent(a, n) /\ Announced(n)
      BY <2>3, <2>8, <2>11, <3>1, <3>2, <3>3, EndSent
    <3> QED
      BY <2>8, <3>4, Zenon DEF Sent
  <2> QED
    BY <2>7, <2>9, <2>10
<1> QED
  BY <1>1, <1>2

-----------------------------------------------------------------------------
(* The signals of the controller, and what it is called back for.           *)

\* A request of its own for the next byte makes room for it.
LEMMA NudgedRoom ==
    ASSUME NEW m \in Machine, Drawn(m), m.d.write_ptr < Size, Stored(m), Asked(m),
           NEW n, n = Nudged(m)
    PROVE  /\ n \in Machine /\ Drawn(n) /\ n.d = m.d /\ n.s = m.s
           /\ Stored(n) /\ Asked(n) /\ Room(n) /\ n.h.nudges > 0
<1> DEFINE k == m.h.nudges  j == IF k < RtmpSize THEN k + 1 ELSE k
           h == [m.h EXCEPT !.nudges = j]
<1>1. m.s.rtmp \in Seq(Chars) /\ k \in 0 .. RtmpSize /\ RtmpSize \in Nat \ {0}
  BY Parts, SizeAssumption
<1>2. j \in 0 .. RtmpSize /\ j > 0 /\ Len(m.s.rtmp) <= j
  BY <1>1 DEF Stored, Asked
<1>3. n = [m EXCEPT !.h = h]
  BY DEF Nudged, Machine, History
<1> HIDE DEF k, j
<1>4. h \in History /\ h.nudges = j /\ h.block = m.h.block /\ h.early = m.h.early
  BY <1>2, Parts, ZenonT(60) DEF History
<1>5. Len(m.s.rtmp) <= 1 + j
  BY <1>1, <1>2
<1> HIDE DEF h
<1>6. n \in Machine /\ n.d = m.d /\ n.s = m.s /\ n.h = h
  BY <1>3, <1>4, Zenon DEF Machine
<1>7. Drawn(n)
  BY <1>4, <1>6, SamePen, Zenon
<1>8. Asked(n)
  BY <1>2, <1>4, <1>6, <1>5, Zenon DEF Asked
<1> QED
  BY <1>2, <1>4, <1>6, <1>7, <1>8 DEF Stored, Room

\* What every state keeps.
Good(m) == m \in Machine /\ Drawn(m) /\ m.d.write_ptr < Size /\ Stored(m) /\ Asked(m)

\* A machine whose drive has been asked to send.
LEMMA NudgedSend ==
    ASSUME NEW m, Good(m), NEW n, n = SendData(Nudged(m))
    PROVE  Good(n) /\ (m.s.rtmp # <<>> => n.s.rtmp # <<>>) /\ n.h.nudges > 0
<1> DEFINE k == Nudged(m)
<1>1. /\ k \in Machine /\ Drawn(k) /\ k.d = m.d /\ k.s = m.s
      /\ Stored(k) /\ Asked(k) /\ Room(k) /\ k.h.nudges > 0
  BY NudgedRoom DEF Good
<1>2. n = SendData(k) /\ k.d.write_ptr < Size
  BY <1>1 DEF Good
<1> HIDE DEF k
<1>3. Sent(k, n)
  BY <1>1, <1>2, SendStep
<1> QED
  BY <1>1, <1>3 DEF Sent, Good

\* A step that changes nothing but the drive, and there nothing the receiver depends on.
LEMMA ApartGood ==
    ASSUME NEW m, Good(m), NEW n \in Machine, Apart(m, n), Drawn(n), n.d.write_ptr < Size
    PROVE  Good(n) /\ n.s.rtmp = m.s.rtmp
BY Zenon DEF Good, Apart, Stored, Asked

\* A flag of the drive that no property speaks of.
LEMMA FlagGood ==
    ASSUME NEW m, Good(m), NEW d \in Drive, NEW n, n = [m EXCEPT !.d = d], Spared(m.d, d)
    PROVE  Good(n) /\ n.s = m.s /\ n.d = d /\ n.h = m.h
<1>1. n \in Machine /\ n.d = d /\ n.s = m.s /\ n.h = m.h /\ Drawn(n)
  BY SparedDrive, Zenon DEF Good
<1> QED
  BY <1>1, Zenon DEF Good, Stored, Asked, Spared

\* QUICKDISK_SIO_SYNC
LEMMA SyncStep ==
    ASSUME NEW m, Good(m), NEW n, n = SyncSignal(m)
    PROVE  Good(n) /\ (m.s.rtmp # <<>> => n.s.rtmp # <<>>)
<1> DEFINE c == WriteCrc(m)
           dc == [c.d EXCEPT !.wrga = TRUE]
           read == IF m.d.wrga THEN m ELSE [c EXCEPT !.d = dc]
           d == [read.d EXCEPT !.sync = TRUE]
           x == [read EXCEPT !.d = d]
<1>1. n = SendData(Nudged(x))
  <2>1. n = SendData(Nudged([read EXCEPT !.d.sync = TRUE]))
    BY DEF SyncSignal
  <2> QED
    BY <2>1
<1>2. Good(read) /\ read.s = m.s
  <2>1. CASE m.d.wrga
    BY <2>1
  <2>2. CASE ~m.d.wrga
    <3>1. c \in Machine /\ Steady(m, c) /\ c.d.write_ptr = 0
      BY CrcEffect DEF Good
    <3>2. Drawn(c) /\ ~c.h.block.open
      BY CrcDrawn DEF Good
    <3>3. read = [c EXCEPT !.d = dc]
      BY <2>2
    <3> HIDE DEF c, read
    <3>4. /\ dc \in Drive /\ dc.buffer = c.d.buffer /\ dc.write_ptr = c.d.write_ptr
          /\ dc.send_break = c.d.send_break /\ dc.insert = c.d.insert
          /\ dc.buffer_ptr = c.d.buffer_ptr
      BY <3>1, Parts, ZenonT(60) DEF Drive
    <3> HIDE DEF dc
    <3>5. read \in Machine /\ read.d = dc /\ read.s = c.s /\ read.h = c.h
      <4> c \in Machine /\ dc \in Drive
        BY <3>1, <3>4, Zenon
      <4> QED
        BY <3>3, Zenon DEF Machine
    <3>6. Drawn(read)
      BY <3>2, <3>4, <3>5, HeadWithin, SameTrack, Zenon
    <3>7. Apart(m, read) /\ read.s = m.s
      BY <3>1, <3>4, <3>5, Zenon DEF Apart, Steady
    <3>8. read.d.write_ptr < Size
      BY <3>1, <3>4, <3>5, SizeAssumption
    <3> QED
      BY <3>5, <3>6, <3>7, <3>8, ApartGood, Zenon
  <2> QED
    BY <2>1, <2>2
<1> HIDE DEF read
<1>3. d \in Drive /\ Spared(read.d, d)
  <2> read.d \in Drive
    BY <1>2, Parts DEF Good
  <2> QED
    BY ZenonT(60) DEF Drive, Spared
<1>4. x = [read EXCEPT !.d = d]
  OBVIOUS
<1> HIDE DEF d, x
<1>5. Good(x) /\ x.s = read.s
  BY <1>2, <1>3, <1>4, FlagGood
<1>6. Good(n) /\ (x.s.rtmp # <<>> => n.s.rtmp # <<>>)
  BY <1>1, <1>5, NudgedSend
<1> QED
  BY <1>2, <1>5, <1>6, Zenon

\* The end of the disk is announced anew, or not any more.
LEMMA EndGood ==
    ASSUME NEW m, Good(m), NEW n, n = RegisterEnd(m) \/ n = CancelEnd(m)
    PROVE  Good(n) /\ n.s = m.s
<1>1. /\ n \in Machine /\ Apart(m, n) /\ Drawn(n) /\ n.d.write_ptr = m.d.write_ptr
  BY EndEventStep DEF Good
<1>2. n.d.write_ptr < Size
  BY <1>1 DEF Good
<1>3. n.s = m.s
  BY <1>1, Zenon DEF Apart
<1> QED
  BY <1>1, <1>2, <1>3, ApartGood, Zenon

\* QUICKDISK_SIO_DTRB
LEMMA MotorStep ==
    ASSUME NEW m, Good(m), NEW next \in BOOLEAN, NEW n, n = MotorSignal(m, next)
    PROVE  Good(n) /\ (m.s.rtmp # <<>> => n.s.rtmp # <<>>)
<1> DEFINE da == [m.d EXCEPT !.motor_on = TRUE, !.restore = TRUE]
           a == [m EXCEPT !.d = da]
           dh == [m.d EXCEPT !.home = TRUE]
           h == [m EXCEPT !.d = dh]
           started == IF m.d.motor_on /\ m.d.wrga
                      THEN RegisterEnd(SendData(Nudged(m))) ELSE CancelEnd(a)
           moved == IF m.d.mton /\ ~next THEN started
                    ELSE IF ~m.d.mton /\ next THEN h ELSE m
           d == [moved.d EXCEPT !.mton = next]
<1>0. m \in Machine
  BY DEF Good
<1>1. n = [moved EXCEPT !.d = d]
  <2>1. a = [m EXCEPT !.d.motor_on = TRUE, !.d.restore = TRUE] /\ h = [m EXCEPT !.d.home = TRUE]
    BY <1>0 DEF Machine, Drive
  <2> HIDE DEF a, h
  <2>2. n = [moved EXCEPT !.d.mton = next]
    BY <2>1 DEF MotorSignal
  <2> QED
    BY <2>2
<1>2. Good(started) /\ (m.s.rtmp # <<>> => started.s.rtmp # <<>>)
  <2>1. CASE m.d.motor_on /\ m.d.wrga
    <3> DEFINE s == SendData(Nudged(m))
    <3>1. started = RegisterEnd(s)
      BY <2>1
    <3>2. Good(s) /\ (m.s.rtmp # <<>> => s.s.rtmp # <<>>)
      BY NudgedSend
    <3> HIDE DEF s, started
    <3>3. Good(started) /\ started.s = s.s
      BY <3>1, <3>2, EndGood
    <3> QED
      BY <3>2, <3>3
  <2>2. CASE ~(m.d.motor_on /\ m.d.wrga)
    <3>1. started = CancelEnd(a)
      BY <2>2
    <3>2. da \in Drive /\ Spared(m.d, da)
      <4> m.d \in Drive
        BY <1>0, Parts
      <4> QED
        BY ZenonT(60) DEF Drive, Spared
    <3>3. a = [m EXCEPT !.d = da]
      OBVIOUS
    <3> HIDE DEF da, a, started
    <3>4. Good(a) /\ a.s = m.s
      BY <3>2, <3>3, FlagGood, Zenon
    <3>5. Good(started) /\ started.s = a.s
      BY <3>1, <3>4, EndGood
    <3> QED
      BY <3>4, <3>5
  <2> QED
    BY <2>1, <2>2
<1>3. Good(h) /\ h.s = m.s
  <2>1. dh \in Drive /\ Spared(m.d, dh)
    <3> m.d \in Drive
      BY <1>0, Parts
    <3> QED
      BY ZenonT(60) DEF Drive, Spared
  <2>2. h = [m EXCEPT !.d = dh]
    OBVIOUS
  <2> HIDE DEF dh, h
  <2> QED
    BY <2>1, <2>2, FlagGood, Zenon
<1> HIDE DEF started, h
<1>4. Good(moved) /\ (m.s.rtmp # <<>> => moved.s.rtmp # <<>>)
  BY <1>2, <1>3, Zenon
<1> HIDE DEF moved
<1>5. d \in Drive /\ Spared(moved.d, d)
  <2> moved.d \in Drive
    BY <1>4, Parts DEF Good
  <2> QED
    BY ZenonT(60) DEF Drive, Spared
<1> HIDE DEF d
<1>6. Good(n) /\ n.s = moved.s
  <2>1. Good(moved) /\ d \in Drive
    BY <1>4, <1>5, Zenon
  <2> QED
    BY <1>1, <1>5, <2>1, FlagGood
<1> QED
  BY <1>4, <1>6

\* The signals of the sender.
LEMMA SenderGood ==
    ASSUME NEW m, Good(m), NEW n,
           \/ \E b \in Bytes : n = DataSignal(m, b)
           \/ n = BreakSignal(m)
           \/ \E next \in BOOLEAN : n = GateSignal(m, next)
    PROVE  Good(n) /\ n.s = m.s
<1>1. n \in Machine /\ Apart(m, n) /\ Drawn(n) /\ n.d.write_ptr < Size
  BY DataStep, BreakStep, GateStep DEF Good
<1>2. n.s = m.s
  BY <1>1, Zenon DEF Apart
<1> QED
  BY <1>1, <1>2, ApartGood, Zenon

\* Another controller with the same bytes to receive.
LEMMA ChannelGood ==
    ASSUME NEW m, Good(m), NEW s \in Channel, NEW n, n = [m EXCEPT !.s = s],
           s.rtmp = m.s.rtmp, s.recv_due => m.s.recv_due \/ s.rtmp # <<>>
    PROVE  Good(n) /\ n.s = s /\ n.d = m.d /\ n.h = m.h
<1>1. n \in Machine /\ n.s = s /\ n.d = m.d /\ n.h = m.h
  BY Zenon DEF Machine, Good
<1>2. Drawn(n)
  BY <1>1, SamePen, Zenon DEF Good
<1> QED
  BY <1>1, <1>2, Zenon DEF Good, Stored, Asked

\* EVENT_SEND
LEMMA SendEventStep ==
    ASSUME NEW m, Good(m), NEW n, n = SendEvent(m)
    PROVE  Good(n) /\ n.s.rtmp = m.s.rtmp
<1> DEFINE out == IF m.s.shift = <<>> THEN m ELSE DataSignal(m, Head(m.s.shift))
           s == [out.s EXCEPT !.shift = m.s.send, !.send = <<>>, !.send_due = TRUE]
<1>1. m.s.shift \in Seq(Bytes) /\ m.s.send \in Seq(Bytes)
  BY Parts DEF Good
<1>2. Good(out) /\ out.s = m.s
  <2>1. CASE m.s.shift = <<>>
    BY <2>1
  <2>2. CASE m.s.shift # <<>>
    <3> DEFINE b == Head(m.s.shift)
    <3>1. b \in Bytes
      BY <1>1, <2>2
    <3>2. out = DataSignal(m, b)
      BY <2>2
    <3> HIDE DEF b, out
    <3> QED
      BY <3>1, <3>2, SenderGood
  <2> QED
    BY <2>1, <2>2
<1>3. n = [out EXCEPT !.s = s]
  <2>1. n = [out EXCEPT !.s.shift = m.s.send, !.s.send = <<>>, !.s.send_due = TRUE]
    BY DEF SendEvent
  <2> HIDE DEF out
  <2> QED
    BY <1>2, <2>1 DEF Good, Machine, Channel
<1> HIDE DEF out
<1>4. s \in Channel /\ s.rtmp = out.s.rtmp /\ s.recv_due = out.s.recv_due
  <2> <<>> \in Seq(Bytes)
    OBVIOUS
  <2> QED
    BY <1>1, <1>2, Parts, ZenonT(60) DEF Channel, Good
<1> HIDE DEF s
<1>5. Good(n) /\ n.s = s
  <2>1. Good(out) /\ s \in Channel
    BY <1>2, <1>4, Zenon
  <2>2. s.rtmp = out.s.rtmp /\ (s.recv_due => out.s.recv_due)
    BY <1>4, Zenon
  <2> QED
    BY <1>3, <2>1, <2>2, ChannelGood
<1> QED
  BY <1>2, <1>4, <1>5

\* What the receiver has taken is gone from rtmp, and nothing else that matters.
LEMMA TakeStep ==
    ASSUME NEW m, m \in Machine, m.s.rtmp # <<>>, m.s.recv # RecvSize, NEW n, n = Take(m)
    PROVE  /\ n \in Machine /\ n.h = m.h
           /\ n.s.rtmp = Tail(m.s.rtmp) /\ n.s.recv_due = m.s.recv_due /\ n.s.rx = m.s.rx
           /\ n.d.buffer = m.d.buffer /\ n.d.buffer_ptr = m.d.buffer_ptr
           /\ n.d.write_ptr = m.d.write_ptr /\ n.d.first_data = m.d.first_data
           /\ n.d.wrga = m.d.wrga /\ n.d.send_break = m.d.send_break
           /\ n.d.insert = m.d.insert
<1> DEFINE v == Head(m.s.rtmp)
           hunting == m.s.hunt # {}
           left == Awaited(m.s.hunt, v)
           stored == ~hunting \/ (v = "sync" /\ ~Inhibit)
           sync == m.d.sync /\ ~(hunting /\ left = {})
           abort == m.s.abort /\ ~stored
           recv == IF stored THEN m.s.recv + 1 ELSE m.s.recv
           rtmp == Tail(m.s.rtmp)
           d == [m.d EXCEPT !.sync = sync]
           s == [m.s EXCEPT !.rtmp = rtmp, !.hunt = left, !.recv = recv, !.abort = abort]
<1>1. /\ m.s.rtmp \in Seq(Chars) /\ m.s.hunt \in SUBSET {1, 2} /\ m.s.recv \in 0 .. RecvSize
      /\ RecvSize \in Nat \ {0}
  BY Parts, SizeAssumption
<1>2. left \in SUBSET {1, 2}
  BY <1>1 DEF Awaited
<1>3. recv \in 0 .. RecvSize /\ rtmp \in Seq(Chars)
  <2>1. rtmp \in Seq(Chars)
    BY <1>1
  <2>2. m.s.recv + 1 \in 0 .. RecvSize
    BY <1>1
  <2> QED
    BY <1>1, <2>1, <2>2, Zenon
<1>4. m.d.sync \in BOOLEAN /\ m.s.abort \in BOOLEAN
  BY Zenon DEF Machine, Drive, Channel
<1>5. sync \in BOOLEAN /\ abort \in BOOLEAN
  BY <1>4, Zenon
<1>6. n = [m EXCEPT !.d = d, !.s = s]
  <2>1. n = [m EXCEPT !.s.rtmp = rtmp, !.s.hunt = left, !.d.sync = sync,
                      !.s.recv = recv, !.s.abort = abort]
    <3>1. n = [m EXCEPT !.s.rtmp = Tail(@), !.s.hunt = left, !.d.sync = @ /\ ~(hunting /\ left = {}),
                 !.s.recv = IF stored THEN @ + 1 ELSE @,
                 !.s.abort = @ /\ ~stored]
      BY DEF Take
    <3> HIDE DEF left, stored, hunting
    <3> QED
      BY <3>1 DEF Machine, Drive, Channel
  <2> HIDE DEF rtmp, left, sync, recv, abort
  <2> QED
    BY <2>1 DEF Machine, Drive, Channel
<1> HIDE DEF rtmp, left, sync, recv, abort
<1>7. /\ d \in Drive /\ d.buffer = m.d.buffer /\ d.buffer_ptr = m.d.buffer_ptr
      /\ d.write_ptr = m.d.write_ptr /\ d.first_data = m.d.first_data
      /\ d.wrga = m.d.wrga /\ d.send_break = m.d.send_break /\ d.insert = m.d.insert
  BY <1>5, Parts, ZenonT(60) DEF Drive
<1>8. s \in Channel /\ s.rtmp = rtmp /\ s.recv_due = m.s.recv_due /\ s.rx = m.s.rx
  BY <1>2, <1>3, <1>5, Parts, ZenonT(60) DEF Channel
<1>9. Replacing(m, d, s, n)
  BY <1>6, Zenon DEF Replacing
<1> HIDE DEF d, s
<1>10. Replaced(m, d, s, n)
  BY <1>7, <1>8, <1>9, NewParts, Zenon
<1>11. n \in Machine /\ n.d = d /\ n.s = s /\ n.h = m.h
  BY <1>10, Zenon DEF Replaced
<1> QED
  BY <1>7, <1>8, <1>11, Zenon DEF rtmp

\* EVENT_RECV: a receiver that runs dry asks for the next byte, or sees why there is none.
LEMMA RecvStep ==
    ASSUME NEW m, Good(m), m.s.recv_due, NEW n, n = RecvEvent(m)
    PROVE  /\ Good(n)
           /\ n.s.rtmp = <<>> => Announced(n) \/ (m.h.nudges > 0 /\ n.h.early)
<1> DEFINE so == [m.s EXCEPT !.recv_due = FALSE]
           over == [m EXCEPT !.s = so]
           taken == IF m.s.recv = RecvSize THEN over ELSE Take(over)
           hx == [taken.h EXCEPT !.nudges = 0]
           x == [taken EXCEPT !.h = hx]
           asked == IF taken.s.rtmp = <<>> THEN SendData(x) ELSE taken
           due == asked.s.rtmp # <<>>
           sn == [asked.s EXCEPT !.recv_due = due]
           sw == [m.s EXCEPT !.recv_due = TRUE]
<1>0. m \in Machine /\ m.s \in Channel /\ m.s.rtmp \in Seq(Chars) /\ m.s.rtmp # <<>>
      /\ m.h.nudges \in 0 .. RtmpSize /\ RtmpSize \in Nat /\ m.s.recv_due \in BOOLEAN
      /\ RecvSize \in Nat
  BY Parts, SizeAssumption DEF Good, Stored, Channel
<1>1. CASE ~m.s.rx
  <2>1. n = [m EXCEPT !.s = sw]
    <3> n = [over EXCEPT !.s.recv_due = TRUE]
      BY <1>1 DEF RecvEvent
    <3> QED
      BY <1>0 DEF Machine, Channel
  <2>2. sw \in Channel /\ sw.rtmp = m.s.rtmp
    BY <1>0, ZenonT(60) DEF Channel
  <2> HIDE DEF sw
  <2>3. Good(n) /\ n.s = sw
    <3> sw.recv_due => m.s.recv_due \/ sw.rtmp # <<>>
      OBVIOUS
    <3> QED
      BY <2>1, <2>2, ChannelGood
  <2> QED
    BY <1>0, <2>2, <2>3, Zenon
<1>2. CASE m.s.rx
  <2>1. n = [asked EXCEPT !.s.recv_due = asked.s.rtmp # <<>>]
    <3> over = [m EXCEPT !.s.recv_due = FALSE] /\ x = [taken EXCEPT !.h.nudges = 0]
      OBVIOUS
    <3> HIDE DEF over, x
    <3>1. over.s.recv = m.s.recv
      BY <1>0 DEF over, Machine, Channel
    <3> QED
      BY <1>2 DEF RecvEvent, Emptied
  <2>2. n = [asked EXCEPT !.s = sn]
    BY <2>1
  <2>3. /\ so \in Channel /\ so.rtmp = m.s.rtmp /\ so.recv_due = FALSE /\ so.recv = m.s.recv
        /\ so.rx = m.s.rx
    BY <1>0, ZenonT(60) DEF Channel
  <2>4. over = [m EXCEPT !.s = so]
    OBVIOUS
  <2> HIDE DEF so, over
  <2>5. Good(over) /\ over.s = so /\ over.d = m.d /\ over.h = m.h
    <3> so \in Channel /\ so.rtmp = m.s.rtmp /\ (so.recv_due => m.s.recv_due \/ so.rtmp # <<>>)
      BY <2>3, Zenon
    <3> QED
      BY <2>4, ChannelGood
  <2>6. /\ taken \in Machine /\ Drawn(taken) /\ taken.d.write_ptr < Size /\ taken.h = m.h
        /\ taken.s.recv_due = FALSE /\ taken.d.send_break = m.d.send_break
        /\ taken.s.rtmp = m.s.rtmp \/ taken.s.rtmp = Tail(m.s.rtmp)
    <3>1. CASE m.s.recv = RecvSize
      <4> taken = over
        BY <3>1
      <4> QED
        BY <2>3, <2>5, Zenon DEF Good
    <3>2. CASE m.s.recv # RecvSize
      <4>1. taken = Take(over)
        BY <3>2
      <4>2. over \in Machine /\ over.s.rtmp # <<>> /\ over.s.recv # RecvSize
        BY <1>0, <2>3, <2>5, <3>2, Zenon DEF Good
      <4> HIDE DEF taken
      <4>3. /\ taken \in Machine /\ taken.h = over.h
            /\ taken.s.rtmp = Tail(over.s.rtmp) /\ taken.s.recv_due = over.s.recv_due
            /\ taken.d.buffer = over.d.buffer /\ taken.d.buffer_ptr = over.d.buffer_ptr
            /\ taken.d.write_ptr = over.d.write_ptr /\ taken.d.first_data = over.d.first_data
            /\ taken.d.wrga = over.d.wrga /\ taken.d.send_break = over.d.send_break
            /\ taken.d.insert = over.d.insert
        BY <4>1, <4>2, TakeStep
      <4>4. Drawn(taken)
        <5> Drawn(over) /\ taken.h.block = over.h.block
          BY <2>5, <4>3, Zenon DEF Good
        <5> QED
          BY <4>3, SamePen, Zenon
      <4>5. taken.d.write_ptr < Size
        BY <2>5, <4>3 DEF Good
      <4> QED
        BY <2>3, <2>5, <4>3, <4>4, <4>5, Zenon
    <3> QED
      BY <3>1, <3>2
  <2> HIDE DEF taken
  <2>7. Stored(taken)
    <3>1. Len(m.s.rtmp) <= RtmpSize
      BY DEF Good, Stored
    <3>2. Len(taken.s.rtmp) <= RtmpSize
      <4>1. CASE taken.s.rtmp = m.s.rtmp
        BY <3>1, <4>1
      <4>2. CASE taken.s.rtmp = Tail(m.s.rtmp)
        <5> Len(Tail(m.s.rtmp)) = Len(m.s.rtmp) - 1 /\ Len(m.s.rtmp) \in Nat
          BY <1>0
        <5> QED
          BY <1>0, <3>1, <4>2
      <4> QED
        BY <2>6, <4>1, <4>2
    <3> QED
      BY <2>6, <3>2, Zenon DEF Stored
  <2>8. /\ Good(asked)
        /\ asked.s.rtmp = <<>> => Announced(asked) \/ (m.h.nudges > 0 /\ asked.h.early)
    <3>1. CASE taken.s.rtmp = <<>>
      <4>1. hx \in History /\ hx.nudges = 0 /\ hx.block = taken.h.block /\ hx.early = m.h.early
        <5> 0 \in 0 .. RtmpSize
          BY <1>0
        <5> QED
          BY <2>6, Parts, ZenonT(60) DEF History
      <4>2. x = [taken EXCEPT !.h = hx]
        OBVIOUS
      <4>3. asked = SendData(x)
        BY <3>1
      <4> HIDE DEF hx, x, asked
      <4>4. x \in Machine /\ x.d = taken.d /\ x.s = taken.s /\ x.h = hx
        <5> taken \in Machine /\ hx \in History
          BY <2>6, <4>1, Zenon
        <5> QED
          BY <4>2, Zenon DEF Machine
      <4>5. Drawn(x)
        <5> Drawn(taken) /\ x.h.block = taken.h.block
          BY <2>6, <4>1, <4>4, Zenon
        <5> QED
          BY <4>4, SamePen, Zenon
      <4>6. Stored(x) /\ x.d.write_ptr < Size
        BY <2>6, <2>7, <4>4, Zenon DEF Stored
      <4>7. Room(x)
        BY <3>1, <4>1, <4>4 DEF Room
      <4>8. Asked(x)
        <5> x.s.rtmp = <<>> /\ x.h.nudges = 0
          BY <3>1, <4>1, <4>4, Zenon
        <5> QED
          BY DEF Asked
      <4>9. Sent(x, asked)
        BY <4>3, <4>4, <4>5, <4>6, <4>7, <4>8, SendStep
      <4>10. ~x.d.send_break => m.h.early /\ m.h.nudges > 0
        BY <1>0, <2>6, <4>4, Zenon DEF Good, Asked
      <4>11. x.h.early = m.h.early
        BY <4>1, <4>4, Zenon
      <4> QED
        BY <4>9, <4>10, <4>11, Zenon DEF Sent, Good
    <3>2. CASE taken.s.rtmp # <<>>
      <4>1. asked = taken
        BY <3>2
      <4>2. Len(taken.s.rtmp) <= 1 + m.h.nudges
        <5>1. CASE taken.s.rtmp = m.s.rtmp
          BY <5>1 DEF Good, Asked
        <5>2. CASE taken.s.rtmp = Tail(m.s.rtmp)
          <6>1. Len(taken.s.rtmp) = Len(m.s.rtmp) - 1 /\ taken.s.rtmp \in Seq(Chars)
            BY <1>0, <5>2
          <6>2. Len(taken.s.rtmp) > 0
            BY <3>2, <6>1
          <6>3. Len(m.s.rtmp) <= 1 + m.h.nudges /\ Len(m.s.rtmp) \in Nat
            BY <1>0 DEF Good, Asked
          <6> QED
            BY <1>0, <6>1, <6>2, <6>3
        <5> QED
          BY <2>6, <5>1, <5>2
      <4>3. Asked(taken)
        BY <1>0, <2>6, <4>2, Zenon DEF Asked, Good
      <4> QED
        BY <2>6, <2>7, <3>2, <4>1, <4>3, Zenon DEF Good
    <3> QED
      BY <3>1, <3>2
  <2> HIDE DEF asked
  <2>9. due \in BOOLEAN /\ (due => asked.s.rtmp # <<>>)
    BY Zenon
  <2> HIDE DEF due
  <2>10. /\ sn \in Channel /\ sn.rtmp = asked.s.rtmp /\ sn.recv_due = due
         /\ sn.abort = asked.s.abort
    BY <2>8, <2>9, Parts, ZenonT(60) DEF Channel, Good
  <2> HIDE DEF sn
  <2>11. Good(n) /\ n.s = sn /\ n.d = asked.d /\ n.h = asked.h
    <3>1. Good(asked) /\ sn \in Channel
      BY <2>8, <2>10, Zenon
    <3>2. sn.rtmp = asked.s.rtmp /\ (sn.recv_due => asked.s.recv_due \/ sn.rtmp # <<>>)
      BY <2>9, <2>10, Zenon
    <3> QED
      BY <2>2, <3>1, <3>2, ChannelGood
  <2>12. ASSUME n.s.rtmp = <<>> PROVE Announced(n) \/ (m.h.nudges > 0 /\ n.h.early)
    <3>1. Announced(asked) \/ (m.h.nudges > 0 /\ n.h.early)
      BY <2>8, <2>10, <2>11, <2>12, Zenon
    <3>2. Announced(asked) => Announced(n)
      BY <2>10, <2>11, Zenon DEF Announced, AtHead, Silent
    <3> QED
      BY <3>1, <3>2
  <2> QED
    BY <2>11, <2>12
<1> QED
  BY <1>1, <1>2

-----------------------------------------------------------------------------
(* The steps.                                                               *)

\* A receiver that runs dry has been told why, or was told too early.
Told(m, n) ==
    m.s.rtmp # <<>> /\ n.s.rtmp = <<>> /\ n.s.rx
        => Announced(n) \/ (m.h.nudges > 0 /\ n.h.early)

\* A step after which the disk, the controller and the log are m.
LEMMA BecomesStep == ASSUME NEW m \in Machine, Becomes(m) PROVE M' = m
BY DEF M, Becomes, Machine

\* A command of the program or of the user is counted.
LEMMA CommandStep ==
    ASSUME NEW m, Good(m), Command(m)
    PROVE  Good(M') /\ M'.s = m.s
<1> DEFINE k == m.h.commands + 1
           h == [m.h EXCEPT !.commands = k]
           n == [m EXCEPT !.h = h]
<1>1. m \in Machine /\ m.h \in History /\ m.h.commands \in Nat
  BY Parts DEF Good, History
<1>2. k \in Nat
  BY <1>1
<1>3. Becomes(n)
  <2> [m EXCEPT !.h.commands = @ + 1] = n
    BY <1>1 DEF Machine, History
  <2> QED
    BY DEF Command
<1> HIDE DEF k
<1>4. h \in History /\ h.nudges = m.h.nudges /\ h.block = m.h.block /\ h.early = m.h.early
  BY <1>1, <1>2, ZenonT(60) DEF History
<1> HIDE DEF h
<1>5. n \in Machine /\ n.d = m.d /\ n.s = m.s /\ n.h = h
  BY <1>1, <1>4, Zenon DEF Machine
<1> HIDE DEF n
<1>6. M' = n
  BY <1>3, <1>5, BecomesStep
<1>7. Drawn(n)
  BY <1>4, <1>5, SamePen, Zenon DEF Good
<1> QED
  BY <1>4, <1>5, <1>6, <1>7, Zenon DEF Good, Stored, Asked

\* WR3
LEMMA WriteReceiveStep ==
    ASSUME Good(M), NEW rx \in BOOLEAN, NEW enter \in BOOLEAN, WriteReceive(rx, enter)
    PROVE  Good(M') /\ Told(M, M')
<1> DEFINE sh == [M.s EXCEPT !.hunt = SyncBits]
           x == [M EXCEPT !.s = sh]
           m == IF enter THEN SyncSignal(x) ELSE M
           s == [m.s EXCEPT !.rx = rx]
           n == [m EXCEPT !.s = s]
<1>1. M \in Machine /\ SyncBits \in SUBSET {1, 2}
  BY DEF Good, SyncBits
<1>2. Command(n)
  <2>1. Command([m EXCEPT !.s.rx = rx])
    BY DEF WriteReceive
  <2> QED
    BY <2>1
<1>3. sh \in Channel /\ sh.rtmp = M.s.rtmp /\ sh.recv_due = M.s.recv_due
  BY <1>1, Parts, ZenonT(60) DEF Channel
<1> HIDE DEF sh
<1>4. Good(x) /\ x.s = sh
  BY <1>3, ChannelGood
<1> HIDE DEF x
<1>5. Good(m) /\ (M.s.rtmp # <<>> => m.s.rtmp # <<>>)
  BY <1>3, <1>4, SyncStep
<1> HIDE DEF m
<1>6. s \in Channel /\ s.rtmp = m.s.rtmp /\ s.recv_due = m.s.recv_due
  BY <1>5, Parts, ZenonT(60) DEF Channel, Good
<1> HIDE DEF s
<1>7. Good(n) /\ n.s = s
  BY <1>5, <1>6, ChannelGood
<1> QED
  BY <1>2, <1>5, <1>6, <1>7, CommandStep DEF Told

\* WR5 of channel A
LEMMA WriteSendStep ==
    ASSUME Good(M), NEW tx \in BOOLEAN, NEW rts \in BOOLEAN, NEW break \in BOOLEAN,
           WriteSend(tx, rts, break)
    PROVE  Good(M') /\ Told(M, M')
<1> DEFINE gated == IF rts # sio.rts THEN GateSignal(M, ~rts) ELSE M
           m == IF break THEN BreakSignal(gated) ELSE gated
           s == [m.s EXCEPT !.send_due = tx, !.tx = tx, !.rts = rts]
           n == [m EXCEPT !.s = s]
<1>1. (~rts) \in BOOLEAN
  OBVIOUS
<1>2. Command([m EXCEPT !.s.send_due = tx, !.s.tx = tx, !.s.rts = rts])
  BY DEF WriteSend
<1>3. Good(gated) /\ gated.s = M.s
  BY <1>1, SenderGood
<1> HIDE DEF gated
<1>4. Good(m) /\ m.s = M.s
  BY <1>3, SenderGood
<1> HIDE DEF m
<1>5. Command(n)
  BY <1>2, <1>4 DEF Good, Machine, Channel
<1>6. s \in Channel /\ s.rtmp = m.s.rtmp /\ s.recv_due = m.s.recv_due
  BY <1>4, Parts, ZenonT(60) DEF Channel, Good
<1> HIDE DEF s
<1>7. Good(n) /\ n.s = s
  BY <1>4, <1>6, ChannelGood
<1> QED
  BY <1>4, <1>5, <1>6, <1>7, CommandStep DEF Told

\* WR5 of channel B
LEMMA WriteMotorStep ==
    ASSUME Good(M), NEW dtr \in BOOLEAN, WriteMotor(dtr)
    PROVE  Good(M') /\ Told(M, M')
<1> DEFINE m == IF dtr # sio.dtr THEN MotorSignal(M, ~dtr) ELSE M
           s == [m.s EXCEPT !.dtr = dtr]
           n == [m EXCEPT !.s = s]
<1>1. Command(n) /\ (~dtr) \in BOOLEAN
  <2>1. Command([m EXCEPT !.s.dtr = dtr])
    BY DEF WriteMotor
  <2> QED
    BY <2>1
<1>2. Good(m) /\ (M.s.rtmp # <<>> => m.s.rtmp # <<>>)
  BY <1>1, MotorStep
<1> HIDE DEF m
<1>3. s \in Channel /\ s.rtmp = m.s.rtmp /\ s.recv_due = m.s.recv_due
  BY <1>2, Parts, ZenonT(60) DEF Channel, Good
<1> HIDE DEF s
<1>4. Good(n) /\ n.s = s
  BY <1>2, <1>3, ChannelGood
<1> QED
  BY <1>1, <1>2, <1>3, <1>4, CommandStep DEF Told

\* The reset of channel A: nothing is left to receive.
LEMMA ResetSenderStep ==
    ASSUME Good(M), ResetSender
    PROVE  Good(M') /\ Told(M, M')
<1> DEFINE s == [M.s EXCEPT !.recv_due = FALSE, !.send_due = FALSE, !.send = <<>>,
                      !.shift = <<>>, !.recv = 0, !.rtmp = <<>>, !.rx = FALSE,
                      !.tx = FALSE, !.rts = FALSE]
           h == [M.h EXCEPT !.nudges = 0]
           n == [M EXCEPT !.s = s, !.h = h]
<1>1. M \in Machine /\ <<>> \in Seq(Bytes) /\ <<>> \in Seq(Chars) /\ 0 \in 0 .. RecvSize
      /\ 0 \in 0 .. RtmpSize /\ RtmpSize \in Nat
  BY SizeAssumption DEF Good
<1>2. Command(n)
  BY ZenonT(60) DEF ResetSender
<1>3. /\ s \in Channel /\ s.rtmp = <<>> /\ s.recv_due = FALSE /\ s.rx = FALSE
  BY <1>1, Parts, ZenonT(60) DEF Channel
<1>4. h \in History /\ h.nudges = 0 /\ h.block = M.h.block
  BY <1>1, Parts, ZenonT(60) DEF History
<1> HIDE DEF s, h
<1>5. n \in Machine /\ n.s = s /\ n.d = M.d /\ n.h = h
  BY <1>1, <1>3, <1>4, Zenon DEF Machine
<1> HIDE DEF n
<1>6. Drawn(n)
  BY <1>4, <1>5, SamePen, Zenon DEF Good
<1>7. Stored(n) /\ Asked(n)
  BY <1>1, <1>3, <1>4, <1>5 DEF Stored, Asked
<1>8. Good(n)
  BY <1>5, <1>6, <1>7, Zenon DEF Good
<1> QED
  BY <1>2, <1>3, <1>5, <1>8, CommandStep DEF Told

\* What the program does to the controller alone.
LEMMA ChannelStep ==
    ASSUME Good(M), ResetMotor \/ (\E b \in Bytes : WriteData(b)) \/ ReadData
    PROVE  Good(M') /\ Told(M, M')
<1>1. M \in Machine /\ M.s \in Channel /\ M.s.recv \in 0 .. RecvSize /\ sio = M.s
      /\ M.s.tx \in BOOLEAN /\ RecvSize \in Nat
  BY Parts, SizeAssumption DEF Good, M, Channel
<1>2. CASE ResetMotor
  <2> DEFINE s == [M.s EXCEPT !.dtr = FALSE]
             n == [M EXCEPT !.s = s]
  <2>1. Command(n)
    <3>1. Command([M EXCEPT !.s.dtr = FALSE])
      BY <1>2 DEF ResetMotor
    <3> QED
      BY <3>1
  <2>2. s \in Channel /\ s.rtmp = M.s.rtmp /\ s.recv_due = M.s.recv_due
    BY <1>1, ZenonT(60) DEF Channel
  <2> HIDE DEF s
  <2>3. Good(n) /\ n.s = s
    BY <2>2, ChannelGood
  <2> QED
    BY <2>1, <2>2, <2>3, CommandStep DEF Told
<1>3. CASE \E b \in Bytes : WriteData(b)
  <2>1. PICK b \in Bytes : WriteData(b)
    BY <1>3
  <2> DEFINE s == [M.s EXCEPT !.send_due = M.s.tx, !.send = <<b>>]
             n == [M EXCEPT !.s = s]
  <2>2. Command(n)
    <3>1. Command([M EXCEPT !.s.send_due = sio.tx, !.s.send = <<b>>])
      BY <2>1 DEF WriteData
    <3> QED
      BY <1>1, <3>1 DEF Machine, Channel
  <2>3. s \in Channel /\ s.rtmp = M.s.rtmp /\ s.recv_due = M.s.recv_due
    <3> <<b>> \in Seq(Bytes)
      OBVIOUS
    <3> QED
      BY <1>1, ZenonT(60) DEF Channel
  <2> HIDE DEF s
  <2>4. Good(n) /\ n.s = s
    BY <2>3, ChannelGood
  <2> QED
    BY <2>2, <2>3, <2>4, CommandStep DEF Told
<1>4. CASE ReadData
  <2> DEFINE recv == M.s.recv - 1
             s == [M.s EXCEPT !.recv = recv]
             n == [M EXCEPT !.s = s]
  <2>1. Becomes(n) /\ recv \in 0 .. RecvSize
    <3>1. Becomes([M EXCEPT !.s.recv = @ - 1]) /\ sio.recv > 0
      BY <1>4 DEF ReadData
    <3>2. [M EXCEPT !.s.recv = @ - 1] = n
      BY <1>1 DEF Machine, Channel
    <3> QED
      BY <1>1, <3>1, <3>2
  <2> HIDE DEF recv
  <2>2. s \in Channel /\ s.rtmp = M.s.rtmp /\ s.recv_due = M.s.recv_due
    BY <1>1, <2>1, ZenonT(60) DEF Channel
  <2> HIDE DEF s
  <2>3. Good(n) /\ n.s = s
    BY <2>2, ChannelGood
  <2>4. M' = n
    BY <2>1, <2>3, BecomesStep DEF Good
  <2> QED
    BY <2>2, <2>3, <2>4 DEF Told
<1> QED
  BY <1>2, <1>3, <1>4

\* restore(): the head is at the start of the track, and asks for a byte.
LEMMA RestoreStep ==
    ASSUME Good(M), EventRestore
    PROVE  Good(M') /\ Told(M, M')
<1> DEFINE d == [M.d EXCEPT !.restore = FALSE, !.home = FALSE, !.buffer_ptr = 0,
                            !.first_data = TRUE, !.send_break = TRUE]
           m == [M EXCEPT !.d = d]
           n == SendData(Nudged(m))
<1>1. M \in Machine /\ M.d \in Drive /\ 0 \in Nat /\ 0 <= Size
  BY Parts, SizeAssumption DEF Good
<1>2. Becomes(n)
  BY DEF EventRestore
<1>3. /\ d \in Drive /\ d.buffer = M.d.buffer /\ d.write_ptr = M.d.write_ptr
      /\ d.wrga = M.d.wrga /\ d.first_data = TRUE /\ d.send_break = TRUE
      /\ d.buffer_ptr = 0 /\ d.insert = M.d.insert
  BY <1>1, ZenonT(60) DEF Drive
<1>4. m = [M EXCEPT !.d = d]
  OBVIOUS
<1> HIDE DEF d, m
<1>5. m \in Machine /\ m.d = d /\ m.s = M.s /\ m.h = M.h
  BY <1>1, <1>3, <1>4, NewDrive
<1>6. Drawn(m)
  <2>1. Shown(M) /\ Writing(M) /\ Ended(M) /\ Within(M)
    BY Zenon DEF Good, Drawn
  <2>2. Shown(m)
    <3> m.d.buffer = M.d.buffer /\ m.h = M.h
      BY <1>3, <1>5, Zenon
    <3> QED
      BY <2>1, Zenon DEF Shown
  <2>3. Writing(m)
    BY <1>3, <1>5, <2>1, Zenon DEF Writing
  <2>4. Ended(m)
    BY <1>3, <1>5, <2>1, Zenon DEF Ended
  <2>5. Within(m)
    BY <1>1, <1>3, <1>5, <2>1, Zenon DEF Within
  <2> QED
    BY <2>2, <2>3, <2>4, <2>5, Zenon DEF Drawn
<1>7. Good(m)
  BY <1>3, <1>5, <1>6, Zenon DEF Good, Stored, Asked
<1>8. Good(n) /\ (m.s.rtmp # <<>> => n.s.rtmp # <<>>)
  BY <1>7, NudgedSend
<1> HIDE DEF n
<1>9. M' = n
  BY <1>2, <1>8, BecomesStep DEF Good
<1> QED
  BY <1>5, <1>8, <1>9, Zenon DEF Told

\* The end of the disk is reached.
LEMMA EndStep ==
    ASSUME Good(M), EventEnd
    PROVE  Good(M') /\ Told(M, M')
<1> DEFINE c == CancelEnd(M)  n == EndOfDisk(c)
<1>1. Good(c) /\ c.s = M.s
  BY EndGood
<1>2. Becomes(n)
  BY DEF EventEnd
<1> HIDE DEF c
<1>3. n \in Machine /\ Apart(c, n) /\ Drawn(n) /\ n.d.write_ptr = 0
  BY <1>1, EndOfDiskStep DEF Good
<1> HIDE DEF n
<1>4. n.d.write_ptr < Size /\ c \in Machine
  BY <1>1, <1>3, SizeAssumption DEF Good
<1>5. Good(n) /\ n.s.rtmp = c.s.rtmp
  BY <1>1, <1>3, <1>4, ApartGood, Zenon
<1>6. M' = n
  BY <1>2, <1>3, BecomesStep
<1> QED
  BY <1>1, <1>5, <1>6, Zenon DEF Told

\* Another disk, and no block of it.
LEMMA ChangeGood ==
    ASSUME NEW m, Good(m), NEW d \in Drive, NEW n, Becoming(m, d, NoBlock, n),
           d.write_ptr = m.d.write_ptr, d.send_break = m.d.send_break,
           d.insert => d.buffer_ptr <= Size
    PROVE  Good(n) /\ n.s = m.s /\ n.d = d
<1>1. m \in Machine
  BY DEF Good
<1>2. Became(m, d, NoBlock, n)
  BY <1>1, NewBlock, NoBlockType
<1>3. /\ n \in Machine /\ n.d = d /\ n.s = m.s
      /\ n.h.block = NoBlock /\ n.h.nudges = m.h.nudges /\ n.h.early = m.h.early
  BY <1>2, Zenon DEF Became
<1>4. m.d.write_ptr <= Size
  <2> m.d.write_ptr \in Nat /\ m.d.write_ptr < Size /\ Size \in Nat
    BY <1>1, Parts, SizeAssumption DEF Good
  <2> QED
    OBVIOUS
<1>5. Drawn(n)
  BY <1>3, <1>4, NoBlockType, Zenon DEF Drawn, Shown, Writing, Ended, Within
<1> QED
  BY <1>3, <1>5, Zenon DEF Good, Stored, Asked

\* close_disk()
LEMMA ClosedGood ==
    ASSUME NEW m, Good(m), NEW n \in Closed(m)
    PROVE  Good(n) /\ n.s = m.s
<1> DEFINE c == CancelEnd(m)
<1>1. PICK p \in {m.d.buffer_ptr} \cup (IF m.d.modified THEN 0 .. Walk ELSE {}) :
          n = [c EXCEPT !.d.insert = FALSE, !.d.home = TRUE, !.d.restore = FALSE,
                        !.d.buffer_ptr = p, !.h.block = NoBlock]
  BY DEF Closed
<1>2. p \in Nat
  <2>1. m.d.buffer_ptr \in Nat /\ Walk \in Nat
    BY Parts, SizeAssumption DEF Good
  <2> QED
    BY <1>1, <2>1
<1>3. Good(c) /\ c.s = m.s
  BY EndGood
<1> HIDE DEF c
<1> DEFINE d == [c.d EXCEPT !.insert = FALSE, !.home = TRUE, !.restore = FALSE, !.buffer_ptr = p]
<1>4. Becoming(c, d, NoBlock, n)
  BY <1>1, <1>3 DEF Becoming, Good, Machine, Drive, History
<1>5. d \in Drive /\ d.write_ptr = c.d.write_ptr /\ d.send_break = c.d.send_break /\ ~d.insert
  BY <1>2, <1>3, Parts, ZenonT(60) DEF Drive, Good
<1> HIDE DEF d
<1>6. Good(n) /\ n.s = c.s
  BY <1>3, <1>4, <1>5, ChangeGood
<1> QED
  BY <1>3, <1>6, Zenon

\* The user removes the disk ...
LEMMA CloseStep ==
    ASSUME Good(M), CloseDisk
    PROVE  Good(M') /\ Told(M, M')
<1>1. PICK n \in Closed(M) : Command(n)
  BY DEF CloseDisk
<1>2. Good(n) /\ n.s = M.s
  BY <1>1, ClosedGood
<1> QED
  BY <1>1, <1>2, CommandStep DEF Told

\* The tracks that are ever in the drive.
LEMMA TrackTypes == Zeros \in [Track -> Chars] /\ \A image \in Images : image \in [Track -> Chars]
BY ImageAssumption DEF Zeros, Chars

\* open_disk()
LEMMA InsertedType ==
    ASSUME NEW d \in Drive, NEW image \in Images, NEW e, e = Inserted(d, image)
    PROVE  /\ e \in Drive /\ e.write_ptr = d.write_ptr /\ e.send_break = d.send_break
           /\ e.buffer_ptr <= Size
<1> DEFINE p == EndOfImage(image)
<1>1. e = [d EXCEPT !.insert = TRUE, !.modified = FALSE, !.buffer = image,
                    !.buffer_ptr = p, !.home = TRUE]
  BY DEF Inserted
<1>2. p \in 0 .. Size /\ image \in [Track -> Chars]
  BY EndOfImageType, TrackTypes
<1>3. p \in Nat /\ p <= Size
  BY <1>2, SizeAssumption
<1> HIDE DEF p
<1> QED
  BY <1>1, <1>2, <1>3, ZenonT(60) DEF Drive

\* ... or inserts one.
LEMMA OpenStep ==
    ASSUME Good(M), OpenDisk
    PROVE  Good(M') /\ Told(M, M')
<1>1. PICK m \in IF drive.insert THEN Closed(M) ELSE {M} :
          \/ \E image \in Images :
                 Command([m EXCEPT !.d = Inserted(@, image), !.h.block = NoBlock])
          \/ Command([m EXCEPT !.d.buffer = Zeros, !.h.block = NoBlock])
  BY DEF OpenDisk
<1>2. Good(m) /\ m.s = M.s
  BY ClosedGood
<1>3. m \in Machine /\ m.d \in Drive
  BY <1>2, Parts DEF Good
<1>4. ASSUME NEW d \in Drive, d.write_ptr = m.d.write_ptr, d.send_break = m.d.send_break,
             d.insert => d.buffer_ptr <= Size, NEW n, Becoming(m, d, NoBlock, n), Command(n)
      PROVE  Good(M') /\ Told(M, M')
  <2>1. Good(n) /\ n.s = m.s
    BY <1>2, <1>4, ChangeGood
  <2> QED
    BY <1>2, <1>4, <2>1, CommandStep DEF Told
<1>5. ASSUME NEW image \in Images, Command([m EXCEPT !.d = Inserted(@, image), !.h.block = NoBlock])
      PROVE  Good(M') /\ Told(M, M')
  <2> DEFINE d == Inserted(m.d, image)
             n == [m EXCEPT !.d = d, !.h = [m.h EXCEPT !.block = NoBlock]]
  <2>1. d \in Drive /\ d.write_ptr = m.d.write_ptr /\ d.send_break = m.d.send_break
        /\ d.buffer_ptr <= Size
    BY <1>3, InsertedType
  <2>2. [m EXCEPT !.d = Inserted(@, image), !.h.block = NoBlock]
            = [m EXCEPT !.d = d, !.h.block = NoBlock]
    <3> HIDE DEF d
    <3> m.d = m.d
      OBVIOUS
    <3> QED
      BY DEF d
  <2> HIDE DEF d
  <2>3. Command(n)
    <3> [m EXCEPT !.d = d, !.h.block = NoBlock] = n
      BY <1>3 DEF Machine, History
    <3> QED
      BY <1>5, <2>2
  <2> QED
    BY <1>4, <2>1, <2>3 DEF Becoming
<1>6. ASSUME Command([m EXCEPT !.d.buffer = Zeros, !.h.block = NoBlock])
      PROVE  Good(M') /\ Told(M, M')
  <2> DEFINE d == [m.d EXCEPT !.buffer = Zeros]
             n == [m EXCEPT !.d = d, !.h = [m.h EXCEPT !.block = NoBlock]]
  <2>1. d \in Drive /\ d.write_ptr = m.d.write_ptr /\ d.send_break = m.d.send_break
        /\ d.insert = m.d.insert /\ d.buffer_ptr = m.d.buffer_ptr
    BY <1>3, TrackTypes, ZenonT(60) DEF Drive
  <2>3. d.insert => d.buffer_ptr <= Size
    BY <1>2, <2>1, HeadWithin, Zenon DEF Good
  <2>2. Command(n)
    <3> [m EXCEPT !.d.buffer = Zeros, !.h.block = NoBlock] = n
      BY <1>3 DEF Machine, Drive, History
    <3> QED
      BY <1>6
  <2> HIDE DEF d
  <2> QED
    BY <1>4, <2>1, <2>2, <2>3 DEF Becoming
<1> QED
  BY <1>1, <1>5, <1>6

\* The receiver and the sender call back.
LEMMA ChannelEvents ==
    ASSUME Good(M), EventRecv \/ EventSend
    PROVE  Good(M') /\ Told(M, M')
<1>1. CASE EventRecv
  <2> DEFINE n == RecvEvent(M)
  <2>1. Becomes(n) /\ M.s.recv_due
    BY <1>1 DEF EventRecv, M
  <2>2. Good(n) /\ (n.s.rtmp = <<>> => Announced(n) \/ (M.h.nudges > 0 /\ n.h.early))
    BY <2>1, RecvStep
  <2> HIDE DEF n
  <2>3. M' = n
    BY <2>1, <2>2, BecomesStep DEF Good
  <2> QED
    BY <2>2, <2>3, Zenon DEF Told
<1>2. CASE EventSend
  <2> DEFINE n == SendEvent(M)
  <2>1. Becomes(n)
    BY <1>2 DEF EventSend
  <2>2. Good(n) /\ n.s.rtmp = M.s.rtmp
    BY SendEventStep
  <2> HIDE DEF n
  <2>3. M' = n
    BY <2>1, <2>2, BecomesStep DEF Good
  <2> QED
    BY <2>2, <2>3, Zenon DEF Told
<1> QED
  BY <1>1, <1>2

-----------------------------------------------------------------------------
(* The invariant and what follows from it.                                  *)

\* The inductive invariant.
IInv == Good(M)

\* It holds at the start.
LEMMA InitIInv == Init => IInv
<1> SUFFICES ASSUME Init PROVE Good(M)
  BY DEF IInv
<1>1. Size \in Nat \ {0} /\ RtmpSize \in Nat \ {0} /\ RecvSize \in Nat \ {0}
  BY SizeAssumption
<1>2. NoDisk \in Drive /\ NoDisk.write_ptr = 0 /\ NoDisk.send_break = TRUE
  BY <1>1, TrackTypes DEF NoDisk, Drive
<1>3. /\ drive \in Drive /\ drive.write_ptr = 0 /\ drive.send_break = TRUE
      /\ drive.insert => drive.buffer_ptr <= Size
  <2>1. CASE drive = NoDisk
    BY <1>2, <2>1 DEF NoDisk
  <2>2. CASE \E image \in Images : drive = Inserted(NoDisk, image)
    BY <1>2, <2>2, InsertedType
  <2> QED
    BY <2>1, <2>2 DEF Init
<1>4. /\ sio \in Channel /\ sio.rtmp = <<>> /\ sio.recv_due = FALSE
  <2> 0 \in 0 .. RecvSize /\ {} \in SUBSET {1, 2} /\ <<>> \in Seq(Chars) /\ <<>> \in Seq(Bytes)
    BY <1>1
  <2> QED
    BY DEF Init, Channel
<1>5. log \in History /\ log.nudges = 0 /\ log.block = NoBlock /\ log.early = FALSE
  <2> 0 \in 0 .. RtmpSize /\ 0 \in Nat
    BY <1>1
  <2> QED
    BY NoBlockType DEF Init, History
<1>6. M \in Machine /\ M.d = drive /\ M.s = sio /\ M.h = log
  BY <1>3, <1>4, <1>5 DEF M, Machine
<1>7. Drawn(M)
  <2> 0 <= Size
    BY <1>1
  <2> QED
    BY <1>3, <1>5, <1>6, NoBlockType, Zenon DEF Drawn, Shown, Writing, Ended, Within
<1>8. Stored(M) /\ Asked(M)
  BY <1>1, <1>4, <1>5, <1>6 DEF Stored, Asked
<1> QED
  BY <1>1, <1>3, <1>6, <1>7, <1>8 DEF Good

\* Every step keeps the invariant, and tells a receiver that runs dry why.
LEMMA NextIInv ==
    ASSUME IInv, [Next]_vars
    PROVE  IInv' /\ (Told(M, M') \/ UNCHANGED vars)
<1>1. Good(M)
  BY DEF IInv
<1>2. CASE Program
  <2>1. CASE \E rx, enter \in BOOLEAN : WriteReceive(rx, enter)
    BY <1>1, <2>1, WriteReceiveStep DEF IInv
  <2>2. CASE \E tx, rts, break \in BOOLEAN : WriteSend(tx, rts, break)
    BY <1>1, <2>2, WriteSendStep DEF IInv
  <2>3. CASE \E dtr \in BOOLEAN : WriteMotor(dtr)
    BY <1>1, <2>3, WriteMotorStep DEF IInv
  <2>4. CASE ResetSender
    BY <1>1, <2>4, ResetSenderStep DEF IInv
  <2>5. CASE ResetMotor \/ (\E b \in Bytes : WriteData(b)) \/ ReadData
    BY <1>1, <2>5, ChannelStep DEF IInv
  <2> QED
    BY <1>2, <2>1, <2>2, <2>3, <2>4, <2>5 DEF Program
<1>3. CASE EventRecv \/ EventSend
  BY <1>1, <1>3, ChannelEvents DEF IInv
<1>4. CASE EventRestore
  BY <1>1, <1>4, RestoreStep DEF IInv
<1>5. CASE EventEnd
  BY <1>1, <1>5, EndStep DEF IInv
<1>6. CASE CloseDisk
  BY <1>1, <1>6, CloseStep DEF IInv
<1>7. CASE OpenDisk
  BY <1>1, <1>7, OpenStep DEF IInv
<1>8. CASE UNCHANGED vars
  <2>1. M' = M
    BY <1>8 DEF vars, M
  <2> QED
    BY <1>1, <1>8, <2>1 DEF IInv
<1> QED
  BY <1>2, <1>3, <1>4, <1>5, <1>6, <1>7, <1>8 DEF Next

\* What a step may not do: leave a receiver dry at a break that is not announced, unless
\* the announcement came too early.
LEMMA StepAnnounces ==
    ASSUME IInv, [Next]_vars
    PROVE  [RunsDry /\ AtBreak' /\ ~Silent(M)' /\ ~drive'.sync
               => sio'.abort \/ ToldEarly]_vars
<1>1. CASE UNCHANGED vars
  BY <1>1
<1>2. CASE Told(M, M')
  <2>1. /\ M.h = log /\ M.s = sio
        /\ (M').d = drive' /\ (M').s = sio' /\ (M').h = log'
    BY DEF M
  <2> SUFFICES ASSUME RunsDry, AtBreak', ~Silent(M)', ~drive'.sync, ~ToldEarly
               PROVE  sio'.abort
    OBVIOUS
  <2>2. Announced(M')
    BY <1>2, <2>1 DEF Told, RunsDry, ToldEarly
  <2>3. AtHead(M') /\ ~Silent(M') /\ ~(M').d.sync /\ (M').s.rtmp = <<>>
    BY <2>1 DEF AtHead, AtBreak, RunsDry, Silent
  <2> QED
    BY <2>1, <2>2, <2>3 DEF Announced
<1> QED
  BY <1>1, <1>2, NextIInv

\* The invariant holds in every state.
LEMMA Invariant == Spec => []IInv
<1>1. IInv /\ [Next]_vars => IInv'
  BY NextIInv
<1> QED
  BY InitIInv, <1>1, PTL DEF Spec

\* What the registers of the drive and of the controller can hold: rtmp no more
\* than its entries, and write_ptr a place of the buffer.
TypeInv ==
    /\ drive \in Drive /\ sio \in Channel /\ log \in History
    /\ Len(sio.rtmp) <= RtmpSize /\ drive.write_ptr < Size
    /\ drive.insert => drive.buffer_ptr <= Size

\* Whatever the program writes, whenever events are called back and disks are
\* changed: both queues of the receiver stay within their FIFOs, no block is left to
\* be ended behind the buffer, and while a disk is in the drive the head is in the
\* buffer or just behind it.  Without a disk it may be far behind: release_disk()
\* follows sizes it finds on the track and checks none of them (quickdisk.cpp:740).
THEOREM TypeCorrect == Spec => []TypeInv
<1>1. IInv => TypeInv
  BY DEF IInv, Good, Drawn, Within, Stored, TypeInv, M, Machine
<1> QED
  BY Invariant, <1>1, PTL

\* The drive sends only when it is asked to (Z80SIO::event_callback, RXDONE): the
\* bytes that wait in rtmp are one, and one more for every nudge since it was empty.
THEOREM BytesAwaited == Spec => []InFlight
<1>1. IInv => InFlight
  BY DEF IInv, Good, Asked, InFlight, M
<1> QED
  BY Invariant, <1>1, PTL

\* A block lies on the track between its sync characters and its trailer, wherever
\* the head was and whatever ended it (QUICKDISK::write_crc and its callers).
THEOREM BlocksFramed == Spec => []BlockFramed
<1>1. IInv => BlockFramed
  BY Zenon DEF IInv, Good, Drawn, Shown, BlockFramed, M
<1> QED
  BY Invariant, <1>1, PTL

\* When the receiver runs dry at a break, break/abort is set (QUICKDISK::send_data),
\* unless a nudge made the drive announce the break while a byte still waited: taking
\* that byte has cleared break/abort (z80sio.cpp:669-671), and the break is not
\* announced again.
THEOREM BreaksAnnounced == Spec => BreakAnnounced
<1>1. IInv /\ [Next]_vars
          => [RunsDry /\ AtBreak' /\ ~Silent(M)' /\ ~drive'.sync
                 => sio'.abort \/ ToldEarly]_vars
  BY StepAnnounces
<1> QED
  BY Invariant, <1>1, PTL DEF Spec, BreakAnnounced
=============================================================================
