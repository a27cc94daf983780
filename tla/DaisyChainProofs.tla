-------------------------- MODULE DaisyChainProofs --------------------------
(***************************************************************************)
(* Proof that interrupts nest by priority, that handlers of the timer do   *)
(* not pile up, that the CPU's bits say which devices ask and that an      *)
(* acknowledge names its cause, for every chain of devices and every       *)
(* program that keeps the discipline of DaisyChain.                        *)
(***************************************************************************)
EXTENDS DaisyChain, WellFoundedInduction, TLAPS

Frames == Slots \cup {Plain}
Serving(s) == port[s].in_service

\* What the proof needs of the types.
Shapes ==
    /\ DOMAIN port = Slots
    /\ \A s \in Slots : "in_service" \in DOMAIN port[s] /\ port[s].in_service \in BOOLEAN
    /\ DOMAIN cpu = {"irq", "iff1", "after_ei"}
    /\ cpu.iff1 \in BOOLEAN /\ cpu.after_ei \in BOOLEAN
    /\ stack \in Seq(Frames)

\* A handler that returns with RET runs without interrupts until its EI, whose
\* effect waits for the RET.
PlainIsAlone == stack # <<>> /\ Top = Plain /\ cpu.iff1 => cpu.after_ei

IInv == Shapes /\ ServicesNest /\ PlainOnTop /\ PlainIsAlone
-----------------------------------------------------------------------------
(* Positions and slots. *)

\* Every set of positions has a first one.
LEMMA LeastOfNat ==
    ASSUME NEW T, T \subseteq Nat, T # {}
    PROVE  \E x \in T : \A y \in T : x <= y
<1> DEFINE R == OpToRel(<, Nat)
<1>1. IsWellFoundedOn(R, Nat)
  BY NatLessThanWellFounded
<1>2. \A x, y \in Nat : <<x, y>> \in R <=> x < y
  BY DEF OpToRel
<1> HIDE DEF R
<1>3. PICK x \in T : \A y \in T : ~(<<y, x>> \in R)
  BY <1>1, WFMin, Zenon
<1>4. \A y \in T : ~(y < x)
  BY <1>2, <1>3, Zenon
<1> QED
  BY <1>4

LEMMA PositionsAreNat == Pos \subseteq Nat \ {0} /\ Plain \notin Slots
<1>1. Len(Chain) \in Nat
  BY ChainAssumption
<1> QED
  BY <1>1 DEF Pos, Slots, Plain

LEMMA SlotIsPair ==
    \A s \in Slots : s = <<s[1], s[2]>> /\ s[1] \in Nat /\ s[2] \in {0, 1}
<1>1. \A A, B : \A s \in A \X B : s = <<s[1], s[2]>> /\ s[1] \in A /\ s[2] \in B
  OBVIOUS
<1>2. \A s \in Slots : s = <<s[1], s[2]>> /\ s[1] \in Pos /\ s[2] \in Channel
  BY <1>1 DEF Slots
<1>3. \A n \in Channel : n \in {0, 1}
  BY DEF Channel
<1> QED
  BY <1>2, <1>3, PositionsAreNat

\* Before is a strict total order of the slots.
LEMMA BeforeIsOrder ==
    /\ \A s, t \in Slots : Before(s, t) => ~Before(t, s)
    /\ \A s, t \in Slots : s = t \/ Before(s, t) \/ Before(t, s)
    /\ \A s \in Slots : ~Before(s, s)
BY SlotIsPair DEF Before

\* Among slots, CHOOSE in First finds the one of highest priority.
LEMMA FirstIsFirst ==
    ASSUME NEW slots, slots \subseteq Slots, slots # {}
    PROVE  First(slots) \in slots /\ \A t \in slots \ {First(slots)} : Before(First(slots), t)
<1> DEFINE firsts == {s[1] : s \in slots}
<1>1. firsts \subseteq Nat /\ firsts # {}
  BY SlotIsPair
<1>2. PICK i \in firsts : \A j \in firsts : i <= j
  BY <1>1, LeastOfNat
<1>3. \A t \in slots : t[1] \in Nat /\ i <= t[1] /\ t = <<t[1], t[2]>> /\ t[2] \in {0, 1}
  BY <1>2, SlotIsPair
<1>4. i \in Nat /\ \E s \in slots : s[1] = i
  BY <1>1, <1>2
<1> HIDE DEF firsts
<1>5. \E s \in slots : \A t \in slots \ {s} : Before(s, t)
  <2>1. CASE <<i, 0>> \in slots
    <3>1. \A t \in slots \ {<<i, 0>>} : t[1] > i \/ t[2] > 0
      BY <1>3, <1>4
    <3> QED
      BY <1>3, <1>4, <2>1, <3>1 DEF Before
  <2>2. CASE <<i, 0>> \notin slots
    <3>1. PICK s \in slots : s[1] = i
      BY <1>4
    <3>2. s[2] = 1
      BY <1>3, <2>2, <3>1
    <3>3. \A t \in slots : t[1] = i => t[2] = 1
      BY <1>3, <2>2
    <3> QED
      BY <1>3, <1>4, <3>1, <3>2, <3>3 DEF Before
  <2> QED
    BY <2>1, <2>2
<1> QED
  BY <1>5 DEF First
-----------------------------------------------------------------------------
(* Sequences. *)

LEMMA AppendedStack ==
    ASSUME NEW S, NEW q \in Seq(S), NEW x \in S
    PROVE  /\ Append(q, x) \in Seq(S) /\ Len(Append(q, x)) = Len(q) + 1 /\ Len(q) \in Nat
           /\ \A k \in 1 .. Len(q) : Append(q, x)[k] = q[k]
           /\ Append(q, x)[Len(q) + 1] = x
OBVIOUS

LEMMA FrontOfStack ==
    ASSUME NEW S, NEW q \in Seq(S), q # <<>>
    PROVE  /\ Front(q) \in Seq(S) /\ Len(Front(q)) = Len(q) - 1 /\ Len(q) \in Nat \ {0}
           /\ \A k \in 1 .. Len(q) - 1 : Front(q)[k] = q[k]
           /\ Last(q) = q[Len(q)] /\ Last(q) \in S
           /\ q = <<>> <=> Len(q) = 0
<1>1. Len(q) \in Nat \ {0} /\ Last(q) = q[Len(q)] /\ q[Len(q)] \in S
  BY DEF Last
<1>2. Front(q) = [k \in 1 .. Len(q) - 1 |-> q[k]]
  BY <1>1 DEF Front
<1>3. Front(q) \in Seq(S) /\ Len(Front(q)) = Len(q) - 1
  BY <1>1, <1>2
<1>4. \A k \in 1 .. Len(q) - 1 : Front(q)[k] = q[k]
  BY <1>2
<1> QED
  BY <1>1, <1>3, <1>4
-----------------------------------------------------------------------------
(* What the steps do to the channels in service. *)

\* No update of signals changes a port.
LEMMA SignalsLeavePorts ==
    /\ \A m, i : "port" \in DOMAIN m => UpdateIntr(m, i).port = m.port
    /\ \A m, q : UpdateAll(m, q).port = m.port
    /\ \A in : GateChanged(M, in).port = port
    /\ M.port = port
BY DEF UpdateIntr, UpdateAll, GateChanged, M

\* The channel s of a device now has p.
LEMMA PortSet ==
    ASSUME NEW s, NEW p, NEW b
    PROVE  /\ Set(s, p).port = [port EXCEPT ![s] = p]
           /\ Update(s, p).port = [port EXCEPT ![s] = p]
           /\ UpdateIf(b, s, p).port = [port EXCEPT ![s] = p]
<1>1. Set(s, p).port = [port EXCEPT ![s] = p] /\ "port" \in DOMAIN Set(s, p)
  BY DEF Set, M
<1>2. Update(s, p).port = [port EXCEPT ![s] = p]
  BY <1>1, SignalsLeavePorts DEF Update
<1> QED
  BY <1>1, <1>2 DEF UpdateIf

\* A step that keeps the stack and who is in service, and only turns interrupts
\* on together with the delay, keeps the invariant.
LEMMA Quiet ==
    ASSUME IInv, stack' = stack,
           DOMAIN port' = Slots,
           \A s \in Slots : /\ "in_service" \in DOMAIN port'[s]
                            /\ port'[s].in_service = port[s].in_service,
           DOMAIN cpu' = {"irq", "iff1", "after_ei"},
           cpu'.iff1 \in BOOLEAN, cpu'.after_ei \in BOOLEAN,
           stack # <<>> /\ Top = Plain /\ cpu'.iff1 => cpu'.after_ei
    PROVE  IInv'
<1>1. Shapes'
  BY DEF IInv, Shapes
<1>2. ServicesNest'
  BY DEF IInv, ServicesNest
<1>3. PlainOnTop' /\ PlainIsAlone'
  BY DEF IInv, PlainOnTop, PlainIsAlone, Top
<1> QED
  BY <1>1, <1>2, <1>3 DEF IInv

\* One channel gets a new record that is as much in service as the old one.
LEMMA SameService ==
    ASSUME IInv, NEW s \in Slots, NEW p, "in_service" \in DOMAIN p,
           p.in_service = port[s].in_service, port' = [port EXCEPT ![s] = p]
    PROVE  /\ DOMAIN port' = Slots
           /\ \A t \in Slots : /\ "in_service" \in DOMAIN port'[t]
                               /\ port'[t].in_service = port[t].in_service
BY DEF IInv, Shapes

\* An instruction other than EI and a return.
LEMMA Instruction ==
    ASSUME IInv, NEW m, Executes, Executed(m), stack' = stack,
           DOMAIN m.port = Slots,
           \A s \in Slots : /\ "in_service" \in DOMAIN m.port[s]
                            /\ m.port[s].in_service = port[s].in_service
    PROVE  IInv'
<1>1. /\ port' = m.port /\ DOMAIN cpu' = {"irq", "iff1", "after_ei"}
      /\ cpu'.iff1 = cpu.iff1 /\ cpu'.after_ei = FALSE
      /\ cpu.iff1 \in BOOLEAN
  BY DEF IInv, Shapes, Executed
<1>2. ~(stack # <<>> /\ Top = Plain /\ cpu'.iff1)
  BY <1>1 DEF IInv, PlainIsAlone, Executes
<1> QED
  BY <1>1, <1>2, Quiet

\* A device that is called in between.
LEMMA DeviceCalled ==
    ASSUME IInv, NEW m, Becomes(m), stack' = stack,
           DOMAIN m.port = Slots,
           \A s \in Slots : /\ "in_service" \in DOMAIN m.port[s]
                            /\ m.port[s].in_service = port[s].in_service
    PROVE  IInv'
<1>1. /\ port' = m.port /\ DOMAIN cpu' = {"irq", "iff1", "after_ei"}
      /\ cpu'.iff1 = cpu.iff1 /\ cpu'.after_ei = cpu.after_ei
      /\ cpu.iff1 \in BOOLEAN /\ cpu.after_ei \in BOOLEAN
  BY DEF IInv, Shapes, Becomes
<1>2. stack # <<>> /\ Top = Plain /\ cpu'.iff1 => cpu'.after_ei
  BY <1>1 DEF IInv, PlainIsAlone
<1> QED
  BY <1>1, <1>2, Quiet
-----------------------------------------------------------------------------
(* The handlers. *)

\* After a reset no channel is in service.
LEMMA ResetEndsServices ==
    ASSUME NEW w, "port" \in DOMAIN w
    PROVE  /\ DOMAIN StrobedAtReset(Resetted(w)).port = Slots
           /\ \A s \in Slots :
                 /\ "in_service" \in DOMAIN StrobedAtReset(Resetted(w)).port[s]
                 /\ StrobedAtReset(Resetted(w)).port[s].in_service = FALSE
<1>1. /\ "port" \in DOMAIN Resetted(w)
      /\ Resetted(w).port = [s \in Slots |-> IF IsPio(s[1]) THEN Pio ELSE Sio]
  BY DEF Resetted
<1>2. /\ DOMAIN Resetted(w).port = Slots
      /\ \A s \in Slots : /\ "in_service" \in DOMAIN Resetted(w).port[s]
                          /\ Resetted(w).port[s].in_service = FALSE
  BY <1>1 DEF Pio, Sio
<1>3. CASE IsPio(1)
  <2> DEFINE m == [Resetted(w) EXCEPT !.port[<<1, 0>>].req = TRUE]
  <2>1. "port" \in DOMAIN m /\ m.port = [Resetted(w).port EXCEPT ![<<1, 0>>].req = TRUE]
    BY <1>1
  <2>2. StrobedAtReset(Resetted(w)).port = m.port
    BY <1>3, <2>1, SignalsLeavePorts DEF StrobedAtReset
  <2> QED
    BY <1>2, <2>1, <2>2
<1>4. CASE ~IsPio(1)
  BY <1>2, <1>4 DEF StrobedAtReset
<1> QED
  BY <1>3, <1>4

LEMMA InitIInv == Init => IInv
<1> SUFFICES ASSUME Init PROVE IInv
  OBVIOUS
<1>1. /\ DOMAIN port = Slots
      /\ \A s \in Slots : "in_service" \in DOMAIN port[s] /\ port[s].in_service = FALSE
  BY ResetEndsServices DEF Init, Blank
<1>2. /\ DOMAIN cpu = {"irq", "iff1", "after_ei"} /\ cpu.iff1 = FALSE /\ cpu.after_ei = FALSE
      /\ stack = <<>> /\ stack \in Seq(Frames)
  BY DEF Init
<1>3. Shapes
  BY <1>1, <1>2 DEF Shapes
<1>4. ServicesNest
  BY <1>1, <1>2 DEF ServicesNest
<1> QED
  BY <1>2, <1>3, <1>4 DEF IInv, PlainOnTop, PlainIsAlone

\* An acknowledge is answered by a channel that precedes all in service, or
\* by nobody.
LEMMA AnswersBefore ==
    ASSUME IInv
    PROVE  \/ Answers(M) = Plain /\ GetIntrAck(M).port = port
           \/ /\ Answers(M) \in Slots
              /\ \A t \in Slots : port[t].in_service => Before(Answers(M), t)
              /\ DOMAIN GetIntrAck(M).port = Slots
              /\ \A t \in Slots :
                    /\ "in_service" \in DOMAIN GetIntrAck(M).port[t]
                    /\ GetIntrAck(M).port[t].in_service =
                          (t = Answers(M) \/ port[t].in_service)
<1>1. CASE Answers(M) = Plain
  BY <1>1, SignalsLeavePorts DEF GetIntrAck
<1>2. CASE Answers(M) # Plain
  <2> DEFINE s == Answers(M)
             p == Taken(port[s], IsPio(s[1]))
  <2>1. Answering(M) # {} /\ s = First(Answering(M)) /\ ~port[s].in_service
    BY <1>2, SignalsLeavePorts DEF Answers
  <2>2. Answering(M) \subseteq Slots
    BY DEF Answering
  <2>3. s \in Slots /\ \A t \in Answering(M) \ {s} : Before(s, t)
    BY <2>1, <2>2, FirstIsFirst
  <2>4. \A t \in Slots : port[t].in_service => t \in Answering(M) /\ t # s
    BY <2>1, SignalsLeavePorts DEF Answering
  <2>5. GetIntrAck(M).port = [port EXCEPT ![s] = p]
    <3> DEFINE m == [M EXCEPT !.port[s] = p]
    <3>1. "port" \in DOMAIN m /\ m.port = [port EXCEPT ![s] = p]
      BY DEF M
    <3>2. GetIntrAck(M) = UpdateIntr(m, s[1])
      BY <1>2, SignalsLeavePorts DEF GetIntrAck, M
    <3> QED
      BY <3>1, <3>2, SignalsLeavePorts
  <2>6. "in_service" \in DOMAIN p /\ p.in_service = TRUE
    BY <2>3 DEF Taken, IInv, Shapes
  <2> HIDE DEF p
  <2>7. /\ DOMAIN GetIntrAck(M).port = Slots
        /\ \A t \in Slots : /\ "in_service" \in DOMAIN GetIntrAck(M).port[t]
                            /\ GetIntrAck(M).port[t].in_service = (t = s \/ port[t].in_service)
    BY <2>3, <2>5, <2>6 DEF IInv, Shapes
  <2> QED
    BY <2>3, <2>4, <2>7
<1> QED
  BY <1>1, <1>2

\* The handler at the top is of the first channel in service.
LEMMA TopIsFirst ==
    ASSUME IInv, Top # Plain
    PROVE  /\ stack # <<>> /\ Top = stack[Len(stack)] /\ Top \in Slots /\ port[Top].in_service
           /\ \A t \in Slots : port[t].in_service /\ t # Top => Before(Top, t)
           /\ First({s \in Slots : port[s].in_service}) = Top
           /\ \A k \in 1 .. Len(stack) : stack[k] # Plain
<1>1. stack # <<>> /\ Top = stack[Len(stack)] /\ Top \in Frames /\ Len(stack) \in Nat \ {0}
  BY FrontOfStack DEF IInv, Shapes, Top
<1>2. Len(stack) \in 1 .. Len(stack) /\ stack[Len(stack)] # Plain
  BY <1>1
<1>3. Top \in Slots /\ port[Top].in_service
  BY <1>1, <1>2 DEF IInv, ServicesNest, Frames
<1>4. ASSUME NEW t \in Slots, port[t].in_service, t # Top
      PROVE  Before(Top, t)
  <2>1. PICK k \in 1 .. Len(stack) : stack[k] # Plain /\ t = stack[k]
    BY <1>4 DEF IInv, ServicesNest
  <2>2. k < Len(stack)
    BY <1>1, <1>4, <2>1
  <2> QED
    BY <1>1, <1>2, <2>1, <2>2 DEF IInv, ServicesNest
<1>5. First({s \in Slots : port[s].in_service}) = Top
  <2> DEFINE ended == {s \in Slots : port[s].in_service}
  <2>1. Top \in ended /\ ended \subseteq Slots
    BY <1>3
  <2>2. First(ended) \in ended /\ \A t \in ended \ {First(ended)} : Before(First(ended), t)
    BY <2>1, FirstIsFirst
  <2> QED
    BY <1>4, <2>1, <2>2, BeforeIsOrder
<1>6. \A k \in 1 .. Len(stack) : stack[k] # Plain
  <2>1. \A k \in 1 .. Len(stack) : k = Len(stack) \/ k \in 1 .. Len(stack) - 1
    BY <1>1
  <2> QED
    BY <1>2, <2>1 DEF IInv, PlainOnTop
<1> QED
  BY <1>1, <1>3, <1>4, <1>5, <1>6

\* The CPU takes an interrupt: the new handler is of higher priority than all
\* others, and none of them is one that must not be interrupted.
LEMMA InterruptStep == ASSUME IInv, Interrupt PROVE IInv'
<1> DEFINE s == Answers(M)
<1>1. /\ stack' = Append(stack, s) /\ port' = GetIntrAck(M).port
      /\ DOMAIN cpu' = {"irq", "iff1", "after_ei"} /\ cpu'.iff1 = FALSE
      /\ cpu'.after_ei = FALSE /\ cpu.iff1 = TRUE
  BY DEF Interrupt, MayInterrupt, IInv, Shapes
<1>2. s \in Frames
  BY AnswersBefore DEF Frames
<1>3. /\ stack' \in Seq(Frames) /\ Len(stack') = Len(stack) + 1 /\ Len(stack) \in Nat
      /\ \A k \in 1 .. Len(stack) : stack'[k] = stack[k]
      /\ stack'[Len(stack) + 1] = s
  BY <1>1, <1>2, AppendedStack DEF IInv, Shapes
<1>4. \A k \in 1 .. Len(stack) : stack[k] # Plain
  <2>1. stack # <<>> => Top # Plain
    BY <1>1 DEF Interrupt, MayInterrupt, IInv, PlainIsAlone
  <2> QED
    BY <1>3, <2>1, TopIsFirst
<1>5. Shapes'
  BY <1>1, <1>3, AnswersBefore DEF IInv, Shapes
<1>6. PlainOnTop'
  BY <1>3, <1>4 DEF PlainOnTop
<1>7. PlainIsAlone'
  BY <1>1 DEF PlainIsAlone
<1>8. ServicesNest'
  <2>1. CASE s = Plain
    <3>1. port' = port
      BY <1>1, <2>1, AnswersBefore, PositionsAreNat
    <3>2. {k \in 1 .. Len(stack') : stack'[k] # Plain} = 1 .. Len(stack)
      BY <1>3, <1>4, <2>1
    <3>3. {k \in 1 .. Len(stack) : stack[k] # Plain} = 1 .. Len(stack)
      BY <1>4
    <3>4. {stack'[k] : k \in 1 .. Len(stack)} = {stack[k] : k \in 1 .. Len(stack)}
      BY <1>3
    <3> QED
      BY <1>3, <3>1, <3>2, <3>3, <3>4 DEF IInv, ServicesNest
  <2>2. CASE s # Plain
    <3>1. /\ s \in Slots
          /\ \A t \in Slots : port[t].in_service => Before(s, t)
          /\ \A t \in Slots : port'[t].in_service = (t = s \/ port[t].in_service)
      BY <1>1, <2>2, AnswersBefore
    <3>2. {k \in 1 .. Len(stack') : stack'[k] # Plain} = 1 .. Len(stack) + 1
      BY <1>3, <1>4, <2>2
    <3>3. {k \in 1 .. Len(stack) : stack[k] # Plain} = 1 .. Len(stack)
      BY <1>4
    <3>4. {stack[k] : k \in 1 .. Len(stack)} = {t \in Slots : port[t].in_service}
      BY <3>3 DEF IInv, ServicesNest
    <3>5. {stack'[k] : k \in 1 .. Len(stack) + 1} = {stack[k] : k \in 1 .. Len(stack)} \cup {s}
      <4>1. \A k \in 1 .. Len(stack) + 1 : k = Len(stack) + 1 \/ k \in 1 .. Len(stack)
        BY <1>3
      <4>2. Len(stack) + 1 \in 1 .. Len(stack) + 1 /\ 1 .. Len(stack) \subseteq 1 .. Len(stack) + 1
        BY <1>3
      <4> QED
        BY <1>3, <4>1, <4>2
    <3>6. {stack'[k] : k \in 1 .. Len(stack) + 1} = {t \in Slots : port'[t].in_service}
      BY <3>1, <3>4, <3>5, <1>5 DEF Shapes
    <3>7. ASSUME NEW j \in 1 .. Len(stack) + 1, NEW k \in 1 .. Len(stack) + 1, j < k
          PROVE  Before(stack'[k], stack'[j])
      <4>1. j \in 1 .. Len(stack) /\ stack'[j] = stack[j]
        BY <1>3, <3>7
      <4>2. CASE k = Len(stack) + 1
        BY <1>3, <3>1, <3>4, <4>1, <4>2
      <4>3. CASE k \in 1 .. Len(stack)
        BY <1>3, <3>3, <3>7, <4>1, <4>3 DEF IInv, ServicesNest
      <4> QED
        BY <1>3, <4>2, <4>3
    <3> QED
      BY <3>2, <3>6, <3>7 DEF ServicesNest
  <2> QED
    BY <2>1, <2>2
<1> QED
  BY <1>5, <1>6, <1>7, <1>8 DEF IInv

\* A handler returns: with RET, it was in service no longer; with RETI, the
\* channel that hears of it is its own.
LEMMA ReturnSteps == ASSUME IInv, Return \/ ReturnFromInterrupt PROVE IInv'
<1> DEFINE n == Len(stack)
<1>1. /\ stack # <<>> /\ stack' = Front(stack)
      /\ stack' \in Seq(Frames) /\ Len(stack') = n - 1 /\ n \in Nat \ {0}
      /\ \A k \in 1 .. n - 1 : stack'[k] = stack[k] /\ stack[k] # Plain
  <2>1. stack # <<>> /\ stack' = Front(stack)
    BY TopIsFirst DEF Return, ReturnFromInterrupt
  <2> QED
    BY <2>1, FrontOfStack DEF IInv, Shapes, PlainOnTop
<1>2. /\ DOMAIN cpu' = {"irq", "iff1", "after_ei"} /\ cpu'.iff1 = cpu.iff1
      /\ cpu'.after_ei = FALSE
  BY DEF Return, ReturnFromInterrupt, Executed, IInv, Shapes
<1>3. stack' # <<>> => Top' # Plain
  <2>1. Top' = IF stack' = <<>> THEN Plain ELSE stack'[n - 1]
    BY <1>1 DEF Top, Last
  <2>2. stack' # <<>> => n - 1 \in 1 .. n - 1
    BY <1>1
  <2> QED
    BY <1>1, <2>1, <2>2
<1>4. \A k \in 1 .. Len(stack') : k \in 1 .. n - 1 /\ stack'[k] # Plain
  BY <1>1
<1>5. {k \in 1 .. Len(stack') : stack'[k] # Plain} = 1 .. n - 1
  BY <1>1
<1>6. CASE Return
  <2>1. port' = port /\ stack[n] = Plain
    BY <1>1, <1>6, FrontOfStack, SignalsLeavePorts DEF Return, Executed, Top, IInv, Shapes
  <2>2. {k \in 1 .. n : stack[k] # Plain} = 1 .. n - 1
    BY <1>1, <2>1
  <2>3. ServicesNest'
    BY <1>1, <1>5, <2>1, <2>2 DEF IInv, ServicesNest
  <2>4. Shapes'
    BY <1>1, <1>2, <2>1 DEF IInv, Shapes
  <2>5. PlainOnTop' /\ PlainIsAlone'
    <3>1. \A k \in 1 .. Len(stack') - 1 : k \in 1 .. Len(stack')
      BY <1>1
    <3> QED
      BY <1>3, <1>4, <3>1 DEF PlainOnTop, PlainIsAlone
  <2> QED
    BY <2>3, <2>4, <2>5 DEF IInv
<1>7. CASE ReturnFromInterrupt
  <2>1. /\ Top = stack[n] /\ Top \in Slots /\ port[Top].in_service
        /\ First({s \in Slots : port[s].in_service}) = Top
        /\ \A k \in 1 .. n : stack[k] # Plain
    BY <1>7, TopIsFirst DEF ReturnFromInterrupt
  <2>2. port' = [port EXCEPT ![Top].in_service = FALSE]
    <3>1. M.port = port /\ "port" \in DOMAIN M
      BY DEF M
    <3>2. Ended(M).port = [M EXCEPT !.port[Top].in_service = FALSE].port
      <4>1. {s \in Slots : M.port[s].in_service} # {} /\ First({s \in Slots : M.port[s].in_service}) = Top
        BY <2>1, <3>1
      <4> DEFINE ended == {s \in Slots : M.port[s].in_service}
                 e == IF ended = {} THEN M ELSE [M EXCEPT !.port[First(ended)].in_service = FALSE]
                 last == IF ended = {} THEN Len(Chain) ELSE First(ended)[1]
      <4>2. Ended(M) = UpdateAll(e, Reverse([i \in 1 .. last |-> i]))
        BY Zenon DEF Ended
      <4>3. e = [M EXCEPT !.port[Top].in_service = FALSE]
        BY <4>1
      <4>4. Ended(M).port = e.port
        <5> HIDE DEF e, last
        <5> QED
          BY <4>2, SignalsLeavePorts
      <4> HIDE DEF e
      <4> QED
        BY <4>3, <4>4
    <3>3. port' = Ended(M).port
      BY <1>7 DEF ReturnFromInterrupt, Executed
    <3> QED
      BY <3>1, <3>2, <3>3
  <2>3. /\ DOMAIN port' = Slots
        /\ \A s \in Slots : /\ "in_service" \in DOMAIN port'[s]
                            /\ port'[s].in_service = (s # Top /\ port[s].in_service)
    BY <2>1, <2>2 DEF IInv, Shapes
  <2>4. {k \in 1 .. n : stack[k] # Plain} = 1 .. n
    BY <2>1
  <2>5. {stack'[k] : k \in 1 .. n - 1} = {s \in Slots : port'[s].in_service}
    <3>1. {stack[k] : k \in 1 .. n} = {s \in Slots : port[s].in_service}
      BY <2>4 DEF IInv, ServicesNest
    <3>2. \A k \in 1 .. n - 1 : k \in 1 .. n /\ k < n /\ stack[k] # Top
      <4>1. \A k \in 1 .. n - 1 : k \in 1 .. n /\ n \in 1 .. n /\ k < n
        BY <1>1
      <4>2. \A k \in 1 .. n - 1 : Before(stack[n], stack[k])
        BY <2>1, <4>1 DEF IInv, ServicesNest
      <4> QED
        BY <2>1, <4>1, <4>2, BeforeIsOrder
    <3>3. \A k \in 1 .. n : k = n \/ k \in 1 .. n - 1
      BY <1>1
    <3>4. \A k \in 1 .. n - 1 : stack'[k] \in {s \in Slots : port'[s].in_service}
      <4>1. \A k \in 1 .. n - 1 : stack[k] \in Slots /\ port[stack[k]].in_service
        BY <3>1, <3>2
      <4>2. \A k \in 1 .. n - 1 : stack'[k] = stack[k]
        BY <1>1
      <4> QED
        BY <2>3, <3>2, <4>1, <4>2
    <3>5. \A s \in Slots : port'[s].in_service => \E k \in 1 .. n - 1 : s = stack'[k]
      <4> SUFFICES ASSUME NEW s \in Slots, port'[s].in_service
                   PROVE  \E k \in 1 .. n - 1 : s = stack'[k]
        OBVIOUS
      <4>1. s # Top /\ port[s].in_service
        BY <2>3
      <4>2. PICK k \in 1 .. n : s = stack[k]
        BY <3>1, <4>1
      <4> QED
        BY <1>1, <2>1, <3>3, <4>1, <4>2
    <3> QED
      BY <3>4, <3>5
  <2>6. \A j, k \in 1 .. n - 1 : j < k => Before(stack'[k], stack'[j])
    <3>1. \A k \in 1 .. n - 1 : k \in 1 .. n
      BY <1>1
    <3> QED
      BY <1>1, <2>1, <3>1 DEF IInv, ServicesNest
  <2>7. ServicesNest'
    BY <1>5, <2>5, <2>6 DEF ServicesNest
  <2>8. Shapes'
    BY <1>1, <1>2, <2>3 DEF IInv, Shapes
  <2> QED
    BY <1>2, <1>3, <1>4, <2>7, <2>8 DEF IInv, PlainOnTop, PlainIsAlone
<1> QED
  BY <1>6, <1>7

\* A handler of a serial controller ends the service by itself; its own
\* channel is the first in service of its controller, and it returns with RET.
LEMMA EndOfInterruptStep ==
    ASSUME IInv, NEW i \in Pos, ~IsPio(i), EndOfInterrupt(i) PROVE IInv'
<1> DEFINE n == Len(stack)
           served == {c \in Channel : port[<<i, c>>].in_service}
<1>1. /\ Top = stack[n] /\ Top \in Slots /\ port[Top].in_service
      /\ \A t \in Slots : port[t].in_service /\ t # Top => Before(Top, t)
      /\ \A k \in 1 .. n : stack[k] # Plain
      /\ Top[1] = i /\ Top = <<i, Top[2]>> /\ Top[2] \in {0, 1}
  BY TopIsFirst, SlotIsPair DEF EndOfInterrupt
<1>2. served # {} /\ Min(served) = Top[2]
  <2>1. Top[2] \in served
    BY <1>1 DEF Channel
  <2>2. \A c \in served : <<i, c>> \in Slots /\ c \in {0, 1}
    BY DEF Slots, Channel
  <2>3. \A c \in served : c = Top[2] \/ Before(Top, <<i, c>>)
    BY <1>1, <2>2
  <2>4. \A c \in served : Top[2] <= c
    BY <1>1, <2>2, <2>3, PositionsAreNat DEF Before
  <2>5. \A c \in served : (\A d \in served : c <= d) => c = Top[2]
    BY <1>1, <2>1, <2>2, <2>4
  <2> QED
    BY <2>1, <2>4, <2>5 DEF Min
<1>3. port' = [port EXCEPT ![Top].in_service = FALSE]
  <2>1. port' = Update(Top, [port[Top] EXCEPT !.in_service = FALSE]).port
    BY <1>1, <1>2 DEF EndOfInterrupt, Executed
  <2> QED
    BY <2>1, PortSet
<1>4. /\ DOMAIN port' = Slots
      /\ \A s \in Slots : /\ "in_service" \in DOMAIN port'[s]
                          /\ port'[s].in_service = (s # Top /\ port[s].in_service)
  BY <1>1, <1>3 DEF IInv, Shapes
<1>5. /\ n \in Nat \ {0} /\ stack' = [stack EXCEPT ![n] = Plain]
      /\ stack' \in Seq(Frames) /\ Len(stack') = n
      /\ stack'[n] = Plain /\ \A k \in 1 .. n - 1 : stack'[k] = stack[k] /\ stack[k] # Plain
  <2>1. stack # <<>> /\ Plain \in Frames /\ stack' = [stack EXCEPT ![n] = Plain]
    BY TopIsFirst DEF EndOfInterrupt, Frames
  <2> QED
    BY <1>1, <2>1 DEF IInv, Shapes
<1>6. /\ DOMAIN cpu' = {"irq", "iff1", "after_ei"} /\ cpu'.iff1 = FALSE
      /\ cpu'.after_ei = FALSE
  BY DEF EndOfInterrupt, Executed, IInv, Shapes
<1>len. n \in Nat \ {0} /\ \A k \in 1 .. n : k = n \/ k \in 1 .. n - 1
  <2>1. n \in Nat \ {0}
    BY <1>5
  <2> QED
    BY <2>1
<1>idx. \A k \in 1 .. n - 1 : k \in 1 .. n /\ n \in 1 .. n /\ k < n
  BY <1>len
<1>7. {k \in 1 .. Len(stack') : stack'[k] # Plain} = 1 .. n - 1
  <2>1. \A k \in 1 .. n - 1 : k \in 1 .. n /\ stack'[k] # Plain
    BY <1>5, <1>idx
  <2>2. \A k \in 1 .. n : stack'[k] # Plain => k \in 1 .. n - 1
    BY <1>5, <1>len
  <2> QED
    BY <1>5, <2>1, <2>2
<1>8. {stack'[k] : k \in 1 .. n - 1} = {s \in Slots : port'[s].in_service}
  <2>1. {k \in 1 .. n : stack[k] # Plain} = 1 .. n
    BY <1>1
  <2>2. {stack[k] : k \in 1 .. n} = {s \in Slots : port[s].in_service}
    BY <2>1 DEF IInv, ServicesNest
  <2>3. \A k \in 1 .. n - 1 : stack[k] # Top
    <3>1. \A k \in 1 .. n - 1 : Before(stack[n], stack[k])
      BY <1>1, <1>idx DEF IInv, ServicesNest
    <3> QED
      BY <1>1, <3>1, BeforeIsOrder
  <2>4. \A k \in 1 .. n - 1 : stack'[k] \in {s \in Slots : port'[s].in_service}
    <3>1. \A k \in 1 .. n - 1 : stack[k] \in Slots /\ port[stack[k]].in_service
      BY <1>idx, <2>2
    <3> QED
      BY <1>4, <1>5, <2>3, <3>1
  <2>5. \A s \in Slots : port'[s].in_service => \E k \in 1 .. n - 1 : s = stack'[k]
    <3> SUFFICES ASSUME NEW s \in Slots, port'[s].in_service
                 PROVE  \E k \in 1 .. n - 1 : s = stack'[k]
      OBVIOUS
    <3>1. s # Top /\ port[s].in_service
      BY <1>4
    <3>2. PICK k \in 1 .. n : s = stack[k]
      BY <2>2, <3>1
    <3>3. k \in 1 .. n - 1
      BY <1>1, <1>len, <3>1, <3>2
    <3> QED
      BY <1>5, <3>2, <3>3
  <2> QED
    BY <2>4, <2>5
<1>9. \A j, k \in 1 .. n - 1 : j < k => Before(stack'[k], stack'[j])
  <2>1. \A k \in 1 .. n - 1 : stack'[k] = stack[k]
    BY <1>5
  <2> QED
    BY <1>1, <1>idx, <2>1 DEF IInv, ServicesNest
<1>10. ServicesNest'
  BY <1>7, <1>8, <1>9 DEF ServicesNest
<1> QED
  BY <1>4, <1>5, <1>6, <1>10 DEF IInv, Shapes, PlainOnTop, PlainIsAlone

\* EI and DI.
LEMMA SwitchSteps == ASSUME IInv, EnableInterrupts \/ DisableInterrupts PROVE IInv'
<1>1. /\ port' = port /\ stack' = stack /\ DOMAIN cpu' = {"irq", "iff1", "after_ei"}
      /\ cpu'.iff1 \in BOOLEAN /\ cpu'.after_ei = cpu'.iff1
  BY DEF EnableInterrupts, DisableInterrupts, chain, IInv, Shapes
<1> QED
  BY <1>1, Quiet DEF IInv, Shapes

\* A register of one channel changes, or a device is called for it; who is in
\* service stays.
LEMMA PortStep ==
    ASSUME IInv, NEW s \in Slots, NEW p, "in_service" \in DOMAIN p,
           p.in_service = port[s].in_service,
           NEW m, m.port = [port EXCEPT ![s] = p],
           Command(m) \/ (Executes /\ Executed(m) /\ stack' = stack) \/ (Becomes(m) /\ stack' = stack)
    PROVE  IInv'
<1>1. /\ DOMAIN m.port = Slots
      /\ \A t \in Slots : /\ "in_service" \in DOMAIN m.port[t]
                          /\ m.port[t].in_service = port[t].in_service
  BY DEF IInv, Shapes
<1>2. (Executes /\ Executed(m) /\ stack' = stack) \/ (Becomes(m) /\ stack' = stack)
  BY DEF Command
<1> QED
  BY <1>1, <1>2, Instruction, DeviceCalled

\* Registers and inputs of the parallel port.
LEMMA PioSteps ==
    ASSUME IInv, NEW s \in PioSlots,
           \/ WriteExpected(s) \/ WriteIntrControl(s) \/ WriteMode(s)
           \/ PioWriteData(s) \/ PioInput(s)
    PROVE  IInv'
<1>1. s \in Slots /\ "in_service" \in DOMAIN port[s]
  BY ProgramAssumption DEF PioSlots, IInv, Shapes
<1>2. CASE WriteExpected(s)
  <2>1. PICK p, m :
          /\ "in_service" \in DOMAIN p /\ p.in_service = port[s].in_service
          /\ m.port = [port EXCEPT ![s] = p] /\ Command(m)
    <3> DEFINE a == [port[s] EXCEPT !.expects = "none"]
               b == [port[s] EXCEPT !.expects = "none", !.enb = port[s].tmp]
    <3>1. \/ Command(Set(s, a)) \/ Command(Update(s, b))
      BY <1>2 DEF WriteExpected
    <3>2. /\ "in_service" \in DOMAIN a /\ a.in_service = port[s].in_service
          /\ "in_service" \in DOMAIN b /\ b.in_service = port[s].in_service
      BY <1>1
    <3> HIDE DEF a, b
    <3> QED
      BY <3>1, <3>2, PortSet
  <2> QED
    BY <1>1, <2>1, PortStep
<1>3. CASE WriteIntrControl(s)
  <2>1. PICK p : /\ "in_service" \in DOMAIN p /\ p.in_service = port[s].in_service
                 /\ Command(Update(s, p))
    BY <1>1, <1>3 DEF WriteIntrControl
  <2>2. Update(s, p).port = [port EXCEPT ![s] = p]
    BY PortSet
  <2> QED
    BY <1>1, <2>1, <2>2, PortStep
<1>4. CASE WriteMode(s)
  <2>1. PICK p : /\ "in_service" \in DOMAIN p /\ p.in_service = port[s].in_service
                 /\ Command(Set(s, p))
    BY <1>1, <1>4 DEF WriteMode
  <2>2. Set(s, p).port = [port EXCEPT ![s] = p]
    BY PortSet
  <2> QED
    BY <1>1, <2>1, <2>2, PortStep
<1>5. ASSUME NEW met PROVE
        \E p : /\ "in_service" \in DOMAIN p /\ p.in_service = port[s].in_service
               /\ DataChanged(s, met).port = [port EXCEPT ![s] = p]
  <2>1. PICK p : /\ "in_service" \in DOMAIN p /\ p.in_service = port[s].in_service
                 /\ DataChanged(s, met) = Update(s, p)
    BY <1>1 DEF DataChanged, Monitored, Strobed
  <2>2. Update(s, p).port = [port EXCEPT ![s] = p]
    BY PortSet
  <2> QED
    BY <2>1, <2>2
<1>6. CASE PioWriteData(s)
  <2>1. PICK met : Command(DataChanged(s, met))
    BY <1>6 DEF PioWriteData
  <2>2. PICK p : /\ "in_service" \in DOMAIN p /\ p.in_service = port[s].in_service
                 /\ DataChanged(s, met).port = [port EXCEPT ![s] = p]
    BY <1>5
  <2> QED
    BY <1>1, <2>1, <2>2, PortStep
<1>7. CASE PioInput(s)
  <2>1. PICK met : Becomes(DataChanged(s, met)) /\ stack' = stack
    BY <1>7 DEF PioInput
  <2>2. PICK p : /\ "in_service" \in DOMAIN p /\ p.in_service = port[s].in_service
                 /\ DataChanged(s, met).port = [port EXCEPT ![s] = p]
    BY <1>5
  <2> QED
    BY <1>1, <2>1, <2>2, PortStep
<1> QED
  BY <1>2, <1>3, <1>4, <1>6, <1>7

\* Registers and events of a serial controller.
LEMMA SioSteps ==
    ASSUME IInv, NEW s \in SioSlots,
           \/ WriteWr1(s) \/ ResetCause(s) \/ ResetChannel(s) \/ SioWriteData(s)
           \/ SioReadData(s) \/ StatusChange(s) \/ SendEvent(s) \/ RecvEvent(s)
    PROVE  IInv'
<1> DEFINE Same(p) == "in_service" \in DOMAIN p /\ p.in_service = port[s].in_service
           Told(m) == \/ Command(m) \/ (Executes /\ Executed(m) /\ stack' = stack)
                      \/ (Becomes(m) /\ stack' = stack)
<1>1. s \in Slots /\ "in_service" \in DOMAIN port[s]
  BY ProgramAssumption DEF SioSlots, IInv, Shapes
<1>2. \E p, b : Same(p) /\ Told(UpdateIf(b, s, p))
  <2>1. CASE WriteWr1(s)
    <3>1. PICK value : Executes /\ Executed(Wr1Written(s, value)) /\ stack' = stack
      BY <2>1 DEF WriteWr1
    <3> QED
      BY <1>1, <3>1 DEF Wr1Written
  <2>2. CASE ResetCause(s)
    BY <1>1, <2>2 DEF ResetCause, UpdateIf
  <2>3. CASE ResetChannel(s)
    <3>1. Same([Sio EXCEPT !.in_service = port[s].in_service])
      BY DEF Sio
    <3> QED
      BY <2>3, <3>1 DEF ResetChannel
  <2>4. CASE SioWriteData(s)
    BY <1>1, <2>4 DEF SioWriteData, UpdateIf
  <2>5. CASE SioReadData(s)
    BY <1>1, <2>5 DEF SioReadData
  <2>6. CASE StatusChange(s)
    BY <1>1, <2>6 DEF StatusChange, UpdateIf
  <2>7. CASE SendEvent(s)
    BY <1>1, <2>7 DEF SendEvent
  <2>8. CASE RecvEvent(s)
    BY <1>1, <2>8 DEF RecvEvent
  <2> QED
    BY <2>1, <2>2, <2>3, <2>4, <2>5, <2>6, <2>7, <2>8
<1>3. PICK p, b : Same(p) /\ Told(UpdateIf(b, s, p))
  BY <1>2
<1>4. UpdateIf(b, s, p).port = [port EXCEPT ![s] = p]
  BY PortSet
<1> QED
  BY <1>1, <1>3, <1>4, PortStep

\* The gate and instructions that change no device.
LEMMA GateSteps == ASSUME IInv, Other \/ TimerOutput \/ WriteMask PROVE IInv'
<1>1. /\ DOMAIN port = Slots
      /\ \A s \in Slots : "in_service" \in DOMAIN port[s]
  BY DEF IInv, Shapes
<1>2. CASE Other
  BY <1>1, <1>2, SignalsLeavePorts, Instruction DEF Other
<1>3. CASE TimerOutput
  <2>1. PICK in : Becomes(GateChanged(M, in)) /\ stack' = stack
    BY <1>3 DEF TimerOutput
  <2> QED
    BY <1>1, <2>1, SignalsLeavePorts, DeviceCalled
<1>4. CASE WriteMask
  <2>1. PICK in : Executes /\ Executed(GateChanged(M, in)) /\ stack' = stack
    BY <1>4 DEF WriteMask
  <2> QED
    BY <1>1, <2>1, SignalsLeavePorts, Instruction
<1> QED
  BY <1>2, <1>3, <1>4

\* A reset leaves no handler and no service.
LEMMA ResetStep == ASSUME IInv, Reset PROVE IInv'
<1>1. /\ DOMAIN port' = Slots
      /\ \A s \in Slots : "in_service" \in DOMAIN port'[s] /\ port'[s].in_service = FALSE
  BY ResetEndsServices DEF Reset, M
<1>2. /\ DOMAIN cpu' = {"irq", "iff1", "after_ei"} /\ cpu'.iff1 = FALSE /\ cpu'.after_ei = FALSE
      /\ stack' = <<>> /\ stack' \in Seq(Frames)
  BY DEF Reset
<1>3. Shapes'
  BY <1>1, <1>2 DEF Shapes
<1>4. ServicesNest'
  BY <1>1, <1>2 DEF ServicesNest
<1> QED
  BY <1>2, <1>3, <1>4 DEF IInv, PlainOnTop, PlainIsAlone

\* Every step keeps the handlers nested.
LEMMA NextIInv == IInv /\ [Next]_vars => IInv'
<1> SUFFICES ASSUME IInv, [Next]_vars PROVE IInv'
  OBVIOUS
<1>1. CASE Interrupt
  BY <1>1, InterruptStep
<1>2. CASE EnableInterrupts \/ DisableInterrupts
  BY <1>2, SwitchSteps
<1>3. CASE Return \/ ReturnFromInterrupt
  BY <1>3, ReturnSteps
<1>4. CASE \E s \in PioSlots : \/ WriteExpected(s) \/ WriteIntrControl(s) \/ WriteMode(s)
                               \/ PioWriteData(s) \/ PioInput(s)
  BY <1>4, PioSteps
<1>5. CASE \E s \in SioSlots : \/ WriteWr1(s) \/ ResetCause(s) \/ ResetChannel(s)
                               \/ SioWriteData(s) \/ SioReadData(s)
                               \/ StatusChange(s) \/ SendEvent(s) \/ RecvEvent(s)
  BY <1>5, SioSteps
<1>6. CASE \E i \in Pos : ~IsPio(i) /\ EndOfInterrupt(i)
  BY <1>6, EndOfInterruptStep
<1>7. CASE Other \/ TimerOutput \/ WriteMask
  BY <1>7, GateSteps
<1>8. CASE Reset
  BY <1>8, ResetStep
<1>9. CASE UNCHANGED vars
  BY <1>9, Quiet DEF vars, chain, IInv, Shapes, PlainIsAlone
<1> QED
  BY <1>1, <1>2, <1>3, <1>4, <1>5, <1>6, <1>7, <1>8, <1>9 DEF Next

LEMMA Inductive == Spec => []IInv
BY InitIInv, NextIInv, PTL DEF Spec
-----------------------------------------------------------------------------
\* For every chain, the channels in service are those of the handlers that
\* have not ended, each of higher priority than those it interrupted
\* (z80pio.cpp:284 and 311, z80sio.cpp:869 and 903).
THEOREM ServicesAreNested == Spec => []ServicesNest
<1>1. IInv => ServicesNest
  BY DEF IInv
<1> QED
  BY <1>1, Inductive, PTL

\* For every chain, a handler that returns with EI and RET is never
\* interrupted, however fast the timer asks (z80.cpp:2269).
THEOREM TimerNeverPilesUp == Spec => []PlainOnTop
<1>1. IInv => PlainOnTop
  BY DEF IInv
<1> QED
  BY <1>1, Inductive, PTL
-----------------------------------------------------------------------------
(* The signals between the devices.                                        *)

\* What the chain consists of.
Chained(m) == DOMAIN m = {"port", "iei", "oei", "vector", "irq"} /\ DOMAIN m.port = Slots

\* No device before j has a channel in service, by the flags in busy.
Clear(busy, j) == \A k \in Pos : k < j => ~busy[k]
Busy(m) == [k \in Pos |-> InService(m, k)]

\* The signals are those of devices with these flags.
SignalsShow(m, busy) ==
    /\ m.iei = [j \in Pos |-> Clear(busy, j)]
    /\ m.oei = [j \in Pos |-> Clear(busy, j) /\ ~busy[j]]

\* The CPU's bit of a device is right, and so is the cause that its vector names.
BitTrue(m, j) == j \in m.irq <=> m.iei[j] /\ Asking(m, j) # {}
VectorTrue(m, j) ==
    ~IsPio(j) /\ Asking(m, j) # {} =>
        LET c == Min(Asking(m, j))
        IN m.vector[j] \in {NoCause, <<c, Cause(m.port[<<j, c>>])>>}

\* Signals, bits and vectors are those of the ports, and of the ports but i's.
Settled(m) ==
    /\ Chained(m) /\ SignalsShow(m, Busy(m))
    /\ m.irq \subseteq Pos \cup {0}
    /\ DOMAIN m.vector = Pos
    /\ \A j \in Pos : BitTrue(m, j) /\ VectorTrue(m, j)

SettledBut(m, i) ==
    /\ Chained(m)
    /\ \E busy \in [Pos -> BOOLEAN] :
          SignalsShow(m, busy) /\ \A k \in Pos \ {i} : busy[k] = InService(m, k)
    /\ m.irq \subseteq Pos \cup {0}
    /\ DOMAIN m.vector = Pos
    /\ \A j \in Pos \ {i} : BitTrue(m, j) /\ VectorTrue(m, j)

\* Questions about a device are questions about its two ports.
LEMMA DevicesApart ==
    ASSUME NEW m, NEW w, NEW j \in Pos,
           \A c \in Channel : m.port[<<j, c>>] = w.port[<<j, c>>]
    PROVE  /\ Asking(m, j) = Asking(w, j)
           /\ InService(m, j) = InService(w, j)
           /\ \A c \in Channel : Requests(m, <<j, c>>) = Requests(w, <<j, c>>)
<1>1. \A c \in Channel : Requests(m, <<j, c>>) = Requests(w, <<j, c>>)
  BY DEF Requests
<1>2. \A c \in Channel : \A b \in 0 .. c : b \in Channel
  BY DEF Channel
<1>3. Asking(m, j) = Asking(w, j)
  BY <1>1, <1>2, Zenon DEF Asking
<1>4. InService(m, j) = InService(w, j)
  BY Zenon DEF InService
<1> QED
  BY <1>1, <1>3, <1>4

LEMMA ClearNext ==
    ASSUME NEW busy, NEW j \in Pos, j # 1
    PROVE  j - 1 \in Pos /\ (Clear(busy, j) <=> Clear(busy, j - 1) /\ ~busy[j - 1])
<1>1. j \in Nat /\ Len(Chain) \in Nat /\ j - 1 \in Pos /\ \A k \in Pos : k \in Nat /\ (k < j <=> k < j - 1 \/ k = j - 1)
  BY ChainAssumption DEF Pos
<1> QED
  BY <1>1 DEF Clear

\* The signals that update_intr() sends along the chain.
LEMMA SignalsAre ==
    ASSUME NEW m, NEW i \in Pos, NEW busy \in [Pos -> BOOLEAN], SignalsShow(m, busy),
           \A k \in Pos \ {i} : busy[k] = InService(m, k)
    PROVE  Signals(m, i) = [j \in Pos |-> [iei |-> Clear(Busy(m), j),
                                           oei |-> Clear(Busy(m), j) /\ ~InService(m, j)]]
<1> DEFINE new == Busy(m)
           parent(f, j) == IF j > i THEN f[j - 1].oei ELSE TRUE
           in(f, j) == IF j > i /\ parent(f, j) # m.oei[j - 1] THEN parent(f, j) ELSE m.iei[j]
           step(f, j) == [iei |-> in(f, j),
                          oei |-> IF j = i \/ in(f, j) # m.iei[j]
                                  THEN in(f, j) /\ ~InService(m, j) ELSE m.oei[j]]
           sent == [j \in Pos |-> [iei |-> Clear(new, j), oei |-> Clear(new, j) /\ ~InService(m, j)]]
           signals == CHOOSE f : f = [j \in Pos |-> step(f, j)]
<1>1. Signals(m, i) = signals
  BY Zenon DEF Signals
<1>2. /\ new \in [Pos -> BOOLEAN] /\ \A k \in Pos : new[k] = InService(m, k)
      /\ \A k \in Pos : k # i => busy[k] = new[k]
      /\ \A j \in Pos : InService(m, j) \in BOOLEAN
  BY DEF Busy, InService
<1>3. Pos \subseteq Nat \ {0}
  BY PositionsAreNat
<1> HIDE DEF new
<1>4. \A j \in Pos : j <= i => (Clear(new, j) <=> Clear(busy, j))
  BY <1>2, <1>3 DEF Clear
<1>5. \A j \in Pos : m.iei[j] = Clear(busy, j) /\ m.oei[j] = (Clear(busy, j) /\ ~busy[j])
  BY DEF SignalsShow
<1>6. ASSUME NEW f, NEW j \in Pos, j > i => f[j - 1] = sent[j - 1]
      PROVE  step(f, j) = sent[j]
  <2>1. Clear(busy, j) \in BOOLEAN /\ Clear(new, j) \in BOOLEAN
    BY DEF Clear
  <2>2. CASE j > i
    <3>1. j # 1 /\ j - 1 \in Pos /\ j # i
      BY <1>3, <2>2, ClearNext
    <3>2. /\ Clear(new, j) <=> Clear(new, j - 1) /\ ~new[j - 1]
          /\ Clear(busy, j) <=> Clear(busy, j - 1) /\ ~busy[j - 1]
      BY <3>1, ClearNext
    <3>3. parent(f, j) = (Clear(new, j - 1) /\ ~new[j - 1])
      BY <1>2, <1>6, <2>2, <3>1
    <3>4. m.oei[j - 1] = (Clear(busy, j - 1) /\ ~busy[j - 1])
      BY <1>5, <3>1
    <3>5. in(f, j) = Clear(new, j)
      BY <1>5, <2>1, <2>2, <3>2, <3>3, <3>4
    <3>6. busy[j] = InService(m, j)
      BY <1>2, <3>1
    <3> QED
      BY <1>5, <2>1, <3>1, <3>5, <3>6
  <2>3. CASE ~(j > i)
    <3>1. in(f, j) = Clear(new, j)
      BY <1>3, <1>4, <1>5, <2>1, <2>3
    <3>2. j # i => busy[j] = InService(m, j)
      BY <1>2
    <3> QED
      BY <1>3, <1>4, <1>5, <2>1, <2>3, <3>1, <3>2
  <2> QED
    BY <2>2, <2>3
<1>7. sent = [j \in Pos |-> step(sent, j)]
  <2>1. \A j \in Pos : sent[j] = step(sent, j)
    BY <1>6
  <2>2. sent = [j \in Pos |-> sent[j]]
    OBVIOUS
  <2> HIDE DEF step, sent
  <2> QED
    BY <2>1, <2>2
<1> HIDE DEF step
<1>8. signals = [j \in Pos |-> step(signals, j)]
  <2> HIDE DEF sent
  <2> QED
    BY <1>7
<1> HIDE DEF signals
<1>9. ASSUME NEW j \in Pos PROVE signals[j] = sent[j]
  <2> DEFINE bad == {k \in Pos : signals[k] # sent[k]}
  <2>1. SUFFICES ASSUME bad # {} PROVE FALSE
    OBVIOUS
  <2>2. PICK k \in bad : \A n \in bad : k <= n
    BY <1>3, <2>1, LeastOfNat
  <2>3. k > i => signals[k - 1] = sent[k - 1]
    <3>1. k > i => k - 1 \in Pos /\ ~(k <= k - 1)
      BY <1>3, <2>2, ClearNext
    <3> HIDE DEF sent
    <3> QED
      BY <2>2, <3>1
  <2> HIDE DEF sent
  <2> QED
    BY <1>6, <1>8, <2>2, <2>3
<1> QED
  BY <1>1, <1>8, <1>9 DEF new, Busy

\* update_intr() of the only device whose ports have changed settles the chain.
LEMMA UpdateSettles ==
    ASSUME NEW m, NEW i \in Pos, SettledBut(m, i)
    PROVE  Settled(UpdateIntr(m, i)) /\ UpdateIntr(m, i).port = m.port
<1> DEFINE signals == Signals(m, i)
           reached == {j \in Pos : j = i \/ signals[j].iei # m.iei[j]}
           asking == {j \in reached : signals[j].iei /\ Asking(m, j) # {}}
           r == UpdateIntr(m, i)
           causes == [j \in Pos |-> IF j \in reached /\ ~IsPio(j) THEN Affect(m, j) ELSE m.vector[j]]
<1>1. PICK busy \in [Pos -> BOOLEAN] :
        SignalsShow(m, busy) /\ \A k \in Pos \ {i} : busy[k] = InService(m, k)
  BY DEF SettledBut
<1>2. signals = [j \in Pos |-> [iei |-> Clear(Busy(m), j),
                               oei |-> Clear(Busy(m), j) /\ ~InService(m, j)]]
  BY <1>1, SignalsAre
<1>3. DOMAIN m = {"port", "iei", "oei", "vector", "irq"} /\ DOMAIN m.port = Slots
  BY DEF SettledBut, Chained
<1>4. r = [m EXCEPT !.iei = [j \in Pos |-> signals[j].iei],
                    !.oei = [j \in Pos |-> signals[j].oei],
                    !.vector = [j \in Pos |-> IF j \in reached /\ ~IsPio(j) THEN Affect(m, j) ELSE @[j]],
                    !.irq = (@ \ reached) \cup asking]
  BY Zenon DEF UpdateIntr
<1> HIDE DEF signals, reached, asking, r
<1>5. /\ DOMAIN r = {"port", "iei", "oei", "vector", "irq"} /\ r.port = m.port
      /\ r.iei = [j \in Pos |-> signals[j].iei]
      /\ r.oei = [j \in Pos |-> signals[j].oei]
      /\ r.vector = causes
      /\ r.irq = (m.irq \ reached) \cup asking
  BY <1>3, <1>4
<1> HIDE DEF causes
<1>6. /\ \A j \in Pos : InService(r, j) = InService(m, j) /\ Asking(r, j) = Asking(m, j)
      /\ Busy(r) = Busy(m)
  <2>1. ASSUME NEW j \in Pos PROVE InService(r, j) = InService(m, j) /\ Asking(r, j) = Asking(m, j)
    BY <1>5, DevicesApart
  <2> QED
    BY <2>1 DEF Busy
<1>7. SignalsShow(r, Busy(r))
  <2>1. \A j \in Pos : signals[j].iei = Clear(Busy(m), j)
                       /\ signals[j].oei = (Clear(Busy(m), j) /\ ~Busy(m)[j])
    BY <1>2 DEF Busy
  <2> QED
    BY <1>5, <1>6, <2>1 DEF SignalsShow
<1>8. r.irq \subseteq Pos \cup {0}
  BY <1>5 DEF SettledBut, reached, asking
<1>9. DOMAIN r.vector = Pos
  BY <1>5 DEF causes
<1>10. ASSUME NEW j \in Pos PROVE BitTrue(r, j)
  <2>1. r.iei[j] = signals[j].iei
    BY <1>5
  <2>2. CASE j \in reached
    <3>1. j \in r.irq <=> signals[j].iei /\ Asking(m, j) # {}
      BY <1>5, <2>2 DEF asking
    <3> QED
      BY <1>6, <2>1, <3>1 DEF BitTrue
  <2>3. CASE j \notin reached
    <3>1. j # i /\ signals[j].iei = m.iei[j]
      BY <2>3 DEF reached
    <3>2. j \in r.irq <=> j \in m.irq
      BY <1>5, <2>3 DEF asking
    <3> QED
      BY <1>6, <2>1, <3>1, <3>2 DEF BitTrue, SettledBut
  <2> QED
    BY <2>2, <2>3
<1>11. ASSUME NEW j \in Pos PROVE VectorTrue(r, j)
  <2> SUFFICES ASSUME ~IsPio(j), Asking(m, j) # {}
               PROVE  r.vector[j] \in {NoCause, <<Min(Asking(m, j)), Cause(m.port[<<j, Min(Asking(m, j))>>])>>}
    BY <1>5, <1>6 DEF VectorTrue
  <2>1. CASE j \in reached
    <3>1. r.vector[j] = Affect(m, j)
      BY <1>5, <2>1 DEF causes
    <3> QED
      BY <3>1 DEF Affect
  <2>2. CASE j \notin reached
    <3>1. j # i /\ r.vector[j] = m.vector[j]
      BY <1>5, <2>2 DEF causes, reached
    <3> QED
      BY <3>1 DEF SettledBut, VectorTrue
  <2> QED
    BY <2>1, <2>2
<1> QED
  BY <1>3, <1>5, <1>7, <1>8, <1>9, <1>10, <1>11 DEF Settled, Chained, r

LEMMA LeastChannel ==
    ASSUME NEW m, NEW j, Asking(m, j) # {}
    PROVE  /\ Min(Asking(m, j)) \in Asking(m, j) /\ Asking(m, j) \subseteq Channel
           /\ \A c \in Asking(m, j) : Min(Asking(m, j)) <= c
<1>1. Asking(m, j) \subseteq Channel /\ \A c \in Channel : c = 0 \/ c = 1
  BY DEF Asking, Channel
<1> DEFINE asking == Asking(m, j)
<1> HIDE DEF asking
<1>2. \E c \in asking : \A d \in asking : c <= d
  BY <1>1 DEF asking
<1> QED
  BY <1>1, <1>2 DEF Min, asking

LEMMA SettledIsBut ==
    ASSUME NEW m, Settled(m), NEW i \in Pos
    PROVE  SettledBut(m, i)
<1>1. Busy(m) \in [Pos -> BOOLEAN] /\ \A k \in Pos : Busy(m)[k] = InService(m, k)
  BY DEF Busy, InService
<1> QED
  BY <1>1 DEF Settled, SettledBut

\* The ports of one device change; the rest is as before.
LEMMA OtherDevices ==
    ASSUME NEW m, NEW w, Settled(m), NEW i \in Pos, Chained(w),
           w.iei = m.iei, w.oei = m.oei, w.vector = m.vector, w.irq = m.irq,
           \A s \in Slots : s[1] # i => w.port[s] = m.port[s]
    PROVE  SettledBut(w, i)
<1>1. /\ Busy(m) \in [Pos -> BOOLEAN] /\ \A k \in Pos : Busy(m)[k] = InService(m, k)
      /\ SignalsShow(m, Busy(m))
  BY DEF Busy, InService, Settled
<1>2. ASSUME NEW j \in Pos, j # i
      PROVE  \A c \in Channel : <<j, c>> \in Slots /\ w.port[<<j, c>>] = m.port[<<j, c>>]
  BY <1>2 DEF Slots
<1>3. ASSUME NEW j \in Pos, j # i
      PROVE  /\ InService(w, j) = InService(m, j) /\ Asking(w, j) = Asking(m, j)
             /\ BitTrue(w, j) /\ VectorTrue(w, j)
  <2>1. InService(w, j) = InService(m, j) /\ Asking(w, j) = Asking(m, j)
    BY <1>2, <1>3, DevicesApart
  <2>2. BitTrue(w, j)
    BY <2>1 DEF Settled, BitTrue
  <2>3. VectorTrue(w, j)
    <3>1. Asking(m, j) # {} => Min(Asking(m, j)) \in Channel
      BY LeastChannel
    <3> QED
      BY <1>2, <1>3, <2>1, <3>1 DEF Settled, VectorTrue
  <2> QED
    BY <2>1, <2>2, <2>3
<1>4. SignalsShow(w, Busy(m))
  BY <1>1 DEF SignalsShow
<1> QED
  BY <1>1, <1>3, <1>4 DEF Settled, SettledBut
-----------------------------------------------------------------------------
(* The steps keep the chain settled.                                       *)

\* Two records of the port s are alike for the chain.
Alike(s, p, q) ==
    /\ p.in_service = q.in_service
    /\ IF IsPio(s[1]) THEN p.enb /\ p.req <=> q.enb /\ q.req ELSE Cause(p) = Cause(q)

LEMMA AlikeSettles ==
    ASSUME NEW m, Settled(m), NEW s \in Slots, NEW p, Alike(s, p, m.port[s]),
           NEW w, w = [m EXCEPT !.port[s] = p]
    PROVE  Settled(w)
<1>1. /\ Chained(w) /\ w.port = [m.port EXCEPT ![s] = p]
      /\ w.iei = m.iei /\ w.oei = m.oei /\ w.vector = m.vector /\ w.irq = m.irq
  BY DEF Settled, Chained
<1>2. \A t \in Slots : w.port[t] = IF t = s THEN p ELSE m.port[t]
  BY <1>1 DEF Settled, Chained
<1>3. ASSUME NEW j \in Pos, NEW c \in Channel
      PROVE  /\ <<j, c>> \in Slots
             /\ w.port[<<j, c>>].in_service = m.port[<<j, c>>].in_service
             /\ Requests(w, <<j, c>>) <=> Requests(m, <<j, c>>)
             /\ ~IsPio(j) => Cause(w.port[<<j, c>>]) = Cause(m.port[<<j, c>>])
  <2>1. <<j, c>> \in Slots
    BY DEF Slots
  <2>2. CASE <<j, c>> = s
    <3>1. w.port[<<j, c>>] = p /\ m.port[<<j, c>>] = m.port[s] /\ s[1] = j
      BY <1>2, <2>1, <2>2
    <3> QED
      BY <2>1, <3>1 DEF Alike, Requests
  <2>3. CASE <<j, c>> # s
    <3>1. w.port[<<j, c>>] = m.port[<<j, c>>]
      BY <1>2, <2>1, <2>3
    <3> QED
      BY <2>1, <3>1 DEF Requests
  <2> QED
    BY <2>2, <2>3
<1>4. ASSUME NEW j \in Pos
      PROVE  InService(w, j) = InService(m, j) /\ Asking(w, j) = Asking(m, j)
  <2>1. \A c \in Channel : \A b \in 0 .. c : b \in Channel
    BY DEF Channel
  <2>2. InService(w, j) = InService(m, j)
    BY <1>3, Zenon DEF InService
  <2>3. \A c \in Channel : c \in Asking(w, j) <=> c \in Asking(m, j)
    BY <1>3, <2>1 DEF Asking
  <2>4. Asking(w, j) = Asking(m, j)
    <3>1. Asking(w, j) \subseteq Channel /\ Asking(m, j) \subseteq Channel
      BY DEF Asking
    <3> QED
      BY <2>3, <3>1
  <2> QED
    BY <2>2, <2>4
<1>5. Busy(w) = Busy(m)
  BY <1>4 DEF Busy
<1>6. ASSUME NEW j \in Pos PROVE BitTrue(w, j) /\ VectorTrue(w, j)
  <2>1. BitTrue(w, j)
    BY <1>1, <1>4 DEF Settled, BitTrue
  <2>2. VectorTrue(w, j)
    <3>1. Asking(m, j) # {} => Min(Asking(m, j)) \in Channel
      BY LeastChannel
    <3>2. VectorTrue(m, j)
      BY DEF Settled
    <3> QED
      BY <1>1, <1>3, <1>4, <3>1, <3>2 DEF VectorTrue
  <2> QED
    BY <2>1, <2>2
<1> QED
  BY <1>1, <1>5, <1>6 DEF Settled, SignalsShow

\* A port of the machine changes, with or without an update.
LEMMA PortSettles ==
    ASSUME Settled(M), NEW s \in Slots, NEW p, NEW told
    PROVE  /\ Settled(Update(s, p))
           /\ Alike(s, p, port[s]) => Settled(Set(s, p))
           /\ (told \/ Alike(s, p, port[s])) => Settled(UpdateIf(told, s, p))
<1>1. s[1] \in Pos
  BY DEF Slots
<1> DEFINE w == Set(s, p)
<1>2. w = [M EXCEPT !.port[s] = p] /\ M.port = port /\ Chained(M)
  BY DEF Set, M, Settled
<1> HIDE DEF w
<1>3. /\ Chained(w) /\ w.port = [M.port EXCEPT ![s] = p]
      /\ w.iei = M.iei /\ w.oei = M.oei /\ w.vector = M.vector /\ w.irq = M.irq
  BY <1>2 DEF Chained
<1>4. \A t \in Slots : t[1] # s[1] => w.port[t] = M.port[t]
  <2>1. \A t \in Slots : t # s => [M.port EXCEPT ![s] = p][t] = M.port[t]
    BY <1>2 DEF Chained
  <2>2. \A t \in Slots : t[1] # s[1] => t # s
    OBVIOUS
  <2> QED
    BY <1>3, <2>1, <2>2
<1>5. Alike(s, p, port[s]) => Settled(Set(s, p))
  BY <1>2, AlikeSettles DEF w
<1>6. SettledBut(w, s[1])
  BY <1>1, <1>3, <1>4, OtherDevices
<1>7. Settled(Update(s, p))
  BY <1>1, <1>6, UpdateSettles DEF Update, w
<1> QED
  BY <1>5, <1>7 DEF UpdateIf

\* The machine takes over the chain of a step.
LEMMA SettledByFields ==
    ASSUME NEW m, Settled(m), NEW w, Chained(w),
           w.port = m.port, w.iei = m.iei, w.oei = m.oei, w.vector = m.vector, w.irq = m.irq
    PROVE  Settled(w)
<1>1. \A j \in Pos : InService(w, j) = InService(m, j) /\ Asking(w, j) = Asking(m, j)
  BY DevicesApart
<1>2. Busy(w) = Busy(m)
  BY <1>1 DEF Busy
<1>3. \A j \in Pos : BitTrue(w, j) /\ VectorTrue(w, j)
  BY <1>1 DEF Settled, BitTrue, VectorTrue
<1> QED
  BY <1>2, <1>3 DEF Settled, SignalsShow

LEMMA TakenOver ==
    ASSUME NEW m, Settled(m), Shapes, Executed(m) \/ Becomes(m)
    PROVE  Settled(M)'
<1>1. M' = [port |-> m.port, iei |-> m.iei, oei |-> m.oei, vector |-> m.vector, irq |-> m.irq]
  BY DEF Executed, Becomes, Shapes, M
<1> DEFINE w == M'
<1>2. /\ Chained(w) /\ w.port = m.port /\ w.iei = m.iei /\ w.oei = m.oei
      /\ w.vector = m.vector /\ w.irq = m.irq
  BY <1>1 DEF Settled, Chained
<1> HIDE DEF w
<1>3. Settled(w)
  BY <1>2, SettledByFields
<1> QED
  BY <1>3 DEF w

\* Nobody asks: the CPU's bits are rightly clear.
Silent(m) == \A j \in Pos : ~(m.iei[j] /\ Asking(m, j) # {})

LEMMA SilentSettles ==
    ASSUME NEW m, Settled(m), Silent(m), NEW w, Chained(w),
           w.port = m.port, w.iei = m.iei, w.oei = m.oei, w.vector = m.vector, w.irq = {}
    PROVE  Settled(w)
<1>1. \A j \in Pos : InService(w, j) = InService(m, j) /\ Asking(w, j) = Asking(m, j)
  BY DevicesApart
<1>2. Busy(w) = Busy(m)
  BY <1>1 DEF Busy
<1>3. \A j \in Pos : BitTrue(w, j) /\ VectorTrue(w, j)
  BY <1>1 DEF Settled, Silent, BitTrue, VectorTrue
<1> QED
  BY <1>2, <1>3 DEF Settled, SignalsShow

\* A channel in service, before which nobody has a request, silences the chain.
LEMMA ServiceSilences ==
    ASSUME NEW m, Settled(m), NEW s \in Slots, m.port[s].in_service,
           \A t \in Slots : Before(t, s) => ~Requests(m, t)
    PROVE  Silent(m)
<1> SUFFICES ASSUME NEW j \in Pos, m.iei[j], NEW c \in Asking(m, j) PROVE FALSE
  BY DEF Silent
<1>1. /\ c \in Channel /\ Requests(m, <<j, c>>) /\ <<j, c>> \in Slots
      /\ \A b \in 0 .. c : ~m.port[<<j, b>>].in_service
  BY DEF Asking, Slots
<1>2. s = <<s[1], s[2]>> /\ s[1] \in Pos /\ s[2] \in Channel /\ InService(m, s[1])
  <2>1. s = <<s[1], s[2]>> /\ s[1] \in Pos /\ s[2] \in Channel
    BY SlotIsPair DEF Slots
  <2> QED
    BY <2>1 DEF InService
<1>3. ~(s[1] < j)
  BY <1>2 DEF Settled, SignalsShow, Clear, Busy
<1>4. ~(j < s[1]) /\ ~(j = s[1] /\ c < s[2])
  BY <1>1 DEF Before
<1>5. j = s[1]
  BY <1>2, <1>3, <1>4, PositionsAreNat
<1>6. s[2] \in 0 .. c
  BY <1>1, <1>2, <1>4, <1>5 DEF Channel
<1> QED
  BY <1>1, <1>2, <1>5, <1>6

\* Who answers the CPU.
LEMMA AnswersAsk ==
    ASSUME Settled(M)
    PROVE  /\ Answers(M) = Plain => Silent(M)
           /\ Answers(M) # Plain =>
                /\ Answers(M) \in Slots /\ ~port[Answers(M)].in_service
                /\ Requests(M, Answers(M))
                /\ \A t \in Slots : Before(t, Answers(M)) => ~Requests(M, t) /\ ~port[t].in_service
<1>1. \A s \in Slots : s \in Answering(M) <=> port[s].in_service \/ Requests(M, s)
  BY SignalsLeavePorts DEF Answering, Requests, AckCause, Cause
<1>2. Answering(M) \subseteq Slots
  BY DEF Answering
<1> DEFINE s == First(Answering(M))
<1>3. CASE Answering(M) = {}
  <2>1. Answers(M) = Plain
    BY <1>3 DEF Answers
  <2>2. Silent(M)
    BY <1>1, <1>3 DEF Silent, Asking, Slots
  <2> QED
    BY <2>1, <2>2
<1>4. CASE Answering(M) # {}
  <2>1. s \in Slots /\ s \in Answering(M) /\ \A t \in Answering(M) \ {s} : Before(s, t)
    BY <1>2, <1>4, FirstIsFirst
  <2>2. \A t \in Slots : Before(t, s) => t \notin Answering(M)
    BY <2>1, BeforeIsOrder
  <2>3. \A t \in Slots : Before(t, s) => ~Requests(M, t) /\ ~port[t].in_service
    BY <1>1, <2>2
  <2> HIDE DEF s
  <2>4. CASE port[s].in_service
    <3>1. Answers(M) = Plain
      BY <2>4, SignalsLeavePorts DEF Answers, s
    <3>2. Silent(M)
      BY <2>1, <2>3, <2>4, SignalsLeavePorts, ServiceSilences
    <3> QED
      BY <3>1, <3>2
  <2>5. CASE ~port[s].in_service
    <3>1. Answers(M) = s /\ Requests(M, s) /\ s # Plain
      BY <1>1, <1>4, <2>1, <2>5, SignalsLeavePorts, PositionsAreNat DEF Answers, s
    <3> QED
      BY <2>1, <2>3, <2>5, <3>1
  <2> QED
    BY <2>4, <2>5
<1> QED
  BY <1>3, <1>4

\* The acknowledge leaves a settled chain in which nobody asks.
LEMMA AcknowledgeSettles ==
    ASSUME Settled(M), Shapes
    PROVE  Settled(GetIntrAck(M)) /\ Silent(GetIntrAck(M))
<1> DEFINE s == Answers(M)
           p == Taken(port[s], IsPio(s[1]))
           w == GetIntrAck(M)
<1>1. CASE s = Plain
  BY <1>1, AnswersAsk DEF GetIntrAck
<1>2. CASE s # Plain
  <2>1. s \in Slots /\ \A t \in Slots : Before(t, s) => ~Requests(M, t)
    BY <1>2, AnswersAsk
  <2>2. w = Update(s, p)
    BY <1>2 DEF GetIntrAck, Update, Set, M
  <2>3. w.port = [port EXCEPT ![s] = p] /\ Settled(w)
    BY <2>1, <2>2, PortSet, PortSettles
  <2>4. p.in_service
    BY <2>1 DEF Taken, Shapes
  <2> HIDE DEF p, w, s
  <2>5. w.port[s].in_service /\ \A t \in Slots : t # s => w.port[t] = port[t]
    BY <2>1, <2>3, <2>4 DEF Shapes
  <2>6. \A t \in Slots : Before(t, s) => ~Requests(w, t)
    <3>1. \A t \in Slots : Before(t, s) => t # s
      BY <2>1, BeforeIsOrder
    <3> QED
      BY <2>1, <2>5, <3>1, SignalsLeavePorts DEF Requests
  <2>7. Silent(w)
    BY <2>1, <2>3, <2>5, <2>6, ServiceSilences
  <2> QED
    BY <2>3, <2>7 DEF w
<1> QED
  BY <1>1, <1>2
-----------------------------------------------------------------------------
(* The return from an interrupt: several devices update in turn.           *)

\* The states of the chain after each of n updates, and that there are such.
LEMMA UpdatesExist ==
    ASSUME NEW m, NEW seq, NEW n \in Nat
    PROVE  \E f : f = [k \in 0 .. n |-> IF k = 0 THEN m ELSE UpdateIntr(f[k - 1], seq[k])]
<1> DEFINE Exists(l) ==
             \E f : f = [k \in 0 .. l |-> IF k = 0 THEN m ELSE UpdateIntr(f[k - 1], seq[k])]
           bad == {l \in Nat : ~Exists(l)}
<1>1. SUFFICES ASSUME bad # {} PROVE FALSE
  OBVIOUS
<1>2. PICK l \in bad : \A k \in bad : l <= k
  <2>1. bad \subseteq Nat
    OBVIOUS
  <2> HIDE DEF bad
  <2> QED
    BY <1>1, <2>1, LeastOfNat
<1>3. CASE l = 0
  <2> DEFINE f == [k \in 0 .. 0 |-> m]
  <2>1. f = [k \in 0 .. 0 |-> IF k = 0 THEN m ELSE UpdateIntr(f[k - 1], seq[k])]
    OBVIOUS
  <2> HIDE DEF f
  <2> QED
    BY <1>2, <1>3, <2>1
<1>4. CASE l # 0
  <2>1. l \in Nat /\ l - 1 \in Nat /\ l - 1 \notin bad
    <3> HIDE DEF Exists
    <3>1. l \in Nat /\ l - 1 \in Nat /\ ~(l <= l - 1)
      BY <1>2, <1>4
    <3> HIDE DEF bad
    <3> QED
      BY <1>2, <3>1
  <2>2. PICK f : f = [k \in 0 .. l - 1 |-> IF k = 0 THEN m ELSE UpdateIntr(f[k - 1], seq[k])]
    BY <2>1
  <2> DEFINE g == [k \in 0 .. l |-> IF k = l THEN UpdateIntr(f[l - 1], seq[l]) ELSE f[k]]
  <2>3. ASSUME NEW k \in 0 .. l
        PROVE  g[k] = IF k = 0 THEN m ELSE UpdateIntr(g[k - 1], seq[k])
    <3>1. CASE k = l
      <4>1. l - 1 \in 0 .. l /\ l - 1 # l
        BY <2>1
      <4>2. g[l - 1] = f[l - 1]
        BY <4>1
      <4> QED
        BY <1>4, <3>1, <4>2
    <3>2. CASE k # l
      <4>1. k \in 0 .. l - 1 /\ g[k] = f[k]
        BY <2>1, <3>2
      <4>2. f[k] = IF k = 0 THEN m ELSE UpdateIntr(f[k - 1], seq[k])
        BY <2>2, <4>1
      <4>3. k # 0 => k - 1 \in 0 .. l /\ k - 1 # l
        BY <2>1, <4>1
      <4>4. k # 0 => g[k - 1] = f[k - 1]
        BY <4>3
      <4> HIDE DEF g
      <4> QED
        BY <4>1, <4>2, <4>4
    <3> QED
      BY <3>1, <3>2
  <2>4. g = [k \in 0 .. l |-> g[k]]
    OBVIOUS
  <2> HIDE DEF g
  <2>5. g = [k \in 0 .. l |-> IF k = 0 THEN m ELSE UpdateIntr(g[k - 1], seq[k])]
    BY <2>3, <2>4
  <2> QED
    BY <1>2, <2>5
<1> QED
  BY <1>3, <1>4

\* If the first update settles the chain, the others keep it settled.
LEMMA UpdateAllSettles ==
    ASSUME NEW m, NEW seq \in Seq(Pos), seq # <<>>, SettledBut(m, seq[1])
    PROVE  Settled(UpdateAll(m, seq))
<1> DEFINE n == Len(seq)
           u == CHOOSE f : f = [k \in 0 .. n |-> IF k = 0 THEN m ELSE UpdateIntr(f[k - 1], seq[k])]
           w == u[n]
<1>1. UpdateAll(m, seq) = [port |-> m.port, iei |-> w.iei, oei |-> w.oei, vector |-> w.vector, irq |-> w.irq]
  BY Zenon DEF UpdateAll
<1>2. n \in Nat \ {0} /\ \A k \in 1 .. n : seq[k] \in Pos
  OBVIOUS
<1>3. u = [k \in 0 .. n |-> IF k = 0 THEN m ELSE UpdateIntr(u[k - 1], seq[k])]
  BY <1>2, UpdatesExist
<1> HIDE DEF u, n
<1>4. ASSUME NEW k \in 1 .. n PROVE Settled(u[k]) /\ u[k].port = m.port
  <2> DEFINE Right(l) == Settled(u[l]) /\ u[l].port = m.port
             bad == {l \in 1 .. n : ~Right(l)}
  <2>1. SUFFICES ASSUME bad # {} PROVE FALSE
    OBVIOUS
  <2>2. PICK l \in bad : \A j \in bad : l <= j
    <3>1. bad \subseteq Nat
      BY <1>2
    <3> HIDE DEF bad
    <3> QED
      BY <2>1, <3>1, LeastOfNat
  <2>3. l \in 1 .. n /\ seq[l] \in Pos /\ u[l] = UpdateIntr(u[l - 1], seq[l])
    <3>1. l \in 1 .. n /\ l \in 0 .. n /\ l # 0
      BY <1>2, <2>2
    <3> HIDE DEF bad
    <3> QED
      BY <1>2, <1>3, <3>1
  <2>4. CASE l = 1
    <3>1. u[0] = m
      BY <1>2, <1>3
    <3>2. u[1] = UpdateIntr(m, seq[1])
      BY <2>3, <2>4, <3>1
    <3>3. Settled(u[1]) /\ u[1].port = m.port
      BY <2>3, <2>4, <3>2, UpdateSettles
    <3> QED
      BY <2>2, <2>4, <3>3
  <2>5. CASE l # 1
    <3>1. l - 1 \in 1 .. n /\ ~(l <= l - 1)
      BY <1>2, <2>3, <2>5
    <3>2. Settled(u[l - 1]) /\ u[l - 1].port = m.port
      BY <2>2, <3>1
    <3>3. Settled(u[l]) /\ u[l].port = m.port
      BY <2>3, <3>2, SettledIsBut, UpdateSettles
    <3> QED
      BY <2>2, <3>3
  <2> QED
    BY <2>4, <2>5
<1>5. Settled(w) /\ w.port = m.port
  BY <1>2, <1>4
<1> HIDE DEF w
<1> DEFINE r == UpdateAll(m, seq)
<1>6. /\ Chained(r) /\ r.port = w.port /\ r.iei = w.iei /\ r.oei = w.oei
      /\ r.vector = w.vector /\ r.irq = w.irq
  BY <1>1, <1>5 DEF Settled, Chained
<1> HIDE DEF r
<1>7. Settled(r)
  BY <1>5, <1>6, SettledByFields
<1> QED
  BY <1>7 DEF r

\* RETI: the first channel in service ends.
LEMMA EndedSettles ==
    ASSUME Settled(M), Shapes, NEW t \in Slots, port[t].in_service
    PROVE  Settled(Ended(M))
<1> DEFINE ended == {s \in Slots : M.port[s].in_service}
           s == First(ended)
           last == s[1]
           e == [M EXCEPT !.port[s].in_service = FALSE]
           seq == Reverse([i \in 1 .. last |-> i])
<1>1. t \in ended /\ ended \subseteq Slots
  BY SignalsLeavePorts
<1>2. s \in Slots
  <2> HIDE DEF ended
  <2> QED
    BY <1>1, FirstIsFirst
<1>3. last \in Pos /\ Pos = 1 .. Len(Chain) /\ last \in Nat /\ Len(Chain) \in Nat
  <2>1. last \in Pos
    BY <1>2 DEF Slots
  <2> HIDE DEF last
  <2> QED
    BY <2>1, ChainAssumption DEF Pos
<1>4. Ended(M) = UpdateAll(e, seq)
  BY <1>1 DEF Ended
<1>5. seq \in Seq(Pos) /\ seq # <<>> /\ seq[1] = last
  <2> HIDE DEF last
  <2> DEFINE q == [i \in 1 .. last |-> i]
  <2>1. q \in Seq(Pos) /\ Len(q) = last /\ \A i \in 1 .. last : q[i] = i
    BY <1>3
  <2>2. seq = [i \in 1 .. Len(q) |-> q[(Len(q) - i) + 1]]
    BY DEF Reverse
  <2> HIDE DEF q, seq
  <2>3. seq = [i \in 1 .. last |-> (last - i) + 1]
    <3>1. \A i \in 1 .. last : (last - i) + 1 \in 1 .. last
      BY <1>3
    <3> QED
      BY <2>1, <2>2, <3>1
  <2> QED
    BY <1>3, <2>3
<1>6. e = Set(s, [port[s] EXCEPT !.in_service = FALSE])
  BY <1>2 DEF Set, M, Shapes
<1> DEFINE p == [port[s] EXCEPT !.in_service = FALSE]
<1> HIDE DEF s, seq, p, last
<1>7. SettledBut(e, last)
  <2>0. M.port = port /\ Chained(M) /\ e = [M EXCEPT !.port[s] = p]
    BY <1>6 DEF Settled, M, Set, p
  <2> HIDE DEF e
  <2>1. /\ Chained(e) /\ e.port = [M.port EXCEPT ![s] = p]
        /\ e.iei = M.iei /\ e.oei = M.oei /\ e.vector = M.vector /\ e.irq = M.irq
    BY <2>0 DEF Chained
  <2>2. \A r \in Slots : r[1] # last => r # s
    BY DEF last
  <2>3. \A r \in Slots : r[1] # last => e.port[r] = M.port[r]
    <3>1. \A r \in Slots : r # s => [M.port EXCEPT ![s] = p][r] = M.port[r]
      BY <2>0 DEF Chained
    <3> QED
      BY <2>1, <2>2, <3>1
  <2> QED
    BY <1>3, <2>1, <2>3, OtherDevices
<1> HIDE DEF e
<1> QED
  BY <1>4, <1>5, <1>7, UpdateAllSettles
-----------------------------------------------------------------------------
(* What a port remembers. *)

PioPort == [mode : {"input", "output", "control"}, expects : {"none", "dir", "mask"},
            enb : BOOLEAN, tmp : BOOLEAN, req : BOOLEAN, in_service : BOOLEAN]
SioPort == [err : BOOLEAN, recv : Nat, stat : BOOLEAN, send : BOOLEAN, over_flow : BOOLEAN,
            fifo : Nat, wr1 : Wr1, in_service : BOOLEAN]
PortOf(s) == IF IsPio(s[1]) THEN PioPort ELSE SioPort
Typed == DOMAIN port = Slots /\ \A s \in Slots : port[s] \in PortOf(s)

ChainIInv == IInv /\ Typed /\ Settled(M)

\* The machine after a reset: nobody asks.
LEMMA ResetSettles ==
    ASSUME NEW w, DOMAIN w = {"port", "iei", "oei", "vector", "irq"}, DOMAIN w.vector = Pos,
           NEW m, m = StrobedAtReset(Resetted(w))
    PROVE  /\ Settled(m) /\ Silent(m)
           /\ DOMAIN m.port = Slots /\ \A s \in Slots : m.port[s] \in PortOf(s)
<1> DEFINE r == Resetted(w)
           idle == [s \in Slots |-> IF IsPio(s[1]) THEN Pio ELSE Sio]
<1>1. /\ Chained(r) /\ r.port = idle /\ r.iei = [i \in Pos |-> TRUE] /\ r.oei = [i \in Pos |-> TRUE]
      /\ r.vector = w.vector /\ r.irq = {}
  BY DEF Resetted, Chained
<1>2. /\ Pio \in PioPort /\ Sio \in SioPort
      /\ Pio.in_service = FALSE /\ Pio.enb = FALSE /\ Sio.in_service = FALSE /\ Cause(Sio) = "none"
  BY DEF Pio, Sio, PioPort, SioPort, NoInterrupts, Wr1, Cause
<1>3. ASSUME NEW v, DOMAIN v.port = Slots,
             \A s \in Slots : v.port[s] = idle[s] \/ (IsPio(s[1]) /\ v.port[s] = [Pio EXCEPT !.req = TRUE])
      PROVE  /\ \A s \in Slots : ~v.port[s].in_service /\ ~Requests(v, s) /\ v.port[s] \in PortOf(s)
             /\ \A j \in Pos : Asking(v, j) = {} /\ InService(v, j) = FALSE
  <2>1. ASSUME NEW s \in Slots
        PROVE  ~v.port[s].in_service /\ ~Requests(v, s) /\ v.port[s] \in PortOf(s)
    <3>1. [Pio EXCEPT !.req = TRUE] \in PioPort /\ ~[Pio EXCEPT !.req = TRUE].enb
          /\ ~[Pio EXCEPT !.req = TRUE].in_service
      BY DEF Pio, PioPort
    <3>2. idle[s] = IF IsPio(s[1]) THEN Pio ELSE Sio
      OBVIOUS
    <3> HIDE DEF idle
    <3>3. CASE IsPio(s[1])
      BY <1>2, <1>3, <3>1, <3>2, <3>3 DEF Requests, PortOf
    <3>4. CASE ~IsPio(s[1])
      BY <1>2, <1>3, <3>2, <3>4 DEF Requests, PortOf
    <3> QED
      BY <3>3, <3>4
  <2>2. \A j \in Pos : \A c \in Channel : <<j, c>> \in Slots
    BY DEF Slots
  <2> QED
    BY <2>1, <2>2 DEF Asking, InService
<1> HIDE DEF r, idle
<1>4. DOMAIN r.port = Slots
  BY <1>1 DEF Chained
<1>5. /\ \A s \in Slots : r.port[s] \in PortOf(s)
      /\ \A j \in Pos : Asking(r, j) = {} /\ InService(r, j) = FALSE
  BY <1>1, <1>3, <1>4
<1>6. Settled(r) /\ Silent(r)
  <2>1. SignalsShow(r, Busy(r))
    BY <1>1, <1>5 DEF SignalsShow, Busy, Clear
  <2>2. \A j \in Pos : BitTrue(r, j) /\ VectorTrue(r, j)
    BY <1>1, <1>5 DEF BitTrue, VectorTrue
  <2> QED
    BY <1>1, <1>5, <2>1, <2>2 DEF Settled, Silent
<1>7. CASE ~IsPio(1)
  BY <1>4, <1>5, <1>6, <1>7 DEF StrobedAtReset, r
<1>8. CASE IsPio(1)
  <2> DEFINE v == [r EXCEPT !.port[<<1, 0>>].req = TRUE]
  <2>1. m = UpdateIntr(v, 1)
    BY <1>8 DEF StrobedAtReset, r
  <2>2. 1 \in Pos /\ <<1, 0>> \in Slots
    <3>1. Len(Chain) \in Nat \ {0}
      BY ChainAssumption
    <3> QED
      BY <3>1 DEF Pos, Slots, Channel
  <2>3. r.port[<<1, 0>>] = Pio
    BY <1>1, <1>8, <2>2 DEF idle
  <2>4. /\ Chained(v) /\ v.port = [r.port EXCEPT ![<<1, 0>>] = [Pio EXCEPT !.req = TRUE]]
        /\ v.iei = r.iei /\ v.oei = r.oei /\ v.vector = r.vector /\ v.irq = r.irq
    BY <1>1, <2>2, <2>3 DEF Chained
  <2> HIDE DEF v
  <2>5. \A s \in Slots : v.port[s] = IF s = <<1, 0>> THEN [Pio EXCEPT !.req = TRUE] ELSE r.port[s]
    BY <1>4, <2>4
  <2>6. DOMAIN v.port = Slots /\ \A s \in Slots : s[1] # 1 => v.port[s] = r.port[s]
    BY <2>4, <2>5 DEF Chained
  <2>7. SettledBut(v, 1)
    BY <1>6, <2>2, <2>4, <2>6, OtherDevices
  <2>8. Settled(m) /\ m.port = v.port
    BY <2>1, <2>2, <2>7, UpdateSettles
  <2>9. DOMAIN m.port = Slots /\ \A s \in Slots : m.port[s] = idle[s]
                                   \/ (IsPio(s[1]) /\ m.port[s] = [Pio EXCEPT !.req = TRUE])
    BY <1>1, <1>8, <2>5, <2>6, <2>8
  <2>10. /\ \A s \in Slots : m.port[s] \in PortOf(s)
         /\ \A j \in Pos : Asking(m, j) = {}
    BY <1>3, <2>9
  <2> QED
    BY <2>8, <2>9, <2>10 DEF Silent
<1> QED
  BY <1>7, <1>8

LEMMA InitChainIInv == Init => ChainIInv
<1> SUFFICES ASSUME Init PROVE ChainIInv
  OBVIOUS
<1>1. IInv
  BY InitIInv
<1> DEFINE m == StrobedAtReset(Resetted(Blank))
<1>2. /\ port = m.port /\ iei = m.iei /\ oei = m.oei /\ vector = m.vector /\ cpu.irq = {}
  BY DEF Init
<1>3. DOMAIN Blank = {"port", "iei", "oei", "vector", "irq"} /\ DOMAIN Blank.vector = Pos
  BY DEF Blank
<1>4. /\ Settled(m) /\ Silent(m)
      /\ DOMAIN m.port = Slots /\ \A s \in Slots : m.port[s] \in PortOf(s)
  BY <1>3, ResetSettles
<1> DEFINE w == M
<1> HIDE DEF m
<1>5. /\ Chained(w) /\ w.port = m.port /\ w.iei = m.iei /\ w.oei = m.oei /\ w.vector = m.vector
      /\ w.irq = {}
  BY <1>2, <1>4 DEF M, Chained
<1> HIDE DEF w
<1>6. Settled(w)
  BY <1>4, <1>5, SilentSettles
<1>7. Typed
  BY <1>2, <1>4 DEF Typed
<1> QED
  BY <1>1, <1>6, <1>7 DEF ChainIInv, w

\* One port changes and the chain is told, unless that makes no difference.
LEMMA PortChange ==
    ASSUME ChainIInv, NEW s \in Slots, NEW p \in PortOf(s), NEW told, told \/ Alike(s, p, port[s]),
           NEW m, m = UpdateIf(told, s, p), Executed(m) \/ Becomes(m)
    PROVE  Typed' /\ Settled(M)'
<1>1. Settled(m) /\ m.port = [port EXCEPT ![s] = p]
  BY PortSettles, PortSet DEF ChainIInv
<1>2. Settled(M)'
  BY <1>1, TakenOver DEF ChainIInv, IInv
<1>3. port' = [port EXCEPT ![s] = p]
  BY <1>1 DEF Executed, Becomes
<1>4. Typed'
  BY <1>3 DEF Typed, ChainIInv
<1> QED
  BY <1>2, <1>4

\* The chain is told.
LEMMA ToldChange ==
    ASSUME ChainIInv, NEW s \in Slots, NEW p \in PortOf(s),
           Executed(Update(s, p)) \/ Becomes(Update(s, p))
    PROVE  Typed' /\ Settled(M)'
<1>1. Update(s, p) = UpdateIf(TRUE, s, p)
  BY DEF UpdateIf
<1> QED
  BY <1>1, PortChange

LEMMA PioLines ==
    ASSUME ChainIInv, NEW s \in PioSlots,
           \/ WriteExpected(s) \/ WriteIntrControl(s) \/ WriteMode(s)
           \/ PioWriteData(s) \/ PioInput(s)
    PROVE  Typed' /\ Settled(M)'
<1>1. s \in Slots /\ IsPio(s[1]) /\ port[s] \in PioPort /\ PortOf(s) = PioPort
  BY ProgramAssumption DEF PioSlots, ChainIInv, Typed, PortOf
<1>2. \E p \in PioPort :
         \/ Executed(Update(s, p)) \/ Becomes(Update(s, p))
         \/ /\ p.in_service = port[s].in_service /\ p.enb = port[s].enb /\ p.req = port[s].req
            /\ Executed(Set(s, p))
  <2>1. CASE WriteExpected(s)
    <3> DEFINE a == [port[s] EXCEPT !.expects = "none"]
               b == [port[s] EXCEPT !.expects = "none", !.enb = port[s].tmp]
    <3>1. Executed(Set(s, a)) \/ Executed(Update(s, b))
      BY <2>1 DEF WriteExpected, Command
    <3>2. /\ a \in PioPort /\ a.in_service = port[s].in_service /\ a.enb = port[s].enb /\ a.req = port[s].req
          /\ b \in PioPort
      BY <1>1 DEF PioPort
    <3> HIDE DEF a, b
    <3> QED
      BY <3>1, <3>2
  <2>2. CASE WriteIntrControl(s)
    <3>1. PICK on \in BOOLEAN, mask \in BOOLEAN :
            Executed(Update(s, IF mask
                               THEN [port[s] EXCEPT !.expects = "mask", !.req = FALSE,
                                                    !.tmp = on, !.enb = FALSE]
                               ELSE [port[s] EXCEPT !.enb = on]))
      BY <2>2 DEF WriteIntrControl, Command
    <3> DEFINE p == IF mask THEN [port[s] EXCEPT !.expects = "mask", !.req = FALSE,
                                                 !.tmp = on, !.enb = FALSE]
                    ELSE [port[s] EXCEPT !.enb = on]
    <3>2. p \in PioPort
      BY <1>1 DEF PioPort
    <3>3. Executed(Update(s, p))
      BY <3>1
    <3> HIDE DEF p
    <3> QED
      BY <3>2, <3>3
  <2>3. CASE WriteMode(s)
    <3>1. PICK mode \in {"input", "output", "control"} :
            Executed(Set(s, [port[s] EXCEPT !.mode = mode,
                                            !.expects = IF mode = "control" THEN "dir" ELSE "none"]))
      BY <2>3 DEF WriteMode, Command
    <3> DEFINE p == [port[s] EXCEPT !.mode = mode,
                                    !.expects = IF mode = "control" THEN "dir" ELSE "none"]
    <3>2. /\ p \in PioPort /\ p.in_service = port[s].in_service /\ p.enb = port[s].enb
          /\ p.req = port[s].req
      BY <1>1 DEF PioPort
    <3>3. Executed(Set(s, p))
      BY <3>1
    <3> HIDE DEF p
    <3> QED
      BY <3>2, <3>3
  <2>4. ASSUME NEW met \in BOOLEAN
        PROVE  \E p \in PioPort : DataChanged(s, met) = Update(s, p)
    <3>1. [port[s] EXCEPT !.req = met] \in PioPort /\ [port[s] EXCEPT !.req = TRUE] \in PioPort
      BY <1>1 DEF PioPort
    <3> QED
      BY <3>1 DEF DataChanged, Monitored, Strobed
  <2>5. CASE PioWriteData(s) \/ PioInput(s)
    <3>1. PICK met \in BOOLEAN : Executed(DataChanged(s, met)) \/ Becomes(DataChanged(s, met))
      BY <2>5 DEF PioWriteData, PioInput, Command
    <3> QED
      BY <2>4, <3>1
  <2> QED
    BY <2>1, <2>2, <2>3, <2>5
<1>3. PICK p \in PioPort :
         \/ Executed(Update(s, p)) \/ Becomes(Update(s, p))
         \/ /\ p.in_service = port[s].in_service /\ p.enb = port[s].enb /\ p.req = port[s].req
            /\ Executed(Set(s, p))
  BY <1>2
<1>4. CASE Executed(Update(s, p)) \/ Becomes(Update(s, p))
  BY <1>1, <1>4, ToldChange
<1>5. CASE /\ p.in_service = port[s].in_service /\ p.enb = port[s].enb /\ p.req = port[s].req
           /\ Executed(Set(s, p))
  <2>1. Alike(s, p, port[s]) /\ Set(s, p) = UpdateIf(FALSE, s, p)
    BY <1>1, <1>5 DEF Alike, UpdateIf
  <2> QED
    BY <1>1, <1>5, <2>1, PortChange
<1> QED
  BY <1>3, <1>4, <1>5

LEMMA SioLines ==
    ASSUME ChainIInv, NEW s \in SioSlots,
           \/ WriteWr1(s) \/ ResetCause(s) \/ ResetChannel(s) \/ SioWriteData(s)
           \/ SioReadData(s) \/ StatusChange(s) \/ SendEvent(s) \/ RecvEvent(s)
    PROVE  Typed' /\ Settled(M)'
<1> DEFINE old == port[s]
           Like(p) == p.in_service = old.in_service /\ Cause(p) = Cause(old)
           Happens(m) == Executed(m) \/ Becomes(m)
<1>1. s \in Slots /\ ~IsPio(s[1]) /\ old \in SioPort /\ PortOf(s) = SioPort
  BY ProgramAssumption DEF SioSlots, ChainIInv, Typed, PortOf
<1> HIDE DEF Happens, old
<1>2. CASE \E p \in SioPort : Happens(Update(s, p))
  BY <1>1, <1>2, ToldChange DEF Happens
<1>3. CASE \E p \in SioPort : \E told : (told \/ Like(p)) /\ Happens(UpdateIf(told, s, p))
  <2>0. PICK p \in SioPort : \E told : (told \/ Like(p)) /\ Happens(UpdateIf(told, s, p))
    BY <1>3
  <2>1. PICK told : (told \/ Like(p)) /\ Happens(UpdateIf(told, s, p))
    BY <2>0
  <2>2. Like(p) => Alike(s, p, port[s])
    BY <1>1 DEF Alike, old
  <2> QED
    BY <1>1, <2>1, <2>2, PortChange DEF Happens
<1>4. /\ old.err \in BOOLEAN /\ old.stat \in BOOLEAN /\ old.send \in BOOLEAN
      /\ old.over_flow \in BOOLEAN /\ old.in_service \in BOOLEAN
      /\ old.recv \in Nat /\ old.fifo \in Nat /\ old.wr1 \in Wr1
  BY <1>1 DEF SioPort
<1>5. CASE WriteWr1(s)
  <2>1. PICK value \in Wr1Values : value # old.wr1 /\ Executed(Wr1Written(s, value))
    BY <1>5 DEF WriteWr1, old
  <2> DEFINE p == [old EXCEPT !.wr1 = value]
  <2>2. Wr1Written(s, value) = Update(s, p)
    BY <2>1 DEF Wr1Written, UpdateIf, old
  <2>3. p \in SioPort
    BY <1>1, ProgramAssumption DEF SioPort
  <2> QED
    BY <1>2, <2>1, <2>2, <2>3 DEF Happens
<1>6. CASE ResetCause(s)
  <2> DEFINE a == [old EXCEPT !.stat = FALSE]
             b == [old EXCEPT !.send = FALSE]
             c == [old EXCEPT !.err = FALSE, !.over_flow = FALSE]
  <2>1. \/ Executed(Update(s, a)) \/ Executed(Update(s, b)) \/ Executed(UpdateIf(old.err, s, c))
    BY <1>6 DEF ResetCause, old
  <2>2. a \in SioPort /\ b \in SioPort /\ c \in SioPort
    BY <1>1 DEF SioPort
  <2>3. old.err \/ Like(c)
    BY <1>1, <1>4 DEF SioPort, Cause
  <2> HIDE DEF a, b, c, Like
  <2> QED
    BY <1>2, <1>3, <2>1, <2>2, <2>3 DEF Happens
<1>7. CASE ResetChannel(s)
  <2> DEFINE p == [Sio EXCEPT !.in_service = old.in_service]
             told == old.err \/ old.recv > 0 \/ old.stat \/ old.send
  <2>1. Executed(UpdateIf(told, s, p))
    BY <1>7 DEF ResetChannel, Command, old
  <2>2. p \in SioPort /\ p.in_service = old.in_service /\ Cause(p) = "none"
    BY <1>4 DEF Sio, SioPort, NoInterrupts, Wr1, Cause
  <2>3. told \/ Like(p)
    <3>1. ~told => Cause(old) = "none"
      BY <1>4 DEF Cause
    <3> QED
      BY <2>2, <3>1
  <2> HIDE DEF p, told, Like
  <2> QED
    BY <1>3, <2>1, <2>2, <2>3 DEF Happens
<1>8. CASE SioWriteData(s)
  <2>1. [old EXCEPT !.send = FALSE] \in SioPort
    BY <1>1 DEF SioPort
  <2> QED
    BY <1>2, <1>8, <2>1 DEF SioWriteData, Happens, old
<1>9. CASE SioReadData(s)
  <2> DEFINE left == IF old.recv > 0 THEN old.recv - 1 ELSE 0
             p == [old EXCEPT !.recv = left, !.fifo = @ - 1]
             told == old.recv = 1
  <2>1. old.fifo > 0 /\ Executed(UpdateIf(told, s, p))
    BY <1>9 DEF SioReadData, old
  <2>2. left \in Nat /\ old.fifo - 1 \in Nat /\ (told \/ (left > 0 <=> old.recv > 0))
    BY <1>4, <2>1
  <2> HIDE DEF left, told
  <2>3. p \in SioPort
    BY <1>1, <2>2 DEF SioPort
  <2>4. told \/ Like(p)
    BY <1>1, <2>2 DEF SioPort, Cause
  <2> HIDE DEF p, Like
  <2> QED
    BY <1>3, <2>1, <2>3, <2>4 DEF Happens
<1>10. CASE StatusChange(s)
  <2>1. [old EXCEPT !.stat = TRUE] \in SioPort
    BY <1>1 DEF SioPort
  <2> QED
    BY <1>2, <1>10, <2>1 DEF StatusChange, Happens, old
<1>11. CASE SendEvent(s)
  <2>1. PICK under_run \in BOOLEAN :
          Becomes(UpdateIf((under_run /\ ~old.stat) \/ ~old.send, s,
                           [old EXCEPT !.stat = @ \/ under_run, !.send = TRUE]))
    BY <1>11 DEF SendEvent, old
  <2> DEFINE told == (under_run /\ ~old.stat) \/ ~old.send
             p == [old EXCEPT !.stat = @ \/ under_run, !.send = TRUE]
  <2>2. p \in SioPort
    BY <1>1, <1>4 DEF SioPort
  <2>3. told \/ Like(p)
    <3>1. ~told => old.send = TRUE /\ (old.stat \/ under_run) = old.stat
      BY <1>4
    <3> QED
      BY <1>1, <3>1 DEF SioPort, Cause
  <2> HIDE DEF p, told, Like
  <2> QED
    BY <1>3, <2>1, <2>2, <2>3 DEF Happens, p, told
<1>12. CASE RecvEvent(s)
  <2>1. CASE old.fifo = RecvSize
    <3> DEFINE p == [old EXCEPT !.over_flow = TRUE, !.err = @ \/ ~old.over_flow]
               told == ~old.over_flow /\ ~old.err
    <3>1. Becomes(UpdateIf(told, s, p))
      BY <1>12, <2>1 DEF RecvEvent, old
    <3>2. p \in SioPort
      BY <1>1, <1>4 DEF SioPort
    <3>3. told \/ Like(p)
      <4>1. ~told => (old.err \/ ~old.over_flow) = old.err
        BY <1>4
      <4> QED
        BY <1>1, <4>1 DEF SioPort, Cause
    <3> HIDE DEF p, told, Like
    <3> QED
      BY <1>3, <3>1, <3>2, <3>3 DEF Happens
  <2>2. CASE old.fifo # RecvSize
    <3>1. PICK first \in BOOLEAN, abort \in BOOLEAN :
            LET req == old.wr1.rx = "all" \/ (old.wr1.rx = "first" /\ first)
            IN Becomes(UpdateIf((req /\ old.recv = 0) \/ (abort /\ ~old.stat), s,
                        [old EXCEPT !.fifo = @ + 1, !.recv = IF req THEN @ + 1 ELSE @,
                                    !.stat = @ \/ abort]))
      BY <1>12, <2>2 DEF RecvEvent, old
    <3> DEFINE req == old.wr1.rx = "all" \/ (old.wr1.rx = "first" /\ first)
               told == (req /\ old.recv = 0) \/ (abort /\ ~old.stat)
               recv == IF req THEN old.recv + 1 ELSE old.recv
               stat == old.stat \/ abort
               p == [old EXCEPT !.fifo = old.fifo + 1, !.recv = recv, !.stat = stat]
    <3>2. Becomes(UpdateIf(told, s, p))
      BY <3>1
    <3> HIDE DEF req
    <3>3. /\ old.fifo + 1 \in Nat /\ recv \in Nat /\ stat \in BOOLEAN
          /\ told \/ ((recv > 0 <=> old.recv > 0) /\ stat = old.stat)
      BY <1>4
    <3> HIDE DEF recv, stat, told
    <3>4. p \in SioPort
      BY <1>1, <3>3 DEF SioPort
    <3>5. told \/ Like(p)
      BY <1>1, <3>3 DEF SioPort, Cause
    <3> HIDE DEF p, Like
    <3> QED
      BY <1>3, <3>2, <3>4, <3>5 DEF Happens
  <2> QED
    BY <2>1, <2>2
<1> QED
  BY <1>5, <1>6, <1>7, <1>8, <1>9, <1>10, <1>11, <1>12

\* The other instructions and calls.
LEMMA GateLines ==
    ASSUME ChainIInv, TimerOutput \/ WriteMask
    PROVE  Typed' /\ Settled(M)'
<1>1. PICK in : Executed(GateChanged(M, in)) \/ Becomes(GateChanged(M, in))
  BY DEF TimerOutput, WriteMask
<1> DEFINE w == GateChanged(M, in)
<1>2. /\ Chained(w) /\ w.port = M.port /\ w.iei = M.iei /\ w.oei = M.oei /\ w.vector = M.vector
      /\ \A j : j # 0 => (j \in w.irq <=> j \in M.irq)
  BY DEF GateChanged, M, Chained, ChainIInv, Typed
<1> HIDE DEF w
<1>3. Settled(w)
  <2>1. \A j \in Pos : InService(w, j) = InService(M, j) /\ Asking(w, j) = Asking(M, j)
    BY <1>2, DevicesApart
  <2>2. Busy(w) = Busy(M)
    BY <2>1 DEF Busy
  <2>3. \A j \in Pos : j # 0 /\ BitTrue(M, j) /\ VectorTrue(M, j)
    BY PositionsAreNat DEF ChainIInv, Settled
  <2>4. \A j \in Pos : BitTrue(w, j) /\ VectorTrue(w, j)
    BY <1>2, <2>1, <2>3 DEF BitTrue, VectorTrue
  <2> QED
    BY <1>2, <2>2, <2>4 DEF ChainIInv, Settled, SignalsShow
<1>4. Settled(M)'
  BY <1>1, <1>3, TakenOver DEF w, ChainIInv, IInv
<1>5. port' = port
  BY <1>1, SignalsLeavePorts DEF Executed, Becomes
<1>6. Typed'
  BY <1>5 DEF Typed, ChainIInv
<1> QED
  BY <1>4, <1>6

\* Steps in which the chain has no part.
LEMMA StillLines ==
    ASSUME ChainIInv, UNCHANGED chain, cpu'.irq = cpu.irq
    PROVE  Typed' /\ Settled(M)'
<1>1. M' = M /\ port' = port
  BY DEF chain, M
<1>2. Typed'
  BY <1>1 DEF ChainIInv, Typed
<1> DEFINE w == M'
<1>3. w = M
  BY <1>1
<1> HIDE DEF w
<1>4. Settled(w)
  BY <1>3 DEF ChainIInv
<1> QED
  BY <1>2, <1>4 DEF w

LEMMA InstructionLines ==
    ASSUME ChainIInv, EnableInterrupts \/ DisableInterrupts \/ Other \/ Return
    PROVE  Typed' /\ Settled(M)'
<1>1. DOMAIN cpu = {"irq", "iff1", "after_ei"}
  BY DEF ChainIInv, IInv, Shapes
<1>2. UNCHANGED chain /\ cpu'.irq = cpu.irq
  BY <1>1 DEF EnableInterrupts, DisableInterrupts, Other, Return, Executed, M, chain
<1> QED
  BY <1>2, StillLines

\* The bits are cleared without looking.
LEMMA ClearedLines ==
    ASSUME NEW m, Settled(m), Silent(m),
           port' = m.port, iei' = m.iei, oei' = m.oei, vector' = m.vector, cpu'.irq = {}
    PROVE  Settled(M)'
<1> DEFINE w == M'
<1>1. /\ Chained(w) /\ w.port = m.port /\ w.iei = m.iei /\ w.oei = m.oei /\ w.vector = m.vector
      /\ w.irq = {}
  BY DEF M, Settled, Chained
<1> HIDE DEF w
<1>2. Settled(w)
  BY <1>1, SilentSettles
<1> QED
  BY <1>2 DEF w

LEMMA InterruptLines == ASSUME ChainIInv, Interrupt PROVE Typed' /\ Settled(M)'
<1> DEFINE m == GetIntrAck(M)
           s == Answers(M)
           p == Taken(port[s], IsPio(s[1]))
<1>1. /\ port' = m.port /\ iei' = m.iei /\ oei' = m.oei /\ vector' = m.vector
      /\ cpu'.irq = {}
  BY DEF Interrupt, ChainIInv, IInv, Shapes
<1>2. Settled(M)'
  BY <1>1, AcknowledgeSettles, ClearedLines DEF ChainIInv, IInv
<1>3. CASE s = Plain
  <2>1. port' = port
    BY <1>1, <1>3, SignalsLeavePorts DEF GetIntrAck
  <2> QED
    BY <1>2, <2>1 DEF ChainIInv, Typed
<1>4. CASE s # Plain
  <2>1. s \in Slots
    BY <1>4, AnswersAsk DEF ChainIInv
  <2>2. m = Update(s, p)
    BY <1>4 DEF GetIntrAck, Update, Set, M
  <2>3. port' = [port EXCEPT ![s] = p]
    <3>1. m.port = [port EXCEPT ![s] = p]
      <4> HIDE DEF s, p, m
      <4> QED
        BY <2>2, PortSet
    <3> QED
      BY <1>1, <3>1
  <2>4. p \in PortOf(s)
    <3>1. CASE IsPio(s[1])
      <4>1. port[s] \in PioPort
        BY <2>1, <3>1 DEF ChainIInv, Typed, PortOf
      <4> QED
        BY <3>1, <4>1 DEF Taken, PortOf, PioPort
    <3>2. CASE ~IsPio(s[1])
      <4>1. port[s] \in SioPort
        BY <2>1, <3>2 DEF ChainIInv, Typed, PortOf
      <4> QED
        BY <3>2, <4>1 DEF Taken, PortOf, SioPort
    <3> QED
      BY <3>1, <3>2
  <2> HIDE DEF s, p
  <2>5. Typed'
    BY <2>1, <2>3, <2>4 DEF ChainIInv, Typed
  <2> QED
    BY <1>2, <2>5
<1> QED
  BY <1>3, <1>4

\* A channel that is in service no longer.
LEMMA ServedTyped ==
    ASSUME ChainIInv, NEW s \in Slots, port' = [port EXCEPT ![s].in_service = FALSE]
    PROVE  Typed' /\ [port[s] EXCEPT !.in_service = FALSE] \in PortOf(s)
<1> DEFINE p == [port[s] EXCEPT !.in_service = FALSE]
<1>1. p \in PortOf(s)
  <2>1. CASE IsPio(s[1])
    <3>1. port[s] \in PioPort
      BY <2>1 DEF ChainIInv, Typed, PortOf
    <3> QED
      BY <2>1, <3>1 DEF PortOf, PioPort
  <2>2. CASE ~IsPio(s[1])
    <3>1. port[s] \in SioPort
      BY <2>2 DEF ChainIInv, Typed, PortOf
    <3> QED
      BY <2>2, <3>1 DEF PortOf, SioPort
  <2> QED
    BY <2>1, <2>2
<1>2. port' = [port EXCEPT ![s] = p]
  OBVIOUS
<1>3. Typed'
  <2> HIDE DEF p
  <2> QED
    BY <1>1, <1>2 DEF ChainIInv, Typed
<1> QED
  BY <1>1, <1>3

LEMMA ReturnLines == ASSUME ChainIInv, ReturnFromInterrupt PROVE Typed' /\ Settled(M)'
<1> DEFINE m == Ended(M)
           ended == {s \in Slots : M.port[s].in_service}
<1>1. Top \in Slots /\ port[Top].in_service /\ First({s \in Slots : port[s].in_service}) = Top
  BY TopIsFirst DEF ReturnFromInterrupt, ChainIInv
<1>2. Settled(m)
  BY <1>1, EndedSettles DEF ChainIInv, IInv
<1>3. Settled(M)'
  BY <1>2, TakenOver DEF ReturnFromInterrupt, ChainIInv, IInv
<1>4. m.port = [port EXCEPT ![Top].in_service = FALSE]
  <2>1. ended # {} /\ First(ended) = Top
    BY <1>1, SignalsLeavePorts
  <2>2. m.port = [M EXCEPT !.port[Top].in_service = FALSE].port
    BY <2>1, SignalsLeavePorts DEF Ended
  <2> QED
    BY <2>2 DEF M
<1>5. Typed'
  BY <1>1, <1>4, ServedTyped DEF ReturnFromInterrupt, Executed
<1> QED
  BY <1>3, <1>5

LEMMA EndOfInterruptLines ==
    ASSUME ChainIInv, NEW i \in Pos, EndOfInterrupt(i) PROVE Typed' /\ Settled(M)'
<1> DEFINE served == {c \in Channel : port[<<i, c>>].in_service}
           s == <<i, Min(served)>>
           p == [port[s] EXCEPT !.in_service = FALSE]
<1>1. CASE served = {}
  <2>1. Executed(M)
    BY <1>1 DEF EndOfInterrupt
  <2>2. UNCHANGED chain /\ cpu'.irq = cpu.irq
    BY <2>1 DEF Executed, M, chain, ChainIInv, IInv, Shapes
  <2> QED
    BY <2>2, StillLines
<1>2. CASE served # {}
  <2>1. Executed(Update(s, p))
    BY <1>2 DEF EndOfInterrupt
  <2>2. s \in Slots
    <3>1. served \subseteq Channel /\ \A c \in Channel : c = 0 \/ c = 1
      BY DEF Channel
    <3> HIDE DEF served
    <3>2. \E c \in served : \A d \in served : c <= d
      BY <1>2, <3>1
    <3>3. Min(served) \in served
      BY <3>2 DEF Min
    <3> QED
      BY <3>1, <3>3 DEF Slots
  <2>3. port' = [port EXCEPT ![s] = p]
    BY <2>1, PortSet DEF Executed
  <2> HIDE DEF served, s
  <2>4. Typed' /\ p \in PortOf(s)
    BY <2>2, <2>3, ServedTyped
  <2>5. Settled(M)'
    BY <2>1, <2>2, <2>4, ToldChange
  <2> QED
    BY <2>4, <2>5
<1> QED
  BY <1>1, <1>2

LEMMA ResetLines == ASSUME ChainIInv, Reset PROVE Typed' /\ Settled(M)'
<1> DEFINE m == StrobedAtReset(Resetted(M))
<1>1. /\ port' = m.port /\ iei' = m.iei /\ oei' = m.oei /\ vector' = m.vector /\ cpu'.irq = {}
  BY DEF Reset
<1>2. DOMAIN M = {"port", "iei", "oei", "vector", "irq"} /\ DOMAIN M.vector = Pos
  BY DEF ChainIInv, Settled, Chained
<1>3. /\ Settled(m) /\ Silent(m)
      /\ DOMAIN m.port = Slots /\ \A s \in Slots : m.port[s] \in PortOf(s)
  BY <1>2, ResetSettles
<1> HIDE DEF m
<1>4. Settled(M)'
  BY <1>1, <1>3, ClearedLines
<1>5. Typed'
  BY <1>1, <1>3 DEF Typed
<1> QED
  BY <1>4, <1>5

LEMMA NextChainIInv == ChainIInv /\ [Next]_vars => ChainIInv'
<1> SUFFICES ASSUME ChainIInv, [Next]_vars PROVE Typed' /\ Settled(M)'
  BY NextIInv DEF ChainIInv
<1>1. CASE Interrupt
  BY <1>1, InterruptLines
<1>2. CASE EnableInterrupts \/ DisableInterrupts \/ Other \/ Return
  BY <1>2, InstructionLines
<1>3. CASE ReturnFromInterrupt
  BY <1>3, ReturnLines
<1>4. CASE \E s \in PioSlots : \/ WriteExpected(s) \/ WriteIntrControl(s) \/ WriteMode(s)
                               \/ PioWriteData(s) \/ PioInput(s)
  BY <1>4, PioLines
<1>5. CASE \E s \in SioSlots : \/ WriteWr1(s) \/ ResetCause(s) \/ ResetChannel(s)
                               \/ SioWriteData(s) \/ SioReadData(s)
                               \/ StatusChange(s) \/ SendEvent(s) \/ RecvEvent(s)
  BY <1>5, SioLines
<1>6. CASE \E i \in Pos : ~IsPio(i) /\ EndOfInterrupt(i)
  BY <1>6, EndOfInterruptLines
<1>7. CASE TimerOutput \/ WriteMask
  BY <1>7, GateLines
<1>8. CASE Reset
  BY <1>8, ResetLines
<1>9. CASE UNCHANGED vars
  BY <1>9, StillLines DEF vars
<1> QED
  BY <1>1, <1>2, <1>3, <1>4, <1>5, <1>6, <1>7, <1>8, <1>9 DEF Next

LEMMA LinesInductive == Spec => []ChainIInv
BY InitChainIInv, NextChainIInv, PTL DEF Spec

\* What the CPU is answered when it takes an interrupt.
Answered ==
    LET f == Last(stack')
    IN Len(stack') > Len(stack) =>
           IF f = Plain THEN cpu.irq = {0}
           ELSE IsPio(f[1]) \/ vector[f[1]] \in {NoCause, <<f[2], AckCause(port[f])>>}

LEMMA InterruptAnswered == ASSUME ChainIInv, Interrupt PROVE Answered
<1> DEFINE s == Answers(M)
<1>1. stack \in Seq(Frames) /\ s \in Frames
  BY AnswersAsk DEF ChainIInv, IInv, Shapes, Frames
<1>2. Last(stack') = s
  <2> HIDE DEF s
  <2>1. stack' = Append(stack, s)
    BY DEF Interrupt, s
  <2>2. Len(stack') = Len(stack) + 1 /\ stack'[Len(stack) + 1] = s
    BY <1>1, <2>1, AppendedStack
  <2> QED
    BY <2>2 DEF Last
<1>3. CASE s = Plain
  <2>1. Silent(M) /\ cpu.irq # {}
    BY <1>3, AnswersAsk DEF Interrupt, MayInterrupt, ChainIInv
  <2>2. M.irq = cpu.irq /\ M.irq \subseteq Pos \cup {0} /\ \A j \in Pos : j \notin M.irq
    BY <2>1 DEF M, ChainIInv, Settled, Silent, BitTrue
  <2>3. cpu.irq = {0}
    BY <2>1, <2>2
  <2> QED
    BY <1>2, <1>3, <2>3 DEF Answered
<1>4. CASE s # Plain /\ ~IsPio(s[1])
  <2> DEFINE i == s[1]
             asking == Asking(M, i)
             c == Min(asking)
  <2>1. /\ s \in Slots /\ ~port[s].in_service /\ Requests(M, s)
        /\ \A t \in Slots : Before(t, s) => ~Requests(M, t) /\ ~port[t].in_service
    BY <1>4, AnswersAsk DEF ChainIInv
  <2>2. s = <<i, s[2]>> /\ i \in Pos /\ s[2] \in Channel /\ (s[2] = 0 \/ s[2] = 1)
    BY <2>1, SlotIsPair DEF Slots
  <2>3. \A b \in Channel : b < s[2] =>
           /\ <<i, b>> \in Slots
           /\ ~Requests(M, <<i, b>>) /\ ~port[<<i, b>>].in_service
    BY <2>1, <2>2 DEF Before, Slots
  <2>4. s[2] \in asking
    <3>1. \A b \in 0 .. s[2] : b \in Channel /\ (b < s[2] \/ b = s[2])
      BY <2>2 DEF Channel
    <3>2. \A b \in 0 .. s[2] : ~port[<<i, b>>].in_service
      BY <2>1, <2>2, <2>3, <3>1
    <3> QED
      BY <2>1, <2>2, <3>2, SignalsLeavePorts DEF Asking
  <2>5. asking # {} /\ c \in asking /\ c <= s[2] /\ c \in Channel
    BY <2>4, LeastChannel
  <2>6. c = s[2]
    <3>1. Requests(M, <<i, c>>)
      BY <2>5 DEF Asking
    <3> HIDE DEF c, i
    <3>2. ~(c < s[2])
      BY <2>3, <2>5, <3>1
    <3>3. c \in Nat /\ s[2] \in Nat
      BY <2>2, <2>5 DEF Channel
    <3> QED
      BY <2>5, <3>2, <3>3
  <2>7. vector[i] \in {NoCause, <<c, Cause(port[<<i, c>>])>>}
    <3>1. VectorTrue(M, i)
      BY <2>2 DEF ChainIInv, Settled
    <3> QED
      BY <1>4, <2>5, <3>1 DEF VectorTrue, M
  <2>8. Cause(port[<<i, c>>]) = AckCause(port[s])
    BY <2>2, <2>6 DEF Cause, AckCause
  <2> QED
    BY <1>2, <1>4, <2>6, <2>7, <2>8 DEF Answered
<1> QED
  BY <1>2, <1>3, <1>4 DEF Answered

LEMMA NextAnswered == ChainIInv /\ [Next]_vars => Answered
<1> SUFFICES ASSUME ChainIInv, [Next]_vars PROVE Answered
  OBVIOUS
<1>1. stack \in Seq(Frames) /\ Len(stack) \in Nat
  BY DEF ChainIInv, IInv, Shapes
<1>2. CASE Interrupt
  BY <1>2, InterruptAnswered
<1>3. CASE stack' = stack
  BY <1>1, <1>3 DEF Answered
<1>4. CASE stack # <<>> /\ stack' = Front(stack)
  BY <1>1, <1>4, FrontOfStack DEF Answered
<1>5. CASE stack' = <<>> \/ \E x : stack' = [stack EXCEPT ![Len(stack)] = x]
  <2>1. Len(stack') = 0 \/ Len(stack') = Len(stack)
    BY <1>1, <1>5
  <2> QED
    BY <1>1, <2>1 DEF Answered
<1>6. CASE UNCHANGED vars
  BY <1>3, <1>6 DEF vars
<1>7. CASE Next /\ ~Interrupt
  <2>1. \/ stack' = stack
        \/ Return \/ ReturnFromInterrupt \/ Reset \/ \E i \in Pos : EndOfInterrupt(i)
    BY <1>7 DEF Next, EnableInterrupts, DisableInterrupts, Other, WriteExpected, WriteIntrControl,
                WriteMode, PioWriteData, PioInput, WriteWr1, ResetCause, ResetChannel,
                SioWriteData, SioReadData, StatusChange, SendEvent, RecvEvent, TimerOutput,
                WriteMask, Command
  <2>2. ReturnFromInterrupt => stack # <<>>
    BY DEF ReturnFromInterrupt, Top
  <2> QED
    BY <1>3, <1>4, <1>5, <2>1, <2>2 DEF Return, ReturnFromInterrupt, Reset, EndOfInterrupt
<1> QED
  BY <1>2, <1>6, <1>7

\* For every chain, the CPU's bits say which devices ask, so that clearing
\* them at an acknowledge loses no request (z80.cpp:2433).
THEOREM LinesAreTrue == Spec => []LinesTrue
<1>1. ChainIInv => LinesTrue
  BY DEF ChainIInv, Settled, BitTrue, LinesTrue, M
<1> QED
  BY <1>1, LinesInductive, PTL

\* For every chain, the answer 0xff comes only when the timer asks alone, and
\* a vector that names a cause names the one acknowledged (z80sio.cpp:869).
THEOREM AcksNameCauses == Spec => AckNamesCause
<1>1. ChainIInv /\ [Next]_vars => Answered
  BY NextAnswered
<1>2. [][Answered]_vars => AckNamesCause
  BY DEF Answered, AckNamesCause
<1> QED
  BY <1>1, <1>2, LinesInductive, PTL DEF Spec
=============================================================================
