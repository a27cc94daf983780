---------------------------- MODULE PrinterProofs ----------------------------
(***************************************************************************)
(* Proofs that the printer names events of its own only and that busy,     *)
(* acknowledge and the file end in time, for any times and any number of   *)
(* descriptors above the clocks of an acknowledge.                         *)
(***************************************************************************)
EXTENDS Printer, FiniteSetTheorems, WellFoundedInduction, TLAPS

Numbers ==
    /\ busy \in BOOLEAN /\ ack \in BOOLEAN
    /\ busy_id \in Slots \cup {-1} /\ ack_id \in Slots \cup {-1}
    /\ event \in [Slots -> [kind : {"free", "busy", "ack"}, left : 0 .. BUSY_TIME]]
    /\ busy_age \in Nat /\ ack_age \in Nat

\* A free descriptor has no time left, and an acknowledge no more than its own.
EventsTimed ==
    \A s \in Slots : /\ event[s].kind = "free" => event[s].left = 0
                     /\ event[s].kind = "ack" => event[s].left <= ACK_TIME

\* The acknowledge in progress has its event, which the printer knows.
AckHasEvent == ~ack => ack_id # -1 /\ event[ack_id].left + ack_age <= ACK_TIME

\* Some event will end busy in time, whether the printer knows it or not.
BusyHasEvent == busy => \E s \in Slots : event[s].kind = "busy" /\ event[s].left + busy_age <= BUSY_TIME

\* An event of the byte that was printed within the last clocks of an
\* acknowledge with left clocks to come.
Younger(e, left) == \E s \in Slots : e[s].kind = "busy" /\ e[s].left + ACK_TIME >= BUSY_TIME + left

\* Between two acknowledges that begin at the same clock a byte was printed.
AcksApart ==
    \A s, t \in Slots :
        s # t /\ event[s].kind = "ack" /\ event[t].kind = "ack" /\ event[s].left = event[t].left =>
            Younger(event, event[s].left)

\* So was one when the printer is busy again at the clock of an acknowledge,
\* unless all descriptors were taken.  No byte is printed while events are due.
BusyAfterAck ==
    (\E s \in Slots : event[s].kind = "ack" /\ event[s].left = ACK_TIME) /\ busy =>
        ~Due /\ (FreeSlot(event) = -1 \/ Younger(event, ACK_TIME))

FileTimed ==
    /\ strobe \in BOOLEAN /\ res \in BOOLEAN /\ value \in BOOLEAN
    /\ size \in -1 .. 2 /\ wait_frames \in -1 .. WAIT_FRAMES /\ idle_frames \in Nat
    /\ size # -1 => wait_frames > 0 /\ idle_frames + wait_frames = WAIT_FRAMES

IInv ==
    /\ Numbers /\ EventsTimed /\ IdsLive /\ AckHasEvent /\ BusyHasEvent /\ AcksApart
    /\ BusyAfterAck /\ FileTimed
-----------------------------------------------------------------------------
(* Descriptors. *)

Descriptor == [kind : {"free", "busy", "ack"}, left : 0 .. BUSY_TIME]

LEMMA Times ==
    /\ BUSY_TIME \in Nat /\ ACK_TIME \in Nat /\ WAIT_FRAMES \in Nat \ {0}
    /\ 0 < ACK_TIME /\ ACK_TIME < BUSY_TIME
    /\ Slots \subseteq Nat /\ -1 \notin Slots
    /\ Free \in Descriptor /\ Free.kind = "free" /\ Free.left = 0
BY TimeAssumption, DescriptorAssumption DEF Slots, Free, Descriptor

\* Min() of a set of naturals is its least element.
LEMMA LeastOfNats ==
    ASSUME NEW T \in SUBSET Nat, T # {}
    PROVE  Min(T) \in T /\ \A x \in T : Min(T) <= x
<1> DEFINE R == OpToRel(<, Nat)
<1>1. IsWellFoundedOn(R, Nat)
  BY NatLessThanWellFounded
<1>2. \A x, y \in Nat : <<x, y>> \in R <=> x < y
  BY DEF OpToRel
<1> HIDE DEF R
<1>3. PICK x \in T : \A y \in T : ~(<<y, x>> \in R)
  BY <1>1, WFMin, Zenon
<1>4. \A y \in T : ~(y < x)
  BY <1>2, <1>3, Zenon
<1>5. \A y \in T : x <= y
  BY <1>4
<1> QED
  BY <1>5 DEF Min

\* The descriptor that is taken is a free one, if there is one.
LEMMA TakesFree ==
    ASSUME NEW e
    PROVE  /\ FreeSlot(e) = -1 => \A s \in Slots : e[s] # Free
           /\ FreeSlot(e) # -1 => FreeSlot(e) \in Slots /\ e[FreeSlot(e)] = Free
<1> DEFINE free == {s \in Slots : e[s] = Free}
<1>1. CASE free = {}
  BY <1>1 DEF FreeSlot
<1>2. CASE free # {}
  <2>1. Min(free) \in free
    BY <1>2, Times, LeastOfNats
  <2>2. FreeSlot(e) = Min(free)
    BY <1>2 DEF FreeSlot
  <2> QED
    BY <2>1, <2>2, Times
<1> QED
  BY <1>1, <1>2

\* What registering and cancelling do to the descriptors.
LEMMA RegisteredSlots ==
    ASSUME NEW e \in [Slots -> Descriptor], NEW kind \in {"busy", "ack"}, NEW time \in 0 .. BUSY_TIME
    PROVE  /\ Registered(e, kind, time) \in [Slots -> Descriptor]
           /\ \A s \in Slots :
                Registered(e, kind, time)[s] =
                    IF s = FreeSlot(e) THEN [kind |-> kind, left |-> time] ELSE e[s]
<1>1. [kind |-> kind, left |-> time] \in Descriptor
  BY DEF Descriptor
<1> QED
  BY <1>1, Times, TakesFree DEF Registered

LEMMA CancelledSlots ==
    ASSUME NEW e \in [Slots -> Descriptor], NEW id \in Slots \cup {-1}
    PROVE  /\ Cancelled(e, id) \in [Slots -> Descriptor]
           /\ \A s \in Slots : Cancelled(e, id)[s] = IF s = id THEN Free ELSE e[s]
BY Times DEF Cancelled

-----------------------------------------------------------------------------
(* The events and the handshake. *)

EventInv ==
    Numbers /\ EventsTimed /\ IdsLive /\ AckHasEvent /\ BusyHasEvent /\ AcksApart /\ BusyAfterAck

LEMMA InitIInv == Init => IInv
<1> SUFFICES ASSUME Init PROVE IInv
  OBVIOUS
<1>1. \A s \in Slots : event[s] = Free
  BY DEF Init
<1>2. Numbers
  BY Times DEF Init, Numbers, Descriptor
<1>3. EventsTimed /\ AcksApart /\ ~(\E s \in Slots : event[s].kind = "ack")
  BY <1>1, Times DEF EventsTimed, AcksApart
<1>4. BusyAfterAck /\ IdsLive /\ AckHasEvent /\ BusyHasEvent
  BY <1>3 DEF BusyAfterAck, IdsLive, AckHasEvent, BusyHasEvent, Init
<1>5. FileTimed
  <2>1. strobe \in BOOLEAN /\ res \in BOOLEAN /\ value \in BOOLEAN
    BY DEF Init
  <2>2. size = -1 /\ wait_frames = -1 /\ idle_frames = 0
    BY DEF Init
  <2> QED
    BY <2>1, <2>2, Times DEF FileTimed
<1> QED
  BY <1>2, <1>3, <1>4, <1>5 DEF IInv

\* When no event is due and no descriptor is left, one of them is the end of
\* busy: there are more descriptors than clocks in an acknowledge, so that two
\* acknowledges would have begun at one clock.
LEMMA FullHasBusy ==
    ASSUME EventInv, ~Due, \A s \in Slots : event[s] # Free
    PROVE  \E s \in Slots : event[s].kind = "busy"
<1> SUFFICES ASSUME \A s \in Slots : event[s].kind # "busy" PROVE FALSE
  OBVIOUS
<1>1. \A s \in Slots : event[s] \in Descriptor /\ event[s] # Free /\ event[s].left # 0
  BY DEF EventInv, Numbers, Descriptor, Due
<1>2. \A s \in Slots : event[s].kind = "ack" /\ event[s].left \in 1 .. ACK_TIME
  BY <1>1, Times DEF EventInv, EventsTimed, Descriptor
<1> DEFINE left == [s \in Slots |-> event[s].left]
<1>3. left \in [Slots -> 1 .. ACK_TIME]
  BY <1>2
<1>4. /\ IsFiniteSet(Slots) /\ Cardinality(Slots) = MAX_EVENT
      /\ IsFiniteSet(1 .. ACK_TIME) /\ Cardinality(1 .. ACK_TIME) = ACK_TIME
  BY Times, DescriptorAssumption, FS_Interval DEF Slots
<1>5. PICK s \in Slots, t \in Slots : s # t /\ left[s] = left[t]
  <2> HIDE DEF left
  <2> QED
    BY <1>3, <1>4, DescriptorAssumption, FS_PigeonHole
<1>6. Younger(event, event[s].left)
  BY <1>2, <1>5 DEF EventInv, AcksApart
<1> QED
  BY <1>6 DEF Younger

\* A byte is printed.  Either its event is registered, or nothing changes in
\* the descriptors, one of which will end busy (FullHasBusy).
LEMMA ByteStep ==
    ASSUME EventInv, ~Due, BusyBegins
    PROVE  EventInv'
<1> DEFINE rest == Cancelled(event, busy_id)
           f == FreeSlot(rest)
           Begun == [kind |-> "busy", left |-> BUSY_TIME]
<1>0. /\ Numbers /\ EventsTimed /\ IdsLive /\ AckHasEvent /\ AcksApart /\ BusyAfterAck
      /\ event \in [Slots -> Descriptor]
      /\ \A s \in Slots : event[s].left \in Nat /\ (event[s] # Free => event[s].left # 0)
  BY DEF EventInv, Numbers, Descriptor, Due
<1>1. /\ rest \in [Slots -> Descriptor]
      /\ \A s \in Slots : rest[s] = IF s = busy_id THEN Free ELSE event[s]
  BY <1>0, CancelledSlots DEF Numbers
<1>2. /\ event' \in [Slots -> Descriptor]
      /\ \A s \in Slots : event'[s] = IF s = f THEN Begun ELSE rest[s]
  <2>1. BUSY_TIME \in 0 .. BUSY_TIME
    BY Times
  <2> QED
    BY <1>1, <2>1, RegisteredSlots DEF BusyBegins
<1>3. /\ f # -1 => f \in Slots /\ rest[f] = Free
      /\ f = -1 => busy_id = -1 /\ \A s \in Slots : rest[s] = event[s] /\ event[s] # Free
      /\ f \in Slots \cup {-1}
  BY <1>0, <1>1, TakesFree DEF Numbers
<1> HIDE DEF rest, f
<1>4. /\ busy' = TRUE /\ busy_age' = 0 /\ busy_id' = f
      /\ UNCHANGED <<ack, ack_id, ack_age>>
  BY DEF BusyBegins, f, rest
<1>5. ~Due'
  <2> SUFFICES ASSUME NEW s \in Slots, event'[s] # Free PROVE event'[s].left # 0
    BY DEF Due
  <2> QED
    BY <1>0, <1>1, <1>2, Times
<1>6. \A s \in Slots : event'[s].kind = "ack" <=> event[s].kind = "ack" /\ event'[s] = event[s]
  <2>1. \A s \in Slots : s = busy_id => event[s].kind # "ack"
    BY <1>0, Times DEF IdsLive
  <2> QED
    BY <1>1, <1>2, <1>3, <2>1, Times
<1>7. ASSUME NEW left \in 0 .. ACK_TIME, f # -1 PROVE Younger(event', left)
  <2>1. f \in Slots /\ event'[f] = Begun
    BY <1>2, <1>3, <1>7
  <2> QED
    BY <2>1, Times DEF Younger
<1>8. ASSUME f = -1 PROVE event' = event /\ FreeSlot(event') = -1
  <2>1. \A s \in Slots : event'[s] = event[s]
    BY <1>2, <1>3, <1>8, Times
  <2>2. event' = event
    BY <1>0, <1>2, <2>1
  <2> QED
    BY <1>3, <1>8, <2>2, TakesFree
<1>9. Numbers'
  BY <1>0, <1>2, <1>3, <1>4 DEF Numbers, Descriptor
<1>10. EventsTimed'
  BY <1>0, <1>1, <1>2, Times DEF EventsTimed
<1>11. IdsLive' /\ AckHasEvent'
  <2>1. ack_id # -1 => ack_id \in Slots /\ event'[ack_id] = event[ack_id] /\ event[ack_id].kind = "ack"
    BY <1>0, <1>1, <1>2, <1>3, Times DEF Numbers, IdsLive
  <2>2. f # -1 => event'[f].kind = "busy"
    BY <1>2, <1>3
  <2> QED
    BY <1>0, <1>4, <2>1, <2>2 DEF IdsLive, AckHasEvent
<1>12. BusyHasEvent'
  <2>1. CASE f # -1
    BY <1>2, <1>3, <1>4, <2>1, Times DEF BusyHasEvent
  <2>2. CASE f = -1
    <3>1. PICK s \in Slots : event[s].kind = "busy"
      BY <1>3, <2>2, FullHasBusy
    <3>2. event'[s] = event[s] /\ event[s].left \in 0 .. BUSY_TIME
      BY <1>0, <1>8, <2>2 DEF Descriptor
    <3> QED
      BY <1>4, <3>1, <3>2, Times DEF BusyHasEvent
  <2> QED
    BY <2>1, <2>2
<1>13. AcksApart'
  <2> SUFFICES ASSUME NEW s \in Slots, NEW t \in Slots, s # t,
                      event'[s].kind = "ack", event'[t].kind = "ack", event'[s].left = event'[t].left
               PROVE  Younger(event', event'[s].left)
    BY DEF AcksApart, Younger
  <2>1. Younger(event, event[s].left) /\ event'[s] = event[s] /\ event[s].left \in 0 .. ACK_TIME
    BY <1>0, <1>6, Times DEF AcksApart, EventsTimed
  <2>2. CASE f # -1
    BY <1>7, <2>1, <2>2
  <2>3. CASE f = -1
    BY <1>8, <2>1, <2>3 DEF Younger
  <2> QED
    BY <2>2, <2>3
<1>14. BusyAfterAck'
  <2>1. ACK_TIME \in 0 .. ACK_TIME
    BY Times
  <2>2. f # -1 => Younger(event', ACK_TIME)
    BY <1>7, <2>1
  <2>3. f = -1 => FreeSlot(event)' = -1
    BY <1>8
  <2> QED
    BY <1>5, <2>2, <2>3 DEF BusyAfterAck
<1> QED
  BY <1>9, <1>10, <1>11, <1>12, <1>13, <1>14 DEF EventInv

\* The byte printed since an acknowledge keeps its event when e has lost only
\* acknowledges and what is due, and a free descriptor is taken.
LEMMA YoungStays ==
    ASSUME EventInv, NEW e \in [Slots -> Descriptor],
           \A s \in Slots :
               e[s] = event[s] \/ (e[s] = Free /\ (event[s].kind = "ack" \/ event[s].left = 0)),
           NEW left \in 0 .. ACK_TIME, Younger(event, left)
    PROVE  \E u \in Slots : /\ e[u] = event[u] /\ e[u] # Free /\ e[u].kind = "busy"
                            /\ e[u].left + ACK_TIME >= BUSY_TIME + left
<1>1. PICK u \in Slots : event[u].kind = "busy" /\ event[u].left + ACK_TIME >= BUSY_TIME + left
  BY DEF Younger
<1>2. event[u].left # 0
  BY <1>1, Times
<1> QED
  BY <1>1, <1>2, Times

\* An acknowledge is registered.
LEMMA AckRegistered ==
    ASSUME EventInv, NEW e \in [Slots -> Descriptor],
           \A s \in Slots :
               e[s] = event[s] \/ (e[s] = Free /\ (event[s].kind = "ack" \/ event[s].left = 0)),
           \/ FreeSlot(e) = -1 \/ Younger(event, ACK_TIME)
           \/ \A s \in Slots : e[s].kind = "ack" => e[s].left # ACK_TIME,
           event' = Registered(e, "ack", ACK_TIME)
    PROVE  /\ event' \in [Slots -> Descriptor] /\ EventsTimed' /\ AcksApart'
           /\ FreeSlot(e) \in Slots \cup {-1}
           /\ FreeSlot(e) # -1 => event'[FreeSlot(e)] = [kind |-> "ack", left |-> ACK_TIME]
<1> DEFINE f == FreeSlot(e)
<1>0. EventsTimed /\ AcksApart /\ ACK_TIME \in 0 .. BUSY_TIME /\ ACK_TIME \in 0 .. ACK_TIME
  BY Times DEF EventInv
<1>1. /\ event' \in [Slots -> Descriptor]
      /\ \A s \in Slots :
            event'[s] = IF s = f THEN [kind |-> "ack", left |-> ACK_TIME] ELSE e[s]
  BY <1>0, RegisteredSlots
<1>2. (f # -1 => f \in Slots /\ e[f] = Free) /\ f \in Slots \cup {-1}
  BY TakesFree
<1> HIDE DEF f
<1>3. EventsTimed'
  BY <1>0, <1>1, Times DEF EventsTimed
<1>4. ASSUME NEW left \in 0 .. ACK_TIME, Younger(event, left) PROVE Younger(event', left)
  <2>1. PICK u \in Slots : /\ e[u] # Free /\ e[u].kind = "busy"
                           /\ e[u].left + ACK_TIME >= BUSY_TIME + left
    BY <1>4, YoungStays
  <2>2. u # f
    BY <1>2, <2>1, Times
  <2> QED
    BY <1>1, <2>1, <2>2 DEF Younger
<1>5. AcksApart'
  <2> SUFFICES ASSUME NEW s \in Slots, NEW t \in Slots, s # t, event'[s].kind = "ack",
                      event'[t].kind = "ack", event'[s].left = event'[t].left
               PROVE  Younger(event', event'[s].left)
    BY DEF AcksApart, Younger
  <2>1. CASE s # f /\ t # f
    <3>1. event'[s] = event[s] /\ event'[t] = event[t]
      BY <1>1, <2>1, Times
    <3>2. Younger(event, event[s].left) /\ event[s].left \in 0 .. ACK_TIME
      BY <1>0, <3>1, Times DEF AcksApart, EventsTimed, EventInv, Numbers
    <3> QED
      BY <1>4, <3>1, <3>2
  <2>2. CASE s = f \/ t = f
    <3>1. PICK u \in Slots : u # f /\ event'[u].kind = "ack" /\ event'[u].left = ACK_TIME
      BY <1>1, <2>2
    <3>2. e[u].kind = "ack" /\ e[u].left = ACK_TIME
      BY <1>1, <3>1
    <3>3. f \in Slots
      BY <2>2
    <3>4. Younger(event, ACK_TIME)
      BY <3>2, <3>3, Times DEF f
    <3> QED
      BY <1>0, <1>1, <1>4, <2>2, <3>4
  <2> QED
    BY <2>1, <2>2
<1> QED
  BY <1>1, <1>2, <1>3, <1>5, Times DEF f

\* An event that is due calls back.
LEMMA CallbackStep ==
    ASSUME EventInv, NEW s \in Slots, EventCallback(s)
    PROVE  EventInv'
<1> DEFINE rest == Cancelled(event, s)
<1>0. /\ Numbers /\ EventsTimed /\ IdsLive /\ AckHasEvent /\ BusyHasEvent /\ AcksApart
      /\ BusyAfterAck /\ event \in [Slots -> Descriptor] /\ busy_id \in Slots \cup {-1}
      /\ ack_id \in Slots \cup {-1}
  BY DEF EventInv, Numbers, Descriptor
<1>1. /\ event[s] # Free /\ event[s].left = 0 /\ Due
      /\ event[s] \in Descriptor /\ event[s].kind \in {"busy", "ack"}
  <2>1. event[s] # Free /\ event[s].left = 0 /\ event[s] \in Descriptor
    BY <1>0 DEF EventCallback
  <2>2. event[s].kind # "free"
    BY <2>1 DEF Descriptor, Free
  <2> QED
    BY <2>1, <2>2 DEF Due, Descriptor
<1>2. /\ rest \in [Slots -> Descriptor]
      /\ \A t \in Slots : rest[t] = IF t = s THEN Free ELSE event[t]
  BY <1>0, CancelledSlots
<1>3. busy => \A t \in Slots : event[t].kind = "ack" => event[t].left # ACK_TIME
  BY <1>0, <1>1 DEF BusyAfterAck
<1> HIDE DEF rest
<1>4. CASE event[s].kind = "busy" /\ busy
  <2> DEFINE e == Cancelled(rest, ack_id)
  <2>1. /\ busy_id' = -1 /\ busy' = FALSE /\ ack' = FALSE /\ ack_age' = 0 /\ busy_age' = busy_age
        /\ ack_id' = FreeSlot(e) /\ event' = Registered(e, "ack", ACK_TIME)
    BY <1>4 DEF EventCallback, BusyEnds, rest
  <2>2. /\ e \in [Slots -> Descriptor]
        /\ \A t \in Slots : e[t] = IF t = ack_id \/ t = s THEN Free ELSE event[t]
    BY <1>0, <1>2, CancelledSlots
  <2> HIDE DEF e
  <2>3. \A t \in Slots :
            e[t] = event[t] \/ (e[t] = Free /\ (event[t].kind = "ack" \/ event[t].left = 0))
    BY <1>0, <1>1, <2>2, Times DEF IdsLive
  <2>4. \A t \in Slots : e[t].kind = "ack" => e[t].left # ACK_TIME
    BY <1>3, <1>4, <2>2, Times
  <2>5. FreeSlot(e) # -1
    BY <2>2, TakesFree
  <2>6. /\ event' \in [Slots -> Descriptor] /\ EventsTimed' /\ AcksApart'
        /\ FreeSlot(e) \in Slots \cup {-1}
        /\ event'[FreeSlot(e)] = [kind |-> "ack", left |-> ACK_TIME]
    BY <2>1, <2>2, <2>3, <2>4, <2>5, AckRegistered
  <2>7. Numbers'
    BY <1>0, <2>1, <2>6 DEF Numbers, Descriptor
  <2>8. IdsLive' /\ AckHasEvent' /\ BusyHasEvent' /\ BusyAfterAck'
    BY <2>1, <2>5, <2>6, Times DEF IdsLive, AckHasEvent, BusyHasEvent, BusyAfterAck
  <2> QED
    BY <2>6, <2>7, <2>8 DEF EventInv
<1>5. CASE event[s].kind = "ack" \/ ~busy
  <2>1. event' = rest
    BY <1>1, <1>5 DEF EventCallback, BusyEnds, rest
  <2>2. \/ /\ busy_id' = -1 /\ busy = FALSE /\ event[s].kind = "busy"
           /\ UNCHANGED <<busy, busy_age, ack, ack_id, ack_age>>
        \/ /\ ack_id' = -1 /\ ack' = TRUE /\ event[s].kind = "ack"
           /\ UNCHANGED <<busy, busy_id, busy_age, ack_age>>
    BY <1>0, <1>1, <1>5 DEF EventCallback, BusyEnds, Numbers
  <2>3. EventsTimed'
    BY <1>0, <1>2, <2>1, Times DEF EventsTimed
  <2>4. AcksApart'
    <3> SUFFICES ASSUME NEW t \in Slots, NEW u \in Slots, t # u, event'[t].kind = "ack",
                        event'[u].kind = "ack", event'[t].left = event'[u].left
                 PROVE  Younger(event', event'[t].left)
      BY DEF AcksApart, Younger
    <3>1. event'[t] = event[t] /\ event'[u] = event[u]
      BY <1>2, <2>1, Times
    <3>2. Younger(event, event[t].left) /\ event[t].left \in 0 .. ACK_TIME
      BY <1>0, <3>1, Times DEF AcksApart, EventsTimed, Numbers
    <3>3. PICK v \in Slots : rest[v].kind = "busy" /\ rest[v].left + ACK_TIME >= BUSY_TIME + event[t].left
      BY <1>1, <1>2, <3>2, YoungStays
    <3> QED
      BY <2>1, <3>1, <3>3 DEF Younger
  <2>5. Numbers'
    <3>1. event' \in [Slots -> Descriptor]
      BY <1>2, <2>1
    <3> QED
      BY <1>0, <2>2, <3>1 DEF Numbers, Descriptor
  <2>6. IdsLive' /\ AckHasEvent'
    <3>1. \A id \in {busy_id, ack_id} : id # -1 /\ id # s => id \in Slots /\ event'[id] = event[id]
      BY <1>0, <1>2, <2>1
    <3> QED
      BY <1>0, <2>2, <3>1 DEF IdsLive, AckHasEvent
  <2>7. BusyHasEvent'
    BY <1>0, <1>2, <2>1, <2>2 DEF BusyHasEvent
  <2>8. BusyAfterAck'
    <3>1. busy' => \A t \in Slots : event'[t].kind = "ack" => event'[t].left # ACK_TIME
      BY <1>2, <1>3, <2>1, <2>2, Times
    <3> QED
      BY <3>1 DEF BusyAfterAck
  <2> QED
    BY <2>3, <2>4, <2>5, <2>6, <2>7, <2>8 DEF EventInv
<1> QED
  BY <1>1, <1>4, <1>5

\* A reset acknowledges when the printer was busy, and forgets its ids.
LEMMA ForgetStep ==
    ASSUME EventInv, busy_id' = -1, busy' = FALSE, ack' = TRUE,
           IF busy THEN ack_id' = FreeSlot(event) /\ event' = Registered(event, "ack", ACK_TIME)
                   ELSE ack_id' = -1 /\ UNCHANGED event,
           UNCHANGED <<busy_age, ack_age>>
    PROVE  EventInv'
<1>0. Numbers /\ EventsTimed /\ AcksApart /\ BusyAfterAck /\ event \in [Slots -> Descriptor]
  BY DEF EventInv, Numbers, Descriptor
<1>1. CASE busy
  <2>1. \/ FreeSlot(event) = -1 \/ Younger(event, ACK_TIME)
        \/ \A s \in Slots : event[s].kind = "ack" => event[s].left # ACK_TIME
    BY <1>0, <1>1 DEF BusyAfterAck
  <2>2. /\ event' \in [Slots -> Descriptor] /\ EventsTimed' /\ AcksApart'
        /\ FreeSlot(event) \in Slots \cup {-1}
        /\ FreeSlot(event) # -1 =>
              event'[FreeSlot(event)] = [kind |-> "ack", left |-> ACK_TIME]
    BY <1>0, <1>1, <2>1, AckRegistered
  <2>3. Numbers'
    BY <1>0, <1>1, <2>2 DEF Numbers, Descriptor
  <2>4. IdsLive'
    BY <1>1, <2>2 DEF IdsLive
  <2> QED
    BY <2>2, <2>3, <2>4 DEF EventInv, AckHasEvent, BusyHasEvent, BusyAfterAck
<1>2. CASE ~busy
  <2>1. Numbers'
    BY <1>0, <1>2 DEF Numbers
  <2>2. EventsTimed' /\ AcksApart'
    BY <1>0, <1>2 DEF EventsTimed, AcksApart, Younger
  <2> QED
    BY <1>2, <2>1, <2>2 DEF EventInv, IdsLive, AckHasEvent, BusyHasEvent, BusyAfterAck
<1> QED
  BY <1>1, <1>2

\* A clock passes, and no event was due.
LEMMA TickStep ==
    ASSUME EventInv, Tick
    PROVE  EventInv'
<1>0. /\ Numbers /\ EventsTimed /\ IdsLive /\ AckHasEvent /\ BusyHasEvent /\ AcksApart
      /\ event \in [Slots -> Descriptor] /\ busy_id \in Slots \cup {-1} /\ ack_id \in Slots \cup {-1}
      /\ busy_age \in Nat /\ ack_age \in Nat
  BY DEF EventInv, Numbers, Descriptor
<1>1. \A s \in Slots :
          \/ event[s] = Free /\ event'[s] = Free
          \/ /\ event[s].kind # "free" /\ event[s].left \in 1 .. BUSY_TIME
             /\ event'[s].kind = event[s].kind /\ event'[s].left = event[s].left - 1
             /\ event'[s] \in Descriptor
  <2> TAKE s \in Slots
  <2>1. event[s] \in Descriptor /\ (event[s] # Free => event[s].left # 0)
    BY <1>0 DEF Tick, Due
  <2>2. CASE event[s] = Free
    BY <2>2 DEF Tick
  <2>3. CASE event[s] # Free
    <3>1. event[s].left \in 1 .. BUSY_TIME
      BY <2>1, <2>3, Times DEF Descriptor
    <3>2. event[s].kind # "free"
      BY <1>0, <3>1 DEF EventsTimed
    <3>3. event'[s] = [event[s] EXCEPT !.left = @ - 1]
      BY <2>3 DEF Tick
    <3>4. [event[s] EXCEPT !.left = @ - 1] = [kind |-> event[s].kind, left |-> event[s].left - 1]
      BY <2>1 DEF Descriptor
    <3>5. event[s].left - 1 \in 0 .. BUSY_TIME /\ event[s].kind \in {"free", "busy", "ack"}
      BY <2>1, <3>1, Times DEF Descriptor
    <3> QED
      BY <3>1, <3>2, <3>3, <3>4, <3>5 DEF Descriptor
  <2> QED
    BY <2>2, <2>3
<1>2. event' \in [Slots -> Descriptor]
  <2>1. \A s \in Slots : event'[s] \in Descriptor
    BY <1>1, Times
  <2>2. event' = [s \in Slots |-> event'[s]]
    BY DEF Tick
  <2> QED
    BY <2>1, <2>2
<1>3. \A age \in Nat, limit \in Nat : Older(age, limit) \in Nat /\ Older(age, limit) <= age + 1
  <2> SUFFICES ASSUME NEW age \in Nat, NEW limit \in Nat
               PROVE  Older(age, limit) \in Nat /\ Older(age, limit) <= age + 1
    OBVIOUS
  <2>1. /\ Min({age + 1, limit + 1}) \in {age + 1, limit + 1}
        /\ \A x \in {age + 1, limit + 1} : Min({age + 1, limit + 1}) <= x
    <3>1. {age + 1, limit + 1} \in SUBSET Nat /\ {age + 1, limit + 1} # {}
      OBVIOUS
    <3> HIDE DEF Min
    <3> QED
      BY <3>1, LeastOfNats
  <2> QED
    BY <2>1 DEF Older
<1>4. /\ busy' = busy /\ ack' = ack /\ busy_id' = busy_id /\ ack_id' = ack_id
      /\ busy_age' \in Nat /\ (busy => busy_age' <= busy_age + 1)
      /\ ack_age' \in Nat /\ (~ack => ack_age' <= ack_age + 1)
  BY <1>0, <1>3, Times DEF Tick
<1>5. \A s \in Slots : event'[s].kind = event[s].kind
  BY <1>1, Zenon
<1>6. \A s \in Slots : event[s].kind # "free" => event'[s].left = event[s].left - 1
                                              /\ event[s].left \in 1 .. BUSY_TIME
  <2>1. Free.kind = "free"
    BY Times
  <2> QED
    BY <1>1, <2>1, Zenon
<1>7. Numbers'
  BY <1>0, <1>2, <1>4 DEF Numbers, Descriptor
<1>8. EventsTimed'
  <2> SUFFICES ASSUME NEW s \in Slots
               PROVE  /\ event'[s].kind = "free" => event'[s].left = 0
                      /\ event'[s].kind = "ack" => event'[s].left <= ACK_TIME
    BY DEF EventsTimed
  <2>1. event[s].kind = "ack" => event[s].left <= ACK_TIME
    BY <1>0 DEF EventsTimed
  <2>2. CASE event[s] = Free /\ event'[s] = Free
    BY <2>2, Times
  <2>3. CASE event[s].kind # "free"
    BY <1>5, <1>6, <2>1, <2>3, Times
  <2> QED
    BY <1>1, <2>2, <2>3, Zenon
<1>9. IdsLive' /\ AckHasEvent'
  <2>1. ack_id # -1 => ack_id \in Slots /\ event[ack_id].kind # "free"
    BY <1>0 DEF IdsLive
  <2>2. busy_id # -1 => busy_id \in Slots
    BY <1>0
  <2> QED
    BY <1>0, <1>4, <1>5, <1>6, <2>1, <2>2, Times DEF IdsLive, AckHasEvent
<1>10. BusyHasEvent'
  BY <1>0, <1>4, <1>5, <1>6, Times DEF BusyHasEvent
<1>11. AcksApart'
  <2> SUFFICES ASSUME NEW s \in Slots, NEW t \in Slots, s # t, event'[s].kind = "ack",
                      event'[t].kind = "ack", event'[s].left = event'[t].left
               PROVE  Younger(event', event'[s].left)
    BY DEF AcksApart, Younger
  <2>1. event[s].left = event[t].left /\ event'[s].left = event[s].left - 1
    BY <1>5, <1>6
  <2>2. Younger(event, event[s].left)
    BY <1>0, <1>5, <2>1 DEF AcksApart
  <2> QED
    BY <1>5, <1>6, <2>1, <2>2, Times DEF Younger
<1>12. BusyAfterAck'
  <2>1. \A s \in Slots : event'[s].kind = "ack" => event'[s].left # ACK_TIME
    BY <1>0, <1>5, <1>6, Times DEF EventsTimed
  <2> QED
    BY <2>1 DEF BusyAfterAck
<1> QED
  BY <1>7, <1>8, <1>9, <1>10, <1>11, <1>12 DEF EventInv

-----------------------------------------------------------------------------
(* The invariant. *)

LEMMA QuietEvents == ASSUME EventInv, UNCHANGED handshake PROVE EventInv'
<1>1. /\ event' = event /\ busy' = busy /\ ack' = ack /\ busy_id' = busy_id
      /\ ack_id' = ack_id /\ busy_age' = busy_age /\ ack_age' = ack_age
  BY DEF handshake
<1>2. Numbers'
  BY <1>1 DEF EventInv, Numbers
<1>3. EventsTimed' /\ IdsLive' /\ AckHasEvent' /\ BusyHasEvent'
  BY <1>1 DEF EventInv, EventsTimed, IdsLive, AckHasEvent, BusyHasEvent
<1>4. AcksApart' /\ BusyAfterAck'
  BY <1>1 DEF EventInv, AcksApart, BusyAfterAck, Younger, Due, FreeSlot
<1> QED
  BY <1>2, <1>3, <1>4 DEF EventInv

LEMMA QuietFile == ASSUME FileTimed, UNCHANGED <<port, file>> PROVE FileTimed'
BY DEF FileTimed, port, file

LEMMA NextIInv == IInv /\ [Next]_vars => IInv'
<1> SUFFICES ASSUME IInv, [Next]_vars PROVE IInv'
  OBVIOUS
<1>0. EventInv /\ FileTimed
  BY DEF IInv, EventInv
<1>i. EventInv' /\ FileTimed' => IInv'
  BY DEF IInv, EventInv
<1>1. CASE WriteData
  BY <1>0, <1>1, <1>i, QuietEvents DEF WriteData, FileTimed, file
<1>2. ASSUME NEW level \in BOOLEAN, WriteStrobe(level) PROVE IInv'
  <2>1. CASE strobe /\ ~level /\ value
    <3>1. EventInv'
      BY <1>0, <1>2, <2>1, ByteStep DEF WriteStrobe, ProgramRuns
    <3>2. /\ size' = Min({Max({size, 0}) + 1, 2}) /\ strobe' = level
          /\ wait_frames' = WAIT_FRAMES /\ idle_frames' = 0 /\ UNCHANGED <<res, value>>
      BY <1>2, <2>1 DEF WriteStrobe
    <3>3. size' \in {1, 2}
      <4>1. Max({size, 0}) \in {0, 1, 2}
        <5>1. size \in {-1, 0, 1, 2}
          BY <1>0 DEF FileTimed
        <5>2. \E x \in {size, 0} : \A y \in {size, 0} : x >= y
          BY <5>1
        <5>3. Max({size, 0}) \in {size, 0} /\ \A y \in {size, 0} : Max({size, 0}) >= y
          BY <5>2 DEF Max
        <5> QED
          BY <5>1, <5>3
      <4>2. {Max({size, 0}) + 1, 2} \in SUBSET Nat
        BY <4>1
      <4> HIDE DEF Max, Min
      <4>3. /\ Min({Max({size, 0}) + 1, 2}) \in {Max({size, 0}) + 1, 2}
            /\ \A x \in {Max({size, 0}) + 1, 2} : Min({Max({size, 0}) + 1, 2}) <= x
        BY <4>2, LeastOfNats
      <4> QED
        BY <3>2, <4>1, <4>3
    <3>4. FileTimed'
      BY <1>0, <3>2, <3>3, Times DEF FileTimed
    <3> QED
      BY <1>i, <3>1, <3>4
  <2>2. CASE ~(strobe /\ ~level /\ value)
    BY <1>0, <1>2, <1>i, <2>2, QuietEvents DEF WriteStrobe, FileTimed, file
  <2> QED
    BY <2>1, <2>2
<1>3. ASSUME NEW level \in BOOLEAN, WriteReset(level) PROVE IInv'
  <2>1. CASE res /\ ~level
    <3>1. EventInv'
      BY <1>0, <1>3, <2>1, ForgetStep DEF WriteReset
    <3>2. FileTimed'
      BY <1>0, <1>3, <2>1, Times DEF WriteReset, FileCloses, FileTimed
    <3> QED
      BY <1>i, <3>1, <3>2
  <2>2. CASE ~(res /\ ~level)
    BY <1>0, <1>3, <1>i, <2>2, QuietEvents DEF WriteReset, FileTimed, file
  <2> QED
    BY <2>1, <2>2
<1>4. ASSUME NEW s \in Slots, EventCallback(s) PROVE IInv'
  <2>1. UNCHANGED <<port, file>>
    BY <1>4 DEF EventCallback
  <2> QED
    BY <1>0, <1>4, <1>i, <2>1, CallbackStep, QuietFile
<1>5. CASE EventFrame
  <2>1. EventInv'
    BY <1>0, <1>5, QuietEvents DEF EventFrame
  <2>2. FileTimed'
    BY <1>0, <1>5, Times DEF EventFrame, FileTimed, port
  <2> QED
    BY <1>i, <2>1, <2>2
<1>6. CASE Tick
  <2>1. UNCHANGED <<port, file>>
    BY <1>6 DEF Tick
  <2> QED
    BY <1>0, <1>6, <1>i, <2>1, TickStep, QuietFile
<1>7. CASE UNCHANGED vars
  BY <1>0, <1>7, <1>i, QuietEvents, QuietFile DEF vars
<1> QED
  BY <1>1, <1>2, <1>3, <1>4, <1>5, <1>6, <1>7 DEF Next

LEMMA Inductive == Spec => []IInv
BY InitIInv, NextIInv, PTL DEF Spec
-----------------------------------------------------------------------------
\* The ids are -1 or descriptors, and no event has more time left than the
\* busy event had (prnfile.cpp:126, event.cpp:327).
THEOREM TypeCorrect == Spec => []TypeOK
<1>1. IInv => TypeOK
  BY DEF IInv, Numbers, FileTimed, TypeOK
<1> QED
  BY <1>1, Inductive, PTL

\* Whatever the program strobes and resets, the printer's ids name events of
\* its own kind that are still to come (prnfile.cpp:38, 78, 132).
THEOREM IdsAreLive == Spec => []IdsLive
<1>1. IInv => IdsLive
  BY DEF IInv
<1> QED
  BY <1>1, Inductive, PTL

\* However the program fills the descriptors with events that resets have
\* forgotten, busy and acknowledge end in time (prnfile.cpp:77, 126).
THEOREM HandshakeEnds == Spec => []HandshakeInTime
<1>1. IInv => HandshakeInTime
  <2> SUFFICES ASSUME IInv PROVE HandshakeInTime
    OBVIOUS
  <2>1. /\ busy_age \in Nat /\ ack_age \in Nat /\ ack_id \in Slots \cup {-1}
        /\ \A s \in Slots : event[s].left \in Nat
    BY DEF IInv, Numbers
  <2>2. busy => busy_age <= BUSY_TIME
    BY <2>1, Times DEF IInv, BusyHasEvent
  <2>3. ~ack => ack_age <= ACK_TIME
    BY <2>1, Times DEF IInv, AckHasEvent
  <2> QED
    BY <2>2, <2>3 DEF HandshakeInTime
<1> QED
  BY <1>1, Inductive, PTL

\* The file is closed within the frames of a second without a byte, also after
\* resets (prnfile.cpp:47 and 84).
THEOREM FileIsClosed == Spec => []FileClosedInTime
<1>1. IInv => FileClosedInTime
  BY Times DEF IInv, FileTimed, FileClosedInTime
<1> QED
  BY <1>1, Inductive, PTL

=============================================================================
