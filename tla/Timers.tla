------------------------------- MODULE Timers -------------------------------
(***************************************************************************)
(* What the event manager promises its devices, without descriptors,       *)
(* lists, ids or remainders: a set of timers in exact fractional time.     *)
(*                                                                         *)
(* A timer is due at a time counted in 1/Scale clocks.  It expires in the  *)
(* first whole clock of its due time, timers expire in the order of these  *)
(* clocks, and those of one clock expire in the order in which they were   *)
(* started.  A periodic timer starts again exactly one period later, so it *)
(* never drifts however its period divides.                                *)
(***************************************************************************)
EXTENDS Naturals, Sequences, SequencesExt

CONSTANTS
    Timer, Client,
    Scale,     \* fractions of a clock
    Delays,    \* delays in clocks that clients ask for
    Periods    \* periods in 1/Scale clocks that clients ask for

VARIABLES
    timer,   \* started timers -> due time, period (0: none) and client
    order,   \* the started timers, in the order of their (re)starts
    clock,   \* the machine clock
    goal     \* the clock that the running advance leads to

timerVars == <<timer, order, clock, goal>>

Init ==
    /\ timer = [t \in {} |-> {}]
    /\ order = <<>>
    /\ clock = 0
    /\ goal = 0

ClockOf(t) == timer[t].due \div Scale

With(t, r) == [u \in DOMAIN timer \cup {t} |-> IF u = t THEN r ELSE timer[u]]
Without(t) == [u \in DOMAIN timer \ {t} |-> timer[u]]

Start(t, c, delay, period) ==
    /\ t \notin DOMAIN timer
    /\ timer' = With(t, [due |-> clock * Scale + delay, period |-> period, client |-> c])
    /\ order' = Append(order, t)
    /\ UNCHANGED <<clock, goal>>

StartOnce(t, c) == \E delay \in Delays : Start(t, c, delay * Scale, 0)
StartPeriodic(t, c) == \E period \in Periods : Start(t, c, period, period)

Stop(t) ==
    /\ t \in DOMAIN timer
    /\ timer' = Without(t)
    /\ \E i \in 1 .. Len(order) : order[i] = t /\ order' = RemoveAt(order, i)
    /\ UNCHANGED <<clock, goal>>

Advance ==
    /\ clock = goal
    /\ goal' \in Nat /\ goal < goal'
    /\ UNCHANGED <<timer, order, clock>>

\* The timer that expires next: none has an earlier clock, and of those with
\* the same clock it was started first.
IsNext(i) ==
    \A j \in 1 .. Len(order) :
        /\ ClockOf(order[i]) <= ClockOf(order[j])
        /\ j < i => ClockOf(order[i]) < ClockOf(order[j])

Expire ==
    \E i \in 1 .. Len(order) :
        LET t == order[i] IN
        /\ IsNext(i)
        /\ ClockOf(t) <= goal
        /\ clock' = ClockOf(t)
        /\ IF timer[t].period = 0
           THEN timer' = Without(t) /\ order' = RemoveAt(order, i)
           ELSE /\ timer' = [timer EXCEPT ![t].due = @ + timer[t].period]
                /\ order' = Append(RemoveAt(order, i), t)
        /\ UNCHANGED goal

Arrive ==
    /\ clock # goal
    /\ \A t \in DOMAIN timer : ClockOf(t) > goal
    /\ clock' = goal
    /\ UNCHANGED <<timer, order, goal>>

Next ==
    \/ \E t \in Timer, c \in Client : StartOnce(t, c) \/ StartPeriodic(t, c)
    \/ \E t \in Timer : Stop(t)
    \/ Advance \/ Expire \/ Arrive

Spec == Init /\ [][Next]_timerVars
=============================================================================
