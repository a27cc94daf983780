---------------------------- MODULE I8253Proofs ----------------------------
(***************************************************************************)
(* Proofs about the programmable interval timer (I8253), for every width   *)
(* of a byte and every pair of clock rates.                                *)
(***************************************************************************)
EXTENDS I8253, TLAPS

-----------------------------------------------------------------------------
(* Numbers. *)

\* There are counts, and a register holds fewer than Full.
LEMMA FullIsPositive == Full \in Nat /\ Full >= 4 /\ Full >= 2 * Base /\ Base >= 2 /\ Base \in Nat
<1>1. Base \in Nat /\ Base >= 2
  BY ProgramAssumption
<1>2. Base * Base >= 2 * Base /\ Base * Base \in Nat
  BY <1>1, SMT
<1> QED
  BY <1>1, <1>2 DEF Full

\* Two bytes make a number below Full.
LEMMA TwoBytes ==
    ASSUME NEW high \in 0 .. Base - 1, NEW low \in 0 .. Base - 1
    PROVE  high * Base + low \in 0 .. Full - 1
<1>1. Base \in Nat /\ Base >= 2
  BY ProgramAssumption
<1>2. high * Base <= (Base - 1) * Base /\ high * Base >= 0 /\ high * Base \in Int
  BY <1>1, SMT
<1>3. (Base - 1) * Base = Base * Base - Base
  BY <1>1, SMT
<1> QED
  BY <1>1, <1>2, <1>3 DEF Full

\* Division rounds down.
LEMMA Division ==
    ASSUME NEW n \in Nat, NEW d \in Nat, d > 0
    PROVE  n \div d \in Nat /\ d * (n \div d) <= n /\ n < d * (n \div d) + d
<1>1. n \div d \in Int /\ n \div d >= 0
  BY SMT
<1>2. d * (n \div d) <= n
  BY SMT
<1>3. n < d * (n \div d) + d
  BY SMT
<1> QED
  BY <1>1, <1>2, <1>3

\* A product keeps an order.
LEMMA Monotone ==
    ASSUME NEW a \in Nat, NEW x \in Int, NEW y \in Int, x <= y
    PROVE  a * x <= a * y /\ a * x \in Int /\ a * y \in Int
  BY SMT

\* Rates.
LEMMA Rates ==
    /\ freq \in Nat /\ freq > 0 /\ cpu_clocks \in Nat /\ cpu_clocks >= freq
    /\ Ratio \in Nat /\ Ratio >= 1
<1>1. freq \in Nat /\ freq > 0 /\ cpu_clocks \in Nat /\ cpu_clocks >= freq
  BY RateAssumption
<1>2. Ratio \in Nat /\ cpu_clocks < freq * Ratio + freq
  BY <1>1, Division DEF Ratio
<1>3. Ratio # 0
  <2>1. SUFFICES ASSUME Ratio = 0 PROVE FALSE
    OBVIOUS
  <2>2. freq * Ratio = 0
    BY <1>1, <2>1
  <2> QED
    BY <1>1, <1>2, <2>2
<1> QED
  BY <1>1, <1>2, <1>3

-----------------------------------------------------------------------------
(* What the operators do to a counter: while a step is in progress its     *)
(* count may be zero, and its output may have changed.                     *)

Busy ==
    [prev_out : BOOLEAN, prev_in : BOOLEAN, gate : BOOLEAN, count : Int,
     latch : 0 .. Full - 1, count_reg : 0 .. Full - 1, access : 1 .. 3, mode : 0 .. 5,
     count_latched : BOOLEAN, low_read : BOOLEAN, high_read : BOOLEAN,
     low_write : BOOLEAN, high_write : BOOLEAN, delay : 0 .. 2, start : BOOLEAN,
     levels : Seq(BOOLEAN)]

SameSetting(k, m) ==
    /\ m.mode = k.mode /\ m.access = k.access /\ m.count_reg = k.count_reg
    /\ m.gate = k.gate /\ m.prev_in = k.prev_in
    /\ m.low_write = k.low_write /\ m.high_write = k.high_write

SameLatch(k, m) ==
    /\ m.latch = k.latch /\ m.count_latched = k.count_latched
    /\ m.low_read = k.low_read /\ m.high_read = k.high_read

SameCount(k, m) == m.count = k.count /\ m.delay = k.delay /\ m.start = k.start

LEMMA CounterIsBusy == Counter \subseteq Busy
<1>1. <<>> \in Seq(BOOLEAN)
  OBVIOUS
<1>2. 1 .. Full + 1 \subseteq Int
  BY FullIsPositive
<1> QED
  BY <1>1, <1>2 DEF Counter, Busy

LEMMA BusyLevels ==
    ASSUME NEW k \in Busy
    PROVE  k.levels \in Seq(BOOLEAN) /\ Len(k.levels) \in Nat /\ k.prev_out \in BOOLEAN
<1>1. k.levels \in Seq(BOOLEAN) /\ k.prev_out \in BOOLEAN
  BY DEF Busy
<1> QED
  BY <1>1

\* At the end of a step the levels are forgotten.
LEMMA SettledIsCounter ==
    ASSUME NEW k \in Busy, k.count \in 1 .. Full + 1
    PROVE  /\ Settled(k) \in Counter
           /\ SameSetting(k, Settled(k)) /\ SameLatch(k, Settled(k))
           /\ SameCount(k, Settled(k)) /\ Settled(k).prev_out = k.prev_out
  BY DEF Busy, Counter, Settled, SameSetting, SameLatch, SameCount

\* The value that a count register stands for.
LEMMA CountValueInRange ==
    ASSUME NEW k \in Busy
    PROVE  /\ COUNT_VALUE(k) \in 1 .. Full + 1
           /\ Half(k) \in 0 .. COUNT_VALUE(k) - 1
           /\ k.mode = 3 => COUNT_VALUE(k) >= 2
<1>1. k.count_reg \in 0 .. Full - 1
  BY DEF Busy
<1>2. COUNT_VALUE(k) \in 1 .. Full + 1 /\ (k.mode = 3 => COUNT_VALUE(k) >= 2)
  BY <1>1, FullIsPositive DEF COUNT_VALUE
<1> QED
  BY <1>2, FullIsPositive DEF Half

LEMMA SameValue ==
    ASSUME NEW k, NEW m, SameSetting(k, m)
    PROVE  COUNT_VALUE(m) = COUNT_VALUE(k) /\ Half(m) = Half(k)
  BY DEF SameSetting, COUNT_VALUE, Half

LEMMA SignalIsSet ==
    ASSUME NEW k \in Busy, NEW level \in BOOLEAN
    PROVE  LET m == SetSignal(k, level)
           IN  /\ m \in Busy /\ SameSetting(k, m) /\ SameLatch(k, m) /\ SameCount(k, m)
               /\ m.prev_out = level /\ Len(m.levels) <= Len(k.levels) + 1
<1> DEFINE levels == IF level = k.prev_out THEN k.levels ELSE Append(k.levels, level)
<1>1. levels \in Seq(BOOLEAN) /\ Len(levels) <= Len(k.levels) + 1
  <2>1. k.levels \in Seq(BOOLEAN) /\ Len(k.levels) \in Nat
    BY BusyLevels
  <2>2. /\ Append(k.levels, level) \in Seq(BOOLEAN)
        /\ Len(Append(k.levels, level)) = Len(k.levels) + 1
    BY <2>1
  <2>3. levels = k.levels \/ levels = Append(k.levels, level)
    OBVIOUS
  <2>4. Len(k.levels) <= Len(k.levels) + 1
    BY <2>1
  <2> HIDE DEF levels
  <2> QED
    BY <2>1, <2>2, <2>3, <2>4
<1>2. SetSignal(k, level) = [k EXCEPT !.prev_out = level, !.levels = levels]
  BY DEF SetSignal, Busy
<1> HIDE DEF levels
<1>3. /\ SetSignal(k, level) \in Busy
      /\ SetSignal(k, level).prev_out = level /\ SetSignal(k, level).levels = levels
  BY <1>1, <1>2 DEF Busy
<1>4. SameSetting(k, SetSignal(k, level)) /\ SameLatch(k, SetSignal(k, level))
  BY <1>2 DEF Busy, SameSetting, SameLatch
<1>5. SameCount(k, SetSignal(k, level))
  BY <1>2 DEF Busy, SameCount
<1> QED
  BY <1>1, <1>3, <1>4, <1>5

\* Where the output is after the count has reached k.count.
Level(k) ==
    IF k.mode = 3 THEN k.count > Half(k)
    ELSE IF k.count <= 0 THEN TRUE
    ELSE IF k.count = 1 /\ k.mode \in {2, 4, 5} THEN FALSE ELSE k.prev_out

LEMMA OutputIsLevel ==
    ASSUME NEW k \in Busy
    PROVE  LET m == Output(k)
           IN  /\ m \in Busy /\ SameSetting(k, m) /\ SameLatch(k, m) /\ SameCount(k, m)
               /\ m.prev_out = Level(k)
               /\ Len(m.levels) <= Len(k.levels) + IF k.mode # 3 /\ k.count <= 0 THEN 2 ELSE 1
<1>0. k.count \in Int /\ Half(k) \in Int /\ Len(k.levels) \in Nat /\ k.mode \in 0 .. 5
  BY CountValueInRange, FullIsPositive DEF Busy
<1>1. CASE k.mode = 3
  <2>1. (k.count > Half(k)) \in BOOLEAN
    OBVIOUS
  <2> QED
    BY <1>0, <1>1, <2>1, SignalIsSet DEF Output, Level
<1>2. CASE k.mode # 3
  <2> DEFINE low == IF k.count <= 1 /\ k.mode \in {2, 4, 5} THEN SetSignal(k, FALSE) ELSE k
  <2>1. /\ low \in Busy /\ SameSetting(k, low) /\ SameLatch(k, low) /\ SameCount(k, low)
        /\ low.prev_out = (IF k.count <= 1 /\ k.mode \in {2, 4, 5} THEN FALSE ELSE k.prev_out)
        /\ Len(low.levels) <= Len(k.levels) + 1 /\ Len(low.levels) \in Nat
    <3>1. CASE k.count <= 1 /\ k.mode \in {2, 4, 5}
      <4>1. SetSignal(k, FALSE) \in Busy
        BY SignalIsSet
      <4> QED
        BY <3>1, <4>1, SignalIsSet, BusyLevels
    <3>2. CASE ~(k.count <= 1 /\ k.mode \in {2, 4, 5})
      <4>1. low = k
        BY <3>2
      <4>2. SameSetting(k, k) /\ SameLatch(k, k) /\ SameCount(k, k)
        BY DEF SameSetting, SameLatch, SameCount
      <4>3. Len(k.levels) <= Len(k.levels) + 1
        BY <1>0
      <4> HIDE DEF low
      <4> QED
        BY <1>0, <3>2, <4>1, <4>2, <4>3
    <3> QED
      BY <3>1, <3>2
  <2>2. Output(k) = IF k.count <= 0 THEN SetSignal(low, TRUE) ELSE low
    BY <1>2 DEF Output
  <2> HIDE DEF low
  <2>3. CASE k.count <= 0
    <3> DEFINE m == SetSignal(low, TRUE)
    <3>1. /\ m \in Busy /\ SameSetting(low, m) /\ SameLatch(low, m) /\ SameCount(low, m)
          /\ m.prev_out = TRUE /\ Len(m.levels) <= Len(low.levels) + 1
      BY <2>1, SignalIsSet
    <3> HIDE DEF m
    <3>2. Len(m.levels) \in Nat
      BY <3>1, BusyLevels
    <3>3. Len(m.levels) <= Len(k.levels) + 2
      BY <1>0, <2>1, <3>1, <3>2
    <3>4. SameSetting(k, m) /\ SameLatch(k, m) /\ SameCount(k, m)
      BY <2>1, <3>1 DEF SameSetting, SameLatch, SameCount
    <3>5. Level(k) = TRUE
      BY <1>2, <2>3 DEF Level
    <3>6. Output(k) = m
      BY <2>2, <2>3 DEF m
    <3> QED
      BY <1>2, <2>3, <3>1, <3>3, <3>4, <3>5, <3>6
  <2>4. CASE ~(k.count <= 0)
    <3>1. ~(k.count <= 0) /\ (k.count <= 1 <=> k.count = 1)
      BY <1>0, <2>4
    <3>2. Output(k) = low /\ Level(k) = low.prev_out
      BY <1>2, <2>1, <2>2, <3>1 DEF Level
    <3> QED
      BY <2>1, <3>1, <3>2
  <2> QED
    BY <2>3, <2>4
<1> QED
  BY <1>1, <1>2
-----------------------------------------------------------------------------
(* Counting. *)

\* The count after clocks that bring it to rest; and whether it goes on.
CountAt(k, rest) ==
    IF rest > 0 THEN rest ELSE IF k.mode \in {2, 3} THEN COUNT_VALUE(k) ELSE Full
StartAt(k, rest) == k.start /\ (rest > 0 \/ k.mode \in {2, 3})
LevelAt(k, rest) ==
    LET atRest == Level([k EXCEPT !.count = rest])
    IN  IF rest > 0 \/ k.mode \notin {2, 3} THEN atRest
        ELSE Level([k EXCEPT !.count = COUNT_VALUE(k), !.prev_out = atRest])

\* A count that runs out is loaded once: no clock is lost in a second load.
LEMMA CountDownIs ==
    ASSUME NEW k \in Busy, NEW clock \in Nat, k.count - clock >= 0
    PROVE  LET m == CountDown(k, clock)
           IN  /\ m \in Busy /\ SameSetting(k, m) /\ SameLatch(k, m)
               /\ m.delay = k.delay /\ m.count = CountAt(k, k.count - clock)
               /\ m.start = StartAt(k, k.count - clock)
               /\ m.prev_out = LevelAt(k, k.count - clock)
               /\ Len(m.levels) <= Len(k.levels) + 3
<1> DEFINE rest == k.count - clock
           down == [k EXCEPT !.count = rest]
           done == Output(down)
<1>1. rest \in Nat /\ k.count \in Int
  BY DEF Busy
<1> HIDE DEF rest
<1>2. /\ down \in Busy /\ SameSetting(k, down) /\ SameLatch(k, down)
      /\ down.delay = k.delay /\ down.start = k.start /\ down.count = rest
      /\ down.levels = k.levels /\ down.mode = k.mode
  <2>1. down \in Busy
    BY <1>1, SMTT(20) DEF Busy
  <2>2. SameSetting(k, down)
    BY DEF Busy, SameSetting
  <2>3. SameLatch(k, down)
    BY DEF Busy, SameLatch
  <2>4. /\ down.delay = k.delay /\ down.start = k.start /\ down.count = rest
        /\ down.levels = k.levels /\ down.mode = k.mode
    BY DEF Busy
  <2> QED
    BY <2>1, <2>2, <2>3, <2>4
<1>3. Len(down.levels) = Len(k.levels) /\ Len(k.levels) \in Nat
  BY <1>2, BusyLevels
<1>4. Level(down) = Level([k EXCEPT !.count = rest])
  OBVIOUS
<1> HIDE DEF down
<1>5. /\ done \in Busy /\ SameSetting(down, done) /\ SameLatch(down, done)
      /\ SameCount(down, done) /\ done.prev_out = Level(down)
      /\ Len(done.levels) <= Len(down.levels)
                              + IF down.mode # 3 /\ down.count <= 0 THEN 2 ELSE 1
  BY <1>2, OutputIsLevel
<1>6. CountDown(k, clock) =
        IF done.count > 0 THEN done
        ELSE IF k.mode \in {2, 3} THEN Output([done EXCEPT !.count = @ + COUNT_VALUE(k)])
        ELSE [done EXCEPT !.start = FALSE, !.count = Full]
  BY DEF CountDown, done, down, rest
<1> HIDE DEF done
<1>7. SameSetting(k, done) /\ SameLatch(k, done)
  BY <1>2, <1>5 DEF SameSetting, SameLatch
<1>8. done.delay = k.delay /\ done.start = k.start /\ done.count = rest
  BY <1>2, <1>5 DEF SameCount
<1>9. Len(done.levels) \in Nat /\ Len(done.levels) <= Len(k.levels) + 2
  <2>1. Len(done.levels) \in Nat
    BY <1>5, BusyLevels
  <2>2. \/ Len(done.levels) <= Len(down.levels) + 1
        \/ Len(done.levels) <= Len(down.levels) + 2
    BY <1>5
  <2> QED
    BY <1>3, <2>1, <2>2
<1>10. CASE rest > 0
  <2>1. CountDown(k, clock) = done
    BY <1>6, <1>8, <1>10
  <2>2. /\ CountAt(k, rest) = rest
        /\ StartAt(k, rest) = k.start
        /\ LevelAt(k, rest) = Level(down)
    <3>1. k.start \in BOOLEAN
      BY DEF Busy
    <3> QED
      BY <1>4, <1>10, <3>1 DEF CountAt, StartAt, LevelAt
  <2>3. Len(done.levels) <= Len(k.levels) + 3
    BY <1>3, <1>9
  <2> QED
    BY <1>5, <1>7, <1>8, <2>1, <2>2, <2>3 DEF rest
<1>11. CASE ~(rest > 0) /\ k.mode \in {2, 3}
  <2> DEFINE loaded == [done EXCEPT !.count = @ + COUNT_VALUE(k)]
             again == Output(loaded)
  <2>1. rest = 0 /\ COUNT_VALUE(k) \in 1 .. Full + 1
    BY <1>1, <1>11, CountValueInRange
  <2>2. done.count + COUNT_VALUE(k) = COUNT_VALUE(k) /\ COUNT_VALUE(k) \in Int
    BY <1>8, <2>1, FullIsPositive
  <2>3. /\ loaded \in Busy /\ SameSetting(done, loaded) /\ SameLatch(done, loaded)
        /\ loaded.delay = done.delay /\ loaded.start = done.start
        /\ loaded.count = COUNT_VALUE(k) /\ loaded.levels = done.levels
        /\ loaded.prev_out = Level(down) /\ loaded.mode = k.mode
    BY <1>2, <1>5, <2>2 DEF Busy, SameSetting, SameLatch
  <2> HIDE DEF loaded
  <2>4. /\ again \in Busy /\ SameSetting(loaded, again) /\ SameLatch(loaded, again)
        /\ SameCount(loaded, again) /\ again.prev_out = Level(loaded)
        /\ Len(again.levels) <= Len(loaded.levels)
                              + IF loaded.mode # 3 /\ loaded.count <= 0 THEN 2 ELSE 1
    BY <2>3, OutputIsLevel
  <2>5. CountDown(k, clock) = again
    BY <1>6, <1>8, <1>11 DEF loaded
  <2> HIDE DEF again
  <2>6. SameSetting(k, again) /\ SameLatch(k, again)
    BY <1>7, <2>3, <2>4 DEF SameSetting, SameLatch
  <2>7. /\ again.delay = k.delay /\ again.start = k.start
        /\ again.count = COUNT_VALUE(k)
    BY <1>8, <2>3, <2>4 DEF SameCount
  <2>8. Len(again.levels) <= Len(k.levels) + 3
    <3>1. Len(done.levels) \in Nat /\ Len(done.levels) <= Len(k.levels) + 2
      BY <1>9
    <3>2. Len(again.levels) \in Nat
      BY <2>4, BusyLevels
    <3>3. ~(loaded.count <= 0)
      BY <2>1, <2>3, FullIsPositive
    <3>4. Len(again.levels) <= Len(done.levels) + 1
      BY <2>3, <2>4, <3>3
    <3> QED
      BY <1>3, <3>1, <3>2, <3>4
  <2>9. CountAt(k, rest) = COUNT_VALUE(k) /\ StartAt(k, rest) = k.start
    <3>1. k.start \in BOOLEAN
      BY DEF Busy
    <3> QED
      BY <1>11, <3>1 DEF CountAt, StartAt
  <2>10. LevelAt(k, rest) = Level(loaded)
    <3> DEFINE other == [k EXCEPT !.count = COUNT_VALUE(k), !.prev_out = Level(down)]
    <3>1. /\ other.mode = k.mode /\ other.count = COUNT_VALUE(k)
          /\ other.prev_out = Level(down) /\ SameSetting(k, other)
      BY DEF Busy, SameSetting
    <3>2. LevelAt(k, rest) = Level(other)
      BY <1>4, <1>11 DEF LevelAt
    <3> HIDE DEF other
    <3>3. SameSetting(k, loaded)
      BY <1>7, <2>3 DEF SameSetting
    <3>4. Half(other) = Half(k) /\ Half(loaded) = Half(k)
      BY <3>1, <3>3, SameValue
    <3>5. Level(other) = Level(loaded)
      BY <2>3, <3>1, <3>4 DEF Level
    <3> QED
      BY <3>2, <3>5
  <2> QED
    BY <2>4, <2>5, <2>6, <2>7, <2>8, <2>9, <2>10 DEF rest
<1>12. CASE ~(rest > 0) /\ k.mode \notin {2, 3}
  <2> DEFINE ended == [done EXCEPT !.start = FALSE, !.count = Full]
  <2>1. CountDown(k, clock) = ended
    BY <1>6, <1>8, <1>12
  <2>2. /\ ended \in Busy /\ SameSetting(done, ended) /\ SameLatch(done, ended)
        /\ ended.delay = done.delay /\ ended.start = FALSE /\ ended.count = Full
        /\ ended.levels = done.levels /\ ended.prev_out = done.prev_out
    <3>1. Full \in Int
      BY FullIsPositive
    <3>2. ended \in Busy
      BY <1>5, <3>1 DEF Busy
    <3>3. SameSetting(done, ended) /\ SameLatch(done, ended)
      BY <1>5 DEF Busy, SameSetting, SameLatch
    <3> QED
      BY <1>5, <3>2, <3>3 DEF Busy
  <2> HIDE DEF ended
  <2>3. SameSetting(k, ended) /\ SameLatch(k, ended)
    BY <1>7, <2>2 DEF SameSetting, SameLatch
  <2>4. /\ CountAt(k, rest) = Full /\ StartAt(k, rest) = FALSE
        /\ LevelAt(k, rest) = Level(down)
    BY <1>4, <1>12 DEF CountAt, StartAt, LevelAt
  <2>5. Len(ended.levels) <= Len(k.levels) + 3
    BY <1>3, <1>9, <2>2
  <2> QED
    BY <1>5, <1>8, <2>1, <2>2, <2>3, <2>4, <2>5 DEF rest
<1> QED
  BY <1>10, <1>11, <1>12

\* A clock that only counts down the delay of a start loads the count at its end.
LEMMA DelayedClockIs ==
    ASSUME NEW k \in Busy, k.start, k.delay > 0
    PROVE  LET m == InputClock(k, 1)
           IN  /\ m \in Busy /\ SameSetting(k, m) /\ SameLatch(k, m)
               /\ m.delay = k.delay - 1 /\ m.start = k.start
               /\ m.count = IF k.delay = 1 THEN COUNT_VALUE(k) ELSE k.count
               /\ m.prev_out = k.prev_out /\ m.levels = k.levels
<1> DEFINE value == IF k.delay = 1 THEN COUNT_VALUE(k) ELSE k.count
<1>1. value \in Int /\ k.delay \in 1 .. 2 /\ k.delay - 1 \in 0 .. 2
  BY CountValueInRange, FullIsPositive DEF Busy
<1>2. InputClock(k, 1) = [k EXCEPT !.delay = k.delay - 1, !.count = value]
  BY <1>1 DEF InputClock, Busy
<1> HIDE DEF value
<1>3. SameSetting(k, InputClock(k, 1)) /\ SameLatch(k, InputClock(k, 1))
  BY <1>2 DEF Busy, SameSetting, SameLatch
<1> QED
  BY <1>1, <1>2, <1>3 DEF Busy, value

\* The clocks that a counter can be given: what is left of the delay or the count.
Clocks(k) == IF k.delay > 0 THEN {0, 1} ELSE 0 .. k.count

\* Whatever is counted, a counter stays one, and neither its setting nor what is
\* latched changes.
LEMMA InputClockIs ==
    ASSUME NEW k \in Busy, k.count \in 1 .. Full + 1,
           NEW clock \in Nat, k.start => clock \in Clocks(k)
    PROVE  LET m == InputClock(k, clock)
           IN  /\ m \in Busy /\ SameSetting(k, m) /\ SameLatch(k, m)
               /\ m.count \in 1 .. Full + 1 /\ Len(m.levels) <= Len(k.levels) + 3
               /\ m.start => k.start
<1>0. k.count \in Int /\ k.delay \in 0 .. 2
  BY DEF Busy
<1>1. CASE ~k.start \/ clock = 0
  <2>1. InputClock(k, clock) = k
    BY <1>1 DEF InputClock
  <2>2. SameSetting(k, k) /\ SameLatch(k, k) /\ Len(k.levels) <= Len(k.levels) + 3
    BY BusyLevels DEF SameSetting, SameLatch
  <2> QED
    BY <2>1, <2>2
<1>2. CASE k.start /\ clock # 0 /\ k.delay > 0
  <2>1. clock = 1
    BY <1>2 DEF Clocks
  <2>2. LET m == InputClock(k, 1)
        IN  /\ m \in Busy /\ SameSetting(k, m) /\ SameLatch(k, m)
            /\ m.start = k.start
            /\ m.count = IF k.delay = 1 THEN COUNT_VALUE(k) ELSE k.count
            /\ m.levels = k.levels
    BY <1>2, DelayedClockIs
  <2>3. InputClock(k, 1).count \in 1 .. Full + 1
    BY <2>2, CountValueInRange
  <2>4. Len(InputClock(k, 1).levels) <= Len(k.levels) + 3
    BY <2>2, BusyLevels
  <2> QED
    BY <2>1, <2>2, <2>3, <2>4
<1>3. CASE k.start /\ clock # 0 /\ ~(k.delay > 0)
  <2>1. k.delay = 0 /\ clock \in 0 .. k.count
    BY <1>0, <1>3 DEF Clocks
  <2>2. InputClock(k, clock) = CountDown(k, clock)
    BY <1>3, <2>1 DEF InputClock
  <2>3. k.count - clock >= 0 /\ k.count - clock <= Full + 1 /\ k.count - clock \in Int
    BY <2>1, FullIsPositive
  <2>4. LET m == CountDown(k, clock)
        IN  /\ m \in Busy /\ SameSetting(k, m) /\ SameLatch(k, m)
            /\ m.count = CountAt(k, k.count - clock)
            /\ Len(m.levels) <= Len(k.levels) + 3
    BY <2>3, CountDownIs
  <2>5. CountAt(k, k.count - clock) \in 1 .. Full + 1
    BY <2>3, CountValueInRange, FullIsPositive DEF CountAt
  <2> QED
    BY <1>3, <2>2, <2>4, <2>5
<1> QED
  BY <1>1, <1>2, <1>3

-----------------------------------------------------------------------------
(* Commands. *)

\* The bytes of a count arrive in order: only a high byte is ever waited for,
\* and then the register holds the low byte alone.
BytesInOrder(k) == ~k.low_write /\ (k.high_write => k.count_reg < Base)

\* What a counter is in the midst of a step, and what it is after it.
Ready(k) == k \in Busy /\ k.count \in 1 .. Full + 1 /\ BytesInOrder(k)
WellFormed(k) == k \in Counter /\ BytesInOrder(k)

LEMMA WellFormedIsReady ==
    ASSUME NEW k, WellFormed(k)
    PROVE  Ready(k) /\ k.levels = <<>>
  BY CounterIsBusy DEF WellFormed, Ready, Counter

LEMMA SettledIsWellFormed ==
    ASSUME NEW k, Ready(k)
    PROVE  /\ WellFormed(Settled(k)) /\ SameSetting(k, Settled(k)) /\ SameLatch(k, Settled(k))
           /\ SameCount(k, Settled(k)) /\ Settled(k).prev_out = k.prev_out
<1>1. /\ Settled(k) \in Counter /\ SameSetting(k, Settled(k)) /\ SameLatch(k, Settled(k))
      /\ SameCount(k, Settled(k)) /\ Settled(k).prev_out = k.prev_out
  BY SettledIsCounter DEF Ready
<1> QED
  BY <1>1 DEF Ready, WellFormed, BytesInOrder, SameSetting

\* Two counters have the same outcome of a step.
SameFate(k, m) == SameSetting(k, m) /\ SameCount(k, m) /\ m.prev_out = k.prev_out

\* What is kept by what only counts.
LEMMA CountedIsReady ==
    ASSUME NEW k, NEW m, Ready(k), m \in Busy, m.count \in 1 .. Full + 1, SameSetting(k, m)
    PROVE  Ready(m)
  BY DEF Ready, BytesInOrder, SameSetting

LEMMA ByteWrittenIs ==
    ASSUME NEW k, Ready(k), NEW data \in Bytes
    PROVE  LET m == ByteWritten(k, data)
           IN  /\ Ready(m) /\ SameLatch(k, m) /\ SameCount(k, m)
               /\ m.prev_out = k.prev_out /\ m.levels = k.levels
               /\ m.mode = k.mode /\ m.access = k.access
               /\ m.gate = k.gate /\ m.prev_in = k.prev_in
<1>1. k \in Busy /\ ~k.low_write /\ (k.high_write => k.count_reg < Base)
  BY DEF Ready, BytesInOrder
<1>2. data \in 0 .. Base - 1 /\ data \in 0 .. Full - 1 /\ data < Base
  BY ProgramAssumption, FullIsPositive
<1>3. k.count_reg \in 0 .. Full - 1 /\ k.access \in 1 .. 3
  BY <1>1 DEF Busy
<1> DEFINE low == ~k.high_write /\ k.access \in {1, 3}
           high == IF ~k.high_write THEN k.access \in {2, 3} ELSE k.high_write
           word == data * Base + IF k.access = 2 THEN 0 ELSE k.count_reg
<1>4. ByteWritten(k, data) =
        IF low THEN [k EXCEPT !.count_reg = data, !.low_write = FALSE, !.high_write = high]
        ELSE [k EXCEPT !.count_reg = word, !.low_write = FALSE, !.high_write = FALSE]
  BY <1>1 DEF ByteWritten, Busy
<1>5. high \in BOOLEAN
  <2>1. k.high_write \in BOOLEAN
    BY <1>1 DEF Busy
  <2>2. CASE k.high_write
    BY <2>1, <2>2
  <2>3. CASE ~k.high_write
    BY <2>3
  <2> QED
    BY <2>2, <2>3
<1>6. CASE low
  <2>1. ByteWritten(k, data) =
          [k EXCEPT !.count_reg = data, !.low_write = FALSE, !.high_write = high]
    BY <1>4, <1>6
  <2> HIDE DEF low, high
  <2> QED
    BY <1>1, <1>2, <1>5, <2>1, ZenonT(40) DEF Ready, Busy, BytesInOrder, SameLatch, SameCount
<1>7. CASE ~low
  <2>1. ByteWritten(k, data) =
          [k EXCEPT !.count_reg = word, !.low_write = FALSE, !.high_write = FALSE]
    BY <1>4, <1>7
  <2>2. word \in 0 .. Full - 1
    <3>1. (IF k.access = 2 THEN 0 ELSE k.count_reg) \in 0 .. Base - 1
      BY <1>1, <1>3, <1>7, FullIsPositive
    <3> QED
      BY <1>2, <3>1, TwoBytes
  <2> HIDE DEF low, high, word
  <2> QED
    BY <1>1, <2>1, <2>2 DEF Ready, Busy, BytesInOrder, SameLatch, SameCount
<1> QED
  BY <1>6, <1>7

LEMMA ByteWrittenAlike ==
    ASSUME NEW k \in Busy, NEW m \in Busy, SameSetting(k, m), NEW data
    PROVE  SameSetting(ByteWritten(k, data), ByteWritten(m, data))
<1>1. CASE ~k.low_write /\ ~k.high_write
  BY <1>1 DEF Busy, ByteWritten, SameSetting
<1>2. CASE ~(~k.low_write /\ ~k.high_write)
  BY <1>2 DEF Busy, ByteWritten, SameSetting
<1> QED
  BY <1>1, <1>2

LEMMA StartedIs ==
    ASSUME NEW k \in Busy
    PROVE  LET m == Started(k)
           IN  /\ m \in Busy /\ SameSetting(k, m) /\ SameLatch(k, m)
               /\ m.count = k.count /\ m.delay = k.delay
               /\ m.start = (k.start \/ (~k.low_write /\ ~k.high_write /\ k.gate))
               /\ m.prev_out = k.prev_out /\ m.levels = k.levels
<1>1. CASE k.low_write \/ k.high_write \/ ~k.gate
  BY <1>1, ZenonT(40) DEF Started, SameSetting, SameLatch, Busy
<1>2. CASE ~(k.low_write \/ k.high_write \/ ~k.gate)
  BY <1>2 DEF Started, SameSetting, SameLatch, Busy
<1> QED
  BY <1>1, <1>2

\* Does a counter that is written or gated now start?
Starts(k) == ~k.low_write /\ ~k.high_write /\ k.gate

LEMMA CountWrittenIs ==
    ASSUME NEW k, Ready(k), NEW data \in Bytes
    PROVE  LET m == CountWritten(k, data)
           IN  /\ Ready(m) /\ SameLatch(k, m)
               /\ SameSetting(ByteWritten(k, data), m) /\ m.mode = k.mode /\ m.gate = k.gate
               /\ m.count = k.count /\ m.prev_out = (k.mode # 0)
               /\ m.delay = IF Restarts(k) THEN IF k.prev_in THEN 2 ELSE 1 ELSE k.delay
               /\ m.start = IF Restarts(k) THEN Starts(m) ELSE k.start
               /\ Len(m.levels) <= Len(k.levels) + 1
<1> DEFINE byte == ByteWritten(k, data)
           written == SetSignal(byte, k.mode # 0)
           delay == IF k.prev_in THEN 2 ELSE 1
           held == [Stopped(written) EXCEPT !.delay = delay]
<1>1. /\ Ready(byte) /\ SameLatch(k, byte) /\ SameCount(k, byte) /\ byte.levels = k.levels
      /\ byte.mode = k.mode /\ byte.gate = k.gate
  BY ByteWrittenIs
<1> HIDE DEF byte
<1>2. /\ written \in Busy /\ SameSetting(byte, written) /\ SameLatch(byte, written)
      /\ SameCount(byte, written) /\ written.prev_out = (k.mode # 0)
      /\ Len(written.levels) <= Len(byte.levels) + 1
  <2>1. (k.mode # 0) \in BOOLEAN /\ byte \in Busy
    BY <1>1 DEF Ready
  <2> QED
    BY <2>1, SignalIsSet
<1> HIDE DEF written
<1>3. CountWritten(k, data) = IF Restarts(k) THEN Started(held) ELSE written
  BY DEF CountWritten, written, byte, held, delay
<1>4. CASE Restarts(k)
  <2>1. /\ held \in Busy /\ SameSetting(written, held) /\ SameLatch(written, held)
        /\ held.count = written.count /\ held.delay = delay /\ held.start = FALSE
        /\ held.prev_out = written.prev_out /\ held.levels = written.levels
    <3>1. delay \in 0 .. 2
      OBVIOUS
    <3> HIDE DEF delay
    <3>2. held \in Busy
      BY <1>2, <3>1 DEF Busy, Stopped
    <3>3. SameSetting(written, held) /\ SameLatch(written, held)
      BY <1>2 DEF Busy, Stopped, SameSetting, SameLatch
    <3> QED
      BY <1>2, <3>2, <3>3 DEF Busy, Stopped
  <2> HIDE DEF held, delay
  <2> DEFINE m == Started(held)
  <2>2. /\ m \in Busy /\ SameSetting(held, m) /\ SameLatch(held, m)
        /\ m.count = held.count /\ m.delay = held.delay
        /\ m.start = (held.start \/ (~held.low_write /\ ~held.high_write /\ held.gate))
        /\ m.prev_out = held.prev_out /\ m.levels = held.levels
    BY <2>1, StartedIs
  <2> HIDE DEF m
  <2>3. SameSetting(byte, m) /\ SameLatch(k, m) /\ m.mode = k.mode /\ m.gate = k.gate
    BY <1>1, <1>2, <2>1, <2>2 DEF SameSetting, SameLatch
  <2>4. m.start = Starts(m)
    BY <2>1, <2>2 DEF Starts, SameSetting
  <2>5. m.count = k.count
    BY <1>1, <1>2, <2>1, <2>2 DEF SameCount
  <2>6. Ready(m)
    BY <1>1, <2>2, <2>3, <2>5 DEF Ready, BytesInOrder, SameSetting, SameCount
  <2>7. m.delay = IF k.prev_in THEN 2 ELSE 1
    BY <2>1, <2>2 DEF delay
  <2>8. Len(m.levels) <= Len(k.levels) + 1
    BY <1>1, <1>2, <2>1, <2>2
  <2>9. CountWritten(k, data) = m
    BY <1>3, <1>4 DEF m
  <2> QED
    BY <1>2, <1>4, <2>1, <2>2, <2>3, <2>4, <2>5, <2>6, <2>7, <2>8, <2>9 DEF byte
<1>5. CASE ~Restarts(k)
  <2>1. Ready(written)
    BY <1>1, <1>2 DEF Ready, BytesInOrder, SameSetting, SameCount
  <2>2. SameLatch(k, written) /\ written.mode = k.mode /\ written.gate = k.gate
    BY <1>1, <1>2 DEF SameSetting, SameLatch
  <2>3. SameCount(k, written)
    BY <1>1, <1>2 DEF SameCount
  <2> QED
    BY <1>1, <1>2, <1>3, <1>5, <2>1, <2>2, <2>3 DEF SameCount, byte
<1> QED
  BY <1>4, <1>5

\* What a control word sets.
Accesses == 1 .. 3
Modes == 0 .. 5

LEMMA ControlWrittenIs ==
    ASSUME NEW k, NEW access \in Accesses, NEW mode \in Modes, Ready(k)
    PROVE  LET m == ControlWritten(k, access, mode)
           IN  /\ Ready(m) /\ m.mode = mode /\ m.access = access /\ m.count_reg = 0
               /\ m.gate = k.gate /\ m.prev_in = k.prev_in
               /\ m.low_write = FALSE /\ m.high_write = FALSE /\ m.count_latched = FALSE
               /\ m.count = k.count /\ m.delay = k.delay /\ m.start = FALSE
               /\ m.prev_out = (mode # 0) /\ Len(m.levels) <= Len(k.levels) + 1
<1> DEFINE moded == [k EXCEPT !.mode = mode]
           set == SetSignal(moded, mode # 0)
           m == ControlWritten(k, access, mode)
<1>1. /\ moded \in Busy /\ moded.mode = mode /\ moded.levels = k.levels
      /\ moded.gate = k.gate /\ moded.prev_in = k.prev_in
      /\ moded.count = k.count /\ moded.delay = k.delay
  BY DEF Ready, Busy, Modes
<1> HIDE DEF moded
<1>2. /\ set \in Busy /\ SameSetting(moded, set) /\ SameCount(moded, set)
      /\ set.prev_out = (mode # 0) /\ Len(set.levels) <= Len(moded.levels) + 1
  <2>1. (mode # 0) \in BOOLEAN
    BY DEF Modes
  <2> QED
    BY <1>1, <2>1, SignalIsSet
<1>3. m = [Stopped(set) EXCEPT
             !.access = access, !.count_reg = 0, !.count_latched = FALSE,
             !.low_read = FALSE, !.high_read = FALSE,
             !.low_write = FALSE, !.high_write = FALSE]
  BY DEF ControlWritten, set, moded
<1> HIDE DEF set, m
<1>4. m \in Busy
  <2>1. 0 \in 0 .. Full - 1
    BY FullIsPositive
  <2>2. Stopped(set) \in Busy
    BY <1>2 DEF Busy, Stopped
  <2> QED
    BY <1>3, <2>1, <2>2 DEF Busy, Accesses
<1>5. /\ m.mode = mode /\ m.access = access /\ m.count_reg = 0
      /\ m.gate = k.gate /\ m.prev_in = k.prev_in
      /\ m.low_write = FALSE /\ m.high_write = FALSE /\ m.count_latched = FALSE
  BY <1>1, <1>2, <1>3 DEF Busy, Stopped, SameSetting
<1>6. /\ m.count = k.count /\ m.delay = k.delay /\ m.start = FALSE
      /\ m.prev_out = set.prev_out /\ m.levels = set.levels
  BY <1>1, <1>2, <1>3 DEF Busy, Stopped, SameCount
<1>7. Ready(m)
  BY <1>4, <1>5, <1>6 DEF Ready, BytesInOrder
<1> QED
  BY <1>1, <1>2, <1>5, <1>6, <1>7 DEF m

\* What a gate can be.
Signals == BOOLEAN

Falls(k, signal) == k.gate /\ ~signal
Rises(k, signal) == ~k.gate /\ signal

\* What the gate does to the delay, to the output, and whether the counter runs.
GateDelay(k, signal) == IF Rises(k, signal) /\ k.mode \notin {0, 4} THEN 1 ELSE k.delay
GateLevel(k, signal) ==
    IF Falls(k, signal) /\ k.mode \in {2, 3} THEN TRUE
    ELSE IF Rises(k, signal) /\ k.mode = 1 THEN FALSE ELSE k.prev_out
GateStart(k, m, signal) ==
    IF Rises(k, signal) THEN Starts(m)
    ELSE IF Falls(k, signal) THEN k.start /\ k.mode \in {1, 5} ELSE k.start

\* The gate does not change the setting otherwise.
LEMMA GateChangedIs ==
    ASSUME NEW k, Ready(k), NEW signal \in Signals
    PROVE  LET m == GateChanged(k, signal)
           IN  /\ Ready(m) /\ SameLatch(k, m) /\ m.gate = signal /\ m.count = k.count
               /\ m.mode = k.mode /\ m.access = k.access /\ m.count_reg = k.count_reg
               /\ m.prev_in = k.prev_in
               /\ m.low_write = k.low_write /\ m.high_write = k.high_write
               /\ m.delay = GateDelay(k, signal) /\ m.start = GateStart(k, m, signal)
               /\ m.prev_out = GateLevel(k, signal) /\ Len(m.levels) <= Len(k.levels) + 1
<1> DEFINE m == GateChanged(k, signal)
<1>0. k \in Busy /\ k.gate \in BOOLEAN /\ k.start \in BOOLEAN /\ Len(k.levels) \in Nat
  BY BusyLevels DEF Ready, Busy
<1> USE DEF Signals, Falls, Rises, GateDelay, GateLevel, GateStart
<1>1. CASE k.gate /\ ~signal
  <2> DEFINE low == [(IF k.mode \in {1, 5} THEN k ELSE Stopped(k)) EXCEPT !.gate = FALSE]
  <2>1. low \in Busy /\ SameLatch(k, low)
    BY <1>0 DEF Busy, Stopped, SameLatch
  <2>2. /\ low.gate = FALSE /\ low.count = k.count
        /\ low.mode = k.mode /\ low.access = k.access /\ low.count_reg = k.count_reg
        /\ low.prev_in = k.prev_in
        /\ low.low_write = k.low_write /\ low.high_write = k.high_write
        /\ low.delay = k.delay /\ low.prev_out = k.prev_out /\ low.levels = k.levels
    BY <1>0 DEF Busy, Stopped
  <2>3. low.start = (k.start /\ k.mode \in {1, 5})
    BY <1>0 DEF Busy, Stopped
  <2>4. m = IF k.mode \in {2, 3} THEN SetSignal(low, TRUE) ELSE low
    BY <1>1 DEF GateChanged
  <2> HIDE DEF low, m
  <2>5. /\ m \in Busy /\ SameSetting(low, m) /\ SameLatch(low, m) /\ SameCount(low, m)
        /\ m.prev_out = (IF k.mode \in {2, 3} THEN TRUE ELSE low.prev_out)
        /\ Len(m.levels) <= Len(low.levels) + 1
    <3>1. CASE k.mode \in {2, 3}
      BY <2>1, <2>4, <3>1, SignalIsSet
    <3>2. CASE k.mode \notin {2, 3}
      <4>1. Len(low.levels) <= Len(low.levels) + 1
        BY <1>0, <2>2
      <4> QED
        BY <2>1, <2>4, <3>2, <4>1 DEF SameSetting, SameLatch, SameCount
    <3> QED
      BY <3>1, <3>2
  <2>6. Ready(m) /\ SameLatch(k, m) /\ m.count = k.count /\ m.delay = k.delay
    BY <2>1, <2>2, <2>5 DEF Ready, BytesInOrder, SameSetting, SameLatch, SameCount
  <2>7. /\ m.gate = FALSE /\ m.mode = k.mode /\ m.access = k.access
        /\ m.count_reg = k.count_reg /\ m.prev_in = k.prev_in
        /\ m.low_write = k.low_write /\ m.high_write = k.high_write
    BY <2>2, <2>5 DEF SameSetting
  <2>8. m.start = (k.start /\ k.mode \in {1, 5})
    BY <2>3, <2>5 DEF SameCount
  <2>9. m.prev_out = (IF k.mode \in {2, 3} THEN TRUE ELSE k.prev_out)
    BY <2>2, <2>5
  <2> QED
    BY <1>1, <2>2, <2>5, <2>6, <2>7, <2>8, <2>9 DEF m
<1>2. CASE ~k.gate /\ signal
  <2> DEFINE delay == IF k.mode \in {0, 4} THEN k.delay ELSE 1
             high == [Stopped(k) EXCEPT !.gate = TRUE, !.delay = delay]
             started == Started(high)
  <2>1. high \in Busy /\ SameLatch(k, high)
    <3>1. delay \in 0 .. 2
      BY <1>0 DEF Busy
    <3> HIDE DEF delay
    <3> QED
      BY <1>0, <3>1 DEF Busy, Stopped, SameLatch
  <2>2. /\ high.gate = TRUE /\ high.count = k.count
        /\ high.mode = k.mode /\ high.access = k.access /\ high.count_reg = k.count_reg
        /\ high.prev_in = k.prev_in
        /\ high.low_write = k.low_write /\ high.high_write = k.high_write
        /\ high.delay = delay /\ high.prev_out = k.prev_out /\ high.levels = k.levels
        /\ high.start = FALSE
    BY <1>0 DEF Busy, Stopped
  <2>3. m = IF k.mode = 1 THEN SetSignal(started, FALSE) ELSE started
    <3>1. high = [Stopped(k) EXCEPT !.gate = TRUE,
                                    !.delay = IF k.mode \in {0, 4} THEN @ ELSE 1]
      BY <1>0 DEF Busy, Stopped
    <3> QED
      BY <1>2, <3>1 DEF GateChanged
  <2> HIDE DEF high, m
  <2>4. /\ started \in Busy /\ SameSetting(high, started) /\ SameLatch(high, started)
        /\ started.count = high.count /\ started.delay = high.delay
        /\ started.start = (high.start \/ (~high.low_write /\ ~high.high_write /\ high.gate))
        /\ started.prev_out = high.prev_out /\ started.levels = high.levels
    BY <2>1, StartedIs
  <2> HIDE DEF started
  <2>5. /\ m \in Busy /\ SameSetting(started, m) /\ SameLatch(started, m)
        /\ SameCount(started, m)
        /\ m.prev_out = (IF k.mode = 1 THEN FALSE ELSE started.prev_out)
        /\ Len(m.levels) <= Len(started.levels) + 1
    <3>1. CASE k.mode = 1
      BY <2>3, <2>4, <3>1, SignalIsSet
    <3>2. CASE k.mode # 1
      <4>1. Len(started.levels) <= Len(started.levels) + 1
        BY <1>0, <2>2, <2>4
      <4> QED
        BY <2>3, <2>4, <3>2, <4>1 DEF SameSetting, SameLatch, SameCount
    <3> QED
      BY <3>1, <3>2
  <2>6. Ready(m) /\ SameLatch(k, m) /\ m.count = k.count /\ m.delay = delay
    BY <2>1, <2>2, <2>4, <2>5 DEF Ready, BytesInOrder, SameSetting, SameLatch, SameCount
  <2>7. /\ m.gate = TRUE /\ m.mode = k.mode /\ m.access = k.access
        /\ m.count_reg = k.count_reg /\ m.prev_in = k.prev_in
        /\ m.low_write = k.low_write /\ m.high_write = k.high_write
    BY <2>2, <2>4, <2>5 DEF SameSetting
  <2>8. m.start = Starts(m)
    BY <2>2, <2>4, <2>5, <2>7 DEF SameCount, Starts
  <2>9. m.prev_out = (IF k.mode = 1 THEN FALSE ELSE k.prev_out)
    BY <2>2, <2>4, <2>5
  <2>10. Len(m.levels) <= Len(k.levels) + 1
    BY <2>2, <2>4, <2>5
  <2> QED
    BY <1>2, <2>6, <2>7, <2>8, <2>9, <2>10 DEF m
<1>3. CASE ~(k.gate /\ ~signal) /\ ~(~k.gate /\ signal)
  <2>1. m = k
    BY <1>3 DEF GateChanged
  <2>2. k.gate = signal
    BY <1>0, <1>3
  <2>3. Len(k.levels) <= Len(k.levels) + 1
    BY <1>0
  <2> HIDE DEF m
  <2> QED
    BY <1>0, <1>3, <2>1, <2>2, <2>3 DEF m, SameLatch
<1> QED
  BY <1>1, <1>2, <1>3

LEMMA LatchedIs ==
    ASSUME NEW k, Ready(k)
    PROVE  LET m == Latched(k)
           IN  /\ Ready(m) /\ SameSetting(k, m) /\ SameCount(k, m)
               /\ m.prev_out = k.prev_out /\ m.levels = k.levels /\ m.count_latched = TRUE
<1>1. k.count % Full \in 0 .. Full - 1
  BY FullIsPositive DEF Ready
<1> DEFINE latch == k.count % Full
<1>2. Latched(k) =
        [k EXCEPT !.latch = latch, !.count_latched = TRUE,
                  !.low_read = (k.access # 2), !.high_read = (k.access # 1)]
  BY DEF Latched
<1> HIDE DEF latch
<1>3. (k.access # 2) \in BOOLEAN /\ (k.access # 1) \in BOOLEAN
  OBVIOUS
<1>4. latch \in 0 .. Full - 1
  BY <1>1 DEF latch
<1>5. k \in Busy
  BY DEF Ready
<1>6. Latched(k) \in Busy
  BY <1>2, <1>3, <1>4, <1>5, ZenonT(40) DEF Busy
<1>7. SameSetting(k, Latched(k)) /\ SameCount(k, Latched(k))
  BY <1>2, <1>5 DEF Busy, SameSetting, SameCount
<1>8. /\ Latched(k).prev_out = k.prev_out /\ Latched(k).levels = k.levels
      /\ Latched(k).count_latched = TRUE
  BY <1>2, <1>5 DEF Busy
<1> QED
  BY <1>6, <1>7, <1>8 DEF Ready, BytesInOrder, SameSetting, SameCount

LEMMA ByteReadIs ==
    ASSUME NEW k, Ready(k)
    PROVE  LET m == ByteRead(k)
           IN  /\ Ready(m) /\ SameSetting(k, m) /\ SameCount(k, m)
               /\ m.prev_out = k.prev_out /\ m.levels = k.levels /\ m.latch = k.latch
<1>1. k \in Busy
  BY DEF Ready
<1> DEFINE m == ByteRead(k)
<1>2. /\ m \in Busy /\ SameSetting(k, m) /\ SameCount(k, m)
      /\ m.prev_out = k.prev_out /\ m.levels = k.levels /\ m.latch = k.latch
  <2>1. CASE k.low_read
    <3>1. (k.count_latched /\ k.high_read) \in BOOLEAN
      OBVIOUS
    <3>2. m = [k EXCEPT !.low_read = FALSE, !.count_latched = (k.count_latched /\ k.high_read)]
      BY <1>1, <2>1 DEF ByteRead
    <3> HIDE DEF m
    <3>3. m \in Busy
      BY <1>1, <3>1, <3>2 DEF Busy
    <3> QED
      BY <1>1, <3>2, <3>3 DEF Busy, SameSetting, SameCount
  <2>2. CASE ~k.low_read
    <3>1. (k.count_latched /\ ~k.high_read) \in BOOLEAN
      OBVIOUS
    <3>2. m = [k EXCEPT !.high_read = FALSE, !.count_latched = (k.count_latched /\ ~k.high_read)]
      BY <1>1, <2>2 DEF ByteRead
    <3> HIDE DEF m
    <3>3. m \in Busy
      BY <1>1, <3>1, <3>2 DEF Busy
    <3> QED
      BY <1>1, <3>2, <3>3 DEF Busy, SameSetting, SameCount
  <2> QED
    BY <2>1, <2>2
<1> HIDE DEF m
<1>3. Ready(m)
  BY <1>2 DEF Ready, BytesInOrder, SameSetting, SameCount
<1> QED
  BY <1>2, <1>3 DEF m

\* The clock input, and an output that it follows.
LEMMA ClockSignalIs ==
    ASSUME NEW k, Ready(k), NEW level \in BOOLEAN
    PROVE  LET m == ClockSignal(k, level)
           IN  Ready(m) /\ SameLatch(k, m) /\ m.prev_in = level /\ Len(m.levels) <= Len(k.levels) + 3
<1> DEFINE counted == IF k.prev_in /\ ~level THEN InputClock(k, 1) ELSE k
           m == ClockSignal(k, level)
<1>1. /\ counted \in Busy /\ SameSetting(k, counted) /\ SameLatch(k, counted)
      /\ counted.count \in 1 .. Full + 1 /\ Len(counted.levels) <= Len(k.levels) + 3
  <2>1. CASE k.prev_in /\ ~level
    <3>1. 1 \in Nat /\ 1 \in Clocks(k)
      BY DEF Ready, Clocks
    <3>2. LET n == InputClock(k, 1)
          IN  /\ n \in Busy /\ SameSetting(k, n) /\ SameLatch(k, n)
              /\ n.count \in 1 .. Full + 1 /\ Len(n.levels) <= Len(k.levels) + 3
      BY <3>1, InputClockIs DEF Ready
    <3> QED
      BY <2>1, <3>2
  <2>2. CASE ~(k.prev_in /\ ~level)
    <3>1. counted = k
      BY <2>2
    <3> HIDE DEF counted
    <3>2. Len(k.levels) <= Len(k.levels) + 3
      BY BusyLevels DEF Ready
    <3> QED
      BY <3>1, <3>2 DEF Ready, SameSetting, SameLatch
  <2> QED
    BY <2>1, <2>2
<1>2. m = [counted EXCEPT !.prev_in = level]
  BY DEF ClockSignal
<1> HIDE DEF counted, m
<1>3. m \in Busy /\ m.count = counted.count /\ m.prev_in = level /\ m.levels = counted.levels
  BY <1>1, <1>2 DEF Busy
<1>4. SameLatch(k, m)
  BY <1>1, <1>2 DEF Busy, SameLatch
<1>5. m.low_write = k.low_write /\ m.high_write = k.high_write /\ m.count_reg = k.count_reg
  BY <1>1, <1>2 DEF Busy, SameSetting
<1>6. Ready(m)
  BY <1>1, <1>3, <1>5 DEF Ready, BytesInOrder
<1> QED
  BY <1>1, <1>3, <1>4, <1>6 DEF m

LEMMA FollowsIs ==
    ASSUME NEW c, Ready(c), NEW levels \in Seq(BOOLEAN), NEW i
    PROVE  Ready(Follows(c, levels, i)) /\ SameLatch(c, Follows(c, levels, i))
<1>1. CASE i \in DOMAIN levels
  BY <1>1, ClockSignalIs DEF Follows
<1>2. CASE i \notin DOMAIN levels
  BY <1>2 DEF Follows, SameLatch
<1> QED
  BY <1>1, <1>2

LEMMA FollowsAllIs ==
    ASSUME NEW c, Ready(c), NEW levels \in Seq(BOOLEAN)
    PROVE  Ready(FollowsAll(c, levels)) /\ SameLatch(c, FollowsAll(c, levels))
<1> DEFINE one == Follows(c, levels, 1)
           two == Follows(one, levels, 2)
           three == Follows(two, levels, 3)
<1>1. Ready(one) /\ SameLatch(c, one)
  BY FollowsIs
<1> HIDE DEF one
<1>2. Ready(two) /\ SameLatch(one, two)
  BY <1>1, FollowsIs
<1> HIDE DEF two
<1>3. Ready(three) /\ SameLatch(two, three)
  BY <1>2, FollowsIs
<1>4. three = FollowsAll(c, levels)
  BY DEF FollowsAll, three, two, one
<1> QED
  BY <1>1, <1>2, <1>3, <1>4 DEF SameLatch

\* No output changes more often in a step than FollowsAll follows it.
LEMMA ThreeLevels ==
    ASSUME NEW k, WellFormed(k)
    PROVE  /\ \A data \in Bytes : Len(CountWritten(k, data).levels) <= 3
           /\ \A access \in Accesses, mode \in Modes :
                 Len(ControlWritten(k, access, mode).levels) <= 3
           /\ \A level \in BOOLEAN : Len(ClockSignal(k, level).levels) <= 3
           /\ Latched(k).levels = <<>> /\ ByteRead(k).levels = <<>>
           /\ ByteRead(Latched(k)).levels = <<>>
<1>1. Ready(k) /\ k.levels = <<>> /\ Len(k.levels) = 0
  BY WellFormedIsReady
<1>2. ASSUME NEW data \in Bytes PROVE Len(CountWritten(k, data).levels) <= 3
  <2>1. Len(CountWritten(k, data).levels) <= 0 + 1 /\ CountWritten(k, data) \in Busy
    BY <1>1, CountWrittenIs DEF Ready
  <2> QED
    BY <2>1, BusyLevels
<1>3. ASSUME NEW access \in Accesses, NEW mode \in Modes
      PROVE  Len(ControlWritten(k, access, mode).levels) <= 3
  <2>1. /\ Len(ControlWritten(k, access, mode).levels) <= 0 + 1
        /\ ControlWritten(k, access, mode) \in Busy
    BY <1>1, ControlWrittenIs DEF Ready
  <2> QED
    BY <2>1, BusyLevels
<1>4. ASSUME NEW level \in BOOLEAN PROVE Len(ClockSignal(k, level).levels) <= 3
  BY <1>1, ClockSignalIs
<1>5. Latched(k).levels = <<>> /\ Ready(Latched(k)) /\ ByteRead(k).levels = <<>>
  BY <1>1, LatchedIs, ByteReadIs
<1>6. ByteRead(Latched(k)).levels = <<>>
  BY <1>5, ByteReadIs
<1> QED
  BY <1>2, <1>3, <1>4, <1>5, <1>6

-----------------------------------------------------------------------------
(* The event of counter 0. *)

LEMMA NextCountIs ==
    ASSUME NEW k, Ready(k)
    PROVE  NextCount(k) \in 1 .. k.count
<1>1. k.count \in 1 .. Full + 1 /\ k.count \in Int /\ Half(k) \in Int /\ Half(k) >= 0
  BY CountValueInRange, FullIsPositive DEF Ready
<1> QED
  BY <1>1 DEF NextCount

\* An event is for no more time than its clocks take.
LEMMA ScheduleIs ==
    ASSUME NEW k, Ready(k)
    PROVE  LET t == Schedule(k)
           IN  /\ t \in [id : BOOLEAN, pending : BOOLEAN, input_clk : Nat, period : Nat,
                         elapsed : Nat]
               /\ t.id = TRUE /\ t.pending = TRUE /\ t.elapsed = 0
               /\ t.input_clk = IF k.delay > 0 THEN 1 ELSE NextCount(k)
               /\ t.input_clk \in 1 .. Full + 1
               /\ t.period = (cpu_clocks * t.input_clk) \div freq
               /\ freq * t.period <= cpu_clocks * t.input_clk
<1> DEFINE clocks == IF k.delay > 0 THEN 1 ELSE NextCount(k)
<1>1. clocks \in 1 .. Full + 1 /\ clocks \in Nat
  BY NextCountIs, FullIsPositive DEF Ready
<1>2. Schedule(k) = [id |-> TRUE, pending |-> TRUE, input_clk |-> clocks,
                     period |-> (cpu_clocks * clocks) \div freq, elapsed |-> 0]
  BY DEF Schedule
<1> HIDE DEF clocks
<1>3. cpu_clocks * clocks \in Nat
  BY <1>1, Rates, SMT
<1>4. /\ (cpu_clocks * clocks) \div freq \in Nat
      /\ freq * ((cpu_clocks * clocks) \div freq) <= cpu_clocks * clocks
  BY <1>3, Rates, Division
<1> QED
  BY <1>1, <1>2, <1>4 DEF clocks

-----------------------------------------------------------------------------
(* The inductive invariant of the types and of the event: the event of a   *)
(* running counter 0 lies no later than its clocks take.                   *)

Typed ==
    /\ TypeOK
    /\ \A ch \in 0 .. 2 : BytesInOrder(counter[ch])
    /\ BytesInOrder(ideal)

Timed ==
    /\ RunningHasEvent
    /\ timer.pending =>
          /\ timer.elapsed <= timer.period
          /\ freq * timer.period <= cpu_clocks * timer.input_clk
          /\ counter[0].delay > 0 => timer.input_clk = 1

IInv == Typed /\ Timed

TimerType == [id : BOOLEAN, pending : BOOLEAN, input_clk : Nat, period : Nat, elapsed : Nat]

LEMMA CountersAreWellFormed ==
    ASSUME Typed
    PROVE  /\ \A ch \in 0 .. 2 : WellFormed(counter[ch]) /\ Ready(counter[ch])
           /\ WellFormed(ideal) /\ Ready(ideal) /\ timer \in TimerType
<1>1. \A ch \in 0 .. 2 : WellFormed(counter[ch])
  BY DEF Typed, TypeOK, WellFormed
<1>2. WellFormed(ideal) /\ timer \in TimerType
  BY DEF Typed, TypeOK, WellFormed, TimerType
<1> QED
  BY <1>1, <1>2, WellFormedIsReady

\* What a step does to the counters, but for the chained one.
LEMMA BecomesIs ==
    ASSUME Typed, NEW ch \in 0 .. 2, NEW k, Ready(k), Becomes(ch, k)
    PROVE  /\ counter' \in [0 .. 2 -> Counter]
           /\ \A c \in 0 .. 2 : BytesInOrder(counter'[c])
           /\ counter'[ch] = Settled(k)
           /\ \A c \in 0 .. 2 : c # ch /\ ~(ch = 1 /\ c = 2) => counter'[c] = counter[c]
           /\ ch = 1 => SameLatch(counter[2], counter'[2])
<1>1. counter \in [0 .. 2 -> Counter] /\ \A c \in 0 .. 2 : BytesInOrder(counter[c])
  BY DEF Typed, TypeOK
<1>2. Settled(k) \in Counter /\ BytesInOrder(Settled(k))
  BY SettledIsWellFormed DEF WellFormed
<1> DEFINE chained == Settled(FollowsAll(counter[2], k.levels))
<1>3. chained \in Counter /\ BytesInOrder(chained) /\ SameLatch(counter[2], chained)
  <2>1. Ready(counter[2])
    BY CountersAreWellFormed
  <2>2. k.levels \in Seq(BOOLEAN)
    BY BusyLevels DEF Ready
  <2>3. /\ Ready(FollowsAll(counter[2], k.levels))
        /\ SameLatch(counter[2], FollowsAll(counter[2], k.levels))
    BY <2>1, <2>2, FollowsAllIs
  <2> QED
    BY <2>3, SettledIsWellFormed DEF WellFormed, SameLatch
<1>4. counter' = [counter EXCEPT ![ch] = Settled(k),
                                 ![2] = IF ch = 1 THEN chained
                                        ELSE IF ch = 2 THEN Settled(k) ELSE counter[2]]
  BY <1>1 DEF Becomes
<1> HIDE DEF chained
<1>5. CASE ch = 0
  BY <1>1, <1>2, <1>4, <1>5
<1>6. CASE ch = 1
  BY <1>1, <1>2, <1>3, <1>4, <1>6
<1>7. CASE ch = 2
  BY <1>1, <1>2, <1>4, <1>7
<1> QED
  BY <1>5, <1>6, <1>7

LEMMA InputPassedIs ==
    ASSUME NEW passed \in Nat
    PROVE  InputPassed(passed) \in Nat /\ cpu_clocks * InputPassed(passed) <= freq * passed
<1>1. freq * passed \in Nat
  BY Rates, SMT
<1> QED
  BY <1>1, Rates, Division DEF InputPassed

\* latch_count() never meets an event that has expired: before the event is due,
\* fewer clocks have passed than the event is for.
LEMMA PassedBeforeDue ==
    ASSUME NEW clk \in Nat, NEW period \in Nat, NEW elapsed \in Nat,
           freq * period <= cpu_clocks * clk, elapsed < period
    PROVE  InputPassed(elapsed) < clk
<1> DEFINE input == InputPassed(elapsed)
<1>1. input \in Nat /\ cpu_clocks * input <= freq * elapsed
  BY InputPassedIs
<1> HIDE DEF input
<1>2. SUFFICES ASSUME clk <= input PROVE FALSE
  BY <1>1 DEF input
<1>3. cpu_clocks * clk <= cpu_clocks * input
  BY <1>1, <1>2, Rates, Monotone
<1>4. freq * (elapsed + 1) <= freq * period
  BY Rates, Monotone
<1>5. freq * (elapsed + 1) = freq * elapsed + freq
  BY Rates, SMT
<1>6. /\ cpu_clocks * clk \in Int /\ cpu_clocks * input \in Int
      /\ freq * elapsed \in Int /\ freq * period \in Int
  BY <1>1, Rates, SMT
<1> QED
  BY <1>1, <1>3, <1>4, <1>5, <1>6, Rates

\* Does latch_count() count?
Refreshes == timer.id /\ InputPassed(timer.elapsed) > 0

LEMMA RefreshIs ==
    ASSUME IInv, ~Due
    PROVE  LET input == InputPassed(timer.elapsed)
               k == Refreshed(counter[0])
           IN  /\ ~Refreshes => k = counter[0] /\ RefreshedTimer(k) = timer
               /\ Refreshes =>
                     /\ input \in 1 .. timer.input_clk - 1
                     /\ counter[0].start /\ counter[0].delay = 0
                     /\ counter[0].count - timer.input_clk >= 0
                     /\ k = CountDown(counter[0], input)
                     /\ RefreshedTimer(k) =
                           [timer EXCEPT !.pending = TRUE, !.elapsed = 0,
                                         !.input_clk = @ - input, !.period = @ - timer.elapsed]
<1> DEFINE input == InputPassed(timer.elapsed)
           c == counter[0]
           k == Refreshed(c)
<1>1. timer \in TimerType /\ Ready(c)
  BY CountersAreWellFormed DEF IInv
<1>2. timer.elapsed \in Nat /\ timer.period \in Nat /\ timer.input_clk \in Nat
  BY <1>1 DEF TimerType
<1>3. input \in Nat
  BY <1>2, InputPassedIs
<1>4. CASE ~Refreshes
  <2>1. ~timer.id \/ input = 0
    BY <1>3, <1>4 DEF Refreshes
  <2>2. k = c
    <3>1. InputClock(c, 0) = c
      BY DEF InputClock
    <3> QED
      BY <2>1, <3>1 DEF Refreshed
  <2>3. RefreshedTimer(k) = timer
    BY <2>1 DEF RefreshedTimer
  <2> QED
    BY <1>4, <2>2, <2>3
<1>5. CASE Refreshes
  <2>1. timer.id /\ input > 0 /\ timer.pending /\ c.start
    BY <1>5 DEF Refreshes, IInv, Timed, RunningHasEvent
  <2>2. /\ timer.elapsed < timer.period
        /\ freq * timer.period <= cpu_clocks * timer.input_clk
        /\ c.delay > 0 => timer.input_clk = 1
        /\ c.delay = 0 => timer.input_clk \in 1 .. c.count
    BY <1>2, <2>1 DEF IInv, Timed, RunningHasEvent, Due
  <2>3. input < timer.input_clk
    BY <1>2, <2>2, PassedBeforeDue
  <2> HIDE DEF input
  <2>4. c.delay = 0 /\ c.count - timer.input_clk >= 0
    <3>1. c.delay \in 0 .. 2 /\ c.count \in Int
      BY <1>1 DEF Ready, Busy
    <3> QED
      BY <1>2, <1>3, <2>1, <2>2, <2>3, <3>1
  <2>5. k = CountDown(c, input)
    BY <1>3, <2>1, <2>4 DEF Refreshed, InputClock, input
  <2>6. RefreshedTimer(k) = [timer EXCEPT !.pending = TRUE, !.elapsed = 0,
                                          !.input_clk = @ - input, !.period = @ - timer.elapsed]
    <3>1. ~(timer.input_clk <= input) /\ ~(input = 0)
      BY <1>2, <1>3, <2>1, <2>3
    <3> QED
      BY <2>1, <3>1 DEF RefreshedTimer, input
  <2>7. input \in 1 .. timer.input_clk - 1
    BY <1>2, <1>3, <2>1, <2>3
  <2> QED
    BY <1>5, <2>1, <2>4, <2>5, <2>6, <2>7 DEF input
<1> QED
  BY <1>4, <1>5

-----------------------------------------------------------------------------
(* Each action keeps the invariant. *)

LEMMA TypedNext ==
    ASSUME Typed, NEW ch \in 0 .. 2, NEW k, Ready(k), Becomes(ch, k),
           program' = program, timer' \in TimerType, WellFormed(ideal'),
           phase' \in 0 .. Ratio - 1, rewritten' \in BOOLEAN
    PROVE  Typed'
<1>1. counter' \in [0 .. 2 -> Counter] /\ \A c \in 0 .. 2 : BytesInOrder(counter'[c])
  BY BecomesIs
<1>2. program' \in Programs
  BY DEF Typed, TypeOK
<1> QED
  BY <1>1, <1>2 DEF Typed, TypeOK, TimerType, WellFormed, BytesInOrder

\* The event is kept: nothing that it depends on changes.
LEMMA TimedKept ==
    ASSUME Timed, timer' = timer, SameCount(counter[0], counter'[0])
    PROVE  Timed'
  BY DEF Timed, RunningHasEvent, SameCount

\* A counter that starts has a new event.
LEMMA TimedScheduled ==
    ASSUME NEW k, Ready(k), k.start = TRUE, timer' = Schedule(k), counter'[0] = Settled(k)
    PROVE  Timed' /\ timer' \in TimerType
<1>1. /\ timer' \in TimerType
      /\ timer'.id = TRUE /\ timer'.pending = TRUE /\ timer'.elapsed = 0
      /\ timer'.input_clk = IF k.delay > 0 THEN 1 ELSE NextCount(k)
      /\ freq * timer'.period <= cpu_clocks * timer'.input_clk
  BY ScheduleIs DEF TimerType
<1>2. timer'.elapsed <= timer'.period
  BY <1>1 DEF TimerType
<1>3. NextCount(k) \in 1 .. k.count
  BY NextCountIs
<1>4. /\ counter'[0].start = TRUE /\ counter'[0].delay = k.delay
      /\ counter'[0].count = k.count /\ k.delay \in 0 .. 2
  BY SettledIsWellFormed DEF SameCount, Ready, Busy
<1>5. RunningHasEvent'
  BY <1>1, <1>3, <1>4 DEF RunningHasEvent
<1> QED
  BY <1>1, <1>2, <1>4, <1>5 DEF Timed

\* A counter that does not run has none.
LEMMA TimedStopped ==
    ASSUME NEW k, Ready(k), k.start = FALSE, counter'[0] = Settled(k),
           timer'.id = FALSE, timer'.pending = FALSE
    PROVE  Timed'
<1>1. counter'[0].start = FALSE
  BY SettledIsWellFormed DEF SameCount
<1> QED
  BY <1>1 DEF Timed, RunningHasEvent

LEMMA NoTimerIs ==
    NoTimer \in TimerType /\ NoTimer.id = FALSE /\ NoTimer.pending = FALSE
  BY DEF NoTimer, TimerType

LEMMA PhaseIs == 0 \in 0 .. Ratio - 1
  BY Rates

LEMMA InitIsTimed == Init => IInv
<1>1. PowerOn \in Counter /\ BytesInOrder(PowerOn) /\ PowerOn.start = FALSE
  BY FullIsPositive DEF PowerOn, Counter, BytesInOrder
<1>2. SUFFICES ASSUME Init PROVE IInv
  OBVIOUS
<1>3. counter \in [0 .. 2 -> Counter] /\ \A ch \in 0 .. 2 : counter[ch] = PowerOn
  BY <1>1, <1>2 DEF Init
<1>4. Typed
  BY <1>1, <1>2, <1>3, NoTimerIs, PhaseIs DEF Init, Typed, TypeOK, TimerType
<1>5. Timed
  BY <1>1, <1>2, <1>3, NoTimerIs DEF Init, Timed, RunningHasEvent
<1> QED
  BY <1>4, <1>5 DEF IInv

LEMMA WriteCountKeeps ==
    ASSUME IInv, program' = program, NEW ch \in 0 .. 2, NEW data \in Bytes,
           WriteCount(ch, data)
    PROVE  IInv'
<1> DEFINE c == counter[ch]
           k == CountWritten(c, data)
<1>1. /\ Typed /\ Timed /\ Ready(c) /\ timer \in TimerType /\ Ready(ideal)
      /\ WellFormed(ideal)
  BY CountersAreWellFormed DEF IInv
<1>2. /\ Ready(k) /\ SameLatch(c, k) /\ k.mode = c.mode /\ k.count = c.count
      /\ k.delay = IF Restarts(c) THEN IF c.prev_in THEN 2 ELSE 1 ELSE c.delay
      /\ k.start = IF Restarts(c) THEN Starts(k) ELSE c.start
  BY <1>1, CountWrittenIs
<1>3. Becomes(ch, k)
  BY DEF WriteCount
<1>4. phase \in 0 .. Ratio - 1 /\ rewritten \in BOOLEAN
  BY <1>1 DEF Typed, TypeOK
<1>5. CASE ch # 0
  <2>1. timer' = timer /\ ideal' = ideal /\ phase' = phase /\ rewritten' = rewritten
    BY <1>5 DEF WriteCount
  <2>2. counter'[0] = counter[0]
    BY <1>1, <1>2, <1>3, <1>5, BecomesIs
  <2>3. Timed'
    BY <1>1, <2>1, <2>2, TimedKept DEF SameCount
  <2>4. Typed'
    BY <1>1, <1>2, <1>3, <1>4, <2>1, TypedNext
  <2> QED
    BY <2>3, <2>4 DEF IInv
<1>6. CASE ch = 0
  <2>1. /\ timer' = IF Restarts(c) /\ k.start THEN Schedule(k)
                    ELSE IF k.mode \in {0, 4} THEN NoTimer ELSE timer
        /\ ideal' = Settled(CountWritten(ideal, data))
        /\ phase' = IF Restarts(c) THEN 0 ELSE phase
        /\ rewritten' = ~Restarts(c)
    BY <1>6 DEF WriteCount, IdealBecomes
  <2>2. counter'[0] = Settled(k) /\ SameCount(k, Settled(k))
    BY <1>1, <1>2, <1>3, <1>6, BecomesIs, SettledIsWellFormed
  <2>3. WellFormed(ideal')
    BY <1>1, <2>1, CountWrittenIs, SettledIsWellFormed
  <2>4. phase' \in 0 .. Ratio - 1 /\ rewritten' \in BOOLEAN
    BY <1>4, <2>1, PhaseIs DEF Restarts
  <2>5. k.start \in BOOLEAN /\ c.start \in BOOLEAN
    BY <1>1, <1>2 DEF Ready, Busy
  <2> HIDE DEF k
  <2>6. Timed' /\ timer' \in TimerType
    <3>1. CASE Restarts(c) /\ k.start
      <4>1. timer' = Schedule(k) /\ k.start = TRUE
        BY <2>1, <2>5, <3>1
      <4> QED
        BY <1>2, <2>2, <4>1, TimedScheduled
    <3>2. CASE ~(Restarts(c) /\ k.start) /\ k.mode \in {0, 4}
      <4>1. timer' = NoTimer /\ k.start = FALSE
        BY <1>2, <2>1, <2>5, <3>2 DEF Restarts
      <4> QED
        BY <1>2, <2>2, <4>1, NoTimerIs, TimedStopped
    <3>3. CASE Restarts(c) /\ ~k.start /\ k.mode \notin {0, 4}
      <4>1. timer' = timer /\ k.start = FALSE /\ c.start = FALSE
        BY <1>2, <2>1, <2>5, <3>3 DEF Restarts
      <4>2. timer.id = FALSE /\ timer.pending = FALSE
        BY <1>1, <1>6, <4>1 DEF Timed, RunningHasEvent, TimerType
      <4> QED
        BY <1>1, <1>2, <2>2, <4>1, <4>2, TimedStopped
    <3>4. CASE ~Restarts(c) /\ k.mode \notin {0, 4}
      <4>1. timer' = timer /\ SameCount(c, k)
        BY <1>2, <2>1, <3>4 DEF SameCount
      <4> QED
        BY <1>1, <1>6, <2>2, <4>1, TimedKept DEF SameCount
    <3> QED
      BY <3>1, <3>2, <3>3, <3>4
  <2>7. Typed'
    BY <1>1, <1>2, <1>3, <2>3, <2>4, <2>6, TypedNext
  <2> QED
    BY <2>6, <2>7 DEF IInv
<1> QED
  BY <1>5, <1>6

LEMMA WriteControlKeeps ==
    ASSUME IInv, program' = program, NEW ch \in 0 .. 2,
           NEW access \in Accesses, NEW mode \in Modes, WriteControl(ch, access, mode)
    PROVE  IInv'
<1> DEFINE c == counter[ch]
           k == ControlWritten(c, access, mode)
<1>1. /\ Typed /\ Timed /\ Ready(c) /\ timer \in TimerType /\ Ready(ideal)
      /\ WellFormed(ideal) /\ Ready(counter[0])
  BY CountersAreWellFormed DEF IInv
<1>2. Ready(k) /\ k.start = FALSE
  <2>1. Ready(c)
    BY <1>1
  <2> HIDE DEF c
  <2>2. Ready(k) /\ k.start = FALSE
    BY <2>1, ControlWrittenIs
  <2> QED
    BY <2>2
<1>3. Becomes(ch, k)
  BY DEF WriteControl
<1>4. phase \in 0 .. Ratio - 1 /\ rewritten \in BOOLEAN
  BY <1>1 DEF Typed, TypeOK
<1>5. CASE ch # 0
  <2>1. timer' = timer /\ ideal' = ideal /\ phase' = phase /\ rewritten' = rewritten
    BY <1>5 DEF WriteControl
  <2>2. counter'[0] = counter[0]
    BY <1>1, <1>2, <1>3, <1>5, BecomesIs
  <2>3. Timed'
    BY <1>1, <2>1, <2>2, TimedKept DEF SameCount
  <2>4. Typed'
    BY <1>1, <1>2, <1>3, <1>4, <2>1, TypedNext
  <2> QED
    BY <2>3, <2>4 DEF IInv
<1>6. CASE ch = 0
  <2>1. /\ timer' = NoTimer /\ phase' = 0 /\ rewritten' = FALSE
        /\ ideal' = Settled(ControlWritten(IdealSetBack, access, mode))
    BY <1>6 DEF WriteControl, IdealBecomes
  <2>2. counter'[0] = Settled(k)
    BY <1>1, <1>2, <1>3, <1>6, BecomesIs
  <2>3. Ready(IdealSetBack)
    BY <1>1 DEF IdealSetBack, Ready, Busy, BytesInOrder
  <2>4. WellFormed(ideal')
    BY <2>1, <2>3, ControlWrittenIs, SettledIsWellFormed
  <2>5. Timed' /\ timer' \in TimerType
    BY <1>2, <2>1, <2>2, NoTimerIs, TimedStopped
  <2>6. Typed'
    BY <1>1, <1>2, <1>3, <2>1, <2>4, <2>5, PhaseIs, TypedNext
  <2> QED
    BY <2>5, <2>6 DEF IInv
<1> QED
  BY <1>5, <1>6

\* Latching a running counter counts what has passed, and keeps what is left.
LEMMA RefreshedIsReady ==
    ASSUME IInv, ~Due
    PROVE  LET k == Refreshed(counter[0])
           IN  /\ Ready(k) /\ SameSetting(counter[0], k) /\ SameLatch(counter[0], k)
               /\ k.start = counter[0].start /\ k.delay = counter[0].delay
<1> DEFINE c == counter[0]
           k == Refreshed(c)
           input == InputPassed(timer.elapsed)
<1>1. Ready(c)
  BY CountersAreWellFormed DEF IInv
<1>2. CASE ~Refreshes
  <2>1. k = c
    BY <1>2, RefreshIs
  <2> QED
    BY <1>1, <2>1 DEF SameSetting, SameLatch
<1>3. CASE Refreshes
  <2>1. /\ input \in 1 .. timer.input_clk - 1 /\ timer.input_clk \in Nat
        /\ c.start /\ c.delay = 0 /\ c.count - timer.input_clk >= 0
        /\ k = CountDown(c, input)
    BY <1>3, RefreshIs, CountersAreWellFormed DEF TimerType, IInv
  <2> HIDE DEF input
  <2>2. c \in Busy /\ c.count \in 1 .. Full + 1 /\ c.start = TRUE
    BY <1>1, <2>1 DEF Ready, Busy
  <2>3. c.count - input > 0 /\ c.count - input <= Full + 1 /\ input \in Nat
    BY <2>1, <2>2, FullIsPositive
  <2>4. LET m == CountDown(c, input)
        IN  /\ m \in Busy /\ SameSetting(c, m) /\ SameLatch(c, m)
            /\ m.delay = c.delay /\ m.count = CountAt(c, c.count - input)
            /\ m.start = StartAt(c, c.count - input)
    BY <2>2, <2>3, CountDownIs
  <2>5. CountAt(c, c.count - input) = c.count - input /\ StartAt(c, c.count - input) = TRUE
    BY <2>2, <2>3 DEF CountAt, StartAt
  <2>6. c.count - input \in 1 .. Full + 1
    BY <2>2, <2>3, FullIsPositive
  <2> HIDE DEF k
  <2>7. k \in Busy /\ k.count \in 1 .. Full + 1 /\ SameSetting(c, k)
    BY <2>1, <2>4, <2>5, <2>6
  <2>8. Ready(k)
    BY <1>1, <2>7, CountedIsReady
  <2> QED
    BY <2>1, <2>2, <2>4, <2>5, <2>8 DEF k
<1> QED
  BY <1>2, <1>3

LEMMA TimerLeft ==
    ASSUME NEW t \in TimerType, NEW pending \in BOOLEAN, NEW elapsed \in Nat,
           NEW rest \in Nat, NEW time \in Nat
    PROVE  [t EXCEPT !.pending = pending, !.elapsed = elapsed, !.input_clk = rest,
                     !.period = time] \in TimerType
<1>1. [t EXCEPT !.pending = pending] \in TimerType
  BY DEF TimerType
<1>2. [t EXCEPT !.pending = pending, !.elapsed = elapsed] \in TimerType
  BY <1>1 DEF TimerType
<1>3. [t EXCEPT !.pending = pending, !.elapsed = elapsed, !.input_clk = rest] \in TimerType
  BY <1>2 DEF TimerType
<1> QED
  BY <1>3 DEF TimerType

LEMMA TimedRefreshed ==
    ASSUME IInv, ~Due, NEW m, SameCount(Refreshed(counter[0]), m),
           SameCount(m, counter'[0]), timer' = RefreshedTimer(Refreshed(counter[0]))
    PROVE  Timed' /\ timer' \in TimerType
<1> DEFINE c == counter[0]
           k == Refreshed(c)
           input == InputPassed(timer.elapsed)
<1>1. Ready(c) /\ timer \in TimerType /\ Timed
  BY CountersAreWellFormed DEF IInv
<1>2. CASE ~Refreshes
  <2>1. k = c /\ timer' = timer
    BY <1>2, RefreshIs
  <2> QED
    BY <1>1, <2>1, TimedKept DEF SameCount
<1>3. CASE Refreshes
  <2>1. /\ input \in 1 .. timer.input_clk - 1
        /\ c.start /\ c.delay = 0 /\ c.count - timer.input_clk >= 0
        /\ k = CountDown(c, input)
        /\ timer' = [timer EXCEPT !.pending = TRUE, !.elapsed = 0,
                                  !.input_clk = @ - input, !.period = @ - timer.elapsed]
    BY <1>3, RefreshIs
  <2>2. /\ timer.elapsed \in Nat /\ timer.period \in Nat /\ timer.input_clk \in Nat
        /\ timer.id \in BOOLEAN /\ timer.pending \in BOOLEAN
    BY <1>1 DEF TimerType
  <2>3. timer.pending = TRUE /\ timer.id = TRUE
    BY <1>3, <1>1, <2>2 DEF Refreshes, Timed, RunningHasEvent
  <2>4. /\ timer.elapsed < timer.period
        /\ freq * timer.period <= cpu_clocks * timer.input_clk
    BY <1>1, <2>2, <2>3 DEF Timed, Due
  <2>5. cpu_clocks * input <= freq * timer.elapsed /\ input \in Nat
    BY <2>2, InputPassedIs
  <2> HIDE DEF input
  <2>6. /\ timer'.input_clk = timer.input_clk - input /\ timer'.period = timer.period - timer.elapsed
        /\ timer'.elapsed = 0 /\ timer'.pending = TRUE /\ timer'.id = TRUE
    BY <1>1, <2>1, <2>3 DEF TimerType
  <2>7. timer'.input_clk \in Nat /\ timer'.period \in Nat
    BY <2>1, <2>2, <2>4, <2>5, <2>6
  <2>8. timer' \in TimerType
    <3> DEFINE rest == timer.input_clk - input
               time == timer.period - timer.elapsed
    <3>0. timer \in TimerType
      BY <1>1
    <3>1. rest \in Nat /\ time \in Nat
      BY <2>6, <2>7
    <3>2. timer' = [timer EXCEPT !.pending = TRUE, !.elapsed = 0,
                                 !.input_clk = rest, !.period = time]
      BY <1>1, <2>1 DEF TimerType
    <3> HIDE DEF rest, time
    <3>3. \A p \in BOOLEAN, e \in Nat :
             [timer EXCEPT !.pending = p, !.elapsed = e, !.input_clk = rest, !.period = time]
                \in TimerType
      BY <3>0, <3>1, TimerLeft
    <3> QED
      BY <3>2, <3>3
  <2>9. freq * timer'.period <= cpu_clocks * timer'.input_clk
    <3>1. freq * (timer.period - timer.elapsed) = freq * timer.period - freq * timer.elapsed
      BY <2>2, Rates, SMT
    <3>2. cpu_clocks * (timer.input_clk - input) = cpu_clocks * timer.input_clk - cpu_clocks * input
      BY <2>2, <2>5, Rates, SMT
    <3>3. /\ freq * timer.period \in Int /\ freq * timer.elapsed \in Int
          /\ cpu_clocks * timer.input_clk \in Int /\ cpu_clocks * input \in Int
      BY <2>2, <2>5, Rates, SMT
    <3> QED
      BY <2>4, <2>5, <2>6, <3>1, <3>2, <3>3
  <2>10. k.count = c.count - input /\ k.start = TRUE /\ k.delay = 0 /\ c.count \in Int
    <3>1. c \in Busy /\ c.count \in Int /\ c.start = TRUE
      BY <1>1, <2>1 DEF Ready, Busy
    <3>2. c.count - input > 0
      BY <2>1, <2>2, <2>5, <3>1
    <3>3. LET n == CountDown(c, input)
          IN  /\ n.delay = c.delay /\ n.count = CountAt(c, c.count - input)
              /\ n.start = StartAt(c, c.count - input)
      BY <2>5, <3>1, <3>2, CountDownIs
    <3>4. CountAt(c, c.count - input) = c.count - input /\ StartAt(c, c.count - input) = TRUE
      BY <3>1, <3>2 DEF CountAt, StartAt
    <3> QED
      BY <2>1, <3>1, <3>3, <3>4
  <2> HIDE DEF k
  <2>11. /\ counter'[0].count = c.count - input /\ counter'[0].start = TRUE
         /\ counter'[0].delay = 0
    BY <2>10 DEF SameCount, k
  <2>12. timer'.input_clk \in 1 .. counter'[0].count
    BY <2>1, <2>2, <2>5, <2>6, <2>10, <2>11
  <2>13. RunningHasEvent'
    BY <2>6, <2>11, <2>12 DEF RunningHasEvent
  <2>14. timer'.elapsed <= timer'.period
    BY <2>6, <2>7
  <2> QED
    BY <2>8, <2>9, <2>11, <2>13, <2>14 DEF Timed
<1> QED
  BY <1>2, <1>3

LEMMA LatchCommandKeeps ==
    ASSUME IInv, program' = program, NEW ch \in 0 .. 2, LatchCommand(ch)
    PROVE  IInv'
<1> DEFINE k == IF ch = 0 THEN Refreshed(counter[ch]) ELSE counter[ch]
           m == Latched(k)
<1>1. /\ Typed /\ Timed /\ Ready(counter[ch]) /\ timer \in TimerType /\ WellFormed(ideal)
  BY CountersAreWellFormed DEF IInv
<1>2. ~Due /\ Becomes(ch, m)
  BY DEF LatchCommand, ProgramRuns
<1>3. /\ timer' = IF ch = 0 THEN RefreshedTimer(k) ELSE timer
      /\ ideal' = ideal /\ phase' = phase /\ rewritten' = rewritten
  BY DEF LatchCommand
<1>4. Ready(k)
  BY <1>1, <1>2, RefreshedIsReady
<1>5. Ready(m) /\ SameCount(k, m)
  BY <1>4, LatchedIs
<1>6. phase \in 0 .. Ratio - 1 /\ rewritten \in BOOLEAN
  BY <1>1 DEF Typed, TypeOK
<1> HIDE DEF m
<1>7. Timed' /\ timer' \in TimerType
  <2>1. CASE ch = 0
    <3>1. counter'[0] = Settled(m) /\ SameCount(m, Settled(m))
      BY <1>1, <1>2, <1>5, <2>1, BecomesIs, SettledIsWellFormed
    <3>2. /\ SameCount(Refreshed(counter[0]), m) /\ SameCount(m, counter'[0])
          /\ timer' = RefreshedTimer(Refreshed(counter[0]))
      BY <1>3, <1>5, <2>1, <3>1
    <3> QED
      BY <1>2, <3>2, TimedRefreshed
  <2>2. CASE ch # 0
    <3>1. counter'[0] = counter[0]
      BY <1>1, <1>2, <1>5, <2>2, BecomesIs
    <3> QED
      BY <1>1, <1>3, <2>2, <3>1, TimedKept DEF SameCount
  <2> QED
    BY <2>1, <2>2
<1>8. Typed'
  BY <1>1, <1>2, <1>3, <1>5, <1>6, <1>7, TypedNext
<1> QED
  BY <1>7, <1>8 DEF IInv

\* A counter is latched by a read only when nothing is latched.
Latches(c) == ~c.count_latched /\ ~c.low_read /\ ~c.high_read

LEMMA ReadCountKeeps ==
    ASSUME IInv, program' = program, NEW ch \in 0 .. 2, ReadCount(ch)
    PROVE  IInv'
<1> DEFINE c == counter[ch]
           k == IF ch = 0 /\ Latches(c) THEN Refreshed(c) ELSE c
           m == ByteRead(IF Latches(c) THEN Latched(k) ELSE k)
<1>1. /\ Typed /\ Timed /\ Ready(c) /\ timer \in TimerType /\ WellFormed(ideal)
  BY CountersAreWellFormed DEF IInv
<1>2. ~Due /\ Becomes(ch, m)
  BY DEF ReadCount, ProgramRuns, Latches
<1>3. /\ timer' = IF ch = 0 /\ Latches(c) THEN RefreshedTimer(k) ELSE timer
      /\ ideal' = ideal /\ phase' = phase /\ rewritten' = rewritten
  BY DEF ReadCount, Latches
<1>4. Ready(k)
  BY <1>1, <1>2, RefreshedIsReady
<1>5. Ready(m) /\ SameCount(k, m)
  <2>1. CASE Latches(c)
    <3>1. Ready(Latched(k)) /\ SameCount(k, Latched(k))
      BY <1>4, LatchedIs
    <3>2. m = ByteRead(Latched(k))
      BY <2>1
    <3> HIDE DEF m
    <3>3. Ready(m) /\ SameCount(Latched(k), m)
      BY <3>1, <3>2, ByteReadIs
    <3> QED
      BY <3>1, <3>3 DEF SameCount
  <2>2. CASE ~Latches(c)
    <3>1. m = ByteRead(k)
      BY <2>2
    <3> HIDE DEF m
    <3> QED
      BY <1>4, <3>1, ByteReadIs
  <2> QED
    BY <2>1, <2>2
<1>6. phase \in 0 .. Ratio - 1 /\ rewritten \in BOOLEAN
  BY <1>1 DEF Typed, TypeOK
<1> HIDE DEF m
<1>7. Timed' /\ timer' \in TimerType
  <2>1. CASE ch = 0
    <3>1. counter'[0] = Settled(m) /\ SameCount(m, Settled(m))
      BY <1>1, <1>2, <1>5, <2>1, BecomesIs, SettledIsWellFormed
    <3>2. CASE Latches(c)
      <4>1. /\ SameCount(Refreshed(counter[0]), m) /\ SameCount(m, counter'[0])
            /\ timer' = RefreshedTimer(Refreshed(counter[0]))
        BY <1>3, <1>5, <2>1, <3>1, <3>2
      <4> QED
        BY <1>2, <4>1, TimedRefreshed
    <3>3. CASE ~Latches(c)
      <4>1. timer' = timer /\ SameCount(counter[0], counter'[0])
        BY <1>3, <1>5, <2>1, <3>1, <3>3 DEF SameCount
      <4> QED
        BY <1>1, <4>1, TimedKept
    <3> QED
      BY <3>2, <3>3
  <2>2. CASE ch # 0
    <3>1. counter'[0] = counter[0]
      BY <1>1, <1>2, <1>5, <2>2, BecomesIs
    <3> QED
      BY <1>1, <1>3, <2>2, <3>1, TimedKept DEF SameCount
  <2> QED
    BY <2>1, <2>2
<1>8. Typed'
  BY <1>1, <1>2, <1>3, <1>5, <1>6, <1>7, TypedNext
<1> QED
  BY <1>7, <1>8 DEF IInv

LEMMA WriteGateKeeps ==
    ASSUME IInv, program' = program, NEW signal \in Signals, WriteGate(signal)
    PROVE  IInv'
<1> DEFINE c == counter[0]
           k == GateChanged(c, signal)
           falls == Falls(c, signal) /\ c.mode \notin {1, 5}
           rises == Rises(c, signal)
           other == IF falls THEN IdealSetBack ELSE ideal
<1>1. /\ Typed /\ Timed /\ Ready(c) /\ timer \in TimerType /\ Ready(ideal)
  BY CountersAreWellFormed DEF IInv
<1>2. /\ Ready(k) /\ k.count = c.count /\ k.mode = c.mode
      /\ k.delay = GateDelay(c, signal) /\ k.start = GateStart(c, k, signal)
  <2>1. Ready(c)
    BY <1>1
  <2> HIDE DEF c
  <2> QED
    BY <2>1, GateChangedIs
<1>3. /\ Becomes(0, k)
      /\ timer' = IF rises /\ k.start THEN Schedule(k)
                  ELSE IF rises \/ falls THEN NoTimer ELSE timer
      /\ ideal' = Settled(GateChanged(other, signal))
      /\ phase' = IF rises \/ falls THEN 0 ELSE phase
      /\ rewritten' = (rewritten /\ ~rises /\ ~falls)
  BY DEF WriteGate, IdealBecomes, Falls, Rises
<1>4. phase' \in 0 .. Ratio - 1 /\ rewritten' \in BOOLEAN
  <2>1. phase \in 0 .. Ratio - 1 /\ rewritten \in BOOLEAN
    BY <1>1 DEF Typed, TypeOK
  <2>2. phase' \in 0 .. Ratio - 1
    BY <1>3, <2>1, PhaseIs
  <2> QED
    BY <1>3, <2>2
<1>5. WellFormed(ideal')
  <2>1. Ready(IdealSetBack)
    BY <1>1 DEF IdealSetBack, Ready, Busy, BytesInOrder
  <2>2. Ready(other)
    BY <1>1, <2>1
  <2> HIDE DEF other
  <2>3. Ready(GateChanged(other, signal))
    BY <2>2, GateChangedIs
  <2> QED
    BY <1>3, <2>3, SettledIsWellFormed
<1>6. counter'[0] = Settled(k) /\ SameCount(k, Settled(k))
  BY <1>1, <1>2, <1>3, BecomesIs, SettledIsWellFormed
<1>7. k.start \in BOOLEAN /\ c.start \in BOOLEAN /\ c.gate \in BOOLEAN
  BY <1>1, <1>2 DEF Ready, Busy
<1> HIDE DEF k
<1>8. Timed' /\ timer' \in TimerType
  <2>1. CASE rises /\ k.start
    <3>1. timer' = Schedule(k) /\ k.start = TRUE
      BY <1>3, <1>7, <2>1
    <3> QED
      BY <1>2, <1>6, <3>1, TimedScheduled
  <2>2. CASE (rises /\ ~k.start) \/ falls
    <3>1. timer' = NoTimer /\ k.start = FALSE
      BY <1>2, <1>3, <1>7, <2>2 DEF GateStart, Falls, Rises
    <3> QED
      BY <1>2, <1>6, <3>1, NoTimerIs, TimedStopped
  <2>3. CASE ~rises /\ ~falls
    <3>1. timer' = timer /\ SameCount(c, k)
      BY <1>2, <1>3, <1>7, <2>3 DEF SameCount, GateStart, GateDelay
    <3> QED
      BY <1>1, <1>6, <3>1, TimedKept DEF SameCount
  <2> QED
    BY <2>1, <2>2, <2>3
<1>9. Typed'
  BY <1>1, <1>2, <1>3, <1>4, <1>5, <1>8, TypedNext
<1> QED
  BY <1>8, <1>9 DEF IInv

LEMMA BlankKeeps ==
    ASSUME IInv, program' = program, Blank
    PROVE  IInv'
<1> DEFINE level == ~counter[1].prev_in
           k == ClockSignal(counter[1], level)
<1>1. /\ Typed /\ Timed /\ Ready(counter[1]) /\ timer \in TimerType /\ WellFormed(ideal)
  BY CountersAreWellFormed DEF IInv
<1>2. level \in BOOLEAN
  OBVIOUS
<1> HIDE DEF level
<1>3. Ready(k)
  BY <1>1, <1>2, ClockSignalIs
<1>4. /\ Becomes(1, k) /\ timer' = timer /\ ideal' = ideal /\ phase' = phase
      /\ rewritten' = rewritten
  BY DEF Blank, level
<1>5. counter'[0] = counter[0]
  BY <1>1, <1>3, <1>4, BecomesIs
<1>6. Timed'
  BY <1>1, <1>4, <1>5, TimedKept DEF SameCount
<1>7. phase \in 0 .. Ratio - 1 /\ rewritten \in BOOLEAN
  BY <1>1 DEF Typed, TypeOK
<1>8. Typed'
  BY <1>1, <1>3, <1>4, <1>7, TypedNext
<1> QED
  BY <1>6, <1>8 DEF IInv

\* The callback finds the clocks that it is for in the count.
LEMMA EventClocks ==
    ASSUME IInv, timer.pending
    PROVE  timer.input_clk \in Nat /\ timer.input_clk \in Clocks(counter[0])
<1>1. timer \in TimerType /\ Ready(counter[0])
  BY CountersAreWellFormed DEF IInv
<1>2. timer.input_clk \in Nat /\ counter[0].delay \in 0 .. 2 /\ counter[0].count \in Int
  BY <1>1 DEF TimerType, Ready, Busy
<1> QED
  BY <1>2 DEF IInv, Timed, RunningHasEvent, Clocks

LEMMA EventCallbackKeeps ==
    ASSUME IInv, program' = program, EventCallback
    PROVE  IInv'
<1> DEFINE c == counter[0]
           k == InputClock(c, timer.input_clk)
<1>1. Typed /\ Timed /\ Ready(c) /\ WellFormed(ideal)
  BY CountersAreWellFormed DEF IInv
<1>2. /\ timer.pending /\ Becomes(0, k)
      /\ timer' = IF k.start THEN Schedule(k) ELSE NoTimer
      /\ rewritten' = (rewritten /\ k.count <= c.count)
      /\ ideal' = ideal /\ phase' = phase
  BY DEF EventCallback, Due
<1>3. /\ k \in Busy /\ SameSetting(c, k) /\ k.count \in 1 .. Full + 1
  BY <1>1, <1>2, EventClocks, InputClockIs DEF Ready
<1>4. Ready(k) /\ k.start \in BOOLEAN
  BY <1>1, <1>3, CountedIsReady DEF Busy
<1> HIDE DEF k
<1>5. counter'[0] = Settled(k)
  BY <1>1, <1>2, <1>4, BecomesIs
<1>6. Timed' /\ timer' \in TimerType
  <2>1. CASE k.start
    <3>1. timer' = Schedule(k) /\ k.start = TRUE
      BY <1>2, <1>4, <2>1
    <3> QED
      BY <1>4, <1>5, <3>1, TimedScheduled
  <2>2. CASE ~k.start
    <3>1. timer' = NoTimer /\ k.start = FALSE
      BY <1>2, <1>4, <2>2
    <3> QED
      BY <1>4, <1>5, <3>1, NoTimerIs, TimedStopped
  <2> QED
    BY <2>1, <2>2
<1>7. phase \in 0 .. Ratio - 1 /\ rewritten' \in BOOLEAN
  BY <1>1, <1>2 DEF Typed, TypeOK
<1>8. Typed'
  BY <1>1, <1>2, <1>4, <1>6, <1>7, TypedNext
<1> QED
  BY <1>6, <1>8 DEF IInv

\* The ideal counter is counted by one.
LEMMA IdealClock ==
    ASSUME Typed
    PROVE  Ready(InputClock(ideal, 1))
<1>1. Ready(ideal)
  BY CountersAreWellFormed
<1>2. 1 \in Nat /\ 1 \in Clocks(ideal)
  BY <1>1 DEF Ready, Clocks
<1>3. /\ InputClock(ideal, 1) \in Busy /\ SameSetting(ideal, InputClock(ideal, 1))
      /\ InputClock(ideal, 1).count \in 1 .. Full + 1
  BY <1>1, <1>2, InputClockIs DEF Ready
<1> QED
  BY <1>1, <1>3, CountedIsReady

LEMMA TickKeeps ==
    ASSUME IInv, program' = program, Tick
    PROVE  IInv'
<1>1. Typed /\ Timed /\ timer \in TimerType /\ WellFormed(ideal)
  BY CountersAreWellFormed DEF IInv
<1>2. /\ timer.pending /\ ~Due /\ counter' = counter /\ rewritten' = rewritten
      /\ timer' = [timer EXCEPT !.elapsed = @ + 1]
  BY DEF Tick
<1>3. timer.elapsed \in Nat /\ timer.period \in Nat /\ timer.elapsed < timer.period
  BY <1>1, <1>2 DEF TimerType, Due
<1>4. /\ timer'.elapsed = timer.elapsed + 1 /\ timer'.period = timer.period
      /\ timer'.input_clk = timer.input_clk /\ timer'.pending = timer.pending
      /\ timer'.id = timer.id
  BY <1>1, <1>2 DEF TimerType
<1>5. timer' \in TimerType
  <2>1. timer.elapsed + 1 \in Nat /\ timer' = [timer EXCEPT !.elapsed = timer.elapsed + 1]
    BY <1>1, <1>2, <1>3 DEF TimerType
  <2> QED
    BY <1>1, <2>1 DEF TimerType
<1>6. Timed'
  <2>1. timer'.elapsed <= timer'.period
    BY <1>3, <1>4
  <2>2. RunningHasEvent'
    BY <1>1, <1>2, <1>4 DEF Timed, RunningHasEvent
  <2> QED
    BY <1>1, <1>2, <1>4, <2>1, <2>2 DEF Timed
<1>7. phase \in 0 .. Ratio - 1 /\ rewritten \in BOOLEAN
  BY <1>1 DEF Typed, TypeOK
<1>8. phase' \in 0 .. Ratio - 1 /\ WellFormed(ideal')
  <2>1. CASE phase + 1 = Ratio
    <3>1. ideal' = Settled(InputClock(ideal, 1)) /\ phase' = 0
      BY <2>1 DEF Tick, IdealBecomes
    <3> QED
      BY <1>1, <3>1, PhaseIs, IdealClock, SettledIsWellFormed
  <2>2. CASE phase + 1 # Ratio
    <3>1. ideal' = ideal /\ phase' = phase + 1
      BY <2>2 DEF Tick
    <3> QED
      BY <1>1, <1>7, <2>2, <3>1, Rates
  <2> QED
    BY <2>1, <2>2
<1>9. Typed'
  BY <1>1, <1>2, <1>5, <1>7, <1>8 DEF Typed, TypeOK, TimerType, WellFormed, BytesInOrder
<1> QED
  BY <1>6, <1>9 DEF IInv

-----------------------------------------------------------------------------
(* The theorems of the invariant. *)

\* What a program uses.
LEMMA ProgramUses ==
    ASSUME Typed
    PROVE  /\ program.channels \subseteq 0 .. 2 /\ program.modes \subseteq Modes
           /\ program.accesses \subseteq Accesses
<1>1. program \in [channels : SUBSET (0 .. 2), modes : SUBSET (0 .. 5),
                   accesses : SUBSET (1 .. 3)]
  BY ProgramAssumption DEF Typed, TypeOK
<1> QED
  BY <1>1 DEF Modes, Accesses

\* A step is one of the actions, with what a program uses.
LEMMA Steps ==
    ASSUME Typed, Next
    PROVE  /\ program' = program
           /\ \/ \E ch \in 0 .. 2, data \in Bytes : WriteCount(ch, data)
              \/ \E ch \in 0 .. 2, access \in Accesses, mode \in Modes :
                    WriteControl(ch, access, mode)
              \/ \E ch \in 0 .. 2 : LatchCommand(ch) \/ ReadCount(ch)
              \/ \E signal \in Signals : WriteGate(signal)
              \/ Blank \/ EventCallback \/ Tick
  BY ProgramUses DEF Next, Signals

LEMMA NextKeeps ==
    ASSUME IInv, [Next]_vars
    PROVE  IInv'
<1>1. CASE UNCHANGED vars
  BY <1>1 DEF vars, IInv, Typed, TypeOK, BytesInOrder, Timed, RunningHasEvent
<1>2. CASE Next
  <2>1. Typed
    BY DEF IInv
  <2>2. program' = program
    BY <1>2, <2>1, Steps
  <2>3. CASE \E ch \in 0 .. 2, data \in Bytes : WriteCount(ch, data)
    BY <2>2, <2>3, WriteCountKeeps
  <2>4. CASE \E ch \in 0 .. 2, access \in Accesses, mode \in Modes :
               WriteControl(ch, access, mode)
    BY <2>2, <2>4, WriteControlKeeps
  <2>5. CASE \E ch \in 0 .. 2 : LatchCommand(ch)
    BY <2>2, <2>5, LatchCommandKeeps
  <2>6. CASE \E ch \in 0 .. 2 : ReadCount(ch)
    BY <2>2, <2>6, ReadCountKeeps
  <2>7. CASE \E signal \in Signals : WriteGate(signal)
    BY <2>2, <2>7, WriteGateKeeps
  <2>8. CASE Blank
    BY <2>2, <2>8, BlankKeeps
  <2>9. CASE EventCallback
    BY <2>2, <2>9, EventCallbackKeeps
  <2>10. CASE Tick
    BY <2>2, <2>10, TickKeeps
  <2> QED
    BY <1>2, <2>1, <2>3, <2>4, <2>5, <2>6, <2>7, <2>8, <2>9, <2>10, Steps
<1> QED
  BY <1>1, <1>2

LEMMA InvariantHolds == Spec => []IInv
<1>1. Init => IInv
  BY InitIsTimed
<1>2. IInv /\ [Next]_vars => IInv'
  BY NextKeeps
<1> QED
  BY <1>1, <1>2, PTL DEF Spec

(***************************************************************************)
(* Every counter stays within 17 bits and every register within 16, though *)
(* a high byte is written beside a low one and a count that runs out is    *)
(* loaded again only once: i8253.cpp, input_clock() and write_io8().       *)
(***************************************************************************)
THEOREM TypeCorrect == Spec => []TypeOK
<1>1. IInv => TypeOK
  BY DEF IInv, Typed
<1> QED
  BY <1>1, InvariantHolds, PTL

(***************************************************************************)
(* Counter 0 runs exactly while its event is registered, latch_count()     *)
(* never meets an event that has expired, and no event skips the end of a  *)
(* count.                                                                  *)
(***************************************************************************)
THEOREM EventKeepsUp == Spec => []RunningHasEvent
<1>1. IInv => RunningHasEvent
  BY DEF IInv, Timed
<1> QED
  BY <1>1, InvariantHolds, PTL

\* A step of one counter leaves what the others have latched.
LEMMA LatchKept ==
    ASSUME Typed, NEW ch \in 0 .. 2, NEW k, Ready(k), Becomes(ch, k),
           counter[ch].count_latched /\ k.count_latched => k.latch = counter[ch].latch
    PROVE  \A c \in 0 .. 2 :
              counter[c].count_latched /\ counter'[c].count_latched =>
                  counter'[c].latch = counter[c].latch
<1>1. counter'[ch] = Settled(k) /\ SameLatch(k, Settled(k))
  BY BecomesIs, SettledIsWellFormed
<1>2. /\ \A c \in 0 .. 2 : c # ch /\ ~(ch = 1 /\ c = 2) => counter'[c] = counter[c]
      /\ ch = 1 => SameLatch(counter[2], counter'[2])
  BY BecomesIs
<1> QED
  BY <1>1, <1>2 DEF SameLatch

(***************************************************************************)
(* A program that reads a count byte by byte reads one count: nothing but  *)
(* a new latch replaces what is latched, and no latch does before it is    *)
(* read.                                                                   *)
(***************************************************************************)
THEOREM CountReadIsOne == Spec => ReadsOneCount
<1>1. ASSUME IInv, Next
      PROVE  \A ch \in 0 .. 2 :
                counter[ch].count_latched /\ counter'[ch].count_latched =>
                    counter'[ch].latch = counter[ch].latch
  <2>1. /\ Typed /\ \A ch \in 0 .. 2 : WellFormed(counter[ch]) /\ Ready(counter[ch])
    BY <1>1, CountersAreWellFormed DEF IInv
  <2>2. ASSUME NEW ch \in 0 .. 2, NEW data \in Bytes, WriteCount(ch, data)
        PROVE  \A c \in 0 .. 2 :
                  counter[c].count_latched /\ counter'[c].count_latched =>
                      counter'[c].latch = counter[c].latch
    <3> DEFINE k == CountWritten(counter[ch], data)
    <3>1. Ready(k) /\ SameLatch(counter[ch], k) /\ Becomes(ch, k)
      BY <2>1, <2>2, CountWrittenIs DEF WriteCount
    <3> QED
      BY <2>1, <3>1, LatchKept DEF SameLatch
  <2>3. ASSUME NEW ch \in 0 .. 2, NEW access \in Accesses, NEW mode \in Modes,
               WriteControl(ch, access, mode)
        PROVE  \A c \in 0 .. 2 :
                  counter[c].count_latched /\ counter'[c].count_latched =>
                      counter'[c].latch = counter[c].latch
    <3> DEFINE k == ControlWritten(counter[ch], access, mode)
    <3>1. Ready(counter[ch])
      BY <2>1
    <3>2. Ready(k) /\ k.count_latched = FALSE
      BY <3>1, ControlWrittenIs
    <3>3. Becomes(ch, k)
      BY <2>3 DEF WriteControl
    <3> HIDE DEF k
    <3> QED
      BY <2>1, <3>2, <3>3, LatchKept
  <2>4. ASSUME NEW ch \in 0 .. 2, LatchCommand(ch)
        PROVE  \A c \in 0 .. 2 :
                  counter[c].count_latched /\ counter'[c].count_latched =>
                      counter'[c].latch = counter[c].latch
    <3> DEFINE k == IF ch = 0 THEN Refreshed(counter[ch]) ELSE counter[ch]
    <3>1. ~Due /\ Becomes(ch, Latched(k)) /\ ~counter[ch].count_latched
      BY <2>4 DEF LatchCommand, ProgramRuns
    <3>2. Ready(k)
      BY <1>1, <2>1, <3>1, RefreshedIsReady
    <3>3. Ready(Latched(k))
      BY <3>2, LatchedIs
    <3> QED
      BY <2>1, <3>1, <3>3, LatchKept
  <2>5. ASSUME NEW ch \in 0 .. 2, ReadCount(ch)
        PROVE  \A c \in 0 .. 2 :
                  counter[c].count_latched /\ counter'[c].count_latched =>
                      counter'[c].latch = counter[c].latch
    <3> DEFINE c == counter[ch]
               k == IF ch = 0 /\ Latches(c) THEN Refreshed(c) ELSE c
               m == ByteRead(IF Latches(c) THEN Latched(k) ELSE k)
    <3>1. ~Due /\ Becomes(ch, m)
      BY <2>5 DEF ReadCount, ProgramRuns, Latches
    <3>2. CASE Latches(c)
      <4>1. Ready(k)
        BY <1>1, <2>1, <3>1, RefreshedIsReady
      <4>2. Ready(Latched(k))
        BY <4>1, LatchedIs
      <4>3. m = ByteRead(Latched(k))
        BY <3>2
      <4> HIDE DEF m
      <4>4. Ready(m) /\ ~c.count_latched
        BY <3>2, <4>2, <4>3, ByteReadIs DEF Latches
      <4> QED
        BY <2>1, <3>1, <4>4, LatchKept
    <3>3. CASE ~Latches(c)
      <4>1. m = ByteRead(c)
        BY <3>3
      <4> HIDE DEF m
      <4>2. Ready(m) /\ m.latch = c.latch
        BY <2>1, <4>1, ByteReadIs
      <4> QED
        BY <2>1, <3>1, <4>2, LatchKept
    <3> QED
      BY <3>2, <3>3
  <2>6. ASSUME NEW signal \in Signals, WriteGate(signal)
        PROVE  \A c \in 0 .. 2 :
                  counter[c].count_latched /\ counter'[c].count_latched =>
                      counter'[c].latch = counter[c].latch
    <3> DEFINE k == GateChanged(counter[0], signal)
    <3>1. Ready(counter[0])
      BY <2>1
    <3>2. Ready(k) /\ SameLatch(counter[0], k)
      BY <3>1, GateChangedIs
    <3>3. Becomes(0, k)
      BY <2>6 DEF WriteGate
    <3> HIDE DEF k
    <3> QED
      BY <2>1, <3>2, <3>3, LatchKept DEF SameLatch
  <2>7. ASSUME Blank
        PROVE  \A c \in 0 .. 2 :
                  counter[c].count_latched /\ counter'[c].count_latched =>
                      counter'[c].latch = counter[c].latch
    <3> DEFINE level == ~counter[1].prev_in
               k == ClockSignal(counter[1], level)
    <3>1. level \in BOOLEAN /\ Ready(counter[1])
      BY <2>1
    <3> HIDE DEF level
    <3>2. Ready(k) /\ SameLatch(counter[1], k)
      BY <3>1, ClockSignalIs
    <3>3. Becomes(1, k)
      BY <2>7 DEF Blank, level
    <3> HIDE DEF k
    <3> QED
      BY <2>1, <3>2, <3>3, LatchKept DEF SameLatch
  <2>8. ASSUME EventCallback
        PROVE  \A c \in 0 .. 2 :
                  counter[c].count_latched /\ counter'[c].count_latched =>
                      counter'[c].latch = counter[c].latch
    <3> DEFINE k == InputClock(counter[0], timer.input_clk)
    <3>1. timer.pending /\ Becomes(0, k) /\ Ready(counter[0])
      BY <2>1, <2>8 DEF EventCallback, Due
    <3>2. /\ k \in Busy /\ SameSetting(counter[0], k) /\ k.count \in 1 .. Full + 1
          /\ SameLatch(counter[0], k)
      BY <1>1, <3>1, EventClocks, InputClockIs DEF Ready
    <3>3. Ready(k)
      BY <3>1, <3>2, CountedIsReady
    <3> HIDE DEF k
    <3> QED
      BY <2>1, <3>1, <3>2, <3>3, LatchKept DEF SameLatch
  <2>9. ASSUME Tick
        PROVE  \A c \in 0 .. 2 :
                  counter[c].count_latched /\ counter'[c].count_latched =>
                      counter'[c].latch = counter[c].latch
    BY <2>9 DEF Tick
  <2> QED
    BY <1>1, <2>1, <2>2, <2>3, <2>4, <2>5, <2>6, <2>7, <2>8, <2>9, Steps
<1>2. IInv /\ [Next]_vars =>
        [\A ch \in 0 .. 2 :
            counter[ch].count_latched /\ counter'[ch].count_latched =>
                counter'[ch].latch = counter[ch].latch]_vars
  BY <1>1
<1> QED
  BY <1>2, InvariantHolds, PTL DEF Spec, ReadsOneCount

-----------------------------------------------------------------------------
(* The pace of counter 0: events against clocks.                           *)

LEMMA Quotient ==
    ASSUME NEW n \in Nat, NEW d \in Nat, NEW q \in Nat, NEW r \in Nat,
           n = d * q + r, r < d
    PROVE  n \div d = q
<1> DEFINE p == n \div d
<1>1. p \in Nat /\ d * p <= n /\ n < d * p + d
  BY Division
<1> HIDE DEF p
<1>2. ~(p < q)
  <2>1. SUFFICES ASSUME p + 1 <= q PROVE FALSE
    BY <1>1
  <2>2. d * (p + 1) <= d * q /\ d * q \in Int
    BY <1>1, <2>1, Monotone
  <2>3. d * (p + 1) = d * p + d
    BY <1>1, SMT
  <2> QED
    BY <1>1, <2>2, <2>3
<1>3. ~(q < p)
  <2>1. SUFFICES ASSUME q + 1 <= p PROVE FALSE
    BY <1>1
  <2>2. d * (q + 1) <= d * p /\ d * p \in Int /\ d * q \in Int
    BY <1>1, <2>1, Monotone
  <2>3. d * (q + 1) = d * q + d
    BY SMT
  <2> QED
    BY <1>1, <2>2, <2>3
<1> QED
  BY <1>1, <1>2, <1>3 DEF p

\* Clocks of the counter are a whole number of CPU clocks, up to the longest count.
LEMMA ExactPeriod ==
    ASSUME NEW clocks \in 1 .. Full + 1
    PROVE  (cpu_clocks * clocks) \div freq = Ratio * clocks
<1> DEFINE left == cpu_clocks - Ratio * freq
<1>1. left \in Nat /\ Ratio * freq \in Nat /\ clocks \in Nat
  <2>1. /\ cpu_clocks \div freq \in Nat /\ freq * (cpu_clocks \div freq) <= cpu_clocks
    BY Rates, Division
  <2>2. freq * Ratio = Ratio * freq
    BY Rates, SMT
  <2> QED
    BY <2>1, <2>2, Rates, FullIsPositive DEF Ratio
<1>2. left * clocks \in Nat /\ left * clocks < freq
  <2>1. left * clocks <= left * (Full + 1) /\ left * clocks \in Int /\ left * (Full + 1) \in Int
    BY <1>1, FullIsPositive, Monotone
  <2>2. left * (Full + 1) < freq
    BY ExactAssumption
  <2>3. left * clocks >= 0
    BY <1>1, SMT
  <2> QED
    BY <2>1, <2>2, <2>3, Rates
<1>3. cpu_clocks * clocks = freq * (Ratio * clocks) + left * clocks
  <2>1. cpu_clocks = Ratio * freq + left
    BY <1>1, Rates
  <2> HIDE DEF left
  <2>2. (Ratio * freq + left) * clocks = freq * (Ratio * clocks) + left * clocks
    BY <1>1, Rates, SMT
  <2> QED
    BY <2>1, <2>2
<1> HIDE DEF left
<1>4. cpu_clocks * clocks \in Nat /\ Ratio * clocks \in Nat
  BY <1>1, Rates, SMT
<1> QED
  BY <1>2, <1>3, <1>4, Rates, Quotient

\* The clocks left when time is left, with phase since the last one.
LEMMA ClocksLeftIs ==
    ASSUME NEW time \in Nat, NEW since \in 0 .. Ratio - 1, NEW clocks \in Nat,
           time + since = Ratio * clocks
    PROVE  (time + Ratio - 1) \div Ratio = clocks
<1>1. Ratio \in Nat /\ Ratio >= 1
  BY Rates
<1>2. Ratio * clocks \in Nat
  BY <1>1, SMT
<1>3. time + Ratio - 1 = Ratio * clocks + (Ratio - 1 - since)
  BY <1>1, <1>2
<1>4. time + Ratio - 1 \in Nat /\ Ratio - 1 - since \in Nat /\ Ratio - 1 - since < Ratio
  BY <1>1
<1> QED
  BY <1>1, <1>3, <1>4, Quotient

\* Two counters run alike: only a count that still has to be loaded may differ.
SameRun(k, m) ==
    m.start = k.start /\ m.delay = k.delay /\ (k.delay = 0 => m.count = k.count)

\* What the counter is when its event comes.
AtEvent == InputClock(counter[0], timer.input_clk)

\* Counter 0 and the ideal one have the same setting; while they run, the event
\* comes with the clock after which both have counted the same.
InStep ==
    /\ SameSetting(counter[0], ideal)
    /\ counter[0].start /\ counter[0].mode \notin {1, 5} => counter[0].gate
    /\ ~timer.pending => SameRun(counter[0], ideal)
    /\ timer.pending => timer.period - timer.elapsed + phase = Ratio * ClocksLeft
    /\ Due => SameRun(AtEvent, ideal)
    /\ timer.pending /\ ~Due =>
          /\ ideal.start = counter[0].start /\ ideal.delay = counter[0].delay
          /\ counter[0].delay > 0 => ClocksLeft = 1
          /\ counter[0].delay = 0 =>
                counter[0].count - timer.input_clk = ideal.count - ClocksLeft

Counting(k) == k.start /\ k.delay = 0

\* In mode 3 the output is high before the count is loaded, and then during its
\* first half.
Square(k) ==
    k.mode = 3 => IF Counting(k) THEN k.prev_out = (k.count > Half(k)) ELSE k.prev_out = TRUE

\* The event is for the next change of the output: it passes over no other one.
NextChange ==
    Counting(counter[0]) =>
        /\ counter[0].mode \in {2, 4, 5} =>
              \/ counter[0].count - timer.input_clk >= 1
              \/ timer.input_clk = 1 /\ ClocksLeft <= 1
        /\ counter[0].mode = 3 /\ counter[0].count > Half(counter[0]) =>
              rewritten \/ counter[0].count - timer.input_clk >= Half(counter[0])

SameOutput ==
    /\ ~Due /\ (counter[0].mode # 3 \/ ~rewritten) => ideal.prev_out = counter[0].prev_out
    /\ Due => ideal.prev_out = AtEvent.prev_out
    /\ ~rewritten \/ ~Counting(counter[0]) => Square(counter[0])
    /\ ~rewritten \/ ~Counting(ideal) => Square(ideal)
    /\ NextChange

Pace == InStep /\ SameOutput

\* What pace sees of a counter: all but its gate and its bytes.
SameShape(k, n) ==
    n.mode = k.mode /\ n.count_reg = k.count_reg /\ SameCount(k, n) /\ n.prev_out = k.prev_out

LEMMA SameShapeIs ==
    ASSUME NEW k, NEW n, SameShape(k, n)
    PROVE  /\ COUNT_VALUE(n) = COUNT_VALUE(k) /\ Half(n) = Half(k) /\ NextCount(n) = NextCount(k)
           /\ Square(k) <=> Square(n)
           /\ Counting(k) <=> Counting(n)
<1>1. COUNT_VALUE(n) = COUNT_VALUE(k)
  BY DEF SameShape, COUNT_VALUE
<1>2. Half(n) = Half(k)
  BY <1>1 DEF Half
<1>3. /\ n.mode = k.mode /\ n.count = k.count /\ n.start = k.start /\ n.delay = k.delay
      /\ n.prev_out = k.prev_out
  BY DEF SameShape, SameCount
<1>4. NextCount(n) = NextCount(k)
  BY <1>2, <1>3 DEF NextCount
<1>5. Counting(k) <=> Counting(n)
  BY <1>3 DEF Counting
<1>6. Square(k) <=> Square(n)
  BY <1>2, <1>3 DEF Square, Counting
<1> QED
  BY <1>1, <1>2, <1>4, <1>5, <1>6

LEMMA SameFateIs ==
    ASSUME NEW k, NEW n, SameFate(k, n)
    PROVE  /\ SameShape(k, n)
           /\ COUNT_VALUE(n) = COUNT_VALUE(k) /\ Half(n) = Half(k) /\ NextCount(n) = NextCount(k)
           /\ Square(k) <=> Square(n)
           /\ Counting(k) <=> Counting(n)
<1>1. SameShape(k, n)
  BY DEF SameFate, SameSetting, SameShape
<1> QED
  BY <1>1, SameShapeIs

\* Counters that run alike and show the same output do so in mode 3 as well.
LEMMA SquareAlike ==
    ASSUME NEW k, NEW m, SameSetting(k, m), SameRun(k, m), m.prev_out = k.prev_out, Square(k)
    PROVE  Square(m)
<1>1. Half(m) = Half(k) /\ m.mode = k.mode
  BY SameValue DEF SameSetting
<1>2. CASE Counting(k)
  BY <1>1, <1>2 DEF Square, Counting, SameRun
<1>3. CASE ~Counting(k)
  BY <1>1, <1>3 DEF Square, Counting, SameRun
<1> QED
  BY <1>2, <1>3

\* The event of a counter that starts comes with its next change.
LEMMA PaceScheduled ==
    ASSUME NEW k, NEW m, Ready(k), Ready(m), k.start = TRUE, k.mode \notin {1, 5} => k.gate,
           SameSetting(k, m), SameRun(k, m), m.prev_out = k.prev_out, Square(k),
           SameFate(k, counter'[0]), SameFate(m, ideal'),
           timer' = Schedule(k), phase' = 0
    PROVE  Pace'
<1> DEFINE clocks == timer'.input_clk
<1>1. /\ timer'.pending = TRUE /\ timer'.elapsed = 0 /\ timer'.period \in Nat
      /\ clocks = IF k.delay > 0 THEN 1 ELSE NextCount(k)
      /\ clocks \in 1 .. Full + 1
      /\ timer'.period = (cpu_clocks * clocks) \div freq
  BY ScheduleIs
<1> HIDE DEF clocks
<1>2. timer'.period = Ratio * clocks
  BY <1>1, ExactPeriod
<1>3. clocks \in Nat /\ clocks >= 1 /\ Ratio \in Nat /\ Ratio >= 1
  BY <1>1, Rates, FullIsPositive
<1>4. timer'.period >= 1
  <2>1. Ratio * 1 <= Ratio * clocks /\ Ratio * 1 = Ratio /\ Ratio * clocks \in Int
    BY <1>3, Monotone
  <2> QED
    BY <1>2, <1>3, <2>1
<1>5. ~Due'
  BY <1>1, <1>4 DEF Due
<1>6. timer'.period - timer'.elapsed + phase' = Ratio * clocks
  BY <1>1, <1>2
<1>7. ClocksLeft' = clocks
  <2> DEFINE time == timer'.period - timer'.elapsed
  <2>1. time \in Nat /\ time + phase' = Ratio * clocks /\ phase' \in 0 .. Ratio - 1
    BY <1>1, <1>6, PhaseIs
  <2> HIDE DEF time
  <2>2. (time + Ratio - 1) \div Ratio = clocks
    BY <1>3, <2>1, ClocksLeftIs
  <2> QED
    BY <2>2 DEF ClocksLeft, time
<1>8. /\ counter'[0].start = TRUE /\ counter'[0].delay = k.delay
      /\ counter'[0].count = k.count /\ counter'[0].mode = k.mode
      /\ counter'[0].gate = k.gate /\ counter'[0].prev_out = k.prev_out
      /\ Half(counter'[0]) = Half(k)
  BY SameFateIs DEF SameFate, SameSetting, SameCount
<1>9. /\ ideal'.start = m.start /\ ideal'.delay = m.delay
      /\ ideal'.count = m.count /\ ideal'.prev_out = m.prev_out
  BY DEF SameFate, SameCount
<1>10. k.delay \in 0 .. 2 /\ k.count \in Int /\ NextCount(k) \in 1 .. k.count
  BY NextCountIs DEF Ready, Busy
<1>11. SameSetting(counter'[0], ideal')
  BY DEF SameFate, SameSetting
<1>12. InStep'
  <2>1. ideal'.start = counter'[0].start /\ ideal'.delay = counter'[0].delay
    BY <1>8, <1>9 DEF SameRun
  <2>2. counter'[0].delay > 0 => ClocksLeft' = 1
    BY <1>1, <1>7, <1>8
  <2>3. counter'[0].delay = 0 => counter'[0].count - clocks = ideal'.count - ClocksLeft'
    BY <1>7, <1>8, <1>9 DEF SameRun
  <2>4. counter'[0].start /\ counter'[0].mode \notin {1, 5} => counter'[0].gate
    BY <1>8
  <2> QED
    BY <1>1, <1>5, <1>6, <1>7, <1>11, <2>1, <2>2, <2>3, <2>4 DEF InStep, clocks
<1>13. Square(m)
  BY SquareAlike
<1>14. Square(counter'[0]) /\ Square(ideal')
  BY <1>13, SameFateIs
<1>15. NextChange'
  <2>1. SUFFICES ASSUME k.delay = 0
        PROVE  /\ k.mode \in {2, 4, 5} =>
                     k.count - clocks >= 1 \/ (clocks = 1 /\ ClocksLeft' <= 1)
               /\ k.mode = 3 /\ k.count > Half(k) => k.count - clocks >= Half(k)
    BY <1>8 DEF NextChange, Counting, clocks
  <2>2. clocks = NextCount(k) /\ Half(k) \in Int
    BY <1>1, <1>10, <2>1, CountValueInRange, FullIsPositive DEF Ready
  <2>3. CASE k.mode \in {2, 4, 5}
    <3>1. clocks = IF k.count > 1 THEN k.count - 1 ELSE 1
      BY <2>2, <2>3 DEF NextCount
    <3>2. CASE k.count > 1
      <4>1. k.count - clocks = 1
        BY <1>10, <3>1, <3>2
      <4> QED
        BY <2>3, <4>1
    <3>3. CASE ~(k.count > 1)
      BY <1>7, <2>3, <3>1, <3>3
    <3> QED
      BY <3>2, <3>3
  <2>4. CASE k.mode = 3
    BY <1>10, <2>2, <2>4 DEF NextCount
  <2> QED
    BY <2>3, <2>4
<1>16. SameOutput'
  BY <1>5, <1>8, <1>9, <1>14, <1>15 DEF SameOutput
<1> QED
  BY <1>12, <1>16 DEF Pace

\* A counter that stops keeps its place.
LEMMA PaceStopped ==
    ASSUME NEW k, NEW m, Ready(k), Ready(m), k.start = FALSE,
           SameSetting(k, m), SameRun(k, m), m.prev_out = k.prev_out, Square(k),
           SameFate(k, counter'[0]), SameFate(m, ideal'), timer'.pending = FALSE
    PROVE  Pace'
<1>1. ~Due' /\ counter'[0].start = FALSE /\ m.start = FALSE /\ ideal'.start = FALSE
  BY DEF Due, SameFate, SameCount, SameRun
<1>2. SameSetting(counter'[0], ideal') /\ SameRun(counter'[0], ideal')
  BY DEF SameFate, SameSetting, SameCount, SameRun
<1>3. InStep'
  BY <1>1, <1>2 DEF InStep
<1>4. Square(counter'[0]) /\ Square(ideal')
  BY SquareAlike, SameFateIs
<1>5. ideal'.prev_out = counter'[0].prev_out
  BY DEF SameFate
<1> QED
  BY <1>1, <1>3, <1>4, <1>5 DEF Pace, SameOutput, NextChange, Counting

\* A command that leaves the counters running leaves them in step.
LEMMA InStepKept ==
    ASSUME InStep, ~Due, timer' = timer, phase' = phase,
           SameCount(counter[0], counter'[0]), SameCount(ideal, ideal'),
           SameSetting(counter'[0], ideal'),
           counter'[0].start /\ counter'[0].mode \notin {1, 5} => counter'[0].gate
    PROVE  InStep'
<1>1. Due' = Due /\ ClocksLeft' = ClocksLeft
  BY DEF Due, ClocksLeft
<1>2. /\ counter'[0].start = counter[0].start /\ counter'[0].delay = counter[0].delay
      /\ counter'[0].count = counter[0].count
      /\ ideal'.start = ideal.start /\ ideal'.delay = ideal.delay /\ ideal'.count = ideal.count
  BY DEF SameCount
<1>3. ~Due'
  BY <1>1
<1>4. ~timer'.pending => SameRun(counter'[0], ideal')
  BY <1>2 DEF InStep, SameRun
<1> QED
  BY <1>1, <1>2, <1>3, <1>4 DEF InStep

\* A step that does not start, stop or write counter 0.
LEMMA PaceUnchanged ==
    ASSUME Pace, ~Due, timer' = timer, phase' = phase, rewritten' = rewritten,
           SameShape(counter[0], counter'[0]), SameShape(ideal, ideal'),
           SameSetting(counter'[0], ideal'),
           counter'[0].start /\ counter'[0].mode \notin {1, 5} => counter'[0].gate
    PROVE  Pace'
<1>1. Due' = Due /\ ClocksLeft' = ClocksLeft /\ ~Due'
  BY DEF Due, ClocksLeft
<1>2. InStep'
  BY InStepKept DEF Pace, SameShape
<1>3. /\ counter'[0].mode = counter[0].mode /\ counter'[0].count = counter[0].count
      /\ counter'[0].prev_out = counter[0].prev_out /\ ideal'.prev_out = ideal.prev_out
      /\ Half(counter'[0]) = Half(counter[0])
      /\ Square(counter'[0]) <=> Square(counter[0])
      /\ Square(ideal') <=> Square(ideal)
      /\ Counting(counter'[0]) <=> Counting(counter[0])
      /\ Counting(ideal') <=> Counting(ideal)
  BY SameShapeIs DEF SameShape, SameCount
<1>4. NextChange'
  BY <1>1, <1>3 DEF Pace, SameOutput, NextChange
<1>5. SameOutput'
  BY <1>1, <1>3, <1>4 DEF Pace, SameOutput
<1> QED
  BY <1>2, <1>5 DEF Pace

\* A step that counter 0 does not take part in.
LEMMA PaceSame ==
    ASSUME Pace, ~Due, timer' = timer, phase' = phase, rewritten' = rewritten,
           SameFate(counter[0], counter'[0]), SameFate(ideal, ideal')
    PROVE  Pace'
<1>1. SameSetting(counter'[0], ideal')
  BY DEF Pace, InStep, SameFate, SameSetting
<1>2. counter'[0].start /\ counter'[0].mode \notin {1, 5} => counter'[0].gate
  BY DEF Pace, InStep, SameFate, SameSetting, SameCount
<1>3. SameShape(counter[0], counter'[0]) /\ SameShape(ideal, ideal')
  BY SameFateIs
<1> QED
  BY <1>1, <1>2, <1>3, PaceUnchanged

LEMMA SettledFate ==
    ASSUME NEW k, Ready(k)
    PROVE  SameFate(k, Settled(k))
  BY SettledIsWellFormed DEF SameFate

LEMMA SameFateSelf ==
    ASSUME NEW k
    PROVE  SameFate(k, k)
  BY DEF SameFate, SameSetting, SameCount

LEMMA InitPaces == Init => Pace
<1>1. SUFFICES ASSUME Init PROVE Pace
  OBVIOUS
<1>2. counter[0] = PowerOn /\ ideal = PowerOn /\ timer = NoTimer
  BY <1>1 DEF Init
<1>3. PowerOn.start = FALSE /\ PowerOn.prev_out = TRUE /\ ~timer.pending
  BY <1>2 DEF PowerOn, NoTimer
<1>4. SameSetting(PowerOn, PowerOn) /\ SameRun(PowerOn, PowerOn) /\ Square(PowerOn)
  BY <1>3 DEF SameSetting, SameRun, Square, Counting
<1>5. ~Due /\ ~Counting(PowerOn)
  BY <1>3 DEF Due, Counting
<1> QED
  BY <1>2, <1>3, <1>4, <1>5 DEF Pace, InStep, SameOutput, NextChange

\* When the program runs, both counters are started or neither.
LEMMA RunTogether ==
    ASSUME IInv, InStep, ~Due
    PROVE  /\ ideal.start = counter[0].start /\ ideal.delay = counter[0].delay
           /\ ~counter[0].start => SameRun(counter[0], ideal)
  BY DEF IInv, Timed, RunningHasEvent, InStep, SameRun

\* A step of another counter.
LEMMA OthersPace ==
    ASSUME Pace, counter'[0] = counter[0], ideal' = ideal, timer' = timer,
           phase' = phase, rewritten' = rewritten
    PROVE  Pace'
<1>1. Due' = Due /\ ClocksLeft' = ClocksLeft /\ AtEvent' = AtEvent
  BY DEF Due, ClocksLeft, AtEvent
<1>2. InStep'
  BY <1>1 DEF Pace, InStep
<1>3. NextChange'
  BY <1>1 DEF Pace, SameOutput, NextChange
<1>4. SameOutput'
  BY <1>1, <1>3 DEF Pace, SameOutput
<1> QED
  BY <1>2, <1>4 DEF Pace

LEMMA WriteCountPaces ==
    ASSUME IInv, Pace, NEW ch \in 0 .. 2, NEW data \in Bytes, WriteCount(ch, data)
    PROVE  Pace'
<1> DEFINE k == CountWritten(counter[ch], data)
           m == CountWritten(ideal, data)
<1>1. /\ Typed /\ Timed /\ Ready(counter[ch]) /\ Ready(ideal) /\ ~Due /\ InStep
      /\ timer \in TimerType
  BY CountersAreWellFormed DEF IInv, WriteCount, ProgramRuns, Pace
<1>2. /\ Ready(k) /\ SameSetting(ByteWritten(counter[ch], data), k)
      /\ k.mode = counter[ch].mode /\ k.gate = counter[ch].gate
      /\ k.count = counter[ch].count /\ k.prev_out = (counter[ch].mode # 0)
      /\ k.delay = IF Restarts(counter[ch]) THEN IF counter[ch].prev_in THEN 2 ELSE 1
                   ELSE counter[ch].delay
      /\ k.start = IF Restarts(counter[ch]) THEN Starts(k) ELSE counter[ch].start
  BY <1>1, CountWrittenIs
<1>3. /\ Ready(m) /\ SameSetting(ByteWritten(ideal, data), m)
      /\ m.count = ideal.count /\ m.prev_out = (ideal.mode # 0)
      /\ m.delay = IF Restarts(ideal) THEN IF ideal.prev_in THEN 2 ELSE 1 ELSE ideal.delay
      /\ m.start = IF Restarts(ideal) THEN Starts(m) ELSE ideal.start
  BY <1>1, CountWrittenIs
<1>4. Becomes(ch, k)
  BY DEF WriteCount
<1>5. CASE ch # 0
  <2>1. timer' = timer /\ ideal' = ideal /\ phase' = phase /\ rewritten' = rewritten
    BY <1>5 DEF WriteCount
  <2>2. counter'[0] = counter[0]
    BY <1>1, <1>2, <1>4, <1>5, BecomesIs
  <2> QED
    BY <1>1, <2>1, <2>2, OthersPace
<1>6. CASE ch = 0
  <2> DEFINE c == counter[0]
  <2>1. /\ timer' = IF Restarts(c) /\ k.start THEN Schedule(k)
                    ELSE IF k.mode \in {0, 4} THEN NoTimer ELSE timer
        /\ ideal' = Settled(m)
        /\ phase' = IF Restarts(c) THEN 0 ELSE phase
        /\ rewritten' = ~Restarts(c)
    BY <1>6 DEF WriteCount, IdealBecomes
  <2>2. SameFate(k, counter'[0]) /\ SameFate(m, ideal')
    <3>1. counter'[0] = Settled(k)
      BY <1>1, <1>2, <1>4, <1>6, BecomesIs
    <3> QED
      BY <1>2, <1>3, <2>1, <3>1, SettledFate
  <2>3. SameSetting(k, m)
    <3>1. SameSetting(ByteWritten(c, data), ByteWritten(ideal, data))
      BY <1>1, <1>6, ByteWrittenAlike DEF InStep, Ready
    <3> HIDE DEF k, m
    <3> QED
      BY <1>2, <1>3, <1>6, <3>1 DEF SameSetting
  <2>4. /\ ideal.mode = c.mode /\ ideal.prev_in = c.prev_in
        /\ ideal.start = c.start /\ ideal.delay = c.delay
    BY <1>1, RunTogether DEF InStep, SameSetting
  <2>5. Restarts(ideal) = Restarts(c)
    BY <2>4 DEF Restarts
  <2>6. m.prev_out = k.prev_out /\ (k.mode # 0 => k.prev_out = TRUE)
    BY <1>2, <1>3, <1>6, <2>4
  <2>7. Starts(m) = Starts(k)
    BY <2>3 DEF SameSetting, Starts
  <2>8. k.start \in BOOLEAN /\ c.start \in BOOLEAN
    BY <1>1, <1>2, <1>6 DEF Ready, Busy
  <2> HIDE DEF k, m
  <2>9. CASE Restarts(c)
    <3>1. k.delay > 0 /\ m.delay = k.delay /\ m.start = k.start /\ (k.start => k.gate)
      <4>1. k.start = Starts(k) /\ k.delay = IF c.prev_in THEN 2 ELSE 1
        BY <1>2, <1>6, <2>9
      <4>2. m.start = Starts(m) /\ m.delay = IF ideal.prev_in THEN 2 ELSE 1
        BY <1>3, <2>5, <2>9
      <4>3. k.start => k.gate
        BY <4>1 DEF Starts
      <4> HIDE DEF c
      <4> QED
        BY <2>4, <2>7, <4>1, <4>2, <4>3
    <3>2. SameRun(k, m) /\ Square(k)
      BY <2>6, <3>1 DEF SameRun, Square, Counting
    <3>3. CASE k.start
      <4>1. timer' = Schedule(k) /\ phase' = 0 /\ k.start = TRUE
        BY <2>1, <2>8, <2>9, <3>3
      <4> QED
        BY <1>2, <1>3, <2>2, <2>3, <2>6, <3>1, <3>2, <4>1, PaceScheduled
    <3>4. CASE ~k.start
      <4>1. k.start = FALSE
        BY <2>8, <3>4
      <4>2. timer'.pending = FALSE
        <5>1. CASE k.mode \in {0, 4}
          BY <2>1, <3>4, <5>1, NoTimerIs
        <5>2. CASE k.mode \notin {0, 4}
          <6>1. timer' = timer /\ ~c.start
            BY <1>2, <1>6, <2>1, <2>9, <3>4, <5>2 DEF Restarts
          <6> QED
            BY <1>1, <6>1 DEF Timed, RunningHasEvent, TimerType
        <5> QED
          BY <5>1, <5>2
      <4> QED
        BY <1>2, <1>3, <2>2, <2>3, <2>6, <3>2, <4>1, <4>2, PaceStopped
    <3> QED
      BY <3>3, <3>4
  <2>10. CASE ~Restarts(c)
    <3>1. /\ timer' = timer /\ phase' = phase /\ rewritten' = TRUE
          /\ k.mode = c.mode /\ k.mode # 0
      BY <1>2, <1>6, <2>1, <2>10 DEF Restarts
    <3>2. SameCount(c, k) /\ SameCount(ideal, m)
      BY <1>2, <1>3, <1>6, <2>5, <2>10 DEF SameCount
    <3>3. SameCount(c, counter'[0]) /\ SameCount(ideal, ideal')
      BY <2>2, <3>2 DEF SameFate, SameCount
    <3>4. SameSetting(counter'[0], ideal')
      BY <2>2, <2>3 DEF SameFate, SameSetting
    <3>5. counter'[0].start /\ counter'[0].mode \notin {1, 5} => counter'[0].gate
      <4>1. counter'[0].mode = c.mode /\ counter'[0].gate = c.gate
        BY <1>2, <1>6, <2>2 DEF SameFate, SameSetting
      <4> QED
        BY <1>1, <3>3, <4>1 DEF InStep, SameCount
    <3>6. InStep'
      BY <1>1, <3>1, <3>3, <3>4, <3>5, InStepKept
    <3>7. Due' = Due /\ ClocksLeft' = ClocksLeft
      BY <3>1 DEF Due, ClocksLeft
    <3>8. /\ counter'[0].prev_out = TRUE /\ ideal'.prev_out = TRUE
          /\ counter'[0].mode = c.mode /\ counter'[0].count = c.count
          /\ Counting(counter'[0]) = Counting(c)
      BY <2>2, <2>6, <3>1, <3>3 DEF SameFate, SameSetting, SameCount, Counting
    <3>9. ~Counting(counter'[0]) => Square(counter'[0])
      BY <3>8 DEF Square
    <3>10. ~Counting(ideal') => Square(ideal')
      BY <3>8 DEF Square
    <3>11. NextChange'
      BY <3>1, <3>7, <3>8 DEF Pace, SameOutput, NextChange
    <3>12. SameOutput'
      BY <1>1, <3>1, <3>7, <3>8, <3>9, <3>10, <3>11 DEF SameOutput
    <3> QED
      BY <3>6, <3>12 DEF Pace
  <2> QED
    BY <2>9, <2>10
<1> QED
  BY <1>5, <1>6

LEMMA WriteControlPaces ==
    ASSUME IInv, Pace, NEW ch \in 0 .. 2, NEW access \in Accesses, NEW mode \in Modes,
           WriteControl(ch, access, mode)
    PROVE  Pace'
<1> DEFINE k == ControlWritten(counter[ch], access, mode)
           m == ControlWritten(IdealSetBack, access, mode)
<1>1. /\ Typed /\ Timed /\ Ready(counter[ch]) /\ Ready(counter[0]) /\ Ready(ideal)
      /\ ~Due /\ InStep
  BY CountersAreWellFormed DEF IInv, WriteControl, ProgramRuns, Pace
<1> DEFINE c == counter[ch]
<1>2. /\ Ready(k) /\ k.mode = mode /\ k.access = access /\ k.count_reg = 0
      /\ k.gate = c.gate /\ k.prev_in = c.prev_in
      /\ k.low_write = FALSE /\ k.high_write = FALSE
      /\ k.count = c.count /\ k.delay = c.delay /\ k.start = FALSE
      /\ k.prev_out = (mode # 0)
  <2>1. Ready(c)
    BY <1>1
  <2> HIDE DEF c
  <2>2. LET n == ControlWritten(c, access, mode)
        IN  /\ Ready(n) /\ n.mode = mode /\ n.access = access /\ n.count_reg = 0
            /\ n.gate = c.gate /\ n.prev_in = c.prev_in
            /\ n.low_write = FALSE /\ n.high_write = FALSE /\ n.count_latched = FALSE
            /\ n.count = c.count /\ n.delay = c.delay /\ n.start = FALSE
            /\ n.prev_out = (mode # 0) /\ Len(n.levels) <= Len(c.levels) + 1
    BY <2>1, ControlWrittenIs
  <2>3. k = ControlWritten(c, access, mode)
    BY DEF c
  <2> HIDE DEF k
  <2> QED
    BY <2>2, <2>3
<1>3. Becomes(ch, k)
  BY DEF WriteControl
<1>4. CASE ch # 0
  <2>1. timer' = timer /\ ideal' = ideal /\ phase' = phase /\ rewritten' = rewritten
    BY <1>4 DEF WriteControl
  <2>2. counter'[0] = counter[0]
    BY <1>1, <1>2, <1>3, <1>4, BecomesIs
  <2> QED
    BY <1>1, <2>1, <2>2, OthersPace
<1>5. CASE ch = 0
  <2>1. timer' = NoTimer /\ ideal' = Settled(m)
    BY <1>5 DEF WriteControl, IdealBecomes
  <2>2. /\ Ready(IdealSetBack) /\ IdealSetBack.count = c.count
        /\ IdealSetBack.gate = c.gate /\ IdealSetBack.prev_in = c.prev_in
        /\ IdealSetBack.delay = c.delay
    <3>1. /\ Ready(IdealSetBack) /\ IdealSetBack.count = c.count
          /\ IdealSetBack.gate = ideal.gate /\ IdealSetBack.prev_in = ideal.prev_in
          /\ IdealSetBack.delay = ideal.delay
      BY <1>1, <1>5 DEF IdealSetBack, Ready, Busy, BytesInOrder
    <3>2. ideal.gate = c.gate /\ ideal.prev_in = c.prev_in /\ ideal.delay = c.delay
      BY <1>1, <1>5, RunTogether DEF InStep, SameSetting
    <3> QED
      BY <3>1, <3>2
  <2>3. /\ Ready(m) /\ m.mode = mode /\ m.access = access /\ m.count_reg = 0
        /\ m.gate = IdealSetBack.gate /\ m.prev_in = IdealSetBack.prev_in
        /\ m.low_write = FALSE /\ m.high_write = FALSE
        /\ m.count = IdealSetBack.count /\ m.delay = IdealSetBack.delay /\ m.start = FALSE
        /\ m.prev_out = (mode # 0)
    <3> DEFINE back == IdealSetBack
    <3>1. Ready(back)
      BY <2>2
    <3> HIDE DEF back
    <3>2. LET n == ControlWritten(back, access, mode)
          IN  /\ Ready(n) /\ n.mode = mode /\ n.access = access /\ n.count_reg = 0
              /\ n.gate = back.gate /\ n.prev_in = back.prev_in
              /\ n.low_write = FALSE /\ n.high_write = FALSE /\ n.count_latched = FALSE
              /\ n.count = back.count /\ n.delay = back.delay /\ n.start = FALSE
              /\ n.prev_out = (mode # 0) /\ Len(n.levels) <= Len(back.levels) + 1
      BY <3>1, ControlWrittenIs
    <3>3. m = ControlWritten(back, access, mode)
      BY DEF back
    <3> HIDE DEF m
    <3> QED
      BY <3>2, <3>3 DEF back
  <2>4. SameFate(k, counter'[0]) /\ SameFate(m, ideal')
    <3>1. counter'[0] = Settled(k)
      BY <1>1, <1>2, <1>3, <1>5, BecomesIs
    <3> QED
      BY <1>2, <2>1, <2>3, <3>1, SettledFate
  <2> HIDE DEF k, m, c
  <2>5. SameSetting(k, m) /\ SameRun(k, m) /\ m.prev_out = k.prev_out
    BY <1>2, <2>2, <2>3 DEF SameSetting, SameRun
  <2>6. Square(k)
    <3>1. k.mode = 3 => k.prev_out = TRUE
      <4>1. k.mode = mode /\ k.prev_out = (mode # 0)
        BY <1>2
      <4>2. mode = 3 => (mode # 0) = TRUE
        OBVIOUS
      <4> QED
        BY <4>1, <4>2, Zenon
    <3> QED
      BY <1>2, <3>1 DEF Square, Counting
  <2>7. timer'.pending = FALSE
    BY <2>1, NoTimerIs
  <2> QED
    BY <1>2, <2>3, <2>4, <2>5, <2>6, <2>7, PaceStopped
<1> QED
  BY <1>4, <1>5

\* Where the output is at a count.
LEMMA LevelIs ==
    ASSUME NEW k \in Busy, NEW n \in Int
    PROVE  LET level == Level([k EXCEPT !.count = n])
           IN  /\ k.mode = 3 => level = (n > Half(k))
               /\ k.mode # 3 /\ n > 0 /\ (n > 1 \/ k.mode \notin {2, 4, 5}) => level = k.prev_out
               /\ k.mode # 3 /\ n = 1 /\ k.mode \in {2, 4, 5} => level = FALSE
               /\ k.mode # 3 /\ n <= 0 => level = TRUE
<1> DEFINE m == [k EXCEPT !.count = n]
<1>1. m.count = n /\ m.mode = k.mode /\ m.prev_out = k.prev_out /\ SameSetting(k, m)
  BY DEF Busy, SameSetting
<1> HIDE DEF m
<1>2. Half(m) = Half(k)
  BY <1>1, SameValue
<1>3. k.mode = 3 => Level(m) = (n > Half(k))
  BY <1>1, <1>2 DEF Level
<1>4. k.mode # 3 /\ n <= 0 => Level(m) = TRUE
  BY <1>1 DEF Level
<1>5. k.mode # 3 /\ n = 1 /\ k.mode \in {2, 4, 5} => Level(m) = FALSE
  BY <1>1 DEF Level
<1>6. k.mode # 3 /\ n > 0 /\ (n > 1 \/ k.mode \notin {2, 4, 5}) => Level(m) = k.prev_out
  <2>1. n > 0 => ~(n <= 0)
    OBVIOUS
  <2>2. n > 1 => n # 1
    OBVIOUS
  <2> QED
    BY <1>1, <2>1, <2>2 DEF Level
<1> QED
  BY <1>3, <1>4, <1>5, <1>6 DEF m

\* What latch_count() makes of the counter and its event.
LEMMA RefreshedIs ==
    ASSUME IInv, ~Due, Refreshes
    PROVE  LET input == InputPassed(timer.elapsed)
               k == Refreshed(counter[0])
               t == RefreshedTimer(k)
           IN  /\ input \in 1 .. timer.input_clk - 1 /\ timer.pending
               /\ timer.elapsed < timer.period
               /\ counter[0].start = TRUE /\ counter[0].delay = 0
               /\ k.start = TRUE /\ k.delay = 0
               /\ k.count = counter[0].count - input /\ counter[0].count >= timer.input_clk
               /\ k.prev_out = Level([counter[0] EXCEPT !.count = counter[0].count - input])
               /\ t.pending = TRUE /\ t.elapsed = 0
               /\ t.input_clk = timer.input_clk - input
               /\ t.period = timer.period - timer.elapsed
<1> DEFINE c == counter[0]
           k == Refreshed(c)
           input == InputPassed(timer.elapsed)
<1>1. Ready(c) /\ timer \in TimerType /\ Timed
  BY CountersAreWellFormed DEF IInv
<1>2. /\ input \in 1 .. timer.input_clk - 1
      /\ c.start /\ c.delay = 0 /\ c.count - timer.input_clk >= 0
      /\ k = CountDown(c, input)
      /\ RefreshedTimer(k) = [timer EXCEPT !.pending = TRUE, !.elapsed = 0,
                                           !.input_clk = @ - input, !.period = @ - timer.elapsed]
  BY RefreshIs
<1>3. /\ timer.elapsed \in Nat /\ timer.period \in Nat /\ timer.input_clk \in Nat
      /\ timer.id \in BOOLEAN /\ timer.pending \in BOOLEAN
  BY <1>1 DEF TimerType
<1>4. timer.pending = TRUE /\ timer.elapsed < timer.period
  BY <1>1, <1>3 DEF Refreshes, Timed, RunningHasEvent, Due
<1>5. /\ RefreshedTimer(k).pending = TRUE /\ RefreshedTimer(k).elapsed = 0
      /\ RefreshedTimer(k).input_clk = timer.input_clk - input
      /\ RefreshedTimer(k).period = timer.period - timer.elapsed
  BY <1>1, <1>2 DEF TimerType
<1> HIDE DEF input
<1>6. c \in Busy /\ c.count \in Int /\ c.start = TRUE
  BY <1>1, <1>2 DEF Ready, Busy
<1>7. c.count - input > 0 /\ input \in Nat /\ c.count >= timer.input_clk
  BY <1>2, <1>3, <1>6
<1>8. LET n == CountDown(c, input)
      IN  /\ n.delay = c.delay /\ n.count = CountAt(c, c.count - input)
          /\ n.start = StartAt(c, c.count - input) /\ n.prev_out = LevelAt(c, c.count - input)
  BY <1>6, <1>7, CountDownIs
<1>9. /\ CountAt(c, c.count - input) = c.count - input /\ StartAt(c, c.count - input) = TRUE
      /\ LevelAt(c, c.count - input) = Level([c EXCEPT !.count = c.count - input])
  BY <1>6, <1>7 DEF CountAt, StartAt, LevelAt
<1> HIDE DEF k
<1> QED
  BY <1>2, <1>4, <1>5, <1>6, <1>7, <1>8, <1>9 DEF k, input

\* Latching moves the count and the event together, over no change of the output.
LEMMA PaceRefreshed ==
    ASSUME IInv, Pace, ~Due, SameFate(Refreshed(counter[0]), counter'[0]), ideal' = ideal,
           timer' = RefreshedTimer(Refreshed(counter[0])), phase' = phase, rewritten' = rewritten
    PROVE  Pace'
<1> DEFINE c == counter[0]
           k == Refreshed(c)
           input == InputPassed(timer.elapsed)
<1>1. Ready(c) /\ Ready(ideal) /\ timer \in TimerType /\ InStep /\ SameOutput
  BY CountersAreWellFormed DEF IInv, Pace
<1>2. CASE ~Refreshes
  <2>1. k = c /\ timer' = timer
    BY <1>2, RefreshIs
  <2> QED
    BY <1>1, <2>1, SameFateSelf, PaceSame
<1>3. CASE Refreshes
  <2>1. /\ input \in 1 .. timer.input_clk - 1 /\ timer.pending /\ timer.elapsed < timer.period
        /\ c.start = TRUE /\ c.delay = 0 /\ k.start = TRUE /\ k.delay = 0
        /\ k.count = c.count - input /\ c.count >= timer.input_clk
        /\ k.prev_out = Level([c EXCEPT !.count = c.count - input])
        /\ timer'.pending = TRUE /\ timer'.elapsed = 0
        /\ timer'.input_clk = timer.input_clk - input
        /\ timer'.period = timer.period - timer.elapsed
    BY <1>3, RefreshedIs
  <2>2. timer.elapsed \in Nat /\ timer.period \in Nat /\ timer.input_clk \in Nat
    BY <1>1 DEF TimerType
  <2> HIDE DEF input
  <2>3. SameSetting(c, k)
    BY RefreshedIsReady
  <2> HIDE DEF k
  <2>4. /\ counter'[0].start = TRUE /\ counter'[0].delay = 0
        /\ counter'[0].count = c.count - input /\ counter'[0].prev_out = k.prev_out
        /\ SameSetting(c, counter'[0])
    BY <2>1, <2>3 DEF SameFate, SameSetting, SameCount, k
  <2>5. counter'[0].mode = c.mode /\ counter'[0].gate = c.gate /\ Half(counter'[0]) = Half(c)
    BY <2>4, SameValue DEF SameSetting
  <2>6. ClocksLeft' = ClocksLeft /\ ~Due'
        /\ timer'.period - timer'.elapsed = timer.period - timer.elapsed
    BY <2>1, <2>2 DEF ClocksLeft, Due
  <2>7. c.count \in Int /\ Half(c) \in Int /\ c \in Busy /\ input \in Int /\ c.mode \in 0 .. 5
    <3>1. c \in Busy
      BY <1>1 DEF Ready
    <3>2. Half(c) \in Int
      BY <3>1, CountValueInRange, FullIsPositive
    <3>3. c.count \in Int /\ c.mode \in 0 .. 5
      BY <3>1 DEF Busy
    <3>4. input \in Int
      BY <2>1
    <3> QED
      BY <3>1, <3>2, <3>3, <3>4
  <2>8. counter'[0].count - timer'.input_clk = c.count - timer.input_clk
    BY <2>1, <2>2, <2>4, <2>7
  <2>9. InStep'
    <3>1. SameSetting(counter'[0], ideal')
      BY <1>1, <2>4 DEF InStep, SameSetting
    <3>2. counter'[0].start /\ counter'[0].mode \notin {1, 5} => counter'[0].gate
      BY <1>1, <2>1, <2>5 DEF InStep
    <3>3. timer'.period - timer'.elapsed + phase' = Ratio * ClocksLeft'
      BY <1>1, <2>1, <2>6 DEF InStep
    <3>4. /\ ideal'.start = counter'[0].start /\ ideal'.delay = counter'[0].delay
          /\ counter'[0].count - timer'.input_clk = ideal'.count - ClocksLeft'
      BY <1>1, <2>1, <2>4, <2>6, <2>8 DEF InStep
    <3> QED
      BY <2>1, <2>4, <2>6, <3>1, <3>2, <3>3, <3>4 DEF InStep
  <2>10. Counting(c) /\ Counting(counter'[0])
    BY <2>1, <2>4 DEF Counting
  <2>11. NextChange'
    BY <1>1, <2>1, <2>2, <2>4, <2>5, <2>6, <2>7, <2>8, <2>10 DEF SameOutput, NextChange
  <2>12. /\ c.mode = 3 => k.prev_out = (c.count - input > Half(c))
         /\ c.mode # 3 /\ c.count - input > 0
               /\ (c.count - input > 1 \/ c.mode \notin {2, 4, 5}) => k.prev_out = c.prev_out
    <3>1. c.count - input \in Int
      BY <2>7
    <3> QED
      BY <2>1, <2>7, <3>1, LevelIs
  <2>13. Square(counter'[0])
    BY <2>4, <2>5, <2>10, <2>12 DEF Square
  <2>14. c.mode # 3 \/ ~rewritten => counter'[0].prev_out = c.prev_out
    <3>1. CASE c.mode \in {2, 4, 5}
      <4>1. c.count - timer.input_clk >= 1
        BY <1>1, <2>1, <2>2, <2>10, <3>1 DEF SameOutput, NextChange
      <4>2. c.count - input > 1
        BY <2>1, <2>2, <2>7, <4>1
      <4> QED
        BY <2>4, <2>7, <2>12, <3>1, <4>2
    <3>2. CASE c.mode \notin {2, 3, 4, 5}
      <4>1. c.count - input > 0
        BY <2>1, <2>2, <2>7
      <4> QED
        BY <2>4, <2>7, <2>12, <3>2, <4>1
    <3>3. CASE c.mode = 3 /\ ~rewritten
      <4>1. c.prev_out = (c.count > Half(c))
        BY <1>1, <2>10, <3>3 DEF SameOutput, Square
      <4>2. (c.count - input > Half(c)) <=> (c.count > Half(c))
        <5>1. c.count > Half(c) => c.count - timer.input_clk >= Half(c)
          BY <1>1, <2>10, <3>3 DEF SameOutput, NextChange
        <5> QED
          BY <2>1, <2>2, <2>7, <5>1
      <4> QED
        BY <2>4, <2>12, <3>3, <4>1, <4>2
    <3> QED
      BY <3>1, <3>2, <3>3
  <2>15. SameOutput'
    BY <1>1, <2>5, <2>6, <2>10, <2>11, <2>13, <2>14 DEF SameOutput
  <2> QED
    BY <2>9, <2>15 DEF Pace
<1> QED
  BY <1>2, <1>3

LEMMA LatchCommandPaces ==
    ASSUME IInv, Pace, NEW ch \in 0 .. 2, LatchCommand(ch)
    PROVE  Pace'
<1> DEFINE k == IF ch = 0 THEN Refreshed(counter[ch]) ELSE counter[ch]
           m == Latched(k)
<1>1. Typed /\ Ready(counter[ch]) /\ ~Due /\ Becomes(ch, m)
  BY CountersAreWellFormed DEF IInv, LatchCommand, ProgramRuns
<1>2. /\ timer' = IF ch = 0 THEN RefreshedTimer(k) ELSE timer
      /\ ideal' = ideal /\ phase' = phase /\ rewritten' = rewritten
  BY DEF LatchCommand
<1>3. Ready(k)
  BY <1>1, RefreshedIsReady
<1>4. Ready(m) /\ SameFate(k, m)
  BY <1>3, LatchedIs DEF SameFate
<1> HIDE DEF m
<1>5. CASE ch = 0
  <2>1. SameFate(m, counter'[0])
    BY <1>1, <1>4, <1>5, BecomesIs, SettledFate
  <2>2. SameFate(k, counter'[0])
    BY <1>4, <2>1 DEF SameFate, SameSetting, SameCount
  <2> QED
    BY <1>1, <1>2, <1>5, <2>2, PaceRefreshed
<1>6. CASE ch # 0
  <2>1. counter'[0] = counter[0]
    BY <1>1, <1>4, <1>6, BecomesIs
  <2> QED
    BY <1>1, <1>2, <1>6, <2>1, OthersPace
<1> QED
  BY <1>5, <1>6

LEMMA ReadCountPaces ==
    ASSUME IInv, Pace, NEW ch \in 0 .. 2, ReadCount(ch)
    PROVE  Pace'
<1> DEFINE c == counter[ch]
           k == IF ch = 0 /\ Latches(c) THEN Refreshed(c) ELSE c
           m == ByteRead(IF Latches(c) THEN Latched(k) ELSE k)
<1>1. Typed /\ Ready(c) /\ ~Due /\ Becomes(ch, m)
  BY CountersAreWellFormed DEF IInv, ReadCount, ProgramRuns, Latches
<1>2. /\ timer' = IF ch = 0 /\ Latches(c) THEN RefreshedTimer(k) ELSE timer
      /\ ideal' = ideal /\ phase' = phase /\ rewritten' = rewritten
  BY DEF ReadCount, Latches
<1>3. Ready(k)
  BY <1>1, RefreshedIsReady
<1>4. Ready(m) /\ SameFate(k, m)
  <2>1. CASE Latches(c)
    <3>1. Ready(Latched(k)) /\ SameFate(k, Latched(k))
      BY <1>3, LatchedIs DEF SameFate
    <3>2. m = ByteRead(Latched(k))
      BY <2>1
    <3> HIDE DEF m
    <3>3. Ready(m) /\ SameFate(Latched(k), m)
      BY <3>1, <3>2, ByteReadIs DEF SameFate
    <3> QED
      BY <3>1, <3>3 DEF SameFate, SameSetting, SameCount
  <2>2. CASE ~Latches(c)
    <3>1. m = ByteRead(k)
      BY <2>2
    <3> HIDE DEF m
    <3> QED
      BY <1>3, <3>1, ByteReadIs DEF SameFate
  <2> QED
    BY <2>1, <2>2
<1> HIDE DEF m
<1>5. CASE ch = 0
  <2>1. SameFate(m, counter'[0])
    BY <1>1, <1>4, <1>5, BecomesIs, SettledFate
  <2>2. SameFate(k, counter'[0])
    BY <1>4, <2>1 DEF SameFate, SameSetting, SameCount
  <2>3. CASE Latches(c)
    BY <1>1, <1>2, <1>5, <2>2, <2>3, PaceRefreshed
  <2>4. CASE ~Latches(c)
    BY <1>1, <1>2, <1>5, <2>2, <2>4, SameFateSelf, PaceSame
  <2> QED
    BY <2>3, <2>4
<1>6. CASE ch # 0
  <2>1. counter'[0] = counter[0]
    BY <1>1, <1>4, <1>6, BecomesIs
  <2> QED
    BY <1>1, <1>2, <1>6, <2>1, OthersPace
<1> QED
  BY <1>5, <1>6

LEMMA BlankPaces ==
    ASSUME IInv, Pace, Blank
    PROVE  Pace'
<1> DEFINE level == ~counter[1].prev_in
           k == ClockSignal(counter[1], level)
<1>1. Typed /\ Ready(counter[1])
  BY CountersAreWellFormed DEF IInv
<1>2. level \in BOOLEAN
  OBVIOUS
<1> HIDE DEF level
<1>3. Ready(k)
  BY <1>1, <1>2, ClockSignalIs
<1>4. /\ Becomes(1, k) /\ timer' = timer /\ ideal' = ideal /\ phase' = phase
      /\ rewritten' = rewritten
  BY DEF Blank, level
<1>5. counter'[0] = counter[0]
  BY <1>1, <1>3, <1>4, BecomesIs
<1> QED
  BY <1>4, <1>5, OthersPace

LEMMA WriteGatePaces ==
    ASSUME IInv, Pace, NEW signal \in Signals, WriteGate(signal)
    PROVE  Pace'
<1> DEFINE c == counter[0]
           k == GateChanged(c, signal)
           falls == Falls(c, signal) /\ c.mode \notin {1, 5}
           rises == Rises(c, signal)
           other == IF falls THEN IdealSetBack ELSE ideal
           m == GateChanged(other, signal)
<1>1. /\ Typed /\ Timed /\ Ready(c) /\ timer \in TimerType /\ Ready(ideal) /\ ~Due
      /\ InStep /\ SameOutput
  BY CountersAreWellFormed DEF IInv, Pace, WriteGate, ProgramRuns
<1>2. /\ Becomes(0, k)
      /\ timer' = IF rises /\ k.start THEN Schedule(k)
                  ELSE IF rises \/ falls THEN NoTimer ELSE timer
      /\ ideal' = Settled(m)
      /\ phase' = IF rises \/ falls THEN 0 ELSE phase
      /\ rewritten' = (rewritten /\ ~rises /\ ~falls)
  BY DEF WriteGate, IdealBecomes, Falls, Rises
<1>3. /\ Ready(other) /\ SameSetting(c, other)
      /\ other.start = c.start /\ other.delay = c.delay /\ other.prev_out = ideal.prev_out
      /\ other.count = IF falls THEN c.count ELSE ideal.count
  <2>1. /\ Ready(IdealSetBack) /\ SameSetting(ideal, IdealSetBack)
        /\ IdealSetBack.start = ideal.start /\ IdealSetBack.delay = ideal.delay
        /\ IdealSetBack.prev_out = ideal.prev_out /\ IdealSetBack.count = c.count
    BY <1>1 DEF IdealSetBack, Ready, Busy, BytesInOrder, SameSetting
  <2>2. SameSetting(c, ideal) /\ ideal.start = c.start /\ ideal.delay = c.delay
    BY <1>1, RunTogether DEF InStep
  <2>3. SameSetting(c, IdealSetBack)
    BY <2>1, <2>2 DEF SameSetting
  <2> QED
    BY <1>1, <2>1, <2>2, <2>3
<1> HIDE DEF other
<1>4. /\ Ready(k) /\ k.gate = signal /\ k.count = c.count
      /\ k.mode = c.mode /\ k.access = c.access /\ k.count_reg = c.count_reg
      /\ k.prev_in = c.prev_in /\ k.low_write = c.low_write /\ k.high_write = c.high_write
      /\ k.delay = GateDelay(c, signal) /\ k.start = GateStart(c, k, signal)
      /\ k.prev_out = GateLevel(c, signal)
  <2>1. Ready(c)
    BY <1>1
  <2> HIDE DEF c
  <2> QED
    BY <2>1, GateChangedIs
<1>5. /\ Ready(m) /\ m.gate = signal /\ m.count = other.count
      /\ m.mode = other.mode /\ m.access = other.access /\ m.count_reg = other.count_reg
      /\ m.prev_in = other.prev_in
      /\ m.low_write = other.low_write /\ m.high_write = other.high_write
      /\ m.delay = GateDelay(other, signal) /\ m.start = GateStart(other, m, signal)
      /\ m.prev_out = GateLevel(other, signal)
  BY <1>3, GateChangedIs
<1>6. SameFate(k, counter'[0]) /\ SameFate(m, ideal')
  <2>1. counter'[0] = Settled(k)
    BY <1>1, <1>2, <1>4, BecomesIs
  <2> QED
    BY <1>2, <1>4, <1>5, <2>1, SettledFate
<1> HIDE DEF k, m
<1>7. SameSetting(k, m)
  BY <1>3, <1>4, <1>5 DEF SameSetting
<1>8. other.gate = c.gate /\ other.mode = c.mode
  BY <1>3 DEF SameSetting
<1>9. m.delay = k.delay
  BY <1>3, <1>4, <1>5, <1>8 DEF GateDelay, Rises
<1>10. /\ Falls(other, signal) = Falls(c, signal) /\ Rises(other, signal) = Rises(c, signal)
       /\ Starts(m) = Starts(k)
  BY <1>7, <1>8 DEF Falls, Rises, Starts, SameSetting
<1>11. m.start = k.start
  BY <1>3, <1>4, <1>5, <1>8, <1>10 DEF GateStart
<1>12. k.start \in BOOLEAN /\ c.start \in BOOLEAN /\ c.gate \in BOOLEAN
  BY <1>1, <1>4 DEF Ready, Busy
<1>13. CASE ~rises /\ ~falls
  <2>1. timer' = timer /\ phase' = phase /\ rewritten' = rewritten
    <3>1. rewritten \in BOOLEAN
      BY <1>1 DEF Typed, TypeOK
    <3> QED
      BY <1>2, <1>13, <3>1
  <2>0. Falls(c, signal) => c.mode \notin {0, 2, 3, 4}
    BY <1>13
  <2>2. k.start = c.start /\ k.delay = c.delay /\ k.prev_out = c.prev_out
    <3>1. k.start = c.start
      BY <1>4, <1>12, <1>13 DEF GateStart
    <3>2. k.delay = c.delay
      BY <1>4, <1>13 DEF GateDelay
    <3>3. GateLevel(c, signal) = c.prev_out
      BY <1>13, <2>0 DEF GateLevel
    <3> QED
      BY <1>4, <3>1, <3>2, <3>3
  <2>3. m.start = ideal.start /\ m.delay = ideal.delay /\ m.count = ideal.count
    BY <1>1, <1>3, <1>5, <1>9, <1>11, <1>13, <2>2, RunTogether
  <2>4. m.prev_out = ideal.prev_out /\ m.mode = ideal.mode /\ m.count_reg = ideal.count_reg
    <3>1. m.prev_out = other.prev_out
      <4>1. GateLevel(other, signal) = other.prev_out
        BY <1>8, <1>10, <1>13, <2>0 DEF GateLevel
      <4> QED
        BY <1>5, <4>1
    <3>2. ideal.mode = c.mode /\ ideal.count_reg = c.count_reg
      BY <1>1 DEF InStep, SameSetting
    <3> QED
      BY <1>3, <1>4, <1>7, <3>1, <3>2 DEF SameSetting
  <2>5. SameShape(c, counter'[0]) /\ SameShape(ideal, ideal')
    BY <1>4, <1>6, <2>2, <2>3, <2>4 DEF SameFate, SameShape, SameSetting, SameCount
  <2>6. SameSetting(counter'[0], ideal')
    BY <1>6, <1>7 DEF SameFate, SameSetting
  <2>7. counter'[0].start /\ counter'[0].mode \notin {1, 5} => counter'[0].gate
    <3>1. k.start /\ k.mode \notin {1, 5} => k.gate
      BY <1>1, <1>4, <1>12, <1>13, <2>2 DEF InStep, Falls
    <3> QED
      BY <1>6, <3>1 DEF SameFate, SameSetting, SameCount
  <2> QED
    BY <1>1, <2>1, <2>5, <2>6, <2>7, PaceUnchanged
<1>14. CASE falls
  <2>1. k.start = FALSE
    BY <1>4, <1>12, <1>14 DEF GateStart, Falls, Rises
  <2>2. SameRun(k, m)
    BY <1>3, <1>4, <1>5, <1>9, <1>11, <1>14 DEF SameRun
  <2>3. CASE c.mode \in {2, 3}
    <3>1. k.prev_out = TRUE /\ m.prev_out = TRUE
      BY <1>4, <1>5, <1>8, <1>10, <1>14, <2>3 DEF GateLevel
    <3>2. Square(k)
      BY <2>1, <3>1 DEF Square, Counting
    <3>3. timer'.pending = FALSE
      BY <1>2, <1>14, NoTimerIs DEF Falls, Rises
    <3> QED
      BY <1>4, <1>5, <1>6, <1>7, <2>1, <2>2, <3>1, <3>2, <3>3, PaceStopped
  <2>4. CASE c.mode \notin {2, 3}
    <3>1. k.prev_out = c.prev_out /\ m.prev_out = ideal.prev_out
      BY <1>3, <1>4, <1>5, <1>8, <1>10, <1>14, <2>4 DEF GateLevel, Falls, Rises
    <3>2. ideal.prev_out = c.prev_out
      BY <1>1, <2>4 DEF SameOutput
    <3>3. Square(k)
      BY <1>4, <2>4 DEF Square
    <3>4. timer'.pending = FALSE
      BY <1>2, <1>14, NoTimerIs DEF Falls, Rises
    <3> QED
      BY <1>4, <1>5, <1>6, <1>7, <2>1, <2>2, <3>1, <3>2, <3>3, <3>4, PaceStopped
  <2> QED
    BY <2>3, <2>4
<1>15. CASE rises
  <2>1. k.start = Starts(k) /\ k.gate = TRUE /\ ~falls /\ ~c.gate
    BY <1>4, <1>12, <1>15 DEF GateStart, Falls, Rises, Signals
  <2>2. c.mode \notin {1, 5} => ~c.start
    BY <1>1, <2>1 DEF InStep
  <2>3. SameRun(k, m)
    <3>1. CASE c.mode \in {0, 4}
      <4>1. k.delay = c.delay /\ SameRun(c, ideal)
        BY <1>1, <1>4, <2>2, <3>1, RunTogether DEF GateDelay
      <4> QED
        BY <1>3, <1>4, <1>5, <1>9, <1>11, <2>1, <4>1 DEF SameRun
    <3>2. CASE c.mode \notin {0, 4}
      <4>1. k.delay = 1
        BY <1>4, <1>15, <3>2 DEF GateDelay
      <4> QED
        BY <1>9, <1>11, <4>1 DEF SameRun
    <3> QED
      BY <3>1, <3>2
  <2>4. c.mode = 3 => c.prev_out = TRUE /\ ideal.prev_out = TRUE
    <3>1. SUFFICES ASSUME c.mode = 3 PROVE c.prev_out = TRUE /\ ideal.prev_out = TRUE
      OBVIOUS
    <3>2. ~Counting(c) /\ ~Counting(ideal) /\ ideal.mode = 3
      BY <1>1, <1>3, <2>2, <3>1, RunTogether DEF Counting, InStep, SameSetting
    <3> QED
      BY <1>1, <3>1, <3>2 DEF SameOutput, Square
  <2>5. m.prev_out = k.prev_out
    <3>1. CASE c.mode = 1
      BY <1>4, <1>5, <1>8, <1>10, <1>15, <2>1, <3>1 DEF GateLevel
    <3>2. CASE c.mode # 1
      <4>1. k.prev_out = c.prev_out /\ m.prev_out = ideal.prev_out
        BY <1>3, <1>4, <1>5, <1>8, <1>10, <2>1, <3>2 DEF GateLevel, Falls
      <4>2. ideal.prev_out = c.prev_out
        BY <1>1, <2>4 DEF SameOutput
      <4> QED
        BY <4>1, <4>2
    <3> QED
      BY <3>1, <3>2
  <2>6. Square(k)
    <3>1. k.mode = 3 => k.delay = 1 /\ k.prev_out = c.prev_out
      BY <1>4, <1>15, <2>1 DEF GateDelay, GateLevel, Falls
    <3> QED
      BY <1>4, <2>4, <3>1 DEF Square, Counting
  <2>7. CASE k.start
    <3>1. timer' = Schedule(k) /\ phase' = 0 /\ k.start = TRUE
      BY <1>2, <1>12, <1>15, <2>7
    <3> QED
      BY <1>4, <1>5, <1>6, <1>7, <2>1, <2>3, <2>5, <2>6, <3>1, PaceScheduled
  <2>8. CASE ~k.start
    <3>1. timer'.pending = FALSE /\ k.start = FALSE
      BY <1>2, <1>12, <1>15, <2>8, NoTimerIs
    <3> QED
      BY <1>4, <1>5, <1>6, <1>7, <2>3, <2>5, <2>6, <3>1, PaceStopped
  <2> QED
    BY <2>7, <2>8
<1> QED
  BY <1>13, <1>14, <1>15

\* Where the output goes does not depend on where it was, in mode 3.
LEMMA LevelSame ==
    ASSUME NEW k, NEW m, SameSetting(k, m), m.count = k.count,
           k.mode = 3 \/ m.prev_out = k.prev_out
    PROVE  Level(m) = Level(k)
<1>1. Half(m) = Half(k) /\ m.mode = k.mode
  BY SameValue DEF SameSetting
<1> QED
  BY <1>1 DEF Level

LEMMA LevelAtSame ==
    ASSUME NEW k \in Busy, NEW m \in Busy, SameSetting(k, m), NEW rest,
           k.mode = 3 \/ m.prev_out = k.prev_out
    PROVE  LevelAt(m, rest) = LevelAt(k, rest)
<1> DEFINE kr == [k EXCEPT !.count = rest]
           mr == [m EXCEPT !.count = rest]
<1>1. COUNT_VALUE(m) = COUNT_VALUE(k) /\ m.mode = k.mode
  BY SameValue DEF SameSetting
<1>2. /\ SameSetting(kr, mr) /\ mr.count = kr.count /\ kr.mode = k.mode
      /\ mr.prev_out = m.prev_out /\ kr.prev_out = k.prev_out
  BY DEF Busy, SameSetting
<1> HIDE DEF kr, mr
<1>3. Level(mr) = Level(kr)
  BY <1>2, LevelSame
<1> DEFINE kl == [k EXCEPT !.count = COUNT_VALUE(k), !.prev_out = Level(kr)]
           ml == [m EXCEPT !.count = COUNT_VALUE(m), !.prev_out = Level(mr)]
<1>4. SameSetting(kl, ml) /\ ml.count = kl.count /\ ml.prev_out = kl.prev_out
  BY <1>1, <1>3 DEF Busy, SameSetting
<1> HIDE DEF kl, ml
<1>5. Level(ml) = Level(kl)
  BY <1>4, LevelSame
<1> QED
  BY <1>1, <1>3, <1>5 DEF LevelAt, kr, mr, kl, ml

\* A running counter with no delay counts down.
LEMMA CountingClockIs ==
    ASSUME NEW k, Ready(k), k.start = TRUE, k.delay = 0,
           NEW clock \in Nat, clock > 0, k.count - clock >= 0
    PROVE  LET m == InputClock(k, clock)
               rest == k.count - clock
           IN  /\ Ready(m) /\ SameSetting(k, m) /\ m.delay = 0
               /\ m.count = CountAt(k, rest) /\ m.start = StartAt(k, rest)
               /\ m.prev_out = LevelAt(k, rest)
<1>1. InputClock(k, clock) = CountDown(k, clock)
  BY DEF InputClock
<1>2. k \in Busy /\ clock \in Clocks(k) /\ k.count \in 1 .. Full + 1
  BY FullIsPositive DEF Ready, Clocks
<1>3. /\ InputClock(k, clock) \in Busy /\ SameSetting(k, InputClock(k, clock))
      /\ InputClock(k, clock).count \in 1 .. Full + 1
  BY <1>2, InputClockIs
<1>4. Ready(InputClock(k, clock))
  BY <1>3, CountedIsReady
<1>5. LET m == CountDown(k, clock)
      IN  /\ m.delay = k.delay /\ m.count = CountAt(k, k.count - clock)
          /\ m.start = StartAt(k, k.count - clock) /\ m.prev_out = LevelAt(k, k.count - clock)
  BY <1>2, CountDownIs
<1> QED
  BY <1>1, <1>3, <1>4, <1>5

\* Counters that get to the same count run alike from there.
LEMMA CountedAlike ==
    ASSUME NEW k, NEW m, Ready(k), Ready(m), SameSetting(k, m),
           k.start = TRUE, m.start = TRUE, k.delay = 0, m.delay = 0,
           NEW a \in Nat, NEW b \in Nat, a > 0, b > 0,
           k.count - a = m.count - b, k.count - a >= 0,
           k.mode = 3 \/ m.prev_out = k.prev_out
    PROVE  /\ SameRun(InputClock(k, a), InputClock(m, b))
           /\ InputClock(m, b).prev_out = InputClock(k, a).prev_out
<1> DEFINE rest == k.count - a
<1>1. /\ InputClock(k, a).delay = 0 /\ InputClock(k, a).count = CountAt(k, rest)
      /\ InputClock(k, a).start = StartAt(k, rest)
      /\ InputClock(k, a).prev_out = LevelAt(k, rest)
  BY CountingClockIs
<1>2. /\ InputClock(m, b).delay = 0 /\ InputClock(m, b).count = CountAt(m, rest)
      /\ InputClock(m, b).start = StartAt(m, rest)
      /\ InputClock(m, b).prev_out = LevelAt(m, rest)
  BY CountingClockIs
<1> HIDE DEF rest
<1>3. LevelAt(m, rest) = LevelAt(k, rest)
  BY LevelAtSame DEF Ready
<1>4. COUNT_VALUE(m) = COUNT_VALUE(k) /\ m.mode = k.mode
  BY SameValue DEF SameSetting
<1>5. CountAt(m, rest) = CountAt(k, rest) /\ StartAt(m, rest) = StartAt(k, rest)
  BY <1>4 DEF CountAt, StartAt
<1> QED
  BY <1>1, <1>2, <1>3, <1>5 DEF SameRun

\* So do counters with the same delay.
LEMMA DelayedAlike ==
    ASSUME NEW k, NEW m, Ready(k), Ready(m), SameSetting(k, m),
           k.start = TRUE, m.start = TRUE, k.delay > 0, m.delay = k.delay
    PROVE  SameRun(InputClock(k, 1), InputClock(m, 1))
<1>1. k \in Busy /\ m \in Busy /\ COUNT_VALUE(m) = COUNT_VALUE(k) /\ k.delay \in 0 .. 2
  BY SameValue DEF Ready, Busy
<1>2. LET n == InputClock(k, 1)
      IN  /\ n.delay = k.delay - 1 /\ n.start = k.start
          /\ n.count = IF k.delay = 1 THEN COUNT_VALUE(k) ELSE k.count
          /\ n.prev_out = k.prev_out
  BY <1>1, DelayedClockIs
<1>3. LET n == InputClock(m, 1)
      IN  /\ n.delay = m.delay - 1 /\ n.start = m.start
          /\ n.count = IF m.delay = 1 THEN COUNT_VALUE(m) ELSE m.count
          /\ n.prev_out = m.prev_out
  BY <1>1, DelayedClockIs
<1>4. k.delay - 1 = 0 => k.delay = 1
  BY <1>1
<1> DEFINE kn == InputClock(k, 1)
           mn == InputClock(m, 1)
<1>5. mn.start = kn.start /\ mn.delay = kn.delay
  BY <1>2, <1>3
<1>6. kn.delay = 0 => mn.count = kn.count
  BY <1>1, <1>2, <1>3, <1>4
<1> QED
  BY <1>5, <1>6 DEF SameRun

\* A clock in mode 3 leaves the output where the count puts it.
LEMMA SquareCounted ==
    ASSUME NEW k, Ready(k), k.start = TRUE, NEW clock \in Nat, clock > 0, clock \in Clocks(k),
           k.delay > 0 => Square(k)
    PROVE  Square(InputClock(k, clock))
<1> DEFINE m == InputClock(k, clock)
<1> SUFFICES Square(m)
  OBVIOUS
<1>1. k \in Busy /\ k.delay \in 0 .. 2 /\ k.count \in Int
  BY DEF Ready, Busy
<1>2. Half(k) \in 0 .. COUNT_VALUE(k) - 1 /\ COUNT_VALUE(k) \in 1 .. Full + 1
  BY <1>1, CountValueInRange
<1>3. /\ COUNT_VALUE(k) > Half(k) /\ ~(COUNT_VALUE(k) <= 0)
      /\ Half(k) \in Int /\ COUNT_VALUE(k) \in Int
  BY <1>2, FullIsPositive
<1>4. k.mode # 3 => Square(m)
  <2>1. m.mode = k.mode
    BY <1>1, InputClockIs DEF Ready, SameSetting
  <2> HIDE DEF m
  <2> QED
    BY <2>1 DEF Square
<1>5. CASE k.mode = 3 /\ k.delay > 0
  <2>1. clock = 1
    BY <1>5 DEF Clocks
  <2>2. LET n == InputClock(k, 1)
        IN  /\ SameSetting(k, n) /\ n.delay = k.delay - 1
            /\ n.count = IF k.delay = 1 THEN COUNT_VALUE(k) ELSE k.count
            /\ n.prev_out = k.prev_out
    BY <1>1, <1>5, DelayedClockIs
  <2>3. k.prev_out = TRUE
    BY <1>5 DEF Square, Counting
  <2>4. m = InputClock(k, 1)
    BY <2>1
  <2> HIDE DEF m
  <2>5. Half(m) = Half(k)
    BY <2>2, <2>4, SameValue
  <2>6. CASE k.delay = 1
    <3>1. m.count = COUNT_VALUE(k) /\ m.prev_out = TRUE
      BY <2>2, <2>3, <2>4, <2>6
    <3>2. (m.count > Half(m)) = TRUE
      BY <1>3, <2>5, <3>1
    <3> QED
      BY <3>1, <3>2 DEF Square
  <2>7. CASE k.delay # 1
    <3>1. m.delay # 0 /\ m.prev_out = TRUE
      BY <1>1, <1>5, <2>2, <2>3, <2>4, <2>7
    <3> QED
      BY <3>1 DEF Square, Counting
  <2> QED
    BY <2>6, <2>7
<1>6. CASE k.mode = 3 /\ ~(k.delay > 0)
  <2> DEFINE rest == k.count - clock
  <2>1. k.delay = 0 /\ clock \in 0 .. k.count
    BY <1>1, <1>6 DEF Clocks
  <2>2. rest \in Int /\ rest >= 0
    BY <1>1, <2>1
  <2>3. /\ SameSetting(k, m) /\ m.delay = 0 /\ m.start = StartAt(k, rest)
        /\ m.count = CountAt(k, rest) /\ m.prev_out = LevelAt(k, rest)
    BY <2>1, <2>2, CountingClockIs
  <2> HIDE DEF m, rest
  <2>4. Half(m) = Half(k) /\ m.start = TRUE
    BY <1>6, <2>3, SameValue DEF StartAt
  <2>5. Counting(m)
    BY <2>3, <2>4 DEF Counting
  <2>6. CASE rest > 0
    <3>1. m.count = rest /\ LevelAt(k, rest) = (rest > Half(k))
      BY <1>1, <1>6, <2>2, <2>3, <2>6, LevelIs DEF CountAt, LevelAt
    <3> QED
      BY <2>3, <2>4, <2>5, <3>1 DEF Square
  <2>7. CASE ~(rest > 0)
    <3> DEFINE atRest == Level([k EXCEPT !.count = rest])
               loaded == [k EXCEPT !.count = COUNT_VALUE(k), !.prev_out = atRest]
    <3>1. m.count = COUNT_VALUE(k) /\ LevelAt(k, rest) = Level(loaded)
      BY <1>6, <2>3, <2>7 DEF CountAt, LevelAt
    <3> HIDE DEF atRest
    <3>2. loaded.count = COUNT_VALUE(k) /\ loaded.mode = 3 /\ SameSetting(k, loaded)
      BY <1>1, <1>6 DEF Busy, SameSetting
    <3> HIDE DEF loaded
    <3>3. Half(loaded) = Half(k)
      BY <3>2, SameValue
    <3>4. Level(loaded) = (COUNT_VALUE(k) > Half(k))
      BY <3>2, <3>3 DEF Level
    <3> QED
      BY <2>3, <2>4, <2>5, <3>1, <3>4 DEF Square
  <2> QED
    BY <2>6, <2>7
<1> QED
  BY <1>1, <1>4, <1>5, <1>6

\* The clocks left, while the event is registered.
LEMMA TimeLeft ==
    ASSUME IInv, InStep, timer.pending
    PROVE  /\ timer.period \in Nat /\ timer.elapsed \in Nat /\ timer.period - timer.elapsed \in Nat
           /\ ClocksLeft \in Nat /\ phase \in 0 .. Ratio - 1
           /\ timer.period - timer.elapsed + phase = Ratio * ClocksLeft
<1>1. timer \in TimerType /\ phase \in 0 .. Ratio - 1
  BY CountersAreWellFormed DEF IInv, Typed, TypeOK
<1>2. timer.period \in Nat /\ timer.elapsed \in Nat /\ timer.period - timer.elapsed \in Nat
  BY <1>1 DEF IInv, Timed, TimerType
<1> DEFINE n == timer.period - timer.elapsed + Ratio - 1
<1>3. n \in Nat
  BY <1>2, Rates
<1>4. n \div Ratio \in Nat
  <2> HIDE DEF n
  <2> QED
    BY <1>3, Rates, Division
<1> QED
  BY <1>1, <1>2, <1>4 DEF ClocksLeft, InStep

LEMMA EventCallbackPaces ==
    ASSUME IInv, Pace, EventCallback
    PROVE  Pace'
<1> DEFINE c == counter[0]
           k == InputClock(c, timer.input_clk)
<1>1. /\ Typed /\ Timed /\ Ready(c) /\ Ready(ideal) /\ timer \in TimerType
      /\ InStep /\ SameOutput
  BY CountersAreWellFormed DEF IInv, Pace
<1>2. /\ Due /\ timer.pending /\ Becomes(0, k)
      /\ timer' = IF k.start THEN Schedule(k) ELSE NoTimer
      /\ ideal' = ideal /\ phase' = phase
  BY DEF EventCallback, Due
<1>3. timer.input_clk \in Nat /\ timer.input_clk > 0 /\ timer.input_clk \in Clocks(c)
  <2>1. timer.input_clk \in Nat /\ timer.input_clk \in Clocks(c)
    BY <1>2, EventClocks
  <2>2. c.delay \in 0 .. 2 /\ c.count \in Int
    BY <1>1 DEF Ready, Busy
  <2>3. CASE c.delay = 0
    BY <1>1, <1>2, <2>1, <2>2, <2>3 DEF Timed, RunningHasEvent
  <2>4. CASE c.delay > 0
    BY <1>1, <1>2, <2>1, <2>4 DEF Timed
  <2> QED
    BY <2>1, <2>2, <2>3, <2>4
<1>4. c.start = TRUE
  <2>1. c.start \in BOOLEAN
    BY <1>1 DEF Ready, Busy
  <2> QED
    BY <1>1, <1>2, <2>1 DEF Timed, RunningHasEvent
<1>5. Ready(k) /\ SameSetting(c, k) /\ k.start \in BOOLEAN
  <2>1. /\ k \in Busy /\ SameSetting(c, k) /\ k.count \in 1 .. Full + 1
    BY <1>1, <1>3, InputClockIs DEF Ready
  <2> QED
    BY <1>1, <2>1, CountedIsReady DEF Busy
<1>6. phase' = 0
  <2>1. /\ timer.period - timer.elapsed \in Nat /\ timer.period \in Nat /\ timer.elapsed \in Nat
        /\ phase \in 0 .. Ratio - 1
        /\ timer.period - timer.elapsed + phase = Ratio * ClocksLeft
    BY <1>1, <1>2, TimeLeft
  <2>2. timer.period - timer.elapsed = 0
    BY <1>2, <2>1 DEF Due
  <2>3. (Ratio - 1) \div Ratio = 0
    <3>1. Ratio - 1 = Ratio * 0 + (Ratio - 1) /\ Ratio - 1 \in Nat /\ Ratio - 1 < Ratio
      BY Rates
    <3> QED
      BY <3>1, Rates, Quotient
  <2>4. timer.period - timer.elapsed + Ratio - 1 = Ratio - 1
    BY <2>1, <2>2, Rates
  <2>5. ClocksLeft = 0
    BY <2>3, <2>4 DEF ClocksLeft
  <2>6. Ratio * 0 = 0
    BY Rates
  <2> QED
    BY <1>2, <2>1, <2>2, <2>5, <2>6
<1>7. SameRun(k, ideal) /\ ideal.prev_out = k.prev_out
  BY <1>1, <1>2 DEF InStep, SameOutput, AtEvent
<1>8. Square(k)
  <2>1. c.delay > 0 => Square(c)
    BY <1>1 DEF SameOutput, Counting
  <2> QED
    BY <1>1, <1>3, <1>4, <2>1, SquareCounted
<1> HIDE DEF k
<1>9. SameSetting(k, ideal)
  BY <1>1, <1>5 DEF InStep, SameSetting
<1>10. k.mode \notin {1, 5} => k.gate
  BY <1>1, <1>4, <1>5 DEF InStep, SameSetting
<1>11. SameFate(k, counter'[0]) /\ SameFate(ideal, ideal')
  <2>1. counter'[0] = Settled(k)
    BY <1>1, <1>2, <1>5, BecomesIs
  <2> QED
    BY <1>2, <1>5, <2>1, SettledFate, SameFateSelf
<1>12. CASE k.start
  <2>1. timer' = Schedule(k) /\ k.start = TRUE
    BY <1>2, <1>5, <1>12
  <2> QED
    BY <1>1, <1>5, <1>6, <1>7, <1>8, <1>9, <1>10, <1>11, <2>1, PaceScheduled
<1>13. CASE ~k.start
  <2>1. timer'.pending = FALSE /\ k.start = FALSE
    BY <1>2, <1>5, <1>13, NoTimerIs
  <2> QED
    BY <1>1, <1>5, <1>7, <1>8, <1>9, <1>11, <2>1, PaceStopped
<1> QED
  BY <1>12, <1>13

\* A CPU clock that ends no clock of the counter.
LEMMA WaitPaces ==
    ASSUME IInv, Pace, Tick, phase + 1 # Ratio
    PROVE  Pace'
<1>1. InStep /\ SameOutput /\ timer \in TimerType
  BY CountersAreWellFormed DEF IInv, Pace
<1>2. /\ timer.pending /\ ~Due /\ counter' = counter /\ rewritten' = rewritten
      /\ timer' = [timer EXCEPT !.elapsed = @ + 1] /\ phase' = phase + 1 /\ ideal' = ideal
  BY DEF Tick
<1> DEFINE time == timer.period - timer.elapsed
           clocks == ClocksLeft
<1>3. /\ timer.period \in Nat /\ timer.elapsed \in Nat /\ time \in Nat
      /\ clocks \in Nat /\ phase \in 0 .. Ratio - 1 /\ time + phase = Ratio * clocks
  BY <1>1, <1>2, TimeLeft
<1>4. /\ timer'.elapsed = timer.elapsed + 1 /\ timer'.period = timer.period
      /\ timer'.input_clk = timer.input_clk /\ timer'.pending = timer.pending
  BY <1>1, <1>2 DEF TimerType
<1>5. time > 0
  BY <1>2, <1>3 DEF Due
<1>6. Ratio \in Nat /\ Ratio >= 1 /\ phase' \in 0 .. Ratio - 1 /\ phase' \in Nat
  <2>1. phase \in 0 .. Ratio - 1 /\ phase' = phase + 1
    BY <1>2, <1>3
  <2> QED
    BY <2>1, Rates
<1>7. timer'.period - timer'.elapsed = time - 1 /\ time - 1 \in Nat
  BY <1>3, <1>4, <1>5
<1> HIDE DEF time, clocks
<1>8. time - 1 + phase' = Ratio * clocks
  <2>1. Ratio * clocks \in Nat
    BY <1>3, <1>6, SMT
  <2> QED
    BY <1>2, <1>3, <1>6, <2>1
<1>9. ClocksLeft' = clocks
  <2>1. (time - 1 + Ratio - 1) \div Ratio = clocks
    BY <1>3, <1>6, <1>7, <1>8, ClocksLeftIs
  <2> QED
    BY <1>7, <2>1 DEF ClocksLeft
<1>10. ~Due'
  <2>1. SUFFICES ASSUME time - 1 = 0 PROVE FALSE
    BY <1>3, <1>4, <1>7 DEF Due
  <2>2. phase' = Ratio * clocks /\ phase' >= 1
    BY <1>2, <1>3, <1>6, <1>8, <2>1
  <2>3. clocks # 0
    BY <1>6, <2>2
  <2>4. Ratio * 1 <= Ratio * clocks /\ Ratio * 1 = Ratio /\ Ratio * clocks \in Int
    BY <1>3, <1>6, <2>3, Monotone
  <2> QED
    BY <1>6, <2>2, <2>4
<1>11. InStep'
  BY <1>1, <1>2, <1>4, <1>7, <1>8, <1>9, <1>10 DEF InStep, clocks
<1>12. NextChange'
  BY <1>1, <1>2, <1>4, <1>9 DEF SameOutput, NextChange, clocks
<1>13. SameOutput'
  BY <1>1, <1>2, <1>10, <1>12 DEF SameOutput
<1> QED
  BY <1>11, <1>13 DEF Pace

\* The clock with which the event comes due: both counters have counted the same.
LEMMA LastClockPaces ==
    ASSUME IInv, Pace, Tick, phase + 1 = Ratio, ClocksLeft = 1
    PROVE  Pace'
<1> DEFINE c == counter[0]
           m == InputClock(ideal, 1)
<1>1. /\ InStep /\ SameOutput /\ timer \in TimerType /\ Ready(c) /\ Ready(ideal)
      /\ Typed /\ Timed
  BY CountersAreWellFormed DEF IInv, Pace
<1>2. /\ timer.pending /\ ~Due /\ counter' = counter /\ rewritten' = rewritten
      /\ timer' = [timer EXCEPT !.elapsed = @ + 1] /\ phase' = 0 /\ ideal' = Settled(m)
  BY DEF Tick, IdealBecomes
<1>3. /\ timer.period \in Nat /\ timer.elapsed \in Nat /\ Ratio \in Nat
      /\ timer.period - timer.elapsed + phase = Ratio /\ phase = Ratio - 1
  <2>1. Ratio * 1 = Ratio /\ Ratio \in Nat
    BY Rates
  <2> QED
    BY <1>1, <1>2, <2>1, TimeLeft
<1>4. /\ timer'.elapsed = timer.elapsed + 1 /\ timer'.period = timer.period
      /\ timer'.input_clk = timer.input_clk /\ timer'.pending = timer.pending
  BY <1>1, <1>2 DEF TimerType
<1>5. timer'.period - timer'.elapsed = 0 /\ Due'
  BY <1>2, <1>3, <1>4 DEF Due
<1>6. ClocksLeft' = 0
  <2>1. Ratio - 1 = Ratio * 0 + (Ratio - 1) /\ Ratio - 1 \in Nat /\ Ratio - 1 < Ratio
    BY Rates
  <2>2. (Ratio - 1) \div Ratio = 0
    BY <2>1, Rates, Quotient
  <2>3. timer'.period - timer'.elapsed + Ratio - 1 = Ratio - 1
    BY <1>3, <1>5
  <2> QED
    BY <2>2, <2>3 DEF ClocksLeft
<1>7. AtEvent' = AtEvent
  BY <1>2, <1>4 DEF AtEvent
<1>8. /\ c.start = TRUE /\ ideal.start = TRUE /\ ideal.delay = c.delay /\ c.delay \in 0 .. 2
      /\ c.count \in Int /\ ideal.count \in Int
  <2>1. c.start \in BOOLEAN /\ c.delay \in 0 .. 2 /\ c.count \in Int /\ ideal.count \in Int
    BY <1>1 DEF Ready, Busy
  <2> QED
    BY <1>1, <1>2, <2>1 DEF Timed, RunningHasEvent, InStep
<1>9. ideal.mode = c.mode /\ SameSetting(c, ideal)
  BY <1>1 DEF InStep, SameSetting
<1>10. SameRun(AtEvent, m) /\ m.prev_out = AtEvent.prev_out
  <2>1. CASE c.delay = 0
    <3>1. timer.input_clk \in 1 .. c.count /\ c.count - timer.input_clk = ideal.count - 1
      BY <1>1, <1>2, <2>1 DEF Timed, RunningHasEvent, InStep
    <3>2. timer.input_clk \in Nat /\ timer.input_clk > 0 /\ c.count - timer.input_clk >= 0
      BY <1>8, <3>1
    <3>3. c.mode = 3 \/ ideal.prev_out = c.prev_out
      BY <1>1, <1>2 DEF SameOutput
    <3> DEFINE a == timer.input_clk
    <3>4. /\ Ready(c) /\ Ready(ideal) /\ SameSetting(c, ideal)
          /\ c.start = TRUE /\ ideal.start = TRUE /\ c.delay = 0 /\ ideal.delay = 0
          /\ a \in Nat /\ a > 0 /\ c.count - a = ideal.count - 1 /\ c.count - a >= 0
          /\ 1 \in Nat /\ 1 > 0
      BY <1>1, <1>8, <1>9, <2>1, <3>1, <3>2
    <3>5. AtEvent = InputClock(c, a)
      BY DEF AtEvent
    <3> HIDE DEF a, c
    <3>6. /\ SameRun(InputClock(c, a), InputClock(ideal, 1))
          /\ InputClock(ideal, 1).prev_out = InputClock(c, a).prev_out
      BY <3>3, <3>4, CountedAlike
    <3> QED
      BY <3>5, <3>6
  <2>2. CASE c.delay > 0
    <3>1. timer.input_clk = 1
      BY <1>1, <1>2, <2>2 DEF Timed
    <3>2. ideal.prev_out = c.prev_out
      <4>1. ~Counting(c) /\ ~Counting(ideal)
        BY <1>8, <2>2 DEF Counting
      <4>2. c.mode = 3 => c.prev_out = TRUE /\ ideal.prev_out = TRUE
        BY <1>1, <1>9, <4>1 DEF SameOutput, Square
      <4> QED
        BY <1>1, <1>2, <4>2 DEF SameOutput
    <3>3. AtEvent = InputClock(c, 1)
      BY <3>1 DEF AtEvent
    <3>4. /\ Ready(c) /\ Ready(ideal) /\ SameSetting(c, ideal) /\ c.start = TRUE
          /\ ideal.start = TRUE /\ c.delay > 0 /\ ideal.delay = c.delay
      BY <1>1, <1>8, <1>9, <2>2
    <3> HIDE DEF c
    <3>5. SameRun(InputClock(c, 1), InputClock(ideal, 1))
      BY <3>4, DelayedAlike
    <3>6. c \in Busy /\ ideal \in Busy /\ ideal.delay > 0
      BY <3>4 DEF Ready
    <3>7. InputClock(c, 1).prev_out = c.prev_out
      BY <3>4, <3>6, DelayedClockIs
    <3>8. InputClock(ideal, 1).prev_out = ideal.prev_out
      BY <3>4, <3>6, DelayedClockIs
    <3> QED
      BY <3>2, <3>3, <3>5, <3>7, <3>8
  <2> QED
    BY <1>8, <2>1, <2>2
<1>11. Ready(m) /\ SameSetting(ideal, m)
  <2>1. 1 \in Nat /\ 1 \in Clocks(ideal)
    BY <1>1 DEF Ready, Clocks
  <2>2. SameSetting(ideal, m)
    BY <1>1, <2>1, InputClockIs DEF Ready
  <2> QED
    BY <1>1, <2>2, IdealClock
<1>12. Square(m)
  <2>1. 1 \in Nat /\ 1 > 0 /\ 1 \in Clocks(ideal)
    BY <1>1 DEF Ready, Clocks
  <2>2. ideal.delay > 0 => Square(ideal)
    BY <1>1 DEF SameOutput, Counting
  <2> QED
    BY <1>1, <1>8, <2>1, <2>2, SquareCounted
<1> HIDE DEF m
<1>13. SameFate(m, ideal')
  BY <1>2, <1>11, SettledFate
<1>14. Square(ideal')
  BY <1>12, <1>13, SameFateIs
<1>15. InStep'
  <2>1. SameSetting(counter'[0], ideal')
    BY <1>2, <1>9, <1>11, <1>13 DEF SameFate, SameSetting
  <2>2. SameRun(AtEvent', ideal')
    BY <1>7, <1>10, <1>13 DEF SameFate, SameCount, SameRun
  <2>3. timer'.period - timer'.elapsed + phase' = Ratio * ClocksLeft'
    BY <1>2, <1>3, <1>5, <1>6
  <2> QED
    BY <1>1, <1>2, <1>4, <1>5, <2>1, <2>2, <2>3 DEF InStep
<1>16. NextChange'
  <2>1. ClocksLeft' <= 1
    BY <1>6
  <2> QED
    BY <1>1, <1>2, <1>4, <2>1 DEF SameOutput, NextChange
<1>17. ideal'.prev_out = AtEvent'.prev_out
  BY <1>7, <1>10, <1>13 DEF SameFate
<1>18. SameOutput'
  BY <1>1, <1>2, <1>5, <1>14, <1>16, <1>17 DEF SameOutput
<1> QED
  BY <1>15, <1>18 DEF Pace

\* A clock before that: the ideal counter counts it, and no output changes.
LEMMA ClockPaces ==
    ASSUME IInv, Pace, Tick, phase + 1 = Ratio, ClocksLeft # 1
    PROVE  Pace'
<1> DEFINE c == counter[0]
           m == InputClock(ideal, 1)
           clocks == ClocksLeft
           input == timer.input_clk
<1>1. /\ InStep /\ SameOutput /\ timer \in TimerType /\ Ready(c) /\ Ready(ideal)
      /\ Typed /\ Timed
  BY CountersAreWellFormed DEF IInv, Pace
<1>2. /\ timer.pending /\ ~Due /\ counter' = counter /\ rewritten' = rewritten
      /\ timer' = [timer EXCEPT !.elapsed = @ + 1] /\ phase' = 0 /\ ideal' = Settled(m)
  BY DEF Tick, IdealBecomes
<1>3. /\ timer.period \in Nat /\ timer.elapsed \in Nat /\ Ratio \in Nat /\ Ratio >= 1
      /\ clocks \in Nat /\ phase \in Nat
      /\ timer.period - timer.elapsed + phase = Ratio * clocks
  BY <1>1, <1>2, Rates, TimeLeft
<1>4. /\ timer'.elapsed = timer.elapsed + 1 /\ timer'.period = timer.period
      /\ timer'.input_clk = input /\ timer'.pending = timer.pending
  BY <1>1, <1>2 DEF TimerType
<1>5. clocks >= 2
  <2>1. clocks # 0
    <3>1. Ratio * 0 = 0
      BY <1>3
    <3>2. SUFFICES ASSUME clocks = 0 PROVE FALSE
      OBVIOUS
    <3>3. timer.period - timer.elapsed + phase = 0
      BY <1>3, <3>1, <3>2
    <3> QED
      BY <1>2, <1>3, <3>3 DEF Due
  <2> QED
    BY <1>3, <2>1
<1> HIDE DEF clocks
<1>6. timer'.period - timer'.elapsed = Ratio * (clocks - 1)
  <2>1. Ratio * (clocks - 1) = Ratio * clocks - Ratio
    BY <1>3, SMT
  <2>2. Ratio * clocks \in Int
    BY <1>3, SMT
  <2> QED
    BY <1>3, <1>4, <2>1, <2>2
<1>7. ClocksLeft' = clocks - 1
  <2> DEFINE time == timer'.period - timer'.elapsed
  <2>1. clocks - 1 \in Nat /\ time \in Int
    BY <1>3, <1>4, <1>5
  <2>2. time \in Nat /\ time + 0 = Ratio * (clocks - 1)
    <3>1. Ratio * (clocks - 1) \in Nat
      BY <1>3, <2>1, SMT
    <3> QED
      BY <1>6, <3>1
  <2> HIDE DEF time
  <2>3. (time + Ratio - 1) \div Ratio = clocks - 1
    BY <2>1, <2>2, PhaseIs, ClocksLeftIs
  <2> QED
    BY <2>3 DEF ClocksLeft, time
<1>8. ~Due'
  <2>1. Ratio * 1 <= Ratio * (clocks - 1) /\ Ratio * 1 = Ratio /\ Ratio * (clocks - 1) \in Int
    BY <1>3, <1>5, Monotone
  <2> QED
    BY <1>3, <1>4, <1>6, <2>1 DEF Due
<1>9. /\ c.start = TRUE /\ ideal.start = TRUE /\ c.delay = 0 /\ ideal.delay = 0
      /\ c.count \in Int /\ ideal.count \in Int /\ c \in Busy /\ ideal \in Busy
      /\ input \in 1 .. c.count /\ c.count - input = ideal.count - clocks
  <2>1. /\ c.start \in BOOLEAN /\ c.delay \in 0 .. 2 /\ c.count \in Int
        /\ ideal.count \in Int /\ c \in Busy /\ ideal \in Busy
    BY <1>1 DEF Ready, Busy
  <2>2. c.delay = 0
    BY <1>1, <1>2, <1>3, <1>5, <2>1 DEF InStep, clocks
  <2> QED
    BY <1>1, <1>2, <2>1, <2>2 DEF Timed, RunningHasEvent, InStep, clocks
<1>10. /\ SameSetting(c, ideal) /\ ideal.mode = c.mode /\ Half(ideal) = Half(c)
       /\ Half(c) \in Int
  BY <1>1, <1>9, SameValue, CountValueInRange, FullIsPositive DEF InStep, SameSetting
<1> DEFINE rest == ideal.count - 1
<1>11. rest \in Int /\ rest >= 1 /\ rest >= c.count - input + 1
  BY <1>3, <1>5, <1>9
<1>12. /\ Ready(m) /\ SameSetting(ideal, m) /\ m.delay = 0 /\ m.count = rest
       /\ m.start = TRUE /\ m.prev_out = Level([ideal EXCEPT !.count = rest])
  <2>1. /\ Ready(m) /\ SameSetting(ideal, m) /\ m.delay = 0
        /\ m.count = CountAt(ideal, rest) /\ m.start = StartAt(ideal, rest)
        /\ m.prev_out = LevelAt(ideal, rest)
    <3>1. 1 \in Nat /\ 1 > 0 /\ ideal.count - 1 >= 0
      BY <1>11
    <3> QED
      BY <1>1, <1>9, <3>1, CountingClockIs
  <2> HIDE DEF m
  <2>2. rest > 0
    BY <1>11
  <2> HIDE DEF rest
  <2> QED
    BY <1>9, <2>1, <2>2 DEF CountAt, StartAt, LevelAt
<1>13. Square(m)
  <2>1. 1 \in Nat /\ 1 > 0 /\ 1 \in Clocks(ideal)
    BY <1>1 DEF Ready, Clocks
  <2>2. ~(ideal.delay > 0)
    BY <1>9
  <2> QED
    BY <1>1, <1>9, <2>1, <2>2, SquareCounted
<1> HIDE DEF m
<1>14. SameFate(m, ideal')
  BY <1>2, <1>12, SettledFate
<1>15. Square(ideal')
  BY <1>13, <1>14, SameFateIs
<1>16. InStep'
  <2>1. SameSetting(counter'[0], ideal')
    BY <1>2, <1>10, <1>12, <1>14 DEF SameFate, SameSetting
  <2>2. ideal'.start = TRUE /\ ideal'.delay = 0 /\ ideal'.count = ideal.count - 1
    BY <1>12, <1>14 DEF SameFate, SameCount
  <2>3. timer'.period - timer'.elapsed + phase' = Ratio * ClocksLeft'
    BY <1>2, <1>3, <1>4, <1>6, <1>7
  <2>4. counter'[0].count - timer'.input_clk = ideal'.count - ClocksLeft'
    BY <1>2, <1>3, <1>4, <1>7, <1>9, <2>2
  <2> QED
    BY <1>1, <1>2, <1>4, <1>8, <1>9, <2>1, <2>2, <2>3, <2>4 DEF InStep
<1>17. Counting(c) /\ Counting(ideal)
  BY <1>9 DEF Counting
<1>18. NextChange'
  <2>1. ClocksLeft' <= 1 \/ c.count - input >= 1 \/ c.mode \notin {2, 4, 5}
    BY <1>1, <1>3, <1>5, <1>17 DEF SameOutput, NextChange, clocks
  <2> QED
    BY <1>1, <1>2, <1>3, <1>4, <1>5, <1>17 DEF SameOutput, NextChange, clocks
<1>19. c.mode # 3 \/ ~rewritten => m.prev_out = c.prev_out
  <2>1. c.mode # 3 \/ ~rewritten => ideal.prev_out = c.prev_out
    BY <1>1, <1>2 DEF SameOutput
  <2>2. /\ c.mode = 3 => m.prev_out = (rest > Half(c))
        /\ c.mode # 3 /\ rest > 0 /\ (rest > 1 \/ c.mode \notin {2, 4, 5}) =>
              m.prev_out = ideal.prev_out
    BY <1>9, <1>10, <1>11, <1>12, LevelIs
  <2>3. CASE c.mode \in {2, 4, 5}
    <3>1. c.count - input >= 1
      BY <1>1, <1>3, <1>5, <1>17, <2>3 DEF SameOutput, NextChange, clocks
    <3>2. rest > 1 /\ rest > 0
      BY <1>9, <1>11, <3>1
    <3> QED
      BY <2>1, <2>2, <2>3, <3>2
  <2>4. CASE c.mode \notin {2, 3, 4, 5}
    <3>1. rest > 0
      BY <1>11
    <3> QED
      BY <2>1, <2>2, <2>4, <3>1
  <2>5. CASE c.mode = 3 /\ ~rewritten
    <3>1. /\ c.prev_out = (c.count > Half(c)) /\ ideal.prev_out = (ideal.count > Half(c))
          /\ ideal.prev_out = c.prev_out
      BY <1>1, <1>10, <1>17, <2>1, <2>5 DEF SameOutput, Square
    <3>2. (c.count > Half(c)) <=> (ideal.count > Half(c))
      BY <3>1
    <3>3. c.count > Half(c) => c.count - input >= Half(c)
      BY <1>1, <1>17, <2>5 DEF SameOutput, NextChange
    <3>4. (rest > Half(c)) <=> (c.count > Half(c))
      BY <1>9, <1>10, <1>11, <3>2, <3>3
    <3> QED
      BY <2>2, <2>5, <3>1, <3>4
  <2> QED
    BY <2>3, <2>4, <2>5
<1>20. SameOutput'
  <2>1. ideal'.prev_out = m.prev_out
    BY <1>14 DEF SameFate
  <2> QED
    BY <1>1, <1>2, <1>8, <1>15, <1>18, <1>19, <2>1 DEF SameOutput
<1> QED
  BY <1>16, <1>20 DEF Pace

LEMMA TickPaces ==
    ASSUME IInv, Pace, Tick
    PROVE  Pace'
  BY WaitPaces, LastClockPaces, ClockPaces

-----------------------------------------------------------------------------
(* The theorems of the pace. *)

LEMMA NextPaces ==
    ASSUME IInv, Pace, [Next]_vars
    PROVE  Pace'
<1>1. CASE UNCHANGED vars
  <2>1. /\ counter' = counter /\ ideal' = ideal /\ timer' = timer
        /\ phase' = phase /\ rewritten' = rewritten
    BY <1>1 DEF vars
  <2> QED
    BY <2>1, OthersPace
<1>2. CASE Next
  <2>1. Typed
    BY DEF IInv
  <2>2. CASE \E ch \in 0 .. 2, data \in Bytes : WriteCount(ch, data)
    BY <2>2, WriteCountPaces
  <2>3. CASE \E ch \in 0 .. 2, access \in Accesses, mode \in Modes :
               WriteControl(ch, access, mode)
    BY <2>3, WriteControlPaces
  <2>4. CASE \E ch \in 0 .. 2 : LatchCommand(ch)
    BY <2>4, LatchCommandPaces
  <2>5. CASE \E ch \in 0 .. 2 : ReadCount(ch)
    BY <2>5, ReadCountPaces
  <2>6. CASE \E signal \in Signals : WriteGate(signal)
    BY <2>6, WriteGatePaces
  <2>7. CASE Blank
    BY <2>7, BlankPaces
  <2>8. CASE EventCallback
    BY <2>8, EventCallbackPaces
  <2>9. CASE Tick
    BY <2>9, TickPaces
  <2> QED
    BY <1>2, <2>1, <2>2, <2>3, <2>4, <2>5, <2>6, <2>7, <2>8, <2>9, Steps
<1> QED
  BY <1>1, <1>2

LEMMA PaceHolds == Spec => [](IInv /\ Pace)
<1>1. Init => IInv /\ Pace
  BY InitIsTimed, InitPaces
<1>2. IInv /\ Pace /\ [Next]_vars => (IInv /\ Pace)'
  BY NextKeeps, NextPaces
<1> QED
  BY <1>1, <1>2, PTL DEF Spec

\* A count that is read between events may lag, but it is never ahead: more time is
\* left than clocks are needed for what a read would not count yet.
LEMMA NotAhead ==
    ASSUME IInv, InStep, ~Due, timer.pending, counter[0].delay = 0
    PROVE  /\ timer.input_clk - InputPassed(timer.elapsed) >= ClocksLeft
           /\ ClocksLeft \in Nat /\ InputPassed(timer.elapsed) \in Nat
<1> DEFINE passed == InputPassed(timer.elapsed)
           left == timer.period - timer.elapsed
           clocks == timer.input_clk - passed
<1>1. /\ timer.period \in Nat /\ timer.elapsed \in Nat /\ timer.input_clk \in Nat
      /\ timer.elapsed < timer.period /\ timer.input_clk <= Full + 1
      /\ freq * timer.period <= cpu_clocks * timer.input_clk
  <2>1. timer \in TimerType
    BY DEF IInv, Typed, TypeOK, TimerType
  <2>2. timer.period \in Nat /\ timer.elapsed \in Nat /\ timer.input_clk \in Nat
    BY <2>1 DEF TimerType
  <2>3. timer.input_clk \in 1 .. counter[0].count /\ counter[0].count \in 1 .. Full + 1
    <3>1. timer.input_clk \in 1 .. counter[0].count
      BY DEF IInv, Timed, RunningHasEvent
    <3>2. counter[0].count \in 1 .. Full + 1
      <4>1. counter[0] \in Counter
        <5> 0 \in 0 .. 2 /\ counter \in [0 .. 2 -> Counter]
          BY DEF IInv, Typed, TypeOK
        <5> QED
          BY Zenon
      <4> QED
        BY <4>1, Zenon DEF Counter
    <3> QED
      BY <3>1, <3>2
  <2>4. freq * timer.period <= cpu_clocks * timer.input_clk
    BY DEF IInv, Timed
  <2> QED
    BY <2>2, <2>3, <2>4, FullIsPositive DEF Due
<1>2. /\ freq * timer.elapsed \in Nat /\ passed \in Nat
      /\ cpu_clocks * passed <= freq * timer.elapsed
  <2>1. freq * timer.elapsed \in Nat
    BY <1>1, Rates, SMT
  <2> QED
    BY <2>1, Rates, Division DEF InputPassed
<1>3. phase \in 0 .. Ratio - 1 /\ left + phase = Ratio * ClocksLeft /\ left \in Nat /\ left >= 1
  BY <1>1 DEF InStep, IInv, Typed, TypeOK
<1> HIDE DEF passed
<1>4. freq * left <= cpu_clocks * clocks /\ clocks \in Int
  <2>1. freq * left = freq * timer.period - freq * timer.elapsed
    BY <1>1, Rates, SMT
  <2>2. cpu_clocks * clocks = cpu_clocks * timer.input_clk - cpu_clocks * passed
    BY <1>1, <1>2, Rates, SMT
  <2>3. /\ freq * timer.period \in Int /\ cpu_clocks * timer.input_clk \in Int
        /\ cpu_clocks * passed \in Int /\ freq * timer.elapsed \in Int
    BY <1>1, <1>2, Rates, SMT
  <2> QED
    BY <1>1, <1>2, <2>1, <2>2, <2>3
<1>5. ClocksLeft \in Nat
  <2>1. left + Ratio - 1 \in Nat
    BY <1>3, Rates
  <2> QED
    BY <2>1, Rates, Division DEF ClocksLeft
<1> HIDE DEF left
<1>6. clocks >= 1
  <2>1. SUFFICES ASSUME clocks <= 0 PROVE FALSE
    BY <1>4
  <2>2. cpu_clocks * clocks <= cpu_clocks * 0 /\ cpu_clocks * clocks \in Int
    BY <1>4, <2>1, Rates, Monotone
  <2>3. freq * 1 <= freq * left /\ freq * left \in Int
    BY <1>3, Rates, Monotone
  <2> QED
    BY <1>4, <2>2, <2>3, Rates
<1>7. clocks \in 1 .. Full + 1
  BY <1>1, <1>2, <1>4, <1>6, FullIsPositive
<1> HIDE DEF clocks
<1>8. left <= Ratio * clocks
  <2>1. cpu_clocks * clocks \in Nat
    BY <1>7, Rates, FullIsPositive, SMT
  <2>2. cpu_clocks * clocks < freq * (Ratio * clocks) + freq
    BY <1>7, <2>1, ExactPeriod, Rates, Division
  <2>3. SUFFICES ASSUME Ratio * clocks + 1 <= left PROVE FALSE
    BY <1>3, <1>7, Rates, FullIsPositive, SMT
  <2>4. Ratio * clocks \in Nat
    BY <1>7, Rates, FullIsPositive, SMT
  <2>5. freq * (Ratio * clocks + 1) <= freq * left /\ freq * left \in Int
    BY <1>3, <2>3, <2>4, Rates, Monotone
  <2>6. freq * (Ratio * clocks + 1) = freq * (Ratio * clocks) + freq /\ freq * (Ratio * clocks) \in Int
    BY <2>4, Rates, SMT
  <2> QED
    BY <1>4, <2>1, <2>2, <2>5, <2>6, Rates
<1>9. clocks >= ClocksLeft
  <2>1. SUFFICES ASSUME clocks + 1 <= ClocksLeft PROVE FALSE
    BY <1>4, <1>5
  <2>2. Ratio * (clocks + 1) <= Ratio * ClocksLeft /\ Ratio * ClocksLeft \in Int
    BY <1>4, <1>5, <2>1, Rates, Monotone
  <2>3. Ratio * (clocks + 1) = Ratio * clocks + Ratio /\ Ratio * clocks \in Int
    BY <1>4, Rates, SMT
  <2> QED
    BY <1>3, <1>8, <2>2, <2>3, Rates
<1> QED
  BY <1>2, <1>5, <1>9 DEF clocks, passed

(***************************************************************************)
(* Whatever a program does, the event of counter 0 is as many clocks away  *)
(* as a counter that is counted clock by clock needs to come to the same   *)
(* count, although reading makes latch_count() count what has passed and   *)
(* register the event again.  A count that is read before it may lag       *)
(* behind the one counted clock by clock, but it is never ahead of it.     *)
(***************************************************************************)
THEOREM CountKeepsStep == Spec => []CountInStep
<1>1. IInv /\ Pace => CountInStep
  <2>1. SUFFICES ASSUME IInv, Pace, ~Due PROVE
          /\ counter[0].start = ideal.start
          /\ ideal.start /\ ideal.delay = 0 =>
                /\ counter[0].count - timer.input_clk = ideal.count - ClocksLeft
                /\ CountToRead >= ideal.count
    BY DEF CountInStep
  <2>2. ideal.start = counter[0].start /\ ideal.delay = counter[0].delay
    BY <2>1, RunTogether DEF Pace
  <2>3. counter[0].start => timer.pending
    BY <2>1 DEF IInv, Timed, RunningHasEvent
  <2>4. SUFFICES ASSUME timer.pending, counter[0].delay = 0
                 PROVE  /\ counter[0].count - timer.input_clk = ideal.count - ClocksLeft
                        /\ CountToRead >= ideal.count
    BY <2>2, <2>3
  <2>5. counter[0].count - timer.input_clk = ideal.count - ClocksLeft
    BY <2>1, <2>4 DEF Pace, InStep
  <2>6. /\ timer.input_clk - InputPassed(timer.elapsed) >= ClocksLeft
        /\ ClocksLeft \in Nat /\ InputPassed(timer.elapsed) \in Nat
    BY <2>1, <2>4, NotAhead DEF Pace
  <2>7. counter[0].count \in Int /\ ideal.count \in Int /\ timer.input_clk \in Int
    BY <2>1, FullIsPositive DEF IInv, Typed, TypeOK, Counter
  <2> QED
    BY <2>5, <2>6, <2>7 DEF CountToRead
<1> QED
  BY <1>1, PaceHolds, PTL

(***************************************************************************)
(* The output of counter 0 changes at the very clocks at which that of a   *)
(* counter that is counted clock by clock does, although i8253.cpp looks   *)
(* at it only in event_callback() and latch_count(): an event passes over  *)
(* no change, unless the program wrote a new count into it.                *)
(***************************************************************************)
THEOREM OutputKeepsTime == Spec => []OutputOnTime
<1>1. Pace => OutputOnTime
  BY DEF Pace, SameOutput, OutputOnTime
<1> QED
  BY <1>1, PaceHolds, PTL

-----------------------------------------------------------------------------
(* Counters 1 and 2 in a chain. *)

\* What an output is set to, and what it then passes on.
High(k) == SetSignal(k, TRUE)
Low(k) == SetSignal(k, FALSE)
Rose == <<TRUE>>
Fell == <<FALSE>>

\* An output that changes is passed on.
LEMMA HighAndLow ==
    ASSUME NEW k \in Busy
    PROVE  /\ High(k) \in Busy /\ High(k).prev_out = TRUE
           /\ k.prev_out = TRUE => High(k).levels = k.levels
           /\ k.prev_out = FALSE /\ k.levels = <<>> => High(k).levels = Rose
           /\ Low(k) \in Busy /\ Low(k).prev_out = FALSE
           /\ k.prev_out = FALSE => Low(k).levels = k.levels
           /\ k.prev_out = TRUE /\ k.levels = <<>> => Low(k).levels = Fell
<1>1. ASSUME NEW level \in BOOLEAN
      PROVE  SetSignal(k, level).levels =
                 IF level = k.prev_out THEN k.levels ELSE Append(k.levels, level)
  BY DEF SetSignal, Busy
<1>2. TRUE \in BOOLEAN /\ FALSE \in BOOLEAN
  OBVIOUS
<1>3. /\ SetSignal(k, TRUE).levels = IF TRUE = k.prev_out THEN k.levels ELSE Append(k.levels, TRUE)
      /\ SetSignal(k, FALSE).levels = IF FALSE = k.prev_out THEN k.levels ELSE Append(k.levels, FALSE)
  BY <1>1, <1>2, Zenon
<1>4. /\ SetSignal(k, TRUE) \in Busy /\ SetSignal(k, TRUE).prev_out = TRUE
      /\ SetSignal(k, FALSE) \in Busy /\ SetSignal(k, FALSE).prev_out = FALSE
  BY <1>2, SignalIsSet, Zenon
<1>5. /\ Append(<<>>, TRUE) = <<TRUE>> /\ Append(<<>>, FALSE) = <<FALSE>>
      /\ TRUE # FALSE
  OBVIOUS
<1>6. /\ k.prev_out = TRUE => High(k).levels = k.levels
      /\ k.prev_out = FALSE /\ k.levels = <<>> => High(k).levels = Rose
  BY <1>3, <1>5, Zenon DEF High, Rose
<1>7. /\ k.prev_out = FALSE => Low(k).levels = k.levels
      /\ k.prev_out = TRUE /\ k.levels = <<>> => Low(k).levels = Fell
  BY <1>3, <1>5, Zenon DEF Low, Fell
<1> QED
  BY <1>4, <1>6, <1>7, Zenon DEF High, Low

\* A counter that divides its clock, and is in step with its output.
Divides(k) ==
    /\ k.start /\ k.delay = 0 /\ k.mode \in {2, 3} /\ COUNT_VALUE(k) > 1
    /\ k.count <= COUNT_VALUE(k) /\ k.prev_out = (k.count > FallsAt(k))

\* Its output falls within its count.
LEMMA FallsInside ==
    ASSUME NEW k, Ready(k), Divides(k)
    PROVE  /\ COUNT_VALUE(k) \in Nat /\ FallsAt(k) \in 1 .. COUNT_VALUE(k) - 1
           /\ k.count \in 1 .. COUNT_VALUE(k)
<1>1. /\ COUNT_VALUE(k) \in 1 .. Full + 1 /\ k.count \in 1 .. Full + 1
      /\ COUNT_VALUE(k) > 1 /\ k.count <= COUNT_VALUE(k)
  BY CountValueInRange DEF Ready, Divides
<1>2. Full \in Nat
  BY FullIsPositive
<1>3. COUNT_VALUE(k) \div 2 \in 1 .. COUNT_VALUE(k) - 1
  BY <1>1, <1>2
<1> QED
  BY <1>1, <1>2, <1>3 DEF FallsAt, Half

\* The square wave of mode 3, and the pulse of mode 2.
LEMMA SquareOutput ==
    ASSUME NEW k \in Busy, k.mode = 3
    PROVE  /\ k.count > Half(k) => Output(k) = High(k)
           /\ ~(k.count > Half(k)) => Output(k) = Low(k)
<1>1. Output(k) = SetSignal(k, k.count > Half(k))
  BY DEF Output
<1>2. CASE k.count > Half(k)
  <2>1. (k.count > Half(k)) = TRUE
    BY <1>2
  <2> QED
    BY <1>1, <1>2, <2>1, Zenon DEF High
<1>3. CASE ~(k.count > Half(k))
  <2>1. (k.count > Half(k)) = FALSE
    BY <1>3
  <2> QED
    BY <1>1, <1>3, <2>1, Zenon DEF Low
<1> QED
  BY <1>2, <1>3

LEMMA PulseOutput ==
    ASSUME NEW k \in Busy, k.mode = 2
    PROVE  /\ k.count > 1 => Output(k) = k
           /\ k.count = 1 => Output(k) = Low(k)
           /\ k.count = 0 => Output(k) = High(Low(k))
<1>1. k.count \in Int
  BY DEF Busy
<1> DEFINE low == Low(k)
<1>2. Output(k) = LET l == IF k.count <= 1 THEN low ELSE k
                  IN  IF k.count <= 0 THEN High(l) ELSE l
  <2>1. ~(k.mode = 3) /\ k.mode \in {2, 4, 5}
    OBVIOUS
  <2> QED
    BY <2>1, Zenon DEF Output, High, Low
<1> HIDE DEF low
<1>3. /\ k.count > 1 => Output(k) = k
      /\ k.count = 1 => Output(k) = low
      /\ k.count = 0 => Output(k) = High(low)
  BY <1>1, <1>2
<1> QED
  BY <1>3 DEF low

\* Only the count is changed.
LEMMA WithCount ==
    ASSUME NEW k \in Busy, NEW y \in Int
    PROVE  LET d == [k EXCEPT !.count = y]
           IN  /\ d \in Busy /\ d.count = y /\ d.mode = k.mode /\ d.levels = k.levels
               /\ d.prev_out = k.prev_out /\ SameSetting(k, d)
<1> DEFINE d == [k EXCEPT !.count = y]
<1>1. d \in Busy
  BY ZenonT(20) DEF Busy
<1>2. d.count = y /\ d.mode = k.mode /\ d.levels = k.levels /\ d.prev_out = k.prev_out
  BY DEF Busy
<1>3. SameSetting(k, d)
  BY DEF Busy, SameSetting
<1> QED
  BY <1>1, <1>2, <1>3

\* A clock changes its output once at most, when it falls or is loaded.
LEMMA DividerClockIs ==
    ASSUME NEW k, Ready(k), Divides(k), k.levels = <<>>
    PROVE  LET m == InputClock(k, 1)
           IN  /\ SameSetting(k, m)
               /\ m.count = IF k.count = 1 THEN COUNT_VALUE(k) ELSE k.count - 1
               /\ m.levels = IF k.count = 1 THEN Rose
                             ELSE IF k.count = FallsAt(k) + 1 THEN Fell ELSE <<>>
<1> DEFINE n == COUNT_VALUE(k)
           f == FallsAt(k)
           down == [k EXCEPT !.count = k.count - 1]
           done == Output(down)
           loaded == [done EXCEPT !.count = done.count + n]
           m == InputClock(k, 1)
<1>1. n \in Nat /\ f \in 1 .. n - 1 /\ k.count \in 1 .. n /\ k \in Busy
  BY FallsInside DEF Ready
<1>2. m = IF done.count > 0 THEN done ELSE Output(loaded)
  BY DEF Divides, InputClock, CountDown
<1>3. /\ down \in Busy /\ down.count = k.count - 1 /\ down.mode = k.mode /\ down.levels = <<>>
      /\ down.prev_out = k.prev_out /\ SameSetting(k, down)
  <2>1. k.count - 1 \in Int /\ k \in Busy
    BY <1>1
  <2> QED
    BY <2>1, WithCount
<1>4. Half(down) = Half(k)
  BY <1>3, SameValue
<1>5. /\ f = (IF k.mode = 2 THEN 1 ELSE Half(k)) /\ k.mode \in {2, 3}
      /\ k.count > f => k.prev_out = TRUE
      /\ ~(k.count > f) => k.prev_out = FALSE
  <2>1. k.prev_out = (k.count > f)
    BY DEF Divides
  <2>2. f = (IF k.mode = 2 THEN 1 ELSE Half(k)) /\ k.mode \in {2, 3}
    BY DEF FallsAt, Divides
  <2> HIDE DEF f
  <2>3. (k.count > f => (k.count > f) = TRUE) /\ (~(k.count > f) => (k.count > f) = FALSE)
    OBVIOUS
  <2> QED
    BY <2>1, <2>2, <2>3, Zenon
<1> HIDE DEF n, f, down, m
<1>6. done \in Busy /\ SameSetting(down, done) /\ done.count = k.count - 1
  BY <1>3, OutputIsLevel DEF SameCount
<1>7. SameSetting(k, done)
  BY <1>3, <1>6 DEF SameSetting
<1> HIDE DEF done, loaded
<1>8. CASE k.count > 1
  <2>1. m = done /\ m.count = k.count - 1
    BY <1>1, <1>2, <1>6, <1>8
  <2>2. m.levels = IF k.count = f + 1 THEN Fell ELSE <<>>
    <3>1. CASE k.mode = 3 /\ k.count > f + 1
      <4>1. done = High(down)
        BY <1>1, <1>3, <1>4, <1>5, <3>1, SquareOutput DEF done
      <4>2. down.prev_out = TRUE /\ k.count # f + 1
        BY <1>1, <1>3, <1>5, <3>1
      <4>3. m.levels = <<>>
        BY <1>3, <2>1, <4>1, <4>2, HighAndLow, Zenon
      <4> QED
        BY <4>2, <4>3
    <3>2. CASE k.mode = 3 /\ k.count <= f + 1
      <4>1. done = Low(down)
        BY <1>1, <1>3, <1>4, <1>5, <3>2, SquareOutput DEF done
      <4>2. CASE k.count = f + 1
        <5>1. down.prev_out = TRUE
          BY <1>1, <1>3, <1>5, <4>2
        <5>2. m.levels = Fell
          BY <1>3, <2>1, <4>1, <5>1, HighAndLow, Zenon
        <5> QED
          BY <4>2, <5>2
      <4>3. CASE k.count # f + 1
        <5>1. down.prev_out = FALSE
          BY <1>1, <1>3, <1>5, <3>2, <4>3
        <5>2. m.levels = <<>>
          BY <1>3, <2>1, <4>1, <5>1, HighAndLow, Zenon
        <5> QED
          BY <4>3, <5>2
      <4> QED
        BY <4>2, <4>3
    <3>3. CASE k.mode = 2 /\ k.count = 2
      <4>1. done = Low(down)
        BY <1>3, <3>3, PulseOutput DEF done
      <4>2. down.prev_out = TRUE /\ k.count = f + 1
        BY <1>1, <1>3, <1>5, <3>3
      <4>3. m.levels = Fell
        BY <1>3, <2>1, <4>1, <4>2, HighAndLow, Zenon
      <4> QED
        BY <4>2, <4>3
    <3>4. CASE k.mode = 2 /\ k.count > 2
      <4>1. done = down
        BY <1>1, <1>3, <3>4, PulseOutput DEF done
      <4> QED
        BY <1>1, <1>3, <1>5, <2>1, <3>4, <4>1
    <3> QED
      BY <1>1, <1>5, <1>8, <3>1, <3>2, <3>3, <3>4
  <2> QED
    BY <1>1, <1>7, <1>8, <2>1, <2>2 DEF m, n, f
<1>9. CASE ~(k.count > 1)
  <2>1. k.count = 1 /\ done.count = 0 /\ k.prev_out = FALSE /\ down.count = 0
    BY <1>1, <1>3, <1>5, <1>6, <1>9
  <2>2. m = Output(loaded)
    BY <1>2, <2>1
  <2>3. /\ loaded \in Busy /\ SameSetting(done, loaded) /\ loaded.count = n
        /\ loaded.levels = done.levels /\ loaded.prev_out = done.prev_out
        /\ loaded.mode = done.mode
    <3>1. done.count + n = n /\ n \in Int
      BY <1>1, <2>1
    <3> QED
      BY <1>6, <3>1 DEF loaded, Busy, SameSetting
  <2>4. SameSetting(k, loaded) /\ loaded.mode = k.mode
    BY <1>7, <2>3 DEF SameSetting
  <2>5. Half(loaded) = Half(k)
    BY <2>4, SameValue
  <2>6. SameSetting(k, m) /\ m.count = n
    <3>1. SameSetting(loaded, m) /\ SameCount(loaded, m)
      BY <2>2, <2>3, OutputIsLevel
    <3> QED
      BY <2>3, <2>4, <3>1 DEF SameSetting, SameCount
  <2>7. m.levels = Rose
    <3>1. CASE k.mode = 3
      <4>1. done = Low(down)
        BY <1>1, <1>3, <1>4, <1>5, <2>1, <3>1, SquareOutput DEF done
      <4>2. done.levels = <<>>
        BY <1>3, <2>1, <4>1, HighAndLow
      <4>3. done.prev_out = FALSE
        BY <1>3, <4>1, HighAndLow
      <4>4. m = High(loaded)
        BY <1>1, <1>5, <2>2, <2>3, <2>4, <2>5, <3>1, SquareOutput
      <4> QED
        BY <2>3, <4>2, <4>3, <4>4, HighAndLow
    <3>2. CASE k.mode = 2
      <4> DEFINE low == Low(down)
      <4>1. done = High(low)
        BY <1>3, <2>1, <3>2, PulseOutput DEF done
      <4>2. low.levels = <<>>
        BY <1>3, <2>1, HighAndLow
      <4>3. low \in Busy /\ low.prev_out = FALSE
        BY <1>3, HighAndLow
      <4> HIDE DEF low
      <4>4. done.levels = Rose
        BY <4>1, <4>2, <4>3, HighAndLow
      <4>5. m = loaded
        BY <1>1, <2>2, <2>3, <2>4, <3>2, PulseOutput
      <4> QED
        BY <2>3, <4>4, <4>5
    <3> QED
      BY <1>5, <3>1, <3>2
  <2> QED
    BY <2>1, <2>6, <2>7 DEF m, n, f
<1> QED
  BY <1>8, <1>9

\* Clocks of the divider until its output falls.
LEMMA ToFallIs ==
    ASSUME NEW k, COUNT_VALUE(k) \in Nat, FallsAt(k) \in 1 .. COUNT_VALUE(k) - 1,
           k.count \in 1 .. COUNT_VALUE(k)
    PROVE  ToFall(k) = IF k.count > FallsAt(k) THEN k.count - FallsAt(k)
                       ELSE k.count - FallsAt(k) + COUNT_VALUE(k)
<1> DEFINE n == COUNT_VALUE(k)
           f == FallsAt(k)
<1>1. n \in Nat /\ f \in 1 .. n - 1 /\ k.count \in 1 .. n
  OBVIOUS
<1> HIDE DEF n, f
<1>2. ASSUME NEW a \in Nat, a < n PROVE a % n = a
  BY <1>1, <1>2
<1>3. ASSUME NEW a \in Int, a < 0, -n <= a PROVE a % n = a + n
  BY <1>1, <1>3
<1>4. ToFall(k) = ((k.count - f - 1) % n) + 1
  BY DEF ToFall, n, f
<1>5. CASE k.count > f
  <2>1. k.count - f - 1 \in Nat /\ k.count - f - 1 < n
    BY <1>1, <1>5
  <2>2. (k.count - f - 1) % n = k.count - f - 1
    BY <1>2, <2>1
  <2> QED
    BY <1>1, <1>4, <1>5, <2>2 DEF n, f
<1>6. CASE ~(k.count > f)
  <2>1. k.count - f - 1 \in Int /\ k.count - f - 1 < 0 /\ -n <= k.count - f - 1
    BY <1>1, <1>6
  <2>2. (k.count - f - 1) % n = k.count - f - 1 + n
    BY <1>3, <2>1
  <2> QED
    BY <1>1, <1>4, <1>6, <2>2 DEF n, f
<1> QED
  BY <1>5, <1>6

\* What the chained counter makes of a change of the divider's output.
LEMMA FollowsOne ==
    ASSUME NEW c, Ready(c)
    PROVE  /\ FollowsAll(c, <<>>) = c
           /\ FollowsAll(c, Rose) = ClockSignal(c, TRUE)
           /\ FollowsAll(c, Fell) = ClockSignal(c, FALSE)
<1>1. DOMAIN <<>> = {} /\ DOMAIN Rose = {1} /\ DOMAIN Fell = {1}
  BY DEF Rose, Fell
<1>2. Rose[1] = TRUE /\ Fell[1] = FALSE
  BY DEF Rose, Fell
<1>3. 1 \in {1} /\ 2 \notin {1} /\ 3 \notin {1}
  OBVIOUS
<1> QED
  BY <1>1, <1>2, <1>3, Zenon DEF FollowsAll, Follows

\* The chained counter counts the falling edges.
LEMMA ChainedClockIs ==
    ASSUME NEW c, Ready(c), c.start, c.delay = 0
    PROVE  /\ ClockSignal(c, TRUE).count = c.count
           /\ c.prev_in /\ c.count > 1 => ClockSignal(c, FALSE).count = c.count - 1
<1>1. c \in Busy /\ c.count \in 1 .. Full + 1 /\ Full \in Nat
  BY FullIsPositive DEF Ready
<1>2. ClockSignal(c, TRUE).count = c.count
  BY <1>1 DEF ClockSignal, Busy
<1>3. ASSUME c.prev_in, c.count > 1
      PROVE  ClockSignal(c, FALSE).count = c.count - 1
  <2> DEFINE m == CountDown(c, 1)
  <2>1. m \in Busy /\ m.count = CountAt(c, c.count - 1)
    BY <1>1, CountDownIs
  <2>2. ClockSignal(c, FALSE) = [m EXCEPT !.prev_in = FALSE]
    BY <1>3 DEF ClockSignal, InputClock
  <2> HIDE DEF m
  <2>3. ClockSignal(c, FALSE).count = m.count
    BY <2>1, <2>2 DEF Busy
  <2>4. c.count - 1 > 0
    BY <1>1, <1>3
  <2>5. CountAt(c, c.count - 1) = c.count - 1
    BY <2>4, Zenon DEF CountAt
  <2> QED
    BY <2>1, <2>3, <2>5
<1> QED
  BY <1>2, <1>3

\* A falling clock: the divider counts down, falls or is loaded.
LEMMA ChainSteps ==
    ASSUME IInv, Blank, counter[1].prev_in, Chained(counter), Remaining(counter) > 1
    PROVE  Remaining(counter') = Remaining(counter) - 1
<1> DEFINE k == counter[1]
           c == counter[2]
           n == COUNT_VALUE(k)
           f == FallsAt(k)
           m == InputClock(k, 1)
           k1 == counter'[1]
           c1 == counter'[2]
<1>1. /\ Ready(k) /\ k.levels = <<>> /\ Ready(c) /\ c.levels = <<>>
      /\ counter \in [0 .. 2 -> Counter]
  BY CountersAreWellFormed, WellFormedIsReady DEF IInv, Typed, TypeOK
<1>2. Divides(k) /\ c.prev_in = k.prev_out /\ c.start /\ c.delay = 0
  BY DEF Chained, Divides
<1>3. n \in Nat /\ f \in 1 .. n - 1 /\ k.count \in 1 .. n
  BY <1>1, <1>2, FallsInside
<1>4. /\ SameSetting(k, m) /\ m.count = IF k.count = 1 THEN n ELSE k.count - 1
      /\ m.levels = IF k.count = 1 THEN Rose ELSE IF k.count = f + 1 THEN Fell ELSE <<>>
  BY <1>1, <1>2, DividerClockIs DEF Rose, Fell
<1>5. m \in Busy
  <2>1. k.start => 1 \in Clocks(k)
    BY <1>1, <1>2, FullIsPositive DEF Clocks, Ready
  <2> QED
    BY <1>1, <2>1, InputClockIs DEF Ready
<1>6. Becomes(1, [m EXCEPT !.prev_in = FALSE])
  BY Zenon DEF Blank, ClockSignal
<1> DEFINE out == [m EXCEPT !.prev_in = FALSE]
<1>7. /\ out.count = m.count /\ out.mode = k.mode /\ out.count_reg = k.count_reg
      /\ out.levels = m.levels
  BY <1>4, <1>5 DEF Busy, SameSetting
<1>8. k1 = Settled(out) /\ c1 = Settled(FollowsAll(c, m.levels))
  BY <1>1, <1>6, <1>7 DEF Becomes
<1> HIDE DEF n, f, m
<1>9. k1.count = m.count /\ k1.mode = k.mode /\ k1.count_reg = k.count_reg
  BY <1>5, <1>7, <1>8 DEF Settled, Busy
<1>10. COUNT_VALUE(k1) = n /\ FallsAt(k1) = f
  BY <1>9 DEF COUNT_VALUE, FallsAt, Half, n, f
<1>11. ToFall(k) = IF k.count > f THEN k.count - f ELSE k.count - f + n
  BY <1>3, ToFallIs DEF n, f
<1>12. ToFall(k1) = IF k1.count > f THEN k1.count - f ELSE k1.count - f + n
  <2>1. k1.count \in 1 .. n
    BY <1>3, <1>4, <1>9
  <2> HIDE DEF k1
  <2> QED
    BY <1>3, <1>10, <2>1, ToFallIs
<1>13. /\ Remaining(counter) = (c.count - 1) * n + ToFall(k)
       /\ Remaining(counter') = (c1.count - 1) * n + ToFall(k1)
  BY <1>10 DEF Remaining, n
<1>14. c.count \in Nat /\ c.count >= 1 /\ Settled(c).count = c.count
  <2>1. c.count \in 1 .. Full + 1 /\ Full \in Nat
    BY <1>1, FullIsPositive DEF Ready
  <2>2. Settled(c).count = c.count
    BY <1>1, SettledIsWellFormed DEF SameCount
  <2> HIDE DEF c
  <2> QED
    BY <2>1, <2>2
<1> HIDE DEF k1, c1, out
<1>15. CASE k.count # f + 1
  <2>1. c1.count = c.count
    <3>1. CASE k.count = 1
      <4>1. c1 = Settled(ClockSignal(c, TRUE))
        BY <1>1, <1>4, <1>8, <3>1, FollowsOne, Zenon
      <4>2. ClockSignal(c, TRUE).count = c.count /\ Ready(ClockSignal(c, TRUE))
        BY <1>1, <1>2, ChainedClockIs, ClockSignalIs
      <4> QED
        BY <4>1, <4>2, SettledIsWellFormed, Zenon DEF SameCount
    <3>2. CASE k.count # 1
      BY <1>1, <1>4, <1>8, <1>14, <1>15, <3>2, FollowsOne, Zenon
    <3> QED
      BY <3>1, <3>2
  <2>2. ToFall(k1) = ToFall(k) - 1
    BY <1>3, <1>4, <1>9, <1>11, <1>12, <1>15
  <2>3. (c.count - 1) * n \in Int /\ ToFall(k) \in Int
    BY <1>3, <1>11, <1>14
  <2> QED
    BY <1>13, <2>1, <2>2, <2>3
<1>16. CASE k.count = f + 1
  <2>1. ToFall(k) = 1 /\ k1.count = f /\ ToFall(k1) = n /\ m.levels = Fell
    BY <1>3, <1>4, <1>9, <1>11, <1>12, <1>16
  <2>2. c.count > 1
    <3>1. (c.count - 1) * n + 1 > 1
      BY <1>13, <2>1
    <3>2. c.count = 1 => (c.count - 1) * n = 0
      BY <1>3
    <3> QED
      BY <1>14, <3>1, <3>2
  <2>3. c1.count = c.count - 1
    <3>1. c.prev_in
      <4>1. k.count > f
        BY <1>3, <1>16
      <4>2. c.prev_in = (k.count > f)
        BY <1>2, Zenon DEF Divides, f
      <4> QED
        BY <4>1, <4>2, Zenon
    <3>2. c1 = Settled(ClockSignal(c, FALSE))
      BY <1>1, <1>8, <2>1, FollowsOne, Zenon
    <3>3. ClockSignal(c, FALSE).count = c.count - 1 /\ Ready(ClockSignal(c, FALSE))
      BY <1>1, <1>2, <2>2, <3>1, ChainedClockIs, ClockSignalIs
    <3> QED
      BY <3>2, <3>3, SettledIsWellFormed, Zenon DEF SameCount
  <2>4. (c.count - 1) * n = (c.count - 2) * n + n /\ (c.count - 2) * n \in Int
    BY <1>3, <1>14
  <2>5. (c.count - 1) - 1 = c.count - 2
    BY <1>14
  <2> QED
    BY <1>3, <1>13, <2>1, <2>3, <2>4, <2>5
<1> QED
  BY <1>15, <1>16

\* Nothing but the clock changes the clock input.
LEMMA ClockInputKept ==
    ASSUME IInv, [Next]_vars, ~Blank
    PROVE  counter'[1].prev_in = counter[1].prev_in
<1>1. /\ Typed /\ \A ch \in 0 .. 2 : WellFormed(counter[ch]) /\ Ready(counter[ch])
  BY CountersAreWellFormed DEF IInv
<1>2. ASSUME NEW ch \in 0 .. 2, NEW k, Ready(k), Becomes(ch, k),
             k.prev_in = counter[ch].prev_in
      PROVE  counter'[1].prev_in = counter[1].prev_in
  <2>1. counter'[ch] = Settled(k) /\ SameSetting(k, Settled(k))
    BY <1>1, <1>2, BecomesIs, SettledIsWellFormed
  <2>2. ch # 1 => counter'[1] = counter[1]
    BY <1>1, <1>2, BecomesIs
  <2> QED
    BY <1>2, <2>1, <2>2 DEF SameSetting
<1>3. CASE UNCHANGED vars
  BY <1>3 DEF vars
<1>4. ASSUME NEW ch \in 0 .. 2, NEW data \in Bytes, WriteCount(ch, data)
      PROVE  counter'[1].prev_in = counter[1].prev_in
  <2> DEFINE c == counter[ch]
             k == CountWritten(c, data)
  <2>1. Ready(c) /\ Becomes(ch, k)
    BY <1>1, <1>4 DEF WriteCount
  <2>2. Ready(k) /\ k.prev_in = ByteWritten(c, data).prev_in
    BY <2>1, CountWrittenIs DEF SameSetting
  <2>3. ByteWritten(c, data).prev_in = c.prev_in
    BY <2>1 DEF ByteWritten, Ready, Busy
  <2> HIDE DEF k
  <2> QED
    BY <1>2, <2>1, <2>2, <2>3
<1>5. ASSUME NEW ch \in 0 .. 2, NEW access \in Accesses, NEW mode \in Modes,
             WriteControl(ch, access, mode)
      PROVE  counter'[1].prev_in = counter[1].prev_in
  <2> DEFINE c == counter[ch]
             k == ControlWritten(c, access, mode)
  <2>1. Ready(c)
    BY <1>1
  <2> HIDE DEF c
  <2>2. LET n == ControlWritten(c, access, mode)
        IN  /\ Ready(n) /\ n.mode = mode /\ n.access = access /\ n.count_reg = 0
            /\ n.gate = c.gate /\ n.prev_in = c.prev_in
            /\ n.low_write = FALSE /\ n.high_write = FALSE /\ n.count_latched = FALSE
            /\ n.count = c.count /\ n.delay = c.delay /\ n.start = FALSE
            /\ n.prev_out = (mode # 0) /\ Len(n.levels) <= Len(c.levels) + 1
    BY <2>1, ControlWrittenIs
  <2>3. Ready(k) /\ k.prev_in = c.prev_in
    BY <2>2, Zenon
  <2>4. Becomes(ch, k)
    BY <1>5 DEF WriteControl, c
  <2> HIDE DEF k
  <2> QED
    BY <1>2, <2>3, <2>4 DEF c
<1>6. ASSUME NEW ch \in 0 .. 2, LatchCommand(ch)
      PROVE  counter'[1].prev_in = counter[1].prev_in
  <2> DEFINE k == IF ch = 0 THEN Refreshed(counter[ch]) ELSE counter[ch]
  <2>1. ~Due /\ Becomes(ch, Latched(k))
    BY <1>6 DEF LatchCommand, ProgramRuns
  <2>2. Ready(k)
    BY <1>1, <2>1, RefreshedIsReady
  <2>3. Ready(Latched(k)) /\ Latched(k).prev_in = k.prev_in
    BY <2>2, LatchedIs DEF SameSetting
  <2>4. ch = 1 => k = counter[1]
    OBVIOUS
  <2> HIDE DEF k
  <2>5. CASE ch = 1
    BY <1>2, <2>1, <2>3, <2>4, <2>5
  <2>6. CASE ch # 1
    BY <1>1, <2>1, <2>3, <2>6, BecomesIs
  <2> QED
    BY <2>5, <2>6
<1>7. ASSUME NEW ch \in 0 .. 2, ReadCount(ch)
      PROVE  counter'[1].prev_in = counter[1].prev_in
  <2> DEFINE c == counter[ch]
             k == IF ch = 0 /\ Latches(c) THEN Refreshed(c) ELSE c
             l == IF Latches(c) THEN Latched(k) ELSE k
  <2>1. ~Due /\ Becomes(ch, ByteRead(l))
    BY <1>7 DEF ReadCount, ProgramRuns, Latches
  <2>2. Ready(k)
    <3>1. CASE ch = 0 /\ Latches(c)
      BY <1>1, <2>1, <3>1, RefreshedIsReady
    <3>2. CASE ~(ch = 0 /\ Latches(c))
      BY <1>1, <3>2
    <3> QED
      BY <3>1, <3>2
  <2>3. ch = 1 => k = counter[1]
    OBVIOUS
  <2> HIDE DEF k
  <2>4. Ready(l) /\ l.prev_in = k.prev_in
    <3>1. Ready(Latched(k)) /\ Latched(k).prev_in = k.prev_in
      BY <2>2, LatchedIs DEF SameSetting
    <3> QED
      BY <2>2, <3>1
  <2> HIDE DEF l
  <2>5. Ready(ByteRead(l)) /\ ByteRead(l).prev_in = l.prev_in
    BY <2>4, ByteReadIs DEF SameSetting
  <2>6. CASE ch = 1
    BY <1>2, <2>1, <2>3, <2>4, <2>5, <2>6
  <2>7. CASE ch # 1
    BY <1>1, <2>1, <2>5, <2>7, BecomesIs
  <2> QED
    BY <2>6, <2>7
<1>8. ASSUME NEW signal \in Signals, WriteGate(signal)
      PROVE  counter'[1].prev_in = counter[1].prev_in
  <2> DEFINE k == GateChanged(counter[0], signal)
  <2>1. Ready(counter[0]) /\ Becomes(0, k)
    BY <1>1, <1>8 DEF WriteGate
  <2>2. Ready(k)
    BY <2>1, GateChangedIs
  <2> HIDE DEF k
  <2> QED
    BY <1>1, <2>1, <2>2, BecomesIs
<1>9. ASSUME EventCallback
      PROVE  counter'[1].prev_in = counter[1].prev_in
  <2> DEFINE k == InputClock(counter[0], timer.input_clk)
  <2>1. timer.pending /\ Becomes(0, k) /\ Ready(counter[0])
    BY <1>1, <1>9 DEF EventCallback, Due
  <2>2. k \in Busy /\ SameSetting(counter[0], k) /\ k.count \in 1 .. Full + 1
    BY <2>1, EventClocks, InputClockIs DEF Ready
  <2>3. Ready(k)
    BY <2>1, <2>2, CountedIsReady
  <2> HIDE DEF k
  <2> QED
    BY <1>1, <2>1, <2>3, BecomesIs
<1>10. ASSUME Tick
       PROVE  counter'[1].prev_in = counter[1].prev_in
  BY <1>10 DEF Tick
<1> QED
  BY <1>1, <1>3, <1>4, <1>5, <1>6, <1>7, <1>8, <1>9, <1>10, Steps

(***************************************************************************)
(* Chained counters count together: each clock of counter 1 is one less    *)
(* until counter 2 has finished, when counter 1 is loaded and when its     *)
(* output falls as well (i8253.cpp, input_clock() and write_signal()).     *)
(***************************************************************************)
THEOREM ChainKeepsCount == Spec => ChainCountsTogether
<1> DEFINE Together ==
             counter[1].prev_in /\ ~counter'[1].prev_in /\ Chained(counter) /\ Remaining(counter) > 1 =>
                 Remaining(counter') = Remaining(counter) - 1
<1>1. IInv /\ [Next]_vars => [Together]_vars
  BY ChainSteps, ClockInputKept
<1> QED
  BY <1>1, InvariantHolds, PTL DEF Spec, ChainCountsTogether
=============================================================================
