-------------------------- MODULE FrameClockProofs --------------------------
(***************************************************************************)
(* Proofs about module FrameClock: a frame is exact, the CPU and the       *)
(* events do not drift apart, and each scanline is at its place.           *)
(***************************************************************************)
EXTENDS FrameClock, FiniteSetTheorems, WellFoundedInduction, TLAPS

\* The smaller of two numbers, as MIN() of the C++ code.
LEMMA TwoMin ==
    ASSUME NEW a \in Int, NEW b \in Int
    PROVE  Min({a, b}) = IF a <= b THEN a ELSE b
<1>1. PICK m \in {a, b} : m = (IF a <= b THEN a ELSE b)
  OBVIOUS
<1>2. \A y \in {a, b} : m <= y
  BY <1>1
<1>3. \E x \in {a, b} : \A y \in {a, b} : x <= y
  BY <1>2
<1>4. Min({a, b}) \in {a, b} /\ \A y \in {a, b} : Min({a, b}) <= y
  BY <1>3 DEF Min
<1> QED
  BY <1>4

\* The larger of two numbers, as MAX() of the C++ code.
LEMMA TwoMax ==
    ASSUME NEW a \in Int, NEW b \in Int
    PROVE  Max({a, b}) = IF a >= b THEN a ELSE b
<1>1. PICK m \in {a, b} : m = (IF a >= b THEN a ELSE b)
  OBVIOUS
<1>2. \A y \in {a, b} : m >= y
  BY <1>1
<1>3. \E x \in {a, b} : \A y \in {a, b} : x >= y
  BY <1>2
<1>4. Max({a, b}) \in {a, b} /\ \A y \in {a, b} : Max({a, b}) >= y
  BY <1>3 DEF Max
<1> QED
  BY <1>4

\* The clock that the run so far accounts for, at a point of drive().
Accounted(label, clock) ==
    IF label = "enter"
    THEN /\ event_clocks_remain <= 0
         /\ clock = frames * clocks_per_frame
                    + (IF -event_clocks_remain > clocks_per_frame
                       THEN clocks_per_frame ELSE -event_clocks_remain)
    ELSE clock = (frames + 1) * clocks_per_frame
                 - (IF event_clocks_remain > 0 THEN event_clocks_remain ELSE 0)

Numbers ==
    /\ clocks_per_frame \in Nat /\ frames \in Nat
    /\ power \in Powers
    /\ event_clocks_remain \in Int /\ cpu_clocks_remain \in Int
    /\ cpu_clocks_accum \in Nat
    /\ cpu_clocks_in_op \in Int /\ spent \in Int

Account ==
    /\ pc \in {"idle", "enter", "loop", "op", "update"}
    /\ pc = "idle" =>
         event_clocks_remain <= 0 /\ event_clocks = frames * clocks_per_frame
    /\ pc = "update" => after \in {"enter", "loop", "op"} /\ Accounted(after, target)
    /\ pc \in {"enter", "loop", "op"} => Accounted(pc, event_clocks)

IInv == Numbers /\ Account

\* An event clock is a power of two of CPU clocks, by the five powers of cpu_power.
LEMMA PowerValues ==
    ASSUME power \in Powers
    PROVE  CpuClocksPerEventClock \in {1, 2, 4, 8, 16}
BY PowerAssumption DEF CpuClocksPerEventClock

\* Clocks that are applied are whole event clocks and a carry.
LEMMA Carry ==
    ASSUME NEW accum \in Nat, NEW p \in {1, 2, 4, 8, 16}
    PROVE  /\ accum \div p \in Nat /\ accum % p \in 0 .. p - 1
           /\ accum = (accum \div p) * p + (accum % p)
<1>1. CASE p = 1
  <2>1. accum \div 1 \in Nat /\ accum % 1 \in 0 .. 1 - 1
        /\ accum = (accum \div 1) * 1 + (accum % 1)
    OBVIOUS
  <2> QED
    BY <1>1, <2>1
<1>2. CASE p = 2
  <2>1. accum \div 2 \in Nat /\ accum % 2 \in 0 .. 2 - 1
        /\ accum = (accum \div 2) * 2 + (accum % 2)
    OBVIOUS
  <2> QED
    BY <1>2, <2>1
<1>3. CASE p = 4
  <2>1. accum \div 4 \in Nat /\ accum % 4 \in 0 .. 4 - 1
        /\ accum = (accum \div 4) * 4 + (accum % 4)
    OBVIOUS
  <2> QED
    BY <1>3, <2>1
<1>4. CASE p = 8
  <2>1. accum \div 8 \in Nat /\ accum % 8 \in 0 .. 8 - 1
        /\ accum = (accum \div 8) * 8 + (accum % 8)
    OBVIOUS
  <2> QED
    BY <1>4, <2>1
<1>5. CASE p = 16
  <2>1. accum \div 16 \in Nat /\ accum % 16 \in 0 .. 16 - 1
        /\ accum = (accum \div 16) * 16 + (accum % 16)
    OBVIOUS
  <2> QED
    BY <1>5, <2>1
<1> QED
  BY <1>1, <1>2, <1>3, <1>4, <1>5

\* initialize() sets up the account.
LEMMA InitIInv == Init => IInv
<1> SUFFICES ASSUME Init PROVE IInv
  OBVIOUS
<1>1. Numbers
  BY FrameAssumption DEF Init, Numbers
<1>2. Account
  BY <1>1 DEF Init, Account, Numbers
<1> QED
  BY <1>1, <1>2 DEF IInv

\* Applying clocks keeps the account, in the middle of an instruction and at
\* its end.
LEMMA ApplyStep ==
    ASSUME IInv, NEW clock \in Nat, NEW return \in {"loop", "op"}, pc = "op",
           Apply(clock, return),
           UNCHANGED <<config, speed, event_clocks, frames>>
    PROVE  /\ event_clocks_remain' \in Int /\ cpu_clocks_remain' \in Int
           /\ cpu_clocks_accum' \in Nat
           /\ Account'
<1> DEFINE p == CpuClocksPerEventClock
           accum == cpu_clocks_accum + clock
           done == accum \div p
<1>1. p \in {1, 2, 4, 8, 16}
  BY PowerValues DEF IInv, Numbers
<1>2. accum \in Nat
  BY DEF IInv, Numbers
<1> HIDE DEF p, accum
<1>3. done \in Nat /\ accum % p \in 0 .. p - 1
  BY <1>1, <1>2, Carry
<1>4. /\ cpu_clocks_remain' = cpu_clocks_remain - clock
      /\ cpu_clocks_accum' = accum % p
      /\ event_clocks_remain' = event_clocks_remain - done
      /\ IF done > 0 /\ event_clocks_remain > 0
         THEN UpdateEvent(Min({done, event_clocks_remain}), return)
         ELSE GoTo(return)
  BY DEF Apply, p, accum
<1> HIDE DEF done
<1>5. event_clocks_remain' \in Int /\ cpu_clocks_remain' \in Int /\ cpu_clocks_accum' \in Nat
  BY <1>1, <1>3, <1>4 DEF IInv, Numbers
<1>6. Accounted("op", event_clocks)
  BY DEF IInv, Account
<1>7. clocks_per_frame' = clocks_per_frame /\ frames' = frames /\ event_clocks' = event_clocks
  BY DEF config
<1>8. (frames + 1) * clocks_per_frame \in Int
  BY DEF IInv, Numbers
<1>9. CASE done > 0 /\ event_clocks_remain > 0
  <2>1. Min({done, event_clocks_remain})
          = IF done <= event_clocks_remain THEN done ELSE event_clocks_remain
    BY <1>3, TwoMin DEF IInv, Numbers
  <2>2. target' = event_clocks + (IF done <= event_clocks_remain
                                  THEN done ELSE event_clocks_remain)
    BY <1>4, <1>9, <2>1 DEF UpdateEvent
  <2>3. Accounted(return, target)'
    BY <1>3, <1>4, <1>6, <1>7, <1>8, <1>9, <2>2 DEF Accounted, IInv, Numbers
  <2>4. pc' = "update" /\ after' = return
    BY <1>4, <1>9 DEF UpdateEvent
  <2> QED
    BY <1>5, <2>3, <2>4 DEF Account
<1>10. CASE ~(done > 0 /\ event_clocks_remain > 0)
  <2>1. pc' = return
    BY <1>4, <1>10 DEF GoTo
  <2>2. Accounted(return, event_clocks)'
    BY <1>3, <1>4, <1>6, <1>7, <1>8, <1>10 DEF Accounted, IInv, Numbers
  <2> QED
    BY <1>5, <2>1, <2>2 DEF Account
<1> QED
  BY <1>5, <1>9, <1>10

\* Every step of drive(), of its callbacks and of a reset keeps the account.
LEMMA NextIInv == IInv /\ [Next]_vars => IInv'
<1> SUFFICES ASSUME IInv, [Next]_vars PROVE IInv'
  OBVIOUS
<1> USE DEF IInv, Numbers
<1>1. CASE BeginFrame
  <2>1. event_clocks_remain <= 0 /\ event_clocks = frames * clocks_per_frame
    BY <1>1 DEF BeginFrame, Account
  <2>2. Numbers'
    BY <1>1 DEF BeginFrame, account, config, speed
  <2>3. CASE event_clocks_remain < 0
    <3>1. Min({-event_clocks_remain, clocks_per_frame})
            = IF -event_clocks_remain <= clocks_per_frame
              THEN -event_clocks_remain ELSE clocks_per_frame
      BY TwoMin
    <3>2. /\ target' = event_clocks + (IF -event_clocks_remain <= clocks_per_frame
                                       THEN -event_clocks_remain ELSE clocks_per_frame)
          /\ pc' = "update" /\ after' = "enter"
      BY <1>1, <2>3, <3>1 DEF BeginFrame, UpdateEvent
    <3>3. Accounted("enter", target)'
      BY <1>1, <2>1, <2>3, <3>2 DEF BeginFrame, Accounted, account, config, speed
    <3> QED
      BY <2>2, <3>2, <3>3 DEF Account
  <2>4. CASE event_clocks_remain = 0
    <3>1. pc' = "enter" /\ event_clocks' = event_clocks
      BY <1>1, <2>4 DEF BeginFrame, GoTo
    <3>2. Accounted("enter", event_clocks)'
      BY <1>1, <2>1, <2>4, <3>1 DEF BeginFrame, Accounted, account, config, speed
    <3> QED
      BY <2>2, <3>1, <3>2 DEF Account
  <2> QED
    BY <2>1, <2>3, <2>4
<1>2. CASE EnterFrame
  <2>1. Accounted("enter", event_clocks)
    BY <1>2 DEF EnterFrame, Account
  <2>2. CpuClocksPerEventClock \in {1, 2, 4, 8, 16}
    BY PowerValues
  <2>3. Numbers'
    BY <1>2, <2>2 DEF EnterFrame, config, speed
  <2>4. /\ pc' = "loop" /\ event_clocks' = event_clocks
        /\ event_clocks_remain' = event_clocks_remain + clocks_per_frame
        /\ clocks_per_frame' = clocks_per_frame /\ frames' = frames
    BY <1>2 DEF EnterFrame, GoTo, config, speed
  <2>5. frames * clocks_per_frame \in Int
        /\ (frames + 1) * clocks_per_frame = frames * clocks_per_frame + clocks_per_frame
    OBVIOUS
  <2>6. Accounted("loop", event_clocks)'
    BY <2>1, <2>4, <2>5 DEF Accounted
  <2> QED
    BY <2>3, <2>4, <2>6 DEF Account
<1>3. CASE RunOpecode
  <2>1. Accounted("loop", event_clocks)
    BY <1>3 DEF RunOpecode, Account
  <2>2. Accounted("op", event_clocks)'
    BY <1>3, <2>1 DEF RunOpecode, Accounted, account, config, speed
  <2> QED
    BY <1>3, <2>2 DEF RunOpecode, GoTo, Account, account, config, speed
<1>4. CASE UpdateInOp
  <2>1. PICK clock \in 1 .. MaxOp - spent :
          /\ spent' = spent + clock
          /\ IF in_opecode
             THEN /\ cpu_clocks_in_op' = cpu_clocks_in_op + clock
                  /\ Apply(clock, "op")
             ELSE /\ GoTo("op")
                  /\ UNCHANGED <<account, cpu_clocks_in_op>>
    BY <1>4 DEF UpdateInOp
  <2>2. pc = "op" /\ UNCHANGED <<config, speed, event_clocks, frames>>
    BY <1>4 DEF UpdateInOp
  <2>3. clock \in Nat /\ spent' \in Int
    BY <2>1, BoundAssumption
  <2>4. CASE in_opecode
    BY <2>1, <2>2, <2>3, <2>4, ApplyStep DEF config, speed
  <2>5. CASE ~in_opecode
    <3>1. Accounted("op", event_clocks)
      BY <2>2 DEF Account
    <3>2. Accounted("op", event_clocks)'
      BY <2>1, <2>2, <2>5, <3>1 DEF Accounted, account, config, speed
    <3> QED
      BY <2>1, <2>2, <2>3, <2>5, <3>2 DEF GoTo, Account, account, config, speed
  <2> QED
    BY <2>4, <2>5
<1>5. CASE OpecodeDone
  <2>1. PICK total \in Max({1, spent}) .. MaxOp :
          IF total > cpu_clocks_in_op
          THEN Apply(total - cpu_clocks_in_op, "loop")
          ELSE GoTo("loop") /\ UNCHANGED account
    BY <1>5 DEF OpecodeDone
  <2>2. total \in Int
    BY <2>1, TwoMax, BoundAssumption
  <2>3. pc = "op" /\ UNCHANGED <<config, speed, event_clocks, cpu_clocks_in_op, spent, frames>>
    BY <1>5 DEF OpecodeDone
  <2>4. CASE total > cpu_clocks_in_op
    <3>1. total - cpu_clocks_in_op \in Nat
      BY <2>2, <2>4
    <3>2. Apply(total - cpu_clocks_in_op, "loop")
      BY <2>1, <2>4
    <3> QED
      BY <2>3, <3>1, <3>2, ApplyStep DEF config, speed
  <2>5. CASE ~(total > cpu_clocks_in_op)
    <3>1. Accounted("op", event_clocks)
      BY <2>3 DEF Account
    <3>2. Accounted("loop", event_clocks)'
      BY <2>1, <2>3, <2>5, <3>1 DEF Accounted, account, config, speed
    <3> QED
      BY <2>1, <2>3, <2>5, <3>2 DEF GoTo, Account, account, config, speed
  <2> QED
    BY <2>4, <2>5
<1>6. CASE SkipCpu
  <2>1. Accounted("loop", event_clocks) /\ event_clocks_remain > 0
    BY <1>6 DEF SkipCpu, Account
  <2>2. Accounted("loop", target)'
    BY <1>6, <2>1 DEF SkipCpu, UpdateEvent, Accounted, config, speed
  <2> QED
    BY <1>6, <2>2 DEF SkipCpu, UpdateEvent, Account, config, speed
<1>7. CASE EndFrame
  <2>1. Accounted("loop", event_clocks) /\ event_clocks_remain <= 0
    BY <1>7 DEF EndFrame, Account
  <2>2. event_clocks = (frames + 1) * clocks_per_frame
    BY <2>1 DEF Accounted
  <2> QED
    BY <1>7, <2>1, <2>2 DEF EndFrame, GoTo, Account, account, config, speed
<1>8. CASE NextVline
  <2>1. Accounted(after, target)'
    BY <1>8 DEF NextVline, Account, Accounted, account, config, speed
  <2> QED
    BY <1>8, <2>1 DEF NextVline, Account, account, config, speed
<1>9. CASE EndUpdate
  <2>1. Accounted(after, target) /\ after \in {"enter", "loop", "op"}
    BY <1>9 DEF EndUpdate, Account
  <2>2. Accounted(pc, event_clocks)'
    BY <1>9, <2>1 DEF EndUpdate, Accounted, account, config, speed
  <2> QED
    BY <1>9, <2>1, <2>2 DEF EndUpdate, Account, account, config, speed
<1>10. CASE UpdateConfig
  BY <1>10 DEF UpdateConfig, Account, config, speed
<1>11. CASE Reset
  BY <1>11 DEF Reset, Account, config, speed
<1>12. CASE UNCHANGED vars
  BY <1>12 DEF vars, account, config, speed, Account, Accounted
<1> QED
  BY <1>1, <1>2, <1>3, <1>4, <1>5, <1>6, <1>7, <1>8, <1>9, <1>10, <1>11, <1>12
     DEF Next, Drive

(***************************************************************************)
(* A frame lasts exactly clocks_per_frame event clocks, whatever the       *)
(* length of the instructions and the power of the CPU: when drive()       *)
(* returns, the machine clock is a multiple of it.                         *)
(***************************************************************************)
THEOREM FramesAreExact == Spec => []FrameExact
<1>1. IInv => FrameExact
  BY DEF IInv, Account, FrameExact
<1> QED
  BY InitIInv, NextIInv, <1>1, PTL DEF Spec
-----------------------------------------------------------------------------
Balanced ==
    /\ PowerBalance
    /\ ~repowered => cpu_clocks_accum < CpuClocksPerEventClock

(***************************************************************************)
(* The CPU's clocks follow the events': over any number of frames, and     *)
(* with every power, what the CPU has left in the frame is what the events *)
(* have left times the power, less the carry, as long as the power has not *)
(* changed since the last reset.                                           *)
(***************************************************************************)
THEOREM CpuKeepsPace == Spec => []PowerBalance
<1>1. Init => Balanced
  <2> SUFFICES ASSUME Init PROVE Balanced
    OBVIOUS
  <2>1. CpuClocksPerEventClock \in {1, 2, 4, 8, 16}
    BY PowerValues DEF Init
  <2> QED
    BY <2>1 DEF Init, Balanced, PowerBalance
<1>2. IInv /\ Balanced /\ [Next]_vars => Balanced'
  <2> SUFFICES ASSUME IInv, Balanced, [Next]_vars, ~repowered' PROVE Balanced'
    BY DEF Balanced, PowerBalance
  <2> DEFINE P == CpuClocksPerEventClock
  <2>1. P \in {1, 2, 4, 8, 16}
    BY PowerValues DEF IInv, Numbers
  <2>2. ~UpdateConfig
    BY DEF UpdateConfig
  <2>3. power' = power
    BY <2>2 DEF Next, Drive, BeginFrame, EnterFrame, RunOpecode, UpdateInOp, OpecodeDone,
                SkipCpu, EndFrame, NextVline, EndUpdate, Reset, vars, speed
  <2>4. P' = P
    BY <2>3 DEF CpuClocksPerEventClock
  <2>5. Reset \/ ~repowered
    BY <2>2 DEF Next, Drive, BeginFrame, EnterFrame, RunOpecode, UpdateInOp, OpecodeDone,
                SkipCpu, EndFrame, NextVline, EndUpdate, vars, speed
  <2>6. ASSUME NEW clock \in Nat, NEW return \in {"loop", "op"}, Apply(clock, return),
               ~repowered
        PROVE  Balanced'
    <3> DEFINE accum == cpu_clocks_accum + clock
               done == accum \div P
    <3>1. accum \in Nat
      BY DEF IInv, Numbers
    <3>2. /\ cpu_clocks_remain' = cpu_clocks_remain - clock
          /\ cpu_clocks_accum' = accum % P
          /\ event_clocks_remain' = event_clocks_remain - done
      BY <2>6 DEF Apply
    <3> HIDE DEF P
    <3>3. done \in Nat /\ accum % P \in 0 .. P - 1 /\ accum = done * P + (accum % P)
      BY <2>1, <3>1, Carry
    <3>4. cpu_clocks_remain + cpu_clocks_accum = event_clocks_remain * P
      BY <2>6 DEF Balanced, PowerBalance, P
    <3> HIDE DEF done
    <3>5. (event_clocks_remain - done) * P = event_clocks_remain * P - done * P
          /\ event_clocks_remain * P \in Int /\ done * P \in Int
      BY <2>1, <3>3 DEF IInv, Numbers
    <3>6. event_clocks_remain' * P = event_clocks_remain * P - done * P
      BY <3>2, <3>5
    <3>7. cpu_clocks_remain' + cpu_clocks_accum' = event_clocks_remain * P - done * P
      <4>1. /\ cpu_clocks_remain \in Int /\ cpu_clocks_accum \in Int
            /\ accum % P \in Int /\ clock \in Int
        BY <2>1, <3>3 DEF IInv, Numbers
      <4>2. cpu_clocks_accum + clock = done * P + (accum % P)
        BY <3>3
      <4> HIDE DEF accum
      <4> QED
        BY <3>2, <3>4, <3>5, <4>1, <4>2
    <3>8. cpu_clocks_remain' + cpu_clocks_accum' = event_clocks_remain' * P
      BY <3>6, <3>7
    <3>9. cpu_clocks_accum' < P
      BY <2>1, <3>2, <3>3
    <3> QED
      BY <2>4, <3>8, <3>9 DEF Balanced, PowerBalance, P
  <2>7. CASE UNCHANGED account /\ ~repowered
    BY <2>4, <2>7 DEF Balanced, PowerBalance, account
  <2>8. CASE EnterFrame /\ ~repowered
    <3>1. /\ cpu_clocks_remain' = cpu_clocks_remain + clocks_per_frame * P
          /\ event_clocks_remain' = event_clocks_remain + clocks_per_frame
          /\ cpu_clocks_accum' = cpu_clocks_accum
      BY <2>8 DEF EnterFrame
    <3> HIDE DEF P
    <3>2. cpu_clocks_remain + cpu_clocks_accum = event_clocks_remain * P /\ cpu_clocks_accum < P
      BY <2>8 DEF Balanced, PowerBalance, P
    <3>3. (event_clocks_remain + clocks_per_frame) * P
            = event_clocks_remain * P + clocks_per_frame * P
      BY <2>1 DEF IInv, Numbers
    <3>4. cpu_clocks_remain' + cpu_clocks_accum' = event_clocks_remain' * P
      BY <2>1, <3>1, <3>2, <3>3 DEF IInv, Numbers
    <3> QED
      BY <2>4, <3>1, <3>2, <3>4 DEF Balanced, PowerBalance, P
  <2>9. SkipCpu => repowered
    <3>1. ASSUME SkipCpu, ~repowered PROVE FALSE
      <4>1. event_clocks_remain > 0 /\ cpu_clocks_remain <= 0
        BY <3>1 DEF SkipCpu
      <4> HIDE DEF P
      <4>2. cpu_clocks_remain + cpu_clocks_accum = event_clocks_remain * P
            /\ cpu_clocks_accum < P
        BY <3>1 DEF Balanced, PowerBalance, P
      <4>3. event_clocks_remain * P >= P
        BY <2>1, <4>1 DEF IInv, Numbers
      <4> QED
        BY <2>1, <4>1, <4>2, <4>3 DEF IInv, Numbers
    <3> QED
      BY <3>1
  <2>10. CASE UpdateInOp /\ ~repowered
    <3>1. PICK clock \in 1 .. MaxOp - spent :
            Apply(clock, "op") \/ UNCHANGED account
      BY <2>10 DEF UpdateInOp
    <3>2. clock \in Nat
      BY BoundAssumption DEF IInv, Numbers
    <3> QED
      BY <2>6, <2>7, <2>10, <3>1, <3>2
  <2>11. CASE OpecodeDone /\ ~repowered
    <3>1. PICK total \in Max({1, spent}) .. MaxOp :
            IF total > cpu_clocks_in_op
            THEN Apply(total - cpu_clocks_in_op, "loop")
            ELSE UNCHANGED account
      BY <2>11 DEF OpecodeDone
    <3>2. total \in Int /\ cpu_clocks_in_op \in Int
      BY <3>1, TwoMax, BoundAssumption DEF IInv, Numbers
    <3>3. CASE total > cpu_clocks_in_op
      <4>1. total - cpu_clocks_in_op \in Nat /\ Apply(total - cpu_clocks_in_op, "loop")
        BY <3>1, <3>2, <3>3
      <4> QED
        BY <2>6, <2>11, <4>1
    <3> QED
      BY <2>7, <2>11, <3>1, <3>3
  <2>12. CASE Reset
    <3>1. event_clocks_remain' = 0 /\ cpu_clocks_remain' = 0 /\ cpu_clocks_accum' = 0
      BY <2>12 DEF Reset
    <3> QED
      BY <2>1, <2>4, <3>1 DEF Balanced, PowerBalance
  <2>13. BeginFrame \/ RunOpecode \/ EndFrame \/ NextVline \/ EndUpdate \/ UNCHANGED vars
           => UNCHANGED account
    BY DEF BeginFrame, RunOpecode, EndFrame, NextVline, EndUpdate, vars
  <2> QED
    BY <2>2, <2>5, <2>7, <2>8, <2>9, <2>10, <2>11, <2>12, <2>13 DEF Next, Drive
<1>3. Balanced => PowerBalance
  BY DEF Balanced
<1> QED
  BY InitIInv, NextIInv, <1>1, <1>2, <1>3, PTL DEF Spec

-----------------------------------------------------------------------------
(* How the clocks of a frame are dealt out to its scanlines. *)

\* Every set of numbers has a least one.
LEMMA LeastOfNat ==
    ASSUME NEW T, T \subseteq Nat, T # {}
    PROVE  \E x \in T : \A y \in T : x <= y
<1> DEFINE R == OpToRel(<, Nat)
<1>1. IsWellFoundedOn(R, Nat)
  BY NatLessThanWellFounded
<1>2. \A x, y \in Nat : <<x, y>> \in R <=> x < y
  BY DEF OpToRel
<1> HIDE DEF R
<1>3. PICK x \in T : \A y \in T : ~(<<y, x>> \in R)
  BY <1>1, WFMin, Zenon
<1>4. \A y \in T : ~(y < x)
  BY <1>2, <1>3, Zenon
<1> QED
  BY <1>4

\* Quotient and remainder.
LEMMA Quotient ==
    ASSUME NEW a \in Nat, NEW b \in Nat \ {0}
    PROVE  /\ a \div b \in Nat /\ a % b \in 0 .. b - 1
           /\ a = b * (a \div b) + (a % b)
           /\ b * (a \div b) <= a /\ a < b * (a \div b) + b
OBVIOUS

\* The number of sums: those of the scanlines before one.
LEMMA StartsExist ==
    ASSUME NEW clocks, NEW n \in Nat
    PROVE  \E f : f = [k \in 0 .. n |-> IF k = 0 THEN 0 ELSE f[k - 1] + clocks[k - 1]]
<1> DEFINE Exists(l) ==
             \E f : f = [k \in 0 .. l |-> IF k = 0 THEN 0 ELSE f[k - 1] + clocks[k - 1]]
           bad == {l \in Nat : ~Exists(l)}
<1>1. SUFFICES ASSUME bad # {} PROVE FALSE
  OBVIOUS
<1>2. PICK l \in bad : \A k \in bad : l <= k
  <2>1. bad \subseteq Nat
    OBVIOUS
  <2> HIDE DEF bad
  <2> QED
    BY <1>1, <2>1, LeastOfNat
<1>3. CASE l = 0
  <2> DEFINE f == [k \in 0 .. 0 |-> 0]
  <2>1. f = [k \in 0 .. 0 |-> IF k = 0 THEN 0 ELSE f[k - 1] + clocks[k - 1]]
    OBVIOUS
  <2> HIDE DEF f
  <2> QED
    BY <1>2, <1>3, <2>1
<1>4. CASE l # 0
  <2>1. l \in Nat /\ l - 1 \in Nat /\ l - 1 \notin bad
    <3> HIDE DEF Exists
    <3>1. l \in Nat /\ l - 1 \in Nat /\ ~(l <= l - 1)
      BY <1>2, <1>4
    <3> HIDE DEF bad
    <3> QED
      BY <1>2, <3>1
  <2>2. PICK f : f = [k \in 0 .. l - 1 |-> IF k = 0 THEN 0 ELSE f[k - 1] + clocks[k - 1]]
    BY <2>1
  <2> DEFINE g == [k \in 0 .. l |-> IF k = l THEN f[l - 1] + clocks[l - 1] ELSE f[k]]
  <2>3. ASSUME NEW k \in 0 .. l
        PROVE  g[k] = IF k = 0 THEN 0 ELSE g[k - 1] + clocks[k - 1]
    <3>1. CASE k = l
      <4>1. l - 1 \in 0 .. l /\ l - 1 # l
        BY <2>1
      <4>2. g[l - 1] = f[l - 1]
        BY <4>1
      <4> QED
        BY <1>4, <3>1, <4>2
    <3>2. CASE k # l
      <4>1. k \in 0 .. l - 1 /\ g[k] = f[k]
        BY <2>1, <3>2
      <4>2. f[k] = IF k = 0 THEN 0 ELSE f[k - 1] + clocks[k - 1]
        BY <2>2, <4>1
      <4>3. k # 0 => k - 1 \in 0 .. l /\ k - 1 # l
        BY <2>1, <4>1
      <4>4. k # 0 => g[k - 1] = f[k - 1]
        BY <4>3
      <4> HIDE DEF g
      <4> QED
        BY <4>1, <4>2, <4>4
    <3> QED
      BY <3>1, <3>2
  <2>4. g = [k \in 0 .. l |-> g[k]]
    OBVIOUS
  <2> HIDE DEF g
  <2>5. g = [k \in 0 .. l |-> IF k = 0 THEN 0 ELSE g[k - 1] + clocks[k - 1]]
    BY <2>3, <2>4
  <2> QED
    BY <1>2, <2>5
<1> QED
  BY <1>3, <1>4

\* Each scanline begins where the one before it ends.
LEMMA StartsAre ==
    ASSUME NEW clocks, NEW n \in Nat, Cardinality(DOMAIN clocks) = n
    PROVE  /\ LineStarts(clocks)[0] = 0
           /\ \A k \in 1 .. n : LineStarts(clocks)[k] = LineStarts(clocks)[k - 1] + clocks[k - 1]
<1> DEFINE start == CHOOSE f : f = [k \in 0 .. n |-> IF k = 0 THEN 0 ELSE f[k - 1] + clocks[k - 1]]
<1>1. LineStarts(clocks) = start
  BY Zenon DEF LineStarts
<1>2. start = [k \in 0 .. n |-> IF k = 0 THEN 0 ELSE start[k - 1] + clocks[k - 1]]
  BY StartsExist
<1> HIDE DEF start
<1>3. 0 \in 0 .. n /\ \A k \in 1 .. n : k \in 0 .. n /\ k # 0
  OBVIOUS
<1> QED
  BY <1>1, <1>2, <1>3

\* The lines that get one clock more are different lines.
LEMMA ExtraLines ==
    ASSUME NEW l \in Nat \ {0}, NEW r \in 1 .. l - 1
    PROVE  /\ \A i \in 0 .. r - 1 : (l * i) \div r \in 0 .. l - 1
           /\ \A i, j \in 0 .. r - 1 : (l * i) \div r = (l * j) \div r => i = j
<1>1. ASSUME NEW i \in 0 .. r - 1
      PROVE  /\ l * i \in Nat /\ (l * i) \div r \in Nat
             /\ r * ((l * i) \div r) <= l * i /\ l * i < r * ((l * i) \div r) + r
  <2>1. l * i \in Nat /\ r \in Nat \ {0}
    OBVIOUS
  <2> QED
    BY <2>1, Quotient
<1>2. ASSUME NEW i \in 0 .. r - 1 PROVE (l * i) \div r \in 0 .. l - 1
  <2> DEFINE h == (l * i) \div r
  <2>1. h \in Nat /\ r * h <= l * i /\ r \in Nat \ {0} /\ i \in Nat /\ i < r
    BY <1>1
  <2> HIDE DEF h
  <2>2. l * i < l * r
    BY <2>1
  <2>3. h >= l => r * h >= r * l
    BY <2>1
  <2>4. l * r = r * l /\ l * i \in Int /\ r * h \in Int /\ l * r \in Int
    BY <2>1
  <2>5. h < l
    BY <2>1, <2>2, <2>3, <2>4
  <2> QED
    BY <2>1, <2>5 DEF h
<1>3. ASSUME NEW i \in 0 .. r - 1, NEW j \in 0 .. r - 1, i < j
      PROVE  (l * i) \div r # (l * j) \div r
  <2> DEFINE h == (l * i) \div r
             g == (l * j) \div r
  <2>1. /\ h \in Nat /\ r * h <= l * i /\ l * i \in Nat
        /\ l * j < r * g + r /\ l * j \in Nat /\ g \in Nat /\ r * h \in Int
    BY <1>1
  <2>2. l * j >= l * i + l
    <3>1. l * j = l * i + l * (j - i) /\ j - i >= 1
      BY <1>3
    <3>2. l * (j - i) >= l
      BY <3>1
    <3> QED
      BY <2>1, <3>1, <3>2
  <2> HIDE DEF h, g
  <2>3. SUFFICES ASSUME h = g PROVE FALSE
    BY DEF h, g
  <2> QED
    BY <2>1, <2>2, <2>3
<1>4. ASSUME NEW i \in 0 .. r - 1, NEW j \in 0 .. r - 1, (l * i) \div r = (l * j) \div r
      PROVE  i = j
  <2>1. i < j \/ j < i \/ i = j
    OBVIOUS
  <2> QED
    BY <1>3, <1>4, <2>1
<1> QED
  BY <1>2, <1>4

\* The scanlines get all clocks of the frame, in two sizes that differ by one.
Tiled(f, l, c) ==
    /\ DOMAIN c = 0 .. l - 1 /\ Cardinality(DOMAIN c) = l
    /\ \A j \in 0 .. l - 1 : c[j] \in Nat /\ 1 <= c[j] /\ c[j] \in {f \div l, f \div l + 1}
    /\ \A k \in 0 .. l : LineStarts(c)[k] \in Nat /\ LineStarts(c)[k] <= f
    /\ LineStarts(c)[0] = 0 /\ LineStarts(c)[l] = f
    /\ \A k \in 0 .. l - 1 : LineStarts(c)[k + 1] = LineStarts(c)[k] + c[k]

\* So a line has one clock more than another at most, and the sums end at the frame.
LEMMA DealtOut ==
    ASSUME NEW f \in Nat, NEW l \in Nat \ {0}, l <= f
    PROVE  Tiled(f, l, ClocksPerVline(f, l))
<1> DEFINE c == ClocksPerVline(f, l)
           q == f \div l
           r == f - q * l
           h(i) == (l * i) \div r
           more(j) == {i \in 0 .. r - 1 : h(i) = j}
           early(k) == {i \in 0 .. r - 1 : h(i) < k}
           s == LineStarts(c)
<1>1. q \in Nat /\ r \in 0 .. l - 1 /\ f = l * q + r /\ q * l = l * q /\ l * q \in Nat
  <2>1. q \in Nat /\ l * q <= f /\ f < l * q + l /\ l * q \in Nat
    BY Quotient
  <2>2. q * l = l * q
    BY <2>1
  <2> QED
    BY <2>1, <2>2
<1>2. q >= 1
  <2> HIDE DEF r, q
  <2>1. q = 0 => l * q = 0
    OBVIOUS
  <2> QED
    BY <1>1, <2>1
<1>3. c = [j \in 0 .. l - 1 |-> q + Cardinality(more(j))]
  BY DEF ClocksPerVline
<1> HIDE DEF q, r, c
<1>4. /\ IsFiniteSet(0 .. r - 1) /\ Cardinality(0 .. r - 1) = r
      /\ Cardinality(0 .. l - 1) = l
  <2>1. r \in Nat /\ r - 1 \in Int /\ l - 1 \in Int /\ (0 > r - 1 <=> r = 0) /\ ~(0 > l - 1)
    BY <1>1
  <2>2. ASSUME NEW a \in Int
        PROVE  IsFiniteSet(0 .. a) /\ Cardinality(0 .. a) = IF 0 > a THEN 0 ELSE a - 0 + 1
    <3>1. 0 \in Int
      OBVIOUS
    <3> QED
      BY <3>1, FS_Interval, Zenon
  <2>3. /\ IsFiniteSet(0 .. r - 1)
        /\ Cardinality(0 .. r - 1) = IF 0 > r - 1 THEN 0 ELSE (r - 1) - 0 + 1
    BY <2>1, <2>2
  <2>4. Cardinality(0 .. l - 1) = IF 0 > l - 1 THEN 0 ELSE (l - 1) - 0 + 1
    BY <2>1, <2>2
  <2> QED
    BY <2>1, <2>3, <2>4
<1>5. r # 0 => /\ \A i \in 0 .. r - 1 : h(i) \in 0 .. l - 1
               /\ \A i, j \in 0 .. r - 1 : h(i) = h(j) => i = j
  BY <1>1, ExtraLines
<1> HIDE DEF h
<1>6. ASSUME NEW j \in Nat
      PROVE  more(j) = {} \/ \E i \in 0 .. r - 1 : more(j) = {i}
  BY <1>1, <1>5
<1>7. ASSUME NEW j \in Nat PROVE Cardinality(more(j)) \in {0, 1}
  <2>1. Cardinality({}) = 0 /\ \A i : Cardinality({i}) = 1
    BY FS_EmptySet, FS_Singleton
  <2> HIDE DEF more
  <2> QED
    BY <1>6, <2>1
<1>8. ASSUME NEW k \in Nat
      PROVE  /\ IsFiniteSet(early(k)) /\ Cardinality(early(k)) \in Nat /\ Cardinality(early(k)) <= r
             /\ Cardinality(early(k + 1)) = Cardinality(early(k)) + Cardinality(more(k))
  <2>1. early(k) \subseteq 0 .. r - 1
    OBVIOUS
  <2>2. IsFiniteSet(early(k)) /\ Cardinality(early(k)) \in Nat /\ Cardinality(early(k)) <= r
    <3> HIDE DEF early
    <3> QED
      BY <1>4, <2>1, FS_Subset, FS_CardinalityType
  <2>3. \A i \in 0 .. r - 1 : r # 0 /\ h(i) \in Nat
    BY <1>1, <1>5
  <2>4. early(k + 1) = early(k) \cup more(k)
    BY <2>3
  <2>5. CASE more(k) = {}
    <3>1. early(k + 1) = early(k) /\ Cardinality(more(k)) = 0
      <4> HIDE DEF early, more
      <4> QED
        BY <2>4, <2>5, FS_EmptySet
    <3> HIDE DEF early, more
    <3> QED
      BY <2>2, <3>1
  <2>6. CASE more(k) # {}
    <3>1. PICK i \in 0 .. r - 1 : more(k) = {i}
      BY <1>6, <2>6
    <3>2. i \notin early(k)
      BY <3>1
    <3> HIDE DEF early, more
    <3>3. early(k + 1) = early(k) \cup {i} /\ Cardinality(more(k)) = 1
      BY <2>4, <3>1, FS_Singleton
    <3>4. Cardinality(early(k) \cup {i}) = Cardinality(early(k)) + 1
      BY <2>2, <3>2, FS_AddElement
    <3> QED
      BY <2>2, <3>3, <3>4
  <2> QED
    BY <2>2, <2>5, <2>6
<1>9. Cardinality(early(0)) = 0 /\ Cardinality(early(l)) = r
  <2>1. \A i \in 0 .. r - 1 : r # 0 /\ h(i) \in 0 .. l - 1
    BY <1>1, <1>5
  <2>2. early(0) = {} /\ early(l) = 0 .. r - 1
    BY <2>1
  <2> HIDE DEF early
  <2> QED
    BY <1>4, <2>2, FS_EmptySet
<1> HIDE DEF more, early
<1>10. DOMAIN c = 0 .. l - 1 /\ Cardinality(DOMAIN c) = l /\ \A j \in 0 .. l - 1 : c[j] = q + Cardinality(more(j))
  BY <1>3, <1>4
<1>11. s[0] = 0 /\ \A k \in 1 .. l : s[k] = s[k - 1] + c[k - 1]
  BY <1>10, StartsAre
<1> HIDE DEF s
<1>12. ASSUME NEW k \in 0 .. l PROVE s[k] = k * q + Cardinality(early(k))
  <2> DEFINE Right(j) == s[j] = j * q + Cardinality(early(j))
             bad == {j \in 0 .. l : ~Right(j)}
  <2>1. SUFFICES ASSUME bad # {} PROVE FALSE
    OBVIOUS
  <2>2. PICK j \in bad : \A i \in bad : j <= i
    <3>1. bad \subseteq Nat
      OBVIOUS
    <3> HIDE DEF bad
    <3> QED
      BY <2>1, <3>1, LeastOfNat
  <2>3. j # 0
    <3>1. 0 * q = 0
      BY <1>1
    <3> QED
      BY <1>9, <1>11, <2>2, <3>1
  <2>4. j \in 1 .. l /\ j - 1 \in 0 .. l /\ j - 1 \in Nat /\ ~(j <= j - 1)
    BY <2>2, <2>3
  <2>5. s[j - 1] = (j - 1) * q + Cardinality(early(j - 1))
    BY <2>2, <2>4
  <2>6. s[j] = s[j - 1] + c[j - 1] /\ c[j - 1] = q + Cardinality(more(j - 1))
    BY <1>10, <1>11, <2>4
  <2>7. /\ Cardinality(early(j)) = Cardinality(early(j - 1)) + Cardinality(more(j - 1))
        /\ Cardinality(early(j - 1)) \in Nat /\ Cardinality(more(j - 1)) \in Nat
    <3>1. (j - 1) + 1 = j
      BY <2>4
    <3> QED
      BY <1>7, <1>8, <2>4, <3>1
  <2>8. j * q = (j - 1) * q + q /\ (j - 1) * q \in Nat
    BY <1>1, <2>4
  <2>9. Right(j)
    BY <1>1, <2>5, <2>6, <2>7, <2>8
  <2> QED
    BY <2>2, <2>9
<1>13. s[l] = f
  BY <1>1, <1>9, <1>12
<1>14. ASSUME NEW k \in 0 .. l PROVE s[k] \in Nat /\ s[k] <= f
  <2>1. k * q \in Nat /\ k * q <= l * q
    BY <1>1
  <2>2. Cardinality(early(k)) \in Nat /\ Cardinality(early(k)) <= r
    BY <1>8
  <2>3. s[k] = k * q + Cardinality(early(k))
    BY <1>12
  <2>4. f = l * q + r /\ l * q \in Nat /\ r \in Nat
    BY <1>1
  <2> QED
    BY <2>1, <2>2, <2>3, <2>4
<1>15. ASSUME NEW j \in 0 .. l - 1
       PROVE  c[j] \in Nat /\ 1 <= c[j] /\ c[j] \in {q, q + 1}
  BY <1>1, <1>2, <1>7, <1>10
<1>16. \A k \in 0 .. l - 1 : s[k + 1] = s[k] + c[k]
  <2>1. \A k \in 0 .. l - 1 : k + 1 \in 1 .. l /\ (k + 1) - 1 = k
    OBVIOUS
  <2> QED
    BY <1>11, <2>1
<1> QED
  BY <1>10, <1>11, <1>13, <1>14, <1>15, <1>16 DEF s, q, c, Tiled

-----------------------------------------------------------------------------
(* The scanlines in the frame. *)

\* A device that reads the wrapped clock sees the clocks passed since.
LEMMA PassedSince ==
    ASSUME 2 ^ Width \in Nat \ {0}, event_clocks \in Nat, NEW start \in Nat,
           start <= event_clocks, event_clocks - start < 2 ^ Width
    PROVE  /\ PassedClock(start % (2 ^ Width)) = event_clocks - start
           /\ start % (2 ^ Width) \in Nat
<1> DEFINE w == 2 ^ Width
           c == event_clocks % w
           v == start % w
           d == event_clocks - start
           k == (event_clocks \div w) - (start \div w)
<1>1. PassedClock(v) = IF c > v THEN c - v ELSE (c + (w - 1 - v) + 1) % w
  BY DEF PassedClock, CurrentClock
<1>2. w \in Nat \ {0} /\ d \in Nat /\ d < w
  OBVIOUS
<1> HIDE DEF w
<1>3. /\ c \in 0 .. w - 1 /\ event_clocks = w * (event_clocks \div w) + c /\ event_clocks \div w \in Nat
      /\ v \in 0 .. w - 1 /\ start = w * (start \div w) + v /\ start \div w \in Nat
  BY <1>2, Quotient
<1>4. w * (event_clocks \div w) - w * (start \div w) = w * k /\ k \in Int
  BY <1>2, <1>3
<1>5. d = w * k + c - v
  BY <1>2, <1>3, <1>4
<1> HIDE DEF c, v, k, d
<1>6. w * k \in Int /\ (k >= 2 => w * k >= w + w) /\ (k <= -1 => w * k <= -w)
      /\ (k = 0 => w * k = 0) /\ (k = 1 => w * k = w)
  BY <1>2, <1>4
<1>7. CASE c > v
  <2>1. k = 0
    BY <1>2, <1>3, <1>4, <1>5, <1>6, <1>7
  <2> QED
    BY <1>1, <1>3, <1>5, <1>6, <1>7, <2>1 DEF d, w, v
<1>8. CASE ~(c > v)
  <2>1. k = 0 \/ k = 1
    BY <1>2, <1>3, <1>4, <1>5, <1>6, <1>8
  <2>2. CASE k = 0
    <3>1. d = 0 /\ c = v
      BY <1>2, <1>3, <1>5, <1>6, <1>8, <2>2
    <3>2. c + (w - 1 - v) + 1 = w /\ w % w = 0
      BY <1>2, <1>3, <3>1
    <3> QED
      BY <1>1, <1>3, <1>8, <3>1, <3>2 DEF d, w, v
  <2>3. CASE k = 1
    <3>1. c + (w - 1 - v) + 1 = d
      BY <1>2, <1>3, <1>5, <1>6, <2>3
    <3>2. d % w = d
      BY <1>2
    <3> QED
      BY <1>1, <1>3, <1>8, <3>1, <3>2 DEF d, w, v
  <2> QED
    BY <2>1, <2>2, <2>3
<1> QED
  BY <1>3, <1>7, <1>8

\* The scanlines are those that drive() dealt out for the frame.
Dealt ==
    /\ clocks_per_frame \in FrameClocks
    /\ \E l \in Lines : clocks_per_vline = ClocksPerVline(clocks_per_frame, l)

\* What the later steps need of them.
LEMMA VlineFacts ==
    ASSUME Dealt
    PROVE  /\ clocks_per_frame \in Nat /\ LastLine \in Nat
           /\ DOMAIN clocks_per_vline = 0 .. LastLine
           /\ \A j \in 0 .. LastLine :
                 /\ clocks_per_vline[j] \in Nat /\ 1 <= clocks_per_vline[j]
                 /\ LineStart(j) \in Nat /\ LineStart(j + 1) \in Nat
                 /\ LineStart(j + 1) = LineStart(j) + clocks_per_vline[j]
                 /\ LineStart(j + 1) <= clocks_per_frame
           /\ \A i, j \in 0 .. LastLine : clocks_per_vline[i] <= clocks_per_vline[j] + 1
           /\ LineStart(0) = 0 /\ LineStart(LastLine + 1) = clocks_per_frame
<1> DEFINE f == clocks_per_frame
           c == clocks_per_vline
<1>1. PICK l \in Lines : c = ClocksPerVline(f, l)
  BY DEF Dealt
<1>2. f \in Nat /\ l \in Nat \ {0} /\ l <= f
  BY FrameAssumption DEF Dealt
<1> HIDE DEF f, c
<1>3. Tiled(f, l, c)
  BY <1>1, <1>2, DealtOut
<1>4. LastLine = l - 1 /\ LastLine \in Nat /\ LastLine + 1 = l
  BY <1>2, <1>3 DEF LastLine, c, Tiled
<1>5. \A j : LineStart(j) = LineStarts(c)[j]
  BY DEF LineStart, c
<1>6. \A j \in 0 .. LastLine : j \in 0 .. l - 1 /\ j \in 0 .. l /\ j + 1 \in 0 .. l
  BY <1>2, <1>4
<1>7. \A i, j \in 0 .. LastLine : c[i] <= c[j] + 1
  <2>1. f \div l \in Nat
    BY <1>2, Quotient
  <2> QED
    BY <1>3, <1>6, <2>1 DEF Tiled
<1>8. \A j \in 0 .. LastLine :
         /\ c[j] \in Nat /\ 1 <= c[j]
         /\ LineStart(j) \in Nat /\ LineStart(j + 1) \in Nat
         /\ LineStart(j + 1) = LineStart(j) + c[j]
         /\ LineStart(j + 1) <= f
  BY <1>3, <1>5, <1>6 DEF Tiled
<1> QED
  BY <1>2, <1>3, <1>4, <1>5, <1>7, <1>8 DEF f, c, Tiled

\* The clocks at which the frame, its current scanline and the next one begin.
FrameStart == (IF pc = "idle" THEN frames - 1 ELSE frames) * clocks_per_frame
VlineStart == FrameStart + LineStart(cur_vline)
VlineEnd == VlineStart + clocks_per_vline[cur_vline]

\* The scanline and the event that ends it.
Began ==
    /\ vline_start_clock = VlineStart % (2 ^ Width)
    /\ VlineStart <= event_clocks /\ event_clocks <= VlineEnd
    /\ vline_events = IF cur_vline < LastLine THEN {VlineEnd} ELSE {}
    /\ pc # "update" /\ cur_vline < LastLine => event_clocks < VlineEnd
    /\ pc = "idle" => cur_vline = LastLine
    /\ pc = "update" => target \in Nat /\ event_clocks <= target

\* Before the first frame after a reset there is no scanline yet.
Vlines ==
    /\ Dealt /\ event_clocks \in Nat
    /\ cur_vline \in 0 .. LastLine
    /\ IF frames = 0 /\ pc = "idle" THEN vline_events = {} ELSE Began

LEMMA InitVlines == Init => Vlines
<1> SUFFICES ASSUME Init PROVE Vlines
  OBVIOUS
<1>1. Dealt
  BY DEF Init, Dealt
<1> QED
  BY <1>1, VlineFacts DEF Init, Vlines

\* A frame is never overrun: where an update leads to is in the frame.
LEMMA TargetInFrame ==
    ASSUME IInv, pc = "update", target \in Nat
    PROVE  target <= FrameStart + clocks_per_frame /\ after \in {"enter", "loop", "op"}
<1>1. /\ after \in {"enter", "loop", "op"} /\ Accounted(after, target)
      /\ clocks_per_frame \in Nat /\ frames \in Nat /\ event_clocks_remain \in Int
  BY DEF IInv, Account, Numbers
<1>2. FrameStart = frames * clocks_per_frame
  BY DEF FrameStart
<1>3. /\ (frames + 1) * clocks_per_frame = frames * clocks_per_frame + clocks_per_frame
      /\ frames * clocks_per_frame \in Nat
  BY <1>1
<1> QED
  BY <1>1, <1>2, <1>3 DEF Accounted

\* Steps that leave the scanline and the clock alone.
LEMMA QuietVlines ==
    ASSUME Vlines, UNCHANGED <<config, event_clocks, vline, frames>>,
           \/ pc' = pc /\ target' = target
           \/ /\ pc \notin {"idle", "update"} /\ pc' # "idle"
              /\ pc' = "update" => target' \in Nat /\ event_clocks <= target'
    PROVE  Vlines'
<1>1. /\ clocks_per_frame' = clocks_per_frame /\ clocks_per_vline' = clocks_per_vline
      /\ event_clocks' = event_clocks /\ frames' = frames
      /\ cur_vline' = cur_vline /\ vline_start_clock' = vline_start_clock
      /\ vline_events' = vline_events
  BY DEF config, vline
<1>2. /\ LastLine' = LastLine /\ LineStart(cur_vline)' = LineStart(cur_vline)
      /\ Dealt' = Dealt
  BY <1>1 DEF LastLine, LineStart, Dealt
<1>3. FrameStart' = FrameStart
  BY <1>1 DEF FrameStart
<1>4. VlineStart' = VlineStart /\ VlineEnd' = VlineEnd
  BY <1>1, <1>2, <1>3 DEF VlineStart, VlineEnd
<1>5. Began => Began'
  BY <1>1, <1>2, <1>4 DEF Began
<1> QED
  BY <1>1, <1>2, <1>5 DEF Vlines

\* The first scanline begins with the frame.
LEMMA BeginVlines == ASSUME IInv, Vlines, BeginFrame PROVE Vlines'
<1>1. /\ clocks_per_frame' = clocks_per_frame /\ clocks_per_vline' = clocks_per_vline
      /\ event_clocks' = event_clocks /\ frames' = frames /\ pc = "idle"
      /\ StartVline(0, vline_events)
  BY DEF BeginFrame, config
<1>2. event_clocks = frames * clocks_per_frame /\ event_clocks_remain <= 0
      /\ event_clocks_remain \in Int /\ frames \in Nat
  BY <1>1 DEF IInv, Account, Numbers
<1>3. vline_events = {} /\ Dealt /\ event_clocks \in Nat
  BY <1>1 DEF Vlines, Began
<1>4. LastLine' = LastLine /\ LineStart(0)' = LineStart(0) /\ Dealt'
  BY <1>1, <1>3 DEF LastLine, LineStart, Dealt
<1>5. /\ LastLine \in Nat /\ 0 \in 0 .. LastLine /\ LineStart(0) = 0
      /\ clocks_per_vline[0] \in Nat /\ 1 <= clocks_per_vline[0]
      /\ clocks_per_frame \in Nat
  BY <1>3, VlineFacts
<1>6. /\ pc' \in {"update", "enter"}
      /\ pc' = "update" => target' \in Nat /\ event_clocks <= target'
  <2>1. CASE event_clocks_remain < 0
    <3>1. Min({-event_clocks_remain, clocks_per_frame})
            = IF -event_clocks_remain <= clocks_per_frame
              THEN -event_clocks_remain ELSE clocks_per_frame
      BY <1>2, <1>5, TwoMin
    <3>2. /\ target' = event_clocks + (IF -event_clocks_remain <= clocks_per_frame
                                       THEN -event_clocks_remain ELSE clocks_per_frame)
          /\ pc' = "update"
      BY <2>1, <3>1 DEF BeginFrame, UpdateEvent
    <3> QED
      BY <1>2, <1>3, <1>5, <2>1, <3>2
  <2>2. CASE ~(event_clocks_remain < 0)
    BY <2>2 DEF BeginFrame, GoTo
  <2> QED
    BY <2>1, <2>2
<1>7. /\ cur_vline' = 0 /\ vline_start_clock' = event_clocks % (2 ^ Width)
      /\ vline_events' = IF 0 < LastLine THEN {event_clocks + clocks_per_vline[0]} ELSE {}
  BY <1>1, <1>3 DEF StartVline, CurrentClock
<1>8. VlineStart' = event_clocks /\ VlineEnd' = event_clocks + clocks_per_vline[0]
  <2>1. FrameStart' = frames * clocks_per_frame
    BY <1>1, <1>6 DEF FrameStart
  <2> QED
    BY <1>1, <1>2, <1>3, <1>4, <1>5, <1>7, <2>1 DEF VlineStart, VlineEnd, LineStart
<1>9. Began'
  BY <1>1, <1>3, <1>4, <1>5, <1>6, <1>7, <1>8 DEF Began
<1> QED
  BY <1>1, <1>3, <1>4, <1>5, <1>6, <1>7, <1>9 DEF Vlines

\* The next scanline begins where the one before it ends.
LEMMA NextVlines == ASSUME IInv, Vlines, NextVline PROVE Vlines'
<1>1. /\ clocks_per_frame' = clocks_per_frame /\ clocks_per_vline' = clocks_per_vline
      /\ frames' = frames /\ pc = "update" /\ pc' = "update" /\ target' = target
      /\ event_clocks' = Earliest /\ StartVline(cur_vline + 1, vline_events \ {Earliest})
      /\ vline_events # {} /\ Earliest <= target
  BY DEF NextVline, config, Due
<1>2. Dealt /\ Began /\ cur_vline \in 0 .. LastLine
  BY <1>1 DEF Vlines
<1>3. /\ LastLine \in Nat /\ cur_vline < LastLine /\ cur_vline + 1 \in 0 .. LastLine
      /\ vline_events = {VlineEnd} /\ target \in Nat
  BY <1>1, <1>2, VlineFacts DEF Began
<1>4. /\ clocks_per_vline[cur_vline] \in Nat /\ LineStart(cur_vline) \in Nat
      /\ LineStart(cur_vline + 1) = LineStart(cur_vline) + clocks_per_vline[cur_vline]
      /\ clocks_per_vline[cur_vline + 1] \in Nat
      /\ clocks_per_frame \in Nat
  BY <1>2, <1>3, VlineFacts
<1>5. FrameStart = frames * clocks_per_frame /\ FrameStart \in Nat /\ FrameStart' = FrameStart
  <2>1. frames \in Nat
    BY DEF IInv, Numbers
  <2> QED
    BY <1>1, <1>4, <2>1 DEF FrameStart
<1>6. VlineEnd \in Nat /\ VlineEnd = FrameStart + LineStart(cur_vline + 1)
  BY <1>4, <1>5 DEF VlineEnd, VlineStart
<1>7. Earliest = VlineEnd
  <2> DEFINE e == VlineEnd
  <2> HIDE DEF e
  <2>1. e \in {e} /\ \A y \in {e} : e <= y
    BY <1>6 DEF e
  <2>2. Min({e}) = e
    BY <2>1 DEF Min
  <2> QED
    BY <1>3, <2>2 DEF Earliest, e
<1>8. /\ event_clocks' = VlineEnd /\ cur_vline' = cur_vline + 1
      /\ vline_start_clock' = VlineEnd % (2 ^ Width)
      /\ vline_events' = IF cur_vline + 1 < LastLine
                         THEN {VlineEnd + clocks_per_vline[cur_vline + 1]} ELSE {}
  BY <1>1, <1>3, <1>7 DEF StartVline, CurrentClock
<1>9. LastLine' = LastLine /\ Dealt' /\ LineStart(cur_vline)' = LineStart(cur_vline + 1)
  BY <1>1, <1>2, <1>8 DEF LastLine, LineStart, Dealt
<1>10. VlineStart' = VlineEnd /\ VlineEnd' = VlineEnd + clocks_per_vline[cur_vline + 1]
  BY <1>1, <1>5, <1>6, <1>8, <1>9 DEF VlineStart, VlineEnd
<1>11. Began'
  BY <1>1, <1>3, <1>4, <1>6, <1>7, <1>8, <1>9, <1>10 DEF Began
<1> QED
  BY <1>1, <1>3, <1>6, <1>8, <1>9, <1>11 DEF Vlines

\* An update ends within the scanline.
LEMMA UpdatedVlines == ASSUME IInv, Vlines, EndUpdate PROVE Vlines'
<1>1. /\ clocks_per_frame' = clocks_per_frame /\ clocks_per_vline' = clocks_per_vline
      /\ frames' = frames /\ pc = "update" /\ pc' = after
      /\ event_clocks' = target
      /\ cur_vline' = cur_vline /\ vline_start_clock' = vline_start_clock
      /\ vline_events' = vline_events
      /\ ~(vline_events # {} /\ Earliest <= target)
  BY DEF EndUpdate, config, vline, Due
<1>2. Dealt /\ Began /\ cur_vline \in 0 .. LastLine /\ event_clocks \in Nat
  BY <1>1 DEF Vlines
<1>3. /\ LastLine \in Nat /\ target \in Nat /\ event_clocks <= target
      /\ clocks_per_vline[cur_vline] \in Nat /\ LineStart(cur_vline) \in Nat
      /\ LineStart(cur_vline + 1) = LineStart(cur_vline) + clocks_per_vline[cur_vline]
      /\ LineStart(LastLine + 1) = clocks_per_frame
      /\ clocks_per_frame \in Nat
  BY <1>1, <1>2, VlineFacts DEF Began
<1>4. target <= FrameStart + clocks_per_frame /\ after \in {"enter", "loop", "op"}
  BY <1>1, <1>3, TargetInFrame
<1>5. FrameStart \in Nat /\ FrameStart' = FrameStart
  <2>1. frames \in Nat
    BY DEF IInv, Numbers
  <2> QED
    BY <1>1, <1>3, <1>4, <2>1 DEF FrameStart
<1>6. LastLine' = LastLine /\ Dealt' /\ LineStart(cur_vline)' = LineStart(cur_vline)
  BY <1>1, <1>2 DEF LastLine, LineStart, Dealt
<1>7. VlineStart' = VlineStart /\ VlineEnd' = VlineEnd /\ VlineStart \in Nat /\ VlineEnd \in Nat
      /\ VlineEnd = FrameStart + LineStart(cur_vline + 1)
  BY <1>1, <1>3, <1>5, <1>6 DEF VlineStart, VlineEnd
<1>8. cur_vline < LastLine => target < VlineEnd
  <2> SUFFICES ASSUME cur_vline < LastLine PROVE target < VlineEnd
    OBVIOUS
  <2>1. vline_events = {VlineEnd}
    BY <1>2 DEF Began
  <2> DEFINE e == VlineEnd
  <2> HIDE DEF e
  <2>2. e \in {e} /\ \A y \in {e} : e <= y
    BY <1>7 DEF e
  <2>3. Min({e}) = e
    BY <2>2 DEF Min
  <2>4. Earliest = VlineEnd
    BY <2>1, <2>3 DEF Earliest, e
  <2> QED
    BY <1>1, <1>3, <1>7, <2>1, <2>4
<1>9. target <= VlineEnd
  BY <1>2, <1>3, <1>4, <1>7, <1>8
<1>10. VlineStart <= target
  BY <1>2, <1>3, <1>7 DEF Began
<1>11. Began'
  BY <1>1, <1>2, <1>3, <1>4, <1>6, <1>7, <1>8, <1>9, <1>10 DEF Began
<1> QED
  BY <1>1, <1>2, <1>3, <1>4, <1>6, <1>11 DEF Vlines

\* The frame ends in its last scanline.
LEMMA EndVlines == ASSUME IInv, Vlines, EndFrame PROVE Vlines'
<1>1. /\ clocks_per_frame' = clocks_per_frame /\ clocks_per_vline' = clocks_per_vline
      /\ frames' = frames + 1 /\ pc = "loop" /\ pc' = "idle"
      /\ event_clocks' = event_clocks
      /\ cur_vline' = cur_vline /\ vline_start_clock' = vline_start_clock
      /\ vline_events' = vline_events
  BY DEF EndFrame, config, vline, GoTo
<1>2. Dealt /\ Began /\ cur_vline \in 0 .. LastLine /\ event_clocks \in Nat
  BY <1>1 DEF Vlines
<1>3. /\ LastLine \in Nat
      /\ clocks_per_vline[cur_vline] \in Nat /\ LineStart(cur_vline) \in Nat
      /\ LineStart(cur_vline + 1) = LineStart(cur_vline) + clocks_per_vline[cur_vline]
      /\ LineStart(cur_vline + 1) <= clocks_per_frame
      /\ clocks_per_frame \in Nat
  BY <1>2, VlineFacts
<1>4. frames \in Nat /\ event_clocks = (frames + 1) * clocks_per_frame
  BY <1>1 DEF EndFrame, IInv, Account, Numbers, Accounted
<1>5. FrameStart = frames * clocks_per_frame /\ FrameStart' = FrameStart /\ FrameStart \in Nat
      /\ event_clocks = FrameStart + clocks_per_frame
  <2>1. FrameStart = frames * clocks_per_frame /\ FrameStart' = ((frames + 1) - 1) * clocks_per_frame
    BY <1>1 DEF FrameStart
  <2>2. (frames + 1) - 1 = frames
    BY <1>4
  <2> QED
    BY <1>3, <1>4, <2>1, <2>2
<1>6. LastLine' = LastLine /\ Dealt' /\ LineStart(cur_vline)' = LineStart(cur_vline)
  BY <1>1, <1>2 DEF LastLine, LineStart, Dealt
<1>7. VlineStart' = VlineStart /\ VlineEnd' = VlineEnd
      /\ VlineEnd = FrameStart + LineStart(cur_vline + 1)
  BY <1>1, <1>3, <1>5, <1>6 DEF VlineStart, VlineEnd
<1>8. cur_vline = LastLine
  <2>1. ~(event_clocks < VlineEnd)
    BY <1>3, <1>5, <1>7
  <2> QED
    BY <1>1, <1>2, <1>3, <2>1 DEF Began
<1>9. Began'
  BY <1>1, <1>2, <1>6, <1>7, <1>8 DEF Began
<1> QED
  BY <1>1, <1>2, <1>4, <1>6, <1>9 DEF Vlines

\* Clocks that are applied lead forward.
LEMMA ApplyVlines ==
    ASSUME IInv, Vlines, NEW clock \in Nat, NEW return \in {"loop", "op"}, pc = "op",
           Apply(clock, return), UNCHANGED <<config, speed, event_clocks, vline, frames>>
    PROVE  Vlines'
<1> DEFINE p == CpuClocksPerEventClock
           accum == cpu_clocks_accum + clock
           done == accum \div p
<1>1. p \in {1, 2, 4, 8, 16} /\ accum \in Nat /\ event_clocks_remain \in Int /\ event_clocks \in Nat
  BY PowerValues DEF IInv, Numbers, Vlines
<1>2. IF done > 0 /\ event_clocks_remain > 0
      THEN UpdateEvent(Min({done, event_clocks_remain}), return)
      ELSE GoTo(return)
  BY DEF Apply
<1> HIDE DEF p, accum
<1>3. done \in Nat
  BY <1>1, Carry
<1> HIDE DEF done
<1>4. CASE done > 0 /\ event_clocks_remain > 0
  <2>1. Min({done, event_clocks_remain})
          = IF done <= event_clocks_remain THEN done ELSE event_clocks_remain
    BY <1>1, <1>3, TwoMin
  <2>2. /\ pc' = "update"
        /\ target' = event_clocks + (IF done <= event_clocks_remain
                                     THEN done ELSE event_clocks_remain)
    BY <1>2, <1>4, <2>1 DEF UpdateEvent
  <2>3. target' \in Nat /\ event_clocks <= target'
    BY <1>1, <1>3, <1>4, <2>2
  <2> QED
    BY <2>2, <2>3, QuietVlines
<1>5. CASE ~(done > 0 /\ event_clocks_remain > 0)
  <2>1. pc' \in {"loop", "op"}
    BY <1>2, <1>5 DEF GoTo
  <2> QED
    BY <2>1, QuietVlines
<1> QED
  BY <1>4, <1>5

LEMMA NextVlinesHold == IInv /\ Vlines /\ [Next]_vars => Vlines'
<1> SUFFICES ASSUME IInv, Vlines, [Next]_vars PROVE Vlines'
  OBVIOUS
<1>1. CASE BeginFrame
  BY <1>1, BeginVlines
<1>2. CASE EnterFrame \/ RunOpecode
  BY <1>2, QuietVlines DEF EnterFrame, RunOpecode, GoTo
<1>3. CASE UpdateInOp
  <2>1. PICK clock \in 1 .. MaxOp - spent :
          IF in_opecode THEN Apply(clock, "op") ELSE GoTo("op")
    BY <1>3 DEF UpdateInOp
  <2>2. clock \in Nat
    BY BoundAssumption DEF IInv, Numbers
  <2>3. pc = "op" /\ UNCHANGED <<config, speed, event_clocks, vline, frames>>
    BY <1>3 DEF UpdateInOp
  <2>4. CASE in_opecode
    BY <2>1, <2>2, <2>3, <2>4, ApplyVlines
  <2>5. CASE ~in_opecode
    BY <2>1, <2>3, <2>5, QuietVlines DEF GoTo
  <2> QED
    BY <2>4, <2>5
<1>4. CASE OpecodeDone
  <2>1. PICK total \in Max({1, spent}) .. MaxOp :
          IF total > cpu_clocks_in_op
          THEN Apply(total - cpu_clocks_in_op, "loop") ELSE GoTo("loop")
    BY <1>4 DEF OpecodeDone
  <2>2. total \in Int /\ cpu_clocks_in_op \in Int
    BY <2>1, TwoMax, BoundAssumption DEF IInv, Numbers
  <2>3. pc = "op" /\ UNCHANGED <<config, speed, event_clocks, vline, frames>>
    BY <1>4 DEF OpecodeDone
  <2>4. CASE total > cpu_clocks_in_op
    <3>1. total - cpu_clocks_in_op \in Nat
      BY <2>2, <2>4
    <3> QED
      BY <2>1, <2>3, <2>4, <3>1, ApplyVlines
  <2>5. CASE ~(total > cpu_clocks_in_op)
    BY <2>1, <2>3, <2>5, QuietVlines DEF GoTo
  <2> QED
    BY <2>4, <2>5
<1>5. CASE SkipCpu
  <2>1. /\ pc = "loop" /\ event_clocks_remain > 0 /\ UpdateEvent(event_clocks_remain, "loop")
        /\ UNCHANGED <<config, event_clocks, vline, frames>>
    BY <1>5 DEF SkipCpu
  <2>2. target' \in Nat /\ event_clocks <= target' /\ pc' = "update"
    BY <2>1 DEF UpdateEvent, IInv, Numbers, Vlines
  <2> QED
    BY <2>1, <2>2, QuietVlines
<1>6. CASE EndFrame
  BY <1>6, EndVlines
<1>7. CASE NextVline
  BY <1>7, NextVlines
<1>8. CASE EndUpdate
  BY <1>8, UpdatedVlines
<1>9. CASE UpdateConfig \/ Reset
  BY <1>9, QuietVlines DEF UpdateConfig, Reset
<1>10. CASE UNCHANGED vars
  BY <1>10, QuietVlines DEF vars
<1> QED
  BY <1>1, <1>2, <1>3, <1>4, <1>5, <1>6, <1>7, <1>8, <1>9, <1>10 DEF Next, Drive

(***************************************************************************)
(* Every scanline begins at its place in the frame, whatever the number of *)
(* lines, the power and the instructions: the scanlines tile the frame, in *)
(* two sizes that differ by one, and the wrapped clock that a device reads *)
(* since the start of the scanline is right (event.cpp:97-121, 128-140,    *)
(* 230-260).                                                               *)
(***************************************************************************)
THEOREM VlinesAreInPlace == Spec => []VlineInPlace
<1>1. IInv /\ Vlines => VlineInPlace
  <2> SUFFICES ASSUME IInv, Vlines PROVE VlineInPlace
    OBVIOUS
  <2>1. Dealt /\ event_clocks \in Nat /\ cur_vline \in 0 .. LastLine
    BY DEF Vlines
  <2>2. VlinesTileFrame
    BY <2>1, VlineFacts DEF VlinesTileFrame
  <2>3. BeganInPlace
    <3> SUFFICES ASSUME frames > 0 \/ pc # "idle"
                 PROVE  /\ vline_start_clock = VlineStart % (2 ^ Width)
                        /\ PassedClock(vline_start_clock) = event_clocks - VlineStart
                        /\ event_clocks - VlineStart <= clocks_per_vline[cur_vline]
                        /\ pc = "idle" => cur_vline = LastLine /\ vline_events = {}
      BY DEF BeganInPlace, VlineStart, FrameStart
    <3>1. Began
      BY DEF Vlines, IInv, Numbers
    <3>2. /\ LastLine \in Nat /\ clocks_per_frame \in Nat
          /\ clocks_per_vline[cur_vline] \in Nat /\ LineStart(cur_vline) \in Nat
          /\ LineStart(cur_vline + 1) = LineStart(cur_vline) + clocks_per_vline[cur_vline]
          /\ LineStart(cur_vline + 1) <= clocks_per_frame
      BY <2>1, VlineFacts
    <3>3. VlineStart \in Nat
      <4>1. (IF pc = "idle" THEN frames - 1 ELSE frames) \in Nat
        BY DEF IInv, Numbers
      <4>2. FrameStart \in Nat
        BY <3>2, <4>1 DEF FrameStart
      <4> QED
        BY <3>2, <4>2 DEF VlineStart
    <3>4. 2 ^ Width \in Nat \ {0} /\ clocks_per_frame < 2 ^ Width
      BY <2>1, <3>2, WidthAssumption DEF Dealt
    <3>5. event_clocks - VlineStart <= clocks_per_vline[cur_vline]
      BY <2>1, <3>1, <3>2, <3>3 DEF Began, VlineEnd
    <3>6. event_clocks - VlineStart < 2 ^ Width
      <4> DEFINE w == 2 ^ Width
      <4> HIDE DEF w
      <4>1. w \in Nat /\ clocks_per_frame < w
        BY <3>4 DEF w
      <4>2. event_clocks - VlineStart < w
        BY <2>1, <3>2, <3>3, <3>5, <4>1
      <4> QED
        BY <4>2 DEF w
    <3>7. PassedClock(VlineStart % (2 ^ Width)) = event_clocks - VlineStart
      BY <2>1, <3>1, <3>3, <3>4, <3>6, PassedSince DEF Began
    <3> QED
      BY <3>1, <3>2, <3>5, <3>7 DEF Began
  <2> QED
    BY <2>2, <2>3 DEF VlineInPlace
<1> QED
  BY InitIInv, NextIInv, InitVlines, NextVlinesHold, <1>1, PTL DEF Spec
=============================================================================
