--------------------------- MODULE SoundMixProofs ---------------------------
(***************************************************************************)
(* Proofs about module SoundMix: no sample goes astray, sound is not late, *)
(* and the audio queue is bounded, for every size of the chunk, the buffer *)
(* and the queue.                                                          *)
(*                                                                         *)
(* The invariants are inductive together; that samples are kept needs the  *)
(* type of the counters only, that the queue is bounded needs the chunks   *)
(* which queue_sound_chunks() has yet to create.                           *)
(***************************************************************************)
EXTENDS SoundMix, TLAPS

\* The smaller of two numbers, as MIN() of the C++ code.
LEMMA TwoMin ==
    ASSUME NEW a \in Int, NEW b \in Int
    PROVE  Min({a, b}) = IF a <= b THEN a ELSE b
<1>1. PICK m \in {a, b} : m = (IF a <= b THEN a ELSE b)
  OBVIOUS
<1>2. \A y \in {a, b} : m <= y
  BY <1>1
<1>3. \E x \in {a, b} : \A y \in {a, b} : x <= y
  BY <1>2
<1>4. Min({a, b}) \in {a, b} /\ \A y \in {a, b} : Min({a, b}) <= y
  BY <1>3 DEF Min
<1> QED
  BY <1>4

\* The larger of two numbers, as MAX() of the C++ code.
LEMMA TwoMax ==
    ASSUME NEW a \in Int, NEW b \in Int
    PROVE  Max({a, b}) = IF a >= b THEN a ELSE b
<1>1. PICK m \in {a, b} : m = (IF a >= b THEN a ELSE b)
  OBVIOUS
<1>2. \A y \in {a, b} : m >= y
  BY <1>1
<1>3. \E x \in {a, b} : \A y \in {a, b} : x >= y
  BY <1>2
<1>4. Max({a, b}) \in {a, b} /\ \A y \in {a, b} : Max({a, b}) >= y
  BY <1>3 DEF Max
<1> QED
  BY <1>4

IInv == TypeOK /\ SamplesKept /\ LatencyBounded /\ QueueBounded

Config ==
    /\ sound_samples \in Nat \ {0} /\ mix_limit \in Nat
    /\ FrameSamples \subseteq Nat \ {0}
    /\ audio_target_chunks \in Nat \ {0} /\ audio_initial_chunks \in Nat \ {0}
    /\ audio_max_refill_chunks \in Nat \ {0}

\* The configuration as the constants are assumed.
LEMMA Constants == Config
BY BufferAssumption, FrameAssumption, ConfigAssumption DEF Config

\* Room and the samples that are due, in plain arithmetic.
LEMMA Due ==
    ASSUME TypeOK
    PROVE  /\ Room \in Nat /\ buffer_ptr + Room = 2 * sound_samples
           /\ DueSamples \in Nat /\ DueSamples <= Room
           /\ Realtime => DueSamples = IF mix_counter >= 1
                                       THEN IF mix_counter <= Room THEN mix_counter ELSE Room
                                       ELSE IF 1 <= Room THEN 1 ELSE Room
           /\ ~Realtime => DueSamples = IF mix_counter <= Room THEN mix_counter ELSE Room
<1>1. Room \in Nat /\ buffer_ptr + Room = 2 * sound_samples
  BY Constants DEF Config, TypeOK, Room, sound_tmp_samples
<1>2. mix_counter \in Nat
  BY DEF TypeOK
<1>3. Max({mix_counter, 1}) = (IF mix_counter >= 1 THEN mix_counter ELSE 1)
  BY <1>2, TwoMax
<1>4. Max({mix_counter, 0}) = mix_counter
  BY <1>2, TwoMax
<1>5. CASE Realtime
  <2> DEFINE m == IF mix_counter >= 1 THEN mix_counter ELSE 1
  <2>1. DueSamples = Min({m, Room})
    BY <1>3, <1>5 DEF DueSamples
  <2>2. m \in Nat
    BY <1>2
  <2>3. Min({m, Room}) = IF m <= Room THEN m ELSE Room
    BY <1>1, <2>2, TwoMin
  <2> QED
    BY <1>1, <1>2, <1>5, <2>1, <2>2, <2>3
<1>6. CASE ~Realtime
  <2>1. DueSamples = Min({mix_counter, Room})
    BY <1>4, <1>6 DEF DueSamples
  <2>2. Min({mix_counter, Room}) = IF mix_counter <= Room THEN mix_counter ELSE Room
    BY <1>1, <1>2, TwoMin
  <2> QED
    BY <1>1, <1>2, <1>6, <2>1, <2>2
<1> QED
  BY <1>5, <1>6

\* The limit that LatencyBounded names.
LEMMA Limit ==
    /\ Max({mix_limit, 1}) \in Nat
    /\ Max({mix_limit, 1}) >= mix_limit /\ Max({mix_limit, 1}) >= 1
<1>1. Max({mix_limit, 1}) = IF mix_limit >= 1 THEN mix_limit ELSE 1
  BY Constants, TwoMax DEF Config
<1> QED
  BY <1>1, Constants DEF Config

\* A sample event moves what it mixes into the buffer, and forgets no sample.
LEMMA MixStep ==
    ASSUME TypeOK, SamplesKept, LatencyBounded, MixEvent
    PROVE  /\ buffer_ptr' \in 0 .. 2 * sound_samples /\ mix_counter' \in Nat /\ owed' \in Int
           /\ SamplesKept' /\ LatencyBounded'
<1>0. /\ mix_counter \in Nat /\ owed \in Int /\ buffer_ptr \in Nat /\ sound_samples \in Nat
      /\ mix_limit \in Nat
      /\ buffer_ptr + mix_counter = owed + 1 /\ mix_counter <= Max({mix_limit, 1})
  BY Constants DEF TypeOK, SamplesKept, LatencyBounded, Config
<1>1. /\ Room \in Nat /\ buffer_ptr + Room = 2 * sound_samples
      /\ owed' = owed + 1 - Lost + Gained
  BY Due DEF MixEvent
<1>2. CASE Room = 0
  <2>1. buffer_ptr' = buffer_ptr /\ mix_counter' = mix_counter
    BY <1>2 DEF MixEvent, mixer
  <2>2. Lost = 1 /\ Gained = 0
    BY <1>2 DEF Lost, Gained
  <2>3. owed' = owed
    BY <1>0, <1>1, <2>2
  <2> QED
    BY <1>0, <1>1, <2>1, <2>3 DEF SamplesKept, LatencyBounded
<1>3. CASE Room > 0 /\ Realtime
  <2>1. buffer_ptr' = buffer_ptr + DueSamples /\ mix_counter' = 1
    BY <1>3 DEF MixEvent, Mix
  <2>2. Max({mix_counter - Room, 0}) = IF mix_counter - Room >= 0 THEN mix_counter - Room ELSE 0
    BY <1>0, <1>1, TwoMax
  <2>3. /\ Lost = IF mix_counter - Room >= 0 THEN mix_counter - Room ELSE 0
        /\ Gained = IF mix_counter < 1 THEN 1 ELSE 0
    BY <1>0, <1>1, <1>3, <2>2 DEF Lost, Gained
  <2>4. /\ DueSamples \in Nat /\ DueSamples <= Room
        /\ DueSamples = IF mix_counter >= 1
                        THEN IF mix_counter <= Room THEN mix_counter ELSE Room
                        ELSE IF 1 <= Room THEN 1 ELSE Room
    BY <1>3, Due
  <2>5. /\ owed' \in Int /\ buffer_ptr' + mix_counter' = owed' + 1
        /\ buffer_ptr' \in 0 .. 2 * sound_samples
    BY <1>0, <1>1, <1>3, <2>1, <2>3, <2>4
  <2> QED
    BY <2>1, <2>5, Limit DEF SamplesKept, LatencyBounded
<1>4. CASE Room > 0 /\ ~Realtime
  <2>1. /\ DueSamples \in Nat /\ DueSamples <= Room
        /\ DueSamples = IF mix_counter <= Room THEN mix_counter ELSE Room
    BY <1>4, Due
  <2>2. owed' = owed + 1
    BY <1>0, <1>1, <1>4 DEF Lost, Gained
  <2>3. CASE DueSamples > 0 /\ mix_counter >= mix_limit
    <3>1. buffer_ptr' = buffer_ptr + DueSamples /\ mix_counter' = mix_counter - DueSamples + 1
      BY <1>4, <2>3 DEF MixEvent, Mix
    <3>2. mix_counter' \in Nat /\ mix_counter' <= mix_counter
      BY <1>0, <1>1, <2>1, <2>3, <3>1
    <3> QED
      BY <1>0, <1>1, <2>1, <2>2, <3>1, <3>2, Limit DEF SamplesKept, LatencyBounded
  <2>4. CASE ~(DueSamples > 0 /\ mix_counter >= mix_limit)
    <3>1. buffer_ptr' = buffer_ptr /\ mix_counter' = mix_counter + 1
      BY <1>4, <2>4 DEF MixEvent, Mix
    <3>2. mix_counter = 0 \/ mix_counter < mix_limit
      BY <1>0, <1>1, <1>4, <2>1, <2>4
    <3> QED
      BY <1>0, <1>1, <2>2, <3>1, <3>2, Limit DEF SamplesKept, LatencyBounded
  <2> QED
    BY <2>3, <2>4
<1> QED
  BY <1>1, <1>2, <1>3, <1>4

\* A touch moves samples that are due into the buffer.
LEMMA TouchStep ==
    ASSUME TypeOK, SamplesKept, LatencyBounded, TouchSound
    PROVE  /\ buffer_ptr' \in 0 .. 2 * sound_samples /\ mix_counter' \in Nat
           /\ SamplesKept' /\ LatencyBounded'
<1>0. /\ mix_counter \in Nat /\ owed \in Int /\ buffer_ptr \in Nat /\ sound_samples \in Nat
      /\ buffer_ptr + mix_counter = owed + 1 /\ mix_counter <= Max({mix_limit, 1})
  BY Constants DEF TypeOK, SamplesKept, LatencyBounded, Config
<1>1. Room \in Nat /\ buffer_ptr + Room = 2 * sound_samples
  BY Due
<1> DEFINE due == Min({mix_counter, Room})
<1>2. due = IF mix_counter <= Room THEN mix_counter ELSE Room
  BY <1>0, <1>1, TwoMin
<1>3. buffer_ptr' = buffer_ptr + due /\ mix_counter' = mix_counter - due /\ owed' = owed
  BY DEF TouchSound
<1> HIDE DEF due
<1>4. /\ buffer_ptr' \in 0 .. 2 * sound_samples /\ mix_counter' \in Nat
      /\ buffer_ptr' + mix_counter' = owed' + 1 /\ mix_counter' <= mix_counter
  BY <1>0, <1>1, <1>2, <1>3
<1> QED
  BY <1>0, <1>4, Limit DEF SamplesKept, LatencyBounded

\* A chunk leaves the buffer; what is more than a chunk stays.
LEMMA CreateStep ==
    ASSUME TypeOK, SamplesKept, LatencyBounded, CreateSound
    PROVE  /\ buffer_ptr' \in 0 .. 2 * sound_samples /\ mix_counter' \in Nat /\ owed' \in Int
           /\ SamplesKept' /\ LatencyBounded'
<1>0. /\ mix_counter \in Nat /\ owed \in Int /\ sound_samples \in Nat
      /\ buffer_ptr \in 0 .. 2 * sound_samples
      /\ buffer_ptr + mix_counter = owed + 1
  BY Constants DEF TypeOK, SamplesKept, Config, sound_tmp_samples
<1>1. /\ buffer_ptr >= sound_samples
      /\ buffer_ptr' = (IF buffer_ptr > sound_samples THEN buffer_ptr - sound_samples ELSE 0)
      /\ mix_counter' = mix_counter /\ owed' = owed - sound_samples
  BY DEF CreateSound, Kept
<1>2. /\ buffer_ptr' \in 0 .. 2 * sound_samples /\ mix_counter' \in Nat /\ owed' \in Int
      /\ buffer_ptr' + mix_counter' = owed' + 1
  BY <1>0, <1>1
<1> QED
  BY <1>1, <1>2 DEF SamplesKept, LatencyBounded

\* Products of natural numbers keep their order.
LEMMA Monotone ==
    ASSUME NEW a \in Nat, NEW b \in Nat, NEW s \in Nat, a <= b
    PROVE  a * s \in Nat /\ b * s \in Nat /\ a * s <= b * s
<1>1. b * s = a * s + (b - a) * s
  OBVIOUS
<1>2. b - a \in Nat /\ (b - a) * s \in Nat /\ a * s \in Nat
  OBVIOUS
<1> QED
  BY <1>1, <1>2

\* The chunks in the audio queue, rounded down.
LEMMA WholeChunks ==
    ASSUME NEW n \in Nat, NEW s \in Nat \ {0}
    PROVE  /\ n \div s \in Nat /\ n % s \in 0 .. s - 1
           /\ n = (n \div s) * s + (n % s)
OBVIOUS

Chunks == Max({audio_target_chunks, audio_initial_chunks})

\* The queue's bound is at least the target and at least the first fill.
LEMMA Target ==
    Chunks \in Nat /\ Chunks >= audio_target_chunks /\ Chunks >= audio_initial_chunks
<1>1. Chunks = IF audio_target_chunks >= audio_initial_chunks
               THEN audio_target_chunks ELSE audio_initial_chunks
  BY Constants, TwoMax DEF Config, Chunks
<1> QED
  BY <1>1, Constants DEF Config

\* The main loop asks for no more chunks than the target lacks.
LEMMA RefillStep ==
    ASSUME TypeOK, QueueBounded, Refill
    PROVE  chunks' \in Nat /\ QueueBounded'
<1>0. /\ chunks \in Nat /\ queued \in Nat /\ queued' = queued
      /\ sound_samples \in Nat \ {0}
      /\ audio_target_chunks \in Nat /\ audio_max_refill_chunks \in Nat
  BY Constants DEF TypeOK, Refill, Config
<1>1. CASE queued < audio_target_chunks * sound_samples
  <2> DEFINE q == queued \div sound_samples
             r == queued % sound_samples
  <2>1. q \in Nat /\ r \in 0 .. sound_samples - 1 /\ queued = q * sound_samples + r
    BY <1>0, WholeChunks
  <2>2. chunks' = Min({audio_target_chunks - q, audio_max_refill_chunks})
    BY <1>1 DEF Refill
  <2> HIDE DEF q, r
  <2>3. q < audio_target_chunks
    <3>1. SUFFICES ASSUME audio_target_chunks <= q PROVE FALSE
      BY <1>0, <2>1
    <3>2. audio_target_chunks * sound_samples <= q * sound_samples
      BY <1>0, <2>1, <3>1, Monotone
    <3>3. q * sound_samples \in Nat /\ audio_target_chunks * sound_samples \in Nat
      BY <1>0, <2>1
    <3> QED
      BY <1>0, <1>1, <2>1, <3>2, <3>3
  <2>4. chunks' \in Nat /\ chunks' <= audio_target_chunks - q
    BY <1>0, <2>1, <2>2, <2>3, TwoMin
  <2>5. chunks' * sound_samples <= (audio_target_chunks - q) * sound_samples
        /\ chunks' * sound_samples \in Nat
    <3> DEFINE c == chunks'
               d == audio_target_chunks - q
    <3>1. c \in Nat /\ d \in Nat /\ c <= d /\ sound_samples \in Nat
      BY <1>0, <2>1, <2>3, <2>4
    <3> HIDE DEF c, d
    <3>2. c * sound_samples <= d * sound_samples /\ c * sound_samples \in Nat
      BY <3>1, Monotone
    <3> QED
      BY <3>2 DEF c, d
  <2>6. (audio_target_chunks - q) * sound_samples
          = audio_target_chunks * sound_samples - q * sound_samples
    BY <1>0, <2>1
  <2>7. audio_target_chunks * sound_samples <= Chunks * sound_samples
        /\ Chunks * sound_samples \in Nat
    BY <1>0, Target, Monotone
  <2>8. (Chunks + 1) * sound_samples = Chunks * sound_samples + sound_samples
    BY <1>0, Target
  <2>9. q * sound_samples \in Nat /\ audio_target_chunks * sound_samples \in Nat
    BY <1>0, <2>1
  <2>10. queued' + chunks' * sound_samples < (Chunks + 1) * sound_samples
    BY <1>0, <2>1, <2>5, <2>6, <2>7, <2>8, <2>9
  <2> QED
    BY <2>4, <2>10 DEF QueueBounded, Chunks
<1>2. CASE ~(queued < audio_target_chunks * sound_samples)
  <2>1. chunks' = chunks
    BY <1>2 DEF Refill
  <2> QED
    BY <1>0, <2>1 DEF QueueBounded
<1> QED
  BY <1>1, <1>2

\* A chunk that is queued was accounted for; when the host fails, the rest is given up.
LEMMA QueueStep ==
    ASSUME TypeOK, QueueBounded, CreateSound
    PROVE  chunks' \in Nat /\ queued' \in Nat /\ QueueBounded'
<1>0. /\ chunks \in Nat /\ chunks > 0 /\ queued \in Nat /\ sound_samples \in Nat
      /\ queued + chunks * sound_samples < (Chunks + 1) * sound_samples
  BY Constants DEF TypeOK, CreateSound, Config, QueueBounded, Chunks
<1>1. CASE queued' = queued + sound_samples /\ chunks' = chunks - 1
  <2>1. (chunks - 1) * sound_samples = chunks * sound_samples - sound_samples
    BY <1>0
  <2>2. queued' + chunks' * sound_samples = queued + chunks * sound_samples
    BY <1>0, <1>1, <2>1
  <2> QED
    BY <1>0, <1>1, <2>2 DEF QueueBounded, Chunks
<1>2. CASE chunks' = 0 /\ queued' = queued
  <2>1. 0 * sound_samples = 0 /\ chunks * sound_samples \in Nat
    BY <1>0
  <2>2. queued' + chunks' * sound_samples <= queued + chunks * sound_samples
    BY <1>0, <1>2, <2>1
  <2>3. (Chunks + 1) * sound_samples \in Nat
    BY <1>0, Target
  <2> QED
    BY <1>0, <1>2, <2>1, <2>2, <2>3 DEF QueueBounded, Chunks
<1> QED
  BY <1>1, <1>2 DEF CreateSound

\* The machine and the audio queue start empty, with a sample due.
LEMMA InitIInv == Init => IInv
<1> SUFFICES ASSUME Init PROVE IInv
  OBVIOUS
<1>1. TypeOK
  BY Constants DEF Init, TypeOK, Config, sound_tmp_samples
<1>2. SamplesKept /\ LatencyBounded
  BY Limit DEF Init, SamplesKept, LatencyBounded
<1>3. QueueBounded
  <2>1. audio_initial_chunks * sound_samples <= Chunks * sound_samples
        /\ audio_initial_chunks * sound_samples \in Nat /\ Chunks * sound_samples \in Nat
    BY Constants, Target, Monotone DEF Config
  <2>2. (Chunks + 1) * sound_samples = Chunks * sound_samples + sound_samples
    BY Constants, Target DEF Config
  <2> QED
    BY <2>1, <2>2, Constants DEF Init, QueueBounded, Chunks, Config
<1> QED
  BY <1>1, <1>2, <1>3 DEF IInv

\* Every step of the machine, of the main loop and of SDL keeps the invariants.
LEMMA NextIInv == IInv /\ [Next]_vars => IInv'
<1> SUFFICES ASSUME IInv, [Next]_vars PROVE IInv'
  OBVIOUS
<1>0. TypeOK /\ SamplesKept /\ LatencyBounded /\ QueueBounded
  BY DEF IInv
<1>1. CASE MixEvent
  <2>1. QueueBounded'
    BY <1>0, <1>1 DEF MixEvent, QueueBounded
  <2>2. TypeOK'
    BY <1>0, <1>1, MixStep DEF MixEvent, TypeOK, renderers, sound_tmp_samples
  <2> QED
    BY <1>0, <1>1, <2>1, <2>2, MixStep DEF IInv
<1>2. CASE TouchSound
  <2>1. QueueBounded'
    BY <1>0, <1>2 DEF TouchSound, QueueBounded
  <2>2. TypeOK'
    BY <1>0, <1>2, TouchStep DEF TouchSound, TypeOK, renderers, sound_tmp_samples
  <2> QED
    BY <1>0, <1>2, <2>1, <2>2, TouchStep DEF IInv
<1>3. CASE CreateSound
  <2>1. TypeOK'
    BY <1>0, <1>3, CreateStep, QueueStep DEF CreateSound, TypeOK, renderers, sound_tmp_samples
  <2> QED
    BY <1>0, <1>3, <2>1, CreateStep, QueueStep DEF IInv
<1>4. CASE Refill
  <2>1. SamplesKept' /\ LatencyBounded'
    BY <1>0, <1>4 DEF Refill, mixer, SamplesKept, LatencyBounded
  <2>2. TypeOK'
    BY <1>0, <1>4, RefillStep DEF Refill, TypeOK, mixer, renderers, sound_tmp_samples
  <2> QED
    BY <1>0, <1>4, <2>1, <2>2, RefillStep DEF IInv
<1>5. ASSUME NEW device \in Renderers, NEW flag \in BOOLEAN, SetRealtime(device, flag)
      PROVE  IInv'
  <2>1. SamplesKept' /\ LatencyBounded' /\ QueueBounded'
    BY <1>0, <1>5 DEF SetRealtime, mixer, SamplesKept, LatencyBounded, QueueBounded
  <2>2. Max({need_mix - 1, 0}) \in Nat
    BY <1>0, TwoMax DEF TypeOK
  <2>3. need_mix' \in Nat /\ dev_need_mix' \subseteq Renderers
    BY <1>0, <1>5, <2>2 DEF SetRealtime, TypeOK
  <2>4. TypeOK'
    BY <1>0, <1>5, <2>3 DEF SetRealtime, TypeOK, mixer, sound_tmp_samples
  <2> QED
    BY <2>1, <2>4 DEF IInv
<1>6. CASE RunFrame \/ RunExtraFrame
  <2>1. SamplesKept' /\ LatencyBounded' /\ QueueBounded'
    BY <1>0, <1>6 DEF RunFrame, RunExtraFrame, mixer, SamplesKept, LatencyBounded, QueueBounded
  <2>2. TypeOK'
    BY <1>0, <1>6, Constants
    DEF RunFrame, RunExtraFrame, Drive, TypeOK, Config, mixer, renderers, sound_tmp_samples
  <2> QED
    BY <2>1, <2>2 DEF IInv
<1>7. CASE FrameEnds \/ Refilled
  <2>1. SamplesKept' /\ LatencyBounded' /\ QueueBounded'
    BY <1>0, <1>7 DEF FrameEnds, Refilled, mixer, SamplesKept, LatencyBounded, QueueBounded
  <2>2. TypeOK'
    BY <1>0, <1>7 DEF FrameEnds, Refilled, TypeOK, mixer, renderers, sound_tmp_samples
  <2> QED
    BY <2>1, <2>2 DEF IInv
<1>8. CASE ResetVm
  <2>1. SamplesKept' /\ LatencyBounded' /\ QueueBounded'
    BY <1>0, <1>8, Limit DEF ResetVm, SamplesKept, LatencyBounded, QueueBounded
  <2>2. TypeOK'
    BY <1>0, <1>8, Constants DEF ResetVm, TypeOK, Config, sound_tmp_samples
  <2> QED
    BY <2>1, <2>2 DEF IInv
<1>9. CASE Play
  <2>1. SamplesKept' /\ LatencyBounded'
    BY <1>0, <1>9 DEF Play, mixer, SamplesKept, LatencyBounded
  <2>2. TypeOK'
    BY <1>0, <1>9 DEF Play, TypeOK, mixer, renderers, sound_tmp_samples
  <2>3. chunks * sound_samples \in Nat /\ (Chunks + 1) * sound_samples \in Nat
    BY <1>0, Constants, Target DEF TypeOK, Config
  <2>4. QueueBounded'
    BY <1>0, <1>9, <2>3 DEF Play, TypeOK, QueueBounded, Chunks
  <2> QED
    BY <2>1, <2>2, <2>4 DEF IInv
<1>10. CASE UNCHANGED vars
  BY <1>0, <1>10 DEF vars, mixer, renderers, IInv, TypeOK, SamplesKept, LatencyBounded,
                     QueueBounded, sound_tmp_samples
<1> QED
  BY <1>1, <1>2, <1>3, <1>4, <1>5, <1>6, <1>7, <1>8, <1>9, <1>10 DEF Next, Machine

\* The inductive invariant holds in every state.
LEMMA Invariant == Spec => []IInv
BY InitIInv, NextIInv, PTL DEF Spec

\* The buffer never holds more than two chunks, and the counters keep their types.
THEOREM TypeCorrect == Spec => []TypeOK
<1>1. IInv => TypeOK
  BY DEF IInv
<1> QED
  BY <1>1, Invariant, PTL

\* Each sample event is one sample of sound, for every size of chunk and buffer.
THEOREM NoSampleAstray == Spec => []SamplesKept
<1>1. IInv => SamplesKept
  BY DEF IInv
<1> QED
  BY <1>1, Invariant, PTL

\* No more samples wait than mix_limit allows, however devices ask for realtime.
THEOREM SoundNotLate == Spec => []LatencyBounded
<1>1. IInv => LatencyBounded
  BY DEF IInv
<1> QED
  BY <1>1, Invariant, PTL

\* The audio queue is bounded by its target and a chunk, whatever SDL plays.
THEOREM AudioQueueBounded == Spec => []QueueBounded
<1>1. IInv => QueueBounded
  BY DEF IInv
<1> QED
  BY <1>1, Invariant, PTL
=============================================================================
