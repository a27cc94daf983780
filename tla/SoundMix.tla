------------------------------ MODULE SoundMix ------------------------------
(***************************************************************************)
(* How sound leaves the machine: the mixing in class EVENT                 *)
(* (src/vm/event.cpp) and the main loop that keeps the audio queue filled  *)
(* (queue_sound_chunks() in src/solaris/solaris_main.cpp).                 *)
(*                                                                         *)
(* While a frame runs, an event comes once for each sample.  Strictly, or  *)
(* while a device asks for realtime rendering, each event mixes a sample;  *)
(* otherwise samples are mixed some at a time, and all that are due when a *)
(* device that is about to change its sound touches it.  create_sound()    *)
(* takes a chunk from the buffer, which holds two, and runs more frames    *)
(* when there is less than one.  What the samples are does not matter.     *)
(*                                                                         *)
(* Nothing in this build asks is_frame_skippable(), so no frame of sound   *)
(* is skipped (prev_skip stays false).                                     *)
(***************************************************************************)
EXTENDS Integers, FiniteSets, FiniteSetsExt

CONSTANTS
    sound_samples,     \* samples in a chunk
    mix_limit,         \* samples that are mixed together
    FrameSamples,      \* how many sample events a frame may have
    Renderers,         \* the devices that ask for realtime rendering
    audio_target_chunks, audio_initial_chunks, audio_max_refill_chunks

ASSUME BufferAssumption == sound_samples \in Nat \ {0} /\ mix_limit \in Nat
ASSUME FrameAssumption == FrameSamples \subseteq Nat \ {0} /\ IsFiniteSet(Renderers)
ASSUME ConfigAssumption ==
    {audio_target_chunks, audio_initial_chunks, audio_max_refill_chunks} \subseteq Nat \ {0}

VARIABLES
    strict,         \* config.sound_strict_rendering
    buffer_ptr,     \* samples in the buffer
    mix_counter,    \* samples that are due
    dev_need_mix,   \* the devices that have asked for realtime rendering
    need_mix,       \* their number
    left,           \* sample events left in the frame that runs
    pc, after,      \* what runs, and what the frame returns to
    chunks,         \* chunks that queue_sound_chunks() has yet to create
    queued,         \* samples in the audio queue
    owed            \* history: sample events whose sound has not been taken

mixer == <<buffer_ptr, mix_counter>>
renderers == <<strict, dev_need_mix, need_mix>>
vars == <<mixer, renderers, left, pc, after, chunks, queued, owed>>

sound_tmp_samples == 2 * sound_samples

\* initialize_sound(), and the first fill of the audio queue.
Init ==
    /\ strict \in BOOLEAN
    /\ buffer_ptr = 0 /\ mix_counter = 1
    /\ dev_need_mix = {} /\ need_mix = 0
    /\ left = 0 /\ pc = "create" /\ after = "create"
    /\ chunks = audio_initial_chunks
    /\ queued = 0
    /\ owed = 0

Realtime == strict \/ need_mix > 0

Room == sound_tmp_samples - buffer_ptr

\* Mutant: what is left of the buffer is not looked at.
DueSamplesUnlimited == Max({mix_counter, IF Realtime THEN 1 ELSE 0})

\* The samples that are due, at least one in realtime, if there is room.
DueSamples == Min({Max({mix_counter, IF Realtime THEN 1 ELSE 0}), Room})

\* Mutant: one sample more than the limit is waited for.
MixLate ==
    IF Realtime
    THEN /\ buffer_ptr' = buffer_ptr + DueSamples /\ mix_counter' = 1
    ELSE IF DueSamples > 0 /\ mix_counter > mix_limit
    THEN /\ buffer_ptr' = buffer_ptr + DueSamples
         /\ mix_counter' = mix_counter - DueSamples + 1
    ELSE mix_counter' = mix_counter + 1 /\ UNCHANGED buffer_ptr

\* The sample event, EVENT_MIX, when there is room.
Mix ==
    IF Realtime
    THEN /\ buffer_ptr' = buffer_ptr + DueSamples /\ mix_counter' = 1
    ELSE IF DueSamples > 0 /\ mix_counter >= mix_limit
    THEN /\ buffer_ptr' = buffer_ptr + DueSamples
         /\ mix_counter' = mix_counter - DueSamples + 1
    ELSE mix_counter' = mix_counter + 1 /\ UNCHANGED buffer_ptr

\* Samples that no longer fit are lost, and one is gained when realtime
\* rendering begins right after a touch.
Lost == IF Room = 0 THEN 1 ELSE IF Realtime THEN Max({mix_counter - Room, 0}) ELSE 0
Gained == IF Room > 0 /\ Realtime /\ mix_counter < 1 THEN 1 ELSE 0

MixEvent ==
    /\ pc = "frame" /\ left > 0
    /\ left' = left - 1
    /\ IF Room > 0 THEN Mix ELSE UNCHANGED mixer
    /\ owed' = owed + 1 - Lost + Gained
    /\ UNCHANGED <<renderers, pc, after, chunks, queued>>

\* touch_sound(): a device is about to change its sound.
TouchSound ==
    /\ pc \in {"frame", "loop"} /\ ~Realtime
    /\ LET due == Min({mix_counter, Room})
       IN /\ due > 0
          /\ buffer_ptr' = buffer_ptr + due
          /\ mix_counter' = mix_counter - due
    /\ UNCHANGED <<renderers, left, pc, after, chunks, queued, owed>>

\* set_realtime_render().
SetRealtime(device, flag) ==
    /\ pc \in {"frame", "loop"}
    /\ flag # (device \in dev_need_mix)
    /\ dev_need_mix' = IF flag THEN dev_need_mix \cup {device} ELSE dev_need_mix \ {device}
    /\ need_mix' = IF flag THEN need_mix + 1 ELSE Max({need_mix - 1, 0})
    /\ UNCHANGED <<strict, mixer, left, pc, after, chunks, queued, owed>>

\* Mutant: a frame without sample events, which are not registered.
DriveSilent(return) ==
    /\ left' = 0
    /\ pc' = "frame" /\ after' = return

\* drive() runs a frame, in which EVENT_MIX comes some times.
Drive(return) ==
    /\ left' \in FrameSamples
    /\ pc' = "frame" /\ after' = return

FrameEnds ==
    /\ pc = "frame" /\ left = 0
    /\ pc' = after
    /\ UNCHANGED <<mixer, renderers, left, after, chunks, queued, owed>>

\* vm->run()
RunFrame ==
    /\ pc = "loop"
    /\ Drive("refill")
    /\ UNCHANGED <<mixer, renderers, chunks, queued, owed>>

\* Mutant: the chunks that are already queued are not counted.
RefillAll ==
    /\ pc = "refill"
    /\ IF queued < audio_target_chunks * sound_samples
       THEN chunks' = audio_target_chunks /\ pc' = "create"
       ELSE pc' = "loop" /\ UNCHANGED chunks
    /\ UNCHANGED <<mixer, renderers, left, after, queued, owed>>

\* The main loop refills the audio queue when it is below its target.
Refill ==
    /\ pc = "refill"
    /\ IF queued < audio_target_chunks * sound_samples
       THEN /\ chunks' = Min({audio_target_chunks - queued \div sound_samples,
                              audio_max_refill_chunks})
            /\ pc' = "create"
       ELSE pc' = "loop" /\ UNCHANGED chunks
    /\ UNCHANGED <<mixer, renderers, left, after, queued, owed>>

\* create_sound() runs extra frames until there is a chunk.
RunExtraFrame ==
    /\ pc = "create" /\ chunks > 0 /\ buffer_ptr < sound_samples
    /\ Drive("create")
    /\ UNCHANGED <<mixer, renderers, chunks, queued, owed>>

\* Mutant: what is more than a chunk is dropped.
KeptNone == 0

\* What is more than a chunk is kept for the next one.
Kept == IF buffer_ptr > sound_samples THEN buffer_ptr - sound_samples ELSE 0

\* create_sound() has a chunk, which is queued unless the host fails to.
CreateSound ==
    /\ pc = "create" /\ chunks > 0 /\ buffer_ptr >= sound_samples
    /\ buffer_ptr' = Kept
    /\ owed' = owed - sound_samples
    /\ \/ queued' = queued + sound_samples /\ chunks' = chunks - 1
       \/ chunks' = 0 /\ UNCHANGED queued
    /\ UNCHANGED <<mix_counter, renderers, left, pc, after>>

Refilled ==
    /\ pc = "create" /\ chunks = 0
    /\ pc' = "loop"
    /\ UNCHANGED <<mixer, renderers, left, after, chunks, queued, owed>>

\* reset_vm(): a new machine; the audio queue stays.
ResetVm ==
    /\ pc = "loop"
    /\ buffer_ptr' = 0 /\ mix_counter' = 1 /\ dev_need_mix' = {} /\ need_mix' = 0
    /\ owed' = 0
    /\ UNCHANGED <<strict, left, pc, after, chunks, queued>>

\* SDL plays from the audio queue, at any time.
Play ==
    /\ queued > 0
    /\ queued' = queued - 1
    /\ UNCHANGED <<mixer, renderers, left, pc, after, chunks, owed>>

Machine == MixEvent \/ FrameEnds \/ RunExtraFrame \/ CreateSound \/ Refilled

Next ==
    \/ Machine \/ TouchSound
    \/ \E device \in Renderers, flag \in BOOLEAN : SetRealtime(device, flag)
    \/ RunFrame \/ Refill \/ ResetVm \/ Play

Spec == Init /\ [][Next]_vars

\* The main thread runs straight on.
FairSpec == Spec /\ WF_vars(Machine)
-----------------------------------------------------------------------------
TypeOK ==
    /\ strict \in BOOLEAN
    /\ buffer_ptr \in 0 .. sound_tmp_samples
    /\ mix_counter \in Nat
    /\ dev_need_mix \subseteq Renderers /\ need_mix \in Nat
    /\ left \in Nat
    /\ pc \in {"loop", "frame", "refill", "create"} /\ after \in {"refill", "create"}
    /\ chunks \in Nat /\ queued \in Nat
    /\ owed \in Int

(***************************************************************************)
(* Each sample event is one sample of sound, however it came to be mixed:  *)
(* at its event, together with others, early by a touch, or kept from one  *)
(* chunk to the next.  Exceptions: samples that no longer fit into the two *)
(* chunks of the buffer are lost; and one is gained when realtime          *)
(* rendering begins right after a touch.                                   *)
(***************************************************************************)
SamplesKept == buffer_ptr + mix_counter = owed + 1

(***************************************************************************)
(* Sound is mixed "per 0.5ms" (event.cpp:50): no more than mix_limit       *)
(* samples are ever due, whatever the buffer had room for.                 *)
(***************************************************************************)
LatencyBounded == mix_counter <= Max({mix_limit, 1})

(***************************************************************************)
(* The audio queue stays within its target and the chunk that reaches it,  *)
(* although chunks are created without looking at the queue again.         *)
(***************************************************************************)
QueueBounded ==
    queued + chunks * sound_samples <
        (Max({audio_target_chunks, audio_initial_chunks}) + 1) * sound_samples

\* create_sound() returns: the frames that it runs fill the buffer.
SoundCreated == (pc = "create") ~> (pc = "loop")
=============================================================================
