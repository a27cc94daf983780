CONSTANTS
    sound_samples = 4
    mix_limit = 3
    FrameSamples = {1, 3}
    Renderers = {"drec", "pcm"}
    audio_target_chunks = 2
    audio_initial_chunks = 1
    audio_max_refill_chunks = 2
SPECIFICATION FairSpec
INVARIANTS
    TypeOK
    SamplesKept
    LatencyBounded
    QueueBounded
PROPERTIES
    SoundCreated
