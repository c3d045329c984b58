\* Two cores, every interleaving of their critical sections, no timing assumption.
SPECIFICATION Spec
CONSTANTS
    NumCores = 2
    Threads = {t1, t2, t3}
    BootCore = 0
    Prompt = FALSE
SYMMETRY ThreadSymmetry
INVARIANTS
    ThreadInOnePlace QueuedThreadHasEvent OneEventPerInstance
PROPERTIES
    DispatchesOldest ImplementsThreadLife
\* A core that panics stops, and the cores that need its locks spin for ever.
CHECK_DEADLOCK FALSE
