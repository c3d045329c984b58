\* Two cores: the assertion at types.cpp:157 fails.
SPECIFICATION Spec
CONSTANTS
    NumCores = 2
    Threads = {t1, t2, t3}
    BootCore = 0
    Prompt = TRUE
SYMMETRY ThreadSymmetry
INVARIANTS
    ReschedulesOwnCore
CHECK_DEADLOCK FALSE
