\* Two cores: a blocked thread can be woken and resumed before it was saved.
SPECIFICATION Spec
CONSTANTS
    Cores = {c1, c2}
    BootCore = c1
    Threads = {t1, t2}
    Idle = idle
    MaxMessages = 2
    MaxReads = 2
    Prompt = TRUE
INVARIANTS
    UserSeesResult
\* The bounds end every behaviour.
CHECK_DEADLOCK FALSE
