\* One core: every queued thread runs, and a blocking read returns its result
\* to the place it was called from.
SPECIFICATION MCFairSpec
CONSTANTS
    NumCores = 1
    Threads = {t1, t2, t3}
    BootCore = 0
    Prompt = TRUE
    MailThreads = {u1, u2}
    MaxMessages = 2
    MaxReads = 2
INVARIANTS
    NoSelfDeadlock
PROPERTIES
    QueuedThreadRuns ReadReturnsResult
