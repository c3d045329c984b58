\* Two cores on the mailboxes, with no timing assumption; and every system call on
\* handles, in any order, of two processes.
SPECIFICATION MCSpec
CONSTANTS
    Procs = {p1, p2}
    Boxes = {b1, b2}
    Handles <- MCHandleSet
    Data = {}
    None = None
    FirstProc = p1
    FirstBox = b1
    MaxMail = 2
    Cores = {c1, c2}
    BootCore = c1
    Threads = {u1, u2}
    Idle = idle
    MaxMessages = 2
    MaxReads = 2
    Prompt = FALSE
INVARIANTS
    DeliveredInOrder NoneWaitsForQueued
    HandleInOnePlace UnwritableStaysEmpty
PROPERTIES
    OnlyTransferableMoves
\* The kernel may panic, and the bounds end every behaviour.
CHECK_DEADLOCK FALSE
