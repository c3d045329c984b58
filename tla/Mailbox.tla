------------------------------- MODULE Mailbox -------------------------------
(***************************************************************************)
(* Mailboxes and the threads that use them: rose_mailbox_read, with and    *)
(* without blocking, rose_mailbox_write and mailbox::send                  *)
(* (kernel/scheduler/mailbox.cpp), the continuation of a blocking system   *)
(* call (kernel/scheduler/thread.h and the code thorn generates), and the  *)
(* context switch at the end of syscall_handler and interrupt_handler.     *)
(* In the programs of the repository every mailbox is read by one thread,  *)
(* so a mailbox is named by the thread that reads it.                      *)
(*                                                                         *)
(* The scheduler appears as ThreadLife, which Scheduler implements.  A     *)
(* mailbox's lock is held over the whole of a handler, the calls into the  *)
(* scheduler included, so a handler is one step.  What is NOT under that   *)
(* lock is what follows a read that blocked: set_continuation, then        *)
(* save_to, then load_from of the next thread; these are steps of their    *)
(* own.  The registers of a thread are abstracted to the number of reads   *)
(* it has issued.  A read with a finite timeout and a message of an        *)
(* unknown type stop the kernel ("TODO"); no program of the repository     *)
(* makes such a call, and the model leaves them out.                       *)
(***************************************************************************)
EXTENDS ThreadLife, Integers, Sequences

CONSTANTS
    BootCore,       \* the core that runs kernel_main
    MaxMessages,    \* bound: messages sent to one mailbox
    MaxReads,       \* bound: reads in one thread's registers
    Prompt          \* TRUE: a core leaves the kernel within the 10 ms of a time slice

\* The idle thread is not one of the others, and the bounds are numbers.
ASSUME MailAssumption == Idle \notin Threads /\ MaxMessages \in Nat /\ MaxReads \in Nat

VARIABLES
    messages,   \* mailbox -> _message_queue; a message is its number in sending order
    waiters,    \* mailbox -> _waiting_threads
    sent,       \* mailbox -> number of messages pushed
    got,        \* mailbox -> messages handed to the reader, in that order
    pc,         \* core -> "user" or its place in the kernel
    prev,       \* core -> previous_thread of the handler it executes
    regs,       \* core -> the reads issued, as the registers on the core have it
    ctx,        \* thread -> the same, as its saved context has it
    cont,       \* thread -> _continuation is set
    issued,     \* thread -> reads it has issued
    returned    \* thread -> reads whose result it has been given

mailVars == <<messages, waiters, sent, got>>
cpuVars  == <<pc, prev, regs>>
runVars  == <<ctx, cont, issued, returned>>
vars == <<lifeVars, mailVars, cpuVars, runVars>>

Init ==
    /\ running = [c \in Cores |-> Idle]
    /\ runnable \in {f \in [Cores -> SUBSET Threads] :
                        \A t \in Threads : \E c \in Cores : \A d \in Cores : t \in f[d] <=> c = d}
    /\ messages = [t \in Threads |-> <<>>]
    /\ waiters = [t \in Threads |-> <<>>]
    /\ sent = [t \in Threads |-> 0]
    /\ got = [t \in Threads |-> <<>>]
    /\ pc = [c \in Cores |-> "user"]
    /\ prev = [c \in Cores |-> Idle]
    /\ regs = [c \in Cores |-> 0]
    /\ ctx = [t \in Threads |-> 0]
    /\ cont = [t \in Threads |-> FALSE]
    /\ issued = [t \in Threads |-> 0]
    /\ returned = [t \in Threads |-> 0]

-----------------------------------------------------------------------------
(* Writing *)

\* The push wakes the first waiting thread; schedule chooses its core.
WakesNobody(m) == UNCHANGED <<waiters, lifeVars>>
WakeFirst(m) ==
    IF waiters[m] = <<>> THEN UNCHANGED <<waiters, lifeVars>>
    ELSE /\ waiters' = [waiters EXCEPT ![m] = Tail(@)]
         /\ \E d \in Cores : Wake(d, Head(waiters[m]))

PushFront(queue, message) == <<message>> \o queue
PushBack(queue, message) == Append(queue, message)

\* rose_mailbox_write, or mailbox::send from kernel_main.
Write(c, m) ==
    /\ pc[c] = "user"
    /\ running[c] # Idle \/ c = BootCore
    /\ sent[m] < MaxMessages
    /\ sent' = [sent EXCEPT ![m] = @ + 1]
    /\ messages' = [messages EXCEPT ![m] = PushBack(@, sent'[m])]
    /\ WakeFirst(m)
    /\ UNCHANGED <<got, cpuVars, runVars>>

-----------------------------------------------------------------------------
(* Reading *)

Issue(c, t) ==
    /\ pc[c] = "user"
    /\ running[c] = t
    /\ regs[c] < MaxReads
    /\ regs' = [regs EXCEPT ![c] = @ + 1]
    /\ issued' = [issued EXCEPT ![t] = @ + 1]

\* syscall_rose_mailbox_read_handler finds a message.
Receive(t) ==
    /\ messages[t] # <<>>
    /\ got' = [got EXCEPT ![t] = Append(@, Head(messages[t]))]
    /\ messages' = [messages EXCEPT ![t] = Tail(@)]
    /\ returned' = [returned EXCEPT ![t] = @ + 1]

\* It finds none and is to block: another thread runs on the core from here.
Waits(c, t) ==
    /\ messages[t] = <<>>
    /\ \E u \in Threads \cup {Idle} : Block(c, u)
    /\ waiters' = [waiters EXCEPT ![t] = Append(@, t)]

ReadNow(c, t) ==
    /\ Issue(c, t)
    /\ Receive(t)
    /\ UNCHANGED <<lifeVars, waiters, sent, pc, prev, ctx, cont>>

\* timeout = -1: result::not_ready.
ReadNotReady(c, t) ==
    /\ Issue(c, t)
    /\ messages[t] = <<>>
    /\ returned' = [returned EXCEPT ![t] = @ + 1]
    /\ UNCHANGED <<lifeVars, mailVars, pc, prev, ctx, cont>>

\* timeout = 0: std::nullopt.
ReadBlocks(c, t) ==
    /\ Issue(c, t)
    /\ Waits(c, t)
    /\ prev' = [prev EXCEPT ![c] = t]
    /\ pc' = [pc EXCEPT ![c] = "set"]
    /\ UNCHANGED <<messages, sent, got, ctx, cont, returned>>

\* Back in the generated handler: state.current_thread->set_continuation.
SetContinuation(c) ==
    /\ pc[c] = "set"
    /\ IF cont[prev[c]]
       THEN /\ pc' = [pc EXCEPT ![c] = "halted"]
            /\ UNCHANGED cont
       ELSE /\ pc' = [pc EXCEPT ![c] = "save"]
            /\ cont' = [cont EXCEPT ![prev[c]] = TRUE]
    /\ UNCHANGED <<lifeVars, mailVars, prev, regs, ctx, issued, returned>>

-----------------------------------------------------------------------------
(* The context switch *)

\* A core has given t up and has not saved its context yet.
GivenUp(t) == \E d \in Cores : prev[d] = t /\ pc[d] \in {"set", "save"}

\* A preemption event: the thread stays ready on this core.
PreemptThread(c) ==
    /\ pc[c] = "user"
    /\ \E t \in runnable[c] : (Prompt => ~GivenUp(t)) /\ Preempt(c, t)
    /\ prev' = [prev EXCEPT ![c] = running[c]]
    /\ pc' = [pc EXCEPT ![c] = "save"]
    /\ UNCHANGED <<mailVars, regs, runVars>>

\* ctx.save_to(previous_thread->get_context())
SaveTo(c) ==
    /\ pc[c] = "save"
    /\ ctx' = IF prev[c] = Idle THEN ctx ELSE [ctx EXCEPT ![prev[c]] = regs[c]]
    /\ pc' = [pc EXCEPT ![c] = "load"]
    /\ UNCHANGED <<lifeVars, mailVars, prev, regs, cont, issued, returned>>

LoadFrom(c) ==
    /\ pc[c] = "load"
    /\ regs' = [regs EXCEPT ![c] = IF running[c] = Idle THEN 0 ELSE ctx[running[c]]]

\* load_from, and no continuation to invoke: on to the thread.
Resume(c) ==
    /\ LoadFrom(c)
    /\ running[c] # Idle => ~cont[running[c]]
    /\ pc' = [pc EXCEPT ![c] = "user"]
    /\ prev' = [prev EXCEPT ![c] = Idle]
    /\ UNCHANGED <<lifeVars, mailVars, runVars>>

\* load_from, and the continuation's read finds a message.
ContinueRead(c, t) ==
    /\ running[c] = t
    /\ cont[t]
    /\ LoadFrom(c)
    /\ Receive(t)
    /\ cont' = [cont EXCEPT ![t] = FALSE]
    /\ pc' = [pc EXCEPT ![c] = "user"]
    /\ prev' = [prev EXCEPT ![c] = Idle]
    /\ UNCHANGED <<lifeVars, waiters, sent, ctx, issued>>

\* The continuation blocks again; invoke_continuation drops it all the same,
\* and the loop goes on with the thread that now runs.
ContinueBlocks(c, t) ==
    /\ running[c] = t
    /\ cont[t]
    /\ LoadFrom(c)
    /\ Waits(c, t)
    /\ cont' = [cont EXCEPT ![t] = FALSE]
    /\ UNCHANGED <<messages, sent, got, pc, prev, ctx, issued, returned>>

-----------------------------------------------------------------------------
KernelStep(c) ==
    \/ SetContinuation(c)
    \/ SaveTo(c)
    \/ Resume(c)
    \/ \E t \in Threads : ContinueRead(c, t) \/ ContinueBlocks(c, t)

Next ==
    \E c \in Cores :
        \/ \E m \in Threads : Write(c, m)
        \/ \E t \in Threads : ReadNow(c, t) \/ ReadNotReady(c, t) \/ ReadBlocks(c, t)
        \/ PreemptThread(c)
        \/ KernelStep(c)

Spec == Init /\ [][Next]_vars

\* The kernel's own code makes progress; a core with ready threads is
\* preempted (QueuedThreadHasEvent and QueuedThreadRuns of Scheduler).
Fairness ==
    \A c \in Cores : WF_vars(KernelStep(c)) /\ SF_vars(PreemptThread(c))

FairSpec == Spec /\ Fairness

-----------------------------------------------------------------------------
(* Properties *)

\* The variables hold what the code's objects can hold.
TypeOK ==
    /\ running \in [Cores -> Threads \cup {Idle}]
    /\ runnable \in [Cores -> SUBSET Threads]
    /\ messages \in [Threads -> Seq(1 .. MaxMessages)]
    /\ got \in [Threads -> Seq(1 .. MaxMessages)]
    /\ sent \in [Threads -> 0 .. MaxMessages]
    /\ waiters \in [Threads -> Seq(Threads)]
    /\ pc \in [Cores -> {"user", "set", "save", "load", "halted"}]
    /\ prev \in [Cores -> Threads \cup {Idle}]
    /\ regs \in [Cores -> 0 .. MaxReads]
    /\ ctx \in [Threads -> 0 .. MaxReads]
    /\ cont \in [Threads -> BOOLEAN]
    /\ issued \in [Threads -> Nat] /\ returned \in [Threads -> Nat]

\* Every message is delivered once and in the order of sending, or still in
\* the queue, whatever the readers' blocking, waking and switching of cores.
DeliveredInOrder == \A m \in Threads : got[m] \o messages[m] = [i \in 1 .. sent[m] |-> i]

\* No lost wake-up: nobody waits for a mailbox that has a message.
NoneWaitsForQueued == \A m \in Threads : messages[m] = <<>> \/ waiters[m] = <<>>

\* A thread is back in user mode only with the registers of its last system
\* call and after that call gave its result (syscalls.cpp:109-112: "return
\* value: rax", "rest of registers: saved values").
UserSeesResult ==
    \A c \in Cores : \A t \in Threads :
        pc[c] = "user" /\ running[c] = t =>
            regs[c] = issued[t] /\ returned[t] = issued[t]

\* A reader blocked in a read gets its result once a message is there.
BlockedReadReturns ==
    \A t \in Threads : (issued[t] > returned[t] /\ messages[t] # <<>>) ~> (issued[t] = returned[t])
=============================================================================
