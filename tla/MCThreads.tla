----------------------------- MODULE MCThreads -----------------------------
(***************************************************************************)
(* The scheduler and the mailboxes on one core, for TLC.  The mailboxes    *)
(* stand on ThreadLife in place of the scheduler, so a behaviour is one of *)
(* the scheduler or of the mailboxes, and `focus` says of which.           *)
(***************************************************************************)
EXTENDS Scheduler, Sequences

CONSTANTS MailThreads, MaxMessages, MaxReads

VARIABLES
    focus,                              \* what runs: "scheduler" or "mailbox"
    running, runnable,                  \* of ThreadLife
    messages, waiters, sent, got,       \* of Mailbox, with mailPc for its pc
    mailPc, prev, regs, ctx, cont, issued, returned

Mail == INSTANCE Mailbox WITH Threads <- MailThreads, pc <- mailPc

mailboxVars == <<running, runnable, messages, waiters, sent, got,
                 mailPc, prev, regs, ctx, cont, issued, returned>>
mcVars == <<focus, vars, mailboxVars>>

MCInit == focus \in {"scheduler", "mailbox"} /\ Init /\ Mail!Init

Only(c) ==
    /\ focus = c /\ focus' = focus
    /\ IF c = "scheduler" THEN UNCHANGED mailboxVars ELSE UNCHANGED vars

MCNext ==
    \/ Only("scheduler") /\ Next
    \/ Only("mailbox") /\ Mail!Next
    \* the bounds of Mailbox end its behaviours
    \/ focus = "mailbox" /\ UNCHANGED mcVars

MCSpec == MCInit /\ [][MCNext]_mcVars

\* The fairness of Scheduler and of Mailbox, for the one that runs.
MCFairSpec ==
    /\ MCSpec
    /\ \A c \in Cores :
          /\ WF_mcVars(Only("scheduler") /\ KernelStep(c))
          /\ SF_mcVars(Only("scheduler") /\ TriggerInterrupt(c))
          /\ SF_mcVars(Only("scheduler") /\ TimerInterrupt(c))
          /\ WF_mcVars(Only("scheduler") /\ Expire(c))
          /\ WF_mcVars(Only("mailbox") /\ Mail!KernelStep(c))
          /\ SF_mcVars(Only("mailbox") /\ Mail!PreemptThread(c))

-----------------------------------------------------------------------------
\* A reader blocked in a read gets its result once a message is there, and a
\* thread is back in user mode only with the registers of its last system call
\* and after that call gave its result (syscalls.cpp:109-112: "return value:
\* rax", "rest of registers: saved values").
ReadReturnsResult == []Mail!UserSeesResult /\ Mail!BlockedReadReturns
=============================================================================
