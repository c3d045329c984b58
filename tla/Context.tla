------------------------------ MODULE Context -------------------------------
(***************************************************************************)
(* Switching threads on one core: how the registers of a thread get from   *)
(* the CPU to its context and back, through system calls                   *)
(* (kernel/arch/amd64/cpu/syscalls.cpp, cpu.asm) and interrupts            *)
(* (irqs.cpp).                                                             *)
(*                                                                         *)
(* The registers are taken in groups that share their fate: ip is rip with *)
(* rsp, cd is rcx with rdx, rf is rflags, r11 is itself, and gen all       *)
(* others.  The contents of a group are the thread that wrote it and a     *)
(* version.  rax, which carries the result, is left out.  A thread of the  *)
(* kernel lives in the upper half of the address space: the tests on rip   *)
(* ask for that.                                                           *)
(***************************************************************************)
EXTENDS Naturals

CONSTANTS UserThreads, KernelThreads, CtxNone

VARIABLES
    running,    \* the core's current_thread
    live,       \* the registers while a thread runs: [ip, gen, rf, cd, r11, cs, ss]
    ctxs,       \* thread -> its context: [ip, gen, rf, cd, r11, cs, ss, sysret]
    ctxStep,    \* "run", "syscall", "interrupt", "load", "continue" or "fault"
    entered,    \* "syscall" or "interrupt": the handler that the core is in
    frame,      \* the handler's copy of the registers; .iret is the frame for iretq, or CtxNone
    blocked,    \* threads with a continuation
    wanted,     \* thread -> the registers it has to go on with; CtxNone for any contents
    stale       \* a continuation failed for a thread that needs iretq, in this system call

ctxVars == <<running, live, ctxs, ctxStep, entered, frame, blocked, wanted, stale>>

CtxThreads == UserThreads \cup KernelThreads

\* What a group of registers holds, and a frame for iretq.
Contents == CtxThreads \X {0, 1}
IretFrames == [ip : Contents, rf : Contents, cs : {8, 27}, ss : {16, 35}]

ASSUME CtxAssumption ==
    /\ UserThreads # {} /\ UserThreads \cap KernelThreads = {}
    /\ CtxNone \notin Contents /\ CtxNone \notin IretFrames

CodeOf(t) == IF t \in UserThreads THEN 27 ELSE 8        \* 0x1b, 0x8
StackOf(t) == IF t \in UserThreads THEN 35 ELSE 16      \* 0x23, 0x10

Registers(t, v) ==
    LET new == <<t, v>>
    IN  [ip |-> new, gen |-> new, rf |-> new, cd |-> new, r11 |-> new, cs |-> CodeOf(t), ss |-> StackOf(t)]

NewContext(t) ==
    LET r == Registers(t, 0)
    IN  [ip |-> r.ip, gen |-> r.gen, rf |-> r.rf, cd |-> r.cd, r11 |-> r.r11, cs |-> r.cs, ss |-> r.ss, sysret |-> FALSE]

CtxInit ==
    /\ running = CHOOSE t \in UserThreads : TRUE
    /\ live = Registers(running, 0)
    /\ ctxs = [t \in CtxThreads |-> NewContext(t)]
    /\ wanted = [t \in CtxThreads |-> IF t = running THEN CtxNone ELSE Registers(t, 0)]
    /\ ctxStep = "run" /\ entered = "interrupt" /\ frame = CtxNone /\ blocked = {} /\ stale = FALSE

\* The thread goes on, and all its registers change.
CtxWork ==
    /\ ctxStep = "run"
    /\ live' = [Registers(running, 1 - live.gen[2]) EXCEPT !.ss = live.ss]
    /\ UNCHANGED <<running, ctxs, ctxStep, entered, frame, blocked, wanted, stale>>

\* Which code a rip belongs to.
Upper(ip) == ip[1] \in KernelThreads

-----------------------------------------------------------------------------
(* System calls *)

\* The instruction and syscall_handler_stub: rcx, rdx and r11 are overwritten.
CtxSyscall ==
    /\ ctxStep = "run"
    /\ frame' = [ip |-> live.ip, gen |-> live.gen, rf |-> live.rf, iret |-> CtxNone]
    /\ wanted' = [wanted EXCEPT ![running] =
                    [live EXCEPT !.cd = CtxNone, !.r11 = CtxNone, !.ss = StackOf(running)]]
    /\ ctxStep' = "syscall" /\ entered' = "syscall" /\ stale' = FALSE /\ live' = CtxNone
    /\ UNCHANGED <<running, ctxs, blocked>>

\* context::save_to
SyscallSave ==
    ctxs' = [ctxs EXCEPT ![running] =
        [ctxs[running] EXCEPT !.ip = frame.ip, !.gen = frame.gen, !.rf = frame.rf,
                              !.cs = IF Upper(frame.ip) THEN 8 ELSE 27,
                              !.ss = IF Upper(frame.ip) THEN 16 ELSE 35,
                              !.sysret = ~ Upper(frame.ip)]]

\* MUTANT of SyscallLoad: rcx, rdx and r11 are not loaded for iretq.
LoadsForSysret(c) ==
    [ip |-> c.ip, gen |-> c.gen, rf |-> c.rf,
     iret |-> IF c.sysret THEN frame.iret ELSE [ip |-> c.ip, rf |-> c.rf, cs |-> c.cs, ss |-> c.ss]]

\* context::load_from; a frame for iretq that is there already stays.
SyscallLoad(c) ==
    [ip |-> IF c.sysret THEN c.ip ELSE c.cd, gen |-> c.gen,
     rf |-> IF c.sysret THEN c.rf ELSE c.r11,
     iret |-> IF c.sysret THEN frame.iret ELSE [ip |-> c.ip, rf |-> c.rf, cs |-> c.cs, ss |-> c.ss]]

\* check_kernel_space
KernelFrame ==
    IF frame.iret = CtxNone /\ Upper(frame.ip) THEN [ip |-> frame.ip, rf |-> frame.rf, cs |-> 8, ss |-> 16]
    ELSE frame.iret

\* check_kernel_space and the end of the stub: sysretq, or iretq.
SyscallReturn ==
    live' = IF KernelFrame = CtxNone
            THEN [ip |-> frame.ip, gen |-> frame.gen, rf |-> frame.rf, cd |-> frame.ip, r11 |-> frame.rf,
                  cs |-> 27, ss |-> 19]     \* 0x13: the sysret mess
            ELSE [ip |-> KernelFrame.ip, gen |-> frame.gen, rf |-> KernelFrame.rf, cd |-> frame.ip, r11 |-> frame.rf,
                  cs |-> KernelFrame.cs, ss |-> KernelFrame.ss]

-----------------------------------------------------------------------------
(* Interrupts *)

StackFixed(ss) == IF ss = 19 THEN 35 ELSE ss

CtxInterrupt ==
    /\ ctxStep = "run"
    /\ frame' = [live EXCEPT !.ss = StackFixed(live.ss)]
    /\ wanted' = [wanted EXCEPT ![running] = [live EXCEPT !.ss = StackOf(running)]]
    /\ ctxStep' = "interrupt" /\ entered' = "interrupt" /\ stale' = FALSE /\ live' = CtxNone
    /\ UNCHANGED <<running, ctxs, blocked>>

\* context::save_to
InterruptSave ==
    ctxs' = [ctxs EXCEPT ![running] =
        [ip |-> frame.ip, gen |-> frame.gen, rf |-> frame.rf, cd |-> frame.cd, r11 |-> frame.r11,
         cs |-> IF Upper(frame.ip) THEN 8 ELSE 27, ss |-> IF Upper(frame.ip) THEN 16 ELSE 35, sysret |-> FALSE]]

\* context::load_from
InterruptLoad(c) ==
    [ip |-> c.ip, gen |-> c.gen, rf |-> c.rf, cd |-> c.cd, r11 |-> c.r11, cs |-> c.cs, ss |-> c.ss]

-----------------------------------------------------------------------------
(* The two handlers have the rest in common *)

\* The handler has made another thread the current one; a system call may
\* leave a continuation behind.
CtxSwitch ==
    /\ ctxStep \in {"syscall", "interrupt"}
    /\ IF entered = "syscall" THEN SyscallSave ELSE InterruptSave
    /\ running' \in CtxThreads \ {running}
    /\ blocked' \in IF entered = "syscall" THEN {blocked, blocked \cup {running}} ELSE {blocked}
    /\ ctxStep' = "load"
    /\ UNCHANGED <<live, entered, frame, wanted, stale>>

\* One turn of the loop: load_from, then the continuation, which may find
\* nothing and leave the core to yet another thread.  It is dropped then, too.
CtxLoad ==
    /\ ctxStep = "load"
    /\ frame' = IF entered = "syscall" THEN SyscallLoad(ctxs[running]) ELSE InterruptLoad(ctxs[running])
    /\ blocked' = blocked \ {running}
    /\ \/ ctxStep' = "continue" /\ UNCHANGED <<running, stale>>
       \/ /\ running \in blocked
          /\ running' \in CtxThreads \ {running}
          /\ stale' = (stale \/ (entered = "syscall" /\ ~ ctxs[running].sysret))
          /\ UNCHANGED ctxStep
    /\ UNCHANGED <<live, ctxs, entered, wanted>>

\* Back to the thread; iretq faults on a selector that does not fit.
CtxReturn ==
    /\ ctxStep \in {"syscall", "interrupt", "continue"}
    /\ IF entered = "syscall" THEN SyscallReturn ELSE live' = frame
    /\ ctxStep' = IF entered = "interrupt" /\ frame.ss = 19 THEN "fault" ELSE "run"
    /\ frame' = CtxNone /\ stale' = FALSE /\ wanted' = [wanted EXCEPT ![running] = CtxNone]
    /\ UNCHANGED <<running, ctxs, entered, blocked>>

CtxNext == CtxWork \/ CtxSyscall \/ CtxInterrupt \/ CtxSwitch \/ CtxLoad \/ CtxReturn

CtxSpec == CtxInit /\ [][CtxNext]_ctxVars

-----------------------------------------------------------------------------
\* The step back to a thread.
Returns == ctxStep # "run" /\ ctxStep' = "run"

\* The registers are the ones that the thread stopped with.
AsStopped ==
    LET w == wanted[running]
    IN  /\ <<live'.ip, live'.gen, live'.rf, live'.cs>> = <<w.ip, w.gen, w.rf, w.cs>>
        /\ w.cd # CtxNone => live'.cd = w.cd
        /\ w.r11 # CtxNone => live'.r11 = w.r11

(* A thread goes on with the registers and the privileges it stopped with: *)
(* all of them after an interrupt, those that a system call keeps after a  *)
(* system call, whatever way the core then takes back to it.  The way back *)
(* after a failed continuation that needed iretq is set aside here.  And   *)
(* it does go on: no interrupt returns to it with a stack selector that    *)
(* iretq refuses, though sysretq has left it in one.                       *)
GoesOnAsItStopped == [][(Returns /\ ~ stale => AsStopped) /\ ctxStep' # "fault"]_ctxVars
=============================================================================
