----------------------------- MODULE Scheduler -----------------------------
(***************************************************************************)
(* The preemptive scheduler: one instance per core under one aggregate     *)
(* (kernel/scheduler/types.cpp, scheduler.cpp), driven by the per-core     *)
(* preemption timer (kernel/time/time.cpp) and by the scheduling_trigger   *)
(* IPI.  All of this code runs with interrupts disabled, so a core         *)
(* executes one operation at a time; what interleaves is the cores, at     *)
(* the spin locks.                                                         *)
(*                                                                         *)
(* A step is one critical section, or the part of one that no other core   *)
(* can observe.  A core's own timer heap is only touched by that core, so  *)
(* the timer lock never contends and has no variable.  A cancelled         *)
(* descriptor stays in the code's heap until it expires and is then        *)
(* dropped; here cancelling removes it.  Time is abstracted to "an armed   *)
(* event may fall due at any later moment".                                *)
(***************************************************************************)
EXTENDS Integers, FiniteSets

CONSTANTS
    NumCores,   \* number of cores that booted
    Threads,    \* every thread ever scheduled, the idle threads excluded
    BootCore,   \* the core that runs kernel_main
    Prompt      \* TRUE: kernel code and IPIs take far less than the 10 ms time slice

Cores  == 0 .. NumCores - 1
NoCore == -1

Idle     == "idle"      \* _idle_thread of the core in question
NoThread == "none"      \* a moved-from intrusive_ptr

ASSUME CoresAssumption   == NumCores \in Nat \ {0} /\ BootCore \in Cores
ASSUME ThreadsAssumption == IsFiniteSet(Threads) /\ {Idle, NoThread} \cap Threads = {}
ASSUME PromptAssumption  == Prompt \in BOOLEAN

VARIABLES
    current,    \* core -> instance::_current_thread, mirrored in cls->current_thread
    ready,      \* core -> set of threads in instance::_threads
    older,      \* <<t, u>> \in older iff t->timestamp < u->timestamp
    waiting,    \* threads held by some mailbox or not yet started
    hand,       \* core -> thread held only by a local variable of the operation
    pc, op,     \* core -> where it is, and which operation it executes
    scan,       \* core -> next child aggregate::schedule looks at
    lowest,     \* core -> instance with the lowest load so far, then the one locked
    load,       \* core -> that instance's load
    lock,       \* core -> owner of its instance's _lock
    aggLock,    \* owner of global_scheduler's _lock
    irqLock,    \* vector -> owner of irq_handlers[vector].lock
    trigger,    \* cores whose LAPIC has a scheduling_trigger IPI pending
    token,      \* core -> timer its instance's _preemption_token was armed on
    armed,      \* core -> instances with a valid descriptor in its timer heap
    due,        \* core -> the expired ones among them
    callback,   \* core -> instance whose popped descriptor is being called
    panic       \* core -> the PANIC that stopped it

threadVars == <<current, ready, older, waiting, hand>>
timerVars  == <<trigger, token, armed, due>>
scanVars   == <<scan, lowest, load>>
lockVars   == <<lock, aggLock, irqLock>>
vars == <<threadVars, timerVars, scanVars, lockVars, pc, op, callback, panic>>

Vectors == {"trigger", "timer"}

\* An instance whose load is not below this is never chosen: the initial -1
\* of aggregate::schedule, as an unsigned value.
MaxLoad == Cardinality(Threads) + 1

StrictTotalOrders ==
    {r \in SUBSET (Threads \X Threads) :
        /\ \A t \in Threads : <<t, t>> \notin r
        /\ \A t, u \in Threads : t # u => (<<t, u>> \in r <=> <<u, t>> \notin r)
        /\ \A t, u, v \in Threads : <<t, u>> \in r /\ <<u, v>> \in r => <<t, v>> \in r}

Init ==
    /\ current = [c \in Cores |-> Idle]
    /\ ready = [c \in Cores |-> {}]
    /\ older \in StrictTotalOrders
    /\ waiting = Threads
    /\ hand = [c \in Cores |-> NoThread]
    /\ pc = [c \in Cores |-> "run"]
    /\ op = [c \in Cores |-> "none"]
    /\ scan = [c \in Cores |-> 0]
    /\ lowest = [c \in Cores |-> NoCore]
    /\ load = [c \in Cores |-> MaxLoad]
    /\ lock = [c \in Cores |-> NoCore]
    /\ aggLock = NoCore
    /\ irqLock = [v \in Vectors |-> NoCore]
    /\ trigger = {}
    /\ token = [c \in Cores |-> NoCore]
    /\ armed = [c \in Cores |-> {}]
    /\ due = [c \in Cores |-> {}]
    /\ callback = [c \in Cores |-> NoCore]
    /\ panic = [c \in Cores |-> "none"]

-----------------------------------------------------------------------------
(* Building blocks *)

\* timestamp = now(): the thread becomes younger than every other one.
Stamped(t) == {p \in older : p[1] # t} \cup {<<u, t>> : u \in Threads \ {t}}

\* _current_thread going back into _threads; the idle thread never does.
ForgetsCurrent(c) == {}
PutBack(c) == {current[c]} \ {Idle}

\* The thread handed to schedule leaves the queue of the mailbox it waited in.
Unqueued(t) == waiting \ {t}

\* _threads.pop(), or the idle thread when there is nothing to pop.
PopsYoungest(queue, order) ==
    IF queue = {} THEN {Idle}
    ELSE {t \in queue : \A u \in queue : <<t, u>> \notin order}
NextThread(queue, order) ==
    IF queue = {} THEN {Idle}
    ELSE {t \in queue : \A u \in queue : <<u, t>> \notin order}

\* event_token::cancel on the token of instance i.
NotCancelled(events, i) == events
Cancelled(events, i) ==
    [k \in Cores |-> IF k = token[i] THEN events[k] \ {i} ELSE events[k]]

\* instance::_setup_preemption of instance i by core c: the IPI to the other
\* core, and a fresh event on the timer of the CALLING core.
SetupForSeveral(c, i, queue) ==
    /\ trigger' = trigger \cup ({i} \ {c})
    /\ IF Cardinality(queue) < 2
       THEN UNCHANGED <<token, armed, due>>
       ELSE /\ token' = [token EXCEPT ![i] = c]
            /\ armed' = [Cancelled(armed, i) EXCEPT ![c] = @ \cup {i}]
            /\ due' = Cancelled(due, i)
SetupPreemption(c, i, queue) ==
    /\ trigger' = trigger \cup ({i} \ {c})
    /\ IF queue = {}
       THEN UNCHANGED <<token, armed, due>>
       ELSE /\ token' = [token EXCEPT ![i] = c]
            /\ armed' = [Cancelled(armed, i) EXCEPT ![c] = @ \cup {i}]
            /\ due' = Cancelled(due, i)

\* one_shot ends in timer::_schedule_next; without a one_shot there is
\* nothing left to do but to unlock.
AfterSetup(queue) == IF queue = {} THEN "unwind" ELSE "loop"

\* instance::_reschedule on the current core, `queue' being _threads after
\* the current thread was put back.
PopsBeforePush(c, queue, order) ==
    \E next \in NextThread(ready[c], order) :
        LET rest == queue \ {next} IN
        /\ current' = [current EXCEPT ![c] = next]
        /\ ready' = [ready EXCEPT ![c] = rest]
        /\ SetupPreemption(c, c, rest)
        /\ pc' = [pc EXCEPT ![c] = AfterSetup(rest)]
Dispatch(c, queue, order) ==
    \E next \in NextThread(queue, order) :
        LET rest == queue \ {next} IN
        /\ current' = [current EXCEPT ![c] = next]
        /\ ready' = [ready EXCEPT ![c] = rest]
        /\ SetupPreemption(c, c, rest)
        /\ pc' = [pc EXCEPT ![c] = AfterSetup(rest)]

Halt(c, why) ==
    /\ pc' = [pc EXCEPT ![c] = "halted"]
    /\ panic' = [panic EXCEPT ![c] = why]

-----------------------------------------------------------------------------
(* scheduler::schedule: mailbox writes, process_start, post_schedule *)

\* The caller takes the thread out of the mailbox's queue (or creates it).
\* Only kernel_main does so outside of any thread.
ScheduleBegin(c) ==
    /\ pc[c] = "run"
    /\ current[c] # Idle \/ c = BootCore
    /\ \E t \in waiting :
        /\ waiting' = Unqueued(t)
        /\ hand' = [hand EXCEPT ![c] = t]
    /\ op' = [op EXCEPT ![c] = "schedule"]
    /\ pc' = [pc EXCEPT ![c] = "aggregate"]
    /\ UNCHANGED <<current, ready, older, timerVars, scanVars, lockVars, callback, panic>>

\* aggregate::schedule takes its lock...
AggregateLock(c) ==
    /\ pc[c] = "aggregate"
    /\ aggLock = NoCore
    /\ aggLock' = c
    /\ pc' = [pc EXCEPT ![c] = "load"]
    /\ scan' = [scan EXCEPT ![c] = 0]
    /\ lowest' = [lowest EXCEPT ![c] = NoCore]
    /\ load' = [load EXCEPT ![c] = MaxLoad]
    /\ UNCHANGED <<threadVars, timerVars, lock, irqLock, op, callback, panic>>

\* ... asks each child for its average_load, under the child's lock only...
AverageLoad(c) ==
    /\ pc[c] = "load"
    /\ LET child == scan[c]
           al == Cardinality(ready[child]) IN
       /\ lock[child] = NoCore
       /\ IF al < load[c]
          THEN /\ lowest' = [lowest EXCEPT ![c] = child]
               /\ load' = [load EXCEPT ![c] = al]
          ELSE UNCHANGED <<lowest, load>>
       /\ scan' = [scan EXCEPT ![c] = child + 1]
       /\ pc' = [pc EXCEPT ![c] = IF child + 1 \in Cores THEN "load" ELSE "instance"]
    /\ UNCHANGED <<threadVars, timerVars, lockVars, op, callback, panic>>

\* ... and calls instance::schedule on the least loaded one.
InstanceSchedule(c) ==
    /\ pc[c] = "instance"
    /\ LET i == lowest[c]
           queue == ready[i] \cup {hand[c]} IN
       /\ lock[i] = NoCore
       /\ lock' = [lock EXCEPT ![i] = c]
       /\ IF current[i] = hand[c]
          THEN /\ Halt(c, "rescheduling the current thread")
               /\ UNCHANGED <<ready, hand, timerVars>>
          ELSE /\ ready' = [ready EXCEPT ![i] = queue]
               /\ hand' = [hand EXCEPT ![c] = NoThread]
               /\ SetupPreemption(c, i, queue)
               /\ pc' = [pc EXCEPT ![c] = AfterSetup(queue)]
               /\ UNCHANGED panic
    /\ UNCHANGED <<current, older, waiting, scanVars, aggLock, irqLock, op, callback>>

-----------------------------------------------------------------------------
(* instance::deschedule: the current thread blocks in a mailbox read *)

DescheduleBegin(c) ==
    /\ pc[c] = "run"
    /\ current[c] # Idle
    /\ op' = [op EXCEPT ![c] = "deschedule"]
    /\ pc' = [pc EXCEPT ![c] = "deschedule"]
    /\ UNCHANGED <<threadVars, timerVars, scanVars, lockVars, callback, panic>>

Deschedule(c) ==
    /\ pc[c] = "deschedule"
    /\ lock[c] = NoCore
    /\ lock' = [lock EXCEPT ![c] = c]
    /\ lowest' = [lowest EXCEPT ![c] = c]
    /\ hand' = [hand EXCEPT ![c] = current[c]]
    /\ older' = Stamped(current[c])
    /\ Dispatch(c, ready[c], older)
    /\ UNCHANGED <<waiting, scan, load, aggLock, irqLock, op, callback, panic>>

-----------------------------------------------------------------------------
(* The interrupt handlers; irq_handlers[v].lock is one lock for all cores *)

InterruptEnter(c, v) ==
    /\ pc[c] = "run"
    /\ op' = [op EXCEPT ![c] = v]
    /\ pc' = [pc EXCEPT ![c] = "irq"]
    /\ UNCHANGED <<threadVars, token, armed, due, scanVars, lockVars, callback, panic>>

TriggerInterrupt(c) ==
    /\ c \in trigger
    /\ trigger' = trigger \ {c}
    /\ InterruptEnter(c, "trigger")

TimerInterrupt(c) ==
    /\ due[c] # {}
    /\ UNCHANGED trigger
    /\ InterruptEnter(c, "timer")

\* timer::handle enters _schedule_next with no instance lock held.
IrqLock(c) ==
    /\ pc[c] = "irq"
    /\ irqLock[op[c]] = NoCore
    /\ irqLock' = [irqLock EXCEPT ![op[c]] = c]
    /\ pc' = [pc EXCEPT ![c] = IF op[c] = "timer" THEN "loop" ELSE "trigger"]
    /\ UNCHANGED <<threadVars, timerVars, scanVars, lock, aggLock, op, callback, panic>>

\* instance::scheduling_trigger on the interrupted core.
SchedulingTrigger(c) ==
    /\ pc[c] = "trigger"
    /\ lock[c] = NoCore
    /\ lock' = [lock EXCEPT ![c] = c]
    /\ lowest' = [lowest EXCEPT ![c] = c]
    /\ SetupPreemption(c, c, ready[c])
    /\ pc' = [pc EXCEPT ![c] = AfterSetup(ready[c])]
    /\ UNCHANGED <<threadVars, scan, load, aggLock, irqLock, op, callback, panic>>

-----------------------------------------------------------------------------
(* timer::_schedule_next, from the interrupt or at the end of a one_shot *)

\* An expired valid descriptor is popped, its callback about to be called.
Fire(c) ==
    /\ pc[c] = "loop"
    /\ \E i \in due[c] :
        /\ due' = [due EXCEPT ![c] = @ \ {i}]
        /\ armed' = [armed EXCEPT ![c] = @ \ {i}]
        /\ callback' = [callback EXCEPT ![c] = i]
    /\ pc' = [pc EXCEPT ![c] = "callback"]
    /\ UNCHANGED <<threadVars, trigger, token, scanVars, lockVars, op, panic>>

\* The callback of _setup_preemption: take the instance's lock, _reschedule.
PreemptionCallback(c) ==
    /\ pc[c] = "callback"
    /\ LET i == callback[c]
           back == PutBack(c) IN
       /\ lock[i] = NoCore
       /\ lock' = [lock EXCEPT ![i] = c]
       /\ IF i # c
          THEN /\ Halt(c, "_reschedule on an instance of another core")
               /\ UNCHANGED <<current, ready, older, timerVars>>
          ELSE /\ older' = IF back = {} THEN older ELSE Stamped(current[c])
               /\ Dispatch(c, ready[c] \cup back, older')
               /\ UNCHANGED panic
       /\ callback' = [callback EXCEPT ![c] = IF i = c THEN NoCore ELSE i]
    /\ UNCHANGED <<waiting, hand, scanVars, aggLock, irqLock, op>>

\* The lock of the core's own instance was taken by a callback inside the
\* operation, not by the operation itself.
Nested(c) == lock[c] = c /\ lowest[c] # c

Unwinding(c) == pc[c] = "unwind" \/ (pc[c] = "loop" /\ due[c] = {})

\* The callback returns into the loop that called it.
CallbackReturn(c) ==
    /\ Unwinding(c)
    /\ Nested(c)
    /\ lock' = [lock EXCEPT ![c] = NoCore]
    /\ pc' = [pc EXCEPT ![c] = "loop"]
    /\ UNCHANGED <<threadVars, timerVars, scanVars, aggLock, irqLock, op, callback, panic>>

\* The operation ends: its locks are released, its locals are dead, and the
\* thread that deschedule returned goes into the mailbox's queue.
OperationReturn(c) ==
    /\ Unwinding(c)
    /\ ~Nested(c)
    /\ lock' = [i \in Cores |-> IF lock[i] = c THEN NoCore ELSE lock[i]]
    /\ aggLock' = IF aggLock = c THEN NoCore ELSE aggLock
    /\ irqLock' = [v \in Vectors |-> IF irqLock[v] = c THEN NoCore ELSE irqLock[v]]
    /\ waiting' = IF op[c] = "deschedule" THEN waiting \cup {hand[c]} ELSE waiting
    /\ hand' = [hand EXCEPT ![c] = NoThread]
    /\ op' = [op EXCEPT ![c] = "none"]
    /\ pc' = [pc EXCEPT ![c] = "run"]
    /\ scan' = [scan EXCEPT ![c] = 0]
    /\ lowest' = [lowest EXCEPT ![c] = NoCore]
    /\ load' = [load EXCEPT ![c] = MaxLoad]
    /\ UNCHANGED <<current, ready, older, timerVars, callback, panic>>

\* Time passes: an armed event expires.  If the kernel is prompt, not while
\* the core is still in the critical section that armed it, and not before
\* the core it concerns has handled the IPI sent along with it.
Expire(c) ==
    /\ \E i \in armed[c] \ due[c] :
        /\ Prompt => lock[i] # c
        /\ Prompt /\ i # c => i \notin trigger /\ op[i] # "trigger"
        /\ due' = [due EXCEPT ![c] = @ \cup {i}]
    /\ UNCHANGED <<threadVars, trigger, token, armed, scanVars, lockVars, pc, op,
                   callback, panic>>

-----------------------------------------------------------------------------
\* What a core does inside the kernel once an operation has begun.
KernelStep(c) ==
    \/ AggregateLock(c)
    \/ AverageLoad(c)
    \/ InstanceSchedule(c)
    \/ Deschedule(c)
    \/ IrqLock(c)
    \/ SchedulingTrigger(c)
    \/ Fire(c)
    \/ PreemptionCallback(c)
    \/ CallbackReturn(c)
    \/ OperationReturn(c)

Next ==
    \E c \in Cores :
        \/ ScheduleBegin(c)
        \/ DescheduleBegin(c)
        \/ TriggerInterrupt(c)
        \/ TimerInterrupt(c)
        \/ KernelStep(c)
        \/ Expire(c)

Spec == Init /\ [][Next]_vars

\* A core goes on executing kernel code and its timer counts down.  A pending
\* interrupt is taken as soon as interrupts are enabled, so a thread making
\* system calls for ever does not keep it away.  Nothing obliges a thread to
\* make a system call.
Fairness ==
    \A c \in Cores :
        /\ WF_vars(KernelStep(c))
        /\ SF_vars(TriggerInterrupt(c))
        /\ SF_vars(TimerInterrupt(c))
        /\ WF_vars(Expire(c))

FairSpec == Spec /\ Fairness

-----------------------------------------------------------------------------
(* Properties *)

OptCores == Cores \cup {NoCore}

\* The variables hold what the code's fields, locals and locks can hold.
TypeOK ==
    /\ current \in [Cores -> Threads \cup {Idle}]
    /\ ready \in [Cores -> SUBSET Threads]
    /\ older \in SUBSET (Threads \X Threads)
    /\ waiting \in SUBSET Threads
    /\ hand \in [Cores -> Threads \cup {NoThread}]
    /\ pc \in [Cores -> {"run", "aggregate", "load", "instance", "deschedule", "irq",
                         "trigger", "loop", "callback", "unwind", "halted"}]
    /\ op \in [Cores -> {"none", "schedule", "deschedule"} \cup Vectors]
    /\ scan \in [Cores -> 0 .. NumCores]
    /\ lowest \in [Cores -> OptCores]
    /\ load \in [Cores -> 0 .. MaxLoad]
    /\ lock \in [Cores -> OptCores]
    /\ aggLock \in OptCores
    /\ irqLock \in [Vectors -> OptCores]
    /\ trigger \in SUBSET Cores
    /\ token \in [Cores -> OptCores]
    /\ armed \in [Cores -> SUBSET Cores]
    /\ due \in [Cores -> SUBSET Cores]
    /\ callback \in [Cores -> OptCores]
    /\ panic \in [Cores -> {"none", "rescheduling the current thread",
                            "_reschedule on an instance of another core"}]

Somewhere(t) ==
    \/ t \in waiting
    \/ \E c \in Cores : t \in ready[c] \/ current[c] = t \/ hand[c] = t

NowhereTwice(t) ==
    /\ t \in waiting => \A c \in Cores : t \notin ready[c] /\ current[c] # t /\ hand[c] # t
    /\ \A c, d \in Cores :
        /\ t \in ready[c] => current[d] # t /\ hand[d] # t /\ (t \in ready[d] => c = d)
        /\ current[c] = t => hand[d] # t /\ (current[d] = t => c = d)
        /\ hand[c] = t /\ hand[d] = t => c = d

\* A thread is never lost and never in two places: it waits in a mailbox, or
\* is queued on one core, or runs on one core, or is in the hands of one
\* operation.  (intrusive_ptr moves in schedule, deschedule, _reschedule.)
ThreadInOnePlace == \A t \in Threads : Somewhere(t) /\ NowhereTwice(t)

\* A core that spins on an instance's lock does not hold that lock itself:
\* the timer callbacks that one_shot may run inside schedule, deschedule and
\* scheduling_trigger never wait for a lock of the operation around them.
NoSelfDeadlock ==
    \A c \in Cores : pc[c] = "callback" => lock[callback[c]] # c

\* No lost preemption: an instance with queued threads has a valid event in
\* some timer, or a callback for it on its way, whatever the order in which
\* cores arm, cancel and fire.
QueuedThreadHasEvent ==
    \A i \in Cores : ready[i] # {} =>
        \E c \in Cores : i \in armed[c] \/ (callback[c] = i /\ pc[c] \in {"callback", "halted"})

\* Two valid events for one instance never coexist: the one that
\* _preemption_token refers to is the only one (cancel before one_shot).
OneEventPerInstance ==
    \A c, i \in Cores : i \in armed[c] => token[i] = c

\* instance::schedule never finds the thread it is given already running
\* ("rescheduling the current thread!").
NeverReschedulesCurrent ==
    \A c \in Cores : panic[c] # "rescheduling the current thread"

\* A preemption callback runs on the core of its instance: types.cpp:157
\* panics otherwise.
ReschedulesOwnCore ==
    \A c \in Cores : panic[c] # "_reschedule on an instance of another core"

\* A core that starts a queued thread starts the one that has not run for the
\* longest time, and no core ever changes what another core runs.
DispatchesOldest ==
    [][\A c \in Cores : current'[c] # current[c] =>
          /\ lock'[c] = c /\ lock[c] = NoCore
          /\ current'[c] # Idle => \A t \in ready'[c] : <<current'[c], t>> \in older'
      ]_vars

Life == INSTANCE ThreadLife WITH running <- current, runnable <- ready

\* The scheduler implements ThreadLife: whatever the interleaving of cores,
\* a thread woken by schedule becomes ready once, runs on at most one core,
\* and leaves its core only when it blocks or when another thread is ready.
ImplementsThreadLife == Life!LifeSpec

\* Every queued thread gets to run.
QueuedThreadRuns ==
    \A t \in Threads : (\E c \in Cores : t \in ready[c]) ~> (\E c \in Cores : current[c] = t)
=============================================================================
