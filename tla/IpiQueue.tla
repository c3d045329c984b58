------------------------------ MODULE IpiQueue ------------------------------
(***************************************************************************)
(* mp::parallel_execute (kernel/util/mp.cpp): a core puts an item into the *)
(* queue of every core, sends them an interrupt and drains its own queue   *)
(* until all have run the function.                                        *)
(*                                                                         *)
(* There is one item for every pair of cores, linked into the queue of the *)
(* second.  Its next pointer is set when another item is put behind it and *)
(* never reset: an item that is used again with the pointer of the last    *)
(* time ("relinked") takes the item it once preceded into the queue again. *)
(*                                                                         *)
(* A core drains its queue in the interrupt handler, when its interrupts   *)
(* are on, and while it waits in its own call.  A core in a system call    *)
(* that spins on a lock has them off: vas::unmap makes its call with the   *)
(* lock of the address space held.                                         *)
(***************************************************************************)
EXTENDS Naturals, Sequences, FiniteSets

CONSTANTS
    IpiCores,       \* 1 .. n
    IpiNull,
    IpiMaxCalls     \* bound on the calls of all cores

ASSUME IpiAssumption ==
    /\ IsFiniteSet(IpiCores) /\ IpiCores \subseteq Nat
    /\ IpiNull \notin IpiCores \X IpiCores /\ IpiNull \notin IpiCores

VARIABLES
    head, tail,     \* core -> the first and the last item of its queue
    next,           \* item -> next
    ipiPc,          \* core -> "idle", "spin", "locked", "push", "send" or "wait"
    targets,        \* core -> the cores that its call has still to queue an item for
    interrupted,    \* core -> the cores that its call sends an interrupt to
    unfinished,     \* core -> unfinished_cores of its call's state
    draining,       \* core -> the item that drain has taken from the queue, or IpiNull
    interrupt,      \* core -> an interrupt is pending
    mutex,          \* the core that holds the lock of the address space
    ran,            \* core -> the cores that have run the function of its call
    ipiCalls,       \* the calls that were made
    relinked,       \* an item was queued with the next pointer of an earlier use
    ranAstray       \* a function was run twice, or for a call that had returned

ipiVars == <<head, tail, next, ipiPc, targets, interrupted, unfinished, draining, interrupt, mutex, ran,
             ipiCalls, relinked, ranAstray>>

IpiInit ==
    /\ head = [c \in IpiCores |-> IpiNull] /\ tail = [c \in IpiCores |-> IpiNull]
    /\ next = [i \in IpiCores \X IpiCores |-> IpiNull]
    /\ ipiPc = [c \in IpiCores |-> "idle"]
    /\ targets = [c \in IpiCores |-> {}] /\ interrupted = [c \in IpiCores |-> {}]
    /\ unfinished = [c \in IpiCores |-> 0]
    /\ draining = [c \in IpiCores |-> IpiNull]
    /\ interrupt = [c \in IpiCores |-> FALSE]
    /\ mutex = IpiNull
    /\ ran = [c \in IpiCores |-> {}]
    /\ ipiCalls = 0
    /\ relinked = FALSE /\ ranAstray = FALSE

Queues == <<head, tail, next>>

\* A system call that goes for the lock of the address space.
IpiLock(c) ==
    /\ ipiPc[c] = "spin" \/ (ipiPc[c] = "idle" /\ draining[c] = IpiNull /\ ipiCalls < IpiMaxCalls)
    /\ ipiCalls' = IF ipiPc[c] = "idle" THEN ipiCalls + 1 ELSE ipiCalls
    /\ IF mutex = IpiNull
       THEN mutex' = c /\ ipiPc' = [ipiPc EXCEPT ![c] = "locked"]
       ELSE ipiPc[c] = "idle" /\ ipiPc' = [ipiPc EXCEPT ![c] = "spin"] /\ UNCHANGED mutex
    /\ UNCHANGED <<Queues, targets, interrupted, unfinished, draining, interrupt, ran, relinked, ranAstray>>

\* erased_parallel_execute, for all cores or for a specific one.
ParallelExecute(c) ==
    /\ ipiPc[c] = "locked" \/ (ipiPc[c] = "idle" /\ draining[c] = IpiNull /\ ipiCalls < IpiMaxCalls)
    /\ ipiCalls' = IF ipiPc[c] = "idle" THEN ipiCalls + 1 ELSE ipiCalls
    /\ \/ targets' = [targets EXCEPT ![c] = IpiCores] /\ interrupted' = [interrupted EXCEPT ![c] = IpiCores \ {c}]
       \/ \E d \in IpiCores :
             targets' = [targets EXCEPT ![c] = {d}] /\ interrupted' = [interrupted EXCEPT ![c] = {d}]
    /\ ipiPc' = [ipiPc EXCEPT ![c] = "push"]
    /\ unfinished' = [unfinished EXCEPT ![c] = 0]
    /\ ran' = [ran EXCEPT ![c] = {}]
    /\ UNCHANGED <<Queues, draining, interrupt, mutex, relinked, ranAstray>>

\* ipi_queue::push, under the lock of the queue.
Push(item, q) ==
    /\ head' = IF head[q] = IpiNull THEN [head EXCEPT ![q] = item] ELSE head
    /\ tail' = [tail EXCEPT ![q] = item]
    /\ next' = IF head[q] = IpiNull THEN next ELSE [next EXCEPT ![tail[q]] = item]

\* One turn of the loop over the cores.
IpiPush(c) ==
    /\ ipiPc[c] = "push" /\ targets[c] # {}
    /\ LET t == CHOOSE d \in targets[c] : \A e \in targets[c] : d <= e
       IN  /\ Push(<<c, t>>, t)
           /\ targets' = [targets EXCEPT ![c] = @ \ {t}]
           /\ relinked' = (relinked \/ next[<<c, t>>] # IpiNull)
    /\ unfinished' = [unfinished EXCEPT ![c] = @ + 1]
    /\ ipiPc' = [ipiPc EXCEPT ![c] = IF Cardinality(targets[c]) = 1 THEN "send" ELSE @]
    /\ UNCHANGED <<interrupted, draining, interrupt, mutex, ran, ipiCalls, ranAstray>>

\* The interrupts go out when every item is queued: to the others, or to one core.
IpiSend(c) ==
    /\ ipiPc[c] = "send"
    /\ interrupt' = [d \in IpiCores |-> interrupt[d] \/ d \in interrupted[c]]
    /\ interrupted' = [interrupted EXCEPT ![c] = {}]
    /\ ipiPc' = [ipiPc EXCEPT ![c] = "wait"]
    /\ UNCHANGED <<Queues, targets, unfinished, draining, mutex, ran, ipiCalls, relinked, ranAstray>>

MayDrain(c) == ipiPc[c] = "wait" \/ (ipiPc[c] = "idle" /\ interrupt[c])

\* drain: the next item is taken from the queue, under its lock ...
DrainTake(c) ==
    /\ MayDrain(c) /\ draining[c] = IpiNull
    /\ IF head[c] = IpiNull
       THEN interrupt[c] /\ interrupt' = [interrupt EXCEPT ![c] = FALSE] /\ UNCHANGED <<head, draining>>
       ELSE /\ draining' = [draining EXCEPT ![c] = head[c]]
            /\ head' = [head EXCEPT ![c] = next[head[c]]]
            /\ UNCHANGED interrupt
    /\ UNCHANGED <<tail, next, ipiPc, targets, interrupted, unfinished, mutex, ran, ipiCalls, relinked, ranAstray>>

\* MUTANT of StillRuns: the core that is still running the function is not waited for.
WaitsForAllButOne(c) == unfinished[c] > 1

\* The loop of the caller goes on.
StillRuns(c) == unfinished[c] # 0

\* ... and its function is run and the core counted off.
DrainRun(c) ==
    /\ draining[c] # IpiNull
    /\ LET caller == draining[c][1]
           astray == ipiPc[caller] \notin {"push", "send", "wait"} \/ c \in ran[caller] \/ unfinished[caller] = 0
       IN  /\ ranAstray' = (ranAstray \/ astray)
           /\ unfinished' = IF astray THEN unfinished ELSE [unfinished EXCEPT ![caller] = @ - 1]
           /\ ran' = [ran EXCEPT ![caller] = @ \cup {c}]
    /\ draining' = [draining EXCEPT ![c] = IpiNull]
    /\ UNCHANGED <<Queues, ipiPc, targets, interrupted, interrupt, mutex, ipiCalls, relinked>>

IpiReturn(c) ==
    /\ ipiPc[c] = "wait" /\ draining[c] = IpiNull /\ ~ StillRuns(c)
    /\ ipiPc' = [ipiPc EXCEPT ![c] = "idle"]
    /\ mutex' = IF mutex = c THEN IpiNull ELSE mutex
    /\ UNCHANGED <<Queues, targets, interrupted, unfinished, draining, interrupt, ran, ipiCalls, relinked, ranAstray>>

IpiNext ==
    \E c \in IpiCores :
        \/ IpiLock(c) \/ ParallelExecute(c) \/ IpiPush(c) \/ IpiSend(c)
        \/ DrainTake(c) \/ DrainRun(c) \/ IpiReturn(c)

IpiSpec == IpiInit /\ [][IpiNext]_ipiVars

-----------------------------------------------------------------------------
(* A function is run once by each core, and only while its caller waits    *)
(* for it (its state lies on the caller's stack), as long as no item has   *)
(* been queued with a next pointer of an earlier use.                      *)
RunsForItsCaller == ~ relinked => ~ ranAstray

(* A call returns when all its targets have run the function, unless a     *)
(* core spins with its interrupts off or an item was relinked.             *)
CallReturns ==
    \A c \in IpiCores : (ipiPc[c] = "wait") ~> (ipiPc[c] # "wait" \/ relinked \/ \E d \in IpiCores : ipiPc[d] = "spin")
=============================================================================
