# ReaverOS in TLA+

A verification development for the ReaverOS microkernel: TLA+ modules
translated from the C++ source, TLC instances of them, and TLAPS proofs.

## 1. The system

ReaverOS is a µkernel for amd64. The interface compiler thorn generates the
system calls from `kernel/vdso/meta.thorn`. A UEFI loader starts the kernel with
a memory map, page tables and an initrd. `kernel_main` sets up memory, timers,
the other cores and the scheduler, and starts the first user process, bootinit,
which loads and starts the logger. From then on the kernel only reacts to system
calls and interrupts.

| part | state | operations | module |
|---|---|---|---|
| scheduler (`kernel/scheduler/types.cpp`) | per core: current thread, run queue, preemption token, lock; one aggregate with a lock | `schedule`, `deschedule`, `scheduling_trigger`, preemption callback | `Scheduler`, `ThreadLife` |
| mailboxes, continuations (`mailbox.cpp`, `thread.h`) | message queue, waiting threads, lock; saved context | `read`, `write`, `send`, `invoke_continuation` | `Mailbox` |
| run and event queues (`util/tree_heap.h`) | links inside the elements | `push`, `pop` | `TreeHeap`, `PriorityQueue` |
| ordered tree (`util/avl_tree.h`) | links and balance inside the elements | insert, erase, find, bounds, iteration | `AvlOps`, `AvlTree`, `OrderedSet` |
| processes and handles (`process.cpp`, `util/handle.h`) | tables from token to handle | register, look up, release, transfer, start | `Handles`, `HandleCalls` |
| address spaces (`memory/vas.*`, `vmo_mapping.*`) | tree of mappings; one lock for the space and one for each mapping | map, unmap, look up and guard | `Vas`, `VasLocks` |
| VMOs (`memory/vmo.cpp`) | elements, length | create, commit, map, destroy | `Vmo` |
| page tables (`arch/amd64/memory/vm.cpp`) | tables with lock bits, TLBs | `vm_map`, `vm_unmap`, clone, shoot-down | `PageTable` |
| frames (`memory/pmm.cpp`) | a stack and a lock for each layer | `initialize`, `pop`, `push` | `BootMap`, `Pmm` |
| cross-core calls (`util/mp.cpp`) | a queue of items for each core | `push`, `drain`, `parallel_execute` | `IpiQueue` |
| timers (`time/time.cpp`, LAPIC, HPET) | pending events, counter or comparator | `one_shot`, `_schedule_next`, interrupt | `Clock` |
| entry and exit (`arch/amd64/cpu`) | registers, contexts, iret frame | system call, interrupt, switch | `Context` |
| boot of the cores (`arch/amd64/mp`) | array of cores, trampolines, flags | INIT/SIPI hand-shake | `ApBoot` |
| ACPI (`arch/common/acpi`) | root tables, MADT | find, parse | `Acpi` |
| UEFI loader (`loaders/uefi`) | memory map, page tables | `get_memory_map`, `_vm_map` | `BootMap`, `LoaderPaging` |
| initrd, ELF (`libraries/archive`, `elf`) | – | validate, look up, parse | `Cpio`, `Elf` |
| program loader (`kernel/bootinit/process.cpp`) | loaded images, arrays | load, bind, order | `Loader` |
| start of user space (`kernel/main.cpp`, bootinit, logger, rosert) | handles and mailboxes | log hand-over, bootstrap messages | `LogProtocol` |
| thorn (`toolchain/thorn`) | tokens, symbols | parse, check, generate | `Thorn` |

How they interact. A mailbox write takes a reader out of the wait queue and
calls `scheduler::schedule` with the mailbox's lock held. `schedule` walks the
instances of all cores, pushes the thread on the least loaded one, arms a
preemption event on the timer of the *calling* core and, if the instance belongs
to another core, sends it a `scheduling_trigger` IPI. A blocking read takes the
current thread off its core (`deschedule`); the thread's continuation, run when
the thread is dispatched again, finishes the read. A system call that is given a
pointer looks it up in the address space and keeps the mapping locked while it
uses it. Unmapping changes the page table and has every core forget the
translation through `parallel_execute`, with the locks of the space and of the
mapping held. Run queues and event queues are tree heaps; mappings, the elements
of VMOs and handles are kept in ordered trees.

What is hard to test here: the interleavings of cores between critical sections
(a system call handler runs with interrupts disabled, so within a core nothing
interleaves; between cores everything does); callbacks that run inside
`one_shot` with locks held; a thread that is woken while it is still being put to
sleep; intrusive links that survive from one container into the next; a core
that starts after it has been given up; an event nearer than a tick; a table
without an end. `PROJECT.json` lists the hazards, each with its line and the
properties that watch it.

## 2. Modules

Each module has its own variables, with an `Init`, a `Next` and a tuple of
variables of its own names. Modules that implement an abstract one say so in a
property: `Scheduler` implements `ThreadLife`, `TreeHeap` implements
`PriorityQueue`, `AvlTree` implements `OrderedSet`. Modules that use another one
extend it: `Mailbox` runs on `ThreadLife` (its actions conjoin `Wake`, `Block` and
`Preempt`), `Vas` keeps its mappings in the tree of `AvlOps`, `HandleCalls` and
`LogProtocol` are programs over the system calls of `Handles`.

The MC modules instantiate several components side by side. Components that
share no state are put into one instance whose variable `focus` says which of
them runs, so that one run of TLC explores all of them, one after the other, and
the state space is the sum of theirs.

### Scheduler, ThreadLife

State is one variable per field (`current`, `ready`, `token`, `lock`, ...), one
per local that lives across a lock operation (`hand`, `scan`, `lowest`, `load`,
`callback`), and a program counter per core. A step is one critical section:

    ScheduleBegin, AggregateLock, AverageLoad*, InstanceSchedule   aggregate::schedule, instance::schedule
    DescheduleBegin, Deschedule                                    instance::deschedule
    TriggerInterrupt, IrqLock, SchedulingTrigger                   the IPI's handler
    TimerInterrupt, IrqLock, Fire, PreemptionCallback              timer::handle, _schedule_next, _reschedule
    CallbackReturn, OperationReturn                                the unlocks on the way out
    Expire                                                         time passes

`_setup_preemption`, `_reschedule` and `cancel` are the operators
`SetupPreemption`, `Dispatch` and `Cancelled`, used by every action whose code
calls them. `one_shot` ends in the loop of `_schedule_next`, so after an operation
that armed an event the core is in that loop (`pc = "loop"`) with its locks still
held, and may `Fire` what is due.

Abstractions: timestamps are a strict total order on the threads (`older`), in
which a stamp makes a thread the youngest; a run queue is a set popped by that
order, that is, an ideal priority queue (`TreeHeap` asks whether the real one
is). Trigger times are "armed" and "due" (`Clock` has the arithmetic). A timer's
own lock is never contended, since only its core uses the timer.

`Prompt` states a timing assumption: no event expires while its core is still
inside the critical section that armed it, nor while the IPI sent along with it
is still on its way. The slice is 10 ms. `threads_uni` uses it, and
`sched_foreign`, because a violation that needs no delay says more.

`ThreadLife` has `Wake`, `Preempt` and `Block` on two variables. The refinement
maps `running` to `current` and `runnable` to `ready`; a thread between two places
(`hand`) is blocked in the abstract view.

### Mailbox

A handler holds the mailbox's lock from its first line to its last, the calls
into the scheduler included, so a handler is one step; the steps that follow
(`SetContinuation`, `SaveTo`, `LoadFrom` with `Resume`, `ContinueRead` or
`ContinueBlocks`) are outside of that lock and are steps of their own. A message
is its number, the registers of a thread are the number of reads it has issued,
so "resumed with the registers of an earlier call" is visible. In the programs
of the repository each mailbox is read by one thread, and it bears the name of
that thread.

### Context

One core, threads of users and of the kernel. The registers are taken in groups
that share their fate on the ways in and out: system call (`CtxSyscall`,
`SyscallSave`, `SyscallLoad`, `SyscallReturn` by sysret or iret) and interrupt
(`CtxInterrupt`, `InterruptSave`, `InterruptLoad`, `StackFixed`, `CtxReturn`). A
system call saves fewer groups than an interrupt, and a thread may leave the core
one way and come back the other.

### TreeHeap, AvlOps, AvlTree

The heap with the links of all its elements is one record; `Pushed`, `PopOfTwo`,
`PopOfThree`, `PopOfMany`, `Swap` and `GetNth` follow the code's assignments.
`Fresh` distinguishes the two users: a timer makes a descriptor for each event, a
scheduler instance pushes the same threads again.

So is the tree. Its parent and balance factor, one word in the code, are two
fields, and the cases that the code writes for the left and for the right take
the side as a parameter. `AvlTree` adds the elements' life. `~avl_tree` is
`Destroy`; it releases all elements but the last one, for which it returns too
early (`avl_tree.h:209-212`). `lower_bound` returns `end()` when its search ends
at a right child, even if a larger ancestor exists (`avl_tree.h:526-529`);
`BoundsSound` says for which keys the bounds are exact, which are the ones
`vmo.cpp` asks for. `operator--` is not modelled: nothing in the kernel reaches
it. `EraseInwardRoot` tells whether the one removal that breaks the tree (see the
findings) is allowed; `memory` forbids it, `avl_root` allows it.

### Vas, VasLocks, Vmo

`Vas`: `map_vmo` and `unmap` hold the address space's lock throughout and are one
step each. The tree of mappings is ordered by `vmo_mapping_address_compare`, for
which overlapping ranges are equal. Addresses are page numbers. A mapping is
never taken out of the tree, so the number of mappings is a bound of the
instance. PANIC is `stopped`.

`VasLocks` opens those steps up: the mutex of the space, the shared mutex of each
mapping with its count of readers and its unique bit, the look-up that spins for a
reader's place with the space locked, the guards that a system call keeps in its
body, and the shoot-down, which needs every core to have its interrupts on.

`Vmo`: creation, commitment, mapping, unmapping and destruction of one sparse
object, with the length as an integer that wraps around.

### PageTable, IpiQueue, Pmm

`PageTable`: a root table for each space and tables below it; a step is the locking
of an entry, the making of a table, the writing of a page entry, the unlocking.
`CloneUpperHalf` and `UnmapLowerHalf` are the two operations on whole roots.
Each core has a TLB, filled by `Translate`.

`IpiQueue`: queues are heads, tails and next pointers, so that what a stale next
pointer does is visible; `DrainTake` and `DrainRun` are the two halves of `drain`,
`IpiPush`, `IpiSend`, `IpiReturn` those of `parallel_execute`.

`Pmm`: a step for the taking of a layer's lock, the reading of the link of the top
frame, the taking of it, and the linking of a frame; a layer that runs empty
splits a frame of the next one.

### Clock

Real time, the time a timer believes in, the LAPIC's counter with its divisor, the
HPET's counter and comparator. `ClockDo` asks for an event, `ClockInterrupt`,
`ClockLoop` and `ClockArm` are the parts of `_schedule_next`, and `ClockTick` may
come between any two.

### Handles, HandleCalls, LogProtocol

A handle has a kind, permissions and an object; a call checks the type and the
permissions of its tokens as the generated code does, then acts. `HandleCalls`
makes any call with any tokens. `LogProtocol` runs the programs of the
repository: `log_acceptor`, `log_handler`, `bootinit_main` with `create_process`
and `send_runtime_initialization`, rosert's `__init`, the logger. Each program is
the list of its system calls.

### Boot: Thorn, BootMap, LoaderPaging, Acpi, ApBoot, Cpio, Elf, Loader

`BootMap` follows memory from the firmware's map to the frames, region by region.
`LoaderPaging` has the recursive `_vm_map` for three page sizes. `Acpi` goes over
the entries of the MADT twice, as the code does. `ApBoot` runs the bootstrap
processor against cores that may be dead, miss the first startup IPI or start at
any later time. `Cpio` and `Elf` take the parsers' loops turn by turn. `Loader`
has the recursion of `load_elf_with_dependencies` as an explicit call stack, and
the search for symbols, the relocations and the init order as recursive
operators. `Thorn` has the parser as operators on the token sequence, and one
step each for the declarations and the output.

## 3. What TLC checks

| run | instance | result |
|---|---|---|
| `sched_smp` | 2 cores, 3 threads, no timing assumption | holds |
| `threads_uni` | 1 core, `Prompt`: 3 threads of the scheduler; 2 readers with 2 messages and 2 reads each; fairness, deadlock checked | holds |
| `objects` | 2 readers on 2 cores, no timing assumption; 2 processes, 4 handles, 2 mailboxes of 2 messages | holds |
| `memory` | heap of 7 elements; tree of 9; 5 mappings on 6 pages; 2 cores on 2 spaces of 6 pages; VMOs of every length | holds |
| `machine` | 2 cores on frames of 3 layers; 2 cores calling each other; 3 cores on 3 mappings; both timers; 1 core with a user and a kernel thread; fairness | holds |
| `boot` | nine components, see below; fairness for the start of the cores and of user space | holds |
| `sched_foreign`, `mailbox_race`, `heap_reuse`, `avl_root`, `vas_lookup`, `thorn_result` | one component each | violated, see the findings |

What they show. A property of a component is often a conjunction of named
statements, each with its own comment in the module; the run checks all of them.

| run | property | says |
|---|---|---|
| `sched_smp` | `ThreadInOnePlace`, `QueuedThreadHasEvent`, `OneEventPerInstance` | no interleaving of the critical sections loses or duplicates a thread or a preemption event |
| | `DispatchesOldest`, `ImplementsThreadLife` | the oldest thread is dispatched, and the whole implements `ThreadLife` |
| `threads_uni` | `NoSelfDeadlock`, `QueuedThreadRuns` | no callback waits for a lock of its own core; every queued thread runs |
| | `ReadReturnsResult` | a blocked read returns, with its result and to its own registers |
| `objects` | `DeliveredInOrder`, `NoneWaitsForQueued` | messages arrive once and in order, without a lost wake-up |
| | `HandleInOnePlace`, `OnlyTransferableMoves`, `UnwritableStaysEmpty` | a handle is in one place, moves only if it may, and no sequence of calls gives it a permission it did not have |
| `memory` | `CompleteHeap`, `ImplementsPriorityQueue` | the heap keeps its shape and is a priority queue |
| | `TreeSound`, `ImplementsOrderedSet` | the tree is balanced, find, bounds and iteration see what is inside, and it is an ordered set |
| | `MappingsSound` | mappings do not overlap, agree with the page table, and lookups find none that is gone |
| | `NoStaleTranslation`, `KernelShared`, `CallsTakeEffect` | no TLB keeps a translation that is gone; the kernel's half is the same in all spaces; concurrent calls lose nothing |
| | `VmoSound` | a VMO has a page for each byte, and returns each frame once |
| `machine` | `FrameInOneHand` | a frame is in the list of its layer, with one core, or on its way back |
| | `RunsForItsCaller` | a cross-core call runs once on each core, while its caller waits |
| | `MappingsKept` | a pointer in use stays mapped, a destroyed mapping is not used |
| | `CallsEnd` | `pop`, cross-core calls and the calls on an address space return (`PopEnds`, `CallReturns`, `VasCallsReturn`) |
| | `EventsRunInTime` | events run on either timer, and never a tick of its clock too early |
| | `GoesOnAsItStopped` | a thread goes on with the registers it stopped with |
| `boot` | `FilesUnderstood`, `OutputFits` | thorn understands what is written and rejects cut files; numbers, handlers, arguments and permission bits match |
| | `ReadsArchive`, `ParsesImages` | the archive's walk stays on its entries; the ELF parser accepts the loadable images |
| | `ImagesApart`, `ImagesLinked` | segments and arrays are apart; symbols are found, relocations applied once, images initialised after what they need |
| | `LoaderMapsExactly`, `FramesSound` | the loader's tables map what is asked; the frames are the free memory, all of it |
| | `CoresFound`, `CoresApart` | the cores of the MADT are those of the kernel; each started core has its own id and stack |
| | `UserSpaceStarts`, `StartCompletes` | bootinit and the logger never give up, every line is logged; both start sequences end |

Several statements set aside a situation in which the code is known to fail;
that situation is named in the statement and the defect in the list below:

| statement | sets aside |
|---|---|
| `VasCallsReturn` | two calls that cross: unmapping against looking up, or a core that spins while another waits for its TLB |
| `RunsForItsCaller`, `CallReturns` | items used again with an old next pointer; `CallReturns` also cores that spin with interrupts off |
| `PopEnds` | a layer that ran empty |
| `HpetEventRuns` | an event nearer than a period and the latency |
| `GoesOnAsItStopped` | an iret frame of another thread |
| `IdsMatchIndices`, `StacksApart`, `BootEnds` | cores that start late |
| `NothingLost` | a stack in the middle of its entry, a map that does not start at 0 |
| `NothingStaysMapped`, `CommittedWhole` | length 0; a length that overflows when rounded up |
| `CoresAsInTable` | more cores than there is room for, two with one ACPI id |
| `MapsInOrder`, `LoaderMapsRange` | virtual and physical bases at different places of a table |
| `LoadedTwiceBelowOne`, `DependenciesFirst` | images loaded twice below one dependency; shared images that need others |
| `TruncatedRejected`, `GlobalBitsApart` | a word that touches the end of the file; permissions of one object type |

Bounds. Two cores suffice for a foreign timer, an IPI in flight and both sides of
every lock; `VasLocks` takes three, so that a process, its parent and a stranger
meet. Three threads give one running on each core and one queued, or two queued.
Two messages and two reads per mailbox let a reader block, be woken, and block
again with a saved context from before. Seven elements fill three levels of the
heap and reach every branch of `push`, `pop` and `_swap`; nine elements of the tree
give every rotation and each shape of removal at depth. Five mappings give a tree
of three levels with released ones among them. Six pages in three tables let a
range cross a table, and the two halves differ. A counter of 3 with divisors to 4
makes durations of 1, 6 and 15 fit at once, fit with a divisor, and not fit.
Three cross-core calls let an item be used again that had another one behind it. Four processors in
batches of two make a trampoline be used again. Five images are enough for an
image shared at two depths. Where an input is a file, its bound is the number of
entries: what the parsers keep from one entry to the next is a count, an offset or
the presence of an entry seen before, so two or three of them give every pair.

Deadlock is checked in `threads_uni`. Elsewhere the system may really stop: a core
that panics stops for good and may hold locks, and the bounds on calls and inputs
end every behaviour. That nobody waits for ever is said by the liveness
properties.

Fairness. `Scheduler`: weak fairness of a core's kernel steps and of the passage of
time; strong fairness of taking a pending interrupt, because interrupts are enabled
again and again, at every return to user mode. No fairness for system calls. With
two cores, weak fairness of a spin-lock step does not exclude starvation
(`std::mutex` is a bare compare-and-swap loop), so progress of the scheduler is
stated for one core only. `Mailbox`: weak fairness of kernel steps, strong
fairness of preemption, which is what `QueuedThreadHasEvent` and `QueuedThreadRuns`
give. `Pmm`, `IpiQueue`, `Clock`, `ApBoot`, `LogProtocol`: weak fairness of the
component's next-state relation; their behaviours are finite, so this says only
that the processors do not stop. `VasLocks`: weak fairness of each core's steps in
the kernel; user mode may stay where it is. Calls are bounded, so a core
that waits for a lock cannot be overtaken for ever.

### Findings

* `sched_foreign`: `_setup_preemption` arms the event of another core's instance
  on the calling core's timer. If the other core takes the thread out of its queue
  before it handles the IPI, its `scheduling_trigger` finds an empty queue and
  cancels nothing; the event expires on the calling core and `_reschedule` reaches
  `PANIC("_reschedule called on a scheduler instance not of the current core!")`.
* `mailbox_race`: a blocking reader can be woken before `set_continuation` and
  `save_to`, and return to user mode with an earlier context and without a result.
* `heap_reuse`: a thread pushed into an empty run queue brings its old links along;
  a later pop returns a thread that is not in the queue and loses one that is.
  `Scheduler` assumes an ideal queue, so its results hold for the scheduler with
  `push` clearing the links in its first branch as it does in its second.
* `avl_root`: `erase` of a root whose left child leans to the right uses the single
  rotation where the double one is needed (insert 5, 2, 7, 3; erase 5).
* `vas_lookup`: `unmap` leaves the released mapping in the tree with the range
  {0, 0}; mappings to its left are no longer found by `lock_address_range`, and
  `map_vmo` relies on the PANIC of `vm_map` to notice an occupied range.
* `thorn_result`: the check that a call with a token with permissions returns the
  generated result asks for the permissions before they are there, so it never
  fires.

Met while modelling, and visible in the models, though no line of the repository
says otherwise:

* `pmm.cpp:96`: a layer that runs empty waits for its own lock.
* `vas.cpp:158`: `unmap` locks the mapping and then the space, `lock_address_range`
  the space and then the mapping; and a core that spins on the lock of the space
  with interrupts off blocks the shoot-down of its holder.
* `mp.cpp:49-60`: an item's next pointer is never reset.
* `vm.cpp:247`: what is added to the physical address is the size of an entry, not
  the part of it that was mapped.
* `hpet.cpp:150`: a comparator written for a moment that has passed does not fire
  before the counter wraps around.
* `syscalls.cpp:79-86`, `132`: the frame for iretq may be another thread's.
* `amd64/mp/mp.cpp:179`: a core that starts after it was given up uses the
  trampoline and the flag of another.
* `acpi.cpp:306`, `352`: the array of cores is written before its bound is checked
  at 451; an entry of length 0 keeps the loop in its place.
* `efi.cpp:315`: the split around the stack adds two entries and counts one.
* `vmo.cpp:46`: length 0 commits a page that stays mapped.
* `process.cpp:297`: `std::get` of an owned dependency where there may be a shared
  one; an image needed twice below one dependency is loaded twice; the init order is
  wrong when a shared image has dependencies of its own; cyclic needs recurse
  without end.
* `elf.cpp`: an image without sections or with an unterminated dynamic table is
  read over its end.
* `kernel/main.cpp:357`: the handle that is sent for the initrd is made from a
  pointer that was moved from at 330; bootinit does not use it.
* thorn: the permissions of all object types have the same bits; `in` or `out` at the
  end of a file keeps the parser in its loop; a word that touches the end of the file
  is accepted (`parser.cpp:101`).

## 4. What is proved

Each theorem is about the specification that TLC runs, for every value of its
constants that the named assumption allows. Where a theorem states a property of a
run, it names the run's own definition.

| module | about | theorems | for |
|---|---|---|---|
| `SchedulerProofs` | `Scheduler` | `TypeCorrect`, `PlacesCorrect`, `EventsCorrect`, `NeverReschedules`, `PreemptionNotLost`, `NoSelfDeadlockCorrect`, `Refinement`, `OldestFirst` | any number of cores, any finite set of threads (`CoresAssumption`, `ThreadsAssumption`, `PromptAssumption`) |
| | `Clock` | `EventsNeverEarly` | any counter, divisor, period and durations (`ClockAssumption`) |
| `ExchangeProofs` | `Mailbox` | `MessagesInOrder`, `NoLostWakeup`, `MailboxUsesThreadLife` | any cores, readers, messages and reads (`MailAssumption`) |
| | `HandleCalls` | `NoHandleLost`, `NoPermissionGained`, `NoHandleTaken` | any processes, mailboxes, handles and data (`HandlesAssumption`, `PayloadsAssumption`, `CallsAssumption`) |
| | `IpiQueue` | `NoFunctionRunAstray` | any finite set of cores, any calls (`IpiAssumption`) |
| `MemoryProofs` | `VasLocks` | `GuardedStayMapped`, `DestroyNeverNull`, `MappingsStayKept` | any cores and mappings (`VlAssumption`) |
| | `Pmm` | `FramesApart` | any cores, layers and frames (`PmmAssumption`) |
| | `Vmo` | `ObjectsSound` | any length, page size and width of a word (`VmoAssumption`) |
| `PageTableProofs` | `PageTable` | `NoTranslationLeft`, `KernelInAllSpaces`, `NoMappingUndone` | any cores, spaces, entries and pages (`PtAssumption`) |
| `ProcessorProofs` | `ApBoot` | `CoresKeptApart` | any number of cores, any batch (`ApAssumption`) |
| | `Context` | `ThreadsGoOn` | any threads (`CtxAssumption`) |
| `BootProofs` | `Elf` | `ImagesUnderstood` | images with any tables (`ElfAssumption`) |
| | `Cpio` | `ArchiveIsRead` | any files (`CpioAssumption`) |
| | `Acpi` | `CoresAreFound` | any tables of the firmware (`AcpiAssumption`) |

`PageTableInvariant` has the invariant of `PageTable` and the lemmas on its
operators, `PageTableSteps` the steps of the calls, `PageTableProofs` the rest.

The arguments, each with its inductive invariant:

* **Scheduler.** `TypeInv` adds to `TypeOK` one row per program counter: which
  operation the core is in, which locals are meaningful there, that `lowest` is a
  core once all instances have been asked, that `callback` is a core in the
  callback. The rows know that `hand` holds a thread exactly between taking it out
  of one place and putting it into the next, which is what `PlacesCorrect` needs;
  `NeverReschedules` follows, since the thread in `hand` runs nowhere. `EventInv`
  and `PreemptionNotLost` rest on `SetupPreemption`: every arming goes through it,
  it cancels the instance's former event wherever that is, and whoever pops an
  event arms again before the instance's lock is released. `LockInv` says for each
  program counter which locks the core holds, and that what is due on a core is not
  due for an instance whose lock that core took; with `Prompt` it gives
  `NoSelfDeadlockCorrect`. `Refinement` has one step per action. `OldestFirst`
  needs that time stamps stay a strict total order.
* **Clock.** `NotAhead`: since an event was asked for, the timer's clock, with what
  `update_now` would add to it, has not gained on real time by more than the
  clock's resolution at that moment. It needs `CountSound`, that the driver's copies
  of the LAPIC's registers are right unless the timer stands still, and `ArmSound`,
  that what is left to arm lies ahead. "Early" is measured in that resolution: the
  divisor for the LAPIC, the period of the counter for the HPET.
* **Mailboxes.** `WaitsOnce` and `OnePlace`: a reader is in one wait queue at most,
  and then it neither runs nor is it queued. `SetsForThread`: a core that is about to
  set a continuation has a thread to set it for. Hence `Wake` and
  `Block` are called where `ThreadLife` allows them (`MailboxUsesThreadLife`), and
  with `Refinement` what is shown of mailboxes holds on the scheduler.
* **Handles.** `NotTwice` and `Somewhere` are the two halves of `HandleInOnePlace`;
  `KindsSound` says that a handle's kind fits its object, so that a call which
  checked the type acts on an object of that type, and that no handle to the first
  process's mailbox may write.
* **Cross-core calls.** `IpiInv` exhibits the list that each queue's head, tail and
  next pointers spell: an item is in its list once, it belongs to a call that has not
  returned, and the counter of a call is the number of cores that have still to run it. It
  holds until an item is queued with the next pointer of an earlier use
  (`relinked`), which is the defect of `mp.cpp:49-60` that the property names.
* **Locks of an address space.** `VlInv` says who holds what: a core in the
  critical section of the space has its lock (`SpaceHeld`), one that destroys a
  mapping has its unique bit (`MappingHeld`), a guard or a reader that spins is
  counted (`ReadersCounted`), hence a mapping locked for its destruction has no
  guard (`LockedUnguarded`). `ValidPaged`: pages are gone early only in the
  shoot-down, in which the space is locked and no reader can get in. `DestroysOwn`:
  a mapping's token is with one core, so between the test of `is_invalid` and the
  use of the space nobody else can release it.
* **Frames.** `UnderLock`: the list that `pop` has read is the layer's list until
  it takes the first frame, because the layer is locked. `ReturnsApart`: frames on
  their way back are with nobody.
* **Objects.** `ElementsInOrder` and `Complete` say that the elements stand one
  behind the other from offset 0 to the length, without a gap, each with a frame of
  its own; only the last one may wait for it. Overflow of the rounded length is set aside by the statement.
* **Page tables.** `TablesApart`: a table is below one entry, of one space or of the
  upper halves. `AllShared`: once there is a second space the upper half has all its
  tables, and every space has them. `OpSound` says of a call what part
  of its range is done and what it has seen, `OpsApart` that two calls do not work
  on the same pages nor hold the same lock bit, `ShootSound` and `TlbSound` that a translation which differs
  from the tables will be dropped by a shoot-down under way.
* **Start of the cores.** `ObjectsApart`: the array has one object per processor.
  `OnTime` relates a processor to the batch: one that has settled has its own
  stack and index, one of a later batch waits, and one of the batch has its own
  trampoline. It holds while no core starts after it was given up, as the property
  says.
* **Context.** `AllSaved`: a thread that does not run has in its context all the
  registers that the way it left by must keep. `SyscallFrameSound` and
  `InterruptFrameSound` say whose registers the frames on the stack hold,
  `SelectorsFit` that code and privileges go together wherever registers are kept.
* **Parsers.** `ElfInv` (`TablesSeen`), `CpioInv` (`LayoutSound`, `WalkSound`) and
  `AcpiInv` (`SearchSound`, `PassesSound`) say what a loop has found after the
  entries it has passed; for the archive also that strides lead from header to
  header, which is the arithmetic of padding to four bytes.

Facts on finite sets and well-founded orders (`CoresCounted`, `HasLeast`,
`Counting`, `OneIsCounted`, `LoadsCounted`) are hypotheses of the step lemmas that
use them and are proved from the library's theorems at the end of their modules.

`TypeCorrect`, `NeverReschedules` and `MailboxUsesThreadLife` are not repeated by
a run. `GuardedStayMapped` and `DestroyNeverNull` are the parts of `MappingsKept`.
`EventsNeverEarly` is the safety part of `EventsRunInTime`.

Only model-checked:

* Liveness, which is out of the prover's reach: `QueuedThreadRuns`,
  `ReadReturnsResult`, `CallsEnd`, `StartCompletes`, and that events run
  (`LapicEventRuns` and `HpetEventRuns` of `EventsRunInTime`).
* `TreeHeap`, `AvlTree`, `Vas`, `Loader` and `LoaderPaging`, with their two
  refinements: their operators are recursive, and what a recursive definition
  computes for every input needs an induction that the installed provers cannot
  do.
* `BootMap`, `Thorn` and `LogProtocol`. The first two are sequences of
  transformations of a whole list, where the induction is again over data. The third
  runs the fixed programs of the repository, whose behaviours TLC explores in full;
  only the number of init and fini arrays is a parameter.

## 5. Not modelled

* Reference counts (`intrusive_ptr.h`): changed by constructors and destructors
  alone; the order in which the compiler calls them is not written in the source.
* The chained allocator: a free list for each class under a lock; what the reuse of
  elements can do to intrusive links is in `TreeHeap`.
* Calibration of the LAPIC, choice of the timer, registration of interrupt
  handlers, the descriptor tables: straight-line initialisation against hardware.
* Register access of the APICs: hardware I/O; an IPI is a pending member of a set.
* The order of the `initialize` calls in `kernel_main`, and the UEFI loader's files,
  console and video modes: calls in a straight line.
* `parse_hpet` and the local APIC's address: fields read from one table.
* Screen, serial port, log formatting, `pmm::report`: output only.
* The text that thorn writes and its command line.
* The standard library's templates apart from the locks; the build system.
