-------------------------- MODULE SchedulerProofs --------------------------
(***************************************************************************)
(* The scheduler, for any number of cores and any finite set of threads,   *)
(* and the clock whose events drive it.                                    *)
(***************************************************************************)
EXTENDS Scheduler, Clock, TLAPS

-----------------------------------------------------------------------------
(* The scheduler (Scheduler) *)

\* What the program counter of a core says about the operation it executes:
\* who holds a thread in a local variable, and which locals are initialised.
PcRow(c) ==
    /\ pc[c] = "run" => op[c] = "none" /\ hand[c] = NoThread
    /\ pc[c] \in {"aggregate", "load", "instance"} =>
          op[c] = "schedule" /\ hand[c] \in Threads
    /\ pc[c] = "load" => /\ scan[c] \in Cores
                         /\ scan[c] = 0 => load[c] = MaxLoad
                         /\ scan[c] # 0 => lowest[c] \in Cores
    /\ pc[c] = "instance" => lowest[c] \in Cores
    /\ pc[c] = "deschedule" =>
          op[c] = "deschedule" /\ hand[c] = NoThread /\ current[c] \in Threads
    /\ pc[c] \in {"irq", "trigger"} => op[c] \in Vectors /\ hand[c] = NoThread
    /\ pc[c] \in {"loop", "callback", "unwind"} =>
          op[c] # "none" /\ (op[c] = "deschedule" <=> hand[c] \in Threads)
    /\ pc[c] = "callback" => callback[c] \in Cores

PcOK == \A c \in Cores : PcRow(c)

TypeInv == TypeOK /\ PcOK

-----------------------------------------------------------------------------
(* Facts about the building blocks *)

\* A queue of threads can be counted, and holds fewer than MaxLoad of them.
\* Proved as MaxLoadType, last, where the theorems on finite sets come in.
LoadsCounted ==
    MaxLoad \in Nat /\ \A S \in SUBSET Threads : Cardinality(S) \in Nat /\ Cardinality(S) < MaxLoad

\* Loads are numbers below MaxLoad, if the threads are counted.
LEMMA CountedIf ==
    ASSUME Cardinality(Threads) \in Nat,
           \A q \in SUBSET Threads : Cardinality(q) \in Nat /\ Cardinality(q) <= Cardinality(Threads)
    PROVE  LoadsCounted
BY DEF LoadsCounted, MaxLoad

\* The value for no core is none of the cores.
LEMMA NoCoreType == Cores \subseteq Int /\ 0 \in Cores /\ NoCore \notin Cores
BY CoresAssumption DEF Cores, NoCore

\* The initial values of the local variables, by their types.
LEMMA LocalsType ==
    LoadsCounted => 0 \in 0 .. NumCores /\ MaxLoad \in 0 .. MaxLoad /\ NoCore \in OptCores
BY CoresAssumption DEF OptCores, LoadsCounted

\* _reschedule pops a queued thread, or falls back to the idle thread.
LEMMA NextThreadType ==
    ASSUME NEW queue, NEW order, NEW t \in NextThread(queue, order)
    PROVE  t \in queue \/ (t = Idle /\ queue = {})
BY Zenon DEF NextThread

\* A new time stamp keeps the order of the threads in its type.
LEMMA StampedType ==
    ASSUME NEW t \in Threads, older \in SUBSET (Threads \X Threads)
    PROVE  Stamped(t) \in SUBSET (Threads \X Threads)
BY DEF Stamped

\* Setting up the preemption event keeps the types.
LEMMA SetupType ==
    ASSUME TypeOK, NEW c \in Cores, NEW i \in Cores, NEW queue,
           SetupPreemption(c, i, queue)
    PROVE  /\ trigger' \in SUBSET Cores
           /\ token' \in [Cores -> OptCores]
           /\ armed' \in [Cores -> SUBSET Cores]
           /\ due' \in [Cores -> SUBSET Cores]
<1>1. CASE queue = {}
  BY <1>1, Zenon DEF TypeOK, SetupPreemption
<1>2. CASE queue # {}
  <2>1. Cancelled(armed, i) \in [Cores -> SUBSET Cores]
    BY Zenon DEF Cancelled, TypeOK
  <2>2. Cancelled(due, i) \in [Cores -> SUBSET Cores]
    BY Zenon DEF Cancelled, TypeOK
  <2>3. token' \in [Cores -> OptCores]
    BY <1>2, Zenon DEF TypeOK, SetupPreemption, OptCores
  <2>4. armed' \in [Cores -> SUBSET Cores]
    BY <1>2, <2>1 DEF SetupPreemption
  <2>5. due' \in [Cores -> SUBSET Cores]
    BY <1>2, <2>2, Zenon DEF SetupPreemption
  <2>6. trigger' \in SUBSET Cores
    BY Zenon DEF TypeOK, SetupPreemption
  <2> QED  BY <2>3, <2>4, <2>5, <2>6, Zenon
<1> QED  BY <1>1, <1>2, Zenon

\* Dispatching a thread keeps the types.
LEMMA DispatchType ==
    ASSUME TypeOK, NEW c \in Cores, NEW queue \in SUBSET Threads, NEW order,
           Dispatch(c, queue, order)
    PROVE  /\ current' \in [Cores -> Threads \cup {Idle}]
           /\ ready' \in [Cores -> SUBSET Threads]
           /\ trigger' \in SUBSET Cores
           /\ token' \in [Cores -> OptCores]
           /\ armed' \in [Cores -> SUBSET Cores]
           /\ due' \in [Cores -> SUBSET Cores]
           /\ \E p \in {"loop", "unwind"} : pc' = [pc EXCEPT ![c] = p]
<1>1. PICK next \in NextThread(queue, order) :
        /\ current' = [current EXCEPT ![c] = next]
        /\ ready' = [ready EXCEPT ![c] = queue \ {next}]
        /\ SetupPreemption(c, c, queue \ {next})
        /\ pc' = [pc EXCEPT ![c] = AfterSetup(queue \ {next})]
  BY Zenon DEF Dispatch
<1>2. next \in Threads \cup {Idle}
  BY <1>1, NextThreadType, Zenon
<1>3. current' \in [Cores -> Threads \cup {Idle}] /\ ready' \in [Cores -> SUBSET Threads]
  BY <1>1, <1>2, Zenon DEF TypeOK
<1>4. AfterSetup(queue \ {next}) \in {"loop", "unwind"}
  BY Zenon DEF AfterSetup
<1> QED  BY <1>1, <1>3, <1>4, SetupType, Zenon

-----------------------------------------------------------------------------
(* Type correctness *)

\* The initial states have the types.
LEMMA InitType == LoadsCounted /\ Init => TypeInv
<1> SUFFICES ASSUME LoadsCounted, Init PROVE TypeInv
  BY Zenon
<1>1. TypeOK
  <2>1. older \in SUBSET (Threads \X Threads)
    BY Zenon DEF Init, StrictTotalOrders
  <2> QED  BY <2>1, NoCoreType, CoresAssumption
           DEF LoadsCounted, Init, TypeOK, OptCores, Vectors
<1>2. PcOK
  BY Zenon DEF Init, PcOK, PcRow
<1> QED  BY <1>1, <1>2, Zenon DEF TypeInv

\* Every step keeps the types.
LEMMA NextType == LoadsCounted /\ TypeInv /\ [Next]_vars => TypeInv'
<1> SUFFICES ASSUME LoadsCounted, TypeInv, [Next]_vars PROVE TypeInv'
  BY Zenon
<1> USE DEF TypeInv
<1>1. ASSUME NEW c \in Cores, ScheduleBegin(c) PROVE TypeInv'
  <2> USE <1>1 DEF ScheduleBegin, timerVars, scanVars, lockVars
  <2>1. TypeOK'
    BY Zenon DEF TypeOK, Unqueued
  <2>2. PcOK'
    BY ZenonT(40) DEF TypeOK, PcOK, PcRow
  <2> QED  BY <2>1, <2>2, Zenon
<1>2. ASSUME NEW c \in Cores, AggregateLock(c) PROVE TypeInv'
  <2> USE <1>2 DEF AggregateLock, threadVars, timerVars
  <2>1. TypeOK'
    BY LocalsType, Zenon DEF TypeOK, OptCores
  <2>2. PcOK'
    BY NoCoreType, ZenonT(40) DEF TypeOK, PcOK, PcRow
  <2> QED  BY <2>1, <2>2, Zenon
<1>3. ASSUME NEW c \in Cores, AverageLoad(c) PROVE TypeInv'
  <2> USE <1>3 DEF AverageLoad, threadVars, timerVars, lockVars
  <2>1. scan[c] \in Cores /\ scan[c] + 1 \in 0 .. NumCores /\ scan[c] + 1 # 0
    BY CoresAssumption DEF Cores, PcOK, PcRow
  <2> DEFINE al == Cardinality(ready[scan[c]])
  <2>2. al \in 0 .. MaxLoad /\ al < MaxLoad
    <3>1. ready[scan[c]] \in SUBSET Threads
      BY <2>1, Zenon DEF TypeOK
    <3>2. al \in Nat /\ al < MaxLoad /\ MaxLoad \in Nat
      BY <3>1, Zenon DEF LoadsCounted
    <3> QED  BY <3>2
  <2>3. TypeOK'
    BY <2>1, <2>2, ZenonT(40) DEF TypeOK, OptCores
  <2>4. PcOK'
    <3>1. \A d \in Cores \ {c} : PcRow(d)'
      BY ZenonT(40) DEF TypeOK, PcOK, PcRow
    <3>2. scan'[c] = scan[c] + 1 /\ lowest'[c] \in Cores
      <4>1. CASE al < load[c]
        BY <2>1, <4>1, Zenon DEF TypeOK
      <4>2. CASE ~(al < load[c])
        <5>1. load[c] # MaxLoad
          BY <2>2, <4>2, Zenon
        <5> QED  BY <2>1, <4>2, <5>1, Zenon DEF TypeOK, PcOK, PcRow
      <4> QED  BY <4>1, <4>2, Zenon
    <3>3. pc'[c] = (IF scan[c] + 1 \in Cores THEN "load" ELSE "instance")
      BY Zenon DEF TypeOK
    <3>4. hand'[c] = hand[c] /\ op'[c] = op[c] /\ op[c] = "schedule" /\ hand[c] \in Threads
      BY Zenon DEF PcOK, PcRow
    <3>5. PcRow(c)'
      BY <2>1, <3>2, <3>3, <3>4 DEF PcRow
    <3> QED  BY <3>1, <3>5, Zenon DEF PcOK
  <2> QED  BY <2>3, <2>4, Zenon
<1>4. ASSUME NEW c \in Cores, InstanceSchedule(c) PROVE TypeInv'
  <2> USE <1>4 DEF InstanceSchedule, scanVars
  <2>1. lowest[c] \in Cores /\ hand[c] \in Threads
    BY Zenon DEF PcOK, PcRow
  <2>2. CASE current[lowest[c]] = hand[c]
    <3>1. TypeOK'
      BY <2>1, <2>2, ZenonT(40) DEF TypeOK, Halt, timerVars, OptCores
    <3>2. PcOK'
      <4>1. pc' = [pc EXCEPT ![c] = "halted"] /\ hand' = hand
        BY <2>2, Zenon DEF Halt
      <4> QED  BY <4>1, Zenon DEF TypeOK, PcOK, PcRow
    <3> QED  BY <3>1, <3>2, Zenon
  <2>3. CASE current[lowest[c]] # hand[c]
    <3>1. SetupPreemption(c, lowest[c], ready[lowest[c]] \cup {hand[c]})
      BY <2>3, Zenon
    <3>2. AfterSetup(ready[lowest[c]] \cup {hand[c]}) = "loop"
      BY Zenon DEF AfterSetup
    <3>3. /\ ready' = [ready EXCEPT ![lowest[c]] = ready[lowest[c]] \cup {hand[c]}]
          /\ hand' = [hand EXCEPT ![c] = NoThread]
          /\ pc' = [pc EXCEPT ![c] = "loop"]
          /\ panic' = panic
      BY <2>3, <3>2, Zenon
    <3>4. TypeOK'
      BY <2>1, <3>1, <3>3, SetupType, Zenon DEF TypeOK, OptCores
    <3>5. PcOK'
      BY <2>1, <3>3, ThreadsAssumption, ZenonT(40) DEF TypeOK, PcOK, PcRow
    <3> QED  BY <3>4, <3>5, Zenon
  <2> QED  BY <2>2, <2>3, Zenon
<1>5. ASSUME NEW c \in Cores, DescheduleBegin(c) PROVE TypeInv'
  <2> USE <1>5 DEF DescheduleBegin, threadVars, timerVars, scanVars, lockVars
  <2>1. TypeOK'
    BY Zenon DEF TypeOK
  <2>2. PcOK'
    BY ZenonT(40) DEF TypeOK, PcOK, PcRow
  <2> QED  BY <2>1, <2>2, Zenon
<1>6. ASSUME NEW c \in Cores, Deschedule(c) PROVE TypeInv'
  <2> USE <1>6 DEF Deschedule
  <2>1. current[c] \in Threads /\ ready[c] \in SUBSET Threads /\ op[c] = "deschedule"
    BY Zenon DEF PcOK, PcRow, TypeOK
  <2>2. PICK p \in {"loop", "unwind"} : pc' = [pc EXCEPT ![c] = p]
    BY <2>1, DispatchType, Zenon
  <2>3. /\ current' \in [Cores -> Threads \cup {Idle}]
        /\ ready' \in [Cores -> SUBSET Threads]
        /\ trigger' \in SUBSET Cores
        /\ token' \in [Cores -> OptCores]
        /\ armed' \in [Cores -> SUBSET Cores]
        /\ due' \in [Cores -> SUBSET Cores]
    BY <2>1, DispatchType, Zenon
  <2>4. older' \in SUBSET (Threads \X Threads)
    BY <2>1, StampedType, Zenon DEF TypeOK
  <2>5. TypeOK'
    BY <2>1, <2>2, <2>3, <2>4, Zenon DEF TypeOK, OptCores
  <2>6. \A d \in Cores \ {c} : current'[d] = current[d]
    BY Zenon DEF Dispatch, TypeOK
  <2>7. PcOK'
    BY <2>1, <2>2, <2>6, ZenonT(40) DEF TypeOK, PcOK, PcRow
  <2> QED  BY <2>5, <2>7, Zenon
<1>7. ASSUME NEW c \in Cores, TriggerInterrupt(c) \/ TimerInterrupt(c) PROVE TypeInv'
  <2>1. PICK v \in Vectors : InterruptEnter(c, v)
    BY <1>7, Zenon DEF TriggerInterrupt, TimerInterrupt, Vectors
  <2>2. trigger' \in SUBSET Cores
    BY <1>7, Zenon DEF TriggerInterrupt, TimerInterrupt, TypeOK
  <2> USE <2>1 DEF InterruptEnter, threadVars, scanVars, lockVars
  <2>3. TypeOK'
    BY <2>2, Zenon DEF TypeOK
  <2>4. PcOK'
    BY ZenonT(40) DEF TypeOK, PcOK, PcRow
  <2> QED  BY <2>3, <2>4, Zenon
<1>8. ASSUME NEW c \in Cores, IrqLock(c) PROVE TypeInv'
  <2> USE <1>8 DEF IrqLock, threadVars, timerVars, scanVars
  <2>1. op[c] \in Vectors
    BY Zenon DEF PcOK, PcRow
  <2>2. TypeOK'
    BY <2>1, Zenon DEF TypeOK, OptCores
  <2>3. PcOK'
    BY <2>1, ThreadsAssumption, ZenonT(40) DEF TypeOK, PcOK, PcRow, Vectors
  <2> QED  BY <2>2, <2>3, Zenon
<1>9. ASSUME NEW c \in Cores, SchedulingTrigger(c) PROVE TypeInv'
  <2> USE <1>9 DEF SchedulingTrigger, threadVars
  <2>1. AfterSetup(ready[c]) \in {"loop", "unwind"}
    BY Zenon DEF AfterSetup
  <2>2. TypeOK'
    BY <2>1, SetupType, Zenon DEF TypeOK, OptCores
  <2>3. PcOK'
    BY <2>1, ThreadsAssumption, ZenonT(40) DEF TypeOK, PcOK, PcRow, Vectors
  <2> QED  BY <2>2, <2>3, Zenon
<1>10. ASSUME NEW c \in Cores, Fire(c) PROVE TypeInv'
  <2> USE <1>10 DEF Fire, threadVars, scanVars, lockVars
  <2>1. PICK i \in due[c] : /\ due' = [due EXCEPT ![c] = @ \ {i}]
                            /\ armed' = [armed EXCEPT ![c] = @ \ {i}]
                            /\ callback' = [callback EXCEPT ![c] = i]
    BY Zenon
  <2>2. i \in Cores
    BY <2>1, Zenon DEF TypeOK
  <2>3. TypeOK'
    BY <2>1, <2>2, Zenon DEF TypeOK, OptCores
  <2>4. PcOK'
    BY <2>1, <2>2, ZenonT(40) DEF TypeOK, PcOK, PcRow
  <2> QED  BY <2>3, <2>4, Zenon
<1>11. ASSUME NEW c \in Cores, PreemptionCallback(c) PROVE TypeInv'
  <2> USE <1>11 DEF PreemptionCallback, scanVars
  <2>1. callback[c] \in Cores
    BY Zenon DEF PcOK, PcRow
  <2>2. CASE callback[c] # c
    <3>1. TypeOK'
      BY <2>1, <2>2, ZenonT(40) DEF TypeOK, Halt, timerVars, OptCores
    <3>2. PcOK'
      <4>1. pc' = [pc EXCEPT ![c] = "halted"] /\ current' = current
        BY <2>2, Zenon DEF Halt
      <4>2. callback' = callback
        BY <2>2, Zenon DEF TypeOK
      <4>3. \A d \in Cores : pc'[d] = (IF d = c THEN "halted" ELSE pc[d])
        BY <4>1, Zenon DEF TypeOK
      <4>4. UNCHANGED <<hand, op, scan, lowest, load>>
        BY Zenon
      <4> HIDE <1>11 DEF PreemptionCallback
      <4> QED  BY <4>1, <4>2, <4>3, <4>4 DEF PcOK, PcRow
    <3> QED  BY <3>1, <3>2, Zenon
  <2>3. CASE callback[c] = c
    <3>1. ready[c] \cup PutBack(c) \in SUBSET Threads
      BY Zenon DEF PutBack, TypeOK
    <3>2. Dispatch(c, ready[c] \cup PutBack(c), older')
      BY <2>3, Zenon
    <3>3. PICK p \in {"loop", "unwind"} : pc' = [pc EXCEPT ![c] = p]
      BY <3>1, <3>2, DispatchType, Zenon
    <3>4. /\ current' \in [Cores -> Threads \cup {Idle}]
          /\ ready' \in [Cores -> SUBSET Threads]
          /\ trigger' \in SUBSET Cores
          /\ token' \in [Cores -> OptCores]
          /\ armed' \in [Cores -> SUBSET Cores]
          /\ due' \in [Cores -> SUBSET Cores]
      BY <3>1, <3>2, DispatchType, Zenon
    <3>5. older' \in SUBSET (Threads \X Threads)
      <4>1. CASE PutBack(c) = {}
        BY <4>1, <2>3, Zenon DEF TypeOK
      <4>2. CASE PutBack(c) # {}
        <5>1. current[c] \in Threads
          BY <4>2, Zenon DEF PutBack, TypeOK
        <5> QED  BY <4>2, <5>1, <2>3, StampedType, Zenon DEF TypeOK
      <4> QED  BY <4>1, <4>2, Zenon
    <3>6. TypeOK'
      BY <2>3, <3>3, <3>4, <3>5, Zenon DEF TypeOK, OptCores
    <3>7. \A d \in Cores \ {c} : current'[d] = current[d]
      BY <3>2, Zenon DEF Dispatch, TypeOK
    <3>8. PcOK'
      BY <2>3, <3>3, <3>7, ZenonT(40) DEF TypeOK, PcOK, PcRow
    <3> QED  BY <3>6, <3>8, Zenon
  <2> QED  BY <2>2, <2>3, Zenon
<1>12. ASSUME NEW c \in Cores, CallbackReturn(c) PROVE TypeInv'
  <2> USE <1>12 DEF CallbackReturn, Unwinding, threadVars, timerVars, scanVars
  <2>1. TypeOK'
    BY Zenon DEF TypeOK, OptCores
  <2>2. PcOK'
    BY ZenonT(40) DEF TypeOK, PcOK, PcRow
  <2> QED  BY <2>1, <2>2, Zenon
<1>13. ASSUME NEW c \in Cores, OperationReturn(c) PROVE TypeInv'
  <2> USE <1>13 DEF OperationReturn, Unwinding, timerVars
  <2>1. op[c] = "deschedule" <=> hand[c] \in Threads
    BY Zenon DEF PcOK, PcRow
  <2>2. TypeOK'
    BY <2>1, LocalsType, Zenon DEF TypeOK, OptCores
  <2>3. PcOK'
    BY ZenonT(40) DEF TypeOK, PcOK, PcRow
  <2> QED  BY <2>2, <2>3, Zenon
<1>14. ASSUME NEW c \in Cores, Expire(c) PROVE TypeInv'
  <2>1. /\ \E i \in armed[c] : due' = [due EXCEPT ![c] = @ \cup {i}]
        /\ UNCHANGED <<threadVars, trigger, token, armed, scanVars, lockVars, pc, op,
                       callback, panic>>
    BY <1>14, Zenon DEF Expire
  <2>2. due' \in [Cores -> SUBSET Cores]
    <3>1. PICK i \in armed[c] : due' = [due EXCEPT ![c] = @ \cup {i}]
      BY <2>1, Zenon
    <3>2. i \in Cores
      BY <3>1, Zenon DEF TypeOK
    <3> QED  BY <3>1, <3>2, Zenon DEF TypeOK
  <2>3. TypeOK'
    BY <2>1, <2>2, Zenon DEF TypeOK, threadVars, scanVars, lockVars
  <2>4. PcOK'
    BY <2>1, Zenon DEF PcOK, PcRow, threadVars, scanVars, lockVars
  <2> QED  BY <2>3, <2>4, Zenon
<1>15. CASE UNCHANGED vars
  BY <1>15, Zenon DEF vars, threadVars, timerVars, scanVars, lockVars, TypeOK, PcOK, PcRow
<1> QED  BY <1>1, <1>2, <1>3, <1>4, <1>5, <1>6, <1>7, <1>8, <1>9, <1>10, <1>11, <1>12,
            <1>13, <1>14, <1>15, Zenon DEF Next, KernelStep

-----------------------------------------------------------------------------
(* No thread is lost or duplicated *)

\* What _reschedule does to the places a thread can be in.
LEMMA DispatchMoves ==
    ASSUME TypeOK, NEW c \in Cores, NEW queue \in SUBSET Threads, NEW order,
           Dispatch(c, queue, order)
    PROVE  \E next \in queue \cup {Idle} :
               /\ next = Idle => queue = {}
               /\ current' = [current EXCEPT ![c] = next]
               /\ ready' = [ready EXCEPT ![c] = queue \ {next}]
<1>1. PICK next \in NextThread(queue, order) :
        /\ current' = [current EXCEPT ![c] = next]
        /\ ready' = [ready EXCEPT ![c] = queue \ {next}]
  BY Zenon DEF Dispatch
<1>2. next \in queue \/ (next = Idle /\ queue = {})
  BY <1>1, NextThreadType, Zenon
<1>3. next = Idle => queue = {}
  BY <1>2, ThreadsAssumption, Zenon
<1> QED  BY <1>1, <1>2, <1>3, Zenon

\* The actions that move no thread.
LEMMA Unmoved ==
    ASSUME [Next]_vars
    PROVE  \/ UNCHANGED <<current, ready, waiting, hand>>
           \/ \E c \in Cores : \/ ScheduleBegin(c)
                               \/ InstanceSchedule(c)
                               \/ Deschedule(c)
                               \/ PreemptionCallback(c)
                               \/ OperationReturn(c)
<1>1. CASE UNCHANGED vars
  BY <1>1, Zenon DEF vars, threadVars
<1>2. ASSUME NEW c \in Cores,
             \/ AggregateLock(c) \/ AverageLoad(c) \/ DescheduleBegin(c)
             \/ IrqLock(c) \/ SchedulingTrigger(c) \/ Fire(c)
             \/ CallbackReturn(c) \/ TriggerInterrupt(c) \/ TimerInterrupt(c) \/ Expire(c)
      PROVE  UNCHANGED <<current, ready, waiting, hand>>
  BY <1>2, Zenon DEF AggregateLock, AverageLoad, DescheduleBegin, IrqLock, SchedulingTrigger, Fire,
              CallbackReturn, TriggerInterrupt, TimerInterrupt, InterruptEnter, Expire,
              threadVars
<1> QED  BY <1>1, <1>2, Zenon DEF Next, KernelStep

\* Every step keeps every thread in one place.
LEMMA NextPlaces == TypeInv /\ ThreadInOnePlace /\ [Next]_vars => ThreadInOnePlace'
<1> SUFFICES ASSUME TypeInv, ThreadInOnePlace, [Next]_vars, NEW u \in Threads
             PROVE  Somewhere(u)' /\ NowhereTwice(u)'
  BY Zenon DEF ThreadInOnePlace
<1>u. Somewhere(u) /\ NowhereTwice(u) /\ u # NoThread /\ u # Idle
  BY ThreadsAssumption, Zenon DEF ThreadInOnePlace
<1>1. CASE UNCHANGED <<current, ready, waiting, hand>>
  BY <1>1, <1>u, Zenon DEF Somewhere, NowhereTwice
<1>2. ASSUME NEW c \in Cores, ScheduleBegin(c) PROVE Somewhere(u)' /\ NowhereTwice(u)'
  <2>1. PICK t \in waiting : waiting' = waiting \ {t} /\ hand' = [hand EXCEPT ![c] = t]
    BY <1>2, Zenon DEF ScheduleBegin, Unqueued
  <2>2. UNCHANGED <<current, ready>> /\ hand[c] = NoThread
    BY <1>2, Zenon DEF ScheduleBegin, TypeInv, PcOK, PcRow
  <2>3. \A d \in Cores : hand'[d] = IF d = c THEN t ELSE hand[d]
    BY <2>1, Zenon DEF TypeInv, TypeOK
  <2>4. Somewhere(u)'
    BY <1>u, <2>1, <2>2, <2>3, Zenon DEF Somewhere
  <2>5. NowhereTwice(u)'
    BY <1>u, <2>1, <2>2, <2>3 DEF NowhereTwice
  <2> QED  BY <2>4, <2>5, Zenon
<1>3. ASSUME NEW c \in Cores, InstanceSchedule(c) PROVE Somewhere(u)' /\ NowhereTwice(u)'
  <2> DEFINE i == lowest[c]
  <2>1. i \in Cores /\ hand[c] \in Threads /\ UNCHANGED <<current, waiting>>
    BY <1>3, Zenon DEF InstanceSchedule, TypeInv, PcOK, PcRow
  <2>2. CASE UNCHANGED <<ready, hand>>
    BY <1>u, <2>1, <2>2, Zenon DEF Somewhere, NowhereTwice
  <2>3. CASE /\ ready' = [ready EXCEPT ![i] = ready[i] \cup {hand[c]}]
             /\ hand' = [hand EXCEPT ![c] = NoThread]
    <3>1. /\ \A d \in Cores : hand'[d] = IF d = c THEN NoThread ELSE hand[d]
          /\ \A d \in Cores : ready'[d] = IF d = i THEN ready[i] \cup {hand[c]} ELSE ready[d]
      BY <2>1, <2>3, Zenon DEF TypeInv, TypeOK
    <3>2. Somewhere(u)'
      BY <1>u, <2>1, <3>1 DEF Somewhere
    <3>3. NowhereTwice(u)'
      BY <1>u, <2>1, <3>1 DEF NowhereTwice
    <3> QED  BY <3>2, <3>3, Zenon
  <2> QED  BY <1>3, <2>2, <2>3, Zenon DEF InstanceSchedule
<1>4. ASSUME NEW c \in Cores, Deschedule(c) PROVE Somewhere(u)' /\ NowhereTwice(u)'
  <2>1. /\ current[c] \in Threads /\ hand[c] = NoThread
        /\ hand' = [hand EXCEPT ![c] = current[c]]
        /\ waiting' = waiting
    BY <1>4, Zenon DEF Deschedule, TypeInv, PcOK, PcRow
  <2>2. PICK next \in ready[c] \cup {Idle} :
            /\ current' = [current EXCEPT ![c] = next]
            /\ ready' = [ready EXCEPT ![c] = ready[c] \ {next}]
    <3>1. ready[c] \in SUBSET Threads /\ TypeOK /\ Dispatch(c, ready[c], older)
      BY <1>4, Zenon DEF Deschedule, TypeInv, TypeOK
    <3> QED  BY <3>1, DispatchMoves
  <2>3. /\ \A d \in Cores : hand'[d] = IF d = c THEN current[c] ELSE hand[d]
        /\ \A d \in Cores : current'[d] = IF d = c THEN next ELSE current[d]
        /\ \A d \in Cores : ready'[d] = IF d = c THEN ready[c] \ {next} ELSE ready[d]
    BY <2>1, <2>2, Zenon DEF TypeInv, TypeOK
  <2>4. Somewhere(u)'
    BY <1>u, <2>1, <2>3, Zenon DEF Somewhere
  <2>5. NowhereTwice(u)'
    BY <1>u, <2>1, <2>2, <2>3 DEF NowhereTwice
  <2> QED  BY <2>4, <2>5, Zenon
<1>5. ASSUME NEW c \in Cores, PreemptionCallback(c) PROVE Somewhere(u)' /\ NowhereTwice(u)'
  <2>1. UNCHANGED <<waiting, hand>>
    BY <1>5, Zenon DEF PreemptionCallback
  <2>2. CASE UNCHANGED <<current, ready>>
    BY <1>u, <2>1, <2>2, Zenon DEF Somewhere, NowhereTwice
  <2>3. CASE Dispatch(c, ready[c] \cup PutBack(c), older')
    <3>1. PICK next \in ready[c] \cup PutBack(c) \cup {Idle} :
            /\ next = Idle => ready[c] \cup PutBack(c) = {}
            /\ current' = [current EXCEPT ![c] = next]
            /\ ready' = [ready EXCEPT ![c] = (ready[c] \cup PutBack(c)) \ {next}]
      <4>1. ready[c] \cup PutBack(c) \in SUBSET Threads
        BY Zenon DEF TypeInv, TypeOK, PutBack
      <4> QED  BY <2>3, <4>1, DispatchMoves, Zenon DEF TypeInv
    <3>2. /\ \A d \in Cores : current'[d] = IF d = c THEN next ELSE current[d]
          /\ \A d \in Cores :
                ready'[d] = IF d = c THEN (ready[c] \cup PutBack(c)) \ {next} ELSE ready[d]
      BY <3>1, Zenon DEF TypeInv, TypeOK
    <3>3. Somewhere(u)'
      BY <1>u, <2>1, <3>1, <3>2 DEF Somewhere, PutBack
    <3>4. NowhereTwice(u)'
      BY <1>u, <2>1, <3>1, <3>2 DEF NowhereTwice, PutBack
    <3> QED  BY <3>3, <3>4, Zenon
  <2> QED  BY <1>5, <2>2, <2>3, Zenon DEF PreemptionCallback
<1>6. ASSUME NEW c \in Cores, OperationReturn(c) PROVE Somewhere(u)' /\ NowhereTwice(u)'
  <2>1. /\ UNCHANGED <<current, ready>>
        /\ hand' = [hand EXCEPT ![c] = NoThread]
        /\ waiting' = IF hand[c] \in Threads THEN waiting \cup {hand[c]} ELSE waiting
    BY <1>6, Zenon DEF OperationReturn, Unwinding, TypeInv, PcOK, PcRow
  <2>2. \A d \in Cores : hand'[d] = IF d = c THEN NoThread ELSE hand[d]
    BY <2>1, Zenon DEF TypeInv, TypeOK
  <2>3. Somewhere(u)'
    BY <1>u, <2>1, <2>2, Zenon DEF Somewhere
  <2>4. NowhereTwice(u)'
    BY <1>u, <2>1, <2>2 DEF NowhereTwice
  <2> QED  BY <2>3, <2>4, Zenon
<1> QED  BY <1>1, <1>2, <1>3, <1>4, <1>5, <1>6, Unmoved, Zenon

-----------------------------------------------------------------------------
(* Preemption events *)

EventInv ==
    /\ OneEventPerInstance
    /\ \A c \in Cores : due[c] \subseteq armed[c]

\* _setup_preemption leaves its instance exactly one valid event, on the
\* timer of the calling core, and does not touch the events of the others.
LEMMA SetupEvents ==
    ASSUME TypeOK, EventInv, NEW c \in Cores, NEW i \in Cores, NEW queue,
           SetupPreemption(c, i, queue), queue # {}
    PROVE  /\ \A k \in Cores : token'[k] = IF k = i THEN c ELSE token[k]
           /\ \A d, k \in Cores : k \in armed'[d] <=> (k = i /\ d = c) \/ (k # i /\ k \in armed[d])
           /\ \A d, k \in Cores : k \in due'[d] <=> k # i /\ k \in due[d]
<1>1. \A d, k \in Cores : k \in Cancelled(armed, i)[d] <=> k # i /\ k \in armed[d]
  BY Zenon DEF TypeOK, EventInv, OneEventPerInstance, Cancelled
<1>2. \A d, k \in Cores : k \in Cancelled(due, i)[d] <=> k # i /\ k \in due[d]
  BY Zenon DEF TypeOK, EventInv, OneEventPerInstance, Cancelled
<1>3. Cancelled(armed, i) \in [Cores -> SUBSET Cores]
  BY Zenon DEF Cancelled, TypeOK
<1>4. /\ token' = [token EXCEPT ![i] = c]
      /\ armed' = [Cancelled(armed, i) EXCEPT ![c] = @ \cup {i}]
      /\ due' = Cancelled(due, i)
  BY Zenon DEF SetupPreemption
<1>5. \A d \in Cores :
        armed'[d] = IF d = c THEN Cancelled(armed, i)[c] \cup {i} ELSE Cancelled(armed, i)[d]
  BY <1>3, <1>4, Zenon
<1>6. \A k \in Cores : token'[k] = IF k = i THEN c ELSE token[k]
  BY <1>4, Zenon DEF TypeOK
<1> QED  BY <1>1, <1>2, <1>4, <1>5, <1>6

\* Whatever the queue: events are dropped or replaced, one instance at a time.
LEMMA SetupKeepsEventInv ==
    ASSUME TypeOK, EventInv, NEW c \in Cores, NEW i \in Cores, NEW queue,
           SetupPreemption(c, i, queue)
    PROVE  EventInv'
<1>1. CASE queue = {}
  BY <1>1, Zenon DEF SetupPreemption, EventInv, OneEventPerInstance
<1>2. CASE queue # {}
  <2>1. /\ \A k \in Cores : token'[k] = IF k = i THEN c ELSE token[k]
        /\ \A d, k \in Cores :
              k \in armed'[d] <=> (k = i /\ d = c) \/ (k # i /\ k \in armed[d])
        /\ \A d, k \in Cores : k \in due'[d] <=> k # i /\ k \in due[d]
    BY <1>2, SetupEvents, Zenon
  <2>2. due' \in [Cores -> SUBSET Cores]
    BY SetupType, Zenon
  <2> QED  BY <2>1, <2>2, Zenon DEF EventInv, OneEventPerInstance, TypeOK
<1> QED  BY <1>1, <1>2, Zenon

\* The actions that change no preemption event.
LEMMA EventsUntouched ==
    ASSUME [Next]_vars
    PROVE  \/ UNCHANGED <<token, armed, due>>
           \/ \E c \in Cores : \/ InstanceSchedule(c)
                               \/ Deschedule(c)
                               \/ SchedulingTrigger(c)
                               \/ Fire(c)
                               \/ PreemptionCallback(c)
                               \/ Expire(c)
<1>1. CASE UNCHANGED vars
  BY <1>1, Zenon DEF vars, timerVars
<1>2. ASSUME NEW c \in Cores,
             \/ ScheduleBegin(c) \/ AggregateLock(c) \/ AverageLoad(c) \/ DescheduleBegin(c)
             \/ IrqLock(c) \/ CallbackReturn(c) \/ OperationReturn(c)
             \/ TriggerInterrupt(c) \/ TimerInterrupt(c)
      PROVE  UNCHANGED <<token, armed, due>>
  BY <1>2, Zenon DEF ScheduleBegin, AggregateLock, AverageLoad, DescheduleBegin, IrqLock,
              CallbackReturn, OperationReturn, TriggerInterrupt, TimerInterrupt,
              InterruptEnter, timerVars
<1> QED  BY <1>1, <1>2, Zenon DEF Next, KernelStep

\* Every step keeps one valid event per instance, at most.
LEMMA NextEvents == TypeInv /\ EventInv /\ [Next]_vars => EventInv'
<1> SUFFICES ASSUME TypeInv, EventInv, [Next]_vars PROVE EventInv'
  BY Zenon
<1> USE DEF TypeInv
<1>1. CASE UNCHANGED <<token, armed, due>>
  BY <1>1, Zenon DEF EventInv, OneEventPerInstance
<1>2. ASSUME NEW c \in Cores, InstanceSchedule(c) PROVE EventInv'
  <2>1. lowest[c] \in Cores
    BY <1>2, Zenon DEF InstanceSchedule, PcOK, PcRow
  <2>2. CASE UNCHANGED timerVars
    BY <2>2, Zenon DEF timerVars, EventInv, OneEventPerInstance
  <2>3. CASE SetupPreemption(c, lowest[c], ready[lowest[c]] \cup {hand[c]})
    BY <2>1, <2>3, SetupKeepsEventInv, Zenon
  <2> QED  BY <1>2, <2>2, <2>3, Zenon DEF InstanceSchedule
<1>3. ASSUME NEW c \in Cores, Deschedule(c) PROVE EventInv'
  <2>1. PICK q : SetupPreemption(c, c, q)
    BY <1>3, Zenon DEF Deschedule, Dispatch
  <2> QED  BY <2>1, SetupKeepsEventInv, Zenon
<1>4. ASSUME NEW c \in Cores, SchedulingTrigger(c) PROVE EventInv'
  BY <1>4, SetupKeepsEventInv, Zenon DEF SchedulingTrigger
<1>5. ASSUME NEW c \in Cores, Fire(c) PROVE EventInv'
  <2>1. PICK i \in due[c] : /\ due' = [due EXCEPT ![c] = @ \ {i}]
                            /\ armed' = [armed EXCEPT ![c] = @ \ {i}]
                            /\ token' = token
    BY <1>5, Zenon DEF Fire
  <2>2. \A d \in Cores : /\ due'[d] = IF d = c THEN due[c] \ {i} ELSE due[d]
                         /\ armed'[d] = IF d = c THEN armed[c] \ {i} ELSE armed[d]
    BY <2>1, Zenon DEF TypeOK
  <2> QED  BY <2>1, <2>2 DEF EventInv, OneEventPerInstance
<1>6. ASSUME NEW c \in Cores, PreemptionCallback(c) PROVE EventInv'
  <2>1. CASE UNCHANGED timerVars
    BY <2>1, Zenon DEF timerVars, EventInv, OneEventPerInstance
  <2>2. CASE Dispatch(c, ready[c] \cup PutBack(c), older')
    <3>1. PICK q : SetupPreemption(c, c, q)
      BY <2>2, Zenon DEF Dispatch
    <3> QED  BY <3>1, SetupKeepsEventInv, Zenon
  <2> QED  BY <1>6, <2>1, <2>2, Zenon DEF PreemptionCallback
<1>7. ASSUME NEW c \in Cores, Expire(c) PROVE EventInv'
  <2>1. PICK i \in armed[c] : due' = [due EXCEPT ![c] = @ \cup {i}]
    BY <1>7, Zenon DEF Expire
  <2>2. UNCHANGED <<token, armed>>
    BY <1>7, Zenon DEF Expire
  <2>3. \A d \in Cores : due'[d] = IF d = c THEN due[c] \cup {i} ELSE due[d]
    BY <2>1, Zenon DEF TypeOK
  <2> QED  BY <2>1, <2>2, <2>3 DEF EventInv, OneEventPerInstance
<1> QED  BY <1>1, <1>2, <1>3, <1>4, <1>5, <1>6, <1>7, EventsUntouched, Zenon

-----------------------------------------------------------------------------
(* No lost preemption *)

\* What a step of core c that re-arms instance i leaves the instances.
LEMMA SetupKeepsQueued ==
    ASSUME TypeOK, EventInv, QueuedThreadHasEvent,
           NEW c \in Cores, NEW i \in Cores, NEW queue,
           SetupPreemption(c, i, queue),
           ready' = [ready EXCEPT ![i] = queue],
           \A d \in Cores : \A k \in Cores \ {i} :
               callback[d] = k /\ pc[d] \in {"callback", "halted"}
                   => callback'[d] = k /\ pc'[d] \in {"callback", "halted"}
    PROVE  QueuedThreadHasEvent'
<1> SUFFICES ASSUME NEW k \in Cores, ready'[k] # {}
             PROVE  \E d \in Cores : k \in armed'[d] \/
                        (callback'[d] = k /\ pc'[d] \in {"callback", "halted"})
  BY Zenon DEF QueuedThreadHasEvent
<1>1. CASE k = i
  <2>1. queue # {}
    BY <1>1, ZenonT(40) DEF TypeOK
  <2> QED  BY <1>1, <2>1, SetupEvents
<1>2. CASE k # i
  <2>1. ready[k] # {}
    BY <1>2, Zenon DEF TypeOK
  <2>2. PICK d \in Cores : k \in armed[d] \/
                               (callback[d] = k /\ pc[d] \in {"callback", "halted"})
    BY <2>1, Zenon DEF QueuedThreadHasEvent
  <2>3. k \in armed[d] => k \in armed'[d]
    <3>1. CASE queue = {}
      BY <3>1, Zenon DEF SetupPreemption
    <3>2. CASE queue # {}
      BY <3>2, <1>2, SetupEvents
    <3> QED  BY <3>1, <3>2, Zenon
  <2> QED  BY <1>2, <2>2, <2>3, Zenon
<1> QED  BY <1>1, <1>2, Zenon

\* Every step keeps an event, or a callback on its way, for an instance with queued threads.
LEMMA NextQueued ==
    TypeInv /\ EventInv /\ QueuedThreadHasEvent /\ [Next]_vars => QueuedThreadHasEvent'
<1> SUFFICES ASSUME TypeInv, EventInv, QueuedThreadHasEvent, [Next]_vars
             PROVE  QueuedThreadHasEvent'
  BY Zenon
<1> USE DEF TypeInv
<1>1. ASSUME NEW c \in Cores,
             \/ ScheduleBegin(c) \/ AggregateLock(c) \/ AverageLoad(c) \/ DescheduleBegin(c)
             \/ IrqLock(c) \/ CallbackReturn(c) \/ OperationReturn(c)
             \/ TriggerInterrupt(c) \/ TimerInterrupt(c) \/ Expire(c)
      PROVE  QueuedThreadHasEvent'
  <2>1. UNCHANGED <<ready, armed, callback>>
    BY <1>1, Zenon DEF ScheduleBegin, AggregateLock, AverageLoad, DescheduleBegin, IrqLock,
                CallbackReturn, OperationReturn, TriggerInterrupt, TimerInterrupt,
                InterruptEnter, Expire, timerVars, threadVars
  <2>2. \/ pc[c] \notin {"callback", "halted"} /\ (\E p : pc' = [pc EXCEPT ![c] = p])
        \/ pc' = pc
    BY <1>1, Zenon DEF ScheduleBegin, AggregateLock, AverageLoad, DescheduleBegin, IrqLock,
                CallbackReturn, OperationReturn, TriggerInterrupt, TimerInterrupt,
                InterruptEnter, Expire, Unwinding
  <2>3. \A d \in Cores : pc[d] \in {"callback", "halted"} => pc'[d] = pc[d]
    BY <2>2, Zenon DEF TypeOK
  <2> QED  BY <2>1, <2>3 DEF QueuedThreadHasEvent
<1>2. ASSUME NEW c \in Cores, InstanceSchedule(c) PROVE QueuedThreadHasEvent'
  <2> DEFINE i == lowest[c]
  <2>1. i \in Cores /\ pc[c] = "instance" /\ UNCHANGED callback
    BY <1>2, Zenon DEF InstanceSchedule, PcOK, PcRow
  <2>2. \E p : pc' = [pc EXCEPT ![c] = p]
    BY <1>2, Zenon DEF InstanceSchedule, Halt
  <2>3. \A d \in Cores : pc[d] \in {"callback", "halted"} => pc'[d] = pc[d]
    BY <2>1, <2>2, Zenon DEF TypeOK
  <2>4. CASE UNCHANGED <<ready, timerVars>>
    BY <2>1, <2>3, <2>4, Zenon DEF QueuedThreadHasEvent, timerVars
  <2>5. CASE /\ ready' = [ready EXCEPT ![i] = ready[i] \cup {hand[c]}]
             /\ SetupPreemption(c, i, ready[i] \cup {hand[c]})
    BY <2>1, <2>3, <2>5, SetupKeepsQueued, Zenon
  <2> QED  BY <1>2, <2>4, <2>5, Zenon DEF InstanceSchedule
<1>3. ASSUME NEW c \in Cores, Deschedule(c) PROVE QueuedThreadHasEvent'
  <2>1. PICK q : /\ ready' = [ready EXCEPT ![c] = q]
                 /\ SetupPreemption(c, c, q)
                 /\ pc' = [pc EXCEPT ![c] = AfterSetup(q)]
    BY <1>3, Zenon DEF Deschedule, Dispatch
  <2>2. pc[c] = "deschedule" /\ UNCHANGED callback
    BY <1>3, Zenon DEF Deschedule
  <2>3. \A d \in Cores : pc[d] \in {"callback", "halted"} => pc'[d] = pc[d]
    BY <2>1, <2>2, Zenon DEF TypeOK
  <2> QED  BY <2>1, <2>2, <2>3, SetupKeepsQueued, Zenon
<1>4. ASSUME NEW c \in Cores, SchedulingTrigger(c) PROVE QueuedThreadHasEvent'
  <2>1. /\ ready' = [ready EXCEPT ![c] = ready[c]]
        /\ SetupPreemption(c, c, ready[c])
        /\ pc' = [pc EXCEPT ![c] = AfterSetup(ready[c])]
        /\ pc[c] = "trigger" /\ UNCHANGED callback
    BY <1>4, Zenon DEF SchedulingTrigger, threadVars, TypeOK
  <2>2. \A d \in Cores : pc[d] \in {"callback", "halted"} => pc'[d] = pc[d]
    BY <2>1, Zenon DEF TypeOK
  <2> QED  BY <2>1, <2>2, SetupKeepsQueued, Zenon
<1>5. ASSUME NEW c \in Cores, Fire(c) PROVE QueuedThreadHasEvent'
  <2>1. PICK i \in due[c] : /\ armed' = [armed EXCEPT ![c] = @ \ {i}]
                            /\ callback' = [callback EXCEPT ![c] = i]
    BY <1>5, Zenon DEF Fire
  <2>2. ready' = ready /\ pc[c] = "loop" /\ pc' = [pc EXCEPT ![c] = "callback"]
    BY <1>5, Zenon DEF Fire, threadVars
  <2>3. \A d \in Cores : /\ pc'[d] = IF d = c THEN "callback" ELSE pc[d]
                         /\ callback'[d] = IF d = c THEN i ELSE callback[d]
                         /\ armed'[d] = IF d = c THEN armed[c] \ {i} ELSE armed[d]
    BY <2>1, <2>2, Zenon DEF TypeOK
  <2> QED  BY <2>2, <2>3 DEF QueuedThreadHasEvent
<1>6. ASSUME NEW c \in Cores, PreemptionCallback(c) PROVE QueuedThreadHasEvent'
  <2>1. pc[c] = "callback"
    BY <1>6, Zenon DEF PreemptionCallback
  <2>2. CASE callback[c] # c
    <3>1. UNCHANGED <<ready, armed>> /\ pc' = [pc EXCEPT ![c] = "halted"]
      BY <1>6, <2>2, Zenon DEF PreemptionCallback, Halt, timerVars
    <3>2. callback' = callback
      BY <1>6, <2>2, Zenon DEF PreemptionCallback, TypeOK
    <3>3. \A d \in Cores : pc'[d] = IF d = c THEN "halted" ELSE pc[d]
      BY <3>1, Zenon DEF TypeOK
    <3> QED  BY <2>1, <3>1, <3>2, <3>3 DEF QueuedThreadHasEvent
  <2>3. CASE callback[c] = c
    <3>1. PICK q : /\ ready' = [ready EXCEPT ![c] = q]
                   /\ SetupPreemption(c, c, q)
                   /\ pc' = [pc EXCEPT ![c] = AfterSetup(q)]
      BY <1>6, <2>3, Zenon DEF PreemptionCallback, Dispatch
    <3>2. callback' = [callback EXCEPT ![c] = NoCore]
      BY <1>6, <2>3, Zenon DEF PreemptionCallback
    <3>3. \A d \in Cores \ {c} : pc'[d] = pc[d] /\ callback'[d] = callback[d]
      BY <3>1, <3>2, Zenon DEF TypeOK
    <3>4. \A d \in Cores : \A k \in Cores \ {c} :
               callback[d] = k /\ pc[d] \in {"callback", "halted"}
                   => callback'[d] = k /\ pc'[d] \in {"callback", "halted"}
      BY <2>3, <3>3, Zenon
    <3> QED  BY <3>1, <3>4, SetupKeepsQueued, Zenon
  <2> QED  BY <2>2, <2>3, Zenon
<1>7. CASE UNCHANGED vars
  BY <1>7, Zenon DEF vars, threadVars, timerVars, QueuedThreadHasEvent
<1> QED  BY <1>1, <1>2, <1>3, <1>4, <1>5, <1>6, <1>7, Zenon DEF Next, KernelStep

-----------------------------------------------------------------------------
(***************************************************************************)
(* The locks and the order of the scheduler, from the invariants of        *)
(* SchedulerProofs                                                         *)
(***************************************************************************)

\* Who may hold an instance lock, and which events cannot fall due under it:
\* an event whose callback would take a lock that its core already holds.
LockRow(c) ==
    \A i \in Cores : lock[i] = c =>
        /\ pc[c] \in {"loop", "callback", "unwind", "halted"}
        /\ pc[c] \in {"loop", "callback"} => i \notin due[c]
        /\ pc[c] = "unwind" /\ i \in due[c] => ~Nested(c)
        /\ pc[c] = "callback" => callback[c] # i

\* A descriptor that was popped is no longer in the heap.
PoppedRow(c) == pc[c] = "callback" => callback[c] \notin armed[c]

LockInv == \A c \in Cores : LockRow(c) /\ PoppedRow(c)

-----------------------------------------------------------------------------
\* _setup_preemption by core c takes events away from the other timers and
\* adds at most its own instance's event to the heap of c.
LEMMA SetupShrinks ==
    ASSUME TypeInv, EventInv, NEW c \in Cores, NEW i \in Cores, NEW queue,
           SetupPreemption(c, i, queue)
    PROVE  /\ \A d, k \in Cores : k \in due'[d] => k \in due[d]
           /\ \A d, k \in Cores : k \in armed'[d] => k \in armed[d] \/ (d = c /\ k = i)
           /\ queue # {} => \A d \in Cores : i \notin due'[d]
<1>1. CASE queue = {}
  BY <1>1, Zenon DEF SetupPreemption
<1>2. CASE queue # {}
  BY <1>2, SetupEvents DEF TypeInv
<1> QED  BY <1>1, <1>2, Zenon

\* The step of core c takes the lock of i and re-arms it; c held no lock but,
\* in a nested callback, ones whose events are not due.
LEMMA CriticalSection ==
    ASSUME TypeInv, EventInv, LockInv,
           NEW c \in Cores, NEW i \in Cores, NEW queue,
           SetupPreemption(c, i, queue),
           lock[i] = NoCore,
           lock' = [lock EXCEPT ![i] = c],
           pc' = [pc EXCEPT ![c] = AfterSetup(queue)],
           \A j \in Cores : lock[j] = c => j \notin due[c],
           queue = {} => i = c /\ (lowest'[c] = c \/ c \notin due[c]),
           \A d \in Cores \ {c} : callback'[d] = callback[d] /\ lowest'[d] = lowest[d]
    PROVE  LockInv'
<1>1. /\ \A d, k \in Cores : k \in due'[d] => k \in due[d]
      /\ \A d, k \in Cores : k \in armed'[d] => k \in armed[d] \/ (d = c /\ k = i)
      /\ queue # {} => \A d \in Cores : i \notin due'[d]
  BY SetupShrinks, Zenon
<1>2. /\ \A d \in Cores : pc'[d] = IF d = c THEN AfterSetup(queue) ELSE pc[d]
      /\ \A j \in Cores : lock'[j] = IF j = i THEN c ELSE lock[j]
  BY Zenon DEF TypeInv, TypeOK
<1>3. ASSUME NEW d \in Cores \ {c} PROVE LockRow(d)' /\ PoppedRow(d)'
  <2>1. LockRow(d)'
    BY <1>1, <1>2 DEF LockInv, LockRow, Nested
  <2>2. PoppedRow(d)'
    <3>1. pc'[d] = pc[d] /\ callback'[d] = callback[d]
      BY <1>2, Zenon
    <3>2. pc[d] = "callback" => callback[d] \in Cores
      BY Zenon DEF TypeInv, PcOK, PcRow
    <3> QED  BY <1>1, <3>1, <3>2, Zenon DEF LockInv, PoppedRow
  <2> QED  BY <2>1, <2>2, Zenon
<1>4. CASE queue # {}
  <2>1. pc'[c] = "loop"
    BY <1>2, <1>4, Zenon DEF AfterSetup
  <2>2. LockRow(c)' /\ PoppedRow(c)'
    BY <1>1, <1>2, <1>4, <2>1 DEF LockRow, PoppedRow
  <2> QED  BY <1>3, <2>2, Zenon DEF LockInv
<1>5. CASE queue = {}
  <2>1. pc'[c] = "unwind"
    BY <1>2, <1>5, Zenon DEF AfterSetup
  <2>2. LockRow(c)' /\ PoppedRow(c)'
    BY <1>1, <1>2, <1>5, <2>1 DEF LockRow, PoppedRow, Nested
  <2> QED  BY <1>3, <2>2, Zenon DEF LockInv
<1> QED  BY <1>4, <1>5, Zenon

\* If the kernel is prompt, every step keeps the owner of a lock apart from the callbacks it runs.
LEMMA NextLock ==
    ASSUME Prompt
    PROVE  TypeInv /\ EventInv /\ LockInv /\ [Next]_vars => LockInv'
<1> SUFFICES ASSUME TypeInv, EventInv, LockInv, [Next]_vars PROVE LockInv'
  BY Zenon
<1>1. ASSUME NEW c \in Cores,
             \/ ScheduleBegin(c) \/ AggregateLock(c) \/ AverageLoad(c) \/ DescheduleBegin(c)
             \/ IrqLock(c) \/ TriggerInterrupt(c) \/ TimerInterrupt(c)
      PROVE  LockInv'
  <2>1. UNCHANGED <<lock, armed, due, callback>>
    BY <1>1, Zenon DEF ScheduleBegin, AggregateLock, AverageLoad, DescheduleBegin, IrqLock,
                TriggerInterrupt, TimerInterrupt, InterruptEnter, timerVars, lockVars
  <2> DEFINE Targets == {"aggregate", "load", "instance", "deschedule", "irq", "trigger",
                         "loop"}
  <2>2. /\ pc[c] \in {"run", "aggregate", "load", "irq"}
        /\ \E p \in Targets : pc' = [pc EXCEPT ![c] = p]
        /\ \A d \in Cores \ {c} : lowest'[d] = lowest[d]
    <3>1. ASSUME AggregateLock(c) \/ AverageLoad(c)
          PROVE  \A d \in Cores \ {c} : lowest'[d] = lowest[d]
      <4>1. lowest' = lowest \/ \E x : lowest' = [lowest EXCEPT ![c] = x]
        BY <3>1, Zenon DEF AggregateLock, AverageLoad
      <4> QED  BY <4>1, Zenon DEF TypeInv, TypeOK
    <3>2. ASSUME \/ ScheduleBegin(c) \/ DescheduleBegin(c) \/ IrqLock(c)
                 \/ TriggerInterrupt(c) \/ TimerInterrupt(c)
          PROVE  lowest' = lowest
      BY <3>2, Zenon DEF ScheduleBegin, DescheduleBegin, IrqLock, TriggerInterrupt, TimerInterrupt,
                  InterruptEnter, scanVars
    <3>3. pc[c] \in {"run", "aggregate", "load", "irq"}
      BY <1>1, Zenon DEF ScheduleBegin, AggregateLock, AverageLoad, DescheduleBegin, IrqLock,
                  TriggerInterrupt, TimerInterrupt, InterruptEnter
    <3>4. \E p \in Targets : pc' = [pc EXCEPT ![c] = p]
      BY <1>1, Zenon DEF ScheduleBegin, AggregateLock, AverageLoad, DescheduleBegin, IrqLock,
                  TriggerInterrupt, TimerInterrupt, InterruptEnter
    <3> QED  BY <1>1, <3>1, <3>2, <3>3, <3>4, Zenon
  <2>3. \A i \in Cores : lock[i] # c
    BY <2>2, Zenon DEF LockInv, LockRow
  <2>4. \A d \in Cores \ {c} : pc'[d] = pc[d]
    BY <2>2, Zenon DEF TypeInv, TypeOK
  <2>5. pc'[c] # "callback"
    BY <2>2, Zenon DEF TypeInv, TypeOK
  <2>6. LockRow(c)' /\ PoppedRow(c)'
    BY <2>1, <2>3, <2>5, Zenon DEF LockRow, PoppedRow
  <2>7. \A d \in Cores \ {c} : LockRow(d)' /\ PoppedRow(d)'
    BY <2>1, <2>2, <2>4, Zenon DEF LockInv, LockRow, PoppedRow, Nested
  <2> QED  BY <2>6, <2>7, Zenon DEF LockInv
<1>2. ASSUME NEW c \in Cores, InstanceSchedule(c) PROVE LockInv'
  <2> DEFINE i == lowest[c]
  <2>1. /\ i \in Cores /\ pc[c] = "instance" /\ lock[i] = NoCore
        /\ lock' = [lock EXCEPT ![i] = c]
        /\ UNCHANGED <<callback, lowest>>
    BY <1>2, Zenon DEF InstanceSchedule, TypeInv, PcOK, PcRow, scanVars
  <2>2. \A j \in Cores : lock[j] # c
    BY <2>1, Zenon DEF LockInv, LockRow
  <2>3. CASE Halt(c, "rescheduling the current thread") /\ UNCHANGED timerVars
    <3>1. /\ \A d \in Cores : pc'[d] = IF d = c THEN "halted" ELSE pc[d]
          /\ \A j \in Cores : lock'[j] = IF j = i THEN c ELSE lock[j]
          /\ UNCHANGED <<armed, due>>
      BY <2>1, <2>3, Zenon DEF Halt, timerVars, TypeInv, TypeOK
    <3>2. LockRow(c)' /\ PoppedRow(c)'
      BY <3>1, Zenon DEF LockRow, PoppedRow
    <3>3. \A d \in Cores \ {c} : LockRow(d)' /\ PoppedRow(d)'
      BY <2>1, <3>1 DEF LockInv, LockRow, PoppedRow, Nested
    <3> QED  BY <3>2, <3>3, Zenon DEF LockInv
  <2>4. CASE /\ SetupPreemption(c, i, ready[i] \cup {hand[c]})
             /\ pc' = [pc EXCEPT ![c] = AfterSetup(ready[i] \cup {hand[c]})]
    BY <2>1, <2>2, <2>4, CriticalSection, Zenon
  <2> QED  BY <1>2, <2>3, <2>4, Zenon DEF InstanceSchedule
<1>3. ASSUME NEW c \in Cores, Deschedule(c) PROVE LockInv'
  <2>1. PICK q : SetupPreemption(c, c, q) /\ pc' = [pc EXCEPT ![c] = AfterSetup(q)]
    BY <1>3, Zenon DEF Deschedule, Dispatch
  <2>2. /\ pc[c] = "deschedule" /\ lock[c] = NoCore
        /\ lock' = [lock EXCEPT ![c] = c]
        /\ lowest' = [lowest EXCEPT ![c] = c]
        /\ UNCHANGED callback
    BY <1>3, Zenon DEF Deschedule
  <2>3. /\ \A j \in Cores : lock[j] # c
        /\ \A d \in Cores : lowest'[d] = IF d = c THEN c ELSE lowest[d]
    BY <2>2, Zenon DEF LockInv, LockRow, TypeInv, TypeOK
  <2> QED  BY <2>1, <2>2, <2>3, CriticalSection, Zenon
<1>4. ASSUME NEW c \in Cores, SchedulingTrigger(c) PROVE LockInv'
  <2>1. /\ SetupPreemption(c, c, ready[c]) /\ pc' = [pc EXCEPT ![c] = AfterSetup(ready[c])]
        /\ pc[c] = "trigger" /\ lock[c] = NoCore
        /\ lock' = [lock EXCEPT ![c] = c]
        /\ lowest' = [lowest EXCEPT ![c] = c]
        /\ UNCHANGED callback
    BY <1>4, Zenon DEF SchedulingTrigger
  <2>2. /\ \A j \in Cores : lock[j] # c
        /\ \A d \in Cores : lowest'[d] = IF d = c THEN c ELSE lowest[d]
    BY <2>1, Zenon DEF LockInv, LockRow, TypeInv, TypeOK
  <2> QED  BY <2>1, <2>2, CriticalSection, Zenon
<1>5. ASSUME NEW c \in Cores, Fire(c) PROVE LockInv'
  <2>1. PICK i \in due[c] : /\ due' = [due EXCEPT ![c] = @ \ {i}]
                            /\ armed' = [armed EXCEPT ![c] = @ \ {i}]
                            /\ callback' = [callback EXCEPT ![c] = i]
    BY <1>5, Zenon DEF Fire
  <2>2. pc[c] = "loop" /\ pc' = [pc EXCEPT ![c] = "callback"] /\ UNCHANGED <<lock, lowest>>
    BY <1>5, Zenon DEF Fire, lockVars, scanVars
  <2>3. \A d \in Cores : /\ pc'[d] = IF d = c THEN "callback" ELSE pc[d]
                         /\ callback'[d] = IF d = c THEN i ELSE callback[d]
                         /\ armed'[d] = IF d = c THEN armed[c] \ {i} ELSE armed[d]
                         /\ due'[d] = IF d = c THEN due[c] \ {i} ELSE due[d]
    BY <2>1, <2>2, Zenon DEF TypeInv, TypeOK
  <2>4. LockRow(c)' /\ PoppedRow(c)'
    BY <2>1, <2>2, <2>3 DEF LockInv, LockRow, PoppedRow
  <2>5. \A d \in Cores \ {c} : LockRow(d)' /\ PoppedRow(d)'
    BY <2>2, <2>3 DEF LockInv, LockRow, PoppedRow, Nested
  <2> QED  BY <2>4, <2>5, Zenon DEF LockInv
<1>6. ASSUME NEW c \in Cores, PreemptionCallback(c) PROVE LockInv'
  <2> DEFINE i == callback[c]
  <2>1. /\ pc[c] = "callback" /\ i \in Cores /\ lock[i] = NoCore
        /\ lock' = [lock EXCEPT ![i] = c]
        /\ lowest' = lowest
    BY <1>6, Zenon DEF PreemptionCallback, scanVars, TypeInv, PcOK, PcRow
  <2>2. CASE i # c
    <3>1. UNCHANGED <<armed, due>> /\ pc' = [pc EXCEPT ![c] = "halted"]
      BY <1>6, <2>2, Zenon DEF PreemptionCallback, Halt, timerVars
    <3>2. callback' = callback
      BY <1>6, <2>2, Zenon DEF PreemptionCallback, TypeInv, TypeOK
    <3>3. /\ \A d \in Cores : pc'[d] = IF d = c THEN "halted" ELSE pc[d]
          /\ \A j \in Cores : lock'[j] = IF j = i THEN c ELSE lock[j]
      BY <2>1, <3>1, Zenon DEF TypeInv, TypeOK
    <3>4. LockRow(c)' /\ PoppedRow(c)'
      BY <3>3, Zenon DEF LockRow, PoppedRow
    <3>5. \A d \in Cores \ {c} : LockRow(d)' /\ PoppedRow(d)'
      BY <2>1, <3>1, <3>2, <3>3 DEF LockInv, LockRow, PoppedRow, Nested
    <3> QED  BY <3>4, <3>5, Zenon DEF LockInv
  <2>3. CASE i = c
    <3>1. PICK q : SetupPreemption(c, c, q) /\ pc' = [pc EXCEPT ![c] = AfterSetup(q)]
      BY <1>6, <2>3, Zenon DEF PreemptionCallback, Dispatch
    <3>2. callback' = [callback EXCEPT ![c] = NoCore]
      BY <1>6, <2>3, Zenon DEF PreemptionCallback
    <3>3. \A d \in Cores \ {c} : callback'[d] = callback[d]
      BY <3>2, Zenon DEF TypeInv, TypeOK
    <3>4. \A j \in Cores : lock[j] = c => j \notin due[c]
      BY <2>1, Zenon DEF LockInv, LockRow
    <3>5. c \notin due[c]
      BY <2>1, <2>3, Zenon DEF LockInv, PoppedRow, EventInv
    <3> QED  BY <2>1, <2>3, <3>1, <3>3, <3>4, <3>5, CriticalSection, Zenon
  <2> QED  BY <2>2, <2>3, Zenon
<1>7. ASSUME NEW c \in Cores, CallbackReturn(c) PROVE LockInv'
  <2>1. /\ Unwinding(c) /\ Nested(c)
        /\ lock' = [lock EXCEPT ![c] = NoCore]
        /\ pc' = [pc EXCEPT ![c] = "loop"]
        /\ UNCHANGED <<armed, due, callback, lowest>>
    BY <1>7, Zenon DEF CallbackReturn, timerVars, scanVars
  <2>2. /\ \A d \in Cores : pc'[d] = IF d = c THEN "loop" ELSE pc[d]
        /\ \A j \in Cores : lock'[j] = IF j = c THEN NoCore ELSE lock[j]
    BY <2>1, Zenon DEF TypeInv, TypeOK
  <2>3. LockRow(c)' /\ PoppedRow(c)'
    BY <2>1, <2>2, NoCoreType DEF LockInv, LockRow, PoppedRow, Unwinding
  <2>4. \A d \in Cores \ {c} : LockRow(d)' /\ PoppedRow(d)'
    BY <2>1, <2>2, NoCoreType DEF LockInv, LockRow, PoppedRow, Nested
  <2> QED  BY <2>3, <2>4, Zenon DEF LockInv
<1>8. ASSUME NEW c \in Cores, OperationReturn(c) PROVE LockInv'
  <2>1. /\ lock' = [i \in Cores |-> IF lock[i] = c THEN NoCore ELSE lock[i]]
        /\ pc' = [pc EXCEPT ![c] = "run"]
        /\ lowest' = [lowest EXCEPT ![c] = NoCore]
        /\ UNCHANGED <<armed, due, callback>>
    BY <1>8, Zenon DEF OperationReturn, timerVars
  <2>2. /\ \A d \in Cores : pc'[d] = IF d = c THEN "run" ELSE pc[d]
        /\ \A d \in Cores : lowest'[d] = IF d = c THEN NoCore ELSE lowest[d]
        /\ \A j \in Cores : lock'[j] = IF lock[j] = c THEN NoCore ELSE lock[j]
    BY <2>1, Zenon DEF TypeInv, TypeOK
  <2>3. LockRow(c)' /\ PoppedRow(c)'
    BY <2>2, NoCoreType DEF LockRow, PoppedRow
  <2>4. \A d \in Cores \ {c} : LockRow(d)' /\ PoppedRow(d)'
    BY <2>1, <2>2, NoCoreType DEF LockInv, LockRow, PoppedRow, Nested
  <2> QED  BY <2>3, <2>4, Zenon DEF LockInv
<1>9. ASSUME NEW c \in Cores, Expire(c) PROVE LockInv'
  <2>1. PICK i \in armed[c] : due' = [due EXCEPT ![c] = @ \cup {i}] /\ lock[i] # c
    BY <1>9, Zenon DEF Expire
  <2>2. UNCHANGED <<pc, lock, armed, callback, lowest>>
    BY <1>9, Zenon DEF Expire, lockVars, scanVars
  <2>3. \A d \in Cores : due'[d] = IF d = c THEN due[c] \cup {i} ELSE due[d]
    BY <2>1, Zenon DEF TypeInv, TypeOK
  <2> QED  BY <2>1, <2>2, <2>3 DEF LockInv, LockRow, PoppedRow, Nested
<1>10. CASE UNCHANGED vars
  BY <1>10, Zenon DEF vars, timerVars, scanVars, lockVars, LockInv, LockRow, PoppedRow, Nested
<1> QED  BY <1>1, <1>2, <1>3, <1>4, <1>5, <1>6, <1>7, <1>8, <1>9, <1>10, Zenon DEF Next, KernelStep

-----------------------------------------------------------------------------
(* The scheduler implements ThreadLife *)

\* Every step of the scheduler is a step of the thread life cycle, or none.
LEMMA NextLife ==
    TypeInv /\ ThreadInOnePlace /\ [Next]_vars => [Life!LifeNext]_(Life!lifeVars)
<1> SUFFICES ASSUME TypeInv, ThreadInOnePlace, [Next]_vars
             PROVE  Life!LifeNext \/ UNCHANGED <<current, ready>>
  BY Zenon DEF Life!lifeVars
<1>1. ASSUME NEW c \in Cores, InstanceSchedule(c)
      PROVE  Life!LifeNext \/ UNCHANGED <<current, ready>>
  <2> DEFINE i == lowest[c]
  <2>1. i \in Cores /\ hand[c] \in Threads /\ current' = current
    BY <1>1, Zenon DEF InstanceSchedule, TypeInv, PcOK, PcRow
  <2>2. CASE ready' = ready
    BY <2>1, <2>2, Zenon
  <2>3. CASE ready' = [ready EXCEPT ![i] = ready[i] \cup {hand[c]}]
    <3>1. hand[c] \in Life!Blocked
      BY <2>1 DEF ThreadInOnePlace, NowhereTwice, Life!Blocked
    <3> QED  BY <2>1, <2>3, <3>1, Zenon DEF Life!LifeNext, Life!Wake
  <2> QED  BY <1>1, <2>2, <2>3, Zenon DEF InstanceSchedule
<1>2. ASSUME NEW c \in Cores, Deschedule(c) PROVE Life!LifeNext
  <2>1. ready[c] \in SUBSET Threads /\ TypeOK /\ Dispatch(c, ready[c], older)
    BY <1>2, Zenon DEF Deschedule, TypeInv, TypeOK
  <2>2. PICK next \in ready[c] \cup {Idle} :
            /\ next = Idle => ready[c] = {}
            /\ current' = [current EXCEPT ![c] = next]
            /\ ready' = [ready EXCEPT ![c] = ready[c] \ {next}]
    BY <2>1, DispatchMoves, Zenon
  <2>3. current[c] # Idle
    BY <1>2, ThreadsAssumption, Zenon DEF Deschedule, TypeInv, PcOK, PcRow
  <2>4. ready[c] \cup {} = ready[c]
    BY Zenon
  <2>5. Life!Block(c, next)
    BY <2>2, <2>3, <2>4, Zenon DEF Life!Block, Life!SwitchTo
  <2> QED  BY <2>1, <2>2, <2>5, Zenon DEF Life!LifeNext
<1>3. ASSUME NEW c \in Cores, PreemptionCallback(c)
      PROVE  Life!LifeNext \/ UNCHANGED <<current, ready>>
  <2>1. CASE Dispatch(c, ready[c] \cup PutBack(c), older')
    <3>1. ready[c] \cup PutBack(c) \in SUBSET Threads
      BY Zenon DEF TypeInv, TypeOK, PutBack
    <3>2. PICK next \in ready[c] \cup PutBack(c) \cup {Idle} :
            /\ next = Idle => ready[c] \cup PutBack(c) = {}
            /\ current' = [current EXCEPT ![c] = next]
            /\ ready' = [ready EXCEPT ![c] = (ready[c] \cup PutBack(c)) \ {next}]
      BY <2>1, <3>1, DispatchMoves, Zenon DEF TypeInv
    <3>3. Life!Preempt(c, next)
      BY <3>2, Zenon DEF Life!Preempt, Life!SwitchTo, PutBack
    <3> QED  BY <3>1, <3>2, <3>3, Zenon DEF Life!LifeNext
  <2> QED  BY <1>3, <2>1, Zenon DEF PreemptionCallback
<1>4. ASSUME NEW c \in Cores, ScheduleBegin(c) \/ OperationReturn(c)
      PROVE  UNCHANGED <<current, ready>>
  BY <1>4, Zenon DEF ScheduleBegin, OperationReturn
<1> QED  BY <1>1, <1>2, <1>3, <1>4, Unmoved, Zenon

-----------------------------------------------------------------------------
(* The thread that has waited longest runs next *)

\* The time stamps order the threads; a thread that is stamped goes last.
LEMMA StampedOrders ==
    ASSUME older \in StrictTotalOrders, NEW t \in Threads
    PROVE  /\ Stamped(t) \in StrictTotalOrders
           /\ \A u, v \in Threads : u # t => (<<u, v>> \in Stamped(t) <=> v = t \/ <<u, v>> \in older)
           /\ \A v \in Threads : <<t, v>> \notin Stamped(t)
<1>1. \A u, v : <<u, v>> \in Stamped(t) <=> (u # t /\ <<u, v>> \in older) \/ (v = t /\ u \in Threads \ {t})
  BY Zenon DEF Stamped
<1>2. older \in SUBSET (Threads \X Threads)
  BY Zenon DEF StrictTotalOrders
<1>3. Stamped(t) \in SUBSET (Threads \X Threads)
  BY <1>2, StampedType, Zenon
<1>4. /\ \A u \in Threads : <<u, u>> \notin older
      /\ \A u, v \in Threads : u # v => (<<u, v>> \in older <=> <<v, u>> \notin older)
      /\ \A u, v, w \in Threads : <<u, v>> \in older /\ <<v, w>> \in older => <<u, w>> \in older
  BY Zenon DEF StrictTotalOrders
<1>5. \A u \in Threads : <<u, u>> \notin Stamped(t)
  BY <1>1, <1>4, Zenon
<1>6. \A u, v \in Threads : u # v => (<<u, v>> \in Stamped(t) <=> <<v, u>> \notin Stamped(t))
  BY <1>1, <1>4, Zenon
<1>7. \A u, v, w \in Threads : <<u, v>> \in Stamped(t) /\ <<v, w>> \in Stamped(t) => <<u, w>> \in Stamped(t)
  BY <1>1, <1>4
<1>8. Stamped(t) \in StrictTotalOrders
  BY <1>3, <1>5, <1>6, <1>7, Zenon DEF StrictTotalOrders
<1> QED  BY <1>1, <1>8, Zenon

\* Who is popped is older than whoever stays.
LEMMA PopsOldest ==
    ASSUME NEW order \in StrictTotalOrders, NEW queue \in SUBSET Threads, NEW next \in NextThread(queue, order), next # Idle
    PROVE  next \in queue /\ \A t \in queue \ {next} : <<next, t>> \in order
<1>1. next \in queue /\ \A u \in queue : <<u, next>> \notin order
  BY Zenon DEF NextThread
<1>2. \A t, u \in Threads : t # u => (<<t, u>> \in order <=> <<u, t>> \notin order)
  BY Zenon DEF StrictTotalOrders
<1> QED  BY <1>1, <1>2, Zenon

\* The action of DispatchesOldest for one core.
Dispatched(c) ==
    current'[c] # current[c] =>
        /\ lock'[c] = c /\ lock[c] = NoCore
        /\ current'[c] # Idle => \A t \in ready'[c] : <<current'[c], t>> \in older'

\* _reschedule on core c, with the order that it pops by.
LEMMA DispatchOldest ==
    ASSUME TypeInv, older' \in StrictTotalOrders, NEW c \in Cores, lock[c] = NoCore, lock' = [lock EXCEPT ![c] = c],
           NEW queue \in SUBSET Threads, NEW order \in StrictTotalOrders, Dispatch(c, queue, order),
           \A t, u \in queue : <<t, u>> \in order => <<t, u>> \in older'
    PROVE  \A d \in Cores : Dispatched(d)
<1>1. PICK next \in NextThread(queue, order) :
         /\ current' = [current EXCEPT ![c] = next]
         /\ ready' = [ready EXCEPT ![c] = queue \ {next}]
  BY Zenon DEF Dispatch
<1>2. lock'[c] = c /\ current'[c] = next /\ ready'[c] = queue \ {next}
  BY <1>1, Zenon DEF TypeInv, TypeOK
<1>3. \A d \in Cores \ {c} : current'[d] = current[d]
  BY <1>1, Zenon DEF TypeInv, TypeOK
<1>4. next # Idle => \A t \in queue \ {next} : <<next, t>> \in older'
  BY <1>1, PopsOldest, Zenon
<1> QED  BY <1>2, <1>3, <1>4, Zenon DEF Dispatched

\* Every step keeps the stamps totally ordered, and dispatches the oldest thread.
LEMMA NextOldest ==
    TypeInv /\ ThreadInOnePlace /\ older \in StrictTotalOrders /\ [Next]_vars
        => older' \in StrictTotalOrders /\ \A c \in Cores : Dispatched(c)
<1> SUFFICES ASSUME TypeInv, ThreadInOnePlace, older \in StrictTotalOrders, [Next]_vars
             PROVE  older' \in StrictTotalOrders /\ \A c \in Cores : Dispatched(c)
  BY Zenon
<1>1. ASSUME NEW c \in Cores, Deschedule(c)
      PROVE  older' \in StrictTotalOrders /\ \A d \in Cores : Dispatched(d)
  <2>1. /\ lock[c] = NoCore /\ lock' = [lock EXCEPT ![c] = c]
        /\ older' = Stamped(current[c]) /\ Dispatch(c, ready[c], older) /\ pc[c] = "deschedule"
    BY <1>1, Zenon DEF Deschedule
  <2>2. current[c] \in Threads
    BY <2>1, Zenon DEF TypeInv, PcOK, PcRow
  <2>3. older' \in StrictTotalOrders
    BY <2>1, <2>2, StampedOrders, Zenon
  <2>4. ready[c] \in SUBSET Threads /\ current[c] \notin ready[c]
    BY <2>2, Zenon DEF TypeInv, TypeOK, ThreadInOnePlace, NowhereTwice
  <2>5. \A t, u \in ready[c] : <<t, u>> \in older => <<t, u>> \in older'
    BY <2>1, <2>2, <2>4, StampedOrders, Zenon
  <2> QED  BY <2>1, <2>3, <2>4, <2>5, DispatchOldest, Zenon
<1>2. ASSUME NEW c \in Cores, PreemptionCallback(c)
      PROVE  older' \in StrictTotalOrders /\ \A d \in Cores : Dispatched(d)
  <2>1. CASE callback[c] # c
    BY <1>2, <2>1, Zenon DEF PreemptionCallback, Dispatched
  <2>2. CASE callback[c] = c
    <3>1. /\ lock[c] = NoCore /\ lock' = [lock EXCEPT ![c] = c]
          /\ older' = IF PutBack(c) = {} THEN older ELSE Stamped(current[c])
          /\ Dispatch(c, ready[c] \cup PutBack(c), older')
      BY <1>2, <2>2, Zenon DEF PreemptionCallback
    <3>2. ready[c] \cup PutBack(c) \in SUBSET Threads
      BY Zenon DEF TypeInv, TypeOK, PutBack
    <3>3. PutBack(c) # {} => current[c] \in Threads
      BY Zenon DEF TypeInv, TypeOK, PutBack
    <3>4. older' \in StrictTotalOrders
      BY <3>1, <3>3, StampedOrders, Zenon
    <3> QED  BY <3>1, <3>2, <3>4, DispatchOldest, Zenon
  <2> QED  BY <2>1, <2>2, Zenon
<1>3. ASSUME NEW c \in Cores,
             \/ ScheduleBegin(c) \/ AggregateLock(c) \/ AverageLoad(c) \/ InstanceSchedule(c)
             \/ DescheduleBegin(c) \/ IrqLock(c)
      PROVE  UNCHANGED <<current, older>>
  BY <1>3, Zenon DEF ScheduleBegin, AggregateLock, AverageLoad, InstanceSchedule, DescheduleBegin, IrqLock, threadVars
<1>4. ASSUME NEW c \in Cores,
             \/ SchedulingTrigger(c) \/ Fire(c) \/ CallbackReturn(c) \/ OperationReturn(c)
             \/ TriggerInterrupt(c) \/ TimerInterrupt(c) \/ Expire(c)
      PROVE  UNCHANGED <<current, older>>
  BY <1>4, Zenon DEF SchedulingTrigger, Fire, CallbackReturn, OperationReturn, TriggerInterrupt, TimerInterrupt,
              InterruptEnter, Expire, threadVars
<1>5. CASE UNCHANGED <<current, older>>
  BY <1>5, Zenon DEF Dispatched
<1>6. CASE UNCHANGED vars
  BY <1>6, Zenon DEF vars, threadVars, Dispatched
<1> QED  BY <1>1, <1>2, <1>3, <1>4, <1>5, <1>6, Zenon DEF Next, KernelStep

\* No step of the scheduler reaches the panic about the current thread.
LEMMA NextPanic ==
    TypeInv /\ ThreadInOnePlace /\ NeverReschedulesCurrent /\ [Next]_vars
      => NeverReschedulesCurrent'
<1> SUFFICES ASSUME TypeInv, ThreadInOnePlace, NeverReschedulesCurrent, [Next]_vars
             PROVE  NeverReschedulesCurrent'
  BY Zenon
<1>1. ASSUME NEW c \in Cores, InstanceSchedule(c) PROVE panic' = panic
  <2>1. lowest[c] \in Cores /\ hand[c] \in Threads
    BY <1>1, Zenon DEF InstanceSchedule, TypeInv, PcOK, PcRow
  <2>2. current[lowest[c]] # hand[c]
    BY <2>1, Zenon DEF ThreadInOnePlace, NowhereTwice
  <2> QED  BY <1>1, <2>2, Zenon DEF InstanceSchedule
<1>2. ASSUME NEW c \in Cores, PreemptionCallback(c) PROVE NeverReschedulesCurrent'
  <2>1. \/ panic' = panic
        \/ panic' = [panic EXCEPT ![c] = "_reschedule on an instance of another core"]
    BY <1>2, Zenon DEF PreemptionCallback, Halt
  <2> QED  BY <2>1, Zenon DEF NeverReschedulesCurrent, TypeInv, TypeOK
<1>3. ASSUME NEW c \in Cores,
             \/ ScheduleBegin(c) \/ AggregateLock(c) \/ AverageLoad(c) \/ DescheduleBegin(c)
             \/ Deschedule(c) \/ IrqLock(c) \/ SchedulingTrigger(c) \/ Fire(c)
             \/ CallbackReturn(c) \/ OperationReturn(c) \/ TriggerInterrupt(c)
             \/ TimerInterrupt(c) \/ Expire(c)
      PROVE  panic' = panic
  BY <1>3, Zenon DEF ScheduleBegin, AggregateLock, AverageLoad, DescheduleBegin, Deschedule,
              IrqLock, SchedulingTrigger, Fire, CallbackReturn, OperationReturn,
              TriggerInterrupt, TimerInterrupt, InterruptEnter, Expire
<1>4. CASE UNCHANGED vars
  BY <1>4, Zenon DEF vars, NeverReschedulesCurrent
<1>5. panic' = panic => NeverReschedulesCurrent'
  BY Zenon DEF NeverReschedulesCurrent
<1> QED  BY <1>1, <1>2, <1>3, <1>4, <1>5, Zenon DEF Next, KernelStep

\* The boot state satisfies every other part of the invariants.
LEMMA InitRest ==
    Init => /\ ThreadInOnePlace /\ EventInv /\ QueuedThreadHasEvent
            /\ NeverReschedulesCurrent /\ LockInv
<1> SUFFICES ASSUME Init PROVE /\ ThreadInOnePlace /\ EventInv /\ QueuedThreadHasEvent
                               /\ NeverReschedulesCurrent /\ LockInv
  BY Zenon
<1>1. ThreadInOnePlace
  BY ThreadsAssumption, Zenon DEF Init, ThreadInOnePlace, Somewhere, NowhereTwice
<1>2. EventInv /\ QueuedThreadHasEvent
  BY Zenon DEF Init, EventInv, OneEventPerInstance, QueuedThreadHasEvent
<1>3. NeverReschedulesCurrent
  BY Zenon DEF Init, NeverReschedulesCurrent
<1>4. LockInv
  BY NoCoreType, Zenon DEF Init, LockInv, LockRow, PoppedRow
<1> QED  BY <1>1, <1>2, <1>3, <1>4, Zenon

\* What the invariants are for, stated of one state.
LEMMA LockSafe == TypeInv /\ LockInv => NoSelfDeadlock
BY Zenon DEF TypeInv, PcOK, PcRow, LockInv, LockRow, NoSelfDeadlock

\* The initial states are those of the thread life cycle.
LEMMA InitLife == Init => Life!LifeInit /\ older \in StrictTotalOrders
BY Zenon DEF Init, Life!LifeInit

-----------------------------------------------------------------------------
(* The clock (Clock) *)

Events == [at : Nat, real : Nat, tick : Nat, id : Nat]
Ran == [id : Nat, time : Nat, real : Nat, tick : Nat]

ClockTypeOK ==
    /\ device \in {"none", "lapic", "hpet"} /\ step \in {"idle", "loop", "arm"}
    /\ elapsed \in Nat /\ clockNow \in Nat /\ lastId \in Nat
    /\ counter \in Nat /\ divisor \in Nat /\ phase \in Nat /\ lastWritten \in Nat /\ lastDivisor \in Nat
    /\ pending \subseteq Events /\ done \subseteq Ran

\* The driver's copies of the LAPIC's registers, and the divider.
CountSound ==
    /\ phase < divisor /\ counter <= lastWritten
    /\ lastDivisor = divisor \/ (counter = 0 /\ lastWritten = 0)

NoDevice == device = "none" => pending = {} /\ step = "idle" /\ ~ irq

\* The clock has not gained on real time since e was asked for, by more than
\* what the resolution of the clock then was.
OnClock(e) ==
    /\ device = "lapic" => e.real + phase + Updated + 1 <= elapsed + e.at + e.tick
    /\ device = "hpet" => e.real + 1 <= e.at + e.tick

NotAhead == \A e \in pending : OnClock(e)

ArmSound == step = "arm" => pending # {} /\ \A e \in pending : clockNow < e.at

ClockInv == ClockTypeOK /\ CountSound /\ NoDevice /\ NotAhead /\ ArmSound /\ NeverEarly

\* What the proofs use of sets of numbers; NumbersHaveLeast below shows it.
HasLeast == \A S \in SUBSET Nat : S # {} => \E x \in S : \A y \in S : x <= y

\* Min picks the least element.
LEMMA MinNat ==
    ASSUME HasLeast, NEW S \in SUBSET Nat, S # {}
    PROVE  Min(S) \in S /\ \A y \in S : Min(S) <= y
  BY Zenon DEF Min, HasLeast

\* Multiplication and one step more.
LEMMA Products ==
    ASSUME NEW n \in Nat, NEW d \in Nat
    PROVE  n * d \in Nat /\ (n + 1) * d = n * d + d
  OBVIOUS

\* Division rounds down, by less than the divisor.
LEMMA Quotients ==
    ASSUME NEW n \in Nat, NEW d \in Nat, d > 0
    PROVE  n \div d \in Nat /\ (n \div d) * d \in Nat /\ (n \div d) * d <= n /\ n + 1 <= (n \div d) * d + d
  OBVIOUS

\* The divisor is a number that one can divide by.
LEMMA DivisorType ==
    ASSUME HasLeast, NEW d \in Nat
    PROVE  DivisorFor(d) \in Nat /\ DivisorFor(d) > 0 /\ CountFor(d) \in Nat
  <1> DEFINE S == {v \in Divisors : d \div v <= LapicMax \/ v = LapicMaxDivisor}
  <1>1. LapicMaxDivisor \in S /\ LapicMax \in Nat
    BY ClockAssumption, Zenon
  <1>2. Divisors \subseteq Nat \ {0}
    BY ClockAssumption DEF Divisors
  <1>3. S \in SUBSET Nat /\ S # {} /\ S \subseteq Nat \ {0}
    BY <1>1, <1>2, Zenon
  <1>4. DivisorFor(d) = Min(S)
    BY Zenon DEF DivisorFor
  <1> HIDE DEF S
  <1>5. DivisorFor(d) \in Nat \ {0}
    BY <1>3, <1>4, MinNat, Zenon
  <1>6. d \div DivisorFor(d) + 1 \in Nat
    BY <1>5
  <1>7. CountFor(d) \in {d \div DivisorFor(d) + 1, LapicMax}
    <2> DEFINE T == {d \div DivisorFor(d) + 1, LapicMax}
    <2>1. T \in SUBSET Nat /\ T # {}
      BY <1>1, <1>6, Zenon
    <2> HIDE DEF T
    <2>2. Min(T) \in T
      BY <2>1, MinNat, Zenon
    <2> QED BY <2>2, Zenon DEF CountFor, T
  <1> QED BY <1>1, <1>5, <1>6, <1>7

\* The clock, read at any time.
LEMMA UpdatedFacts ==
    ASSUME ClockTypeOK, CountSound
    PROVE  /\ Updated \in Nat
           /\ device = "lapic" => Updated >= clockNow /\ Updated = clockNow + (lastWritten - counter) * lastDivisor
           /\ device # "lapic" => Updated <= elapsed /\ elapsed + 1 <= Updated + HpetPeriod
  <1>1. HpetPeriod \in Nat /\ HpetPeriod > 0
    BY ClockAssumption
  <1>2. CASE device = "lapic"
    <2>1. lastWritten - counter \in Nat /\ lastDivisor \in Nat /\ clockNow \in Nat
      BY DEF ClockTypeOK, CountSound
    <2>2. (lastWritten - counter) * lastDivisor \in Nat
      BY <2>1, Products, Zenon
    <2>3. Updated = clockNow + (lastWritten - counter) * lastDivisor
      BY <1>2, Zenon DEF Updated
    <2> QED BY <1>2, <2>1, <2>2, <2>3
  <1>3. CASE device # "lapic"
    <2>1. Updated = (elapsed \div HpetPeriod) * HpetPeriod /\ elapsed \in Nat
      BY <1>3, Zenon DEF Updated, RawNow, ClockTypeOK
    <2> QED BY <1>1, <1>3, <2>1, Quotients, Zenon
  <1> QED BY <1>2, <1>3, Zenon

\* The initial states satisfy the invariant.
LEMMA ClockInitInv == ClockInit => ClockInv
  BY DEF ClockInit, ClockInv, ClockTypeOK, CountSound, NoDevice, NotAhead, ArmSound, NeverEarly

\* Choosing the timer of the machine keeps the invariant.
LEMMA PickInv == ASSUME ClockInv, ClockPick PROVE ClockInv'
  <1>1. /\ device = "none" /\ device' \in {"lapic", "hpet"} /\ pending = {} /\ step = "idle"
        /\ elapsed' = elapsed /\ clockNow' = clockNow /\ counter' = counter /\ divisor' = divisor /\ phase' = phase
        /\ lastWritten' = lastWritten /\ lastDivisor' = lastDivisor /\ step' = step /\ pending' = pending
        /\ lastId' = lastId /\ done' = done
    BY Zenon DEF ClockPick, lapicVars, ClockInv, NoDevice
  <1>2. ClockTypeOK' /\ CountSound' /\ NoDevice' /\ ArmSound' /\ NeverEarly'
    BY <1>1, Zenon DEF ClockInv, ClockTypeOK, CountSound, NoDevice, ArmSound, NeverEarly
  <1>3. NotAhead'
    BY <1>1, Zenon DEF NotAhead
  <1> QED BY <1>2, <1>3, Zenon DEF ClockInv

\* Time that passes keeps the invariant: the device raises its interrupt at the tick it was set to.
LEMMA TickInv == ASSUME ClockInv, ClockTick PROVE ClockInv'
  <1>1. /\ device # "none" /\ elapsed' = elapsed + 1 /\ device' = device /\ clockNow' = clockNow /\ divisor' = divisor
        /\ lastWritten' = lastWritten /\ lastDivisor' = lastDivisor /\ step' = step /\ pending' = pending
        /\ lastId' = lastId /\ done' = done
    BY Zenon DEF ClockTick
  <1>2. /\ ClockTypeOK /\ CountSound /\ elapsed \in Nat /\ counter \in Nat /\ phase \in Nat /\ divisor \in Nat
        /\ lastWritten \in Nat /\ lastDivisor \in Nat /\ clockNow \in Nat
        /\ phase < divisor /\ counter <= lastWritten
        /\ lastDivisor = divisor \/ (counter = 0 /\ lastWritten = 0)
    BY Zenon DEF ClockInv, ClockTypeOK, CountSound
  <1>3. \/ phase' = phase /\ counter' = counter /\ (device = "lapic" => counter = 0)
        \/ phase' = phase + 1 /\ counter' = counter /\ phase + 1 < divisor /\ device = "lapic"
        \/ phase' = 0 /\ counter' = counter - 1 /\ counter # 0 /\ phase + 1 = divisor /\ device = "lapic"
    BY <1>1, <1>2 DEF ClockTick, LapicTick, HpetTick
  <1>4. phase' \in Nat /\ counter' \in Nat /\ phase' < divisor /\ counter' <= lastWritten
        /\ (lastDivisor = divisor \/ (counter' = 0 /\ lastWritten = 0))
    BY <1>2, <1>3
  <1>5. ClockTypeOK' /\ CountSound'
    BY <1>1, <1>2, <1>4 DEF ClockTypeOK, CountSound
  <1>6. NoDevice' /\ ArmSound' /\ NeverEarly'
    BY <1>1, Zenon DEF ClockInv, NoDevice, ArmSound, NeverEarly
  <1>7. device = "lapic" => Updated' \in Nat /\ phase' + Updated' <= phase + Updated + 1
    <2> SUFFICES ASSUME device = "lapic" PROVE Updated' \in Nat /\ phase' + Updated' <= phase + Updated + 1
      BY Zenon
    <2>1. Updated \in Nat /\ Updated = clockNow + (lastWritten - counter) * lastDivisor
          /\ Updated' = clockNow + (lastWritten - counter') * lastDivisor
      <3>1. Updated' = clockNow' + (lastWritten' - counter') * lastDivisor'
        BY <1>1, Zenon DEF Updated
      <3> QED BY <1>1, <1>2, <3>1, UpdatedFacts, Zenon
    <2>2. CASE counter' = counter
      <3>1. Updated' = Updated
        BY <2>1, <2>2, Zenon
      <3> QED BY <1>2, <1>3, <2>1, <2>2, <3>1
    <2>3. CASE phase' = 0 /\ counter' = counter - 1 /\ counter # 0 /\ phase + 1 = divisor
      <3>1. lastDivisor = divisor /\ lastWritten - counter \in Nat /\ lastWritten - counter' = (lastWritten - counter) + 1
        BY <1>2, <2>3
      <3>2. Updated' = Updated + lastDivisor
        <4>1. (lastWritten - counter') * lastDivisor = (lastWritten - counter) * lastDivisor + lastDivisor
              /\ (lastWritten - counter) * lastDivisor \in Nat
          BY <1>2, <3>1, Products, Zenon
        <4> QED BY <1>2, <2>1, <4>1
      <3> QED BY <1>2, <2>1, <2>3, <3>1, <3>2
    <2> QED BY <1>3, <2>2, <2>3, Zenon
  <1>8. NotAhead'
    <2> SUFFICES ASSUME NEW e \in pending PROVE OnClock(e)'
      BY <1>1, Zenon DEF NotAhead
    <2>1. OnClock(e) /\ e.real \in Nat /\ e.at \in Nat /\ e.tick \in Nat
      BY Zenon DEF ClockInv, NotAhead, ClockTypeOK, Events
    <2>2. Updated \in Nat
      BY <1>2, UpdatedFacts, Zenon
    <2>3. device = "lapic" => e.real + phase' + Updated' + 1 <= elapsed' + e.at + e.tick
      BY <1>1, <1>2, <1>4, <1>7, <2>1, <2>2 DEF OnClock
    <2> QED BY <1>1, <2>1, <2>3, Zenon DEF OnClock
  <1> QED BY <1>5, <1>6, <1>8, Zenon DEF ClockInv

\* Reading the counter into _now changes nothing about the clock.
LEMMA UpdateKeeps ==
    ASSUME ClockTypeOK, CountSound, UpdateNow, device' = device, elapsed' = elapsed, counter' = counter,
           divisor' = divisor, phase' = phase, lastDivisor' = lastDivisor
    PROVE  /\ clockNow' = Updated /\ clockNow' \in Nat /\ lastWritten' \in Nat /\ Updated' = Updated /\ CountSound'
  <1>1. Updated \in Nat /\ counter \in Nat /\ lastWritten \in Nat /\ lastDivisor \in Nat
    BY UpdatedFacts, Zenon DEF ClockTypeOK
  <1>2. clockNow' = Updated /\ lastWritten' = IF device = "lapic" THEN counter ELSE lastWritten
    BY Zenon DEF UpdateNow
  <1>3. CASE device = "lapic"
    <2>1. Updated' = clockNow' + (lastWritten' - counter') * lastDivisor'
      BY <1>3, Zenon DEF Updated
    <2>2. lastWritten' - counter' = 0 /\ 0 * lastDivisor = 0
      BY <1>1, <1>2, <1>3
    <2>3. Updated' = Updated
      BY <1>1, <1>2, <2>1, <2>2
    <2> QED BY <1>1, <1>2, <1>3, <2>3 DEF CountSound
  <1>4. CASE device # "lapic"
    BY <1>1, <1>2, <1>4, Zenon DEF Updated, RawNow, CountSound
  <1> QED BY <1>3, <1>4, Zenon

\* timer::_do queues an event at a time counted from a clock that it has just updated.
LEMMA DoInv == ASSUME ClockInv, ClockDo PROVE ClockInv'
  <1>1. /\ device # "none" /\ step = "idle" /\ UpdateNow /\ step' = "loop" /\ lastId' = lastId + 1
        /\ device' = device /\ elapsed' = elapsed /\ counter' = counter /\ divisor' = divisor /\ phase' = phase
        /\ lastDivisor' = lastDivisor /\ done' = done
    BY Zenon DEF ClockDo
  <1>2. ClockTypeOK /\ CountSound
    BY Zenon DEF ClockInv
  <1>3. clockNow' = Updated /\ clockNow' \in Nat /\ lastWritten' \in Nat /\ Updated' = Updated /\ CountSound'
    BY <1>1, <1>2, UpdateKeeps, Zenon
  <1>4. PICK d \in ClockDurations :
            pending' = pending \cup {[at |-> Updated + d, real |-> elapsed + d, tick |-> TickNow, id |-> lastId + 1]}
    BY Zenon DEF ClockDo
  <1> DEFINE new == [at |-> Updated + d, real |-> elapsed + d, tick |-> TickNow, id |-> lastId + 1]
  <1>5. HpetPeriod \in Nat /\ d \in Nat
    BY ClockAssumption, Zenon
  <1>6. /\ elapsed \in Nat /\ lastId \in Nat /\ divisor \in Nat /\ phase \in Nat /\ phase < divisor /\ Updated \in Nat
        /\ device # "lapic" => elapsed + 1 <= Updated + HpetPeriod
    BY <1>2, UpdatedFacts, Zenon DEF ClockTypeOK, CountSound
  <1>7. TickNow \in Nat /\ (device = "hpet" => TickNow = HpetPeriod) /\ (device = "lapic" => TickNow = divisor)
    BY <1>5, <1>6, Zenon DEF TickNow
  <1>8. new \in Events /\ new.at = Updated + d /\ new.real = elapsed + d /\ new.tick = TickNow
    BY <1>5, <1>6, <1>7 DEF Events
  <1> HIDE DEF new
  <1>9. ClockTypeOK'
    BY <1>1, <1>2, <1>3, <1>4, <1>6, <1>8 DEF ClockTypeOK, new
  <1>10. NoDevice' /\ ArmSound' /\ NeverEarly'
    BY <1>1, Zenon DEF ClockInv, NoDevice, ArmSound, NeverEarly
  <1>11. NotAhead'
    <2> SUFFICES ASSUME NEW e \in pending' PROVE OnClock(e)'
      BY Zenon DEF NotAhead
    <2>1. CASE e \in pending
      BY <1>1, <1>3, <2>1, Zenon DEF ClockInv, NotAhead, OnClock
    <2>2. CASE e = new
      <3>1. device = "lapic" => e.real + phase + Updated + 1 <= elapsed + e.at + e.tick
        BY <1>5, <1>6, <1>7, <1>8, <2>2
      <3>2. device = "hpet" => e.real + 1 <= e.at + e.tick
        BY <1>5, <1>6, <1>7, <1>8, <2>2
      <3> QED BY <1>1, <1>3, <3>1, <3>2, Zenon DEF OnClock
    <2> QED BY <1>4, <2>1, <2>2, Zenon DEF new
  <1> QED BY <1>3, <1>9, <1>10, <1>11, Zenon DEF ClockInv

\* The interrupt starts the loop over the events.
LEMMA InterruptInv == ASSUME ClockInv, ClockInterrupt PROVE ClockInv'
  <1>1. /\ irq /\ step = "idle" /\ step' = "loop" /\ device' = device
        /\ elapsed' = elapsed /\ clockNow' = clockNow /\ counter' = counter /\ divisor' = divisor /\ phase' = phase
        /\ lastWritten' = lastWritten /\ lastDivisor' = lastDivisor /\ pending' = pending
        /\ lastId' = lastId /\ done' = done
    BY Zenon DEF ClockInterrupt, lapicVars
  <1> QED BY <1>1, Zenon DEF ClockInv, ClockTypeOK, CountSound, NoDevice, NotAhead, OnClock, Updated, RawNow, ArmSound, NeverEarly

\* Event e runs.
LEMMA RunsInTime ==
    ASSUME ClockInv, NEW e \in Due
    PROVE  /\ [id |-> e.id, time |-> elapsed, real |-> e.real, tick |-> e.tick] \in Ran
           /\ elapsed + e.tick > e.real
  <1>1. e \in pending /\ e.at <= Updated
    BY Zenon DEF Due
  <1>2. OnClock(e) /\ e.real \in Nat /\ e.at \in Nat /\ e.tick \in Nat /\ e.id \in Nat /\ elapsed \in Nat /\ phase \in Nat
    BY <1>1, Zenon DEF ClockInv, NotAhead, ClockTypeOK, Events
  <1>3. Updated \in Nat /\ (device # "lapic" => Updated <= elapsed) /\ device \in {"lapic", "hpet"}
    BY <1>1, UpdatedFacts, Zenon DEF ClockInv, NoDevice, ClockTypeOK
  <1>4. elapsed + e.tick > e.real
    <2>1. CASE device = "lapic"
      BY <1>1, <1>2, <1>3, <2>1 DEF OnClock
    <2>2. CASE device = "hpet"
      BY <1>1, <1>2, <1>3, <2>2 DEF OnClock
    <2> QED BY <1>3, <2>1, <2>2, Zenon
  <1> QED BY <1>2, <1>4, Zenon DEF Ran

\* The loop runs an event only when the time it has just read has reached it.
LEMMA LoopInv == ASSUME ClockInv, ClockLoop PROVE ClockInv'
  <1>1. /\ step = "loop" /\ UpdateNow
        /\ device' = device /\ elapsed' = elapsed /\ counter' = counter /\ divisor' = divisor /\ phase' = phase
        /\ lastDivisor' = lastDivisor /\ lastId' = lastId
    BY Zenon DEF ClockLoop
  <1>2. ClockTypeOK /\ CountSound
    BY Zenon DEF ClockInv
  <1>3. clockNow' = Updated /\ clockNow' \in Nat /\ lastWritten' \in Nat /\ Updated' = Updated /\ CountSound'
    BY <1>1, <1>2, UpdateKeeps, Zenon
  <1>4. pending' \subseteq pending /\ step' \in {"idle", "loop", "arm"}
    BY <1>1, Zenon DEF ClockLoop
  <1>5. NotAhead'
    BY <1>1, <1>3, <1>4, Zenon DEF ClockInv, NotAhead, OnClock
  <1>6. NoDevice'
    <2>1. device # "none"
      BY <1>1, Zenon DEF ClockInv, NoDevice
    <2> QED BY <1>1, <2>1, Zenon DEF NoDevice
  <1>7. CASE Due = {}
    <2>1. step' = (IF pending = {} THEN "idle" ELSE "arm") /\ pending' = pending /\ done' = done
      BY <1>7, Zenon DEF ClockLoop
    <2>2. ArmSound'
      <3>1. \A e \in pending : Updated < e.at
        <4>1. Updated \in Nat /\ \A e \in pending : e.at \in Nat
          BY <1>2, UpdatedFacts, Zenon DEF ClockTypeOK, Events
        <4> QED BY <1>7, <4>1 DEF Due
      <3> QED BY <1>3, <2>1, <3>1, Zenon DEF ArmSound
    <2>3. ClockTypeOK' /\ NeverEarly'
      BY <1>1, <1>2, <1>3, <1>4, <2>1, Zenon DEF ClockTypeOK, NeverEarly, ClockInv
    <2> QED BY <1>3, <1>5, <1>6, <2>2, <2>3, Zenon DEF ClockInv
  <1>8. CASE Due # {}
    <2>1. PICK e \in Due : done' = done \cup {[id |-> e.id, time |-> elapsed, real |-> e.real, tick |-> e.tick]} /\ step' = step
      BY <1>8, Zenon DEF ClockLoop
    <2> DEFINE run == [id |-> e.id, time |-> elapsed, real |-> e.real, tick |-> e.tick]
    <2>2. run \in Ran /\ run.time + run.tick > run.real
      BY RunsInTime, Zenon
    <2> HIDE DEF run
    <2>3. ClockTypeOK' /\ NeverEarly'
      BY <1>1, <1>2, <1>3, <1>4, <2>1, <2>2, Zenon DEF ClockTypeOK, NeverEarly, ClockInv, run
    <2>4. ArmSound'
      BY <1>1, <2>1, Zenon DEF ArmSound
    <2> QED BY <1>3, <1>5, <1>6, <2>3, <2>4, Zenon DEF ClockInv
  <1> QED BY <1>7, <1>8, Zenon

\* Arming the device asks for the time of the next event, or for less.
LEMMA ArmInv == ASSUME HasLeast, ClockInv, ClockArm PROVE ClockInv'
  <1> DEFINE d == Min({e.at : e \in pending}) - clockNow
  <1>1. /\ step = "arm" /\ OneShotAfter(d) /\ step' = "idle" /\ device' = device /\ elapsed' = elapsed
        /\ clockNow' = clockNow /\ pending' = pending /\ lastId' = lastId /\ done' = done
    BY Zenon DEF ClockArm
  <1>2. ClockTypeOK /\ CountSound /\ clockNow \in Nat /\ elapsed \in Nat
    BY Zenon DEF ClockInv, ClockTypeOK
  <1>3. d \in Nat
    <2> DEFINE S == {e.at : e \in pending}
    <2>1. S \in SUBSET Nat /\ S # {} /\ \A n \in S : clockNow < n
      BY <1>1 DEF ClockInv, ArmSound, ClockTypeOK, Events
    <2> HIDE DEF S
    <2>2. Min(S) \in S
      BY <2>1, MinNat, Zenon
    <2>3. Min(S) \in Nat /\ clockNow < Min(S)
      BY <2>1, <2>2, Zenon
    <2> QED BY <1>2, <2>3 DEF S
  <1> HIDE DEF d
  <1>4. DivisorFor(d) \in Nat /\ DivisorFor(d) > 0 /\ CountFor(d) \in Nat
    BY <1>3, DivisorType, Zenon
  <1>5. NoDevice' /\ ArmSound' /\ NeverEarly'
    BY <1>1, Zenon DEF ClockInv, NoDevice, ArmSound, NeverEarly
  <1>6. CASE device = "lapic"
    <2>1. /\ divisor' = DivisorFor(d) /\ lastDivisor' = DivisorFor(d)
          /\ counter' = CountFor(d) /\ lastWritten' = CountFor(d) /\ phase' = 0
      BY <1>1, <1>6, Zenon DEF OneShotAfter
    <2>2. ClockTypeOK' /\ CountSound'
      BY <1>1, <1>2, <1>4, <2>1 DEF ClockTypeOK, CountSound
    <2>3. Updated' = clockNow
      <3>1. Updated' = clockNow' + (lastWritten' - counter') * lastDivisor'
        BY <1>1, <1>6, Zenon DEF Updated
      <3>2. lastWritten' - counter' = 0 /\ 0 * lastDivisor' = 0
        BY <1>4, <2>1
      <3> QED BY <1>1, <1>2, <3>1, <3>2
    <2>4. NotAhead'
      <3> SUFFICES ASSUME NEW e \in pending PROVE OnClock(e)'
        BY <1>1, Zenon DEF NotAhead
      <3>1. e.real + phase + Updated + 1 <= elapsed + e.at + e.tick
            /\ e.real \in Nat /\ e.at \in Nat /\ e.tick \in Nat /\ phase \in Nat
        BY <1>6, Zenon DEF ClockInv, NotAhead, ClockTypeOK, Events, OnClock
      <3>2. Updated \in Nat /\ Updated >= clockNow
        BY <1>2, <1>6, UpdatedFacts, Zenon
      <3>3. e.real + 0 + clockNow + 1 <= elapsed + e.at + e.tick
        BY <1>2, <3>1, <3>2
      <3> QED BY <1>1, <1>6, <2>1, <2>3, <3>3, Zenon DEF OnClock
    <2> QED BY <1>5, <2>2, <2>4, Zenon DEF ClockInv
  <1>7. CASE device # "lapic"
    <2>1. counter' = counter /\ divisor' = divisor /\ phase' = phase /\ lastWritten' = lastWritten /\ lastDivisor' = lastDivisor
      BY <1>1, <1>7, Zenon DEF OneShotAfter, lapicVars
    <2>2. ClockTypeOK' /\ CountSound'
      BY <1>1, <1>2, <2>1, Zenon DEF ClockTypeOK, CountSound
    <2>3. NotAhead'
      BY <1>1, <1>7, Zenon DEF ClockInv, NotAhead, OnClock
    <2> QED BY <1>5, <2>2, <2>3, Zenon DEF ClockInv
  <1> QED BY <1>6, <1>7, Zenon

\* Nothing happens.
LEMMA ClockStutter == ASSUME ClockInv, UNCHANGED clockVars PROVE ClockInv'
  BY Zenon DEF clockVars, ClockInv, ClockTypeOK, CountSound, NoDevice, NotAhead, OnClock, Updated, RawNow, ArmSound, NeverEarly

\* Every step keeps the invariant.
LEMMA ClockStep == ASSUME HasLeast, ClockInv, [ClockNext]_clockVars PROVE ClockInv'
  BY PickInv, TickInv, DoInv, InterruptInv, LoopInv, ArmInv, ClockStutter, Zenon DEF ClockNext

\* An element without a smaller one is the least.
LEMMA LeastOfNumbers ==
    ASSUME NEW S \in SUBSET Nat, NEW R, R = {p \in Nat \X Nat : p[1] < p[2]},
           \E x \in S : \A y \in S : ~(<<y, x>> \in R)
    PROVE  \E x \in S : \A y \in S : x <= y
  <1>1. \A x, y \in Nat : <<y, x>> \in R <=> y < x
    BY Zenon
  <1>2. PICK x \in S : \A y \in S : ~(<<y, x>> \in R)
    BY Zenon
  <1>3. ASSUME NEW y \in S PROVE x <= y
    <2>1. x \in Nat /\ y \in Nat /\ ~(<<y, x>> \in R)
      BY <1>2, Zenon
    <2>2. ~(y < x)
      BY <1>1, <2>1, Zenon
    <2> QED BY <2>1, <2>2
  <1> QED BY <1>3, Zenon

-----------------------------------------------------------------------------
(* Results.  The counting and the least elements that the steps above take *)
(* as assumptions are shown here, from the theorems of the library.        *)

INSTANCE FiniteSetTheorems
INSTANCE WellFoundedInduction

\* Threads is finite, so every queue can be counted.
LEMMA MaxLoadType == LoadsCounted
<1>1. IsFiniteSet(Threads) /\ Cardinality(Threads) \in Nat
  BY ThreadsAssumption, FS_CardinalityType, Zenon
<1>2. ASSUME NEW q \in SUBSET Threads
      PROVE  Cardinality(q) \in Nat /\ Cardinality(q) <= Cardinality(Threads)
  BY <1>1, FS_Subset, FS_CardinalityType, Zenon
<1> QED  BY <1>1, <1>2, CountedIf, Zenon

\* The typing invariant is the ground of every theorem below.
LEMMA TypeAlways == Spec => []TypeInv
<1>1. Init => TypeInv
  BY InitType, MaxLoadType, Zenon
<1>2. TypeInv /\ [Next]_vars => TypeInv'
  BY NextType, MaxLoadType, Zenon
<1> QED  BY <1>1, <1>2, PTL DEF Spec

\* Type correctness: no order of system calls, interrupts and timer expiries
\* makes a field, a local variable or a lock hold what it cannot hold.
THEOREM TypeCorrect == Spec => []TypeOK
BY TypeAlways, PTL DEF TypeInv

\* A thread is never lost and never in two places, on any number of cores.
THEOREM PlacesCorrect == Spec => []ThreadInOnePlace
BY InitRest, TypeAlways, NextPlaces, PTL DEF Spec

\* The invariant on preemption events, for the theorems that rest on it.
LEMMA EventsAlways == Spec => []EventInv
BY InitRest, TypeAlways, NextEvents, PTL DEF Spec

\* Cancelling before arming works across cores: an instance never has two
\* valid preemption events, whichever cores armed them.
THEOREM EventsCorrect == Spec => []OneEventPerInstance
BY EventsAlways, PTL DEF EventInv

\* The panic of instance::schedule about the current thread is unreachable.
THEOREM NeverReschedules == Spec => []NeverReschedulesCurrent
BY InitRest, TypeAlways, NextPanic, PlacesCorrect, PTL DEF Spec

\* No preemption is lost: as long as threads are queued on an instance, some
\* timer holds a valid event for it or its callback is about to run.
THEOREM PreemptionNotLost == Spec => []QueuedThreadHasEvent
BY InitRest, TypeAlways, EventsAlways, NextQueued, PTL DEF Spec

\* If the kernel is prompt, the timer callbacks run inside schedule,
\* deschedule and scheduling_trigger never spin on a lock of their own core.
THEOREM NoSelfDeadlockCorrect ==
    ASSUME Prompt
    PROVE  Spec => []NoSelfDeadlock
<1>1. TypeInv /\ EventInv /\ LockInv /\ [Next]_vars => LockInv'
  BY NextLock, Zenon
<1> QED  BY <1>1, InitRest, LockSafe, TypeAlways, EventsAlways, PTL DEF Spec

\* The scheduler, with all its queues, locks, timers and IPIs, implements the
\* three-state thread life cycle, for any number of cores and threads.
THEOREM Refinement == Spec => ImplementsThreadLife
BY InitLife, TypeAlways, NextLife, PlacesCorrect, PTL
   DEF Spec, ImplementsThreadLife, Life!LifeSpec

\* A core that starts a queued thread starts the one with the oldest time
\* stamp, under the lock of its instance, and never changes what another core
\* runs (instance::_reschedule and deschedule of types.cpp).
THEOREM OldestFirst == Spec => DispatchesOldest
<1>3. TypeInv /\ ThreadInOnePlace /\ older \in StrictTotalOrders /\ [Next]_vars
        => (older \in StrictTotalOrders)' /\ [\A c \in Cores : Dispatched(c)]_vars
  BY NextOldest, Zenon
<1>4. Spec => [][\A c \in Cores : Dispatched(c)]_vars
  BY <1>3, InitLife, TypeAlways, PlacesCorrect, PTL DEF Spec
<1> QED  BY <1>4, Zenon DEF DispatchesOldest, Dispatched

\* Every set of numbers that is not empty has a least element.
LEMMA NumbersHaveLeast == HasLeast
  <1> SUFFICES ASSUME NEW S \in SUBSET Nat, S # {} PROVE \E x \in S : \A y \in S : x <= y
    BY Zenon DEF HasLeast
  <1> DEFINE R == {p \in Nat \X Nat : p[1] < p[2]}
  <1>1. IsWellFoundedOn(R, Nat)
    BY NatLessThanWellFounded, Zenon DEF OpToRel
  <1>2. PICK r : r = R
    BY Zenon
  <1>3. IsWellFoundedOn(r, Nat)
    BY <1>1, <1>2, Zenon
  <1>4. \E x \in S : \A y \in S : ~(<<y, x>> \in r)
    <2> HIDE DEF R
    <2> QED BY <1>3, WFMin, Zenon
  <1> QED BY <1>2, <1>4, LeastOfNumbers, Zenon

\* No event runs before its time has passed, on the timer of the LAPIC with any
\* divisor and on an HPET comparator of any period: what update_now counts never
\* runs ahead of the time that passes, with counts rounded down and timers set
\* again before they expire (_update_now and _one_shot_after of lapic.cpp and
\* hpet.cpp, and timer::_schedule_next).
THEOREM EventsNeverEarly == ClockSpec => []NeverEarly
  <1>1. ClockInv /\ [ClockNext]_clockVars => ClockInv'
    BY NumbersHaveLeast, ClockStep, Zenon
  <1>2. ClockInv => NeverEarly
    BY Zenon DEF ClockInv
  <1> QED BY ClockInitInv, <1>1, <1>2, PTL DEF ClockSpec
=============================================================================
