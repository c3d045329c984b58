------------------------------- MODULE Clock --------------------------------
(***************************************************************************)
(* A core's timer (kernel/time/time.cpp) on the hardware under it: the     *)
(* LAPIC's down-counter (kernel/arch/amd64/timers/lapic.cpp) or a          *)
(* comparator of the HPET (hpet.cpp).                                      *)
(*                                                                         *)
(* The unit of time is a tick of the LAPIC with divisor 1; the HPET's      *)
(* counter has a period of HpetPeriod of them, and time is read with its   *)
(* resolution.  Writing the LAPIC's counter restarts its divider.  Ticks   *)
(* pass between any two steps of the code; at most ClockLatency of them    *)
(* before an interrupt is taken and before the code goes on.  Callbacks    *)
(* arm no new event here (the scheduler's do: see Scheduler).              *)
(***************************************************************************)
EXTENDS Naturals, FiniteSetsExt

CONSTANTS
    LapicMax,           \* the largest value of the LAPIC's counter
    LapicMaxDivisor,    \* the largest divisor, a power of two
    HpetPeriod,
    ClockDurations,     \* durations of events
    ClockMaxEvents,     \* bound on the number of events
    ClockLatency,
    ClockRequests,      \* events are asked for before this time
    ClockEnd            \* the model's time ends here

VARIABLES
    device,         \* "none", "lapic" or "hpet"
    elapsed,        \* real time
    clockNow,       \* _now
    counter,        \* the LAPIC's counter and divisor, and the ticks since it last counted
    divisor,
    phase,
    lastWritten,    \* _last_written and _last_divisor
    lastDivisor,
    comparator,     \* the HPET's comparator
    irq,            \* the timer's interrupt is pending
    step,           \* "idle", "loop" or "arm"
    delay,          \* ticks the interrupt or the code has been waiting
    pending,        \* the heap: [at, real, tick, id], when it is due on the clock and in real time,
                    \* and the clock's resolution when it was asked for
    lastId,         \* _next_id
    done            \* events that ran: [id, time, real, tick]

\* The LAPIC divides by a power of two.
Divisors == {2 ^ i : i \in 0 .. LapicMaxDivisor} \cap 1 .. LapicMaxDivisor

ASSUME ClockAssumption ==
    /\ LapicMax \in Nat \ {0} /\ LapicMaxDivisor \in Divisors /\ HpetPeriod \in Nat \ {0}
    /\ ClockDurations \subseteq Nat

clockVars == <<device, elapsed, clockNow, counter, divisor, phase, lastWritten, lastDivisor,
               comparator, irq, step, delay, pending, lastId, done>>
lapicVars == <<counter, divisor, phase, lastWritten, lastDivisor>>

ClockInit ==
    /\ device = "none" /\ elapsed = 0 /\ clockNow = 0
    /\ counter = 0 /\ divisor = 1 /\ phase = 0 /\ lastWritten = 0 /\ lastDivisor = 0
    /\ comparator = 0 /\ irq = FALSE /\ step = "idle" /\ delay = 0
    /\ pending = {} /\ lastId = 0 /\ done = {}

ClockPick ==
    /\ device = "none"
    /\ device' \in {"lapic", "hpet"}
    /\ UNCHANGED <<elapsed, clockNow, lapicVars, comparator, irq, step, delay, pending, lastId, done>>

-----------------------------------------------------------------------------
(* The hardware *)

Waiting == irq \/ step # "idle"

LapicTick ==
    /\ comparator' = comparator
    /\ IF counter = 0 THEN UNCHANGED <<counter, phase, irq>>
       ELSE IF phase + 1 < divisor THEN phase' = phase + 1 /\ UNCHANGED <<counter, irq>>
       ELSE phase' = 0 /\ counter' = counter - 1 /\ irq' = (irq \/ counter = 1)

\* The comparator is met, not passed.
HpetTick ==
    /\ irq' = (irq \/ (elapsed + 1) = comparator * HpetPeriod)
    /\ UNCHANGED <<counter, phase, comparator>>

ClockTick ==
    /\ device # "none" /\ elapsed < ClockEnd
    /\ pending # {} \/ elapsed < ClockRequests
    /\ Waiting => delay < ClockLatency
    /\ elapsed' = elapsed + 1 /\ delay' = IF Waiting THEN delay + 1 ELSE 0
    /\ IF device = "lapic" THEN LapicTick ELSE HpetTick
    /\ UNCHANGED <<device, clockNow, divisor, lastWritten, lastDivisor, step, pending, lastId, done>>

-----------------------------------------------------------------------------
(* The two drivers *)

RawNow == elapsed \div HpetPeriod

\* _update_now
Updated == IF device = "lapic" THEN clockNow + (lastWritten - counter) * lastDivisor
           ELSE RawNow * HpetPeriod

\* The resolution of the clock.
TickNow == IF device = "hpet" THEN HpetPeriod ELSE divisor

UpdateNow == clockNow' = Updated /\ lastWritten' = IF device = "lapic" THEN counter ELSE lastWritten

\* The divisor that the loop in _one_shot_after ends with.
DivisorFor(d) == Min({v \in Divisors : d \div v <= LapicMax \/ v = LapicMaxDivisor})

CountFor(d) == Min({d \div DivisorFor(d) + 1, LapicMax})

\* MUTANT of ComparatorFor: the duration is not added to the time.
DurationOnly(d) == d \div HpetPeriod

ComparatorFor(d) == clockNow \div HpetPeriod + d \div HpetPeriod

\* _one_shot_after.  The HPET's comparator is relative to the counter read before.
OneShotAfter(d) ==
    IF device = "lapic"
    THEN /\ divisor' = DivisorFor(d) /\ lastDivisor' = DivisorFor(d)
         /\ counter' = CountFor(d) /\ lastWritten' = CountFor(d)
         /\ phase' = 0 /\ UNCHANGED comparator
    ELSE /\ comparator' = ComparatorFor(d)
         /\ UNCHANGED lapicVars

-----------------------------------------------------------------------------
(* time::timer *)

\* _do, up to the heap.
ClockDo ==
    /\ device # "none" /\ step = "idle" /\ ~ irq /\ lastId < ClockMaxEvents /\ elapsed < ClockRequests
    /\ UpdateNow
    /\ \E d \in ClockDurations :
        pending' = pending \cup {[at |-> Updated + d, real |-> elapsed + d, tick |-> TickNow, id |-> lastId + 1]}
    /\ lastId' = lastId + 1 /\ step' = "loop" /\ delay' = 0
    /\ UNCHANGED <<device, elapsed, counter, divisor, phase, lastDivisor, comparator, irq, done>>

ClockInterrupt ==
    /\ irq /\ step = "idle"
    /\ irq' = FALSE /\ step' = "loop" /\ delay' = 0
    /\ UNCHANGED <<device, elapsed, clockNow, lapicVars, comparator, pending, lastId, done>>

Due == {e \in pending : e.at <= Updated}

\* One turn of the loop in _schedule_next.
ClockLoop ==
    /\ step = "loop"
    /\ UpdateNow
    /\ IF Due = {}
       THEN step' = (IF pending = {} THEN "idle" ELSE "arm") /\ UNCHANGED <<pending, done>>
       ELSE \E e \in Due :
            /\ \A o \in Due : e.at <= o.at
            /\ pending' = pending \ {e}
            /\ done' = done \cup {[id |-> e.id, time |-> elapsed, real |-> e.real, tick |-> e.tick]}
            /\ UNCHANGED step
    /\ delay' = 0
    /\ UNCHANGED <<device, elapsed, counter, divisor, phase, lastDivisor, comparator, irq, lastId>>

ClockArm ==
    /\ step = "arm"
    /\ OneShotAfter(Min({e.at : e \in pending}) - clockNow)
    /\ step' = "idle" /\ delay' = 0
    /\ UNCHANGED <<device, elapsed, clockNow, irq, pending, lastId, done>>

ClockNext == ClockPick \/ ClockTick \/ ClockDo \/ ClockInterrupt \/ ClockLoop \/ ClockArm

ClockSpec == ClockInit /\ [][ClockNext]_clockVars

-----------------------------------------------------------------------------
(* No event runs early by a tick of the clock it was asked on: the         *)
(* LAPIC's clock falls behind, while nothing is armed and between reading  *)
(* and writing the counter, but never gets ahead, whatever divisors its    *)
(* counter went through.                                                   *)
NeverEarly == \A e \in done : e.time + e.tick > e.real

(* An event on the LAPIC's timer always runs, also when it is further away *)
(* than the counter can count, and when another event comes first.         *)
LapicEventRuns == (device = "lapic" /\ pending # {}) ~> (pending = {})

\* The comparator was behind the counter when it was written.
Passed == step = "idle" /\ ~ irq /\ comparator <= RawNow

(* An event on the HPET runs, unless it was so near that the counter had   *)
(* passed the comparator when that was written: less than one period and   *)
(* the time the code takes was left of it.                                 *)
HpetEventRuns ==
    (device = "hpet" /\ pending # {}) ~>
        (pending = {} \/ (Passed /\ \E e \in pending : e.at < clockNow + HpetPeriod + ClockLatency))

(* An event runs, on either timer, and not before its time.                *)
EventsRunInTime == []NeverEarly /\ LapicEventRuns /\ HpetEventRuns
=============================================================================
