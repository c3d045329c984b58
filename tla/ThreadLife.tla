----------------------------- MODULE ThreadLife -----------------------------
(***************************************************************************)
(* What the scheduler promises, without timestamps, locks, timers or IPIs. *)
(* A thread is blocked, or ready on one core, or running on one core.      *)
(* Each core runs one thread or its idle thread, and gives a thread up     *)
(* only for another one that is ready on it, or because the thread blocks. *)
(* A ready thread never changes cores.                                     *)
(***************************************************************************)
CONSTANTS Cores, Threads, Idle

VARIABLES
    running,    \* core -> the thread it executes, or Idle
    runnable    \* core -> the threads that wait for it

lifeVars == <<running, runnable>>

Blocked == Threads \ UNION {runnable[c] \cup {running[c]} : c \in Cores}

LifeInit ==
    /\ running = [c \in Cores |-> Idle]
    /\ runnable = [c \in Cores |-> {}]

\* Core c goes on with t; `back' is what becomes of its previous thread.
SwitchTo(c, t, back) ==
    /\ t \in runnable[c] \cup back \/ (t = Idle /\ runnable[c] \cup back = {})
    /\ running' = [running EXCEPT ![c] = t]
    /\ runnable' = [runnable EXCEPT ![c] = (@ \cup back) \ {t}]

\* scheduler::schedule
Wake(c, t) ==
    /\ runnable' = [runnable EXCEPT ![c] = @ \cup {t}]
    /\ UNCHANGED running

\* instance::_reschedule, from the preemption timer
Preempt(c, t) == SwitchTo(c, t, {running[c]} \ {Idle})

\* instance::deschedule
Block(c, t) ==
    /\ running[c] # Idle
    /\ SwitchTo(c, t, {})

LifeNext ==
    \E c \in Cores :
        \/ \E t \in Blocked : Wake(c, t)
        \/ \E t \in Threads \cup {Idle} : Preempt(c, t) \/ Block(c, t)

LifeSpec == LifeInit /\ [][LifeNext]_lifeVars
=============================================================================
