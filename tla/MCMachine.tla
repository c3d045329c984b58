----------------------------- MODULE MCMachine -----------------------------
(***************************************************************************)
(* What the kernel does with the processors, the frames, the locks of an   *)
(* address space and the timers of a running machine, for TLC.  The        *)
(* components share no state that they model, so a behaviour is one of any *)
(* of them, and `focus` says of which.                                     *)
(***************************************************************************)
EXTENDS Pmm, IpiQueue, VasLocks, Clock, Context

VARIABLE focus      \* the component that runs

\* Pmm: frames of three sizes, two of the smallest.
MCFrames == << <<1, 2>>, <<11>>, <<21>> >>

MCCores == 1..2

\* VasLocks: a process, its parent, which made two of its mappings, and another one.
MCVasCores == {"own", "parent", "other"}
MCMappings == 1..3
MCHolder == <<"parent", "parent", "own">>

MCInit ==
    /\ focus \in {"pmm", "ipi", "locks", "clock", "context"}
    /\ PmmInit /\ IpiInit /\ VlInit /\ ClockInit /\ CtxInit

Only(c) ==
    /\ focus = c /\ focus' = focus
    /\ c # "pmm" => UNCHANGED pmmVars
    /\ c # "ipi" => UNCHANGED ipiVars
    /\ c # "locks" => UNCHANGED vlVars
    /\ c # "clock" => UNCHANGED clockVars
    /\ c # "context" => UNCHANGED ctxVars

MCNext ==
    \/ Only("pmm") /\ PmmNext
    \/ Only("ipi") /\ IpiNext
    \/ Only("locks") /\ VlNext
    \/ Only("clock") /\ ClockNext
    \/ Only("context") /\ CtxNext

mcVars == <<focus, pmmVars, ipiVars, vlVars, clockVars, ctxVars>>

\* The processors run, interrupts that are raised arrive, and time passes; no
\* behaviour of these four components is infinite.
MCSpec ==
    /\ MCInit /\ [][MCNext]_mcVars
    /\ WF_mcVars(Only("pmm") /\ PmmNext) /\ WF_mcVars(Only("ipi") /\ IpiNext) /\ WF_mcVars(Only("clock") /\ ClockNext)
    /\ \A c \in MCVasCores : WF_mcVars(Only("locks") /\ VlKernel(c))

\* What a core begins in the kernel ends: pop and push take their locks in one
\* order and release them, parallel_execute sees every core count itself off,
\* and system calls get past the locks of the address space and its mappings,
\* but for the waits without an end that each of the three names.
CallsEnd == PopEnds /\ CallReturns /\ VasCallsReturn
=============================================================================
