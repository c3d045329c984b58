--------------------------------- MODULE Pmm ---------------------------------
(***************************************************************************)
(* The physical memory manager at run time: pmm::pop and pmm::push, called *)
(* by several cores.  Each layer has a stack of free frames, linked        *)
(* through their first words, under a lock of its own.                     *)
(*                                                                         *)
(* pop on an empty layer keeps the layer's lock, pops a frame of the next  *)
(* layer and calls pmm::push for its parts, which waits for the same       *)
(* (non-recursive) lock: the core never leaves that wait ("self").  The    *)
(* counters that only report() reads are left out.                         *)
(***************************************************************************)
EXTENDS Naturals, Sequences, FiniteSets, Functions

CONSTANTS
    PmmCores, PmmNobody,
    PmmFrames,          \* the free frames of each layer at the start, a sequence of sequences
    PmmMaxCalls         \* bound on the calls of one core

ASSUME PmmAssumption ==
    /\ PmmNobody \notin PmmCores
    /\ PmmFrames \in Seq(Seq(Nat))
    /\ \A l \in DOMAIN PmmFrames : IsInjective(PmmFrames[l])

VARIABLES
    stack,      \* layer -> the list of its free frames
    layerLock,  \* layer -> the core that holds the lock
    popping,    \* core -> the layers of its nested calls of instance::pop, innermost first
    pmmAt,      \* core -> "out", "wait", "in", "read", "self", "push" or "link"
    ret,        \* core -> the list whose first frame pop has read, or the frame to push
    taken,      \* core -> the frames it holds: <<layer, frame>>
    pmmCalls,   \* core -> the calls it has made
    pmmPanic

pmmVars == <<stack, layerLock, popping, pmmAt, ret, taken, pmmCalls, pmmPanic>>

Layers == DOMAIN PmmFrames

PmmInit ==
    /\ stack = PmmFrames
    /\ layerLock = [l \in Layers |-> PmmNobody]
    /\ popping = [c \in PmmCores |-> << >>]
    /\ pmmAt = [c \in PmmCores |-> "out"]
    /\ ret = [c \in PmmCores |-> << >>]
    /\ taken = [c \in PmmCores |-> {}]
    /\ pmmCalls = [c \in PmmCores |-> 0]
    /\ pmmPanic = FALSE

Calls(c) ==
    /\ pmmAt[c] = "out" /\ ~ pmmPanic /\ pmmCalls[c] < PmmMaxCalls
    /\ pmmCalls' = [pmmCalls EXCEPT ![c] = @ + 1]

PmmPop(c) ==
    /\ Calls(c)
    /\ \E l \in Layers : popping' = [popping EXCEPT ![c] = <<l>>]
    /\ pmmAt' = [pmmAt EXCEPT ![c] = "wait"]
    /\ UNCHANGED <<stack, layerLock, ret, taken, pmmPanic>>

\* The caller gives a frame back to the layer it had it from.
PmmPush(c) ==
    /\ Calls(c)
    /\ \E f \in taken[c] :
         /\ popping' = [popping EXCEPT ![c] = <<f[1]>>]
         /\ ret' = [ret EXCEPT ![c] = <<f[2]>>]
         /\ taken' = [taken EXCEPT ![c] = @ \ {f}]
    /\ pmmAt' = [pmmAt EXCEPT ![c] = "push"]
    /\ UNCHANGED <<stack, layerLock, pmmPanic>>

\* MUTANT of PmmLock: a lock that is held is taken too.
PmmLockTaken(c) ==
    /\ pmmAt[c] \in {"wait", "push"} /\ ~ pmmPanic
    /\ layerLock' = [layerLock EXCEPT ![Head(popping[c])] = c]
    /\ pmmAt' = [pmmAt EXCEPT ![c] = IF @ = "wait" THEN "in" ELSE "link"]
    /\ UNCHANGED <<stack, popping, ret, taken, pmmCalls, pmmPanic>>

PmmLock(c) ==
    /\ pmmAt[c] \in {"wait", "push"} /\ ~ pmmPanic
    /\ layerLock[Head(popping[c])] = PmmNobody
    /\ layerLock' = [layerLock EXCEPT ![Head(popping[c])] = c]
    /\ pmmAt' = [pmmAt EXCEPT ![c] = IF @ = "wait" THEN "in" ELSE "link"]
    /\ UNCHANGED <<stack, popping, ret, taken, pmmCalls, pmmPanic>>

\* An empty layer: the next one is popped, or there is none.
PmmEmpty(c) ==
    /\ pmmAt[c] = "in" /\ stack[Head(popping[c])] = << >> /\ ~ pmmPanic
    /\ IF Head(popping[c]) = Len(PmmFrames)
       THEN pmmPanic' = TRUE /\ UNCHANGED <<popping, pmmAt>>
       ELSE /\ popping' = [popping EXCEPT ![c] = <<Head(@) + 1>> \o @]
            /\ pmmAt' = [pmmAt EXCEPT ![c] = "wait"]
            /\ UNCHANGED pmmPanic
    /\ UNCHANGED <<stack, layerLock, ret, taken, pmmCalls>>

PmmRead(c) ==
    /\ pmmAt[c] = "in" /\ stack[Head(popping[c])] # << >> /\ ~ pmmPanic
    /\ ret' = [ret EXCEPT ![c] = stack[Head(popping[c])]]
    /\ pmmAt' = [pmmAt EXCEPT ![c] = "read"]
    /\ UNCHANGED <<stack, layerLock, popping, taken, pmmCalls, pmmPanic>>

Unlocked(c) == [layerLock EXCEPT ![Head(popping[c])] = PmmNobody]

\* The frame leaves the list; a nested pop goes on with the parts of the frame.
PmmTake(c) ==
    /\ pmmAt[c] = "read" /\ ~ pmmPanic
    /\ stack' = [stack EXCEPT ![Head(popping[c])] = Tail(ret[c])]
    /\ layerLock' = Unlocked(c)
    /\ taken' = [taken EXCEPT ![c] = @ \cup {<<Head(popping[c]), Head(ret[c])>>}]
    /\ popping' = [popping EXCEPT ![c] = Tail(@)]
    /\ pmmAt' = [pmmAt EXCEPT ![c] = IF Len(popping[c]) = 1 THEN "out" ELSE "self"]
    /\ UNCHANGED <<ret, pmmCalls, pmmPanic>>

PmmLink(c) ==
    /\ pmmAt[c] = "link" /\ ~ pmmPanic
    /\ stack' = [stack EXCEPT ![Head(popping[c])] = ret[c] \o @]
    /\ layerLock' = Unlocked(c)
    /\ popping' = [popping EXCEPT ![c] = << >>]
    /\ pmmAt' = [pmmAt EXCEPT ![c] = "out"]
    /\ UNCHANGED <<ret, taken, pmmCalls, pmmPanic>>

PmmNext ==
    \E c \in PmmCores :
        PmmPop(c) \/ PmmPush(c) \/ PmmLock(c) \/ PmmEmpty(c) \/ PmmRead(c) \/ PmmTake(c) \/ PmmLink(c)

PmmSpec == PmmInit /\ [][PmmNext]_pmmVars

-----------------------------------------------------------------------------
(* No frame is in two hands: a frame is once in the stack of its layer,    *)
(* or with the one core that popped it, or on its way back.                *)
FrameInOneHand ==
    /\ \A l \in Layers : IsInjective(stack[l])
    /\ \A c \in PmmCores : \A f \in taken[c] :
         /\ f[2] \notin Range(stack[f[1]])
         /\ \A d \in PmmCores \ {c} : f \notin taken[d]

(* Calls of pop and push end: the locks of the layers are taken in one     *)
(* order, and what keeps a core waiting for ever is only a layer that ran  *)
(* empty, on its own core or on another.                                   *)
PopEnds ==
    \A c \in PmmCores :
        (pmmAt[c] \in {"wait", "push"}) ~> (pmmAt[c] = "out" \/ pmmPanic \/ \E d \in PmmCores : pmmAt[d] = "self")
=============================================================================
