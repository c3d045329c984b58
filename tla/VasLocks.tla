------------------------------ MODULE VasLocks ------------------------------
(***************************************************************************)
(* The locks of one address space and of its mappings (vas.cpp,            *)
(* vmo_mapping.h), a std::mutex and a std::shared_mutex each, and the TLB  *)
(* shoot-down that unmap waits for with both of them held.                 *)
(*                                                                         *)
(* Each core runs one thread, in user space with interrupts enabled or in  *)
(* a system call with them disabled.  Core VlOwn runs the thread of the    *)
(* process that lives in the address space: pointers that it passes are    *)
(* looked up here.  The other cores run threads of processes that hold the *)
(* token of the address space or of some of its mappings.  A mapping has   *)
(* one token, so one core at a time may destroy it.                        *)
(***************************************************************************)
EXTENDS Naturals, FiniteSets

CONSTANTS
    VlCores, VlOwn, VlNone,
    VlMappings,     \* all mappings ever made
    VlHolder,       \* mapping -> the core with its token
    VlMaxPointers,  \* bound: pointers that one call passes
    VlMaxCalls      \* bound: calls with pointers

ASSUME VlAssumption == VlOwn \in VlCores /\ VlNone \notin VlCores /\ VlNone \notin VlMappings

VARIABLES
    vasLock,    \* the core that holds vas::_lock, or VlNone
    unique,     \* mapping -> the core with the unique bit of its lock, or VlNone
    shared,     \* mapping -> the readers that its lock counts
    life,       \* mapping -> "none", "valid" or "released"
    paged,      \* mappings whose pages the table has
    vlPc,       \* core -> "user" or its place in a system call
    target,     \* core -> the mapping it is about
    guards,     \* core -> the mappings its call has guards for, in order
    calls,      \* calls with pointers so far
    flushing    \* cores that have not run the shoot-down under way

vlVars == <<vasLock, unique, shared, life, paged, vlPc, target, guards, calls, flushing>>

VlInit ==
    /\ vasLock = VlNone /\ unique = [m \in VlMappings |-> VlNone] /\ shared = [m \in VlMappings |-> 0]
    /\ life = [m \in VlMappings |-> "none"] /\ paged = {}
    /\ vlPc = [c \in VlCores |-> "user"] /\ target = [c \in VlCores |-> VlNone]
    /\ guards = [c \in VlCores |-> {}] /\ calls = 0 /\ flushing = {}

At(c, from, to) == vlPc[c] = from /\ vlPc' = [vlPc EXCEPT ![c] = to]

-----------------------------------------------------------------------------
(* A system call with pointers: lock_address_range for each of them *)

\* The call begins, or goes on to its next pointer.
PointerNext(c) ==
    /\ c = VlOwn /\ Cardinality(guards[c]) < VlMaxPointers
    /\ \/ At(c, "user", "look up") /\ calls < VlMaxCalls /\ calls' = calls + 1
       \/ At(c, "body", "look up") /\ UNCHANGED calls
    /\ UNCHANGED <<vasLock, unique, shared, life, paged, target, guards, flushing>>

PointerLock(c) ==
    /\ At(c, "look up", "find") /\ vasLock = VlNone /\ vasLock' = c
    /\ UNCHANGED <<unique, shared, life, paged, target, guards, calls, flushing>>

\* The guards that a call holds are released when it returns.
Unguarded(c) ==
    /\ shared' = [m \in VlMappings |-> shared[m] - IF m \in guards[c] THEN 1 ELSE 0]
    /\ guards' = [guards EXCEPT ![c] = {}]

\* MUTANT of PointerRefused: an early return that keeps the lock.
RefusedLocked(c) ==
    /\ At(c, "find", "user") /\ Unguarded(c)
    /\ UNCHANGED <<vasLock, unique, life, paged, target, calls, flushing>>

\* Nothing is mapped there, or only to be read: invalid_pointers.
PointerRefused(c) ==
    /\ At(c, "find", "user") /\ vasLock' = VlNone /\ Unguarded(c)
    /\ UNCHANGED <<unique, life, paged, target, calls, flushing>>

\* shared_mutex::lock_shared counts the reader first.  A mapping is locked
\* once here: a second pointer into it would only count once more.
PointerFound(c) ==
    /\ At(c, "find", "spin")
    /\ \E m \in VlMappings \ guards[c] :
          /\ life[m] = "valid"
          /\ target' = [target EXCEPT ![c] = m] /\ shared' = [shared EXCEPT ![m] = @ + 1]
    /\ UNCHANGED <<vasLock, unique, life, paged, guards, calls, flushing>>

\* It spins while the unique bit is set, with the lock of the address space held.
PointerLocked(c) ==
    /\ At(c, "spin", "body") /\ unique[target[c]] = VlNone
    /\ guards' = [guards EXCEPT ![c] = @ \cup {target[c]}] /\ vasLock' = VlNone
    /\ UNCHANGED <<unique, shared, life, paged, target, calls, flushing>>

CallReturn(c) ==
    /\ At(c, "body", "user") /\ Unguarded(c)
    /\ UNCHANGED <<vasLock, unique, life, paged, target, calls, flushing>>

-----------------------------------------------------------------------------
(* map_vmo, of the system call rose_mapping_create *)

\* As many calls as there are mappings left to be made.
MapLock(c) ==
    /\ Cardinality({d \in VlCores : vlPc[d] = "map"}) < Cardinality({m \in VlMappings : life[m] = "none"})
    /\ IF c = VlOwn THEN At(c, "body", "map") ELSE At(c, "user", "map")
    /\ UNCHANGED <<vasLock, unique, shared, life, paged, target, guards, calls, flushing>>

MapVmoLocked(c) ==
    /\ vlPc[c] = "map" /\ vasLock = VlNone
    /\ \E m \in VlMappings :
          /\ life[m] = "none" /\ life' = [life EXCEPT ![m] = "valid"] /\ paged' = paged \cup {m}
    /\ vlPc' = [vlPc EXCEPT ![c] = IF c = VlOwn THEN "body" ELSE "user"]
    /\ UNCHANGED <<vasLock, unique, shared, target, guards, calls, flushing>>

-----------------------------------------------------------------------------
(* syscall_rose_mapping_destroy_handler and vas::unmap *)

\* is_invalid; a mapping that was released is an invalid_handle.
DestroyBegin(c) ==
    /\ At(c, "user", "lock mapping")
    /\ \E m \in VlMappings :
          VlHolder[m] = c /\ life[m] = "valid" /\ target' = [target EXCEPT ![c] = m]
    /\ UNCHANGED <<vasLock, unique, shared, life, paged, guards, calls, flushing>>

\* MUTANT of DestroyLock: the lock of the mapping is not taken.
DestroyUnlocked(c) ==
    /\ At(c, "lock mapping", "lock space")
    /\ UNCHANGED <<vasLock, unique, shared, life, paged, target, guards, calls, flushing>>

\* shared_mutex::lock
DestroyLock(c) ==
    LET m == target[c]
    IN  /\ At(c, "lock mapping", "lock space") /\ unique[m] = VlNone /\ shared[m] = 0
        /\ unique' = [unique EXCEPT ![m] = c]
        /\ UNCHANGED <<vasLock, shared, life, paged, target, guards, calls, flushing>>

\* get_vas() of a released mapping is a null pointer.
DestroyUnmap(c) ==
    /\ vlPc[c] = "lock space" /\ vasLock = VlNone
    /\ IF life[target[c]] = "valid"
       THEN /\ At(c, "lock space", "shoot down") /\ vasLock' = c
            /\ paged' = paged \ {target[c]} /\ flushing' = VlCores \ {c}
       ELSE At(c, "lock space", "fault") /\ UNCHANGED <<vasLock, paged, calls, flushing>>
    /\ UNCHANGED <<unique, shared, life, target, guards, calls>>

\* The interrupt of the shoot-down, on a core that lets it in.
ShotDown(c) ==
    /\ c \in flushing /\ vlPc[c] = "user" /\ flushing' = flushing \ {c}
    /\ UNCHANGED <<vasLock, unique, shared, life, paged, vlPc, target, guards, calls>>

\* The wait is over: release, and both locks are given back.
DestroyRelease(c) ==
    /\ At(c, "shoot down", "user") /\ flushing = {}
    /\ life' = [life EXCEPT ![target[c]] = "released"]
    /\ vasLock' = VlNone /\ unique' = [unique EXCEPT ![target[c]] = VlNone]
    /\ UNCHANGED <<shared, paged, target, guards, calls, flushing>>

-----------------------------------------------------------------------------

VlKernel(c) ==
    \/ PointerLock(c) \/ PointerRefused(c) \/ PointerFound(c) \/ PointerLocked(c) \/ CallReturn(c)
    \/ MapVmoLocked(c) \/ DestroyLock(c) \/ DestroyUnmap(c) \/ ShotDown(c) \/ DestroyRelease(c)

VlNext == \E c \in VlCores : PointerNext(c) \/ MapLock(c) \/ DestroyBegin(c) \/ VlKernel(c)

-----------------------------------------------------------------------------
(* Properties *)

\* While a system call holds the guard of a mapping, the pages of the mapping
\* are there: it reads and writes its arguments through them.
GuardedIsMapped == \A c \in VlCores : guards[c] \subseteq paged

\* Destroying a mapping never goes through the null pointer that release leaves.
NoNullSpace == \A c \in VlCores : vlPc[c] # "fault"

\* A system call never goes through a mapping that another one has taken away,
\* neither to its pages nor to its address space.
MappingsKept == GuardedIsMapped /\ NoNullSpace

\* The two ways in which destroying a mapping and another call wait for each
\* other: the call holds the address space and spins on the mapping; or it
\* spins on the address space, with interrupts disabled, and is waited for.
Crossed ==
    \E d, r \in VlCores :
        \/ vlPc[d] = "lock space" /\ vasLock = r /\ vlPc[r] = "spin" /\ unique[target[r]] = d
        \/ vlPc[d] = "shoot down" /\ r \in flushing /\ vlPc[r] \in {"look up", "map", "lock space"}

\* Every system call on the address space returns, unless two of them cross.
VasCallsReturn == \A c \in VlCores : vlPc[c] # "user" ~> vlPc[c] = "user" \/ Crossed
=============================================================================
