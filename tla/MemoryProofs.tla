---------------------------- MODULE MemoryProofs ----------------------------
(***************************************************************************)
(* Memory: the locks of an address space, the frames of the physical       *)
(* memory manager and the frames of a virtual memory object.               *)
(***************************************************************************)
EXTENDS VasLocks, Pmm, Vmo, TLAPS

-----------------------------------------------------------------------------
(* Locks of an address space (VasLocks) *)

\* The locks of an address space, for any number of cores, mappings,
\* pointers and calls

VlSpec == VlInit /\ [][VlNext]_vlVars

\* Only the core of the process looks pointers up.
OwnGuards ==
    \A c \in VlCores \ {VlOwn} : guards[c] = {} /\ vlPc[c] \notin {"look up", "find", "spin", "body"}

\* Who is in the critical section of the address space holds its lock.
SpaceHeld == \A c \in VlCores : vlPc[c] \in {"find", "spin", "shoot down"} => vasLock = c

\* Who destroys a mapping has its lock; nobody else counts as its holder.
MappingHeld == \A c \in VlCores : vlPc[c] \in {"lock space", "shoot down"} => unique[target[c]] = c

\* The readers that a lock counts are the guard and the reader that spins.
ReadersCounted ==
    \A m \in VlMappings :
        m \in guards[VlOwn] \/ (vlPc[VlOwn] = "spin" /\ target[VlOwn] = m) => shared[m] # 0

\* A mapping that is locked for its destruction has no guard.
LockedUnguarded == \A m \in VlMappings : unique[m] # VlNone => m \notin guards[VlOwn]

\* A valid mapping has its pages, except in the shoot-down of its destruction.
ValidPaged ==
    \A m \in VlMappings :
        life[m] = "valid" =>
            m \in paged \/ \E c \in VlCores : vlPc[c] = "shoot down" /\ target[c] = m

SpinPaged == vlPc[VlOwn] = "spin" => target[VlOwn] \in paged

\* Who destroys a mapping has its token, and has found it valid.
DestroysOwn ==
    \A c \in VlCores :
        vlPc[c] \in {"lock mapping", "lock space", "shoot down"} =>
            VlHolder[target[c]] = c /\ life[target[c]] = "valid"

VlTypes ==
    /\ vasLock \in VlCores \cup {VlNone}
    /\ unique \in [VlMappings -> VlCores \cup {VlNone}]
    /\ shared \in [VlMappings -> Nat]
    /\ life \in [VlMappings -> {"none", "valid", "released"}]
    /\ paged \in SUBSET VlMappings
    /\ vlPc \in [VlCores -> {"user", "look up", "find", "spin", "body", "map",
                             "lock mapping", "lock space", "shoot down", "fault"}]
    /\ target \in [VlCores -> VlMappings \cup {VlNone}]
    /\ \A c \in VlCores : vlPc[c] \in {"spin", "lock mapping", "lock space", "shoot down"} => target[c] \in VlMappings
    /\ guards \in [VlCores -> SUBSET VlMappings]

VlInv ==
    /\ VlTypes /\ OwnGuards /\ SpaceHeld /\ MappingHeld
    /\ ReadersCounted /\ LockedUnguarded /\ ValidPaged /\ SpinPaged
    /\ DestroysOwn /\ GuardedIsMapped /\ NoNullSpace

\* The inductive invariant holds when the address space has no mapping.
LEMMA VlInitInv == VlInit => VlInv
BY VlAssumption
DEF VlInit, VlInv, VlTypes, OwnGuards, SpaceHeld, MappingHeld, ReadersCounted, LockedUnguarded,
    ValidPaged, SpinPaged, DestroysOwn, GuardedIsMapped, NoNullSpace

\* Every step of every core keeps the inductive invariant.
LEMMA VlStep == VlInv /\ [VlNext]_vlVars => VlInv'
<1> SUFFICES ASSUME VlTypes, OwnGuards, SpaceHeld, MappingHeld, ReadersCounted, LockedUnguarded,
                    ValidPaged, SpinPaged, DestroysOwn, GuardedIsMapped, NoNullSpace, [VlNext]_vlVars
             PROVE  VlInv'
  BY Zenon DEF VlInv
<1> USE VlAssumption
<1>1. ASSUME NEW c \in VlCores, PointerNext(c) PROVE VlInv'
  <2>1. c = VlOwn
    BY <1>1, Zenon DEF PointerNext, At, OwnGuards
  <2>2. VlTypes'
    BY <1>1, <2>1, Zenon DEF PointerNext, At, VlTypes
  <2>3. OwnGuards'
    BY <1>1, <2>1, Zenon DEF PointerNext, At, VlTypes, OwnGuards
  <2>4. SpaceHeld'
    BY <1>1, <2>1, Zenon DEF PointerNext, At, VlTypes, SpaceHeld
  <2>5. MappingHeld'
    BY <1>1, <2>1, Zenon DEF PointerNext, At, VlTypes, MappingHeld
  <2>6. ReadersCounted'
    BY <1>1, <2>1, Zenon DEF PointerNext, At, VlTypes, ReadersCounted
  <2>7. LockedUnguarded'
    BY <1>1, <2>1, Zenon DEF PointerNext, At, VlTypes, LockedUnguarded
  <2>8. ValidPaged'
    BY <1>1, <2>1, ZenonT(40) DEF PointerNext, At, VlTypes, ValidPaged
  <2>9. SpinPaged'
    BY <1>1, <2>1, Zenon DEF PointerNext, At, VlTypes, SpinPaged, SpaceHeld
  <2>10. DestroysOwn'
    <3> SUFFICES ASSUME NEW d \in VlCores, vlPc'[d] \in {"lock mapping", "lock space", "shoot down"}
                 PROVE  VlHolder[target'[d]] = d /\ life'[target'[d]] = "valid"
      BY Zenon DEF DestroysOwn
    <3>1. CASE d = c
      BY <1>1, <2>1, <3>1, Zenon DEF PointerNext, At, VlTypes
    <3>2. CASE d # c
      <4>1. vlPc'[d] = vlPc[d] /\ target'[d] = target[d]
        BY <1>1, <2>1, <3>2, Zenon DEF PointerNext, At, VlTypes
      <4>2. VlHolder[target[d]] = d /\ life[target[d]] = "valid" /\ target[d] \in VlMappings
        BY <4>1, Zenon DEF DestroysOwn, VlTypes
      <4>3. life'[target[d]] = "valid"
        BY <1>1, <2>1, <3>2, <4>2, Zenon DEF PointerNext, At, VlTypes
      <4> QED
        BY <4>1, <4>2, <4>3, Zenon
    <3> QED
      BY <3>1, <3>2, Zenon
  <2>11. GuardedIsMapped'
    BY <1>1, <2>1, Zenon DEF PointerNext, At, VlTypes, GuardedIsMapped
  <2>12. NoNullSpace'
    BY <1>1, <2>1, Zenon DEF PointerNext, At, VlTypes, NoNullSpace
  <2> QED
    BY <2>2, <2>3, <2>4, <2>5, <2>6, <2>7, <2>8, <2>9, <2>10, <2>11, <2>12, Zenon DEF VlInv
<1>2. ASSUME NEW c \in VlCores, MapLock(c) PROVE VlInv'
  <2>1. VlTypes'
    BY <1>2, Zenon DEF MapLock, At, VlTypes
  <2>2. OwnGuards'
    BY <1>2, Zenon DEF MapLock, At, VlTypes, OwnGuards
  <2>3. SpaceHeld'
    BY <1>2, Zenon DEF MapLock, At, VlTypes, SpaceHeld
  <2>4. MappingHeld'
    BY <1>2, Zenon DEF MapLock, At, VlTypes, MappingHeld
  <2>5. ReadersCounted'
    BY <1>2, Zenon DEF MapLock, At, VlTypes, ReadersCounted
  <2>6. LockedUnguarded'
    BY <1>2, Zenon DEF MapLock, At, VlTypes, LockedUnguarded
  <2>7. ValidPaged'
    BY <1>2, ZenonT(40) DEF MapLock, At, VlTypes, ValidPaged
  <2>8. SpinPaged'
    BY <1>2, Zenon DEF MapLock, At, VlTypes, SpinPaged, SpaceHeld
  <2>9. DestroysOwn'
    <3> SUFFICES ASSUME NEW d \in VlCores, vlPc'[d] \in {"lock mapping", "lock space", "shoot down"}
                 PROVE  VlHolder[target'[d]] = d /\ life'[target'[d]] = "valid"
      BY Zenon DEF DestroysOwn
    <3>1. CASE d = c
      BY <1>2, <3>1, Zenon DEF MapLock, At, VlTypes
    <3>2. CASE d # c
      <4>1. vlPc'[d] = vlPc[d] /\ target'[d] = target[d]
        BY <1>2, <3>2, Zenon DEF MapLock, At, VlTypes
      <4>2. VlHolder[target[d]] = d /\ life[target[d]] = "valid" /\ target[d] \in VlMappings
        BY <4>1, Zenon DEF DestroysOwn, VlTypes
      <4>3. life'[target[d]] = "valid"
        BY <1>2, <3>2, <4>2, Zenon DEF MapLock, At, VlTypes
      <4> QED
        BY <4>1, <4>2, <4>3, Zenon
    <3> QED
      BY <3>1, <3>2, Zenon
  <2>10. GuardedIsMapped'
    BY <1>2, Zenon DEF MapLock, At, VlTypes, GuardedIsMapped
  <2>11. NoNullSpace'
    BY <1>2, Zenon DEF MapLock, At, VlTypes, NoNullSpace
  <2> QED
    BY <2>1, <2>2, <2>3, <2>4, <2>5, <2>6, <2>7, <2>8, <2>9, <2>10, <2>11, Zenon DEF VlInv
<1>3. ASSUME NEW c \in VlCores, DestroyBegin(c) PROVE VlInv'
  <2>1. VlTypes'
    BY <1>3, ZenonT(40) DEF DestroyBegin, At, VlTypes
  <2>2. OwnGuards'
    BY <1>3, Zenon DEF DestroyBegin, At, VlTypes, OwnGuards
  <2>3. SpaceHeld'
    BY <1>3, Zenon DEF DestroyBegin, At, VlTypes, SpaceHeld
  <2>4. MappingHeld'
    BY <1>3, Zenon DEF DestroyBegin, At, VlTypes, MappingHeld
  <2>5. ReadersCounted'
    BY <1>3, Zenon DEF DestroyBegin, At, VlTypes, ReadersCounted
  <2>6. LockedUnguarded'
    BY <1>3, Zenon DEF DestroyBegin, At, VlTypes, LockedUnguarded
  <2>7. ValidPaged'
    <3> SUFFICES ASSUME NEW m \in VlMappings, life'[m] = "valid", m \notin paged'
                 PROVE  \E d \in VlCores : vlPc'[d] = "shoot down" /\ target'[d] = m
      BY Zenon DEF ValidPaged
    <3>1. PICK d \in VlCores : vlPc[d] = "shoot down" /\ target[d] = m
      BY <1>3, Zenon DEF DestroyBegin, At, ValidPaged
    <3> QED
      BY <1>3, <3>1, Zenon DEF DestroyBegin, At, VlTypes
  <2>8. SpinPaged'
    BY <1>3, Zenon DEF DestroyBegin, At, VlTypes, SpinPaged, SpaceHeld
  <2>9. DestroysOwn'
    <3> SUFFICES ASSUME NEW d \in VlCores, vlPc'[d] \in {"lock mapping", "lock space", "shoot down"}
                 PROVE  VlHolder[target'[d]] = d /\ life'[target'[d]] = "valid"
      BY Zenon DEF DestroysOwn
    <3>1. CASE d = c
      BY <1>3, <3>1, Zenon DEF DestroyBegin, At, VlTypes
    <3>2. CASE d # c
      <4>1. vlPc'[d] = vlPc[d] /\ target'[d] = target[d]
        BY <1>3, <3>2, Zenon DEF DestroyBegin, At, VlTypes
      <4>2. VlHolder[target[d]] = d /\ life[target[d]] = "valid" /\ target[d] \in VlMappings
        BY <4>1, Zenon DEF DestroysOwn, VlTypes
      <4>3. life'[target[d]] = "valid"
        BY <1>3, <3>2, <4>2, Zenon DEF DestroyBegin, At, VlTypes
      <4> QED
        BY <4>1, <4>2, <4>3, Zenon
    <3> QED
      BY <3>1, <3>2, Zenon
  <2>10. GuardedIsMapped'
    BY <1>3, Zenon DEF DestroyBegin, At, VlTypes, GuardedIsMapped
  <2>11. NoNullSpace'
    BY <1>3, Zenon DEF DestroyBegin, At, VlTypes, NoNullSpace
  <2> QED
    BY <2>1, <2>2, <2>3, <2>4, <2>5, <2>6, <2>7, <2>8, <2>9, <2>10, <2>11, Zenon DEF VlInv
<1>4. ASSUME NEW c \in VlCores, PointerLock(c) PROVE VlInv'
  <2>1. VlTypes'
    BY <1>4, Zenon DEF PointerLock, At, VlTypes
  <2>2. OwnGuards'
    BY <1>4, Zenon DEF PointerLock, At, VlTypes, OwnGuards
  <2>3. SpaceHeld'
    BY <1>4, Zenon DEF PointerLock, At, VlTypes, SpaceHeld
  <2>4. MappingHeld'
    BY <1>4, Zenon DEF PointerLock, At, VlTypes, MappingHeld
  <2>5. ReadersCounted'
    BY <1>4, Zenon DEF PointerLock, At, VlTypes, ReadersCounted
  <2>6. LockedUnguarded'
    BY <1>4, Zenon DEF PointerLock, At, VlTypes, LockedUnguarded
  <2>7. ValidPaged'
    BY <1>4, Zenon DEF PointerLock, At, VlTypes, ValidPaged
  <2>8. SpinPaged'
    BY <1>4, Zenon DEF PointerLock, At, VlTypes, SpinPaged, SpaceHeld
  <2>9. DestroysOwn'
    BY <1>4, Zenon DEF PointerLock, At, VlTypes, DestroysOwn
  <2>10. GuardedIsMapped'
    BY <1>4, Zenon DEF PointerLock, At, VlTypes, GuardedIsMapped
  <2>11. NoNullSpace'
    BY <1>4, Zenon DEF PointerLock, At, VlTypes, NoNullSpace
  <2> QED
    BY <2>1, <2>2, <2>3, <2>4, <2>5, <2>6, <2>7, <2>8, <2>9, <2>10, <2>11, Zenon DEF VlInv
<1>5. ASSUME NEW c \in VlCores, PointerRefused(c) PROVE VlInv'
  <2>1. c = VlOwn
    BY <1>5, Zenon DEF PointerRefused, At, OwnGuards
  <2>2. VlTypes'
    <3>1. shared' \in [VlMappings -> Nat]
      <4>1. ASSUME NEW m \in VlMappings PROVE shared'[m] \in Nat
        <5>1. shared[m] \in Nat
          BY Zenon DEF VlTypes
        <5>2. m \in guards[c] => shared[m] # 0
          BY <2>1, Zenon DEF ReadersCounted
        <5>3. shared'[m] = IF m \in guards[c] THEN shared[m] - 1 ELSE shared[m] - 0
          BY <1>5, <2>1, Zenon DEF PointerRefused, Unguarded
        <5> QED
          BY <5>1, <5>2, <5>3
      <4>2. shared' = [m \in VlMappings |-> shared'[m]]
        BY <1>5, <2>1, Zenon DEF PointerRefused, Unguarded
      <4> QED
        BY <4>1, <4>2, Zenon
    <3>2. guards' \in [VlCores -> SUBSET VlMappings]
      BY <1>5, <2>1, Zenon DEF PointerRefused, Unguarded, VlTypes
    <3> QED
      BY <1>5, <2>1, <3>1, <3>2, Zenon DEF PointerRefused, At, VlTypes
  <2>3. OwnGuards'
    BY <1>5, <2>1, Zenon DEF PointerRefused, At, Unguarded, VlTypes, OwnGuards
  <2>4. SpaceHeld'
    BY <1>5, <2>1, Zenon DEF PointerRefused, At, Unguarded, VlTypes, SpaceHeld
  <2>5. MappingHeld'
    BY <1>5, <2>1, Zenon DEF PointerRefused, At, Unguarded, VlTypes, MappingHeld
  <2>6. ReadersCounted'
    BY <1>5, <2>1, Zenon DEF PointerRefused, At, Unguarded, VlTypes, ReadersCounted
  <2>7. LockedUnguarded'
    BY <1>5, <2>1, Zenon DEF PointerRefused, At, Unguarded, VlTypes, LockedUnguarded
  <2>8. ValidPaged'
    BY <1>5, <2>1, Zenon DEF PointerRefused, At, Unguarded, VlTypes, ValidPaged
  <2>9. SpinPaged'
    BY <1>5, <2>1, Zenon DEF PointerRefused, At, Unguarded, VlTypes, SpinPaged, SpaceHeld
  <2>10. DestroysOwn'
    BY <1>5, <2>1, Zenon DEF PointerRefused, At, Unguarded, VlTypes, DestroysOwn
  <2>11. GuardedIsMapped'
    BY <1>5, <2>1, Zenon DEF PointerRefused, At, Unguarded, VlTypes, GuardedIsMapped
  <2>12. NoNullSpace'
    BY <1>5, <2>1, Zenon DEF PointerRefused, At, Unguarded, VlTypes, NoNullSpace
  <2> QED
    BY <2>2, <2>3, <2>4, <2>5, <2>6, <2>7, <2>8, <2>9, <2>10, <2>11, <2>12, Zenon DEF VlInv
<1>6. ASSUME NEW c \in VlCores, PointerFound(c) PROVE VlInv'
  <2>1. c = VlOwn
    BY <1>6, Zenon DEF PointerFound, At, OwnGuards
  <2>2. VlTypes'
    <3>1. PICK m \in VlMappings \ guards[c] :
              target' = [target EXCEPT ![c] = m] /\ shared' = [shared EXCEPT ![m] = @ + 1]
      BY <1>6, <2>1, Zenon DEF PointerFound
    <3>2. shared' \in [VlMappings -> Nat]
      <4>1. shared \in [VlMappings -> Nat] /\ shared[m] + 1 \in Nat
        <5>1. shared \in [VlMappings -> Nat] /\ shared[m] \in Nat
          BY Zenon DEF VlTypes
        <5> QED
          BY <5>1
      <4> QED
        BY <3>1, <4>1, Zenon
    <3>3. target' \in [VlCores -> VlMappings \cup {VlNone}] /\ target'[c] \in VlMappings
      BY <3>1, Zenon DEF VlTypes
    <3> QED
      BY <1>6, <2>1, <3>1, <3>2, <3>3, ZenonT(40) DEF PointerFound, At, VlTypes
  <2>3. OwnGuards'
    BY <1>6, <2>1, Zenon DEF PointerFound, At, VlTypes, OwnGuards
  <2>4. SpaceHeld'
    BY <1>6, <2>1, Zenon DEF PointerFound, At, VlTypes, SpaceHeld
  <2>5. MappingHeld'
    BY <1>6, <2>1, ZenonT(40) DEF PointerFound, At, VlTypes, MappingHeld
  <2>6. ReadersCounted'
    <3>1. PICK m \in VlMappings : /\ target' = [target EXCEPT ![c] = m]
                                  /\ shared' = [shared EXCEPT ![m] = @ + 1]
      BY <1>6, <2>1, Zenon DEF PointerFound
    <3>2. target'[VlOwn] = m /\ shared'[m] # 0 /\ \A n \in VlMappings \ {m} : shared'[n] = shared[n]
      <4>1. shared \in [VlMappings -> Nat] /\ shared[m] + 1 # 0
        <5>1. shared \in [VlMappings -> Nat] /\ shared[m] \in Nat
          BY Zenon DEF VlTypes
        <5> QED
          BY <5>1
      <4>2. target'[VlOwn] = m
        BY <2>1, <3>1, Zenon DEF VlTypes
      <4> QED
        BY <3>1, <4>1, <4>2, Zenon
    <3> QED
      BY <1>6, <2>1, <3>2, Zenon DEF PointerFound, VlTypes, ReadersCounted
  <2>7. LockedUnguarded'
    BY <1>6, <2>1, Zenon DEF PointerFound, At, VlTypes, LockedUnguarded
  <2>8. ValidPaged'
    <3> SUFFICES ASSUME NEW m \in VlMappings, life'[m] = "valid", m \notin paged'
                 PROVE  \E d \in VlCores : vlPc'[d] = "shoot down" /\ target'[d] = m
      BY Zenon DEF ValidPaged
    <3>1. PICK d \in VlCores : vlPc[d] = "shoot down" /\ target[d] = m
      BY <1>6, <2>1, Zenon DEF PointerFound, At, ValidPaged
    <3> QED
      BY <1>6, <2>1, <3>1, Zenon DEF PointerFound, At, VlTypes
  <2>9. SpinPaged'
    <3>1. PICK m \in VlMappings : life[m] = "valid" /\ target' = [target EXCEPT ![c] = m]
      BY <1>6, <2>1, Zenon DEF PointerFound
    <3>2. m \in paged
      <4>1. vlPc[c] = "find" /\ vasLock = c
        BY <1>6, <2>1, Zenon DEF PointerFound, At, SpaceHeld
      <4>2. \A d \in VlCores : vlPc[d] # "shoot down"
        BY <4>1, Zenon DEF SpaceHeld
      <4> QED
        BY <3>1, <4>2, Zenon DEF ValidPaged
    <3> QED
      BY <1>6, <2>1, <3>1, <3>2, ZenonT(40) DEF PointerFound, VlTypes, SpinPaged
  <2>10. DestroysOwn'
    <3> SUFFICES ASSUME NEW d \in VlCores, vlPc'[d] \in {"lock mapping", "lock space", "shoot down"}
                 PROVE  VlHolder[target'[d]] = d /\ life'[target'[d]] = "valid"
      BY Zenon DEF DestroysOwn
    <3>1. CASE d = c
      BY <1>6, <2>1, <3>1, Zenon DEF PointerFound, At, VlTypes
    <3>2. CASE d # c
      <4>1. vlPc'[d] = vlPc[d] /\ target'[d] = target[d]
        BY <1>6, <2>1, <3>2, Zenon DEF PointerFound, At, VlTypes
      <4>2. VlHolder[target[d]] = d /\ life[target[d]] = "valid" /\ target[d] \in VlMappings
        BY <4>1, Zenon DEF DestroysOwn, VlTypes
      <4>3. life'[target[d]] = "valid"
        BY <1>6, <2>1, <3>2, <4>2, Zenon DEF PointerFound, At, VlTypes
      <4> QED
        BY <4>1, <4>2, <4>3, Zenon
    <3> QED
      BY <3>1, <3>2, Zenon
  <2>11. GuardedIsMapped'
    BY <1>6, <2>1, Zenon DEF PointerFound, At, VlTypes, GuardedIsMapped
  <2>12. NoNullSpace'
    BY <1>6, <2>1, Zenon DEF PointerFound, At, VlTypes, NoNullSpace
  <2> QED
    BY <2>2, <2>3, <2>4, <2>5, <2>6, <2>7, <2>8, <2>9, <2>10, <2>11, <2>12, Zenon DEF VlInv
<1>7. ASSUME NEW c \in VlCores, PointerLocked(c) PROVE VlInv'
  <2>1. c = VlOwn
    BY <1>7, Zenon DEF PointerLocked, At, OwnGuards
  <2>2. VlTypes'
    <3>1. target[c] \in VlMappings
      BY <1>7, <2>1, Zenon DEF PointerLocked, At, VlTypes
    <3>2. guards' \in [VlCores -> SUBSET VlMappings]
      BY <1>7, <2>1, <3>1, ZenonT(40) DEF PointerLocked, VlTypes
    <3> QED
      BY <1>7, <2>1, <3>2, Zenon DEF PointerLocked, At, VlTypes
  <2>3. OwnGuards'
    BY <1>7, <2>1, Zenon DEF PointerLocked, At, VlTypes, OwnGuards
  <2>4. SpaceHeld'
    BY <1>7, <2>1, Zenon DEF PointerLocked, At, VlTypes, SpaceHeld
  <2>5. MappingHeld'
    BY <1>7, <2>1, Zenon DEF PointerLocked, At, VlTypes, MappingHeld
  <2>6. ReadersCounted'
    BY <1>7, <2>1, Zenon DEF PointerLocked, At, VlTypes, ReadersCounted
  <2>7. LockedUnguarded'
    BY <1>7, <2>1, Zenon DEF PointerLocked, At, VlTypes, LockedUnguarded
  <2>8. ValidPaged'
    BY <1>7, <2>1, Zenon DEF PointerLocked, At, VlTypes, ValidPaged
  <2>9. SpinPaged'
    BY <1>7, <2>1, Zenon DEF PointerLocked, At, VlTypes, SpinPaged, SpaceHeld
  <2>10. DestroysOwn'
    BY <1>7, <2>1, ZenonT(40) DEF PointerLocked, At, VlTypes, DestroysOwn
  <2>11. GuardedIsMapped'
    BY <1>7, <2>1, Zenon DEF PointerLocked, At, VlTypes, GuardedIsMapped, SpinPaged
  <2>12. NoNullSpace'
    BY <1>7, <2>1, Zenon DEF PointerLocked, At, VlTypes, NoNullSpace
  <2> QED
    BY <2>2, <2>3, <2>4, <2>5, <2>6, <2>7, <2>8, <2>9, <2>10, <2>11, <2>12, Zenon DEF VlInv
<1>8. ASSUME NEW c \in VlCores, CallReturn(c) PROVE VlInv'
  <2>1. c = VlOwn
    BY <1>8, Zenon DEF CallReturn, At, OwnGuards
  <2>2. VlTypes'
    <3>1. shared' \in [VlMappings -> Nat]
      <4>1. ASSUME NEW m \in VlMappings PROVE shared'[m] \in Nat
        <5>1. shared[m] \in Nat
          BY Zenon DEF VlTypes
        <5>2. m \in guards[c] => shared[m] # 0
          BY <2>1, Zenon DEF ReadersCounted
        <5>3. shared'[m] = IF m \in guards[c] THEN shared[m] - 1 ELSE shared[m] - 0
          BY <1>8, <2>1, Zenon DEF CallReturn, Unguarded
        <5> QED
          BY <5>1, <5>2, <5>3
      <4>2. shared' = [m \in VlMappings |-> shared'[m]]
        BY <1>8, <2>1, Zenon DEF CallReturn, Unguarded
      <4> QED
        BY <4>1, <4>2, Zenon
    <3>2. guards' \in [VlCores -> SUBSET VlMappings]
      BY <1>8, <2>1, Zenon DEF CallReturn, Unguarded, VlTypes
    <3> QED
      BY <1>8, <2>1, <3>1, <3>2, Zenon DEF CallReturn, At, VlTypes
  <2>3. OwnGuards'
    BY <1>8, <2>1, Zenon DEF CallReturn, At, Unguarded, VlTypes, OwnGuards
  <2>4. SpaceHeld'
    BY <1>8, <2>1, Zenon DEF CallReturn, At, Unguarded, VlTypes, SpaceHeld
  <2>5. MappingHeld'
    BY <1>8, <2>1, Zenon DEF CallReturn, At, Unguarded, VlTypes, MappingHeld
  <2>6. ReadersCounted'
    BY <1>8, <2>1, Zenon DEF CallReturn, At, Unguarded, VlTypes, ReadersCounted
  <2>7. LockedUnguarded'
    BY <1>8, <2>1, Zenon DEF CallReturn, At, Unguarded, VlTypes, LockedUnguarded
  <2>8. ValidPaged'
    BY <1>8, <2>1, Zenon DEF CallReturn, At, Unguarded, VlTypes, ValidPaged
  <2>9. SpinPaged'
    BY <1>8, <2>1, Zenon DEF CallReturn, At, Unguarded, VlTypes, SpinPaged, SpaceHeld
  <2>10. DestroysOwn'
    BY <1>8, <2>1, ZenonT(40) DEF CallReturn, At, Unguarded, VlTypes, DestroysOwn
  <2>11. GuardedIsMapped'
    BY <1>8, <2>1, Zenon DEF CallReturn, At, Unguarded, VlTypes, GuardedIsMapped
  <2>12. NoNullSpace'
    BY <1>8, <2>1, Zenon DEF CallReturn, At, Unguarded, VlTypes, NoNullSpace
  <2> QED
    BY <2>2, <2>3, <2>4, <2>5, <2>6, <2>7, <2>8, <2>9, <2>10, <2>11, <2>12, Zenon DEF VlInv
<1>9. ASSUME NEW c \in VlCores, MapVmoLocked(c) PROVE VlInv'
  <2>1. VlTypes'
    BY <1>9, ZenonT(40) DEF MapVmoLocked, VlTypes
  <2>2. OwnGuards'
    BY <1>9, Zenon DEF MapVmoLocked, VlTypes, OwnGuards
  <2>3. SpaceHeld'
    BY <1>9, Zenon DEF MapVmoLocked, VlTypes, SpaceHeld
  <2>4. MappingHeld'
    BY <1>9, Zenon DEF MapVmoLocked, VlTypes, MappingHeld
  <2>5. ReadersCounted'
    BY <1>9, Zenon DEF MapVmoLocked, VlTypes, ReadersCounted
  <2>6. LockedUnguarded'
    BY <1>9, Zenon DEF MapVmoLocked, VlTypes, LockedUnguarded
  <2>7. ValidPaged'
    BY <1>9, ZenonT(40) DEF MapVmoLocked, VlTypes, ValidPaged
  <2>8. SpinPaged'
    BY <1>9, ZenonT(40) DEF MapVmoLocked, VlTypes, SpinPaged, SpaceHeld
  <2>9. DestroysOwn'
    <3> SUFFICES ASSUME NEW d \in VlCores, vlPc'[d] \in {"lock mapping", "lock space", "shoot down"}
                 PROVE  VlHolder[target'[d]] = d /\ life'[target'[d]] = "valid"
      BY Zenon DEF DestroysOwn
    <3>1. CASE d = c
      BY <1>9, <3>1, Zenon DEF MapVmoLocked, VlTypes
    <3>2. CASE d # c
      <4>1. vlPc'[d] = vlPc[d] /\ target'[d] = target[d]
        BY <1>9, <3>2, Zenon DEF MapVmoLocked, VlTypes
      <4>2. VlHolder[target[d]] = d /\ life[target[d]] = "valid" /\ target[d] \in VlMappings
        BY <4>1, Zenon DEF DestroysOwn, VlTypes
      <4>3. life'[target[d]] = "valid"
        BY <1>9, <3>2, <4>2, Zenon DEF MapVmoLocked, VlTypes
      <4> QED
        BY <4>1, <4>2, <4>3, Zenon
    <3> QED
      BY <3>1, <3>2, Zenon
  <2>10. GuardedIsMapped'
    BY <1>9, Zenon DEF MapVmoLocked, VlTypes, GuardedIsMapped
  <2>11. NoNullSpace'
    BY <1>9, Zenon DEF MapVmoLocked, VlTypes, NoNullSpace
  <2> QED
    BY <2>1, <2>2, <2>3, <2>4, <2>5, <2>6, <2>7, <2>8, <2>9, <2>10, <2>11, Zenon DEF VlInv
<1>10. ASSUME NEW c \in VlCores, DestroyLock(c) PROVE VlInv'
  <2>1. VlTypes'
    BY <1>10, Zenon DEF DestroyLock, At, VlTypes
  <2>2. OwnGuards'
    BY <1>10, Zenon DEF DestroyLock, At, VlTypes, OwnGuards
  <2>3. SpaceHeld'
    BY <1>10, Zenon DEF DestroyLock, At, VlTypes, SpaceHeld
  <2>4. MappingHeld'
    BY <1>10, Zenon DEF DestroyLock, At, VlTypes, MappingHeld
  <2>5. ReadersCounted'
    BY <1>10, Zenon DEF DestroyLock, At, VlTypes, ReadersCounted
  <2>6. LockedUnguarded'
    BY <1>10, Zenon DEF DestroyLock, At, VlTypes, LockedUnguarded, ReadersCounted
  <2>7. ValidPaged'
    BY <1>10, Zenon DEF DestroyLock, At, VlTypes, ValidPaged
  <2>8. SpinPaged'
    BY <1>10, Zenon DEF DestroyLock, At, VlTypes, SpinPaged, SpaceHeld
  <2>9. DestroysOwn'
    BY <1>10, ZenonT(40) DEF DestroyLock, At, VlTypes, DestroysOwn
  <2>10. GuardedIsMapped'
    BY <1>10, Zenon DEF DestroyLock, At, VlTypes, GuardedIsMapped
  <2>11. NoNullSpace'
    BY <1>10, Zenon DEF DestroyLock, At, VlTypes, NoNullSpace
  <2> QED
    BY <2>1, <2>2, <2>3, <2>4, <2>5, <2>6, <2>7, <2>8, <2>9, <2>10, <2>11, Zenon DEF VlInv
<1>11. ASSUME NEW c \in VlCores, DestroyUnmap(c) PROVE VlInv'
  <2>1. /\ vlPc[c] = "lock space" /\ vlPc' = [vlPc EXCEPT ![c] = "shoot down"]
         /\ vasLock = VlNone /\ vasLock' = c /\ paged' = paged \ {target[c]}
         /\ UNCHANGED <<unique, shared, life, target, guards>>
    BY <1>11, Zenon DEF DestroyUnmap, At, DestroysOwn
  <2>2. VlTypes'
    BY <2>1, Zenon DEF VlTypes
  <2>3. OwnGuards'
    BY <2>1, Zenon DEF VlTypes, OwnGuards
  <2>4. SpaceHeld'
    BY <2>1, Zenon DEF VlTypes, SpaceHeld
  <2>5. MappingHeld'
    BY <2>1, Zenon DEF VlTypes, MappingHeld
  <2>6. ReadersCounted'
    BY <2>1, Zenon DEF VlTypes, ReadersCounted
  <2>7. LockedUnguarded'
    BY <2>1, Zenon DEF VlTypes, LockedUnguarded
  <2>8. ValidPaged'
    <3> SUFFICES ASSUME NEW m \in VlMappings, life'[m] = "valid", m \notin paged'
                 PROVE  \E d \in VlCores : vlPc'[d] = "shoot down" /\ target'[d] = m
      BY Zenon DEF ValidPaged
    <3>1. CASE m = target[c]
      BY <2>1, <3>1, Zenon DEF VlTypes
    <3>2. CASE m # target[c]
      <4>1. PICK d \in VlCores : vlPc[d] = "shoot down" /\ target[d] = m
        BY <2>1, <3>2, Zenon DEF VlTypes, ValidPaged
      <4> QED
        BY <2>1, <3>2, <4>1, Zenon DEF VlTypes
    <3> QED
      BY <3>1, <3>2, Zenon
  <2>9. SpinPaged'
    BY <2>1, Zenon DEF VlTypes, SpinPaged, SpaceHeld
  <2>10. DestroysOwn'
    BY <2>1, Zenon DEF VlTypes, DestroysOwn
  <2>11. GuardedIsMapped'
    BY <2>1, Zenon DEF VlTypes, GuardedIsMapped, MappingHeld, LockedUnguarded, OwnGuards
  <2>12. NoNullSpace'
    BY <2>1, Zenon DEF VlTypes, NoNullSpace, DestroysOwn
  <2> QED
    BY <2>2, <2>3, <2>4, <2>5, <2>6, <2>7, <2>8, <2>9, <2>10, <2>11, <2>12, Zenon DEF VlInv
<1>12. ASSUME NEW c \in VlCores, ShotDown(c) PROVE VlInv'
  <2>1. VlTypes'
    BY <1>12, Zenon DEF ShotDown, VlTypes
  <2>2. OwnGuards'
    BY <1>12, Zenon DEF ShotDown, VlTypes, OwnGuards
  <2>3. SpaceHeld'
    BY <1>12, Zenon DEF ShotDown, VlTypes, SpaceHeld
  <2>4. MappingHeld'
    BY <1>12, Zenon DEF ShotDown, VlTypes, MappingHeld
  <2>5. ReadersCounted'
    BY <1>12, Zenon DEF ShotDown, VlTypes, ReadersCounted
  <2>6. LockedUnguarded'
    BY <1>12, Zenon DEF ShotDown, VlTypes, LockedUnguarded
  <2>7. ValidPaged'
    BY <1>12, Zenon DEF ShotDown, VlTypes, ValidPaged
  <2>8. SpinPaged'
    BY <1>12, Zenon DEF ShotDown, VlTypes, SpinPaged, SpaceHeld
  <2>9. DestroysOwn'
    BY <1>12, Zenon DEF ShotDown, VlTypes, DestroysOwn
  <2>10. GuardedIsMapped'
    BY <1>12, Zenon DEF ShotDown, VlTypes, GuardedIsMapped
  <2>11. NoNullSpace'
    BY <1>12, Zenon DEF ShotDown, VlTypes, NoNullSpace
  <2> QED
    BY <2>1, <2>2, <2>3, <2>4, <2>5, <2>6, <2>7, <2>8, <2>9, <2>10, <2>11, Zenon DEF VlInv
<1>13. ASSUME NEW c \in VlCores, DestroyRelease(c) PROVE VlInv'
  <2>1. VlTypes'
    BY <1>13, Zenon DEF DestroyRelease, At, VlTypes
  <2>2. OwnGuards'
    BY <1>13, Zenon DEF DestroyRelease, At, VlTypes, OwnGuards
  <2>3. SpaceHeld'
    BY <1>13, Zenon DEF DestroyRelease, At, VlTypes, SpaceHeld
  <2>4. MappingHeld'
    BY <1>13, Zenon DEF DestroyRelease, At, VlTypes, MappingHeld
  <2>5. ReadersCounted'
    BY <1>13, Zenon DEF DestroyRelease, At, VlTypes, ReadersCounted
  <2>6. LockedUnguarded'
    BY <1>13, Zenon DEF DestroyRelease, At, VlTypes, LockedUnguarded
  <2>7. ValidPaged'
    BY <1>13, ZenonT(40) DEF DestroyRelease, At, VlTypes, ValidPaged
  <2>8. SpinPaged'
    BY <1>13, Zenon DEF DestroyRelease, At, VlTypes, SpinPaged, SpaceHeld
  <2>9. DestroysOwn'
    <3> SUFFICES ASSUME NEW d \in VlCores, vlPc'[d] \in {"lock mapping", "lock space", "shoot down"}
                 PROVE  VlHolder[target'[d]] = d /\ life'[target'[d]] = "valid"
      BY Zenon DEF DestroysOwn
    <3>1. CASE d = c
      BY <1>13, <3>1, Zenon DEF DestroyRelease, At, VlTypes
    <3>2. CASE d # c
      <4>1. vlPc'[d] = vlPc[d] /\ target'[d] = target[d]
        BY <1>13, <3>2, Zenon DEF DestroyRelease, At, VlTypes
      <4>2. VlHolder[target[d]] = d /\ life[target[d]] = "valid" /\ target[d] \in VlMappings
        BY <4>1, Zenon DEF DestroysOwn, VlTypes
      <4>3. life'[target[d]] = "valid"
        BY <1>13, <3>2, <4>2, Zenon DEF DestroyRelease, At, VlTypes, DestroysOwn
      <4> QED
        BY <4>1, <4>2, <4>3, Zenon
    <3> QED
      BY <3>1, <3>2, Zenon
  <2>10. GuardedIsMapped'
    BY <1>13, Zenon DEF DestroyRelease, At, VlTypes, GuardedIsMapped
  <2>11. NoNullSpace'
    BY <1>13, Zenon DEF DestroyRelease, At, VlTypes, NoNullSpace
  <2> QED
    BY <2>1, <2>2, <2>3, <2>4, <2>5, <2>6, <2>7, <2>8, <2>9, <2>10, <2>11, Zenon DEF VlInv
<1>14. CASE UNCHANGED vlVars
  BY <1>14, Zenon DEF vlVars, VlInv, VlTypes, OwnGuards, SpaceHeld, MappingHeld, ReadersCounted,
            LockedUnguarded, ValidPaged, SpinPaged, DestroysOwn, GuardedIsMapped, NoNullSpace
<1> QED
  BY <1>1, <1>2, <1>3, <1>4, <1>5, <1>6, <1>7, <1>8, <1>9, <1>10, <1>11, <1>12, <1>13, <1>14, Zenon DEF VlNext, VlKernel

\* However many cores destroy mappings of the address space of a process and
\* add mappings to it, the mappings that a system call of the process has a
\* guard for keep their pages: shared_mutex::lock_shared under vas::_lock keeps
\* out the unmap of vas.cpp, which needs both.
THEOREM GuardedStayMapped == VlSpec => []GuardedIsMapped
<1>1. VlInv => GuardedIsMapped
  BY Zenon DEF VlInv
<1> QED
  BY <1>1, VlInitInv, VlStep, PTL DEF VlSpec

\* A mapping has one token and so one core that destroys it; is_invalid, asked
\* before the lock is taken, still answers for it when unmap uses get_vas().
THEOREM DestroyNeverNull == VlSpec => []NoNullSpace
<1>1. VlInv => NoNullSpace
  BY Zenon DEF VlInv
<1> QED
  BY <1>1, VlInitInv, VlStep, PTL DEF VlSpec

\* Whatever the order of the calls on an address space, none of them goes
\* through a mapping that another has taken away: lock_address_range keeps it
\* locked for the caller, unmap and release only touch what their core owns.
THEOREM MappingsStayKept == VlSpec => []MappingsKept
<1>1. GuardedIsMapped /\ NoNullSpace => MappingsKept
  BY Zenon DEF MappingsKept
<1> QED
  BY <1>1, GuardedStayMapped, DestroyNeverNull, PTL

-----------------------------------------------------------------------------
(* Frames (Pmm) *)

\* No frame is in two hands, for any number of cores, layers and frames
\* and any number of calls of pmm::pop and pmm::push

PmmTypeOK ==
    /\ stack \in [Layers -> Seq(Nat)]
    /\ layerLock \in [Layers -> PmmCores \cup {PmmNobody}]
    /\ popping \in [PmmCores -> Seq(Layers)]
    /\ pmmAt \in [PmmCores -> {"out", "wait", "in", "read", "self", "push", "link"}]
    /\ ret \in [PmmCores -> Seq(Nat)]
    /\ taken \in [PmmCores -> SUBSET (Layers \X Nat)]

\* The layer that a core waits for or works on.
Layer(c) == Head(popping[c])

\* Who works on a layer holds its lock, and what pop has read is still there.
UnderLock ==
    \A c \in PmmCores :
        /\ pmmAt[c] \in {"wait", "in", "read", "push", "link"} => popping[c] # << >>
        /\ pmmAt[c] \in {"in", "read", "link"} => layerLock[Layer(c)] = c
        /\ pmmAt[c] = "read" => ret[c] = stack[Layer(c)] /\ ret[c] # << >>

\* Core c is giving frame x back to layer l.
Returns(c, l, x) == pmmAt[c] \in {"push", "link"} /\ Layer(c) = l /\ ret[c] = <<x>>

\* A frame on its way back is in no list, with no owner and on its way once.
ReturnsApart ==
    /\ \A c \in PmmCores : pmmAt[c] \in {"push", "link"} => \E x \in Nat : ret[c] = <<x>>
    /\ \A c \in PmmCores, l \in Layers, x \in Nat : Returns(c, l, x) =>
         /\ x \notin Range(stack[l])
         /\ \A d \in PmmCores : <<l, x>> \notin taken[d]
         /\ \A d \in PmmCores \ {c} : ~Returns(d, l, x)

PmmInv == PmmTypeOK /\ UnderLock /\ ReturnsApart /\ FrameInOneHand

-----------------------------------------------------------------------------
(* Facts about lists *)

\* The first of the layers that a pop goes through.
LEMMA HeadFacts ==
    /\ \A s \in Seq(Layers) : s # << >> => Head(s) \in Layers
    /\ \A s \in Seq(Layers), l \in Layers : <<l>> \o s # << >> /\ Head(<<l>> \o s) = l
    /\ \A l \in Layers : <<l>> # << >> /\ Head(<<l>>) = l
    /\ \A s \in Seq(Layers) : s # << >> => Tail(s) \in Seq(Layers)
<1>1. \A s \in Seq(Layers) : s # << >> => Head(s) \in Layers
  OBVIOUS
<1>2. \A s \in Seq(Layers), l \in Layers : <<l>> \o s # << >> /\ Head(<<l>> \o s) = l
  OBVIOUS
<1>3. \A l \in Layers : <<l>> # << >> /\ Head(<<l>>) = l
  OBVIOUS
<1>4. \A s \in Seq(Layers) : s # << >> => Tail(s) \in Seq(Layers)
  OBVIOUS
<1> QED  BY <1>1, <1>2, <1>3, <1>4, Zenon

\* Taking the first frame out of a list without duplicates.
LEMMA TakeFirst ==
    ASSUME NEW s \in Seq(Nat), s # << >>, IsInjective(s)
    PROVE  /\ Head(s) \in Nat /\ Tail(s) \in Seq(Nat) /\ IsInjective(Tail(s))
           /\ Head(s) \in Range(s) /\ Head(s) \notin Range(Tail(s))
           /\ Range(Tail(s)) \subseteq Range(s)
BY SMTT(30) DEF IsInjective, Range

\* Putting a new frame in front of one.
LEMMA PutFirst ==
    ASSUME NEW s \in Seq(Nat), IsInjective(s), NEW x \in Nat, x \notin Range(s)
    PROVE  <<x>> \o s \in Seq(Nat) /\ IsInjective(<<x>> \o s) /\ Range(<<x>> \o s) = Range(s) \cup {x}
<1> DEFINE t == <<x>> \o s
<1>1. /\ t \in Seq(Nat) /\ DOMAIN t = 1 .. Len(s) + 1 /\ DOMAIN s = 1 .. Len(s) /\ Len(s) \in Nat
      /\ t[1] = x /\ \A i \in 1 .. Len(s) : t[i + 1] = s[i]
  OBVIOUS
<1>2. \A k \in DOMAIN t : k = 1 \/ \E i \in 1 .. Len(s) : k = i + 1
  <2> SUFFICES ASSUME NEW k \in 1 .. Len(s) + 1, k # 1 PROVE \E i \in 1 .. Len(s) : k = i + 1
    BY <1>1, Zenon
  <2>1. k - 1 \in 1 .. Len(s) /\ k = (k - 1) + 1
    BY <1>1
  <2> QED  BY <2>1, Zenon
<1> HIDE DEF t
<1>3. \A i \in 1 .. Len(s) : s[i] # x
  BY <1>1, Zenon DEF Range
<1>4. IsInjective(t)
  <2> SUFFICES ASSUME NEW j \in DOMAIN t, NEW k \in DOMAIN t, t[j] = t[k] PROVE j = k
    BY Zenon DEF IsInjective
  <2>1. CASE j = 1 \/ k = 1
    BY <1>1, <1>2, <1>3, <2>1
  <2>2. CASE j # 1 /\ k # 1
    <3>1. PICK i \in 1 .. Len(s), h \in 1 .. Len(s) : j = i + 1 /\ k = h + 1
      BY <1>2, <2>2, Zenon
    <3>2. s[i] = s[h]
      BY <1>1, <3>1, Zenon
    <3>3. i = h
      BY <1>1, <3>2, Zenon DEF IsInjective
    <3> QED  BY <3>1, <3>3, Zenon
  <2> QED  BY <2>1, <2>2, Zenon
<1>5. Range(t) = Range(s) \cup {x}
  <2>1. \A y \in Range(t) : y \in Range(s) \cup {x}
    <3> TAKE y \in Range(t)
    <3>1. PICK k \in DOMAIN t : y = t[k]
      BY Zenon DEF Range
    <3>2. CASE k = 1
      BY <1>1, <3>1, <3>2, Zenon
    <3>3. CASE k # 1
      <4>1. PICK i \in 1 .. Len(s) : k = i + 1
        BY <1>2, <3>3, Zenon
      <4> QED  BY <1>1, <3>1, <4>1, Zenon DEF Range
    <3> QED  BY <3>2, <3>3, Zenon
  <2>2. x \in Range(t)
    BY <1>1 DEF Range
  <2>3. \A y \in Range(s) : y \in Range(t)
    <3> SUFFICES ASSUME NEW i \in 1 .. Len(s) PROVE s[i] \in Range(t)
      BY <1>1, Zenon DEF Range
    <3>1. i + 1 \in DOMAIN t /\ t[i + 1] = s[i]
      BY <1>1
    <3> QED  BY <3>1, Zenon DEF Range
  <2> QED  BY <2>1, <2>2, <2>3, Zenon
<1> QED  BY <1>1, <1>4, <1>5, Zenon DEF t

-----------------------------------------------------------------------------
(* The invariant *)

\* The initial states satisfy the invariant: every frame is in one list.
LEMMA PmmInitInv == PmmInit => PmmInv
<1> SUFFICES ASSUME PmmInit PROVE PmmInv
  BY Zenon
<1>1. PmmTypeOK
  BY PmmAssumption DEF PmmInit, PmmTypeOK, Layers
<1>2. UnderLock /\ ReturnsApart
  BY Zenon DEF PmmInit, UnderLock, ReturnsApart, Returns
<1>3. FrameInOneHand
  BY PmmAssumption, Zenon DEF PmmInit, FrameInOneHand, Layers
<1> QED  BY <1>1, <1>2, <1>3, Zenon DEF PmmInv

\* Every step of every core keeps the invariant.
LEMMA PmmStep == PmmInv /\ [PmmNext]_pmmVars => PmmInv'
<1> SUFFICES ASSUME PmmInv, [PmmNext]_pmmVars PROVE PmmInv'
  BY Zenon
<1> USE DEF PmmInv
<1>1. ASSUME NEW c \in PmmCores, PmmPop(c) PROVE PmmInv'
  <2>1. PICK l \in Layers : popping' = [popping EXCEPT ![c] = <<l>>]
    BY <1>1, Zenon DEF PmmPop
  <2>2. /\ pmmAt[c] = "out" /\ pmmAt' = [pmmAt EXCEPT ![c] = "wait"]
        /\ UNCHANGED <<stack, layerLock, ret, taken>>
    BY <1>1, Zenon DEF PmmPop, Calls
  <2>3. PmmTypeOK'
    BY <2>1, <2>2 DEF PmmTypeOK
  <2>4. \A d \in PmmCores : /\ popping'[d] = IF d = c THEN <<l>> ELSE popping[d]
                            /\ pmmAt'[d] = IF d = c THEN "wait" ELSE pmmAt[d]
    BY <2>1, <2>2, Zenon DEF PmmTypeOK
  <2>5. UnderLock'
    BY <2>2, <2>4, HeadFacts DEF UnderLock, Layer
  <2>6. ReturnsApart'
    BY <2>2, <2>4 DEF ReturnsApart, Returns, Layer
  <2>7. FrameInOneHand'
    BY <2>2, Zenon DEF FrameInOneHand
  <2> QED  BY <2>3, <2>5, <2>6, <2>7, Zenon
<1>2. ASSUME NEW c \in PmmCores, PmmPush(c) PROVE PmmInv'
  <2>1. PICK f \in taken[c] : /\ popping' = [popping EXCEPT ![c] = <<f[1]>>]
                              /\ ret' = [ret EXCEPT ![c] = <<f[2]>>]
                              /\ taken' = [taken EXCEPT ![c] = @ \ {f}]
    BY <1>2, Zenon DEF PmmPush
  <2>2. pmmAt' = [pmmAt EXCEPT ![c] = "push"] /\ UNCHANGED <<stack, layerLock>>
    BY <1>2, Zenon DEF PmmPush
  <2>3. PICK l \in Layers, x \in Nat : f = <<l, x>>
    BY DEF PmmTypeOK
  <2>4. \A d \in PmmCores : /\ popping'[d] = IF d = c THEN <<l>> ELSE popping[d]
                            /\ ret'[d] = IF d = c THEN <<x>> ELSE ret[d]
                            /\ pmmAt'[d] = IF d = c THEN "push" ELSE pmmAt[d]
                            /\ taken'[d] = IF d = c THEN taken[c] \ {<<l, x>>} ELSE taken[d]
    BY <2>1, <2>2, <2>3, Zenon DEF PmmTypeOK
  <2>5. PmmTypeOK'
    BY <2>1, <2>2, <2>3 DEF PmmTypeOK
  <2>6. UnderLock'
    BY <2>2, <2>4, HeadFacts DEF UnderLock, Layer
  <2>7. ReturnsApart'
    <3>1. \A d \in PmmCores : taken'[d] \subseteq taken[d] /\ <<l, x>> \notin taken'[d]
      BY <2>3, <2>4, Zenon DEF FrameInOneHand
    <3>2. \A d \in PmmCores, m \in Layers, y \in Nat :
             Returns(d, m, y)' <=> IF d = c THEN m = l /\ y = x ELSE Returns(d, m, y)
      BY <2>4, HeadFacts DEF Returns, Layer
    <3>3. x \notin Range(stack[l]) /\ \A d \in PmmCores : ~Returns(d, l, x)
      BY <2>3, Zenon DEF FrameInOneHand, ReturnsApart
    <3>4. \A d \in PmmCores : pmmAt'[d] \in {"push", "link"} => \E y \in Nat : ret'[d] = <<y>>
      BY <2>4 DEF ReturnsApart
    <3>5. ASSUME NEW d \in PmmCores, NEW m \in Layers, NEW y \in Nat, Returns(d, m, y)'
          PROVE  /\ y \notin Range(stack'[m])
                 /\ \A e \in PmmCores : <<m, y>> \notin taken'[e]
                 /\ \A e \in PmmCores \ {d} : ~Returns(e, m, y)'
      <4>1. CASE d = c
        BY <2>2, <3>1, <3>2, <3>3, <3>5, <4>1, Zenon
      <4>2. CASE d # c
        <5>1. /\ y \notin Range(stack[m]) /\ \A e \in PmmCores : <<m, y>> \notin taken[e]
              /\ \A e \in PmmCores \ {d} : ~Returns(e, m, y)
              /\ ~(m = l /\ y = x)
          BY <3>2, <3>3, <3>5, <4>2 DEF ReturnsApart
        <5> QED  BY <2>2, <3>1, <3>2, <5>1, Zenon
      <4> QED  BY <4>1, <4>2, Zenon
    <3> QED  BY <3>4, <3>5, Zenon DEF ReturnsApart
  <2>8. FrameInOneHand'
    BY <2>2, <2>4 DEF FrameInOneHand
  <2> QED  BY <2>5, <2>6, <2>7, <2>8, Zenon
<1>3. ASSUME NEW c \in PmmCores, PmmLock(c) PROVE PmmInv'
  <2>1. /\ pmmAt[c] \in {"wait", "push"} /\ layerLock[Layer(c)] = PmmNobody
        /\ layerLock' = [layerLock EXCEPT ![Layer(c)] = c]
        /\ pmmAt' = [pmmAt EXCEPT ![c] = IF @ = "wait" THEN "in" ELSE "link"]
        /\ UNCHANGED <<stack, popping, ret, taken>>
    BY <1>3, Zenon DEF PmmLock, Layer
  <2>2. Layer(c) \in Layers
    BY <2>1, HeadFacts, Zenon DEF UnderLock, Layer, PmmTypeOK
  <2>3. PmmTypeOK'
    BY <2>1, <2>2, Zenon DEF PmmTypeOK
  <2>4. /\ \A d \in PmmCores : pmmAt'[d] = IF d = c THEN IF pmmAt[c] = "wait" THEN "in" ELSE "link" ELSE pmmAt[d]
        /\ \A l \in Layers : layerLock'[l] = IF l = Layer(c) THEN c ELSE layerLock[l]
    BY <2>1, <2>2, Zenon DEF PmmTypeOK
  <2>5. \A d \in PmmCores : Layer(d)' = Layer(d)
    BY <2>1, Zenon DEF Layer
  <2>6. \A d \in PmmCores : pmmAt[d] \in {"in", "read", "link"} => Layer(d) \in Layers /\ Layer(d) # Layer(c)
    BY <2>1, HeadFacts, PmmAssumption DEF UnderLock, Layer, PmmTypeOK
  <2>7. UnderLock'
    BY <2>1, <2>2, <2>4, <2>5, <2>6 DEF UnderLock
  <2>8. \A d \in PmmCores, m \in Layers, y \in Nat : Returns(d, m, y)' <=> Returns(d, m, y)
    BY <2>1, <2>4, <2>5 DEF Returns
  <2>9. ReturnsApart'
    BY <2>1, <2>4, <2>8 DEF ReturnsApart
  <2>10. FrameInOneHand'
    BY <2>1, Zenon DEF FrameInOneHand
  <2> QED  BY <2>3, <2>7, <2>9, <2>10, Zenon
<1>4. ASSUME NEW c \in PmmCores, PmmEmpty(c) PROVE PmmInv'
  <2>1. CASE Layer(c) = Len(PmmFrames)
    <3>1. UNCHANGED <<stack, layerLock, popping, pmmAt, ret, taken>>
      BY <1>4, <2>1, Zenon DEF PmmEmpty, Layer
    <3>2. PmmTypeOK' /\ UnderLock'
      BY <3>1, Zenon DEF PmmTypeOK, UnderLock, Layer
    <3>3. ReturnsApart'
      BY <3>1 DEF ReturnsApart, Returns, Layer
    <3>4. FrameInOneHand'
      BY <3>1, Zenon DEF FrameInOneHand
    <3> QED  BY <3>2, <3>3, <3>4, Zenon
  <2>2. CASE Layer(c) # Len(PmmFrames)
    <3>1. /\ pmmAt[c] = "in" /\ popping' = [popping EXCEPT ![c] = <<Layer(c) + 1>> \o @]
          /\ pmmAt' = [pmmAt EXCEPT ![c] = "wait"] /\ UNCHANGED <<stack, layerLock, ret, taken>>
      BY <1>4, <2>2, Zenon DEF PmmEmpty, Layer
    <3>2. Layer(c) \in Layers
      BY <3>1, HeadFacts, Zenon DEF UnderLock, Layer, PmmTypeOK
    <3>3. PICK l \in Layers : l = Layer(c) + 1
      BY <2>2, <3>2, PmmAssumption DEF Layers
    <3>4. <<l>> \o popping[c] \in Seq(Layers)
      BY DEF PmmTypeOK
    <3>5. PmmTypeOK'
      BY <3>1, <3>3, <3>4, Zenon DEF PmmTypeOK
    <3>6. \A d \in PmmCores : /\ popping'[d] = IF d = c THEN <<l>> \o popping[c] ELSE popping[d]
                              /\ pmmAt'[d] = IF d = c THEN "wait" ELSE pmmAt[d]
      BY <3>1, <3>3, Zenon DEF PmmTypeOK
    <3>7. popping'[c] # << >>
      BY <3>6, HeadFacts, Zenon DEF PmmTypeOK
    <3>8. UnderLock'
      BY <3>1, <3>6, <3>7 DEF UnderLock, Layer
    <3>9. ReturnsApart'
      BY <3>1, <3>6 DEF ReturnsApart, Returns, Layer
    <3>10. FrameInOneHand'
      BY <3>1, Zenon DEF FrameInOneHand
    <3> QED  BY <3>5, <3>8, <3>9, <3>10, Zenon
  <2> QED  BY <2>1, <2>2, Zenon
<1>5. ASSUME NEW c \in PmmCores, PmmRead(c) PROVE PmmInv'
  <2>1. /\ pmmAt[c] = "in" /\ stack[Layer(c)] # << >>
        /\ ret' = [ret EXCEPT ![c] = stack[Layer(c)]] /\ pmmAt' = [pmmAt EXCEPT ![c] = "read"]
        /\ UNCHANGED <<stack, layerLock, popping, taken>>
    BY <1>5, Zenon DEF PmmRead, Layer
  <2>2. Layer(c) \in Layers
    BY <2>1, HeadFacts, Zenon DEF UnderLock, Layer, PmmTypeOK
  <2>3. PmmTypeOK'
    BY <2>1, <2>2, Zenon DEF PmmTypeOK
  <2>4. \A d \in PmmCores : /\ ret'[d] = IF d = c THEN stack[Layer(c)] ELSE ret[d]
                            /\ pmmAt'[d] = IF d = c THEN "read" ELSE pmmAt[d]
                            /\ Layer(d)' = Layer(d)
    BY <2>1, Zenon DEF PmmTypeOK, Layer
  <2>5. UnderLock'
    BY <2>1, <2>4 DEF UnderLock
  <2>6. ReturnsApart'
    BY <2>1, <2>4 DEF ReturnsApart, Returns
  <2>7. FrameInOneHand'
    BY <2>1, Zenon DEF FrameInOneHand
  <2> QED  BY <2>3, <2>5, <2>6, <2>7, Zenon
<1>6. ASSUME NEW c \in PmmCores, PmmTake(c) PROVE PmmInv'
  <2>1. /\ pmmAt[c] = "read"
        /\ stack' = [stack EXCEPT ![Layer(c)] = Tail(ret[c])]
        /\ layerLock' = [layerLock EXCEPT ![Layer(c)] = PmmNobody]
        /\ taken' = [taken EXCEPT ![c] = @ \cup {<<Layer(c), Head(ret[c])>>}]
        /\ popping' = [popping EXCEPT ![c] = Tail(@)]
        /\ pmmAt' = [pmmAt EXCEPT ![c] = IF Len(popping[c]) = 1 THEN "out" ELSE "self"]
        /\ UNCHANGED ret
    BY <1>6, Zenon DEF PmmTake, Unlocked, Layer
  <2>2. PICK l \in Layers : l = Layer(c)
    BY <2>1, HeadFacts, Zenon DEF UnderLock, Layer, PmmTypeOK
  <2>3. ret[c] = stack[l] /\ stack[l] # << >> /\ stack[l] \in Seq(Nat) /\ IsInjective(stack[l]) /\ layerLock[l] = c
    BY <2>1, <2>2, Zenon DEF UnderLock, PmmTypeOK, FrameInOneHand
  <2>4. PICK x \in Nat, s \in Seq(Nat) :
          /\ x = Head(ret[c]) /\ s = Tail(ret[c]) /\ IsInjective(s)
          /\ x \in Range(stack[l]) /\ x \notin Range(s) /\ Range(s) \subseteq Range(stack[l])
    BY <2>3, TakeFirst, Zenon
  <2>5. Tail(popping[c]) \in Seq(Layers)
    BY <2>1, HeadFacts, Zenon DEF UnderLock, PmmTypeOK
  <2>6. PmmTypeOK'
    BY <2>1, <2>2, <2>4, <2>5, SMTT(30) DEF PmmTypeOK
  <2>7. /\ \A m \in Layers : /\ stack'[m] = IF m = l THEN s ELSE stack[m]
                             /\ layerLock'[m] = IF m = l THEN PmmNobody ELSE layerLock[m]
        /\ \A d \in PmmCores : taken'[d] = IF d = c THEN taken[c] \cup {<<l, x>>} ELSE taken[d]
        /\ \A d \in PmmCores \ {c} : popping'[d] = popping[d] /\ pmmAt'[d] = pmmAt[d]
        /\ pmmAt'[c] \in {"out", "self"}
    BY <2>1, <2>2, <2>4, Zenon DEF PmmTypeOK
  <2>8. \A d \in PmmCores \ {c} : Layer(d)' = Layer(d)
    BY <2>7, Zenon DEF Layer
  <2>9. \A d \in PmmCores \ {c} : pmmAt[d] \in {"in", "read", "link"} => Layer(d) \in Layers /\ Layer(d) # l
    BY <2>3, HeadFacts, Zenon DEF UnderLock, Layer, PmmTypeOK
  <2>10. UnderLock'
    BY <2>1, <2>7, <2>8, <2>9 DEF UnderLock
  <2>11. \A d \in PmmCores, m \in Layers, y \in Nat : Returns(d, m, y)' => Returns(d, m, y) /\ d # c
    BY <2>1, <2>7, <2>8, Zenon DEF Returns
  <2>12. ReturnsApart'
    <3>1. \A d \in PmmCores : pmmAt'[d] \in {"push", "link"} => \E y \in Nat : ret'[d] = <<y>>
      BY <2>1, <2>7, Zenon DEF ReturnsApart
    <3>2. ASSUME NEW d \in PmmCores, NEW m \in Layers, NEW y \in Nat, Returns(d, m, y)'
          PROVE  /\ y \notin Range(stack'[m])
                 /\ \A e \in PmmCores : <<m, y>> \notin taken'[e]
                 /\ \A e \in PmmCores \ {d} : ~Returns(e, m, y)'
      <4>1. /\ y \notin Range(stack[m]) /\ \A e \in PmmCores : <<m, y>> \notin taken[e]
            /\ \A e \in PmmCores \ {d} : ~Returns(e, m, y)
        BY <2>11, <3>2, Zenon DEF ReturnsApart
      <4>2. Range(stack'[m]) \subseteq Range(stack[m]) /\ <<m, y>> # <<l, x>>
        BY <2>4, <2>7, <4>1, Zenon
      <4> QED  BY <2>7, <2>11, <4>1, <4>2
    <3> QED  BY <3>1, <3>2, Zenon DEF ReturnsApart
  <2>13. FrameInOneHand'
    <3>1. \A m \in Layers : IsInjective(stack'[m]) /\ Range(stack'[m]) \subseteq Range(stack[m])
      BY <2>4, <2>7, Zenon DEF FrameInOneHand
    <3>2. \A d \in PmmCores : <<l, x>> \notin taken[d]
      BY <2>4, Zenon DEF FrameInOneHand
    <3>3. ASSUME NEW d \in PmmCores, NEW f \in taken'[d]
          PROVE  f[2] \notin Range(stack'[f[1]]) /\ \A e \in PmmCores \ {d} : f \notin taken'[e]
      <4>1. CASE f = <<l, x>>
        <5>1. d = c /\ \A e \in PmmCores \ {d} : f \notin taken'[e]
          BY <2>7, <3>2, <3>3, <4>1, Zenon
        <5>2. x \notin Range(stack'[l])
          BY <2>4, <2>7, Zenon
        <5> QED  BY <4>1, <5>1, <5>2, Zenon
      <4>2. CASE f # <<l, x>>
        <5>1. f \in taken[d] /\ \A e \in PmmCores : f \in taken'[e] => f \in taken[e]
          BY <2>7, <4>2, Zenon
        <5>2. f[1] \in Layers
          BY <5>1 DEF PmmTypeOK
        <5> QED  BY <3>1, <5>1, <5>2, Zenon DEF FrameInOneHand
      <4> QED  BY <4>1, <4>2, Zenon
    <3> QED  BY <3>1, <3>3, Zenon DEF FrameInOneHand
  <2> QED  BY <2>6, <2>10, <2>12, <2>13, Zenon
<1>7. ASSUME NEW c \in PmmCores, PmmLink(c) PROVE PmmInv'
  <2>1. /\ pmmAt[c] = "link"
        /\ stack' = [stack EXCEPT ![Layer(c)] = ret[c] \o @]
        /\ layerLock' = [layerLock EXCEPT ![Layer(c)] = PmmNobody]
        /\ popping' = [popping EXCEPT ![c] = << >>]
        /\ pmmAt' = [pmmAt EXCEPT ![c] = "out"]
        /\ UNCHANGED <<ret, taken>>
    BY <1>7, Zenon DEF PmmLink, Unlocked, Layer
  <2>2. PICK l \in Layers : l = Layer(c)
    BY <2>1, HeadFacts, Zenon DEF UnderLock, Layer, PmmTypeOK
  <2>3. PICK x \in Nat : ret[c] = <<x>>
    BY <2>1, Zenon DEF ReturnsApart
  <2>4. Returns(c, l, x) /\ layerLock[l] = c /\ stack[l] \in Seq(Nat) /\ IsInjective(stack[l])
    BY <2>1, <2>2, <2>3, Zenon DEF Returns, UnderLock, PmmTypeOK, FrameInOneHand
  <2>5. /\ x \notin Range(stack[l]) /\ \A d \in PmmCores : <<l, x>> \notin taken[d]
        /\ \A d \in PmmCores \ {c} : ~Returns(d, l, x)
    BY <2>4, Zenon DEF ReturnsApart
  <2>6. PICK s \in Seq(Nat) : s = ret[c] \o stack[l] /\ IsInjective(s) /\ Range(s) = Range(stack[l]) \cup {x}
    BY <2>3, <2>4, <2>5, PutFirst, Zenon
  <2>7. PmmTypeOK'
    BY <2>1, <2>2, <2>6 DEF PmmTypeOK
  <2>8. /\ \A m \in Layers : /\ stack'[m] = IF m = l THEN s ELSE stack[m]
                             /\ layerLock'[m] = IF m = l THEN PmmNobody ELSE layerLock[m]
        /\ \A d \in PmmCores \ {c} : popping'[d] = popping[d] /\ pmmAt'[d] = pmmAt[d]
        /\ pmmAt'[c] = "out"
    BY <2>1, <2>2, <2>6, Zenon DEF PmmTypeOK
  <2>9. \A d \in PmmCores \ {c} : Layer(d)' = Layer(d)
    BY <2>8, Zenon DEF Layer
  <2>10. \A d \in PmmCores \ {c} : pmmAt[d] \in {"in", "read", "link"} => Layer(d) \in Layers /\ Layer(d) # l
    BY <2>4, HeadFacts, Zenon DEF UnderLock, Layer, PmmTypeOK
  <2>11. UnderLock'
    BY <2>1, <2>8, <2>9, <2>10 DEF UnderLock
  <2>12. \A d \in PmmCores, m \in Layers, y \in Nat : Returns(d, m, y)' => Returns(d, m, y) /\ d # c
    BY <2>1, <2>8, <2>9, Zenon DEF Returns
  <2>13. ReturnsApart'
    <3>1. \A d \in PmmCores : pmmAt'[d] \in {"push", "link"} => \E y \in Nat : ret'[d] = <<y>>
      BY <2>1, <2>8, Zenon DEF ReturnsApart
    <3>2. ASSUME NEW d \in PmmCores, NEW m \in Layers, NEW y \in Nat, Returns(d, m, y)'
          PROVE  /\ y \notin Range(stack'[m])
                 /\ \A e \in PmmCores : <<m, y>> \notin taken'[e]
                 /\ \A e \in PmmCores \ {d} : ~Returns(e, m, y)'
      <4>1. /\ y \notin Range(stack[m]) /\ \A e \in PmmCores : <<m, y>> \notin taken[e]
            /\ \A e \in PmmCores \ {d} : ~Returns(e, m, y)
        BY <2>12, <3>2, Zenon DEF ReturnsApart
      <4>2. ~(m = l /\ y = x)
        BY <2>5, <2>12, <3>2, Zenon
      <4>3. y \notin Range(stack'[m])
        BY <2>6, <2>8, <4>1, <4>2, Zenon
      <4> QED  BY <2>1, <2>12, <4>1, <4>3, Zenon
    <3> QED  BY <3>1, <3>2, Zenon DEF ReturnsApart
  <2>14. FrameInOneHand'
    <3>1. \A m \in Layers : IsInjective(stack'[m])
      BY <2>6, <2>8, Zenon DEF FrameInOneHand
    <3>2. ASSUME NEW d \in PmmCores, NEW f \in taken[d]
          PROVE  f[2] \notin Range(stack'[f[1]])
      <4>1. PICK m \in Layers, y \in Nat : f = <<m, y>>
        BY DEF PmmTypeOK
      <4>2. y \notin Range(stack[m]) /\ ~(m = l /\ y = x)
        BY <2>5, <4>1, Zenon DEF FrameInOneHand
      <4> QED  BY <2>6, <2>8, <4>1, <4>2, Zenon
    <3> QED  BY <2>1, <3>1, <3>2, Zenon DEF FrameInOneHand
  <2> QED  BY <2>7, <2>11, <2>13, <2>14, Zenon
<1>8. CASE UNCHANGED pmmVars
  <2>1. UNCHANGED <<stack, layerLock, popping, pmmAt, ret, taken>>
    BY <1>8, Zenon DEF pmmVars
  <2>2. PmmTypeOK'
    BY <2>1, Zenon DEF PmmTypeOK
  <2>3. UnderLock'
    BY <2>1, Zenon DEF UnderLock, Layer
  <2>4. ReturnsApart'
    BY <2>1 DEF ReturnsApart, Returns, Layer
  <2>5. FrameInOneHand'
    BY <2>1, Zenon DEF FrameInOneHand
  <2> QED  BY <2>2, <2>3, <2>4, <2>5, Zenon
<1> QED  BY <1>1, <1>2, <1>3, <1>4, <1>5, <1>6, <1>7, <1>8, Zenon DEF PmmNext

-----------------------------------------------------------------------------
(* Results *)

\* pmm::pop and pmm::push keep every frame in one hand, for any number of cores,
\* layers and frames: once in the list of its layer, with the one core that
\* popped it, or on its way back.  The list that pop reads is still the list of
\* the layer when it takes the first frame off.
THEOREM FramesApart == PmmSpec => []FrameInOneHand
<1>1. PmmInv => FrameInOneHand
  BY Zenon DEF PmmInv
<1> QED  BY <1>1, PmmInitInv, PmmStep, PTL DEF PmmSpec

-----------------------------------------------------------------------------
(* Virtual memory objects (Vmo) *)

Elements == [offset : Nat, frame : Nat]

VmoTypeOK ==
    /\ asked \in Nat /\ length \in Nat /\ elements \in Seq(Elements) /\ framesTaken \in Nat
    /\ vmoStep \in {"idle", "created", "mapped", "unmapped", "destroyed"}

\* Rounding up does not lose what was asked for, unless it overflows.
LongEnough == NoOverflow => asked <= length

\* The elements stand one behind the other from offset 0 on, inside the object.
OffsetsApart == \A i, j \in 1 .. Len(elements) : i < j => elements[i].offset + VmoPage <= elements[j].offset
InElement(b, i) == elements[i].offset <= b /\ b < elements[i].offset + VmoPage
Covered == \A b \in Nat : b < elements[Len(elements)].offset + VmoPage => \E i \in 1 .. Len(elements) : InElement(b, i)
Inside == length # 0 => \A i \in 1 .. Len(elements) : elements[i].offset < length

\* The last one may wait for its frame.
FramesInOrder == \A i \in 1 .. Len(elements) : elements[i].frame = i \/ (i = Len(elements) /\ elements[i].frame = 0)

ElementsInOrder == OffsetsApart /\ Covered /\ Inside /\ FramesInOrder

Complete ==
    /\ elements[Len(elements)].frame = Len(elements) /\ framesTaken = Len(elements)
    /\ elements[Len(elements)].offset + VmoPage >= length

VmoInv ==
    /\ VmoTypeOK /\ LongEnough
    /\ vmoStep = "idle" => elements = << >> /\ framesTaken = 0
    /\ vmoStep # "idle" =>
          /\ Len(elements) > 0 /\ ElementsInOrder
          /\ Complete \/ (elements[Len(elements)].frame = 0 /\ framesTaken = Len(elements) - 1 /\ vmoStep = "created")
    /\ vmoStep = "mapped" => mapped = {elements[i].offset : i \in 1 .. Len(elements)}
    /\ vmoStep \in {"unmapped", "destroyed"} /\ length # 0 => mapped = {}
    /\ AllFramesReturned

\* The elements of an object, by their type.
LEMMA ElementFacts ==
    ASSUME elements \in Seq(Elements)
    PROVE  /\ Len(elements) \in Nat /\ DOMAIN elements = 1 .. Len(elements)
           /\ \A i \in 1 .. Len(elements) : elements[i].offset \in Nat /\ elements[i].frame \in Nat
  <1>1. \A i \in 1 .. Len(elements) : elements[i] \in Elements
    OBVIOUS
  <1> QED BY <1>1 DEF Elements

\* A function on 1 .. n is a sequence.
LEMMA SequenceOf ==
    ASSUME NEW S, NEW n \in Nat, NEW f, f = [i \in 1 .. n |-> f[i]], \A i \in 1 .. n : f[i] \in S
    PROVE  f \in Seq(S) /\ Len(f) = n
  OBVIOUS

\* The order of the elements depends on the elements and on the length only.
LEMMA ElementsSame ==
    ASSUME UNCHANGED <<length, elements>>
    PROVE  ElementsInOrder' <=> ElementsInOrder
  <1>1. (OffsetsApart' <=> OffsetsApart) /\ (Inside' <=> Inside) /\ (FramesInOrder' <=> FramesInOrder)
    BY Zenon DEF OffsetsApart, Inside, FramesInOrder
  <1>2. Covered' <=> Covered
    BY Zenon DEF Covered, InElement
  <1> QED BY <1>1, <1>2, Zenon DEF ElementsInOrder

\* Rounding up to pages does not make the length smaller, unless it overflows.
LEMMA Rounding ==
    ASSUME NEW bytes \in 0 .. VmoWidth - 1
    PROVE  RoundedUp(bytes) \in Nat /\ (bytes <= VmoWidth - VmoPage => bytes <= RoundedUp(bytes))
  <1> DEFINE r == ((VmoPage - bytes) % VmoWidth) % VmoPage
  <1>1. (VmoPage - bytes) % VmoWidth \in Int
    BY VmoAssumption
  <1>2. r \in 0 .. VmoPage - 1
    BY <1>1, VmoAssumption
  <1>3. RoundedUp(bytes) = (bytes + r) % VmoWidth
    BY Zenon DEF RoundedUp
  <1> HIDE DEF r
  <1>4. RoundedUp(bytes) \in Nat
    BY <1>2, <1>3, VmoAssumption
  <1>5. ASSUME bytes <= VmoWidth - VmoPage PROVE bytes <= RoundedUp(bytes)
    <2>1. bytes + r \in 0 .. VmoWidth - 1
      BY <1>2, <1>5, VmoAssumption
    <2>2. (bytes + r) % VmoWidth = bytes + r
      BY <2>1, VmoAssumption
    <2> QED BY <1>2, <1>3, <2>2
  <1> QED BY <1>4, <1>5, Zenon

\* Before an object is made, nothing is claimed of it.
LEMMA VmoInitInv == VmoInit => VmoInv
  BY DEF VmoInit, VmoInv, VmoTypeOK, LongEnough, NoOverflow, AllFramesReturned

\* A new object has one element, at offset 0, without a frame.
LEMMA CreateSparseInv == ASSUME VmoInv, CreateSparse PROVE VmoInv'
  <1>1. PICK bytes \in 0 .. VmoWidth - 1 : asked' = bytes /\ length' = RoundedUp(bytes)
    BY Zenon DEF CreateSparse
  <1>2. /\ elements' = <<[offset |-> 0, frame |-> 0]>> /\ vmoStep' = "created" /\ framesTaken' = 0
    BY Zenon DEF CreateSparse, VmoInv
  <1>3. /\ elements' \in Seq(Elements) /\ Len(elements') = 1 /\ elements'[1].offset = 0 /\ elements'[1].frame = 0
    BY <1>2 DEF Elements
  <1>4. asked' \in Nat /\ length' \in Nat /\ LongEnough'
    BY <1>1, Rounding DEF LongEnough, NoOverflow
  <1>5. ElementsInOrder'
    <2>1. OffsetsApart' /\ Inside' /\ FramesInOrder'
      BY <1>3, <1>4 DEF OffsetsApart, Inside, FramesInOrder
    <2>2. Covered'
      <3>1. \A b \in Nat : b < VmoPage => InElement(b, 1)'
        BY <1>3, VmoAssumption DEF InElement
      <3> QED BY <1>3, <3>1, VmoAssumption DEF Covered
    <2> QED BY <2>1, <2>2, Zenon DEF ElementsInOrder
  <1> QED BY <1>2, <1>3, <1>4, <1>5 DEF VmoInv, VmoTypeOK, AllFramesReturned

\* Only the last element can be without a frame.
LEMMA LastUncommitted ==
    ASSUME VmoInv, vmoStep # "idle"
    PROVE  \/ Uncommitted = 0 /\ Complete
           \/ Uncommitted = Len(elements) /\ elements[Len(elements)].frame = 0 /\ framesTaken + 1 = Len(elements) /\ vmoStep = "created"
  <1>1. PICK n \in Nat : n = Len(elements) /\ n > 0 /\ DOMAIN elements = 1 .. n
    <2>1. elements \in Seq(Elements) /\ Len(elements) > 0
      BY Zenon DEF VmoInv, VmoTypeOK
    <2>2. Len(elements) \in Nat /\ DOMAIN elements = 1 .. Len(elements)
      BY <2>1, ElementFacts, Zenon
    <2> QED BY <2>1, <2>2, Zenon
  <1>2. Complete \/ (elements[n].frame = 0 /\ framesTaken = n - 1 /\ vmoStep = "created")
    BY <1>1, Zenon DEF VmoInv
  <1>3. n \in 1 .. n /\ framesTaken \in Nat
    BY <1>1 DEF VmoInv, VmoTypeOK
  <1>4. \A i \in 1 .. n : elements[i].frame = i \/ (i = n /\ elements[i].frame = 0)
    BY <1>1, Zenon DEF VmoInv, ElementsInOrder, FramesInOrder
  <1>5. CASE elements[n].frame = 0
    <2>1. \A i \in 1 .. n : elements[i].frame = 0 => i = n
      BY <1>4
    <2>2. \A j \in 1 .. n - 1 : elements[j].frame # 0
      BY <1>4
    <2>3. n \in DOMAIN elements /\ \A i \in DOMAIN elements : elements[i].frame = 0 => i = n
      BY <1>1, <1>3, <2>1, Zenon
    <2>4. Uncommitted = n
      BY <1>5, <2>2, <2>3, Zenon DEF Uncommitted
    <2>5. ~ Complete
      BY <1>1, <1>5 DEF Complete
    <2>6. framesTaken + 1 = n /\ vmoStep = "created"
      BY <1>2, <1>3, <2>5
    <2> QED BY <1>1, <1>5, <2>4, <2>6, Zenon
  <1>6. CASE elements[n].frame # 0
    <2>1. \A i \in 1 .. n : elements[i].frame # 0
      BY <1>4, <1>6
    <2>2. Uncommitted = 0
      BY <1>1, <2>1, Zenon DEF Uncommitted
    <2> QED BY <1>2, <1>6, <2>2, Zenon
  <1> QED BY <1>5, <1>6, Zenon

\* Committing an element gives it a frame, and makes the rest an element behind it.
LEMMA CommitElementInv == ASSUME VmoInv, CommitElement PROVE VmoInv'
  <1> DEFINE n == Len(elements)
             e == elements[n]
             last == [offset |-> e.offset, frame |-> framesTaken + 1]
             done == [elements EXCEPT ![n] = last]
             new == [offset |-> e.offset + VmoPage, frame |-> 0]
  <1> VmoPage \in Nat /\ VmoPage > 0
    BY VmoAssumption
  <1>1. /\ vmoStep = "created" /\ vmoStep' = "created" /\ Uncommitted # 0 /\ framesTaken' = framesTaken + 1
        /\ UNCHANGED <<asked, length, framesReturned, mapped>> /\ framesTaken \in Nat /\ length \in Nat
        /\ elements \in Seq(Elements) /\ ElementsInOrder
    BY Zenon DEF CommitElement, VmoInv, VmoTypeOK
  <1>2. /\ n \in Nat /\ n > 0 /\ DOMAIN elements = 1 .. n
        /\ \A i \in 1 .. n : elements[i].offset \in Nat /\ elements[i].frame \in Nat
    <2>1. Len(elements) > 0
      BY <1>1, Zenon DEF VmoInv
    <2> QED BY <1>1, <2>1, ElementFacts, Zenon
  <1>3. Uncommitted = n /\ framesTaken + 1 = n
    BY <1>1, LastUncommitted, Zenon
  <1>4. elements' = IF e.offset + VmoPage < length THEN Inserted(done, n + 1, new) ELSE done
    BY <1>1, <1>3, Zenon DEF CommitElement, ElementFits
  <1>5. /\ last \in Elements /\ new \in Elements /\ last.offset = e.offset /\ last.frame = n /\ new.frame = 0
        /\ new.offset = e.offset + VmoPage /\ e.offset \in Nat
    <2>1. e.offset \in Nat /\ framesTaken + 1 = n
      BY <1>2, <1>3
    <2>2. e.offset + VmoPage \in Nat /\ n \in Nat
      BY <1>2, <2>1
    <2> HIDE DEF e, n
    <2> QED BY <2>1, <2>2, Zenon DEF Elements
  <1> HIDE DEF last, new
  <1>6. /\ done \in Seq(Elements) /\ Len(done) = n /\ done[n] = last
        /\ \A i \in 1 .. n - 1 : done[i] = elements[i]
    <2>1. elements \in Seq(Elements) /\ n \in 1 .. n
      BY <1>1, <1>2
    <2> HIDE DEF e, n
    <2>2. DOMAIN done = 1 .. n /\ done[n] = last /\ \A i \in 1 .. n - 1 : done[i] = elements[i]
      BY <1>2, <2>1
    <2>3. \A i \in 1 .. n : done[i] \in Elements
      <3>1. \A i \in 1 .. n : elements[i] \in Elements
        BY <2>1 DEF n
      <3> QED BY <1>2, <1>5, <3>1, Zenon
    <2>4. done = [i \in 1 .. n |-> done[i]]
      BY <1>2, Zenon
    <2> HIDE DEF done
    <2> QED BY <1>2, <2>2, <2>3, <2>4, SequenceOf, Zenon
  <1> HIDE DEF done, e, n
  <1>7. \A i \in 1 .. n : done[i].offset = elements[i].offset /\ done[i].frame = i
    <2> TAKE i \in 1 .. n
    <2>1. CASE i = n
      BY <1>5, <1>6, <2>1, Zenon DEF e
    <2>2. CASE i # n
      <3>1. done[i] = elements[i]
        BY <1>2, <1>6, <2>2
      <3> QED BY <1>1, <2>2, <3>1, Zenon DEF ElementsInOrder, FramesInOrder, n
    <2> QED BY <2>1, <2>2, Zenon
  <1>8. /\ OffsetsApart /\ Covered /\ Inside
        /\ asked' \in Nat /\ length' \in Nat /\ framesTaken' \in Nat /\ LongEnough' /\ AllFramesReturned'
    BY <1>1, <1>3 DEF VmoInv, VmoTypeOK, ElementsInOrder, LongEnough, NoOverflow, AllFramesReturned
  <1>9. CASE ~ e.offset + VmoPage < length
    <2>1. elements' = done /\ Len(elements') = n
      BY <1>4, <1>6, <1>9, Zenon
    <2>2. \A i \in 1 .. n : elements'[i].offset = elements[i].offset /\ elements'[i].frame = i
      BY <1>7, <2>1, Zenon
    <2>3. OffsetsApart' /\ Inside' /\ FramesInOrder'
      BY <1>1, <1>8, <2>1, <2>2 DEF OffsetsApart, Inside, FramesInOrder, n
    <2>4. Covered'
      <3>1. \A b, i : i \in 1 .. n => (InElement(b, i)' <=> InElement(b, i))
        BY <2>2, Zenon DEF InElement
      <3>2. elements'[n].offset = elements[n].offset
        BY <1>2, <2>2
      <3> QED BY <1>8, <2>1, <3>1, <3>2, Zenon DEF Covered, n
    <2>5. Complete'
      <3>1. elements'[n].offset = e.offset /\ elements'[n].frame = n
        BY <1>2, <2>2 DEF e
      <3>2. e.offset + VmoPage >= length
        BY <1>1, <1>5, <1>9
      <3> QED BY <1>1, <1>3, <2>1, <3>1, <3>2, Zenon DEF Complete
    <2>6. ElementsInOrder' /\ VmoTypeOK' /\ Len(elements') > 0
      BY <1>1, <1>2, <1>6, <1>8, <2>1, <2>3, <2>4, Zenon DEF ElementsInOrder, VmoTypeOK
    <2> QED BY <1>1, <1>8, <2>5, <2>6, Zenon DEF VmoInv
  <1>10. CASE e.offset + VmoPage < length
    <2>1. elements' = [j \in 1 .. n + 1 |-> IF j < n + 1 THEN done[j] ELSE IF j = n + 1 THEN new ELSE done[j - 1]]
      BY <1>4, <1>6, <1>10, Zenon DEF Inserted
    <2>2. /\ elements' \in Seq(Elements) /\ Len(elements') = n + 1 /\ elements'[n + 1] = new
          /\ \A i \in 1 .. n : elements'[i] = done[i]
      <3>1. \A j \in 1 .. n : done[j] \in Elements
        BY <1>2, <1>6
      <3>2. \A j \in 1 .. n + 1 : (IF j < n + 1 THEN done[j] ELSE IF j = n + 1 THEN new ELSE done[j - 1]) \in Elements
        BY <1>2, <1>5, <3>1
      <3> QED BY <1>2, <2>1, <3>2
    <2>3. \A i \in 1 .. n + 1 : i = n + 1 \/ i \in 1 .. n
      BY <1>2
    <2>4. /\ elements'[n + 1].offset = e.offset + VmoPage /\ elements'[n + 1].frame = 0
          /\ \A i \in 1 .. n : elements'[i].offset = elements[i].offset /\ elements'[i].frame = i
      BY <1>5, <1>7, <2>2, Zenon
    <2>5. \A i \in 1 .. n : elements[i].offset + VmoPage <= e.offset + VmoPage
      <3> TAKE i \in 1 .. n
      <3>1. CASE i = n
        BY <1>2, <1>5, <3>1 DEF e
      <3>2. CASE i # n
        <4>1. elements[i].offset + VmoPage <= e.offset /\ elements[i].offset \in Nat
          <5>1. i < n /\ n \in 1 .. n
            BY <1>2, <3>2
          <5> QED BY <1>2, <1>8, <5>1, Zenon DEF OffsetsApart, e, n
        <4> QED BY <1>5, <4>1
      <3> QED BY <3>1, <3>2, Zenon
    <2>6. ASSUME NEW i \in 1 .. n + 1, NEW j \in 1 .. n + 1, i < j
          PROVE  elements'[i].offset + VmoPage <= elements'[j].offset
      <3>1. i \in 1 .. n
        BY <1>2, <2>6
      <3>2. CASE j = n + 1
        BY <2>4, <2>5, <3>1, <3>2, Zenon
      <3>3. CASE j \in 1 .. n
        BY <1>8, <2>4, <2>6, <3>1, <3>3, Zenon DEF OffsetsApart, n
      <3> QED BY <2>3, <3>2, <3>3, Zenon
    <2>7. OffsetsApart'
      BY <2>2, <2>6, Zenon DEF OffsetsApart
    <2>8. ASSUME NEW b \in Nat, b < elements'[n + 1].offset + VmoPage
          PROVE  \E i \in 1 .. n + 1 : InElement(b, i)'
      <3>1. CASE b < e.offset + VmoPage
        <4>1. PICK i \in 1 .. n : InElement(b, i)
          BY <1>8, <3>1, Zenon DEF Covered, e, n
        <4>2. i \in 1 .. n + 1 /\ InElement(b, i)'
          BY <1>2, <2>4, <4>1 DEF InElement
        <4> QED BY <4>2, Zenon
      <3>2. CASE ~ b < e.offset + VmoPage
        <4>1. n + 1 \in 1 .. n + 1 /\ e.offset + VmoPage <= b
          BY <1>2, <1>5, <3>2
        <4> QED BY <2>4, <2>8, <4>1, Zenon DEF InElement
      <3> QED BY <3>1, <3>2, Zenon
    <2>9. Covered'
      BY <2>2, <2>8, Zenon DEF Covered
    <2>10. Inside'
      BY <1>1, <1>8, <1>10, <2>2, <2>3, <2>4, Zenon DEF Inside, n
    <2>11. FramesInOrder'
      BY <2>2, <2>3, <2>4, Zenon DEF FramesInOrder
    <2>12. ElementsInOrder' /\ VmoTypeOK' /\ Len(elements') > 0
      BY <1>1, <1>2, <1>8, <2>2, <2>7, <2>9, <2>10, <2>11 DEF ElementsInOrder, VmoTypeOK
    <2>13. elements'[Len(elements')].frame = 0 /\ framesTaken' = Len(elements') - 1
      BY <1>1, <1>2, <1>3, <2>2, <2>4
    <2> QED BY <1>1, <1>8, <2>12, <2>13, Zenon DEF VmoInv
  <1> QED BY <1>9, <1>10, Zenon

\* Mapping goes through the elements of a complete object.
LEMMA MapElementsInv == ASSUME VmoInv, MapElements PROVE VmoInv'
  <1>1. Complete /\ DOMAIN elements = 1 .. Len(elements) /\ UNCHANGED <<asked, length, elements, framesTaken, framesReturned>>
    <2>1. vmoStep # "idle" /\ Uncommitted = 0 /\ UNCHANGED <<asked, length, elements, framesTaken, framesReturned>>
      BY Zenon DEF MapElements
    <2>2. DOMAIN elements = 1 .. Len(elements) /\ (Len(elements) > 0 => 0 # Len(elements))
      <3>1. elements \in Seq(Elements)
        BY Zenon DEF VmoInv, VmoTypeOK
      <3> QED BY <3>1, ElementFacts
    <2>3. Len(elements) > 0
      BY <2>1, Zenon DEF VmoInv
    <2> QED BY <2>1, <2>2, <2>3, LastUncommitted, Zenon
  <1>2. mapped' = {elements'[i].offset : i \in 1 .. Len(elements')} /\ vmoStep' = "mapped"
    BY <1>1, Zenon DEF MapElements
  <1>3. VmoTypeOK' /\ LongEnough' /\ AllFramesReturned'
    BY <1>1, <1>2, Zenon DEF VmoInv, VmoTypeOK, LongEnough, NoOverflow, AllFramesReturned
  <1>4. Len(elements') > 0 /\ ElementsInOrder' /\ Complete'
    BY <1>1, ElementsSame, Zenon DEF VmoInv, MapElements, Complete
  <1> QED BY <1>2, <1>3, <1>4, Zenon DEF VmoInv

\* Unmapping keeps the elements.
LEMMA UnmapRangeInv == ASSUME VmoInv, UnmapRange PROVE VmoInv'
  <1>1. /\ vmoStep = "mapped" /\ vmoStep' = "unmapped" /\ mapped' = {o \in mapped : ~ o < length}
        /\ UNCHANGED <<asked, length, elements, framesTaken, framesReturned>>
    BY Zenon DEF UnmapRange
  <1>2. length # 0 => mapped' = {}
    BY <1>1, Zenon DEF VmoInv, ElementsInOrder, Inside
  <1>3. VmoTypeOK' /\ LongEnough' /\ AllFramesReturned'
    BY <1>1, Zenon DEF VmoInv, VmoTypeOK, LongEnough, NoOverflow, AllFramesReturned
  <1>4. Len(elements') > 0 /\ ElementsInOrder' /\ Complete'
    BY <1>1, ElementsSame, Zenon DEF VmoInv, Complete
  <1> QED BY <1>1, <1>2, <1>3, <1>4, Zenon DEF VmoInv

\* What the proof uses of counting; SingletonCounted below shows it.
OneIsCounted == \A f : Cardinality({f}) = 1

\* The destructor gives every frame back once.
LEMMA DestroyVmoInv == ASSUME OneIsCounted, VmoInv, DestroyVmo PROVE VmoInv'
  <1> DEFINE n == Len(elements)
  <1>1. /\ vmoStep = "unmapped" /\ vmoStep' = "destroyed" /\ UNCHANGED <<asked, length, elements, framesTaken, mapped>>
        /\ DOMAIN elements = 1 .. n /\ n \in Nat /\ n > 0 /\ ElementsInOrder /\ Complete
    BY DEF DestroyVmo, VmoInv, VmoTypeOK
  <1>2. framesTaken = n /\ \A i \in 1 .. n : elements[i].frame = i
    BY <1>1, Zenon DEF ElementsInOrder, FramesInOrder, Complete
  <1>3. Backings = 1 .. n
    BY <1>1, <1>2 DEF Backings
  <1>4. {elements[i].frame : i \in Backings} = 1 .. n
    BY <1>2, <1>3, Zenon
  <1>5. ASSUME NEW f \in 1 .. n PROVE Cardinality({i \in Backings : elements[i].frame = f}) = 1
    <2>1. {i \in Backings : elements[i].frame = f} = {f}
      BY <1>2, <1>3, Zenon
    <2> QED BY <2>1, Zenon DEF OneIsCounted
  <1>6. framesReturned' = [f \in 1 .. n |-> Cardinality({i \in Backings : elements[i].frame = f})]
    BY <1>4, Zenon DEF DestroyVmo
  <1>7. AllFramesReturned'
    BY <1>1, <1>2, <1>5, <1>6, Zenon DEF AllFramesReturned
  <1>8. VmoTypeOK' /\ LongEnough'
    BY <1>1, Zenon DEF VmoInv, VmoTypeOK, LongEnough, NoOverflow
  <1>9. ElementsInOrder' /\ Complete'
    BY <1>1, ElementsSame, Zenon DEF Complete
  <1> QED BY <1>1, <1>7, <1>8, <1>9, Zenon DEF VmoInv

\* Every step keeps the invariant.
LEMMA VmoStep == ASSUME OneIsCounted, VmoInv, [VmoNext]_vmoVars PROVE VmoInv'
  <1>1. CASE UNCHANGED vmoVars
    BY <1>1, ElementsSame, Zenon DEF vmoVars, VmoInv, VmoTypeOK, LongEnough, NoOverflow, Complete, AllFramesReturned
  <1> QED BY <1>1, CreateSparseInv, CommitElementInv, MapElementsInv, UnmapRangeInv, DestroyVmoInv, Zenon DEF VmoNext

\* The invariant says what an object promises.
LEMMA VmoInvSound == ASSUME VmoInv PROVE VmoSound
  <1> SUFFICES CommittedWhole /\ NothingStaysMapped
    BY Zenon DEF VmoInv, VmoSound
  <1>1. NothingStaysMapped
    BY Zenon DEF VmoInv, NothingStaysMapped
  <1>2. ASSUME vmoStep \in {"mapped", "unmapped"}, NoOverflow
        PROVE  /\ \A b \in 0 .. asked - 1 : \E i \in DOMAIN elements : b \in elements[i].offset .. elements[i].offset + VmoPage - 1
               /\ \A i, j \in DOMAIN elements : i < j =>
                     elements[i].offset + VmoPage <= elements[j].offset /\ elements[i].frame # elements[j].frame
    <2>1. /\ ElementsInOrder /\ Complete /\ asked <= length /\ asked \in Nat /\ length \in Nat /\ elements \in Seq(Elements)
          /\ Len(elements) > 0
      BY <1>2, Zenon DEF VmoInv, VmoTypeOK, LongEnough
    <2>2. /\ DOMAIN elements = 1 .. Len(elements) /\ Len(elements) \in Nat
          /\ \A i \in 1 .. Len(elements) : elements[i].offset \in Nat
      BY <2>1, ElementFacts, Zenon
    <2>3. ASSUME NEW b \in 0 .. asked - 1
          PROVE  \E i \in DOMAIN elements : b \in elements[i].offset .. elements[i].offset + VmoPage - 1
      <3>1. b < elements[Len(elements)].offset + VmoPage /\ b \in Nat
        BY <2>1, <2>2, VmoAssumption DEF Complete
      <3>2. PICK i \in 1 .. Len(elements) : InElement(b, i)
        BY <2>1, <3>1, Zenon DEF ElementsInOrder, Covered
      <3>3. b \in elements[i].offset .. elements[i].offset + VmoPage - 1
        BY <2>2, <3>1, <3>2, VmoAssumption DEF InElement
      <3> QED BY <2>2, <3>3, Zenon
    <2>4. \A i \in 1 .. Len(elements) : elements[i].frame = i
      BY <2>1, Zenon DEF ElementsInOrder, FramesInOrder, Complete
    <2>5. \A i, j \in 1 .. Len(elements) : i < j =>
             elements[i].offset + VmoPage <= elements[j].offset /\ elements[i].frame # elements[j].frame
      BY <2>1, <2>4 DEF ElementsInOrder, OffsetsApart
    <2> QED BY <2>2, <2>3, <2>5, Zenon
  <1> QED BY <1>1, <1>2, Zenon DEF CommittedWhole

-----------------------------------------------------------------------------
(* Results.  The counting and the least elements that the steps above take *)
(* as assumptions are shown here, from the theorems of the library.        *)

INSTANCE FiniteSetTheorems

\* The counting that DestroyVmoInv uses.
LEMMA SingletonCounted == OneIsCounted
  BY FS_Singleton, Zenon DEF OneIsCounted

\* A sparse object of any length, on a machine of any page size and word size, has
\* all the frames that were asked for, leaves none of them mapped and gives each
\* back once (create_sparse_vmo, commit_between_offsets and ~vmo of vmo.cpp).
THEOREM ObjectsSound == VmoSpec => []VmoSound
  <1>1. VmoInv /\ [VmoNext]_vmoVars => VmoInv'
    BY SingletonCounted, VmoStep, Zenon
  <1> QED BY <1>1, VmoInitInv, VmoInvSound, PTL DEF VmoSpec
=============================================================================
