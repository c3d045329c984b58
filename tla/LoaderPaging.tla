---------------------------- MODULE LoaderPaging ----------------------------
(***************************************************************************)
(* The page tables that the UEFI loader builds for the kernel              *)
(* (loaders/uefi/cpu/amd64/paging.cpp): the recursive _vm_map and the      *)
(* three functions that call it for pages, large and huge pages.           *)
(*                                                                         *)
(* A table has LpFan entries and there are LpLevels levels; addresses are  *)
(* counted in half pages, and wrap around at the end of the space.         *)
(***************************************************************************)
EXTENDS Naturals, FiniteSets, TLC

CONSTANTS
    LpFan, LpLevels,
    LpCalls,        \* the ranges: [phys, bytes, virt]
    LpMaxCalls      \* bound on the calls

VARIABLES
    pml,        \* <<level, number of the entry>> -> "table" or the physical address, a partial function
    lpCalls,    \* the calls made: [lowest, phys, size, virt]
    lpHalted    \* a page was mapped twice

lpVars == <<pml, lpCalls, lpHalted>>

PageSize == 2

EntrySize[i \in 1 .. LpLevels] == IF i = 1 THEN PageSize ELSE LpFan * EntrySize[i - 1]

SpaceSize == LpFan * EntrySize[LpLevels]

Masked(a, size) == (a \div size) * size

Leaf(phys) == [is |-> "page", phys |-> phys]
Table == [is |-> "table", phys |-> 0]
Remap == [is |-> "remap", phys |-> 0]

LpInit == pml = << >> /\ lpCalls = {} /\ lpHalted = FALSE

\* Where the entry of start ends, or the range.  Zero is the overflow on the highest addresses.
EntryEnd(start, end, size) ==
    LET next == Masked((start + size) % SpaceSize, size) IN IF next # 0 /\ next <= end THEN next ELSE end

NextPhysical(phys, size) == Masked(phys + size, size)

RECURSIVE VmMap(_, _, _, _, _, _)

\* The tables after _vm_map<level, lowest>, with Remap where a page was present.
VmMap(map, level, lowest, start, end, phys) ==
    IF start >= end THEN map
    ELSE LET size == EntrySize[level]
             entry == <<level, start \div size>>
             entryEnd == EntryEnd(start, end, size)
             below == IF level = lowest
                      THEN (entry :> IF entry \in DOMAIN map THEN Remap ELSE Leaf(phys)) @@ map
                      ELSE VmMap(map @@ (entry :> Table), level - 1, lowest, start, entryEnd, phys)
         IN  VmMap(below, level, lowest, entryEnd, end, NextPhysical(phys, size))

\* MUTANT of RangeEnd: the last, partial page is left out.
RangeEndShort(start, bytes, page) == Masked((start + bytes) % SpaceSize, page)

RangeEnd(start, bytes, page) == Masked((start + bytes + page - 1) % SpaceSize, page)

\* vm_map, vm_map_large and vm_map_huge.
LpMap(lowest, phys, bytes, virt) ==
    LET page == EntrySize[lowest]
        start == Masked(virt, page)
        map == VmMap(pml, LpLevels, lowest, start, RangeEnd(start, bytes, page), Masked(phys, page))
    IN  /\ bytes # 0
        /\ pml' = map
        /\ lpHalted' = \E e \in DOMAIN map : map[e] = Remap
        /\ lpCalls' = lpCalls \cup {[lowest |-> lowest, phys |-> phys, bytes |-> bytes, virt |-> virt]}

Bytes(call) == call.virt .. call.virt + call.bytes - 1

\* Ranges of pages of different sizes lie in different parts of the space
\* (boot-constants.h), and no range ends in the last page of the space.
LpNext ==
    \E lowest \in 1 .. LpLevels, r \in LpCalls :
        /\ ~ lpHalted /\ Cardinality(lpCalls) < LpMaxCalls
        /\ Masked(r.virt, EntrySize[lowest]) + r.bytes + EntrySize[lowest] - 1 < SpaceSize
        /\ \A call \in lpCalls : call.lowest # lowest =>
             \A a \in Bytes(call), b \in Bytes(r) : a \div EntrySize[LpLevels] # b \div EntrySize[LpLevels]
        /\ LpMap(lowest, r.phys, r.bytes, r.virt)

-----------------------------------------------------------------------------
\* The processor's walk from the root.
Walk[level \in 1 .. LpLevels, a \in 0 .. SpaceSize - 1] ==
    LET entry == <<level, a \div EntrySize[level]>>
    IN  IF entry \notin DOMAIN pml THEN {}
        ELSE IF pml[entry].is = "page" THEN {pml[entry].phys + (a % EntrySize[level])}
        ELSE Walk[level - 1, a]

(* A range whose place in the tables of the level above is that of its     *)
(* physical base is mapped as a whole: every address of it, counted from   *)
(* the start of its first page, to the same place behind the physical      *)
(* base, at the highest addresses too.                                     *)
LoaderMapsRange ==
    \A call \in lpCalls : (~ lpHalted /\ call.virt % EntrySize[LpLevels] = call.phys % EntrySize[LpLevels]) =>
        LET start == Masked(call.virt, EntrySize[call.lowest])
        IN  \A a \in start .. start + call.bytes - 1 :
              Walk[LpLevels, a] = {a - start + Masked(call.phys, EntrySize[call.lowest])}

(* The loader maps nothing but what it is asked for.                       *)
LoaderMapsNothingElse ==
    \A a \in 0 .. SpaceSize - 1 : (~ lpHalted /\ Walk[LpLevels, a] # {}) =>
        \E call \in lpCalls : \E b \in Bytes(call) :
            Masked(a, EntrySize[call.lowest]) \in {Masked(b, EntrySize[call.lowest]), Masked(call.virt, EntrySize[call.lowest])}

(* The loader's tables map what was asked for and only that.               *)
LoaderMapsExactly == LoaderMapsRange /\ LoaderMapsNothingElse
=============================================================================
