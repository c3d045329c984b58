------------------------------ MODULE PageTable ------------------------------
(***************************************************************************)
(* The page tables of amd64 (kernel/arch/amd64/memory/vm.cpp): vm_map and  *)
(* vm_unmap with a lock bit in every entry, clone_upper_half,              *)
(* unmap_lower_half, and the TLB shoot-down of tlb_invalidator.            *)
(*                                                                         *)
(* Two levels stand for the four: a root table per address space, whose    *)
(* entries point to tables of Fan pages.  The entries Lower .. of a root   *)
(* belong to the kernel.  A core's TLB keeps the translations that it has  *)
(* used; loading CR3 empties it (no code of the repository enables the     *)
(* global pages of CR4).  A shoot-down is what parallel_execute promises   *)
(* (module IpiQueue): every core runs the function once, and the caller    *)
(* waits.  Callers map only pages that are free and unmap what they have   *)
(* mapped, as the locks and the allocator of the layer above see to.       *)
(***************************************************************************)
EXTENDS Integers, Sequences, FiniteSets, Functions

CONSTANTS
    PtCores, PtSpaces, PtBoot,      \* the cores, the address spaces, the one of the boot
    Absent,
    Fan, Entries, Lower,            \* pages of a table, entries of a root, entries of its lower half
    PtBases,                        \* the physical pages that a range may be mapped to
    PtWatched,                      \* the pages whose translations are followed
    PtBatch,                        \* the pages of a tlb_invalidator (32)
    PtMaxCalls                      \* bound on the calls of vm_map and vm_unmap

ASSUME PtAssumption ==
    /\ PtBoot \in PtSpaces /\ Absent \notin PtSpaces /\ Absent \notin Nat
    /\ Fan \in Nat \ {0} /\ Entries \in Nat /\ Lower \in 1 .. Entries - 1
    /\ PtBases \subseteq Nat /\ PtWatched \subseteq 0 .. Fan * Entries - 1

VARIABLES
    roots,      \* space -> entry -> the table it points to, or Absent
    tables,     \* table -> index -> the physical page, or Absent
    lockBits,   \* the root entries that are locked: <<space, entry>>
    cr3,        \* core -> the space it runs in
    tlb,        \* core -> page -> translation
    op,         \* core -> the call it is in
    shoot,      \* core -> the shoot-down it waits for: [pages, asid, left]
    spaces,     \* the spaces that exist
    ptCalls

ptVars == <<roots, tables, lockBits, cr3, tlb, op, shoot, spaces, ptCalls>>

Pages == 0 .. Fan * Entries - 1
Entry(v) == v \div Fan
IsKernel(v) == Entry(v) >= Lower

NoOp == [kind |-> "none", pc |-> "out", space |-> PtBoot, from |-> 0, at |-> 0, end |-> 0,
         phys |-> 0, high |-> 0, base |-> 0, seen |-> Absent, batch |-> {}]
NoShoot == [pages |-> {}, asid |-> Absent, left |-> {}]

\* The loader has mapped itself, page by page, at the low addresses of the boot space.
PtInit ==
    /\ roots = [s \in PtSpaces |-> [e \in 0 .. Entries - 1 |-> IF s = PtBoot /\ e = 0 THEN 1 ELSE Absent]]
    /\ tables = <<[i \in 0 .. Fan - 1 |-> i]>>
    /\ lockBits = {}
    /\ cr3 = [c \in PtCores |-> PtBoot]
    /\ tlb = [c \in PtCores |-> << >>]
    /\ op = [c \in PtCores |-> NoOp]
    /\ shoot = [c \in PtCores |-> NoShoot]
    /\ spaces = {PtBoot}
    /\ ptCalls = 0

\* What the tables say of a page of a space (vm_virt_to_phys).
VirtToPhys(s, v) ==
    IF roots[s][Entry(v)] = Absent THEN Absent ELSE tables[roots[s][Entry(v)]][v % Fan]

Covers(o, s, v) == o.kind # "none" /\ v \in o.from .. o.end - 1 /\ (o.space = s \/ IsKernel(v))

Busy(s, v) == \E c \in PtCores : Covers(op[c], s, v)

NewTable(ts) == Append(ts, [i \in 0 .. Fan - 1 |-> Absent])

-----------------------------------------------------------------------------
(* map_physical and unmap *)

\* A call for n pages from v on.
CallOf(kind, s, v, n, p) ==
    [NoOp EXCEPT !.kind = kind, !.pc = "lock", !.space = s, !.from = v, !.at = v, !.end = v + n,
                 !.phys = p, !.high = p, !.base = p]

\* A range lies within one half; the kernel maps nothing low in the boot space.
PtCall(c) ==
    /\ op[c].kind = "none" /\ ptCalls < PtMaxCalls
    /\ ptCalls' = ptCalls + 1
    /\ \E kind \in {"map", "unmap"}, s \in spaces, v \in Pages, n \in 1 .. Fan + 1 :
         /\ v + n - 1 \in Pages /\ IsKernel(v) = IsKernel(v + n - 1)
         /\ s = cr3[c] \/ ~ IsKernel(v)
         /\ s = PtBoot => IsKernel(v)
         /\ \A w \in v .. v + n - 1 :
              ~ Busy(s, w) /\ (VirtToPhys(s, w) = Absent) = (kind = "map")
         /\ \E p \in IF kind = "map" THEN PtBases ELSE {0} : op' = [op EXCEPT ![c] = CallOf(kind, s, v, n, p)]
    /\ UNCHANGED <<roots, tables, lockBits, cr3, tlb, shoot, spaces>>

\* bit_lock: bit 62 of the entry is taken when it was clear.
LockBitClear(s, e) == <<s, e>> \notin lockBits

\* MUTANT of PtLock: the lock bit is not looked at.
LocksBlindly(c) ==
    /\ op[c].pc = "lock"
    /\ lockBits' = lockBits \cup {<<op[c].space, Entry(op[c].at)>>}
    /\ op' = [op EXCEPT ![c].pc = "probe"]
    /\ UNCHANGED <<roots, tables, cr3, tlb, shoot, spaces, ptCalls>>

PtLock(c) ==
    /\ op[c].pc = "lock"
    /\ LockBitClear(op[c].space, Entry(op[c].at))
    /\ lockBits' = lockBits \cup {<<op[c].space, Entry(op[c].at)>>}
    /\ op' = [op EXCEPT ![c].pc = "probe"]
    /\ UNCHANGED <<roots, tables, cr3, tlb, shoot, spaces, ptCalls>>

PtProbe(c) ==
    /\ op[c].pc = "probe"
    /\ op' = [op EXCEPT ![c].seen = roots[op[c].space][Entry(op[c].at)], ![c].pc = "table"]
    /\ UNCHANGED <<roots, tables, lockBits, cr3, tlb, shoot, spaces, ptCalls>>

\* The table below the entry, a new one if there was none.
PtTable(c) ==
    /\ op[c].pc = "table"
    /\ IF op[c].seen = Absent
       THEN /\ tables' = NewTable(tables)
            /\ roots' = [roots EXCEPT ![op[c].space][Entry(op[c].at)] = Len(tables) + 1]
       ELSE UNCHANGED <<roots, tables>>
    /\ op' = [op EXCEPT ![c].pc = "page", ![c].seen = IF @ = Absent THEN Len(tables) + 1 ELSE @]
    /\ UNCHANGED <<lockBits, cr3, tlb, shoot, spaces, ptCalls>>

\* The physical page with which the upper level goes on to its next entry.
NextHigh(phys) == ((phys + Fan) \div Fan) * Fan

\* One turn of the loop at the lowest level, under the lock of the page's entry.
PtPage(c) ==
    /\ op[c].pc = "page"
    /\ LET o == op[c]
           more == (o.at + 1) % Fan # 0 /\ o.at + 1 < o.end
           full == o.kind = "unmap" /\ Cardinality(o.batch) + 1 = PtBatch
       IN  /\ tables' = [tables EXCEPT ![o.seen][o.at % Fan] = IF o.kind = "map" THEN o.phys ELSE Absent]
           /\ op' = [op EXCEPT ![c].at = @ + 1, ![c].phys = @ + 1,
                               ![c].batch = IF o.kind = "map" THEN {} ELSE @ \cup {o.at},
                               ![c].pc = IF full THEN (IF more THEN "trigger_page" ELSE "trigger_unlock")
                                         ELSE IF more THEN "page" ELSE "unlock"]
    /\ UNCHANGED <<roots, lockBits, cr3, tlb, shoot, spaces, ptCalls>>

\* The entry's lock is released; the destructor of the invalidator triggers at the end.
PtUnlock(c) ==
    /\ op[c].pc = "unlock"
    /\ lockBits' = lockBits \ {<<op[c].space, Entry(op[c].at - 1)>>}
    /\ op' = [op EXCEPT ![c] =
                IF op[c].at < op[c].end
                THEN [@ EXCEPT !.pc = "lock", !.high = NextHigh(op[c].high), !.phys = NextHigh(op[c].high)]
                ELSE IF op[c].kind = "unmap" THEN [@ EXCEPT !.pc = "trigger_return"]
                ELSE NoOp]
    /\ UNCHANGED <<roots, tables, cr3, tlb, shoot, spaces, ptCalls>>

-----------------------------------------------------------------------------
(* tlb_invalidator *)

AfterTrigger(pc) ==
    CASE pc = "trigger_page" -> "page" [] pc = "trigger_unlock" -> "unlock" [] OTHER -> "return"

Triggering(c) == op[c].pc \in {"trigger_page", "trigger_unlock", "trigger_return"}

\* MUTANT of ShootAsid: kernel pages are invalidated only where the space is loaded.
AlwaysOwnAsid(c) == op[c].space

\* No address space for kernel pages: every core has them.
ShootAsid(c) == IF IsKernel(op[c].from) THEN Absent ELSE op[c].space

PtTrigger(c) ==
    /\ Triggering(c) /\ shoot[c].left = {} /\ op[c].batch # {}
    /\ shoot' = [shoot EXCEPT ![c] = [pages |-> op[c].batch, asid |-> ShootAsid(c), left |-> PtCores]]
    /\ op' = [op EXCEPT ![c].batch = {}]
    /\ UNCHANGED <<roots, tables, lockBits, cr3, tlb, spaces, ptCalls>>

\* Core d runs the function of core c's shoot-down.
PtInvalidate(c, d) ==
    /\ d \in shoot[c].left
    /\ tlb' = IF shoot[c].asid \in {Absent, cr3[d]}
              THEN [tlb EXCEPT ![d] = Restrict(@, DOMAIN @ \ shoot[c].pages)]
              ELSE tlb
    /\ shoot' = [shoot EXCEPT ![c].left = @ \ {d}]
    /\ UNCHANGED <<roots, tables, lockBits, cr3, op, spaces, ptCalls>>

AllDone(c) == shoot[c].left = {}

PtTriggered(c) ==
    /\ Triggering(c) /\ op[c].batch = {} /\ AllDone(c)
    /\ op' = [op EXCEPT ![c] = IF op[c].pc = "trigger_return" THEN NoOp ELSE [@ EXCEPT !.pc = AfterTrigger(op[c].pc)]]
    /\ UNCHANGED <<roots, tables, lockBits, cr3, tlb, shoot, spaces, ptCalls>>

-----------------------------------------------------------------------------
(* Address spaces and accesses *)

\* The lower half of the boot space is gone.
Lowered == \A e \in 0 .. Lower - 1 : roots[PtBoot][e] = Absent

\* unmap_lower_half, once: the entries are cleared, then all cores load CR3 again.
UnmapLowerHalf(c) ==
    /\ op[c].kind = "none" /\ ~ Lowered
    /\ roots' = [roots EXCEPT ![PtBoot] = [e \in DOMAIN @ |-> IF e < Lower THEN Absent ELSE @[e]]]
    /\ op' = [op EXCEPT ![c] = [NoOp EXCEPT !.kind = "lower", !.pc = "trigger_return",
                                            !.end = Lower * Fan, !.batch = Pages]]
    /\ UNCHANGED <<tables, lockBits, cr3, tlb, shoot, spaces, ptCalls>>

\* clone_upper_half, with the entry it is at in place of the pages of a range.
CloneUpperHalf(c, s) ==
    /\ op[c].kind = "none" /\ Lowered
    /\ s \notin spaces \cup {op[d].space : d \in PtCores}
    /\ op' = [op EXCEPT ![c] = [NoOp EXCEPT !.kind = "clone", !.pc = "entry", !.space = s,
                                            !.from = Lower, !.at = Lower, !.end = Lower]]
    /\ UNCHANGED <<roots, tables, lockBits, cr3, tlb, shoot, spaces, ptCalls>>

\* MUTANT of Hole: only the tables that exist are shared.
LeavesHoles(s, e) == FALSE

\* A kernel entry that clone_upper_half must fill first.
Hole(s, e) == roots[s][e] = Absent

\* An entry of the current space is filled and copied under its lock.
CloneEntry(c) ==
    /\ op[c].pc = "entry" /\ LockBitClear(cr3[c], op[c].at)
    /\ LET e == op[c].at
           s == op[c].space
           hole == Hole(cr3[c], e)
           table == IF hole THEN Len(tables) + 1 ELSE roots[cr3[c]][e]
       IN  /\ tables' = IF hole THEN NewTable(tables) ELSE tables
           /\ roots' = [roots EXCEPT ![cr3[c]][e] = table, ![s][e] = table]
           /\ IF e + 1 = Entries
              THEN op' = [op EXCEPT ![c] = NoOp] /\ spaces' = spaces \cup {s}
              ELSE op' = [op EXCEPT ![c].from = e + 1, ![c].at = e + 1, ![c].end = e + 1] /\ UNCHANGED spaces
    /\ UNCHANGED <<lockBits, cr3, tlb, shoot, ptCalls>>

SetAsid(c, s) ==
    /\ op[c].kind = "none" /\ s \in spaces \ {cr3[c]}
    /\ cr3' = [cr3 EXCEPT ![c] = s]
    /\ tlb' = [tlb EXCEPT ![c] = << >>]
    /\ UNCHANGED <<roots, tables, lockBits, op, shoot, spaces, ptCalls>>

\* The processor translates an address (external: the memory management unit).
Translate(c, v) ==
    /\ v \notin DOMAIN tlb[c] /\ VirtToPhys(cr3[c], v) # Absent
    /\ tlb' = [tlb EXCEPT ![c] = [w \in DOMAIN @ \cup {v} |-> IF w = v THEN VirtToPhys(cr3[c], v) ELSE @[w]]]
    /\ UNCHANGED <<roots, tables, lockBits, cr3, op, shoot, spaces, ptCalls>>

PtNext ==
    \E c \in PtCores :
        \/ PtCall(c) \/ PtLock(c) \/ PtProbe(c) \/ PtTable(c) \/ PtPage(c) \/ PtUnlock(c)
        \/ PtTrigger(c) \/ PtTriggered(c) \/ \E d \in PtCores : PtInvalidate(c, d)
        \/ UnmapLowerHalf(c) \/ CloneEntry(c)
        \/ \E s \in PtSpaces : CloneUpperHalf(c, s) \/ SetAsid(c, s)
        \/ \E v \in PtWatched : Translate(c, v)

PtSpec == PtInit /\ [][PtNext]_ptVars

-----------------------------------------------------------------------------
(* No core uses a translation that is gone: a page that no call is busy    *)
(* with is in a TLB only as the tables have it.  unmap has then returned,  *)
(* and its caller may give the frame to somebody else.                     *)
NoStaleTranslation ==
    \A c \in PtCores : \A v \in DOMAIN tlb[c] : Busy(cr3[c], v) \/ tlb[c][v] = VirtToPhys(cr3[c], v)

(* The kernel looks the same in every address space, whichever space a     *)
(* mapping was made in and whenever the space was cloned.                  *)
KernelShared ==
    \A s, t \in spaces : \A e \in Lower .. Entries - 1 :
        (\A c \in PtCores : op[c].kind = "none") => roots[s][e] = roots[t][e]

(* No table and no mapping is lost to a concurrent call: a page that a     *)
(* call has mapped is mapped in its space, one that it has unmapped is     *)
(* not.                                                                    *)
NoMappingLost ==
    \A c \in PtCores : \A v \in op[c].from .. op[c].at - 1 :
        (VirtToPhys(op[c].space, v) = Absent) = (op[c].kind = "unmap")

(* A range is mapped in one piece, page k of it to page k behind the       *)
(* physical base, when the range and the base have the same place in a     *)
(* table.                                                                  *)
MapsInOrder ==
    \A c \in PtCores : (op[c].kind = "map" /\ op[c].base % Fan = op[c].from % Fan) =>
        \A v \in op[c].from .. op[c].at - 1 : VirtToPhys(op[c].space, v) = op[c].base + v - op[c].from

(* What vm_map and vm_unmap have done stays done, in the right places,     *)
(* while another core works on the same tables.                            *)
CallsTakeEffect == NoMappingLost /\ MapsInOrder
=============================================================================
