------------------------------- MODULE ApBoot -------------------------------
(***************************************************************************)
(* Starting the other cores: mp::boot on the bootstrap processor, the      *)
(* trampoline and ap_initialize on the others.                             *)
(*                                                                         *)
(* Cores are booted in batches, as many as there are pages for copies of   *)
(* the trampoline below 1 MiB.  A core may be dead, miss the first         *)
(* startup IPI, or start at any time after one: after the second timer     *)
(* has fired, too.  A core whose flag is 0 by then is taken out of the     *)
(* array, the cores behind it move up (reinit_as).                         *)
(*                                                                         *)
(* The processors are 1 .. ApCount, in the order of the array; ApBsp is    *)
(* the bootstrap processor.  The trampolines lie where the startup IPI     *)
(* points to: the low memory starts at 0 or at 4 KiB.                      *)
(***************************************************************************)
EXTENDS Integers, Sequences, FiniteSets

CONSTANTS ApCount, ApBsp, ApBatch

ASSUME ApAssumption == ApCount \in Nat /\ ApBsp \in 1 .. ApCount /\ ApBatch \in Nat \ {0}

VARIABLES
    cores,      \* the array, index -> [apic, id, accessed, flag]; flag is the page of _boot_flag
    booted,     \* booted: the first index of the batch, minus one
    bspPc,      \* "idle", "prepare", "sipi", "sipi2", "check", "done" or "panic"
    checked,    \* i of the last loop
    page,       \* page -> the flag and the stack slot of the trampoline in it
    cpu,        \* processor -> "off", "reset", "sipi", "tramp", "stacked", "lookup", "found", "idle" or "panic"
    startPage,  \* processor -> the page it starts in
    apStack,    \* processor -> the stack it runs on
    own,        \* processor -> the index of its core object
    stacks      \* the stacks allocated

apVars == <<cores, booted, bspPc, checked, page, cpu, startPage, apStack, own, stacks>>

Cpus == 1 .. ApCount

ApInit ==
    /\ cores = [i \in Cpus |-> [apic |-> i, id |-> 0, accessed |-> i = ApBsp, flag |-> 0]]
    /\ booted = 0 /\ bspPc = "idle" /\ checked = 0 /\ stacks = 0
    /\ page = [p \in 1 .. ApBatch |-> [flag |-> 0, stack |-> 0]]
    /\ cpu = [c \in Cpus |-> IF c = ApBsp THEN "idle" ELSE "off"]
    /\ startPage = [c \in Cpus |-> 0] /\ apStack = [c \in Cpus |-> 0]
    /\ own = [c \in Cpus |-> IF c = ApBsp THEN c ELSE 0]

Hardware == <<cpu, startPage, apStack, own>>

\* The INIT IPIs; a dead core does not react.
ApReset ==
    /\ bspPc = "idle"
    /\ bspPc' = "prepare"
    /\ \E alive \in SUBSET (Cpus \ {ApBsp}) : cpu' = [c \in Cpus |-> IF c \in alive THEN "reset" ELSE cpu[c]]
    /\ UNCHANGED <<cores, booted, checked, page, startPage, apStack, own, stacks>>

InBatch == {i \in DOMAIN cores : booted < i /\ i <= booted + ApBatch /\ cores[i].apic # ApBsp}

\* A trampoline and a stack for every core of the batch.
ApPrepare ==
    /\ bspPc = "prepare"
    /\ IF booted >= Len(cores)
       THEN /\ cores' = [i \in DOMAIN cores |-> IF cores[i].apic = ApBsp THEN [cores[i] EXCEPT !.id = i] ELSE cores[i]]
            /\ bspPc' = "done"
            /\ UNCHANGED <<page, stacks>>
       ELSE /\ page' = [p \in DOMAIN page |->
                          IF booted + p \in InBatch THEN [flag |-> 0, stack |-> stacks + p] ELSE page[p]]
            /\ cores' = [i \in DOMAIN cores |-> IF i \in InBatch THEN [cores[i] EXCEPT !.flag = i - booted] ELSE cores[i]]
            /\ stacks' = stacks + ApBatch
            /\ bspPc' = "sipi"
    /\ UNCHANGED <<booted, checked, Hardware>>

\* A startup IPI reaches the cores that wait for one; the first may be lost.
SipiTo(targets) ==
    /\ cpu' = [c \in Cpus |-> IF c \in targets /\ cpu[c] = "reset" THEN "sipi" ELSE cpu[c]]
    /\ startPage' = [c \in Cpus |->
         IF c \in targets /\ cpu[c] = "reset" THEN (CHOOSE i \in InBatch : cores[i].apic = c) - booted ELSE startPage[c]]
    /\ UNCHANGED <<apStack, own>>

ApSipi ==
    /\ bspPc = "sipi"
    /\ \E reached \in SUBSET {cores[i].apic : i \in InBatch} : SipiTo(reached)
    /\ bspPc' = "sipi2"
    /\ UNCHANGED <<cores, booted, checked, page, stacks>>

ApSipi2 ==
    /\ bspPc = "sipi2"
    /\ SipiTo({cores[i].apic : i \in {j \in InBatch : page[cores[j].flag].flag = 0}})
    /\ bspPc' = "check" /\ checked' = booted + 1
    /\ UNCHANGED <<cores, booted, page, stacks>>

-----------------------------------------------------------------------------
(* The last loop, after the second timer *)

\* MUTANT of Stays: the loop goes on with the index behind the core that moved up.
Skips(i) == i + 1

\* The index after a core was taken out: --i and ++i.
Stays(i) == i

\* The array without the core at i; a core behind it may not have been accessed.
Without(i) ==
    [j \in 1 .. Len(cores) - 1 |-> IF j < i THEN cores[j] ELSE [cores[j + 1] EXCEPT !.accessed = cores[j].accessed]]

ApCheck ==
    /\ bspPc = "check"
    /\ UNCHANGED <<page, Hardware, stacks>>
    /\ LET i == checked
       IN  \/ /\ i > booted + ApBatch \/ i > Len(cores)
              /\ booted' = booted + ApBatch /\ bspPc' = "prepare"
              /\ UNCHANGED <<cores, checked>>
           \/ /\ i <= booted + ApBatch /\ i <= Len(cores) /\ cores[i].apic = ApBsp
              /\ checked' = i + 1
              /\ UNCHANGED <<cores, booted, bspPc>>
           \/ /\ i \in InBatch /\ page[cores[i].flag].flag = 2
              /\ cores' = [cores EXCEPT ![i] = [cores[i] EXCEPT !.id = i]]
              /\ checked' = i + 1
              /\ UNCHANGED <<booted, bspPc>>
           \/ /\ i \in InBatch /\ page[cores[i].flag].flag = 0
              /\ IF \E j \in i .. Len(cores) - 1 : cores[j].accessed
                 THEN bspPc' = "panic" /\ UNCHANGED <<cores, booted, checked>>
                 ELSE cores' = Without(i) /\ booted' = booted - 1 /\ checked' = Stays(i) /\ UNCHANGED bspPc

-----------------------------------------------------------------------------
(* The other cores *)

Running == bspPc # "panic"

Raised(p) == [page EXCEPT ![p] = [flag |-> page[p].flag + 1, stack |-> page[p].stack]]

\* The first instruction of the trampoline.
TrampolineStart(c) ==
    /\ cpu[c] = "sipi" /\ Running
    /\ page' = Raised(startPage[c])
    /\ cpu' = [cpu EXCEPT ![c] = "tramp"]
    /\ UNCHANGED <<cores, booted, bspPc, checked, startPage, apStack, own, stacks>>

StackPage(c) == startPage[c]

\* Long mode: the stack is loaded, and then the flag is raised again.
TrampolineStack(c) ==
    /\ cpu[c] = "tramp" /\ Running
    /\ apStack' = [apStack EXCEPT ![c] = page[StackPage(c)].stack]
    /\ cpu' = [cpu EXCEPT ![c] = "stacked"]
    /\ UNCHANGED <<cores, booted, bspPc, checked, page, startPage, own, stacks>>

TrampolineEnd(c) ==
    /\ cpu[c] = "stacked" /\ Running
    /\ page' = Raised(startPage[c])
    /\ cpu' = [cpu EXCEPT ![c] = "lookup"]
    /\ UNCHANGED <<cores, booted, bspPc, checked, startPage, apStack, own, stacks>>

\* ap_initialize: get_core_by_apic_id, which panics for an unknown core.
ApLookup(c) ==
    /\ cpu[c] = "lookup" /\ Running
    /\ IF \E i \in DOMAIN cores : cores[i].apic = c
       THEN /\ own' = [own EXCEPT ![c] = CHOOSE i \in DOMAIN cores :
                                            cores[i].apic = c /\ \A j \in 1 .. i - 1 : cores[j].apic # c]
            /\ cpu' = [cpu EXCEPT ![c] = "found"]
       ELSE cpu' = [cpu EXCEPT ![c] = "panic"] /\ UNCHANGED own
    /\ UNCHANGED <<cores, booted, bspPc, checked, page, startPage, apStack, stacks>>

\* initialize_local_storage marks the object; it may have left the array.
ApAccess(c) ==
    /\ cpu[c] = "found" /\ Running
    /\ cores' = [i \in DOMAIN cores |-> IF i = own[c] THEN [cores[i] EXCEPT !.accessed = TRUE] ELSE cores[i]]
    /\ cpu' = [cpu EXCEPT ![c] = "idle"]
    /\ UNCHANGED <<booted, bspPc, checked, page, startPage, apStack, own, stacks>>

ApNext ==
    \/ ApReset \/ ApPrepare \/ ApSipi \/ ApSipi2 \/ ApCheck
    \/ \E c \in Cpus : TrampolineStart(c) \/ TrampolineStack(c) \/ TrampolineEnd(c) \/ ApLookup(c) \/ ApAccess(c)

ApSpec == ApInit /\ [][ApNext]_apVars

-----------------------------------------------------------------------------
Present == {cores[i].apic : i \in DOMAIN cores}

\* The cores that were taken out of the array and started after that.
Late == {c \in Cpus : c \notin Present /\ cpu[c] \notin {"off", "reset", "sipi"}}

(* When boot is done, the array holds the cores that have started and no   *)
(* other, and each has its index for an id: parallel_execute and the       *)
(* scheduler find cores by id.  A core that starts late can raise the flag *)
(* of another, and is left out.                                            *)
IdsMatchIndices ==
    (bspPc = "done" /\ Late = {}) =>
        \A i \in DOMAIN cores :
            cores[i].id = i /\ (cores[i].apic = ApBsp \/ cpu[cores[i].apic] \in {"lookup", "found", "idle"})

(* No two cores run on one stack, though a batch copies its trampolines    *)
(* over those of the batch before, unless a core starts late.              *)
StacksApart ==
    Late = {} => \A c, d \in Cpus : c # d /\ apStack[c] # 0 => apStack[c] # apStack[d]

(* Every core has an identity and a stack of its own.                      *)
CoresApart == IdsMatchIndices /\ StacksApart

(* The bootstrap processor does not wait for ever for a core that has      *)
(* raised its flag once, unless a core starts late: that one can raise the *)
(* flag of another beyond 2.                                               *)
BootEnds == (bspPc = "prepare") ~> (bspPc \in {"done", "panic"} \/ Late # {})
=============================================================================
